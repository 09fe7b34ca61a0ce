--------------------------- MODULE WorkspaceFiles ---------------------------
(***************************************************************************)
(* What packages/agent/src/mutation does to the files of a workspace:      *)
(* when a patch is accepted (validate.ts, lines 16 to 61), what applying   *)
(* one writes and removes, and how a snapshot is put back (apply.ts).      *)
(* A tree maps a path to the id of its content; a proposal is a sequence   *)
(* of patches, and nothing keeps two of them from naming the same path.    *)
(***************************************************************************)
EXTENDS Integers, Sequences

CONSTANTS
    Paths,
    Planned,   \* the paths of the plan's expectedFiles and step targets
    Allowed,   \* the operations the policy allows; modify always is
    MaxFiles   \* MutationPolicy.maxFiles

Absent == -1
User   == -2     \* what the user writes
Committed == 0

\* A patch as the planner completes it: `hash' is that of the content it read.
\* oldPath equals path unless the operation is a rename.
Operations == {"create", "modify", "delete", "rename"}
Source(patch) == patch.oldPath
Touched(patch) == {patch.path, patch.oldPath}

\* git status --porcelain says something about the path.
NeverDirty(tree, head, p) == FALSE   \* mutant of isDirty
isDirty(tree, head, p) == tree[p] /= head[p]

\* One round of the loop of validateMutation, for one file.
Accepted(patch, tree, head) ==
    /\ Touched(patch) \subseteq Planned
    /\ patch.operation \in Allowed
    /\ patch.operation = "create" <=> tree[Source(patch)] = Absent
    /\ patch.operation = "rename" => tree[patch.path] = Absent
    /\ patch.operation /= "create" => patch.hash = tree[Source(patch)]
    /\ \A p \in Touched(patch) : ~isDirty(tree, head, p)

\* atomicWrite replaces the file, remove fails on a file that is not there.
Put(tree, p, content) == [tree EXCEPT ![p] = content]
Removable(tree, p)    == tree[p] /= Absent

\* restoreSnapshot, for one applied patch and the state its file had before.
UnrenamedUndone(tree, patch, before) ==   \* mutant of Undone: the new name stays
    Put(tree, Source(patch), before)
Undone(tree, patch, before) ==
    Put(IF patch.operation = "rename" THEN Put(tree, patch.path, Absent) ELSE tree,
        Source(patch), before)

\* A new name, and a file that was not there before, are unlinked, and restoreSnapshot
\* ignores an unlink that fails: the file stays, and the rest is put back.
Unlinks(patch, before) == patch.operation = "rename" \/ before = Absent
Overlooked(tree, patch, before) ==
    IF before = Absent THEN tree ELSE Put(tree, Source(patch), before)
=============================================================================
