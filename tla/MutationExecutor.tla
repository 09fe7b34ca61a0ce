-------------------------- MODULE MutationExecutor --------------------------
(***************************************************************************)
(* createMutationExecutor of packages/agent/src/execution/                 *)
(* mutation-executor.ts on a proposal of several files: validation file by *)
(* file, application file by file with its own rollback (apply.ts),        *)
(* verification, restoring and repair, while the user edits and calls fail.*)
(***************************************************************************)
EXTENDS WorkspaceFiles, FiniteSets

CONSTANTS
    Repository,    \* the committed tree, git's HEAD
    MaxAttempts,   \* 1 + maxRepairAttempts
    MaxFaults, MaxEdits   \* bounds: calls that fail, edits of the user

ASSUME ExecutorBounds ==
    /\ Planned \subseteq Paths /\ Allowed \subseteq Operations
    /\ Repository \in [Paths -> {Absent, Committed}]
    /\ MaxFiles \in Nat \ {0} /\ MaxAttempts \in Nat \ {0}
    /\ MaxFaults \in Nat /\ MaxEdits \in Nat

VARIABLES
    tree,      \* the working tree
    pc, i,     \* the step of the executor, and the file it is at
    attempt,
    proposal, snapshot,   \* the patches, and the states validation found
    applied,   \* how many of them are applied
    txn,       \* the durable status of the last transaction
    result,    \* what execute returned: "success", "failure", "unapplied", or
               \* threw: "rejected", "failed" (by a file), "error" (by memory or a model)
    verified,  \* history: the tree that passed its verification
    kept,      \* history: paths whose edit the executor knew or could have known of
    strays,    \* history: paths of files it should have removed and could not
    faults, edits

run  == <<pc, i, attempt, proposal, snapshot, applied, txn, result, verified>>
vars == <<tree, run, kept, strays, faults, edits>>

\* What a model may ask for, as the planner completes it on the tree it reads.
Shapes ==
    {[operation |-> o, path |-> p, oldPath |-> p] : o \in Operations \ {"rename"}, p \in Paths}
      \cup {s \in [operation : {"rename"}, path : Paths, oldPath : Paths] : s.path /= s.oldPath}

Patch(s, k) ==
    [operation |-> s.operation, path |-> s.path, oldPath |-> s.oldPath,
     hash |-> tree[s.oldPath], after |-> attempt * MaxFiles + k]

Propose ==
    \E n \in 1 .. MaxFiles : \E asked \in [1 .. n -> Shapes] :
        proposal' = [k \in 1 .. n |-> Patch(asked[k], k)]

Init ==
    /\ tree = Repository /\ pc = "called" /\ i = 1 /\ attempt = 1
    /\ proposal = <<>> /\ snapshot = <<>> /\ applied = 0
    /\ txn = "none" /\ result = "none" /\ verified = Repository
    /\ kept = {} /\ strays = {} /\ faults = 0 /\ edits = 0

Finish(r) == pc' = "done" /\ result' = r

\* The caller's proposal was made on the tree it found; it is stored first. In
\* mode "propose", and in mode "approve" without an approval, that is all.
Call ==
    /\ pc = "called"
    /\ Propose
    /\ \/ pc' = "validate" /\ UNCHANGED result
       \/ Finish("unapplied")
    /\ UNCHANGED <<tree, i, attempt, snapshot, applied, txn, verified, kept, strays, faults, edits>>

\* validateMutation: the next file is read and judged; after a refusal the rest
\* is only read. MUTATION_REJECTED also answers a text that is too long or does
\* not fit its file, and a read that fails.
Validate ==
    /\ pc = "validate"
    /\ \/ /\ Accepted(proposal[i], tree, Repository)
          /\ snapshot' = Append(snapshot, tree[Source(proposal[i])])
          /\ IF i < Len(proposal) THEN i' = i + 1 /\ UNCHANGED pc
             ELSE i' = 1 /\ pc' = "apply"
          /\ UNCHANGED result
       \/ Finish("rejected") /\ UNCHANGED <<i, snapshot>>
    /\ UNCHANGED <<tree, attempt, proposal, applied, txn, verified, kept, strays, faults, edits>>

\* Mutants of Advance: the last file is forgotten, or a file is counted as
\* applied only with the last one.
AdvanceEarly ==
    /\ applied' = i
    /\ IF i + 1 < Len(proposal) THEN i' = i + 1 /\ pc' = "apply" ELSE i' = i /\ pc' = "store"
AdvanceUncounted ==
    /\ applied' = IF i < Len(proposal) THEN applied ELSE i
    /\ IF i < Len(proposal) THEN i' = i + 1 /\ pc' = "apply" ELSE i' = i /\ pc' = "store"

\* A file is done; after the last one the transaction is stored.
Advance ==
    /\ applied' = i
    /\ IF i < Len(proposal) THEN i' = i + 1 /\ pc' = "apply" ELSE i' = i /\ pc' = "store"

\* A write or a removal fails: applyValidatedMutation restores what it applied.
Abandon == pc' = "undo" /\ i' = applied /\ UNCHANGED <<tree, applied>>

Apply ==
    LET f == proposal[i]
    IN /\ pc = "apply"
       /\ \/ /\ faults < MaxFaults /\ faults' = faults + 1
             /\ Abandon
          \/ /\ UNCHANGED faults
             /\ IF f.operation = "delete"
                THEN IF Removable(tree, f.path)
                     THEN tree' = Put(tree, f.path, Absent) /\ Advance
                     ELSE Abandon
                ELSE /\ tree' = Put(tree, f.path, f.after)
                     /\ IF f.operation = "rename" THEN pc' = "unlink" /\ UNCHANGED <<i, applied>>
                        ELSE Advance
       /\ UNCHANGED <<attempt, proposal, snapshot, txn, result, verified, kept, strays, edits>>

\* The second half of a rename: the old name goes. If it cannot, nobody takes the
\* new one back: the patch is not among the applied ones.
Unlink ==
    LET f == proposal[i]
    IN /\ pc = "unlink"
       /\ \/ /\ Removable(tree, f.oldPath)
             /\ tree' = Put(tree, f.oldPath, Absent)
             /\ Advance /\ UNCHANGED <<strays, faults>>
          \/ /\ \/ ~Removable(tree, f.oldPath) /\ UNCHANGED faults
                \/ faults < MaxFaults /\ faults' = faults + 1
             /\ Abandon /\ strays' = strays \cup {f.path}
       /\ UNCHANGED <<attempt, proposal, snapshot, txn, result, verified, kept, edits>>

\* persistMutationTransaction, "applied".
Store ==
    /\ pc = "store"
    /\ txn' = "applied" /\ pc' = "verify"
    /\ UNCHANGED <<tree, i, attempt, proposal, snapshot, applied, result, verified, kept, strays, faults, edits>>

\* runVerification passes or fails on the tree as it is now.
Verify ==
    /\ pc = "verify"
    /\ \/ pc' = "succeed" /\ verified' = tree /\ UNCHANGED i
       \/ pc' = "restore" /\ i' = applied /\ UNCHANGED verified
    /\ UNCHANGED <<tree, attempt, proposal, snapshot, applied, txn, result, kept, strays, faults, edits>>

Succeed ==
    /\ pc = "succeed"
    /\ txn' = "verified" /\ Finish("success")
    /\ UNCHANGED <<tree, i, attempt, proposal, snapshot, applied, verified, kept, strays, faults, edits>>
-----------------------------------------------------------------------------
\* restoreSnapshot, backwards over the applied files, for a failed application
\* (then the error is thrown again) and for a failed verification.
Undo ==
    /\ pc \in {"undo", "restore"}
    /\ IF i > 0
       THEN /\ \/ /\ tree' = Undone(tree, proposal[i], snapshot[i])
                  /\ strays' = strays \ Touched(proposal[i])
                  /\ UNCHANGED faults
               \/ /\ faults < MaxFaults /\ faults' = faults + 1
                  /\ Unlinks(proposal[i], snapshot[i])
                  /\ tree' = Overlooked(tree, proposal[i], snapshot[i])
                  /\ strays' = strays \cup {proposal[i].path}
            /\ i' = i - 1
            /\ UNCHANGED <<pc, result>>
       ELSE /\ IF pc = "undo" THEN Finish("failed") ELSE pc' = "restored" /\ UNCHANGED result
            /\ UNCHANGED <<tree, i, strays, faults>>
    /\ UNCHANGED <<attempt, proposal, snapshot, applied, txn, verified, kept, edits>>

SameAttempt == attempt       \* mutant of NextAttempt
NextAttempt == attempt + 1

\* The transaction is stored as rolled back; then the last failure, or a repair.
Restored ==
    /\ pc = "restored"
    /\ txn' = "rolled_back"
    /\ \/ /\ Finish("failure")    \* no attempts are left, or nothing repairs
          /\ UNCHANGED attempt
       \/ /\ attempt < MaxAttempts
          /\ pc' = "repair" /\ attempt' = NextAttempt
          /\ UNCHANGED result
    /\ UNCHANGED <<tree, i, proposal, snapshot, applied, verified, kept, strays, faults, edits>>

\* options.repair proposes anew, on the tree as it is.
Repair ==
    /\ pc = "repair"
    /\ Propose
    /\ pc' = "validate" /\ i' = 1
    /\ snapshot' = <<>> /\ applied' = 0
    /\ UNCHANGED <<tree, attempt, txn, result, verified, kept, strays, faults, edits>>

\* Memory or a model fails, or putting back does: execute throws on the spot.
Break ==
    /\ pc \in {"called", "store", "verify", "succeed", "undo", "restore", "restored", "repair"}
    /\ faults < MaxFaults /\ faults' = faults + 1
    /\ Finish("error")
    /\ UNCHANGED <<tree, i, attempt, proposal, snapshot, applied, txn, verified, kept, strays, edits>>

Work ==
    \/ Call \/ Validate \/ Apply \/ Unlink \/ Store \/ Verify \/ Succeed
    \/ Undo \/ Restored \/ Repair

\* The paths between their validation and the end of the round.
InFlight ==
    IF pc \in {"apply", "unlink", "store", "verify", "succeed", "undo", "restore"}
    THEN UNION {Touched(proposal[k]) : k \in 1 .. Len(proposal)}
    ELSE IF pc = "validate" THEN UNION {Touched(proposal[k]) : k \in 1 .. i - 1}
    ELSE {}

\* The user writes a file; the executor may have one of its own in place there.
Edit(p) ==
    /\ pc /= "done" /\ edits < MaxEdits
    /\ edits' = edits + 1
    /\ tree' = Put(tree, p, User)
    /\ kept' = IF p \in InFlight THEN kept ELSE kept \cup {p}
    /\ UNCHANGED <<run, strays, faults>>

Next == Work \/ Break \/ \E p \in Paths : Edit(p)

Spec     == Init /\ [][Next]_vars
\* Every call of the executor returns or fails.
FairSpec == Spec /\ WF_vars(Work)
-----------------------------------------------------------------------------
\* "rolls back a mutation when verification fails": whatever was tried, a call
\* that did not succeed leaves the committed files or the user's, but for files
\* it could not remove: the new name of a rename that failed half way, and what
\* restoreSnapshot failed to unlink. And no transaction says applied.
NothingLeftBehind ==
    result \in {"failure", "unapplied", "rejected", "failed"} =>
        /\ \A p \in Paths \ strays : tree[p] \in {Repository[p], User}
        /\ txn \in {"none", "rolled_back"}

\* What the first n patches of a proposal make of a path: what the last of them
\* to name it does, and the committed content if none does.
Left(patch, p) ==
    IF patch.operation = "delete" \/ (patch.operation = "rename" /\ p = patch.oldPath)
    THEN Absent ELSE patch.after
Made(n, p, content) ==
    \/ content = Repository[p] /\ \A k \in 1 .. n : p \notin Touched(proposal[k])
    \/ \E k \in 1 .. n :
          /\ p \in Touched(proposal[k]) /\ content = Left(proposal[k], p)
          /\ \A j \in k + 1 .. n : p \notin Touched(proposal[j])

\* A success means that the verification saw every file of the proposal, on top
\* of the committed files and the user's and of nothing an earlier round wrote,
\* but for what that one could not remove; and that nothing but the user has
\* changed a file since.
SuccessIsVerified ==
    result = "success" =>
        /\ txn = "verified"
        /\ \A p \in Paths \ strays : verified[p] = User \/ Made(Len(proposal), p, verified[p])
        /\ \A p \in Paths : tree[p] \in {verified[p], User}

\* "preserves unrelated user changes byte-for-byte", and related ones unless
\* they come between the validation of their file and the end of the round.
TimelyEditsSurvive == \A p \in kept : tree[p] = User

\* The attempts end the call.
Ends == <>(pc = "done")
=============================================================================
