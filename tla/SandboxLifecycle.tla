-------------------------- MODULE SandboxLifecycle --------------------------
(***************************************************************************)
(* SandboxManager (sandbox/core/sandbox-manager.ts) over the local         *)
(* provider (local-process-provider.ts): the one sandbox of a task, as     *)
(* ensureSandbox, the mutation loop, the pauses and the end of a task in   *)
(* task/runner.ts call for it, one call at a time.  The record is durable; *)
(* the handle, which says where the workspace is, dies with the process,   *)
(* and the directories under the system's temporary one may be cleaned up  *)
(* at any time.  A call that throws ends at "idle"; one that throws        *)
(* before it has changed anything is no step here.                         *)
(***************************************************************************)
EXTENDS Integers, Sequences

CONSTANTS
    Retentions,  \* retention policies of a sandbox
    Requests,    \* [executable, action, hosts]: what execute is asked to run
    AllowedHosts,   \* of the network policy: none by default
    MaxRoots,    \* bound: temporary directories made
    MaxEdits,    \* bound: changes of a workspace; a tree is the number of its last change
    MaxTaken,    \* bound: snapshots
    MaxTroubles  \* bound: ends of the process and losses of directories

VARIABLE boxed

None == 0
Missing == -1   \* no workspace directory
Partial == -2   \* a copy that broke off
Repository == 0

Init == \E retention \in Retentions :
    boxed = [pc |-> "idle", retention |-> retention, stored |-> [status |-> "none", path |-> None, snapshot |-> None],
             handle |-> None,    \* the root the manager works in, None when it has no handle
             roots |-> <<>>,     \* [tree, gone]: each temporary directory, with its workspace
             taken |-> <<>>,     \* [root, tree]: the snapshots stored, each a directory in a root
             bound |-> FALSE,     \* the task's checkpoint names the sandbox
             run |-> "none",      \* the runner: "open" works in it, "failing" could not reopen it
             over |-> FALSE,      \* the task is completed or cancelled
             held |-> {}, adopted |-> FALSE, edits |-> 0, troubles |-> 0]

On(pc) == boxed.pc = pc
Status == boxed.stored.status
Idle == On("idle") /\ boxed.bound
Open == Idle /\ boxed.run = "open"
Where == IF boxed.handle # None THEN boxed.handle ELSE boxed.stored.path
Tree == boxed.roots[Where].tree
Exists == Tree # Missing

transitions == [created |-> {"preparing", "failed"}, preparing |-> {"ready", "failed"},
                ready |-> {"running", "stopping", "failed"}, running |-> {"paused", "stopping", "failed"},
                paused |-> {"running", "stopping", "failed"}, stopping |-> {"destroyed", "failed"},
                destroyed |-> {}, failed |-> {"preparing", "stopping"}]
Can(status) == status \in transitions[Status]

\* ---------------------------------------------------------- create and prepare
NewRoot == [tree |-> Missing, gone |-> FALSE]
NextRoot == Len(boxed.roots) + 1

\* A crash before the checkpoint names the sandbox makes another one of the same id.
Create ==
    /\ On("idle") /\ ~boxed.bound /\ Len(boxed.roots) < MaxRoots
    /\ boxed' = [boxed EXCEPT !.pc = "created", !.roots = Append(@, NewRoot), !.handle = NextRoot,
                              !.stored = [status |-> "created", path |-> NextRoot, snapshot |-> None]]

Preparing == /\ On("created") /\ Can("preparing")
             /\ boxed' = [boxed EXCEPT !.pc = "copy", !.stored.status = "preparing"]

\* The repository is copied into the workspace; links that lead out of it are an error.
Copy ==
    /\ On("copy")
    /\ \/ boxed' = [boxed EXCEPT !.pc = "ready", !.roots[Where].tree = Repository, !.held = {Repository}]
       \/ \E left \in {Missing, Partial} :
             boxed' = [boxed EXCEPT !.pc = "idle", !.roots[Where].tree = left, !.stored.status = "failed"]

Ready == /\ On("ready") /\ Can("ready")
         /\ boxed' = [boxed EXCEPT !.pc = "baseline", !.stored.status = "ready"]
Start == /\ On("start") /\ Can("running")
         /\ boxed' = [boxed EXCEPT !.pc = "bind", !.stored.status = "running"]
Bind == /\ On("bind")
        /\ boxed' = [boxed EXCEPT !.pc = "idle", !.bound = TRUE, !.run = "open"]

\* The workspace is copied and the snapshot stored; then the sandbox names it.
Snapshot ==
    LET at == On("baseline")
    IN /\ at \/ (Open /\ Exists)
       /\ Len(boxed.taken) < MaxTaken
       /\ IF Exists
          THEN boxed' = [boxed EXCEPT !.pc = IF at THEN "based" ELSE "taken",
                                      !.taken = Append(@, [root |-> Where, tree |-> Tree])]
          ELSE boxed' = [boxed EXCEPT !.pc = "idle", !.stored.status = "failed"]
Record ==
    /\ On("based") \/ On("taken")
    /\ boxed' = [boxed EXCEPT !.pc = IF On("based") THEN "start" ELSE "idle",
                              !.stored.snapshot = Len(boxed.taken)]

\* -------------------------------------------------------------- use and resume
blockedExecutables ==
    {"sudo", "su", "ssh", "scp", "shutdown", "reboot", "rm", "sh", "bash", "zsh", "fish"}
requireApprovalExecutables == {"curl", "wget"}
authorizedActions(executable) ==
    CASE executable \in {"npm", "pnpm", "yarn", "bun"} -> {"test", "run", "exec"}
      [] executable = "cargo" -> {"test", "check", "clippy", "fmt"}
      [] executable = "go" -> {"test", "vet"}
      [] executable = "git" -> {"status", "diff", "rev-parse", "ls-files"}
      [] OTHER -> {}
authorizeSandboxCommand(request) ==
    IF request.executable \in blockedExecutables THEN "blocked"
    ELSE IF request.executable \in requireApprovalExecutables THEN "requiresApproval"
    ELSE IF request.action \in authorizedActions(request.executable) THEN "allowed" ELSE "blocked"

\* No approval helps a command that names a host the network policy does not allow.
Approved(request, answer) ==
    /\ \/ authorizeSandboxCommand(request) = "allowed"
       \/ authorizeSandboxCommand(request) = "requiresApproval" /\ answer
    /\ request.hosts \subseteq AllowedHosts

Changed == [boxed EXCEPT !.edits = @ + 1, !.roots[Where].tree = boxed.edits + 1, !.held = {boxed.edits + 1}]

\* A command that runs, to its end or until a limit stops it, may change the workspace; one that
\* does not, or that the policy blocks, leaves only its result.
Execute(request, answer) ==
    /\ Open /\ Status = "running"
    /\ Approved(request, answer) /\ Exists /\ boxed.edits < MaxEdits
    /\ boxed' = Changed

\* The runner's own change of the workspace, between two snapshots.
Mutate == /\ Open /\ Exists /\ boxed.edits < MaxEdits
          /\ boxed' = Changed

Readable(snapshot) == ~boxed.roots[boxed.taken[snapshot].root].gone

Restore(snapshot) ==
    /\ Open /\ snapshot \in 1 .. Len(boxed.taken)
    /\ boxed' = IF Exists /\ Readable(snapshot)
                THEN [boxed EXCEPT !.roots[Where].tree = boxed.taken[snapshot].tree,
                                   !.held = {boxed.taken[snapshot].tree}]
                ELSE [boxed EXCEPT !.stored.status = "failed"]

Pause == /\ Open /\ Can("paused")
         /\ boxed' = [boxed EXCEPT !.stored.status = "paused", !.run = "none"]

\* A workspace that is there is taken as it is; of a lost one the newest snapshot is restored
\* into a new directory, which becomes the manager's before anything is in it.
Resume ==
    /\ Idle /\ ~Open /\ Status # "destroyed"
    /\ IF Exists
       THEN boxed' = [boxed EXCEPT !.pc = "compare", !.handle = Where,
                                   !.adopted = @ \/ Where # boxed.stored.path]
       ELSE /\ Len(boxed.roots) < MaxRoots
            /\ boxed' = [boxed EXCEPT !.pc = "recopy", !.roots = Append(@, NewRoot), !.handle = NextRoot]

Recopy ==
    /\ On("recopy")
    /\ \/ boxed' = [boxed EXCEPT !.pc = "restore", !.roots[Where].tree = Repository]
       \/ \E left \in {Missing, Partial} :
             boxed' = [boxed EXCEPT !.pc = "idle", !.run = "failing", !.roots[Where].tree = left]

Newest == IF boxed.stored.snapshot # None THEN boxed.stored.snapshot ELSE Len(boxed.taken)
Refill ==
    /\ On("restore")
    /\ boxed' = IF Readable(Newest)
                THEN [boxed EXCEPT !.pc = "recovered", !.roots[Where].tree = boxed.taken[Newest].tree]
                ELSE [boxed EXCEPT !.pc = "idle", !.run = "failing"]

\* Mutant of Recovered: the record keeps the path it had.
RecoveredInPlace ==
    /\ On("recovered")
    /\ boxed' = [boxed EXCEPT !.pc = "compare", !.stored.status = "paused"]
Recovered ==
    /\ On("recovered")
    /\ boxed' = [boxed EXCEPT !.pc = "compare", !.stored.status = "paused", !.stored.path = Where]

\* The environment must be the one the sandbox was prepared in.
Compare(same) ==
    /\ On("compare")
    /\ boxed' = IF ~same THEN [boxed EXCEPT !.pc = "idle", !.run = "failing"]
                ELSE [boxed EXCEPT !.pc = "idle", !.run = IF boxed.over THEN "none" ELSE "open",
                                   !.stored.status = IF @ = "paused" THEN "running" ELSE @]

\* ------------------------------------------------------------------------- end
\* What is left of the work when the workspace goes is the newest snapshot, or the one before
\* it if the newest is not named yet.
Snapshots == {boxed.taken[k].tree : k \in {n \in 1 .. Len(boxed.taken) : n >= Newest}}
Lost(k) == IF k = boxed.stored.path THEN Snapshots ELSE boxed.held

\* The difference to the last snapshot reads both trees.
Comparable == Exists /\ Readable(boxed.stored.snapshot)

\* The end of a run that did not pause.  The difference is stored first; a failed task keeps
\* its sandbox and may be resumed.
Finalize(success, cancelled) ==
    LET destroys == boxed.retention = "destroy" \/ (boxed.retention = "retain-on-failure" /\ success)
        ended == [boxed EXCEPT !.run = "none", !.over = @ \/ success \/ cancelled]
    IN /\ Open \/ (Idle /\ boxed.run = "failing" /\ ~success /\ ~boxed.over)
       /\ boxed' = IF ~Comparable THEN ended
                   ELSE IF destroys THEN [ended EXCEPT !.pc = "stop"]
                   ELSE IF Status = "running" THEN [ended EXCEPT !.stored.status = "paused"] ELSE ended

Stop == /\ On("stop") /\ (Status = "stopping" \/ Can("stopping"))
        /\ boxed' = [boxed EXCEPT !.pc = "remove", !.stored.status = "stopping"]
Remove == /\ On("remove")
          /\ boxed' = [boxed EXCEPT !.pc = "released", !.held = Lost(Where),
                                    !.roots[Where] = [tree |-> Missing, gone |-> TRUE]]
Destroyed == /\ On("released") /\ Can("destroyed")
             /\ boxed' = [boxed EXCEPT !.pc = "idle", !.stored.status = "destroyed", !.handle = None]

\* -------------------------------------------------------------------- troubles
Trouble(after) ==
    /\ boxed.troubles < MaxTroubles
    /\ boxed' = [after EXCEPT !.troubles = @ + 1]
Restart == Trouble([boxed EXCEPT !.pc = "idle", !.run = "none", !.handle = None])

Lose(k, root) ==
    Trouble([boxed EXCEPT !.roots[k] = root, !.held = Lost(k)])
LoseWorkspace == \E k \in 1 .. Len(boxed.roots) :
    boxed.roots[k].tree # Missing /\ Lose(k, [boxed.roots[k] EXCEPT !.tree = Missing])
LoseRoot == \E k \in 1 .. Len(boxed.roots) :
    ~boxed.roots[k].gone /\ Lose(k, [tree |-> Missing, gone |-> TRUE])

Next ==
    \/ Create \/ Preparing \/ Copy \/ Ready \/ Start \/ Bind
    \/ Snapshot \/ Record \/ Mutate \/ Pause
    \/ \E request \in Requests, answer \in BOOLEAN : Execute(request, answer)
    \/ \E snapshot \in 1 .. Len(boxed.taken) : Restore(snapshot)
    \/ Resume \/ Recopy \/ Refill \/ Recovered \/ (\E same \in BOOLEAN : Compare(same))
    \/ (\E success, cancelled \in BOOLEAN : Finalize(success, cancelled)) \/ Stop \/ Remove \/ Destroyed
    \/ Restart \/ LoseWorkspace \/ LoseRoot

\* ----------------------------------------------------------------- properties
\* "resumes a retained sandbox through a new provider instance": whatever the process and the
\* temporary directories went through, the workspace a run works in holds what was last written
\* to it, or, if it was lost since, the newest snapshot; never an older one and never a bare
\* copy of the repository.  A sandbox that is stored as destroyed has left no workspace where
\* its record says.  Neither is promised once a call has taken up the directory that an earlier
\* recovery in the same process left behind when it failed (sandbox-manager.ts 25-47).
KeptWork ==
    \/ boxed.adopted
    \/ /\ Open /\ Exists => Tree \in boxed.held
       /\ Status = "destroyed" => boxed.roots[boxed.stored.path].tree = Missing
=============================================================================
