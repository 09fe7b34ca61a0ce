----------------------------- MODULE TaskMemory -----------------------------
(***************************************************************************)
(* What a task runner keeps, and the helpers every phase of a task uses:   *)
(* packages/agent/src/task/runner.ts, lines 53 to 149.                     *)
(*                                                                         *)
(* One task is followed from its creation. A `flow' is one call of run or  *)
(* resume on the runner: an asynchronous function that other calls may     *)
(* overtake at every await. Each step below is the code between two awaits *)
(* that matter; setState's two writes (task row, then checkpoint) are one. *)
(* A tree is the set of uncommitted changes in it: a proposal is a change  *)
(* to files of its own, and the user's edit may be to any file.            *)
(***************************************************************************)
EXTENDS Integers, FiniteSets, TaskStates

CONSTANTS
    Flows,              \* calls of run and resume that may be under way at once
    Modes,              \* the modes a task may be submitted in
    Boxed,              \* the values of options.sandbox.enabled to consider
    MaxRepairAttempts,  \* TaskPolicy.maxRepairAttempts
    MaxIterations, MaxMutations, MaxReplans, MaxRepairs,  \* AutonomousBudget
    MaxDrafts,          \* bound: the plans and proposals with an identity
    MaxCrashes, MaxFaults, MaxEdits  \* bounds: what the environment may do

ASSUME ModesAssumption == Modes \subseteq TaskMode
ASSUME BoxedAssumption == Boxed \subseteq BOOLEAN
ASSUME PolicyAssumption ==
    /\ MaxRepairAttempts \in Nat /\ MaxIterations \in Nat
    /\ MaxMutations \in Nat /\ MaxReplans \in Nat /\ MaxRepairs \in Nat
ASSUME BoundsAssumption ==
    /\ MaxDrafts \in Nat \ {0}
    /\ MaxCrashes \in Nat /\ MaxFaults \in Nat /\ MaxEdits \in Nat

VARIABLES
    ck,         \* the durable checkpoint of the task
    exec,       \* the durable autonomous execution: its usage, it = 0 if there is none
    outcome,    \* the durable task outcome
    txns,       \* the durable mutation transaction of each proposal
    runs,       \* whether some verification run is stored
    sbx,        \* the durable status of the task's sandbox
    tree,       \* the changes in the canonical repository and in the sandbox
    drafts,     \* plans and proposals handed out so far
    running, cancel, use, reviewFail,  \* the runner: running, cancellationRequested,
                                       \* activeUsage, activeReviewFailure
    pc, kind,   \* per flow: the step it is at, and who catches its errors
    loc, base,  \* per flow: its `checkpoint', and start's while a callee has its own
    boxed,      \* options.sandbox.enabled of this runner
    approved, passed, late,  \* history: plans approved, trees that passed a
                             \* verification, trees changed since cancel was called
    crashes, faults, edits

store   == <<exec, outcome, txns, runs, drafts>>
world   == <<sbx, tree>>
session == <<running, cancel, use, reviewFail>>
control == <<pc, kind, loc, base>>
history == <<approved, passed, late>>
bounds  == <<boxed, crashes, faults, edits>>
vars    == <<ck, store, world, session, control, history, bounds>>

Drafts   == 1 .. MaxDrafts
Edited   == 0     \* the user's own uncommitted change
Clean    == {}    \* a tree as the user committed it
Contents == SUBSET (Drafts \cup {Edited})
NoUse    == [it |-> 0, mut |-> 0, rep |-> 0, pln |-> 0]
NoCk     == [state |-> "none", mode |-> "none", attempt |-> 0, plan |-> 0,
             prop |-> 0, txn |-> 0, resume |-> "none", sbx |-> FALSE, use |-> NoUse]
Writes   == {"edit", "auto"}   \* the modes that own a sandbox and mutate

Autonomous == use.it > 0   \* activeExecution is set
\* A model call hands out a new id; once the ids run out, the last one again.
Fresh      == IF drafts < MaxDrafts THEN drafts + 1 ELSE drafts
CanonicalRoot(f) == "repo"   \* mutant of Root: the sandbox is ignored
Root(f)    == IF loc[f].sbx THEN "sandbox" ELSE "repo"
Workspace(f) == tree[Root(f)]
At(f, p)   == pc[f] = p
On(f, p)   == At(f, p) /\ UNCHANGED bounds   \* the guard of a step of the runner
Goto(f, p) == pc' = [pc EXCEPT ![f] = p]

\* Mutants of To: every transition records a resume state, and none does.
ToAlwaysResumable(c, next) == [c EXCEPT !.state = next, !.resume = c.state]
ToNeverResumable(c, next)  == [c EXCEPT !.state = next, !.resume = "none"]

\* The checkpoint setState writes on the way to a state: transitionTaskState
\* guards it, and resumeState survives only in a paused one.
To(c, next) ==
    [c EXCEPT !.state = next,
              !.resume = IF next = "paused" THEN c.state ELSE "none"]

Save(f, c) == ck' = c /\ loc' = [loc EXCEPT ![f] = c]

SetState(f, c, next) == canTransition(c.state, next) /\ Save(f, To(c, next))

-----------------------------------------------------------------------------
flags == <<cancel, use, reviewFail>>

\* The end of a call. start and resume clear `running' in their finally; work
\* they return without awaiting outlives it, and a call that dies before
\* start's try never comes to it.
Return(f) ==
    /\ Goto(f, "idle")
    /\ kind' = [kind EXCEPT ![f] = "none"]
    /\ loc' = [loc EXCEPT ![f] = NoCk]
    /\ base' = [base EXCEPT ![f] = NoCk]
    /\ running' = IF kind[f] \in {"detached", "boot", "final"} THEN running ELSE FALSE

\* `checkpoint' as start's catch sees it: its callees assign copies of their own.
Start(f) == IF base[f] = NoCk THEN loc[f] ELSE base[f]

\* An error. start hands its own checkpoint to fail, resume the stored one, and
\* both return fail without awaiting it: their finally releases the runner
\* while fail still works. An error of fail itself, of detached work and of a
\* call not yet in a try reaches the caller.
Throw(f) ==
    /\ UNCHANGED <<ck, store, tree, flags, history>>
    /\ IF kind[f] \in {"start", "resume"}
       THEN /\ Goto(f, "fail")
            /\ kind' = [kind EXCEPT ![f] = "final"]
            /\ loc' = [loc EXCEPT ![f] = IF kind[f] = "start" THEN Start(f) ELSE ck]
            /\ running' = FALSE
            /\ UNCHANGED base
       ELSE Return(f)

\* A sandbox that was destroyed refuses every call: SANDBOX_DESTROYED.
Lost(f) == loc[f].sbx /\ sbx = "destroyed"

\* sandboxManager.resume, by ensureSandbox and resume, on the sandbox of a checkpoint.
Reopened == IF sbx = "paused" THEN "running" ELSE sbx

\* sandboxManager.pause, and finalize of a task that did not succeed.
Suspended == IF sbx = "running" THEN "paused" ELSE sbx

\* pauseAtBoundary: does nothing unless cancellation was requested.
NoBoundary == FALSE   \* mutant of AtBoundary
AtBoundary == cancel

Pause(f, c) ==
    /\ canTransition(c.state, "paused")
    /\ ck' = To(c, "paused")
    /\ sbx' = IF c.sbx THEN Suspended ELSE sbx
    /\ Return(f)

\* pauseForBudget: the usage is saved, and the sandbox is left running.
PauseForBudget(f) ==
    /\ canTransition(loc[f].state, "paused")
    /\ ck' = [To(loc[f], "paused") EXCEPT !.use = use]
    /\ exec' = use
    /\ Return(f)
    /\ UNCHANGED <<outcome, txns, runs, drafts, world, flags, history>>

\* complete, up to the state change; FinishComplete does the rest.
\* ck' and its caller's copy: start's catch still holds the checkpoint it had.
Complete(f) ==
    /\ On(f, "complete")
    /\ IF Lost(f)
       THEN Throw(f) /\ UNCHANGED sbx
       ELSE /\ SetState(f, loc[f], "completed")
            /\ base' = [base EXCEPT ![f] = Start(f)]
            /\ Goto(f, "finishComplete")
            /\ UNCHANGED <<store, world, session, kind, history>>

\* The outcome, the execution and the sandbox, after the state is durable.
FinishComplete(f) ==
    /\ On(f, "finishComplete")
    /\ outcome' = "success"
    /\ exec' = IF Autonomous THEN use ELSE exec
    /\ sbx' = IF loc[f].sbx THEN "destroyed" ELSE sbx
    /\ Return(f)
    /\ UNCHANGED <<ck, txns, runs, drafts, tree, flags, history>>

\* fail: a state with no edge to "failed" makes the failure itself an error.
Fail(f) ==
    /\ On(f, "fail")
    /\ IF canTransition(loc[f].state, "failed")
       THEN /\ Save(f, To(loc[f], "failed"))
            /\ Goto(f, "finishFail")
            /\ UNCHANGED <<store, world, session, kind, base, history>>
       ELSE Throw(f) /\ UNCHANGED sbx

FinishFail(f) ==
    /\ On(f, "finishFail")
    /\ outcome' = "failure"
    /\ exec' = IF Autonomous THEN use ELSE exec
    /\ sbx' = IF loc[f].sbx THEN Suspended ELSE sbx
    /\ Return(f)
    /\ UNCHANGED <<ck, txns, runs, drafts, tree, flags, history>>
=============================================================================
