------------------------------- MODULE TaskSession -------------------------------
(***************************************************************************)
(* One task of the runtime server (ide/runtime-server.ts): the state it    *)
(* shows, the calls by which a client controls the task, and the runner    *)
(* behind it.  The runner is reduced to what the server can tell apart:    *)
(* where it looks at a cancellation request, where it asks for approval,   *)
(* whether it takes itself to be running, and what it returns.  It forgets *)
(* runs that are still under way, so that several may work on the task.    *)
(* A step runs from one await on the file system or the network to the     *)
(* next; the runner's return and the first part of settleTask are one.     *)
(***************************************************************************)
EXTENDS Integers

CONSTANTS
    Runs,          \* runs of the task that may be under way at a time
    MaxControls    \* bound: calls of the client

VARIABLES
    session,    \* the state shown; resolveApproval: none, open, or used and not cleared; whose
    runner,     \* `running' and cancellationRequested
    runs,       \* where each run is, what called for it, the decision it was given
    stored,     \* the checkpoint: its state and resumeState
    alive,      \* the server process
    asked       \* ghost: the control that stands, the calls so far, whether runs overlapped

vars == <<session, runner, runs, stored, alive, asked>>

Terminal == {"completed", "failed", "cancelled"}
Stored(state, resumeState) == [state |-> state, resumeState |-> resumeState]
Run(at, by) == [at |-> at, by |-> by, decision |-> "none"]   \* by run, resume, or resume's start
At(r, place) == runs[r].at = place
Active(r) == runs[r].at \notin {"idle", "settling"}
AtRest == \A r \in Runs : ~Active(r)

\* createTask: the runner has announced the task, which is entered as running.
Init ==
    /\ \E r \in Runs :
          /\ runs = [q \in Runs |-> Run(IF q = r THEN "early" ELSE "idle", "run")]
          /\ session = [state |-> "running", resolver |-> "none", asker |-> r]
    /\ runner = [running |-> TRUE, cancel |-> FALSE]
    /\ stored = Stored("planning", "none")
    /\ alive = TRUE
    /\ asked = [standing |-> "none", calls |-> 0, overlap |-> FALSE]

\* ------------------------------------------------------------------ the end of a run
\* The loop of a resumed run is not awaited.
Detached(r) == At(r, "working") /\ runs[r].by = "resume"

\* `finally' clears `running', but for a detached loop it ran long ago; a pause that answers
\* the approval request raises the flag for everybody.
Leave(r, place, state) ==
    /\ runs' = [runs EXCEPT ![r] = Run(place, "run")]
    /\ runner' = [running |-> runner.running /\ Detached(r),
                  cancel  |-> runner.cancel \/ (At(r, "waiting") /\ state = "paused")]
    /\ UNCHANGED asked

\* A run returns with a state; settleTask turns a pause into the cancellation asked for.
ReturnAsIs(r, state, resumeState) ==   \* mutant of Return
    /\ Leave(r, "idle", state) /\ stored' = Stored(state, resumeState)
    /\ session' = [session EXCEPT !.state = state]
Return(r, state, resumeState) ==
    IF session.state = "cancelling" /\ state = "paused"
    THEN Leave(r, "settling", state) /\ stored' = Stored("cancelled", "none") /\ UNCHANGED session
    ELSE /\ Leave(r, "idle", state) /\ stored' = Stored(state, resumeState)
         /\ session' = [session EXCEPT !.state = state]

\* After its writes settleTask shows the task as cancelled.
Settle(r) ==
    /\ At(r, "settling")
    /\ runs' = [runs EXCEPT ![r] = Run("idle", "run")]
    /\ session' = [session EXCEPT !.state = "cancelled"]
    /\ UNCHANGED <<runner, stored, alive, asked>>

\* Where a resumed task goes on.
Target == IF stored.state = "paused" THEN stored.resumeState ELSE stored.state

\* The checkpoint with which the task is to fail: start's own; resume reads it again, before
\* or after it has restated it, a failed one as a task to be planned.
Held(r) ==
    CASE At(r, "loading")        -> {stored.state, IF Target = "failed" THEN "planning" ELSE Target}
      [] runs[r].by = "resume"   -> {stored.state}
      [] At(r, "early")          -> {"planning"}
      [] At(r, "asking")         -> {"awaiting_approval"}
      [] OTHER                   -> {"mutating"}
MayFail == {"planning", "mutating"}   \* the others have no transition to failed

\* start and resume catch what is thrown and return the promise of fail: `running' is cleared
\* before fail has written.  What a detached loop throws, or fail itself, ends the process,
\* because nobody handles the rejection, unless it is the run of createTask.
Throws(r) ==
    /\ runs[r].at \in {"early", "asking", "working", "loading"}
    /\ \/ /\ ~Detached(r) /\ Held(r) \cap MayFail # {}
          /\ runs' = [runs EXCEPT ![r] = Run("failing", "run")]
          /\ runner' = [runner EXCEPT !.running = FALSE]
          /\ UNCHANGED <<session, asked, alive>>
       \/ /\ runs[r].by # "run" /\ (Detached(r) \/ ~(Held(r) \subseteq MayFail))
          /\ alive' = FALSE /\ UNCHANGED <<session, runner, runs, asked>>
       \/ /\ runs[r].by = "run" /\ ~(Held(r) \subseteq MayFail)
          /\ Leave(r, "idle", "failed") /\ session' = [session EXCEPT !.state = "failed"]
          /\ UNCHANGED alive
    /\ UNCHANGED stored

Fail(r) == At(r, "failing") /\ Return(r, "failed", "none") /\ UNCHANGED alive

\* ------------------------------------------------------------------ the runner
\* A boundary before approval: pause, end (ask and plan modes) or propose.
Boundary(r) ==
    /\ At(r, "early")
    /\ \/ runner.cancel /\ Return(r, "paused", "planning")
       \/ ~runner.cancel /\ Return(r, "completed", "none")
       \/ /\ ~runner.cancel
          /\ stored' = Stored("awaiting_approval", "none")
          /\ runs' = [runs EXCEPT ![r].at = "asking"]
          /\ UNCHANGED <<session, runner, asked>>
    /\ UNCHANGED alive

\* The approval handler looks up the sandbox before it can be answered.
Ask(r) ==
    /\ At(r, "asking")
    /\ runs' = [runs EXCEPT ![r].at = "waiting", ![r].decision = "none"]
    /\ session' = [session EXCEPT !.resolver = "open", !.asker = r]
    /\ UNCHANGED <<runner, stored, alive, asked>>

\* A first run is cancelled by a refusal; a resumed one is paused again, and once approved
\* goes on in a loop that resume does not await.
Decided(r) ==
    LET decision == runs[r].decision  resumed == runs[r].by = "resume"
    IN /\ At(r, "waiting") /\ decision # "none"
       /\ IF decision = "rejected" /\ ~resumed THEN Return(r, "cancelled", "none")
          ELSE IF decision # "approved" \/ (runner.cancel /\ ~resumed)
          THEN Return(r, "paused", "awaiting_approval")
          ELSE /\ stored' = Stored("mutating", "none")
               /\ runs' = [runs EXCEPT ![r].at = "working"]
               /\ runner' = [runner EXCEPT !.running = @ /\ ~resumed]
               /\ UNCHANGED <<session, asked>>
       /\ UNCHANGED alive

\* Mutation, verification and repair end, or pause: at the next boundary, or for the budget.
Work(r) ==
    /\ At(r, "working")
    /\ \/ Return(r, "paused", "mutating")
       \/ \E s \in {"completed", "failed"} : Return(r, s, "none")
    /\ UNCHANGED alive

\* resume, once it has read the checkpoint: it goes on where the pause was, a loop it does
\* not await; from a state before the plan it calls start, which forgets a cancellation
\* requested meanwhile, and does not await it either.
Restart(r) ==
    /\ runs' = [runs EXCEPT ![r] = Run("early", "start")]
    /\ runner' = [running |-> FALSE, cancel |-> FALSE]
    /\ stored' = Stored("planning", "none")
    /\ asked' = [asked EXCEPT !.standing = "none"]
    /\ UNCHANGED session
Reviving(r) == At(r, "loading") /\ Restart(r) /\ UNCHANGED alive   \* mutant of Loaded
Loaded(r) ==
    /\ At(r, "loading")
    /\ \/ Target \in Terminal /\ Return(r, Target, "none")
       \/ Target \in {"planning", "failed"} /\ Restart(r)   \* a failed one with budget left
       \/ /\ Target \in {"awaiting_approval", "mutating"}
          /\ stored' = Stored(Target, "none")
          /\ runs' = [runs EXCEPT ![r].at = IF Target = "mutating" THEN "working" ELSE "asking"]
          /\ runner' = [runner EXCEPT !.running = @ /\ Target # "mutating"]
          /\ UNCHANGED <<session, asked>>
    /\ UNCHANGED alive

\* -------------------------------------------------------- the calls of the client
Called(standing) ==
    /\ alive /\ asked.calls < MaxControls
    /\ asked' = [asked EXCEPT !.standing = standing, !.calls = @ + 1]

\* A control of a task at rest, even a paused one, is only shown: nobody carries it out.
Control(c) == Called(IF AtRest THEN "none" ELSE c)

\* Only the first answer counts.
Resolved(decision) ==
    IF session.resolver = "open" THEN [runs EXCEPT ![session.asker].decision = decision] ELSE runs

\* pause and cancel answer a pending approval, or raise the flag.
Pause ==
    /\ Control("pause")
    /\ session' = [session EXCEPT !.state = "pausing", !.resolver = "none"]
    /\ IF session.resolver # "none" THEN runs' = Resolved("paused") /\ UNCHANGED runner
                                    ELSE runner' = [runner EXCEPT !.cancel = TRUE] /\ UNCHANGED runs
    /\ UNCHANGED <<stored, alive>>

Cancel ==
    /\ Control("cancel")
    /\ session' = [session EXCEPT !.state = "cancelling", !.resolver = IF @ = "none" THEN @ ELSE "used"]
    /\ IF session.resolver # "none" THEN runs' = Resolved("rejected") /\ UNCHANGED runner
                                    ELSE runner' = [runner EXCEPT !.cancel = TRUE] /\ UNCHANGED runs
    /\ UNCHANGED <<stored, alive>>

\* approve and reject; without a pending approval they are refused.
Approval(decision) ==
    /\ session.resolver # "none" /\ Called(asked.standing)
    /\ runs' = Resolved(decision)
    /\ session' = [session EXCEPT !.resolver = "none"]
    /\ UNCHANGED <<runner, stored, alive>>

\* GET of the task: the state shown becomes the checkpoint's.
Get ==
    /\ session.state # stored.state /\ Called("none")
    /\ session' = [session EXCEPT !.state = stored.state]
    /\ UNCHANGED <<runner, runs, stored, alive>>

\* resume; a refusal by the runner is a rejection nobody handles, which ends the process.
\* Unless it takes itself to be running it accepts, whatever is under way.
Refused ==
    /\ runner.running /\ Called("none") /\ alive' = FALSE
    /\ UNCHANGED <<session, runner, runs, stored>>
Resume(r) ==
    /\ ~runner.running /\ At(r, "idle")
    /\ alive /\ asked.calls < MaxControls
    /\ asked' = [standing |-> "none", calls |-> asked.calls + 1, overlap |-> \E q \in Runs : ~At(q, "idle")]
    /\ session' = [session EXCEPT !.state = "running"]
    /\ runs' = [runs EXCEPT ![r] = Run("loading", "resume")]
    /\ runner' = [running |-> TRUE, cancel |-> FALSE]
    /\ UNCHANGED <<stored, alive>>

\* Models, commands and the file system answer, and Node runs what follows.
Moves(r) ==
    \/ Settle(r) \/ Throws(r) \/ Fail(r) \/ Boundary(r) \/ Ask(r) \/ Decided(r) \/ Work(r) \/ Loaded(r)
Working == alive /\ \E r \in Runs : Moves(r)

Next ==
    \/ Working
    \/ Pause \/ Cancel \/ Get \/ Refused
    \/ \E r \in Runs : Resume(r)
    \/ \E d \in {"approved", "rejected"} : Approval(d)

\* What ControlsTakeEffect of RuntimeServer says of a pause or a cancellation.
Stands(control) == asked.standing = control /\ alive
Outcomes(control) == IF control = "pause" THEN Terminal \cup {"paused"} ELSE Terminal
Done(control) ==
    \/ session.state \in Outcomes(control)
    \/ ~Stands(control)
    \/ asked.overlap \/ \E r \in Runs : At(r, "waiting")

\* What CancelledIsFinal of RuntimeServer says of a step.
CancelledStays ==
    stored.state = "cancelled" /\ ~asked.overlap =>
        stored'.state = "cancelled" /\ \A r \in Runs : runs'[r].at # "working"
=============================================================================
