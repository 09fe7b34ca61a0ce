----------------------------- MODULE TaskRunner -----------------------------
(***************************************************************************)
(* createTaskRunner of packages/agent/src/task/runner.ts: run (start),     *)
(* resume and cancel on one task, the mutation loop they enter, and the    *)
(* world around them: the user answers and edits, calls fail, the process  *)
(* exits or crashes and another one resumes the task.                      *)
(***************************************************************************)
EXTENDS MutationLoop

Init ==
    /\ ck = NoCk /\ exec = NoUse /\ outcome = "none"
    /\ txns = [d \in Drafts |-> "none"] /\ runs = FALSE /\ drafts = 0
    /\ sbx = "none" /\ tree = [r \in {"repo", "sandbox"} |-> Clean]
    /\ running = FALSE /\ cancel = FALSE /\ use = NoUse /\ reviewFail = FALSE
    /\ pc = [f \in Flows |-> "idle"] /\ kind = [f \in Flows |-> "none"]
    /\ loc = [f \in Flows |-> NoCk] /\ base = [f \in Flows |-> NoCk]
    /\ approved = {} /\ passed = {} /\ late = 0
    /\ boxed \in Boxed /\ crashes = 0 /\ faults = 0 /\ edits = 0

Free(f)      == On(f, "idle") /\ ~running
Sandboxed(f) == boxed /\ loc[f].mode \in Writes

\* run: the checkpoint is stored before start's try begins.
Run(f) ==
    /\ Free(f) /\ ck = NoCk
    /\ \E m \in Modes : Save(f, [NoCk EXCEPT !.state = "created", !.mode = m])
    /\ running' = TRUE /\ cancel' = FALSE
    /\ kind' = [kind EXCEPT ![f] = "boot"]
    /\ Goto(f, "launch")
    /\ UNCHANGED <<store, world, use, reviewFail, base, history>>

\* An autonomous task gets its execution, in the first iteration; then the try.
Launch(f) ==
    /\ On(f, "launch")
    /\ IF loc[f].mode = "auto"
       THEN /\ use' = [NoUse EXCEPT !.it = 1]
            /\ exec' = use'
            /\ Save(f, [loc[f] EXCEPT !.use = use'])
       ELSE UNCHANGED <<ck, exec, use, loc>>
    /\ kind' = [kind EXCEPT ![f] = "start"]
    /\ Goto(f, "ensure")
    /\ UNCHANGED <<outcome, txns, runs, drafts, world, running, cancel, reviewFail, base, history>>

\* ensureSandbox: the sandbox is a copy of the repository as it is now.
Ensure(f) ==
    /\ On(f, "ensure")
    /\ IF Lost(f) /\ Sandboxed(f)
       THEN Throw(f) /\ UNCHANGED sbx
       ELSE /\ Goto(f, "context")
            /\ IF Sandboxed(f) /\ ~loc[f].sbx
               THEN /\ sbx' = "running"
                    /\ tree' = [tree EXCEPT !["sandbox"] = tree["repo"]]
                    /\ Save(f, [loc[f] EXCEPT !.sbx = TRUE])
               ELSE /\ sbx' = IF Sandboxed(f) THEN Reopened ELSE sbx
                    /\ UNCHANGED <<ck, tree, loc>>
            /\ UNCHANGED <<store, session, kind, base, history>>

Context(f) ==
    /\ On(f, "context")
    /\ IF loc[f].state = "created" THEN SetState(f, loc[f], "contextualizing")
       ELSE UNCHANGED <<ck, loc>>
    /\ Goto(f, "gathered")
    /\ UNCHANGED <<store, world, session, kind, base, history>>

\* The context is built: the first boundary, then the impact, the routing and
\* for a question the answer.
Gathered(f) ==
    /\ On(f, "gathered")
    /\ \/ AtBoundary /\ Pause(f, loc[f])
       \/ /\ ~AtBoundary /\ loc[f].mode = "ask"
          /\ Goto(f, "complete")
          /\ UNCHANGED <<ck, sbx, running, kind, loc, base>>
       \/ /\ ~AtBoundary /\ loc[f].mode /= "ask"
          /\ IF loc[f].state /= "planning" THEN SetState(f, loc[f], "planning")
             ELSE UNCHANGED <<ck, loc>>
          /\ Goto(f, "plan")
          /\ UNCHANGED <<sbx, running, kind, base>>
    /\ UNCHANGED <<store, tree, flags, history>>

\* The planner answers, or every candidate model fails; then the second
\* boundary, and a plan that was all the task is for completes it.
Plan(f) ==
    LET c == [loc[f] EXCEPT !.plan = Fresh]
    IN /\ On(f, "plan")
       /\ \/ Throw(f) /\ UNCHANGED sbx
          \/ /\ drafts' = Fresh
             /\ IF AtBoundary THEN Pause(f, c)
                ELSE /\ Save(f, c)
                     /\ Goto(f, IF c.mode = "plan" THEN "complete" ELSE "propose")
                     /\ UNCHANGED <<sbx, running, kind, base>>
             /\ UNCHANGED <<exec, outcome, txns, runs, tree, flags, history>>

\* mutationPlanner.propose, by start and by resume of a task that has its plan.
Propose(f) ==
    /\ On(f, "propose") \/ On(f, "rpropose")
    /\ \/ Throw(f) /\ UNCHANGED sbx
       \/ /\ canTransition(loc[f].state, "awaiting_approval")
          /\ Save(f, [To(loc[f], "awaiting_approval") EXCEPT !.prop = Fresh, !.use = use])
          /\ drafts' = Fresh
          /\ Goto(f, IF At(f, "propose") THEN "approve" ELSE "rapprove")
          /\ UNCHANGED <<exec, outcome, txns, runs, world, session, kind, base, history>>

\* The answer to start. An approval that finds a cancellation pauses.
Approve(f) ==
    /\ On(f, "approve")
    /\ \/ /\ SetState(f, loc[f], "mutating")
          /\ ~AtBoundary
          /\ approved' = approved \cup {loc[f].plan}
          /\ base' = [base EXCEPT ![f] = ck']
          /\ Goto(f, "mutate")
          /\ UNCHANGED <<sbx, running, cancel, kind>>
       \/ /\ cancel' = TRUE
          /\ Pause(f, loc[f])
          /\ UNCHANGED approved
       \/ /\ canTransition(loc[f].state, "cancelled")
          /\ ck' = To(loc[f], "cancelled")
          /\ sbx' = IF loc[f].sbx THEN Suspended ELSE sbx
          /\ Return(f)
          /\ UNCHANGED <<cancel, approved>>
    /\ UNCHANGED <<store, tree, use, reviewFail, passed, late>>

StartStep(f) ==
    \/ Launch(f) \/ Ensure(f) \/ Context(f) \/ Gathered(f) \/ Plan(f)
-----------------------------------------------------------------------------
Resume(f) ==
    /\ Free(f) /\ ck /= NoCk
    /\ running' = TRUE /\ cancel' = FALSE /\ late' = 0
    /\ kind' = [kind EXCEPT ![f] = "resume"]
    /\ loc' = [loc EXCEPT ![f] = ck]
    /\ Goto(f, "load")
    /\ UNCHANGED <<ck, store, world, use, reviewFail, base, approved, passed>>

\* `return start(...)' inside resume's try: start claims the runner and clears
\* the cancellation, then resume's finally releases the runner under it.
Restart(f, c) ==
    /\ Save(f, c)
    /\ Goto(f, "ensure")
    /\ kind' = [kind EXCEPT ![f] = "start"]
    /\ running' = FALSE /\ cancel' = FALSE /\ late' = 0
    /\ UNCHANGED <<tree, base, approved, passed, reviewFail>>

Retriable == exec.it > 0 /\ exec.it < MaxIterations

\* The sandbox first, then the states resume has nothing or everything to do in.
Load(f) ==
    /\ On(f, "load")
    /\ IF Lost(f)
       THEN Throw(f) /\ UNCHANGED sbx
       ELSE /\ sbx' = IF loc[f].sbx THEN Reopened ELSE sbx
            /\ \/ /\ loc[f].state \in {"completed", "cancelled"} \/ (loc[f].state = "failed" /\ ~Retriable)
                  /\ Return(f)
                  /\ UNCHANGED <<ck, store, tree, flags, history>>
               \/ /\ loc[f].state = "failed" /\ Retriable
                  /\ use' = [exec EXCEPT !.it = @ + 1]
                  /\ exec' = use'
                  /\ Restart(f, [To(loc[f], "contextualizing") EXCEPT !.use = use', !.mode = "auto"])
                  /\ UNCHANGED <<outcome, txns, runs, drafts>>
               \/ /\ loc[f].state \notin {"completed", "cancelled", "failed"}
                  /\ Goto(f, "restate")
                  /\ UNCHANGED <<ck, store, tree, session, kind, loc, base, history>>

\* Mutant of Restated: a task paused at its approval goes on as if approved.
RestatedPastApproval(c) ==
    IF c.state = "paused" THEN To(c, IF c.resume = "awaiting_approval" THEN "mutating" ELSE c.resume) ELSE c

\* The checkpoint resume goes on from: out of the pause, and out of the states
\* whose work is not kept.
Restated(c) ==
    LET a == IF c.state = "paused" THEN To(c, c.resume) ELSE c
        b == IF a.state = "reviewing" THEN To(a, "verifying") ELSE a
    IN IF b.state = "replanning" THEN To(b, "repairing") ELSE b

\* Mutant of Entry: a verification that was due is taken for passed.
EntryTrusting(s) == CASE s = "mutating" -> "mutate" [] s = "verifying" -> "verified" [] OTHER -> "repair"
Entry(s) == CASE s = "mutating" -> "mutate" [] s = "verifying" -> "verify" [] OTHER -> "repair"

\* The mutation loop is returned without await: its errors escape resume's
\* catch, and resume's finally has already released the runner.
Detach(f, c, p) ==
    /\ Save(f, c)
    /\ Goto(f, p)
    /\ kind' = [kind EXCEPT ![f] = "detached"]
    /\ running' = FALSE
    /\ UNCHANGED <<tree, cancel, reviewFail, base>>

Restate(f) ==
    LET c == Restated(loc[f])
    IN /\ On(f, "restate")
       /\ use' = loc[f].use
       /\ UNCHANGED <<store, sbx>>
       /\ \/ /\ c.state = "planning" /\ c.plan /= 0
             /\ Save(f, c) /\ Goto(f, "rpropose")
             /\ UNCHANGED <<tree, running, cancel, reviewFail, kind, base, history>>
          \/ /\ c.state \in {"created", "contextualizing"} \/ (c.state = "planning" /\ c.plan = 0)
             /\ Restart(f, c)
          \/ /\ c.state = "awaiting_approval"
             /\ Save(f, c) /\ Goto(f, "rapprove")
             /\ UNCHANGED <<tree, running, cancel, reviewFail, kind, base, history>>
          \/ /\ c.state \in Executing
             /\ Detach(f, c, Entry(c.state))
             /\ UNCHANGED history

\* The answer to resume: "rejected" pauses too.
ReapproveOnResume(f) ==
    /\ On(f, "rapprove")
    /\ \/ /\ canTransition(loc[f].state, "mutating")
          /\ Detach(f, To(loc[f], "mutating"), "mutate")
          /\ approved' = approved \cup {loc[f].plan}
          /\ UNCHANGED <<sbx, use>>
       \/ /\ cancel' = TRUE
          /\ Pause(f, loc[f])
          /\ UNCHANGED <<tree, use, reviewFail, approved>>
    /\ UNCHANGED <<store, passed, late>>

ResumeStep(f) == Load(f) \/ Restate(f) \/ Propose(f)
-----------------------------------------------------------------------------
\* runner.cancel while a call is under way; before one, the next call clears it.
Cancel ==
    /\ ~cancel /\ \E f \in Flows : ~At(f, "idle")
    /\ cancel' = TRUE
    /\ UNCHANGED <<ck, store, world, running, use, reviewFail, control, history, bounds>>

NewProcess ==
    /\ running' = FALSE /\ cancel' = FALSE /\ use' = NoUse /\ reviewFail' = FALSE
    /\ UNCHANGED <<ck, store, world, approved, passed, boxed, faults, edits>>

\* The process ends with nothing under way, and another one opens the memory.
Exit ==
    /\ \A f \in Flows : At(f, "idle")
    /\ late' = 0
    /\ NewProcess
    /\ UNCHANGED <<control, crashes>>

Crash ==
    /\ crashes < MaxCrashes /\ \E f \in Flows : ~At(f, "idle")
    /\ crashes' = crashes + 1
    /\ pc' = [f \in Flows |-> "idle"] /\ kind' = [f \in Flows |-> "none"]
    /\ loc' = [f \in Flows |-> NoCk] /\ base' = [f \in Flows |-> NoCk]
    /\ late' = 0
    /\ NewProcess

\* Any call the step makes (memory, sandbox, file system, model) may fail.
Fault(f) ==
    /\ faults < MaxFaults /\ ~At(f, "idle")
    /\ faults' = faults + 1
    /\ Throw(f)
    /\ UNCHANGED <<sbx, boxed, crashes, edits>>

\* restoreSnapshot ignores an unlink that fails: a file the proposal created
\* stays, and the rollback goes on as if it were gone.
Overlook(f) ==
    /\ faults < MaxFaults
    /\ At(f, "restore") \/ At(f, "retract")
    /\ faults' = faults + 1
    /\ Goto(f, IF At(f, "restore") THEN "restored" ELSE "retracted")
    /\ UNCHANGED <<ck, store, world, session, kind, loc, base, history, boxed, crashes, edits>>

UserEdit ==
    /\ edits < MaxEdits
    /\ edits' = edits + 1
    /\ tree' = Applied("repo", Edited)
    /\ UNCHANGED <<ck, store, sbx, session, control, history, boxed, crashes, faults>>

Answer(f) == Approve(f) \/ Reapprove(f) \/ ReapproveOnResume(f)
Work(f)   == StartStep(f) \/ ResumeStep(f) \/ LoopStep(f)

Call(f)   == Run(f) \/ Resume(f)

Next ==
    \/ \E f \in Flows : Call(f) \/ Work(f) \/ Answer(f) \/ Fault(f) \/ Overlook(f)
    \/ Cancel \/ Exit \/ Crash \/ UserEdit

Spec == Init /\ [][Next]_vars

\* Node runs every continuation that is ready; nobody is bound to answer, call or cancel.
FairSpec == Spec /\ \A f \in Flows : WF_vars(Work(f))
=============================================================================
