---------------------------- MODULE MutationLoop ----------------------------
(***************************************************************************)
(* executeFromMutation of packages/agent/src/task/runner.ts (lines 151 to  *)
(* 239): mutate, verify, review, promote, and on failure restore, repair   *)
(* or replan, within the attempts of the policy and the budget of an       *)
(* autonomous execution. What a model, a verification command, the clock   *)
(* or the change analysis answers is a nondeterministic choice.            *)
(***************************************************************************)
EXTENDS TaskMemory

\* The while condition at the head of every round.
AttemptsLeft(c)  == c.attempt <= MaxRepairAttempts
LastAttempt(c)   == c.attempt >= MaxRepairAttempts
SameAttempt(c)   == c.attempt   \* mutant of NextAttempt
NextAttempt(c)   == c.attempt + 1

MutationsOverspent == Autonomous /\ use.mut > MaxMutations   \* mutant of MutationsSpent
MutationsSpent   == Autonomous /\ use.mut >= MaxMutations
ReplansSpent     == use.pln >= MaxReplans \/ use.it >= MaxIterations
RepairsSpent     == use.rep >= MaxRepairs \/ use.it >= MaxIterations

\* validateMutation looks at the proposal's own files: they are dirty if the
\* proposal is in the tree already. Other changes may be to other files.
Applicable(t, d) == d \notin t
Applied(r, d)    == [tree EXCEPT ![r] = @ \cup {d}]

\* restoreSnapshot writes back what the files of the proposal held before it;
\* an edit of the user to one of them since then goes with it.
NotReverted(t, d) == {t}   \* mutant of Reverted
Reverted(t, d)   == {t \ {d}, t \ {d, Edited}}
RuntimeUp(f)     == loc[f].sbx => sbx = "running"
LateChange       == IF cancel THEN late + 1 ELSE late

\* Head of the round and validation. A spent budget pauses, and so may spend,
\* time, files or lines at any mutation; policy or a stale patch rejects.
Mutate(f) ==
    /\ On(f, "mutate")
    /\ IF ~AttemptsLeft(loc[f])
       THEN Goto(f, "fail") /\ UNCHANGED <<ck, store, world, session, kind, loc, base, history>>
       ELSE \/ /\ Autonomous
               /\ PauseForBudget(f)
            \/ /\ ~MutationsSpent
               /\ Throw(f) /\ UNCHANGED sbx
            \/ /\ ~MutationsSpent
               /\ Applicable(Workspace(f), loc[f].prop)
               /\ Goto(f, "apply")
               /\ UNCHANGED <<ck, store, world, session, kind, loc, base, history>>

Apply(f) ==
    /\ On(f, "apply")
    /\ tree' = Applied(Root(f), loc[f].prop)
    /\ late' = LateChange
    /\ Goto(f, "record")
    /\ UNCHANGED <<ck, store, sbx, session, kind, loc, base, approved, passed>>

\* The transaction is durable before the impact of the change is analysed anew
\* and before anything counts it.
Record(f) ==
    /\ On(f, "record")
    /\ txns' = [txns EXCEPT ![loc[f].prop] = "applied"]
    /\ Goto(f, IF Autonomous THEN "count" ELSE "settle")
    /\ UNCHANGED <<ck, exec, outcome, runs, drafts, world, session, kind, loc, base, history>>

\* The usage of an autonomous execution.
Count(f) ==
    /\ On(f, "count")
    /\ use' = [use EXCEPT !.mut = @ + 1]
    /\ exec' = use'
    /\ Goto(f, "settle")
    /\ UNCHANGED <<ck, outcome, txns, runs, drafts, world, running, cancel, reviewFail,
                   kind, loc, base, history>>

\* The checkpoint, then the pause boundary.
Settle(f) ==
    LET c == [To(loc[f], "verifying") EXCEPT !.txn = loc[f].prop, !.use = use]
    IN /\ On(f, "settle")
       /\ canTransition(loc[f].state, "verifying")
       /\ IF AtBoundary THEN Pause(f, c)
          ELSE /\ Save(f, c)
               /\ Goto(f, "verify")
               /\ UNCHANGED <<sbx, kind, base, running>>
       /\ UNCHANGED <<store, tree, flags, history>>

\* runLayeredVerification on the workspace, whatever it holds now.
Verify(f) ==
    /\ On(f, "verify")
    /\ \/ /\ Autonomous
          /\ PauseForBudget(f)
       \/ /\ ~RuntimeUp(f)
          /\ Throw(f) /\ UNCHANGED sbx
       \/ /\ RuntimeUp(f)
          /\ runs' = TRUE
          /\ Goto(f, "restore")
          /\ UNCHANGED <<ck, exec, outcome, txns, drafts, world, session, kind, loc, base, history>>
       \/ /\ RuntimeUp(f)
          /\ runs' = TRUE
          /\ passed' = passed \cup {Workspace(f)}
          /\ IF AtBoundary THEN Pause(f, loc[f])
             ELSE /\ Goto(f, IF Autonomous THEN "decide" ELSE "verified")
                  /\ UNCHANGED <<ck, sbx, running, kind, loc, base>>
          /\ UNCHANGED <<exec, outcome, txns, drafts, tree, flags, approved, late>>

\* autonomousController.decide after a passing verification: a contradicted
\* assumption or an expanded impact asks for a new plan, anything else, "stop"
\* included, goes on to the review.
Decide(f) ==
    /\ On(f, "decide")
    /\ \/ /\ Goto(f, "retract")
          /\ UNCHANGED <<ck, loc>>
       \/ /\ SetState(f, loc[f], "reviewing")
          /\ Goto(f, "review")
    /\ UNCHANGED <<store, world, session, kind, base, history>>

\* reviewExecution: it fails or lets the proposal through.
Review(f) ==
    /\ On(f, "review")
    /\ Goto(f, "retract") \/ Goto(f, "verified")
    /\ UNCHANGED <<ck, store, world, session, kind, loc, base, history>>

\* restoreSnapshot: after a failed verification ("restore"), or after the
\* decision or the review withdrew a proposal that passed ("retract").
Restore(f) ==
    /\ On(f, "restore") \/ On(f, "retract")
    /\ \E t \in Reverted(Workspace(f), loc[f].prop) : tree' = [tree EXCEPT ![Root(f)] = t]
    /\ Goto(f, IF At(f, "restore") THEN "restored" ELSE "retracted")
    /\ UNCHANGED <<ck, store, sbx, session, kind, loc, base, history>>

RolledBack(f) == [txns EXCEPT ![loc[f].prop] = "rolled_back"]

\* A failed verification: out of attempts, cancelled, or on to a repair.
Rework(f) ==
    LET c == [To(loc[f], "repairing") EXCEPT !.txn = 0]
    IN /\ On(f, "restored")
       /\ canTransition(loc[f].state, "repairing")
       /\ txns' = RolledBack(f)
       /\ IF AtBoundary /\ ~LastAttempt(c)
          THEN Pause(f, c)
          ELSE /\ Save(f, c)
               /\ Goto(f, IF LastAttempt(c) THEN "fail" ELSE "repair")
               /\ UNCHANGED <<sbx, running, kind, base>>
       /\ UNCHANGED <<exec, outcome, runs, drafts, tree, flags, history>>

\* A proposal withdrawn: no boundary, no look at the attempts left.
Withdraw(f) ==
    /\ On(f, "retracted")
    /\ canTransition(loc[f].state, "repairing")
    /\ txns' = RolledBack(f)
    /\ Save(f, [To(loc[f], "repairing") EXCEPT !.txn = 0])
    /\ reviewFail' = TRUE
    /\ Goto(f, "repair")
    /\ UNCHANGED <<exec, outcome, runs, drafts, world, running, cancel, use, kind, base, history>>

\* Repairing: the refreshed context and the decision. A failed review or an
\* expanded impact asks for a new plan, everything else for another proposal.
Repair(f) ==
    /\ On(f, "repair")
    /\ \/ /\ Autonomous
          /\ PauseForBudget(f)
       \/ /\ Autonomous /\ ~ReplansSpent
          /\ use' = [use EXCEPT !.pln = @ + 1, !.it = @ + 1]
          /\ exec' = use'
          /\ reviewFail' = FALSE
          /\ canTransition(loc[f].state, "replanning")
          /\ Save(f, [To(loc[f], "replanning") EXCEPT !.use = use'])
          /\ Goto(f, "replan")
          /\ UNCHANGED <<outcome, txns, runs, drafts, world, running, cancel, kind, base, history>>
       \/ /\ Autonomous => ~RepairsSpent /\ ~reviewFail
          /\ use' = IF Autonomous THEN [use EXCEPT !.rep = @ + 1, !.it = @ + 1] ELSE use
          /\ exec' = IF Autonomous THEN use' ELSE exec
          /\ Goto(f, "repropose")
          /\ UNCHANGED <<ck, outcome, txns, runs, drafts, world, running, cancel, reviewFail,
                         kind, loc, base, history>>

\* The model proposes again, or fails on every candidate.
Repropose(f) ==
    /\ On(f, "repropose")
    /\ \/ Throw(f) /\ UNCHANGED sbx
       \/ /\ canTransition(loc[f].state, "mutating")
          /\ Save(f, [To(loc[f], "mutating") EXCEPT !.attempt = NextAttempt(loc[f]), !.prop = Fresh, !.use = use])
          /\ drafts' = Fresh
          /\ Goto(f, "mutate")
          /\ UNCHANGED <<exec, outcome, txns, runs, world, session, kind, base, history>>

\* A new plan and a proposal for it go back to the user.
Replan(f) ==
    /\ On(f, "replan")
    /\ \/ Throw(f) /\ UNCHANGED sbx
       \/ /\ canTransition(loc[f].state, "awaiting_approval")
          /\ Save(f, [To(loc[f], "awaiting_approval") EXCEPT !.plan = Fresh, !.prop = Fresh])
          /\ drafts' = Fresh
          /\ Goto(f, "reapprove")
          /\ UNCHANGED <<exec, outcome, txns, runs, world, session, kind, base, history>>

\* The user's answer: anything but approval pauses.
Reapprove(f) ==
    /\ On(f, "reapprove")
    /\ \/ /\ approved' = approved \cup {loc[f].plan}
          /\ SetState(f, loc[f], "mutating")
          /\ Goto(f, "mutate")
          /\ UNCHANGED <<sbx, session, kind, base>>
       \/ /\ cancel' = TRUE
          /\ Pause(f, loc[f])
          /\ UNCHANGED <<use, reviewFail, approved>>
    /\ UNCHANGED <<store, tree, passed, late>>

\* The transaction is verified; without a sandbox that is all.
Accept(f) ==
    /\ On(f, "verified")
    /\ txns' = [txns EXCEPT ![loc[f].prop] = "verified"]
    /\ Goto(f, IF loc[f].sbx THEN "promote" ELSE "complete")
    /\ UNCHANGED <<ck, exec, outcome, runs, drafts, world, session, kind, loc, base, history>>

\* The proposal is validated against the canonical repository, then applied to it.
Promote(f) ==
    /\ On(f, "promote")
    /\ \/ /\ Applicable(tree["repo"], loc[f].prop)
          /\ Goto(f, "deliver")
          /\ UNCHANGED <<ck, store, world, session, kind, loc, base, history>>
       \/ /\ tree["repo"] /= Clean
          /\ Throw(f) /\ UNCHANGED sbx

Deliver(f) ==
    /\ On(f, "deliver")
    /\ tree' = Applied("repo", loc[f].prop)
    /\ late' = LateChange
    /\ Goto(f, "complete")
    /\ UNCHANGED <<ck, store, sbx, session, kind, loc, base, approved, passed>>

LoopStep(f) ==
    \/ Mutate(f) \/ Apply(f) \/ Record(f) \/ Count(f) \/ Settle(f) \/ Verify(f)
    \/ Decide(f) \/ Review(f) \/ Restore(f) \/ Rework(f) \/ Withdraw(f) \/ Repair(f) \/ Repropose(f) \/ Replan(f)
    \/ Accept(f) \/ Promote(f) \/ Deliver(f)
    \/ Complete(f) \/ FinishComplete(f) \/ Fail(f) \/ FinishFail(f)
=============================================================================
