--------------------------- MODULE TaskGuarantees ---------------------------
(***************************************************************************)
(* What the runner guarantees about a task, and what it is said to.        *)
(***************************************************************************)
EXTENDS TaskRunner

Steps == {"idle", "launch", "ensure", "context", "gathered", "plan", "propose", "approve",
          "load", "restate", "rpropose", "rapprove", "mutate", "apply", "record", "count",
          "settle", "verify", "decide", "review", "restore", "restored", "retract", "retracted", "repair",
          "repropose", "replan", "reapprove", "verified", "promote", "deliver", "complete",
          "finishComplete", "fail", "finishFail"}
Kinds == {"none", "boot", "start", "resume", "detached", "final"}
Usage == [it : Nat, mut : Nat, rep : Nat, pln : Nat]
Checkpoint ==
    [state : TaskState \cup {"none"}, mode : TaskMode \cup {"none"}, attempt : Nat,
     plan : Drafts \cup {0}, prop : Drafts \cup {0}, txn : Drafts \cup {0},
     resume : Resumable \cup {"none"}, sbx : BOOLEAN, use : Usage]

TypeOK ==
    /\ ck \in Checkpoint /\ exec \in Usage
    /\ outcome \in {"none", "success", "failure"}
    /\ txns \in [Drafts -> {"none", "applied", "rolled_back", "verified"}]
    /\ runs \in BOOLEAN /\ drafts \in Drafts \cup {0}
    /\ sbx \in {"none", "running", "paused", "destroyed"}
    /\ tree \in [{"repo", "sandbox"} -> Contents]
    /\ running \in BOOLEAN /\ cancel \in BOOLEAN /\ use \in Usage /\ reviewFail \in BOOLEAN
    /\ pc \in [Flows -> Steps] /\ kind \in [Flows -> Kinds]
    /\ loc \in [Flows -> Checkpoint] /\ base \in [Flows -> Checkpoint]
    /\ boxed \in BOOLEAN /\ approved \subseteq Drafts /\ passed \subseteq Contents /\ late \in Nat
    /\ crashes \in Nat /\ faults \in Nat /\ edits \in Nat

-----------------------------------------------------------------------------
\* Where a task stands, a pause looked through.
Stage(c) == IF c.state = "paused" THEN c.resume ELSE c.state

\* A checkpoint from which resume finds what it needs.
Ready(c) ==
    /\ c.state = "paused" => c.resume \in Resumable
    /\ Stage(c) \in Executing \cup {"awaiting_approval"} => c.plan /= 0 /\ c.prop /= 0
    /\ Stage(c) \in {"verifying", "reviewing"} => c.txn /= 0 /\ txns[c.txn] /= "none"
    /\ Stage(c) \in {"repairing", "replanning"} => runs

\* Wherever a task is cut short - a crash between any two steps, an error, a
\* spent budget, a cancellation - its checkpoint names what resume looks up:
\* the three RESUME_DATA_MISSING errors (runner.ts:173, 208, 318) never fire.
ResumeDataPresent == Ready(ck)

\* A tree is changed only under a plan the user (or the policy that answers for
\* the user) approved, also after a pause, a crash, a repair or a new plan.
MutationsAreApproved ==
    \A f \in Flows : pc[f] \in {"apply", "deliver"} => loc[f].plan \in approved

\* An autonomous execution applies no more proposals than its budget has
\* mutations, over all its repairs, new plans, pauses and restarts. What is cut
\* short between storing a transaction (runner.ts:165) and the checkpoint that
\* counts it (168) - by a crash or by the impact analysis failing - is the one
\* thing that escapes the count: each interruption buys one mutation, no more.
MutationsWithinBudget ==
    exec.it > 0 =>
        Cardinality({d \in Drafts : txns[d] /= "none"}) <= MaxMutations + crashes + faults

AtRest == \A f \in Flows : At(f, "idle")

\* When no call is under way, the tree a task works in holds exactly what its
\* checkpoint says: the proposal while a verification is due, else the user's
\* content; and a sandboxed task has left the repository alone.
WorkspaceAtRest ==
    AtRest /\ ck.state /= "completed" =>
        /\ tree[IF ck.sbx THEN "sandbox" ELSE "repo"] =
               IF Stage(ck) = "verifying" THEN {ck.prop} ELSE Clean
        /\ ck.sbx => tree["repo"] = Clean

\* A completed task that was to write has put its last proposal into the
\* repository, and that very proposal passed a verification; any other has
\* put nothing there without one.
CompletedDelivers ==
    ck.state = "completed" =>
        IF ck.mode \in Writes \/ ck.prop /= 0
        THEN tree["repo"] = {ck.prop} /\ {ck.prop} \in passed
        ELSE tree["repo"] = Clean

\* cancel lets at most the change in hand reach a tree.
AtMostOneChangeAfterCancel == late <= 1

\* "completed: []": nothing leads out of completion.
CompletedIsFinal == [][ck.state = "completed" => ck'.state = "completed"]_vars

\* A lone caller: it lets a call return before it makes the next one.
OneCallAtATime == \A f, g \in Flows : At(f, "idle") \/ At(g, "idle") \/ f = g

Looping(f) == pc[f] \in {"mutate", "apply", "record", "count", "settle", "verify", "decide", "review",
                         "restore", "restored", "retract", "retracted", "repair", "repropose",
                         "replan", "reapprove", "verified", "promote", "deliver"}

\* TASK_RUNNER_BUSY: a runner has one call at work on the files of its task.
OneLoopAtATime == \A f, g \in Flows : Looping(f) /\ Looping(g) => f = g

\* Every call comes back or waits for the user: no endless round of repairs,
\* reviews and new plans.
Returns ==
    \A f \in Flows :
        ~At(f, "idle") ~> pc[f] \in {"idle", "approve", "reapprove", "rapprove"}
-----------------------------------------------------------------------------
\* The runner implements the all-or-nothing contract.
Contract == INSTANCE TaskContract WITH
    Proposals <- {Clean} \cup {{d} : d \in Drafts},
    verdict <- CASE ck.state = "none" -> "none"
                 [] ck.state = "completed" -> "success"
                 [] ck.state \in {"failed", "cancelled"} -> ck.state
                 [] OTHER -> "pending",
    isolated <- boxed /\ ck.mode \in Writes,
    repo <- tree["repo"],
    vetted <- passed

AllOrNothing == Contract!Spec
=============================================================================
