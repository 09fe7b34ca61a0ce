----------------------------- MODULE TaskStates -----------------------------
(***************************************************************************)
(* The lifecycle table of packages/agent/src/task/state-machine.ts: the    *)
(* states a task may be in, and from each the states it may move to.       *)
(***************************************************************************)

TaskState ==
    {"created", "contextualizing", "planning", "awaiting_approval",
     "mutating", "verifying", "reviewing", "repairing", "replanning",
     "completed", "failed", "cancelled", "paused"}

TaskMode == {"ask", "plan", "edit", "auto"}

\* The states of a task that owns a plan and a proposal and is working on them.
Executing == {"mutating", "verifying", "reviewing", "repairing", "replanning"}

\* Where a paused task may be sent back to.
Resumable == {"contextualizing", "planning", "awaiting_approval"} \cup Executing

Transitions(s) ==
    CASE s = "created"           -> {"contextualizing", "cancelled"}
      [] s = "contextualizing"   -> {"planning", "completed", "failed", "paused", "cancelled"}
      [] s = "planning"          -> {"awaiting_approval", "completed", "failed", "paused", "cancelled"}
      [] s = "awaiting_approval" -> {"mutating", "cancelled", "paused"}
      [] s = "mutating"          -> {"verifying", "failed", "paused", "cancelled"}
      [] s \in {"verifying", "reviewing"} ->
            ({"verifying", "reviewing"} \ {s})
              \cup {"completed", "repairing", "replanning", "failed", "paused", "cancelled"}
      [] s = "repairing"         -> {"mutating", "replanning", "failed", "paused", "cancelled"}
      [] s = "replanning"        -> {"repairing", "awaiting_approval", "mutating", "failed", "paused", "cancelled"}
      [] s = "failed"            -> {"contextualizing"}
      [] s = "paused"            -> Resumable \cup {"cancelled"}
      [] OTHER                   -> {}

canTransition(from, to) == to \in Transitions(from)
=============================================================================
