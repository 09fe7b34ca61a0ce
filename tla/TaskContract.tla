---------------------------- MODULE TaskContract ----------------------------
(***************************************************************************)
(* What a task promises about the canonical repository, whatever the       *)
(* runner does inside: it is all or nothing. A success leaves a proposal   *)
(* that passed a verification, or the repository untouched; a failure or a *)
(* cancellation leaves it untouched. An isolated task never shows anything *)
(* else in between.                                                        *)
(***************************************************************************)
CONSTANTS Clean, Proposals

VARIABLES verdict,   \* "none" | "pending" | "success" | "failed" | "cancelled"
          isolated,  \* whether the task works in a sandbox
          repo,      \* the content of the canonical repository
          vetted     \* contents that passed a verification

contract == <<verdict, isolated, repo, vetted>>

Init == verdict = "none" /\ isolated = FALSE /\ repo = Clean /\ vetted = {}

Submit ==
    /\ verdict = "none"
    /\ verdict' = "pending"
    /\ isolated' \in BOOLEAN
    /\ UNCHANGED <<repo, vetted>>

Pending == verdict = "pending" /\ UNCHANGED <<verdict, isolated>>

Vet(p) == Pending /\ vetted' = vetted \cup {p} /\ UNCHANGED repo

\* Without a sandbox the repository itself is where a proposal is tried.
Try(p) == Pending /\ ~isolated /\ repo = Clean /\ repo' = p /\ UNCHANGED vetted

Undo == Pending /\ ~isolated /\ repo' = Clean /\ UNCHANGED vetted

Deliver(p) == Pending /\ p \in vetted /\ repo = Clean /\ repo' = p /\ UNCHANGED vetted

Succeed ==
    /\ verdict = "pending" /\ repo \in vetted \cup {Clean}
    /\ verdict' = "success"
    /\ UNCHANGED <<isolated, repo, vetted>>

GiveUp ==
    /\ verdict = "pending" /\ repo = Clean
    /\ verdict' \in {"failed", "cancelled"}
    /\ UNCHANGED <<isolated, repo, vetted>>

\* An autonomous task that failed may be taken up again.
Retry ==
    /\ verdict = "failed"
    /\ verdict' = "pending"
    /\ UNCHANGED <<isolated, repo, vetted>>

Next ==
    \/ Submit \/ Undo \/ Succeed \/ GiveUp \/ Retry
    \/ \E p \in Proposals : Vet(p) \/ Try(p) \/ Deliver(p)

Spec == Init /\ [][Next]_contract
=============================================================================
