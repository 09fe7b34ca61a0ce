--------------------------- MODULE AutonomyDecisions ---------------------------
(***************************************************************************)
(* What an autonomous task decides by itself: the risk of a proposal and   *)
(* whether the user must approve it, the budget, what follows a            *)
(* verification, and the review before completion (autonomy/*.ts, as       *)
(* executeFromMutation of task/runner.ts calls them).  MutationLoop has    *)
(* the same loop with its durable state and leaves these decisions open;   *)
(* here they are taken on data and nothing fails or is resumed.            *)
(***************************************************************************)
EXTENDS Integers, Sequences

CONSTANTS
    Requests,   \* [words, signal, files, scope, failures]: a request, and how often its like failed
    Proposals,  \* [files, lines, scripts]: a mutation and the trusted commands that verify it
    Impacts,    \* [affected, weak, added]: a predicted impact; added: files not predicted before
    Plans,      \* the assumptions of a plan, each unverified when the plan is made
    Budget,     \* [files, lines, mutations, repairs, replans, iterations]
    MaxAttempts \* maxRepairAttempts of the policy

VARIABLE auto  \* the execution

Modes == {"safe", "standard", "aggressive"}

\* ------------------------------------------------------------------- profiles
\* The first kind of work a word of the request stands for; a pattern's words are its kind.
kinds == <<"bugfix", "refactor", "test", "documentation", "feature", "planning", "investigation">>
classifyType(words) ==
    IF \A k \in 1 .. Len(kinds) : kinds[k] \notin words THEN "question"
    ELSE kinds[CHOOSE k \in 1 .. Len(kinds) : kinds[k] \in words /\ \A n \in 1 .. k - 1 : kinds[n] \notin words]

\* signal: words like "race" or "migration"; files: how many files the context found.
createTaskProfile(request) ==
    LET type == classifyType(request.words)
        mutating == type \in {"bugfix", "refactor", "feature", "test"}
    IN [mutating |-> type \in {"bugfix", "feature", "refactor"},   \* as risk.ts counts it
        complexity |-> IF request.signal \/ (mutating /\ request.files >= 8) THEN "high"
                       ELSE IF mutating \/ type \in {"planning", "investigation"} THEN "medium" ELSE "low",
        scope |-> request.scope, failures |-> request.failures]
Profiles == {createTaskProfile(request) : request \in Requests}

\* ---------------------------------------------------------------------- risk
\* in hundredths of a percent
Step(value, large, more, medium, some) ==
    IF value > large THEN more ELSE IF value > medium THEN some ELSE 0
ScopeWeight(scope) ==
    CASE scope = "critical" -> 3500 [] scope = "sensitive" -> 1700 [] OTHER -> 0
Spread(a, b) == IF a > b THEN a ELSE b
FailureWeight(percent) == IF percent >= 40 THEN 2000 ELSE percent * 25
FailuresIgnoredWhenFrequent(percent) == IF percent >= 40 THEN 0 ELSE percent * 25   \* mutant of FailureRisk
FailureRisk(percent) == FailureWeight(percent)

Strength(scripts) == IF scripts >= 3 THEN "strong" ELSE IF scripts >= 1 THEN "moderate" ELSE "weak"
RiskScore(i) ==
    (IF i.profile.mutating THEN 1200 ELSE 0)
    + (CASE i.profile.complexity = "high" -> 2000 [] i.profile.complexity = "medium" -> 1000 [] OTHER -> 0)
    + Step(Spread(i.proposal.files, i.impact.affected), 10, 2200, 5, 1200)
    + Step(i.proposal.lines, 300, 1800, 100, 800)
    + ScopeWeight(i.profile.scope) + FailureRisk(i.profile.failures)
    + (IF i.impact.weak THEN 1200 ELSE 0)
    + (IF i.impact.affected > 8 THEN 1000 ELSE 0)
    + (IF Strength(i.proposal.scripts) = "weak" THEN 1500 ELSE 0)
RiskLevel(i) ==
    CASE RiskScore(i) >= 8000 -> "critical" [] RiskScore(i) >= 5500 -> "high"
      [] RiskScore(i) >= 2800 -> "medium" [] OTHER -> "low"

requiresApproval(mode, i) ==
    \/ RiskLevel(i) = "critical"
    \/ mode = "safe" /\ RiskLevel(i) # "low"
    \/ mode = "standard" /\ RiskLevel(i) = "high"
    \/ mode = "aggressive" /\ RiskLevel(i) = "high" /\ Strength(i.proposal.scripts) # "strong"

\* ------------------------------------------------------------------ decisions
\* what a verification's output says of each assumption: a contradiction, else a confirmation
Checked(plan, evidence) == [a \in plan |-> evidence[a]]
Exhausted(use) == use.late \/ use.files > Budget.files \/ use.lines > Budget.lines
Contradicted(checks) == \E a \in DOMAIN checks : checks[a] = "contradicted"

Evaluated(use, checks, expanded, passed, implementation) ==
    IF Exhausted(use) THEN "stop"
    ELSE IF Contradicted(checks) \/ expanded THEN "replan"
    ELSE IF passed THEN "continue"
    ELSE IF implementation THEN "repair" ELSE "replan"

\* The review finds fault with every assumption that was not confirmed.  The impact was
\* recalculated for the very files of the proposal, so none of them is ever unrelated.
FailsOnContradiction(checks) == Contradicted(checks)   \* mutant of ReviewFails
ReviewFails(checks) == \E a \in DOMAIN checks : checks[a] # "confirmed"

\* -------------------------------------------------------------------- actions
NoUse == [files |-> 0, lines |-> 0, mutations |-> 0, repairs |-> 0, replans |-> 0,
          iterations |-> 1, late |-> FALSE]
NoPlan == {}
Quiet == [affected |-> 0, weak |-> FALSE, added |-> FALSE]
NoInput(profile) ==
    [profile |-> profile, impact |-> Quiet, proposal |-> [files |-> 0, lines |-> 0, scripts |-> 0]]
\* risk: the input of the last assessment; input: the present one
Init == \E mode \in Modes, profile \in Profiles :
    auto = [pc |-> "plan", mode |-> mode, plan |-> NoPlan, use |-> NoUse, attempt |-> 0,
            input |-> NoInput(profile), risk |-> NoInput(profile),
            asked |-> FALSE, due |-> FALSE, expanded |-> FALSE, withdrawn |-> FALSE,
            checks |-> <<>>, passed |-> FALSE]
On(pc) == auto.pc = pc

\* The plan and the proposal of the first round, with the risk of both.
Propose(plan, proposal, impact) ==
    LET input == [auto.input EXCEPT !.proposal = proposal, !.impact = impact]
    IN /\ On("plan")
       /\ auto' = [auto EXCEPT !.pc = "approve", !.plan = plan, !.input = input, !.risk = input]

\* The user answers when the mode asks for that, at the risk assessed last: after a new plan
\* that is still the risk of the change it replaces.
Approve(answer) ==
    LET asks == requiresApproval(auto.mode, auto.risk)
    IN /\ On("approve")
       /\ auto' = [auto EXCEPT !.pc = IF asks /\ ~answer THEN "stopped" ELSE "mutate",
                               !.asked = asks, !.due = asks]

Overspends(use, proposal) ==
    \/ use.mutations >= Budget.mutations
    \/ use.files + proposal.files > Budget.files \/ use.lines + proposal.lines > Budget.lines

\* The mutation, then impact, risk and usage recalculated from what was changed.
Mutate(impact) ==
    LET p == auto.input.proposal
        input == [auto.input EXCEPT !.impact = impact]
    IN /\ On("mutate")
       /\ auto' = IF Overspends(auto.use, p) THEN [auto EXCEPT !.pc = "paused"]
                  ELSE [auto EXCEPT !.pc = "verify", !.input = input, !.risk = input, !.expanded = impact.added,
                           !.use.mutations = @ + 1, !.use.files = @ + p.files, !.use.lines = @ + p.lines]

\* Verification takes its time: more than the budget's, and the next one does not start.
Verify(passed, evidence, late) ==
    /\ On("verify")
    /\ auto' = IF auto.use.late THEN [auto EXCEPT !.pc = "paused"]
               ELSE [auto EXCEPT !.passed = passed, !.use.late = late, !.checks = Checked(auto.plan, evidence),
                        !.pc = IF passed THEN "decide" ELSE IF auto.attempt >= MaxAttempts THEN "failed"
                               ELSE "repair"]

\* A decision to stop is passed over here: the change is verified and goes to the review.
Decide ==
    LET replan == Evaluated(auto.use, auto.checks, auto.expanded, TRUE, FALSE) = "replan"
    IN /\ On("decide")
       /\ auto' = [auto EXCEPT !.pc = IF replan THEN "repair" ELSE "review", !.withdrawn = @ \/ replan]

Review ==
    /\ On("review")
    /\ auto' = IF ReviewFails(auto.checks) THEN [auto EXCEPT !.pc = "repair", !.withdrawn = TRUE]
               ELSE [auto EXCEPT !.pc = "completed"]

NoRoom(spent, most) == spent >= most \/ auto.use.iterations >= Budget.iterations

\* Repairing: another proposal under the same plan, which nobody is asked about, or another
\* plan, which is put up for approval before its risk is assessed.
Repair(plan, proposal, impact) ==
    LET implementation == ~auto.withdrawn /\ ~Contradicted(auto.checks) /\ ~impact.added
        action == Evaluated(auto.use, auto.checks, impact.added \/ auto.withdrawn, FALSE, implementation)
        again == [auto EXCEPT !.expanded = FALSE, !.use.iterations = @ + 1]
    IN /\ On("repair")
       /\ action = "repair" => plan = auto.plan
       /\ auto' =
            IF action = "stop" \/ NoRoom(IF action = "replan" THEN auto.use.replans ELSE auto.use.repairs,
                                         IF action = "replan" THEN Budget.replans ELSE Budget.repairs)
            THEN [auto EXCEPT !.pc = "paused"]
            ELSE IF action = "replan"
            THEN [again EXCEPT !.pc = "approve", !.plan = plan, !.input.proposal = proposal,
                               !.withdrawn = FALSE, !.use.replans = @ + 1]
            ELSE [again EXCEPT !.pc = "mutate", !.input.proposal = proposal,
                               !.attempt = @ + 1, !.use.repairs = @ + 1]

Evidences == [UNION Plans -> {"unverified", "confirmed", "contradicted"}]
Next ==
    \/ \E plan \in Plans, proposal \in Proposals, impact \in Impacts :
          Propose(plan, proposal, impact) \/ Repair(plan, proposal, impact)
    \/ \E impact \in Impacts : Mutate(impact)
    \/ \E passed, late \in BOOLEAN, evidence \in Evidences : Verify(passed, evidence, late)
    \/ (\E answer \in BOOLEAN : Approve(answer)) \/ Decide \/ Review

\* ----------------------------------------------------------------- properties
Inputs == [profile : Profiles, proposal : Proposals, impact : Impacts]
Complexity(i) == CASE i.profile.complexity = "high" -> 2 [] i.profile.complexity = "medium" -> 1 [] OTHER -> 0
Riskier(j, i) ==
    /\ i.profile.mutating => j.profile.mutating
    /\ Complexity(j) >= Complexity(i) /\ j.profile.failures >= i.profile.failures
    /\ j.profile.scope = i.profile.scope \/ j.profile.scope = "critical" \/ i.profile.scope = "plain"
    /\ j.proposal.files >= i.proposal.files /\ j.proposal.lines >= i.proposal.lines
    /\ j.proposal.scripts <= i.proposal.scripts
    /\ j.impact.affected >= i.impact.affected /\ (i.impact.weak => j.impact.weak)

\* Who has to ask for one change has to ask for every riskier one, and so has every more
\* careful mode: no combination of thresholds lets a larger, less verified or more often failed
\* change pass where a smaller one is stopped (risk.ts 5-21, policy.ts 4-9).
RiskierAsksMore ==
    On("approve") /\ auto.use = NoUse =>   \* the first approval meets every input
        \A j \in Inputs : Riskier(j, auto.risk) =>
            \A mode \in Modes : requiresApproval(mode, auto.risk) =>
                /\ requiresApproval(mode, j)
                /\ mode = "aggressive" => requiresApproval("standard", j)
                /\ mode # "safe" => requiresApproval("safe", j)

\* What completes without a user was verified, and within what the task was given: every
\* assumption of its plan was confirmed by the verification, it did not reach further than
\* predicted unless the verification overran its time, and the files, lines and rounds of all
\* its attempts together are within the budget (runner.ts 161-197, evaluate.ts 4-15, review.ts 8-16).
CompletedAsReviewed ==
    On("completed") =>
        /\ auto.passed /\ \A a \in auto.plan : auto.checks[a] = "confirmed"
        /\ auto.expanded => auto.use.late
        /\ auto.use.files <= Budget.files /\ auto.use.lines <= Budget.lines
        /\ auto.use.mutations <= Budget.mutations /\ auto.use.iterations <= Budget.iterations
        /\ auto.use.repairs <= Budget.repairs /\ auto.use.replans <= Budget.replans
===============================================================================
