------------------------------ MODULE ModelRouting ------------------------------
(***************************************************************************)
(* Which model a task runs on, what happens when a model fails, and which  *)
(* model the outcome is credited to (routing/candidate-builder.ts,         *)
(* model-selector.ts, cx-selector.ts, fallback.ts; the calls of            *)
(* task/runner.ts).                                                        *)
(*                                                                         *)
(* Scores are integers, Unit is 1.  What the registry says of a model is   *)
(* data: whether it can be used and can reason, its price, and one number  *)
(* for its capability match and complexity fit.  Outcomes are all equally  *)
(* similar and have quality 1 or -1; latencies are unknown.                *)
(***************************************************************************)
EXTENDS Integers, FiniteSets, FiniteSetsExt, Sequences, SequencesExt

CONSTANTS
    Models,       \* the models of the registry, ordered by name: numbers from 1
    Facts,        \* model -> [provider, price, reasoning, usable, merit]
    Rooms,        \* the sets of models whose window may be all that a context fits in
    Budgets,      \* budgets a user may set
    Tasks,        \* tasks of one project
    Past,         \* outcome signals earlier tasks may have left
    CxAnswers,    \* what llm-cx may answer: candidates, the best one first
    ProposalIds,  \* ids a model may give its proposals
    MaxReworks    \* bound on repairs, new plans and retries of a task

VARIABLE routed   \* the outcome signals in memory, and each task's progress

Unit == 120
NoBudget == 0
Preferences == {"auto", "cheap", "fast", "reasoning"}

\* -------------------------------------------------------------------- scores
About(signals, m) == {s \in signals : s.model = m}
AboutProvider(signals, m) == {s \in signals : Facts[s.model].provider = Facts[m].provider}
Won(signals) == Cardinality({s \in signals : s.success})

\* historicalSuccess of a model, of its provider, or neutral
Historical(signals, m) ==
    LET own == About(signals, m)  kin == AboutProvider(signals, m)
    IN CASE own # {} -> (Unit * Won(own)) \div Cardinality(own)
         [] own = {} /\ kin # {} ->
              Unit \div 2 + ((Unit \div 10) * (2 * Won(kin) - Cardinality(kin))) \div Cardinality(kin)
         [] OTHER -> Unit \div 2

\* buildRoutingCandidates keeps the models that fit the profile and the budget.
Fits(m, reasoning) == Facts[m].usable /\ (reasoning => Facts[m].reasoning)
Affordable(m, budget) == budget = NoBudget \/ Facts[m].price <= budget
FittingAtAnyPrice(room, reasoning, budget) == {m \in room : Fits(m, reasoning)}   \* mutant of Fitting
Fitting(room, reasoning, budget) == {m \in room : Fits(m, reasoning) /\ Affordable(m, budget)}

CostScore(m, among) ==
    LET prices == {Facts[k].price : k \in among}
    IN IF Max(prices) = Min(prices) THEN Unit
       ELSE (Unit * (Max(prices) - Facts[m].price)) \div (Max(prices) - Min(prices))
FinalScore(signals, m, among) ==
    50 * Facts[m].merit + 30 * Historical(signals, m) + 10 * CostScore(m, among) + 10 * (Unit \div 2)

\* models ordered by a tuple of keys, the last of which is the name
Less(k1, k2) ==
    \E d \in DOMAIN k1 : k1[d] < k2[d] /\ \A j \in 1..(d - 1) : k1[j] = k2[j]
Ordered(among, key) ==
    CHOOSE s \in [1..Cardinality(among) -> among] :
        \A i, j \in DOMAIN s : i < j => Less(key[s[i]], key[s[j]])

\* selectModel: the candidates in the order they are tried, none when there is none.
Selected(signals, way, room) ==
    LET fitting == Fitting(room, way.reasoning, way.budget)
        built == {m \in fitting : way.preference = "reasoning" => Facts[m].reasoning}
        score(m) == FinalScore(signals, m, fitting)
        key == [m \in built |->
            CASE way.preference = "cheap" -> <<Facts[m].price, -score(m), m>>
              [] way.preference = "fast" -> <<-score(m), m>>
              [] OTHER -> <<-score(m), -Historical(signals, m), Facts[m].price, m>>]
    IN Ordered(built, key)

\* -------------------------------------------------------------------- a task
NoWay == [by |-> "none"]
NoRoute == [candidates |-> <<>>, allowed |-> {}]
NoRun == [phase |-> "new", way |-> NoWay, route |-> NoRoute, at |-> 1, executions |-> <<>>, reworks |-> 0,
          answered |-> 0, moved |-> FALSE, fallbacks |-> {}]
In(t, phase) == routed.run[t].phase = phase
Trying(t) == routed.run[t].phase \in {"plan", "propose"}
Candidate(t) == routed.run[t].route.candidates[routed.run[t].at]

Init == \E signals \in SUBSET Past : routed = [signals |-> signals, run |-> [t \in Tasks |-> NoRun]]

\* how a task's models are chosen: by the models it was given or by llm-cx, with a preference,
\* its need of reasoning and a budget, or by the name of one model
Ways == [by : {"own", "cx"}, preference : Preferences, reasoning : BOOLEAN, budget : Budgets \cup {NoBudget}]
        \cup [by : {"name"}, model : Models]

\* recordModelExecution: a known id keeps its place.
Recorded(r, id) ==
    LET at == {k \in DOMAIN r.executions : r.executions[k].id = id}
        execution == [id |-> id, model |-> r.route.candidates[r.at], route |-> r.route]
    IN IF at = {} THEN Append(r.executions, execution)
       ELSE [k \in DOMAIN r.executions |-> IF k \in at THEN execution ELSE r.executions[k]]
MovedBack(executions, id) == \E k \in 1..(Len(executions) - 1) : executions[k].id = id

\* The candidate answers: a plan under the task's id, a proposal under its own.
Answer(t, id) ==
    LET r == routed.run[t]
    IN /\ Trying(t) /\ (r.phase = "plan") = (id = "plan")
       /\ routed' = [routed EXCEPT !.run[t] =
            [r EXCEPT !.phase = IF r.phase = "plan" THEN "propose" ELSE "work", !.at = 1,
                      !.executions = Recorded(r, id), !.answered = Candidate(t),
                      !.moved = IF r.phase = "plan" THEN FALSE ELSE MovedBack(r.executions, id)]]

\* recordIntelligence: the model of the last execution, or the one selected.
SelectedModel(r) == r.route.candidates[1]   \* mutant of Credited
Credited(r) == IF r.executions = <<>> THEN r.route.candidates[1] ELSE Last(r.executions).model
Finished(t, r, success) ==
    routed' = [signals |-> {s \in routed.signals : <<s.task, s.model>> # <<t, Credited(r)>>}
                           \cup {[task |-> t, model |-> Credited(r), success |-> success]},
               run |-> [routed.run EXCEPT ![t] = [r EXCEPT !.phase = IF success THEN "done" ELSE "failed"]]]

\* selectRuntimeModel, for a new task or one its runner has forgotten, and again, with the same
\* options, for a new plan or a retry by the same runner.  A model the user names is taken
\* whatever it can do or costs, and has no fallback; llm-cx is not told the budget, and the
\* task's own models are taken when it does not answer.
Select(t, way, room, answer) ==
    LET r == routed.run[t]
        route == CASE way.by = "name" -> [candidates |-> <<way.model>>, allowed |-> {way.model}]
                   [] way.by = "cx" /\ answer # <<>> -> [candidates |-> answer, allowed |-> ToSet(answer)]
                   [] OTHER -> [candidates |-> Selected(routed.signals, way, room),
                                allowed |-> {m \in room : Fits(m, way.reasoning) /\ Affordable(m, way.budget)}]
    IN /\ In(t, "new") \/ (In(t, "again") /\ way = r.way)
       /\ CASE route.candidates # <<>> ->
                 routed' = [routed EXCEPT !.run[t] = [r EXCEPT !.phase = "plan", !.way = way, !.route = route]]
            [] route.candidates = <<>> /\ r.phase = "new" -> routed' = [routed EXCEPT !.run[t].phase = "failed"]
            [] OTHER -> Finished(t, r, FALSE)

\* resume starts a failed automatic task again; another runner has no selection to credit to.
Retry(t) ==
    LET r == [routed.run[t] EXCEPT !.at = 1, !.reworks = @ + 1]
    IN /\ In(t, "failed") /\ routed.run[t].reworks < MaxReworks
       /\ \/ routed' = [routed EXCEPT !.run[t] = [r EXCEPT !.phase = "new", !.way = NoWay, !.route = NoRoute]]
          \/ /\ r.route.candidates # <<>>
             /\ routed' = [routed EXCEPT !.run[t] = [r EXCEPT !.phase = "again"]]

\* An error that looks like the provider's: a fallback to the next candidate is stored, if
\* there is one, under the task's id and the place of the candidate that failed.
FallsBack(t, r) ==
    IF r.at < Len(r.route.candidates)
    THEN routed' = [routed EXCEPT !.run[t] = [r EXCEPT !.at = @ + 1, !.fallbacks = @ \cup {r.at}]]
    ELSE Finished(t, r, FALSE)
Unavailable(t) == Trying(t) /\ FallsBack(t, routed.run[t])

\* Any other error fails the task.  A plan that is not valid was recorded before, and what is
\* wrong with it may look like the provider's error too ("Write capability is unavailable").
Fatal(t) == Trying(t) /\ Finished(t, routed.run[t], FALSE)
InvalidPlan(t) ==
    LET r == [routed.run[t] EXCEPT !.executions = Recorded(routed.run[t], "plan"),
                                   !.answered = Candidate(t)]
    IN In(t, "plan") /\ (Finished(t, r, FALSE) \/ FallsBack(t, r))

\* Verification fails: a repair, or a new selection, plan and proposal.
Rework(t, phase) ==
    /\ In(t, "work") /\ routed.run[t].reworks < MaxReworks
    /\ routed' = [routed EXCEPT !.run[t].phase = phase, !.run[t].reworks = @ + 1]
Complete(t) == In(t, "work") /\ Finished(t, routed.run[t], TRUE)
GiveUp(t) == In(t, "work") /\ Finished(t, routed.run[t], FALSE)

Next == \E t \in Tasks :
    \/ /\ In(t, "new") \/ In(t, "again")
       /\ \E way \in Ways, room \in Rooms, answer \in CxAnswers \cup {<<>>} :
             Select(t, way, room, answer)
    \/ \E id \in ProposalIds \cup {"plan"} : Answer(t, id)
    \/ \E phase \in {"again", "propose"} : Rework(t, phase)
    \/ Unavailable(t) \/ Fatal(t) \/ InvalidPlan(t) \/ Complete(t) \/ GiveUp(t) \/ Retry(t)

\* ------------------------------------------------------------------ properties
\* A successful task is credited to the model whose proposal was delivered and to no other,
\* whichever candidates failed before it, in whichever phase, and whatever was repaired, planned
\* again or tried again; the failures of earlier tries stay with the models they were
\* credited to, but for that one (runner.ts 110-116, 299-302, fallback.ts 13-26).  A model that
\* gives an older id to a newer proposal is excepted, for its execution keeps the older place.
SuccessCredited ==
    \A t \in Tasks : LET r == routed.run[t]  own == {s \in routed.signals : s.task = t} IN
        r.phase = "done" /\ ~r.moved =>
            /\ \E s \in own : s.model = r.answered
            /\ \A s \in own : s.success <=> s.model = r.answered

\* Every model that ran was able to do the task and within the budget, and stored fallbacks lead
\* to it from the one selected; what a model the user names or llm-cx's own candidates can do and
\* cost is not looked at (candidate-builder.ts 38-47, model-selector.ts 11-28, fallback.ts 15-23).
RunsJustified ==
    \A t \in Tasks : LET r == routed.run[t] IN
        \A e \in ToSet(r.executions) :
            /\ e.model \in e.route.allowed
            /\ \E k \in DOMAIN e.route.candidates :
                  e.route.candidates[k] = e.model /\ 1..(k - 1) \subseteq r.fallbacks
=============================================================================
