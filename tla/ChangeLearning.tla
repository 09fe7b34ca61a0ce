----------------------------- MODULE ChangeLearning -----------------------------
(***************************************************************************)
(* What the agent predicts a change will touch, what the change did touch, *)
(* and how the difference is learned from                                  *)
(* (change-intelligence/analyze-impact.ts, feedback.ts; the calls of       *)
(* task/runner.ts).  Each task has a runner of its own, all share the      *)
(* project memory; a prediction is stored under a hash of its targets and  *)
(* of the type of its task, so two tasks may share one record.             *)
(*                                                                         *)
(* Confidences are integers: Unit is 1, so that every quotient the bounds  *)
(* allow is exact.  The bonus of earlier context selections and the small  *)
(* deductions of outcomeQuality (attempts, cost, latency) are left out: a  *)
(* successful task has quality 1, a failed one -1.  A start that fails     *)
(* before it predicts is left out too: what it files was filed before.     *)
(***************************************************************************)
EXTENDS Integers, FiniteSets, FiniteSetsExt

CONSTANTS
    Files,        \* the files of the project
    Edges,        \* [from, to, test]: structural relationships of files
    Changes,      \* the files of each commit, a sequence
    Tasks,        \* tasks that change files, each run by its own runner
    Types,        \* what the request of a task may be classified as
    Requests,     \* task -> [type, auto]: the requests that may be made
    Predictable,  \* the sets of files a task may name or propose to change
    MaxProposals, \* bound on the proposals of all tasks
    MaxRetries    \* bound on the new starts of failed tasks

VARIABLE learned  \* what memory holds, and what each runner remembers

\* ------------------------------------------------------------------- evidence
Unit == 4200                                 \* confidence 1
Prior == 3                                   \* samplePrior
Weight == [structural |-> 30, historical |-> 25, coChange |-> 20, taskHistory |-> 15, outcome |-> 10]
Share(n, of) == (Unit * n) \div of
Best(values) == Max({0} \cup values)

Linked(t, c) == {e \in Edges : {e.from, e.to} = {t, c}}
Touching(t) == {k \in DOMAIN Changes : t \in Changes[k]}
Together(t, c) == Touching(t) \cap Touching(c)
Proposing(m, t) == {p \in m.proposals : t \in p.files}
Both(m, t, c) == Proposing(m, t) \cap Proposing(m, c)
Typed(m, ps, type) ==
    {p \in ps : m.requests[p.task].type = type /\ \E s \in m.signals : s.task = p.task}
\* proposals of tasks of the type, or any if there are none
Matched(m, type, t, c) ==
    LET typed == Typed(m, Both(m, t, c), type) IN IF typed # {} THEN typed ELSE Both(m, t, c)
TasksOf(ps) == {p.task : p \in ps}
Signalled(m, type, t, c) == {s \in m.signals : s.task \in TasksOf(Matched(m, type, t, c))}
Judged(m, t, c) == {o \in m.outcomes : o.file = c /\ t \in o.targets}
EveryJudged(js) == js   \* mutant of Positive
Positive(js) == {o \in js : o.class \in {"confirmed", "false_negative"}}

Structural(T, c) == Best({Unit : t \in {u \in T : Linked(u, c) # {}}})
Historical(T, c) ==
    Best({Share(Cardinality(Together(t, c)), Cardinality(Touching(t)) + Prior) : t \in T})
CoChange(T, c) ==
    Best({(7 * Share(Cardinality(Together(t, c)), Cardinality(Touching(t)) + Prior)
           + 3 * Share(Cardinality(Together(t, c)), Best({1, Cardinality(Touching(t))}))) \div 10 : t \in T})
TaskHistory(m, type, T, c) ==
    Best({Share(Cardinality(Matched(m, type, t, c)), Cardinality(Proposing(m, t)) + Prior) : t \in T})
OutcomeOf(m, type, T, c) ==
    Best({Share(Cardinality({s \in Signalled(m, type, t, c) : s.success}),
                Cardinality(Signalled(m, type, t, c)) + Prior) : t \in T}
         \cup {Share(Cardinality(Positive(Judged(m, t, c))), Cardinality(Judged(m, t, c)) + Prior) : t \in T})

\* the kinds of evidence there are, and the number of observations behind them
Sources(m, type, T, c) ==
    {IF e.test THEN "test" ELSE "structural" : e \in UNION {Linked(t, c) : t \in T}}
    \cup (UNION {{"historical", "cochange"} : t \in {u \in T : Together(u, c) # {}}})
    \cup {"task" : t \in {u \in T : Matched(m, type, u, c) # {}}}
    \cup {"outcome" : t \in {u \in T : Signalled(m, type, u, c) # {} \/ Judged(m, u, c) # {}}}
Observations(m, type, T, c) ==
    Cardinality(UNION {Linked(t, c) : t \in T}) + Cardinality(UNION {Together(t, c) : t \in T})
    + Cardinality(UNION {TasksOf(Matched(m, type, t, c)) : t \in T})
    + Cardinality(UNION {Judged(m, t, c) : t \in T})

One == Unit * 100 * 100     \* the scale of a confidence: percent of percent
Least(a, b) == IF a <= b THEN a ELSE b

Confidence(m, type, T, c) ==
    LET base == Weight.structural * Structural(T, c) + Weight.historical * Historical(T, c)
                + Weight.coChange * CoChange(T, c) + Weight.taskHistory * TaskHistory(m, type, T, c)
                + Weight.outcome * OutcomeOf(m, type, T, c)
        sure == Least(One, base * Least(100, 65 + 7 * Cardinality(Sources(m, type, T, c))))
    IN IF Observations(m, type, T, c) <= 1 THEN Least((One \div 100) * 49, sure) ELSE sure

\* analyzeChangeImpact: the files that reach minimumPrediction.
Likely(m, type, T) ==
    {c \in Files \ T : Sources(m, type, T, c) # {} /\ Confidence(m, type, T, c) >= (One \div 100) * 12}

\* ------------------------------------------------------------------- the tasks
\* status: new, predicted, planned, proposed, applied, done or failed; away: the runner has
\* forgotten the task; id: the targets of the record its checkpoint names
NoImpact == [task |-> "none", targets |-> {}, likely |-> {}]
NoTask == [status |-> "new", away |-> FALSE, impact |-> NoImpact, id |-> {}, files |-> {}]
At(t, status) == learned.run[t].status = status /\ ~learned.run[t].away
Started == {"predicted", "planned", "proposed", "applied"}

Init == \E requests \in Requests :
    learned = [requests |-> requests, retries |-> 0, proposals |-> {},
               predictions |-> [T \in Predictable |-> [k \in Types |-> NoImpact]],
               signals |-> {}, outcomes |-> {}, changed |-> [t \in Tasks |-> {}],
               run |-> [t \in Tasks |-> NoTask], crossed |-> {}]

\* analyzeChangeImpact with persist: the record of the targets and the type is overwritten.
Analyze(m, t, T) ==
    LET impact == [task |-> t, targets |-> T, likely |-> Likely(m, m.requests[t].type, T)]
    IN [m EXCEPT !.predictions[T][m.requests[t].type] = impact, !.run[t].impact = impact, !.run[t].id = T]
Proposed(m, t, F) ==
    [m EXCEPT !.proposals = @ \cup {[task |-> t, number |-> Cardinality(m.proposals) + 1, files |-> F]},
              !.run[t].files = F, !.run[t].status = "proposed"]
MayPropose == Cardinality(learned.proposals) < MaxProposals

\* start predicts from the files the request names and stores the id in the checkpoint.
Predict(t, T) ==
    /\ At(t, "new")
    /\ learned' = [Analyze(learned, t, T) EXCEPT !.run[t].status = "predicted"]

\* The plan answers the prediction, which is stored again with what the plan says of it.
Plan(t) ==
    /\ At(t, "predicted")
    /\ learned' = [learned EXCEPT !.predictions[learned.run[t].id][learned.requests[t].type] = learned.run[t].impact,
                                  !.run[t].status = "planned"]

\* A proposal is stored, and when it is applied an automatic task predicts again from its files.
Propose(t, F) == At(t, "planned") /\ MayPropose /\ learned' = Proposed(learned, t, F)
Mutate(t) ==
    LET m == [learned EXCEPT !.run[t].status = "applied"]
    IN /\ At(t, "proposed")
       /\ learned' = IF learned.requests[t].auto THEN Analyze(m, t, learned.run[t].files) ELSE m

\* Verification or review fails: a prediction from the files of the proposal and of the
\* refreshed context, then another proposal.
Repair(t, T, F) ==
    /\ At(t, "applied") /\ learned.run[t].files \subseteq T /\ MayPropose
    /\ learned' = Proposed(Analyze(learned, t, T), t, F)

\* The task is paused, or its process ends.  Without a plan resume starts it again; otherwise
\* resume takes the prediction from memory, by the id in the checkpoint.
Pause(t) ==
    /\ learned.run[t].status \in Started /\ ~learned.run[t].away
    /\ learned' = [learned EXCEPT !.run[t].impact = NoImpact, !.run[t].away = ~At(t, "predicted"),
                                  !.run[t].status = IF At(t, "predicted") THEN "new" ELSE @]
Resume(t) ==
    LET impact == learned.predictions[learned.run[t].id][learned.requests[t].type]
    IN /\ learned.run[t].away
       /\ learned' = [learned EXCEPT !.run[t].away = FALSE, !.run[t].impact = impact,
                                     !.crossed = IF impact.task = t THEN @ ELSE @ \cup {t, impact.task}]

\* recordImpactFeedback: every predicted and every changed file gets a class.
Classified(impact, F, certain) ==
    {[task |-> impact.task, file |-> f, targets |-> impact.targets,
      class |-> IF ~certain THEN "uncertain"
                ELSE IF f \notin F THEN "false_positive"
                ELSE IF f \in impact.likely THEN "confirmed" ELSE "false_negative"] :
     f \in impact.likely \cup (F \ impact.targets)}
Refiled(m, os) ==
    [m EXCEPT !.outcomes = {o \in @ : \A n \in os : <<n.task, n.file>> # <<o.task, o.file>>} \cup os]
FiledByTargets(m, impact, F, certain) ==   \* mutant of Feedback
    LET stored == m.predictions[impact.targets][m.requests[impact.task].type]
    IN Refiled([m EXCEPT !.changed[stored.task] = F], Classified(impact, F, certain))
Feedback(m, impact, F, certain) ==
    Refiled([m EXCEPT !.changed[impact.task] = F], Classified(impact, F, certain))

\* complete and fail: the signal of the task and the model, if one was selected, then the
\* feedback on its proposal.  A model is named by the number of retries when it first signed.
Finish(t, success, signals) ==
    LET r == learned.run[t]
        m == [learned EXCEPT !.run[t].status = IF success THEN "done" ELSE "failed",
                 !.signals = {s \in @ : \A n \in signals : <<n.task, n.by>> # <<s.task, s.by>>} \cup signals]
    IN /\ r.status \in Started /\ ~r.away
       /\ success => r.status = "applied"
       /\ signals = {} => r.status = "predicted" /\ r.files = {}
       /\ learned' = IF r.files = {} THEN m ELSE Feedback(m, r.impact, r.files, success)
Signals(t, success) == {{}} \cup {{[task |-> t, by |-> by, success |-> success]} : by \in 0..learned.retries}

\* resume starts a failed automatic task again; the same runner still has the last proposal.
Retry(t) ==
    /\ At(t, "failed") /\ learned.requests[t].auto /\ learned.retries < MaxRetries
    /\ \E files \in {{}, learned.run[t].files} :
          learned' = [learned EXCEPT !.run[t].status = "new", !.retries = @ + 1, !.run[t].files = files]

Next == \E t \in Tasks :
    \/ \E T \in Predictable : Predict(t, T)
    \/ Plan(t) \/ Mutate(t) \/ Pause(t) \/ Resume(t) \/ Retry(t)
    \/ \E F \in Predictable : Propose(t, F)
    \/ \E T, F \in Predictable : Repair(t, T, F)
    \/ \E success \in BOOLEAN : \E signals \in Signals(t, success) : Finish(t, success, signals)

\* ------------------------------------------------------------------ properties
\* What a finished task changed, and the verdict on each file it changed or was predicted to
\* change, is stored under that task, although tasks share predictions; a failed try is never
\* certain of anything, and a successful one puts its verdicts over those of the tries before
\* it - for as long as no resume has taken up a record another task has overwritten
\* (feedback.ts 4-13, runner.ts 138, 147, 299-304).
FeedbackFiled ==
    \A t \in Tasks \ learned.crossed :
        LET r == learned.run[t]
            verdicts == {o \in learned.outcomes : o.task = t}
            certain == {o \in verdicts : o.class # "uncertain"}
            due == r.impact.likely \cup (r.files \ r.impact.targets)
        IN /\ r.status = "done" =>
                 /\ learned.changed[t] = r.files /\ {o.file : o \in certain} = due
                 /\ \A o \in certain : (o.class = "false_positive") = (o.file \notin r.files)
           /\ r.status # "done" => certain = {}
           /\ r.status = "failed" /\ r.files # {} =>
                 learned.changed[t] = r.files /\ due \subseteq {o.file : o \in verdicts}
           /\ r.status \notin {"done", "failed"} /\ learned.retries = 0 => verdicts = {} /\ learned.changed[t] = {}

\* Once outcomes count as evidence and more than one observation stands behind a file, another
\* prediction of it that proves wrong never makes it look more likely, to a task of any type
\* (analyze-impact.ts 54-97).
LaterMissesNeverRaise ==
    \A T \in Predictable, type \in Types : \A c \in Files \ T :
        LET miss == [task |-> "later", file |-> c, targets |-> T, class |-> "false_positive"]
            missed == [learned EXCEPT !.outcomes = @ \cup {miss}]
        IN "outcome" \in Sources(learned, type, T, c) /\ Observations(learned, type, T, c) > 1
           => Confidence(missed, type, T, c) <= Confidence(learned, type, T, c)
=============================================================================
