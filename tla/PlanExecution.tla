------------------------------ MODULE PlanExecution ------------------------------
(***************************************************************************)
(* A plan from the model: parsed, validated, stored, and its read-only     *)
(* steps run by tools whose events and evidence are stored                 *)
(* (planning/planner.ts, validate-plan.ts, execution/executor.ts,          *)
(* tools/permissions.ts, registry.ts).  A task may be planned again.       *)
(*                                                                         *)
(* A target is what validation can tell of it: a file or directory of the  *)
(* repository, missing, outside, or none.  A step cites valid evidence or  *)
(* does not.                                                               *)
(***************************************************************************)
EXTENDS Integers, FiniteSets, Sequences, SequencesExt

CONSTANTS
    Plans,        \* what the model may answer: sequences of steps
                  \* [id, order, action, target, dependencies, cites]
    Denied,       \* tools the policy denies by name
    MaxPlannings  \* bound on plannings of the task

VARIABLE planned  \* the planner's and the executor's progress, and what memory holds

Actions == {"inspect", "search", "analyze", "modify", "test", "verify"}
Registered == {"read_file", "list_files", "search", "git_status", "git_diff"}

\* ------------------------------------------------------------------ validation
Ids(plan) == {plan[k].id : k \in DOMAIN plan}
DependenciesOf(plan, id) ==
    (UNION {plan[k].dependencies : k \in {j \in DOMAIN plan : plan[j].id = id}}) \cap Ids(plan)

\* the steps from which the walk over dependencies comes back to one it is visiting
Meeting(plan) ==
    LET meets[visiting \in SUBSET Ids(plan)] ==
            {id \in Ids(plan) : \/ id \in visiting
                               \/ DependenciesOf(plan, id) \cap meets[visiting \cup {id}] # {}}
    IN meets
SelfDependent(plan) == \E id \in Ids(plan) : id \in DependenciesOf(plan, id)   \* mutant of Cyclic
Cyclic(plan) == Meeting(plan)[{}] # {}

Issues(plan) ==
    {"INVALID_STRUCTURE" : k \in {j \in DOMAIN plan :
        \/ plan[j].action \notin Actions
        \/ plan[j].order # j
        \/ \E i \in 1..(j - 1) : plan[i].id = plan[j].id}}
    \cup {"INVALID_DEPENDENCY" : k \in {j \in DOMAIN plan : ~(plan[j].dependencies \subseteq Ids(plan))}}
    \cup {"UNAVAILABLE_CAPABILITY" : k \in {j \in DOMAIN plan : plan[j].action = "modify"}}
    \cup {"PATH_OUTSIDE_REPOSITORY" : k \in {j \in DOMAIN plan : plan[j].target = "outside"}}
    \cup {"TARGET_NOT_FOUND" : k \in {j \in DOMAIN plan : plan[j].target = "missing"}}
    \cup {"INVALID_EVIDENCE" : k \in {j \in DOMAIN plan : ~plan[j].cites}}
    \cup (IF Cyclic(plan) THEN {"DEPENDENCY_CYCLE"} ELSE {})

\* ------------------------------------------------------------------- execution
\* the tool a step calls, or none
Tool(step) ==
    CASE step.action = "inspect" /\ step.target # "none" ->
           IF step.target = "directory" THEN "list_files" ELSE "read_file"
      [] step.action = "search" -> "search"
      [] step.action = "verify" -> "git_diff"
      [] step.action = "modify" -> "write_file"
      [] step.action = "test" -> "run_tests"
      [] OTHER -> "none"

\* every registered tool only reads, so the read-only policy refuses none of them
Authorized(tool) == tool \in Registered \ Denied

\* the ids of a call's events, by its index among the calls of the plan
DeniedId(call) == call
StartedId(call) == 2 * call
EndedByCall(call) == call + 1   \* mutant of EndedId
EndedId(call) == 2 * call + 1

Stored(records, id, value) == [i \in DOMAIN records \cup {id} |-> IF i = id THEN value ELSE records[i]]
Event(kind, call) == [kind |-> kind, call |-> call, planning |-> planned.plannings]

Init == planned = [pc |-> "idle", status |-> "created", plan |-> <<>>, at |-> 1, call |-> 0,
                   runs |-> <<>>, evidence |-> {}, found |-> 0, stored |-> <<>>,
                   plannings |-> 0, denied |-> FALSE, ended |-> {}]

\* plan: the answer is parsed and validated; an invalid plan fails the task.
Propose(plan) ==
    /\ planned.pc = "idle" /\ planned.plannings < MaxPlannings
    /\ planned' = [planned EXCEPT !.plannings = @ + 1, !.status = "planning", !.plan = plan,
                                  !.pc = "validate", !.ended = {}]

ModelFails ==
    /\ planned.pc = "idle" /\ planned.plannings < MaxPlannings
    /\ planned' = [planned EXCEPT !.plannings = @ + 1, !.status = "failed", !.ended = {}]

Validate ==
    /\ planned.pc = "validate"
    /\ planned' = IF Issues(planned.plan) # {} THEN [planned EXCEPT !.pc = "idle", !.status = "failed"]
                  ELSE [planned EXCEPT !.pc = "run", !.status = "executing", !.stored = planned.plan,
                                       !.at = 1, !.call = 0, !.found = 0, !.denied = FALSE]

InOrder(plan) == SortSeq(plan, LAMBDA x, y : x.order < y.order)
Step == InOrder(planned.plan)[planned.at]
Running == planned.pc = "run" /\ planned.at <= Len(planned.plan)

\* A step that calls no tool is passed over.
Skip ==
    /\ Running /\ Tool(Step) = "none"
    /\ planned' = [planned EXCEPT !.at = @ + 1]

Refuse ==
    /\ Running /\ Tool(Step) # "none" /\ ~Authorized(Tool(Step))
    /\ planned' = [planned EXCEPT !.at = @ + 1, !.call = @ + 1, !.denied = TRUE,
                      !.runs = Stored(@, DeniedId(planned.call), Event("denied", planned.call))]

Start ==
    /\ Running /\ Authorized(Tool(Step))
    /\ planned' = [planned EXCEPT !.pc = "tool",
                      !.runs = Stored(@, StartedId(planned.call), Event("started", planned.call))]

\* The tool answers, which is evidence, or throws, which is an event like another.
Return(success) ==
    LET end == [call |-> planned.call, step |-> Step.id, success |-> success]
    IN /\ planned.pc = "tool"
       /\ planned' = [planned EXCEPT !.pc = "run", !.at = @ + 1, !.call = @ + 1,
             !.runs = Stored(@, EndedId(planned.call),
                             Event(IF success THEN "completed" ELSE "failed", planned.call)),
             !.evidence = IF success THEN @ \cup {<<Step.id, planned.found>>} ELSE @,
             !.found = IF success THEN @ + 1 ELSE @,
             !.ended = @ \cup {end}]

\* plan returns; the runner that gave the task id closes the task itself.
Finish ==
    /\ planned.pc = "run" /\ planned.at > Len(planned.plan)
    /\ \E own \in BOOLEAN :
          planned' = [planned EXCEPT !.pc = "idle", !.status = IF own THEN "completed" ELSE @]

Next ==
    \/ \E plan \in Plans : Propose(plan)
    \/ ModelFails \/ Validate \/ Skip \/ Refuse \/ Start \/ Finish
    \/ \E success \in BOOLEAN : Return(success)

\* ------------------------------------------------------------------ properties
\* A plan that is run asks for nothing the agent may not do: its steps can be put in an order
\* that respects their dependencies, each has its own id and its evidence, and no target is
\* missing or outside the repository (validate-plan.ts 11-40).
AcceptedIsSound ==
    LET plan == planned.stored IN
    /\ \E rank \in [Ids(plan) -> DOMAIN plan] :
          \A k \in DOMAIN plan : \A d \in plan[k].dependencies : rank[d] < rank[plan[k].id]
    /\ Cardinality(Ids(plan)) = Len(plan)
    /\ \A k \in DOMAIN plan : /\ plan[k].target \in {"file", "directory", "none"}
                              /\ plan[k].cites /\ plan[k].action # "modify"

\* Each tool call of the plan that is run has its start and its outcome in memory, and its evidence when it
\* succeeded, whatever an earlier plan of the task left under the same ids, for as long as no
\* call of the plan was denied: a denied call is stored under an id that belongs to another call
\* (executor.ts 18-35, 49-51).
CallsRecorded ==
    ~planned.denied => \A e \in planned.ended :
        /\ \A kind \in {"started", IF e.success THEN "completed" ELSE "failed"} :
              \E id \in DOMAIN planned.runs : planned.runs[id] = Event(kind, e.call)
        /\ e.success => \E n \in 0..e.call : <<e.step, n>> \in planned.evidence
=============================================================================
