----------------------------- MODULE AgentDecisions -----------------------------
(***************************************************************************)
(* The parts of the agent that decide something from data: which files a   *)
(* change will touch, which model runs, what a model is shown, whether its *)
(* plan and patch are accepted, what verification says, whether a user is  *)
(* asked, and what is kept of a sandbox. MutationLoop and TaskRunner have  *)
(* the order in which a task calls them and take their answers as they     *)
(* come; here each is looked at by itself, so that a behaviour is one of   *)
(* the part `topic' names.  This module gives the instances that are       *)
(* checked.                                                                *)
(***************************************************************************)
EXTENDS Integers, FiniteSets, Sequences

CONSTANTS Commands, MaxRequested, MaxRewrites,   \* LayeredVerification
          Files, Tasks, MaxProposals, MaxRetries,   \* ChangeLearning
          Models, Budgets, ProposalIds, MaxReworks,   \* ModelRouting
          Denied, MaxPlannings,                  \* PlanExecution
          MaxAttempts,                           \* AutonomyDecisions
          MaxRoots, MaxEdits, MaxTaken, MaxTroubles   \* SandboxLifecycle

ASSUME ProjectIsFinite == IsFiniteSet(Files) /\ IsFiniteSet(Tasks)

VARIABLES topic, learned, routed, planned, context, patched, indexed, auto, boxed,
          requested, risky, manifest, phase, selected, detected, layer, trusted,
          status, runs, passed, rewrites

verification == <<requested, risky, manifest, phase, selected, detected, layer, trusted,
                  status, runs, passed, rewrites>>
vars == <<topic, learned, routed, planned, context, patched, indexed, auto, boxed, verification>>

\* -------------------------------------------------------- change intelligence
\* b imports a and tests it; two of three commits touch a and b together; d is apart
FileEdges == {[from |-> "b", to |-> "a", test |-> FALSE], [from |-> "b", to |-> "a", test |-> TRUE]}
Commits == <<{"a", "b"}, {"a"}, {"a", "b"}>>
\* an automatic task, and others of any type that ask the user
Asked == {[t \in Tasks |-> IF t = "t1" THEN [type |-> "bugfix", auto |-> TRUE] ELSE [type |-> type, auto |-> FALSE]] :
            type \in {"bugfix", "feature"}}
Learning == INSTANCE ChangeLearning
    WITH Edges <- FileEdges, Changes <- Commits, Predictable <- {{"a"}, {"a", "b", "d"}},
         Types <- {"bugfix", "feature"}, Requests <- Asked

\* -------------------------------------------------------------------- routing
Fact(provider, price, reasoning, merit) ==
    [provider |-> provider, price |-> price, reasoning |-> reasoning, usable |-> TRUE, merit |-> merit]
Earlier == {[task |-> "e1", model |-> 1, success |-> TRUE], [task |-> "e2", model |-> 3, success |-> FALSE]}
Routing == INSTANCE ModelRouting
    WITH Tasks <- {"t1"}, Facts <- <<Fact("p", 2, TRUE, 100), Fact("p", 1, FALSE, 100), Fact("q", 3, TRUE, 120)>>,
         Rooms <- {{1, 2, 3}, {2, 3}}, CxAnswers <- {<<2, 1>>}, Past <- Earlier

\* ------------------------------------------------------------------- planning
PlanStep(k, action, target, dependencies) ==
    [id |-> k, order |-> k, action |-> action, target |-> target, dependencies |-> dependencies, cites |-> TRUE]
First == PlanStep(1, "inspect", "file", {})
SoundOrCyclic ==
    {<<PlanStep(1, c.first, c.target, c.needed), PlanStep(2, c.second, "file", c.needs)>> :
        c \in [first : {"inspect", "search", "test"}, second : {"inspect", "analyze"}, target : {"file", "none"},
               needed : SUBSET {1, 2}, needs : SUBSET {1, 2}]}
    \cup {<<PlanStep(1, a, "directory", {}), PlanStep(2, b, "file", {1}), PlanStep(3, c, "file", {2})>> :
        a \in {"inspect", "search"}, b \in {"test", "verify"}, c \in {"test", "search"}}
    \cup {<<PlanStep(1, "inspect", "file", {3}), PlanStep(2, "search", "file", {1}), PlanStep(3, "search", "file", {2})>>}
Faulty ==
    {<<First, First>>, <<[First EXCEPT !.order = 2]>>, <<[First EXCEPT !.cites = FALSE]>>,
     <<[First EXCEPT !.dependencies = {4}]>>}
    \cup {<<[First EXCEPT !.target = g]>> : g \in {"missing", "outside"}}
    \cup {<<[First EXCEPT !.action = a]>> : a \in {"modify", "fly"}}
Planning == INSTANCE PlanExecution WITH Plans <- SoundOrCyclic \cup Faulty

\* -------------------------------------------------------------------- context
\* files 1 to 5 and a symbol, 6, of file 2
Related(a, b, relation, confidence) == [from |-> a, to |-> b, relation |-> relation, confidence |-> confidence]
Graph == <<Related(1, 2, "IMPORTS", 95), Related(3, 2, "IMPORTS", 95), Related(4, 3, "EXPORTS", 90),
           Related(5, 1, "TESTS", 95), Related(4, 2, "IMPORTS", 20)>>
Context == INSTANCE ContextSelection
    WITH Files <- 1..5, FileOf <- [s \in {6} |-> 2], Edges <- Graph, Sizes <- <<3, 2, 2, 5, 1, 1>>,
         Requests <- [named : {s \in SUBSET (1..6) : Cardinality(s) <= 2}, mentions : {{}, {3}, {5}},
                      open : {<<>>, <<4>>, <<4, 1>>}],
         Policies <- {[depth |-> 2, nodes |-> 3, items |-> 3, characters |-> 7],
                      [depth |-> 2, nodes |-> 6, items |-> 4, characters |-> 9],
                      [depth |-> 1, nodes |-> 5, items |-> 9, characters |-> 6]}

\* -------------------------------------------------------------------- patches
Unreturned == [text \in {"a", "b", "++x", "a-cr"} |-> IF text = "a-cr" THEN "a" ELSE text]
Texts == {<<>>} \cup {<<x>> : x \in {"a", "++x", "a-cr"}}
         \cup {<<x, y>> : x \in {"a", "b"}, y \in {"b", "++x", "a-cr"}}
         \cup {<<"a", "b", "a">>, <<"b", "a", "b">>}
In(kind, text) == [kind |-> kind, text |-> text]
Hunk(start, old, new, lines) == [start |-> start, old |-> old, new |-> new, lines |-> lines]
Hunks ==
    {Hunk(1, 1, 1, <<In("-", "a"), In("+", "b")>>), Hunk(1, 2, 3, <<In(" ", "a"), In("+", "++x"), In(" ", "b")>>),
     Hunk(2, 1, 0, <<In("-", "b")>>), Hunk(3, 1, 2, <<In(" ", "b"), In("+", "++x"), In("\\", "a")>>),
     Hunk(0, 0, 1, <<In("+", "a")>>), Hunk(2, 2, 1, <<In("-", "b"), In("+", "a")>>)}
FilesToPatch == [lines : Texts, newline : BOOLEAN] \ {[lines |-> <<>>, newline |-> TRUE]}
Answers == [gone : {FALSE}, hunks : {<<h>> : h \in Hunks} \cup {<<h, i>> : h, i \in Hunks}]
           \cup [gone : BOOLEAN, hunks : {<<>>}]
Patching == INSTANCE MutationPatch
    WITH Contents <- FilesToPatch, PlusPlus <- {"++x"}, Unreturned <- Unreturned, Patches <- Answers

\* ------------------------------------------------------------------- indexing
Path(dir, name) == [dir |-> dir, name |-> name]
Entry(dir, name, kind, code) == [dir |-> dir, name |-> name, kind |-> kind, access |-> "granted", code |-> code]
Import(dir, name) == [kind |-> "import", relative |-> TRUE, exported |-> FALSE, to |-> Path(dir, name)]
Package(name) == [Import(<<>>, <<name>>) EXCEPT !.relative = FALSE]
Declared(kind, exported) == [kind |-> kind, relative |-> FALSE, exported |-> exported, to |-> Path(<<>>, <<>>)]
InSrc == <<<<"src">>>>
Main == Entry(<<>>, <<"main", ".ts">>, "file",
              <<Import(InSrc, <<"a", ".js">>), Import(<<>>, <<"src">>), Package("ts"),
                Declared("function", TRUE), Declared("constant", TRUE)>>)
Src == Entry(<<>>, <<"src">>, "dir", <<>>)
SourceA == Entry(InSrc, <<"a", ".ts">>, "file",
                 <<Declared("class", TRUE), Declared("method", FALSE), Import(<<>>, <<"main">>)>>)
CompiledA == Entry(InSrc, <<"a", ".js">>, "file", <<Declared("variable", FALSE)>>)
IndexOfSrc == Entry(InSrc, <<"index", ".ts">>, "file",
                    <<[Import(InSrc, <<"a">>) EXCEPT !.kind = "reexport"], Import(InSrc, <<"b">>)>>)
TestOfA == Entry(InSrc, <<"a", ".test", ".ts">>, "file", <<Import(InSrc, <<"a", ".js">>)>>)
OtherA == Entry(<<>>, <<"a", ".py">>, "file", <<>>)
Unwanted ==
    {Entry(<<>>, <<"node_modules">>, "dir", <<>>), Entry(<<<<"node_modules">>>>, <<"a", ".ts">>, "file", <<>>),
     Entry(<<>>, <<"link">>, "other", <<>>), Entry(<<>>, <<"Dockerfile">>, "file", <<>>),
     Entry(<<>>, <<"x", ".png">>, "file", <<>>)}
SourceTrees ==
    {{Main, Src, SourceA, TestOfA, OtherA}, {Main, Src, SourceA, CompiledA, IndexOfSrc},
     {Main, Src, IndexOfSrc, TestOfA}, {Main, Src, CompiledA, [IndexOfSrc EXCEPT !.access = "denied"]},
     {Main, SourceA, [Src EXCEPT !.access = "denied"]},
     {Main, Src, [SourceA EXCEPT !.access = "gone"], CompiledA}, {Src, SourceA} \cup Unwanted}
Indexing == INSTANCE SymbolIndex WITH Trees <- SourceTrees

\* ------------------------------------------------------------------- autonomy
Change(files, lines, scripts) == [files |-> files, lines |-> lines, scripts |-> scripts]
Autonomy == INSTANCE AutonomyDecisions
    WITH Requests <- [words : {{"feature"}, {"refactor", "test"}}, signal : {FALSE}, files : {7, 8},
                      scope : {"plain", "critical"}, failures : {39, 40}]
                     \cup [words : {{}, {"test", "planning"}}, signal : {FALSE}, files : {1},
                           scope : {"sensitive"}, failures : {0}]
                     \cup [words : {{}}, signal : {TRUE}, files : {1}, scope : {"plain"}, failures : {0}],
         Proposals <- {Change(1, 10, 3), Change(6, 120, 1), Change(11, 120, 0)},
         Impacts <- {[affected |-> 2, weak |-> FALSE, added |-> FALSE], [affected |-> 2, weak |-> TRUE, added |-> TRUE],
                     [affected |-> 9, weak |-> FALSE, added |-> TRUE]},
         Plans <- {{}, {"x"}},
         Budget <- [files |-> 12, lines |-> 250, mutations |-> 2, repairs |-> 1, replans |-> 1, iterations |-> 3]

\* ------------------------------------------------------------------- sandboxes
Request(executable, action, hosts) == [executable |-> executable, action |-> action, hosts |-> hosts]
Sandboxing == INSTANCE SandboxLifecycle
    WITH Retentions <- {"destroy", "retain-on-failure"}, AllowedHosts <- {"registry"},
         Requests <- {Request("npm", "test", {}), Request("npm", "install", {}), Request("git", "diff", {"elsewhere"}),
                      Request("curl", "-O", {"registry"}), Request("sh", "-c", {}), Request("node", "-e", {})}

Verifying == INSTANCE LayeredVerification

\* --------------------------------------------------------------- the decisions
Topics == {"learning", "routing", "planning", "context", "patching", "indexing", "autonomy", "sandboxing", "verifying"}
Unused == "unused"

Init ==
    /\ topic \in Topics
    /\ IF topic = "learning"  THEN Learning!Init ELSE learned = Unused
    /\ IF topic = "routing"   THEN Routing!Init  ELSE routed = Unused
    /\ IF topic = "planning"  THEN Planning!Init ELSE planned = Unused
    /\ IF topic = "context"   THEN Context!Init  ELSE context = Unused
    /\ IF topic = "patching"  THEN Patching!Init ELSE patched = Unused
    /\ IF topic = "indexing"  THEN Indexing!Init ELSE indexed = Unused
    /\ IF topic = "autonomy"  THEN Autonomy!Init ELSE auto = Unused
    /\ IF topic = "sandboxing" THEN Sandboxing!Init ELSE boxed = Unused
    /\ IF topic = "verifying" THEN Verifying!Init
       ELSE /\ requested = Unused /\ risky = Unused /\ manifest = Unused /\ phase = Unused
            /\ selected = Unused /\ detected = Unused /\ layer = Unused /\ trusted = Unused
            /\ status = Unused /\ runs = Unused /\ passed = Unused /\ rewrites = Unused

Next ==
    \/ /\ topic = "learning" /\ Learning!Next
       /\ UNCHANGED <<topic, routed, planned, context, patched, indexed, auto, boxed, verification>>
    \/ /\ topic = "routing" /\ Routing!Next
       /\ UNCHANGED <<topic, learned, planned, context, patched, indexed, auto, boxed, verification>>
    \/ /\ topic = "planning" /\ Planning!Next
       /\ UNCHANGED <<topic, learned, routed, context, patched, indexed, auto, boxed, verification>>
    \/ /\ topic = "context" /\ Context!Next
       /\ UNCHANGED <<topic, learned, routed, planned, patched, indexed, auto, boxed, verification>>
    \/ /\ topic = "patching" /\ Patching!Next
       /\ UNCHANGED <<topic, learned, routed, planned, context, indexed, auto, boxed, verification>>
    \/ /\ topic = "indexing" /\ Indexing!Next
       /\ UNCHANGED <<topic, learned, routed, planned, context, patched, auto, boxed, verification>>
    \/ /\ topic = "autonomy" /\ Autonomy!Next
       /\ UNCHANGED <<topic, learned, routed, planned, context, patched, indexed, boxed, verification>>
    \/ /\ topic = "sandboxing" /\ Sandboxing!Next
       /\ UNCHANGED <<topic, learned, routed, planned, context, patched, indexed, auto, verification>>
    \/ /\ topic = "verifying" /\ Verifying!Next
       /\ UNCHANGED <<topic, learned, routed, planned, context, patched, indexed, auto, boxed>>

Spec == Init /\ [][Next]_vars

\* ------------------------------------------------------------------ properties
\* What a finished task changed, and the verdict on each file, is stored under that task,
\* although tasks share predictions and a failed task may be tried again, until a resume takes
\* up a record that another task has overwritten (feedback.ts 4-13, runner.ts 299-304).
FeedbackFiled == topic = "learning" => Learning!FeedbackFiled

\* Once outcomes count as evidence and more than one observation stands behind a file, another
\* prediction of it that proves wrong never makes it look more likely, to a task of any type
\* (analyze-impact.ts 54-97).
LaterMissesNeverRaise == topic = "learning" => Learning!LaterMissesNeverRaise

\* A successful task is credited to the model whose proposal was delivered and to no other,
\* whatever failed before it, unless that proposal took an older one's id
\* (runner.ts 110-116, 299-302, fallback.ts 13-26).
SuccessCredited == topic = "routing" => Routing!SuccessCredited

\* Every model that ran was allowed by the selection that chose it, and stored fallbacks lead
\* to it (candidate-builder.ts 38-47, model-selector.ts 11-28, fallback.ts 15-23).
RunsJustified == topic = "routing" => Routing!RunsJustified

\* A plan that is run can be put in an order that respects its dependencies and asks for
\* nothing the agent may not do (validate-plan.ts 11-40).
AcceptedIsSound == topic = "planning" => Planning!AcceptedIsSound

\* Each tool call has its start, its outcome and its evidence in memory, unless a call of the
\* same plan was denied (executor.ts 18-35, 49-51).
CallsRecorded == topic = "planning" => Planning!CallsRecorded


\* A proposed patch changes exactly what it says it changes, and can be taken back
\* (mutation/patch.ts 13-55).
PatchesExact == topic = "patching" => Patching!PatchesExact

\* A finished index is the graph of the tree, in whatever order the tree was listed
\* (discover-files.ts 53-85, extract-symbols.ts 28-90, 169-181).
ImportsReachTheirFile == topic = "indexing" => Indexing!ImportsReachTheirFile

\* Who has to ask for one change has to ask for every riskier one, and so has every more
\* careful mode (risk.ts 5-21, policy.ts 4-9).
RiskierAsksMore == topic = "autonomy" => Autonomy!RiskierAsksMore

\* What completes without a user was verified, and within the budget
\* (runner.ts 161-197, evaluate.ts 4-15, review.ts 8-16).
CompletedAsReviewed == topic = "autonomy" => Autonomy!CompletedAsReviewed

\* "syntax/type failure cannot be masked by broader verification": no layer is skipped, what
\* passed was not empty, its decisive required steps passed, and for a high or critical risk
\* nothing trusted was left out (autonomy/verification.ts, verification/runner.ts).
VerdictSound == topic = "verifying" => Verifying!VerdictSound

\* "resumes a retained sandbox through a new provider instance": the workspace a run works in
\* holds what was last written to it or, if that was lost, the newest snapshot
\* (sandbox-manager.ts 25-47).
KeptWork == topic = "sandboxing" => Sandboxing!KeptWork
=============================================================================
