--------------------------- MODULE ContextSelection ---------------------------
(***************************************************************************)
(* What a model is shown of the project: the files and symbols a request   *)
(* matches, the graph around them, expanded level by level, ranked and cut *)
(* to a budget (context/*.ts, queryContext of feltdb-project-memory.ts).   *)
(*                                                                         *)
(* Nodes are files and symbols, numbered in the order of their ids.  An    *)
(* item is a node or the index of an edge.  Scores are in hundredths.      *)
(* Commits, observations and co-change counts only add to the scores and   *)
(* are left out, and the graph is smaller than the limits of the query.    *)
(***************************************************************************)
EXTENDS Integers, FiniteSets, FiniteSetsExt, Sequences, SequencesExt

CONSTANTS
    Files,       \* the project's files
    FileOf,      \* the file of each symbol
    Edges,       \* the stored graph: a sequence of [from, to, relation, confidence]
    Sizes,       \* characters of each node's content; an edge has one
    Requests,    \* [named, mentions, open]: the nodes whose path or name the request matches, the
                 \* files whose content does, and the files open in the editor
    Policies     \* [depth, nodes, items, characters]: the expansion and the budget

VARIABLE context  \* the context engine's progress

Symbols == DOMAIN FileOf
Expandable == {"IMPORTS", "TESTS"}
Ends(e) == {Edges[e].from, Edges[e].to}
\* a set as the sequence a strict total order gives
InOrder(set, before(_, _)) ==
    FoldSet(LAMBDA x, seq : InsertAt(seq, Len(SelectSeq(seq, LAMBDA y : before(y, x))) + 1, x), <<>>, set)
Ascending(set) == InOrder(set, LAMBDA x, y : x < y)
NodeItem(n) == <<"node", n>>
EdgeItem(e) == <<"edge", e>>

\* ------------------------------------------------------------------- candidates
\* the files memory finds by a path or a symbol, and those one edge away
Found(named) == (named \cap Files) \cup {FileOf[s] : s \in named \cap Symbols}
OtherEnd(found, e) == IF Edges[e].from \in found THEN Edges[e].to ELSE Edges[e].from
Reaching(found, f) == {e \in DOMAIN Edges : Ends(e) \cap found # {} /\ OtherEnd(found, e) = f}
Near(found) == found \cup {f \in Files : Reaching(found, f) # {}}
Touching(files) == {e \in DOMAIN Edges : Ends(e) \cap files # {}}

\* a file reached through an import or a test gets its score in memory as its structural score
NearScore(named, f) ==
    LET found == Found(named)
    IN Min({100, 30 * (Cardinality({f} \cap named) + Cardinality({s \in named \cap Symbols : FileOf[s] = f}))
                 + 25 * Cardinality(Reaching(found, f))})
FileReason(named, mentions, f) ==
    [lexical |-> IF f \in named \cup mentions THEN 100 ELSE 0,
     structural |-> IF \E e \in Reaching(Found(named), f) : Edges[e].relation \in Expandable
                    THEN NearScore(named, f) ELSE 0]
SymbolReason(named, s) == [lexical |-> IF s \in named THEN 100 ELSE 0, structural |-> 40]
EdgeReason(e) ==
    [lexical |-> 0,
     structural |-> (Edges[e].confidence * (IF Edges[e].relation = "EXPORTS" THEN 40 ELSE 100)) \div 100]
\* a file known only as the end of an edge takes the confidence of the first such edge
EndReason(edges, f) ==
    [lexical |-> 0, structural |-> Edges[Min({e \in edges : f \in Ends(e)})].confidence]
Larger(a, b) == [lexical |-> Max({a.lexical, b.lexical}), structural |-> Max({a.structural, b.structural})]
EditorReason(open, f) == [lexical |-> 100, structural |-> IF f = Head(open) THEN 100 ELSE 50]

Candidates(named, mentions, open) ==
    LET near == Near(Found(named))
        edges == Touching(near)
        nodes == near \cup {s \in Symbols : FileOf[s] \in near} \cup ToSet(open)
                      \cup (UNION {Ends(e) : e \in edges} \cap Files)
        reason(n) ==
            LET read == CASE n \in Symbols -> SymbolReason(named, n)
                          [] n \in near -> FileReason(named, mentions, n)
                          [] n \in ToSet(open) -> EditorReason(open, n)
                          [] OTHER -> EndReason(edges, n)
            IN IF n \in ToSet(open) THEN Larger(read, EditorReason(open, n)) ELSE read
    IN [i \in {NodeItem(n) : n \in nodes} \cup {EdgeItem(e) : e \in edges} |->
          IF i[1] = "node" THEN reason(i[2]) ELSE EdgeReason(i[2])]

\* -------------------------------------------------------------------- expansion
Links(items) == {e \in DOMAIN Edges : EdgeItem(e) \in DOMAIN items /\ Edges[e].relation \in Expandable}
Seeds(items) ==
    LET matching == {i \in DOMAIN items : items[i].lexical > 0}
        before(i, j) == \/ items[i].lexical > items[j].lexical
                        \/ items[i].lexical = items[j].lexical /\ i[2] < j[2]
        sorted == InOrder(matching, before)
    IN [k \in DOMAIN sorted |-> sorted[k][2]]

Across(e, n) == IF n \in Ends(e) THEN (IF Edges[e].from = n THEN {Edges[e].to} ELSE {Edges[e].from}) ELSE {}

\* One level: every link of every node of the frontier, in order, while there is room.
Level(frontier, depth) ==
    LET links == Ascending(Links(context.items))
        follow(at, n, e) ==
            IF \/ Across(e, n) \subseteq at.visited
               \/ Cardinality(at.visited) >= context.policy.nodes THEN at
            ELSE LET other == CHOOSE m \in Across(e, n) : TRUE
                     item == NodeItem(other)
                     boost == [lexical |-> 0, structural |-> 100 \div depth]
                 IN [visited |-> at.visited \cup {other}, next |-> at.next \cup {other},
                     items |-> [i \in DOMAIN at.items \cup {item} |->
                                  IF i # item THEN at.items[i]
                                  ELSE IF item \in DOMAIN at.items THEN Larger(at.items[i], boost) ELSE boost]]
        visit(at, n) == FoldLeft(LAMBDA a, e : follow(a, n, e), at, links)
    IN FoldLeft(visit, [visited |-> context.visited, next |-> {}, items |-> context.items], frontier)

\* ---------------------------------------------------------- ranking and budget
Score(items, i) == 30 * items[i].lexical + 25 * items[i].structural
Priority(i) == IF i[1] = "edge" THEN 3 ELSE IF i[2] \in Symbols THEN 2 ELSE 0
Ranked(items) ==
    InOrder(DOMAIN items, LAMBDA i, j :
        \/ Score(items, i) > Score(items, j)
        \/ Score(items, i) = Score(items, j) /\ Priority(i) < Priority(j)
        \/ Score(items, i) = Score(items, j) /\ Priority(i) = Priority(j) /\ i[2] < j[2])

Size(i) == IF i[1] = "edge" THEN 1 ELSE Sizes[i[2]]
Characters(chosen) == FoldLeft(LAMBDA sum, i : sum + Size(i), 0, chosen)
Fits(chosen, i, policy) ==
    Len(chosen) < policy.items /\ Characters(chosen) + Size(i) <= policy.characters
\* an item that does not fit is passed over, not the end of the selection
WithinBudget(ranked, policy) ==
    FoldLeft(LAMBDA chosen, i : IF Fits(chosen, i, policy) THEN Append(chosen, i) ELSE chosen, <<>>, ranked)

\* ---------------------------------------------------------------------- actions
NoPolicy == [depth |-> 0, nodes |-> 0, items |-> 0, characters |-> 0]
Init == context = [pc |-> "idle", items |-> <<>>, policy |-> NoPolicy, seeds |-> {}, depth |-> 1,
                   frontier |-> <<>>, visited |-> {}, chosen |-> <<>>]

\* generateContextCandidates, and the seeds of the expansion.
Generate(named, mentions, open, policy) ==
    LET items == Candidates(named, mentions, open)
        seeds == SubSeq(Seeds(items), 1, Min({policy.nodes, Len(Seeds(items))}))
    IN /\ context.pc = "idle"
       /\ context' = [context EXCEPT !.pc = "expand", !.items = items, !.policy = policy,
                         !.seeds = ToSet(seeds), !.frontier = seeds, !.visited = ToSet(seeds)]

Expanding == /\ context.depth <= context.policy.depth /\ context.frontier # <<>>
             /\ Cardinality(context.visited) < context.policy.nodes

Expand ==
    LET at == Level(context.frontier, context.depth)
    IN /\ context.pc = "expand" /\ Expanding
       /\ context' = [context EXCEPT !.items = at.items, !.visited = at.visited, !.depth = @ + 1,
                                     !.frontier = Ascending(at.next)]

Select ==
    /\ context.pc = "expand" /\ ~Expanding
    /\ context' = [context EXCEPT !.pc = "done",
                      !.chosen = WithinBudget(Ranked(context.items), context.policy)]

Next ==
    \/ \E r \in Requests, policy \in Policies : Generate(r.named, r.mentions, r.open, policy)
    \/ Expand \/ Select

\* -------------------------------------------------------------------- properties
\* the nodes within k links of the seeds, whichever way the links point
Within(items, seeds, k) ==
    LET ring[j \in 0..k] ==
            IF j = 0 THEN seeds
            ELSE ring[j - 1] \cup UNION {Ends(e) : e \in {l \in Links(items) : Ends(l) \cap ring[j - 1] # {}}}
    IN ring[k]

===============================================================================
