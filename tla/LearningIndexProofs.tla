-------------------------- MODULE LearningIndexProofs --------------------------
(***************************************************************************)
(* What is known of a project, for every value of the constants: the       *)
(* changes of a task are filed under it, and a miss never counts for a     *)
(* file, whatever was learned before; and the index of a source tree is    *)
(* the graph of that tree, in whatever order its directories are listed.   *)
(* The lemmas about finite orders that the other decisions need as well    *)
(* come first.                                                             *)
(***************************************************************************)
EXTENDS AgentDecisions, FiniteSetTheorems, WellFoundedInduction, SequenceTheorems, TLAPS

\* ---------------------------------------------------------- walks over dependencies
LEMMA LeastElement ==
  ASSUME NEW S \in SUBSET Nat, S # {}
  PROVE  \E n \in S : \A m \in S : n <= m
<1>1. \E n \in S : \A m \in S : ~ (<<m, n>> \in OpToRel(<, Nat))
  BY NatLessThanWellFounded, WFMin
<1>2. \A n, m \in S : m < n => <<m, n>> \in OpToRel(<, Nat)
  BY DEF OpToRel
<1>3. \E n \in S : \A m \in S : ~ (m < n)
  BY <1>1, <1>2, Zenon
<1> QED BY <1>3

\* the walk over dependencies D, for a set S of steps
Met(S, D, f) == f = [visiting \in SUBSET S |-> {id \in S : id \in visiting \/ D[id] \cap f[visiting \cup {id}] # {}}]
Supported(S, D, Q) == \A p \in Q : p[1] \in p[2] \/ \E d \in D[p[1]] : <<d, p[2] \cup {p[1]}>> \in Q

LEMMA WalkExists ==
  ASSUME NEW S, NEW D \in [S -> SUBSET S]
  PROVE  \E f : Met(S, D, f)
<1> DEFINE All == {Q \in SUBSET (S \X SUBSET S) : Supported(S, D, Q)}
           P == UNION All
           f == [visiting \in SUBSET S |-> {id \in S : <<id, visiting>> \in P}]
<1>1. P \in SUBSET (S \X SUBSET S)
  OBVIOUS
<1>2. Supported(S, D, P)
  <2> SUFFICES ASSUME NEW p \in P PROVE p[1] \in p[2] \/ \E d \in D[p[1]] : <<d, p[2] \cup {p[1]}>> \in P
    BY DEF Supported
  <2>1. PICK Q \in All : p \in Q
    OBVIOUS
  <2> QED BY <2>1 DEF Supported
<1>3. ASSUME NEW id \in S, NEW V \in SUBSET S, id \in V \/ \E d \in D[id] : <<d, V \cup {id}>> \in P
      PROVE  <<id, V>> \in P
  <2> DEFINE Q == P \cup {<<id, V>>}
  <2>1. Q \in SUBSET (S \X SUBSET S)
    BY <1>1
  <2>2. Supported(S, D, Q)
    <3> HIDE DEF P
    <3> SUFFICES ASSUME NEW p \in Q PROVE p[1] \in p[2] \/ \E d \in D[p[1]] : <<d, p[2] \cup {p[1]}>> \in Q
      BY DEF Supported
    <3>1. CASE p \in P
      BY <3>1, <1>2 DEF Supported
    <3>2. CASE p = <<id, V>>
      BY <3>2, <1>3
    <3> QED BY <3>1, <3>2
  <2> QED BY <2>1, <2>2
<1>4. ASSUME NEW V \in SUBSET S, NEW id \in S
      PROVE  <<id, V>> \in P <=> id \in V \/ D[id] \cap f[V \cup {id}] # {}
  <2>1. V \cup {id} \in SUBSET S /\ D[id] \subseteq S
    OBVIOUS
  <2>2. f[V \cup {id}] = {d \in S : <<d, V \cup {id}>> \in P}
    BY <2>1
  <2>3. <<id, V>> \in P => id \in V \/ \E d \in D[id] : <<d, V \cup {id}>> \in P
    <3> HIDE DEF P
    <3> QED BY <1>2 DEF Supported
  <2> HIDE DEF P, f
  <2> QED BY <2>1, <2>2, <2>3, <1>3
<1>5. Met(S, D, f)
  <2>1. ASSUME NEW V \in SUBSET S
        PROVE  f[V] = {id \in S : id \in V \/ D[id] \cap f[V \cup {id}] # {}}
    <3>1. f[V] = {id \in S : <<id, V>> \in P}
      OBVIOUS
    <3> HIDE DEF f, P
    <3> QED BY <3>1, <1>4
  <2>2. f = [V \in SUBSET S |-> f[V]]
    OBVIOUS
  <2> HIDE DEF f
  <2>3. [V \in SUBSET S |-> f[V]] = [V \in SUBSET S |-> {id \in S : id \in V \/ D[id] \cap f[V \cup {id}] # {}}]
    BY <2>1
  <2> QED BY <2>2, <2>3 DEF Met
<1> QED BY <1>5

\* a walk in a set that every step of it has a dependency in comes back
LEMMA WalkComesBack ==
  ASSUME NEW S, IsFiniteSet(S), NEW D \in [S -> SUBSET S], NEW f, Met(S, D, f),
         NEW U \in SUBSET S, \A x \in U : D[x] \cap U # {}, U # {}
  PROVE  f[{}] # {}
<1> DEFINE Bad == {n \in Nat : \E V \in SUBSET S : n = Cardinality(S \ V) /\ ~(U \subseteq f[V])}
<1>1. ASSUME NEW V \in SUBSET S
      PROVE  f[V] = {id \in S : id \in V \/ D[id] \cap f[V \cup {id}] # {}}
  BY DEF Met
<1>2. Bad = {}
  <2> SUFFICES ASSUME Bad # {} PROVE FALSE
    OBVIOUS
  <2>1. PICK n \in Bad : \A m \in Bad : n <= m
    <3>1. Bad \in SUBSET Nat
      OBVIOUS
    <3> HIDE DEF Bad
    <3> QED BY <3>1, LeastElement
  <2>2. PICK V \in SUBSET S : n = Cardinality(S \ V) /\ ~(U \subseteq f[V])
    OBVIOUS
  <2>3. PICK x \in U : x \notin f[V]
    BY <2>2
  <2>4. x \notin V /\ D[x] \cap f[V \cup {x}] = {}
    BY <2>3, <1>1
  <2>5. PICK d \in U : d \in D[x]
    OBVIOUS
  <2>6. V \cup {x} \in SUBSET S /\ ~(U \subseteq f[V \cup {x}])
    BY <2>4, <2>5
  <2>7. S \ (V \cup {x}) = (S \ V) \ {x} /\ x \in S \ V /\ IsFiniteSet(S \ V)
    BY <2>4, FS_Difference
  <2>8. Cardinality(S \ (V \cup {x})) = n - 1 /\ n \in Nat /\ n - 1 \in Nat
    <3>1. Cardinality((S \ V) \ {x}) = Cardinality(S \ V) - 1
      BY <2>7, FS_RemoveElement
    <3>2. IsFiniteSet((S \ V) \ {x}) /\ Cardinality((S \ V) \ {x}) \in Nat
      BY <2>7, FS_RemoveElement, FS_CardinalityType
    <3> QED BY <3>1, <3>2, <2>2, <2>7
  <2>9. n - 1 \in Bad
    BY <2>6, <2>8
  <2> HIDE DEF Bad
  <2> QED BY <2>1, <2>8, <2>9
<1>3. Cardinality(S \ {}) \in Nat
  BY FS_CardinalityType
<1>4. U \subseteq f[{}]
  BY <1>2, <1>3
<1> QED BY <1>4

LEMMA RankExists ==
  ASSUME NEW S, IsFiniteSet(S), NEW D \in [S -> SUBSET S],
         \A U \in SUBSET S : U # {} => \E x \in U : D[x] \cap U = {}
  PROVE  \E rank \in [S -> 1 .. Cardinality(S)] : \A x \in S : \A d \in D[x] : rank[d] < rank[x]
<1> DEFINE N == Cardinality(S)
           Ranked(T, n) == /\ Cardinality(T) = n
                           /\ \A x \in T : D[x] \subseteq T
                           /\ \E rank \in [T -> 1 .. n] : \A x \in T : \A d \in D[x] : rank[d] < rank[x]
           Bad == {n \in Nat : n <= N /\ \A T \in SUBSET S : ~Ranked(T, n)}
<1>0. N \in Nat
  BY FS_CardinalityType
<1>1. Bad = {}
  <2> SUFFICES ASSUME Bad # {} PROVE FALSE
    OBVIOUS
  <2>1. PICK n \in Bad : \A m \in Bad : n <= m
    <3>1. Bad \in SUBSET Nat
      OBVIOUS
    <3> HIDE DEF Bad
    <3> QED BY <3>1, LeastElement
  <2>2. n \in Nat /\ n <= N /\ \A T \in SUBSET S : ~Ranked(T, n)
    OBVIOUS
  <2>3. n # 0
    <3>1. Ranked({}, 0)
      <4>1. Cardinality({}) = 0
        BY FS_EmptySet
      <4>2. [x \in {} |-> 1] \in [{} -> 1 .. 0]
        OBVIOUS
      <4> QED BY <4>1, <4>2
    <3> QED BY <3>1, <2>2
  <2>4. n - 1 \in Nat /\ n - 1 <= N /\ n - 1 \notin Bad
    <3> HIDE DEF Bad
    <3> QED BY <2>1, <2>2, <2>3, <1>0
  <2>5. PICK T \in SUBSET S : Ranked(T, n - 1)
    BY <2>4
  <2>6. PICK rank \in [T -> 1 .. (n - 1)] : \A x \in T : \A d \in D[x] : rank[d] < rank[x]
    BY <2>5
  <2>7. IsFiniteSet(T)
    BY FS_Subset
  <2>8. S \ T # {}
    <3> SUFFICES ASSUME S = T PROVE FALSE
      OBVIOUS
    <3> QED BY <2>5, <2>2, <1>0
  <2>9. PICK x \in S \ T : D[x] \cap (S \ T) = {}
    BY <2>8
  <2> DEFINE new == [y \in T \cup {x} |-> IF y = x THEN n ELSE rank[y]]
  <2>10. D[x] \subseteq T /\ x \notin T
    BY <2>9
  <2>11. Cardinality(T \cup {x}) = n
    <3>1. Cardinality(T \cup {x}) = Cardinality(T) + 1
      BY <2>7, <2>10, FS_AddElement
    <3> QED BY <3>1, <2>5, <2>2
  <2>12. \A y \in T : rank[y] \in Nat /\ rank[y] <= n - 1 /\ 1 <= rank[y]
    BY <2>6, <2>2
  <2>13. new \in [T \cup {x} -> 1 .. n]
    BY <2>12, <2>2, <2>3
  <2>14. \A y \in T \cup {x} : D[y] \subseteq T
    BY <2>5, <2>10
  <2>15. \A y \in T \cup {x} : \A d \in D[y] : new[d] < new[y]
    <3> SUFFICES ASSUME NEW y \in T \cup {x}, NEW d \in D[y] PROVE new[d] < new[y]
      OBVIOUS
    <3>1. d \in T /\ d # x
      BY <2>14, <2>10
    <3>2. CASE y = x
      BY <3>1, <3>2, <2>12, <2>2
    <3>3. CASE y # x
      BY <3>1, <3>3, <2>6
    <3> QED BY <3>2, <3>3
  <2>16. Ranked(T \cup {x}, n)
    <3> HIDE DEF new
    <3> QED BY <2>11, <2>13, <2>14, <2>15
  <2> QED BY <2>16, <2>2
<1>2. PICK T \in SUBSET S : Ranked(T, N)
  <2>1. ~ (\A T \in SUBSET S : ~Ranked(T, N))
    <3> HIDE DEF Ranked
    <3>1. N \notin Bad /\ N <= N
      BY <1>0, <1>1
    <3> QED BY <1>0, <3>1
  <2> HIDE DEF Ranked
  <2> QED BY <2>1
<1>3. T = S
  BY <1>2, FS_Subset
<1> QED BY <1>2, <1>3

\* ---------------------------------------------------------------------- orders
LEMMA PairsAreFinite == \A a, b : IsFiniteSet({a, b})
<1> SUFFICES ASSUME NEW a, NEW b PROVE IsFiniteSet({a, b})
  OBVIOUS
<1>1. IsFiniteSet({a} \cup {b})
  BY FS_AddElement, FS_Singleton
<1>2. {a} \cup {b} = {a, b}
  OBVIOUS
<1> QED BY <1>1, <1>2

\* a strict order of S, each pair of which it orders, as the set of smaller elements of each
StrictOrder(S, D) ==
    /\ \A x \in S : x \notin D[x]
    /\ \A x \in S : \A y \in D[x] : D[y] \subseteq D[x]
    /\ \A x, y \in S : x # y => x \in D[y] \/ y \in D[x]

LEMMA FirstExists ==
  ASSUME NEW S, IsFiniteSet(S), NEW D \in [S -> SUBSET S], StrictOrder(S, D),
         NEW U \in SUBSET S, U # {}
  PROVE  \E x \in U : D[x] \cap U = {}
<1> DEFINE Sizes == {n \in Nat : \E x \in U : n = Cardinality(D[x] \cap U)}
<1>1. \A x \in U : IsFiniteSet(D[x] \cap U) /\ Cardinality(D[x] \cap U) \in Nat
  <2> SUFFICES ASSUME NEW x \in U PROVE IsFiniteSet(D[x] \cap U) /\ Cardinality(D[x] \cap U) \in Nat
    OBVIOUS
  <2>1. D[x] \cap U \in SUBSET S
    OBVIOUS
  <2>2. IsFiniteSet(D[x] \cap U)
    BY <2>1, FS_Subset
  <2> QED BY <2>2, FS_CardinalityType
<1>2. PICK n \in Sizes : \A m \in Sizes : n <= m
  <2>1. Sizes \in SUBSET Nat /\ Sizes # {}
    BY <1>1
  <2> HIDE DEF Sizes
  <2> QED BY <2>1, LeastElement
<1>3. PICK x \in U : n = Cardinality(D[x] \cap U)
  OBVIOUS
<1>4. ASSUME NEW y \in D[x] \cap U PROVE FALSE
  <2>1. D[y] \cap U \in SUBSET (D[x] \cap U) /\ y \notin D[y]
    BY DEF StrictOrder
  <2>2. D[y] \cap U # D[x] \cap U
    BY <2>1
  <2>3. Cardinality(D[y] \cap U) <= n /\ Cardinality(D[y] \cap U) # n
    BY <1>1, <1>3, <2>1, <2>2, FS_Subset
  <2>4. Cardinality(D[y] \cap U) \in Sizes /\ Cardinality(D[y] \cap U) \in Nat /\ n \in Nat
    BY <1>1, <1>2
  <2> HIDE DEF Sizes
  <2> QED BY <1>2, <2>3, <2>4
<1> QED BY <1>4

LEMMA SortedExists ==
  ASSUME NEW S, IsFiniteSet(S), NEW D \in [S -> SUBSET S], StrictOrder(S, D)
  PROVE  \E s \in [1 .. Cardinality(S) -> S] : \A i, j \in 1 .. Cardinality(S) : i < j => s[i] \in D[s[j]]
<1> DEFINE N == Cardinality(S)
<1>1. N \in Nat /\ IsFiniteSet(1 .. N) /\ Cardinality(1 .. N) = N
  BY FS_CardinalityType, FS_Interval
<1>2. PICK rank \in [S -> 1 .. N] : \A x \in S : \A d \in D[x] : rank[d] < rank[x]
  BY FirstExists, RankExists
<1>3. \A x \in S : rank[x] \in Nat
  BY <1>1, <1>2
<1>4. rank \in Injection(S, 1 .. N)
  <2>1. ASSUME NEW x \in S, NEW y \in S, x # y PROVE rank[x] # rank[y]
    BY <1>2, <1>3, <2>1 DEF StrictOrder
  <2> QED BY <1>2, <2>1 DEF Injection, IsInjective
<1>5. rank \in Surjection(S, 1 .. N)
  <2> HIDE DEF N
  <2> QED BY <1>1, <1>4, FS_Injection DEF N
<1>6. \A k \in 1 .. N : \E x \in S : rank[x] = k
  BY <1>5 DEF Surjection
<1> DEFINE s == [k \in 1 .. N |-> CHOOSE x \in S : rank[x] = k]
<1>7. \A k \in 1 .. N : s[k] \in S /\ rank[s[k]] = k
  BY <1>6
<1>8. s \in [1 .. N -> S]
  BY <1>7
<1>9. ASSUME NEW i \in 1 .. N, NEW j \in 1 .. N, i < j PROVE s[i] \in D[s[j]]
  <2>1. /\ s[i] \in S /\ s[j] \in S /\ rank[s[i]] = i /\ rank[s[j]] = j /\ i \in Nat /\ j \in Nat
    BY <1>1, <1>7
  <2> HIDE DEF s
  <2>2. s[i] # s[j]
    BY <2>1, <1>9
  <2>3. s[j] \notin D[s[i]]
    BY <2>1, <1>2, <1>9
  <2> QED BY <2>1, <2>2, <2>3 DEF StrictOrder
<1> HIDE DEF s
<1> QED BY <1>8, <1>9

\* ------------------------------------------------------------------- learning
Targets == {{"a"}, {"a", "b", "d"}}
TypeNames == {"bugfix", "feature"}
LearnedFields == {"requests", "retries", "predictions", "proposals", "signals", "outcomes", "changed", "run", "crossed"}
LearnerFields == {"status", "away", "impact", "id", "files"}
Ended == {"done", "failed"}
TypeOf(t) == learned.requests[t].type
StoredFor(t) == learned.predictions[learned.run[t].id][TypeOf(t)]

\* A task that runs or may be resumed has a prediction in memory, of some task.
LearnerOK(t) ==
    LET r == learned.run[t]
    IN /\ DOMAIN r = LearnerFields /\ r.status \in {"new"} \cup Learning!Started \cup Ended
       /\ r.away \in BOOLEAN /\ (r.away => r.status \in Learning!Started)
       /\ r.status \in Learning!Started => r.id \in Targets /\ StoredFor(t).task \in Tasks
       /\ r.files \in {{}} \cup Targets /\ (r.status \in {"proposed", "applied"} => r.files \in Targets)
LearningTypeOK ==
    /\ DOMAIN learned = LearnedFields /\ DOMAIN learned.run = Tasks /\ DOMAIN learned.changed = Tasks
    /\ DOMAIN learned.predictions = Targets /\ \A T \in Targets : DOMAIN learned.predictions[T] = TypeNames
    /\ learned.retries \in Nat /\ \A t \in Tasks : TypeOf(t) \in TypeNames
    /\ \A t \in Tasks : LearnerOK(t)

\* A task works on its own prediction, or on one its resume took from another.
OwnedBy(t, owner) == owner \in Tasks /\ (owner = t \/ (t \in learned.crossed /\ owner \in learned.crossed))
Owned ==
    \A t \in Tasks :
        learned.run[t].status \in Learning!Started /\ ~learned.run[t].away => OwnedBy(t, learned.run[t].impact.task)

Verdicts(t) == {o \in learned.outcomes : o.task = t}
Certain(t) == {o \in Verdicts(t) : o.class # "uncertain"}
Due(r) == r.impact.likely \cup (r.files \ r.impact.targets)
FiledFor(t) ==
    LET r == learned.run[t]
    IN /\ r.status = "done" =>
             /\ learned.changed[t] = r.files /\ {o.file : o \in Certain(t)} = Due(r)
             /\ \A o \in Certain(t) : (o.class = "false_positive") = (o.file \notin r.files)
       /\ r.status # "done" => Certain(t) = {}
       /\ r.status = "failed" /\ r.files # {} =>
             learned.changed[t] = r.files /\ Due(r) \subseteq {o.file : o \in Verdicts(t)}
       /\ r.status \notin Ended /\ learned.retries = 0 => Verdicts(t) = {} /\ learned.changed[t] = {}
Filed == \A t \in Tasks \ learned.crossed : FiledFor(t)

\* Predictions are of files of the project, and there is finitely much to learn from.
FilesKnown ==
    /\ IsFiniteSet(learned.outcomes) /\ IsFiniteSet(learned.proposals) /\ IsFiniteSet(learned.signals)
    /\ \A T \in Targets, k \in TypeNames : learned.predictions[T][k].likely \subseteq Files
    /\ \A t \in Tasks : learned.run[t].impact.likely \subseteq Files

LearningInv == LearningTypeOK /\ Owned /\ Filed /\ FilesKnown

LEMMA StartedIs ==
  Learning!Started = {"predicted", "planned", "proposed", "applied"} /\ Learning!Started \cap Ended = {}
BY DEF Learning!Started, Ended

LEMMA LearningInit == Learning!Init => LearningInv
<1> SUFFICES ASSUME Learning!Init PROVE LearningInv
  OBVIOUS
<1>1. PICK requests \in Asked :
        learned = [requests |-> requests, retries |-> 0,
                   predictions |-> [T \in Targets |-> [k \in TypeNames |-> Learning!NoImpact]],
                   proposals |-> {}, signals |-> {}, outcomes |-> {}, changed |-> [t \in Tasks |-> {}],
                   run |-> [t \in Tasks |-> Learning!NoTask], crossed |-> {}]
  BY DEF Learning!Init, Targets, TypeNames
<1>2. /\ DOMAIN learned = LearnedFields /\ learned.requests = requests /\ learned.retries = 0 /\ learned.outcomes = {}
      /\ learned.proposals = {} /\ learned.signals = {} /\ learned.changed = [t \in Tasks |-> {}]
      /\ learned.run = [t \in Tasks |-> Learning!NoTask]
      /\ learned.predictions = [T \in Targets |-> [k \in TypeNames |-> Learning!NoImpact]]
  BY <1>1 DEF LearnedFields
<1>3. \A t \in Tasks : learned.run[t] = Learning!NoTask /\ learned.changed[t] = {}
  BY <1>2
<1>4. /\ DOMAIN Learning!NoTask = LearnerFields /\ Learning!NoTask.status = "new" /\ Learning!NoTask.away = FALSE
      /\ Learning!NoTask.files = {} /\ Learning!NoTask.impact = Learning!NoImpact /\ Learning!NoImpact.likely = {}
  BY DEF Learning!NoTask, Learning!NoImpact, LearnerFields
<1>5. \A t \in Tasks : TypeOf(t) \in TypeNames
  BY <1>2 DEF Asked, TypeOf, TypeNames
<1>6. \A t \in Tasks : LearnerOK(t)
  BY <1>3, <1>4, StartedIs DEF LearnerOK
<1>7. LearningTypeOK
  BY <1>2, <1>5, <1>6 DEF LearningTypeOK
<1>8. Owned
  BY <1>3, <1>4, StartedIs DEF Owned
<1>9. Filed
  BY <1>2, <1>3, <1>4 DEF Filed, FiledFor, Verdicts, Certain, Ended
<1>10. FilesKnown
  <2>1. \A T \in Targets, k \in TypeNames : learned.predictions[T][k] = Learning!NoImpact
    BY <1>2
  <2> QED BY <1>2, <1>3, <1>4, <2>1, FS_EmptySet DEF FilesKnown
<1> QED BY <1>7, <1>8, <1>9, <1>10 DEF LearningInv

LEMMA LearningUnchanged == LearningInv /\ UNCHANGED learned => LearningInv'
<1> SUFFICES ASSUME LearningInv, learned' = learned PROVE LearningInv'
  OBVIOUS
<1>1. LearningTypeOK'
  BY DEF LearningInv, LearningTypeOK, LearnerOK, TypeOf, StoredFor
<1>2. Owned'
  BY DEF LearningInv, Owned, OwnedBy
<1>3. Filed'
  BY DEF LearningInv, Filed, FiledFor, Verdicts, Certain
<1>4. FilesKnown'
  BY DEF LearningInv, FilesKnown
<1> QED BY <1>1, <1>2, <1>3, <1>4 DEF LearningInv

LEMMA TargetsFinite == ASSUME NEW T \in Targets PROVE IsFiniteSet(T) /\ T # {}
<1>1. IsFiniteSet({"a"}) /\ IsFiniteSet({"a", "b"} \cup {"d"})
  BY FS_Singleton, PairsAreFinite, FS_AddElement
<1>2. {"a", "b"} \cup {"d"} = {"a", "b", "d"}
  OBVIOUS
<1> QED BY <1>1, <1>2 DEF Targets

\* what stays as it is when nothing is filed
LearnedAside(m, n) ==
    n.requests = m.requests /\ n.outcomes = m.outcomes /\ n.changed = m.changed

\* a step of a task that is not done and files nothing
MovesTo(t, r) ==
    /\ learned.run[t].status # "done"
    /\ DOMAIN r = LearnerFields
    /\ r.status \in {"new"} \cup Learning!Started
    /\ r.away \in BOOLEAN
    /\ (r.away => r.status \in Learning!Started)
    /\ r.files \in {{}} \cup Targets
    /\ (r.status \in {"proposed", "applied"} => r.files \in Targets)
    /\ DOMAIN learned' = LearnedFields
    /\ learned'.run = [learned.run EXCEPT ![t] = r]
    /\ LearnedAside(learned, learned')
    /\ learned'.retries \in Nat
    /\ (learned'.retries = 0 => learned.retries = 0 /\ learned.run[t].status # "failed")
    /\ learned.crossed \subseteq learned'.crossed
    /\ DOMAIN learned'.predictions = Targets
    /\ \A T \in Targets : DOMAIN learned'.predictions[T] = TypeNames
    /\ \A T \in Targets, k \in TypeNames :
           \/ learned'.predictions[T][k] = learned.predictions[T][k]
           \/ learned'.predictions[T][k].task \in Tasks /\ learned'.predictions[T][k].likely \subseteq Files
    /\ (r.status \in Learning!Started => r.id \in Targets /\ learned'.predictions[r.id][TypeOf(t)].task \in Tasks)
    /\ (r.status \in Learning!Started /\ ~r.away => OwnedBy(t, r.impact.task)')
    /\ IsFiniteSet(learned'.proposals)
    /\ IsFiniteSet(learned'.signals)
    /\ r.impact.likely \subseteq Files

LEMMA LearningMoves ==
  ASSUME LearningInv, NEW t \in Tasks, NEW r, MovesTo(t, r)
  PROVE  LearningInv'
<1> USE DEF MovesTo
<1>1. /\ DOMAIN learned'.run = Tasks /\ learned'.run[t] = r /\ \A u \in Tasks \ {t} : learned'.run[u] = learned.run[u]
      /\ learned'.requests = learned.requests /\ learned'.outcomes = learned.outcomes /\ learned'.changed = learned.changed
  BY DEF LearningInv, LearningTypeOK, LearnedAside
<1>2. \A u \in Tasks : TypeOf(u)' = TypeOf(u) /\ TypeOf(u) \in TypeNames
  BY <1>1 DEF LearningInv, LearningTypeOK, TypeOf
<1>3. LearningTypeOK'
  <2>1. ASSUME NEW u \in Tasks PROVE LearnerOK(u)'
    <3>1. CASE u = t
      BY <3>1, <1>1, <1>2 DEF LearnerOK, StoredFor
    <3>2. CASE u # t
      <4>1. LearnerOK(u)
        BY DEF LearningInv, LearningTypeOK
      <4>2. learned'.run[u].status \in Learning!Started => StoredFor(u)'.task \in Tasks
        BY <3>2, <4>1, <1>1, <1>2 DEF LearnerOK, StoredFor
      <4> QED BY <3>2, <4>1, <4>2, <1>1 DEF LearnerOK
    <3> QED BY <3>1, <3>2
  <2> QED BY <2>1, <1>1, <1>2 DEF LearningInv, LearningTypeOK
<1>4. Owned'
  <2> SUFFICES ASSUME NEW u \in Tasks, learned'.run[u].status \in Learning!Started, ~learned'.run[u].away
               PROVE  OwnedBy(u, learned.run[u].impact.task)'
    BY DEF Owned
  <2>1. CASE u = t
    BY <2>1, <1>1
  <2>2. CASE u # t
    <3>1. OwnedBy(u, learned.run[u].impact.task)
      BY <2>2, <1>1 DEF LearningInv, Owned
    <3> QED BY <2>2, <3>1, <1>1 DEF OwnedBy
  <2> QED BY <2>1, <2>2
<1>5. Filed'
  <2> SUFFICES ASSUME NEW u \in Tasks \ learned'.crossed PROVE FiledFor(u)'
    BY DEF Filed
  <2>1. FiledFor(u)
    BY DEF LearningInv, Filed
  <2>2. Verdicts(u)' = Verdicts(u) /\ Certain(u)' = Certain(u)
    BY <1>1 DEF Verdicts, Certain
  <2>3. CASE u = t
    <3>1. r.status \notin Ended /\ learned.run[t].status # "done"
      BY StartedIs DEF Ended
    <3>2. Certain(t) = {}
      BY <2>1, <2>3, <3>1 DEF FiledFor
    <3>3. learned'.retries = 0 => Verdicts(t) = {} /\ learned.changed[t] = {}
      BY <2>1, <2>3, <3>1 DEF FiledFor, Ended
    <3>4. r.status # "done" /\ r.status # "failed"
      BY <3>1 DEF Ended
    <3> QED BY <1>1, <2>2, <2>3, <3>1, <3>2, <3>3, <3>4 DEF FiledFor
  <2>4. CASE u # t
    <3>1. learned'.run[u] = learned.run[u] /\ learned'.changed[u] = learned.changed[u]
      BY <2>4, <1>1
    <3> QED BY <2>1, <2>2, <3>1 DEF FiledFor, Due
  <2> QED BY <2>3, <2>4
<1>6. FilesKnown'
  <2>1. \A u \in Tasks : learned'.run[u].impact.likely \subseteq Files
    BY <1>1 DEF LearningInv, FilesKnown
  <2>2. \A T \in Targets, k \in TypeNames : learned'.predictions[T][k].likely \subseteq Files
    BY DEF LearningInv, FilesKnown
  <2> QED BY <1>1, <2>1, <2>2 DEF LearningInv, FilesKnown
<1> QED BY <1>3, <1>4, <1>5, <1>6 DEF LearningInv

\* a record of what is learned, of the shape all of them have
LearnedShape(m) ==
    /\ DOMAIN m = LearnedFields /\ DOMAIN m.run = Tasks /\ \A t \in Tasks : DOMAIN m.run[t] = LearnerFields
    /\ DOMAIN m.predictions = Targets /\ \A T \in Targets : DOMAIN m.predictions[T] = TypeNames
    /\ \A t \in Tasks : m.requests[t].type \in TypeNames

LEMMA LearnedIsShaped == LearningInv => LearnedShape(learned)
BY DEF LearningInv, LearningTypeOK, LearnerOK, LearnedShape, TypeOf

\* a prediction of the task's own, stored
StoresIn(m, n, t, T, impact, r) ==
    /\ impact.task = t /\ impact.likely \subseteq Files /\ r = [m.run[t] EXCEPT !.impact = impact, !.id = T]
    /\ DOMAIN n = LearnedFields /\ n.run = [m.run EXCEPT ![t] = r] /\ LearnedAside(m, n)
    /\ n.retries = m.retries /\ n.crossed = m.crossed /\ n.proposals = m.proposals /\ n.signals = m.signals
    /\ n.predictions = [m.predictions EXCEPT ![T] = [m.predictions[T] EXCEPT ![m.requests[t].type] = impact]]

LEMMA AnalyzeStores ==
  ASSUME NEW m, LearnedShape(m), NEW t \in Tasks, NEW T \in Targets, NEW n, n = Learning!Analyze(m, t, T)
  PROVE  \E impact, r : StoresIn(m, n, t, T, impact, r)
<1>1. PICK impact : impact = [task |-> t, targets |-> T, likely |-> Learning!Likely(m, m.requests[t].type, T)]
  OBVIOUS
<1>2. PICK r : r = [m.run[t] EXCEPT !.impact = impact, !.id = T]
  OBVIOUS
<1>3. impact.task = t /\ impact.likely \subseteq Files
  BY <1>1 DEF Learning!Likely
<1>4. n = [m EXCEPT !.predictions[T][m.requests[t].type] = impact, !.run[t].impact = impact, !.run[t].id = T]
  BY <1>1 DEF Learning!Analyze
<1>5. DOMAIN m = LearnedFields /\ DOMAIN m.run = Tasks /\ DOMAIN m.run[t] = LearnerFields
  BY DEF LearnedShape
<1>6. /\ DOMAIN n = LearnedFields /\ n.run = [m.run EXCEPT ![t] = r] /\ n.requests = m.requests
      /\ n.outcomes = m.outcomes /\ n.changed = m.changed /\ n.retries = m.retries /\ n.crossed = m.crossed
      /\ n.proposals = m.proposals /\ n.signals = m.signals
      /\ n.predictions = [m.predictions EXCEPT ![T] = [m.predictions[T] EXCEPT ![m.requests[t].type] = impact]]
  <2>1. PICK n1 : n1 = [m EXCEPT !.predictions[T][m.requests[t].type] = impact]
    OBVIOUS
  <2>2. PICK n2 : n2 = [n1 EXCEPT !.run[t].impact = impact]
    OBVIOUS
  <2>3. n = [n2 EXCEPT !.run[t].id = T]
    BY <1>4, <2>1, <2>2
  <2>4. /\ DOMAIN n1 = LearnedFields /\ n1.run = m.run /\ n1.requests = m.requests
        /\ n1.outcomes = m.outcomes /\ n1.changed = m.changed /\ n1.retries = m.retries /\ n1.crossed = m.crossed
        /\ n1.proposals = m.proposals /\ n1.signals = m.signals
        /\ n1.predictions = [m.predictions EXCEPT ![T] = [m.predictions[T] EXCEPT ![m.requests[t].type] = impact]]
    BY <1>5, <2>1 DEF LearnedFields
  <2>5. /\ DOMAIN n2 = LearnedFields /\ n2.run = [m.run EXCEPT ![t] = [m.run[t] EXCEPT !.impact = impact]]
        /\ n2.requests = m.requests
        /\ n2.outcomes = m.outcomes /\ n2.changed = m.changed /\ n2.retries = m.retries /\ n2.crossed = m.crossed
        /\ n2.proposals = m.proposals /\ n2.signals = m.signals /\ n2.predictions = n1.predictions
    BY <2>2, <2>4 DEF LearnedFields
  <2>6. [n2.run EXCEPT ![t] = [n2.run[t] EXCEPT !.id = T]] = [m.run EXCEPT ![t] = r]
    BY <1>2, <1>5, <2>5
  <2>7. /\ DOMAIN n = LearnedFields /\ n.run = [n2.run EXCEPT ![t] = [n2.run[t] EXCEPT !.id = T]] /\ n.requests = m.requests
        /\ n.outcomes = m.outcomes /\ n.changed = m.changed /\ n.retries = m.retries /\ n.crossed = m.crossed
        /\ n.proposals = m.proposals /\ n.signals = m.signals /\ n.predictions = n1.predictions
    BY <2>3, <2>5 DEF LearnedFields
  <2> QED BY <2>4, <2>6, <2>7
<1> QED BY <1>2, <1>3, <1>6 DEF StoresIn, LearnedAside

\* another proposal
ProposesIn(m, n, t, F, r) ==
    /\ r = [m.run[t] EXCEPT !.files = F, !.status = "proposed"]
    /\ DOMAIN n = LearnedFields /\ n.run = [m.run EXCEPT ![t] = r] /\ LearnedAside(m, n)
    /\ n.retries = m.retries /\ n.crossed = m.crossed /\ n.signals = m.signals
    /\ n.predictions = m.predictions /\ IsFiniteSet(n.proposals)

LEMMA ProposedStores ==
  ASSUME NEW m, LearnedShape(m), NEW t \in Tasks, NEW F \in Targets, IsFiniteSet(m.proposals),
         NEW n, n = Learning!Proposed(m, t, F)
  PROVE  \E r : ProposesIn(m, n, t, F, r)
<1>1. PICK p : p = [task |-> t, number |-> Learning!Cardinality(m.proposals) + 1, files |-> F]
  OBVIOUS
<1>2. PICK r : r = [m.run[t] EXCEPT !.files = F, !.status = "proposed"]
  OBVIOUS
<1>3. n = [m EXCEPT !.proposals = @ \cup {p}, !.run[t].files = F, !.run[t].status = "proposed"]
  BY <1>1 DEF Learning!Proposed
<1>4. DOMAIN m = LearnedFields /\ DOMAIN m.run = Tasks /\ DOMAIN m.run[t] = LearnerFields
  BY DEF LearnedShape
<1>5. /\ DOMAIN n = LearnedFields /\ n.run = [m.run EXCEPT ![t] = r] /\ n.requests = m.requests
      /\ n.outcomes = m.outcomes /\ n.changed = m.changed /\ n.retries = m.retries /\ n.crossed = m.crossed
      /\ n.signals = m.signals /\ n.predictions = m.predictions /\ n.proposals = m.proposals \cup {p}
  <2>1. PICK n1 : n1 = [m EXCEPT !.proposals = @ \cup {p}]
    OBVIOUS
  <2>2. PICK n2 : n2 = [n1 EXCEPT !.run[t].files = F]
    OBVIOUS
  <2>3. n = [n2 EXCEPT !.run[t].status = "proposed"]
    BY <1>3, <2>1, <2>2
  <2>4. /\ DOMAIN n1 = LearnedFields /\ n1.run = m.run /\ n1.requests = m.requests
        /\ n1.outcomes = m.outcomes /\ n1.changed = m.changed /\ n1.retries = m.retries /\ n1.crossed = m.crossed
        /\ n1.signals = m.signals /\ n1.predictions = m.predictions /\ n1.proposals = m.proposals \cup {p}
    BY <1>4, <2>1 DEF LearnedFields
  <2>5. /\ DOMAIN n2 = LearnedFields /\ n2.run = [m.run EXCEPT ![t] = [m.run[t] EXCEPT !.files = F]]
        /\ n2.requests = m.requests
        /\ n2.outcomes = m.outcomes /\ n2.changed = m.changed /\ n2.retries = m.retries /\ n2.crossed = m.crossed
        /\ n2.signals = m.signals /\ n2.predictions = m.predictions /\ n2.proposals = n1.proposals
    BY <2>2, <2>4 DEF LearnedFields
  <2>6. [n2.run EXCEPT ![t] = [n2.run[t] EXCEPT !.status = "proposed"]] = [m.run EXCEPT ![t] = r]
    BY <1>2, <1>4, <2>5
  <2>7. /\ DOMAIN n = LearnedFields /\ n.run = [n2.run EXCEPT ![t] = [n2.run[t] EXCEPT !.status = "proposed"]]
        /\ n.requests = m.requests
        /\ n.outcomes = m.outcomes /\ n.changed = m.changed /\ n.retries = m.retries /\ n.crossed = m.crossed
        /\ n.signals = m.signals /\ n.predictions = m.predictions /\ n.proposals = n1.proposals
    BY <2>3, <2>5 DEF LearnedFields
  <2> QED BY <2>4, <2>6, <2>7
<1>6. IsFiniteSet(n.proposals)
  BY <1>5, FS_AddElement
<1> QED BY <1>2, <1>5, <1>6 DEF ProposesIn, LearnedAside

\* a prediction replaced in memory by one of the same files and type
LEMMA PredictionsStored ==
  ASSUME NEW m, LearnedShape(m), NEW T \in Targets, NEW k \in TypeNames, NEW impact,
         impact.task \in Tasks, impact.likely \subseteq Files,
         NEW p, p = [m.predictions EXCEPT ![T] = [m.predictions[T] EXCEPT ![k] = impact]]
  PROVE  /\ DOMAIN p = Targets /\ (\A U \in Targets : DOMAIN p[U] = TypeNames) /\ p[T][k].task \in Tasks
         /\ \A U \in Targets, l \in TypeNames :
               \/ p[U][l] = m.predictions[U][l]
               \/ p[U][l].task \in Tasks /\ p[U][l].likely \subseteq Files
<1>1. DOMAIN m.predictions = Targets /\ \A U \in Targets : DOMAIN m.predictions[U] = TypeNames
  BY DEF LearnedShape
<1>2. DOMAIN p = Targets /\ p[T] = [m.predictions[T] EXCEPT ![k] = impact] /\ \A U \in Targets \ {T} : p[U] = m.predictions[U]
  BY <1>1
<1>3. DOMAIN p[T] = TypeNames /\ p[T][k] = impact /\ \A l \in TypeNames \ {k} : p[T][l] = m.predictions[T][l]
  BY <1>1, <1>2
<1> QED BY <1>1, <1>2, <1>3

\* a step of a task that stores its prediction
StoresTo(t, r, T, impact) ==
    /\ learned.run[t].status \notin Ended
    /\ OwnedBy(t, impact.task)
    /\ impact.likely \subseteq Files
    /\ DOMAIN r = LearnerFields
    /\ r.status \in Learning!Started
    /\ r.away = FALSE
    /\ r.files \in {{}} \cup Targets
    /\ (r.status \in {"proposed", "applied"} => r.files \in Targets)
    /\ r.id = T
    /\ r.impact = impact
    /\ DOMAIN learned' = LearnedFields
    /\ learned'.run = [learned.run EXCEPT ![t] = r]
    /\ LearnedAside(learned, learned')
    /\ learned'.retries = learned.retries
    /\ learned'.crossed = learned.crossed
    /\ learned'.signals = learned.signals
    /\ IsFiniteSet(learned'.proposals)
    /\ learned'.predictions = [learned.predictions EXCEPT ![T] = [learned.predictions[T] EXCEPT ![TypeOf(t)] = impact]]

LEMMA LearningStores ==
  ASSUME LearningInv, NEW t \in Tasks, NEW r, NEW T \in Targets, NEW impact, StoresTo(t, r, T, impact)
  PROVE  LearningInv'
<1> USE DEF StoresTo
<1>1. PICK k \in TypeNames : k = TypeOf(t)
  BY DEF LearningInv, LearningTypeOK
<1>2. impact.task \in Tasks
  BY DEF OwnedBy
<1>3. PICK p : p = learned'.predictions
  OBVIOUS
<1>4. p = [learned.predictions EXCEPT ![T] = [learned.predictions[T] EXCEPT ![k] = impact]]
  BY <1>1, <1>3
<1>5. /\ DOMAIN p = Targets /\ (\A U \in Targets : DOMAIN p[U] = TypeNames) /\ p[T][k].task \in Tasks
      /\ \A U \in Targets, l \in TypeNames :
            \/ p[U][l] = learned.predictions[U][l]
            \/ p[U][l].task \in Tasks /\ p[U][l].likely \subseteq Files
  BY <1>2, <1>4, LearnedIsShaped, PredictionsStored
<1>6. /\ DOMAIN learned'.predictions = Targets /\ \A U \in Targets : DOMAIN learned'.predictions[U] = TypeNames
      /\ learned'.predictions[r.id][TypeOf(t)].task \in Tasks
      /\ \A U \in Targets, l \in TypeNames :
            \/ learned'.predictions[U][l] = learned.predictions[U][l]
            \/ learned'.predictions[U][l].task \in Tasks /\ learned'.predictions[U][l].likely \subseteq Files
  BY <1>1, <1>3, <1>5
<1>7. learned.retries \in Nat /\ learned.run[t].status # "done" /\ learned.run[t].status # "failed"
  BY DEF LearningInv, LearningTypeOK, Ended
<1>8. OwnedBy(t, r.impact.task)'
  BY DEF OwnedBy
<1>9. IsFiniteSet(learned'.signals)
  BY DEF LearningInv, FilesKnown
<1>10. MovesTo(t, r)
  BY <1>6, <1>7, <1>8, <1>9 DEF MovesTo
<1> QED BY <1>10, LearningMoves

\* a step that leaves the predictions as they are, of a task that goes on with its own
GoesOn(t, r) ==
    /\ learned.run[t].status \in Learning!Started /\ ~learned.run[t].away
    /\ DOMAIN r = LearnerFields
    /\ r.status \in Learning!Started
    /\ r.away = FALSE
    /\ r.files \in {{}} \cup Targets
    /\ (r.status \in {"proposed", "applied"} => r.files \in Targets)
    /\ r.id = learned.run[t].id
    /\ r.impact = learned.run[t].impact
    /\ DOMAIN learned' = LearnedFields
    /\ learned'.run = [learned.run EXCEPT ![t] = r]
    /\ LearnedAside(learned, learned')
    /\ learned'.retries = learned.retries
    /\ learned'.crossed = learned.crossed
    /\ learned'.predictions = learned.predictions
    /\ learned'.signals = learned.signals
    /\ IsFiniteSet(learned'.proposals)

LEMMA LearningGoesOn ==
  ASSUME LearningInv, NEW t \in Tasks, NEW r, GoesOn(t, r)
  PROVE  LearningInv'
<1> USE DEF GoesOn
<1>1. /\ learned.retries \in Nat /\ DOMAIN learned.predictions = Targets
      /\ \A T \in Targets : DOMAIN learned.predictions[T] = TypeNames
  BY DEF LearningInv, LearningTypeOK
<1>2. learned.run[t].status # "done" /\ learned.run[t].status # "failed"
  BY StartedIs DEF Ended
<1>3. r.id \in Targets /\ learned.predictions[r.id][TypeOf(t)].task \in Tasks
  BY DEF LearningInv, LearningTypeOK, LearnerOK, StoredFor
<1>4. OwnedBy(t, r.impact.task)'
  <2>1. OwnedBy(t, learned.run[t].impact.task)
    BY DEF LearningInv, Owned
  <2> QED BY <2>1 DEF OwnedBy
<1>5. IsFiniteSet(learned'.signals) /\ r.impact.likely \subseteq Files
  BY DEF LearningInv, FilesKnown
<1>6. MovesTo(t, r)
  BY <1>1, <1>2, <1>3, <1>4, <1>5 DEF MovesTo
<1> QED BY <1>6, LearningMoves

\* what is known of a task that has started
LEMMA LearnerIs ==
  ASSUME LearningInv, NEW t \in Tasks, ~learned.run[t].away
  PROVE  /\ DOMAIN learned = LearnedFields /\ DOMAIN learned.run = Tasks /\ DOMAIN learned.run[t] = LearnerFields
         /\ learned.run[t].away = FALSE
         /\ learned.run[t].files \in {{}} \cup Targets /\ learned.requests[t].type = TypeOf(t) /\ TypeOf(t) \in TypeNames
         /\ learned.run[t].status \in {"proposed", "applied"} => learned.run[t].files \in Targets
         /\ learned.run[t].status \in Learning!Started =>
                learned.run[t].id \in Targets /\ OwnedBy(t, learned.run[t].impact.task)
         /\ learned.run[t].impact.likely \subseteq Files /\ IsFiniteSet(learned.proposals)
BY DEF LearningInv, LearningTypeOK, LearnerOK, Owned, FilesKnown, TypeOf

LEMMA LearningPredict ==
  ASSUME LearningInv, NEW t \in Tasks, NEW T \in Targets, Learning!Predict(t, T)
  PROVE  LearningInv'
<1>1. /\ DOMAIN learned.run = Tasks /\ DOMAIN learned.run[t] = LearnerFields /\ learned.run[t].status = "new"
      /\ learned.run[t].away = FALSE /\ learned.run[t].files \in {{}} \cup Targets
  BY LearnerIs DEF Learning!Predict, Learning!At
<1>2. PICK m : m = Learning!Analyze(learned, t, T)
  OBVIOUS
<1>30. PICK impact, r0 : StoresIn(learned, m, t, T, impact, r0)
  BY <1>2, LearnedIsShaped, AnalyzeStores
<1>3. /\ impact.task = t /\ impact.likely \subseteq Files /\ r0 = [learned.run[t] EXCEPT !.impact = impact, !.id = T]
      /\ DOMAIN m = LearnedFields /\ m.run = [learned.run EXCEPT ![t] = r0] /\ LearnedAside(learned, m)
      /\ m.retries = learned.retries /\ m.crossed = learned.crossed /\ m.proposals = learned.proposals
      /\ m.signals = learned.signals
      /\ m.predictions = [learned.predictions EXCEPT ![T] = [learned.predictions[T] EXCEPT ![TypeOf(t)] = impact]]
  BY <1>30 DEF StoresIn, TypeOf
<1>4. PICK r : r = [r0 EXCEPT !.status = "predicted"]
  OBVIOUS
<1>5. /\ DOMAIN r = LearnerFields /\ r.status = "predicted" /\ r.away = learned.run[t].away /\ r.impact = impact /\ r.id = T
      /\ r.files = learned.run[t].files
  BY <1>1, <1>3, <1>4 DEF LearnerFields
<1>6. learned' = [m EXCEPT !.run[t].status = "predicted"]
  BY <1>2 DEF Learning!Predict
<1>7. /\ DOMAIN learned' = LearnedFields /\ learned'.run = [learned.run EXCEPT ![t] = r] /\ LearnedAside(learned, learned')
      /\ learned'.retries = learned.retries /\ learned'.crossed = learned.crossed
      /\ learned'.proposals = learned.proposals /\ learned'.signals = learned.signals
      /\ learned'.predictions = m.predictions
  BY <1>1, <1>3, <1>4, <1>6 DEF LearnedFields, LearnedAside
<1>8. IsFiniteSet(learned'.proposals) /\ OwnedBy(t, impact.task) /\ r.status \in Learning!Started
  BY <1>1, <1>3, <1>5, <1>7, LearnerIs, StartedIs DEF OwnedBy
<1>9. StoresTo(t, r, T, impact)
  BY <1>1, <1>3, <1>5, <1>7, <1>8 DEF StoresTo, Ended
<1> QED BY <1>9, LearningStores

LEMMA LearningPlan ==
  ASSUME LearningInv, NEW t \in Tasks, Learning!Plan(t)
  PROVE  LearningInv'
<1>1. /\ DOMAIN learned = LearnedFields /\ DOMAIN learned.run = Tasks /\ DOMAIN learned.run[t] = LearnerFields
      /\ learned.run[t].status = "predicted" /\ learned.run[t].away = FALSE /\ learned.run[t].files \in {{}} \cup Targets
      /\ learned.run[t].id \in Targets /\ OwnedBy(t, learned.run[t].impact.task)
      /\ learned.run[t].impact.likely \subseteq Files /\ IsFiniteSet(learned.proposals)
  BY LearnerIs, StartedIs DEF Learning!Plan, Learning!At
<1>2. PICK T \in Targets : T = learned.run[t].id
  BY <1>1
<1>3. PICK impact : impact = learned.run[t].impact
  OBVIOUS
<1>4. PICK r : r = [learned.run[t] EXCEPT !.status = "planned"]
  OBVIOUS
<1>5. /\ DOMAIN r = LearnerFields /\ r.status = "planned" /\ r.away = learned.run[t].away /\ r.impact = impact /\ r.id = T
      /\ r.files = learned.run[t].files
  BY <1>1, <1>2, <1>3, <1>4 DEF LearnerFields
<1>6. learned' = [learned EXCEPT !.predictions[T][TypeOf(t)] = impact, !.run[t].status = "planned"]
  BY <1>2, <1>3 DEF Learning!Plan, TypeOf
<1>7. /\ DOMAIN learned' = LearnedFields /\ learned'.run = [learned.run EXCEPT ![t] = r] /\ LearnedAside(learned, learned')
      /\ learned'.retries = learned.retries /\ learned'.crossed = learned.crossed
      /\ learned'.proposals = learned.proposals /\ learned'.signals = learned.signals
      /\ learned'.predictions = [learned.predictions EXCEPT ![T] = [learned.predictions[T] EXCEPT ![TypeOf(t)] = impact]]
  BY <1>1, <1>4, <1>6 DEF LearnedFields, LearnedAside
<1>8. r.status \in Learning!Started /\ OwnedBy(t, impact.task) /\ impact.likely \subseteq Files /\ IsFiniteSet(learned'.proposals)
  BY <1>1, <1>3, <1>5, <1>7, StartedIs
<1>9. StoresTo(t, r, T, impact)
  BY <1>1, <1>5, <1>7, <1>8 DEF StoresTo, Ended
<1> QED BY <1>9, LearningStores

LEMMA LearningPropose ==
  ASSUME LearningInv, NEW t \in Tasks, NEW F \in Targets, Learning!Propose(t, F)
  PROVE  LearningInv'
<1>1. /\ DOMAIN learned.run = Tasks /\ DOMAIN learned.run[t] = LearnerFields /\ learned.run[t].status = "planned"
      /\ learned.run[t].away = FALSE /\ IsFiniteSet(learned.proposals)
  BY LearnerIs DEF Learning!Propose, Learning!At
<1>2. learned' = Learning!Proposed(learned, t, F)
  BY DEF Learning!Propose
<1>30. PICK r : ProposesIn(learned, learned', t, F, r)
  BY <1>1, <1>2, LearnedIsShaped, ProposedStores
<1>3. /\ r = [learned.run[t] EXCEPT !.files = F, !.status = "proposed"]
      /\ DOMAIN learned' = LearnedFields /\ learned'.run = [learned.run EXCEPT ![t] = r]
      /\ LearnedAside(learned, learned')
      /\ learned'.retries = learned.retries /\ learned'.crossed = learned.crossed
      /\ learned'.signals = learned.signals
      /\ learned'.predictions = learned.predictions /\ IsFiniteSet(learned'.proposals)
  BY <1>30 DEF ProposesIn
<1>4. /\ DOMAIN r = LearnerFields /\ r.status = "proposed" /\ r.away = learned.run[t].away /\ r.files = F
      /\ r.id = learned.run[t].id /\ r.impact = learned.run[t].impact
  BY <1>1, <1>3 DEF LearnerFields
<1>5. learned.run[t].status \in Learning!Started /\ r.status \in Learning!Started
  BY <1>1, <1>4, StartedIs
<1>6. GoesOn(t, r)
  BY <1>1, <1>3, <1>4, <1>5 DEF GoesOn
<1> QED BY <1>6, LearningGoesOn

LEMMA LearningMutate ==
  ASSUME LearningInv, NEW t \in Tasks, Learning!Mutate(t)
  PROVE  LearningInv'
<1>1. /\ DOMAIN learned = LearnedFields /\ DOMAIN learned.run = Tasks /\ DOMAIN learned.run[t] = LearnerFields
      /\ learned.run[t].status = "proposed" /\ learned.run[t].away = FALSE /\ learned.run[t].files \in Targets
      /\ IsFiniteSet(learned.proposals)
  BY LearnerIs DEF Learning!Mutate, Learning!At
<1>2. PICK m : m = [learned EXCEPT !.run[t].status = "applied"]
  OBVIOUS
<1>3. PICK r0 : r0 = [learned.run[t] EXCEPT !.status = "applied"]
  OBVIOUS
<1>4. /\ DOMAIN r0 = LearnerFields /\ r0.status = "applied" /\ r0.away = learned.run[t].away /\ r0.files = learned.run[t].files
      /\ r0.id = learned.run[t].id /\ r0.impact = learned.run[t].impact
  BY <1>1, <1>3 DEF LearnerFields
<1>5. /\ DOMAIN m = LearnedFields /\ m.run = [learned.run EXCEPT ![t] = r0] /\ LearnedAside(learned, m)
      /\ m.retries = learned.retries /\ m.crossed = learned.crossed /\ m.proposals = learned.proposals
      /\ m.signals = learned.signals /\ m.predictions = learned.predictions
  BY <1>1, <1>2, <1>3 DEF LearnedFields, LearnedAside
<1>6. learned.run[t].status \in Learning!Started /\ r0.status \in Learning!Started /\ learned.run[t].status \notin Ended
  BY <1>1, <1>4, StartedIs
<1>7. CASE ~learned.requests[t].auto
  <2>1. learned' = m
    BY <1>2, <1>7 DEF Learning!Mutate
  <2>2. GoesOn(t, r0)
    BY <2>1, <1>1, <1>4, <1>5, <1>6 DEF GoesOn
  <2> QED BY <2>2, LearningGoesOn
<1>8. CASE learned.requests[t].auto
  <2>1. PICK F \in Targets : F = learned.run[t].files
    BY <1>1
  <2>2. learned' = Learning!Analyze(m, t, F)
    BY <1>2, <1>8, <2>1 DEF Learning!Mutate
  <2>3. LearnedShape(m) /\ m.run[t] = r0 /\ m.requests[t].type = TypeOf(t)
    <3>1. LearnedShape(learned)
      BY LearnedIsShaped
    <3>2. m.run[t] = r0 /\ DOMAIN m.run = Tasks /\ \A u \in Tasks \ {t} : m.run[u] = learned.run[u]
      BY <1>1, <1>5
    <3> QED BY <3>1, <3>2, <1>4, <1>5 DEF LearnedShape, LearnedAside, TypeOf
  <2>40. PICK impact, r : StoresIn(m, learned', t, F, impact, r)
    BY <2>2, <2>3, AnalyzeStores
  <2>4. /\ impact.task = t /\ impact.likely \subseteq Files /\ r = [r0 EXCEPT !.impact = impact, !.id = F]
        /\ DOMAIN learned' = LearnedFields /\ learned'.run = [m.run EXCEPT ![t] = r] /\ LearnedAside(m, learned')
        /\ learned'.retries = m.retries /\ learned'.crossed = m.crossed /\ learned'.proposals = m.proposals
        /\ learned'.signals = m.signals
        /\ learned'.predictions = [m.predictions EXCEPT ![F] = [m.predictions[F] EXCEPT ![TypeOf(t)] = impact]]
    BY <2>3, <2>40 DEF StoresIn
  <2>5. /\ DOMAIN r = LearnerFields /\ r.status = "applied" /\ r.away = learned.run[t].away /\ r.files = F
        /\ r.impact = impact /\ r.id = F
    BY <1>4, <2>1, <2>4 DEF LearnerFields
  <2>6. learned'.run = [learned.run EXCEPT ![t] = r] /\ LearnedAside(learned, learned')
    BY <1>1, <1>5, <2>4 DEF LearnedAside
  <2>7. OwnedBy(t, impact.task) /\ r.status \in Learning!Started
    BY <2>4, <2>5, StartedIs DEF OwnedBy
  <2>8. StoresTo(t, r, F, impact)
    BY <1>1, <1>5, <1>6, <2>4, <2>5, <2>6, <2>7 DEF StoresTo
  <2> QED BY <2>8, LearningStores
<1> QED BY <1>7, <1>8

LEMMA LearningRepair ==
  ASSUME LearningInv, NEW t \in Tasks, NEW T \in Targets, NEW F \in Targets, Learning!Repair(t, T, F)
  PROVE  LearningInv'
<1>1. /\ DOMAIN learned.run = Tasks /\ DOMAIN learned.run[t] = LearnerFields
      /\ learned.run[t].status = "applied" /\ learned.run[t].away = FALSE /\ IsFiniteSet(learned.proposals)
  BY LearnerIs DEF Learning!Repair, Learning!At
<1>2. PICK m : m = Learning!Analyze(learned, t, T)
  OBVIOUS
<1>30. PICK impact, r0 : StoresIn(learned, m, t, T, impact, r0)
  BY <1>2, LearnedIsShaped, AnalyzeStores
<1>3. /\ impact.task = t /\ impact.likely \subseteq Files /\ r0 = [learned.run[t] EXCEPT !.impact = impact, !.id = T]
      /\ DOMAIN m = LearnedFields /\ m.run = [learned.run EXCEPT ![t] = r0] /\ LearnedAside(learned, m)
      /\ m.retries = learned.retries /\ m.crossed = learned.crossed /\ m.proposals = learned.proposals
      /\ m.signals = learned.signals
      /\ m.predictions = [learned.predictions EXCEPT ![T] = [learned.predictions[T] EXCEPT ![TypeOf(t)] = impact]]
  BY <1>30 DEF StoresIn, TypeOf
<1>4. /\ DOMAIN r0 = LearnerFields /\ r0.away = learned.run[t].away /\ r0.impact = impact /\ r0.id = T
  BY <1>1, <1>3 DEF LearnerFields
<1>5. LearnedShape(m) /\ m.run[t] = r0 /\ IsFiniteSet(m.proposals)
  <2>1. LearnedShape(learned)
    BY LearnedIsShaped
  <2>2. m.run[t] = r0 /\ DOMAIN m.run = Tasks /\ \A u \in Tasks \ {t} : m.run[u] = learned.run[u]
    BY <1>1, <1>3
  <2>3. DOMAIN m.predictions = Targets /\ \A U \in Targets : DOMAIN m.predictions[U] = TypeNames
    BY <1>3, <2>1 DEF LearnedShape
  <2> QED BY <2>1, <2>2, <2>3, <1>1, <1>3, <1>4 DEF LearnedShape, LearnedAside
<1>6. learned' = Learning!Proposed(m, t, F)
  BY <1>2 DEF Learning!Repair
<1>70. PICK r : ProposesIn(m, learned', t, F, r)
  BY <1>5, <1>6, ProposedStores
<1>7. /\ r = [r0 EXCEPT !.files = F, !.status = "proposed"]
      /\ DOMAIN learned' = LearnedFields /\ learned'.run = [m.run EXCEPT ![t] = r]
      /\ LearnedAside(m, learned')
      /\ learned'.retries = m.retries /\ learned'.crossed = m.crossed
      /\ learned'.signals = m.signals
      /\ learned'.predictions = m.predictions /\ IsFiniteSet(learned'.proposals)
  BY <1>5, <1>70 DEF ProposesIn
<1>8. /\ DOMAIN r = LearnerFields /\ r.status = "proposed" /\ r.away = learned.run[t].away /\ r.files = F
      /\ r.impact = impact /\ r.id = T
  BY <1>4, <1>7 DEF LearnerFields
<1>9. learned'.run = [learned.run EXCEPT ![t] = r] /\ LearnedAside(learned, learned')
  BY <1>1, <1>3, <1>7 DEF LearnedAside
<1>10. OwnedBy(t, impact.task) /\ r.status \in Learning!Started /\ learned.run[t].status \notin Ended
  BY <1>1, <1>3, <1>8, StartedIs DEF OwnedBy, Ended
<1>11. StoresTo(t, r, T, impact)
  BY <1>1, <1>3, <1>7, <1>8, <1>9, <1>10 DEF StoresTo
<1> QED BY <1>11, LearningStores

LEMMA LearningPause ==
  ASSUME LearningInv, NEW t \in Tasks, Learning!Pause(t)
  PROVE  LearningInv'
<1>1. /\ DOMAIN learned = LearnedFields /\ DOMAIN learned.run = Tasks /\ DOMAIN learned.run[t] = LearnerFields
      /\ learned.run[t].status \in Learning!Started /\ learned.run[t].away = FALSE
      /\ learned.run[t].files \in {{}} \cup Targets /\ learned.run[t].id \in Targets
      /\ learned.run[t].status \in {"proposed", "applied"} => learned.run[t].files \in Targets
  BY LearnerIs DEF Learning!Pause
<1>2. PICK away \in BOOLEAN : away = (learned.run[t].status # "predicted")
  OBVIOUS
<1>3. PICK r : r = [learned.run[t] EXCEPT !.impact = Learning!NoImpact, !.away = away,
                                          !.status = IF away THEN learned.run[t].status ELSE "new"]
  OBVIOUS
<1>4. /\ DOMAIN r = LearnerFields /\ r.status = (IF away THEN learned.run[t].status ELSE "new") /\ r.away = away
      /\ r.id = learned.run[t].id /\ r.files = learned.run[t].files /\ r.impact = Learning!NoImpact
  BY <1>1, <1>3 DEF LearnerFields
<1>5. learned' = [learned EXCEPT !.run[t].impact = Learning!NoImpact, !.run[t].away = away,
                                 !.run[t].status = IF away THEN @ ELSE "new"]
  BY <1>1, <1>2 DEF Learning!Pause, Learning!At
<1>6. /\ DOMAIN learned' = LearnedFields /\ learned'.run = [learned.run EXCEPT ![t] = r] /\ LearnedAside(learned, learned')
      /\ learned'.retries = learned.retries /\ learned'.crossed = learned.crossed
      /\ learned'.predictions = learned.predictions /\ learned'.proposals = learned.proposals
      /\ learned'.signals = learned.signals
  BY <1>1, <1>3, <1>5 DEF LearnedFields, LearnedAside
<1>7. /\ learned.retries \in Nat /\ DOMAIN learned.predictions = Targets
      /\ \A T \in Targets : DOMAIN learned.predictions[T] = TypeNames
      /\ learned.predictions[r.id][TypeOf(t)].task \in Tasks
  BY <1>1, <1>4 DEF LearningInv, LearningTypeOK, LearnerOK, StoredFor
<1>8. /\ learned.run[t].status # "done" /\ learned.run[t].status # "failed" /\ r.status \in {"new"} \cup Learning!Started
      /\ r.away => r.status \in Learning!Started
      /\ ~(r.status \in Learning!Started /\ ~r.away)
      /\ r.status \in {"proposed", "applied"} => r.files \in Targets
  BY <1>1, <1>4, StartedIs DEF Ended
<1>9. IsFiniteSet(learned'.proposals) /\ IsFiniteSet(learned'.signals) /\ r.impact.likely \subseteq Files
  BY <1>4, <1>6 DEF LearningInv, FilesKnown, Learning!NoImpact
<1>10. MovesTo(t, r)
  BY <1>1, <1>4, <1>6, <1>7, <1>8, <1>9 DEF MovesTo
<1> QED BY <1>10, LearningMoves

LEMMA LearningResume ==
  ASSUME LearningInv, NEW t \in Tasks, Learning!Resume(t)
  PROVE  LearningInv'
<1>1. /\ DOMAIN learned = LearnedFields /\ DOMAIN learned.run = Tasks /\ learned.run[t].away
      /\ LearnerOK(t) /\ learned.retries \in Nat /\ DOMAIN learned.predictions = Targets
      /\ \A T \in Targets : DOMAIN learned.predictions[T] = TypeNames
      /\ TypeOf(t) \in TypeNames /\ learned.requests[t].type = TypeOf(t)
  BY DEF LearningInv, LearningTypeOK, Learning!Resume, TypeOf
<1>2. /\ DOMAIN learned.run[t] = LearnerFields /\ learned.run[t].status \in Learning!Started
      /\ learned.run[t].files \in {{}} \cup Targets /\ learned.run[t].id \in Targets
      /\ learned.run[t].status \in {"proposed", "applied"} => learned.run[t].files \in Targets
      /\ learned.predictions[learned.run[t].id][TypeOf(t)].task \in Tasks
  BY <1>1 DEF LearnerOK, StoredFor
<1>3. PICK impact : impact = learned.predictions[learned.run[t].id][TypeOf(t)]
  OBVIOUS
<1>4. PICK r : r = [learned.run[t] EXCEPT !.away = FALSE, !.impact = impact]
  OBVIOUS
<1>5. /\ DOMAIN r = LearnerFields /\ r.status = learned.run[t].status /\ r.away = FALSE /\ r.id = learned.run[t].id
      /\ r.impact = impact /\ r.files = learned.run[t].files
  BY <1>2, <1>4 DEF LearnerFields
<1>6. learned' = [learned EXCEPT !.run[t].away = FALSE, !.run[t].impact = impact,
                     !.crossed = IF impact.task = t THEN @ ELSE @ \cup {t, impact.task}]
  BY <1>1, <1>3 DEF Learning!Resume
<1>7. /\ DOMAIN learned' = LearnedFields /\ learned'.run = [learned.run EXCEPT ![t] = r] /\ LearnedAside(learned, learned')
      /\ learned'.retries = learned.retries
      /\ learned'.crossed = IF impact.task = t THEN learned.crossed ELSE learned.crossed \cup {t, impact.task}
      /\ learned'.predictions = learned.predictions /\ learned'.proposals = learned.proposals
      /\ learned'.signals = learned.signals
  BY <1>1, <1>4, <1>6 DEF LearnedFields, LearnedAside
<1>8. OwnedBy(t, r.impact.task)' /\ learned.crossed \subseteq learned'.crossed
  BY <1>2, <1>3, <1>5, <1>7 DEF OwnedBy
<1>9. learned.run[t].status # "done" /\ learned.run[t].status # "failed"
  BY <1>2, StartedIs DEF Ended
<1>10. IsFiniteSet(learned'.proposals) /\ IsFiniteSet(learned'.signals) /\ r.impact.likely \subseteq Files
  <2>1. PICK T \in Targets, k \in TypeNames : T = learned.run[t].id /\ k = TypeOf(t)
    BY <1>1, <1>2
  <2>2. learned.predictions[T][k].likely \subseteq Files /\ IsFiniteSet(learned.proposals) /\ IsFiniteSet(learned.signals)
    BY DEF LearningInv, FilesKnown
  <2> QED BY <2>1, <2>2, <1>3, <1>5, <1>7
<1>11. MovesTo(t, r)
  BY <1>1, <1>2, <1>5, <1>7, <1>8, <1>9, <1>10 DEF MovesTo
<1> QED BY <1>11, LearningMoves

LEMMA LearningRetry ==
  ASSUME LearningInv, NEW t \in Tasks, Learning!Retry(t)
  PROVE  LearningInv'
<1>1. PICK files \in {{}, learned.run[t].files} :
        learned' = [learned EXCEPT !.run[t].status = "new", !.retries = @ + 1, !.run[t].files = files]
  BY DEF Learning!Retry
<1>2. /\ DOMAIN learned = LearnedFields /\ DOMAIN learned.run = Tasks /\ DOMAIN learned.run[t] = LearnerFields
      /\ learned.run[t].status = "failed" /\ learned.run[t].away = FALSE /\ learned.run[t].files \in {{}} \cup Targets
  BY LearnerIs DEF Learning!Retry, Learning!At
<1>3. PICK r : r = [learned.run[t] EXCEPT !.status = "new", !.files = files]
  OBVIOUS
<1>4. /\ DOMAIN r = LearnerFields /\ r.status = "new" /\ r.away = learned.run[t].away /\ r.id = learned.run[t].id
      /\ r.impact = learned.run[t].impact /\ r.files \in {{}} \cup Targets
  BY <1>1, <1>2, <1>3 DEF LearnerFields
<1>5. /\ DOMAIN learned' = LearnedFields /\ learned'.run = [learned.run EXCEPT ![t] = r] /\ LearnedAside(learned, learned')
      /\ learned'.retries = learned.retries + 1 /\ learned'.crossed = learned.crossed
      /\ learned'.predictions = learned.predictions /\ learned'.proposals = learned.proposals
      /\ learned'.signals = learned.signals
  BY <1>1, <1>2, <1>3 DEF LearnedFields, LearnedAside
<1>6. /\ learned'.retries \in Nat /\ learned'.retries # 0 /\ DOMAIN learned.predictions = Targets
      /\ \A T \in Targets : DOMAIN learned.predictions[T] = TypeNames
  BY <1>5 DEF LearningInv, LearningTypeOK
<1>7. r.status \notin Learning!Started
  BY <1>4, StartedIs
<1>8. IsFiniteSet(learned'.proposals) /\ IsFiniteSet(learned'.signals) /\ r.impact.likely \subseteq Files
  BY <1>4, <1>5 DEF LearningInv, FilesKnown
<1>9. MovesTo(t, r)
  BY <1>2, <1>4, <1>5, <1>6, <1>7, <1>8 DEF MovesTo
<1> QED BY <1>9, LearningMoves

\* one class for each predicted and each changed file
LEMMA ClassifiedFiles ==
  ASSUME NEW impact, NEW F, NEW certain \in BOOLEAN
  PROVE  /\ \A o \in Learning!Classified(impact, F, certain) : o.task = impact.task
         /\ {o.file : o \in Learning!Classified(impact, F, certain)} = impact.likely \cup (F \ impact.targets)
         /\ \A o \in Learning!Classified(impact, F, certain) :
               o.class # "uncertain" => (o.class = "false_positive") = (o.file \notin F)
         /\ \A o \in Learning!Classified(impact, F, certain) : (o.class # "uncertain") = certain
<1> DEFINE class(f) == IF ~certain THEN "uncertain"
                       ELSE IF f \notin F THEN "false_positive"
                       ELSE IF f \in impact.likely THEN "confirmed" ELSE "false_negative"
           verdict(f) == [task |-> impact.task, file |-> f, targets |-> impact.targets, class |-> class(f)]
           Seen == impact.likely \cup (F \ impact.targets)
<1>1. Learning!Classified(impact, F, certain) = {verdict(f) : f \in Seen}
  BY DEF Learning!Classified
<1>2. ASSUME NEW f \in Seen
      PROVE  /\ verdict(f).task = impact.task /\ verdict(f).file = f
             /\ verdict(f).class # "uncertain" => (verdict(f).class = "false_positive") = (f \notin F)
             /\ (verdict(f).class # "uncertain") = certain
  <2>1. CASE certain
    <3>1. certain = TRUE
      BY <2>1
    <3>2. /\ class(f) \in {"confirmed", "false_positive", "false_negative"}
          /\ class(f) = "false_positive" <=> f \notin F
      BY <2>1
    <3>3. verdict(f).task = impact.task /\ verdict(f).file = f /\ verdict(f).class = class(f)
      OBVIOUS
    <3> HIDE DEF class, verdict
    <3>4. class(f) # "uncertain"
      BY <3>2
    <3> QED BY <3>1, <3>2, <3>3, <3>4
  <2>2. CASE ~certain
    <3>1. class(f) = "uncertain" /\ certain = FALSE
      BY <2>2
    <3>2. verdict(f).task = impact.task /\ verdict(f).file = f /\ verdict(f).class = class(f)
      OBVIOUS
    <3> HIDE DEF class, verdict
    <3> QED BY <3>1, <3>2
  <2> QED BY <2>1, <2>2
<1> HIDE DEF verdict, Seen
<1>3. \A o \in {verdict(f) : f \in Seen} : \E f \in Seen : o = verdict(f)
  OBVIOUS
<1>4. {o.file : o \in {verdict(f) : f \in Seen}} = Seen
  BY <1>2
<1> QED BY <1>1, <1>2, <1>3, <1>4 DEF Seen

\* the values a function takes on a finite set
LEMMA ImageFinite ==
  ASSUME NEW S, IsFiniteSet(S), NEW f
  PROVE  IsFiniteSet({f[x] : x \in S})
<1> DEFINE g == [x \in S |-> f[x]]
<1>1. g \in Surjection(S, {f[x] : x \in S})
  BY DEF Surjection
<1> HIDE DEF g
<1> QED BY <1>1, FS_Surjection

LEMMA ClassifiedFinite ==
  ASSUME NEW impact, NEW F, NEW certain \in BOOLEAN, IsFiniteSet(F), IsFiniteSet(impact.likely)
  PROVE  IsFiniteSet(Learning!Classified(impact, F, certain))
<1> DEFINE Seen == impact.likely \cup (F \ impact.targets)
           verdict == [f \in Seen |->
               [task |-> impact.task, file |-> f, targets |-> impact.targets,
                class |-> IF ~certain THEN "uncertain"
                          ELSE IF f \notin F THEN "false_positive"
                          ELSE IF f \in impact.likely THEN "confirmed" ELSE "false_negative"]]
<1>1. Learning!Classified(impact, F, certain) = {verdict[f] : f \in Seen}
  BY DEF Learning!Classified
<1>2. IsFiniteSet(Seen)
  BY FS_Difference, FS_Union
<1> HIDE DEF verdict, Seen
<1> QED BY <1>1, <1>2, ImageFinite

LEMMA LearningFinish ==
  ASSUME LearningInv, NEW t \in Tasks, NEW success \in BOOLEAN, NEW signals \in Learning!Signals(t, success),
         Learning!Finish(t, success, signals)
  PROVE  LearningInv'
<1>1. PICK r : r = learned.run[t]
  OBVIOUS
<1>2. PICK F : F = r.files
  OBVIOUS
<1>3. PICK owner : owner = r.impact.task
  OBVIOUS
<1>4. PICK ended : ended = IF success THEN "done" ELSE "failed"
  OBVIOUS
<1>5. /\ DOMAIN learned = LearnedFields /\ DOMAIN learned.run = Tasks /\ DOMAIN learned.changed = Tasks
      /\ DOMAIN r = LearnerFields /\ r.status \in Learning!Started /\ r.away = FALSE
      /\ owner \in Tasks /\ (owner = t \/ (t \in learned.crossed /\ owner \in learned.crossed))
      /\ F \in {{}} \cup Targets /\ (success => F \in Targets) /\ r.impact.likely \subseteq Files
  <2>1. DOMAIN learned.changed = Tasks
    BY DEF LearningInv, LearningTypeOK
  <2>2. r.status \in Learning!Started /\ ~r.away /\ (success => r.status = "applied")
    BY <1>1 DEF Learning!Finish
  <2> QED BY <1>1, <1>2, <1>3, <2>1, <2>2, LearnerIs DEF OwnedBy
<1>6. PICK r1 : r1 = [r EXCEPT !.status = ended]
  OBVIOUS
<1>7. /\ DOMAIN r1 = LearnerFields /\ r1.status = ended /\ r1.away = r.away /\ r1.files = F /\ r1.impact = r.impact
      /\ ended \in Ended /\ ended \notin Learning!Started
  BY <1>2, <1>4, <1>5, <1>6, StartedIs DEF LearnerFields, Ended
<1>8. PICK os : os = Learning!Classified(r.impact, F, success)
  OBVIOUS
<1>9. PICK m : m = [learned EXCEPT !.run[t].status = ended,
                     !.signals = {s \in @ : \A n \in signals : <<n.task, n.by>> # <<s.task, s.by>>} \cup signals]
  OBVIOUS
<1>10. PICK told : told = {s \in learned.signals : \A n \in signals : <<n.task, n.by>> # <<s.task, s.by>>} \cup signals
  OBVIOUS
<1>11. /\ DOMAIN m = LearnedFields /\ m.run = [learned.run EXCEPT ![t] = r1] /\ m.outcomes = learned.outcomes
       /\ m.changed = learned.changed /\ m.crossed = learned.crossed /\ m.predictions = learned.predictions
       /\ m.requests = learned.requests /\ m.retries = learned.retries /\ m.proposals = learned.proposals
       /\ m.signals = told
  BY <1>1, <1>5, <1>6, <1>9, <1>10 DEF LearnedFields
<1>12. learned' = IF F = {} THEN m ELSE Learning!Feedback(m, r.impact, F, success)
  BY <1>1, <1>2, <1>4, <1>9 DEF Learning!Finish
<1>13. /\ DOMAIN learned' = LearnedFields /\ learned'.run = [learned.run EXCEPT ![t] = r1]
       /\ learned'.crossed = learned.crossed /\ learned'.predictions = learned.predictions
       /\ learned'.requests = learned.requests /\ learned'.retries = learned.retries
       /\ learned'.proposals = learned.proposals /\ learned'.signals = told
       /\ learned'.outcomes = IF F = {} THEN learned.outcomes ELSE
             {o \in learned.outcomes : \A n \in os : <<n.task, n.file>> # <<o.task, o.file>>} \cup os
       /\ learned'.changed = IF F = {} THEN learned.changed ELSE [learned.changed EXCEPT ![owner] = F]
  <2>1. CASE F = {}
    BY <2>1, <1>11, <1>12
  <2>2. CASE F # {}
    <3>1. PICK filed : filed = [m EXCEPT !.changed[owner] = F]
      OBVIOUS
    <3>2. /\ DOMAIN filed = LearnedFields /\ filed.run = m.run /\ filed.crossed = m.crossed
          /\ filed.predictions = m.predictions /\ filed.outcomes = m.outcomes
          /\ filed.requests = m.requests /\ filed.retries = m.retries
          /\ filed.proposals = m.proposals /\ filed.signals = m.signals
          /\ filed.changed = [learned.changed EXCEPT ![owner] = F]
      BY <1>11, <3>1 DEF LearnedFields
    <3>3. learned' = Learning!Refiled(filed, os)
      BY <2>2, <1>3, <1>8, <1>12, <3>1 DEF Learning!Feedback
    <3>4. learned' = [filed EXCEPT !.outcomes =
                        {o \in filed.outcomes : \A n \in os : <<n.task, n.file>> # <<o.task, o.file>>} \cup os]
      BY <3>3, <3>2 DEF Learning!Refiled, LearnedFields
    <3> QED BY <2>2, <1>11, <3>2, <3>4 DEF LearnedFields
  <2> QED BY <2>1, <2>2
<1>14. /\ DOMAIN learned'.run = Tasks /\ learned'.run[t] = r1 /\ \A u \in Tasks \ {t} : learned'.run[u] = learned.run[u]
       /\ DOMAIN learned'.changed = Tasks
  BY <1>5, <1>13
<1>15. LearningTypeOK'
  <2>1. \A u \in Tasks : TypeOf(u)' = TypeOf(u) /\ TypeOf(u) \in TypeNames
    BY <1>13 DEF LearningInv, LearningTypeOK, TypeOf
  <2>2. ASSUME NEW u \in Tasks PROVE LearnerOK(u)'
    <3>1. CASE u = t
      <4>1. ended \notin {"proposed", "applied"}
        BY <1>7 DEF Ended
      <4> QED BY <3>1, <4>1, <1>5, <1>7, <1>14 DEF LearnerOK
    <3>2. CASE u # t
      <4>1. LearnerOK(u)
        BY DEF LearningInv, LearningTypeOK
      <4>2. StoredFor(u)' = StoredFor(u)
        BY <3>2, <2>1, <1>13, <1>14 DEF StoredFor
      <4> QED BY <3>2, <4>1, <4>2, <1>14 DEF LearnerOK
    <3> QED BY <3>1, <3>2
  <2> QED BY <2>1, <2>2, <1>13, <1>14 DEF LearningInv, LearningTypeOK
<1>16. Owned'
  <2> SUFFICES ASSUME NEW u \in Tasks, learned'.run[u].status \in Learning!Started, ~learned'.run[u].away
               PROVE  OwnedBy(u, learned.run[u].impact.task)'
    BY DEF Owned
  <2>1. u # t
    BY <1>7, <1>14
  <2>2. OwnedBy(u, learned.run[u].impact.task)
    BY <2>1, <1>14 DEF LearningInv, Owned
  <2> QED BY <2>1, <2>2, <1>13, <1>14 DEF OwnedBy
<1>17. /\ \A o \in os : o.task = owner
       /\ {o.file : o \in os} = Due(r1)
       /\ \A o \in os : o.class # "uncertain" => (o.class = "false_positive") = (o.file \notin F)
       /\ \A o \in os : (o.class # "uncertain") = success
  BY <1>3, <1>7, <1>8, ClassifiedFiles DEF Due
<1>18. ASSUME NEW u \in Tasks \ learned.crossed PROVE FiledFor(u)'
  <2>1. FiledFor(u)
    BY DEF LearningInv, Filed
  <2>2. CASE u # t
    <3>1. owner # u
      BY <1>5, <2>2
    <3>2. learned'.changed[u] = learned.changed[u]
      BY <1>5, <1>13, <3>1
    <3>3. Verdicts(u)' = Verdicts(u)
      <4>1. \A o \in learned.outcomes : o.task = u => \A n \in os : <<n.task, n.file>> # <<o.task, o.file>>
        BY <1>17, <3>1
      <4> QED BY <4>1, <1>13, <1>17, <3>1 DEF Verdicts
    <3>4. Certain(u)' = Certain(u)
      BY <3>3 DEF Certain
    <3>5. learned'.run[u] = learned.run[u] /\ learned'.retries = learned.retries
      BY <2>2, <1>13, <1>14
    <3> QED BY <2>1, <3>2, <3>3, <3>4, <3>5 DEF FiledFor, Due
  <2>3. CASE u = t
    <3>1. Certain(t) = {} /\ owner = t
      <4>1. r.status # "done"
        BY <1>5, StartedIs DEF Ended
      <4> QED BY <2>1, <2>3, <4>1, <1>1, <1>5 DEF FiledFor
    <3>2. CASE F = {}
      <4>1. ended = "failed" /\ ended # "done" /\ ended \in Ended
        BY <1>4, <1>5, <3>2, TargetsFinite DEF Ended
      <4>2. Certain(t)' = {}
        BY <3>1, <3>2, <1>13 DEF Certain, Verdicts
      <4> QED BY <2>3, <3>2, <4>1, <4>2, <1>7, <1>14 DEF FiledFor
    <3>3. CASE F # {}
      <4>1. learned'.changed[t] = F
        BY <3>1, <3>3, <1>5, <1>13
      <4>2. os \subseteq Verdicts(t)'
        BY <3>1, <3>3, <1>13, <1>17 DEF Verdicts
      <4>3. \A o \in Verdicts(t)' : o \in os \/ o \in Verdicts(t)
        BY <3>3, <1>13 DEF Verdicts
      <4>4. Certain(t)' = {o \in os : o.class # "uncertain"}
        BY <3>1, <4>2, <4>3 DEF Certain
      <4>5. Due(r1) \subseteq {o.file : o \in Verdicts(t)'}
        BY <4>2, <1>17
      <4>6. CASE success
        <5>1. Certain(t)' = os
          BY <4>4, <4>6, <1>17
        <5>2. r1.status = "done"
          BY <1>4, <1>7, <4>6
        <5>3. {o.file : o \in Certain(t)'} = Due(r1) /\ \A o \in Certain(t)' : (o.class = "false_positive") = (o.file \notin r1.files)
          BY <5>1, <1>7, <1>17, <4>6
        <5> QED BY <2>3, <4>1, <5>2, <5>3, <1>7, <1>14 DEF FiledFor
      <4>7. CASE ~success
        <5>1. Certain(t)' = {}
          BY <4>4, <4>7, <1>17
        <5>2. r1.status = "failed" /\ r1.status \in Ended
          BY <1>4, <1>7, <4>7
        <5> QED BY <2>3, <4>1, <4>5, <5>1, <5>2, <1>7, <1>14 DEF FiledFor
      <4> QED BY <4>6, <4>7
    <3> QED BY <3>2, <3>3
  <2> QED BY <2>2, <2>3
<1>19. Filed'
  BY <1>13, <1>18 DEF Filed
<1>20. FilesKnown'
  <2>1. \A u \in Tasks : learned'.run[u].impact.likely \subseteq Files
    BY <1>5, <1>7, <1>14 DEF LearningInv, FilesKnown
  <2>2. IsFiniteSet(os)
    <3>1. IsFiniteSet(F) /\ IsFiniteSet(Files) /\ r.impact.likely \in SUBSET Files
      BY <1>5, TargetsFinite, FS_EmptySet, ProjectIsFinite
    <3>2. IsFiniteSet(r.impact.likely)
      BY <3>1, FS_Subset
    <3> QED BY <1>8, <3>1, <3>2, ClassifiedFinite
  <2>3. IsFiniteSet(learned'.outcomes)
    <3> DEFINE kept == {o \in learned.outcomes : \A n \in os : <<n.task, n.file>> # <<o.task, o.file>>}
    <3>1. IsFiniteSet(learned.outcomes) /\ kept \in SUBSET learned.outcomes
      BY DEF LearningInv, FilesKnown
    <3>2. IsFiniteSet(kept \cup os)
      BY <2>2, <3>1, FS_Subset, FS_Union
    <3>3. learned'.outcomes = IF F = {} THEN learned.outcomes ELSE kept \cup os
      BY <1>13
    <3> QED BY <3>1, <3>2, <3>3
  <2>4. IsFiniteSet(learned'.signals)
    <3> DEFINE kept == {s \in learned.signals : \A n \in signals : <<n.task, n.by>> # <<s.task, s.by>>}
    <3>1. IsFiniteSet(learned.signals) /\ kept \in SUBSET learned.signals
      BY DEF LearningInv, FilesKnown
    <3>2. IsFiniteSet(signals)
      <4>1. \A x : IsFiniteSet({x})
        BY FS_Singleton
      <4>2. signals = {} \/ \E x : signals = {x}
        BY DEF Learning!Signals
      <4> QED BY <4>1, <4>2, FS_EmptySet
    <3>3. IsFiniteSet(kept \cup signals)
      BY <3>1, <3>2, FS_Subset, FS_Union
    <3> QED BY <3>3, <1>10, <1>13
  <2> QED BY <1>13, <2>1, <2>3, <2>4 DEF LearningInv, FilesKnown
<1> QED BY <1>15, <1>16, <1>19, <1>20 DEF LearningInv

LEMMA LearningNext == LearningInv /\ Learning!Next => LearningInv'
BY LearningPredict, LearningPlan, LearningPropose, LearningMutate, LearningRepair, LearningPause, LearningResume,
   LearningRetry, LearningFinish
   DEF Learning!Next, Targets

LEMMA FiledFollows == LearningInv => Learning!FeedbackFiled
<1> SUFFICES ASSUME LearningInv PROVE \A t \in Tasks \ learned.crossed : FiledFor(t)
  BY DEF Learning!FeedbackFiled, FiledFor, Verdicts, Certain, Due, Ended
<1> QED BY DEF LearningInv, Filed

\* --------------------------------------------------------------- a later miss
LEMMA LearningCardinality == ASSUME NEW S PROVE Learning!Cardinality(S) = Cardinality(S)
BY DEF Learning!Cardinality, Cardinality

LEMMA DivAntitone ==
  ASSUME NEW x \in Nat, NEW a \in Nat \ {0}, NEW b \in Nat \ {0}, a <= b
  PROVE  x \div a \in Nat /\ x \div b \in Nat /\ x \div b <= x \div a
<1> DEFINE p == x \div a
           q == x \div b
<1>1. p \in Int /\ a * p <= x /\ x < a * (p + 1)
  OBVIOUS
<1>2. q \in Int /\ b * q <= x /\ x < b * (q + 1)
  OBVIOUS
<1> HIDE DEF p, q
<1>3. p \in Nat /\ q \in Nat
  <2>1. \A y \in Int, k \in Nat \ {0} : x < k * (y + 1) => y \in Nat
    OBVIOUS
  <2> QED BY <1>1, <1>2, <2>1
<1>4. a * q <= b * q
  BY <1>3
<1>5. ASSUME p < q PROVE FALSE
  <2>1. a * (p + 1) <= a * q
    BY <1>3, <1>5
  <2> QED BY <1>1, <1>2, <1>3, <1>4, <2>1
<1>6. q <= p
  BY <1>3, <1>5
<1> QED BY <1>3, <1>6 DEF p, q

LEMMA ShareAntitone ==
  ASSUME NEW n \in Nat, NEW a \in Nat \ {0}, NEW b \in Nat \ {0}, a <= b
  PROVE  Learning!Share(n, a) \in Nat /\ Learning!Share(n, b) \in Nat /\ Learning!Share(n, b) <= Learning!Share(n, a)
<1>1. PICK x \in Nat : x = 4200 * n
  OBVIOUS
<1>2. x \div a \in Nat /\ x \div b \in Nat /\ x \div b <= x \div a
  BY DivAntitone
<1>3. Learning!Share(n, a) = x \div a /\ Learning!Share(n, b) = x \div b
  BY <1>1 DEF Learning!Share, Learning!Unit
<1> QED BY <1>2, <1>3

\* the greatest element of a finite set of integers
LEMMA FirstOf ==
  ASSUME NEW S, IsFiniteSet(S), S # {}, NEW D \in [S -> SUBSET S], StrictOrder(S, D)
  PROVE  \E x \in S : D[x] \cap S = {}
<1>1. S \in SUBSET S
  OBVIOUS
<1> QED BY <1>1, FirstExists

LEMMA MaxExists ==
  ASSUME NEW S \in SUBSET Int, IsFiniteSet(S), S # {}
  PROVE  Learning!Max(S) \in S /\ \A y \in S : Learning!Max(S) >= y
<1>1. PICK D : D = [x \in S |-> {y \in S : y > x}]
  OBVIOUS
<1>2. D \in [S -> SUBSET S] /\ \A x, y \in S : y \in D[x] <=> y > x
  BY <1>1
<1>3. StrictOrder(S, D)
  <2>1. \A x \in S : x \notin D[x]
    BY <1>2
  <2>2. ASSUME NEW x \in S, NEW y \in D[x], NEW z \in D[y] PROVE z \in D[x]
    BY <1>2
  <2>3. ASSUME NEW x \in S, NEW y \in S, x # y PROVE x \in D[y] \/ y \in D[x]
    <3>1. x < y \/ y < x
      BY <2>3
    <3> QED BY <1>2, <3>1
  <2> QED BY <2>1, <2>2, <2>3 DEF StrictOrder
<1>5. \E x \in S : D[x] \cap S = {}
  <2>1. D \in [S -> SUBSET S]
    BY <1>2
  <2> QED BY <2>1, <1>3, FirstOf
<1>6. PICK x \in S : \A y \in S : y \notin D[x]
  BY <1>5
<1>7. \A y \in S : x >= y
  BY <1>2, <1>6
<1> QED BY <1>7 DEF Learning!Max

LEMMA BestOf ==
  ASSUME NEW S \in SUBSET Int, IsFiniteSet(S)
  PROVE  Learning!Best(S) \in Nat /\ Learning!Best(S) \in {0} \cup S /\ \A y \in S : y <= Learning!Best(S)
<1>1. {0} \cup S \in SUBSET Int /\ IsFiniteSet({0} \cup S) /\ {0} \cup S # {}
  <2>1. IsFiniteSet({0})
    BY FS_Singleton
  <2>2. IsFiniteSet({0} \cup S)
    BY <2>1, FS_Union
  <2> QED BY <2>2
<1>2. PICK U : U = {0} \cup S
  OBVIOUS
<1>3. Learning!Max(U) \in U /\ \A y \in U : Learning!Max(U) >= y
  BY <1>1, <1>2, MaxExists
<1>4. Learning!Best(S) = Learning!Max(U)
  BY <1>2 DEF Learning!Best
<1>5. PICK x : x = Learning!Max(U)
  OBVIOUS
<1>6. x \in U /\ (\A y \in U : x >= y) /\ 0 \in U /\ U \subseteq Int
  BY <1>1, <1>2, <1>3, <1>5
<1>7. x \in Nat
  BY <1>6
<1> QED BY <1>2, <1>4, <1>5, <1>6, <1>7

LEMMA BestBelow ==
  ASSUME NEW S \in SUBSET Int, IsFiniteSet(S), NEW L \in SUBSET Int, IsFiniteSet(L),
         \A y \in L : \E x \in S : y <= x
  PROVE  Learning!Best(L) <= Learning!Best(S)
<1>1. PICK l : l = Learning!Best(L)
  OBVIOUS
<1>2. PICK s : s = Learning!Best(S)
  OBVIOUS
<1>3. l \in Nat /\ l \in {0} \cup L /\ s \in Nat /\ \A x \in S : x <= s
  BY <1>1, <1>2, BestOf
<1>4. l <= s
  BY <1>3
<1> QED BY <1>1, <1>2, <1>4

\* A file that proved wrong: nothing proposed, nothing signalled, one more judgement.
LEMMA MissJudged ==
  ASSUME NEW m, NEW n, NEW T, NEW c, NEW type, NEW miss, n.requests = m.requests,
         n.proposals = m.proposals, n.signals = m.signals,
         miss.targets = T, miss.file = c, miss.class = "false_positive", n.outcomes = m.outcomes \cup {miss}
  PROVE  \A t \in T : /\ Learning!Proposing(n, t) = Learning!Proposing(m, t)
                      /\ Learning!Matched(n, type, t, c) = Learning!Matched(m, type, t, c)
                      /\ Learning!Signalled(n, type, t, c) = Learning!Signalled(m, type, t, c)
                      /\ Learning!Judged(n, t, c) = Learning!Judged(m, t, c) \cup {miss}
                      /\ Learning!Positive(Learning!Judged(n, t, c)) = Learning!Positive(Learning!Judged(m, t, c))
<1> SUFFICES ASSUME NEW t \in T
             PROVE  /\ Learning!Proposing(n, t) = Learning!Proposing(m, t)
                    /\ Learning!Matched(n, type, t, c) = Learning!Matched(m, type, t, c)
                    /\ Learning!Signalled(n, type, t, c) = Learning!Signalled(m, type, t, c)
                    /\ Learning!Judged(n, t, c) = Learning!Judged(m, t, c) \cup {miss}
                    /\ Learning!Positive(Learning!Judged(n, t, c)) = Learning!Positive(Learning!Judged(m, t, c))
  OBVIOUS
<1>1. \A u : Learning!Proposing(n, u) = Learning!Proposing(m, u)
  BY DEF Learning!Proposing
<1>2. Learning!Matched(n, type, t, c) = Learning!Matched(m, type, t, c)
  <2>1. Learning!Both(n, t, c) = Learning!Both(m, t, c)
    BY <1>1 DEF Learning!Both
  <2>2. \A ps : Learning!Typed(n, ps, type) = Learning!Typed(m, ps, type)
    BY DEF Learning!Typed
  <2> QED BY <2>1, <2>2 DEF Learning!Matched
<1>3. Learning!Signalled(n, type, t, c) = Learning!Signalled(m, type, t, c)
  BY <1>2 DEF Learning!Signalled
<1>4. Learning!Judged(n, t, c) = Learning!Judged(m, t, c) \cup {miss}
  BY DEF Learning!Judged
<1>5. Learning!Positive(Learning!Judged(n, t, c)) = Learning!Positive(Learning!Judged(m, t, c))
  BY <1>4 DEF Learning!Positive
<1> QED BY <1>1, <1>2, <1>3, <1>4, <1>5

\* the project, its history and its tasks are finite
LEMMA EvidenceIsFinite == IsFiniteSet(FileEdges) /\ IsFiniteSet(DOMAIN Commits) /\ IsFiniteSet(Tasks)
<1>1. IsFiniteSet(FileEdges)
  BY PairsAreFinite, Zenon DEF FileEdges
<1>2. IsFiniteSet(DOMAIN Commits)
  <2>1. PICK k \in Int : k = 3
    OBVIOUS
  <2>2. IsFiniteSet(1 .. k)
    BY FS_Interval
  <2>3. DOMAIN Commits = 1 .. k
    BY <2>1 DEF Commits
  <2> QED BY <2>2, <2>3
<1> QED BY <1>1, <1>2, ProjectIsFinite

\* there is finitely much to predict from
Finitely(m) == IsFiniteSet(m.outcomes) /\ IsFiniteSet(m.proposals) /\ IsFiniteSet(m.signals)

\* how many there are of what a prediction counts
LEMMA CountsKnown ==
  ASSUME NEW m, Finitely(m), NEW type, NEW t, NEW c
  PROVE  /\ IsFiniteSet(Learning!Linked(t, c)) /\ IsFiniteSet(Learning!Touching(t)) /\ IsFiniteSet(Learning!Together(t, c))
         /\ IsFiniteSet(Learning!Proposing(m, t)) /\ IsFiniteSet(Learning!Matched(m, type, t, c))
         /\ IsFiniteSet(Learning!Signalled(m, type, t, c)) /\ IsFiniteSet({s \in Learning!Signalled(m, type, t, c) : s.success})
         /\ IsFiniteSet(Learning!Judged(m, t, c)) /\ IsFiniteSet(Learning!Positive(Learning!Judged(m, t, c)))
<1>1. IsFiniteSet(FileEdges) /\ IsFiniteSet(DOMAIN Commits) /\ IsFiniteSet(Tasks)
  BY EvidenceIsFinite
<1>2. /\ Learning!Linked(t, c) \subseteq FileEdges /\ Learning!Touching(t) \subseteq DOMAIN Commits
      /\ Learning!Together(t, c) \subseteq Learning!Touching(t)
      /\ Learning!Proposing(m, t) \subseteq m.proposals /\ Learning!Matched(m, type, t, c) \subseteq m.proposals
      /\ Learning!Signalled(m, type, t, c) \subseteq m.signals
      /\ {s \in Learning!Signalled(m, type, t, c) : s.success} \subseteq m.signals
      /\ Learning!Judged(m, t, c) \subseteq m.outcomes /\ Learning!Positive(Learning!Judged(m, t, c)) \subseteq m.outcomes
  BY DEF Learning!Linked, Learning!Touching, Learning!Together, Learning!Proposing, Learning!Matched, Learning!Both,
         Learning!Typed, Learning!Signalled, Learning!Judged, Learning!Positive
<1>4. IsFiniteSet(Learning!Linked(t, c)) /\ IsFiniteSet(Learning!Touching(t)) /\ IsFiniteSet(Learning!Together(t, c))
  BY <1>1, <1>2, FS_Subset
<1>5. /\ IsFiniteSet(Learning!Proposing(m, t)) /\ IsFiniteSet(Learning!Matched(m, type, t, c))
      /\ IsFiniteSet(Learning!Signalled(m, type, t, c)) /\ IsFiniteSet({s \in Learning!Signalled(m, type, t, c) : s.success})
  BY <1>2, FS_Subset DEF Finitely
<1>6. IsFiniteSet(Learning!Judged(m, t, c)) /\ IsFiniteSet(Learning!Positive(Learning!Judged(m, t, c)))
  BY <1>2, FS_Subset DEF Finitely
<1> QED BY <1>4, <1>5, <1>6

\* one more miss takes no observation away
LEMMA MissObserved ==
  ASSUME NEW m, NEW n, NEW T \in Targets, NEW c, NEW type, NEW miss, n.requests = m.requests,
         n.proposals = m.proposals, n.signals = m.signals,
         miss.targets = T, miss.file = c, miss.class = "false_positive", n.outcomes = m.outcomes \cup {miss},
         Finitely(m)
  PROVE  /\ Learning!Observations(m, type, T, c) \in Nat /\ Learning!Observations(n, type, T, c) \in Nat
         /\ Learning!Observations(m, type, T, c) <= Learning!Observations(n, type, T, c)
<1>1. PICK a : a = UNION {Learning!Linked(t, c) : t \in T}
  OBVIOUS
<1>2. PICK b : b = UNION {Learning!Together(t, c) : t \in T}
  OBVIOUS
<1>3. PICK d : d = UNION {Learning!TasksOf(Learning!Matched(m, type, t, c)) : t \in T}
  OBVIOUS
<1>4. PICK e : e = UNION {Learning!Judged(m, t, c) : t \in T}
  OBVIOUS
<1>5. PICK f : f = UNION {Learning!Judged(n, t, c) : t \in T}
  OBVIOUS
<1>6. \A t \in T : /\ Learning!Matched(n, type, t, c) = Learning!Matched(m, type, t, c)
                   /\ Learning!Judged(n, t, c) = Learning!Judged(m, t, c) \cup {miss}
  BY MissJudged
<1>7. d = UNION {Learning!TasksOf(Learning!Matched(n, type, t, c)) : t \in T} /\ e \subseteq f
  BY <1>3, <1>4, <1>5, <1>6
<1>8. IsFiniteSet(a) /\ IsFiniteSet(b) /\ IsFiniteSet(d) /\ IsFiniteSet(f)
  <2>1. IsFiniteSet(n.outcomes)
    BY FS_AddElement DEF Finitely
  <2>2. a \subseteq FileEdges /\ b \subseteq DOMAIN Commits /\ f \subseteq n.outcomes
    BY <1>1, <1>2, <1>5 DEF Learning!Linked, Learning!Touching, Learning!Together, Learning!Judged
  <2>4. IsFiniteSet(d)
    <3>1. PICK g : g = [p \in m.proposals |-> p.task]
      OBVIOUS
    <3>2. IsFiniteSet({g[p] : p \in m.proposals})
      BY ImageFinite DEF Finitely
    <3>3. ASSUME NEW t \in T PROVE Learning!Matched(m, type, t, c) \subseteq m.proposals
      BY DEF Learning!Matched, Learning!Both, Learning!Typed, Learning!Proposing
    <3>4. ASSUME NEW t \in T PROVE Learning!TasksOf(Learning!Matched(m, type, t, c)) \subseteq {g[p] : p \in m.proposals}
      BY <3>1, <3>3 DEF Learning!TasksOf
    <3>5. d \subseteq {g[p] : p \in m.proposals}
      BY <1>3, <3>4
    <3> QED BY <3>2, <3>5, FS_Subset
  <2>3. IsFiniteSet(FileEdges) /\ IsFiniteSet(DOMAIN Commits) /\ IsFiniteSet(Tasks)
    BY EvidenceIsFinite
  <2> QED BY <2>1, <2>2, <2>3, <2>4, FS_Subset
<1>9. /\ Cardinality(a) \in Nat /\ Cardinality(b) \in Nat /\ Cardinality(d) \in Nat /\ Cardinality(f) \in Nat
      /\ Cardinality(e) \in Nat /\ Cardinality(e) <= Cardinality(f)
  BY <1>7, <1>8, FS_CardinalityType, FS_Subset
<1>10. /\ Learning!Observations(m, type, T, c) = Cardinality(a) + Cardinality(b) + Cardinality(d) + Cardinality(e)
       /\ Learning!Observations(n, type, T, c) = Cardinality(a) + Cardinality(b) + Cardinality(d) + Cardinality(f)
  BY <1>1, <1>2, <1>3, <1>4, <1>5, <1>7, LearningCardinality DEF Learning!Observations
<1> QED BY <1>9, <1>10

\* nor adds a kind of evidence
LEMMA MissSources ==
  ASSUME NEW m, NEW n, NEW T, NEW c, NEW type, NEW miss, n.requests = m.requests,
         n.proposals = m.proposals, n.signals = m.signals,
         miss.targets = T, miss.file = c, miss.class = "false_positive", n.outcomes = m.outcomes \cup {miss},
         "outcome" \in Learning!Sources(m, type, T, c)
  PROVE  /\ Cardinality(Learning!Sources(m, type, T, c)) \in Nat /\ Cardinality(Learning!Sources(n, type, T, c)) \in Nat
         /\ Cardinality(Learning!Sources(n, type, T, c)) <= Cardinality(Learning!Sources(m, type, T, c))
<1>1. \A t \in T : Learning!Matched(n, type, t, c) = Learning!Matched(m, type, t, c)
  BY MissJudged
<1>2. PICK linked : linked = {IF e.test THEN "test" ELSE "structural" : e \in UNION {Learning!Linked(t, c) : t \in T}}
  OBVIOUS
<1>3. PICK old : old = UNION {{"historical", "cochange"} : t \in {u \in T : Learning!Together(u, c) # {}}}
  OBVIOUS
<1>4. PICK task : task = {"task" : t \in {u \in T : Learning!Matched(m, type, u, c) # {}}}
  OBVIOUS
<1>5. task = {"task" : t \in {u \in T : Learning!Matched(n, type, u, c) # {}}}
  BY <1>1, <1>4
<1>6. PICK told : told = {"outcome" : t \in {u \in T : Learning!Signalled(m, type, u, c) # {} \/ Learning!Judged(m, u, c) # {}}}
  OBVIOUS
<1>7. PICK retold : retold = {"outcome" : t \in {u \in T : Learning!Signalled(n, type, u, c) # {} \/ Learning!Judged(n, u, c) # {}}}
  OBVIOUS
<1>8. linked \subseteq {"test", "structural"}
  <2> SUFFICES ASSUME NEW x \in linked PROVE x \in {"test", "structural"}
    OBVIOUS
  <2>1. PICK e \in UNION {Learning!Linked(t, c) : t \in T} : x = IF e.test THEN "test" ELSE "structural"
    BY <1>2, Zenon
  <2> QED BY <2>1
<1>9. old \subseteq {"historical", "cochange"} /\ task \subseteq {"task"} /\ told \subseteq {"outcome"} /\ retold \subseteq {"outcome"}
  BY <1>3, <1>4, <1>6, <1>7
<1>10. Learning!Sources(m, type, T, c) = linked \cup old \cup task \cup told
  BY <1>2, <1>3, <1>4, <1>6 DEF Learning!Sources
<1>11. Learning!Sources(n, type, T, c) = linked \cup old \cup task \cup retold
  BY <1>2, <1>3, <1>5, <1>7 DEF Learning!Sources
<1>12. /\ Learning!Sources(n, type, T, c) \subseteq Learning!Sources(m, type, T, c)
      /\ Learning!Sources(m, type, T, c) \subseteq {"test", "structural"} \cup {"historical", "cochange"} \cup {"task", "outcome"}
  BY <1>8, <1>9, <1>10, <1>11
<1>13. IsFiniteSet(Learning!Sources(m, type, T, c))
  <2>1. IsFiniteSet({"test", "structural"} \cup {"historical", "cochange"} \cup {"task", "outcome"})
    BY PairsAreFinite, FS_Union
  <2> QED BY <1>12, <2>1, FS_Subset
<1> QED BY <1>12, <1>13, FS_CardinalityType, FS_Subset

\* the evidence of structure and history, and the tasks that changed both
LEMMA EvidenceKnown ==
  ASSUME NEW m, Finitely(m), NEW type, NEW T \in Targets, NEW c
  PROVE  /\ Learning!Structural(T, c) \in Nat /\ Learning!Historical(T, c) \in Nat
         /\ Learning!CoChange(T, c) \in Nat /\ Learning!TaskHistory(m, type, T, c) \in Nat
<1>1. IsFiniteSet(T)
  BY TargetsFinite
<1>2. \A n \in Nat, a \in Nat \ {0} : Learning!Share(n, a) \in Nat
  BY ShareAntitone
<1>3. ASSUME NEW S, IsFiniteSet(S) PROVE Learning!Cardinality(S) \in Nat /\ Learning!Cardinality(S) + 3 \in Nat \ {0}
  BY <1>3, FS_CardinalityType, LearningCardinality
<1>4. ASSUME NEW f, \A t \in T : f[t] \in Int PROVE Learning!Best({f[t] : t \in T}) \in Nat
  <2>1. {f[t] : t \in T} \in SUBSET Int
    BY <1>4
  <2>2. IsFiniteSet({f[t] : t \in T})
    BY <1>1, ImageFinite
  <2> QED BY <2>1, <2>2, BestOf
<1>5. Learning!Structural(T, c) \in Nat
  <2>1. {4200 : t \in {u \in T : Learning!Linked(u, c) # {}}} \in SUBSET {4200}
    OBVIOUS
  <2>2. IsFiniteSet({4200}) /\ {4200} \subseteq Int
    BY FS_Singleton
  <2>3. PICK S : S = {4200 : t \in {u \in T : Learning!Linked(u, c) # {}}}
    OBVIOUS
  <2>4. IsFiniteSet(S) /\ S \in SUBSET Int
    BY <2>1, <2>2, <2>3, FS_Subset
  <2> QED BY <2>3, <2>4, BestOf DEF Learning!Structural, Learning!Unit
<1>6. Learning!Historical(T, c) \in Nat
  <2>1. PICK f : f = [t \in T |-> Learning!Share(Learning!Cardinality(Learning!Together(t, c)), Learning!Cardinality(Learning!Touching(t)) + 3)]
    OBVIOUS
  <2>2. ASSUME NEW t \in T PROVE f[t] \in Int
    <3>1. IsFiniteSet(Learning!Together(t, c)) /\ IsFiniteSet(Learning!Touching(t))
      BY CountsKnown
    <3>2. Learning!Cardinality(Learning!Together(t, c)) \in Nat /\ Learning!Cardinality(Learning!Touching(t)) + 3 \in Nat \ {0}
      BY <1>3, <3>1
    <3> QED BY <1>2, <2>1, <3>2
  <2>3. Learning!Historical(T, c) = Learning!Best({f[t] : t \in T})
    BY <2>1 DEF Learning!Historical, Learning!Prior
  <2> QED BY <1>4, <2>2, <2>3
<1>7. Learning!TaskHistory(m, type, T, c) \in Nat
  <2>1. PICK f : f = [t \in T |-> Learning!Share(Learning!Cardinality(Learning!Matched(m, type, t, c)), Learning!Cardinality(Learning!Proposing(m, t)) + 3)]
    OBVIOUS
  <2>2. ASSUME NEW t \in T PROVE f[t] \in Int
    <3>1. IsFiniteSet(Learning!Matched(m, type, t, c)) /\ IsFiniteSet(Learning!Proposing(m, t))
      BY CountsKnown
    <3>2. Learning!Cardinality(Learning!Matched(m, type, t, c)) \in Nat /\ Learning!Cardinality(Learning!Proposing(m, t)) + 3 \in Nat \ {0}
      BY <1>3, <3>1
    <3> QED BY <1>2, <2>1, <3>2
  <2>3. Learning!TaskHistory(m, type, T, c) = Learning!Best({f[t] : t \in T})
    BY <2>1 DEF Learning!TaskHistory, Learning!Prior
  <2> QED BY <1>4, <2>2, <2>3
<1>8. Learning!CoChange(T, c) \in Nat
  <2>1. PICK f : f = [t \in T |-> (7 * Learning!Share(Learning!Cardinality(Learning!Together(t, c)), Learning!Cardinality(Learning!Touching(t)) + 3)
                        + 3 * Learning!Share(Learning!Cardinality(Learning!Together(t, c)), Learning!Best({1, Learning!Cardinality(Learning!Touching(t))}))) \div 10]
    OBVIOUS
  <2>2. ASSUME NEW t \in T PROVE f[t] \in Int
    <3>1. PICK k : k = Learning!Cardinality(Learning!Touching(t))
      OBVIOUS
    <3>2. k \in Nat /\ IsFiniteSet({1} \cup {k}) /\ {1} \cup {k} = {1, k}
      <4>1. IsFiniteSet(Learning!Touching(t))
        BY CountsKnown
      <4>2. k \in Nat
        BY <1>3, <3>1, <4>1
      <4>3. IsFiniteSet({1}) /\ IsFiniteSet({k})
        BY FS_Singleton
      <4>4. IsFiniteSet({1} \cup {k})
        BY <4>3, FS_Union
      <4>5. {1} \cup {k} = {1, k}
        OBVIOUS
      <4> QED BY <4>2, <4>4, <4>5
    <3>3. PICK g : g = Learning!Best({1, k})
      OBVIOUS
    <3>4. g \in Nat /\ 1 <= g
      BY <3>2, <3>3, BestOf
    <3>5. PICK x : x = Learning!Share(Learning!Cardinality(Learning!Together(t, c)), k + 3)
      OBVIOUS
    <3>6. PICK y : y = Learning!Share(Learning!Cardinality(Learning!Together(t, c)), g)
      OBVIOUS
    <3>7. Learning!Cardinality(Learning!Together(t, c)) \in Nat
      BY <1>1, <1>3, CountsKnown
    <3>8. x \in Nat /\ y \in Nat
      BY <1>2, <3>2, <3>4, <3>5, <3>6, <3>7
    <3>9. f[t] = (7 * x + 3 * y) \div 10
      BY <2>1, <3>1, <3>3, <3>5, <3>6
    <3> QED BY <3>8, <3>9
  <2>3. Learning!CoChange(T, c) = Learning!Best({f[t] : t \in T})
    BY <2>1 DEF Learning!CoChange, Learning!Prior
  <2> QED BY <1>4, <2>2, <2>3
<1> QED BY <1>5, <1>6, <1>7, <1>8

\* nor makes the outcomes look better
LEMMA MissOutcome ==
  ASSUME NEW m, NEW n, NEW T \in Targets, NEW c, NEW type, NEW miss, n.requests = m.requests,
         n.proposals = m.proposals, n.signals = m.signals,
         miss.targets = T, miss.file = c, miss.class = "false_positive", n.outcomes = m.outcomes \cup {miss},
         Finitely(m)
  PROVE  /\ Learning!OutcomeOf(m, type, T, c) \in Nat /\ Learning!OutcomeOf(n, type, T, c) \in Nat
         /\ Learning!OutcomeOf(n, type, T, c) <= Learning!OutcomeOf(m, type, T, c)
<1>1. \A t \in T : /\ Learning!Signalled(n, type, t, c) = Learning!Signalled(m, type, t, c)
                   /\ Learning!Judged(n, t, c) = Learning!Judged(m, t, c) \cup {miss}
                   /\ Learning!Positive(Learning!Judged(n, t, c)) = Learning!Positive(Learning!Judged(m, t, c))
  BY MissJudged
<1>2. IsFiniteSet(T) /\ IsFiniteSet(n.outcomes)
  BY TargetsFinite, FS_AddElement DEF Finitely
<1>3. ASSUME NEW S, IsFiniteSet(S) PROVE Learning!Cardinality(S) \in Nat /\ Learning!Cardinality(S) + 3 \in Nat \ {0}
  BY <1>3, FS_CardinalityType, LearningCardinality
<1>4. PICK sig : sig = [t \in T |-> Learning!Share(Learning!Cardinality({s \in Learning!Signalled(m, type, t, c) : s.success}),
                                                   Learning!Cardinality(Learning!Signalled(m, type, t, c)) + 3)]
  OBVIOUS
<1>5. PICK own : own = [t \in T |-> Learning!Share(Learning!Cardinality(Learning!Positive(Learning!Judged(m, t, c))),
                                                   Learning!Cardinality(Learning!Judged(m, t, c)) + 3)]
  OBVIOUS
<1>6. PICK new : new = [t \in T |-> Learning!Share(Learning!Cardinality(Learning!Positive(Learning!Judged(n, t, c))),
                                                   Learning!Cardinality(Learning!Judged(n, t, c)) + 3)]
  OBVIOUS
<1>7. ASSUME NEW t \in T PROVE sig[t] \in Nat
  <2>1. IsFiniteSet(Learning!Signalled(m, type, t, c)) /\ IsFiniteSet({s \in Learning!Signalled(m, type, t, c) : s.success})
    BY CountsKnown
  <2>2. /\ Learning!Cardinality({s \in Learning!Signalled(m, type, t, c) : s.success}) \in Nat
        /\ Learning!Cardinality(Learning!Signalled(m, type, t, c)) + 3 \in Nat \ {0}
    BY <1>3, <2>1
  <2>3. \A k \in Nat, a \in Nat \ {0} : Learning!Share(k, a) \in Nat
    BY ShareAntitone
  <2> QED BY <1>4, <2>2, <2>3
<1>8. ASSUME NEW t \in T PROVE own[t] \in Nat /\ new[t] \in Nat /\ new[t] <= own[t]
  <2>1. PICK J : J = Learning!Judged(m, t, c)
    OBVIOUS
  <2>2. PICK K : K = Learning!Judged(n, t, c)
    OBVIOUS
  <2>3. IsFiniteSet(J) /\ IsFiniteSet(K) /\ IsFiniteSet(Learning!Positive(J)) /\ J \subseteq K
    <3>1. Finitely(n)
      BY <1>2 DEF Finitely
    <3> QED BY <1>1, <2>1, <2>2, <3>1, CountsKnown
  <2>4. /\ Cardinality(J) \in Nat /\ Cardinality(K) \in Nat /\ Cardinality(Learning!Positive(J)) \in Nat
        /\ Cardinality(J) <= Cardinality(K)
    BY <2>3, FS_CardinalityType, FS_Subset
  <2>5. PICK k \in Nat : k = Cardinality(Learning!Positive(J))
    BY <2>4
  <2>6. PICK a \in Nat \ {0} : a = Cardinality(J) + 3
    BY <2>4
  <2>7. PICK b \in Nat \ {0} : b = Cardinality(K) + 3
    BY <2>4
  <2>8. a <= b
    BY <2>4, <2>6, <2>7
  <2>9. own[t] = Learning!Share(k, a) /\ new[t] = Learning!Share(k, b)
    BY <1>1, <1>5, <1>6, <2>1, <2>2, <2>5, <2>6, <2>7, LearningCardinality
  <2> QED BY <2>8, <2>9, ShareAntitone
<1>9. PICK S : S = {sig[t] : t \in T} \cup {own[t] : t \in T}
  OBVIOUS
<1>10. PICK L : L = {sig[t] : t \in T} \cup {new[t] : t \in T}
  OBVIOUS
<1>11. IsFiniteSet(S) /\ IsFiniteSet(L)
  <2>1. \A f : IsFiniteSet({f[t] : t \in T})
    BY <1>2, ImageFinite
  <2>2. IsFiniteSet({sig[t] : t \in T}) /\ IsFiniteSet({own[t] : t \in T}) /\ IsFiniteSet({new[t] : t \in T})
    BY <2>1
  <2> QED BY <2>2, <1>9, <1>10, FS_Union
<1>12. S \in SUBSET Int /\ L \in SUBSET Int
  BY <1>7, <1>8, <1>9, <1>10
<1>13. ASSUME NEW y \in L PROVE \E x \in S : y <= x
  <2>1. CASE \E t \in T : y = sig[t]
    <3>1. y \in S /\ y \in Nat
      BY <1>7, <1>9, <2>1
    <3>2. y <= y
      BY <3>1
    <3> QED BY <3>1, <3>2
  <2>2. CASE \E t \in T : y = new[t]
    <3>1. PICK t \in T : y = new[t]
      BY <2>2
    <3>2. own[t] \in S /\ y <= own[t]
      BY <1>8, <1>9, <3>1
    <3> QED BY <3>2
  <2> QED BY <1>10, <2>1, <2>2
<1>14. Learning!Best(S) \in Nat /\ Learning!Best(L) \in Nat /\ Learning!Best(L) <= Learning!Best(S)
  BY <1>11, <1>12, <1>13, BestOf, BestBelow
<1>15. Learning!OutcomeOf(m, type, T, c) = Learning!Best(S)
  BY <1>4, <1>5, <1>9 DEF Learning!OutcomeOf, Learning!Prior
<1>16. Learning!OutcomeOf(n, type, T, c) = Learning!Best(L)
  <2>1. \A t \in T : sig[t] = Learning!Share(Learning!Cardinality({s \in Learning!Signalled(n, type, t, c) : s.success}),
                                             Learning!Cardinality(Learning!Signalled(n, type, t, c)) + 3)
    BY <1>1, <1>4
  <2>2. {sig[t] : t \in T} = {Learning!Share(Learning!Cardinality({s \in Learning!Signalled(n, type, t, c) : s.success}),
                                             Learning!Cardinality(Learning!Signalled(n, type, t, c)) + 3) : t \in T}
    BY <2>1
  <2>3. {new[t] : t \in T} = {Learning!Share(Learning!Cardinality(Learning!Positive(Learning!Judged(n, t, c))),
                                             Learning!Cardinality(Learning!Judged(n, t, c)) + 3) : t \in T}
    BY <1>6
  <2> QED BY <2>2, <2>3, <1>10 DEF Learning!OutcomeOf, Learning!Prior
<1> QED BY <1>14, <1>15, <1>16

LEMMA MissConfidence ==
  ASSUME NEW m, NEW n, NEW T \in Targets, NEW c, NEW type, NEW miss, n.requests = m.requests,
         n.proposals = m.proposals, n.signals = m.signals,
         miss.targets = T, miss.file = c, miss.class = "false_positive", n.outcomes = m.outcomes \cup {miss},
         Finitely(m), "outcome" \in Learning!Sources(m, type, T, c), Learning!Observations(m, type, T, c) > 1
  PROVE  Learning!Confidence(n, type, T, c) <= Learning!Confidence(m, type, T, c)
<1>1. PICK o : o = Learning!OutcomeOf(m, type, T, c)
  OBVIOUS
<1>2. PICK w : w = Learning!OutcomeOf(n, type, T, c)
  OBVIOUS
<1>3. o \in Nat /\ w \in Nat /\ w <= o
  BY <1>1, <1>2, MissOutcome
<1>4. PICK known : known = 30 * Learning!Structural(T, c) + 25 * Learning!Historical(T, c)
                           + 20 * Learning!CoChange(T, c) + 15 * Learning!TaskHistory(m, type, T, c)
  OBVIOUS
<1>5. known \in Nat
  BY <1>4, EvidenceKnown
<1>6. Learning!TaskHistory(n, type, T, c) = Learning!TaskHistory(m, type, T, c)
  <2>1. \A t \in T : /\ Learning!Matched(n, type, t, c) = Learning!Matched(m, type, t, c)
                     /\ Learning!Proposing(n, t) = Learning!Proposing(m, t)
    BY MissJudged
  <2> QED BY <2>1 DEF Learning!TaskHistory
<1>7. PICK k : k = Cardinality(Learning!Sources(m, type, T, c))
  OBVIOUS
<1>8. PICK l : l = Cardinality(Learning!Sources(n, type, T, c))
  OBVIOUS
<1>9. k \in Nat /\ l \in Nat /\ l <= k
  BY <1>7, <1>8, MissSources
<1>10. Learning!Confidence(m, type, T, c) = Learning!Least(Learning!One, (known + 10 * o) * Learning!Least(100, 65 + 7 * k))
  <2>1. ~ (Learning!Observations(m, type, T, c) <= 1)
    BY MissObserved
  <2> QED BY <2>1, <1>1, <1>4, <1>7, LearningCardinality DEF Learning!Confidence, Learning!Weight
<1>11. Learning!Confidence(n, type, T, c) = Learning!Least(Learning!One, (known + 10 * w) * Learning!Least(100, 65 + 7 * l))
  <2>1. ~ (Learning!Observations(n, type, T, c) <= 1)
    BY MissObserved
  <2> QED BY <2>1, <1>2, <1>4, <1>6, <1>8, LearningCardinality DEF Learning!Confidence, Learning!Weight
<1>12. PICK p : p = Learning!Least(100, 65 + 7 * k)
  OBVIOUS
<1>13. PICK q : q = Learning!Least(100, 65 + 7 * l)
  OBVIOUS
<1>14. p \in Nat /\ q \in Nat /\ q <= p
  BY <1>9, <1>12, <1>13 DEF Learning!Least
<1>15. (known + 10 * w) * q <= (known + 10 * o) * p
  <2>1. PICK x \in Nat : x = known + 10 * w
    BY <1>3, <1>5
  <2>2. PICK y \in Nat : y = known + 10 * o
    BY <1>3, <1>5
  <2>3. x <= y
    BY <1>3, <1>5, <2>1, <2>2
  <2>4. x * q <= y * q /\ y * q <= y * p
    BY <1>14, <2>3
  <2> QED BY <1>14, <2>1, <2>2, <2>4
<1>16. Learning!One \in Nat
  BY DEF Learning!One, Learning!Unit
<1>17. PICK x : x = (known + 10 * w) * q
  OBVIOUS
<1>18. PICK y : y = (known + 10 * o) * p
  OBVIOUS
<1>19. x \in Nat /\ y \in Nat /\ x <= y
  BY <1>3, <1>5, <1>14, <1>15, <1>17, <1>18
<1>20. Learning!Confidence(n, type, T, c) = Learning!Least(Learning!One, x) /\ Learning!Confidence(m, type, T, c) = Learning!Least(Learning!One, y)
  BY <1>10, <1>11, <1>12, <1>13, <1>17, <1>18
<1> QED BY <1>16, <1>19, <1>20 DEF Learning!Least

LEMMA MissFollows == LearningInv => Learning!LaterMissesNeverRaise
<1> SUFFICES ASSUME LearningInv, NEW T \in Targets, NEW type \in TypeNames, NEW c \in Files \ T
             PROVE  LET miss == [task |-> "later", file |-> c, targets |-> T, class |-> "false_positive"]
                        missed == [learned EXCEPT !.outcomes = @ \cup {miss}]
                    IN "outcome" \in Learning!Sources(learned, type, T, c) /\ Learning!Observations(learned, type, T, c) > 1
                       => Learning!Confidence(missed, type, T, c) <= Learning!Confidence(learned, type, T, c)
  BY DEF Learning!LaterMissesNeverRaise, Targets, TypeNames
<1>1. PICK miss : miss = [task |-> "later", file |-> c, targets |-> T, class |-> "false_positive"]
  OBVIOUS
<1>2. PICK m : m = learned
  OBVIOUS
<1>3. PICK n : n = [m EXCEPT !.outcomes = @ \cup {miss}]
  OBVIOUS
<1>4. DOMAIN m = LearnedFields /\ Finitely(m)
  BY <1>2 DEF LearningInv, LearningTypeOK, FilesKnown, Finitely
<1>5. /\ n.requests = m.requests /\ n.proposals = m.proposals /\ n.signals = m.signals
      /\ n.outcomes = m.outcomes \cup {miss}
  BY <1>3, <1>4 DEF LearnedFields
<1>6. miss.targets = T /\ miss.file = c /\ miss.class = "false_positive"
  BY <1>1
<1>7. "outcome" \in Learning!Sources(m, type, T, c) /\ Learning!Observations(m, type, T, c) > 1
      => Learning!Confidence(n, type, T, c) <= Learning!Confidence(m, type, T, c)
  BY <1>4, <1>5, <1>6, MissConfidence
<1> QED BY <1>1, <1>2, <1>3, <1>7

\* ---------------------------------------------------------------------- the index
Words == {"src", "main", "a", "b", "x", "index", "node_modules", "link", "Dockerfile", ".test",
          ".ts", ".tsx", ".js", ".jsx", ".mjs", ".cjs", ".py", ".png"}
Names == Seq(Words)
Places == [dir : Seq(Names), name : Names]

\* Of the entries of a tree, no two have one path, and an import is of a file with a name.
DeclarationKnown(d) == d.relative => d.to \in Places /\ d.to.name # <<>>
EntryKnown(e) ==
    /\ e.dir \in Seq(Names) /\ e.name \in Names
    /\ \E n \in Nat : DOMAIN e.code = 1 .. n
    /\ \A k \in DOMAIN e.code : DeclarationKnown(e.code[k])
Grown(tree) ==
    /\ \A e \in tree : EntryKnown(e)
    /\ \A e, f \in tree : e.dir = f.dir /\ e.name = f.name => e = f

LEMMA ShortSequences ==
  ASSUME NEW S
  PROVE  /\ <<>> \in Seq(S) /\ \A a \in S : <<a>> \in Seq(S) /\ <<a>> # <<>>
         /\ \A a, b \in S : <<a, b>> \in Seq(S) /\ <<a, b>> # <<>>
         /\ \A a, b, c \in S : <<a, b, c>> \in Seq(S) /\ <<a, b, c>> # <<>>
<1>1. <<>> \in Seq(S) /\ \A a \in S : <<a>> \in Seq(S) /\ <<a>> # <<>>
  OBVIOUS
<1>2. \A a, b \in S : <<a, b>> \in Seq(S) /\ <<a, b>> # <<>>
  OBVIOUS
<1>3. \A a, b, c \in S : <<a, b, c>> \in Seq(S) /\ <<a, b, c>> # <<>>
  OBVIOUS
<1> QED BY <1>1, <1>2, <1>3

LEMMA NamesKnown ==
  /\ \A a \in Words : <<a>> \in Names /\ <<a>> # <<>>
  /\ \A a, b \in Words : <<a, b>> \in Names /\ <<a, b>> # <<>>
  /\ \A a, b, c \in Words : <<a, b, c>> \in Names /\ <<a, b, c>> # <<>>
  /\ <<>> \in Seq(Names) /\ \A n \in Names : <<n>> \in Seq(Names)
BY ShortSequences DEF Names

LEMMA ImportKnown ==
  ASSUME NEW dir \in Seq(Names), NEW name \in Names, name # <<>>
  PROVE  DeclarationKnown(Import(dir, name)) /\ DeclarationKnown([Import(dir, name) EXCEPT !.kind = "reexport"])
BY DEF DeclarationKnown, Import, Places, Path

LEMMA OthersKnown == \A x, y : DeclarationKnown(Package(x)) /\ DeclarationKnown(Declared(x, y))
BY DEF DeclarationKnown, Package, Import, Declared

LEMMA EntriesKnown ==
  ASSUME NEW dir \in Seq(Names), NEW name \in Names, NEW kind, NEW code, NEW n \in Nat, DOMAIN code = 1 .. n,
         \A k \in 1 .. n : DeclarationKnown(code[k])
  PROVE  /\ EntryKnown(Entry(dir, name, kind, code))
         /\ \A a : EntryKnown([Entry(dir, name, kind, code) EXCEPT !.access = a])
BY DEF EntryKnown, Entry

IndexFields == {"pc", "tree", "open", "files", "at", "symbols", "edges"}
IndexTypeOK ==
    /\ DOMAIN indexed = IndexFields /\ Grown(indexed.tree)
    /\ indexed.pc \in {"walk", "extract", "done", "failed"}
    /\ indexed.open \in Seq(SUBSET indexed.tree) /\ indexed.files \in Seq(indexed.tree)
    /\ indexed.at \in Nat \ {0} /\ indexed.at <= Len(indexed.files) + 1

\* What is kept or about to be looked at can be reached, and what can be reached is kept, or
\* about to be looked at, or inside a directory that is.
Wanted(e) == Indexing!Included(e) /\ e.access # "gone" /\ Indexing!Reached(indexed.tree, e)
Leads(d, e) == \E j \in 1 .. Len(e.dir) : Indexing!Opens(d) /\ d.dir = SubSeq(e.dir, 1, j - 1) /\ d.name = e.dir[j]
Awaited(e) == \E k \in 1 .. Len(indexed.open) : \E d \in indexed.open[k] : d = e \/ Leads(d, e)
Walked ==
    /\ \A k \in 1 .. Len(indexed.open) : \A e \in indexed.open[k] : Indexing!Reached(indexed.tree, e)
    /\ \A k \in 1 .. Len(indexed.files) : Wanted(indexed.files[k])
    /\ \A e \in indexed.tree : Wanted(e) => Awaited(e) \/ \E k \in 1 .. Len(indexed.files) : indexed.files[k] = e
    /\ indexed.pc # "walk" => indexed.open = <<>>

\* The graph is what the files behind the current one say.
ParsedTo(n) == {k \in 1 .. n : Indexing!Parsed(indexed.files[k])}
EdgesTo(n) == UNION {Indexing!EdgesOf(Indexing!Paths, indexed.files[k]) : k \in ParsedTo(n)}
SymbolsTo(n) ==
    UNION {{Indexing!SymbolNode(Indexing!PathOf(indexed.files[k]), i) :
               i \in {j \in DOMAIN indexed.files[k].code : Indexing!Declares(indexed.files[k].code[j])}} : k \in ParsedTo(n)}
Extracted ==
    /\ indexed.pc = "walk" => indexed.at = 1
    /\ indexed.symbols = SymbolsTo(indexed.at - 1)
    /\ indexed.pc # "done" => indexed.edges = EdgesTo(indexed.at - 1)
    /\ indexed.pc = "done" => /\ indexed.at = Len(indexed.files) + 1
                              /\ indexed.edges = EdgesTo(Len(indexed.files)) \cup Indexing!TestEdges(indexed.files)

IndexInv == IndexTypeOK /\ Walked /\ Extracted

\* ------------------------------------------------------------------ the walk
LEMMA DirectoryGrows ==
  ASSUME NEW dir \in Seq(Names), NEW n \in Names
  PROVE  /\ Append(dir, n) \in Seq(Names) /\ Len(Append(dir, n)) = Len(dir) + 1
         /\ \A k \in 1 .. Len(dir) + 1 :
               /\ SubSeq(Append(dir, n), 1, k - 1) = SubSeq(dir, 1, k - 1)
               /\ Append(dir, n)[k] = IF k <= Len(dir) THEN dir[k] ELSE n
         /\ SubSeq(dir, 1, Len(dir)) = dir
<1>1. Append(dir, n) = dir \o <<n>> /\ <<n>> \in Seq(Names) /\ Len(<<n>>) = 1
  BY AppendIsConcat
<1>2. /\ Append(dir, n) \in Seq(Names) /\ Len(Append(dir, n)) = Len(dir) + 1 /\ Len(dir) \in Nat
      /\ \A k \in 1 .. Len(dir) : Append(dir, n)[k] = dir[k]
      /\ Append(dir, n)[Len(dir) + 1] = n
  BY AppendProperties, LenProperties
<1>3. ASSUME NEW k \in 1 .. Len(dir) + 1 PROVE SubSeq(Append(dir, n), 1, k - 1) = SubSeq(dir, 1, k - 1)
  <2>1. CASE k = 1
    <3>1. \A s : SubSeq(s, 1, 0) = <<>>
      BY SubSeqEmpty
    <3> QED BY <2>1, <3>1
  <2>2. CASE k # 1
    <3>1. k - 1 \in 1 .. Len(dir) /\ 1 \in 1 .. Len(dir)
      BY <1>2, <2>2
    <3> QED BY <1>1, <3>1, SubSeqOfConcat1
  <2> QED BY <2>1, <2>2
<1>4. SubSeq(dir, 1, Len(dir)) = dir
  BY SubSeqFull
<1>5. \A k \in 1 .. Len(dir) + 1 : Append(dir, n)[k] = IF k <= Len(dir) THEN dir[k] ELSE n
  BY <1>2
<1> QED BY <1>2, <1>3, <1>4, <1>5

LEMMA DirectoryOpens ==
  ASSUME NEW dir \in Seq(Names), NEW j \in 1 .. Len(dir)
  PROVE  SubSeq(dir, 1, j) = Append(SubSeq(dir, 1, j - 1), dir[j])
<1>1. dir[j] \in Names /\ Len(dir) \in Nat
  BY ElementOfSeq, LenProperties
<1>2. SubSeq(dir, 1, j - 1) \in Seq(Names)
  <2>1. \A i \in 1 .. j - 1 : dir[i] \in Names
    BY <1>1, ElementOfSeq
  <2>2. j - 1 \in Int
    OBVIOUS
  <2> QED BY <2>1, <2>2, SubSeqProperties
<1>3. SubSeq(dir, 1, j) = SubSeq(dir, 1, j - 1) \o <<dir[j]>>
  <2>1. 1 \in 1 .. Len(dir) /\ j \in 1 .. Len(dir)
    BY <1>1
  <2> QED BY <2>1, SubSeqRecursiveSecond
<1> QED BY <1>1, <1>2, <1>3, AppendIsConcat

LEMMA FirstPart ==
  ASSUME NEW S, NEW q \in Seq(S), NEW n \in Nat, \A i \in 1 .. n : q[i] \in S
  PROVE  /\ SubSeq(q, 1, n) \in Seq(S) /\ Len(SubSeq(q, 1, n)) = n
         /\ \A i \in 1 .. n : SubSeq(q, 1, n)[i] = q[i]
<1>1. 1 \in Int /\ n \in Int
  OBVIOUS
<1>2. /\ SubSeq(q, 1, n) \in Seq(S)
      /\ Len(SubSeq(q, 1, n)) = IF 1 <= n THEN n - 1 + 1 ELSE 0
      /\ \A i \in 1 .. n - 1 + 1 : SubSeq(q, 1, n)[i] = q[1 + i - 1]
  BY <1>1, SubSeqProperties
<1> QED BY <1>2

LEMMA OneMore ==
  ASSUME NEW S, NEW q \in Seq(S), NEW x \in S
  PROVE  /\ Append(q, x) \in Seq(S) /\ Len(Append(q, x)) = Len(q) + 1
         /\ \A k \in 1 .. Len(q) : Append(q, x)[k] = q[k]
         /\ Append(q, x)[Len(q) + 1] = x
BY AppendProperties

LEMMA RootsReached == ASSUME NEW tree, NEW e, e.dir = <<>> PROVE Indexing!Reached(tree, e)
BY DEF Indexing!Reached

LEMMA InsideReached ==
  ASSUME NEW tree, NEW d \in tree, NEW e, d.dir \in Seq(Names), d.name \in Names, Indexing!Opens(d),
         Indexing!Reached(tree, d), e.dir = Append(d.dir, d.name)
  PROVE  Indexing!Reached(tree, e)
<1> SUFFICES ASSUME NEW k \in DOMAIN e.dir
             PROVE  \E o \in tree : Indexing!Opens(o) /\ o.dir = SubSeq(e.dir, 1, k - 1) /\ o.name = e.dir[k]
  BY DEF Indexing!Reached
<1>1. k \in 1 .. Len(d.dir) + 1
  BY DirectoryGrows, LenProperties
<1>2. /\ SubSeq(e.dir, 1, k - 1) = SubSeq(d.dir, 1, k - 1)
      /\ e.dir[k] = IF k <= Len(d.dir) THEN d.dir[k] ELSE d.name
      /\ SubSeq(d.dir, 1, Len(d.dir)) = d.dir /\ Len(d.dir) \in Nat
  BY <1>1, DirectoryGrows, LenProperties
<1>3. CASE k <= Len(d.dir)
  <2>1. k \in DOMAIN d.dir
    BY <1>1, <1>2, <1>3, LenProperties
  <2> QED BY <1>2, <1>3, <2>1 DEF Indexing!Reached
<1>4. CASE k = Len(d.dir) + 1
  BY <1>2, <1>4
<1> QED BY <1>1, <1>2, <1>3, <1>4

LEMMA NothingExtracted == SymbolsTo(0) = {} /\ EdgesTo(0) = {}
BY DEF SymbolsTo, EdgesTo, ParsedTo

LEMMA IndexStart == ASSUME NEW tree, Grown(tree), indexed = Indexing!Start(tree) PROVE IndexInv
<1>2. /\ DOMAIN indexed = IndexFields /\ indexed.pc = "walk" /\ indexed.tree = tree
      /\ indexed.open = <<Indexing!Inside(tree, <<>>)>> /\ indexed.files = <<>> /\ indexed.at = 1
      /\ indexed.symbols = {} /\ indexed.edges = {}
  BY DEF IndexFields, Indexing!Start
<1>3. PICK roots \in SUBSET tree : roots = Indexing!Inside(tree, <<>>) /\ \A e : e \in roots <=> e \in tree /\ e.dir = <<>>
  <2>1. PICK inside : inside = {e \in tree : e.dir = <<>>}
    OBVIOUS
  <2>2. inside = Indexing!Inside(tree, <<>>)
    BY <2>1 DEF Indexing!Inside
  <2>3. inside \in SUBSET tree /\ \A e : e \in inside <=> e \in tree /\ e.dir = <<>>
    BY <2>1
  <2> QED BY <2>2, <2>3, Zenon
<1>4. IndexTypeOK
  <2>1. <<roots>> \in Seq(SUBSET tree) /\ <<>> \in Seq(tree) /\ Len(<<>>) = 0
    OBVIOUS
  <2> QED BY <1>2, <1>3, <2>1 DEF IndexTypeOK
<1>5. Len(indexed.open) = 1 /\ indexed.open[1] = roots /\ Len(indexed.files) = 0
  BY <1>2, <1>3
<1>6. ASSUME NEW e \in tree, Wanted(e) PROVE Awaited(e)
  <2>1. EntryKnown(e)
    BY DEF Grown
  <2>2. CASE e.dir = <<>>
    BY <1>3, <1>5, <2>2 DEF Awaited
  <2>3. CASE e.dir # <<>>
    <3>1. Len(e.dir) \in Nat \ {0} /\ DOMAIN e.dir = 1 .. Len(e.dir)
      BY <2>1, <2>3, LenProperties, EmptySeq DEF EntryKnown
    <3>2. 1 \in DOMAIN e.dir
      BY <3>1
    <3>3. PICK j \in DOMAIN e.dir : j = 1
      BY <3>2
    <3>4. PICK d \in tree : Indexing!Opens(d) /\ d.dir = SubSeq(e.dir, 1, j - 1) /\ d.name = e.dir[j]
      BY <1>2, <1>6 DEF Wanted, Indexing!Reached
    <3>6. SubSeq(e.dir, 1, j - 1) = <<>>
      BY <3>3, SubSeqEmpty
    <3>7. Leads(d, e)
      BY <3>1, <3>4 DEF Leads
    <3>5. Leads(d, e) /\ d \in roots
      BY <1>3, <3>4, <3>6, <3>7
    <3> QED BY <1>5, <3>5 DEF Awaited
  <2> QED BY <2>2, <2>3
<1>7. Walked
  <2>1. \A e \in roots : Indexing!Reached(tree, e)
    BY <1>3, RootsReached
  <2> QED BY <1>2, <1>5, <1>6, <2>1 DEF Walked
<1>8. Extracted
  BY <1>2, NothingExtracted DEF Extracted
<1> QED BY <1>4, <1>7, <1>8 DEF IndexInv

\* the trees of the instance are such trees
LEMMA TreesGrown == \A tree \in SourceTrees : Grown(tree)
<1>1. /\ <<"src">> \in Names /\ <<"main">> \in Names /\ <<"main", ".ts">> \in Names /\ <<"a">> \in Names /\ <<"b">> \in Names
      /\ <<"a", ".ts">> \in Names /\ <<"a", ".js">> \in Names /\ <<"a", ".test", ".ts">> \in Names /\ <<"a", ".py">> \in Names
      /\ <<"index", ".ts">> \in Names /\ <<"node_modules">> \in Names /\ <<"link">> \in Names /\ <<"Dockerfile">> \in Names
      /\ <<"x", ".png">> \in Names
  <2>1. {"src", "main", "a", "b", "x", "index", "node_modules", "link", "Dockerfile", ".test", ".ts", ".js", ".py", ".png"} \subseteq Words
    BY DEF Words
  <2>2. /\ <<"src">> \in Names /\ <<"main">> \in Names /\ <<"a">> \in Names /\ <<"b">> \in Names
        /\ <<"node_modules">> \in Names /\ <<"link">> \in Names /\ <<"Dockerfile">> \in Names
    BY <2>1, NamesKnown
  <2>3. /\ <<"main", ".ts">> \in Names /\ <<"a", ".ts">> \in Names /\ <<"a", ".js">> \in Names /\ <<"a", ".py">> \in Names
        /\ <<"index", ".ts">> \in Names /\ <<"x", ".png">> \in Names
    BY <2>1, NamesKnown
  <2>4. <<"a", ".test", ".ts">> \in Names
    BY <2>1, NamesKnown
  <2> QED BY <2>2, <2>3, <2>4
<1>2. <<>> \in Seq(Names) /\ InSrc \in Seq(Names) /\ <<<<"node_modules">>>> \in Seq(Names)
  BY <1>1, NamesKnown DEF InSrc
<1>3. ASSUME NEW dir \in Seq(Names), NEW name \in Names, NEW kind
      PROVE  EntryKnown(Entry(dir, name, kind, <<>>)) /\ \A a : EntryKnown([Entry(dir, name, kind, <<>>) EXCEPT !.access = a])
  <2>1. \A k \in 1 .. 0 : DeclarationKnown(<<>>[k])
    OBVIOUS
  <2>2. DOMAIN <<>> = 1 .. 0 /\ 0 \in Nat
    OBVIOUS
  <2> QED BY <2>1, <2>2, EntriesKnown
<1>4. ASSUME NEW dir \in Seq(Names), NEW name \in Names, NEW d, DeclarationKnown(d)
      PROVE  EntryKnown(Entry(dir, name, "file", <<d>>))
  <2>1. \A k \in 1 .. 1 : DeclarationKnown(<<d>>[k])
    BY <1>4
  <2>2. DOMAIN <<d>> = 1 .. 1 /\ 1 \in Nat
    OBVIOUS
  <2> QED BY <2>1, <2>2, EntriesKnown
<1>5. ASSUME NEW dir \in Seq(Names), NEW name \in Names, NEW d, DeclarationKnown(d), NEW e, DeclarationKnown(e)
      PROVE  /\ EntryKnown(Entry(dir, name, "file", <<d, e>>))
             /\ \A a : EntryKnown([Entry(dir, name, "file", <<d, e>>) EXCEPT !.access = a])
  <2>1. \A k \in 1 .. 2 : DeclarationKnown(<<d, e>>[k])
    BY <1>5
  <2>2. DOMAIN <<d, e>> = 1 .. 2 /\ 2 \in Nat
    OBVIOUS
  <2> QED BY <2>1, <2>2, EntriesKnown
<1>6. EntryKnown(Src) /\ EntryKnown([Src EXCEPT !.access = "denied"]) /\ EntryKnown(OtherA) /\ \A e \in Unwanted : EntryKnown(e)
  BY <1>1, <1>2, <1>3 DEF Src, OtherA, Unwanted
<1>7. EntryKnown(CompiledA) /\ EntryKnown(TestOfA)
  BY <1>1, <1>2, <1>4, ImportKnown, OthersKnown, NamesKnown DEF CompiledA, TestOfA
<1>8. EntryKnown(IndexOfSrc) /\ EntryKnown([IndexOfSrc EXCEPT !.access = "denied"])
  BY <1>1, <1>2, <1>5, ImportKnown, NamesKnown DEF IndexOfSrc
<1>9. EntryKnown(Main)
  <2>1. ASSUME NEW dir \in Seq(Names), NEW name \in Names, NEW d1, DeclarationKnown(d1), NEW d2, DeclarationKnown(d2),
               NEW d3, DeclarationKnown(d3), NEW d4, DeclarationKnown(d4), NEW d5, DeclarationKnown(d5)
        PROVE  EntryKnown(Entry(dir, name, "file", <<d1, d2, d3, d4, d5>>))
    <3>1. \A k \in 1 .. 5 : DeclarationKnown(<<d1, d2, d3, d4, d5>>[k])
      BY <2>1
    <3>2. DOMAIN <<d1, d2, d3, d4, d5>> = 1 .. 5 /\ 5 \in Nat
      OBVIOUS
    <3> QED BY <3>1, <3>2, EntriesKnown
  <2> QED BY <1>1, <1>2, <2>1, ImportKnown, OthersKnown, NamesKnown DEF Main
<1>10. EntryKnown(SourceA) /\ EntryKnown([SourceA EXCEPT !.access = "gone"])
  <2>1. ASSUME NEW dir \in Seq(Names), NEW name \in Names, NEW d1, DeclarationKnown(d1), NEW d2, DeclarationKnown(d2),
               NEW d3, DeclarationKnown(d3)
        PROVE  /\ EntryKnown(Entry(dir, name, "file", <<d1, d2, d3>>))
               /\ \A a : EntryKnown([Entry(dir, name, "file", <<d1, d2, d3>>) EXCEPT !.access = a])
    <3>1. \A k \in 1 .. 3 : DeclarationKnown(<<d1, d2, d3>>[k])
      BY <2>1
    <3>2. DOMAIN <<d1, d2, d3>> = 1 .. 3 /\ 3 \in Nat
      OBVIOUS
    <3> QED BY <3>1, <3>2, EntriesKnown
  <2> QED BY <1>1, <1>2, <2>1, ImportKnown, OthersKnown, NamesKnown DEF SourceA
<1>11. \A tree \in SourceTrees : \A e \in tree : EntryKnown(e)
  BY <1>6, <1>7, <1>8, <1>9, <1>10 DEF SourceTrees
<1>12. /\ InSrc # <<>> /\ <<<<"node_modules">>>> # <<>> /\ InSrc # <<<<"node_modules">>>>
       /\ <<"a", ".ts">> # <<"a", ".js">> /\ <<"a", ".ts">> # <<"index", ".ts">> /\ <<"a", ".js">> # <<"index", ".ts">>
       /\ \A n \in {<<"a", ".ts">>, <<"a", ".js">>, <<"index", ".ts">>} : n # <<"a", ".test", ".ts">>
  BY DEF InSrc
<1>13. /\ \A m, n \in {<<"main", ".ts">>, <<"a", ".py">>, <<"x", ".png">>} : m[1] = n[1] => m = n
       /\ \A m, n \in {<<"src">>, <<"node_modules">>, <<"link">>, <<"Dockerfile">>} : m[1] = n[1] => m = n
       /\ \A m \in {<<"src">>, <<"node_modules">>, <<"link">>, <<"Dockerfile">>} :
             \A n \in {<<"main", ".ts">>, <<"a", ".py">>, <<"x", ".png">>} : m # n
  OBVIOUS
<1> DEFINE Apart(tree) == \A e, f \in tree : e.dir = f.dir /\ e.name = f.name => e = f
<1>14. ASSUME NEW src, src \in {Src, [Src EXCEPT !.access = "denied"]} PROVE src.dir = <<>> /\ src.name = <<"src">>
  BY <1>14 DEF Src, Entry
<1>15. /\ Main.dir = <<>> /\ Main.name = <<"main", ".ts">> /\ OtherA.dir = <<>> /\ OtherA.name = <<"a", ".py">>
       /\ CompiledA.dir = InSrc /\ CompiledA.name = <<"a", ".js">> /\ TestOfA.dir = InSrc /\ TestOfA.name = <<"a", ".test", ".ts">>
  BY DEF Main, OtherA, CompiledA, TestOfA, Entry
<1>16. ASSUME NEW a, a \in {SourceA, [SourceA EXCEPT !.access = "gone"]} PROVE a.dir = InSrc /\ a.name = <<"a", ".ts">>
  <2>1. \A dir, name, kind, code : [Entry(dir, name, kind, code) EXCEPT !.access = "gone"].dir = dir
            /\ [Entry(dir, name, kind, code) EXCEPT !.access = "gone"].name = name
            /\ Entry(dir, name, kind, code).dir = dir /\ Entry(dir, name, kind, code).name = name
    BY DEF Entry
  <2>2. PICK code : code = <<Declared("class", TRUE), Declared("method", FALSE), Import(<<>>, <<"main">>)>>
    OBVIOUS
  <2>3. SourceA = Entry(InSrc, <<"a", ".ts">>, "file", code)
    BY <2>2 DEF SourceA
  <2>4. SourceA.dir = InSrc /\ SourceA.name = <<"a", ".ts">>
    BY <2>1, <2>3
  <2>5. PICK gone : gone = [Entry(InSrc, <<"a", ".ts">>, "file", code) EXCEPT !.access = "gone"]
    OBVIOUS
  <2>6. gone.dir = InSrc /\ gone.name = <<"a", ".ts">>
    BY <2>1, <2>5
  <2>7. [SourceA EXCEPT !.access = "gone"] = gone
    BY <2>3, <2>5, Zenon
  <2> QED BY <1>16, <2>4, <2>6, <2>7, Zenon
<1>17. ASSUME NEW i, i \in {IndexOfSrc, [IndexOfSrc EXCEPT !.access = "denied"]} PROVE i.dir = InSrc /\ i.name = <<"index", ".ts">>
  BY <1>17 DEF IndexOfSrc, Entry
<1>18. Apart({Src, SourceA} \cup Unwanted)
  <2>1. PICK nm : nm = Entry(<<>>, <<"node_modules">>, "dir", <<>>)
    OBVIOUS
  <2>2. PICK na : na = Entry(<<<<"node_modules">>>>, <<"a", ".ts">>, "file", <<>>)
    OBVIOUS
  <2>3. PICK l : l = Entry(<<>>, <<"link">>, "other", <<>>)
    OBVIOUS
  <2>4. PICK d : d = Entry(<<>>, <<"Dockerfile">>, "file", <<>>)
    OBVIOUS
  <2>5. PICK x : x = Entry(<<>>, <<"x", ".png">>, "file", <<>>)
    OBVIOUS
  <2>6. Unwanted = {nm, na, l, d, x}
    BY <2>1, <2>2, <2>3, <2>4, <2>5 DEF Unwanted
  <2>7. /\ nm.dir = <<>> /\ nm.name = <<"node_modules">> /\ na.dir = <<<<"node_modules">>>>
        /\ l.dir = <<>> /\ l.name = <<"link">> /\ d.dir = <<>> /\ d.name = <<"Dockerfile">>
        /\ x.dir = <<>> /\ x.name = <<"x", ".png">>
    BY <2>1, <2>2, <2>3, <2>4, <2>5 DEF Entry
  <2>8. /\ Src.name # nm.name /\ Src.name # l.name /\ Src.name # d.name /\ Src.name # x.name
        /\ nm.name # l.name /\ nm.name # d.name /\ nm.name # x.name
        /\ l.name # d.name /\ l.name # x.name /\ d.name # x.name
    BY <1>13, <1>14, <2>7
  <2>9. Src.dir = <<>> /\ SourceA.dir = InSrc
    BY <1>14, <1>16
  <2>10. Apart({Src, SourceA, nm, na, l, d, x})
    BY <1>12, <2>7, <2>8, <2>9
  <2>11. {Src, SourceA} \cup Unwanted = {Src, SourceA, nm, na, l, d, x}
    BY <2>6
  <2> QED BY <2>10, <2>11
<1>19. ASSUME NEW src \in {Src, [Src EXCEPT !.access = "denied"]}, NEW a \in {SourceA, [SourceA EXCEPT !.access = "gone"]},
              NEW i \in {IndexOfSrc, [IndexOfSrc EXCEPT !.access = "denied"]}
       PROVE  /\ Apart({Main, src, a, TestOfA, OtherA}) /\ Apart({Main, src, a, CompiledA, i})
              /\ Apart({Main, src, i, TestOfA}) /\ Apart({Main, src, CompiledA, i})
              /\ Apart({Main, a, src}) /\ Apart({Main, src, a, CompiledA})
  <2>1. Main.name # src.name /\ Main.name # OtherA.name /\ src.name # OtherA.name
    BY <1>13, <1>14, <1>15
  <2>2. /\ \A e \in {Main, src, OtherA} : e.dir = <<>>
        /\ \A e \in {a, i, CompiledA, TestOfA} : e.dir = InSrc
    BY <1>14, <1>15, <1>16, <1>17
  <2>3. /\ a.name # CompiledA.name /\ a.name # i.name /\ a.name # TestOfA.name /\ CompiledA.name # i.name
        /\ CompiledA.name # TestOfA.name /\ i.name # TestOfA.name
    BY <1>12, <1>15, <1>16, <1>17
  <2>4. Apart({Main, src, OtherA, a, i, CompiledA, TestOfA})
    BY <1>12, <2>1, <2>2, <2>3
  <2> QED BY <2>4
<1>20. \A tree \in SourceTrees : Apart(tree)
  <2>1. /\ Apart({Main, Src, SourceA, TestOfA, OtherA}) /\ Apart({Main, Src, SourceA, CompiledA, IndexOfSrc})
        /\ Apart({Main, Src, IndexOfSrc, TestOfA}) /\ Apart({Main, Src, CompiledA, [IndexOfSrc EXCEPT !.access = "denied"]})
        /\ Apart({Main, SourceA, [Src EXCEPT !.access = "denied"]})
        /\ Apart({Main, Src, [SourceA EXCEPT !.access = "gone"], CompiledA})
    <3> HIDE DEF Apart
    <3> QED BY <1>19
  <2> HIDE DEF Apart
  <2> QED BY <1>18, <2>1 DEF SourceTrees
<1> QED BY <1>11, <1>20 DEF Grown

LEMMA IndexInit == Indexing!Init => IndexInv
<1> SUFFICES ASSUME Indexing!Init PROVE IndexInv
  OBVIOUS
<1>1. PICK tree \in SourceTrees : indexed = Indexing!Start(tree)
  BY DEF Indexing!Init
<1> QED BY <1>1, TreesGrown, IndexStart

LEMMA IndexVisit ==
  ASSUME IndexInv, NEW entry, Indexing!Visit(entry)
  PROVE  IndexInv'
<1>1. PICK last : last = Len(indexed.open)
  OBVIOUS
<1>2. /\ DOMAIN indexed = IndexFields /\ Grown(indexed.tree) /\ indexed.pc = "walk" /\ indexed.at = 1
      /\ indexed.open \in Seq(SUBSET indexed.tree) /\ indexed.files \in Seq(indexed.tree)
      /\ indexed.open # <<>> /\ entry \in indexed.open[last]
  BY <1>1 DEF IndexInv, IndexTypeOK, Extracted, Indexing!Visit, Indexing!Last
<1>3. last \in Nat \ {0} /\ indexed.open[last] \in SUBSET indexed.tree /\ entry \in indexed.tree /\ Len(indexed.files) \in Nat
  BY <1>1, <1>2, LenProperties, EmptySeq
<1>4. EntryKnown(entry) /\ Indexing!Reached(indexed.tree, entry)
  <2>1. last \in 1 .. Len(indexed.open)
    BY <1>1, <1>3
  <2> QED BY <1>2, <1>3, <2>1 DEF IndexInv, Walked, Grown
<1>5. PICK within \in SUBSET indexed.tree : /\ within = Indexing!Inside(indexed.tree, Append(entry.dir, entry.name))
                                           /\ \A e : e \in within <=> e \in indexed.tree /\ e.dir = Append(entry.dir, entry.name)
  <2>1. PICK inside : inside = {e \in indexed.tree : e.dir = Append(entry.dir, entry.name)}
    OBVIOUS
  <2>2. inside = Indexing!Inside(indexed.tree, Append(entry.dir, entry.name))
    BY <2>1 DEF Indexing!Inside
  <2>3. inside \in SUBSET indexed.tree /\ \A e : e \in inside <=> e \in indexed.tree /\ e.dir = Append(entry.dir, entry.name)
    BY <2>1
  <2> QED BY <2>2, <2>3, Zenon
<1>6. PICK rest : rest = [indexed.open EXCEPT ![last] = @ \ {entry}]
  OBVIOUS
<1>7. /\ rest \in Seq(SUBSET indexed.tree) /\ Len(rest) = last
      /\ \A k \in 1 .. last : rest[k] = IF k = last THEN indexed.open[last] \ {entry} ELSE indexed.open[k]
  <2>1. indexed.open[last] \ {entry} \in SUBSET indexed.tree /\ last \in 1 .. Len(indexed.open)
    BY <1>1, <1>3
  <2>2. PICK q : q = indexed.open
    OBVIOUS
  <2>3. PICK S : S = SUBSET indexed.tree
    OBVIOUS
  <2>4. PICK left : left = indexed.open[last] \ {entry}
    OBVIOUS
  <2>5. q \in Seq(S) /\ last \in 1 .. Len(q) /\ left \in S
    BY <1>2, <2>1, <2>2, <2>3, <2>4
  <2>6. /\ [q EXCEPT ![last] = left] \in Seq(S) /\ Len([q EXCEPT ![last] = left]) = Len(q)
        /\ \A k \in 1 .. Len(q) : [q EXCEPT ![last] = left][k] = IF k = last THEN left ELSE q[k]
    BY <2>5, ExceptSeq
  <2>7. rest = [q EXCEPT ![last] = left]
    BY <1>6, <2>2, <2>4
  <2> QED BY <1>1, <2>2, <2>3, <2>4, <2>6, <2>7
<1>8. PICK opened : opened = IF Indexing!Opens(entry) THEN Append(rest, within) ELSE rest
  OBVIOUS
<1>9. /\ opened \in Seq(SUBSET indexed.tree) /\ Len(opened) = IF Indexing!Opens(entry) THEN last + 1 ELSE last
      /\ \A k \in 1 .. last : opened[k] = IF k = last THEN indexed.open[last] \ {entry} ELSE indexed.open[k]
      /\ Indexing!Opens(entry) => opened[last + 1] = within
  <2>1. CASE Indexing!Opens(entry)
    <3>1. /\ Append(rest, within) \in Seq(SUBSET indexed.tree) /\ Len(Append(rest, within)) = last + 1
          /\ \A k \in 1 .. last : Append(rest, within)[k] = rest[k]
          /\ Append(rest, within)[last + 1] = within
      <4>1. PICK S : S = SUBSET indexed.tree
        OBVIOUS
      <4>2. rest \in Seq(S) /\ within \in S
        BY <1>7, <4>1
      <4>3. /\ Append(rest, within) \in Seq(S) /\ Len(Append(rest, within)) = Len(rest) + 1
            /\ \A k \in 1 .. Len(rest) : Append(rest, within)[k] = rest[k]
            /\ Append(rest, within)[Len(rest) + 1] = within
        BY <4>2, OneMore
      <4> QED BY <1>7, <4>1, <4>3
    <3> QED BY <1>7, <1>8, <2>1, <3>1
  <2>2. CASE ~Indexing!Opens(entry)
    BY <1>7, <1>8, <2>2
  <2> QED BY <2>1, <2>2
<1>10. PICK files : files = IF Indexing!Included(entry) /\ entry.access # "gone" THEN Append(indexed.files, entry) ELSE indexed.files
  OBVIOUS
<1>11. /\ files \in Seq(indexed.tree) /\ Len(files) \in Nat /\ Len(indexed.files) <= Len(files)
       /\ \A k \in 1 .. Len(indexed.files) : files[k] = indexed.files[k]
       /\ \A k \in 1 .. Len(files) : Wanted(files[k])
       /\ Wanted(entry) => \E k \in 1 .. Len(files) : files[k] = entry
  <2>1. \A k \in 1 .. Len(indexed.files) : Wanted(indexed.files[k])
    BY DEF IndexInv, Walked
  <2>2. CASE Indexing!Included(entry) /\ entry.access # "gone"
    <3>1. /\ files \in Seq(indexed.tree) /\ Len(files) = Len(indexed.files) + 1
          /\ \A k \in 1 .. Len(indexed.files) : files[k] = indexed.files[k]
          /\ files[Len(indexed.files) + 1] = entry
      <4>1. files = Append(indexed.files, entry)
        BY <1>10, <2>2
      <4>2. PICK S : S = indexed.tree
        OBVIOUS
      <4>3. PICK q : q = indexed.files
        OBVIOUS
      <4>4. q \in Seq(S) /\ entry \in S
        BY <1>2, <1>3, <4>2, <4>3
      <4>5. /\ Append(q, entry) \in Seq(S) /\ Len(Append(q, entry)) = Len(q) + 1
            /\ \A k \in 1 .. Len(q) : Append(q, entry)[k] = q[k]
            /\ Append(q, entry)[Len(q) + 1] = entry
        BY <4>4, OneMore
      <4>6. files = Append(q, entry)
        BY <4>1, <4>3
      <4> QED BY <4>2, <4>3, <4>5, <4>6
    <3>2. Wanted(entry)
      BY <1>4, <2>2 DEF Wanted
    <3> QED BY <1>3, <2>1, <3>1, <3>2
  <2>3. CASE ~(Indexing!Included(entry) /\ entry.access # "gone")
    BY <1>2, <1>3, <1>10, <2>1, <2>3 DEF Wanted
  <2> QED BY <2>2, <2>3
<1>12. indexed' = [indexed EXCEPT !.open = opened, !.files = files]
  BY <1>1, <1>5, <1>6, <1>8, <1>10 DEF Indexing!Visit
<1>13. /\ DOMAIN indexed' = IndexFields /\ indexed'.tree = indexed.tree /\ indexed'.pc = "walk" /\ indexed'.open = opened
       /\ indexed'.files = files /\ indexed'.at = 1
       /\ indexed'.symbols = indexed.symbols /\ indexed'.edges = indexed.edges
  BY <1>2, <1>12 DEF IndexFields
<1>14. IndexTypeOK'
  BY <1>2, <1>9, <1>11, <1>13 DEF IndexTypeOK
<1>15. \A e : Wanted(e)' <=> Wanted(e)
  BY <1>13 DEF Wanted
<1>16. ASSUME NEW e \in indexed.tree, Wanted(e), ~(\E k \in 1 .. Len(files) : files[k] = e) PROVE Awaited(e)'
  <2>1. Awaited(e)
    BY <1>11, <1>16 DEF IndexInv, Walked
  <2>2. PICK k \in 1 .. last : \E d \in indexed.open[k] : d = e \/ Leads(d, e)
    BY <1>1, <2>1 DEF Awaited
  <2>3. PICK d \in indexed.open[k] : d = e \/ Leads(d, e)
    BY <2>2
  <2>4. \A o : Leads(o, e)' <=> Leads(o, e)
    BY DEF Leads
  <2>5. CASE d # entry \/ k # last
    <3>1. d \in opened[k] /\ k \in 1 .. Len(opened)
      BY <1>3, <1>9, <2>5
    <3> QED BY <1>13, <2>3, <2>4, <3>1 DEF Awaited
  <2>6. CASE d = entry /\ k = last
    <3>1. Leads(entry, e)
      BY <1>11, <1>16, <2>3, <2>6
    <3>2. PICK j \in 1 .. Len(e.dir) : Indexing!Opens(entry) /\ entry.dir = SubSeq(e.dir, 1, j - 1) /\ entry.name = e.dir[j]
      BY <3>1 DEF Leads
    <3>3. e.dir \in Seq(Names) /\ Len(e.dir) \in Nat /\ DOMAIN e.dir = 1 .. Len(e.dir)
      BY <1>2, LenProperties DEF Grown, EntryKnown
    <3>4. SubSeq(e.dir, 1, j) = Append(entry.dir, entry.name)
      BY <3>2, <3>3, DirectoryOpens
    <3>5. opened[last + 1] = within /\ last + 1 \in 1 .. Len(opened)
      BY <1>3, <1>9, <3>2
    <3>6. CASE j = Len(e.dir)
      <4>1. e \in within
        BY <1>5, <3>3, <3>4, <3>6, SubSeqFull
      <4> QED BY <1>13, <3>5, <4>1 DEF Awaited
    <3>7. CASE j # Len(e.dir)
      <4>1. j + 1 \in DOMAIN e.dir /\ (j + 1) - 1 = j
        BY <3>3, <3>7
      <4>2. PICK o \in indexed.tree : Indexing!Opens(o) /\ o.dir = SubSeq(e.dir, 1, (j + 1) - 1) /\ o.name = e.dir[j + 1]
        BY <1>16, <4>1 DEF Wanted, Indexing!Reached
      <4>3. o \in within /\ Leads(o, e)
        BY <1>5, <3>3, <3>4, <4>1, <4>2 DEF Leads
      <4> QED BY <1>13, <2>4, <3>5, <4>3 DEF Awaited
    <3> QED BY <3>6, <3>7
  <2> QED BY <2>5, <2>6
<1>17. ASSUME NEW k \in 1 .. Len(opened), NEW e \in opened[k] PROVE Indexing!Reached(indexed.tree, e)
  <2>1. CASE k \in 1 .. last
    BY <1>1, <1>3, <1>9, <2>1 DEF IndexInv, Walked
  <2>2. CASE k = last + 1
    <3>1. Indexing!Opens(entry) /\ e \in within
      BY <1>3, <1>9, <2>2
    <3> QED BY <1>3, <1>4, <1>5, <3>1, InsideReached DEF EntryKnown
  <2> QED BY <1>3, <1>9, <2>1, <2>2
<1>18. Walked'
  BY <1>11, <1>13, <1>15, <1>16, <1>17 DEF Walked
<1>19. Extracted'
  <2>1. indexed.symbols = {} /\ indexed.edges = {}
    BY <1>2, NothingExtracted DEF IndexInv, Extracted
  <2>2. SymbolsTo(0)' = {} /\ EdgesTo(0)' = {}
    BY DEF SymbolsTo, EdgesTo, ParsedTo
  <2> QED BY <1>13, <2>1, <2>2 DEF Extracted
<1> QED BY <1>14, <1>18, <1>19 DEF IndexInv

LEMMA IndexLeave == IndexInv /\ Indexing!Leave => IndexInv'
<1> SUFFICES ASSUME IndexInv, Indexing!Leave PROVE IndexInv'
  OBVIOUS
<1>1. PICK last : last = Len(indexed.open)
  OBVIOUS
<1>2. /\ DOMAIN indexed = IndexFields /\ indexed.pc = "walk" /\ indexed.open # <<>> /\ indexed.open[last] = {}
      /\ indexed.open \in Seq(SUBSET indexed.tree) /\ last \in Nat \ {0}
  BY <1>1, LenProperties, EmptySeq DEF IndexInv, IndexTypeOK, Indexing!Leave, Indexing!Last
<1>3. PICK front : front = SubSeq(indexed.open, 1, last - 1)
  OBVIOUS
<1>4. /\ front \in Seq(SUBSET indexed.tree) /\ Len(front) = last - 1 /\ \A k \in 1 .. last - 1 : front[k] = indexed.open[k]
      /\ last = 1 => front = <<>>
  <2>1. \A i \in 1 .. last - 1 : indexed.open[i] \in SUBSET indexed.tree
    BY <1>1, <1>2, ElementOfSeq
  <2>2. PICK n \in Nat : n = last - 1
    BY <1>2
  <2>3. /\ SubSeq(indexed.open, 1, n) \in Seq(SUBSET indexed.tree)
        /\ Len(SubSeq(indexed.open, 1, n)) = n
        /\ \A i \in 1 .. n : SubSeq(indexed.open, 1, n)[i] = indexed.open[i]
    <3>1. PICK S : S = SUBSET indexed.tree
      OBVIOUS
    <3>2. PICK q : q = indexed.open
      OBVIOUS
    <3>3. q \in Seq(S) /\ \A i \in 1 .. n : q[i] \in S
      BY <1>2, <2>1, <2>2, <3>1, <3>2
    <3>4. /\ SubSeq(q, 1, n) \in Seq(S) /\ Len(SubSeq(q, 1, n)) = n
          /\ \A i \in 1 .. n : SubSeq(q, 1, n)[i] = q[i]
      BY <3>3, FirstPart
    <3> QED BY <3>1, <3>2, <3>4
  <2>4. last = 1 => SubSeq(indexed.open, 1, n) = <<>>
    BY <2>2, SubSeqEmpty
  <2>5. Len(front) = n /\ \A i \in 1 .. n : front[i] = indexed.open[i]
    BY <1>3, <2>2, <2>3
  <2> QED BY <1>3, <2>2, <2>3, <2>4, <2>5
<1>5. indexed' = [indexed EXCEPT !.open = front, !.pc = IF last = 1 THEN "extract" ELSE "walk"]
  BY <1>1, <1>2, <1>3 DEF Indexing!Leave, Indexing!Front
<1>6. /\ DOMAIN indexed' = IndexFields /\ indexed'.tree = indexed.tree /\ indexed'.open = front
      /\ indexed'.pc = (IF last = 1 THEN "extract" ELSE "walk") /\ indexed'.files = indexed.files /\ indexed'.at = indexed.at
      /\ indexed'.symbols = indexed.symbols /\ indexed'.edges = indexed.edges
  BY <1>2, <1>5 DEF IndexFields
<1>7. IndexTypeOK'
  BY <1>4, <1>6 DEF IndexInv, IndexTypeOK
<1>8. \A e : (Wanted(e)' <=> Wanted(e)) /\ \A d : Leads(d, e)' <=> Leads(d, e)
  BY <1>6 DEF Wanted, Leads
<1>9. ASSUME NEW e, Awaited(e) PROVE Awaited(e)'
  <2>1. PICK k \in 1 .. last : \E d \in indexed.open[k] : d = e \/ Leads(d, e)
    BY <1>1, <1>9 DEF Awaited
  <2>2. k \in 1 .. last - 1
    BY <1>2, <2>1
  <2> QED BY <1>4, <1>6, <1>8, <2>1, <2>2 DEF Awaited
<1>10. \A k \in 1 .. Len(front) : \A e \in front[k] : Indexing!Reached(indexed.tree, e)
  BY <1>1, <1>2, <1>4 DEF IndexInv, Walked
<1>11. Walked'
  BY <1>4, <1>6, <1>8, <1>9, <1>10 DEF IndexInv, Walked
<1>12. Extracted'
  <2>1. \A n : SymbolsTo(n)' = SymbolsTo(n) /\ EdgesTo(n)' = EdgesTo(n)
    BY <1>6 DEF SymbolsTo, EdgesTo, ParsedTo, Indexing!Paths
  <2> QED BY <1>2, <1>6, <2>1 DEF IndexInv, Extracted
<1> QED BY <1>7, <1>11, <1>12 DEF IndexInv

LEMMA OneMoreParsed ==
  ASSUME NEW n \in Nat
  PROVE  LET entry == indexed.files[n + 1]
             declared == {Indexing!SymbolNode(Indexing!PathOf(entry), i) :
                            i \in {j \in DOMAIN entry.code : Indexing!Declares(entry.code[j])}}
         IN IF Indexing!Parsed(entry)
            THEN /\ EdgesTo(n + 1) = EdgesTo(n) \cup Indexing!EdgesOf(Indexing!Paths, entry)
                 /\ SymbolsTo(n + 1) = SymbolsTo(n) \cup declared
            ELSE EdgesTo(n + 1) = EdgesTo(n) /\ SymbolsTo(n + 1) = SymbolsTo(n)
<1>1. ParsedTo(n + 1) = IF Indexing!Parsed(indexed.files[n + 1]) THEN ParsedTo(n) \cup {n + 1} ELSE ParsedTo(n)
  BY DEF ParsedTo
<1>2. CASE Indexing!Parsed(indexed.files[n + 1])
  <2>1. EdgesTo(n + 1) = EdgesTo(n) \cup Indexing!EdgesOf(Indexing!Paths, indexed.files[n + 1])
    BY <1>1, <1>2 DEF EdgesTo
  <2>2. SymbolsTo(n + 1) = SymbolsTo(n) \cup {Indexing!SymbolNode(Indexing!PathOf(indexed.files[n + 1]), i) :
            i \in {j \in DOMAIN indexed.files[n + 1].code : Indexing!Declares(indexed.files[n + 1].code[j])}}
    BY <1>1, <1>2 DEF SymbolsTo
  <2> QED BY <1>2, <2>1, <2>2
<1>3. CASE ~Indexing!Parsed(indexed.files[n + 1])
  BY <1>1, <1>3 DEF EdgesTo, SymbolsTo
<1> QED BY <1>2, <1>3

\* a step of the extraction leaves the walk as it was
LEMMA WalkEnded ==
  ASSUME IndexInv, indexed.pc = "extract", DOMAIN indexed' = IndexFields, indexed'.pc \in {"extract", "done", "failed"},
         indexed'.tree = indexed.tree, indexed'.open = indexed.open, indexed'.files = indexed.files,
         indexed'.at \in Nat \ {0}, indexed'.at <= Len(indexed.files) + 1
  PROVE  /\ IndexTypeOK' /\ Walked' /\ Indexing!Paths' = Indexing!Paths
         /\ \A n : SymbolsTo(n)' = SymbolsTo(n) /\ EdgesTo(n)' = EdgesTo(n)
<1>1. IndexTypeOK'
  BY DEF IndexInv, IndexTypeOK
<1>2. \A e : (Wanted(e)' <=> Wanted(e)) /\ (Awaited(e)' <=> Awaited(e))
  BY DEF Wanted, Awaited, Leads
<1>3. Walked'
  BY <1>2 DEF IndexInv, Walked
<1>4. \A n : SymbolsTo(n)' = SymbolsTo(n) /\ EdgesTo(n)' = EdgesTo(n)
  BY DEF SymbolsTo, EdgesTo, ParsedTo, Indexing!Paths
<1> QED BY <1>1, <1>3, <1>4 DEF Indexing!Paths

LEMMA IndexExtract == IndexInv /\ Indexing!Extract => IndexInv'
<1> SUFFICES ASSUME IndexInv, Indexing!Extract PROVE IndexInv'
  OBVIOUS
<1>1. PICK entry : entry = indexed.files[indexed.at]
  OBVIOUS
<1>2. PICK declared : declared = {Indexing!SymbolNode(Indexing!PathOf(entry), i) :
                                    i \in {j \in DOMAIN entry.code : Indexing!Declares(entry.code[j])}}
  OBVIOUS
<1>3. PICK linked : linked = Indexing!EdgesOf(Indexing!Paths, entry)
  OBVIOUS
<1>4. /\ DOMAIN indexed = IndexFields /\ indexed.pc = "extract" /\ indexed.at <= Len(indexed.files)
      /\ indexed.at \in Nat \ {0} /\ Len(indexed.files) \in Nat
      /\ indexed.symbols = SymbolsTo(indexed.at - 1) /\ indexed.edges = EdgesTo(indexed.at - 1)
  BY LenProperties DEF IndexInv, IndexTypeOK, Extracted, Indexing!Extract
<1>5. PICK n \in Nat : indexed.at = n + 1 /\ indexed.at - 1 = n
  BY <1>4
<1>6. CASE ~Indexing!Parsed(entry)
  <2>1. indexed' = [indexed EXCEPT !.at = @ + 1]
    BY <1>1, <1>6 DEF Indexing!Extract
  <2>2. /\ DOMAIN indexed' = IndexFields /\ indexed'.tree = indexed.tree /\ indexed'.open = indexed.open
        /\ indexed'.files = indexed.files /\ indexed'.pc = "extract" /\ indexed'.at = n + 2 /\ indexed'.at - 1 = n + 1
        /\ indexed'.symbols = indexed.symbols /\ indexed'.edges = indexed.edges
    BY <1>4, <1>5, <2>1 DEF IndexFields
  <2>3. IndexTypeOK' /\ Walked' /\ \A k : SymbolsTo(k)' = SymbolsTo(k) /\ EdgesTo(k)' = EdgesTo(k)
    BY <1>4, <1>5, <2>2, WalkEnded
  <2>4. EdgesTo(n + 1) = EdgesTo(n) /\ SymbolsTo(n + 1) = SymbolsTo(n)
    BY <1>1, <1>5, <1>6, OneMoreParsed
  <2>5. Extracted'
    BY <1>4, <1>5, <2>2, <2>3, <2>4 DEF Extracted
  <2> QED BY <2>3, <2>5 DEF IndexInv
<1>7. CASE Indexing!Parsed(entry) /\ entry.access = "denied"
  <2>1. indexed' = [indexed EXCEPT !.pc = "failed"]
    BY <1>1, <1>7 DEF Indexing!Extract
  <2>2. /\ DOMAIN indexed' = IndexFields /\ indexed'.tree = indexed.tree /\ indexed'.open = indexed.open
        /\ indexed'.files = indexed.files /\ indexed'.pc = "failed" /\ indexed'.at = indexed.at
        /\ indexed'.symbols = indexed.symbols /\ indexed'.edges = indexed.edges
    BY <1>4, <2>1 DEF IndexFields
  <2>3. IndexTypeOK' /\ Walked' /\ \A k : SymbolsTo(k)' = SymbolsTo(k) /\ EdgesTo(k)' = EdgesTo(k)
    BY <1>4, <2>2, WalkEnded
  <2>4. Extracted'
    BY <1>4, <2>2, <2>3 DEF Extracted
  <2> QED BY <2>3, <2>4 DEF IndexInv
<1>8. CASE Indexing!Parsed(entry) /\ entry.access # "denied"
  <2>1. indexed' = [indexed EXCEPT !.at = @ + 1, !.symbols = @ \cup declared, !.edges = @ \cup linked]
    BY <1>1, <1>2, <1>3, <1>8 DEF Indexing!Extract
  <2>2. /\ DOMAIN indexed' = IndexFields /\ indexed'.tree = indexed.tree /\ indexed'.open = indexed.open
        /\ indexed'.files = indexed.files /\ indexed'.pc = "extract" /\ indexed'.at = n + 2 /\ indexed'.at - 1 = n + 1
        /\ indexed'.symbols = indexed.symbols \cup declared /\ indexed'.edges = indexed.edges \cup linked
    BY <1>4, <1>5, <2>1 DEF IndexFields
  <2>3. IndexTypeOK' /\ Walked' /\ \A k : SymbolsTo(k)' = SymbolsTo(k) /\ EdgesTo(k)' = EdgesTo(k)
    BY <1>4, <1>5, <2>2, WalkEnded
  <2>4. EdgesTo(n + 1) = EdgesTo(n) \cup linked /\ SymbolsTo(n + 1) = SymbolsTo(n) \cup declared
    BY <1>1, <1>2, <1>3, <1>5, <1>8, OneMoreParsed
  <2>5. Extracted'
    BY <1>4, <1>5, <2>2, <2>3, <2>4 DEF Extracted
  <2> QED BY <2>3, <2>5 DEF IndexInv
<1> QED BY <1>6, <1>7, <1>8

LEMMA IndexLink == IndexInv /\ Indexing!Link => IndexInv'
<1> SUFFICES ASSUME IndexInv, Indexing!Link PROVE IndexInv'
  OBVIOUS
<1>1. /\ DOMAIN indexed = IndexFields /\ indexed.pc = "extract" /\ indexed.at = Len(indexed.files) + 1
      /\ indexed.at \in Nat \ {0} /\ Len(indexed.files) \in Nat /\ indexed.at - 1 = Len(indexed.files)
      /\ indexed.symbols = SymbolsTo(indexed.at - 1) /\ indexed.edges = EdgesTo(indexed.at - 1)
  BY LenProperties DEF IndexInv, IndexTypeOK, Extracted, Indexing!Link
<1>2. PICK tests : tests = Indexing!TestEdges(indexed.files)
  OBVIOUS
<1>3. indexed' = [indexed EXCEPT !.pc = "done", !.edges = @ \cup tests]
  BY <1>2 DEF Indexing!Link
<1>4. /\ DOMAIN indexed' = IndexFields /\ indexed'.tree = indexed.tree /\ indexed'.open = indexed.open
      /\ indexed'.files = indexed.files /\ indexed'.pc = "done" /\ indexed'.at = indexed.at
      /\ indexed'.symbols = indexed.symbols /\ indexed'.edges = indexed.edges \cup tests
  BY <1>1, <1>3 DEF IndexFields
<1>5. IndexTypeOK' /\ Walked' /\ \A n : SymbolsTo(n)' = SymbolsTo(n) /\ EdgesTo(n)' = EdgesTo(n)
  BY <1>1, <1>4, WalkEnded
<1>6. Extracted'
  BY <1>1, <1>2, <1>4, <1>5 DEF Extracted
<1> QED BY <1>5, <1>6 DEF IndexInv

LEMMA IndexNext == IndexInv /\ Indexing!Next => IndexInv'
BY IndexVisit, IndexLeave, IndexExtract, IndexLink DEF Indexing!Next

LEMMA IndexUnchanged == IndexInv /\ UNCHANGED indexed => IndexInv'
<1> SUFFICES ASSUME IndexInv, indexed' = indexed PROVE IndexInv'
  OBVIOUS
<1>1. IndexTypeOK'
  BY DEF IndexInv, IndexTypeOK
<1>2. \A e : (Wanted(e)' <=> Wanted(e)) /\ (Awaited(e)' <=> Awaited(e))
  BY DEF Wanted, Awaited, Leads
<1>3. Walked'
  BY <1>2 DEF IndexInv, Walked
<1>4. \A n : SymbolsTo(n)' = SymbolsTo(n) /\ EdgesTo(n)' = EdgesTo(n)
  BY DEF SymbolsTo, EdgesTo, ParsedTo, Indexing!Paths
<1>5. Extracted'
  BY <1>4 DEF IndexInv, Extracted
<1> QED BY <1>1, <1>3, <1>5 DEF IndexInv
\* ------------------------------------------------------------ what an import means
LEMMA LeastHit ==
  ASSUME NEW S \in SUBSET Nat, S # {}
  PROVE  Indexing!Min(S) \in S /\ \A y \in S : Indexing!Min(S) <= y
<1>1. \E x \in S : \A y \in S : x <= y
  BY LeastElement
<1> QED BY <1>1 DEF Indexing!Min

LEMMA LastFile ==
  ASSUME NEW n \in Nat, NEW S \in SUBSET (1 .. n), S # {}
  PROVE  Indexing!Max(S) \in S
<1>1. S \in SUBSET Int /\ IsFiniteSet(S)
  <2>1. 1 \in Int /\ n \in Int
    OBVIOUS
  <2>2. IsFiniteSet(1 .. n)
    BY <2>1, FS_Interval
  <2>3. IsFiniteSet(S)
    BY <2>2, FS_Subset
  <2> QED BY <2>3
<1>2. \E x \in S : \A y \in S : x >= y
  BY <1>1, MaxExists
<1> QED BY <1>2 DEF Indexing!Max

\* a name of more than one part is its front and its extension
LEMMA NameSplits ==
  ASSUME NEW name \in Names, Len(name) > 1
  PROVE  /\ Indexing!Front(name) \in Names /\ Indexing!Extension(name) \in Words
         /\ Indexing!Front(name) # <<>> /\ name = Append(Indexing!Front(name), Indexing!Extension(name))
<1>1. PICK n \in Nat : Len(name) = n + 1 /\ n > 0
  <2>1. Len(name) \in Nat
    BY LenProperties DEF Names
  <2>2. Len(name) - 1 \in Nat /\ Len(name) = (Len(name) - 1) + 1 /\ Len(name) - 1 > 0
    BY <2>1
  <2> QED BY <2>2
<1>2. PICK last : last = name[n + 1]
  OBVIOUS
<1>3. /\ name \in Seq(Words) /\ last \in Words /\ \A i \in 1 .. n : name[i] \in Words
      /\ DOMAIN name = 1 .. n + 1
  BY <1>1, <1>2, ElementOfSeq, LenProperties DEF Names
<1>4. PICK front : front = SubSeq(name, 1, n)
  OBVIOUS
<1>5. front \in Seq(Words) /\ Len(front) = n /\ \A i \in 1 .. n : front[i] = name[i]
  BY <1>3, <1>4, FirstPart
<1>6. PICK whole : whole = Append(front, last)
  OBVIOUS
<1>7. /\ whole \in Seq(Words) /\ Len(whole) = n + 1 /\ \A i \in 1 .. n : whole[i] = front[i]
      /\ whole[n + 1] = last
  BY <1>3, <1>5, <1>6, OneMore
<1>8. name = whole
  <2>1. \A i \in 1 .. n + 1 : name[i] = whole[i]
    BY <1>2, <1>5, <1>7
  <2> QED BY <1>1, <1>3, <1>7, <2>1, SeqEqual
<1>9. Indexing!Front(name) = front
  BY <1>1, <1>4 DEF Indexing!Front
<1>10. Indexing!Extension(name) = last
  BY <1>1, <1>2 DEF Indexing!Extension, Indexing!Last
<1>11. front # <<>>
  BY <1>1, <1>5
<1> QED BY <1>3, <1>5, <1>6, <1>8, <1>9, <1>10, <1>11 DEF Names

LEMMA NameGrows ==
  ASSUME NEW name \in Names, name # <<>>, NEW ext \in Words
  PROVE  /\ Append(name, ext) \in Names /\ Indexing!Front(Append(name, ext)) = name
         /\ Indexing!Extension(Append(name, ext)) = ext
<1>1. PICK n \in Nat : Len(name) = n /\ n > 0
  BY LenProperties, EmptySeq DEF Names
<1>2. PICK whole : whole = Append(name, ext)
  OBVIOUS
<1>3. name \in Seq(Words) /\ DOMAIN name = 1 .. n
  BY <1>1, LenProperties DEF Names
<1>4. /\ whole \in Seq(Words) /\ Len(whole) = n + 1 /\ \A i \in 1 .. n : whole[i] = name[i]
      /\ whole[n + 1] = ext
  BY <1>1, <1>2, <1>3, OneMore
<1>5. PICK front : front = SubSeq(whole, 1, n)
  OBVIOUS
<1>6. front \in Seq(Words) /\ Len(front) = n /\ \A i \in 1 .. n : front[i] = whole[i]
  <2>1. \A i \in 1 .. n : whole[i] \in Words
    BY <1>4, ElementOfSeq
  <2> QED BY <1>4, <1>5, <2>1, FirstPart
<1>7. front = name
  <2>1. \A i \in 1 .. n : front[i] = name[i]
    BY <1>4, <1>6
  <2> QED BY <1>1, <1>3, <1>6, <2>1, SeqEqual
<1>8. Indexing!Front(whole) = front
  BY <1>4, <1>5 DEF Indexing!Front
<1>9. Indexing!Extension(whole) = ext
  <2>1. Len(whole) > 1 /\ whole[Len(whole)] = ext
    BY <1>1, <1>4
  <2> QED BY <2>1 DEF Indexing!Extension, Indexing!Last
<1> QED BY <1>2, <1>4, <1>7, <1>8, <1>9 DEF Names

LEMMA SourcesKnown ==
  /\ Indexing!Sources \in Seq(Words) /\ Len(Indexing!Sources) = 6 /\ DOMAIN Indexing!Sources = 1 .. 6
  /\ \A w : w \in Indexing!ToSet(Indexing!Sources) <=> \E k \in 1 .. 6 : Indexing!Sources[k] = w
  /\ "" \notin Indexing!ToSet(Indexing!Sources)
<1>1. PICK s : s = <<".ts", ".tsx", ".js", ".jsx", ".mjs", ".cjs">>
  OBVIOUS
<1>2. s \in Seq(Words) /\ Len(s) = 6 /\ DOMAIN s = 1 .. 6
  BY <1>1 DEF Words
<1>3. \A k \in 1 .. 6 : s[k] # ""
  <2>1. s[1] # "" /\ s[2] # "" /\ s[3] # "" /\ s[4] # "" /\ s[5] # "" /\ s[6] # ""
    BY <1>1
  <2>2. \A k \in 1 .. 6 : k = 1 \/ k = 2 \/ k = 3 \/ k = 4 \/ k = 5 \/ k = 6
    OBVIOUS
  <2> QED BY <2>1, <2>2
<1>4. s = Indexing!Sources
  BY <1>1 DEF Indexing!Sources
<1>5. \A w : w \in Indexing!ToSet(s) <=> \E k \in 1 .. 6 : s[k] = w
  BY <1>2 DEF Indexing!ToSet
<1> QED BY <1>2, <1>3, <1>4, <1>5

LEMMA Joined ==
  ASSUME NEW S, NEW a \in Seq(S), NEW b \in Seq(S), NEW m \in Nat, NEW n \in Nat, Len(a) = m, Len(b) = n
  PROVE  /\ a \o b \in Seq(S) /\ Len(a \o b) = m + n
         /\ \A i \in 1 .. m : (a \o b)[i] = a[i]
         /\ \A i \in 1 .. n : (a \o b)[i + m] = b[i]
<1>1. /\ a \o b \in Seq(S) /\ Len(a \o b) = m + n
      /\ \A i \in 1 .. m + n : (a \o b)[i] = IF i <= m THEN a[i] ELSE b[i - m]
  BY ConcatProperties
<1>2. ASSUME NEW i \in 1 .. n PROVE (a \o b)[i + m] = b[i]
  <2>1. i + m \in 1 .. m + n /\ ~ (i + m <= m) /\ (i + m) - m = i
    OBVIOUS
  <2> QED BY <1>1, <2>1
<1> QED BY <1>1, <1>2

\* the spellings that are tried, one by one
LEMMA SpellingsKnown ==
  ASSUME NEW base \in Places, base.name # <<>>, NEW stem, stem = Indexing!Stem(base)
  PROVE  /\ DOMAIN Indexing!Spellings(base) = 1 .. 15
         /\ Indexing!Spellings(base)[1] = base
         /\ \A k \in 1 .. 6 :
               /\ Indexing!Spellings(base)[k + 1] = Indexing!WithExtension(base, stem, Indexing!Sources[k])
               /\ Indexing!Spellings(base)[k + 7] = Indexing!WithExtension(base, base.name, Indexing!Sources[k])
         /\ Indexing!Spellings(base)[14] = Indexing!Path(Append(base.dir, base.name), <<"index", ".ts">>)
         /\ Indexing!Spellings(base)[15] = Indexing!Path(Append(base.dir, base.name), <<"index", ".js">>)
<1>0. PICK first : first = <<base>>
  OBVIOUS
<1>1. PICK named : named = [k \in DOMAIN Indexing!Sources |-> Indexing!WithExtension(base, stem, Indexing!Sources[k])]
  OBVIOUS
<1>2. PICK longer : longer = [k \in DOMAIN Indexing!Sources |-> Indexing!WithExtension(base, base.name, Indexing!Sources[k])]
  OBVIOUS
<1>3. PICK indexes : indexes = <<Indexing!Path(Append(base.dir, base.name), <<"index", ".ts">>),
                                 Indexing!Path(Append(base.dir, base.name), <<"index", ".js">>)>>
  OBVIOUS
<1>4. PICK S : S = {base} \cup {named[k] : k \in 1 .. 6} \cup {longer[k] : k \in 1 .. 6} \cup {indexes[1], indexes[2]}
  OBVIOUS
<1>5. DOMAIN named = 1 .. 6 /\ DOMAIN longer = 1 .. 6
  BY <1>1, <1>2, SourcesKnown
<1>6. /\ first \in Seq(S) /\ Len(first) = 1 /\ first[1] = base
      /\ indexes \in Seq(S) /\ Len(indexes) = 2
  BY <1>0, <1>3, <1>4
<1>7. named \in Seq(S) /\ Len(named) = 6 /\ longer \in Seq(S) /\ Len(longer) = 6
  <2>1. named = [k \in 1 .. 6 |-> named[k]] /\ longer = [k \in 1 .. 6 |-> longer[k]]
    BY <1>1, <1>2, <1>5
  <2>2. \A k \in 1 .. 6 : named[k] \in S /\ longer[k] \in S
    BY <1>4
  <2>3. ASSUME NEW f, f = [k \in 1 .. 6 |-> f[k]], \A k \in 1 .. 6 : f[k] \in S PROVE f \in Seq(S) /\ Len(f) = 6
    <3>1. f \in [1 .. 6 -> S] /\ 6 \in Nat
      BY <2>3
    <3>2. f \in Seq(S)
      BY <3>1, SeqDef
    <3> QED BY <3>1, <3>2, LenProperties
  <2> QED BY <2>1, <2>2, <2>3
<1>8. PICK one : one = first \o named
  OBVIOUS
<1>9. /\ one \in Seq(S) /\ Len(one) = 7 /\ one[1] = base /\ \A k \in 1 .. 6 : one[k + 1] = named[k]
  <2>1. /\ one \in Seq(S) /\ Len(one) = 1 + 6 /\ \A i \in 1 .. 1 : one[i] = first[i]
        /\ \A i \in 1 .. 6 : one[i + 1] = named[i]
    <3>1. PICK m \in Nat : m = 1
      OBVIOUS
    <3>2. PICK n \in Nat : n = 6
      OBVIOUS
    <3>3. first \in Seq(S) /\ named \in Seq(S) /\ Len(first) = m /\ Len(named) = n
      BY <1>6, <1>7, <3>1, <3>2
    <3>4. /\ first \o named \in Seq(S) /\ Len(first \o named) = m + n
          /\ \A i \in 1 .. m : (first \o named)[i] = first[i]
      BY <3>3, Joined
    <3>5. \A i \in 1 .. n : (first \o named)[i + m] = named[i]
      BY <3>3, Joined
    <3> QED BY <3>1, <3>2, <3>4, <3>5, <1>8
  <2> QED BY <1>6, <2>1
<1>10. PICK two : two = one \o longer
  OBVIOUS
<1>11. /\ two \in Seq(S) /\ Len(two) = 13 /\ \A k \in 1 .. 7 : two[k] = one[k]
       /\ \A k \in 1 .. 6 : two[k + 7] = longer[k]
  <2>1. /\ two \in Seq(S) /\ Len(two) = 7 + 6 /\ \A i \in 1 .. 7 : two[i] = one[i]
        /\ \A i \in 1 .. 6 : two[i + 7] = longer[i]
    <3>1. PICK m \in Nat : m = 7
      OBVIOUS
    <3>2. PICK n \in Nat : n = 6
      OBVIOUS
    <3>3. one \in Seq(S) /\ longer \in Seq(S) /\ Len(one) = m /\ Len(longer) = n
      BY <1>7, <1>9, <3>1, <3>2
    <3>4. /\ one \o longer \in Seq(S) /\ Len(one \o longer) = m + n
          /\ \A i \in 1 .. m : (one \o longer)[i] = one[i]
      BY <3>3, Joined
    <3>5. \A i \in 1 .. n : (one \o longer)[i + m] = longer[i]
      BY <3>3, Joined
    <3> QED BY <3>1, <3>2, <3>4, <3>5, <1>10
  <2> QED BY <2>1
<1>12. PICK all : all = two \o indexes
  OBVIOUS
<1>13. /\ DOMAIN all = 1 .. 15 /\ \A k \in 1 .. 13 : all[k] = two[k]
       /\ all[14] = indexes[1] /\ all[15] = indexes[2]
  <2>1. /\ all \in Seq(S) /\ Len(all) = 13 + 2 /\ \A i \in 1 .. 13 : all[i] = two[i]
        /\ \A i \in 1 .. 2 : all[i + 13] = indexes[i]
    <3>1. PICK m \in Nat : m = 13
      OBVIOUS
    <3>2. PICK n \in Nat : n = 2
      OBVIOUS
    <3>3. two \in Seq(S) /\ indexes \in Seq(S) /\ Len(two) = m /\ Len(indexes) = n
      BY <1>6, <1>11, <3>1, <3>2
    <3>4. /\ two \o indexes \in Seq(S) /\ Len(two \o indexes) = m + n
          /\ \A i \in 1 .. m : (two \o indexes)[i] = two[i]
      BY <3>3, Joined
    <3>5. \A i \in 1 .. n : (two \o indexes)[i + m] = indexes[i]
      BY <3>3, Joined
    <3> QED BY <3>1, <3>2, <3>4, <3>5, <1>12
  <2>2. DOMAIN all = 1 .. 15 /\ all[1 + 13] = indexes[1] /\ all[2 + 13] = indexes[2]
    BY <2>1, LenProperties
  <2> QED BY <2>1, <2>2
<1>14. all = Indexing!Spellings(base)
  BY <1>0, <1>1, <1>2, <1>3, <1>8, <1>10, <1>12 DEF Indexing!Spellings
<1>15. all[1] = base /\ \A k \in 1 .. 6 : all[k + 1] = named[k] /\ all[k + 7] = longer[k]
  BY <1>9, <1>11, <1>13
<1> QED BY <1>1, <1>2, <1>3, <1>5, <1>13, <1>14, <1>15

LEMMA StemKnown ==
  ASSUME NEW base \in Places, base.name # <<>>, NEW stem, stem = Indexing!Stem(base)
  PROVE  /\ stem \in Names /\ stem # <<>>
         /\ IF Indexing!Extension(base.name) \in Indexing!ToSet(Indexing!Sources)
            THEN stem = Indexing!Front(base.name) ELSE stem = base.name
<1>1. base.name \in Names
  BY DEF Places
<1>2. CASE Indexing!Extension(base.name) \in Indexing!ToSet(Indexing!Sources)
  <2>1. Len(base.name) > 1
    BY <1>2, SourcesKnown DEF Indexing!Extension
  <2>2. Indexing!Front(base.name) \in Names /\ Indexing!Front(base.name) # <<>>
    BY <1>1, <2>1, NameSplits
  <2> QED BY <1>2, <2>2 DEF Indexing!Stem
<1>3. CASE ~(Indexing!Extension(base.name) \in Indexing!ToSet(Indexing!Sources))
  BY <1>1, <1>3 DEF Indexing!Stem
<1> QED BY <1>2, <1>3

\* a path with an extension is the path without it, and the extension
LEMMA PathsSplit ==
  ASSUME NEW base \in Places, NEW name \in Names, name # <<>>, NEW p \in Places
  PROVE  (\E k \in 1 .. 6 : p = Indexing!WithExtension(base, name, Indexing!Sources[k]))
         <=> /\ p.dir = base.dir /\ Indexing!Extension(p.name) \in Indexing!ToSet(Indexing!Sources)
             /\ Indexing!Front(p.name) = name
<1>1. /\ p = [dir |-> p.dir, name |-> p.name] /\ p.name \in Names
      /\ \A k \in 1 .. 6 : Indexing!Sources[k] \in Words
  BY SourcesKnown, ElementOfSeq DEF Places
<1>2. ASSUME NEW k \in 1 .. 6, p = Indexing!WithExtension(base, name, Indexing!Sources[k])
      PROVE  /\ p.dir = base.dir /\ Indexing!Extension(p.name) \in Indexing!ToSet(Indexing!Sources)
             /\ Indexing!Front(p.name) = name
  <2>1. p.dir = base.dir /\ p.name = Append(name, Indexing!Sources[k])
    BY <1>2 DEF Indexing!WithExtension, Indexing!Path
  <2>2. Indexing!Front(p.name) = name /\ Indexing!Extension(p.name) = Indexing!Sources[k]
    BY <1>1, <2>1, NameGrows
  <2> QED BY <2>1, <2>2, SourcesKnown
<1>3. ASSUME p.dir = base.dir, Indexing!Extension(p.name) \in Indexing!ToSet(Indexing!Sources), Indexing!Front(p.name) = name
      PROVE  \E k \in 1 .. 6 : p = Indexing!WithExtension(base, name, Indexing!Sources[k])
  <2>1. PICK k \in 1 .. 6 : Indexing!Sources[k] = Indexing!Extension(p.name)
    BY <1>3, SourcesKnown
  <2>2. Len(p.name) > 1
    BY <1>3, SourcesKnown DEF Indexing!Extension
  <2>3. p.name = Append(name, Indexing!Sources[k])
    BY <1>1, <1>3, <2>1, <2>2, NameSplits
  <2> QED BY <1>1, <1>3, <2>3 DEF Indexing!WithExtension, Indexing!Path
<1> QED BY <1>2, <1>3

LEMMA SpelledIsMeant ==
  ASSUME NEW base \in Places, base.name # <<>>, NEW p \in Places
  PROVE  (\E k \in 1 .. 15 : Indexing!Spellings(base)[k] = p) <=> Indexing!Meant(p, base)
<1>1. PICK stem : stem = Indexing!Stem(base)
  OBVIOUS
<1>2. PICK all : all = Indexing!Spellings(base)
  OBVIOUS
<1>3. PICK ts : ts = Indexing!Path(Append(base.dir, base.name), <<"index", ".ts">>)
  OBVIOUS
<1>4. PICK js : js = Indexing!Path(Append(base.dir, base.name), <<"index", ".js">>)
  OBVIOUS
<1>5. /\ all[1] = base /\ all[14] = ts /\ all[15] = js
      /\ \A k \in 1 .. 6 : /\ all[k + 1] = Indexing!WithExtension(base, stem, Indexing!Sources[k])
                           /\ all[k + 7] = Indexing!WithExtension(base, base.name, Indexing!Sources[k])
  BY <1>1, <1>2, <1>3, <1>4, SpellingsKnown
<1>6. (\E k \in 1 .. 15 : all[k] = p)
      <=> \/ p = base \/ p = ts \/ p = js
          \/ \E k \in 1 .. 6 : p = Indexing!WithExtension(base, stem, Indexing!Sources[k])
          \/ \E k \in 1 .. 6 : p = Indexing!WithExtension(base, base.name, Indexing!Sources[k])
  <2>1. ASSUME NEW k \in 1 .. 15, all[k] = p
        PROVE  \/ p = base \/ p = ts \/ p = js
               \/ \E j \in 1 .. 6 : p = Indexing!WithExtension(base, stem, Indexing!Sources[j])
               \/ \E j \in 1 .. 6 : p = Indexing!WithExtension(base, base.name, Indexing!Sources[j])
    <3>1. CASE k \in 2 .. 7
      <4>1. k - 1 \in 1 .. 6 /\ (k - 1) + 1 = k
        BY <3>1
      <4> QED BY <1>5, <2>1, <4>1
    <3>2. CASE k \in 8 .. 13
      <4>1. k - 7 \in 1 .. 6 /\ (k - 7) + 7 = k
        BY <3>2
      <4> QED BY <1>5, <2>1, <4>1
    <3>3. CASE k \in {1, 14, 15}
      BY <1>5, <2>1, <3>3
    <3> QED BY <3>1, <3>2, <3>3
  <2>2. ASSUME NEW j \in 1 .. 6 PROVE j + 1 \in 1 .. 15 /\ j + 7 \in 1 .. 15
    OBVIOUS
  <2> QED BY <1>5, <2>1, <2>2
<1>7. /\ stem \in Names /\ stem # <<>> /\ base.name \in Names
      /\ IF Indexing!Extension(base.name) \in Indexing!ToSet(Indexing!Sources)
         THEN stem = Indexing!Front(base.name) ELSE stem = base.name
  BY <1>1, StemKnown DEF Places
<1>8. /\ (\E k \in 1 .. 6 : p = Indexing!WithExtension(base, stem, Indexing!Sources[k]))
         <=> /\ p.dir = base.dir /\ Indexing!Extension(p.name) \in Indexing!ToSet(Indexing!Sources)
             /\ Indexing!Front(p.name) = stem
      /\ (\E k \in 1 .. 6 : p = Indexing!WithExtension(base, base.name, Indexing!Sources[k]))
         <=> /\ p.dir = base.dir /\ Indexing!Extension(p.name) \in Indexing!ToSet(Indexing!Sources)
             /\ Indexing!Front(p.name) = base.name
  BY <1>7, PathsSplit
<1>9. p = ts \/ p = js <=> p.dir = Append(base.dir, base.name) /\ p.name \in {<<"index", ".ts">>, <<"index", ".js">>}
  <2>1. p = [dir |-> p.dir, name |-> p.name]
    BY DEF Places
  <2> QED BY <1>3, <1>4, <2>1 DEF Indexing!Path
<1> QED BY <1>2, <1>6, <1>7, <1>8, <1>9 DEF Indexing!Meant

\* An import stands for a file of the project that may be meant, for the one it spells if there
\* is one, and for none only if there is none.
LEMMA ImportsResolve ==
  ASSUME NEW paths \in SUBSET Places, NEW base \in Places, base.name # <<>>
  PROVE  /\ \A p \in Indexing!Resolved(paths, base) : p \in paths /\ Indexing!Meant(p, base)
         /\ (\E p \in paths : Indexing!Meant(p, base)) => Indexing!Resolved(paths, base) # {}
         /\ base \in paths => base \in Indexing!Resolved(paths, base)
<1>1. PICK all : all = Indexing!Spellings(base)
  OBVIOUS
<1>2. PICK hits \in SUBSET Nat : hits = {k \in 1 .. 15 : all[k] \in paths}
  <2>1. {k \in 1 .. 15 : all[k] \in paths} \in SUBSET Nat
    OBVIOUS
  <2> QED BY <2>1
<1>3. DOMAIN all = 1 .. 15 /\ all[1] = base
  BY <1>1, SpellingsKnown
<1>4. Indexing!Resolved(paths, base) = IF hits = {} THEN {} ELSE {all[Indexing!Min(hits)]}
  BY <1>1, <1>2, <1>3 DEF Indexing!Resolved
<1>5. \A p \in paths : (\E k \in 1 .. 15 : all[k] = p) <=> Indexing!Meant(p, base)
  BY <1>1, SpelledIsMeant
<1>6. CASE hits = {}
  BY <1>2, <1>3, <1>4, <1>5, <1>6
<1>7. CASE hits # {}
  <2>1. PICK k : k = Indexing!Min(hits)
    OBVIOUS
  <2>2. k \in hits /\ \A y \in hits : k <= y
    BY <1>7, <2>1, LeastHit
  <2>3. Indexing!Resolved(paths, base) = {all[k]} /\ all[k] \in paths /\ k \in 1 .. 15
    BY <1>2, <1>4, <1>7, <2>1, <2>2
  <2>4. base \in paths => k = 1
    <3>1. base \in paths => 1 \in hits
      BY <1>2, <1>3
    <3> QED BY <1>2, <2>2, <3>1
  <2> QED BY <1>3, <1>5, <2>3, <2>4
<1> QED BY <1>6, <1>7

\* ------------------------------------------------------------------ the graph
LEMMA NodesApart ==
  /\ \A p, q : Indexing!FileNode(p) = Indexing!FileNode(q) => p = q
  /\ \A p, x : Indexing!FileNode(p) # Indexing!PackageNode(x)
  /\ \A x : Indexing!PackageNode(x)[1] = "package"
BY DEF Indexing!FileNode, Indexing!PackageNode

LEMMA EdgesApart ==
  \A r, f, t, s, g, u : Indexing!Edge(r, f, t) = Indexing!Edge(s, g, u) => r = s /\ f = g /\ t = u
BY DEF Indexing!Edge

LEMMA EdgesToAre ==
  \A n, e : e \in EdgesTo(n) <=> \E k \in 1 .. n : /\ Indexing!Parsed(indexed.files[k])
                                                   /\ e \in Indexing!EdgesOf(Indexing!Paths, indexed.files[k])
BY DEF EdgesTo, ParsedTo

LEMMA SymbolsToAre ==
  \A n : \A k \in 1 .. n : \A i \in DOMAIN indexed.files[k].code :
     Indexing!Parsed(indexed.files[k]) /\ Indexing!Declares(indexed.files[k].code[i])
     => Indexing!SymbolNode(Indexing!PathOf(indexed.files[k]), i) \in SymbolsTo(n)
BY DEF SymbolsTo, ParsedTo

\* the edges of a file, by their relation
LEMMA EdgesOfAre ==
  ASSUME NEW paths, NEW entry, NEW e
  PROVE  e \in Indexing!EdgesOf(paths, entry) <=>
           \/ \E k \in DOMAIN entry.code :
                 /\ Indexing!Declares(entry.code[k])
                 /\ \/ e = Indexing!Edge("CONTAINS", Indexing!FileNode(Indexing!PathOf(entry)),
                                         Indexing!SymbolNode(Indexing!PathOf(entry), k))
                    \/ /\ Indexing!Exported(entry.code[k])
                       /\ e = Indexing!Edge("EXPORTS", Indexing!FileNode(Indexing!PathOf(entry)),
                                            Indexing!SymbolNode(Indexing!PathOf(entry), k))
           \/ \E k \in DOMAIN entry.code :
                 /\ ~Indexing!Declares(entry.code[k])
                 /\ \E target \in Indexing!Targets(paths, entry.code[k]) :
                       e = Indexing!Edge(IF entry.code[k].kind = "import" THEN "IMPORTS" ELSE "EXPORTS",
                                         Indexing!FileNode(Indexing!PathOf(entry)), target)
BY DEF Indexing!EdgesOf

LEMMA ImportEdges ==
  ASSUME NEW paths, NEW entry, NEW f, NEW t
  PROVE  Indexing!Edge("IMPORTS", f, t) \in Indexing!EdgesOf(paths, entry) <=>
           /\ f = Indexing!FileNode(Indexing!PathOf(entry))
           /\ \E k \in DOMAIN entry.code : entry.code[k].kind = "import" /\ t \in Indexing!Targets(paths, entry.code[k])
<1>1. \A k : entry.code[k].kind = "import" => ~Indexing!Declares(entry.code[k])
  BY DEF Indexing!Declares
<1>2. "IMPORTS" # "CONTAINS" /\ "IMPORTS" # "EXPORTS"
  OBVIOUS
<1>3. ASSUME Indexing!Edge("IMPORTS", f, t) \in Indexing!EdgesOf(paths, entry)
      PROVE  /\ f = Indexing!FileNode(Indexing!PathOf(entry))
             /\ \E k \in DOMAIN entry.code : entry.code[k].kind = "import" /\ t \in Indexing!Targets(paths, entry.code[k])
  <2>1. PICK k \in DOMAIN entry.code :
           \/ \E r, u : r # "IMPORTS" /\ Indexing!Edge("IMPORTS", f, t) = Indexing!Edge(r, Indexing!FileNode(Indexing!PathOf(entry)), u)
           \/ \E target \in Indexing!Targets(paths, entry.code[k]) :
                 Indexing!Edge("IMPORTS", f, t)
                 = Indexing!Edge(IF entry.code[k].kind = "import" THEN "IMPORTS" ELSE "EXPORTS",
                                 Indexing!FileNode(Indexing!PathOf(entry)), target)
    BY <1>2, <1>3, EdgesOfAre
  <2>2. ~ (\E r, u : r # "IMPORTS" /\ Indexing!Edge("IMPORTS", f, t) = Indexing!Edge(r, Indexing!FileNode(Indexing!PathOf(entry)), u))
    BY EdgesApart
  <2>3. PICK target \in Indexing!Targets(paths, entry.code[k]) :
                 Indexing!Edge("IMPORTS", f, t)
                 = Indexing!Edge(IF entry.code[k].kind = "import" THEN "IMPORTS" ELSE "EXPORTS",
                                 Indexing!FileNode(Indexing!PathOf(entry)), target)
    BY <2>1, <2>2
  <2> QED BY <1>2, <2>3, EdgesApart
<1>4. ASSUME f = Indexing!FileNode(Indexing!PathOf(entry)), NEW k \in DOMAIN entry.code,
             entry.code[k].kind = "import", t \in Indexing!Targets(paths, entry.code[k])
      PROVE  Indexing!Edge("IMPORTS", f, t) \in Indexing!EdgesOf(paths, entry)
  BY <1>1, <1>4, EdgesOfAre
<1> QED BY <1>3, <1>4

LEMMA NoTestEdges ==
  ASSUME NEW paths, NEW entry, NEW f, NEW t
  PROVE  Indexing!Edge("TESTS", f, t) \notin Indexing!EdgesOf(paths, entry)
<1>1. "TESTS" # "CONTAINS" /\ "TESTS" # "EXPORTS" /\ "TESTS" # "IMPORTS"
  OBVIOUS
<1> QED BY <1>1, EdgesOfAre, EdgesApart

LEMMA TestEdgesAre ==
  ASSUME NEW files, NEW e
  PROVE  e \in Indexing!TestEdges(files) <=>
           \E k \in DOMAIN files :
              /\ Indexing!IsTest(files[k].name)
              /\ Indexing!NamedAs(files, Indexing!Tested(files[k].name)) # {}
              /\ e = Indexing!Edge("TESTS", Indexing!FileNode(Indexing!PathOf(files[k])),
                        Indexing!FileNode(Indexing!PathOf(
                            files[Indexing!Max(Indexing!NamedAs(files, Indexing!Tested(files[k].name)))])))
BY DEF Indexing!TestEdges

\* the files of an index: each has a path of its own, and what it imports has a name
LEMMA IndexedKnown ==
  ASSUME IndexInv
  PROVE  /\ Len(indexed.files) \in Nat /\ DOMAIN indexed.files = 1 .. Len(indexed.files)
         /\ \A k \in 1 .. Len(indexed.files) : indexed.files[k] \in indexed.tree /\ EntryKnown(indexed.files[k])
         /\ Indexing!Paths \in SUBSET Places
         /\ \A p : p \in Indexing!Paths <=> \E k \in 1 .. Len(indexed.files) : p = Indexing!PathOf(indexed.files[k])
         /\ \A j, k \in 1 .. Len(indexed.files) :
               Indexing!PathOf(indexed.files[j]) = Indexing!PathOf(indexed.files[k]) => indexed.files[j] = indexed.files[k]
<1>0. indexed.files \in Seq(indexed.tree)
  BY DEF IndexInv, IndexTypeOK
<1>1. PICK n \in Nat : n = Len(indexed.files) /\ DOMAIN indexed.files = 1 .. n
  <2>1. Len(indexed.files) \in Nat /\ DOMAIN indexed.files = 1 .. Len(indexed.files)
    BY <1>0, LenProperties
  <2> QED BY <2>1
<1>2. \A k \in 1 .. n : indexed.files[k] \in indexed.tree
  BY <1>0, <1>1, ElementOfSeq
<1>3. Grown(indexed.tree)
  BY DEF IndexInv, IndexTypeOK
<1>4. \A k \in 1 .. n : EntryKnown(indexed.files[k])
  BY <1>2, <1>3 DEF Grown
<1>5. \A p : p \in Indexing!Paths <=> \E k \in 1 .. n : p = Indexing!PathOf(indexed.files[k])
  BY <1>1 DEF Indexing!Paths
<1>6. \A x : EntryKnown(x) => Indexing!PathOf(x) \in Places
  BY DEF EntryKnown, Places, Indexing!PathOf, Indexing!Path
<1>7. Indexing!Paths \in SUBSET Places
  BY <1>4, <1>5, <1>6
<1>8. \A x, y : Indexing!PathOf(x) = Indexing!PathOf(y) => x.dir = y.dir /\ x.name = y.name
  BY DEF Indexing!PathOf, Indexing!Path
<1>9. \A j, k \in 1 .. n : Indexing!PathOf(indexed.files[j]) = Indexing!PathOf(indexed.files[k])
                             => indexed.files[j] = indexed.files[k]
  BY <1>2, <1>3, <1>8 DEF Grown
<1> QED BY <1>1, <1>2, <1>4, <1>5, <1>7, <1>9

LEMMA WalkedAll ==
  ASSUME IndexInv, indexed.pc = "done"
  PROVE  Indexing!Paths = {Indexing!PathOf(e) : e \in {f \in indexed.tree :
            Indexing!Included(f) /\ f.access # "gone" /\ Indexing!Reached(indexed.tree, f)}}
<1>1. indexed.open = <<>> /\ Len(indexed.open) = 0
  BY DEF IndexInv, Walked
<1>2. \A e : ~Awaited(e)
  BY <1>1 DEF Awaited
<1>3. \A e \in indexed.tree : Wanted(e) <=> \E k \in 1 .. Len(indexed.files) : indexed.files[k] = e
  BY <1>2 DEF IndexInv, Walked
<1>4. \A k \in 1 .. Len(indexed.files) : indexed.files[k] \in indexed.tree
  BY IndexedKnown
<1>5. \A p : p \in Indexing!Paths <=> \E e \in indexed.tree : Wanted(e) /\ p = Indexing!PathOf(e)
  BY <1>3, <1>4, IndexedKnown
<1> QED BY <1>5 DEF Wanted

LEMMA ImportTargets ==
  ASSUME NEW paths, NEW d, NEW p
  PROVE  Indexing!FileNode(p) \in Indexing!Targets(paths, d) <=> d.relative /\ p \in Indexing!Resolved(paths, d.to)
<1>1. CASE d.relative
  <2>1. Indexing!Targets(paths, d) = {Indexing!FileNode(q) : q \in Indexing!Resolved(paths, d.to)}
    BY <1>1 DEF Indexing!Targets
  <2> QED BY <1>1, <2>1, NodesApart
<1>2. CASE ~d.relative
  <2>1. Indexing!Targets(paths, d) = {Indexing!PackageNode(d.to)}
    BY <1>2 DEF Indexing!Targets
  <2> QED BY <1>2, <2>1, NodesApart
<1> QED BY <1>1, <1>2

LEMMA ImportsAre ==
  ASSUME NEW entry, NEW d
  PROVE  d \in Indexing!Imports(entry)
         <=> d.kind = "import" /\ d.relative /\ \E k \in DOMAIN entry.code : d = entry.code[k]
BY DEF Indexing!Imports, Indexing!ToSet

\* a file is linked to what its own imports stand for, and to nothing else
LEMMA LinkedExactly ==
  ASSUME IndexInv, indexed.pc = "done", NEW k \in 1 .. Len(indexed.files), NEW p
  PROVE  Indexing!Edge("IMPORTS", Indexing!FileNode(Indexing!PathOf(indexed.files[k])), Indexing!FileNode(p)) \in indexed.edges
         <=> /\ Indexing!Parsed(indexed.files[k])
             /\ \E d \in Indexing!Imports(indexed.files[k]) : p \in Indexing!Resolved(Indexing!Paths, d.to)
<1>1. PICK entry : entry = indexed.files[k]
  OBVIOUS
<1>2. PICK f : f = Indexing!FileNode(Indexing!PathOf(entry))
  OBVIOUS
<1>3. PICK e : e = Indexing!Edge("IMPORTS", f, Indexing!FileNode(p))
  OBVIOUS
<1>4. indexed.edges = EdgesTo(Len(indexed.files)) \cup Indexing!TestEdges(indexed.files)
  BY DEF IndexInv, Extracted
<1>5. e \notin Indexing!TestEdges(indexed.files)
  <2>1. "IMPORTS" # "TESTS"
    OBVIOUS
  <2> QED BY <1>3, <2>1, TestEdgesAre, EdgesApart
<1>6. e \in EdgesTo(Len(indexed.files))
      <=> \E j \in 1 .. Len(indexed.files) : /\ Indexing!Parsed(indexed.files[j])
                                             /\ e \in Indexing!EdgesOf(Indexing!Paths, indexed.files[j])
  BY EdgesToAre
<1>7. \A j \in 1 .. Len(indexed.files) :
         e \in Indexing!EdgesOf(Indexing!Paths, indexed.files[j])
         <=> /\ f = Indexing!FileNode(Indexing!PathOf(indexed.files[j]))
             /\ \E i \in DOMAIN indexed.files[j].code :
                   /\ indexed.files[j].code[i].kind = "import"
                   /\ Indexing!FileNode(p) \in Indexing!Targets(Indexing!Paths, indexed.files[j].code[i])
  BY <1>3, ImportEdges
<1>8. \A j \in 1 .. Len(indexed.files) : f = Indexing!FileNode(Indexing!PathOf(indexed.files[j])) => indexed.files[j] = entry
  BY <1>1, <1>2, IndexedKnown, NodesApart
<1>9. (\E i \in DOMAIN entry.code : /\ entry.code[i].kind = "import"
                                    /\ Indexing!FileNode(p) \in Indexing!Targets(Indexing!Paths, entry.code[i]))
      <=> \E d \in Indexing!Imports(entry) : p \in Indexing!Resolved(Indexing!Paths, d.to)
  BY ImportTargets, ImportsAre
<1>10. e \in EdgesTo(Len(indexed.files))
       <=> /\ Indexing!Parsed(entry)
           /\ \E d \in Indexing!Imports(entry) : p \in Indexing!Resolved(Indexing!Paths, d.to)
  BY <1>1, <1>2, <1>6, <1>7, <1>8, <1>9
<1> QED BY <1>1, <1>2, <1>3, <1>4, <1>5, <1>10

\* a test is tied to the last file of the name it tests, if there is one
LEMMA TestsExactly ==
  ASSUME IndexInv, indexed.pc = "done", NEW k \in 1 .. Len(indexed.files), NEW p, NEW N,
         Indexing!IsTest(indexed.files[k].name), N = Indexing!NamedAs(indexed.files, Indexing!Tested(indexed.files[k].name))
  PROVE  Indexing!Edge("TESTS", Indexing!FileNode(Indexing!PathOf(indexed.files[k])), Indexing!FileNode(p)) \in indexed.edges
         <=> N # {} /\ p = Indexing!PathOf(indexed.files[Indexing!Max(N)])
<1>1. PICK entry : entry = indexed.files[k]
  OBVIOUS
<1>2. PICK f : f = Indexing!FileNode(Indexing!PathOf(entry))
  OBVIOUS
<1>3. PICK e : e = Indexing!Edge("TESTS", f, Indexing!FileNode(p))
  OBVIOUS
<1>4. indexed.edges = EdgesTo(Len(indexed.files)) \cup Indexing!TestEdges(indexed.files)
  BY DEF IndexInv, Extracted
<1>5. e \notin EdgesTo(Len(indexed.files))
  BY <1>3, EdgesToAre, NoTestEdges
<1>6. DOMAIN indexed.files = 1 .. Len(indexed.files)
  BY IndexedKnown
<1>7. ASSUME N # {}, p = Indexing!PathOf(indexed.files[Indexing!Max(N)]) PROVE e \in Indexing!TestEdges(indexed.files)
  BY <1>1, <1>2, <1>3, <1>6, <1>7, TestEdgesAre
<1>8. ASSUME e \in Indexing!TestEdges(indexed.files) PROVE N # {} /\ p = Indexing!PathOf(indexed.files[Indexing!Max(N)])
  <2>1. PICK j \in 1 .. Len(indexed.files) :
           /\ Indexing!NamedAs(indexed.files, Indexing!Tested(indexed.files[j].name)) # {}
           /\ e = Indexing!Edge("TESTS", Indexing!FileNode(Indexing!PathOf(indexed.files[j])),
                     Indexing!FileNode(Indexing!PathOf(
                        indexed.files[Indexing!Max(Indexing!NamedAs(indexed.files, Indexing!Tested(indexed.files[j].name)))])))
    BY <1>6, <1>8, TestEdgesAre
  <2>2. f = Indexing!FileNode(Indexing!PathOf(indexed.files[j]))
    BY <1>3, <2>1, EdgesApart
  <2>3. indexed.files[j] = entry
    <3>1. Indexing!PathOf(indexed.files[j]) = Indexing!PathOf(indexed.files[k])
      BY <1>1, <1>2, <2>2, NodesApart
    <3> QED BY <1>1, <3>1, IndexedKnown
  <2>4. N = Indexing!NamedAs(indexed.files, Indexing!Tested(indexed.files[j].name))
    BY <1>1, <2>3
  <2>5. Indexing!FileNode(p) = Indexing!FileNode(Indexing!PathOf(indexed.files[Indexing!Max(N)]))
    BY <1>3, <2>1, <2>4, EdgesApart
  <2> QED BY <2>1, <2>4, <2>5, NodesApart
<1> QED BY <1>1, <1>2, <1>3, <1>4, <1>5, <1>7, <1>8

LEMMA IndexingCardinality == ASSUME NEW S PROVE Indexing!Cardinality(S) = Cardinality(S)
BY DEF Indexing!Cardinality, Cardinality

LEMMA AtMostOne ==
  ASSUME NEW c \in Nat
  PROVE  Indexing!Min({1, c}) = IF c = 0 THEN 0 ELSE 1
<1>1. {1, c} \in SUBSET Nat /\ {1, c} # {}
  OBVIOUS
<1>2. PICK m : m = Indexing!Min({1, c})
  OBVIOUS
<1>3. m \in {1, c} /\ \A y \in {1, c} : m <= y
  BY <1>1, <1>2, LeastHit
<1> QED BY <1>2, <1>3

\* a test is tied to one file of the name it tests, and to none only if there is none
LEMMA TestsFollow ==
  ASSUME IndexInv, indexed.pc = "done", NEW entry \in Indexing!ToSet(indexed.files), Indexing!IsTest(entry.name),
         NEW tests, NEW named,
         tests = {p \in Indexing!Paths :
                    Indexing!Edge("TESTS", Indexing!FileNode(Indexing!PathOf(entry)), Indexing!FileNode(p)) \in indexed.edges},
         named = {p \in Indexing!Paths : p.name \notin {entry.name} /\ ~Indexing!IsTest(p.name)
                                         /\ Indexing!Basename(p.name) = Indexing!Tested(entry.name)}
  PROVE  tests \subseteq named /\ Indexing!Cardinality(tests) = Indexing!Min({1, Indexing!Cardinality(named)})
<1>1. PICK k \in 1 .. Len(indexed.files) : entry = indexed.files[k]
  BY IndexedKnown DEF Indexing!ToSet
<1>2. PICK N : N = Indexing!NamedAs(indexed.files, Indexing!Tested(entry.name))
  OBVIOUS
<1>3. \A i : i \in N <=> /\ i \in 1 .. Len(indexed.files) /\ ~Indexing!IsTest(indexed.files[i].name)
                         /\ Indexing!Basename(indexed.files[i].name) = Indexing!Tested(entry.name)
  BY <1>2, IndexedKnown DEF Indexing!NamedAs
<1>4. \A x : Indexing!PathOf(x).name = x.name
  BY DEF Indexing!PathOf, Indexing!Path
<1>5. \A p : p \in named <=> \E i \in N : p = Indexing!PathOf(indexed.files[i])
  <2>1. \A p : p \in named <=> /\ p \in Indexing!Paths /\ ~Indexing!IsTest(p.name)
                               /\ Indexing!Basename(p.name) = Indexing!Tested(entry.name)
    OBVIOUS
  <2> QED BY <1>3, <1>4, <2>1, IndexedKnown
<1>6. \A p : p \in tests <=> p \in Indexing!Paths /\ N # {} /\ p = Indexing!PathOf(indexed.files[Indexing!Max(N)])
  BY <1>1, <1>2, TestsExactly
<1>7. IsFiniteSet(named)
  <2>1. PICK n \in Nat : n = Len(indexed.files)
    BY IndexedKnown
  <2>2. IsFiniteSet(1 .. n)
    <3>1. 1 \in Int /\ n \in Int
      OBVIOUS
    <3> QED BY <3>1, FS_Interval
  <2>3. PICK f : f = [i \in 1 .. n |-> Indexing!PathOf(indexed.files[i])]
    OBVIOUS
  <2>4. N \in SUBSET (1 .. n)
    BY <1>3, <2>1
  <2>5. IsFiniteSet(N)
    BY <2>2, <2>4, FS_Subset
  <2>6. IsFiniteSet({f[i] : i \in N})
    BY <2>5, ImageFinite
  <2>7. named = {f[i] : i \in N}
    BY <1>5, <2>3, <2>4
  <2> QED BY <2>6, <2>7
<1>8. CASE N = {}
  <2>1. tests = {} /\ named = {}
    BY <1>5, <1>6, <1>8
  <2>2. Cardinality({}) = 0 /\ Indexing!Cardinality({}) = Cardinality({})
    BY FS_EmptySet, IndexingCardinality
  <2> QED BY <2>1, <2>2, AtMostOne
<1>9. CASE N # {}
  <2>1. PICK m : m = Indexing!Max(N)
    OBVIOUS
  <2>2. m \in N
    <3>1. PICK n \in Nat : n = Len(indexed.files)
      BY IndexedKnown
    <3>2. N \in SUBSET (1 .. n)
      BY <1>3, <3>1
    <3> QED BY <1>9, <2>1, <3>2, LastFile
  <2>3. PICK q : q = Indexing!PathOf(indexed.files[m])
    OBVIOUS
  <2>4. q \in Indexing!Paths /\ q \in named
    BY <1>3, <1>5, <2>2, <2>3, IndexedKnown
  <2>5. tests = {q}
    BY <1>6, <1>9, <2>1, <2>3, <2>4
  <2>6. Indexing!Cardinality(tests) = 1
    BY <2>5, FS_Singleton, IndexingCardinality
  <2>7. Indexing!Cardinality(named) \in Nat /\ Indexing!Cardinality(named) # 0
    <3>1. Cardinality(named) \in Nat
      BY <1>7, FS_CardinalityType
    <3>2. Cardinality(named) # 0
      BY <1>7, <2>4, FS_EmptySet
    <3> QED BY <3>1, <3>2, IndexingCardinality
  <2> QED BY <2>4, <2>5, <2>6, <2>7, AtMostOne
<1> QED BY <1>8, <1>9

\* an edge leads to a package, or to a symbol or a file of the index
LEMMA TargetsKnown ==
  ASSUME IndexInv, indexed.pc = "done", NEW e \in indexed.edges
  PROVE  \/ e.to[1] = "package" \/ e.to \in indexed.symbols \/ e.to \in {Indexing!FileNode(p) : p \in Indexing!Paths}
<1>1. PICK n \in Nat : n = Len(indexed.files) /\ n = indexed.at - 1
  BY IndexedKnown DEF IndexInv, Extracted
<1>2. indexed.symbols = SymbolsTo(n) /\ indexed.edges = EdgesTo(n) \cup Indexing!TestEdges(indexed.files)
  BY <1>1 DEF IndexInv, Extracted
<1>3. \A r, f, t : Indexing!Edge(r, f, t).to = t
  BY DEF Indexing!Edge
<1>4. ASSUME NEW k \in 1 .. n, Indexing!Parsed(indexed.files[k]), e \in Indexing!EdgesOf(Indexing!Paths, indexed.files[k])
      PROVE  \/ e.to[1] = "package" \/ e.to \in indexed.symbols \/ e.to \in {Indexing!FileNode(p) : p \in Indexing!Paths}
  <2>1. CASE \E i \in DOMAIN indexed.files[k].code :
                /\ Indexing!Declares(indexed.files[k].code[i])
                /\ \E r, f : e = Indexing!Edge(r, f, Indexing!SymbolNode(Indexing!PathOf(indexed.files[k]), i))
    BY <1>2, <1>3, <1>4, <2>1, SymbolsToAre
  <2>2. CASE \E i \in DOMAIN indexed.files[k].code :
                \E target \in Indexing!Targets(Indexing!Paths, indexed.files[k].code[i]) :
                   \E r, f : e = Indexing!Edge(r, f, target)
    <3>0. PICK i \in DOMAIN indexed.files[k].code :
             \E target \in Indexing!Targets(Indexing!Paths, indexed.files[k].code[i]) : \E r, f : e = Indexing!Edge(r, f, target)
      BY <2>2
    <3>1. PICK target \in Indexing!Targets(Indexing!Paths, indexed.files[k].code[i]) : e.to = target
      BY <1>3, <3>0
    <3>2. PICK d : d = indexed.files[k].code[i]
      OBVIOUS
    <3>3. DeclarationKnown(d)
      BY <1>1, <3>2, IndexedKnown DEF EntryKnown
    <3>4. CASE d.relative
      <4>1. PICK p \in Indexing!Resolved(Indexing!Paths, d.to) : target = Indexing!FileNode(p)
        BY <3>1, <3>2, <3>4 DEF Indexing!Targets
      <4>2. p \in Indexing!Paths
        BY <3>3, <3>4, <4>1, IndexedKnown, ImportsResolve DEF DeclarationKnown
      <4> QED BY <3>1, <4>1, <4>2
    <3>5. CASE ~d.relative
      <4>1. target = Indexing!PackageNode(d.to)
        BY <3>1, <3>2, <3>5 DEF Indexing!Targets
      <4> QED BY <3>1, <4>1, NodesApart
    <3> QED BY <3>4, <3>5
  <2> QED BY <1>4, <2>1, <2>2, EdgesOfAre
<1>5. ASSUME e \in Indexing!TestEdges(indexed.files) PROVE e.to \in {Indexing!FileNode(p) : p \in Indexing!Paths}
  <2>1. PICK N : N # {} /\ e.to = Indexing!FileNode(Indexing!PathOf(indexed.files[Indexing!Max(N)]))
                 /\ \E b : N = Indexing!NamedAs(indexed.files, b)
    BY <1>3, <1>5, TestEdgesAre
  <2>2. N \in SUBSET (1 .. n)
    BY <1>1, <2>1, IndexedKnown DEF Indexing!NamedAs
  <2>3. Indexing!Max(N) \in N
    BY <2>1, <2>2, LastFile
  <2> QED BY <1>1, <2>1, <2>2, <2>3, IndexedKnown
<1> QED BY <1>1, <1>2, <1>4, <1>5, EdgesToAre

LEMMA IndexFollows == IndexInv => Indexing!ImportsReachTheirFile
<1> SUFFICES ASSUME IndexInv, indexed.pc = "done" PROVE Indexing!ImportsReachTheirFile
  BY DEF Indexing!ImportsReachTheirFile
<1>1. Indexing!Paths = {Indexing!PathOf(e) : e \in {f \in indexed.tree :
         Indexing!Included(f) /\ f.access # "gone" /\ Indexing!Reached(indexed.tree, f)}}
  BY WalkedAll
<1>2. ASSUME NEW entry \in Indexing!ToSet(indexed.files), NEW d \in Indexing!Imports(entry)
      PROVE  d.to \in Places /\ d.to.name # <<>>
  <2>1. PICK k \in 1 .. Len(indexed.files) : entry = indexed.files[k]
    BY IndexedKnown DEF Indexing!ToSet
  <2>2. DeclarationKnown(d)
    BY <2>1, IndexedKnown, ImportsAre DEF EntryKnown
  <2> QED BY <2>2, ImportsAre DEF DeclarationKnown
<1>3. ASSUME NEW entry \in Indexing!ToSet(indexed.files), NEW p
      PROVE  Indexing!Edge("IMPORTS", Indexing!FileNode(Indexing!PathOf(entry)), Indexing!FileNode(p)) \in indexed.edges
             <=> /\ Indexing!Parsed(entry)
                 /\ \E d \in Indexing!Imports(entry) : p \in Indexing!Resolved(Indexing!Paths, d.to)
  <2>1. PICK k \in 1 .. Len(indexed.files) : entry = indexed.files[k]
    BY IndexedKnown DEF Indexing!ToSet
  <2> QED BY <2>1, LinkedExactly
<1>4. ASSUME NEW b \in Places, b.name # <<>>
      PROVE  /\ \A p \in Indexing!Resolved(Indexing!Paths, b) : p \in Indexing!Paths /\ Indexing!Meant(p, b)
             /\ (\E p \in Indexing!Paths : Indexing!Meant(p, b)) => \E p : p \in Indexing!Resolved(Indexing!Paths, b)
             /\ b \in Indexing!Paths => b \in Indexing!Resolved(Indexing!Paths, b)
  <2>1. Indexing!Paths \in SUBSET Places
    BY IndexedKnown
  <2>2. PICK paths : paths = Indexing!Paths
    OBVIOUS
  <2>3. /\ \A p \in Indexing!Resolved(paths, b) : p \in paths /\ Indexing!Meant(p, b)
        /\ (\E p \in paths : Indexing!Meant(p, b)) => Indexing!Resolved(paths, b) # {}
        /\ b \in paths => b \in Indexing!Resolved(paths, b)
    BY <1>4, <2>1, <2>2, ImportsResolve
  <2> QED BY <2>2, <2>3
<1>5. \A entry \in {e \in Indexing!ToSet(indexed.files) : Indexing!Parsed(e)} : \A d \in Indexing!Imports(entry) :
         /\ (\E p \in Indexing!Paths : Indexing!Meant(p, d.to))
            => \E p \in Indexing!Paths : /\ Indexing!Meant(p, d.to)
                  /\ Indexing!Edge("IMPORTS", Indexing!FileNode(Indexing!PathOf(entry)), Indexing!FileNode(p)) \in indexed.edges
         /\ d.to \in Indexing!Paths
            => Indexing!Edge("IMPORTS", Indexing!FileNode(Indexing!PathOf(entry)), Indexing!FileNode(d.to)) \in indexed.edges
  <2> SUFFICES ASSUME NEW entry \in Indexing!ToSet(indexed.files), Indexing!Parsed(entry), NEW d \in Indexing!Imports(entry)
               PROVE  /\ (\E p \in Indexing!Paths : Indexing!Meant(p, d.to))
                         => \E p \in Indexing!Paths : /\ Indexing!Meant(p, d.to)
                               /\ Indexing!Edge("IMPORTS", Indexing!FileNode(Indexing!PathOf(entry)), Indexing!FileNode(p)) \in indexed.edges
                      /\ d.to \in Indexing!Paths
                         => Indexing!Edge("IMPORTS", Indexing!FileNode(Indexing!PathOf(entry)), Indexing!FileNode(d.to)) \in indexed.edges
    OBVIOUS
  <2>1. \A p : p \in Indexing!Resolved(Indexing!Paths, d.to)
               => Indexing!Edge("IMPORTS", Indexing!FileNode(Indexing!PathOf(entry)), Indexing!FileNode(p)) \in indexed.edges
    BY <1>3
  <2> QED BY <1>2, <1>4, <2>1
<1>6. \A entry \in Indexing!ToSet(indexed.files) : \A p \in Indexing!Paths :
         Indexing!Edge("IMPORTS", Indexing!FileNode(Indexing!PathOf(entry)), Indexing!FileNode(p)) \in indexed.edges
         => \E d \in Indexing!Imports(entry) : Indexing!Meant(p, d.to)
  BY <1>2, <1>3, <1>4
<1>7. \A entry \in Indexing!ToSet(indexed.files) : Indexing!IsTest(entry.name) =>
         /\ {p \in Indexing!Paths :
               Indexing!Edge("TESTS", Indexing!FileNode(Indexing!PathOf(entry)), Indexing!FileNode(p)) \in indexed.edges}
            \subseteq {p \in Indexing!Paths : p.name \notin {entry.name} /\ ~Indexing!IsTest(p.name)
                                              /\ Indexing!Basename(p.name) = Indexing!Tested(entry.name)}
         /\ Indexing!Cardinality({p \in Indexing!Paths :
               Indexing!Edge("TESTS", Indexing!FileNode(Indexing!PathOf(entry)), Indexing!FileNode(p)) \in indexed.edges})
            = Indexing!Min({1, Indexing!Cardinality({p \in Indexing!Paths : p.name \notin {entry.name} /\ ~Indexing!IsTest(p.name)
                                                      /\ Indexing!Basename(p.name) = Indexing!Tested(entry.name)})})
  BY TestsFollow
<1>8. \A e \in indexed.edges :
         e.to[1] = "package" \/ e.to \in indexed.symbols \/ e.to \in {Indexing!FileNode(p) : p \in Indexing!Paths}
  BY TargetsKnown
<1> QED BY <1>1, <1>5, <1>6, <1>7, <1>8 DEF Indexing!ImportsReachTheirFile

\* The same of every tree whose entries have paths of their own, of any depth and with any
\* names, and in whatever order its directories are listed (discover-files.ts 53-85,
\* extract-symbols.ts 28-90, 169-181): the trees of the instance are only examples.
THEOREM AnyTreeIsIndexed ==
  (\E tree : Grown(tree) /\ indexed = Indexing!Start(tree)) /\ [][Indexing!Next]_indexed
  => []Indexing!ImportsReachTheirFile
<1>1. (\E tree : Grown(tree) /\ indexed = Indexing!Start(tree)) => IndexInv
  BY IndexStart
<1>2. IndexInv /\ [Indexing!Next]_indexed => IndexInv'
  BY IndexNext, IndexUnchanged
<1>3. IndexInv => Indexing!ImportsReachTheirFile
  BY IndexFollows
<1> QED BY <1>1, <1>2, <1>3, PTL
=============================================================================
