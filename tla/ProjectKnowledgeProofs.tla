------------------------ MODULE ProjectKnowledgeProofs ------------------------
(***************************************************************************)
(* Whatever the files, the history and the requests of a project, and      *)
(* however edits, git, failures, crashes and overlapping requests come     *)
(* between their steps: an undisturbed request leaves the memory equal to  *)
(* the project, no commit behind the cursor is missing or counted twice,   *)
(* provenance describes what is stored, and what was acknowledged stays.   *)
(***************************************************************************)
EXTENDS ProjectKnowledge, FiniteSetTheorems, WellFoundedInduction, TLAPS

\* ------------------------------------------------------------------- ancestry
LEMMA LeastElement ==
    ASSUME NEW S \in SUBSET Nat, S # {}
    PROVE  \E m \in S : \A n \in S : m <= n
<1>1. \E m \in S : \A n \in S : ~ (<<n, m>> \in OpToRel(<, Nat))
  BY NatLessThanWellFounded, WFMin
<1>2. \A m, n \in S : n < m => <<n, m>> \in OpToRel(<, Nat)
  BY DEF OpToRel
<1>3. \E m \in S : \A n \in S : ~ (n < m)
  BY <1>1, <1>2, Zenon
<1>. QED BY <1>3

\* The commits reachable from n, as the least set closed under parents that holds n.
Closed(A) == \A d \in A : Parents[d] \subseteq A
Reach(n) == {c \in Commits : \A A \in SUBSET Commits : n \in A /\ Closed(A) => c \in A}

LEMMA ReachUnfolds ==
    ASSUME NEW n \in Commits
    PROVE  Reach(n) = {n} \cup UNION {Reach(p) : p \in Parents[n]}
<1>. DEFINE R == {n} \cup UNION {Reach(p) : p \in Parents[n]}
<1>0. Parents[n] \subseteq Commits
  BY CommitsByDate
<1>1. R \subseteq Reach(n)
  <2>1. n \in Reach(n)
    BY DEF Reach
  <2>2. ASSUME NEW p \in Parents[n], NEW c \in Reach(p)
        PROVE  c \in Reach(n)
    BY DEF Reach, Closed
  <2>. QED BY <2>1, <2>2
<1>2. R \subseteq Commits
  BY DEF Reach
<1>3. ASSUME NEW d \in R, NEW q \in Parents[d]
      PROVE  q \in R
  <2>1. CASE d = n
    <3>1. q \in Reach(q)
      BY <1>0, <2>1 DEF Reach
    <3>. QED BY <3>1, <2>1
  <2>2. ASSUME NEW p \in Parents[n], d \in Reach(p)
        PROVE  q \in Reach(p)
    <3>1. d \in Commits /\ Parents[d] \subseteq Commits
      BY <2>2, CommitsByDate DEF Reach
    <3>. QED BY <2>2, <3>1 DEF Reach, Closed
  <2>. QED BY <2>1, <2>2
<1>4. Closed(R)
  BY <1>3 DEF Closed
<1>5. Reach(n) \subseteq R
  <2>1. n \in R
    OBVIOUS
  <2>. HIDE DEF R
  <2>. QED BY <1>2, <1>4, <2>1 DEF Reach
<1>. QED BY <1>1, <1>5

\* The recursive definition has a solution, so that it can be unfolded.
LEMMA Ancestry ==
    /\ Ancestors(None) = {}
    /\ \A c \in Commits : Ancestors(c) = {c} \cup UNION {Ancestors(p) : p \in Parents[c]}
<1>. DEFINE Fix(f) == f = [n \in Commits \cup {None} |->
                            IF n = None THEN {} ELSE {n} \cup UNION {f[p] : p \in Parents[n]}]
            upTo == CHOOSE f : Fix(f)
            g == [n \in Commits \cup {None} |-> IF n = None THEN {} ELSE Reach(n)]
<1>1. Fix(g)
  <2>1. ASSUME NEW n \in Commits
        PROVE  Reach(n) = {n} \cup UNION {g[p] : p \in Parents[n]}
    <3>1. \A p \in Parents[n] : g[p] = Reach(p)
      BY CommitsByDate
    <3>. HIDE DEF g
    <3>. QED BY <3>1, ReachUnfolds
  <2>. HIDE DEF g
  <2>2. g = [n \in Commits \cup {None} |->
              IF n = None THEN {} ELSE {n} \cup UNION {g[p] : p \in Parents[n]}]
    <3>1. g = [n \in Commits \cup {None} |-> IF n = None THEN {} ELSE Reach(n)]
      BY DEF g
    <3>. QED BY <3>1, <2>1
  <2>. QED BY <2>2
<1>2. Fix(upTo)
  <2>. HIDE DEF Fix
  <2>. QED BY <1>1
<1>3. \A c : Ancestors(c) = upTo[c]
  BY DEF Ancestors
<1>. HIDE DEF upTo
<1>. USE DEF Fix
<1>4. Ancestors(None) = {}
  BY <1>2, <1>3
<1>5. ASSUME NEW c \in Commits
      PROVE  Ancestors(c) = {c} \cup UNION {Ancestors(p) : p \in Parents[c]}
  <2>1. c # None
    BY CommitsByDate
  <2>2. upTo[c] = {c} \cup UNION {upTo[p] : p \in Parents[c]}
    BY <1>2, <2>1
  <2>3. \A p \in Parents[c] : Ancestors(p) = upTo[p]
    BY <1>3
  <2>. QED BY <2>2, <1>3, <2>3
<1>. QED BY <1>4, <1>5

\* Ancestors are commits, none younger than the commit, and their ancestors are its own.
Founded(c) ==
    /\ c \in Ancestors(c) /\ Ancestors(c) \subseteq Commits
    /\ \A a \in Ancestors(c) : a <= c /\ Ancestors(a) \subseteq Ancestors(c)

LEMMA AncestorsFounded ==
    ASSUME NEW c \in Commits
    PROVE  Founded(c)
<1>. DEFINE Bad == {d \in Commits : ~ Founded(d)}
<1>. SUFFICES ASSUME Bad # {} PROVE FALSE
  OBVIOUS
<1>1. PICK d \in Bad : \A e \in Bad : d <= e
  <2>1. Bad \in SUBSET Nat
    BY CommitsByDate
  <2>. HIDE DEF Bad
  <2>. QED BY <2>1, LeastElement
<1>2. \A p \in Parents[d] : p \in Commits /\ p < d /\ Founded(p)
  <2>1. \A p \in Parents[d] : p \in Commits /\ p < d
    BY CommitsByDate
  <2>2. \A p \in Parents[d] : p \in Nat /\ d \in Nat
    BY CommitsByDate
  <2>. QED BY <1>1, <2>1, <2>2
<1>3. Ancestors(d) = {d} \cup UNION {Ancestors(p) : p \in Parents[d]}
  BY Ancestry
<1>4. d \in Commits /\ d \in Nat
  BY CommitsByDate
<1>5. ASSUME NEW p \in Parents[d], NEW a \in Ancestors(p)
      PROVE  a \in Commits /\ a <= d /\ Ancestors(a) \subseteq Ancestors(p)
  <2>1. a \in Commits /\ a <= p /\ Ancestors(a) \subseteq Ancestors(p)
    BY <1>2 DEF Founded
  <2>2. a \in Nat /\ p \in Nat
    BY <1>2, <2>1, CommitsByDate
  <2>. QED BY <1>2, <1>4, <2>1, <2>2
<1>6. Founded(d)
  <2>1. d \in Ancestors(d) /\ Ancestors(d) \subseteq Commits
    BY <1>3, <1>4, <1>5
  <2>2. ASSUME NEW a \in Ancestors(d)
        PROVE  a <= d /\ Ancestors(a) \subseteq Ancestors(d)
    BY <1>3, <1>4, <1>5
  <2>. QED BY <2>1, <2>2 DEF Founded
<1>. QED BY <1>6

\* ---------------------------------------------------------------- the invariant
Files    == [Paths -> Contents \cup {Absent, Unreadable}]
Facts    == Paths \X Contents
Prov     == ProvFiles(Paths) \cup ProvFacts(Facts) \cup ProvCommits(Commits) \cup ProvCursor
            \cup {<<"tasks", n>> : n \in Notes}
Memories == [files : Files, facts : SUBSET Facts, counted : [Commits -> Nat],
             reverted : SUBSET Commits, cursor : Commits \cup {None},
             notes : SUBSET Notes, prov : SUBSET Prov]
Batch    == {"scan", "extract", "list", "read"}
Steps    == {"idle", "known", "head"} \cup Batch
Asking   == [pc : Steps, known : Files, seen : Files, cursor : Commits \cup {None},
             head : Commits \cup {None}, todo : SUBSET Commits, quiet : BOOLEAN]

Disturbances == [graph : BOOLEAN, missed : BOOLEAN, recounted : BOOLEAN, answered : BOOLEAN,
                 unread : BOOLEAN]

TypeOK ==
    /\ tree \in Files /\ head \in Commits /\ pruned \subseteq Commits
    /\ mem \in Memories /\ disk \in Memories /\ depth \in Nat /\ dirty \in BOOLEAN
    /\ req \in [Requests -> Asking] /\ safe \subseteq Notes
    /\ hurt \in Disturbances

\* The requests in a batch are as many as the memory counts, and outside any batch
\* nothing waits to be written.
Batched == {r \in Requests : req[r].pc \in Batch}
Flushed ==
    /\ depth = Cardinality(Batched)
    /\ ~dirty => disk = mem
    /\ depth = 0 => ~dirty
    /\ safe \subseteq disk.notes /\ disk.notes \subseteq mem.notes

\* What git has forgotten no branch can reach any more.
Repository ==
    /\ head \notin pruned
    /\ \A c \in Commits \ pruned : Ancestors(c) \cap pruned = {}

\* A request that lists or reads knows its HEAD, and one that reads has something to read.
Asked(r) ==
    /\ At(r, "list") \/ At(r, "read") => req[r].head \in Commits
    /\ At(r, "read") => req[r].todo # {}

\* What was ingested was ingested after what it reverts.
Linked(m) == \A c \in Ingested(m) : Reverts[c] # None => Reverts[c] \in m.reverted
Held(m)   == Ancestors(m.cursor) \subseteq Ingested(m) /\ Linked(m)

\* The commits a request still has to read are all that its HEAD needs, each after its ancestors.
Listed(r) ==
    /\ At(r, "head") \/ At(r, "list") => Ancestors(req[r].cursor) \subseteq Ingested(mem)
    /\ At(r, "list") => req[r].head \in Ancestors(head)
    /\ At(r, "read") =>
          /\ Ancestors(req[r].head) \subseteq Ingested(mem) \cup req[r].todo
          /\ \A c \in req[r].todo :
                Ancestors(c) \subseteq Ingested(mem) \cup {d \in req[r].todo : d <= c}
Complete == ~hurt.missed => Held(mem) /\ Held(disk) /\ \A r \in Requests : Listed(r)

\* A history without gaps or repetitions, up to a commit of the branch.
Tally(m, cs) == \A c \in Commits : m.counted[c] = IF c \in cs THEN 1 ELSE 0
Whole(m)     == m.cursor \in Ancestors(head) \cup {None} /\ Tally(m, Ancestors(m.cursor))

\* One request at a time goes from one such history to the next.
Advancing(r) ==
    /\ At(r, "head") \/ At(r, "list") => req[r].cursor = mem.cursor
    /\ At(r, "list") => req[r].head = head
    /\ At(r, "read") => /\ req[r].head \in Ancestors(head)
                        /\ req[r].todo \subseteq Ancestors(req[r].head)
                        /\ Tally(mem, Ancestors(req[r].head) \ req[r].todo)
Single == \A r, s \in Requests : Active(r) /\ Active(s) => r = s
Exact ==
    ~hurt.recounted =>
        /\ Single /\ Whole(disk)
        /\ (\A r \in Requests : ~At(r, "read")) => Whole(mem)
        /\ \A r \in Requests : Advancing(r)

\* An undisturbed request works alone, on files nobody else touches.
Steady(r) ==
    Active(r) /\ req[r].quiet =>
        /\ Alone(r)
        /\ At(r, "known") => req[r].known = mem.files
        /\ At(r, "scan") => mem.files = Empty.files
        /\ At(r, "extract") => /\ req[r].seen = tree /\ mem.files = tree
                               /\ ~hurt.graph => mem.facts = {}
        /\ At(r, "head") \/ At(r, "list") \/ At(r, "read") => mem.files = tree
        /\ At(r, "head") => req[r].cursor = mem.cursor
        /\ At(r, "list") \/ At(r, "read") => req[r].head = head
Mirrored ==
    ~hurt.graph /\ (\A r \in Requests : ~At(r, "extract")) => mem.facts = FactsOf(mem.files)
Answered ==
    hurt.answered => /\ \A r \in Requests : ~Active(r)
                     /\ mem.files = tree /\ (~hurt.unread => mem.cursor = head)
Current == Answered /\ Mirrored /\ \A r \in Requests : Steady(r)

IInv == /\ TypeOK /\ Flushed /\ ProvenanceExact /\ Repository
        /\ \A r \in Requests : Asked(r)
        /\ Complete /\ Exact /\ Current

\* ------------------------------------------------- what is written to the memory
\* The history of the memory: all but files, facts, notes and what describes them.
SameHistory(m, n) == n.counted = m.counted /\ n.reverted = m.reverted /\ n.cursor = m.cursor

LEMMA EmptyMemory == Empty \in Memories /\ Described(Empty)
<1>1. Empty \in Memories
  BY DEF Empty, Memories, Files
<1>2. Known(Empty) = {} /\ Ingested(Empty) = {}
  BY DEF Empty, Known, Ingested
<1>. QED BY <1>1, <1>2 DEF Described, Empty, ProvFiles, ProvFacts, ProvCommits

LEMMA WithFilesKeeps ==
    ASSUME NEW m \in Memories, NEW t \in Files, Described(m)
    PROVE  LET n == WithFiles(m, t)
           IN  /\ n \in Memories /\ Described(n) /\ SameHistory(m, n)
               /\ n.facts = m.facts /\ n.notes = m.notes
               /\ n.files = [p \in Paths |-> IF t[p] # Absent THEN t[p] ELSE m.files[p]]
<1>. DEFINE n == WithFiles(m, t)
            found == {p \in Paths : t[p] # Absent}
            files == [p \in Paths |-> IF p \in found THEN t[p] ELSE m.files[p]]
<1>1. files \in Files /\ ProvFiles(found) \subseteq Prov
  BY DEF Memories, Files, ProvFiles, Prov
<1>2. n = [m EXCEPT !.files = files, !.prov = @ \cup ProvFiles(found)]
  BY DEF WithFiles, Memories
<1>. HIDE DEF n, files
<1>3. /\ n \in Memories /\ SameHistory(m, n) /\ n.facts = m.facts /\ n.notes = m.notes
      /\ n.files = files /\ n.prov = m.prov \cup ProvFiles(found)
  BY <1>1, <1>2 DEF Memories, SameHistory
<1>4. Known(n) = Known(m) \cup found
  BY <1>3 DEF Known, files
<1>5. Described(n)
  BY <1>3, <1>4 DEF Described, SameHistory, Ingested, ProvFiles
<1>6. files = [p \in Paths |-> IF t[p] # Absent THEN t[p] ELSE m.files[p]]
  BY DEF files
<1>. QED BY <1>3, <1>5, <1>6 DEF n

LEMMA WithFactsKeeps ==
    ASSUME NEW m \in Memories, NEW fs \in SUBSET Facts, Described(m)
    PROVE  LET n == WithFacts(m, fs)
           IN  /\ n \in Memories /\ Described(n) /\ SameHistory(m, n)
               /\ n.facts = m.facts \cup fs /\ n.notes = m.notes /\ n.files = m.files
<1>. DEFINE n == WithFacts(m, fs)
<1>1. ProvFacts(fs) \subseteq Prov
  BY DEF ProvFacts, Prov
<1>2. /\ n \in Memories /\ SameHistory(m, n) /\ n.facts = m.facts \cup fs /\ n.notes = m.notes
      /\ n.files = m.files /\ n.prov = m.prov \cup ProvFacts(fs)
  BY <1>1 DEF WithFacts, Memories, SameHistory
<1>. HIDE DEF n
<1>3. Described(n)
  BY <1>2 DEF Described, SameHistory, Ingested, Known, ProvFacts
<1>. QED BY <1>2, <1>3 DEF n

LEMMA WithCursorKeeps ==
    ASSUME NEW m \in Memories, NEW c \in Commits, Described(m)
    PROVE  LET n == WithCursor(m, c)
           IN  /\ n \in Memories /\ Described(n)
               /\ n.counted = m.counted /\ n.reverted = m.reverted /\ n.cursor = c
               /\ n.facts = m.facts /\ n.notes = m.notes /\ n.files = m.files
<1>. DEFINE n == WithCursor(m, c)
<1>1. ProvCursor \subseteq Prov /\ c # None
  BY CommitsByDate DEF Prov
<1>2. /\ n \in Memories /\ n.counted = m.counted /\ n.reverted = m.reverted /\ n.cursor = c
      /\ n.facts = m.facts /\ n.notes = m.notes /\ n.files = m.files
      /\ n.prov = m.prov \cup ProvCursor
  BY <1>1 DEF WithCursor, Memories
<1>. HIDE DEF n
<1>3. Ingested(n) = Ingested(m) /\ Known(n) = Known(m)
  BY <1>2 DEF Ingested, Known
<1>4. Described(n)
  BY <1>1, <1>2, <1>3 DEF Described
<1>. QED BY <1>2, <1>4 DEF n

\* ingestCommit counts its commit once more and marks what the commit reverts.
LEMMA WithCommitKeeps ==
    ASSUME NEW m \in Memories, NEW c \in Commits, Described(m)
    PROVE  LET n == WithCommit(m, c)
           IN  /\ n \in Memories /\ Described(n)
               /\ n.counted = [m.counted EXCEPT ![c] = @ + 1]
               /\ n.reverted = m.reverted \cup ({Reverts[c]} \cap Ingested(m)) /\ n.cursor = c
               /\ Ingested(n) = Ingested(m) \cup {c}
               /\ n.facts = m.facts /\ n.notes = m.notes /\ n.files = m.files
<1>. DEFINE k == [m EXCEPT !.counted[c] = @ + 1,
                           !.reverted = @ \cup ({Reverts[c]} \cap Ingested(m)),
                           !.prov = @ \cup ProvCommits({c})]
<1>1. Ingested(m) \subseteq Commits /\ ProvCommits({c}) \subseteq Prov
  BY DEF Ingested, ProvCommits, Prov
<1>2. [m.counted EXCEPT ![c] = @ + 1] \in [Commits -> Nat]
  BY DEF Memories
<1>3. /\ k \in Memories /\ k.counted = [m.counted EXCEPT ![c] = @ + 1]
      /\ k.reverted = m.reverted \cup ({Reverts[c]} \cap Ingested(m)) /\ k.cursor = m.cursor
      /\ k.facts = m.facts /\ k.notes = m.notes /\ k.files = m.files
      /\ k.prov = m.prov \cup ProvCommits({c})
  BY <1>1, <1>2 DEF Memories
<1>4. WithCommit(m, c) = WithCursor(k, c)
  BY DEF WithCommit
<1>. HIDE DEF k
<1>5. Ingested(k) = Ingested(m) \cup {c}
  BY <1>3 DEF Ingested, Memories
<1>6. Described(k)
  <2>1. Known(k) = Known(m)
    BY <1>3 DEF Known
  <2>. QED BY <1>3, <1>5, <2>1 DEF Described, ProvCommits
<1>7. Ingested(WithCursor(k, c)) = Ingested(k)
  BY <1>3, <1>6, WithCursorKeeps DEF Ingested
<1>. QED BY <1>3, <1>4, <1>5, <1>6, <1>7, WithCursorKeeps

LEMMA GraphClearedKeeps ==
    ASSUME NEW m \in Memories, Described(m)
    PROVE  LET n == GraphCleared(m)
           IN  /\ n \in Memories /\ Described(n) /\ SameHistory(m, n)
               /\ n.facts = {} /\ n.notes = m.notes /\ n.files = Empty.files
<1>. DEFINE n == GraphCleared(m)
<1>1. Empty.files \in Files /\ Empty.files = [p \in Paths |-> Absent]
  BY DEF Empty, Files
<1>2. /\ n \in Memories /\ SameHistory(m, n) /\ n.facts = {} /\ n.notes = m.notes
      /\ n.files = Empty.files
      /\ n.prov = m.prov \ (ProvFiles(Paths) \cup ProvFacts(m.facts))
  BY <1>1 DEF GraphCleared, Memories, SameHistory
<1>. HIDE DEF n
<1>3. Known(n) = {} /\ Ingested(n) = Ingested(m) /\ Known(m) \subseteq Paths
  BY <1>1, <1>2 DEF Known, Ingested, SameHistory
<1>4. Described(n)
  BY <1>2, <1>3 DEF Described, SameHistory, ProvFiles, ProvFacts, ProvCommits, ProvCursor
<1>. QED BY <1>2, <1>4 DEF n

LEMMA FactsClearedKeeps ==
    ASSUME NEW m \in Memories, Described(m)
    PROVE  LET n == FactsCleared(m)
           IN  /\ n \in Memories /\ Described(n)
               /\ n.counted = Empty.counted /\ n.reverted = {} /\ n.cursor = None
               /\ n.facts = {} /\ n.notes = m.notes /\ n.files = Empty.files
<1>. DEFINE k == GraphCleared(m)
            n == FactsCleared(m)
<1>1. Empty.counted \in [Commits -> Nat] /\ \A c \in Commits : Empty.counted[c] = 0
  BY DEF Empty
<1>2. /\ k \in Memories /\ Described(k)
      /\ k.facts = {} /\ k.notes = m.notes /\ k.files = Empty.files
  BY GraphClearedKeeps
<1>. HIDE DEF k
<1>3. n = [k EXCEPT !.counted = Empty.counted, !.reverted = {}, !.cursor = None,
                    !.prov = @ \ (ProvCommits(Commits) \cup ProvCursor)]
  BY DEF FactsCleared, k
<1>4. /\ n \in Memories
      /\ n.counted = Empty.counted /\ n.reverted = {} /\ n.cursor = None
      /\ n.facts = {} /\ n.notes = m.notes /\ n.files = Empty.files
      /\ n.prov = k.prov \ (ProvCommits(Commits) \cup ProvCursor)
  BY ZenonT(60), <1>1, <1>2, <1>3 DEF Memories
<1>. HIDE DEF n
<1>5. Ingested(n) = {} /\ Ingested(k) \subseteq Commits /\ Known(n) = Known(k)
  BY <1>1, <1>2, <1>4 DEF Ingested, Known
<1>6. Described(n)
  BY <1>2, <1>4, <1>5 DEF Described, ProvFiles, ProvFacts, ProvCommits, ProvCursor
<1>. QED BY <1>4, <1>6 DEF n

LEMMA NoteKeeps ==
    ASSUME NEW m \in Memories, NEW x \in Notes, Described(m)
    PROVE  LET n == [m EXCEPT !.notes = @ \cup {x}, !.prov = @ \cup {<<"tasks", x>>}]
           IN  /\ n \in Memories /\ Described(n) /\ SameHistory(m, n)
               /\ n.facts = m.facts /\ n.notes = m.notes \cup {x} /\ n.files = m.files
<1>. DEFINE n == [m EXCEPT !.notes = @ \cup {x}, !.prov = @ \cup {<<"tasks", x>>}]
<1>1. {<<"tasks", x>>} \subseteq Prov
  BY DEF Prov
<1>2. /\ n \in Memories /\ SameHistory(m, n) /\ n.facts = m.facts
      /\ n.notes = m.notes \cup {x} /\ n.files = m.files /\ n.prov = m.prov \cup {<<"tasks", x>>}
  BY <1>1 DEF Memories, SameHistory
<1>. HIDE DEF n
<1>3. Described(n)
  <2>1. {<<"tasks", y>> : y \in n.notes} = {<<"tasks", y>> : y \in m.notes} \cup {<<"tasks", x>>}
    BY <1>2
  <2>2. Known(n) = Known(m) /\ Ingested(n) = Ingested(m)
    BY <1>2 DEF Known, Ingested, SameHistory
  <2>. QED BY <1>2, <2>1, <2>2 DEF Described, SameHistory
<1>. QED BY <1>2, <1>3 DEF n

\* ----------------------------------------------------------- requests and batches
LEMMA OldestIsFirst ==
    ASSUME NEW todo \in SUBSET Commits, todo # {}
    PROVE  Oldest(todo) \in todo /\ \A d \in todo : Oldest(todo) <= d
<1>1. todo \in SUBSET Nat
  BY CommitsByDate
<1>2. \E c \in todo : \A d \in todo : c <= d
  BY <1>1, LeastElement
<1>. QED BY <1>2 DEF Oldest

\* A request in a batch is one the memory has counted.
LEMMA BatchesCounted ==
    ASSUME Flushed, NEW r \in Requests, req[r].pc \in Batch
    PROVE  depth >= 1
<1>1. Batched \in SUBSET Requests /\ r \in Batched
  BY DEF Batched
<1>2. IsFiniteSet(Batched)
  BY <1>1, FinitelyMany, FS_Subset
<1>3. Cardinality(Batched) \in Nat /\ Cardinality(Batched) # 0
  BY <1>1, <1>2, FS_CardinalityType, FS_EmptySet
<1>. QED BY <1>3 DEF Flushed

LEMMA EnterTyped ==
    ASSUME NEW pc \in Steps, NEW quiet \in BOOLEAN
    PROVE  /\ Idle \in Asking /\ Idle.pc = "idle"
           /\ Enter(pc, quiet) \in Asking
           /\ Enter(pc, quiet).pc = pc /\ Enter(pc, quiet).quiet = quiet
<1>1. Empty.files \in Files
  BY DEF Empty, Files
<1>2. Idle \in Asking /\ Idle.pc = "idle"
  BY <1>1 DEF Idle, Asking, Steps, Batch
<1>3. Enter(pc, quiet) = [Idle EXCEPT !.pc = pc, !.quiet = quiet]
  BY DEF Enter
<1>. HIDE DEF Idle
<1>. QED BY <1>2, <1>3 DEF Asking

LEMMA DisturbedTyped ==
    ASSUME req \in [Requests -> Asking]
    PROVE  /\ Disturbed \in [Requests -> Asking]
           /\ \A r \in Requests : Disturbed[r] = [req[r] EXCEPT !.quiet = FALSE]
  BY DEF Disturbed, Asking

\* Unseen lists commits only.
LEMMA UnseenTyped ==
    ASSUME head \in Commits, NEW cursor
    PROVE  Unseen(cursor) \subseteq Ancestors(head) /\ Unseen(cursor) \subseteq Commits
  BY AncestorsFounded DEF Unseen, Founded

\* ------------------------------------------------------------- type correctness
StoreOK == /\ mem \in Memories /\ disk \in Memories /\ ProvenanceExact
           /\ depth \in Nat /\ dirty \in BOOLEAN
AskedOK == req \in [Requests -> Asking] /\ \A r \in Requests : Asked(r)
RestOK  == /\ tree \in Files /\ head \in Commits /\ pruned \subseteq Commits /\ safe \subseteq Notes
           /\ hurt \in Disturbances
Sorts   == StoreOK /\ AskedOK /\ RestOK

LEMMA SortsAreTypes == Sorts <=> TypeOK /\ ProvenanceExact /\ \A r \in Requests : Asked(r)
  BY DEF Sorts, StoreOK, AskedOK, RestOK, TypeOK

\* However a memory is written, memory and journal stay well typed and described.
LEMMA WritesTyped ==
    ASSUME Sorts, NEW m \in Memories, Described(m), mem' = m,
           \/ Put(m) \/ PutThenBatch(m)
           \/ EndBatch(m) /\ depth >= 1
           \/ UNCHANGED <<disk, depth>> /\ dirty' = TRUE
    PROVE  StoreOK'
<1>1. depth \in Nat /\ dirty \in BOOLEAN
  BY DEF Sorts, StoreOK
<1>2. disk' = disk \/ disk' = m
  BY DEF Put, PutThenBatch, EndBatch
<1>3. depth' \in Nat
  BY <1>1 DEF Put, PutThenBatch, EndBatch
<1>4. dirty' \in BOOLEAN
  BY <1>1 DEF Put, PutThenBatch, EndBatch
<1>. QED BY ZenonT(60), <1>2, <1>3, <1>4 DEF Sorts, StoreOK, ProvenanceExact, Described, Known, Ingested

LEMMA InitSorts == Init => Sorts
<1>. SUFFICES ASSUME Init PROVE Sorts
  OBVIOUS
<1>1. StoreOK
  BY EmptyMemory DEF Init, StoreOK, ProvenanceExact
<1>2. AskedOK
  <2>1. Idle \in Asking /\ Idle.pc = "idle"
    BY EnterTyped DEF Steps
  <2>. QED BY <2>1 DEF Init, AskedOK, Asked, At
<1>3. RestOK
  <2>1. tree \in Files /\ head \in Commits /\ pruned \subseteq Commits /\ safe \subseteq Notes
    BY DEF Init, Files
  <2>. QED BY <2>1 DEF Init, RestOK, Disturbances
<1>. QED BY <1>1, <1>2, <1>3 DEF Sorts

\* What the steps of a request have in common: one request changes, others may be disturbed.
LEMMA OneAsked ==
    ASSUME Sorts, NEW r \in Requests, NEW a \in Asking,
           a.pc \in {"list", "read"} => a.head \in Commits, a.pc = "read" => a.todo # {},
           \/ req' = [req EXCEPT ![r] = a]
           \/ req' = [Disturbed EXCEPT ![r] = a]
    PROVE  AskedOK'
<1>1. req \in [Requests -> Asking] /\ \A q \in Requests : Asked(q)
  BY DEF Sorts, AskedOK
<1>2. /\ Disturbed \in [Requests -> Asking]
      /\ \A q \in Requests : Disturbed[q] = [req[q] EXCEPT !.quiet = FALSE]
  BY <1>1, DisturbedTyped
<1>3. \A q \in Requests : /\ Disturbed[q].pc = req[q].pc /\ Disturbed[q].head = req[q].head
                          /\ Disturbed[q].todo = req[q].todo
  BY <1>1, <1>2 DEF Asking
<1>. HIDE DEF Disturbed
<1>4. req' \in [Requests -> Asking]
  BY <1>1, <1>2
<1>5. ASSUME NEW q \in Requests
      PROVE  Asked(q)'
  BY <1>1, <1>2, <1>3 DEF Asked, At
<1>. QED BY <1>4, <1>5 DEF AskedOK

LEMMA NobodyAsked ==
    ASSUME Sorts, req' = Disturbed \/ req' = req \/ req' = [r \in Requests |-> Idle]
    PROVE  AskedOK'
<1>1. req \in [Requests -> Asking] /\ \A q \in Requests : Asked(q)
  BY DEF Sorts, AskedOK
<1>2. /\ Disturbed \in [Requests -> Asking]
      /\ \A q \in Requests : Disturbed[q] = [req[q] EXCEPT !.quiet = FALSE]
  BY <1>1, DisturbedTyped
<1>3. \A q \in Requests : /\ Disturbed[q].pc = req[q].pc /\ Disturbed[q].head = req[q].head
                          /\ Disturbed[q].todo = req[q].todo
  BY <1>1, <1>2 DEF Asking
<1>4. Idle \in Asking /\ Idle.pc = "idle"
  BY EnterTyped DEF Steps
<1>. HIDE DEF Disturbed, Idle
<1>5. req' \in [Requests -> Asking]
  BY <1>1, <1>2, <1>4
<1>6. ASSUME NEW q \in Requests
      PROVE  Asked(q)'
  BY <1>1, <1>2, <1>3, <1>4 DEF Asked, At
<1>. QED BY <1>5, <1>6 DEF AskedOK

\* The request that goes on to the history.
LEMMA HistoryTyped ==
    ASSUME Sorts, NEW r \in Requests, ToHistory(r)
    PROVE  /\ AskedOK'
           /\ \E a \in Asking : /\ req' = [req EXCEPT ![r] = a] /\ a.pc = "head"
                                /\ a.quiet = req[r].quiet /\ a.cursor = mem.cursor
<1>. DEFINE a == [Enter("head", req[r].quiet) EXCEPT !.cursor = mem.cursor]
<1>1. req[r].quiet \in BOOLEAN /\ mem.cursor \in Commits \cup {None} /\ "head" \in Steps
  BY DEF Sorts, AskedOK, StoreOK, Asking, Memories, Steps
<1>2. /\ Enter("head", req[r].quiet) \in Asking /\ Enter("head", req[r].quiet).pc = "head"
      /\ Enter("head", req[r].quiet).quiet = req[r].quiet
  BY <1>1, EnterTyped
<1>3. a \in Asking /\ a.pc = "head" /\ a.quiet = req[r].quiet /\ a.cursor = mem.cursor
  BY <1>1, <1>2 DEF Asking
<1>4. req' = [req EXCEPT ![r] = a]
  BY DEF ToHistory, Sorts, AskedOK
<1>. HIDE DEF a
<1>. QED BY <1>3, <1>4, OneAsked

\* -------------------------------------------------------- what each step does
\* One lemma per step: types and provenance hold after it, and the fields of the request.
LEMMA CallIndexDoes ==
    ASSUME Sorts, NEW r \in Requests, CallIndex(r)
    PROVE  /\ Sorts'
           /\ \E a \in Asking : /\ req' = [Others(r) EXCEPT ![r] = a] /\ a.pc = "known"
                                /\ a.quiet = Alone(r) /\ a.known = mem.files
<1>. DEFINE a == [Enter("known", Alone(r)) EXCEPT !.known = mem.files]
<1>1. Alone(r) \in BOOLEAN /\ "known" \in Steps /\ mem.files \in Files
  BY DEF Alone, Steps, Sorts, StoreOK, Memories
<1>2. /\ Enter("known", Alone(r)) \in Asking /\ Enter("known", Alone(r)).pc = "known"
      /\ Enter("known", Alone(r)).quiet = Alone(r)
  <2>. HIDE DEF Alone
  <2>. QED BY <1>1, EnterTyped
<1>. HIDE DEF Alone
<1>3. a \in Asking /\ a.pc = "known" /\ a.quiet = Alone(r) /\ a.known = mem.files
  BY <1>1, <1>2 DEF Asking
<1>4. req' = [Others(r) EXCEPT ![r] = a]
  BY DEF CallIndex
<1>5. AskedOK'
  <2>. HIDE DEF a
  <2>. QED BY <1>3, <1>4, OneAsked DEF Others
<1>6. StoreOK'
  BY DEF CallIndex, Sorts, StoreOK, ProvenanceExact, Described, Known, Ingested
<1>7. RestOK'
  BY DEF CallIndex, Sorts, RestOK, repo, Disturbances
<1>. HIDE DEF a
<1>. QED BY <1>3, <1>4, <1>5, <1>6, <1>7 DEF Sorts

LEMMA CallRebuildDoes ==
    ASSUME Sorts, NEW r \in Requests, CallRebuild(r)
    PROVE  /\ Sorts'
           /\ \E a \in Asking : /\ req' = [req EXCEPT ![r] = a] /\ a.pc = "scan" /\ a.quiet = TRUE
<1>. DEFINE a == Enter("scan", TRUE)
<1>1. a \in Asking /\ a.pc = "scan" /\ a.quiet = TRUE
  BY EnterTyped DEF Steps, Batch
<1>2. req' = [req EXCEPT ![r] = a]
  BY DEF CallRebuild
<1>. HIDE DEF a
<1>3. AskedOK'
  BY <1>1, <1>2, OneAsked
<1>4. StoreOK'
  <2>1. FactsCleared(mem) \in Memories /\ Described(FactsCleared(mem))
    BY FactsClearedKeeps DEF Sorts, StoreOK, ProvenanceExact
  <2>2. mem' = FactsCleared(mem) /\ PutThenBatch(FactsCleared(mem))
    BY DEF CallRebuild, PutThenBatch
  <2>. QED BY <2>1, <2>2, WritesTyped
<1>5. RestOK'
  BY DEF CallRebuild, Sorts, RestOK, repo, Disturbances
<1>. QED BY <1>1, <1>2, <1>3, <1>4, <1>5 DEF Sorts

LEMMA CompareDoes ==
    ASSUME Sorts, NEW r \in Requests, Compare(r)
    PROVE  /\ Sorts'
           /\ \/ /\ req[r].known = tree /\ ToHistory(r)
                 /\ UNCHANGED <<mem, disk, depth, dirty, hurt>>
              \/ \E a \in Asking : /\ req[r].known # tree /\ req' = [req EXCEPT ![r] = a]
                                   /\ a.pc = "scan" /\ a.quiet = req[r].quiet
<1>1. CASE req[r].known = tree
  <2>1. ToHistory(r) /\ UNCHANGED <<mem, disk, depth, dirty, hurt>>
    BY <1>1 DEF Compare
  <2>2. StoreOK'
    BY <2>1 DEF Sorts, StoreOK, ProvenanceExact, Described, Known, Ingested
  <2>3. RestOK'
    BY <2>1 DEF Compare, Sorts, RestOK, repo
  <2>. QED BY <1>1, <2>1, <2>2, <2>3, HistoryTyped DEF Sorts
<1>2. CASE req[r].known # tree
  <2>. DEFINE a == Enter("scan", req[r].quiet)
              m == IF req[r].known = Empty.files THEN mem ELSE GraphCleared(mem)
  <2>1. a \in Asking /\ a.pc = "scan" /\ a.quiet = req[r].quiet
    <3>1. req[r].quiet \in BOOLEAN
      BY DEF Sorts, AskedOK, Asking
    <3>. QED BY <3>1, EnterTyped DEF Steps, Batch
  <2>2. req' = [req EXCEPT ![r] = a]
    BY <1>2 DEF Compare, Sorts, AskedOK
  <2>. HIDE DEF a
  <2>3. AskedOK'
    BY <2>1, <2>2, OneAsked
  <2>4. m \in Memories /\ Described(m)
    BY GraphClearedKeeps DEF Sorts, StoreOK, ProvenanceExact
  <2>5. PutThenBatch(m) /\ mem' = m
    BY <1>2 DEF Compare, PutThenBatch
  <2>6. StoreOK'
    <3>. HIDE DEF m
    <3>. QED BY <2>4, <2>5, WritesTyped
  <2>7. RestOK'
    <3>1. hurt' = [hurt EXCEPT !.graph = ~req[r].quiet \/ (hurt.graph /\ req[r].known = Empty.files)]
      BY <1>2 DEF Compare
    <3>2. ~req[r].quiet \/ (hurt.graph /\ req[r].known = Empty.files) \in BOOLEAN
      OBVIOUS
    <3>. QED BY <3>1, <3>2 DEF Compare, Sorts, RestOK, repo, Disturbances
  <2>. QED BY <1>2, <2>1, <2>2, <2>3, <2>6, <2>7 DEF Sorts
<1>. QED BY <1>1, <1>2

LEMMA ScanDoes ==
    ASSUME Sorts, NEW r \in Requests, Scan(r)
    PROVE  /\ Sorts'
           /\ \E a \in Asking : /\ req' = [req EXCEPT ![r] = a] /\ a.pc = "extract"
                                /\ a.quiet = req[r].quiet /\ a.seen = tree
<1>. DEFINE a == [req[r] EXCEPT !.pc = "extract", !.seen = tree]
<1>1. a \in Asking /\ a.pc = "extract" /\ a.quiet = req[r].quiet /\ a.seen = tree
  BY DEF Sorts, AskedOK, RestOK, Asking, Steps, Batch
<1>2. req' = [req EXCEPT ![r] = a]
  BY DEF Scan, Sorts, AskedOK
<1>. HIDE DEF a
<1>3. AskedOK'
  BY <1>1, <1>2, OneAsked
<1>4. StoreOK'
  <2>1. WithFiles(mem, tree) \in Memories /\ Described(WithFiles(mem, tree))
    BY WithFilesKeeps DEF Sorts, StoreOK, RestOK, ProvenanceExact
  <2>2. mem' = WithFiles(mem, tree) /\ UNCHANGED <<disk, depth>> /\ dirty' = TRUE
    BY DEF Scan
  <2>. QED BY <2>1, <2>2, WritesTyped
<1>5. RestOK'
  BY DEF Scan, Sorts, RestOK, repo, Disturbances
<1>. QED BY <1>1, <1>2, <1>3, <1>4, <1>5 DEF Sorts

LEMMA ExtractDoes ==
    ASSUME Sorts, Flushed, NEW r \in Requests, Extract(r)
    PROVE  /\ Sorts' /\ ToHistory(r)
           /\ LET fs == {<<p, tree[p]>> : p \in {q \in Paths : req[r].seen[q] # Absent}}
              IN  EndBatch(WithFacts(mem, fs)) /\ fs \in SUBSET Facts
<1>. DEFINE found == {q \in Paths : req[r].seen[q] # Absent}
            fs == {<<p, tree[p]>> : p \in found}
<1>1. /\ At(r, "extract") /\ \A p \in found : tree[p] \in Contents
      /\ EndBatch(WithFacts(mem, fs)) /\ ToHistory(r)
      /\ hurt' = [hurt EXCEPT !.graph = @ \/ ~req[r].quiet] /\ UNCHANGED <<repo, left, safe>>
  BY DEF Extract
<1>2. fs \in SUBSET Facts
  BY <1>1 DEF Facts
<1>. HIDE DEF fs
<1>3. StoreOK'
  <2>1. WithFacts(mem, fs) \in Memories /\ Described(WithFacts(mem, fs))
    BY <1>2, WithFactsKeeps DEF Sorts, StoreOK, ProvenanceExact
  <2>2. depth >= 1
    BY <1>1, BatchesCounted DEF At, Batch
  <2>3. mem' = WithFacts(mem, fs)
    BY <1>1 DEF EndBatch
  <2>. QED BY <1>1, <2>1, <2>2, <2>3, WritesTyped
<1>4. RestOK'
  BY <1>1 DEF Sorts, RestOK, repo, Disturbances
<1>. QED BY <1>1, <1>2, <1>3, <1>4, HistoryTyped DEF Sorts, fs

LEMMA ExtractFailsDoes ==
    ASSUME Sorts, Flushed, NEW r \in Requests, ExtractFails(r)
    PROVE  Sorts'
<1>1. AskedOK'
  BY EnterTyped, OneAsked DEF ExtractFails, Steps
<1>2. StoreOK'
  <2>1. depth >= 1
    BY BatchesCounted DEF ExtractFails, At, Batch
  <2>2. EndBatch(mem) /\ mem' = mem
    BY DEF ExtractFails, EndBatch
  <2>3. mem \in Memories /\ Described(mem)
    BY DEF Sorts, StoreOK, ProvenanceExact
  <2>. QED BY <2>1, <2>2, <2>3, WritesTyped
<1>3. RestOK'
  BY DEF ExtractFails, Sorts, RestOK, repo, Disturbances
<1>. QED BY <1>1, <1>2, <1>3 DEF Sorts

LEMMA ReadHeadDoes ==
    ASSUME Sorts, NEW r \in Requests, ReadHead(r)
    PROVE  /\ Sorts'
           /\ \/ /\ head = req[r].cursor /\ req' = [req EXCEPT ![r] = Idle] /\ depth' = depth
                 /\ hurt' = [hurt EXCEPT !.answered = req[r].quiet, !.unread = FALSE]
              \/ /\ head # req[r].cursor /\ depth' = depth + 1 /\ hurt' = hurt
                 /\ \E a \in Asking : /\ req' = [req EXCEPT ![r] = a] /\ a.pc = "list"
                                      /\ a.head = head /\ a.cursor = req[r].cursor
                                      /\ a.quiet = req[r].quiet
<1>. DEFINE a == [req[r] EXCEPT !.pc = "list", !.head = head]
<1>1. a \in Asking /\ a.pc = "list" /\ a.head = head /\ a.cursor = req[r].cursor /\ a.quiet = req[r].quiet
  BY ZenonT(60) DEF Sorts, AskedOK, RestOK, Asking, Steps, Batch
<1>2. Idle \in Asking /\ Idle.pc = "idle"
  BY EnterTyped DEF Steps
<1>. HIDE DEF Idle
<1>3. StoreOK'
  <2>1. depth' \in Nat
    BY DEF ReadHead, Sorts, StoreOK
  <2>. QED BY <2>1 DEF ReadHead, Sorts, StoreOK, ProvenanceExact, Described, Known, Ingested
<1>4. req[r].quiet \in BOOLEAN /\ head \in Commits
  BY DEF Sorts, AskedOK, RestOK, Asking
<1>5. RestOK'
  BY <1>4 DEF ReadHead, Sorts, RestOK, repo, Disturbances
<1>6. CASE head = req[r].cursor
  BY <1>2, <1>3, <1>5, <1>6, OneAsked DEF ReadHead, Sorts
<1>7. CASE head # req[r].cursor
  <2>1. req' = [req EXCEPT ![r] = a] /\ depth' = depth + 1 /\ hurt' = hurt
    BY <1>7 DEF ReadHead, Sorts, AskedOK
  <2>. HIDE DEF a
  <2>2. AskedOK'
    BY <1>1, <1>4, <2>1, OneAsked
  <2>. QED BY <1>1, <1>3, <1>5, <1>7, <2>1, <2>2 DEF Sorts
<1>. QED BY <1>6, <1>7

\* The other requests keep where they are and what they hold; at most they are disturbed.
SameButQuiet(q) ==
    /\ req'[q].pc = req[q].pc /\ req'[q].known = req[q].known /\ req'[q].seen = req[q].seen
    /\ req'[q].cursor = req[q].cursor /\ req'[q].head = req[q].head /\ req'[q].todo = req[q].todo
    /\ req'[q].quiet => req[q].quiet

LEMMA DisturbedKeeps ==
    ASSUME req \in [Requests -> Asking], req' = Disturbed
    PROVE  \A q \in Requests : SameButQuiet(q) /\ ~req'[q].quiet
<1>1. \A q \in Requests : Disturbed[q] = [req[q] EXCEPT !.quiet = FALSE]
  BY DisturbedTyped
<1>. HIDE DEF Disturbed
<1>. QED BY ZenonT(60), <1>1 DEF SameButQuiet, Asking

LEMMA OneMoves ==
    ASSUME Sorts, NEW r \in Requests, NEW a \in Asking,
           req' = [req EXCEPT ![r] = a] \/ req' = [Others(r) EXCEPT ![r] = a]
    PROVE  req'[r] = a /\ \A q \in Requests \ {r} : SameButQuiet(q)
<1>1. req \in [Requests -> Asking]
  BY DEF Sorts, AskedOK
<1>2. /\ Disturbed \in [Requests -> Asking]
      /\ \A q \in Requests : Disturbed[q] = [req[q] EXCEPT !.quiet = FALSE]
  BY <1>1, DisturbedTyped
<1>. HIDE DEF Disturbed
<1>3. req' = [req EXCEPT ![r] = a] \/ req' = [Disturbed EXCEPT ![r] = a]
  BY DEF Others
<1>4. req'[r] = a
  BY <1>1, <1>2, <1>3
<1>5. ASSUME NEW q \in Requests \ {r}
      PROVE  SameButQuiet(q)
  <2>1. req'[q] = req[q] \/ req'[q] = [req[q] EXCEPT !.quiet = FALSE]
    BY <1>1, <1>2, <1>3
  <2>2. req[q] \in Asking
    BY <1>1
  <2>. QED BY <2>1, <2>2 DEF SameButQuiet, Asking
<1>. QED BY <1>4, <1>5

LEMMA HeadUnreadDoes ==
    ASSUME Sorts, NEW r \in Requests, HeadUnread(r)
    PROVE  Sorts' /\ req'[r].pc = "idle" /\ \A q \in Requests \ {r} : SameButQuiet(q)
<1>1. Idle \in Asking /\ Idle.pc = "idle" /\ req' = [req EXCEPT ![r] = Idle]
  BY EnterTyped DEF HeadUnread, Steps
<1>. HIDE DEF Idle
<1>2. req'[r].pc = "idle" /\ \A q \in Requests \ {r} : SameButQuiet(q)
  BY <1>1, OneMoves
<1>3. AskedOK'
  BY <1>1, OneAsked
<1>4. StoreOK'
  BY DEF HeadUnread, Sorts, StoreOK, ProvenanceExact, Described, Known, Ingested
<1>5. req[r].quiet \in BOOLEAN
  BY DEF Sorts, AskedOK, Asking
<1>6. RestOK'
  BY <1>5 DEF HeadUnread, Sorts, RestOK, Disturbances, repo
<1>. QED BY <1>2, <1>3, <1>4, <1>6 DEF Sorts

\* The end of the history's batch, around whatever was ingested last.
LEMMA FinishDoes ==
    ASSUME Sorts, Flushed, NEW r \in Requests, At(r, "list") \/ At(r, "read"),
           NEW m \in Memories, Described(m), Finish(r, m)
    PROVE  /\ StoreOK' /\ AskedOK'
           /\ req[r].head \in Commits /\ req' = [req EXCEPT ![r] = Idle]
           /\ mem' = WithCursor(m, req[r].head) /\ EndBatch(mem')
           /\ hurt' = [hurt EXCEPT !.answered = req[r].quiet, !.unread = FALSE]
           /\ hurt' \in Disturbances
<1>1. req[r].head \in Commits /\ req[r].quiet \in BOOLEAN
  BY DEF Sorts, AskedOK, Asked, Asking
<1>2. mem' = WithCursor(m, req[r].head) /\ EndBatch(mem')
  BY DEF Finish, EndBatch
<1>3. mem' \in Memories /\ Described(mem')
  BY <1>1, <1>2, WithCursorKeeps
<1>4. depth >= 1
  BY BatchesCounted DEF At, Batch
<1>5. StoreOK'
  BY <1>2, <1>3, <1>4, WritesTyped
<1>6. AskedOK' /\ req' = [req EXCEPT ![r] = Idle]
  BY EnterTyped, OneAsked DEF Finish, Steps
<1>. QED BY <1>1, <1>2, <1>5, <1>6 DEF Finish, Sorts, RestOK, Disturbances

LEMMA ListDoes ==
    ASSUME Sorts, Flushed, NEW r \in Requests, List(r)
    PROVE  /\ Sorts'
           /\ \/ Unseen(req[r].cursor) = {} /\ Finish(r, mem)
              \/ \E a \in Asking : /\ req' = [req EXCEPT ![r] = a] /\ a.pc = "read"
                                   /\ a.head = req[r].head /\ a.quiet = req[r].quiet
                                   /\ a.todo = Unseen(req[r].cursor) /\ a.todo # {}
                                   /\ UNCHANGED <<mem, disk, depth, dirty, hurt>>
<1>. DEFINE todo == Unseen(req[r].cursor)
            a == [req[r] EXCEPT !.pc = "read", !.todo = todo]
<1>1. todo \in SUBSET Commits
  BY UnseenTyped DEF Sorts, RestOK
<1>2. CASE todo = {}
  <2>1. Finish(r, mem) /\ UNCHANGED <<repo, left, safe>>
    BY <1>2 DEF List
  <2>2. mem \in Memories /\ Described(mem)
    BY DEF Sorts, StoreOK, ProvenanceExact
  <2>3. /\ StoreOK' /\ AskedOK'
        /\ hurt' \in Disturbances
    BY <2>1, <2>2, FinishDoes DEF List
  <2>. QED BY <1>2, <2>1, <2>3 DEF Sorts, RestOK, repo
<1>3. CASE todo # {}
  <2>. HIDE DEF todo
  <2>1. /\ a \in Asking /\ a.pc = "read" /\ a.head = req[r].head /\ a.quiet = req[r].quiet
        /\ a.todo = todo
    BY <1>1 DEF Sorts, AskedOK, Asking, Steps, Batch
  <2>2. /\ req' = [req EXCEPT ![r] = a] /\ At(r, "list")
        /\ UNCHANGED <<mem, disk, depth, dirty, hurt>> /\ UNCHANGED <<repo, left, safe>>
    BY <1>3 DEF List, Sorts, AskedOK, todo
  <2>. HIDE DEF a
  <2>3. req[r].head \in Commits
    BY <2>2 DEF Sorts, AskedOK, Asked
  <2>4. AskedOK'
    BY <1>3, <2>1, <2>2, <2>3, OneAsked
  <2>5. StoreOK'
    BY <2>2 DEF Sorts, StoreOK, ProvenanceExact, Described, Known, Ingested
  <2>6. RestOK'
    BY <2>2 DEF Sorts, RestOK, repo
  <2>. QED BY <1>3, <2>1, <2>2, <2>4, <2>5, <2>6 DEF Sorts, todo
<1>. QED BY <1>2, <1>3

LEMMA RelistDoes ==
    ASSUME Sorts, NEW r \in Requests, Relist(r)
    PROVE  /\ Sorts'
           /\ \E a \in Asking : /\ req' = [req EXCEPT ![r] = a] /\ a.pc = "read"
                                /\ a.head = req[r].head /\ a.quiet = req[r].quiet
                                /\ a.todo = Ancestors(head)
           /\ UNCHANGED <<mem, disk, depth, dirty, head>>
<1>. DEFINE todo == Ancestors(head)
            a == [req[r] EXCEPT !.pc = "read", !.todo = todo]
<1>1. head \in Commits /\ todo \in SUBSET Commits /\ todo # {}
  BY AncestorsFounded DEF Sorts, RestOK, Founded
<1>. HIDE DEF todo
<1>2. /\ a \in Asking /\ a.pc = "read" /\ a.head = req[r].head /\ a.quiet = req[r].quiet
      /\ a.todo = todo
  BY <1>1 DEF Sorts, AskedOK, Asking, Steps, Batch
<1>3. /\ req' = [req EXCEPT ![r] = a] /\ At(r, "list")
      /\ UNCHANGED <<repo, mem, disk, depth, dirty, safe>>
  BY DEF Relist, Sorts, AskedOK, todo
<1>. HIDE DEF a
<1>4. req[r].head \in Commits
  BY <1>3 DEF Sorts, AskedOK, Asked
<1>5. AskedOK'
  BY <1>1, <1>2, <1>3, <1>4, OneAsked
<1>6. StoreOK'
  BY <1>3 DEF Sorts, StoreOK, ProvenanceExact, Described, Known, Ingested
<1>7. hurt' \in Disturbances
  <2>1. (hurt.recounted \/ req[r].cursor # None) \in BOOLEAN
    BY DEF Sorts, RestOK, Disturbances
  <2>. QED BY <2>1 DEF Relist, Sorts, RestOK, Disturbances
<1>8. RestOK'
  BY <1>3, <1>7 DEF Sorts, RestOK, repo
<1>. QED BY <1>2, <1>3, <1>5, <1>6, <1>8 DEF Sorts, todo, repo

LEMMA IngestDoes ==
    ASSUME Sorts, Flushed, NEW r \in Requests, Ingest(r)
    PROVE  LET c == Oldest(req[r].todo)  rest == req[r].todo \ {c}
           IN  /\ Sorts' /\ c \in Commits /\ c \in req[r].todo /\ \A d \in req[r].todo : c <= d
               /\ \/ rest = {} /\ Finish(r, WithCommit(mem, c))
                  \/ /\ mem' = WithCommit(mem, c) /\ dirty' = TRUE
                     /\ UNCHANGED <<disk, depth, hurt>>
                     /\ \E a \in Asking : /\ req' = [req EXCEPT ![r] = a] /\ a.pc = "read"
                                          /\ a.head = req[r].head /\ a.quiet = req[r].quiet
                                          /\ a.todo = rest /\ rest # {}
<1>. DEFINE c == Oldest(req[r].todo)
            rest == req[r].todo \ {c}
            a == [req[r] EXCEPT !.todo = rest]
<1>1. /\ At(r, "read") /\ UNCHANGED <<repo, left, safe>>
      /\ IF rest = {} THEN Finish(r, WithCommit(mem, c))
         ELSE /\ mem' = WithCommit(mem, c) /\ dirty' = TRUE
              /\ req' = [req EXCEPT ![r].todo = rest]
              /\ UNCHANGED <<disk, depth, hurt>>
  BY DEF Ingest
<1>2. req[r].todo \in SUBSET Commits /\ req[r].todo # {} /\ req[r].head \in Commits
  BY <1>1 DEF Sorts, AskedOK, Asked, Asking
<1>3. c \in Commits /\ c \in req[r].todo /\ \A d \in req[r].todo : c <= d
  BY <1>2, OldestIsFirst
<1>4. WithCommit(mem, c) \in Memories /\ Described(WithCommit(mem, c))
  BY <1>3, WithCommitKeeps DEF Sorts, StoreOK, ProvenanceExact
<1>5. CASE rest = {}
  <2>1. /\ StoreOK' /\ AskedOK'
        /\ hurt' \in Disturbances
    BY <1>1, <1>4, <1>5, FinishDoes
  <2>. QED BY <1>1, <1>3, <1>5, <2>1 DEF Sorts, RestOK, repo
<1>6. CASE rest # {}
  <2>. HIDE DEF c
  <2>1. /\ a \in Asking /\ a.pc = "read" /\ a.head = req[r].head /\ a.quiet = req[r].quiet
        /\ a.todo = rest
    BY <1>1, <1>2 DEF Sorts, AskedOK, Asking, At
  <2>2. /\ req' = [req EXCEPT ![r] = a] /\ mem' = WithCommit(mem, c) /\ dirty' = TRUE
        /\ UNCHANGED <<disk, depth, hurt>>
    BY <1>1, <1>6 DEF Sorts, AskedOK
  <2>. HIDE DEF a
  <2>3. AskedOK'
    BY <1>2, <1>6, <2>1, <2>2, OneAsked
  <2>4. StoreOK'
    BY <1>4, <2>2, WritesTyped
  <2>5. RestOK'
    BY <1>1, <2>2 DEF Sorts, RestOK, repo
  <2>. QED BY <1>3, <1>6, <2>1, <2>2, <2>3, <2>4, <2>5 DEF Sorts, c
<1>. QED BY <1>5, <1>6

LEMMA IngestFailsDoes ==
    ASSUME Sorts, Flushed, NEW r \in Requests, IngestFails(r) \/ ListFails(r)
    PROVE  Sorts'
<1>1. AskedOK'
  BY EnterTyped, OneAsked DEF IngestFails, ListFails, Steps
<1>2. StoreOK'
  <2>1. depth >= 1
    BY BatchesCounted DEF IngestFails, ListFails, At, Batch
  <2>2. /\ mem' = mem /\ depth' = depth - 1 /\ disk' \in {disk, mem}
        /\ dirty' = FALSE \/ dirty' = dirty
    BY DEF IngestFails, ListFails, EndBatchUnwritten
  <2>3. depth' \in Nat
    BY <2>1, <2>2 DEF Sorts, StoreOK
  <2>. QED BY <2>2, <2>3 DEF Sorts, StoreOK, ProvenanceExact, Described, Known, Ingested
<1>3. RestOK'
  BY DEF IngestFails, ListFails, Sorts, RestOK, Disturbances, repo
<1>. QED BY <1>1, <1>2, <1>3 DEF Sorts

LEMMA NoteDoes ==
    ASSUME Sorts, NEW n \in Notes, Note(n)
    PROVE  Sorts'
<1>. DEFINE m == [mem EXCEPT !.notes = @ \cup {n}, !.prov = @ \cup {<<"tasks", n>>}]
<1>1. m \in Memories /\ Described(m)
  BY NoteKeeps DEF Sorts, StoreOK, ProvenanceExact
<1>2. Put(m) /\ mem' = m
  BY DEF Note, Put
<1>. HIDE DEF m
<1>3. StoreOK'
  BY <1>1, <1>2, WritesTyped
<1>4. AskedOK'
  BY NobodyAsked DEF Note
<1>5. RestOK'
  BY DEF Note, Sorts, RestOK, repo
<1>. QED BY <1>3, <1>4, <1>5 DEF Sorts

\* Edits, git and a crash.
LEMMA EnvironmentDoes ==
    ASSUME Sorts,
           \/ \E p \in Paths, c \in Contents \cup {Absent, Unreadable} : Edit(p, c)
           \/ \E c \in Commits : MoveHead(c)
           \/ Prune \/ Crash
    PROVE  Sorts'
<1>1. ASSUME NEW p \in Paths, NEW c \in Contents \cup {Absent, Unreadable}, Edit(p, c)
      PROVE  Sorts'
  <2>1. StoreOK'
    BY <1>1 DEF Edit, Sorts, StoreOK, ProvenanceExact, Described, Known, Ingested
  <2>2. AskedOK'
    BY <1>1, NobodyAsked DEF Edit
  <2>3. RestOK'
    BY <1>1 DEF Edit, Sorts, RestOK, Files, Disturbances
  <2>. QED BY <2>1, <2>2, <2>3 DEF Sorts
<1>2. ASSUME NEW c \in Commits, MoveHead(c)
      PROVE  Sorts'
  <2>1. StoreOK'
    BY <1>2 DEF MoveHead, Sorts, StoreOK, ProvenanceExact, Described, Known, Ingested
  <2>2. AskedOK'
    BY <1>2, NobodyAsked DEF MoveHead
  <2>3. RestOK'
    <3>1. PICK x \in BOOLEAN, y \in BOOLEAN :
              hurt' = [hurt EXCEPT !.answered = FALSE, !.missed = x, !.recounted = y]
      <4>. DEFINE lists == \E r \in Requests : At(r, "list")
                  forward == head \in Ancestors(c)
      <4>1. hurt' = [hurt EXCEPT !.answered = FALSE, !.missed = hurt.missed \/ (lists /\ ~forward),
                                 !.recounted = hurt.recounted \/ lists \/ ~forward]
        BY <1>2 DEF MoveHead
      <4>2. /\ (hurt.missed \/ (lists /\ ~forward)) \in BOOLEAN
            /\ (hurt.recounted \/ lists \/ ~forward) \in BOOLEAN
        OBVIOUS
      <4>. QED BY <4>1, <4>2
    <3>. QED BY <1>2, <3>1 DEF MoveHead, Sorts, RestOK, Disturbances
  <2>. QED BY <2>1, <2>2, <2>3 DEF Sorts
<1>3. CASE Prune
  <2>1. StoreOK'
    BY <1>3 DEF Prune, Sorts, StoreOK, ProvenanceExact, Described, Known, Ingested
  <2>2. AskedOK'
    BY <1>3, NobodyAsked DEF Prune
  <2>3. RestOK'
    BY <1>3 DEF Prune, Sorts, RestOK, Disturbances
  <2>. QED BY <2>1, <2>2, <2>3 DEF Sorts
<1>4. CASE Crash
  <2>1. StoreOK'
    BY <1>4 DEF Crash, Sorts, StoreOK, ProvenanceExact, Described, Known, Ingested
  <2>2. AskedOK'
    BY <1>4, NobodyAsked DEF Crash
  <2>3. RestOK'
    BY <1>4 DEF Crash, Sorts, RestOK, repo, Disturbances
  <2>. QED BY <2>1, <2>2, <2>3 DEF Sorts
<1>. QED BY <1>1, <1>2, <1>3, <1>4

\* ------------------------------------------------------------------ batches
LEMMA BatchesMove ==
    ASSUME Flushed, NEW r \in Requests,
           \A q \in Requests \ {r} : req'[q].pc = req[q].pc
    PROVE  /\ (req[r].pc \in Batch <=> req'[r].pc \in Batch) => Cardinality(Batched') = depth
           /\ req[r].pc \notin Batch /\ req'[r].pc \in Batch => Cardinality(Batched') = depth + 1
           /\ req[r].pc \in Batch /\ req'[r].pc \notin Batch => Cardinality(Batched') = depth - 1
<1>1. IsFiniteSet(Batched) /\ depth = Cardinality(Batched)
  <2>1. Batched \in SUBSET Requests
    BY DEF Batched
  <2>. QED BY <2>1, FinitelyMany, FS_Subset DEF Flushed
<1>2. ASSUME req[r].pc \in Batch <=> req'[r].pc \in Batch
      PROVE  Cardinality(Batched') = depth
  <2>1. Batched' = Batched
    BY <1>2 DEF Batched
  <2>. QED BY <1>1, <2>1
<1>3. ASSUME req[r].pc \notin Batch, req'[r].pc \in Batch
      PROVE  Cardinality(Batched') = depth + 1
  <2>1. Batched' = Batched \cup {r} /\ r \notin Batched
    BY <1>3 DEF Batched
  <2>. QED BY <1>1, <2>1, FS_AddElement
<1>4. ASSUME req[r].pc \in Batch, req'[r].pc \notin Batch
      PROVE  Cardinality(Batched') = depth - 1
  <2>1. Batched' = Batched \ {r} /\ r \in Batched
    BY <1>4 DEF Batched
  <2>. QED BY <1>1, <2>1, FS_RemoveElement
<1>. QED BY <1>2, <1>3, <1>4

\* Writes outside a batch reach the journal; those inside do at the end of the last one.
LEMMA WritesFlushed ==
    ASSUME Sorts, Flushed, NEW m, mem' = m, mem.notes \subseteq m.notes,
           safe' = safe \/ (safe' \subseteq safe \cup m.notes /\ disk' = m),
           \/ Put(m) /\ Cardinality(Batched') = depth
           \/ PutThenBatch(m) /\ Cardinality(Batched') = depth + 1
           \/ EndBatch(m) /\ depth >= 1 /\ Cardinality(Batched') = depth - 1
           \/ /\ UNCHANGED <<disk, depth>> /\ dirty' = TRUE /\ depth >= 1
              /\ Cardinality(Batched') = depth
    PROVE  Flushed'
<1>1. depth \in Nat /\ dirty \in BOOLEAN
  BY DEF Sorts, StoreOK
<1>2. disk' = m \/ disk' = disk
  BY DEF Put, PutThenBatch, EndBatch
<1>3. safe' \subseteq disk'.notes /\ disk'.notes \subseteq mem'.notes
  BY <1>2 DEF Flushed
<1>4. depth' = Cardinality(Batched')
  BY DEF Put, PutThenBatch, EndBatch
<1>5. (~dirty' => disk' = mem') /\ (depth' = 0 => ~dirty')
  <2>1. CASE Put(m)
    BY <1>1, <2>1 DEF Put, Flushed
  <2>2. CASE PutThenBatch(m)
    BY <1>1, <2>2 DEF PutThenBatch, Flushed
  <2>3. CASE EndBatch(m) /\ depth >= 1
    BY <1>1, <2>3 DEF EndBatch, Flushed
  <2>4. CASE UNCHANGED <<disk, depth>> /\ dirty' = TRUE /\ depth >= 1
    BY <1>1, <2>4 DEF Flushed
  <2>. QED BY <2>1, <2>2, <2>3, <2>4
<1>. QED BY <1>3, <1>4, <1>5 DEF Flushed

LEMMA FinishFlushed ==
    ASSUME Sorts, Flushed, NEW r \in Requests, At(r, "list") \/ At(r, "read"),
           NEW m \in Memories, Described(m), mem.notes \subseteq m.notes,
           Finish(r, m), UNCHANGED safe
    PROVE  Flushed'
<1>1. /\ req[r].head \in Commits /\ req' = [req EXCEPT ![r] = Idle]
      /\ mem' = WithCursor(m, req[r].head) /\ EndBatch(mem')
  BY FinishDoes
<1>2. mem.notes \subseteq mem'.notes
  BY <1>1, WithCursorKeeps
<1>3. req'[r].pc = "idle" /\ \A q \in Requests \ {r} : req'[q].pc = req[q].pc
  BY ZenonT(60), <1>1, EnterTyped, OneMoves DEF SameButQuiet, Steps
<1>4. depth >= 1 /\ Cardinality(Batched') = depth - 1
  BY <1>3, BatchesMove, BatchesCounted DEF At, Batch
<1>. QED BY <1>1, <1>2, <1>4, WritesFlushed

LEMMA StepFlushed ==
    ASSUME Sorts, Flushed, [Next]_vars
    PROVE  Flushed'
<1>0. mem \in Memories /\ disk \in Memories /\ Described(mem) /\ tree \in Files /\ depth \in Nat
  BY DEF Sorts, StoreOK, RestOK, ProvenanceExact
<1>1. ASSUME NEW r \in Requests, CallIndex(r)
      PROVE  Flushed'
  <2>1. \A q \in Requests : req'[q].pc \in Batch <=> req[q].pc \in Batch
    <3>1. req'[r].pc = "known" /\ \A q \in Requests \ {r} : SameButQuiet(q)
      BY <1>1, CallIndexDoes, OneMoves
    <3>2. req[r].pc = "idle"
      BY <1>1 DEF CallIndex, Active
    <3>. QED BY <3>1, <3>2 DEF SameButQuiet, Batch
  <2>2. Batched' = Batched
    BY <2>1 DEF Batched
  <2>. QED BY <1>1, <2>2 DEF CallIndex, Flushed
<1>2. ASSUME NEW r \in Requests, CallRebuild(r)
      PROVE  Flushed'
  <2>1. req'[r].pc = "scan" /\ \A q \in Requests \ {r} : req'[q].pc = req[q].pc
    BY ZenonT(60), <1>2, CallRebuildDoes, OneMoves DEF SameButQuiet
  <2>2. req[r].pc = "idle"
    BY <1>2 DEF CallRebuild, Active
  <2>3. Cardinality(Batched') = depth + 1
    BY <2>1, <2>2, BatchesMove DEF Batch
  <2>4. mem' = FactsCleared(mem) /\ mem.notes \subseteq mem'.notes /\ PutThenBatch(mem') /\ safe' = safe
    BY <1>0, <1>2, FactsClearedKeeps DEF CallRebuild, PutThenBatch
  <2>. QED BY <2>3, <2>4, WritesFlushed
<1>3. ASSUME NEW r \in Requests, Compare(r)
      PROVE  Flushed'
  <2>1. req[r].pc = "known" /\ safe' = safe
    BY <1>3 DEF Compare, At
  <2>2. CASE req[r].known = tree
    <3>1. ToHistory(r) /\ UNCHANGED <<mem, disk, depth, dirty>>
      BY <1>3, <2>2, CompareDoes
    <3>2. req'[r].pc = "head" /\ \A q \in Requests \ {r} : req'[q].pc = req[q].pc
      BY <3>1, HistoryTyped, OneMoves DEF SameButQuiet
    <3>3. Cardinality(Batched') = depth
      BY <2>1, <3>2, BatchesMove DEF Batch
    <3>. QED BY <2>1, <3>1, <3>3 DEF Flushed
  <2>3. CASE req[r].known # tree
    <3>1. req'[r].pc = "scan" /\ \A q \in Requests \ {r} : req'[q].pc = req[q].pc
      BY <1>3, <2>3, CompareDoes, OneMoves DEF SameButQuiet
    <3>2. Cardinality(Batched') = depth + 1
      BY <2>1, <3>1, BatchesMove DEF Batch
    <3>3. mem.notes \subseteq mem'.notes /\ PutThenBatch(mem')
      BY <1>0, <1>3, <2>3, GraphClearedKeeps DEF Compare, PutThenBatch
    <3>. QED BY <2>1, <3>2, <3>3, WritesFlushed
  <2>. QED BY <2>2, <2>3
<1>4. ASSUME NEW r \in Requests, Scan(r)
      PROVE  Flushed'
  <2>1. req[r].pc = "scan" /\ UNCHANGED <<disk, depth, safe>> /\ dirty' = TRUE
    BY <1>4 DEF Scan, At
  <2>2. req'[r].pc = "extract" /\ \A q \in Requests \ {r} : req'[q].pc = req[q].pc
    BY <1>4, ScanDoes, OneMoves DEF SameButQuiet
  <2>3. Cardinality(Batched') = depth /\ depth >= 1
    BY <2>1, <2>2, BatchesMove, BatchesCounted DEF Batch
  <2>4. mem.notes \subseteq mem'.notes
    BY <1>0, <1>4, WithFilesKeeps DEF Scan
  <2>. QED BY <2>1, <2>3, <2>4, WritesFlushed
<1>5. ASSUME NEW r \in Requests, Extract(r)
      PROVE  Flushed'
  <2>. DEFINE fs == {<<p, tree[p]>> : p \in {q \in Paths : req[r].seen[q] # Absent}}
  <2>1. ToHistory(r) /\ EndBatch(WithFacts(mem, fs)) /\ fs \in SUBSET Facts
    BY <1>5, ExtractDoes
  <2>. HIDE DEF fs
  <2>2. req'[r].pc = "head" /\ \A q \in Requests \ {r} : req'[q].pc = req[q].pc
    BY <2>1, HistoryTyped, OneMoves DEF SameButQuiet
  <2>3. req[r].pc = "extract" /\ safe' = safe
    BY <1>5 DEF Extract, At
  <2>4. Cardinality(Batched') = depth - 1 /\ depth >= 1
    BY <2>2, <2>3, BatchesMove, BatchesCounted DEF Batch
  <2>5. EndBatch(mem') /\ mem' = WithFacts(mem, fs)
    BY <2>1 DEF EndBatch
  <2>6. mem.notes \subseteq mem'.notes
    BY <1>0, <2>1, <2>5, WithFactsKeeps
  <2>. QED BY <2>3, <2>4, <2>5, <2>6, WritesFlushed
<1>6. ASSUME NEW r \in Requests, ExtractFails(r) \/ IngestFails(r) \/ ListFails(r)
      PROVE  Flushed'
  <2>1. req[r].pc \in {"extract", "list", "read"} /\ safe' = safe /\ mem' = mem
    BY <1>6 DEF ExtractFails, IngestFails, ListFails, At, EndBatch, EndBatchUnwritten
  <2>2. req'[r].pc = "idle" /\ \A q \in Requests \ {r} : req'[q].pc = req[q].pc
    BY ZenonT(60), <1>6, EnterTyped, OneMoves DEF ExtractFails, IngestFails, ListFails, SameButQuiet, Steps
  <2>3. Cardinality(Batched') = depth - 1 /\ depth >= 1
    BY <2>1, <2>2, BatchesMove, BatchesCounted DEF Batch
  <2>4. CASE EndBatch(mem)
    BY <2>1, <2>3, <2>4, WritesFlushed
  <2>5. CASE EndBatchUnwritten
    BY <1>0, <2>1, <2>3, <2>5 DEF EndBatchUnwritten, Flushed
  <2>. QED BY <1>6, <2>4, <2>5 DEF ExtractFails, IngestFails, ListFails
<1>7. ASSUME NEW r \in Requests, ReadHead(r)
      PROVE  Flushed'
  <2>1. req[r].pc = "head" /\ UNCHANGED <<mem, disk, dirty, safe>>
    BY <1>7 DEF ReadHead, At
  <2>2. CASE head = req[r].cursor
    <3>1. req'[r].pc = "idle" /\ depth' = depth /\ \A q \in Requests \ {r} : req'[q].pc = req[q].pc
      <4>1. req' = [req EXCEPT ![r] = Idle] /\ depth' = depth
        BY <1>7, <2>2, ReadHeadDoes
      <4>2. Idle \in Asking /\ Idle.pc = "idle"
        BY EnterTyped DEF Steps
      <4>. QED BY ZenonT(60), <4>1, <4>2, OneMoves DEF SameButQuiet
    <3>2. Cardinality(Batched') = depth
      BY <2>1, <3>1, BatchesMove DEF Batch
    <3>. QED BY <2>1, <3>1, <3>2 DEF Flushed
  <2>3. CASE head # req[r].cursor
    <3>1. req'[r].pc = "list" /\ depth' = depth + 1 /\ \A q \in Requests \ {r} : req'[q].pc = req[q].pc
      BY <1>7, <2>3, ReadHeadDoes, OneMoves DEF SameButQuiet
    <3>2. Cardinality(Batched') = depth + 1
      BY <2>1, <3>1, BatchesMove DEF Batch
    <3>. QED BY <1>0, <2>1, <3>1, <3>2 DEF Flushed
  <2>. QED BY <2>2, <2>3
<1>8. ASSUME NEW r \in Requests, List(r)
      PROVE  Flushed'
  <2>1. req[r].pc = "list" /\ UNCHANGED safe
    BY <1>8 DEF List, At
  <2>2. CASE Finish(r, mem)
    BY <1>0, <2>1, <2>2, FinishFlushed DEF At
  <2>3. CASE ~Finish(r, mem)
    <3>1. /\ req'[r].pc = "read" /\ UNCHANGED <<mem, disk, depth, dirty>>
          /\ \A q \in Requests \ {r} : req'[q].pc = req[q].pc
      BY <1>8, <2>3, ListDoes, OneMoves DEF SameButQuiet
    <3>2. Cardinality(Batched') = depth
      BY <2>1, <3>1, BatchesMove DEF Batch
    <3>. QED BY <2>1, <3>1, <3>2 DEF Flushed
  <2>. QED BY <2>2, <2>3
<1>9. ASSUME NEW r \in Requests, Ingest(r)
      PROVE  Flushed'
  <2>. DEFINE c == Oldest(req[r].todo)
  <2>1. req[r].pc = "read" /\ UNCHANGED safe /\ c \in Commits
    BY <1>9, IngestDoes DEF Ingest, At
  <2>. HIDE DEF c
  <2>2. /\ WithCommit(mem, c) \in Memories /\ Described(WithCommit(mem, c))
        /\ WithCommit(mem, c).notes = mem.notes
    BY <1>0, <2>1, WithCommitKeeps
  <2>3. CASE Finish(r, WithCommit(mem, c))
    BY <2>1, <2>2, <2>3, FinishFlushed DEF At
  <2>4. CASE ~Finish(r, WithCommit(mem, c))
    <3>1. /\ req'[r].pc = "read" /\ UNCHANGED <<disk, depth>> /\ dirty' = TRUE
          /\ mem' = WithCommit(mem, c) /\ \A q \in Requests \ {r} : req'[q].pc = req[q].pc
      <4>1. /\ UNCHANGED <<disk, depth>> /\ dirty' = TRUE /\ mem' = WithCommit(mem, c)
            /\ \E a \in Asking : req' = [req EXCEPT ![r] = a] /\ a.pc = "read"
        BY <1>9, <2>4, IngestDoes DEF c
      <4>. QED BY <4>1, OneMoves DEF SameButQuiet
    <3>2. Cardinality(Batched') = depth /\ depth >= 1
      BY <2>1, <3>1, BatchesMove, BatchesCounted DEF Batch
    <3>. QED BY <2>1, <2>2, <3>1, <3>2, WritesFlushed
  <2>. QED BY <2>3, <2>4
<1>10. ASSUME NEW n \in Notes, Note(n)
       PROVE  Flushed'
  <2>1. Batched' = Batched
    BY <1>10 DEF Note, Batched
  <2>2. mem'.notes = mem.notes \cup {n} /\ Put(mem') /\ safe' = (IF depth = 0 THEN safe \cup {n} ELSE safe)
    BY <1>0, <1>10, NoteKeeps DEF Note, Put
  <2>3. depth = 0 => disk' = mem'
    BY <2>2 DEF Put
  <2>. QED BY <2>1, <2>2, <2>3, WritesFlushed DEF Flushed
<1>11. ASSUME NEW p \in Paths, NEW c \in Contents \cup {Absent, Unreadable}, Edit(p, c)
       PROVE  Flushed'
  <2>1. \A q \in Requests : req'[q].pc = req[q].pc
    BY <1>11, DisturbedKeeps DEF Edit, SameButQuiet, Sorts, AskedOK
  <2>2. Batched' = Batched
    BY <2>1 DEF Batched
  <2>. QED BY <1>11, <2>2 DEF Edit, Flushed
<1>12. ASSUME NEW c \in Commits, MoveHead(c) \/ Prune
       PROVE  Flushed'
  <2>1. \A q \in Requests : req'[q].pc = req[q].pc
    BY <1>12, DisturbedKeeps DEF MoveHead, Prune, SameButQuiet, Sorts, AskedOK
  <2>2. Batched' = Batched
    BY <2>1 DEF Batched
  <2>3. UNCHANGED <<mem, disk, depth, dirty, safe>>
    BY <1>12 DEF MoveHead, Prune
  <2>. QED BY <2>2, <2>3 DEF Flushed
<1>13. CASE Crash
  <2>1. \A q \in Requests : req'[q].pc = "idle"
    BY <1>13, EnterTyped DEF Crash, Steps
  <2>2. Batched' = {}
    BY <2>1 DEF Batched, Batch
  <2>3. Cardinality(Batched') = 0
    BY <2>2, FS_EmptySet
  <2>. QED BY <1>13, <2>3 DEF Crash, Flushed
<1>14. CASE UNCHANGED vars
  <2>1. Batched' = Batched
    BY <1>14 DEF vars, Batched
  <2>. QED BY <1>14, <2>1 DEF vars, Flushed
<1>15. head \in Commits
  BY DEF Sorts, RestOK
<1>16. ASSUME NEW r \in Requests, HeadUnread(r)
       PROVE  Flushed'
  <2>1. req[r].pc = "head" /\ UNCHANGED <<mem, disk, depth, dirty, safe>>
    BY <1>16 DEF HeadUnread, At
  <2>2. req'[r].pc = "idle" /\ \A q \in Requests \ {r} : req'[q].pc = req[q].pc
    BY <1>16, HeadUnreadDoes DEF SameButQuiet
  <2>3. Cardinality(Batched') = depth
    BY <2>1, <2>2, BatchesMove DEF Batch
  <2>. QED BY <2>1, <2>3 DEF Flushed
<1>17. ASSUME NEW r \in Requests, Relist(r)
       PROVE  Flushed'
  <2>1. req[r].pc = "list" /\ UNCHANGED <<mem, disk, depth, dirty, safe>>
    BY <1>17 DEF Relist, At
  <2>2. req'[r].pc = "read" /\ \A q \in Requests \ {r} : req'[q].pc = req[q].pc
    BY <1>17, RelistDoes, OneMoves DEF SameButQuiet
  <2>3. Cardinality(Batched') = depth
    BY <2>1, <2>2, BatchesMove DEF Batch
  <2>. QED BY <2>1, <2>3 DEF Flushed
<1>. QED BY <1>1, <1>2, <1>3, <1>4, <1>5, <1>6, <1>7, <1>8, <1>9, <1>10, <1>11, <1>12, <1>13, <1>14, <1>15,
            <1>16, <1>17
     DEF Next

\* ------------------------------------------------------ types, step by step
LEMMA StepSorts ==
    ASSUME Sorts, Flushed, [Next]_vars
    PROVE  Sorts'
<1>1. CASE UNCHANGED vars
  BY <1>1 DEF vars, Sorts, StoreOK, AskedOK, RestOK, Asked, At, ProvenanceExact, Described,
              Known, Ingested
<1>. QED BY <1>1, CallIndexDoes, CallRebuildDoes, CompareDoes, ScanDoes, ExtractDoes,
            ExtractFailsDoes, ReadHeadDoes, HeadUnreadDoes, ListDoes, RelistDoes, IngestDoes,
            IngestFailsDoes, NoteDoes,
            EnvironmentDoes DEF Next

LEMMA StepRepository ==
    ASSUME Sorts, Repository, [Next]_vars
    PROVE  Repository'
<1>1. CASE UNCHANGED <<head, pruned>>
  BY <1>1 DEF Repository
<1>2. ASSUME NEW c \in Commits, MoveHead(c)
      PROVE  Repository'
  BY <1>2 DEF MoveHead, Repository
<1>3. CASE Prune
  <2>1. head' = head /\ pruned' = Commits \ Ancestors(head) /\ head \in Commits
    BY <1>3 DEF Prune, Sorts, RestOK
  <2>2. Founded(head)
    BY <2>1, AncestorsFounded
  <2>. QED BY <2>1, <2>2 DEF Repository, Founded
<1>4. UNCHANGED <<head, pruned>> \/ (\E c \in Commits : MoveHead(c)) \/ Prune
  BY DEF Next, vars, repo, CallIndex, CallRebuild, Compare, Scan, Extract, ExtractFails, ReadHead,
         HeadUnread, List, Relist, ListFails, Ingest, IngestFails, Note, Edit, Crash
<1>. QED BY <1>1, <1>2, <1>3, <1>4

\* ------------------------------------------------------------- the history
\* A memory with the same history holds as much of it.
LEMMA HeldSame ==
    ASSUME NEW m, NEW n, SameHistory(m, n)
    PROVE  Ingested(n) = Ingested(m) /\ (Held(m) => Held(n))
  BY DEF SameHistory, Held, Linked, Ingested

\* A request that stays where it is keeps what it has listed while the memory only grows.
LEMMA ListedKept ==
    ASSUME NEW q \in Requests, Listed(q), SameButQuiet(q), head' = head,
           Ingested(mem) \subseteq Ingested(mem')
    PROVE  Listed(q)'
<1>1. Ingested(mem)' = Ingested(mem')
  BY DEF Ingested
<1>. QED BY <1>1 DEF Listed, SameButQuiet, At

\* A step that leaves the history of the memory alone.
LEMMA HistoryUntouched ==
    ASSUME Complete, NEW r \in Requests, SameHistory(mem, mem'), disk' = disk \/ disk' = mem',
           hurt'.missed = hurt.missed, head' = head,
           \A q \in Requests \ {r} : SameButQuiet(q),
           \/ SameButQuiet(r)
           \/ req'[r].pc \in {"idle", "known", "scan", "extract"}
           \/ req'[r].pc = "head" /\ req'[r].cursor = mem.cursor
           \/ /\ req'[r].pc = "list" /\ req[r].pc = "head" /\ req'[r].head = head
              /\ req'[r].cursor = req[r].cursor /\ head \in Ancestors(head)
    PROVE  Complete'
<1>. SUFFICES ASSUME ~hurt.missed
     PROVE  Held(mem)' /\ Held(disk)' /\ \A q \in Requests : Listed(q)'
  BY DEF Complete
<1>1. Held(mem) /\ Held(disk) /\ \A q \in Requests : Listed(q)
  BY DEF Complete
<1>2. Ingested(mem') = Ingested(mem) /\ Held(mem')
  BY <1>1, HeldSame
<1>3. Held(mem)' /\ Held(disk)'
  BY <1>1, <1>2 DEF Held, Linked, Ingested
<1>4. ASSUME NEW q \in Requests \ {r}
      PROVE  Listed(q)'
  BY <1>1, <1>2, <1>4, ListedKept
<1>5. Listed(r)'
  <2>1. CASE SameButQuiet(r)
    BY <1>1, <1>2, <2>1, ListedKept
  <2>2. Ingested(mem)' = Ingested(mem')
    BY DEF Ingested
  <2>3. CASE req'[r].pc \in {"idle", "known", "scan", "extract"}
    BY <2>3 DEF Listed, At
  <2>4. CASE req'[r].pc = "head" /\ req'[r].cursor = mem.cursor
    BY <1>1, <1>2, <2>2, <2>4 DEF Listed, At, Held
  <2>5. CASE /\ req'[r].pc = "list" /\ req[r].pc = "head" /\ req'[r].head = head
             /\ req'[r].cursor = req[r].cursor /\ head \in Ancestors(head)
    BY <1>1, <1>2, <2>2, <2>5 DEF Listed, At
  <2>. QED BY <2>1, <2>3, <2>4, <2>5
<1>. QED BY <1>3, <1>4, <1>5

\* What git lists and what the cursor stands for are all of the branch.
LEMMA UnseenCovers ==
    ASSUME head \in Commits, NEW cursor, NEW c \in Ancestors(head)
    PROVE  /\ Ancestors(c) \subseteq Ancestors(cursor) \cup Unseen(cursor)
           /\ \A a \in Ancestors(c) : a <= c
<1>1. Ancestors(c) \subseteq Ancestors(head) /\ c \in Commits
  BY AncestorsFounded DEF Founded
<1>2. \A a \in Ancestors(c) : a <= c
  BY <1>1, AncestorsFounded DEF Founded
<1>3. Ancestors(head) \subseteq Ancestors(cursor) \cup Unseen(cursor)
  BY Ancestry DEF Unseen
<1>. QED BY <1>1, <1>2, <1>3

\* The cursor goes to a commit all of whose ancestors are held.
LEMMA HeldAtCursor ==
    ASSUME NEW m \in Memories, Described(m), Linked(m), NEW c \in Commits,
           Ancestors(c) \subseteq Ingested(m)
    PROVE  LET n == WithCursor(m, c) IN Held(n) /\ Ingested(n) = Ingested(m)
<1>. DEFINE n == WithCursor(m, c)
<1>1. n.counted = m.counted /\ n.reverted = m.reverted /\ n.cursor = c
  BY WithCursorKeeps
<1>. HIDE DEF n
<1>2. Ingested(n) = Ingested(m)
  BY <1>1 DEF Ingested
<1>. QED BY <1>1, <1>2 DEF Held, Linked, n

\* The oldest commit to read comes after its ancestors, and after what it reverts.
LEMMA CommitHeld ==
    ASSUME NEW m \in Memories, Described(m), Linked(m),
           NEW todo \in SUBSET Commits, NEW c \in todo, \A d \in todo : c <= d,
           Ancestors(c) \subseteq Ingested(m) \cup {d \in todo : d <= c}
    PROVE  LET n == WithCommit(m, c) IN Held(n) /\ Ingested(n) = Ingested(m) \cup {c}
<1>. DEFINE n == WithCommit(m, c)
<1>1. /\ n.reverted = m.reverted \cup ({Reverts[c]} \cap Ingested(m)) /\ n.cursor = c
      /\ Ingested(n) = Ingested(m) \cup {c}
  BY WithCommitKeeps
<1>. HIDE DEF n
<1>2. Ancestors(c) \subseteq Ingested(m) \cup {c}
  <2>1. \A d \in todo : d \in Nat
    BY CommitsByDate
  <2>2. \A d \in todo : d <= c => d = c
    BY <2>1
  <2>. QED BY <2>2
<1>3. ASSUME Reverts[c] # None
      PROVE  Reverts[c] \in Ingested(m)
  BY <1>2, <1>3, RevertsOwnHistory
<1>4. Linked(n)
  BY <1>1, <1>3 DEF Linked
<1>. QED BY <1>1, <1>2, <1>4 DEF Held, n

LEMMA HeldIsLinked == \A m : Held(m) => Linked(m)
  BY DEF Held

\* The last step of an ingestion.
LEMMA FinishComplete ==
    ASSUME Sorts, Flushed, Complete, NEW r \in Requests, At(r, "list") \/ At(r, "read"),
           NEW m \in Memories, Described(m), ~hurt.missed =>
               Linked(m) /\ Ingested(mem) \subseteq Ingested(m)
               /\ Ancestors(req[r].head) \subseteq Ingested(m),
           Finish(r, m), head' = head
    PROVE  Complete'
<1>1. /\ req[r].head \in Commits /\ req' = [req EXCEPT ![r] = Idle]
      /\ mem' = WithCursor(m, req[r].head) /\ EndBatch(mem')
      /\ hurt' = [hurt EXCEPT !.answered = req[r].quiet, !.unread = FALSE]
  BY FinishDoes
<1>2. hurt'.missed = hurt.missed
  BY <1>1 DEF Sorts, RestOK
<1>. SUFFICES ASSUME ~hurt.missed
     PROVE  Held(mem)' /\ Held(disk)' /\ \A q \in Requests : Listed(q)'
  BY <1>2 DEF Complete
<1>3. Held(mem') /\ Ingested(mem') = Ingested(m)
  BY <1>1, HeldAtCursor
<1>4. Held(mem)' /\ Held(disk)'
  <2>1. disk' = disk \/ disk' = mem'
    BY <1>1 DEF EndBatch
  <2>. QED BY <1>3, <2>1 DEF Complete, Held, Linked, Ingested
<1>5. req'[r].pc = "idle" /\ \A q \in Requests \ {r} : SameButQuiet(q)
  <2>1. Idle \in Asking /\ Idle.pc = "idle"
    BY EnterTyped DEF Steps
  <2>. QED BY <1>1, <2>1, OneMoves
<1>6. Listed(r)'
  BY <1>5 DEF Listed, At
<1>7. ASSUME NEW q \in Requests \ {r}
      PROVE  Listed(q)'
  BY <1>3, <1>5, ListedKept DEF Complete
<1>. QED BY <1>4, <1>6, <1>7

\* A listed request reads commits that close the gap to its HEAD.
LEMMA TakenUpComplete ==
    ASSUME Sorts, Complete, NEW r \in Requests, At(r, "list"), NEW todo,
           UNCHANGED <<mem, disk, head>>, hurt'.missed = hurt.missed,
           \E a \in Asking : /\ req' = [req EXCEPT ![r] = a] /\ a.pc = "read"
                            /\ a.head = req[r].head /\ a.todo = todo,
           ~hurt.missed =>
               /\ Ancestors(req[r].head) \subseteq Ingested(mem) \cup todo
               /\ \A c \in todo : Ancestors(c) \subseteq Ingested(mem) \cup {d \in todo : d <= c}
    PROVE  Complete'
<1>1. /\ req'[r].pc = "read" /\ req'[r].head = req[r].head /\ req'[r].todo = todo
      /\ \A q \in Requests \ {r} : SameButQuiet(q)
  BY OneMoves
<1>. SUFFICES ASSUME ~hurt.missed
     PROVE  Held(mem)' /\ Held(disk)' /\ \A q \in Requests : Listed(q)'
  BY DEF Complete
<1>2. Held(mem)' /\ Held(disk)'
  BY DEF Complete, Held, Linked, Ingested
<1>3. Listed(r)'
  BY <1>1 DEF Listed, At, Ingested
<1>4. ASSUME NEW q \in Requests \ {r}
      PROVE  Listed(q)'
  BY <1>1, ListedKept DEF Complete
<1>. QED BY <1>2, <1>3, <1>4

LEMMA ListComplete ==
    ASSUME Sorts, Flushed, Complete, NEW r \in Requests, List(r)
    PROVE  Complete'
<1>. DEFINE cursor == req[r].cursor
            todo == Unseen(cursor)
<1>1. At(r, "list") /\ head' = head /\ mem \in Memories /\ Described(mem) /\ head \in Commits
  BY DEF List, Sorts, StoreOK, RestOK, ProvenanceExact, repo
<1>2. ASSUME ~hurt.missed
      PROVE  /\ Held(mem) /\ Held(disk) /\ Linked(mem)
             /\ Ancestors(req[r].head) \subseteq Ingested(mem) \cup todo
             /\ \A c \in todo : Ancestors(c) \subseteq Ingested(mem) \cup {d \in todo : d <= c}
  <2>1. /\ Held(mem) /\ Held(disk) /\ Linked(mem)
        /\ Ancestors(cursor) \subseteq Ingested(mem) /\ req[r].head \in Ancestors(head)
    BY <1>1, <1>2 DEF Complete, Listed, Held
  <2>2. Ancestors(req[r].head) \subseteq Ancestors(cursor) \cup todo
    BY <1>1, <2>1, UnseenCovers
  <2>3. ASSUME NEW c \in todo
        PROVE  Ancestors(c) \subseteq Ingested(mem) \cup {d \in todo : d <= c}
    <3>1. c \in Ancestors(head)
      BY <1>1, UnseenTyped
    <3>. HIDE DEF todo
    <3>. QED BY <1>1, <2>1, <3>1, UnseenCovers DEF todo
  <2>. QED BY <2>1, <2>2, <2>3
<1>3. CASE todo = {} /\ Finish(r, mem)
  BY <1>1, <1>2, <1>3, FinishComplete
<1>4. CASE ~(todo = {} /\ Finish(r, mem))
  <2>1. /\ UNCHANGED <<mem, disk, hurt>>
        /\ \E a \in Asking : /\ req' = [req EXCEPT ![r] = a] /\ a.pc = "read"
                             /\ a.head = req[r].head /\ a.todo = todo
    BY <1>4, ListDoes
  <2>. HIDE DEF todo
  <2>. QED BY <1>1, <1>2, <2>1, TakenUpComplete
<1>. QED BY <1>3, <1>4

LEMMA RelistComplete ==
    ASSUME Sorts, Complete, NEW r \in Requests, Relist(r)
    PROVE  Complete'
<1>. DEFINE todo == Ancestors(head)
<1>1. /\ At(r, "list") /\ head' = head /\ head \in Commits /\ UNCHANGED <<mem, disk>>
      /\ hurt'.missed = hurt.missed
  BY DEF Relist, Sorts, RestOK, Disturbances, repo
<1>2. \E a \in Asking : /\ req' = [req EXCEPT ![r] = a] /\ a.pc = "read"
                        /\ a.head = req[r].head /\ a.todo = todo
  BY RelistDoes
<1>3. ASSUME ~hurt.missed
      PROVE  /\ Ancestors(req[r].head) \subseteq Ingested(mem) \cup todo
             /\ \A c \in todo : Ancestors(c) \subseteq Ingested(mem) \cup {d \in todo : d <= c}
  <2>1. req[r].head \in Ancestors(head)
    BY <1>1, <1>3 DEF Complete, Listed
  <2>2. Founded(head)
    BY <1>1, AncestorsFounded
  <2>3. \A c \in todo : Founded(c)
    BY <2>2, AncestorsFounded DEF Founded
  <2>. QED BY <2>1, <2>2, <2>3 DEF Founded
<1>. HIDE DEF todo
<1>. QED BY <1>1, <1>2, <1>3, TakenUpComplete

LEMMA IngestComplete ==
    ASSUME Sorts, Flushed, Complete, NEW r \in Requests, Ingest(r)
    PROVE  Complete'
<1>. DEFINE todo == req[r].todo
            c == Oldest(todo)
            rest == todo \ {c}
            m == WithCommit(mem, c)
<1>1. /\ At(r, "read") /\ head' = head /\ mem \in Memories /\ Described(mem)
      /\ todo \in SUBSET Commits /\ c \in todo /\ c \in Commits /\ \A d \in todo : c <= d
  BY IngestDoes DEF Ingest, Sorts, StoreOK, AskedOK, Asking, ProvenanceExact, repo
<1>2. m \in Memories /\ Described(m)
  BY <1>1, WithCommitKeeps
<1>3. ASSUME ~hurt.missed
      PROVE  /\ Held(mem) /\ Held(disk) /\ Held(m) /\ Ingested(m) = Ingested(mem) \cup {c}
             /\ Ancestors(req[r].head) \subseteq Ingested(mem) \cup todo
             /\ \A d \in todo : Ancestors(d) \subseteq Ingested(mem) \cup {e \in todo : e <= d}
  <2>1. /\ Held(mem) /\ Held(disk) /\ Linked(mem)
        /\ Ancestors(req[r].head) \subseteq Ingested(mem) \cup todo
        /\ \A d \in todo : Ancestors(d) \subseteq Ingested(mem) \cup {e \in todo : e <= d}
    BY <1>1, <1>3 DEF Complete, Listed, Held
  <2>. HIDE DEF c, todo
  <2>2. Held(m) /\ Ingested(m) = Ingested(mem) \cup {c}
    BY <1>1, <2>1, CommitHeld
  <2>. QED BY <2>1, <2>2
<1>4. CASE rest = {} /\ Finish(r, m)
  <2>1. ~hurt.missed => /\ Linked(m) /\ Ingested(mem) \subseteq Ingested(m)
                        /\ Ancestors(req[r].head) \subseteq Ingested(m)
    BY <1>1, <1>3, <1>4, HeldIsLinked
  <2>. HIDE DEF m
  <2>. QED BY <1>1, <1>2, <1>4, <2>1, FinishComplete
<1>5. CASE ~(rest = {} /\ Finish(r, m))
  <2>1. /\ mem' = m /\ UNCHANGED <<disk, hurt>>
        /\ \E a \in Asking : /\ req' = [req EXCEPT ![r] = a] /\ a.pc = "read"
                             /\ a.head = req[r].head /\ a.todo = rest
    BY <1>5, IngestDoes
  <2>2. /\ req'[r].pc = "read" /\ req'[r].head = req[r].head /\ req'[r].todo = rest
        /\ \A q \in Requests \ {r} : SameButQuiet(q)
    BY <2>1, OneMoves
  <2>. HIDE DEF todo, c, m
  <2>. SUFFICES ASSUME ~hurt.missed
       PROVE  Held(mem)' /\ Held(disk)' /\ \A q \in Requests : Listed(q)'
    BY <2>1 DEF Complete
  <2>3. Held(mem)' /\ Held(disk)'
    BY <1>3, <2>1 DEF Held, Linked, Ingested
  <2>4. Ingested(mem)' = Ingested(mem) \cup {c}
    BY <1>3, <2>1 DEF Ingested
  <2>5. Listed(r)'
    <3>1. Ancestors(req[r].head) \subseteq Ingested(mem)' \cup rest
      BY <1>3, <2>4
    <3>2. \A d \in rest : Ancestors(d) \subseteq Ingested(mem)' \cup {e \in rest : e <= d}
      BY <1>3, <2>4
    <3>. HIDE DEF rest
    <3>. QED BY <2>2, <3>1, <3>2 DEF Listed, At
  <2>6. ASSUME NEW q \in Requests \ {r}
        PROVE  Listed(q)'
    BY <1>1, <1>3, <2>1, <2>2, ListedKept DEF Complete
  <2>. QED BY <2>3, <2>5, <2>6
<1>. QED BY <1>4, <1>5

\* A rebuild starts from nothing, in the memory and in the journal.
LEMMA RebuildClears ==
    ASSUME Sorts, Flushed, NEW r \in Requests, CallRebuild(r)
    PROVE  /\ disk' = mem' /\ Ingested(mem') = {}
           /\ mem'.cursor = None /\ mem'.facts = {} /\ mem'.files = Empty.files
           /\ mem'.counted = Empty.counted
           /\ req'[r].pc = "scan" /\ \A q \in Requests \ {r} : SameButQuiet(q) /\ req'[q].pc = "idle"
<1>1. \A q \in Requests : req[q].pc = "idle"
  BY DEF CallRebuild, Alone, Active
<1>2. depth = 0
  <2>1. Batched = {}
    BY <1>1 DEF Batched, Batch
  <2>. QED BY <2>1, FS_EmptySet DEF Flushed
<1>3. mem' = FactsCleared(mem) /\ disk' = mem'
  BY <1>2 DEF CallRebuild, PutThenBatch
<1>4. /\ mem'.counted = Empty.counted /\ mem'.cursor = None /\ mem'.facts = {}
      /\ mem'.files = Empty.files
  BY <1>3, FactsClearedKeeps DEF Sorts, StoreOK, ProvenanceExact
<1>5. Ingested(mem') = {}
  BY <1>4 DEF Ingested, Empty
<1>6. req'[r].pc = "scan" /\ \A q \in Requests \ {r} : SameButQuiet(q)
  BY CallRebuildDoes, OneMoves
<1>. QED BY <1>1, <1>3, <1>4, <1>5, <1>6 DEF SameButQuiet

LEMMA StepComplete ==
    ASSUME Sorts, Flushed, Complete, [Next]_vars
    PROVE  Complete'
<1>0. /\ mem \in Memories /\ disk \in Memories /\ Described(mem) /\ tree \in Files /\ head \in Commits
      /\ head \in Ancestors(head)
      /\ hurt \in Disturbances
  BY AncestorsFounded DEF Sorts, StoreOK, RestOK, ProvenanceExact, Founded
<1>1. ASSUME NEW r \in Requests, CallIndex(r)
      PROVE  Complete'
  <2>1. req'[r].pc = "known" /\ \A q \in Requests \ {r} : SameButQuiet(q)
    BY <1>1, CallIndexDoes, OneMoves
  <2>2. SameHistory(mem, mem') /\ disk' = disk /\ head' = head /\ hurt'.missed = hurt.missed
    BY <1>0, <1>1 DEF CallIndex, SameHistory, repo
  <2>. QED BY <2>1, <2>2, HistoryUntouched
<1>2. ASSUME NEW r \in Requests, CallRebuild(r)
      PROVE  Complete'
  <2>1. /\ disk' = mem' /\ Ingested(mem') = {} /\ mem'.cursor = None
        /\ \A q \in Requests : req'[q].pc \in {"scan", "idle"}
    BY <1>2, RebuildClears
  <2>2. Held(mem)' /\ Held(disk)'
    BY <2>1, Ancestry DEF Held, Linked, Ingested
  <2>3. \A q \in Requests : Listed(q)'
    BY <2>1 DEF Listed, At
  <2>. QED BY <2>2, <2>3 DEF Complete
<1>3. ASSUME NEW r \in Requests, Compare(r)
      PROVE  Complete'
  <2>1. /\ \A q \in Requests \ {r} : SameButQuiet(q)
        /\ \/ req'[r].pc = "scan"
           \/ req'[r].pc = "head" /\ req'[r].cursor = mem.cursor
    BY <1>3, CompareDoes, HistoryTyped, OneMoves
  <2>2. head' = head /\ hurt'.missed = hurt.missed
    BY <1>0, <1>3 DEF Compare, repo, Disturbances
  <2>3. SameHistory(mem, mem') /\ (disk' = disk \/ disk' = mem')
    <3>1. SameHistory(mem, mem) /\ SameHistory(mem, GraphCleared(mem))
      BY <1>0, GraphClearedKeeps DEF SameHistory
    <3>. QED BY <1>3, <3>1 DEF Compare, PutThenBatch
  <2>. QED BY <2>1, <2>2, <2>3, HistoryUntouched
<1>4. ASSUME NEW r \in Requests, Scan(r)
      PROVE  Complete'
  <2>1. req'[r].pc = "extract" /\ \A q \in Requests \ {r} : SameButQuiet(q)
    BY <1>4, ScanDoes, OneMoves
  <2>2. SameHistory(mem, mem') /\ disk' = disk /\ head' = head /\ hurt'.missed = hurt.missed
    BY <1>0, <1>4, WithFilesKeeps DEF Scan, repo, Disturbances
  <2>. QED BY <2>1, <2>2, HistoryUntouched
<1>5. ASSUME NEW r \in Requests, Extract(r)
      PROVE  Complete'
  <2>. DEFINE fs == {<<p, tree[p]>> : p \in {q \in Paths : req[r].seen[q] # Absent}}
  <2>1. ToHistory(r) /\ EndBatch(WithFacts(mem, fs)) /\ fs \in SUBSET Facts
    BY <1>5, ExtractDoes
  <2>. HIDE DEF fs
  <2>2. /\ req'[r].pc = "head" /\ req'[r].cursor = mem.cursor
        /\ \A q \in Requests \ {r} : SameButQuiet(q)
    BY <2>1, HistoryTyped, OneMoves
  <2>3. SameHistory(mem, mem') /\ (disk' = disk \/ disk' = mem')
    BY <1>0, <2>1, WithFactsKeeps DEF EndBatch
  <2>4. head' = head /\ hurt'.missed = hurt.missed
    BY <1>0, <1>5 DEF Extract, repo
  <2>. QED BY <2>2, <2>3, <2>4, HistoryUntouched
<1>6. ASSUME NEW r \in Requests, ExtractFails(r) \/ IngestFails(r) \/ ListFails(r)
      PROVE  Complete'
  <2>1. /\ mem' = mem /\ (disk' = disk \/ disk' = mem') /\ head' = head
        /\ hurt'.missed = hurt.missed /\ req' = [req EXCEPT ![r] = Idle]
    BY <1>0, <1>6 DEF ExtractFails, IngestFails, ListFails, EndBatch, EndBatchUnwritten,
                      Disturbances, repo
  <2>2. Idle \in Asking /\ Idle.pc = "idle"
    BY EnterTyped DEF Steps
  <2>3. req'[r].pc = "idle" /\ \A q \in Requests \ {r} : SameButQuiet(q)
    BY <2>1, <2>2, OneMoves
  <2>. QED BY <2>1, <2>3, HistoryUntouched DEF SameHistory
<1>7. ASSUME NEW r \in Requests, ReadHead(r)
      PROVE  Complete'
  <2>1. /\ mem' = mem /\ disk' = disk /\ head' = head /\ hurt'.missed = hurt.missed
        /\ req[r].pc = "head"
    BY <1>0, <1>7 DEF ReadHead, repo, At, Disturbances
  <2>2. Idle \in Asking /\ Idle.pc = "idle"
    BY EnterTyped DEF Steps
  <2>3. /\ \A q \in Requests \ {r} : SameButQuiet(q)
        /\ \/ req'[r].pc = "idle"
           \/ req'[r].pc = "list" /\ req'[r].head = head /\ req'[r].cursor = req[r].cursor
    <3>1. CASE head = req[r].cursor
      BY <1>7, <2>2, <3>1, ReadHeadDoes, OneMoves
    <3>2. CASE head # req[r].cursor
      BY <1>7, <3>2, ReadHeadDoes, OneMoves
    <3>. QED BY <3>1, <3>2
  <2>. QED BY <1>0, <2>1, <2>3, HistoryUntouched DEF SameHistory
<1>8. ASSUME NEW r \in Requests, List(r)
      PROVE  Complete'
  BY <1>8, ListComplete
<1>9. ASSUME NEW r \in Requests, Ingest(r)
      PROVE  Complete'
  BY <1>9, IngestComplete
<1>10. ASSUME NEW n \in Notes, Note(n)
       PROVE  Complete'
  <2>1. SameHistory(mem, mem') /\ (disk' = disk \/ disk' = mem')
    BY <1>0, <1>10, NoteKeeps DEF Note, Put
  <2>2. head' = head /\ hurt' = hurt /\ req' = req
    BY <1>10 DEF Note, repo
  <2>3. Ingested(mem') = Ingested(mem) /\ (Held(mem) => Held(mem'))
    BY <2>1, HeldSame
  <2>4. ~hurt.missed => Held(mem)' /\ Held(disk)'
    BY <2>1, <2>3 DEF Complete, Held, Linked, Ingested
  <2>5. ASSUME ~hurt.missed, NEW q \in Requests
        PROVE  Listed(q)'
    BY <2>2, <2>3, <2>5, ListedKept DEF Complete, SameButQuiet
  <2>. QED BY <2>2, <2>4, <2>5 DEF Complete
<1>11. ASSUME NEW c \in Commits,
              MoveHead(c) \/ Prune \/ \E p \in Paths, d \in Contents \cup {Absent, Unreadable} : Edit(p, d)
       PROVE  Complete'
  <2>1. /\ UNCHANGED <<mem, disk>> /\ \A q \in Requests : SameButQuiet(q)
        /\ hurt.missed => hurt'.missed
        /\ \/ head' = head
           \/ head' = c /\ (hurt'.missed \/ head \in Ancestors(c) \/ \A q \in Requests : ~At(q, "list"))
    BY <1>0, <1>11, DisturbedKeeps DEF MoveHead, Prune, Edit, Sorts, AskedOK, Disturbances
  <2>. SUFFICES ASSUME ~hurt'.missed
       PROVE  Held(mem)' /\ Held(disk)' /\ \A q \in Requests : Listed(q)'
    BY DEF Complete
  <2>2. Held(mem) /\ Held(disk) /\ \A q \in Requests : Listed(q)
    BY <2>1 DEF Complete
  <2>3. Held(mem)' /\ Held(disk)' /\ Ingested(mem)' = Ingested(mem)
    BY <2>1, <2>2 DEF Held, Linked, Ingested
  <2>4. ASSUME NEW q \in Requests
        PROVE  Listed(q)'
    <3>1. CASE head' = head
      BY <2>1, <2>2, <3>1, ListedKept DEF Ingested
    <3>2. CASE head' = c /\ (head \in Ancestors(c) \/ \A s \in Requests : ~At(s, "list"))
      <4>1. head \in Ancestors(c) => Ancestors(head) \subseteq Ancestors(c)
        BY AncestorsFounded DEF Founded
      <4>2. req'[q].pc = req[q].pc /\ req'[q].head = req[q].head /\ req'[q].todo = req[q].todo
            /\ req'[q].cursor = req[q].cursor
        BY <2>1 DEF SameButQuiet
      <4>. QED BY <2>2, <2>3, <3>2, <4>1, <4>2 DEF Listed, At
    <3>. QED BY <2>1, <3>1, <3>2
  <2>. QED BY <2>3, <2>4
<1>12. CASE Crash
  <2>1. mem' = disk /\ disk' = disk /\ hurt'.missed = hurt.missed
    BY <1>0, <1>12 DEF Crash
  <2>2. \A q \in Requests : req'[q].pc = "idle"
    BY <1>12, EnterTyped DEF Crash, Steps
  <2>3. ~hurt.missed => Held(mem)' /\ Held(disk)'
    BY <2>1 DEF Complete, Held, Linked, Ingested
  <2>4. \A q \in Requests : Listed(q)'
    BY <2>2 DEF Listed, At
  <2>. QED BY <2>1, <2>3, <2>4 DEF Complete
<1>13. CASE UNCHANGED vars
  BY <1>13 DEF vars, Complete, Held, Linked, Ingested, Listed, At
<1>14. ASSUME NEW r \in Requests, HeadUnread(r)
       PROVE  Complete'
  <2>1. mem' = mem /\ disk' = disk /\ head' = head /\ hurt'.missed = hurt.missed
    BY <1>0, <1>14 DEF HeadUnread, Disturbances, repo
  <2>2. req'[r].pc = "idle" /\ \A q \in Requests \ {r} : SameButQuiet(q)
    BY <1>14, HeadUnreadDoes
  <2>. QED BY <2>1, <2>2, HistoryUntouched DEF SameHistory
<1>. QED BY <1>0, <1>1, <1>2, <1>3, <1>4, <1>5, <1>6, <1>7, <1>8, <1>9, <1>10, <1>11, <1>12, <1>13,
            <1>14, RelistComplete
     DEF Next

\* ----------------------------------------------------------------- the counts
LEMMA WholeSame ==
    ASSUME NEW m, NEW n, SameHistory(m, n), Whole(m)
    PROVE  Whole(n)
  BY DEF SameHistory, Whole, Tally

LEMMA OnlyOne ==
    ASSUME Single, NEW r \in Requests, Active(r)
    PROVE  \A q \in Requests \ {r} : req[q].pc = "idle"
  BY DEF Single, Active

\* A step of the only request, outside the reading, that leaves the history alone.
LEMMA ExactUntouched ==
    ASSUME Exact, NEW r \in Requests, SameHistory(mem, mem'), disk' = disk \/ disk' = mem',
           hurt'.recounted = hurt.recounted, head' = head,
           \A q \in Requests \ {r} : SameButQuiet(q),
           Active(r), ~At(r, "read"),
           \/ req'[r].pc \in {"idle", "known", "scan", "extract"}
           \/ req'[r].pc = "head" /\ req'[r].cursor = mem.cursor
           \/ /\ req'[r].pc = "list" /\ req[r].pc = "head" /\ req'[r].head = head
              /\ req'[r].cursor = req[r].cursor
    PROVE  Exact'
<1>. SUFFICES ASSUME ~hurt.recounted
     PROVE  /\ Single' /\ Whole(disk)' /\ Whole(mem)'
            /\ \A q \in Requests : Advancing(q)'
  BY DEF Exact
<1>1. Single /\ Whole(disk) /\ \A q \in Requests : Advancing(q)
  BY DEF Exact
<1>2. \A q \in Requests \ {r} : req[q].pc = "idle" /\ req'[q].pc = "idle"
  BY <1>1, OnlyOne DEF SameButQuiet
<1>3. Whole(mem)
  BY <1>2 DEF Exact, At
<1>4. Single'
  BY <1>2 DEF Single, Active
<1>5. Whole(mem)' /\ Whole(disk)'
  <2>1. Whole(mem')
    BY <1>3, WholeSame
  <2>. QED BY <1>1, <2>1 DEF Whole, Tally
<1>6. mem'.cursor = mem.cursor
  BY DEF SameHistory
<1>7. \A q \in Requests : Advancing(q)'
  BY <1>1, <1>2, <1>6 DEF Advancing, At
<1>. QED BY <1>4, <1>5, <1>7

\* git lists, after a cursor on the branch, what the branch has and the cursor has not.
LEMMA UnseenExact ==
    ASSUME Sorts, Repository, NEW cursor \in Ancestors(head) \cup {None}
    PROVE  /\ Ancestors(cursor) \subseteq Ancestors(head)
           /\ Unseen(cursor) = Ancestors(head) \ Ancestors(cursor)
<1>1. head \in Commits /\ pruned \subseteq Commits
  BY DEF Sorts, RestOK
<1>2. Ancestors(head) \cap pruned = {}
  BY <1>1 DEF Repository
<1>3. None \notin pruned
  BY <1>1, CommitsByDate
<1>4. cursor \notin pruned
  BY <1>2, <1>3
<1>5. Ancestors(cursor) \subseteq Ancestors(head)
  BY <1>1, Ancestry, AncestorsFounded DEF Founded
<1>. QED BY <1>4, <1>5 DEF Unseen

LEMMA FinishExact ==
    ASSUME Sorts, Flushed, Exact, NEW r \in Requests, At(r, "list") \/ At(r, "read"),
           NEW m \in Memories, Described(m), Finish(r, m), head' = head,
           ~hurt.recounted => Tally(m, Ancestors(req[r].head)) /\ req[r].head \in Ancestors(head)
    PROVE  Exact'
<1>1. /\ req[r].head \in Commits /\ req' = [req EXCEPT ![r] = Idle]
      /\ mem' = WithCursor(m, req[r].head) /\ EndBatch(mem')
      /\ hurt' = [hurt EXCEPT !.answered = req[r].quiet, !.unread = FALSE]
  BY FinishDoes
<1>2. hurt'.recounted = hurt.recounted
  BY <1>1 DEF Sorts, RestOK
<1>. SUFFICES ASSUME ~hurt.recounted
     PROVE  /\ Single' /\ Whole(disk)' /\ Whole(mem)'
            /\ \A q \in Requests : Advancing(q)'
  BY <1>2 DEF Exact
<1>3. req'[r].pc = "idle" /\ \A q \in Requests \ {r} : SameButQuiet(q)
  <2>1. Idle \in Asking /\ Idle.pc = "idle"
    BY EnterTyped DEF Steps
  <2>. QED BY <1>1, <2>1, OneMoves
<1>4. \A q \in Requests : req'[q].pc = "idle"
  <2>1. Single /\ Active(r)
    BY DEF Exact, Active, At
  <2>. QED BY <1>3, <2>1, OnlyOne DEF SameButQuiet
<1>5. mem'.counted = m.counted /\ mem'.cursor = req[r].head
  BY <1>1, WithCursorKeeps
<1>6. Whole(mem)' /\ Whole(disk)'
  <2>1. disk' = disk \/ disk' = mem'
    BY <1>1 DEF EndBatch
  <2>2. Whole(disk)
    BY DEF Exact
  <2>. QED BY <1>5, <2>1, <2>2 DEF Whole, Tally
<1>. QED BY <1>4, <1>6 DEF Single, Active, Advancing, At

\* The only request takes up exactly what the branch has and its cursor has not.
LEMMA TakenUpExact ==
    ASSUME Sorts, Exact, NEW r \in Requests, At(r, "list"), NEW todo,
           UNCHANGED <<mem, disk, head>>, hurt'.recounted = hurt.recounted,
           \E a \in Asking : /\ req' = [req EXCEPT ![r] = a] /\ a.pc = "read"
                            /\ a.head = req[r].head /\ a.todo = todo,
           ~hurt.recounted => todo = Ancestors(head) \ Ancestors(req[r].cursor)
    PROVE  Exact'
<1>. DEFINE cursor == req[r].cursor
<1>1. head \in Commits /\ head \in Ancestors(head)
  BY AncestorsFounded DEF Sorts, RestOK, Founded
<1>2. /\ req'[r].pc = "read" /\ req'[r].head = req[r].head /\ req'[r].todo = todo
      /\ \A q \in Requests \ {r} : SameButQuiet(q)
  BY OneMoves
<1>. SUFFICES ASSUME ~hurt.recounted
     PROVE  Single' /\ Whole(disk)' /\ \A q \in Requests : Advancing(q)'
  <2>1. At(r, "read")'
    BY <1>2 DEF At
  <2>. QED BY <2>1 DEF Exact
<1>3. /\ Single /\ Whole(disk) /\ cursor = mem.cursor /\ req[r].head = head
      /\ \A q \in Requests \ {r} : req[q].pc = "idle"
  <2>1. Single /\ Whole(disk) /\ cursor = mem.cursor /\ req[r].head = head
    BY DEF Exact, Advancing
  <2>. QED BY <2>1, OnlyOne DEF Active, At
<1>4. Tally(mem, Ancestors(cursor)) /\ Ancestors(cursor) \subseteq Ancestors(head)
  <2>1. Whole(mem)
    BY <1>3 DEF Exact, At
  <2>. QED BY <1>1, <1>3, <2>1, Ancestry, AncestorsFounded DEF Whole, Founded
<1>5. Single'
  BY <1>2, <1>3 DEF Single, Active, SameButQuiet
<1>6. Whole(disk)'
  BY <1>3 DEF Whole, Tally
<1>7. Advancing(r)'
  <2>1. Ancestors(head) \ todo = Ancestors(cursor) /\ todo \subseteq Ancestors(head)
    BY <1>4
  <2>2. Tally(mem', Ancestors(head) \ todo)
    BY <1>4, <2>1
  <2>. QED BY <1>1, <1>2, <1>3, <2>1, <2>2 DEF Advancing, At, Tally
<1>8. ASSUME NEW q \in Requests \ {r}
      PROVE  Advancing(q)'
  BY <1>2, <1>3 DEF Advancing, At, SameButQuiet
<1>. QED BY <1>5, <1>6, <1>7, <1>8

LEMMA ListExact ==
    ASSUME Sorts, Flushed, Repository, Exact, NEW r \in Requests, List(r)
    PROVE  Exact'
<1>. DEFINE cursor == req[r].cursor
            todo == Unseen(cursor)
<1>1. At(r, "list") /\ head' = head /\ mem \in Memories /\ Described(mem) /\ head \in Commits
  BY DEF List, Sorts, StoreOK, RestOK, ProvenanceExact, repo
<1>2. ASSUME ~hurt.recounted
      PROVE  /\ Single /\ Whole(disk) /\ \A q \in Requests \ {r} : req[q].pc = "idle"
             /\ req[r].head = head /\ head \in Ancestors(head)
             /\ Tally(mem, Ancestors(cursor)) /\ Ancestors(cursor) \subseteq Ancestors(head)
             /\ todo = Ancestors(head) \ Ancestors(cursor)
  <2>1. /\ Single /\ Whole(disk) /\ cursor = mem.cursor /\ req[r].head = head
    BY <1>1, <1>2 DEF Exact, Advancing
  <2>2. \A q \in Requests \ {r} : req[q].pc = "idle"
    BY <1>1, <2>1, OnlyOne DEF Active, At
  <2>3. Whole(mem)
    BY <1>1, <1>2, <2>2 DEF Exact, At
  <2>4. head \in Ancestors(head)
    BY <1>1, AncestorsFounded DEF Founded
  <2>. QED BY <2>1, <2>2, <2>3, <2>4, UnseenExact DEF Whole
<1>3. CASE todo = {} /\ Finish(r, mem)
  <2>1. ~hurt.recounted => Tally(mem, Ancestors(req[r].head)) /\ req[r].head \in Ancestors(head)
    <3>1. ~hurt.recounted => Ancestors(cursor) = Ancestors(head)
      BY <1>2, <1>3
    <3>. QED BY <1>2, <3>1
  <2>. QED BY <1>1, <1>3, <2>1, FinishExact
<1>4. CASE ~(todo = {} /\ Finish(r, mem))
  <2>1. /\ UNCHANGED <<mem, disk, hurt>>
        /\ \E a \in Asking : /\ req' = [req EXCEPT ![r] = a] /\ a.pc = "read"
                             /\ a.head = req[r].head /\ a.todo = todo
    BY <1>4, ListDoes
  <2>2. ~hurt.recounted => todo = Ancestors(head) \ Ancestors(cursor)
    BY <1>2
  <2>. HIDE DEF todo
  <2>. QED BY <1>1, <2>1, <2>2, TakenUpExact
<1>. QED BY <1>3, <1>4

LEMMA RelistExact ==
    ASSUME Sorts, Exact, NEW r \in Requests, Relist(r)
    PROVE  Exact'
<1>1. At(r, "list") /\ UNCHANGED <<mem, disk, head>>
  BY DEF Relist, repo
<1>2. hurt'.recounted = (hurt.recounted \/ req[r].cursor # None)
  BY DEF Relist, Sorts, RestOK, Disturbances
<1>3. \E a \in Asking : /\ req' = [req EXCEPT ![r] = a] /\ a.pc = "read"
                        /\ a.head = req[r].head /\ a.todo = Ancestors(head)
  BY RelistDoes
<1>4. CASE hurt'.recounted
  BY <1>4 DEF Exact
<1>5. CASE ~hurt'.recounted
  <2>1. Ancestors(head) = Ancestors(head) \ Ancestors(req[r].cursor)
    BY <1>2, <1>5, Ancestry
  <2>2. hurt'.recounted = hurt.recounted
    <3>1. hurt.recounted \in BOOLEAN
      BY DEF Sorts, RestOK, Disturbances
    <3>. QED BY <1>2, <1>5, <3>1
  <2>. QED BY <1>1, <1>3, <2>1, <2>2, TakenUpExact
<1>. QED BY <1>4, <1>5

LEMMA IngestExact ==
    ASSUME Sorts, Flushed, Exact, NEW r \in Requests, Ingest(r)
    PROVE  Exact'
<1>. DEFINE todo == req[r].todo
            c == Oldest(todo)
            rest == todo \ {c}
            m == WithCommit(mem, c)
<1>1. /\ At(r, "read") /\ head' = head /\ mem \in Memories /\ Described(mem)
      /\ todo \in SUBSET Commits /\ c \in todo /\ c \in Commits
  BY IngestDoes DEF Ingest, Sorts, StoreOK, AskedOK, Asking, ProvenanceExact, repo
<1>2. m \in Memories /\ Described(m) /\ m.counted = [mem.counted EXCEPT ![c] = @ + 1]
  BY <1>1, WithCommitKeeps
<1>3. ASSUME ~hurt.recounted
      PROVE  /\ Single /\ Whole(disk) /\ \A q \in Requests \ {r} : req[q].pc = "idle"
             /\ req[r].head \in Ancestors(head) /\ todo \subseteq Ancestors(req[r].head)
             /\ Tally(m, Ancestors(req[r].head) \ rest)
  <2>1. /\ Single /\ Whole(disk)
        /\ req[r].head \in Ancestors(head) /\ todo \subseteq Ancestors(req[r].head)
        /\ Tally(mem, Ancestors(req[r].head) \ todo)
    BY <1>1, <1>3 DEF Exact, Advancing
  <2>2. \A q \in Requests \ {r} : req[q].pc = "idle"
    BY <1>1, <2>1, OnlyOne DEF Active, At
  <2>3. Tally(m, Ancestors(req[r].head) \ rest)
    <3>1. mem.counted \in [Commits -> Nat]
      BY <1>1 DEF Memories
    <3>. HIDE DEF m, c, todo
    <3>2. ASSUME NEW d \in Commits
          PROVE  m.counted[d] = IF d \in Ancestors(req[r].head) \ rest THEN 1 ELSE 0
      <4>1. mem.counted[d] = IF d \in Ancestors(req[r].head) \ todo THEN 1 ELSE 0
        BY <2>1 DEF Tally
      <4>2. CASE d = c
        BY <1>1, <1>2, <2>1, <3>1, <4>1, <4>2
      <4>3. CASE d # c
        BY <1>1, <1>2, <2>1, <3>1, <4>1, <4>3
      <4>. QED BY <4>2, <4>3
    <3>. QED BY <3>2 DEF Tally
  <2>. QED BY <2>1, <2>2, <2>3
<1>4. CASE rest = {} /\ Finish(r, m)
  <2>1. ~hurt.recounted => Tally(m, Ancestors(req[r].head)) /\ req[r].head \in Ancestors(head)
    <3>1. rest = {} => Ancestors(req[r].head) \ rest = Ancestors(req[r].head)
      OBVIOUS
    <3>. HIDE DEF rest, m
    <3>. QED BY <1>3, <1>4, <3>1
  <2>. HIDE DEF m
  <2>. QED BY <1>1, <1>2, <1>4, <2>1, FinishExact
<1>5. CASE ~(rest = {} /\ Finish(r, m))
  <2>1. /\ mem' = m /\ UNCHANGED <<disk, hurt>>
        /\ \E a \in Asking : /\ req' = [req EXCEPT ![r] = a] /\ a.pc = "read"
                             /\ a.head = req[r].head /\ a.todo = rest
    BY <1>5, IngestDoes
  <2>2. /\ req'[r].pc = "read" /\ req'[r].head = req[r].head /\ req'[r].todo = rest
        /\ \A q \in Requests \ {r} : SameButQuiet(q)
    BY <2>1, OneMoves
  <2>3. rest \subseteq todo
    OBVIOUS
  <2>. HIDE DEF todo, rest, c, m
  <2>. SUFFICES ASSUME ~hurt.recounted
       PROVE  Single' /\ Whole(disk)' /\ \A q \in Requests : Advancing(q)'
    <3>1. At(r, "read")'
      BY <2>2 DEF At
    <3>. QED BY <2>1, <3>1 DEF Exact
  <2>4. Single'
    BY <1>3, <2>2 DEF Single, Active, SameButQuiet
  <2>5. Whole(disk)'
    BY <1>1, <1>3, <2>1 DEF Whole, Tally
  <2>6. Advancing(r)'
    BY <1>1, <1>3, <2>1, <2>2, <2>3 DEF Advancing, At, Tally
  <2>7. ASSUME NEW q \in Requests \ {r}
        PROVE  Advancing(q)'
    BY <1>3, <2>2 DEF Advancing, At, SameButQuiet
  <2>. QED BY <2>4, <2>5, <2>6, <2>7
<1>. QED BY <1>4, <1>5

LEMMA StepExact ==
    ASSUME Sorts, Flushed, Repository, Exact, [Next]_vars
    PROVE  Exact'
<1>0. /\ mem \in Memories /\ disk \in Memories /\ Described(mem) /\ tree \in Files /\ head \in Commits
      /\ hurt \in Disturbances
      /\ req \in [Requests -> Asking]
  BY DEF Sorts, StoreOK, RestOK, AskedOK, ProvenanceExact
<1>1. ASSUME NEW r \in Requests, CallIndex(r)
      PROVE  Exact'
  <2>. SUFFICES ASSUME ~hurt'.recounted PROVE Exact'
    BY DEF Exact
  <2>1. /\ Alone(r) /\ ~hurt.recounted /\ UNCHANGED <<mem, disk, head>> /\ req[r].pc = "idle"
    BY <1>0, <1>1 DEF CallIndex, Alone, repo, Active
  <2>2. req'[r].pc = "known" /\ \A q \in Requests \ {r} : SameButQuiet(q)
    BY <1>1, CallIndexDoes, OneMoves
  <2>3. \A q \in Requests \ {r} : req[q].pc = "idle" /\ req'[q].pc = "idle"
    BY <2>1, <2>2 DEF Alone, Active, SameButQuiet
  <2>4. Single' /\ \A q \in Requests : Advancing(q)'
    BY <2>2, <2>3 DEF Single, Active, Advancing, At
  <2>5. Whole(mem) /\ Whole(disk)
    BY <2>1, <2>3 DEF Exact, At
  <2>6. Whole(mem)' /\ Whole(disk)'
    BY <2>1, <2>5 DEF Whole, Tally
  <2>. QED BY <2>4, <2>6 DEF Exact
<1>2. ASSUME NEW r \in Requests, CallRebuild(r)
      PROVE  Exact'
  <2>1. /\ disk' = mem' /\ mem'.cursor = None /\ mem'.counted = Empty.counted
        /\ req'[r].pc = "scan" /\ \A q \in Requests \ {r} : req'[q].pc = "idle"
    BY <1>2, RebuildClears
  <2>2. Whole(mem)' /\ Whole(disk)'
    BY <2>1, Ancestry DEF Whole, Tally, Empty
  <2>3. Single' /\ \A q \in Requests : Advancing(q)'
    BY <2>1 DEF Single, Active, Advancing, At
  <2>. QED BY <2>2, <2>3 DEF Exact
<1>3. ASSUME NEW r \in Requests, Compare(r)
      PROVE  Exact'
  <2>1. /\ \A q \in Requests \ {r} : SameButQuiet(q)
        /\ \/ req'[r].pc = "scan"
           \/ req'[r].pc = "head" /\ req'[r].cursor = mem.cursor
    BY <1>3, CompareDoes, HistoryTyped, OneMoves
  <2>2. head' = head /\ hurt'.recounted = hurt.recounted /\ Active(r) /\ ~At(r, "read")
    BY <1>0, <1>3 DEF Compare, repo, Active, At, Disturbances
  <2>3. SameHistory(mem, mem') /\ (disk' = disk \/ disk' = mem')
    <3>1. SameHistory(mem, mem) /\ SameHistory(mem, GraphCleared(mem))
      BY <1>0, GraphClearedKeeps DEF SameHistory
    <3>. QED BY <1>3, <3>1 DEF Compare, PutThenBatch
  <2>. QED BY <2>1, <2>2, <2>3, ExactUntouched
<1>4. ASSUME NEW r \in Requests, Scan(r)
      PROVE  Exact'
  <2>1. req'[r].pc = "extract" /\ \A q \in Requests \ {r} : SameButQuiet(q)
    BY <1>4, ScanDoes, OneMoves
  <2>2. /\ SameHistory(mem, mem') /\ disk' = disk /\ head' = head
        /\ hurt'.recounted = hurt.recounted /\ Active(r) /\ ~At(r, "read")
    BY <1>0, <1>4, WithFilesKeeps DEF Scan, repo, Active, At, Disturbances
  <2>. QED BY <2>1, <2>2, ExactUntouched
<1>5. ASSUME NEW r \in Requests, Extract(r)
      PROVE  Exact'
  <2>. DEFINE fs == {<<p, tree[p]>> : p \in {q \in Paths : req[r].seen[q] # Absent}}
  <2>1. ToHistory(r) /\ EndBatch(WithFacts(mem, fs)) /\ fs \in SUBSET Facts
    BY <1>5, ExtractDoes
  <2>. HIDE DEF fs
  <2>2. /\ req'[r].pc = "head" /\ req'[r].cursor = mem.cursor
        /\ \A q \in Requests \ {r} : SameButQuiet(q)
    BY <2>1, HistoryTyped, OneMoves
  <2>3. SameHistory(mem, mem') /\ (disk' = disk \/ disk' = mem')
    BY <1>0, <2>1, WithFactsKeeps DEF EndBatch
  <2>4. head' = head /\ hurt'.recounted = hurt.recounted /\ Active(r) /\ ~At(r, "read")
    BY <1>0, <1>5 DEF Extract, repo, Active, At
  <2>. QED BY <2>2, <2>3, <2>4, ExactUntouched
<1>6. ASSUME NEW r \in Requests, ExtractFails(r) \/ ListFails(r)
      PROVE  Exact'
  <2>1. /\ mem' = mem /\ (disk' = disk \/ disk' = mem') /\ head' = head /\ Active(r) /\ ~At(r, "read")
        /\ hurt'.recounted = hurt.recounted /\ req' = [req EXCEPT ![r] = Idle]
    BY <1>0, <1>6 DEF ExtractFails, ListFails, EndBatch, EndBatchUnwritten, Disturbances,
                      repo, Active, At
  <2>2. Idle \in Asking /\ Idle.pc = "idle"
    BY EnterTyped DEF Steps
  <2>3. req'[r].pc = "idle" /\ \A q \in Requests \ {r} : SameButQuiet(q)
    BY <2>1, <2>2, OneMoves
  <2>. QED BY <2>1, <2>3, ExactUntouched DEF SameHistory
<1>7. ASSUME NEW r \in Requests, ReadHead(r)
      PROVE  Exact'
  <2>1. /\ mem' = mem /\ disk' = disk /\ head' = head /\ hurt'.recounted = hurt.recounted
        /\ req[r].pc = "head" /\ Active(r) /\ ~At(r, "read")
    BY <1>0, <1>7 DEF ReadHead, repo, Active, At, Disturbances
  <2>2. Idle \in Asking /\ Idle.pc = "idle"
    BY EnterTyped DEF Steps
  <2>3. /\ \A q \in Requests \ {r} : SameButQuiet(q)
        /\ \/ req'[r].pc = "idle"
           \/ req'[r].pc = "list" /\ req'[r].head = head /\ req'[r].cursor = req[r].cursor
    <3>1. CASE head = req[r].cursor
      BY <1>7, <2>2, <3>1, ReadHeadDoes, OneMoves
    <3>2. CASE head # req[r].cursor
      BY <1>7, <3>2, ReadHeadDoes, OneMoves
    <3>. QED BY <3>1, <3>2
  <2>. QED BY <2>1, <2>3, ExactUntouched DEF SameHistory
<1>8. ASSUME NEW r \in Requests, List(r)
      PROVE  Exact'
  BY <1>8, ListExact
<1>9. ASSUME NEW r \in Requests, Ingest(r)
      PROVE  Exact'
  BY <1>9, IngestExact
<1>10. ASSUME NEW r \in Requests, IngestFails(r)
       PROVE  Exact'
  BY <1>0, <1>10 DEF IngestFails, Exact
<1>11. ASSUME NEW n \in Notes, Note(n)
       PROVE  Exact'
  <2>. SUFFICES ASSUME ~hurt'.recounted PROVE Exact'
    BY DEF Exact
  <2>1. SameHistory(mem, mem') /\ (depth # 0 => disk' = disk) /\ (disk' = disk \/ disk' = mem')
    BY <1>0, <1>11, NoteKeeps DEF Note, Put
  <2>2. head' = head /\ hurt' = hurt /\ req' = req /\ mem'.cursor = mem.cursor
    BY <1>11, <2>1 DEF Note, repo, SameHistory
  <2>3. Whole(mem) => Whole(mem') /\ Whole(mem)'
    <3>1. Whole(mem) => Whole(mem')
      BY <2>1, WholeSame
    <3>. QED BY <2>2, <3>1 DEF Whole, Tally
  <2>4. Whole(disk)'
    <3>1. CASE depth # 0
      BY <2>1, <2>2, <3>1 DEF Exact, Whole, Tally
    <3>2. CASE depth = 0
      <4>1. \A q \in Requests : ~At(q, "read")
        BY <3>2, BatchesCounted DEF At, Batch
      <4>2. Whole(mem) /\ Whole(disk)
        BY <2>2, <4>1 DEF Exact
      <4>. QED BY <2>1, <2>2, <2>3, <4>2 DEF Whole, Tally
    <3>. QED BY <3>1, <3>2
  <2>5. ASSUME NEW q \in Requests
        PROVE  Advancing(q)'
    <3>1. Advancing(q)
      BY <2>2 DEF Exact
    <3>2. mem'.counted = mem.counted
      BY <2>1 DEF SameHistory
    <3>. QED BY <2>2, <3>1, <3>2 DEF Advancing, At, Tally
  <2>6. Single' /\ ((\A q \in Requests : ~At(q, "read")') => Whole(mem)')
    BY <2>2, <2>3 DEF Exact, Single, Active, At
  <2>. QED BY <2>4, <2>5, <2>6 DEF Exact
<1>12. ASSUME NEW p \in Paths, NEW c \in Contents \cup {Absent, Unreadable}, Edit(p, c)
       PROVE  Exact'
  <2>1. /\ UNCHANGED <<mem, disk, head>> /\ hurt'.recounted = hurt.recounted
        /\ \A q \in Requests : SameButQuiet(q)
    BY <1>0, <1>12, DisturbedKeeps DEF Edit
  <2>. QED BY <2>1 DEF Exact, Single, Active, Whole, Tally, Advancing, At, SameButQuiet
<1>13. ASSUME NEW c \in Commits, MoveHead(c)
       PROVE  Exact'
  <2>. SUFFICES ASSUME ~hurt'.recounted PROVE Exact'
    BY DEF Exact
  <2>1. /\ UNCHANGED <<mem, disk>> /\ ~hurt.recounted /\ head' = c /\ head \in Ancestors(c)
        /\ (\A q \in Requests : ~At(q, "list")) /\ \A q \in Requests : SameButQuiet(q)
    BY <1>0, <1>13, DisturbedKeeps DEF MoveHead, Disturbances
  <2>2. Ancestors(head) \subseteq Ancestors(c)
    BY <2>1, AncestorsFounded DEF Founded
  <2>3. \A q \in Requests : req'[q].pc = req[q].pc
    BY <2>1 DEF SameButQuiet
  <2>4. Single' /\ Whole(disk)' /\ ((\A q \in Requests : ~At(q, "read")') => Whole(mem)')
    BY <2>1, <2>2, <2>3 DEF Exact, Single, Active, Whole, Tally, At
  <2>5. ASSUME NEW q \in Requests
        PROVE  Advancing(q)'
    <3>1. Advancing(q) /\ SameButQuiet(q)
      BY <2>1 DEF Exact
    <3>. QED BY <2>1, <2>2, <3>1 DEF Advancing, At, Tally, SameButQuiet
  <2>. QED BY <2>4, <2>5 DEF Exact
<1>14. CASE Crash
  <2>1. mem' = disk /\ disk' = disk /\ head' = head /\ hurt'.recounted = hurt.recounted
    BY <1>0, <1>14 DEF Crash, repo
  <2>2. \A q \in Requests : req'[q].pc = "idle"
    BY <1>14, EnterTyped DEF Crash, Steps
  <2>. QED BY <2>1, <2>2 DEF Exact, Single, Active, Whole, Tally, Advancing, At
<1>15. CASE UNCHANGED vars
  BY <1>15 DEF vars, Exact, Single, Active, Whole, Tally, Advancing, At
<1>16. CASE Prune
  <2>1. hurt'.recounted
    BY <1>0, <1>16 DEF Prune
  <2>. QED BY <2>1 DEF Exact
<1>17. ASSUME NEW r \in Requests, HeadUnread(r)
       PROVE  Exact'
  <2>1. /\ mem' = mem /\ disk' = disk /\ head' = head /\ hurt'.recounted = hurt.recounted
        /\ Active(r) /\ ~At(r, "read")
    BY <1>0, <1>17 DEF HeadUnread, Disturbances, repo, Active, At
  <2>2. req'[r].pc = "idle" /\ \A q \in Requests \ {r} : SameButQuiet(q)
    BY <1>17, HeadUnreadDoes
  <2>. QED BY <2>1, <2>2, ExactUntouched DEF SameHistory
<1>. QED BY <1>1, <1>2, <1>3, <1>4, <1>5, <1>6, <1>7, <1>8, <1>9, <1>10, <1>11, <1>12, <1>13,
            <1>14, <1>15, <1>16, <1>17, RelistExact DEF Next

\* --------------------------------------------------------- files and symbols
LEMMA NoFacts == FactsOf(Empty.files) = {}
  BY DEF FactsOf, Empty

\* While a request is active nothing is answered, and only it may be undisturbed.
LEMMA OnlySteady ==
    ASSUME Current, hurt \in Disturbances,
           NEW r \in Requests, Active(r)
    PROVE  ~hurt.answered /\ \A q \in Requests \ {r} : ~(Active(q) /\ req[q].quiet)
<1>1. ~hurt.answered
  BY DEF Current, Answered
<1>2. \A q \in Requests \ {r} : ~(Active(q) /\ req[q].quiet)
  BY DEF Current, Steady, Alone
<1>. QED BY <1>1, <1>2

\* Steadiness after a step of request r, from what the step does to that request.
LEMMA SteadyStep ==
    ASSUME Current, hurt \in Disturbances,
           NEW r \in Requests, Active(r), \A q \in Requests \ {r} : SameButQuiet(q),
           req'[r].quiet => req[r].quiet,
           ASSUME req'[r].quiet, req[r].quiet, req'[r].pc # "idle",
                  \A q \in Requests \ {r} : req[q].pc = "idle"
           PROVE  /\ req'[r].pc = "known" => req'[r].known = mem'.files
                  /\ req'[r].pc = "scan" => mem'.files = Empty.files
                  /\ req'[r].pc = "extract" => /\ req'[r].seen = tree' /\ mem'.files = tree'
                                               /\ ~hurt'.graph => mem'.facts = {}
                  /\ req'[r].pc \in {"head", "list", "read"} => mem'.files = tree'
                  /\ req'[r].pc = "head" => req'[r].cursor = mem'.cursor
                  /\ req'[r].pc \in {"list", "read"} => req'[r].head = head'
    PROVE  \A q \in Requests : Steady(q)'
<1>1. ASSUME NEW q \in Requests \ {r}
      PROVE  Steady(q)'
  <2>1. ~(Active(q) /\ req[q].quiet)
    BY OnlySteady
  <2>. QED BY <2>1 DEF Steady, Active, SameButQuiet
<1>2. Steady(r)'
  <2>. SUFFICES ASSUME req'[r].quiet, req'[r].pc # "idle"
       PROVE  Steady(r)'
    BY DEF Steady, Active
  <2>1. \A q \in Requests \ {r} : req[q].pc = "idle"
    BY DEF Current, Steady, Alone, Active
  <2>2. Alone(r)'
    BY <2>1 DEF Alone, Active, SameButQuiet
  <2>. QED BY <2>1, <2>2 DEF Steady, At
<1>. QED BY <1>1, <1>2

\* A request that ends undisturbed has brought files and cursor up to date.
LEMMA FinishCurrent ==
    ASSUME Sorts, Flushed, Current, NEW r \in Requests, At(r, "list") \/ At(r, "read"),
           NEW m \in Memories, Described(m), m.files = mem.files, m.facts = mem.facts,
           Finish(r, m), UNCHANGED <<tree, head>>
    PROVE  Current'
<1>0. hurt \in Disturbances
  BY DEF Sorts, RestOK
<1>1. /\ req[r].head \in Commits /\ req' = [req EXCEPT ![r] = Idle]
      /\ mem' = WithCursor(m, req[r].head)
      /\ hurt'.answered = req[r].quiet /\ hurt'.graph = hurt.graph
  BY <1>0, FinishDoes DEF Disturbances
<1>2. Idle \in Asking /\ Idle.pc = "idle"
  BY EnterTyped DEF Steps
<1>3. req'[r].pc = "idle" /\ \A q \in Requests \ {r} : SameButQuiet(q)
  BY <1>1, <1>2, OneMoves
<1>4. mem'.cursor = req[r].head /\ mem'.files = mem.files /\ mem'.facts = mem.facts
  BY <1>1, WithCursorKeeps
<1>5. \A q \in Requests : Steady(q)'
  <2>1. ASSUME NEW q \in Requests \ {r}
        PROVE  Steady(q)'
    <3>1. ~(Active(q) /\ req[q].quiet)
      BY <1>0, OnlySteady DEF Active, At
    <3>. QED BY <1>3, <3>1 DEF Steady, Active, SameButQuiet
  <2>2. Steady(r)'
    BY <1>3 DEF Steady, Active
  <2>. QED BY <2>1, <2>2
<1>6. Answered'
  <2>. SUFFICES ASSUME req[r].quiet PROVE Answered'
    BY <1>1 DEF Answered
  <2>1. /\ Alone(r) /\ mem.files = tree /\ req[r].head = head
    BY DEF Current, Steady, Active, At
  <2>. QED BY <1>3, <1>4, <2>1 DEF Answered, Alone, Active, SameButQuiet
<1>7. Mirrored'
  BY <1>1, <1>3, <1>4 DEF Current, Mirrored, SameButQuiet, At, FactsOf
<1>. QED BY <1>5, <1>6, <1>7 DEF Current

LEMMA CallCurrent ==
    ASSUME Sorts, Flushed, Current, NEW r \in Requests, CallIndex(r) \/ CallRebuild(r)
    PROVE  Current'
<1>0. /\ hurt \in Disturbances
      /\ req \in [Requests -> Asking]
  BY DEF Sorts, RestOK, AskedOK
<1>1. CASE CallIndex(r)
  <2>1. /\ UNCHANGED <<mem, tree>> /\ ~hurt'.answered /\ hurt'.graph = hurt.graph
        /\ req[r].pc = "idle"
    BY <1>0, <1>1 DEF CallIndex, repo, Active
  <2>2. /\ req'[r].pc = "known" /\ req'[r].known = mem.files /\ req'[r].quiet = Alone(r)
        /\ \A q \in Requests \ {r} : SameButQuiet(q)
    BY <1>1, CallIndexDoes, OneMoves
  <2>3. Answered'
    BY <2>1 DEF Answered
  <2>4. Mirrored'
    BY <2>1, <2>2 DEF Current, Mirrored, SameButQuiet, At, FactsOf
  <2>5. Steady(r)'
    <3>. SUFFICES ASSUME Alone(r) PROVE Steady(r)'
      BY <2>2 DEF Steady
    <3>1. Alone(r)'
      BY <2>2 DEF Alone, Active, SameButQuiet
    <3>. QED BY <2>1, <2>2, <3>1 DEF Steady, At
  <2>6. ASSUME NEW q \in Requests \ {r}
        PROVE  Steady(q)'
    <3>1. CASE Active(q)
      <4>1. req' = [Disturbed EXCEPT ![r] = req'[r]]
        <5>1. ~Alone(r)
          BY <3>1 DEF Alone
        <5>2. Disturbed \in [Requests -> Asking]
          BY <1>0, DisturbedTyped
        <5>3. \E a \in Asking : req' = [Disturbed EXCEPT ![r] = a]
          BY <1>1, <5>1, CallIndexDoes DEF Others
        <5>. HIDE DEF Disturbed
        <5>. QED BY <5>2, <5>3
      <4>2. req'[q] = [req[q] EXCEPT !.quiet = FALSE]
        <5>1. Disturbed \in [Requests -> Asking] /\ Disturbed[q] = [req[q] EXCEPT !.quiet = FALSE]
          BY <1>0, DisturbedTyped
        <5>. HIDE DEF Disturbed
        <5>. QED BY <4>1, <5>1
      <4>3. ~req'[q].quiet
        BY <1>0, <4>2 DEF Asking
      <4>. QED BY <4>3 DEF Steady
    <3>2. CASE ~Active(q)
      BY <2>2, <3>2 DEF Steady, Active, SameButQuiet
    <3>. QED BY <3>1, <3>2
  <2>. QED BY <2>3, <2>4, <2>5, <2>6 DEF Current
<1>2. CASE CallRebuild(r)
  <2>1. /\ mem'.facts = {} /\ mem'.files = Empty.files
        /\ req'[r].pc = "scan" /\ \A q \in Requests \ {r} : req'[q].pc = "idle"
    BY <1>2, RebuildClears
  <2>2. ~hurt'.answered
    BY <1>2 DEF CallRebuild
  <2>3. Answered' /\ Mirrored'
    BY <2>1, <2>2, NoFacts DEF Answered, Mirrored, FactsOf
  <2>4. \A q \in Requests : Steady(q)'
    BY <2>1 DEF Steady, Active, Alone, At
  <2>. QED BY <2>3, <2>4 DEF Current
<1>. QED BY <1>1, <1>2

LEMMA CompareCurrent ==
    ASSUME Sorts, Flushed, Current, NEW r \in Requests, Compare(r)
    PROVE  Current'
<1>0. /\ hurt \in Disturbances
      /\ req \in [Requests -> Asking] /\ mem \in Memories /\ Described(mem)
      /\ Active(r) /\ req[r].pc = "known" /\ tree' = tree /\ head' = head
  BY DEF Compare, Sorts, RestOK, StoreOK, ProvenanceExact, AskedOK, Active, At, repo
<1>1. ~hurt.answered /\ \A q \in Requests \ {r} : ~(Active(q) /\ req[q].quiet)
  BY <1>0, OnlySteady
<1>2. CASE req[r].known = tree
  <2>1. ToHistory(r) /\ UNCHANGED <<mem, hurt>>
    BY <1>2, CompareDoes
  <2>2. /\ req'[r].pc = "head" /\ req'[r].quiet = req[r].quiet /\ req'[r].cursor = mem.cursor
        /\ \A q \in Requests \ {r} : SameButQuiet(q)
    BY <2>1, HistoryTyped, OneMoves
  <2>3. Answered' /\ Mirrored'
    BY <1>0, <1>1, <2>1, <2>2 DEF Current, Answered, Mirrored, SameButQuiet, At, FactsOf
  <2>4. ASSUME req[r].quiet PROVE mem.files = tree
    BY <1>0, <1>2, <2>4 DEF Current, Steady, At
  <2>5. \A q \in Requests : Steady(q)'
    BY <1>0, <2>1, <2>2, <2>4, SteadyStep
  <2>. QED BY <2>3, <2>5 DEF Current
<1>3. CASE req[r].known # tree
  <2>1. /\ mem' = IF req[r].known = Empty.files THEN mem ELSE GraphCleared(mem)
        /\ hurt'.graph = (~req[r].quiet \/ (hurt.graph /\ req[r].known = Empty.files))
        /\ hurt'.answered = hurt.answered
    BY <1>0, <1>3 DEF Compare, PutThenBatch, Disturbances
  <2>2. /\ req'[r].pc = "scan" /\ req'[r].quiet = req[r].quiet
        /\ \A q \in Requests \ {r} : SameButQuiet(q)
    BY <1>3, CompareDoes, OneMoves
  <2>3. ASSUME req[r].quiet
        PROVE  mem'.files = Empty.files /\ (~hurt'.graph => mem'.facts = {})
    <3>1. req[r].known = mem.files /\ Alone(r)
      BY <1>0, <2>3 DEF Current, Steady, At
    <3>2. CASE req[r].known = Empty.files
      <4>1. ~hurt'.graph => ~hurt.graph
        BY <2>1, <3>2
      <4>2. \A q \in Requests : ~At(q, "extract")
        BY <1>0, <3>1 DEF Alone, Active, At
      <4>3. ~hurt.graph => mem.facts = {}
        BY <3>1, <3>2, <4>2, NoFacts DEF Current, Mirrored
      <4>. QED BY <2>1, <3>1, <3>2, <4>1, <4>3
    <3>3. CASE req[r].known # Empty.files
      BY <1>0, <2>1, <3>3, GraphClearedKeeps
    <3>. QED BY <3>2, <3>3
  <2>4. Answered'
    BY <1>1, <2>1 DEF Answered
  <2>5. Mirrored'
    <3>. SUFFICES ASSUME ~hurt'.graph PROVE Mirrored'
      BY DEF Mirrored
    <3>1. req[r].quiet
      BY <2>1
    <3>. QED BY <2>3, <3>1, NoFacts DEF Mirrored, FactsOf
  <2>6. \A q \in Requests : Steady(q)'
    BY <1>0, <2>2, <2>3, SteadyStep
  <2>. QED BY <2>4, <2>5, <2>6 DEF Current
<1>. QED BY <1>2, <1>3

LEMMA ScanCurrent ==
    ASSUME Sorts, Current, NEW r \in Requests, Scan(r)
    PROVE  Current'
<1>0. /\ hurt \in Disturbances
      /\ mem \in Memories /\ Described(mem) /\ tree \in Files
      /\ Active(r) /\ req[r].pc = "scan" /\ tree' = tree /\ head' = head
  BY DEF Scan, Sorts, RestOK, StoreOK, ProvenanceExact, Active, At, repo
<1>1. ~hurt.answered /\ \A q \in Requests \ {r} : ~(Active(q) /\ req[q].quiet)
  BY <1>0, OnlySteady
<1>2. hurt'.answered = hurt.answered /\ hurt'.graph = (hurt.graph \/ ~req[r].quiet)
  BY <1>0 DEF Scan
<1>3. /\ req'[r].pc = "extract" /\ req'[r].seen = tree /\ req'[r].quiet = req[r].quiet
      /\ \A q \in Requests \ {r} : SameButQuiet(q)
  BY ScanDoes, OneMoves
<1>4. /\ mem'.facts = mem.facts
      /\ mem'.files = [p \in Paths |-> IF tree[p] # Absent THEN tree[p] ELSE mem.files[p]]
  BY <1>0, WithFilesKeeps DEF Scan
<1>5. ASSUME req[r].quiet
      PROVE  mem'.files = tree /\ (~hurt'.graph => mem'.facts = {})
  <2>1. mem.files = Empty.files /\ Alone(r)
    BY <1>0, <1>5 DEF Current, Steady, At
  <2>2. \A p \in Paths : mem.files[p] = Absent
    BY <2>1 DEF Empty
  <2>3. mem'.files = tree
    BY <1>0, <1>4, <2>2 DEF Files
  <2>4. \A q \in Requests : ~At(q, "extract")
    BY <1>0, <2>1 DEF Alone, Active, At
  <2>5. ~hurt.graph => mem.facts = {}
    BY <2>1, <2>4, NoFacts DEF Current, Mirrored
  <2>. QED BY <1>2, <1>4, <2>3, <2>5
<1>6. Answered' /\ Mirrored'
  BY <1>1, <1>2, <1>3 DEF Answered, Mirrored, At
<1>7. \A q \in Requests : Steady(q)'
  BY <1>0, <1>3, <1>5, SteadyStep
<1>. QED BY <1>6, <1>7 DEF Current

LEMMA ExtractCurrent ==
    ASSUME Sorts, Flushed, Current, NEW r \in Requests, Extract(r)
    PROVE  Current'
<1>. DEFINE fs == {<<p, tree[p]>> : p \in {q \in Paths : req[r].seen[q] # Absent}}
<1>0. /\ hurt \in Disturbances
      /\ mem \in Memories /\ Described(mem)
      /\ Active(r) /\ req[r].pc = "extract" /\ tree' = tree /\ head' = head
  BY DEF Extract, Sorts, RestOK, StoreOK, ProvenanceExact, Active, At, repo
<1>1. ~hurt.answered /\ \A q \in Requests \ {r} : ~(Active(q) /\ req[q].quiet)
  BY <1>0, OnlySteady
<1>2. hurt'.answered = hurt.answered /\ hurt'.graph = (hurt.graph \/ ~req[r].quiet)
  BY <1>0 DEF Extract
<1>3. ToHistory(r) /\ EndBatch(WithFacts(mem, fs)) /\ fs \in SUBSET Facts
  BY ExtractDoes
<1>4. ASSUME req[r].quiet
      PROVE  mem.files = tree /\ fs = FactsOf(tree) /\ (~hurt.graph => mem.facts = {})
  BY <1>0, <1>4 DEF Current, Steady, At, FactsOf
<1>. HIDE DEF fs
<1>5. mem'.files = mem.files /\ mem'.cursor = mem.cursor /\ mem'.facts = mem.facts \cup fs
  BY <1>0, <1>3, WithFactsKeeps DEF EndBatch, SameHistory
<1>6. /\ req'[r].pc = "head" /\ req'[r].quiet = req[r].quiet /\ req'[r].cursor = mem.cursor
      /\ \A q \in Requests \ {r} : SameButQuiet(q)
  BY <1>3, HistoryTyped, OneMoves
<1>7. Answered'
  BY <1>1, <1>2 DEF Answered
<1>8. Mirrored'
  <2>. SUFFICES ASSUME ~hurt'.graph PROVE Mirrored'
    BY DEF Mirrored
  <2>1. mem'.facts = FactsOf(tree) /\ mem'.files = tree
    BY <1>2, <1>4, <1>5
  <2>. QED BY <2>1 DEF Mirrored, FactsOf
<1>9. \A q \in Requests : Steady(q)'
  BY <1>0, <1>4, <1>5, <1>6, SteadyStep
<1>. QED BY <1>7, <1>8, <1>9 DEF Current

\* Reading HEAD, and the failures.
LEMMA ReadHeadCurrent ==
    ASSUME Sorts, Current, NEW r \in Requests, ReadHead(r)
    PROVE  Current'
<1>0. /\ hurt \in Disturbances
      /\ Active(r) /\ req[r].pc = "head" /\ tree' = tree /\ head' = head /\ mem' = mem
  BY DEF ReadHead, Sorts, RestOK, Active, At, repo
<1>1. ~hurt.answered /\ \A q \in Requests \ {r} : ~(Active(q) /\ req[q].quiet)
  BY <1>0, OnlySteady
<1>2. req[r].quiet => /\ Alone(r) /\ mem.files = tree /\ req[r].cursor = mem.cursor
  BY <1>0 DEF Current, Steady, At
<1>3. CASE head = req[r].cursor
  <2>1. req' = [req EXCEPT ![r] = Idle] /\ hurt'.answered = req[r].quiet /\ hurt'.graph = hurt.graph
    BY <1>0, <1>3, ReadHeadDoes DEF Disturbances
  <2>2. Idle \in Asking /\ Idle.pc = "idle"
    BY EnterTyped DEF Steps
  <2>3. req'[r].pc = "idle" /\ \A q \in Requests \ {r} : SameButQuiet(q)
    BY <2>1, <2>2, OneMoves
  <2>4. Answered'
    BY <1>0, <1>2, <1>3, <2>1, <2>3 DEF Answered, Alone, Active, SameButQuiet
  <2>5. Mirrored'
    BY <1>0, <2>1, <2>3 DEF Current, Mirrored, SameButQuiet, At, FactsOf
  <2>6. \A q \in Requests : Steady(q)'
    BY <1>1, <2>3 DEF Steady, Active, SameButQuiet
  <2>. QED BY <2>4, <2>5, <2>6 DEF Current
<1>4. CASE head # req[r].cursor
  <2>1. /\ hurt' = hurt
        /\ \E a \in Asking : /\ req' = [req EXCEPT ![r] = a] /\ a.pc = "list" /\ a.head = head
                             /\ a.quiet = req[r].quiet
    BY <1>4, ReadHeadDoes
  <2>2. /\ req'[r].pc = "list" /\ req'[r].head = head /\ req'[r].quiet = req[r].quiet
        /\ \A q \in Requests \ {r} : SameButQuiet(q)
    BY <2>1, OneMoves
  <2>3. Answered' /\ Mirrored'
    BY <1>0, <1>1, <2>1, <2>2 DEF Current, Answered, Mirrored, SameButQuiet, At, FactsOf
  <2>4. \A q \in Requests : Steady(q)'
    BY <1>0, <1>2, <2>2, SteadyStep
  <2>. QED BY <2>3, <2>4 DEF Current
<1>. QED BY <1>3, <1>4

LEMMA HeadUnreadCurrent ==
    ASSUME Sorts, Current, NEW r \in Requests, HeadUnread(r)
    PROVE  Current'
<1>0. /\ hurt \in Disturbances
      /\ Active(r) /\ req[r].pc = "head" /\ UNCHANGED <<tree, head, mem>>
      /\ hurt' = [hurt EXCEPT !.answered = req[r].quiet, !.unread = TRUE]
  BY DEF HeadUnread, Sorts, RestOK, Active, At, repo
<1>1. hurt'.answered = req[r].quiet /\ hurt'.graph = hurt.graph /\ hurt'.unread
  BY <1>0 DEF Disturbances
<1>2. req'[r].pc = "idle" /\ \A q \in Requests \ {r} : SameButQuiet(q)
  BY HeadUnreadDoes
<1>3. \A q \in Requests \ {r} : ~(Active(q) /\ req[q].quiet)
  BY <1>0, OnlySteady
<1>4. req[r].quiet => Alone(r) /\ mem.files = tree
  BY <1>0 DEF Current, Steady, At
<1>5. Answered'
  BY <1>0, <1>1, <1>2, <1>4 DEF Answered, Alone, Active, SameButQuiet
<1>6. Mirrored'
  BY <1>0, <1>1, <1>2 DEF Current, Mirrored, SameButQuiet, At, FactsOf
<1>7. \A q \in Requests : Steady(q)'
  BY <1>2, <1>3 DEF Steady, Active, SameButQuiet
<1>. QED BY <1>5, <1>6, <1>7 DEF Current

LEMMA FailureCurrent ==
    ASSUME Sorts, Current, NEW r \in Requests, ExtractFails(r) \/ IngestFails(r) \/ ListFails(r)
    PROVE  Current'
<1>0. /\ hurt \in Disturbances
      /\ Active(r) /\ tree' = tree /\ head' = head /\ mem' = mem
      /\ req' = [req EXCEPT ![r] = Idle]
  BY DEF ExtractFails, IngestFails, ListFails, EndBatch, EndBatchUnwritten, Sorts, RestOK, Active,
         At, repo
<1>1. ~hurt.answered /\ \A q \in Requests \ {r} : ~(Active(q) /\ req[q].quiet)
  BY <1>0, OnlySteady
<1>2. /\ hurt'.answered = hurt.answered
      /\ hurt'.graph \/ (hurt'.graph = hurt.graph /\ ~At(r, "extract"))
  BY <1>0 DEF ExtractFails, IngestFails, ListFails, Disturbances, At
<1>3. Idle \in Asking /\ Idle.pc = "idle"
  BY EnterTyped DEF Steps
<1>4. req'[r].pc = "idle" /\ \A q \in Requests \ {r} : SameButQuiet(q)
  BY <1>0, <1>3, OneMoves
<1>5. Answered'
  BY <1>1, <1>2 DEF Answered
<1>6. Mirrored'
  BY <1>0, <1>2, <1>4 DEF Current, Mirrored, SameButQuiet, At, FactsOf
<1>7. \A q \in Requests : Steady(q)'
  BY <1>1, <1>4 DEF Steady, Active, SameButQuiet
<1>. QED BY <1>5, <1>6, <1>7 DEF Current

LEMMA HistoryCurrent ==
    ASSUME Sorts, Flushed, Current, NEW r \in Requests, List(r) \/ Relist(r) \/ Ingest(r)
    PROVE  Current'
<1>. DEFINE c == Oldest(req[r].todo)
<1>0. /\ hurt \in Disturbances
      /\ mem \in Memories /\ Described(mem)
      /\ Active(r) /\ (At(r, "list") \/ At(r, "read")) /\ UNCHANGED <<tree, head>>
  BY DEF List, Relist, Ingest, Sorts, RestOK, StoreOK, ProvenanceExact, Active, At, repo
<1>1. \/ Finish(r, mem)
      \/ c \in Commits /\ Finish(r, WithCommit(mem, c))
      \/ /\ mem' = mem \/ (c \in Commits /\ mem' = WithCommit(mem, c))
         /\ hurt'.answered = hurt.answered /\ hurt'.graph = hurt.graph
         /\ \E a \in Asking : /\ req' = [req EXCEPT ![r] = a] /\ a.pc = "read"
                              /\ a.head = req[r].head /\ a.quiet = req[r].quiet
  <2>1. CASE List(r)
    BY <2>1, ListDoes
  <2>2. CASE Ingest(r)
    BY <2>2, IngestDoes
  <2>3. CASE Relist(r)
    <3>1. hurt'.answered = hurt.answered /\ hurt'.graph = hurt.graph
      BY <1>0, <2>3 DEF Relist, Disturbances
    <3>. QED BY <2>3, <3>1, RelistDoes
  <2>. QED BY <2>1, <2>2, <2>3
<1>. HIDE DEF c
<1>2. CASE Finish(r, mem)
  BY <1>0, <1>2, FinishCurrent
<1>3. c \in Commits => LET m == WithCommit(mem, c)
                       IN  /\ m \in Memories /\ Described(m)
                           /\ m.files = mem.files /\ m.facts = mem.facts
  BY <1>0, WithCommitKeeps
<1>4. CASE c \in Commits /\ Finish(r, WithCommit(mem, c))
  BY <1>0, <1>3, <1>4, FinishCurrent
<1>5. CASE /\ mem' = mem \/ (c \in Commits /\ mem' = WithCommit(mem, c))
           /\ hurt'.answered = hurt.answered /\ hurt'.graph = hurt.graph
           /\ \E a \in Asking : /\ req' = [req EXCEPT ![r] = a] /\ a.pc = "read"
                                /\ a.head = req[r].head /\ a.quiet = req[r].quiet
  <2>1. mem'.files = mem.files /\ mem'.facts = mem.facts
    BY <1>3, <1>5
  <2>2. /\ req'[r].pc = "read" /\ req'[r].head = req[r].head /\ req'[r].quiet = req[r].quiet
        /\ \A q \in Requests \ {r} : SameButQuiet(q)
    BY <1>5, OneMoves
  <2>3. ~hurt.answered
    BY <1>0, OnlySteady
  <2>4. Answered' /\ Mirrored'
    BY <1>0, <1>5, <2>1, <2>2, <2>3 DEF Current, Answered, Mirrored, SameButQuiet, At, FactsOf
  <2>5. req[r].quiet => mem.files = tree /\ req[r].head = head
    BY <1>0 DEF Current, Steady, At
  <2>6. \A q \in Requests : Steady(q)'
    BY <1>0, <2>1, <2>2, <2>5, SteadyStep
  <2>. QED BY <2>4, <2>6 DEF Current
<1>. QED BY <1>1, <1>2, <1>4, <1>5

LEMMA StepCurrent ==
    ASSUME Sorts, Flushed, Current, [Next]_vars
    PROVE  Current'
<1>0. /\ hurt \in Disturbances
      /\ mem \in Memories /\ Described(mem) /\ req \in [Requests -> Asking] /\ head \in Commits
  BY DEF Sorts, RestOK, StoreOK, AskedOK, ProvenanceExact
<1>1. ASSUME NEW n \in Notes, Note(n)
      PROVE  Current'
  <2>1. mem'.files = mem.files /\ mem'.facts = mem.facts /\ mem'.cursor = mem.cursor
    BY <1>0, <1>1, NoteKeeps DEF Note, Put, SameHistory
  <2>2. UNCHANGED <<tree, head, req, hurt>>
    BY <1>1 DEF Note, repo
  <2>. QED BY <2>1, <2>2 DEF Current, Answered, Mirrored, Steady, Active, Alone, At, FactsOf
<1>2. ASSUME NEW c \in Commits,
             MoveHead(c) \/ Prune \/ \E p \in Paths, d \in Contents \cup {Absent, Unreadable} : Edit(p, d)
      PROVE  Current'
  <2>1. /\ mem' = mem /\ hurt'.graph = hurt.graph /\ ~hurt'.answered
        /\ \A q \in Requests : SameButQuiet(q) /\ ~req'[q].quiet
    BY <1>0, <1>2, DisturbedKeeps DEF MoveHead, Prune, Edit, Disturbances
  <2>. QED BY <2>1 DEF Current, Answered, Mirrored, Steady, SameButQuiet, At, FactsOf
<1>3. CASE Crash
  <2>1. hurt'.graph /\ ~hurt'.answered
    BY <1>0, <1>3 DEF Crash
  <2>2. \A q \in Requests : req'[q].pc = "idle"
    BY <1>3, EnterTyped DEF Crash, Steps
  <2>. QED BY <2>1, <2>2 DEF Current, Answered, Mirrored, Steady, Active
<1>4. CASE UNCHANGED vars
  BY <1>4 DEF vars, Current, Answered, Mirrored, Steady, Active, Alone, At, FactsOf
<1>. QED BY <1>0, <1>1, <1>2, <1>3, <1>4, CallCurrent, CompareCurrent, ScanCurrent, ExtractCurrent,
            ReadHeadCurrent, HeadUnreadCurrent, FailureCurrent, HistoryCurrent DEF Next

\* ------------------------------------------------------------------ the theorems
LEMMA InitInvariant == Init => IInv
<1>. SUFFICES ASSUME Init PROVE IInv
  OBVIOUS
<1>1. Sorts
  BY InitSorts
<1>2. \A r \in Requests : req[r].pc = "idle"
  <2>1. Idle.pc = "idle"
    BY EnterTyped DEF Steps
  <2>. QED BY <2>1 DEF Init
<1>3. Ingested(Empty) = {} /\ Empty.cursor = None /\ Empty.notes = {}
  BY DEF Ingested, Empty
<1>4. Flushed
  <2>1. Batched = {}
    BY <1>2 DEF Batched, Batch
  <2>. QED BY <1>3, <2>1, FS_EmptySet DEF Init, Flushed
<1>5. Repository
  BY DEF Init, Repository
<1>6. Complete
  BY <1>2, <1>3, Ancestry DEF Init, Complete, Held, Linked, Listed, At
<1>7. Exact
  BY <1>2, <1>3, Ancestry DEF Init, Exact, Single, Whole, Tally, Advancing, Active, At, Empty
<1>8. Current
  <2>1. mem.facts = FactsOf(mem.files)
    BY NoFacts DEF Init, Empty
  <2>. QED BY <1>2, <2>1 DEF Init, Current, Answered, Mirrored, Steady, Active
<1>. QED BY <1>1, <1>4, <1>5, <1>6, <1>7, <1>8, SortsAreTypes DEF IInv

\* The invariant of the project memory: types, what the journal holds, what describes what,
\* what requests have listed and read, and what nobody has disturbed.
THEOREM KnowledgeInvariant == Spec => []IInv
<1>1. IInv /\ [Next]_vars => IInv'
  <2>. SUFFICES ASSUME IInv, [Next]_vars PROVE IInv'
    OBVIOUS
  <2>1. Sorts /\ Flushed /\ Repository /\ Complete /\ Exact /\ Current
    BY SortsAreTypes DEF IInv
  <2>2. Sorts' /\ Flushed' /\ Repository' /\ Complete' /\ Exact' /\ Current'
    BY <2>1, StepSorts, StepFlushed, StepRepository, StepComplete, StepExact, StepCurrent
  <2>3. TypeOK' /\ ProvenanceExact' /\ \A r \in Requests : Asked(r)'
    BY <2>2 DEF Sorts, StoreOK, AskedOK, RestOK, TypeOK
  <2>. QED BY <2>2, <2>3 DEF IInv
<1>. QED BY <1>1, InitInvariant, PTL DEF Spec

\* A request nothing disturbed leaves the memory equal to the project: its files, the symbols
\* and edges of those files, and, unless git failed to name HEAD, its history (reconcile.ts
\* 9-13, ingest-history.ts 7-18, git.ts 13).
THEOREM UndisturbedIsUpToDate == Spec => []UpToDate
<1>1. IInv => UpToDate
  <2>. SUFFICES ASSUME IInv, hurt.answered PROVE UpToDate
    BY DEF UpToDate
  <2>1. /\ \A r \in Requests : ~Active(r)
        /\ mem.files = tree /\ (~hurt.unread => mem.cursor = head)
    BY DEF IInv, Current, Answered
  <2>2. ~hurt.graph => mem.facts = FactsOf(mem.files)
    BY <2>1 DEF IInv, Current, Mirrored, Active, At
  <2>. QED BY <2>1, <2>2 DEF UpToDate
<1>. QED BY <1>1, KnowledgeInvariant, PTL

\* Every commit behind the cursor was ingested, in memory and in the journal, unless HEAD left
\* the line of history while git listed it (ingest-history.ts 7-18).
THEOREM NoCommitSkipped == Spec => []HistoryComplete
<1>1. IInv => HistoryComplete
  <2>1. ASSUME NEW m \in Memories, Held(m)
        PROVE  CompleteIn(m)
    <3>1. Ingested(m) \subseteq Commits
      BY DEF Ingested
    <3>2. \A c \in Ancestors(m.cursor) : c \in Ingested(m) /\ (Reverts[c] # None => Reverts[c] \in m.reverted)
      BY <2>1 DEF Held, Linked
    <3>3. None \notin Ingested(m)
      BY <3>1, CommitsByDate
    <3>. QED BY <2>1, <3>2, <3>3 DEF CompleteIn, Held
  <2>. QED BY <2>1 DEF IInv, TypeOK, Complete, HistoryComplete
<1>. QED BY <1>1, KnowledgeInvariant, PTL

\* The pairs of a commit are counted once, in memory and in the journal, as long as HEAD only
\* moves forward, requests neither overlap nor fail, and git lists the commits it is asked for
\* (feltdb-project-memory.ts 199-206, git.ts 21-23).
THEOREM CommitsCountedOnce == Spec => []CountedOnce
<1>1. IInv => CountedOnce
  <2>. SUFFICES ASSUME IInv, ~hurt.recounted, NEW c \in Commits
       PROVE  mem.counted[c] <= 1 /\ disk.counted[c] <= 1
    BY DEF CountedOnce
  <2>1. ASSUME NEW m, NEW cs, Tally(m, cs)
        PROVE  m.counted[c] <= 1
    BY <2>1 DEF Tally
  <2>2. \E cs : Tally(mem, cs)
    <3>1. CASE \A r \in Requests : ~At(r, "read")
      BY <3>1 DEF IInv, Exact, Whole
    <3>2. CASE \E r \in Requests : At(r, "read")
      BY <3>2 DEF IInv, Exact, Advancing
    <3>. QED BY <3>1, <3>2
  <2>3. \E cs : Tally(disk, cs)
    BY DEF IInv, Exact, Whole
  <2>. QED BY <2>1, <2>2, <2>3
<1>. QED BY <1>1, KnowledgeInvariant, PTL

\* Provenance describes exactly the facts that are stored, in memory and in the journal,
\* through upserts, resets, rebuilds and crashes (feltdb-project-memory.ts 128-134, 279-296).
THEOREM ProvenanceDescribes == Spec => []ProvenanceExact
<1>1. IInv => ProvenanceExact
  BY DEF IInv
<1>. QED BY <1>1, KnowledgeInvariant, PTL

\* What was acknowledged outside a batch is in the journal for good, and once the last batch
\* has ended so is everything else (feltdb-project-memory.ts 126, 269).
THEOREM RecordsAreDurable == Spec => []RecordsDurable
<1>1. IInv => RecordsDurable
  BY DEF IInv, Flushed, RecordsDurable
<1>. QED BY <1>1, KnowledgeInvariant, PTL
=============================================================================
