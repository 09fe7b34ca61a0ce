------------------------- MODULE MemoryJournalProofs -------------------------
(***************************************************************************)
(* Whatever the number of processes that share a journal, of their open    *)
(* batches, crashes and failing calls: as long as no lock was taken from a *)
(* process that worked under it, nothing acknowledged is lost, nothing     *)
(* known is forgotten, and the journal only grows.                         *)
(***************************************************************************)
EXTENDS MemoryJournal, TLAPS

Journals == [facts : SUBSET Facts, generation : Nat]
Steps    == {"down", "idle", "steal"} \cup Critical

SharedOK ==
    /\ journal \in Journals
    /\ lock \in Processes \cup {"none"} /\ old \in BOOLEAN
    /\ told \subseteq Facts /\ refused \subseteq Facts /\ robbed \in BOOLEAN
    /\ starts \in Nat /\ troubles \in Nat

ProcessesOK ==
    /\ pc \in [Processes -> Steps]
    /\ db \in [Processes -> SUBSET Facts] /\ generation \in [Processes -> Nat]
    /\ flushing \in [Processes -> Seq(SUBSET Facts)]
    /\ attempts \in [Processes -> Nat] /\ merged \in [Processes -> Journals]
    /\ depth \in [Processes -> Nat] /\ dirty \in [Processes -> BOOLEAN]
    /\ pend \in [Processes -> SUBSET Facts]

TypeOK == SharedOK /\ ProcessesOK

\* What a process has to write it knows; what it recorded in a batch it has not
\* forgotten to write; and it is under the lock for the sake of a write.
QueueOK(p) ==
    /\ \A i \in 1 .. Len(flushing[p]) : flushing[p][i] \subseteq db[p]
    /\ pend[p] \subseteq db[p]
    /\ ~dirty[p] => pend[p] = {}
    /\ pc[p] = "down" => flushing[p] = <<>> /\ pend[p] = {} /\ depth[p] = 0
    /\ pc[p] \in Critical => flushing[p] /= <<>>
Queued == \A p \in Processes : QueueOK(p)

\* The lock file excludes: who works under it has created it.
Exclusive == \A p \in Processes : pc[p] \in Critical => lock = p

\* What is about to be put in place has all of the journal, and all of the
\* write; what was put in place has all of the write.
PreparedBy(p) ==
    /\ pc[p] = "replace" =>
          /\ journal.facts \subseteq merged[p].facts
          /\ merged[p].generation > journal.generation
          /\ Head(flushing[p]) \subseteq merged[p].facts
    /\ pc[p] = "unlock" => Head(flushing[p]) \subseteq journal.facts
Prepared == \A p \in Processes : PreparedBy(p)

IInv ==
    /\ TypeOK /\ Queued
    /\ ~robbed => Exclusive /\ Prepared
    /\ NothingForgotten /\ NothingLostUnderLock
-----------------------------------------------------------------------------
LEMMA MergedType ==
    ASSUME TypeOK, NEW p \in Processes
    PROVE  /\ MergedWith(p) \in Journals
           /\ db[p] \cup journal.facts = MergedWith(p).facts
           /\ MergedWith(p).generation > journal.generation
  BY SMTT(30) DEF TypeOK, SharedOK, ProcessesOK, Journals, MergedWith, Larger

\* A write queued behind the others: they keep their places.
LEMMA Enqueued ==
    ASSUME NEW q \in Seq(SUBSET Facts), NEW x \in SUBSET Facts
    PROVE  /\ Append(q, x) \in Seq(SUBSET Facts) /\ Append(q, x) /= <<>>
           /\ Len(Append(q, x)) = Len(q) + 1 /\ Append(q, x)[Len(q) + 1] = x
           /\ \A i \in 1 .. Len(q) : Append(q, x)[i] = q[i]
           /\ q /= <<>> => Head(Append(q, x)) = Head(q)
  BY SMT

LEMMA EnqueuedWithin ==
    ASSUME NEW q \in Seq(SUBSET Facts), NEW x \in SUBSET Facts, NEW known, x \subseteq known,
           \A i \in 1 .. Len(q) : q[i] \subseteq known
    PROVE  \A i \in 1 .. Len(Append(q, x)) : Append(q, x)[i] \subseteq known
  <1>1. \A i \in 1 .. Len(Append(q, x)) : i \in 1 .. Len(q) \/ i = Len(q) + 1
    BY Enqueued
  <1> QED
    BY <1>1, Enqueued

\* A write that ends: the others move up.
LEMMA Dequeued ==
    ASSUME NEW q \in Seq(SUBSET Facts), q /= <<>>
    PROVE  /\ Tail(q) \in Seq(SUBSET Facts) /\ Head(q) \in SUBSET Facts
           /\ Len(q) \in Nat /\ Len(q) >= 1 /\ Head(q) = q[1]
           /\ Len(Tail(q)) = Len(q) - 1
           /\ \A i \in 1 .. Len(Tail(q)) : Tail(q)[i] = q[i + 1]
  BY SMT

LEMMA InitOK == Init => IInv
  <1> SUFFICES ASSUME Init PROVE IInv
    OBVIOUS
  <1>1. TypeOK
    <2>1. <<>> \in Seq(SUBSET Facts) /\ Blank \in Journals
      BY DEF Journals, Blank
    <2> QED
      BY <2>1 DEF Init, TypeOK, SharedOK, ProcessesOK, Steps
  <1>2. Queued /\ Exclusive /\ Prepared
    BY DEF Init, Queued, QueueOK, Exclusive, Prepared, PreparedBy, Critical
  <1>3. NothingForgotten /\ NothingLostUnderLock
    BY DEF Init, NothingForgotten, NothingLostUnderLock, NothingLost
  <1> QED
    BY <1>1, <1>2, <1>3 DEF IInv

LEMMA TypeStep == ASSUME TypeOK, Queued, Next PROVE TypeOK'
  <1> USE DEF TypeOK, SharedOK, ProcessesOK
  <1>1. ASSUME NEW p \in Processes, Load(p) PROVE TypeOK'
    BY SMTT(30), <1>1 DEF Load, files, batches, answers, Steps, Journals, Larger
  <1>2. ASSUME NEW p \in Processes, NEW f \in Facts, Upsert(p, f) PROVE TypeOK'
    <2>1. Append(flushing[p], {f}) \in Seq(SUBSET Facts)
      BY Enqueued
    <2>2. CASE depth[p] > 0
      <3>1. db' = [db EXCEPT ![p] = @ \cup {f}] /\ pend' = [pend EXCEPT ![p] = @ \cup {f}]
        BY <1>2, <2>2 DEF Upsert, Flush
      <3>2. dirty' \in [Processes -> BOOLEAN] /\ UNCHANGED flushing
        BY <1>2, <2>2 DEF Upsert, Flush
      <3>3. db' \in [Processes -> SUBSET Facts]
        BY <3>1
      <3>4. pend' \in [Processes -> SUBSET Facts]
        BY <3>1
      <3> QED
        BY <1>2, <3>2, <3>3, <3>4 DEF Upsert, files, answers, limits
    <2>3. CASE ~(depth[p] > 0)
      BY <1>2, <2>1, <2>3 DEF Upsert, Flush, files, answers, limits
    <2> QED
      BY <2>2, <2>3
  <1>3. ASSUME NEW p \in Processes, OpenBatch(p) PROVE TypeOK'
    BY SMTT(30), <1>3 DEF OpenBatch, files, answers, limits
  <1>4. ASSUME NEW p \in Processes, CloseBatch(p) PROVE TypeOK'
    <2>1. Append(flushing[p], pend[p]) \in Seq(SUBSET Facts)
      BY Enqueued
    <2>2. CASE depth[p] = 1 /\ dirty[p]
      <3>1. depth' = [depth EXCEPT ![p] = @ - 1] /\ pend' = [pend EXCEPT ![p] = {}]
        BY <1>4, <2>2 DEF CloseBatch
      <3>2. dirty' \in [Processes -> BOOLEAN] /\ flushing' \in [Processes -> Seq(SUBSET Facts)]
        BY ZenonT(60), <1>4, <2>1, <2>2 DEF CloseBatch
      <3>3. depth' \in [Processes -> Nat]
        BY <2>2, <3>1
      <3>4. pend' \in [Processes -> SUBSET Facts]
        BY <3>1
      <3> QED
        BY <1>4, <3>2, <3>3, <3>4 DEF CloseBatch, files, answers, limits
    <2>3. CASE ~(depth[p] = 1 /\ dirty[p])
      BY SMTT(30), <1>4, <2>3 DEF CloseBatch, files, answers, limits
    <2> QED
      BY <2>2, <2>3
  <1>5. ASSUME NEW p \in Processes, TryLock(p) PROVE TypeOK'
    BY <1>5 DEF TryLock, batches, answers, limits, Steps, Critical
  <1>6. ASSUME NEW p \in Processes, Retry(p) PROVE TypeOK'
    <2>1. attempts' \in [Processes -> Nat]
      BY <1>6 DEF Retry, NextRound
    <2>2. pc' \in [Processes -> Steps]
      BY <1>6 DEF Retry, Steps
    <2> QED
      BY <1>6, <2>1, <2>2 DEF Retry, files, batches, answers, limits
  <1>7. ASSUME NEW p \in Processes, Steal(p) PROVE TypeOK'
    BY <1>7 DEF Steal, batches, limits, Steps
  <1>8. ASSUME NEW p \in Processes, Timeout(p) PROVE TypeOK'
    BY <1>8, Dequeued DEF Timeout, Wants, NextWrite, files, batches, limits, Steps
  <1>9. ASSUME NEW p \in Processes, Merge(p) PROVE TypeOK'
    BY <1>9, MergedType DEF Merge, Journals, files, batches, answers, limits, Steps, Critical
  <1>10. ASSUME NEW p \in Processes, Replace(p) PROVE TypeOK'
    BY <1>10 DEF Replace, batches, answers, limits, Steps, Critical
  <1>11. ASSUME NEW p \in Processes, Unlock(p) PROVE TypeOK'
    <2>1. flushing[p] /= <<>>
      BY <1>11 DEF Unlock, Queued, QueueOK, Critical
    <2> QED
      BY <1>11, <2>1, Dequeued DEF Unlock, NextWrite, batches, limits, Steps
  <1>12. ASSUME NEW p \in Processes, Fault(p) PROVE TypeOK'
    BY <1>12 DEF Fault, files, batches, answers, Steps, Critical
  <1>13. ASSUME NEW p \in Processes, Crash(p) PROVE TypeOK'
    BY SMTT(30), <1>13 DEF Crash, files, answers, Steps, Blank, Journals
  <1>14. CASE LockAges
    BY <1>14 DEF LockAges, batches, answers, limits
  <1> QED
    BY <1>1, <1>2, <1>3, <1>4, <1>5, <1>6, <1>7, <1>8, <1>9, <1>10, <1>11, <1>12, <1>13, <1>14
       DEF Next, Write
-----------------------------------------------------------------------------
Step(p) ==
    \/ Load(p) \/ OpenBatch(p) \/ CloseBatch(p) \/ \E f \in Facts : Upsert(p, f)
    \/ Write(p) \/ Fault(p) \/ Crash(p)

\* Two processes share nothing but the files.
LEMMA Others ==
    ASSUME TypeOK, NEW p \in Processes, Step(p), NEW q \in Processes \ {p}
    PROVE  /\ pc'[q] = pc[q] /\ db'[q] = db[q] /\ flushing'[q] = flushing[q]
           /\ merged'[q] = merged[q] /\ depth'[q] = depth[q] /\ dirty'[q] = dirty[q] /\ pend'[q] = pend[q]
  <1> USE DEF TypeOK, ProcessesOK
  <1>1. CASE Load(p) \/ OpenBatch(p) \/ CloseBatch(p)
    BY <1>1 DEF Load, OpenBatch, CloseBatch, batches
  <1>2. CASE \E f \in Facts : Upsert(p, f)
    BY <1>2 DEF Upsert, Flush
  <1>3. CASE TryLock(p) \/ Retry(p) \/ Steal(p) \/ Timeout(p)
    BY <1>3 DEF TryLock, Retry, Steal, Timeout, NextWrite, batches
  <1>4. CASE Merge(p) \/ Replace(p) \/ Unlock(p)
    BY <1>4 DEF Merge, Replace, Unlock, NextWrite, batches
  <1>5. CASE Fault(p) \/ Crash(p)
    BY <1>5 DEF Fault, Crash, batches
  <1> QED
    BY <1>1, <1>2, <1>3, <1>4, <1>5 DEF Step, Write

LEMMA QueuedStep == ASSUME TypeOK, Queued, NEW p \in Processes, Step(p) PROVE Queued'
  <1> USE DEF TypeOK, ProcessesOK
  <1>1. SUFFICES QueueOK(p)'
    <2>1. ASSUME NEW q \in Processes \ {p} PROVE QueueOK(q)'
      BY SMTT(30), Others DEF Queued, QueueOK
    <2> QED
      BY <2>1 DEF Queued
  <1>2. QueueOK(p)
    BY DEF Queued
  <1>3. CASE Load(p)
    <2>1. flushing'[p] = flushing[p] /\ pend'[p] = pend[p] /\ dirty'[p] = dirty[p] /\ pc'[p] = "idle"
      BY <1>3 DEF Load, batches
    <2>2. flushing[p] = <<>> /\ pend[p] = {}
      BY <1>3 DEF Queued, QueueOK, Load
    <2> QED
      BY <1>2, <2>1, <2>2 DEF QueueOK, Critical
  <1>4. CASE OpenBatch(p)
    BY <1>2, <1>4 DEF QueueOK, OpenBatch
  <1>5. CASE CloseBatch(p)
    <2>1. CASE depth[p] = 1 /\ dirty[p]
      <3>1. /\ db'[p] = db[p] /\ pc'[p] = pc[p] /\ pend'[p] = {}
            /\ flushing'[p] = Append(flushing[p], pend[p]) /\ pc[p] /= "down"
        BY <1>2, <1>5, <2>1 DEF QueueOK, CloseBatch
      <3>2. \A i \in 1 .. Len(flushing'[p]) : flushing'[p][i] \subseteq db'[p]
        BY <1>2, <3>1, EnqueuedWithin DEF QueueOK
      <3>3. Append(flushing[p], pend[p]) /= <<>>
        BY Enqueued
      <3> QED
        BY <3>1, <3>2, <3>3 DEF QueueOK
    <2>2. CASE ~(depth[p] = 1 /\ dirty[p])
      BY <1>2, <1>5, <2>2 DEF QueueOK, CloseBatch
    <2> QED
      BY <2>1, <2>2
  <1>6. ASSUME NEW f \in Facts, Upsert(p, f) PROVE QueueOK(p)'
    <2>1. db'[p] = db[p] \cup {f} /\ pc'[p] = pc[p] /\ pc[p] /= "down" /\ depth'[p] = depth[p]
      BY <1>6 DEF Upsert
    <2>2. CASE depth[p] > 0
      <3>1. dirty'[p] /\ pend'[p] = pend[p] \cup {f} /\ flushing'[p] = flushing[p]
        BY <1>6, <2>2 DEF Upsert, Flush
      <3> QED
        BY <1>2, <2>1, <3>1 DEF QueueOK
    <2>3. CASE ~(depth[p] > 0)
      <3>1. dirty'[p] = dirty[p] /\ pend'[p] = pend[p] /\ flushing'[p] = Append(flushing[p], {f})
        BY <1>6, <2>3 DEF Upsert, Flush
      <3> QED
        <4>1. \A i \in 1 .. Len(flushing'[p]) : flushing'[p][i] \subseteq db'[p]
          BY <1>2, <2>1, <3>1, EnqueuedWithin DEF QueueOK
        <4>2. Append(flushing[p], {f}) /= <<>>
          BY ZenonT(60), Enqueued
        <4> QED
          BY <1>2, <2>1, <3>1, <4>1, <4>2 DEF QueueOK
    <2> QED
      BY <2>2, <2>3
  <1>7. CASE TryLock(p) \/ Retry(p)
    BY <1>2, <1>7 DEF QueueOK, TryLock, Retry, Wants, batches, Critical
  <1>8. CASE Steal(p) \/ Replace(p) \/ Fault(p)
    BY <1>2, <1>8 DEF QueueOK, Steal, Replace, Fault, batches, Critical
  <1>11. CASE Merge(p)
    BY <1>2, <1>11 DEF QueueOK, Merge, batches, Critical
  <1>9. CASE Timeout(p) \/ Unlock(p)
    <2>1. flushing[p] /= <<>>
      BY <1>2, <1>9 DEF QueueOK, Timeout, Wants, Unlock, Critical
    <2>2. /\ flushing'[p] = Tail(flushing[p]) /\ pc'[p] = "idle" /\ db'[p] = db[p]
          /\ pend'[p] = pend[p] /\ dirty'[p] = dirty[p]
      BY <1>9 DEF Timeout, Unlock, NextWrite, batches
    <2>3. \A i \in 1 .. Len(Tail(flushing[p])) : Tail(flushing[p])[i] \subseteq db[p]
      BY <1>2, <2>1, Dequeued DEF QueueOK
    <2> QED
      BY <1>2, <2>2, <2>3 DEF QueueOK, Critical
  <1>10. CASE Crash(p)
    BY <1>10 DEF QueueOK, Crash, Critical
  <1> QED
    BY <1>3, <1>4, <1>5, <1>6, <1>7, <1>8, <1>9, <1>10, <1>11 DEF Step, Write
-----------------------------------------------------------------------------
\* Only a theft, a crash or its own unlock takes the lock from its holder.
LEMMA ExclusiveStep ==
    ASSUME TypeOK, Exclusive, NEW p \in Processes, Step(p), ~robbed'
    PROVE  Exclusive'
  <1> USE LockOwners DEF TypeOK, SharedOK, ProcessesOK
  <1>1. CASE TryLock(p)
    BY <1>1 DEF TryLock, Exclusive
  <1>2. CASE Steal(p)
    <2>1. \A q \in Processes : pc[q] \notin Critical
      BY <1>2 DEF Steal, Exclusive, Critical
    <2> QED
      BY <1>2, <2>1 DEF Steal, Exclusive, Critical
  <1>3. CASE Unlock(p)
    <2>1. \A q \in Processes \ {p} : pc[q] \notin Critical
      BY <1>3 DEF Unlock, Exclusive, Critical
    <2> QED
      BY <1>3, <2>1 DEF Unlock, NextWrite, Exclusive, Critical
  <1>4. ASSUME lock' = lock, pc[p] \in Critical \/ pc'[p] \notin Critical PROVE Exclusive'
    BY ZenonT(60), <1>4, Others DEF Exclusive
  <1>5. CASE Load(p) \/ OpenBatch(p) \/ CloseBatch(p) \/ \E f \in Facts : Upsert(p, f)
    BY <1>4, <1>5 DEF Load, OpenBatch, CloseBatch, Upsert, files, Critical
  <1>6. CASE Retry(p) \/ Timeout(p) \/ Merge(p) \/ Replace(p) \/ Fault(p) \/ Crash(p)
    BY <1>4, <1>6 DEF Retry, Timeout, NextWrite, Merge, Replace, Fault, Crash, files, Critical
  <1> QED
    BY <1>1, <1>2, <1>3, <1>5, <1>6 DEF Step, Write

\* The holder of the lock is alone between its merge and its rename.
LEMMA Alone ==
    ASSUME TypeOK, Exclusive, NEW p \in Processes, pc[p] \in Critical, NEW q \in Processes \ {p}
    PROVE  pc[q] \notin Critical
  BY LockOwners DEF Exclusive

LEMMA PreparedStep ==
    ASSUME TypeOK, Queued, Exclusive, Prepared, NEW p \in Processes, Step(p)
    PROVE  Prepared'
  <1> USE DEF TypeOK, ProcessesOK
  <1>1. CASE Replace(p)
    <2>1. PreparedBy(p)'
      BY <1>1 DEF Replace, Prepared, PreparedBy
    <2>2. ASSUME NEW q \in Processes \ {p} PROVE PreparedBy(q)'
      BY SMTT(30), <1>1, Alone, Others DEF Replace, PreparedBy, Critical
    <2> QED
      BY <2>1, <2>2 DEF Prepared
  <1>2. SUFFICES ASSUME ~Replace(p) PROVE Prepared'
    BY <1>1
  <1>3. journal' = journal
    BY <1>2 DEF Step, Write, Load, OpenBatch, CloseBatch, Upsert, TryLock, Retry, Steal, Timeout, Merge,
                Unlock, Fault, Crash, files
  <1>4. \A q \in Processes \ {p} : PreparedBy(q)'
    BY SMTT(30), <1>3, Others DEF Prepared, PreparedBy
  <1>5. PreparedBy(p)
    BY DEF Prepared
  <1>6. CASE Merge(p)
    <2>1. /\ merged'[p] = MergedWith(p) /\ pc'[p] = "replace" /\ flushing'[p] = flushing[p]
      BY <1>6 DEF Merge
    <2>2. Head(flushing[p]) \subseteq db[p]
      <3>1. flushing[p] /= <<>> /\ \A i \in 1 .. Len(flushing[p]) : flushing[p][i] \subseteq db[p]
        BY <1>6 DEF Merge, Queued, QueueOK, Critical
      <3>2. flushing[p] \in Seq(SUBSET Facts)
        BY DEF TypeOK, ProcessesOK
      <3>3. Len(flushing[p]) \in Nat /\ Len(flushing[p]) >= 1 /\ Head(flushing[p]) = flushing[p][1]
        BY <3>1, <3>2, Dequeued
      <3> QED
        BY <3>1, <3>3
    <2> QED
      BY <1>3, <1>4, <2>1, <2>2, MergedType DEF Prepared, PreparedBy
  <1>7. CASE pc'[p] \notin {"replace", "unlock"}
    BY <1>4, <1>7 DEF Prepared, PreparedBy
  <1>8. CASE OpenBatch(p)
    BY <1>3, <1>4, <1>5, <1>8 DEF OpenBatch, Prepared, PreparedBy
  <1>9. CASE CloseBatch(p) \/ \E f \in Facts : Upsert(p, f)
    <2>1. pc'[p] = pc[p] /\ merged'[p] = merged[p]
      BY <1>9 DEF CloseBatch, Upsert
    <2>2. \/ flushing'[p] = flushing[p]
          \/ \E x \in SUBSET Facts : flushing'[p] = Append(flushing[p], x)
      <3>1. CASE CloseBatch(p)
        BY <3>1 DEF CloseBatch
      <3>2. ASSUME NEW f \in Facts, Upsert(p, f)
            PROVE  flushing'[p] = flushing[p] \/ flushing'[p] = Append(flushing[p], {f})
        BY <3>2 DEF Upsert, Flush
      <3> QED
        BY <1>9, <3>1, <3>2
    <2>3. pc[p] \in Critical => Head(flushing'[p]) = Head(flushing[p])
      <3>1. pc[p] \in Critical => flushing[p] /= <<>>
        BY DEF Queued, QueueOK
      <3>2. CASE flushing'[p] = flushing[p]
        BY <3>2
      <3>3. ASSUME NEW x \in SUBSET Facts, flushing'[p] = Append(flushing[p], x), flushing[p] /= <<>>
            PROVE  Head(flushing'[p]) = Head(flushing[p])
        BY <3>3, Enqueued
      <3> QED
        BY <2>2, <3>1, <3>2, <3>3
    <2> QED
      BY <1>3, <1>4, <1>5, <2>1, <2>3 DEF Prepared, PreparedBy, Critical
  <1>10. CASE Load(p) \/ TryLock(p) \/ Retry(p) \/ Steal(p) \/ Timeout(p) \/ Unlock(p) \/ Fault(p) \/ Crash(p)
    BY <1>7, <1>10 DEF Load, TryLock, Retry, Steal, Timeout, Unlock, NextWrite, Fault, Crash
  <1> QED
    BY <1>2, <1>6, <1>8, <1>9, <1>10 DEF Step, Write
-----------------------------------------------------------------------------
\* Only a rename changes the journal, and by the lock it is the holder's.
LEMMA JournalStep ==
    ASSUME TypeOK, Exclusive, Prepared, NEW p \in Processes, Step(p)
    PROVE  /\ journal.facts \subseteq journal'.facts
           /\ journal' /= journal => journal'.generation > journal.generation
  <1>1. CASE Replace(p)
    BY <1>1 DEF Replace, Prepared, PreparedBy
  <1>2. CASE ~Replace(p)
    BY <1>2 DEF Step, Write, Load, OpenBatch, CloseBatch, Upsert, TryLock, Retry, Steal, Timeout, Merge,
                Unlock, Fault, Crash, files
  <1> QED
    BY <1>1, <1>2

LEMMA LostStep ==
    ASSUME TypeOK, Exclusive, Prepared, NothingLost, NEW p \in Processes, Step(p)
    PROVE  NothingLost'
  <1>1. journal.facts \subseteq journal'.facts
    BY JournalStep
  <1>2. CASE Unlock(p)
    BY <1>2 DEF Unlock, Prepared, PreparedBy, NothingLost
  <1>3. CASE ~Unlock(p)
    <2>1. told' = told
      BY <1>3 DEF Step, Write, Load, OpenBatch, CloseBatch, Upsert, TryLock, Retry, Steal, Timeout, Merge,
                  Replace, Fault, Crash, answers
    <2> QED
      BY <1>1, <2>1 DEF NothingLost
  <1> QED
    BY <1>2, <1>3

\* What a process knows is durable, refused, or still to be written.
KeptBy(p) ==
    \A f \in db[p] \ (journal.facts \cup refused) :
        \/ depth[p] > 0 /\ f \in pend[p]
        \/ \E i \in 1 .. Len(flushing[p]) : f \in flushing[p][i]

\* Appending or taking away a write keeps the others.
LEMMA StillQueued ==
    ASSUME NEW q \in Seq(SUBSET Facts), NEW x \in SUBSET Facts, NEW f,
           f \in x \/ \E i \in 1 .. Len(q) : f \in q[i]
    PROVE  \E i \in 1 .. Len(Append(q, x)) : f \in Append(q, x)[i]
  <1>1. CASE f \in x
    BY <1>1, Enqueued
  <1>2. CASE \E i \in 1 .. Len(q) : f \in q[i]
    <2>1. PICK i \in 1 .. Len(q) : f \in q[i]
      BY <1>2
    <2>2. i \in 1 .. Len(Append(q, x)) /\ Append(q, x)[i] = q[i]
      BY Enqueued
    <2> QED
      BY <2>1, <2>2
  <1> QED
    BY <1>1, <1>2

LEMMA QueuedBehind ==
    ASSUME NEW q \in Seq(SUBSET Facts), q /= <<>>, NEW f, f \notin Head(q),
           \E i \in 1 .. Len(q) : f \in q[i]
    PROVE  \E i \in 1 .. Len(Tail(q)) : f \in Tail(q)[i]
  <1>1. PICK i \in 1 .. Len(q) : f \in q[i]
    OBVIOUS
  <1>2. i /= 1
    BY <1>1, Dequeued
  <1>3. i - 1 \in 1 .. Len(Tail(q)) /\ Tail(q)[i - 1] = q[i]
    BY <1>2, Dequeued
  <1> QED
    BY <1>1, <1>3

LEMMA KeptStep ==
    ASSUME TypeOK, Queued, Exclusive, Prepared, NEW p \in Processes, Step(p),
           \A q \in Processes : KeptBy(q)
    PROVE  \A q \in Processes : KeptBy(q)'
  <1> USE DEF TypeOK, ProcessesOK
  <1>1. journal.facts \subseteq journal'.facts
    BY JournalStep
  <1>2. refused \subseteq refused'
    BY DEF Step, Write, Load, OpenBatch, CloseBatch, Upsert, TryLock, Retry, Steal, Timeout, Merge,
           Replace, Unlock, Fault, Crash, answers
  <1>3. SUFFICES KeptBy(p)'
    <2>1. ASSUME NEW q \in Processes \ {p} PROVE KeptBy(q)'
      BY <1>1, <1>2, Others DEF KeptBy
    <2> QED
      BY <2>1
  <1>4. KeptBy(p) /\ QueueOK(p)
    BY DEF Queued
  <1>5. CASE Load(p)
    BY <1>5 DEF Load, files, KeptBy
  <1>6. CASE Crash(p)
    BY <1>6 DEF Crash, KeptBy
  <1>7. CASE OpenBatch(p)
    <2>1. depth'[p] > 0 <=> depth[p] + 1 > 0
      BY <1>7 DEF OpenBatch
    <2> QED
      BY <1>1, <1>2, <1>4, <1>7, <2>1 DEF OpenBatch, KeptBy
  <1>8. ASSUME NEW f \in Facts, Upsert(p, f) PROVE KeptBy(p)'
    <2> SUFFICES ASSUME NEW g \in db[p] \cup {f}, g \notin journal'.facts \cup refused'
                 PROVE  \/ depth'[p] > 0 /\ g \in pend'[p]
                        \/ \E i \in 1 .. Len(flushing'[p]) : g \in flushing'[p][i]
      BY <1>8 DEF Upsert, KeptBy
    <2>1. g = f \/ (depth[p] > 0 /\ g \in pend[p]) \/ \E i \in 1 .. Len(flushing[p]) : g \in flushing[p][i]
      <3>1. g = f \/ g \in db[p] \ (journal.facts \cup refused)
        BY <1>1, <1>2
      <3>2. CASE g \in db[p] \ (journal.facts \cup refused)
        BY <1>4, <3>2 DEF KeptBy
      <3> QED
        BY <3>1, <3>2
    <2>2. CASE depth[p] > 0
      BY <1>8, <2>1, <2>2 DEF Upsert, Flush
    <2>3. CASE ~(depth[p] > 0)
      <3>1. flushing'[p] = Append(flushing[p], {f})
        BY <1>8, <2>3 DEF Upsert, Flush
      <3>2. g \in {f} \/ \E i \in 1 .. Len(flushing[p]) : g \in flushing[p][i]
        BY <2>1, <2>3
      <3>3. \E i \in 1 .. Len(Append(flushing[p], {f})) : g \in Append(flushing[p], {f})[i]
        <4>1. flushing[p] \in Seq(SUBSET Facts) /\ {f} \in SUBSET Facts
          OBVIOUS
        <4> QED
          BY <3>2, <4>1, StillQueued, Zenon
      <3> QED
        BY <3>1, <3>3
    <2> QED
      BY <2>2, <2>3
  <1>9. CASE CloseBatch(p)
    <2> SUFFICES ASSUME NEW g \in db[p], g \notin journal'.facts \cup refused'
                 PROVE  \/ depth'[p] > 0 /\ g \in pend'[p]
                        \/ \E i \in 1 .. Len(flushing'[p]) : g \in flushing'[p][i]
      BY <1>9 DEF CloseBatch, KeptBy
    <2>1. (depth[p] > 0 /\ g \in pend[p]) \/ \E i \in 1 .. Len(flushing[p]) : g \in flushing[p][i]
      BY <1>1, <1>2, <1>4 DEF KeptBy
    <2>2. CASE depth[p] = 1 /\ dirty[p]
      <3>1. flushing'[p] = Append(flushing[p], pend[p])
        BY <1>9, <2>2 DEF CloseBatch
      <3> QED
        BY <2>1, <3>1, StillQueued
    <2>3. CASE depth[p] = 1 /\ ~dirty[p]
      BY <1>4, <1>9, <2>1, <2>3 DEF CloseBatch, QueueOK
    <2>4. CASE depth[p] /= 1
      BY <1>9, <2>1, <2>4 DEF CloseBatch
    <2> QED
      BY <2>2, <2>3, <2>4
  <1>10. CASE Timeout(p) \/ Unlock(p)
    <2> SUFFICES ASSUME NEW g \in db[p], g \notin journal'.facts \cup refused'
                 PROVE  \/ depth'[p] > 0 /\ g \in pend'[p]
                        \/ \E i \in 1 .. Len(flushing'[p]) : g \in flushing'[p][i]
      BY <1>10 DEF Timeout, Unlock, KeptBy
    <2>1. (depth[p] > 0 /\ g \in pend[p]) \/ \E i \in 1 .. Len(flushing[p]) : g \in flushing[p][i]
      BY <1>1, <1>2, <1>4 DEF KeptBy
    <2>2. flushing[p] /= <<>>
      BY <1>4, <1>10 DEF QueueOK, Timeout, Wants, Unlock, Critical
    <2>3. g \notin Head(flushing[p])
      BY <1>10 DEF Timeout, Unlock, Prepared, PreparedBy
    <2>4. flushing'[p] = Tail(flushing[p]) /\ depth'[p] = depth[p] /\ pend'[p] = pend[p]
      BY <1>10 DEF Timeout, Unlock, NextWrite, batches
    <2> QED
      BY <2>1, <2>2, <2>3, <2>4, QueuedBehind
  <1>11. CASE Merge(p)
    BY <1>1, <1>2, <1>4, <1>11 DEF Merge, KeptBy, files, batches
  <1>12. CASE TryLock(p) \/ Retry(p) \/ Steal(p) \/ Replace(p) \/ Fault(p)
    <2>1. db'[p] = db[p] /\ flushing'[p] = flushing[p] /\ depth'[p] = depth[p] /\ pend'[p] = pend[p]
      BY <1>12 DEF TryLock, Retry, Steal, Replace, Fault, batches
    <2> QED
      BY <1>1, <1>2, <1>4, <2>1 DEF KeptBy
  <1> QED
    BY <1>5, <1>6, <1>7, <1>8, <1>9, <1>10, <1>11, <1>12 DEF Step, Write
-----------------------------------------------------------------------------
\* Thirty seconds change nothing but the age of a lock.
LEMMA AgesStep == ASSUME IInv, LockAges \/ UNCHANGED vars PROVE IInv'
  <1>1. /\ UNCHANGED <<journal, lock, pc, db, generation, flushing, attempts, merged, depth, dirty, pend>>
        /\ UNCHANGED <<told, refused, robbed, starts, troubles>> /\ old' \in BOOLEAN
    BY DEF LockAges, vars, files, batches, answers, limits, IInv, TypeOK, SharedOK
  <1> QED
    BY <1>1 DEF IInv, TypeOK, SharedOK, ProcessesOK, Queued, QueueOK, Exclusive, Prepared, PreparedBy,
                NothingForgotten, NothingLostUnderLock, NothingLost

LEMMA StepOK == ASSUME IInv, [Next]_vars PROVE IInv'
  <1>1. CASE LockAges \/ UNCHANGED vars
    BY <1>1, AgesStep
  <1>2. ASSUME NEW p \in Processes, Step(p) PROVE IInv'
    <2>1. TypeOK' /\ Queued'
      BY <1>2, TypeStep, QueuedStep DEF IInv, Next, Step
    <2>2. robbed => robbed'
      BY <1>2 DEF Step, Write, Load, OpenBatch, CloseBatch, Upsert, TryLock, Retry, Steal, Timeout, Merge,
                  Replace, Unlock, Fault, Crash, answers
    <2>3. ASSUME ~robbed' PROVE Exclusive' /\ Prepared' /\ NothingLost' /\ \A q \in Processes : KeptBy(q)'
      <3>1. Exclusive /\ Prepared /\ NothingLost /\ \A q \in Processes : KeptBy(q)
        BY <2>2, <2>3 DEF IInv, NothingLostUnderLock, NothingForgotten, KeptBy
      <3> QED
        BY <1>2, <2>3, <3>1, ExclusiveStep, PreparedStep, LostStep, KeptStep DEF IInv
    <2> QED
      BY <2>1, <2>3 DEF IInv, NothingLostUnderLock, NothingForgotten, KeptBy
  <1> QED
    BY <1>1, <1>2 DEF Next, Step

\* The inductive invariant: a writer under the lock is alone, what it is about to put in place
\* has the whole journal and its whole write, and nothing known falls between memory and file
\* (withLock, flush and batch of feltdb-project-memory.ts), for any number of processes.
THEOREM JournalInvariant == Spec => []IInv
  BY InitOK, StepOK, PTL DEF Spec

\* What flush returned for stays in the journal as long as no lock was taken from a process
\* at work under it: crashes, takeovers, failed writes and any order of merges lose nothing.
THEOREM AcknowledgedIsDurable == Spec => []NothingLostUnderLock
  <1>1. IInv => NothingLostUnderLock
    BY DEF IInv
  <1> QED
    BY <1>1, JournalInvariant, PTL

\* Every operation a process knows is durable, queued, waits for the end of an open batch, or
\* its caller was told of the failure.
THEOREM KnownIsKept == Spec => []NothingForgotten
  <1>1. IInv => NothingForgotten
    BY DEF IInv
  <1> QED
    BY <1>1, JournalInvariant, PTL

\* A replaced journal keeps every operation and has a higher generation.
THEOREM JournalOnlyGrows == Spec => JournalGrows
  <1>1. IInv /\ [Next]_vars =>
            [journal' /= journal /\ ~robbed =>
                /\ journal.facts \subseteq journal'.facts
                /\ journal'.generation > journal.generation]_vars
    <2> SUFFICES ASSUME IInv, Next, journal' /= journal, ~robbed
                 PROVE  /\ journal.facts \subseteq journal'.facts
                        /\ journal'.generation > journal.generation
      OBVIOUS
    <2>1. PICK p \in Processes : Step(p)
      BY DEF Next, Step, LockAges
    <2> QED
      BY <2>1, JournalStep DEF IInv
  <1> QED
    BY <1>1, JournalInvariant, PTL DEF JournalGrows, Spec
=============================================================================
