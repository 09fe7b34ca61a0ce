--------------------------- MODULE MemoryJournal ---------------------------
(***************************************************************************)
(* The local journal of packages/agent/src/memory/feltdb-project-memory.ts *)
(* (lines 123 to 134, and batch): processes that share one project keep    *)
(* its facts in a database of their own and merge them into one file under *)
(* a lock file. A lock file has no owner: whoever unlinks it frees it, and *)
(* one older than 30 seconds may be unlinked by anybody.                   *)
(*                                                                         *)
(* A fact stands for the operation that records it; the database keeps     *)
(* operations by id, so that merging is union. A write of a living process *)
(* takes less than the 30 seconds; renames are atomic (not win32).         *)
(***************************************************************************)
EXTENDS Integers, FiniteSets, Sequences

CONSTANTS
    Processes, Facts,
    MaxAttempts,   \* rounds of the loop of withLock: 250 in the code
    MaxDepth,      \* bound: batches one process has open at once
    MaxStarts, MaxTroubles   \* bounds: starts; crashes and failing calls together

ASSUME JournalBounds ==
    /\ MaxAttempts \in Nat \ {0} /\ MaxDepth \in Nat
    /\ MaxStarts \in Nat /\ MaxTroubles \in Nat
ASSUME LockOwners == "none" \notin Processes

VARIABLES
    journal,     \* the file: its operations and its generation
    lock, old,   \* who created the lock file ("none" without one), and
                 \* whether that was more than 30 seconds ago
    pc,          \* per process: where its current write is
    db,          \* per process: the operations of its database
    generation,  \* per process
    flushing,    \* per process: the facts each queued write was asked for
    attempts,    \* per process: rounds of withLock
    merged,      \* per process: the journal it is about to put in place
    depth, dirty, pend,   \* per process: batchDepth, batchDirty, and the
                          \* facts recorded since a batch was opened
    told, refused,   \* history: facts whose caller was told they are stored,
                     \* and facts whose caller got an error
    robbed,          \* history: a lock was taken from a process that worked under it
    starts, troubles

files   == <<journal, lock, old>>
batches == <<depth, dirty, pend>>
limits  == <<starts, troubles>>
answers == <<told, refused, robbed>>
vars    == <<files, pc, db, generation, flushing, attempts, merged, batches, answers, limits>>

Blank    == [facts |-> {}, generation |-> 0]
Critical == {"merge", "replace", "unlock", "abort"}
Larger(a, b) == IF a > b THEN a ELSE b

Init ==
    /\ journal = Blank /\ lock = "none" /\ old = FALSE
    /\ pc = [p \in Processes |-> "down"]
    /\ db = [p \in Processes |-> {}]
    /\ generation = [p \in Processes |-> 1]
    /\ flushing = [p \in Processes |-> <<>>]
    /\ attempts = [p \in Processes |-> 0]
    /\ merged = [p \in Processes |-> Blank]
    /\ depth = [p \in Processes |-> 0] /\ dirty = [p \in Processes |-> FALSE]
    /\ pend = [p \in Processes |-> {}]
    /\ told = {} /\ refused = {} /\ robbed = FALSE /\ starts = 0 /\ troubles = 0

\* load reads the journal, or finds none, without the lock.
Load(p) ==
    /\ pc[p] = "down" /\ starts < MaxStarts
    /\ starts' = starts + 1
    /\ db' = [db EXCEPT ![p] = journal.facts]
    /\ generation' = [generation EXCEPT ![p] = Larger(1, journal.generation)]
    /\ pc' = [pc EXCEPT ![p] = "idle"]
    /\ UNCHANGED <<files, flushing, attempts, merged, batches, answers, troubles>>

\* flush queues a write behind the one under way, except inside a batch.
Flush(p, facts) ==
    IF depth[p] > 0
    THEN /\ dirty' = [dirty EXCEPT ![p] = TRUE]
         /\ pend' = [pend EXCEPT ![p] = @ \cup facts]
         /\ UNCHANGED flushing
    ELSE /\ flushing' = [flushing EXCEPT ![p] = Append(@, facts)]
         /\ UNCHANGED <<dirty, pend>>

Upsert(p, f) ==
    /\ pc[p] /= "down" /\ f \notin db[p]
    /\ db' = [db EXCEPT ![p] = @ \cup {f}]
    /\ Flush(p, {f})
    /\ UNCHANGED <<files, pc, generation, attempts, merged, depth, answers, limits>>

OpenBatch(p) ==
    /\ pc[p] /= "down" /\ depth[p] < MaxDepth
    /\ depth' = [depth EXCEPT ![p] = @ + 1]
    /\ UNCHANGED <<files, pc, db, generation, flushing, attempts, merged, dirty, pend, answers, limits>>

\* Mutant of CloseBatch: it forgets to write.
CloseBatchForgetful(p) ==
    /\ depth[p] > 0
    /\ depth' = [depth EXCEPT ![p] = @ - 1]
    /\ dirty' = [dirty EXCEPT ![p] = depth[p] > 1 /\ @]
    /\ UNCHANGED <<files, pc, db, generation, flushing, attempts, merged, pend, answers, limits>>

\* The end of the outermost batch writes what was recorded meanwhile.
CloseBatch(p) ==
    /\ depth[p] > 0
    /\ depth' = [depth EXCEPT ![p] = @ - 1]
    /\ IF depth[p] = 1 /\ dirty[p]
       THEN /\ dirty' = [dirty EXCEPT ![p] = FALSE]
            /\ flushing' = [flushing EXCEPT ![p] = Append(@, pend[p])]
            /\ pend' = [pend EXCEPT ![p] = {}]
       ELSE UNCHANGED <<dirty, flushing, pend>>
    /\ UNCHANGED <<files, pc, db, generation, attempts, merged, answers, limits>>
-----------------------------------------------------------------------------
Wants(p) == pc[p] = "idle" /\ flushing[p] /= <<>>

TryLock(p) ==
    /\ Wants(p) /\ attempts[p] < MaxAttempts /\ lock = "none"
    /\ lock' = p /\ old' = FALSE
    /\ pc' = [pc EXCEPT ![p] = "merge"]
    /\ UNCHANGED <<journal, db, generation, flushing, attempts, merged, batches, answers, limits>>

SameRound(p) == attempts[p]        \* mutant of NextRound
NextRound(p) == attempts[p] + 1

\* EEXIST: look at the age of the lock, unlink it (Steal) or wait.
Retry(p) ==
    /\ Wants(p) /\ attempts[p] < MaxAttempts /\ lock /= "none"
    /\ attempts' = [attempts EXCEPT ![p] = NextRound(p)]
    /\ pc' = [pc EXCEPT ![p] = IF old THEN "steal" ELSE "idle"]
    /\ UNCHANGED <<files, db, generation, flushing, merged, batches, answers, limits>>

\* The unlink comes after the look: it removes whatever lock is there by then.
Steal(p) ==
    /\ pc[p] = "steal"
    /\ lock' = "none" /\ old' = FALSE
    /\ robbed' = (robbed \/ (lock /= "none" /\ pc[lock] \in Critical))
    /\ pc' = [pc EXCEPT ![p] = "idle"]
    /\ UNCHANGED <<journal, db, generation, flushing, attempts, merged, batches, told, refused, limits>>

\* The next queued write starts, whatever became of this one.
NextWrite(p) ==
    /\ flushing' = [flushing EXCEPT ![p] = Tail(@)]
    /\ attempts' = [attempts EXCEPT ![p] = 0]
    /\ pc' = [pc EXCEPT ![p] = "idle"]

\* MEMORY_LOCK_TIMEOUT goes to the caller.
Timeout(p) ==
    /\ Wants(p) /\ attempts[p] = MaxAttempts
    /\ refused' = refused \cup Head(flushing[p])
    /\ NextWrite(p)
    /\ UNCHANGED <<files, db, generation, merged, batches, told, robbed, limits>>

\* Mutants of MergedWith: the stored operations, or the stored generation, are not looked at.
MergedAlone(p) ==
    [facts |-> db[p], generation |-> Larger(generation[p], journal.generation) + 1]
MergedUncounted(p) ==
    [facts |-> db[p] \cup journal.facts, generation |-> generation[p] + 1]

\* The stored operations and those of this process, under the next generation.
MergedWith(p) ==
    [facts |-> db[p] \cup journal.facts, generation |-> Larger(generation[p], journal.generation) + 1]

Merge(p) ==
    /\ pc[p] = "merge"
    /\ db' = [db EXCEPT ![p] = @ \cup journal.facts]
    /\ merged' = [merged EXCEPT ![p] = MergedWith(p)]
    /\ generation' = [generation EXCEPT ![p] = MergedWith(p).generation]
    /\ pc' = [pc EXCEPT ![p] = "replace"]
    /\ UNCHANGED <<files, flushing, attempts, batches, answers, limits>>

\* The temporary file is renamed over the journal.
Replace(p) ==
    /\ pc[p] = "replace"
    /\ journal' = merged[p]
    /\ pc' = [pc EXCEPT ![p] = "unlock"]
    /\ UNCHANGED <<lock, old, db, generation, flushing, attempts, merged, batches, answers, limits>>

\* Any call of a write may fail, up to the rename.
Fault(p) ==
    /\ pc[p] \in {"merge", "replace"} /\ troubles < MaxTroubles
    /\ troubles' = troubles + 1
    /\ pc' = [pc EXCEPT ![p] = "abort"]
    /\ UNCHANGED <<files, db, generation, flushing, attempts, merged, batches, answers, starts>>

\* withLock's finally, and then flush returns or throws.
Unlock(p) ==
    /\ pc[p] \in {"unlock", "abort"}
    /\ lock' = "none" /\ old' = FALSE
    /\ IF pc[p] = "unlock" THEN told' = told \cup Head(flushing[p]) /\ UNCHANGED refused
       ELSE refused' = refused \cup Head(flushing[p]) /\ UNCHANGED told
    /\ NextWrite(p)
    /\ UNCHANGED <<journal, db, generation, merged, batches, robbed, limits>>

Write(p) ==
    \/ TryLock(p) \/ Retry(p) \/ Steal(p) \/ Timeout(p)
    \/ Merge(p) \/ Replace(p) \/ Unlock(p)
-----------------------------------------------------------------------------
\* The memory of a process dies with it; its lock file does not.
Crash(p) ==
    /\ pc[p] /= "down" /\ troubles < MaxTroubles
    /\ troubles' = troubles + 1
    /\ pc' = [pc EXCEPT ![p] = "down"]
    /\ db' = [db EXCEPT ![p] = {}]
    /\ generation' = [generation EXCEPT ![p] = 1]
    /\ flushing' = [flushing EXCEPT ![p] = <<>>]
    /\ attempts' = [attempts EXCEPT ![p] = 0]
    /\ merged' = [merged EXCEPT ![p] = Blank]
    /\ depth' = [depth EXCEPT ![p] = 0] /\ dirty' = [dirty EXCEPT ![p] = FALSE]
    /\ pend' = [pend EXCEPT ![p] = {}]
    /\ UNCHANGED <<files, answers, starts>>

\* 30 seconds pass for a lock file that was left behind.
LockAges ==
    /\ lock /= "none" /\ ~old
    /\ pc[lock] \notin Critical
    /\ old' = TRUE
    /\ UNCHANGED <<journal, lock, pc, db, generation, flushing, attempts, merged, batches, answers, limits>>

Next ==
    \/ \E p \in Processes :
        \/ Load(p) \/ OpenBatch(p) \/ CloseBatch(p)
        \/ \E f \in Facts : Upsert(p, f)
        \/ Write(p) \/ Fault(p) \/ Crash(p)
    \/ LockAges

Spec == Init /\ [][Next]_vars

\* Node runs every continuation and every timer of a living process.
FairSpec == Spec /\ \A p \in Processes : WF_vars(Write(p))
-----------------------------------------------------------------------------
\* "merges simultaneous process writers without corruption or lost tasks": what
\* flush returned for stays in the journal, whoever writes it next.
NothingLost == told \subseteq journal.facts

\* The same for as long as no writer took a lock away from a living one (line
\* 124): a crash with the lock held, its takeover, a failed write and any order
\* of loads, merges and renames lose nothing by themselves.
NothingLostUnderLock == ~robbed => NothingLost

\* Under the lock a replaced journal keeps every operation and has a higher
\* generation, by which a process tells it from the one it knew (flush).
JournalGrows ==
    [][journal' /= journal /\ ~robbed =>
         /\ journal.facts \subseteq journal'.facts
         /\ journal'.generation > journal.generation]_vars

\* Every operation a process knows is durable, or queued, or waits for the end
\* of an open batch, or its caller was told of the failure (flush, batch).
NothingForgotten ==
    ~robbed => \A p \in Processes : \A f \in db[p] \ (journal.facts \cup refused) :
        \/ depth[p] > 0 /\ f \in pend[p]
        \/ \E i \in 1 .. Len(flushing[p]) : f \in flushing[p][i]

\* No writer waits for ever for a lock: it gets it, takes it over or gives up.
EveryWriteEnds == \A p \in Processes : Wants(p) ~> (flushing[p] = <<>> \/ pc[p] = "down")
=============================================================================
