---------------------------- MODULE ProjectKnowledge ----------------------------
(***************************************************************************)
(* What the project memory of one process knows of a repository, and how   *)
(* the index request and the rebuild command bring it up to date           *)
(* (feltdb-project-memory.ts, lifecycle/reconcile.ts, index-project.ts,    *)
(* ingest-history.ts).  Requests overlap: a step below runs from one await *)
(* on the file system, git or the journal to the next.                     *)
(*                                                                         *)
(* A file is its content; the symbols and edges extracted from a file are  *)
(* the pair of its path and that content.  The co-change counts of the     *)
(* pairs of a commit are the number of times that commit was counted.      *)
(* Commits are numbered in the order of their dates.                       *)
(***************************************************************************)
EXTENDS Integers, FiniteSets

CONSTANTS
    Paths,        \* files discoverFiles may find
    Contents,     \* what a readable file may hold
    Commits,      \* commits the repository may have, 1 .. n by date
    Parents,      \* [Commits -> SUBSET Commits]
    Reverts,      \* commit -> the commit its message says it reverts
    Requests,     \* requests and commands that may overlap
    Notes,        \* task records written by the rest of the process
    MaxEdits, MaxMoves, MaxCalls, MaxFaults, MaxCrashes  \* bounds

Absent == "absent"          \* no such file
Unreadable == "unreadable"  \* the hash of a file that cannot be read
None == 0                   \* no commit

ASSUME CommitsByDate == /\ Commits \subseteq Nat \ {None}
                        /\ Parents \in [Commits -> SUBSET Commits]
                        /\ \A c \in Commits : \A p \in Parents[c] : p < c
ASSUME FinitelyMany == IsFiniteSet(Requests)

VARIABLES
    tree,      \* the working tree
    head,      \* the commit HEAD names
    pruned,    \* commits git has forgotten
    mem,       \* the collections in memory
    disk,      \* what the journal holds
    depth,     \* batchDepth
    dirty,     \* batchDirty
    req,       \* the progress of each request
    left,      \* what the bounds still allow
    safe,      \* ghost: notes acknowledged while no batch was open
    hurt       \* ghost: what has disturbed the knowledge since it was exact

vars == <<tree, head, pruned, mem, disk, depth, dirty, req, left, safe, hurt>>
repo == <<tree, head, pruned>>

\* ----------------------------------------------------------- the collections
Empty == [files |-> [p \in Paths |-> Absent], facts |-> {}, counted |-> [c \in Commits |-> 0],
          reverted |-> {}, cursor |-> None, notes |-> {}, prov |-> {}]

ProvFiles(ps) == {<<"files", p>> : p \in ps}
ProvFacts(fs) == {<<"graph", f>> : f \in fs}
ProvCommits(cs) == {<<"history", c>> : c \in cs}
ProvCursor == {<<"cursor", None>>}

Known(m) == {p \in Paths : m.files[p] # Absent}
Ingested(m) == {c \in Commits : m.counted[c] > 0}

\* upsertFile of every file found: a file that is gone stays.
WithFiles(m, seen) ==
    LET found == {p \in Paths : seen[p] # Absent}
    IN [m EXCEPT !.files = [p \in Paths |-> IF p \in found THEN seen[p] ELSE @[p]],
                 !.prov = @ \cup ProvFiles(found)]

\* upsertSymbol and addRelationship of everything extracted.
WithFacts(m, fs) == [m EXCEPT !.facts = @ \cup fs, !.prov = @ \cup ProvFacts(fs)]

\* setHistoryCursor.
WithCursor(m, c) == [m EXCEPT !.cursor = c, !.prov = @ \cup ProvCursor]

\* ingestCommit, then the cursor: the commit is upserted, its pairs are counted again.
WithCommit(m, c) ==
    WithCursor([m EXCEPT !.counted[c] = @ + 1,
                         !.reverted = @ \cup ({Reverts[c]} \cap Ingested(m)),
                         !.prov = @ \cup ProvCommits({c})], c)

\* reset("graph"): files, symbols, the file system's and the parser's edges, their provenance.
FilesCleared(m) ==   \* mutant of GraphCleared
    [m EXCEPT !.files = Empty.files, !.prov = @ \ ProvFiles(Paths)]
GraphCleared(m) ==
    [m EXCEPT !.files = Empty.files, !.facts = {},
              !.prov = @ \ (ProvFiles(Paths) \cup ProvFacts(m.facts))]

\* prepareRebuild: the history and its cursor too.
GraphOnlyDescribed(m) ==   \* mutant of FactsCleared
    [GraphCleared(m) EXCEPT !.counted = Empty.counted, !.reverted = {}, !.cursor = None]
FactsCleared(m) ==
    [GraphCleared(m) EXCEPT !.counted = Empty.counted, !.reverted = {}, !.cursor = None,
                            !.prov = @ \ (ProvCommits(Commits) \cup ProvCursor)]

\* upsert writes the memory and flushes; inside a batch the flush is left for its end.
Put(m) == /\ mem' = m
          /\ IF depth = 0 THEN disk' = m /\ dirty' = dirty
                          ELSE disk' = disk /\ dirty' = TRUE
          /\ depth' = depth

\* the same for a write outside a batch after which the caller opens one
PutThenBatch(m) == /\ mem' = m
                   /\ IF depth = 0 THEN disk' = m /\ dirty' = dirty
                                   ELSE disk' = disk /\ dirty' = TRUE
                   /\ depth' = depth + 1

\* The end of a batch in which something was written (the action's finally).
EndBatch(m) == /\ mem' = m
               /\ depth' = depth - 1
               /\ IF depth = 1 THEN disk' = m /\ dirty' = FALSE
                               ELSE disk' = disk /\ dirty' = TRUE

\* The same when the action wrote nothing of its own.
EndBatchUnflushed == mem' = mem /\ depth' = depth - 1 /\ UNCHANGED <<disk, dirty>>  \* mutant of EndBatchUnwritten
EndBatchUnwritten == /\ mem' = mem
                     /\ depth' = depth - 1
                     /\ IF depth = 1 /\ dirty THEN disk' = mem /\ dirty' = FALSE
                                              ELSE UNCHANGED <<disk, dirty>>

\* ---------------------------------------------------------------- requests
Idle == [pc |-> "idle", known |-> Empty.files, seen |-> Empty.files, cursor |-> None,
         head |-> None, todo |-> {}, quiet |-> FALSE]

Active(r) == req[r].pc # "idle"
At(r, pc) == req[r].pc = pc
Spend(what) == left[what] > 0 /\ left' = [left EXCEPT ![what] = @ - 1]
Disturbed == [r \in Requests |-> [req[r] EXCEPT !.quiet = FALSE]]

\* The commits reachable from c; None reaches none.
Ancestors(c) ==
    LET upTo[n \in Commits \cup {None}] ==
            IF n = None THEN {} ELSE {n} \cup UNION {upTo[p] : p \in Parents[n]}
    IN upTo[c]

\* `git revert' names a commit of the branch it is made on.
ASSUME RevertsOwnHistory ==
    \A c \in Commits : Reverts[c] # None => Reverts[c] \in Ancestors(c) \ {c}

\* git log --reverse cursor..HEAD; git fails on a cursor it has forgotten, and everything
\* is listed.  The list is the set of its commits, of which the oldest comes first.
UnseenFromRoot(cursor) == Ancestors(head)   \* mutant of Unseen
Unseen(cursor) ==
    Ancestors(head) \ Ancestors(IF cursor \in pruned THEN None ELSE cursor)
Oldest(todo) == CHOOSE c \in todo : \A d \in todo : c <= d

\* what the parser finds in the files of a tree
FactsOf(t) == {<<p, t[p]>> : p \in {q \in Paths : t[q] # Absent}}

Enter(pc, quiet) == [Idle EXCEPT !.pc = pc, !.quiet = quiet]

\* ingestRepositoryHistory reads the cursor and asks git for HEAD.
ToHistory(r) == req' = [req EXCEPT ![r] = [Enter("head", @.quiet) EXCEPT !.cursor = mem.cursor]]

Alone(r) == \A s \in Requests \ {r} : ~Active(s)
Others(r) == IF Alone(r) THEN req ELSE Disturbed

\* reconcileProjectMemory lists what is known and starts to read the files.
CallIndex(r) ==
    /\ ~Active(r) /\ Spend("calls")
    /\ req' = [Others(r) EXCEPT ![r] = [Enter("known", Alone(r)) EXCEPT !.known = mem.files]]
    /\ hurt' = IF Alone(r) THEN [hurt EXCEPT !.answered = FALSE]
               ELSE [hurt EXCEPT !.answered = FALSE, !.recounted = TRUE]
    /\ UNCHANGED <<repo, mem, disk, depth, dirty, safe>>

\* The rebuild command forgets every fact and goes straight to indexing.
CallRebuild(r) ==
    /\ ~Active(r) /\ Spend("calls") /\ Alone(r)
    /\ PutThenBatch(FactsCleared(mem))
    /\ req' = [req EXCEPT ![r] = Enter("scan", TRUE)]
    /\ hurt' = [graph |-> FALSE, missed |-> FALSE, recounted |-> FALSE, answered |-> FALSE,
                unread |-> FALSE]
    /\ UNCHANGED <<repo, safe>>

\* The hashes are compared; on a difference the graph is reset, when anything was known.
Compare(r) ==
    /\ At(r, "known")
    /\ IF req[r].known = tree
       THEN ToHistory(r) /\ UNCHANGED <<mem, disk, depth, dirty, hurt>>
       ELSE /\ PutThenBatch(IF req[r].known = Empty.files THEN mem ELSE GraphCleared(mem))
            /\ hurt' = [hurt EXCEPT !.graph = ~req[r].quiet \/ (@ /\ req[r].known = Empty.files)]
            /\ req' = [req EXCEPT ![r] = Enter("scan", @.quiet)]
    /\ UNCHANGED <<repo, left, safe>>

\* indexProjectIntoMemory reads the files again and stores them.
Scan(r) ==
    /\ At(r, "scan")
    /\ mem' = WithFiles(mem, tree) /\ dirty' = TRUE
    /\ req' = [req EXCEPT ![r].pc = "extract", ![r].seen = tree]
    /\ hurt' = [hurt EXCEPT !.graph = @ \/ ~req[r].quiet]
    /\ UNCHANGED <<repo, disk, depth, left, safe>>

\* Each stored file is read a third time and parsed; the batch ends.
Extract(r) ==
    LET found == {p \in Paths : req[r].seen[p] # Absent}
    IN /\ At(r, "extract")
       /\ \A p \in found : tree[p] \in Contents
       /\ EndBatch(WithFacts(mem, {<<p, tree[p]>> : p \in found}))
       /\ ToHistory(r)
       /\ hurt' = [hurt EXCEPT !.graph = @ \/ ~req[r].quiet]
       /\ UNCHANGED <<repo, left, safe>>

\* A file that cannot be read fails the request after its hash was stored.
ExtractFails(r) ==
    /\ At(r, "extract")
    /\ \E p \in Paths : req[r].seen[p] # Absent /\ tree[p] \notin Contents
    /\ EndBatch(mem)
    /\ req' = [req EXCEPT ![r] = Idle]
    /\ hurt' = [hurt EXCEPT !.graph = TRUE]
    /\ UNCHANGED <<repo, left, safe>>

\* ingestRepositoryHistory: nothing to do when HEAD is the cursor.
ReadHead(r) ==
    /\ At(r, "head")
    /\ IF head = req[r].cursor
       THEN /\ req' = [req EXCEPT ![r] = Idle] /\ depth' = depth
            /\ hurt' = [hurt EXCEPT !.answered = req[r].quiet, !.unread = FALSE]
       ELSE /\ req' = [req EXCEPT ![r].pc = "list", ![r].head = head] /\ depth' = depth + 1
            /\ hurt' = hurt
    /\ UNCHANGED <<repo, mem, disk, dirty, left, safe>>

\* git fails to name HEAD: getHead answers undefined and the history is skipped silently.
HeadUnread(r) ==
    /\ At(r, "head") /\ Spend("faults")
    /\ req' = [req EXCEPT ![r] = Idle]
    /\ hurt' = [hurt EXCEPT !.answered = req[r].quiet, !.unread = TRUE]
    /\ UNCHANGED <<repo, mem, disk, depth, dirty, safe>>

\* The end of the loop puts the cursor where HEAD was when the request looked.
Finish(r, m) ==
    /\ EndBatch(WithCursor(m, req[r].head))
    /\ req' = [req EXCEPT ![r] = Idle]
    /\ hurt' = [hurt EXCEPT !.answered = req[r].quiet, !.unread = FALSE]

List(r) ==
    /\ At(r, "list")
    /\ LET todo == Unseen(req[r].cursor)
       IN IF todo = {} THEN Finish(r, mem)
          ELSE /\ req' = [req EXCEPT ![r].pc = "read", ![r].todo = todo]
               /\ UNCHANGED <<mem, disk, depth, dirty, hurt>>
    /\ UNCHANGED <<repo, left, safe>>

\* Whatever git failed on, listUnseenCommits lists again, everything behind HEAD.
Relist(r) ==
    /\ At(r, "list") /\ Spend("faults")
    /\ req' = [req EXCEPT ![r].pc = "read", ![r].todo = Ancestors(head)]
    /\ hurt' = [hurt EXCEPT !.recounted = @ \/ req[r].cursor # None]
    /\ UNCHANGED <<repo, mem, disk, depth, dirty, safe>>

\* It fails a second time: the batch ends before anything was ingested.
ListFails(r) ==
    /\ At(r, "list") /\ Spend("faults")
    /\ EndBatchUnwritten
    /\ req' = [req EXCEPT ![r] = Idle]
    /\ UNCHANGED <<repo, safe, hurt>>

\* One commit is read from git and stored with the cursor.
Ingest(r) ==
    LET c == Oldest(req[r].todo)  rest == req[r].todo \ {c}
    IN /\ At(r, "read") /\ c \notin pruned
       /\ IF rest = {} THEN Finish(r, WithCommit(mem, c))
          ELSE /\ mem' = WithCommit(mem, c) /\ dirty' = TRUE
               /\ req' = [req EXCEPT ![r].todo = rest]
               /\ UNCHANGED <<disk, depth, hurt>>
       /\ UNCHANGED <<repo, left, safe>>

\* git fails: the batch ends with what was ingested so far.
IngestSwallows(r) ==   \* mutant of IngestFails
    /\ At(r, "read") /\ Spend("faults") /\ Finish(r, mem) /\ UNCHANGED <<repo, safe>>
IngestFails(r) ==
    /\ At(r, "read")
    /\ IF Oldest(req[r].todo) \in pruned THEN left' = left ELSE Spend("faults")
    /\ EndBatchUnwritten
    /\ req' = [req EXCEPT ![r] = Idle]
    /\ hurt' = [hurt EXCEPT !.recounted = TRUE]
    /\ UNCHANGED <<repo, safe>>

\* A task record is upserted by another part of the process.
Note(n) ==
    /\ n \notin mem.notes
    /\ Put([mem EXCEPT !.notes = @ \cup {n}, !.prov = @ \cup {<<"tasks", n>>}])
    /\ safe' = IF depth = 0 THEN safe \cup {n} ELSE safe
    /\ UNCHANGED <<repo, req, left, hurt>>

\* ------------------------------------------------------------ the environment
Edit(p, c) ==
    /\ tree[p] # c /\ Spend("edits")
    /\ tree' = [tree EXCEPT ![p] = c]
    /\ req' = Disturbed /\ hurt' = [hurt EXCEPT !.answered = FALSE]
    /\ UNCHANGED <<head, pruned, mem, disk, depth, dirty, safe>>

\* A commit, a merge, a checkout or a rewrite of the branch.
MoveHead(c) ==
    LET forward == head \in Ancestors(c)
        listing == \E r \in Requests : At(r, "list")
    IN /\ c # head /\ c \notin pruned /\ Spend("moves")
       /\ head' = c
       /\ req' = Disturbed
       /\ hurt' = [hurt EXCEPT !.answered = FALSE, !.missed = @ \/ (listing /\ ~forward),
                               !.recounted = @ \/ listing \/ ~forward]
       /\ UNCHANGED <<tree, pruned, mem, disk, depth, dirty, safe>>

\* git gc drops what no branch names.
Prune ==
    /\ pruned' = Commits \ Ancestors(head) /\ pruned' # pruned /\ Spend("moves")
    /\ req' = Disturbed
    /\ hurt' = [hurt EXCEPT !.answered = FALSE, !.recounted = TRUE]
    /\ UNCHANGED <<tree, head, mem, disk, depth, dirty, safe>>

\* The process dies and starts again from the journal (load).
Crash ==
    /\ Spend("crashes")
    /\ mem' = disk /\ depth' = 0 /\ dirty' = FALSE
    /\ req' = [r \in Requests |-> Idle]
    /\ hurt' = [hurt EXCEPT !.answered = FALSE, !.graph = TRUE]
    /\ UNCHANGED <<repo, disk, safe>>

Init ==
    /\ tree = [p \in Paths |-> CHOOSE c \in Contents : TRUE]
    /\ head \in {c \in Commits : Parents[c] = {}} /\ pruned = {}
    /\ mem = Empty /\ disk = Empty /\ depth = 0 /\ dirty = FALSE
    /\ req = [r \in Requests |-> Idle]
    /\ left = [edits |-> MaxEdits, moves |-> MaxMoves, calls |-> MaxCalls,
               faults |-> MaxFaults, crashes |-> MaxCrashes]
    /\ safe = {}
    /\ hurt = [graph |-> FALSE, missed |-> FALSE, recounted |-> FALSE, answered |-> FALSE,
               unread |-> FALSE]

Next ==
    \/ \E r \in Requests :
          \/ CallIndex(r) \/ CallRebuild(r) \/ Compare(r) \/ Scan(r) \/ Extract(r)
          \/ ExtractFails(r) \/ ReadHead(r) \/ HeadUnread(r) \/ List(r)
          \/ Relist(r) \/ ListFails(r) \/ Ingest(r) \/ IngestFails(r)
    \/ \E n \in Notes : Note(n)
    \/ \E p \in Paths, c \in Contents \cup {Absent, Unreadable} : Edit(p, c)
    \/ \E c \in Commits : MoveHead(c)
    \/ Prune \/ Crash

Spec == Init /\ [][Next]_vars

\* ---------------------------------------------------------------- properties
\* A request nothing disturbed leaves the memory equal to the project: its files,
\* and, unless a disturbed or failed indexing or a crash left traces no reset has cleared
\* since, exactly the symbols and edges of those files, none of an earlier version, with
\* the cursor at HEAD unless git failed to name it (reconcile.ts 9-13, git.ts 13).
UpToDate ==
    hurt.answered => /\ mem.files = tree
                     /\ ~hurt.graph => mem.facts = FactsOf(tree)
                     /\ ~hurt.unread => mem.cursor = head

\* Every commit behind the cursor has been ingested, with what it reverts, in memory
\* and in the journal, across crashes, failures, overlapping requests, merges,
\* rewrites and garbage collection: only a checkout of another line of history between the
\* reading of HEAD and the listing can hide a commit (ingest-history.ts 7-18).
CompleteIn(m) ==
    /\ Ancestors(m.cursor) \subseteq Ingested(m)
    /\ \A c \in Ancestors(m.cursor) : Reverts[c] \in Ingested(m) => Reverts[c] \in m.reverted
HistoryComplete == ~hurt.missed => CompleteIn(mem) /\ CompleteIn(disk)

\* As long as HEAD only moves forward, never under a listing, and requests neither
\* overlap nor fail, and git lists what it is asked for (any failure of it makes
\* listUnseenCommits start again from the root, git.ts 21-23), the pairs of a commit are
\* counted once ("changed together in N historical commits", feltdb-project-memory.ts
\* 199-206, 253).
CountedOnce == ~hurt.recounted => \A c \in Commits : mem.counted[c] <= 1 /\ disk.counted[c] <= 1

\* Provenance describes exactly the facts that are stored, through upserts, resets and
\* rebuilds, in memory and after a crash (feltdb-project-memory.ts 128-134, 279-296).
Described(m) ==
    m.prov = ProvFiles(Known(m)) \cup ProvFacts(m.facts) \cup ProvCommits(Ingested(m))
             \cup (IF m.cursor = None THEN {} ELSE ProvCursor) \cup {<<"tasks", n>> : n \in m.notes}
ProvenanceExact == Described(mem) /\ Described(disk)

\* A task record acknowledged while no batch was open is in the journal for good, and
\* once the last batch has ended so is one acknowledged inside it, whether the batch
\* succeeded or threw (feltdb-project-memory.ts 126, 269).
RecordsDurable == safe \subseteq disk.notes /\ (depth = 0 => disk.notes = mem.notes)
=============================================================================
