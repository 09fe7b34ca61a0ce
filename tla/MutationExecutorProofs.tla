------------------------ MODULE MutationExecutorProofs ------------------------
(***************************************************************************)
(* The standalone executor, for proposals of any number of files, any      *)
(* number of attempts, failing calls and edits: a call that did not        *)
(* succeed leaves nothing behind, a success is what was verified, and an   *)
(* edit the executor could have known of survives.                         *)
(***************************************************************************)
EXTENDS MutationExecutor, TLAPS

Steps == {"called", "validate", "apply", "unlink", "store", "verify", "succeed",
          "undo", "restore", "restored", "repair", "done"}
Patches == [operation : Operations, path : Paths, oldPath : Paths, hash : Int, after : Int]
Results == {"none", "success", "failure", "unapplied", "rejected", "failed", "error"}

TypeOK ==
    /\ tree \in [Paths -> Int] /\ verified \in [Paths -> Int]
    /\ pc \in Steps /\ i \in Nat /\ attempt \in Nat \ {0}
    /\ proposal \in Seq(Patches) /\ snapshot \in Seq(Int) /\ applied \in Nat
    /\ txn \in {"none", "applied", "verified", "rolled_back"} /\ result \in Results
    /\ kept \subseteq Paths /\ strays \subseteq Paths /\ faults \in Nat /\ edits \in Nat

\* Where each step of a round stands in its proposal.
Position ==
    /\ \A k \in 1 .. Len(proposal) :
          proposal[k].operation = "rename" <=> proposal[k].path /= proposal[k].oldPath
    /\ pc /= "done" => result = "none"
    /\ pc = "called" => i = 1 /\ snapshot = <<>> /\ applied = 0
    /\ pc = "validate" => i \in 1 .. Len(proposal) /\ Len(snapshot) = i - 1 /\ applied = 0
    /\ pc \in {"apply", "unlink"} => i \in 1 .. Len(proposal) /\ applied = i - 1
    /\ pc = "unlink" => proposal[i].operation = "rename"
    /\ pc \in {"store", "verify", "succeed"} => applied = Len(proposal)
    /\ pc \in {"undo", "restore"} => applied <= Len(proposal) /\ i <= applied

\* The patches validated in this round, for which the executor now answers.
Busy   == {"apply", "unlink", "store", "verify", "succeed", "undo", "restore"}
Judged == IF pc \in Busy THEN Len(proposal) ELSE IF pc = "validate" THEN i - 1 ELSE 0

\* What validation found out: the snapshot is the committed file, the new name of a rename
\* is free, and none of the names is a file the user has edited.
SoundAt(k) ==
    /\ snapshot[k] = Repository[Source(proposal[k])]
    /\ proposal[k].operation = "rename" => snapshot[k] /= Absent /\ Repository[proposal[k].path] = Absent
    /\ Touched(proposal[k]) \cap kept = {}
Sound == \A k \in 1 .. Judged : SoundAt(k)

Committable(p) == tree[p] \in {Repository[p], User}

\* Before a round, and after the rollback of one, the tree is the user's, but for
\* what could not be removed.
Untouched ==
    pc \in {"called", "validate", "restored", "repair"} => \A p \in Paths \ strays : Committable(p)

\* During the application the tree is what the patches applied so far make of it.
Progress ==
    /\ pc \in {"apply", "store", "verify"} =>
          \A p \in Paths \ strays : tree[p] = User \/ Made(applied, p, tree[p])
    /\ pc = "unlink" =>
          /\ tree[proposal[i].path] \in {User, proposal[i].after}
          /\ \A p \in Paths \ (strays \cup {proposal[i].path}) : tree[p] = User \/ Made(applied, p, tree[p])
    /\ pc = "succeed" =>
          \A p \in Paths : /\ p \in strays \/ verified[p] = User \/ Made(applied, p, verified[p])
                           /\ tree[p] \in {verified[p], User}

\* During the rollback whatever is not yet as committed is named by a patch to be undone.
Receding ==
    pc \in {"undo", "restore"} =>
        \A p \in Paths \ strays :
            Committable(p) \/ \E k \in 1 .. i : p \in Touched(proposal[k])

\* No transaction says applied unless the tree is.
Recorded ==
    pc \in {"called", "validate", "apply", "unlink", "store", "undo", "repair"} =>
        txn \in {"none", "rolled_back"}

IInv ==
    /\ TypeOK /\ Position /\ Sound
    /\ Untouched /\ Progress /\ Receding /\ Recorded
    /\ NothingLeftBehind /\ SuccessIsVerified /\ TimelyEditsSurvive
-----------------------------------------------------------------------------
\* What is in flight are the names of the validated patches.
LEMMA InFlightIs ==
    \A p : p \in InFlight <=> \E k \in 1 .. Judged : p \in Touched(proposal[k])
  BY DEF InFlight, Judged, Busy

\* A proposal has at least one patch, each of them of the planner's form.
LEMMA ProposalType ==
    ASSUME TypeOK, Propose
    PROVE  /\ proposal' \in Seq(Patches) /\ Len(proposal') >= 1
           /\ \A k \in 1 .. Len(proposal') :
                 proposal'[k].operation = "rename" <=> proposal'[k].path /= proposal'[k].oldPath
  <1>0. PICK n \in 1 .. MaxFiles : \E asked \in [1 .. n -> Shapes] :
            proposal' = [k \in 1 .. n |-> Patch(asked[k], k)]
    BY DEF Propose
  <1>1. PICK asked \in [1 .. n -> Shapes] : proposal' = [k \in 1 .. n |-> Patch(asked[k], k)]
    BY <1>0
  <1>2. ASSUME NEW k \in 1 .. n
        PROVE  /\ asked[k].operation \in Operations /\ asked[k].path \in Paths /\ asked[k].oldPath \in Paths
               /\ asked[k].operation = "rename" <=> asked[k].path /= asked[k].oldPath
    BY DEF Shapes, Operations
  <1>3. ASSUME NEW k \in 1 .. n
        PROVE  /\ Patch(asked[k], k) \in Patches
               /\ Patch(asked[k], k).operation = "rename" <=>
                      Patch(asked[k], k).path /= Patch(asked[k], k).oldPath
    BY <1>2, ExecutorBounds DEF Patch, Patches, TypeOK
  <1>4. n \in Nat /\ n >= 1 /\ Len(proposal') = n
    BY <1>1, ExecutorBounds
  <1> QED
    BY <1>1, <1>3, <1>4

\* The next patch leaves the names it does not touch as the earlier ones made them.
LEMMA MadeBefore ==
    ASSUME NEW n \in Nat \ {0}, NEW p, NEW c, Made(n - 1, p, c), p \notin Touched(proposal[n])
    PROVE  Made(n, p, c)
  <1>1. CASE c = Repository[p] /\ \A k \in 1 .. n - 1 : p \notin Touched(proposal[k])
    BY <1>1 DEF Made
  <1>2. CASE \E k \in 1 .. n - 1 : /\ p \in Touched(proposal[k]) /\ c = Left(proposal[k], p)
                                   /\ \A j \in k + 1 .. n - 1 : p \notin Touched(proposal[j])
    <2>1. PICK k \in 1 .. n - 1 : /\ p \in Touched(proposal[k]) /\ c = Left(proposal[k], p)
                                  /\ \A j \in k + 1 .. n - 1 : p \notin Touched(proposal[j])
      BY <1>2
    <2>2. k \in 1 .. n /\ \A j \in k + 1 .. n : p \notin Touched(proposal[j])
      BY <2>1
    <2> QED
      BY <2>1, <2>2 DEF Made
  <1> QED
    BY <1>1, <1>2 DEF Made

\* And it makes of those it touches what it says.
LEMMA MadeNow ==
    ASSUME NEW n \in Nat \ {0}, NEW p \in Touched(proposal[n])
    PROVE  Made(n, p, Left(proposal[n], p))
  BY DEF Made

\* What the patches made is the committed content where none of them went.
LEMMA MadeWhere ==
    ASSUME NEW n \in Nat, NEW p, NEW c, Made(n, p, c)
    PROVE  c = Repository[p] \/ \E k \in 1 .. n : p \in Touched(proposal[k])
  BY DEF Made

LEMMA InitOK == Init => IInv
  <1> SUFFICES ASSUME Init PROVE IInv
    OBVIOUS
  <1>1. TypeOK
    BY ExecutorBounds DEF Init, TypeOK, Steps, Results, Absent, Committed
  <1>2. Position /\ Sound /\ Untouched /\ Progress /\ Receding /\ Recorded
    BY DEF Init, Position, Sound, Judged, Busy, Untouched, Committable, Progress, Receding, Recorded
  <1>3. NothingLeftBehind /\ SuccessIsVerified /\ TimelyEditsSurvive
    BY DEF Init, NothingLeftBehind, SuccessIsVerified, TimelyEditsSurvive
  <1> QED
    BY <1>1, <1>2, <1>3 DEF IInv
-----------------------------------------------------------------------------
LEMMA StepCall == ASSUME IInv, Call PROVE IInv'
  <1> USE DEF IInv
  <1>1. TypeOK'
    BY ProposalType DEF Call, TypeOK, Finish, Steps, Results
  <1>5. Position'
    BY ProposalType DEF Call, Position, Finish
  <1>6. Judged' = 0
    BY DEF Call, Position, Judged, Busy, Finish
  <1>2. Sound' /\ Progress' /\ Receding' /\ Recorded'
    BY <1>6 DEF Call, Sound, Progress, Receding, Recorded, Finish
  <1>3. Untouched' /\ TimelyEditsSurvive'
    BY DEF Call, Untouched, Committable, TimelyEditsSurvive, Finish
  <1>4. NothingLeftBehind' /\ SuccessIsVerified'
    BY DEF Call, NothingLeftBehind, SuccessIsVerified, Finish, Untouched, Committable, Recorded, Position
  <1> QED
    BY <1>1, <1>2, <1>3, <1>4, <1>5

\* A patch that is accepted is sound: it is of files nobody has touched.
LEMMA AcceptedSound ==
    ASSUME IInv, pc = "validate", Accepted(proposal[i], tree, Repository)
    PROVE  /\ tree[Source(proposal[i])] = Repository[Source(proposal[i])]
           /\ proposal[i].operation = "rename" =>
                 tree[Source(proposal[i])] /= Absent /\ Repository[proposal[i].path] = Absent
           /\ Touched(proposal[i]) \cap kept = {}
  <1>1. proposal[i] \in Patches
    BY DEF IInv, TypeOK, Position
  <1>2. \A p \in Touched(proposal[i]) : p \in Paths /\ tree[p] = Repository[p]
    BY <1>1 DEF Accepted, isDirty, Touched, Patches
  <1>3. \A p \in Paths : Repository[p] /= User
    BY ExecutorBounds DEF Absent, Committed, User
  <1>4. Touched(proposal[i]) \cap kept = {}
    BY <1>2, <1>3 DEF IInv, TimelyEditsSurvive
  <1>5. proposal[i].operation = "rename" =>
            tree[Source(proposal[i])] /= Absent /\ Repository[proposal[i].path] = Absent
    BY <1>2 DEF Accepted, Touched
  <1> QED
    BY <1>2, <1>4, <1>5 DEF Source, Touched

LEMMA StepValidate == ASSUME IInv, Validate PROVE IInv'
  <1> USE DEF IInv
  <1>1. CASE Finish("rejected") /\ UNCHANGED <<i, snapshot>>
    <2>1. UNCHANGED <<tree, attempt, proposal, snapshot, applied, txn, verified, kept, strays, faults, edits, i>>
          /\ pc' = "done" /\ result' = "rejected" /\ pc = "validate"
      BY <1>1 DEF Validate, Finish
    <2>2. TypeOK' /\ Position'
      BY <2>1 DEF TypeOK, Position, Steps, Results
    <2>3. Sound' /\ Untouched' /\ Progress' /\ Receding' /\ Recorded'
      BY <2>1 DEF Sound, Judged, Busy, Untouched, Progress, Receding, Recorded
    <2>4. NothingLeftBehind' /\ SuccessIsVerified' /\ TimelyEditsSurvive'
      BY <2>1 DEF NothingLeftBehind, SuccessIsVerified, TimelyEditsSurvive, Untouched, Committable, Recorded
    <2> QED
      BY <2>2, <2>3, <2>4
  <1>2. CASE Accepted(proposal[i], tree, Repository) /\ ~(Finish("rejected") /\ UNCHANGED <<i, snapshot>>)
    <2>1. /\ UNCHANGED <<tree, attempt, proposal, applied, txn, verified, kept, strays, faults, edits, result>>
          /\ pc = "validate" /\ snapshot' = Append(snapshot, tree[Source(proposal[i])])
          /\ \/ i < Len(proposal) /\ i' = i + 1 /\ pc' = "validate"
             \/ i = Len(proposal) /\ i' = 1 /\ pc' = "apply"
      BY <1>2 DEF Validate, Position, TypeOK
    <2>2. i \in 1 .. Len(proposal) /\ Len(snapshot) = i - 1 /\ applied = 0 /\ Len(proposal) \in Nat
      BY <2>1 DEF Position, TypeOK
    <2>3. tree[Source(proposal[i])] \in Int
      <3>1. proposal[i] \in Patches
        BY <2>2 DEF TypeOK
      <3> QED
        BY <3>1 DEF TypeOK, Patches, Source
    <2>4. /\ snapshot' \in Seq(Int) /\ Len(snapshot') = i
          /\ snapshot'[i] = tree[Source(proposal[i])] /\ \A k \in 1 .. i - 1 : snapshot'[k] = snapshot[k]
      BY <2>1, <2>2, <2>3 DEF TypeOK
    <2>5. TypeOK' /\ Position'
      BY <2>1, <2>2, <2>4 DEF TypeOK, Position, Steps
    <2>6. Judged = i - 1 /\ Judged' = i
      BY <2>1, <2>2 DEF Judged, Busy
    <2>7. Sound'
      <3>1. ASSUME NEW k, k = i PROVE SoundAt(k)'
        BY <1>2, <2>1, <2>4, <3>1, AcceptedSound DEF SoundAt
      <3>2. ASSUME NEW k \in 1 .. i - 1 PROVE SoundAt(k)'
        BY <2>1, <2>4, <2>6 DEF Sound, SoundAt
      <3> QED
        BY <2>2, <2>6, <3>1, <3>2 DEF Sound
    <2>8. Untouched' /\ Receding' /\ Recorded'
      BY <2>1 DEF Untouched, Committable, Receding, Recorded
    <2>9. Progress'
      BY <2>1, <2>2 DEF Progress, Made, Untouched, Committable
    <2>10. NothingLeftBehind' /\ SuccessIsVerified' /\ TimelyEditsSurvive'
      BY <2>1 DEF NothingLeftBehind, SuccessIsVerified, TimelyEditsSurvive, Position
    <2> QED
      BY <2>5, <2>7, <2>8, <2>9, <2>10
  <1> QED
    BY <1>1, <1>2 DEF Validate
-----------------------------------------------------------------------------
\* What a patch asks for, as validation left it.
LEMMA PatchAt ==
    ASSUME TypeOK, Position, NEW k \in 1 .. Len(proposal)
    PROVE  /\ proposal[k].operation \in Operations /\ proposal[k].after \in Int
           /\ proposal[k].path \in Paths /\ proposal[k].oldPath \in Paths
           /\ proposal[k].operation = "rename" <=> proposal[k].path /= proposal[k].oldPath
  <1>1. proposal[k] \in Patches
    BY DEF TypeOK
  <1> QED
    BY <1>1 DEF Position, Patches

\* A patch that fails: what was applied is undone.
LEMMA StepAbandon ==
    ASSUME IInv, Abandon, faults' \in Nat,
           \/ pc = "apply" /\ strays' = strays
           \/ pc = "unlink" /\ strays' = strays \cup {proposal[i].path},
           UNCHANGED <<attempt, proposal, snapshot, txn, result, verified, kept, edits>>
    PROVE  IInv'
  <1> USE DEF IInv
  <1>1. /\ pc' = "undo" /\ i' = applied /\ applied' = applied /\ i \in 1 .. Len(proposal)
        /\ applied = i - 1 /\ Len(proposal) \in Nat /\ tree' = tree /\ pc \in {"apply", "unlink"}
    BY DEF Abandon, Position, TypeOK
  <1>2. TypeOK' /\ Position'
    <2>1. proposal[i].path \in Paths
      BY <1>1, PatchAt
    <2> QED
      BY <1>1, <2>1 DEF TypeOK, Position, Steps
  <1>3. Sound'
    BY <1>1 DEF Sound, SoundAt, Judged, Busy
  <1>4. Receding'
    <2> SUFFICES ASSUME NEW p \in Paths, p \notin strays', ~Committable(p)
                 PROVE  \E k \in 1 .. applied : p \in Touched(proposal[k])
      BY <1>1 DEF Receding, Committable
    <2>1. tree[p] = User \/ Made(applied, p, tree[p])
      BY <1>1 DEF Progress
    <2>2. applied \in Nat /\ Made(applied, p, tree[p]) /\ tree[p] /= Repository[p]
      BY <2>1 DEF Committable, TypeOK
    <2> QED
      BY <2>2, MadeWhere
  <1>5. Untouched' /\ Progress' /\ Recorded'
    BY <1>1 DEF Untouched, Progress, Recorded
  <1>6. NothingLeftBehind' /\ SuccessIsVerified' /\ TimelyEditsSurvive'
    BY <1>1 DEF NothingLeftBehind, SuccessIsVerified, TimelyEditsSurvive, Position
  <1> QED
    BY <1>2, <1>3, <1>4, <1>5, <1>6

\* A patch that is done, and the tree it leaves.
LEMMA StepAdvance ==
    ASSUME IInv, pc \in {"apply", "unlink"}, Advance, UNCHANGED <<strays, faults>>, tree' \in [Paths -> Int],
           UNCHANGED <<attempt, proposal, snapshot, txn, result, verified, kept, edits>>,
           \A p \in Paths : \/ p \notin Touched(proposal[i]) /\ tree'[p] = tree[p]
                            \/ p \in Touched(proposal[i]) /\ tree'[p] \in {User, Left(proposal[i], p)}
    PROVE  IInv'
  <1> USE DEF IInv
  <1>1. /\ applied' = i /\ i \in 1 .. Len(proposal) /\ applied = i - 1 /\ Len(proposal) \in Nat
        /\ \/ i < Len(proposal) /\ i' = i + 1 /\ pc' = "apply"
           \/ i = Len(proposal) /\ i' = i /\ pc' = "store"
    BY DEF Advance, Position, TypeOK
  <1>2. TypeOK' /\ Position'
    BY <1>1 DEF TypeOK, Position, Steps
  <1>3. Judged' = Len(proposal) /\ Judged = Len(proposal)
    BY <1>1 DEF Judged, Busy
  <1>4. Sound'
    BY <1>3 DEF Sound, SoundAt
  <1>5. ASSUME NEW p \in Paths \ strays PROVE tree'[p] = User \/ Made(i, p, tree'[p])
    <2>1. CASE p \in Touched(proposal[i])
      <3>1. tree'[p] \in {User, Left(proposal[i], p)}
        BY <2>1
      <3>2. Made(i, p, Left(proposal[i], p))
        BY <1>1, <2>1, MadeNow
      <3> QED
        BY <3>1, <3>2
    <2>2. CASE p \notin Touched(proposal[i])
      <3>1. tree[p] = User \/ Made(i - 1, p, tree[p])
        BY <1>1, <2>2 DEF Progress, Touched
      <3> QED
        BY <1>1, <2>2, <3>1, MadeBefore
    <2> QED
      BY <2>1, <2>2
  <1>6. Progress'
    BY <1>1, <1>5 DEF Progress, Made
  <1>7. Untouched' /\ Receding' /\ Recorded'
    BY <1>1 DEF Untouched, Receding, Recorded
  <1>8. TimelyEditsSurvive'
    BY <1>1, <1>3 DEF TimelyEditsSurvive, Sound, SoundAt, TypeOK
  <1>9. NothingLeftBehind' /\ SuccessIsVerified'
    BY <1>1 DEF NothingLeftBehind, SuccessIsVerified, Position
  <1> QED
    BY <1>2, <1>4, <1>6, <1>7, <1>8, <1>9

LEMMA StepApply == ASSUME IInv, Apply PROVE IInv'
  <1> USE DEF IInv
  <1> DEFINE f == proposal[i]
  <1>1. /\ pc = "apply" /\ i \in 1 .. Len(proposal) /\ faults \in Nat
        /\ UNCHANGED <<attempt, proposal, snapshot, txn, result, verified, kept, strays, edits>>
    BY DEF Apply, Position, TypeOK
  <1>2. CASE Abandon /\ faults' \in Nat
    BY <1>1, <1>2, StepAbandon
  <1>3. CASE f.operation = "delete" /\ tree' = Put(tree, f.path, Absent) /\ Advance /\ UNCHANGED faults
    <2>1. \A p \in Paths : \/ p \notin Touched(f) /\ tree'[p] = tree[p]
                           \/ p \in Touched(f) /\ tree'[p] \in {User, Left(f, p)}
      BY <1>1, <1>3, PatchAt DEF Put, Touched, Left, TypeOK
    <2>2. tree' \in [Paths -> Int]
      BY <1>1, <1>3, PatchAt DEF Put, TypeOK, Absent
    <2> QED
      BY <1>1, <1>3, <2>1, <2>2, StepAdvance
  <1>4. CASE /\ f.operation \notin {"delete", "rename"} /\ tree' = Put(tree, f.path, f.after)
             /\ Advance /\ UNCHANGED faults
    <2>1. \A p \in Paths : \/ p \notin Touched(f) /\ tree'[p] = tree[p]
                           \/ p \in Touched(f) /\ tree'[p] \in {User, Left(f, p)}
      BY <1>1, <1>4, PatchAt DEF Put, Touched, Left, TypeOK
    <2>2. tree' \in [Paths -> Int]
      BY <1>1, <1>4, PatchAt DEF Put, TypeOK
    <2> QED
      BY <1>1, <1>4, <2>1, <2>2, StepAdvance
  <1>5. CASE /\ f.operation = "rename" /\ tree' = Put(tree, f.path, f.after) /\ pc' = "unlink"
             /\ UNCHANGED <<i, applied, faults>>
    <2>1. f.path \in Paths /\ f.after \in Int /\ applied = i - 1
      BY <1>1, PatchAt DEF Position
    <2>2. tree' \in [Paths -> Int] /\ tree'[f.path] = f.after
          /\ \A p \in Paths \ {f.path} : tree'[p] = tree[p]
      BY <1>5, <2>1 DEF Put, TypeOK
    <2>3. TypeOK' /\ Position'
      BY <1>1, <1>5, <2>1, <2>2 DEF TypeOK, Position, Steps
    <2>4. Judged' = Len(proposal) /\ Judged = Len(proposal)
      BY <1>1, <1>5 DEF Judged, Busy
    <2>5. Sound'
      BY <1>1, <2>4 DEF Sound, SoundAt
    <2>6. Progress'
      BY <1>1, <1>5, <2>2 DEF Progress, Made
    <2>7. Untouched' /\ Receding' /\ Recorded'
      BY <1>1, <1>5 DEF Untouched, Receding, Recorded
    <2>8. TimelyEditsSurvive'
      BY <1>1, <2>1, <2>2, <2>4 DEF TimelyEditsSurvive, Sound, SoundAt, Touched, TypeOK
    <2>9. NothingLeftBehind' /\ SuccessIsVerified'
      BY <1>1, <1>5 DEF NothingLeftBehind, SuccessIsVerified, Position
    <2> QED
      BY <2>3, <2>5, <2>6, <2>7, <2>8, <2>9
  <1> QED
    BY <1>1, <1>2, <1>3, <1>4, <1>5 DEF Apply

LEMMA StepUnlink == ASSUME IInv, Unlink PROVE IInv'
  <1> USE DEF IInv
  <1> DEFINE f == proposal[i]
  <1>1. /\ pc = "unlink" /\ i \in 1 .. Len(proposal) /\ faults \in Nat /\ f.operation = "rename"
        /\ UNCHANGED <<attempt, proposal, snapshot, txn, result, verified, kept, edits>>
    BY DEF Unlink, Position, TypeOK
  <1>2. CASE Abandon /\ strays' = strays \cup {f.path} /\ faults' \in Nat
    BY <1>1, <1>2, StepAbandon
  <1>3. CASE tree' = Put(tree, f.oldPath, Absent) /\ Advance /\ UNCHANGED <<strays, faults>>
    <2>1. tree[f.path] \in {User, f.after}
      BY <1>1 DEF Progress
    <2>2. \A p \in Paths : \/ p \notin Touched(f) /\ tree'[p] = tree[p]
                           \/ p \in Touched(f) /\ tree'[p] \in {User, Left(f, p)}
      BY <1>1, <1>3, <2>1, PatchAt DEF Put, Touched, Left, TypeOK
    <2>3. tree' \in [Paths -> Int]
      BY <1>1, <1>3, PatchAt DEF Put, TypeOK, Absent
    <2> QED
      BY <1>1, <1>3, <2>2, <2>3, StepAdvance
  <1> QED
    BY <1>1, <1>2, <1>3 DEF Unlink
-----------------------------------------------------------------------------
\* Steps that leave the tree, the proposal and what validation found.
LEMMA StepStore == ASSUME IInv, Store PROVE IInv'
  <1> USE DEF IInv
  <1>1. TypeOK' /\ Position'
    BY DEF Store, TypeOK, Position, Steps
  <1>2. Sound' /\ TimelyEditsSurvive'
    BY DEF Store, Sound, SoundAt, Judged, Busy, TimelyEditsSurvive
  <1>3. Progress'
    BY DEF Store, Progress, Made
  <1>4. Untouched' /\ Receding' /\ Recorded' /\ NothingLeftBehind' /\ SuccessIsVerified'
    BY DEF Store, Untouched, Receding, Recorded, NothingLeftBehind, SuccessIsVerified, Position
  <1> QED
    BY <1>1, <1>2, <1>3, <1>4

LEMMA StepVerify == ASSUME IInv, Verify PROVE IInv'
  <1> USE DEF IInv
  <1>1. TypeOK'
    BY DEF Verify, TypeOK, Steps
  <1>6. Position'
    <2>1. applied \in Nat /\ Len(proposal) \in Nat /\ applied = Len(proposal)
      BY DEF Verify, Position, TypeOK
    <2> QED
      BY <2>1 DEF Verify, Position
  <1>2. Sound' /\ TimelyEditsSurvive'
    BY DEF Verify, Sound, SoundAt, Judged, Busy, TimelyEditsSurvive
  <1>3. Progress'
    BY DEF Verify, Progress, Made
  <1>4. Receding'
    <2> SUFFICES ASSUME pc' = "restore", NEW p \in Paths \ strays, ~Committable(p)
                 PROVE  \E k \in 1 .. applied : p \in Touched(proposal[k])
      BY DEF Verify, Receding, Committable
    <2>1. applied \in Nat /\ Made(applied, p, tree[p]) /\ tree[p] /= Repository[p]
      BY DEF Verify, Progress, Committable, TypeOK
    <2> QED
      BY <2>1, MadeWhere
  <1>5. Untouched' /\ Recorded' /\ NothingLeftBehind' /\ SuccessIsVerified'
    BY DEF Verify, Untouched, Recorded, NothingLeftBehind, SuccessIsVerified, Position
  <1> QED
    BY <1>1, <1>2, <1>3, <1>4, <1>5, <1>6

LEMMA StepSucceed == ASSUME IInv, Succeed PROVE IInv'
  <1> USE DEF IInv
  <1>1. TypeOK' /\ Position'
    BY DEF Succeed, Finish, TypeOK, Position, Steps, Results
  <1>2. Sound' /\ TimelyEditsSurvive'
    BY DEF Succeed, Finish, Sound, Judged, Busy, TimelyEditsSurvive
  <1>3. SuccessIsVerified'
    BY DEF Succeed, Finish, SuccessIsVerified, Progress, Position, Made
  <1>4. Untouched' /\ Progress' /\ Receding' /\ Recorded' /\ NothingLeftBehind'
    BY DEF Succeed, Finish, Untouched, Progress, Receding, Recorded, NothingLeftBehind
  <1> QED
    BY <1>1, <1>2, <1>3, <1>4
-----------------------------------------------------------------------------
\* Undoing a patch makes every file it touched the committed one again.
LEMMA UndoneIs ==
    ASSUME TypeOK, Position, NEW k \in 1 .. Len(proposal), SoundAt(k)
    PROVE  LET t == Undone(tree, proposal[k], snapshot[k])
           IN  /\ t \in [Paths -> Int]
               /\ \A p \in Touched(proposal[k]) : t[p] = Repository[p]
               /\ \A p \in Paths \ Touched(proposal[k]) : t[p] = tree[p]
  <1> DEFINE f == proposal[k]
  <1>1. /\ f.path \in Paths /\ f.oldPath \in Paths /\ snapshot[k] = Repository[f.oldPath]
        /\ f.operation = "rename" => Repository[f.path] = Absent
        /\ f.operation = "rename" <=> f.path /= f.oldPath
    BY PatchAt DEF SoundAt, Source
  <1>2. snapshot[k] \in Int /\ Absent \in Int
    BY <1>1, ExecutorBounds DEF Absent, Committed
  <1>3. CASE f.operation = "rename"
    BY <1>1, <1>2, <1>3 DEF Undone, Put, Touched, Source, TypeOK
  <1>4. CASE f.operation /= "rename"
    BY <1>1, <1>2, <1>4 DEF Undone, Put, Touched, Source, TypeOK
  <1> QED
    BY <1>3, <1>4

\* An unlink that fails leaves the file it should have removed, and no other.
LEMMA OverlookedIs ==
    ASSUME TypeOK, Position, NEW k \in 1 .. Len(proposal), SoundAt(k), Unlinks(proposal[k], snapshot[k])
    PROVE  LET t == Overlooked(tree, proposal[k], snapshot[k])
           IN  /\ t \in [Paths -> Int]
               /\ \A p \in Touched(proposal[k]) \ {proposal[k].path} : t[p] = Repository[p]
               /\ \A p \in Paths \ Touched(proposal[k]) : t[p] = tree[p]
  <1> DEFINE f == proposal[k]
             t == Overlooked(tree, f, snapshot[k])
  <1>1. /\ f.path \in Paths /\ f.oldPath \in Paths /\ snapshot[k] = Repository[f.oldPath]
        /\ f.operation = "rename" <=> f.path /= f.oldPath
        /\ f.operation = "rename" => snapshot[k] /= Absent
    BY PatchAt DEF SoundAt, Source
  <1>2. snapshot[k] \in Int /\ Absent \in Int
    BY <1>1, ExecutorBounds DEF Absent, Committed
  <1> QED
    BY <1>1, <1>2 DEF Overlooked, Unlinks, Put, Touched, Source, TypeOK

LEMMA StepUndo == ASSUME IInv, Undo PROVE IInv'
  <1> USE DEF IInv
  <1>1. /\ pc \in {"undo", "restore"} /\ i \in Nat /\ applied \in Nat /\ Len(proposal) \in Nat
        /\ i <= applied /\ applied <= Len(proposal)
        /\ UNCHANGED <<attempt, proposal, snapshot, applied, txn, verified, kept, edits>> /\ faults' \in Nat
    BY DEF Undo, Position, TypeOK
  <1>2. CASE i > 0
    <2>1. /\ i' = i - 1 /\ pc' = pc /\ result' = result
          /\ \/ tree' = Undone(tree, proposal[i], snapshot[i]) /\ strays' = strays \ Touched(proposal[i])
             \/ /\ Unlinks(proposal[i], snapshot[i])
                /\ tree' = Overlooked(tree, proposal[i], snapshot[i])
                /\ strays' = strays \cup {proposal[i].path}
      BY <1>2 DEF Undo
    <2>2. i \in 1 .. Len(proposal) /\ Judged = Len(proposal) /\ Judged' = Len(proposal)
      BY <1>1, <1>2, <2>1 DEF Judged, Busy
    <2>3. SoundAt(i)
      BY <2>2 DEF Sound
    <2>4. /\ tree' \in [Paths -> Int]
          /\ \A p \in Touched(proposal[i]) \ strays' : tree'[p] = Repository[p]
          /\ \A p \in Paths \ Touched(proposal[i]) : tree'[p] = tree[p]
          /\ strays' \subseteq Paths /\ \A p \in Paths \ Touched(proposal[i]) : p \in strays' <=> p \in strays
      <3>1. proposal[i].path \in Paths /\ proposal[i].path \in Touched(proposal[i]) /\ strays \subseteq Paths
        BY <2>2, PatchAt DEF Touched, TypeOK
      <3>2. CASE tree' = Undone(tree, proposal[i], snapshot[i]) /\ strays' = strays \ Touched(proposal[i])
        BY <2>2, <2>3, <3>1, <3>2, UndoneIs
      <3>3. CASE /\ Unlinks(proposal[i], snapshot[i])
                 /\ tree' = Overlooked(tree, proposal[i], snapshot[i])
                 /\ strays' = strays \cup {proposal[i].path}
        BY <2>2, <2>3, <3>1, <3>3, OverlookedIs
      <3> QED
        BY <2>1, <3>2, <3>3
    <2>5. TypeOK' /\ Position'
      <3>1. i' \in Nat /\ i' <= applied /\ pc' = pc /\ result' = result
        BY <1>1, <1>2, <2>1
      <3>2. strays' \subseteq Paths /\ tree' \in [Paths -> Int]
        BY <2>4
      <3>3. TypeOK'
        BY <1>1, <3>1, <3>2 DEF TypeOK
      <3>4. Position'
        BY <1>1, <3>1 DEF Position
      <3> QED
        BY <3>3, <3>4
    <2>6. Sound'
      BY <1>1, <2>2 DEF Sound, SoundAt
    <2>7. Receding'
      <3> SUFFICES ASSUME NEW p \in Paths, p \notin strays', tree'[p] \notin {Repository[p], User}
                   PROVE  \E k \in 1 .. i - 1 : p \in Touched(proposal[k])
        BY <1>1, <2>1 DEF Receding, Committable
      <3>2. p \notin Touched(proposal[i]) /\ tree'[p] = tree[p] /\ p \notin strays
        BY <2>4
      <3>3. PICK k \in 1 .. i : p \in Touched(proposal[k])
        BY <1>1, <3>2 DEF Receding, Committable
      <3> QED
        BY <1>1, <3>2, <3>3
    <2>8. TimelyEditsSurvive'
      BY <1>1, <2>3, <2>4 DEF TimelyEditsSurvive, SoundAt, TypeOK
    <2>9. Untouched' /\ Progress' /\ Recorded'
      BY <1>1, <2>1 DEF Untouched, Progress, Recorded
    <2>10. NothingLeftBehind' /\ SuccessIsVerified'
      BY <1>1, <2>1 DEF NothingLeftBehind, SuccessIsVerified, Position
    <2> QED
      BY <2>5, <2>6, <2>7, <2>8, <2>9, <2>10
  <1>3. CASE ~(i > 0)
    <2>1. /\ tree' = tree /\ i' = i /\ strays' = strays
          /\ \/ pc = "undo" /\ pc' = "done" /\ result' = "failed"
             \/ pc = "restore" /\ pc' = "restored" /\ result' = result
      BY <1>1, <1>3 DEF Undo, Finish
    <2>2. \A p \in Paths \ strays : Committable(p)
      BY <1>1, <1>3 DEF Receding
    <2>3. TypeOK' /\ Position'
      BY <1>1, <2>1 DEF TypeOK, Position, Steps, Results
    <2>4. Sound' /\ Progress' /\ Receding' /\ TimelyEditsSurvive'
      BY <1>1, <2>1 DEF Sound, Judged, Busy, Progress, Receding, TimelyEditsSurvive
    <2>5. Untouched' /\ Recorded'
      BY <1>1, <2>1, <2>2 DEF Untouched, Committable, Recorded
    <2>6. NothingLeftBehind'
      BY <1>1, <2>1, <2>2 DEF NothingLeftBehind, Committable, Recorded, Position
    <2>7. SuccessIsVerified'
      BY <1>1, <2>1 DEF SuccessIsVerified, Position
    <2> QED
      BY <2>3, <2>4, <2>5, <2>6, <2>7
  <1> QED
    BY <1>2, <1>3

LEMMA StepRestored == ASSUME IInv, Restored PROVE IInv'
  <1> USE DEF IInv
  <1>0. attempt' \in Nat \ {0} /\ pc' \in {"done", "repair"} /\ result' \in {"none", "failure"}
    BY DEF Restored, Finish, NextAttempt, TypeOK, Position
  <1>1. TypeOK' /\ Position'
    BY <1>0 DEF Restored, Finish, TypeOK, Position, Steps, Results
  <1>2. Sound' /\ Progress' /\ Receding' /\ TimelyEditsSurvive'
    BY DEF Restored, Finish, Sound, Judged, Busy, Progress, Receding, TimelyEditsSurvive
  <1>3. Untouched' /\ Recorded'
    BY DEF Restored, Finish, Untouched, Committable, Recorded
  <1>4. NothingLeftBehind' /\ SuccessIsVerified'
    BY DEF Restored, Finish, NothingLeftBehind, SuccessIsVerified, Untouched, Committable, Position
  <1> QED
    BY <1>1, <1>2, <1>3, <1>4

LEMMA StepRepair == ASSUME IInv, Repair PROVE IInv'
  <1> USE DEF IInv
  <1>1. TypeOK'
    BY ProposalType DEF Repair, TypeOK, Steps
  <1>2. Position'
    BY ProposalType DEF Repair, Position
  <1>3. Judged' = 0
    BY DEF Repair, Judged, Busy
  <1>4. Sound' /\ Progress' /\ Receding' /\ TimelyEditsSurvive'
    BY <1>3 DEF Repair, Sound, Progress, Receding, TimelyEditsSurvive
  <1>5. Untouched' /\ Recorded' /\ NothingLeftBehind' /\ SuccessIsVerified'
    BY DEF Repair, Untouched, Committable, Recorded, NothingLeftBehind, SuccessIsVerified, Position
  <1> QED
    BY <1>1, <1>2, <1>4, <1>5

LEMMA StepBreak == ASSUME IInv, Break PROVE IInv'
  <1> USE DEF IInv
  <1>1. TypeOK' /\ Position'
    BY SMTT(30) DEF Break, Finish, TypeOK, Position, Steps, Results
  <1>2. Sound' /\ Progress' /\ Receding' /\ TimelyEditsSurvive'
    BY DEF Break, Finish, Sound, Judged, Busy, Progress, Receding, TimelyEditsSurvive
  <1>3. Untouched' /\ Recorded' /\ NothingLeftBehind' /\ SuccessIsVerified'
    BY DEF Break, Finish, Untouched, Recorded, NothingLeftBehind, SuccessIsVerified
  <1> QED
    BY <1>1, <1>2, <1>3

\* An edit is the user's everywhere; it is kept unless the executor already answers for the file.
LEMMA StepEdit == ASSUME IInv, NEW p \in Paths, Edit(p) PROVE IInv'
  <1> USE DEF IInv
  <1>1. /\ pc /= "done" /\ UNCHANGED <<pc, i, attempt, proposal, snapshot, applied, txn, result, verified, strays, faults>>
        /\ tree' = [tree EXCEPT ![p] = User] /\ result = "none"
        /\ kept' = kept \/ (kept' = kept \cup {p} /\ p \notin InFlight)
    BY DEF Edit, run, Put, Position
  <1>2. tree'[p] = User /\ \A q \in Paths \ {p} : tree'[q] = tree[q]
    BY <1>1 DEF TypeOK
  <1>3. TypeOK' /\ Position'
    BY <1>1 DEF Edit, TypeOK, Position, User
  <1>4. Judged' = Judged
    BY <1>1 DEF Judged
  <1>5. Sound'
    <2> SUFFICES ASSUME NEW k \in 1 .. Judged PROVE SoundAt(k)'
      BY <1>4 DEF Sound
    <2>1. SoundAt(k) /\ (kept' = kept \/ p \notin Touched(proposal[k]))
      BY <1>1, InFlightIs DEF Sound
    <2> QED
      BY <1>1, <2>1 DEF SoundAt
  <1>6. Untouched'
    BY <1>1, <1>2 DEF Untouched, Committable
  <1>7. Progress'
    BY <1>1, <1>2 DEF Progress, Made
  <1>8. Receding'
    BY <1>1, <1>2 DEF Receding, Committable
  <1>9. Recorded' /\ NothingLeftBehind' /\ SuccessIsVerified'
    BY <1>1 DEF Recorded, NothingLeftBehind, SuccessIsVerified
  <1>10. TimelyEditsSurvive'
    BY <1>1, <1>2 DEF TimelyEditsSurvive, TypeOK
  <1> QED
    BY <1>3, <1>5, <1>6, <1>7, <1>8, <1>9, <1>10

LEMMA StepOK == ASSUME IInv, [Next]_vars PROVE IInv'
  <1>1. CASE Work
    BY <1>1, StepCall, StepValidate, StepApply, StepUnlink, StepStore, StepVerify, StepSucceed,
       StepUndo, StepRestored, StepRepair DEF Work
  <1>2. CASE UNCHANGED vars
    BY <1>2 DEF vars, run, IInv, TypeOK, Position, Sound, SoundAt, Judged, Untouched, Committable, Progress, Made,
                Receding, Recorded, NothingLeftBehind, SuccessIsVerified, TimelyEditsSurvive
  <1> QED
    BY <1>1, <1>2, StepBreak, StepEdit DEF Next

\* The inductive invariant of a round: what the tree is after each patch applied, and after
\* each undone (apply.ts and mutation-executor.ts), for proposals of any length.
THEOREM RoundInvariant == Spec => []IInv
  BY InitOK, StepOK, PTL DEF Spec

\* A call that did not succeed leaves the committed files or the user's, but for
\* the files whose unlink failed (apply.ts:34, 46 and 48).
THEOREM FailuresLeaveNothing == Spec => []NothingLeftBehind
  <1>1. IInv => NothingLeftBehind
    BY DEF IInv
  <1> QED
    BY <1>1, RoundInvariant, PTL

\* A success is what the verification saw, every file of the proposal included and
\* none that an earlier round wrote, unless its unlink failed (apply.ts:46 and 48).
THEOREM SuccessesVerified == Spec => []SuccessIsVerified
  <1>1. IInv => SuccessIsVerified
    BY DEF IInv
  <1> QED
    BY <1>1, RoundInvariant, PTL

\* Edits survive unless they come between the validation of their file and the end of the round.
THEOREM EditsSurvive == Spec => []TimelyEditsSurvive
  <1>1. IInv => TimelyEditsSurvive
    BY DEF IInv
  <1> QED
    BY <1>1, RoundInvariant, PTL
=============================================================================
