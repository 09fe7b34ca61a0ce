------------------------- MODULE TaskContractProofs -------------------------
(***************************************************************************)
(* What the trees hold, in a behaviour in which no two calls overlap, no   *)
(* process crashes, no call fails and the user leaves the files alone:     *)
(* exactly what the checkpoint says whenever no call is at work, and in    *)
(* between what the contract of a task allows.                             *)
(***************************************************************************)
EXTENDS TaskRunnerProofs

\* Nothing from outside has interfered so far.
Calm == crashes = 0 /\ faults = 0 /\ edits = 0

\* The tree a checkpoint works in.
Place(c) == IF c.sbx THEN "sandbox" ELSE "repo"

\* The trees before a proposal is tried, while one is, and once it is delivered.
Blank     == tree[Place(ck)] = Clean /\ tree["repo"] = Clean
Tried     == tree[Place(ck)] = {ck.prop} /\ (ck.sbx => tree["repo"] = Clean)
Delivered == IF ck.mode \in Writes \/ ck.prop /= 0
             THEN tree["repo"] = {ck.prop} /\ {ck.prop} \in passed ELSE tree["repo"] = Clean

\* What the trees hold when no call is at work.
Settled ==
    IF ck.state = "completed" THEN Delivered
    ELSE IF Stage(ck) = "verifying" THEN Tried
    ELSE Stage(ck) /= "reviewing" /\ Blank

Open    == ck.state \notin {"none", "completed", "failed", "cancelled"}
Trying  == {"record", "count", "settle", "verify", "decide", "review", "restore", "retract", "verified", "promote", "deliver"}
Passing == {"decide", "review", "verified", "promote", "deliver"}
Ending  == {"complete", "finishComplete"}
Loading == {"load", "restate"}
Asleep  == {"idle", "load", "fail", "finishFail"}

\* What they hold at each step of a call with the checkpoint c.
TreeAt(p, c) ==
    /\ p \in Loading => Settled
    /\ p = "fail" =>
          IF ck.state = "completed" THEN Settled /\ c.state = "completed"
          ELSE /\ Blank /\ Stage(ck) \notin {"verifying", "reviewing"}
               /\ ck.state \notin {"none", "created", "cancelled"}
               /\ c.sbx = ck.sbx /\ c.mode = ck.mode /\ c.state \notin {"completed", "cancelled"}
    /\ p \in Trying => Tried
    /\ p \in Ending => Delivered
    /\ p \notin Loading \cup Trying \cup Ending \cup {"idle", "fail"} => Blank

\* The state of the checkpoint at the steps that do not look at it.
StateAt(p) ==
    /\ p \in {"launch", "ensure", "context", "gathered"} => ck.state \in {"created", "contextualizing", "planning"}
    /\ p \in {"restate", "complete"} => Open
    /\ p = "finishComplete" => ck.state = "completed"
    /\ p = "finishFail" => ck.state = "failed"
    /\ p \in {"promote", "deliver"} => ck.sbx

\* Whether the task has its sandbox, and whether that runs.
BoxAt(p) ==
    /\ p \notin Asleep \cup {"launch", "ensure", "restate"} => (boxed /\ ck.mode \in Writes => ck.sbx)
    /\ ck.sbx /\ p \notin Asleep => sbx = "running"

\* A task that is not to write has proposed nothing.
Unwritten == ck.mode \notin Writes => ck.prop = 0

TreesCall(f) ==
    /\ TreeAt(pc[f], loc[f]) /\ StateAt(pc[f]) /\ BoxAt(pc[f])
    /\ pc[f] \in Passing => {ck.prop} \in passed
    /\ pc[f] \in {"launch", "ensure", "context", "gathered", "plan"} => Unwritten
    /\ base[f] /= NoCk => /\ base[f].sbx = ck.sbx /\ base[f].mode = ck.mode
                          /\ base[f].state \notin {"completed", "cancelled"}
    /\ pc[f] \in {"launch", "ensure", "load", "restate"} \/ (pc[f] = "fail" /\ ck.state = "completed") =>
          base[f] = NoCk

TreesTask ==
    /\ ck.sbx /\ ck.state /= "completed" => sbx \in {"running", "paused"}
    /\ ck.state \notin {"none", "created"} => (boxed /\ ck.mode \in Writes => ck.sbx)
    /\ Stage(ck) \in {"created", "contextualizing"} \/ (Stage(ck) = "planning" /\ ck.plan = 0) => Unwritten
    /\ exec.it > 0 => ck.mode = "auto"

Trees ==
    /\ TreesTask
    /\ AtRest => Settled
    /\ \A f \in Flows : TreesCall(f)

CalmTrees == Calm => Trees
-----------------------------------------------------------------------------
\* A step in a calm behaviour.
Still == Apart /\ Trees /\ boxed' = boxed

\* What setState keeps, whatever the state.
LEMMA ToKeeps ==
    ASSUME NEW c \in Checkpoint, NEW s
    PROVE  /\ To(c, s).state = s /\ To(c, s).mode = c.mode /\ To(c, s).sbx = c.sbx
           /\ To(c, s).plan = c.plan /\ To(c, s).prop = c.prop
           /\ To(c, s).resume = IF s = "paused" THEN c.state ELSE "none"
  BY DEF Checkpoint, To

LEMMA Holding ==
    ASSUME Still, NEW f \in Flows
    PROVE  /\ TreesCall(f) /\ TreesTask /\ CallOK(f) /\ TaskOK /\ IInv /\ Apart /\ SharedOK /\ Sound(ck)
           /\ Fits(pc[f], loc[f]) /\ ck \in Checkpoint /\ loc[f] \in Checkpoint /\ pc[f] \in Steps
           /\ Place(ck) \in {"repo", "sandbox"} /\ tree \in [{"repo", "sandbox"} -> Contents]
  BY Hand DEF Still, Trees, Apart, Place, SharedOK

\* The trees are what they should be if they are for the task and for the call
\* that takes the step.
LEMMA KeepsTrees ==
    ASSUME Still, NEW f \in Flows, Only(f), pc[f] /= "idle" \/ pc'[f] /= "idle",
           TreesTask', TreesCall(f)', pc'[f] = "idle" => Settled'
    PROVE  Trees'
  <1>1. ASSUME NEW g \in Flows \ {f} PROVE TreesCall(g)'
    <2>1. pc'[g] = pc[g] /\ loc'[g] = loc[g] /\ base'[g] = base[g]
      BY DEF Only
    <2>2. pc[g] = "idle" /\ base[g] = NoCk
      BY <2>1 DEF Still, Apart, OneCallAtATime, At, LoneInv, CallOK
    <2> QED
      BY <2>1, <2>2
      DEF TreesCall, TreeAt, StateAt, BoxAt, Loading, Trying, Passing, Ending, Asleep
  <1>2. AtRest' => Settled'
    BY DEF AtRest, At
  <1> QED
    BY <1>1, <1>2 DEF Trees

LEMMA TaskAtEase ==
    ASSUME TreesTask, UNCHANGED <<ck, sbx, boxed, exec>> PROVE TreesTask'
  BY DEF TreesTask, Unwritten, Stage

LEMMA EndTrees ==
    ASSUME Still, NEW f \in Flows, pc[f] /= "idle", Ends(f), TreesTask', Settled' PROVE Trees'
  <1>1. TreesCall(f)'
    BY DEF Ends, TreesCall, TreeAt, StateAt, BoxAt, Loading, Trying, Passing, Ending, Asleep
  <1> QED
    BY <1>1, KeepsTrees DEF Ends

\* A call that fails has left no proposal behind.
LEMMA FailTrees ==
    ASSUME Still, NEW f \in Flows, Throw(f), sbx' = sbx,
           pc[f] \in {"plan", "propose", "rpropose", "mutate", "repropose", "replan", "fail"}
    PROVE  Trees'
  <1>1. UNCHANGED <<ck, exec, tree, passed, sbx, boxed>>
    BY DEF Throw, store, history, Still
  <1>2. TreesCall(f) /\ CallOK(f) /\ TreesTask /\ Fits(pc[f], loc[f])
    BY Holding
  <1>3. TreesTask'
    BY <1>1, <1>2, TaskAtEase
  <1>4. IF ck.state = "completed" THEN Settled /\ pc[f] = "fail" /\ loc[f].state = "completed" /\ base[f] = NoCk
        ELSE /\ Blank /\ Stage(ck) \notin {"verifying", "reviewing"}
             /\ ck.state \notin {"none", "created", "cancelled"}
             /\ loc[f].sbx = ck.sbx /\ loc[f].mode = ck.mode
             /\ loc[f].state \notin {"completed", "cancelled"}
    BY <1>2 DEF TreesCall, TreeAt, CallOK, Fits, Stage, Loading, Trying, Ending
  <1>5. Settled' /\ (Blank <=> Blank')
    BY <1>1, <1>4 DEF Settled, Blank, Tried, Delivered, Stage, Place
  <1>6. CASE Ends(f)
    BY <1>2, <1>3, <1>5, <1>6, EndTrees
  <1>7. CASE Fails(f)
    <2>1. TreesCall(f)'
      BY <1>1, <1>2, <1>4, <1>5, <1>7
      DEF Fails, TreesCall, TreeAt, StateAt, BoxAt, Stage, Loading, Trying, Passing, Ending, Asleep
    <2> QED
      BY <1>2, <1>3, <1>7, <2>1, KeepsTrees DEF Fails
  <1> QED
    BY <1>6, <1>7, ThrowIsFailure, Holding

\* A pause keeps the trees of the stage it pauses in.
LEMMA PauseTrees ==
    ASSUME Still, NEW f \in Flows, pc[f] \notin Asleep \cup {"launch", "ensure", "restate"},
           NEW c \in Checkpoint, Pause(f, c), c.sbx = ck.sbx, c.mode = ck.mode, c.prop = ck.prop,
           UNCHANGED <<exec, tree, passed>>,
           IF c.state = "verifying" THEN Tried ELSE c.state /= "reviewing" /\ Blank,
           c.state = "contextualizing" \/ (c.state = "planning" /\ c.plan = 0) => Unwritten
    PROVE  Trees'
  <1>1. /\ TreesCall(f) /\ TreesTask /\ SharedOK
    BY Holding
  <1>2. c.state \in Resumable
    BY PausedIsResumable DEF Pause, Checkpoint, canTransition, Transitions, TaskState
  <1>3. /\ ck'.state = "paused" /\ ck'.resume = c.state /\ ck'.mode = ck.mode /\ ck'.sbx = ck.sbx
        /\ ck'.plan = c.plan /\ ck'.prop = ck.prop /\ Stage(ck)' = c.state
    BY ToKeeps DEF Pause, Stage
  <1>4. Ends(f) /\ sbx' = (IF ck.sbx THEN Suspended ELSE sbx) /\ boxed' = boxed
    BY ReturnIsEnd DEF Pause, Still, Apart
  <1>5. Settled'
    BY <1>2, <1>3 DEF Settled, Tried, Blank, Place
  <1>6. TreesTask'
    <2>1. ck.sbx => sbx' \in {"running", "paused"}
      BY <1>1, <1>4 DEF TreesCall, BoxAt, Suspended
    <2>2. boxed /\ ck.mode \in Writes => ck.sbx
      BY <1>1 DEF TreesCall, BoxAt
    <2>3. c.state /= "created"
      BY <1>2 DEF Resumable, Executing
    <2> QED
      BY <1>1, <1>3, <1>4, <2>1, <2>2, <2>3 DEF TreesTask, Unwritten
  <1> QED
    BY <1>4, <1>5, <1>6, EndTrees DEF Asleep

\* A spent budget pauses where a change is due or was verified last.
LEMMA BudgetTrees ==
    ASSUME Still, NEW f \in Flows, pc[f] \in {"mutate", "verify", "repair"}, Autonomous, PauseForBudget(f)
    PROVE  Trees'
  <1>1. /\ TreesCall(f) /\ TreesTask /\ TaskOK /\ CallOK(f) /\ Fits(pc[f], loc[f]) /\ ck \in Checkpoint
        /\ loc[f] = ck
    BY Holding DEF CallOK
  <1>2. PICK t : t = To(ck, "paused")
    OBVIOUS
  <1>3. t \in Checkpoint /\ t.state = "paused" /\ t.resume = ck.state /\ t.mode = ck.mode /\ t.sbx = ck.sbx
        /\ t.plan = ck.plan /\ t.prop = ck.prop
    <2>1. ck.state \in Resumable
      BY <1>1 DEF Fits, Resumable, Executing
    <2> QED
      BY <1>1, <1>2, <2>1, ToKeeps, ToFields DEF TaskState
  <1>4. ck' = [t EXCEPT !.use = use]
    BY <1>1, <1>2 DEF PauseForBudget
  <1>5. /\ ck'.state = "paused" /\ ck'.mode = ck.mode /\ ck'.sbx = ck.sbx
        /\ ck'.plan = ck.plan /\ ck'.prop = ck.prop /\ Stage(ck)' = ck.state
    BY <1>3, <1>4 DEF Checkpoint, Stage
  <1>6. Ends(f) /\ UNCHANGED <<sbx, tree, passed, boxed>> /\ exec' = use
    BY ReturnIsEnd DEF PauseForBudget, world, history, Still, Apart
  <1>7. IF ck.state = "verifying" THEN Tried ELSE ck.state /= "reviewing" /\ Blank
    BY <1>1 DEF TreesCall, TreeAt, Fits, Trying, Loading, Ending
  <1>8. Settled'
    BY <1>5, <1>6, <1>7 DEF Settled, Tried, Blank, Place
  <1>9. TreesTask'
    <2>1. (boxed /\ ck.mode \in Writes => ck.sbx) /\ ck.state \in {"mutating", "verifying", "repairing"}
          /\ (ck.sbx => sbx = "running")
      BY <1>1 DEF TreesCall, BoxAt, Fits, Asleep
    <2>2. exec.it > 0 \/ exec'.it = 0
      BY <1>1, <1>6, Hand, Holding DEF TaskOK, CountsOK, Usage, Still
    <2> QED
      BY <1>1, <1>5, <1>6, <2>1, <2>2 DEF TreesTask, Unwritten
  <1> QED
    BY <1>6, <1>8, <1>9, EndTrees

\* A step that moves on and only changes the trees.
LEMMA MoveTrees ==
    ASSUME Still, NEW f \in Flows, NEW p \in Steps \ ({"restate", "launch", "ensure"} \cup Asleep),
           pc[f] \notin Asleep \cup {"launch", "ensure", "restate"}, Stays(f, p),
           UNCHANGED <<sbx, exec>>, StateAt(p),
           TreeAt(p, loc[f])', p \in Passing => {ck.prop} \in passed',
           p \in {"context", "gathered", "plan"} => Unwritten
    PROVE  Trees'
  <1>1. TreesCall(f) /\ TreesTask /\ CallOK(f)
    BY Holding
  <1>2. TreesTask'
    BY <1>1, TaskAtEase DEF Stays, Still
  <1>3. TreesCall(f)'
    <2>1. pc'[f] = p /\ ck' = ck /\ loc'[f] = loc[f] /\ base'[f] = base[f] /\ boxed' = boxed
      BY DEF Stays, Still
    <2>2. TreeAt(pc[f], loc[f])'
      BY <2>1
    <2>3. StateAt(pc[f])' /\ BoxAt(pc[f])'
      BY <1>1, <2>1 DEF TreesCall, StateAt, BoxAt, Open
    <2> QED
      BY <1>1, <2>1, <2>2, <2>3 DEF TreesCall, Asleep, Unwritten
  <1> QED
    BY <1>2, <1>3, KeepsTrees DEF Stays, Asleep
-----------------------------------------------------------------------------
\* The steps of the mutation loop.
LEMMA TreesMutate == ASSUME Still, NEW f \in Flows, Mutate(f) PROVE Trees'
  <1>1. /\ pc[f] = "mutate" /\ loc[f] = ck /\ ck.state = "mutating" /\ Blank
        /\ (boxed /\ ck.mode \in Writes => ck.sbx) /\ TreesTask
    BY Holding
    DEF Mutate, On, At, CallOK, Fits, TreesCall, TreeAt, BoxAt, Trying, Loading, Ending, Asleep
  <1>2. CASE Autonomous /\ PauseForBudget(f)
    BY <1>1, <1>2, BudgetTrees
  <1>3. CASE Throw(f) /\ UNCHANGED sbx
    BY <1>1, <1>3, FailTrees
  <1>4. CASE Goto(f, "apply") /\ UNCHANGED <<ck, store, world, session, kind, loc, base, history>>
    <2>1. Stays(f, "apply") /\ UNCHANGED <<sbx, exec, tree, passed>>
      BY <1>4, GotoStays DEF store, world, history, Still, Apart
    <2>2. TreeAt("apply", loc[f])' /\ StateAt("apply")
      BY <1>1, <2>1 DEF Stays, TreeAt, StateAt, Blank, Place, Loading, Trying, Ending
    <2> QED
      BY <1>1, <2>1, <2>2, MoveTrees DEF Steps, Asleep, Passing
  <1>5. CASE Goto(f, "fail") /\ UNCHANGED <<ck, store, world, session, kind, loc, base, history>>
    <2>1. Stays(f, "fail") /\ UNCHANGED <<sbx, exec, tree, passed, boxed>>
      BY <1>5, GotoStays DEF store, world, history, Still, Apart
    <2>2. TreesTask' /\ TreesCall(f)
      BY <2>1, Holding, TaskAtEase DEF Stays
    <2>3. TreesCall(f)'
      BY <1>1, <2>1, <2>2
      DEF Stays, TreesCall, TreeAt, StateAt, BoxAt, Blank, Place, Stage,
          Loading, Trying, Passing, Ending, Asleep
    <2> QED
      BY <1>1, <2>1, <2>2, <2>3, KeepsTrees DEF Stays
  <1> QED
    BY <1>2, <1>3, <1>4, <1>5 DEF Mutate

LEMMA TreesApply == ASSUME Still, NEW f \in Flows, Apply(f) PROVE Trees'
  <1>1. /\ pc[f] = "apply" /\ loc[f] = ck /\ Blank /\ TreesCall(f) /\ Place(ck) \in {"repo", "sandbox"}
        /\ tree \in [{"repo", "sandbox"} -> Contents]
    BY Holding DEF Apply, On, At, CallOK, TreesCall, TreeAt, Trying, Loading, Ending
  <1>2. Stays(f, "record") /\ UNCHANGED <<sbx, exec>> /\ tree' = [tree EXCEPT ![Place(ck)] = @ \cup {ck.prop}]
    BY <1>1, GotoStays DEF Apply, Applied, Still, Apart, store, session, Root, Place
  <1>3. TreeAt("record", loc[f])'
    BY <1>1, <1>2 DEF Stays, TreeAt, Tried, Blank, Clean, Place, Loading, Trying, Ending
  <1> QED
    BY <1>1, <1>2, <1>3, MoveTrees DEF Steps, StateAt, Asleep, Passing

LEMMA TreesDeliver == ASSUME Still, NEW f \in Flows, Deliver(f) PROVE Trees'
  <1>1. /\ pc[f] = "deliver" /\ loc[f] = ck /\ {ck.prop} \in passed /\ TreesCall(f)
        /\ tree \in [{"repo", "sandbox"} -> Contents] /\ Fits("deliver", ck)
        /\ tree["repo"] = Clean /\ ck.prop \in Drafts
    <2>1. /\ pc[f] = "deliver" /\ loc[f] = ck /\ {ck.prop} \in passed /\ TreesCall(f)
          /\ tree \in [{"repo", "sandbox"} -> Contents] /\ Fits("deliver", ck)
      BY Holding DEF Deliver, On, At, CallOK, TreesCall, Passing
    <2>2. tree["repo"] = Clean
      BY <2>1 DEF TreesCall, TreeAt, StateAt, Tried, Trying
    <2>3. ck.prop \in Drafts
      BY <2>1, Holding DEF Fits, Sound, Ready, Stage, Executing, Checkpoint
    <2> QED
      BY <2>1, <2>2, <2>3
  <1>2. Stays(f, "complete") /\ UNCHANGED <<sbx, exec, passed>> /\ tree' = [tree EXCEPT !["repo"] = @ \cup {ck.prop}]
    BY <1>1, GotoStays DEF Deliver, Applied, Still, Apart, store, session
  <1>3. TreeAt("complete", loc[f])'
    <2>1. tree'["repo"] = {ck.prop}
      BY <1>1, <1>2 DEF Clean
    <2> QED
      BY <1>1, <1>2, <2>1 DEF Stays, TreeAt, Delivered, Drafts, Loading, Trying, Ending
  <1>4. StateAt("complete")
    BY <1>1 DEF Fits, StateAt, Open
  <1> QED
    BY <1>1, <1>2, <1>3, <1>4, MoveTrees DEF Steps, Asleep, Passing

\* Storing the transaction and counting it leave the trees alone.
LEMMA TreesRecord == ASSUME Still, NEW f \in Flows, Record(f) \/ Count(f) PROVE Trees'
  <1>1. /\ pc[f] \in {"record", "count"} /\ loc[f] = ck /\ Tried /\ TreesCall(f) /\ TreesTask /\ TaskOK
        /\ CallOK(f)
    BY Holding DEF Record, Count, On, At, CallOK, TreesCall, TreeAt, Trying, Loading, Ending
  <1>2. PICK p \in {"count", "settle"} : Goto(f, p)
    BY DEF Record, Count
  <1>3. Stays(f, p) /\ UNCHANGED <<sbx, tree, passed, boxed>>
    BY <1>2, GotoStays DEF Record, Count, Still, Apart, world, session, history
  <1>4. exec'.it > 0 => ck.mode = "auto"
    <2>1. CASE Record(f)
      BY <1>1, <2>1 DEF Record, TreesTask
    <2>2. CASE Count(f)
      <3>1. /\ Autonomous /\ use \in Usage /\ exec \in Usage
        BY <1>1, <2>2, Hand DEF Count, On, At, CallOK, Still
      <3> QED
        BY <1>1, <3>1 DEF TreesTask, TaskOK, CountsOK, Autonomous, Usage
    <2> QED
      BY <2>1, <2>2
  <1>5. TreesTask'
    BY <1>1, <1>3, <1>4 DEF Stays, TreesTask, Unwritten, Stage
  <1>6. Tried'
    BY <1>1, <1>3 DEF Stays, Tried, Place
  <1>7. TreesCall(f)'
    BY <1>1, <1>2, <1>3, <1>6
    DEF Stays, TreesCall, TreeAt, StateAt, BoxAt, Loading, Trying, Passing, Ending, Asleep
  <1> QED
    BY <1>1, <1>3, <1>5, <1>7, KeepsTrees DEF Stays

LEMMA TreesSettle == ASSUME Still, NEW f \in Flows, Settle(f) PROVE Trees'
  <1>1. /\ pc[f] = "settle" /\ loc[f] = ck /\ ck.state = "mutating" /\ ck \in Checkpoint /\ Tried
        /\ (boxed /\ ck.mode \in Writes => ck.sbx) /\ (ck.sbx => sbx = "running")
        /\ TreesCall(f) /\ TreesTask
    BY Holding
    DEF Settle, On, At, CallOK, Fits, TreesCall, TreeAt, BoxAt, Trying, Loading, Ending, Asleep
  <1>2. PICK u : u = use
    OBVIOUS
  <1>3. PICK v : v = [To(ck, "verifying") EXCEPT !.txn = ck.prop]
    OBVIOUS
  <1>4. PICK c : c = [v EXCEPT !.use = u]
    OBVIOUS
  <1>5. u \in Usage
    BY <1>2, Hand DEF Still
  <1>6. v \in Checkpoint /\ v.state = "verifying" /\ v.prop = ck.prop /\ v.mode = ck.mode
        /\ v.sbx = ck.sbx /\ v.plan = ck.plan
    <2>1. PICK t : t = To(ck, "verifying")
      OBVIOUS
    <2>2. t \in Checkpoint /\ t.state = "verifying" /\ t.prop = ck.prop /\ t.mode = ck.mode
          /\ t.sbx = ck.sbx /\ t.plan = ck.plan
      BY <1>1, <2>1, ToFields, ToKeeps DEF TaskState
    <2>3. ck.prop \in Drafts \cup {0}
      BY <1>1 DEF Checkpoint
    <2> QED
      BY <1>3, <2>1, <2>2, <2>3 DEF Checkpoint
  <1>7. c \in Checkpoint /\ c.use = u /\ c.state = "verifying" /\ c.prop = ck.prop /\ c.mode = ck.mode
        /\ c.sbx = ck.sbx /\ c.plan = ck.plan
    BY <1>4, <1>5, <1>6 DEF Checkpoint
  <1>8. c = [To(loc[f], "verifying") EXCEPT !.txn = loc[f].prop, !.use = use]
    BY <1>1, <1>2, <1>3, <1>4, Zenon
  <1>9. /\ exec' = exec
        /\ UNCHANGED <<tree, passed, boxed>>
        /\ IF AtBoundary THEN Pause(f, c)
           ELSE Save(f, c) /\ Goto(f, "verify") /\ UNCHANGED <<kind, base, sbx>>
    BY <1>1, <1>7, <1>8 DEF Settle, store, history, Still
  <1>10. exec'.it > 0 => ck.mode = "auto"
    BY <1>1, <1>9 DEF TreesTask
  <1>11. CASE AtBoundary
    <2>1. /\ ck'.state = "paused" /\ Stage(ck)' = "verifying" /\ ck'.prop = ck.prop
          /\ ck'.mode = ck.mode /\ ck'.sbx = ck.sbx
      BY <1>7, <1>9, <1>11, ToKeeps DEF Pause, Stage
    <2>2. Ends(f) /\ (ck.sbx => sbx' = "paused")
      BY <1>1, <1>7, <1>9, <1>11, ReturnIsEnd DEF Pause, Suspended, Still, Apart
    <2>3. Settled'
      BY <1>1, <1>9, <2>1 DEF Settled, Tried, Place
    <2>4. TreesTask'
      BY <1>1, <1>9, <1>10, <2>1, <2>2 DEF TreesTask
    <2> QED
      BY <1>1, <2>2, <2>3, <2>4, EndTrees
  <1>12. CASE ~AtBoundary
    <2>1. Saves(f, "verify", c) /\ sbx' = sbx
      BY <1>9, <1>12, GotoSaves DEF Still, Apart
    <2>2. TreesTask'
      BY <1>1, <1>7, <1>9, <1>10, <2>1 DEF Saves, TreesTask, Stage
    <2>3. Tried'
      BY <1>1, <1>7, <1>9, <2>1 DEF Saves, Tried, Place
    <2>4. TreesCall(f)'
      BY <1>1, <1>7, <1>9, <2>1, <2>3
      DEF Saves, TreesCall, TreeAt, StateAt, BoxAt, Loading, Trying, Passing, Ending, Asleep
    <2> QED
      BY <1>1, <2>1, <2>2, <2>4, KeepsTrees DEF Saves
  <1> QED
    BY <1>11, <1>12

LEMMA TreesVerify == ASSUME Still, NEW f \in Flows, Verify(f) PROVE Trees'
  <1>1. /\ pc[f] = "verify" /\ loc[f] = ck /\ ck.state = "verifying" /\ ck \in Checkpoint /\ Tried
        /\ (ck.sbx => sbx = "running") /\ TreesCall(f)
    BY Holding
    DEF Verify, On, At, CallOK, Fits, TreesCall, TreeAt, BoxAt, Trying, Loading, Ending, Asleep
  <1>2. CASE Autonomous /\ PauseForBudget(f)
    BY <1>1, <1>2, BudgetTrees
  <1>3. RuntimeUp(f)
    BY <1>1 DEF RuntimeUp
  <1>4. CASE /\ Goto(f, "restore")
             /\ UNCHANGED <<ck, exec, outcome, txns, drafts, world, session, kind, loc, base, history>>
    <2>1. Stays(f, "restore") /\ UNCHANGED <<sbx, exec, tree, passed>>
      BY <1>4, GotoStays DEF Still, Apart, world, history
    <2>2. TreeAt("restore", loc[f])' /\ StateAt("restore")
      BY <1>1, <2>1 DEF Stays, TreeAt, StateAt, Tried, Place, Loading, Trying, Ending
    <2> QED
      BY <1>1, <2>1, <2>2, MoveTrees DEF Steps, Asleep, Passing
  <1>5. CASE /\ passed' = passed \cup {Workspace(f)}
             /\ IF AtBoundary THEN Pause(f, loc[f])
                ELSE /\ Goto(f, IF Autonomous THEN "decide" ELSE "verified")
                     /\ UNCHANGED <<ck, sbx, running, kind, loc, base>>
             /\ UNCHANGED <<exec, tree>>
    <2>1. Workspace(f) = {ck.prop} /\ {ck.prop} \in passed'
      BY <1>1, <1>5 DEF Workspace, Root, Tried, Place
    <2>2. CASE AtBoundary
      <3>1. ck' = To(ck, "paused") /\ Ends(f) /\ sbx' = (IF ck.sbx THEN Suspended ELSE sbx)
        BY <1>1, <1>5, <2>2, ReturnIsEnd DEF Pause, Still, Apart
      <3>2. /\ ck'.state = "paused" /\ Stage(ck)' = "verifying" /\ ck'.prop = ck.prop
            /\ ck'.mode = ck.mode /\ ck'.sbx = ck.sbx
        BY <1>1, <3>1, ToKeeps DEF Stage
      <3>3. Settled'
        BY <1>1, <1>5, <3>2 DEF Settled, Tried, Place
      <3>4. TreesTask'
        <4>1. boxed' = boxed /\ TreesTask /\ (boxed /\ ck.mode \in Writes => ck.sbx)
          BY <1>1, Holding DEF Still, TreesCall, BoxAt, Asleep
        <4> QED
          BY <1>1, <1>5, <3>1, <3>2, <4>1 DEF TreesTask, Suspended
      <3> QED
        BY <1>1, <3>1, <3>3, <3>4, EndTrees
    <2>3. CASE ~AtBoundary
      <3>1. PICK p \in {"decide", "verified"} : Goto(f, p)
        BY <1>5, <2>3
      <3>2. Stays(f, p) /\ UNCHANGED <<sbx, exec, tree>>
        BY <1>5, <2>3, <3>1, GotoStays DEF Still, Apart
      <3>3. TreeAt(p, loc[f])' /\ StateAt(p)
        BY <1>1, <3>2 DEF Stays, TreeAt, StateAt, Tried, Place, Loading, Trying, Ending
      <3> QED
        BY <1>1, <2>1, <3>2, <3>3, MoveTrees DEF Steps, Asleep
    <2> QED
      BY <2>2, <2>3
  <1> QED
    BY <1>2, <1>3, <1>4, <1>5 DEF Verify

\* A step that saves a checkpoint of the same task and moves on.
LEMMA SaveTrees ==
    ASSUME Still, NEW f \in Flows, NEW p \in Steps \ ({"restate", "launch", "ensure"} \cup Asleep), NEW c,
           pc[f] \notin Asleep \cup {"launch", "ensure", "restate"}, Saves(f, p, c),
           c.mode = ck.mode, c.sbx = ck.sbx, c.state \notin {"completed", "cancelled"},
           UNCHANGED sbx, exec'.it > 0 => exec.it > 0,
           StateAt(p)', TreeAt(p, c)', p \in Passing => {ck'.prop} \in passed',
           p \in {"context", "gathered", "plan"}
             \/ c.state \in {"created", "contextualizing"} \/ (c.state = "planning" /\ c.plan = 0)
             \/ c.state = "paused"
             => Unwritten'
    PROVE  Trees'
  <1>1. TreesCall(f) /\ TreesTask /\ CallOK(f) /\ boxed' = boxed
    BY Holding DEF Still
  <1>2. ck' = c /\ loc'[f] = c /\ base'[f] = base[f] /\ pc'[f] = p
    BY DEF Saves
  <1>3. (boxed /\ ck.mode \in Writes => ck.sbx) /\ (ck.sbx => sbx = "running")
    BY <1>1 DEF TreesCall, BoxAt, Asleep
  <1>4. TreesTask'
    BY <1>1, <1>2, <1>3 DEF TreesTask, Stage
  <1>5. BoxAt(pc[f])' /\ StateAt(pc[f])' /\ TreeAt(pc[f], loc[f])'
    BY <1>1, <1>2, <1>3 DEF BoxAt
  <1>6. TreesCall(f)'
    BY <1>1, <1>2, <1>5 DEF TreesCall, Asleep
  <1> QED
    BY <1>2, <1>4, <1>6, KeepsTrees DEF Saves, Asleep

LEMMA TreesDecide == ASSUME Still, NEW f \in Flows, Decide(f) PROVE Trees'
  <1>1. /\ pc[f] = "decide" /\ loc[f] = ck /\ ck.state = "verifying" /\ ck \in Checkpoint /\ Tried
        /\ {ck.prop} \in passed
    BY Holding
    DEF Decide, On, At, CallOK, Fits, TreesCall, TreeAt, Trying, Passing, Loading, Ending
  <1>2. UNCHANGED <<sbx, exec, tree, passed, kind, base>>
    BY DEF Decide, store, world, history
  <1>3. CASE Goto(f, "retract") /\ UNCHANGED <<ck, loc>>
    <2>1. Stays(f, "retract")
      BY <1>2, <1>3, GotoStays DEF Still, Apart
    <2>2. TreeAt("retract", loc[f])' /\ StateAt("retract")
      BY <1>1, <1>2, <2>1 DEF Stays, TreeAt, StateAt, Tried, Place, Loading, Trying, Ending
    <2> QED
      BY <1>1, <1>2, <2>1, <2>2, MoveTrees DEF Steps, Asleep, Passing
  <1>4. CASE SetState(f, loc[f], "reviewing") /\ Goto(f, "review")
    <2>1. PICK c : c = To(ck, "reviewing")
      OBVIOUS
    <2>2. c.state = "reviewing" /\ c.mode = ck.mode /\ c.sbx = ck.sbx /\ c.prop = ck.prop
      BY <1>1, <2>1, ToKeeps
    <2>3. Saves(f, "review", c)
      BY <1>1, <1>2, <1>4, <2>1, GotoSaves DEF SetState, Still, Apart
    <2>4. TreeAt("review", c)' /\ StateAt("review")' /\ {ck'.prop} \in passed'
      BY <1>1, <1>2, <2>2, <2>3 DEF Saves, TreeAt, StateAt, Tried, Place, Loading, Trying, Ending
    <2> QED
      BY <1>1, <1>2, <2>2, <2>3, <2>4, SaveTrees DEF Steps, Asleep
  <1> QED
    BY <1>3, <1>4 DEF Decide

LEMMA TreesReview == ASSUME Still, NEW f \in Flows, Review(f) PROVE Trees'
  <1>1. pc[f] = "review" /\ Tried /\ {ck.prop} \in passed
    BY Holding DEF Review, On, At, TreesCall, TreeAt, Trying, Passing, Loading, Ending
  <1>2. PICK p \in {"retract", "verified"} : Goto(f, p)
    BY DEF Review
  <1>3. Stays(f, p) /\ UNCHANGED <<sbx, exec, tree, passed>>
    BY <1>2, GotoStays DEF Review, Still, Apart, store, world, history
  <1>4. TreeAt(p, loc[f])' /\ StateAt(p)
    BY <1>1, <1>3 DEF Stays, TreeAt, StateAt, Tried, Place, Loading, Trying, Ending
  <1> QED
    BY <1>1, <1>3, <1>4, MoveTrees DEF Steps, Asleep

\* Without an edit of the user's, there is one way to take a proposal back.
LEMMA RevertedIs == ASSUME NEW d PROVE \A t \in Reverted({d}, d) : t = Clean
  BY DEF Reverted, Clean

LEMMA TreesRestore == ASSUME Still, NEW f \in Flows, Restore(f) PROVE Trees'
  <1>1. /\ pc[f] \in {"restore", "retract"} /\ loc[f] = ck /\ Tried /\ Place(ck) \in {"repo", "sandbox"}
        /\ tree \in [{"repo", "sandbox"} -> Contents]
    BY Holding DEF Restore, On, At, CallOK, TreesCall, TreeAt, Trying, Loading, Ending
  <1>2. PICK p \in {"restored", "retracted"} : Goto(f, p)
    BY DEF Restore
  <1>3. Stays(f, p) /\ UNCHANGED <<sbx, exec, passed>> /\ tree' = [tree EXCEPT ![Place(ck)] = Clean]
    BY <1>1, <1>2, GotoStays, RevertedIs DEF Restore, Workspace, Tried, Root, Place, Still, Apart, store, history
  <1>4. TreeAt(p, loc[f])' /\ StateAt(p)
    BY <1>1, <1>3 DEF Stays, TreeAt, StateAt, Tried, Blank, Place, Loading, Trying, Ending
  <1> QED
    BY <1>1, <1>3, <1>4, MoveTrees DEF Steps, Asleep, Passing

LEMMA TreesRework == ASSUME Still, NEW f \in Flows, Rework(f) \/ Withdraw(f) PROVE Trees'
  <1>1. /\ pc[f] \in {"restored", "retracted"} /\ loc[f] = ck /\ ck \in Checkpoint /\ Blank
        /\ TreesCall(f) /\ TreesTask
    BY Holding
    DEF Rework, Withdraw, On, At, CallOK, TreesCall, TreeAt, Trying, Loading, Ending
  <1>2. PICK t : t = To(ck, "repairing")
    OBVIOUS
  <1>3. PICK c : c = [t EXCEPT !.txn = 0]
    OBVIOUS
  <1>4. t \in Checkpoint /\ t.state = "repairing" /\ t.mode = ck.mode /\ t.sbx = ck.sbx /\ t.prop = ck.prop
    BY <1>1, <1>2, ToFields, ToKeeps DEF TaskState
  <1>5. c \in Checkpoint /\ c.state = "repairing" /\ c.mode = ck.mode /\ c.sbx = ck.sbx /\ c.prop = ck.prop
    BY <1>3, <1>4 DEF Checkpoint
  <1>6. UNCHANGED <<exec, tree, passed>>
    BY DEF Rework, Withdraw, world, history
  <1>7. CASE Pause(f, c)
    BY <1>1, <1>5, <1>6, <1>7, PauseTrees DEF Asleep
  <1>8. CASE Saves(f, "repair", c) /\ UNCHANGED sbx
    <2>1. TreeAt("repair", c)' /\ StateAt("repair")'
      BY <1>1, <1>5, <1>6, <1>8 DEF Saves, TreeAt, StateAt, Blank, Place, Loading, Trying, Ending
    <2> QED
      BY <1>1, <1>5, <1>6, <1>8, <2>1, SaveTrees DEF Steps, Asleep, Passing
  <1>9. CASE Saves(f, "fail", c) /\ UNCHANGED sbx
    <2>1. TreesTask'
      <3>1. (boxed /\ ck.mode \in Writes => ck.sbx) /\ (ck.sbx => sbx = "running") /\ boxed' = boxed
        BY <1>1 DEF TreesCall, BoxAt, Asleep, Still
      <3> QED
        BY <1>1, <1>5, <1>6, <1>9, <3>1 DEF Saves, TreesTask, Stage
    <2>2. TreesCall(f)'
      BY <1>1, <1>5, <1>6, <1>9
      DEF Saves, TreesCall, TreeAt, StateAt, BoxAt, Blank, Place, Stage,
          Loading, Trying, Passing, Ending, Asleep
    <2> QED
      BY <1>1, <1>9, <2>1, <2>2, KeepsTrees DEF Saves
  <1>10. /\ Rework(f) => \/ Pause(f, c)
                         \/ \E p \in {"repair", "fail"} :
                                Save(f, c) /\ Goto(f, p) /\ UNCHANGED <<kind, base, sbx>>
         /\ Withdraw(f) => Save(f, c) /\ Goto(f, "repair") /\ UNCHANGED <<kind, base, sbx>>
    BY <1>1, <1>2, <1>3 DEF Rework, Withdraw, world
  <1> QED
    BY <1>7, <1>8, <1>9, <1>10, GotoSaves DEF Still, Apart

LEMMA TreesRepair == ASSUME Still, NEW f \in Flows, Repair(f) PROVE Trees'
  <1>1. /\ pc[f] = "repair" /\ loc[f] = ck /\ ck \in Checkpoint /\ Blank /\ ck.state = "repairing"
        /\ (Autonomous => exec.it > 0)
    BY Holding, Hand
    DEF Repair, On, At, CallOK, Fits, TreesCall, TreeAt, Trying, Loading, Ending,
        TaskOK, CountsOK, Autonomous, Usage, Still
  <1>2. CASE Autonomous /\ PauseForBudget(f)
    BY <1>1, <1>2, BudgetTrees
  <1>3. CASE /\ Autonomous /\ Save(f, [To(loc[f], "replanning") EXCEPT !.use = use'])
             /\ Goto(f, "replan") /\ UNCHANGED <<world, kind, base, history>>
    <2>1. PICK t : t = To(ck, "replanning")
      OBVIOUS
    <2>2. PICK c : c = [t EXCEPT !.use = use']
      OBVIOUS
    <2>3. t \in Checkpoint /\ t.state = "replanning" /\ t.mode = ck.mode /\ t.sbx = ck.sbx
      BY <1>1, <2>1, ToFields, ToKeeps DEF TaskState
    <2>4. c.state = "replanning" /\ c.mode = ck.mode /\ c.sbx = ck.sbx
      BY <2>2, <2>3 DEF Checkpoint
    <2>5. Saves(f, "replan", c) /\ UNCHANGED <<sbx, tree>>
      BY <1>1, <1>3, <2>1, <2>2, GotoSaves DEF Still, Apart, world
    <2>6. TreeAt("replan", c)' /\ StateAt("replan")'
      BY <1>1, <2>4, <2>5 DEF Saves, TreeAt, StateAt, Blank, Place, Loading, Trying, Ending
    <2> QED
      BY <1>1, <1>3, <2>4, <2>5, <2>6, SaveTrees DEF Steps, Asleep, Passing
  <1>4. CASE /\ exec' = IF Autonomous THEN use' ELSE exec
             /\ Goto(f, "repropose") /\ UNCHANGED <<ck, world, kind, loc, base, history>>
    <2>1. Stays(f, "repropose") /\ UNCHANGED <<sbx, tree, boxed>> /\ (exec'.it > 0 => exec.it > 0)
      BY <1>1, <1>4, GotoStays DEF Still, Apart, world
    <2>2. TreesCall(f) /\ TreesTask
      BY Holding
    <2>3. TreesTask'
      BY <2>1, <2>2 DEF Stays, TreesTask, Unwritten, Stage
    <2>4. TreesCall(f)'
      BY <1>1, <2>1, <2>2
      DEF Stays, TreesCall, TreeAt, StateAt, BoxAt, Blank, Place, Loading, Trying, Passing, Ending, Asleep
    <2> QED
      BY <1>1, <2>1, <2>3, <2>4, KeepsTrees DEF Stays
  <1> QED
    BY <1>2, <1>3, <1>4 DEF Repair

LEMMA TreesProposals ==
    ASSUME Still, NEW f \in Flows, Repropose(f) \/ Replan(f) \/ Propose(f) PROVE Trees'
  <1>1. pc[f] \in {"repropose", "replan", "propose", "rpropose"}
    BY DEF Repropose, Replan, Propose, On, At
  <1>2. /\ loc[f] = ck /\ ck \in Checkpoint /\ Blank
    BY <1>1, Holding DEF CallOK, TreesCall, TreeAt, Trying, Loading, Ending
  <1>3. CASE Throw(f) /\ UNCHANGED sbx
    BY <1>1, <1>3, FailTrees
  <1>4. CASE ~(Throw(f) /\ UNCHANGED sbx)
    <2>1. UNCHANGED <<exec, kind, base, sbx, tree>>
      BY <1>4 DEF Repropose, Replan, Propose, world
    <2>2. ASSUME NEW s \in {"mutating", "awaiting_approval"}, NEW p \in {"mutate", "reapprove", "approve", "rapprove"},
                 NEW c, c.state = s, c.mode = ck.mode, c.sbx = ck.sbx, Save(f, c), Goto(f, p)
          PROVE  Trees'
      <3>1. Saves(f, p, c)
        BY <2>1, <2>2, GotoSaves DEF Still, Apart
      <3>2. TreeAt(p, c)' /\ StateAt(p)'
        BY <1>2, <2>1, <2>2, <3>1 DEF Saves, TreeAt, StateAt, Blank, Place, Loading, Trying, Ending
      <3> QED
        BY <1>1, <1>2, <2>1, <2>2, <3>1, <3>2, SaveTrees DEF Steps, Asleep, Passing
    <2>3. ASSUME NEW s \in {"mutating", "awaiting_approval"}
          PROVE  /\ To(ck, s) \in Checkpoint /\ To(ck, s).state = s
                 /\ To(ck, s).mode = ck.mode /\ To(ck, s).sbx = ck.sbx
      BY <1>2, ToFields, ToKeeps DEF TaskState
    <2>4. CASE Repropose(f)
      <3>1. PICK t : t = To(ck, "mutating")
        OBVIOUS
      <3>2. PICK c : c = [t EXCEPT !.attempt = NextAttempt(ck), !.prop = Fresh, !.use = use]
        OBVIOUS
      <3>3. c.state = "mutating" /\ c.mode = ck.mode /\ c.sbx = ck.sbx
        BY <2>3, <3>1, <3>2 DEF Checkpoint
      <3> QED
        BY <1>2, <1>4, <2>2, <2>4, <3>1, <3>2, <3>3 DEF Repropose
    <2>5. CASE Replan(f)
      <3>1. PICK t : t = To(ck, "awaiting_approval")
        OBVIOUS
      <3>2. PICK c : c = [t EXCEPT !.plan = Fresh, !.prop = Fresh]
        OBVIOUS
      <3>3. c.state = "awaiting_approval" /\ c.mode = ck.mode /\ c.sbx = ck.sbx
        BY <2>3, <3>1, <3>2 DEF Checkpoint
      <3> QED
        BY <1>2, <1>4, <2>2, <2>5, <3>1, <3>2, <3>3 DEF Replan
    <2>6. CASE Propose(f)
      <3>1. PICK t : t = To(ck, "awaiting_approval")
        OBVIOUS
      <3>2. PICK c : c = [t EXCEPT !.prop = Fresh, !.use = use]
        OBVIOUS
      <3>3. c.state = "awaiting_approval" /\ c.mode = ck.mode /\ c.sbx = ck.sbx
        BY <2>3, <3>1, <3>2 DEF Checkpoint
      <3> QED
        BY <1>2, <1>4, <2>2, <2>6, <3>1, <3>2, <3>3 DEF Propose
    <2> QED
      BY <2>4, <2>5, <2>6
  <1> QED
    BY <1>3, <1>4

\* Whatever the user answers, nothing has been tried.
LEMMA TreesAnswers == ASSUME Still, NEW f \in Flows, Answer(f) PROVE Trees'
  <1>1. pc[f] \in {"approve", "reapprove", "rapprove"}
    BY DEF Answer, Approve, Reapprove, ReapproveOnResume, On, At
  <1>2. /\ loc[f] = ck /\ ck \in Checkpoint /\ ck.state = "awaiting_approval" /\ Blank
        /\ (boxed /\ ck.mode \in Writes => ck.sbx) /\ (ck.sbx => sbx = "running")
        /\ TreesCall(f) /\ TreesTask
    BY <1>1, Holding DEF CallOK, Fits, TreesCall, TreeAt, BoxAt, Trying, Loading, Ending, Asleep
  <1>3. UNCHANGED <<exec, tree, passed, boxed>>
    BY DEF Answer, Approve, Reapprove, ReapproveOnResume, Detach, store, Still
  <1>4. CASE Pause(f, loc[f])
    BY <1>1, <1>2, <1>3, <1>4, PauseTrees DEF Asleep
  <1>5. PICK c : c = To(ck, "mutating")
    OBVIOUS
  <1>6. c.state = "mutating" /\ c.mode = ck.mode /\ c.sbx = ck.sbx /\ c.prop = ck.prop
    BY <1>2, <1>5, ToKeeps
  <1>7. CASE /\ Only(f) /\ pc'[f] = "mutate" /\ ck' = c /\ loc'[f] = c
             /\ base'[f] \in {base[f], c} /\ sbx' = sbx
    <2>1. TreesTask'
      BY <1>2, <1>3, <1>6, <1>7 DEF TreesTask, Stage
    <2>2. TreesCall(f)'
      BY <1>1, <1>2, <1>3, <1>6, <1>7
      DEF TreesCall, TreeAt, StateAt, BoxAt, Blank, Place, Loading, Trying, Passing, Ending, Asleep
    <2> QED
      BY <1>1, <1>7, <2>1, <2>2, KeepsTrees
  <1>8. CASE /\ ck' = To(ck, "cancelled") /\ Return(f) /\ sbx' = (IF ck.sbx THEN Suspended ELSE sbx)
    <2>1. /\ ck'.state = "cancelled" /\ ck'.mode = ck.mode /\ ck'.sbx = ck.sbx /\ ck'.prop = ck.prop
      BY <1>2, <1>8, ToKeeps
    <2>2. TreesTask' /\ Settled'
      BY <1>2, <1>3, <1>8, <2>1 DEF TreesTask, Settled, Blank, Place, Stage, Suspended
    <2> QED
      BY <1>1, <1>8, <2>2, EndTrees, ReturnIsEnd DEF Still, Apart
  <1>9. ASSUME Save(f, c), Goto(f, "mutate"),
               base' = base \/ base' = [base EXCEPT ![f] = ck'],
               kind' = kind \/ \E k \in Kinds : kind' = [kind EXCEPT ![f] = k], sbx' = sbx
        PROVE  Trees'
    BY <1>7, <1>9 DEF Save, Goto, Only, Still, Apart, IInv, FlowsOK
  <1>10. CASE Approve(f)
    BY <1>2, <1>4, <1>5, <1>8, <1>9, <1>10 DEF Approve, SetState
  <1>11. CASE Reapprove(f)
    BY <1>2, <1>4, <1>5, <1>9, <1>11 DEF Reapprove, SetState
  <1>12. CASE ReapproveOnResume(f)
    <2>1. "detached" \in Kinds
      BY DEF Kinds
    <2> QED
      BY <1>2, <1>4, <1>5, <1>9, <1>12, <2>1 DEF ReapproveOnResume, Detach
  <1> QED
    BY <1>10, <1>11, <1>12 DEF Answer

LEMMA TreesAccept == ASSUME Still, NEW f \in Flows, Accept(f) \/ Promote(f) PROVE Trees'
  <1>1. /\ pc[f] \in {"verified", "promote"} /\ loc[f] = ck /\ Tried /\ {ck.prop} \in passed
        /\ ck.state \in {"verifying", "reviewing"} /\ ck.prop /= 0
    BY Holding
    DEF Accept, Promote, On, At, CallOK, Fits, Sound, Ready, Stage, Executing, TreesCall, TreeAt, Trying,
        Passing, Loading, Ending
  <1>2. CASE Accept(f)
    <2>1. PICK p \in {"promote", "complete"} : Goto(f, p) /\ p = (IF ck.sbx THEN "promote" ELSE "complete")
      BY <1>1, <1>2 DEF Accept
    <2>2. Stays(f, p) /\ UNCHANGED <<sbx, exec, tree, passed>>
      BY <1>2, <2>1, GotoStays DEF Accept, Still, Apart, world, history
    <2>3. TreeAt(p, loc[f])' /\ StateAt(p)
      BY <1>1, <2>1, <2>2
      DEF Stays, TreeAt, StateAt, Open, Tried, Delivered, Place, Clean, Loading, Trying, Ending
    <2> QED
      BY <1>1, <2>2, <2>3, MoveTrees DEF Steps, Asleep
  <1>3. CASE Promote(f)
    <2>1. ck.sbx
      BY <1>1, <1>3, Holding DEF Promote, On, At, TreesCall, StateAt
    <2>2. Goto(f, "deliver") /\ UNCHANGED <<ck, store, world, session, kind, loc, base, history>>
      BY <1>1, <1>3, <2>1 DEF Promote, Tried
    <2>3. Stays(f, "deliver") /\ UNCHANGED <<sbx, exec, tree, passed>>
      BY <2>2, GotoStays DEF Still, Apart, store, world, history
    <2>4. TreeAt("deliver", loc[f])' /\ StateAt("deliver")
      BY <1>1, <2>1, <2>3 DEF Stays, TreeAt, StateAt, Tried, Place, Loading, Trying, Ending
    <2> QED
      BY <1>1, <2>3, <2>4, MoveTrees DEF Steps, Asleep
  <1> QED
    BY <1>2, <1>3

LEMMA TreesComplete == ASSUME Still, NEW f \in Flows, Complete(f) PROVE Trees'
  <1>1. /\ pc[f] = "complete" /\ loc[f] = ck /\ ck \in Checkpoint /\ Delivered /\ Open
        /\ (ck.sbx => sbx = "running") /\ (boxed /\ ck.mode \in Writes => ck.sbx)
        /\ TreesCall(f) /\ TreesTask
    BY Holding
    DEF Complete, On, At, CallOK, TreesCall, TreeAt, StateAt, BoxAt, Trying, Loading, Ending, Asleep
  <1>2. PICK c : c = To(ck, "completed")
    OBVIOUS
  <1>3. c.state = "completed" /\ c.mode = ck.mode /\ c.sbx = ck.sbx /\ c.prop = ck.prop
    BY <1>1, <1>2, ToKeeps
  <1>4. /\ Save(f, c) /\ base' = [base EXCEPT ![f] = Start(f)] /\ Goto(f, "finishComplete")
        /\ UNCHANGED <<exec, tree, sbx, passed, kind, boxed>>
    BY <1>1, <1>2 DEF Complete, Lost, SetState, store, world, history, Still
  <1>5. /\ Only(f) /\ pc'[f] = "finishComplete" /\ ck' = c /\ loc'[f] = c /\ base'[f] = Start(f)
    BY <1>4 DEF Save, Goto, Only, Still, Apart, IInv, FlowsOK
  <1>6. TreesTask'
    BY <1>1, <1>3, <1>4, <1>5 DEF TreesTask, Stage
  <1>7. base'[f] \in {ck, base[f]} /\ (base[f] = NoCk => base'[f] = ck)
    BY <1>1, <1>5 DEF Start
  <1>8. TreesCall(f)'
    BY <1>1, <1>3, <1>4, <1>5, <1>7
    DEF TreesCall, TreeAt, StateAt, BoxAt, Open, Delivered, Loading, Trying, Passing, Ending, Asleep
  <1> QED
    BY <1>1, <1>5, <1>6, <1>8, KeepsTrees

LEMMA TreesFinish ==
    ASSUME Still, NEW f \in Flows, FinishComplete(f) \/ FinishFail(f) PROVE Trees'
  <1>1. /\ pc[f] \in {"finishComplete", "finishFail"} /\ loc[f] = ck /\ TreesCall(f) /\ TreesTask
        /\ TaskOK /\ CallOK(f) /\ Ends(f) /\ UNCHANGED <<ck, tree, passed, boxed>>
        /\ exec' = (IF Autonomous THEN use ELSE exec) /\ (Autonomous => exec.it > 0)
    BY Holding, Hand, ReturnIsEnd
    DEF FinishComplete, FinishFail, On, At, CallOK, history, Still, TaskOK, CountsOK, Autonomous, Usage
  <1>2. CASE FinishComplete(f)
    <2>1. ck.state = "completed" /\ Delivered
      BY <1>1, <1>2 DEF FinishComplete, On, At, TreesCall, TreeAt, StateAt, Ending
    <2>2. Settled' /\ TreesTask'
      BY <1>1, <2>1 DEF Settled, Delivered, TreesTask, Stage, Unwritten
    <2> QED
      BY <1>1, <2>2, EndTrees
  <1>3. CASE FinishFail(f)
    <2>1. ck.state = "failed" /\ Blank /\ sbx' = (IF ck.sbx THEN Suspended ELSE sbx)
      BY <1>1, <1>3 DEF FinishFail, On, At, TreesCall, TreeAt, StateAt, Loading, Trying, Ending
    <2>2. Settled' /\ TreesTask'
      BY <1>1, <2>1 DEF Settled, Blank, Place, TreesTask, Stage, Unwritten, Suspended
    <2> QED
      BY <1>1, <2>2, EndTrees
  <1> QED
    BY <1>2, <1>3

LEMMA TreesFail == ASSUME Still, NEW f \in Flows, Fail(f) PROVE Trees'
  <1>1. pc[f] = "fail" /\ loc[f] \in Checkpoint /\ TreesCall(f) /\ TreesTask
    BY Holding DEF Fail, On, At
  <1>2. CASE Throw(f) /\ UNCHANGED sbx
    BY <1>1, <1>2, FailTrees
  <1>3. CASE ~(Throw(f) /\ UNCHANGED sbx)
    <2>1. PICK c : c = To(loc[f], "failed")
      OBVIOUS
    <2>2. c.state = "failed" /\ c.mode = loc[f].mode /\ c.sbx = loc[f].sbx
      BY <1>1, <2>1, ToKeeps
    <2>3. /\ Saves(f, "finishFail", c) /\ UNCHANGED <<exec, sbx, tree, passed, boxed>>
          /\ canTransition(loc[f].state, "failed")
      BY <1>3, <2>1, GotoSaves DEF Fail, Still, Apart, store, world, history
    <2>4. loc[f].state /= "completed"
      BY <2>3 DEF canTransition, Transitions
    <2>5. Blank /\ loc[f].sbx = ck.sbx /\ loc[f].mode = ck.mode /\ ck.state /= "completed"
      BY <1>1, <2>4 DEF TreesCall, TreeAt
    <2>6. boxed /\ ck.mode \in Writes => ck.sbx
      BY <1>1, <2>4 DEF TreesCall, TreeAt, TreesTask
    <2>7. TreesTask'
      BY <1>1, <2>2, <2>3, <2>5, <2>6 DEF Saves, TreesTask, Stage
    <2>8. TreesCall(f)'
      BY <1>1, <2>2, <2>3, <2>5
      DEF Saves, TreesCall, TreeAt, StateAt, BoxAt, Blank, Place, Loading, Trying, Passing, Ending, Asleep
    <2> QED
      BY <1>1, <2>3, <2>7, <2>8, KeepsTrees DEF Saves
  <1> QED
    BY <1>2, <1>3

LEMMA TreesLoop == ASSUME Still, NEW f \in Flows, LoopStep(f) PROVE Trees'
  BY TreesMutate, TreesApply, TreesDeliver, TreesRecord, TreesSettle, TreesVerify, TreesDecide, TreesReview,
     TreesRestore, TreesRework, TreesRepair, TreesProposals, TreesAccept, TreesComplete, TreesFinish,
     TreesFail
  DEF LoopStep
-----------------------------------------------------------------------------
\* The steps of start.
LEMMA TreesRun == ASSUME Still, NEW f \in Flows, Run(f) PROVE Trees'
  <1>1. /\ ck = NoCk /\ pc[f] = "idle" /\ UNCHANGED <<exec, sbx, tree, passed, base, boxed>>
        /\ base[f] = NoCk /\ TreesTask /\ exec.it = 0
    BY Holding DEF Run, Free, On, At, store, world, history, Still, CallOK, TaskOK, CountsOK
  <1>2. AtRest'  = FALSE /\ AtRest
    <2>1. pc'[f] = "launch" /\ Only(f)
      BY DEF Run, Save, Goto, Only, Still, Apart, IInv, FlowsOK
    <2> QED
      BY <1>1, <2>1 DEF AtRest, At, Only, Still, Apart, OneCallAtATime
  <1>3. Blank
    BY <1>1, <1>2, NoCkIs DEF Still, Trees, Settled
  <1>4. PICK m \in Modes : Save(f, [NoCk EXCEPT !.state = "created", !.mode = m])
    BY DEF Run
  <1>5. PICK c : c = [NoCk EXCEPT !.state = "created", !.mode = m]
    OBVIOUS
  <1>6. c.state = "created" /\ c.sbx = FALSE /\ NoCk.sbx = FALSE /\ c.prop = 0
    BY <1>5 DEF NoCk
  <1>7. Saves(f, "launch", c)
    BY <1>1, <1>4, <1>5, GotoSaves DEF Run, Still, Apart, Kinds
  <1>8. TreesTask'
    BY <1>1, <1>6, <1>7 DEF Saves, TreesTask, Stage, Unwritten
  <1>9. TreesCall(f)'
    BY <1>1, <1>3, <1>6, <1>7
    DEF Saves, TreesCall, TreeAt, StateAt, BoxAt, Blank, Place, Unwritten,
        Loading, Trying, Passing, Ending, Asleep
  <1> QED
    BY <1>7, <1>8, <1>9, KeepsTrees DEF Saves

LEMMA TreesLaunch == ASSUME Still, NEW f \in Flows, Launch(f) PROVE Trees'
  <1>1. /\ pc[f] = "launch" /\ loc[f] = ck /\ ck \in Checkpoint /\ Blank /\ Unwritten
        /\ TreesCall(f) /\ TreesTask
    BY Holding DEF Launch, On, At, CallOK, TreesCall, TreeAt, Trying, Loading, Ending
  <1>2. /\ UNCHANGED <<base, sbx, tree, passed, boxed>> /\ Goto(f, "ensure")
        /\ kind' = [kind EXCEPT ![f] = "start"] /\ "start" \in Kinds
    BY DEF Launch, world, history, Kinds, Still
  <1>3. Only(f) /\ pc'[f] = "ensure" /\ base'[f] = base[f]
    BY <1>2 DEF Launch, Save, Goto, Only, Still, Apart, IInv, FlowsOK
  <1>4. /\ ck'.state = ck.state /\ ck'.mode = ck.mode /\ ck'.sbx = ck.sbx /\ ck'.prop = ck.prop
        /\ ck'.plan = ck.plan /\ ck'.resume = ck.resume
        /\ (exec'.it > 0 => exec.it > 0 \/ ck.mode = "auto")
    BY <1>1 DEF Launch, Save, Checkpoint
  <1>5. TreesTask'
    BY <1>1, <1>2, <1>4 DEF TreesTask, Stage, Unwritten
  <1>6. TreesCall(f)'
    BY <1>1, <1>2, <1>3, <1>4
    DEF TreesCall, TreeAt, StateAt, BoxAt, Blank, Place, Unwritten, Loading, Trying, Passing, Ending, Asleep
  <1> QED
    BY <1>1, <1>3, <1>5, <1>6, KeepsTrees

LEMMA TreesEnsure == ASSUME Still, NEW f \in Flows, Ensure(f) PROVE Trees'
  <1>1. /\ pc[f] = "ensure" /\ loc[f] = ck /\ ck \in Checkpoint /\ Blank /\ Unwritten
        /\ (ck.sbx => sbx = "running") /\ base[f] = NoCk /\ TreesCall(f) /\ TreesTask
        /\ tree \in [{"repo", "sandbox"} -> Contents]
    BY Holding
    DEF Ensure, On, At, CallOK, TreesCall, TreeAt, BoxAt, Trying, Loading, Ending, Asleep
  <1>2. /\ UNCHANGED <<exec, passed, kind, base, boxed>> /\ Goto(f, "context")
    BY <1>1 DEF Ensure, Lost, store, history, Still
  <1>3. CASE Sandboxed(f) /\ ~loc[f].sbx
    <2>1. PICK c : c = [ck EXCEPT !.sbx = TRUE]
      OBVIOUS
    <2>2. /\ c.state = ck.state /\ c.mode = ck.mode /\ c.prop = ck.prop /\ c.plan = ck.plan
          /\ c.resume = ck.resume /\ c.sbx = TRUE
      BY <1>1, <2>1 DEF Checkpoint
    <2>3. /\ Saves(f, "context", c) /\ sbx' = "running"
          /\ tree' = [tree EXCEPT !["sandbox"] = tree["repo"]]
      BY <1>1, <1>2, <1>3, <2>1, GotoSaves DEF Ensure, Lost, Still, Apart
    <2>4. TreesTask'
      BY <1>1, <1>2, <2>2, <2>3 DEF Saves, TreesTask, Stage, Unwritten
    <2>5. Blank'
      BY <1>1, <2>2, <2>3 DEF Saves, Blank, Place
    <2>6. TreesCall(f)'
      BY <1>1, <1>2, <2>2, <2>3, <2>5
      DEF Saves, TreesCall, TreeAt, StateAt, BoxAt, Unwritten, Loading, Trying, Passing, Ending, Asleep
    <2> QED
      BY <1>1, <2>3, <2>4, <2>6, KeepsTrees DEF Saves
  <1>4. CASE ~(Sandboxed(f) /\ ~loc[f].sbx)
    <2>1. Stays(f, "context") /\ UNCHANGED tree /\ sbx' = (IF Sandboxed(f) THEN Reopened ELSE sbx)
      BY <1>1, <1>2, <1>4, GotoStays DEF Ensure, Lost, Still, Apart
    <2>2. sbx' = sbx
      BY <1>1, <1>4, <2>1 DEF Reopened
    <2>3. TreesTask'
      BY <1>1, <1>2, <2>1, <2>2, TaskAtEase DEF Stays
    <2>4. TreesCall(f)'
      BY <1>1, <1>2, <1>4, <2>1, <2>2
      DEF Stays, Sandboxed, TreesCall, TreeAt, StateAt, BoxAt, Blank, Place, Unwritten,
          Loading, Trying, Passing, Ending, Asleep
    <2> QED
      BY <1>1, <2>1, <2>3, <2>4, KeepsTrees DEF Stays
  <1> QED
    BY <1>3, <1>4

LEMMA TreesContext == ASSUME Still, NEW f \in Flows, Context(f) PROVE Trees'
  <1>1. /\ pc[f] = "context" /\ loc[f] = ck /\ ck \in Checkpoint /\ Blank /\ Unwritten
        /\ ck.state \in {"created", "contextualizing", "planning"}
        /\ UNCHANGED <<exec, sbx, tree, passed, kind, base>> /\ Goto(f, "gathered")
    BY Holding
    DEF Context, On, At, CallOK, TreesCall, TreeAt, StateAt, Trying, Loading, Ending, store, world, history
  <1>2. CASE UNCHANGED <<ck, loc>>
    <2>1. Stays(f, "gathered")
      BY <1>1, <1>2, GotoStays DEF Still, Apart
    <2>2. TreeAt("gathered", loc[f])' /\ StateAt("gathered")
      BY <1>1, <2>1 DEF Stays, TreeAt, StateAt, Blank, Place, Loading, Trying, Ending
    <2> QED
      BY <1>1, <2>1, <2>2, MoveTrees DEF Steps, Asleep, Passing
  <1>3. CASE ~UNCHANGED <<ck, loc>>
    <2>1. PICK c : c = To(ck, "contextualizing")
      OBVIOUS
    <2>2. /\ c.state = "contextualizing" /\ c.mode = ck.mode /\ c.sbx = ck.sbx /\ c.prop = ck.prop
      BY <1>1, <2>1, ToKeeps
    <2>3. Saves(f, "gathered", c)
      BY <1>1, <1>3, <2>1, GotoSaves DEF Context, SetState, Still, Apart
    <2>4. TreeAt("gathered", c)' /\ StateAt("gathered")' /\ Unwritten'
      BY <1>1, <2>2, <2>3
      DEF Saves, TreeAt, StateAt, Blank, Place, Unwritten, Loading, Trying, Ending
    <2> QED
      BY <1>1, <2>2, <2>3, <2>4, SaveTrees DEF Steps, Asleep, Passing
  <1> QED
    BY <1>2, <1>3

LEMMA TreesGathered == ASSUME Still, NEW f \in Flows, Gathered(f) PROVE Trees'
  <1>1. /\ pc[f] = "gathered" /\ loc[f] = ck /\ ck \in Checkpoint /\ Blank /\ Unwritten
        /\ ck.state \in {"created", "contextualizing", "planning"}
        /\ UNCHANGED <<exec, tree, passed>>
    BY Holding
    DEF Gathered, On, At, CallOK, TreesCall, TreeAt, StateAt, Trying, Loading, Ending, store, history
  <1>2. CASE Pause(f, loc[f])
    BY <1>1, <1>2, PauseTrees DEF Asleep
  <1>3. CASE loc[f].mode = "ask" /\ Goto(f, "complete") /\ UNCHANGED <<ck, sbx, kind, loc, base>>
    <2>1. Stays(f, "complete")
      BY <1>1, <1>3, GotoStays DEF Still, Apart
    <2>2. TreeAt("complete", loc[f])' /\ StateAt("complete")
      BY <1>1, <1>3, <2>1
      DEF Stays, TreeAt, StateAt, Open, Blank, Unwritten, Delivered, Writes, Loading, Trying, Ending
    <2> QED
      BY <1>1, <1>3, <2>1, <2>2, MoveTrees DEF Steps, Asleep, Passing
  <1>4. CASE /\ IF loc[f].state /= "planning" THEN SetState(f, loc[f], "planning") ELSE UNCHANGED <<ck, loc>>
             /\ Goto(f, "plan") /\ UNCHANGED <<sbx, kind, base>>
    <2>1. CASE ck.state = "planning"
      <3>1. Stays(f, "plan")
        BY <1>1, <1>4, <2>1, GotoStays DEF Still, Apart
      <3>2. TreeAt("plan", loc[f])' /\ StateAt("plan")
        BY <1>1, <3>1 DEF Stays, TreeAt, StateAt, Blank, Place, Loading, Trying, Ending
      <3> QED
        BY <1>1, <1>4, <3>1, <3>2, MoveTrees DEF Steps, Asleep, Passing
    <2>2. CASE ck.state /= "planning"
      <3>1. PICK c : c = To(ck, "planning")
        OBVIOUS
      <3>2. /\ c.state = "planning" /\ c.mode = ck.mode /\ c.sbx = ck.sbx /\ c.prop = ck.prop
        BY <1>1, <3>1, ToKeeps
      <3>3. Saves(f, "plan", c)
        BY <1>1, <1>4, <2>2, <3>1, GotoSaves DEF SetState, Still, Apart
      <3>4. TreeAt("plan", c)' /\ StateAt("plan")' /\ Unwritten'
        BY <1>1, <3>2, <3>3
        DEF Saves, TreeAt, StateAt, Blank, Place, Unwritten, Loading, Trying, Ending
      <3> QED
        BY <1>1, <1>4, <3>2, <3>3, <3>4, SaveTrees DEF Steps, Asleep, Passing
    <2> QED
      BY <2>1, <2>2
  <1> QED
    BY <1>2, <1>3, <1>4 DEF Gathered

LEMMA TreesPlan == ASSUME Still, NEW f \in Flows, Plan(f) PROVE Trees'
  <1>1. /\ pc[f] = "plan" /\ loc[f] = ck /\ ck \in Checkpoint /\ Blank /\ Unwritten
        /\ ck.state = "planning" /\ Fresh \in Drafts
    BY Holding, FreshDraft
    DEF Plan, On, At, CallOK, Fits, TreesCall, TreeAt, Trying, Loading, Ending
  <1>2. CASE Throw(f) /\ UNCHANGED sbx
    BY <1>1, <1>2, FailTrees
  <1>3. CASE ~(Throw(f) /\ UNCHANGED sbx)
    <2>1. PICK c : c = [ck EXCEPT !.plan = Fresh]
      OBVIOUS
    <2>2. /\ c \in Checkpoint /\ c.state = "planning" /\ c.mode = ck.mode /\ c.sbx = ck.sbx
          /\ c.prop = ck.prop
      BY <1>1, <2>1 DEF Checkpoint
    <2>3. /\ UNCHANGED <<exec, tree, passed>>
          /\ IF AtBoundary THEN Pause(f, c)
             ELSE /\ Save(f, c) /\ Goto(f, IF c.mode = "plan" THEN "complete" ELSE "propose")
                  /\ UNCHANGED <<sbx, kind, base>>
      BY <1>1, <1>3, <2>1 DEF Plan, history
    <2>4. CASE AtBoundary
      BY <1>1, <2>2, <2>3, <2>4, PauseTrees DEF Asleep
    <2>5. CASE ~AtBoundary
      <3>1. PICK p \in {"complete", "propose"} : Saves(f, p, c) /\ (p = "complete" => c.mode = "plan")
        BY <2>3, <2>5, GotoSaves DEF Still, Apart
      <3>2. Unwritten' /\ Blank'
        BY <1>1, <2>2, <2>3, <3>1 DEF Saves, Blank, Place, Unwritten
      <3>3. TreeAt(p, c)' /\ StateAt(p)'
        BY <1>1, <2>2, <2>3, <3>1, <3>2
        DEF Saves, TreeAt, StateAt, Open, Blank, Unwritten, Delivered, Writes, Loading, Trying, Ending
      <3> QED
        BY <1>1, <2>2, <2>3, <2>5, <3>1, <3>2, <3>3, SaveTrees DEF Steps, Asleep, Passing
    <2> QED
      BY <2>4, <2>5
  <1> QED
    BY <1>2, <1>3

LEMMA TreesStart == ASSUME Still, NEW f \in Flows, StartStep(f) PROVE Trees'
  BY TreesLaunch, TreesEnsure, TreesContext, TreesGathered, TreesPlan DEF StartStep
-----------------------------------------------------------------------------
\* The steps of resume.
LEMMA TreesResume == ASSUME Still, NEW f \in Flows, Resume(f) PROVE Trees'
  <1>1. /\ pc[f] = "idle" /\ UNCHANGED <<ck, exec, sbx, tree, passed, base, boxed>>
        /\ base[f] = NoCk /\ TreesTask
    BY Holding DEF Resume, Free, On, At, store, world, Still, CallOK
  <1>2. Only(f) /\ pc'[f] = "load" /\ loc'[f] = ck /\ base'[f] = base[f]
    BY DEF Resume, Goto, Only, Still, Apart, IInv, FlowsOK
  <1>3. AtRest
    BY <1>1, <1>2 DEF AtRest, At, Only, Still, Apart, OneCallAtATime
  <1>4. Settled'
    BY <1>1, <1>3 DEF Still, Trees, Settled, Delivered, Tried, Blank, Place, Stage
  <1>5. TreesTask'
    BY <1>1, TaskAtEase
  <1>6. TreesCall(f)'
    BY <1>1, <1>2, <1>4
    DEF TreesCall, TreeAt, StateAt, BoxAt, Loading, Trying, Passing, Ending, Asleep
  <1> QED
    BY <1>1, <1>2, <1>5, <1>6, KeepsTrees

\* What lies in the trees at rest, the step of resume that starts there expects.
LEMMA TreesLoad == ASSUME Still, NEW f \in Flows, Load(f) PROVE Trees'
  <1>1. /\ pc[f] = "load" /\ loc[f] = ck /\ ck \in Checkpoint /\ Settled /\ base[f] = NoCk
        /\ TreesTask /\ TreesCall(f) /\ ck.state /= "none" /\ boxed' = boxed /\ exec \in Usage
    BY Holding, Hand DEF Load, On, At, CallOK, TreesCall, TreeAt, Loading, Still
  <1>2. CASE Lost(f)
    <2>1. Throw(f) /\ UNCHANGED <<ck, exec, sbx, tree, passed>>
      BY <1>2 DEF Load, Throw, store, history
    <2>2. ck.state = "completed"
      BY <1>1, <1>2 DEF Lost, TreesTask
    <2>3. TreesTask' /\ Settled'
      BY <1>1, <2>1, <2>2, TaskAtEase DEF Settled, Delivered
    <2>4. CASE Ends(f)
      BY <1>1, <2>3, <2>4, EndTrees
    <2>5. CASE Fails(f)
      <3>1. loc'[f].state = "completed" /\ base'[f] = NoCk /\ pc'[f] = "fail" /\ ck' = ck
        BY <1>1, <2>1, <2>2, <2>5 DEF Fails
      <3>2. TreesCall(f)'
        BY <2>2, <2>3, <3>1
        DEF TreesCall, TreeAt, StateAt, BoxAt, Loading, Trying, Passing, Ending, Asleep
      <3> QED
        BY <1>1, <2>3, <2>5, <3>1, <3>2, KeepsTrees DEF Fails
    <2> QED
      BY <2>1, <2>4, <2>5, ThrowIsFailure DEF Still, Apart
  <1>3. CASE ~Lost(f)
    <2>1. sbx' = (IF ck.sbx THEN Reopened ELSE sbx)
      BY <1>1, <1>3 DEF Load
    <2>2. ck.sbx /\ ck.state /= "completed" => sbx' = "running"
      BY <1>1, <1>3, <2>1 DEF Reopened, TreesTask, Lost
    <2>3. CASE Return(f) /\ UNCHANGED <<ck, store, tree, flags, history>>
      <3>1. UNCHANGED <<ck, exec, tree, passed>>
        BY <2>3 DEF store, history
      <3>2. TreesTask' /\ Settled'
        BY <1>1, <2>2, <3>1 DEF TreesTask, Settled, Delivered, Tried, Blank, Place, Stage, Unwritten
      <3> QED
        BY <1>1, <2>3, <3>2, EndTrees, ReturnIsEnd DEF Still, Apart
    <2>4. CASE /\ ck.state = "failed" /\ Retriable /\ use' = [exec EXCEPT !.it = @ + 1] /\ exec' = use'
               /\ Restart(f, [To(loc[f], "contextualizing") EXCEPT !.use = use', !.mode = "auto"])
      <3>1. PICK t : t = To(ck, "contextualizing")
        OBVIOUS
      <3>2. PICK c : c = [t EXCEPT !.use = use', !.mode = "auto"]
        OBVIOUS
      <3>3. /\ t \in Checkpoint /\ t.state = "contextualizing" /\ t.sbx = ck.sbx /\ t.prop = ck.prop
        BY <1>1, <3>1, ToFields, ToKeeps DEF TaskState
      <3>4. /\ c.state = "contextualizing" /\ c.mode = "auto" /\ c.sbx = ck.sbx /\ c.prop = ck.prop
        BY <3>2, <3>3 DEF Checkpoint
      <3>5. Saves(f, "ensure", c) /\ UNCHANGED <<tree, passed>>
        BY <1>1, <2>4, <3>1, <3>2, RestartSaves DEF Restart, Still, Apart
      <3>6. ck.mode = "auto" /\ Blank /\ (boxed /\ ck.mode \in Writes => ck.sbx)
        BY <1>1, <2>4 DEF Retriable, TreesTask, Settled, Stage
      <3>7. TreesTask'
        BY <1>1, <2>2, <2>4, <3>4, <3>5, <3>6 DEF Saves, TreesTask, Unwritten, Writes, Stage
      <3>8. TreesCall(f)'
        BY <1>1, <2>2, <2>4, <3>4, <3>5, <3>6
        DEF Saves, TreesCall, TreeAt, StateAt, BoxAt, Blank, Place, Unwritten, Writes,
            Loading, Trying, Passing, Ending, Asleep
      <3> QED
        BY <1>1, <3>5, <3>7, <3>8, KeepsTrees DEF Saves
    <2>5. CASE /\ loc[f].state \notin {"completed", "cancelled", "failed"}
               /\ Goto(f, "restate") /\ UNCHANGED <<ck, store, tree, session, kind, loc, base, history>>
      <3>1. Stays(f, "restate") /\ UNCHANGED <<exec, tree, passed>>
        BY <2>5, GotoStays DEF Still, Apart, store, history
      <3>2. TreesTask' /\ Settled'
        BY <1>1, <2>2, <2>5, <3>1
        DEF Stays, TreesTask, Settled, Delivered, Tried, Blank, Place, Stage, Unwritten
      <3>3. TreesCall(f)'
        BY <1>1, <2>2, <2>5, <3>1, <3>2
        DEF Stays, TreesCall, TreeAt, StateAt, BoxAt, Open, Loading, Trying, Passing, Ending, Asleep
      <3> QED
        BY <1>1, <3>1, <3>2, <3>3, KeepsTrees DEF Stays
    <2> QED
      BY <1>1, <1>3, <2>3, <2>4, <2>5 DEF Load
  <1> QED
    BY <1>2, <1>3

LEMMA TreesRestate == ASSUME Still, NEW f \in Flows, Restate(f) PROVE Trees'
  <1>1. /\ pc[f] = "restate" /\ loc[f] = ck /\ ck \in Checkpoint /\ Settled /\ Open /\ base[f] = NoCk
        /\ TreesTask /\ TreesCall(f) /\ boxed' = boxed /\ (ck.sbx => sbx = "running")
    BY Holding
    DEF Restate, On, At, CallOK, TreesCall, TreeAt, StateAt, BoxAt, Loading, Asleep, Still
  <1>2. PICK c : c = Restated(ck)
    OBVIOUS
  <1>3. /\ c.prop = ck.prop /\ c.plan = ck.plan /\ c.mode = ck.mode /\ c.sbx = ck.sbx
        /\ c.state = CASE Stage(ck) = "reviewing" -> "verifying"
                       [] Stage(ck) = "replanning" -> "repairing"
                       [] OTHER -> Stage(ck)
        /\ c.state /= "paused"
    <2>1. Sound(ck)
      BY Hand DEF Still
    <2> QED
      BY <1>1, <1>2, <2>1, RestatedKeeps, RestatedSound DEF Sound, Ready
  <1>4. UNCHANGED <<exec, sbx>>
    BY DEF Restate, store
  <1>5. IF c.state = "verifying" THEN Tried ELSE Blank
    BY <1>1, <1>3 DEF Settled, Open
  <1>6. c.state \in {"created", "contextualizing"} \/ (c.state = "planning" /\ c.plan = 0) => Unwritten
    BY <1>1, <1>3 DEF TreesTask
  <1>7. c.state /= "created" => (boxed /\ ck.mode \in Writes => ck.sbx)
    BY <1>1, <1>3 DEF TreesTask, Open, Stage
  <1>8. /\ UNCHANGED <<tree, passed>>
        /\ \E p \in {"ensure", "rpropose", "rapprove", "mutate", "verify", "repair"} :
              /\ Saves(f, p, c)
              /\ p = "ensure" => c.state \in {"created", "contextualizing"} \/ (c.state = "planning" /\ c.plan = 0)
              /\ p = "rpropose" => c.state = "planning" /\ c.plan /= 0
              /\ p = "rapprove" => c.state = "awaiting_approval"
              /\ p = "verify" <=> c.state = "verifying"
              /\ p \in {"mutate", "repair"} => c.state \in Executing
    <2>1. "detached" \in Kinds /\ "start" \in Kinds
      BY DEF Kinds
    <2>2. ASSUME NEW p \in {"rpropose", "rapprove"}, Save(f, c), Goto(f, p), UNCHANGED <<kind, base>>
          PROVE  Saves(f, p, c)
      BY <2>2, GotoSaves DEF Still, Apart
    <2>3. ASSUME Restart(f, c) PROVE Saves(f, "ensure", c)
      BY <2>3, RestartSaves DEF Still, Apart
    <2>4. ASSUME c.state \in Executing, Detach(f, c, Entry(c.state))
          PROVE  \E p \in {"mutate", "verify", "repair"} : Saves(f, p, c) /\ (p = "verify" <=> c.state = "verifying")
      <3>1. PICK p : p = Entry(c.state)
        OBVIOUS
      <3>2. p \in {"mutate", "verify", "repair"} /\ (p = "verify" <=> c.state = "verifying")
        BY <3>1 DEF Entry
      <3> QED
        BY <2>1, <2>4, <3>1, <3>2, GotoSaves DEF Detach, Still, Apart
    <2>5. UNCHANGED <<tree, passed>>
      BY <1>1 DEF Restate, Restart, Detach, history
    <2>6. CASE c.state = "planning" /\ c.plan /= 0 /\ Save(f, c) /\ Goto(f, "rpropose") /\ UNCHANGED <<kind, base>>
      BY <2>2, <2>5, <2>6
    <2>7. CASE /\ c.state \in {"created", "contextualizing"} \/ (c.state = "planning" /\ c.plan = 0)
               /\ Restart(f, c)
      BY <2>3, <2>5, <2>7
    <2>8. CASE c.state = "awaiting_approval" /\ Save(f, c) /\ Goto(f, "rapprove") /\ UNCHANGED <<kind, base>>
      BY <2>2, <2>5, <2>8
    <2>9. CASE c.state \in Executing /\ Detach(f, c, Entry(c.state))
      BY <2>4, <2>5, <2>9
    <2> QED
      BY <1>1, <1>2, <2>6, <2>7, <2>8, <2>9 DEF Restate
  <1>9. PICK p \in {"ensure", "rpropose", "rapprove", "mutate", "verify", "repair"} :
            /\ Saves(f, p, c)
            /\ p = "ensure" => c.state \in {"created", "contextualizing"} \/ (c.state = "planning" /\ c.plan = 0)
            /\ p = "rpropose" => c.state = "planning" /\ c.plan /= 0
            /\ p = "rapprove" => c.state = "awaiting_approval"
            /\ p = "verify" <=> c.state = "verifying"
            /\ p \in {"mutate", "repair"} => c.state \in Executing
    BY <1>8
  <1>10. (Blank <=> Blank') /\ (Tried <=> Tried') /\ (Unwritten <=> Unwritten')
    BY <1>3, <1>8, <1>9 DEF Saves, Blank, Tried, Place, Unwritten
  <1>11. TreesTask'
    BY <1>1, <1>3, <1>4, <1>6, <1>7, <1>9, <1>10 DEF Saves, TreesTask, Stage
  <1>12. TreeAt(p, c)' /\ StateAt(p)'
    BY <1>3, <1>5, <1>9, <1>10 DEF Saves, TreeAt, StateAt, Loading, Trying, Ending
  <1>13. BoxAt(p)'
    BY <1>1, <1>3, <1>4, <1>7, <1>9 DEF Saves, BoxAt, Asleep, Executing
  <1>14. TreesCall(f)'
    BY <1>1, <1>6, <1>9, <1>10, <1>12, <1>13 DEF Saves, TreesCall, Passing
  <1> QED
    BY <1>1, <1>9, <1>11, <1>14, KeepsTrees DEF Saves
-----------------------------------------------------------------------------
LEMMA TreesOutside == ASSUME Still, Cancel \/ Exit PROVE Trees'
  <1>1. UNCHANGED <<ck, exec, sbx, tree, passed, pc, loc, base>>
    BY DEF Cancel, Exit, NewProcess, store, world, control, history
  <1>2. TreesTask'
    BY <1>1, TaskAtEase DEF Still, Trees
  <1>3. AtRest' => Settled'
    BY <1>1
    DEF Still, Trees, AtRest, At, Settled, Delivered, Tried, Blank, Place, Stage
  <1>4. ASSUME NEW f \in Flows PROVE TreesCall(f)'
    BY <1>1, Holding
    DEF Still, TreesCall, TreeAt, StateAt, BoxAt, Settled, Delivered, Tried, Blank, Place, Stage, Open, Unwritten
  <1> QED
    BY <1>2, <1>3, <1>4 DEF Trees

LEMMA InitTrees == Init => CalmTrees
  <1> SUFFICES ASSUME Init PROVE Trees
    BY DEF CalmTrees
  <1>1. /\ ck = NoCk /\ exec.it = 0 /\ tree["repo"] = Clean /\ tree["sandbox"] = Clean
        /\ NoCk.sbx = FALSE /\ NoCk.prop = 0 /\ NoCk.state = "none" /\ Stage(NoCk) = "none"
    BY DEF Init, NoUse, NoCk, Stage
  <1>2. TreesTask
    BY <1>1 DEF TreesTask, Unwritten
  <1>3. Settled
    BY <1>1 DEF Settled, Blank, Place
  <1>4. ASSUME NEW f \in Flows PROVE TreesCall(f)
    <2>1. pc[f] = "idle" /\ base[f] = NoCk
      BY DEF Init
    <2> QED
      BY <2>1 DEF TreesCall, TreeAt, StateAt, BoxAt, Loading, Trying, Passing, Ending, Asleep
  <1> QED
    BY <1>2, <1>3, <1>4 DEF Trees

\* Only the environment counts towards the bounds.
LEMMA OnKeepsBounds ==
    ASSUME NEW f \in Flows, Call(f) \/ Work(f) \/ Answer(f) PROVE UNCHANGED bounds
  <1>1. CASE Call(f)
    BY <1>1 DEF Call, Run, Resume, Free, On
  <1>2. CASE Answer(f)
    BY <1>2 DEF Answer, Approve, Reapprove, ReapproveOnResume, On
  <1>3. CASE StartStep(f) \/ ResumeStep(f)
    BY <1>3 DEF StartStep, Launch, Ensure, Context, Gathered, Plan, ResumeStep, Load, Restate, Propose, On
  <1>4. CASE LoopStep(f)
    BY <1>4
    DEF LoopStep, Mutate, Apply, Record, Count, Settle, Verify, Decide, Review, Restore, Rework, Withdraw, Repair,
        Repropose, Replan, Accept, Promote, Deliver, Complete, FinishComplete, Fail, FinishFail, On
  <1> QED
    BY <1>1, <1>2, <1>3, <1>4 DEF Work

\* A step out of a state that is calm into one that is calm is one of the
\* program's own.
LEMMA CalmStep ==
    ASSUME IInv, [Next]_vars, Calm'
    PROVE  /\ Calm /\ boxed' = boxed
           /\ \/ UNCHANGED vars \/ Cancel \/ Exit
              \/ \E f \in Flows : Call(f) \/ Work(f) \/ Answer(f)
  <1>1. crashes \in Nat /\ faults \in Nat /\ edits \in Nat
    BY DEF IInv, SharedOK
  <1>2. CASE UNCHANGED vars
    BY <1>2 DEF vars, bounds, Calm
  <1>3. ASSUME NEW f \in Flows, Call(f) \/ Work(f) \/ Answer(f) PROVE UNCHANGED bounds
    BY <1>3, OnKeepsBounds
  <1>4. CASE \E f \in Flows : Call(f) \/ Work(f) \/ Answer(f)
    BY <1>3, <1>4 DEF bounds, Calm
  <1>5. CASE Cancel \/ Exit
    BY <1>5 DEF Cancel, Exit, NewProcess, bounds, Calm
  <1>6. ~Crash /\ ~UserEdit /\ \A f \in Flows : ~Fault(f) /\ ~Overlook(f)
    BY <1>1 DEF Crash, UserEdit, Fault, Overlook, Calm
  <1> QED
    BY <1>2, <1>4, <1>5, <1>6 DEF Next

LEMMA StepTrees ==
    CalmTrees /\ IInv /\ LoneInv /\ OneCallAtATime /\ OneCallAtATime' /\ [Next]_vars => CalmTrees'
  <1> SUFFICES ASSUME CalmTrees, Apart, [Next]_vars, Calm' PROVE Trees'
    BY DEF CalmTrees, Apart
  <1>1. /\ Still
        /\ UNCHANGED vars \/ Cancel \/ Exit \/ \E f \in Flows : Call(f) \/ Work(f) \/ Answer(f)
    BY CalmStep DEF CalmTrees, Apart, Still
  <1>2. CASE UNCHANGED vars
    BY <1>1, <1>2
    DEF vars, store, world, control, history, bounds, Still, Trees, TreesTask, AtRest, At, TreesCall,
        TreeAt, StateAt, BoxAt, Settled, Delivered, Tried, Blank, Place, Stage, Open, Unwritten
  <1>3. ASSUME NEW f \in Flows, Call(f) \/ Work(f) \/ Answer(f) PROVE Trees'
    BY <1>1, <1>3, TreesRun, TreesResume, TreesStart, TreesLoad, TreesRestate, TreesProposals,
       TreesLoop, TreesAnswers
    DEF Call, Work, ResumeStep
  <1> QED
    BY <1>1, <1>2, <1>3, TreesOutside
-----------------------------------------------------------------------------
\* The trees of a calm behaviour.
THEOREM TreesInvariance == Spec /\ []OneCallAtATime => []CalmTrees
  BY InitTrees, StepTrees, Invariance, LoneInvariance, PTL DEF Spec

\* When no call is under way, the tree a task works in holds what its
\* checkpoint says (workspace of runner.ts:150 to 239): the proposal while a
\* verification is due, the user's content otherwise.
THEOREM AtRestTreesMatch == Spec /\ []OneCallAtATime => [](Calm => WorkspaceAtRest)
  <1>1. CalmTrees => (Calm => WorkspaceAtRest)
    BY DEF CalmTrees, Trees, Settled, Tried, Blank, Place, WorkspaceAtRest
  <1> QED
    BY <1>1, TreesInvariance, PTL

\* A completed task that was to write has delivered its last proposal, and
\* that proposal passed a verification (complete, runner.ts:95).
THEOREM CompletionDelivers == Spec /\ []OneCallAtATime => [](Calm => CompletedDelivers)
  <1>1. IInv /\ LoneInv /\ CalmTrees => (Calm => CompletedDelivers)
    <2> SUFFICES ASSUME IInv, LoneInv, Trees, ck.state = "completed" PROVE Delivered
      BY DEF CalmTrees, CompletedDelivers, Delivered
    <2>1. CASE AtRest
      BY <2>1 DEF Trees, Settled
    <2>2. CASE ~AtRest
      <3>1. PICK f \in Flows : pc[f] /= "idle"
        BY <2>2 DEF AtRest, At
      <3>2. TreesCall(f) /\ CallOK(f) /\ Fits(pc[f], loc[f]) /\ pc[f] \in Steps
        BY <3>1 DEF Trees, LoneInv, IInv, FlowsOK
      <3>3. pc[f] \in {"load", "fail", "finishComplete"}
        BY <3>1, <3>2 DEF TreesCall, StateAt, CallOK, Fits, Open, Steps
      <3> QED
        BY <3>2, <3>3 DEF TreesCall, TreeAt, Settled, Loading, Ending
    <2> QED
      BY <2>1, <2>2
  <1> QED
    BY <1>1, Invariance, LoneInvariance, TreesInvariance, PTL
-----------------------------------------------------------------------------
\* The steps the contract does not see.
Quiet ==
    /\ ck'.mode = ck.mode /\ (ck'.state = ck.state \/ (Open /\ Open'))
    /\ tree'["repo"] = tree["repo"] /\ passed' = passed /\ boxed' = boxed

LEMMA QuietStutters == ASSUME Quiet PROVE UNCHANGED Contract!contract
  BY DEF Quiet, Open, Contract!contract

LEMMA Underway ==
    ASSUME Still, NEW f \in Flows, pc[f] \notin {"idle", "load", "fail", "finishComplete", "finishFail"}
    PROVE  Open /\ loc[f] = ck
  BY Holding DEF TreesCall, StateAt, CallOK, Fits, Open, Steps

\* The steps it sees, each in the words of the contract.
Isolated   == boxed /\ ck.mode \in Writes
Pending    == Open /\ Open' /\ ck'.mode = ck.mode /\ boxed' = boxed
RepoSame   == tree'["repo"] = tree["repo"]
PassedSame == passed' = passed

LEMMA AsSubmit ==
    ASSUME ck.state = "none", Open', RepoSame, PassedSame PROVE Contract!Next
  BY DEF Open, RepoSame, PassedSame, Contract!Next, Contract!Submit

LEMMA AsVet ==
    ASSUME Pending, RepoSame, NEW p \in {Clean} \cup {{d} : d \in Drafts}, passed' = passed \cup {p} PROVE Contract!Next
  BY DEF Open, Pending, RepoSame, Contract!Next, Contract!Vet, Contract!Pending

LEMMA AsTry ==
    ASSUME Pending, ~Isolated, tree["repo"] = Clean, NEW p \in {Clean} \cup {{d} : d \in Drafts},
           tree'["repo"] = p, PassedSame
    PROVE  Contract!Next
  BY DEF Open, Pending, Isolated, PassedSame, Contract!Next, Contract!Try, Contract!Pending

LEMMA AsUndo ==
    ASSUME Pending, ~Isolated, tree'["repo"] = Clean, PassedSame PROVE Contract!Next
  BY DEF Open, Pending, Isolated, PassedSame, Contract!Next, Contract!Undo, Contract!Pending

LEMMA AsDeliver ==
    ASSUME Pending, tree["repo"] = Clean, NEW p \in {Clean} \cup {{d} : d \in Drafts}, p \in passed,
           tree'["repo"] = p, PassedSame
    PROVE  Contract!Next
  BY DEF Open, Pending, PassedSame, Contract!Next, Contract!Deliver, Contract!Pending

LEMMA AsSucceed ==
    ASSUME Open, ck'.state = "completed", ck'.mode = ck.mode, boxed' = boxed,
           tree["repo"] \in passed \cup {Clean}, RepoSame, PassedSame
    PROVE  Contract!Next
  BY DEF Open, RepoSame, PassedSame, Contract!Next, Contract!Succeed

LEMMA AsGiveUp ==
    ASSUME Open, ck'.state \in {"failed", "cancelled"}, ck'.mode = ck.mode, boxed' = boxed,
           tree["repo"] = Clean, RepoSame, PassedSame
    PROVE  Contract!Next
  BY DEF Open, RepoSame, PassedSame, Contract!Next, Contract!GiveUp

LEMMA AsRetry ==
    ASSUME ck.state = "failed", Open', ck'.mode = ck.mode, boxed' = boxed, RepoSame, PassedSame
    PROVE  Contract!Next
  BY DEF Open, RepoSame, PassedSame, Contract!Next, Contract!Retry

Abides == Contract!Next \/ UNCHANGED Contract!contract

\* The steps that only work on an open task: they save a checkpoint of the same
\* task, or none, and touch neither the repository nor what passed.
LEMMA WorkQuiet ==
    ASSUME Still, Open, RepoSame, PassedSame,
           ck'.state \notin {"none", "completed", "failed", "cancelled"}, ck'.mode = ck.mode
    PROVE  Abides
  BY QuietStutters DEF Still, Quiet, Open, RepoSame, PassedSame, Abides

LEMMA RestQuiet ==
    ASSUME Still, UNCHANGED ck, RepoSame, PassedSame PROVE Abides
  BY QuietStutters DEF Still, Quiet, RepoSame, PassedSame, Abides

LEMMA ThrowAbides == ASSUME Still, NEW f \in Flows, Throw(f) PROVE Abides
  BY RestQuiet DEF Throw, history, RepoSame, PassedSame

\* Every checkpoint a step writes is made from the one it works on.
LEMMA Fields ==
    ASSUME NEW c \in Checkpoint, NEW s, NEW t, t = To(c, s)
    PROVE  /\ t.state = s /\ t.mode = c.mode
           /\ \A u : [t EXCEPT !.use = u].state = s /\ [t EXCEPT !.use = u].mode = c.mode
           /\ [t EXCEPT !.txn = 0].state = s /\ [t EXCEPT !.txn = 0].mode = c.mode
           /\ \A p, u : /\ [t EXCEPT !.txn = p, !.use = u].state = s
                        /\ [t EXCEPT !.txn = p, !.use = u].mode = c.mode
                        /\ [t EXCEPT !.prop = p, !.use = u].state = s
                        /\ [t EXCEPT !.prop = p, !.use = u].mode = c.mode
           /\ \A p, q : /\ [t EXCEPT !.plan = p, !.prop = q].state = s
                        /\ [t EXCEPT !.plan = p, !.prop = q].mode = c.mode
           /\ \A a, p, u : /\ [t EXCEPT !.attempt = a, !.prop = p, !.use = u].state = s
                           /\ [t EXCEPT !.attempt = a, !.prop = p, !.use = u].mode = c.mode
  BY DEF Checkpoint, To

LEMMA PauseAbides ==
    ASSUME Still, Open, NEW f \in Flows, NEW c \in Checkpoint, Pause(f, c), c.mode = ck.mode,
           RepoSame, PassedSame
    PROVE  Abides
  BY ToKeeps, WorkQuiet DEF Pause

LEMMA BudgetAbides ==
    ASSUME Still, NEW f \in Flows, pc[f] \in {"mutate", "verify", "repair"}, PauseForBudget(f)
    PROVE  Abides
  <1>1. Open /\ loc[f] = ck /\ ck \in Checkpoint
    BY Underway, Holding
  <1>2. PICK t : t = To(ck, "paused")
    OBVIOUS
  <1>3. ck'.state = "paused" /\ ck'.mode = ck.mode
    BY <1>1, <1>2, Fields DEF PauseForBudget
  <1> QED
    BY <1>1, <1>3, WorkQuiet DEF PauseForBudget, world, history, RepoSame, PassedSame

\* The steps of start that the contract does not see, and the first one it does.
LEMMA ContractRun == ASSUME Still, NEW f \in Flows, Run(f) PROVE Abides
  <1>1. PICK m \in Modes : Save(f, [NoCk EXCEPT !.state = "created", !.mode = m])
    BY DEF Run
  <1>2. ck = NoCk /\ ck.state = "none" /\ ck'.state = "created"
    BY <1>1 DEF Run, Save, NoCk
  <1> QED
    BY <1>2, AsSubmit DEF Run, world, history, Open, RepoSame, PassedSame, Abides

LEMMA ContractStart ==
    ASSUME Still, NEW f \in Flows, StartStep(f) PROVE Abides
  <1>1. /\ pc[f] \in {"launch", "ensure", "context", "gathered", "plan"} /\ PassedSame
        /\ tree \in [{"repo", "sandbox"} -> Contents] /\ ck \in Checkpoint
    BY Holding DEF StartStep, Launch, Ensure, Context, Gathered, Plan, Throw, On, At, history, PassedSame
  <1>2. Open /\ loc[f] = ck
    BY <1>1, Underway
  <1>3. CASE Launch(f)
    BY <1>1, <1>2, <1>3, WorkQuiet DEF Launch, Save, world, RepoSame, Checkpoint, Open
  <1>4. CASE Ensure(f)
    <2>1. CASE Throw(f)
      BY <2>1, ThrowAbides
    <2>2. CASE ~Throw(f)
      BY <1>1, <1>2, <1>4, <2>2, WorkQuiet DEF Ensure, Save, RepoSame, Checkpoint, Open
    <2> QED
      BY <2>1, <2>2
  <1>5. CASE Context(f)
    BY <1>1, <1>2, <1>5, ToKeeps, WorkQuiet DEF Context, SetState, Save, world, RepoSame, Open
  <1>6. CASE Gathered(f)
    <2>1. RepoSame
      BY <1>6 DEF Gathered, RepoSame
    <2>2. CASE Pause(f, loc[f])
      BY <1>1, <1>2, <2>1, <2>2, PauseAbides
    <2>3. CASE ~Pause(f, loc[f])
      BY <1>1, <1>2, <1>6, <2>1, <2>3, ToKeeps, WorkQuiet DEF Gathered, SetState, Save, Open
    <2> QED
      BY <2>2, <2>3
  <1>7. CASE Plan(f)
    <2>1. CASE Throw(f)
      BY <2>1, ThrowAbides
    <2>2. CASE ~Throw(f)
      <3>1. PICK c : c = [ck EXCEPT !.plan = Fresh]
        OBVIOUS
      <3>2. c \in Checkpoint /\ c.state = ck.state /\ c.mode = ck.mode
        BY <1>1, <3>1, Holding, FreshDraft DEF Checkpoint
      <3>3. RepoSame /\ (Pause(f, c) \/ Save(f, c))
        BY <1>2, <1>7, <2>2, <3>1 DEF Plan, RepoSame
      <3> QED
        BY <1>1, <1>2, <3>2, <3>3, PauseAbides, WorkQuiet DEF Save, Open
    <2> QED
      BY <2>1, <2>2
  <1> QED
    BY <1>3, <1>4, <1>5, <1>6, <1>7 DEF StartStep

LEMMA ContractResume == ASSUME Still, NEW f \in Flows, Resume(f) PROVE Abides
  BY RestQuiet DEF Resume, world, RepoSame, PassedSame

\* A retry takes the task up again.
LEMMA ContractLoad == ASSUME Still, NEW f \in Flows, Load(f) PROVE Abides
  <1>1. pc[f] = "load" /\ loc[f] = ck /\ ck \in Checkpoint /\ TreesTask
    BY Holding DEF Load, On, At, CallOK
  <1>2. CASE Throw(f)
    BY <1>2, ThrowAbides
  <1>3. CASE UNCHANGED <<ck, tree, history>>
    BY <1>3, RestQuiet DEF history, RepoSame, PassedSame
  <1>4. CASE /\ ck.state = "failed" /\ Retriable
             /\ Restart(f, [To(loc[f], "contextualizing") EXCEPT !.use = use', !.mode = "auto"])
    <2>1. PICK t : t = To(ck, "contextualizing")
      OBVIOUS
    <2>2. t \in Checkpoint /\ t.state = "contextualizing"
      BY <1>1, <2>1, ToFields DEF TaskState
    <2>3. ck'.state = "contextualizing" /\ ck'.mode = "auto" /\ ck.mode = "auto"
      BY <1>1, <1>4, <2>1, <2>2 DEF Restart, Save, Checkpoint, Retriable, TreesTask
    <2> QED
      BY <1>4, <2>3, AsRetry DEF Restart, Still, Open, RepoSame, PassedSame, Abides
  <1> QED
    BY <1>1, <1>2, <1>3, <1>4 DEF Load, flags

LEMMA ContractRestate == ASSUME Still, NEW f \in Flows, Restate(f) PROVE Abides
  <1>1. pc[f] = "restate" /\ ck \in Checkpoint /\ Open /\ loc[f] = ck /\ Sound(ck)
    BY Underway, Holding, Hand DEF Restate, On, At, Still
  <1>2. PICK c : c = Restated(ck)
    OBVIOUS
  <1>3. c.mode = ck.mode
    BY <1>1, <1>2, RestatedKeeps DEF Sound, Ready
  <1>4. ck' = c /\ RepoSame /\ PassedSame
    BY <1>1, <1>2 DEF Restate, Restart, Detach, Save, history, RepoSame, PassedSame
  <1>5. c.state \in {"created", "contextualizing", "planning", "awaiting_approval"} \cup Executing
    BY <1>1, <1>2 DEF Restate
  <1> QED
    BY <1>1, <1>3, <1>4, <1>5, WorkQuiet DEF Executing

LEMMA ContractProposals ==
    ASSUME Still, NEW f \in Flows, Propose(f) \/ Repropose(f) \/ Replan(f) PROVE Abides
  <1>1. pc[f] \in {"propose", "rpropose", "repropose", "replan"}
    BY DEF Propose, Repropose, Replan, On, At
  <1>2. ck \in Checkpoint /\ Open /\ loc[f] = ck
    BY <1>1, Underway, Holding
  <1>3. CASE Throw(f)
    BY <1>3, ThrowAbides
  <1>4. CASE ~Throw(f)
    <2>1. RepoSame /\ PassedSame
      BY <1>4 DEF Propose, Repropose, Replan, world, history, RepoSame, PassedSame
    <2>2. ASSUME NEW s \in {"mutating", "awaiting_approval"}, NEW t, t = To(ck, s),
                 \/ \E p, u : ck' = [t EXCEPT !.prop = p, !.use = u]
                 \/ \E p, q : ck' = [t EXCEPT !.plan = p, !.prop = q]
                 \/ \E a, p, u : ck' = [t EXCEPT !.attempt = a, !.prop = p, !.use = u]
          PROVE  Abides
      <3>1. t \in Checkpoint /\ t.state = s /\ t.mode = ck.mode
        <4>1. To(ck, s) \in Checkpoint /\ To(ck, s).state = s /\ To(ck, s).mode = ck.mode
          BY <1>2, ToFields, ToKeeps DEF TaskState
        <4> QED
          BY <2>2, <4>1
      <3>2. ck'.state = s /\ ck'.mode = ck.mode
        BY <2>2, <3>1 DEF Checkpoint
      <3> QED
        BY <1>2, <2>1, <3>2, WorkQuiet
    <2>3. PICK t : t = To(ck, "mutating")
      OBVIOUS
    <2>4. PICK u : u = To(ck, "awaiting_approval")
      OBVIOUS
    <2>5. CASE Propose(f)
      <3>1. ck' = [u EXCEPT !.prop = Fresh, !.use = use]
        BY <1>2, <1>4, <2>4, <2>5 DEF Propose, Save
      <3> QED
        BY <2>2, <2>4, <3>1
    <2>6. CASE Repropose(f)
      <3>1. ck' = [t EXCEPT !.attempt = NextAttempt(ck), !.prop = Fresh, !.use = use]
        BY <1>2, <1>4, <2>3, <2>6 DEF Repropose, Save
      <3> QED
        BY <2>2, <2>3, <3>1
    <2>7. CASE Replan(f)
      <3>1. ck' = [u EXCEPT !.plan = Fresh, !.prop = Fresh]
        BY <1>2, <1>4, <2>4, <2>7 DEF Replan, Save
      <3> QED
        BY <2>2, <2>4, <3>1
    <2> QED
      BY <2>5, <2>6, <2>7
  <1> QED
    BY <1>3, <1>4

\* A refusal to start cancels the task, with the repository as it was.
LEMMA ContractAnswers == ASSUME Still, NEW f \in Flows, Answer(f) PROVE Abides
  <1>1. pc[f] \in {"approve", "reapprove", "rapprove"}
    BY DEF Answer, Approve, Reapprove, ReapproveOnResume, On, At
  <1>2. ck \in Checkpoint /\ Open /\ loc[f] = ck /\ Blank
    BY <1>1, Underway, Holding DEF TreesCall, TreeAt, Trying, Loading, Ending
  <1>3. RepoSame /\ PassedSame
    BY DEF Answer, Approve, Reapprove, ReapproveOnResume, Detach, RepoSame, PassedSame
  <1>4. CASE Pause(f, ck)
    BY <1>2, <1>3, <1>4, PauseAbides
  <1>5. CASE ck' = To(ck, "mutating")
    BY <1>2, <1>3, <1>5, ToKeeps, WorkQuiet
  <1>6. CASE ck' = To(ck, "cancelled")
    BY <1>2, <1>3, <1>6, ToKeeps, AsGiveUp DEF Still, Blank, Abides
  <1> QED
    BY <1>2, <1>4, <1>5, <1>6
    DEF Answer, Approve, Reapprove, ReapproveOnResume, Detach, SetState, Save

\* The steps of the mutation loop that leave the repository alone.
LEMMA ContractMoves ==
    ASSUME Still, NEW f \in Flows, Mutate(f) \/ Review(f) \/ Accept(f) \/ Promote(f) PROVE Abides
  <1>1. CASE Throw(f)
    BY <1>1, ThrowAbides
  <1>2. CASE Mutate(f) /\ PauseForBudget(f)
    BY <1>2, BudgetAbides DEF Mutate, On, At
  <1>3. CASE UNCHANGED <<ck, world, history>>
    BY <1>3, RestQuiet DEF world, history, RepoSame, PassedSame
  <1> QED
    BY <1>1, <1>2, <1>3 DEF Mutate, Review, Accept, Promote

LEMMA ContractSaves ==
    ASSUME Still, NEW f \in Flows,
           Record(f) \/ Count(f) \/ Settle(f) \/ Decide(f) \/ Rework(f) \/ Withdraw(f) \/ Repair(f)
    PROVE  Abides
  <1>1. pc[f] \in {"record", "count", "settle", "decide", "restored", "retracted", "repair"}
    BY DEF Record, Count, Settle, Decide, Rework, Withdraw, Repair, On, At
  <1>2. ck \in Checkpoint /\ Open /\ loc[f] = ck /\ Fits(pc[f], ck)
    BY <1>1, Underway, Holding
  <1>3. CASE Repair(f) /\ PauseForBudget(f)
    BY <1>3, BudgetAbides DEF Repair, On, At
  <1>4. CASE UNCHANGED <<ck, tree, history>>
    BY <1>4, RestQuiet DEF history, RepoSame, PassedSame
  <1>5. CASE Settle(f)
    <2>1. RepoSame /\ PassedSame
      BY <1>5 DEF Settle, history, RepoSame, PassedSame
    <2>2. PICK u : u = use
      OBVIOUS
    <2>3. PICK t : t = To(ck, "verifying")
      OBVIOUS
    <2>4. PICK c : c = [t EXCEPT !.txn = ck.prop, !.use = u]
      OBVIOUS
    <2>5. c.state = "verifying" /\ c.mode = ck.mode
      BY <1>2, <2>3, <2>4, Fields
    <2>6. ck' = c \/ ck' = To(c, "paused")
      BY <1>2, <1>5, <2>2, <2>3, <2>4 DEF Settle, Pause, Save
    <2>7. To(c, "paused").state = "paused" /\ To(c, "paused").mode = ck.mode
      BY <1>2, <2>3, <2>4, <2>5 DEF To, Checkpoint
    <2> QED
      BY <1>2, <2>1, <2>5, <2>6, <2>7, WorkQuiet
  <1>6. CASE Decide(f) /\ ~UNCHANGED ck
    BY <1>2, <1>6, ToKeeps, WorkQuiet DEF Decide, SetState, Save, world, history, RepoSame, PassedSame
  <1>7. CASE Rework(f) \/ Withdraw(f)
    <2>1. RepoSame /\ PassedSame
      BY <1>7 DEF Rework, Withdraw, world, history, RepoSame, PassedSame
    <2>2. PICK t : t = To(ck, "repairing")
      OBVIOUS
    <2>3. PICK c : c = [t EXCEPT !.txn = 0]
      OBVIOUS
    <2>4. c \in Checkpoint /\ c.state = "repairing" /\ c.mode = ck.mode
      <3>1. t \in Checkpoint /\ t.state = "repairing" /\ t.mode = ck.mode
        BY <1>2, <2>2, ToFields, ToKeeps DEF TaskState
      <3> QED
        BY <2>3, <3>1 DEF Checkpoint
    <2>5. ck' = c \/ Pause(f, c)
      BY <1>2, <1>7, <2>2, <2>3 DEF Rework, Withdraw, Save
    <2> QED
      BY <1>2, <2>1, <2>4, <2>5, WorkQuiet, PauseAbides
  <1>8. CASE \E u : Save(f, [To(loc[f], "replanning") EXCEPT !.use = u]) /\ UNCHANGED <<world, history>>
    <2>1. PICK t : t = To(ck, "replanning")
      OBVIOUS
    <2>2. ck'.state = "replanning" /\ ck'.mode = ck.mode
      BY <1>2, <1>8, <2>1, Fields DEF Save
    <2> QED
      BY <1>2, <1>8, <2>2, WorkQuiet DEF world, history, RepoSame, PassedSame
  <1> QED
    BY <1>3, <1>4, <1>5, <1>6, <1>7, <1>8 DEF Record, Count, Decide, Repair, world

\* The steps that try a proposal, vet it, take it back or deliver it.
LEMMA ContractApply == ASSUME Still, NEW f \in Flows, Apply(f) PROVE Abides
  <1>1. /\ pc[f] = "apply" /\ ck \in Checkpoint /\ Open /\ loc[f] = ck /\ Blank /\ ck.prop \in Drafts
        /\ (boxed /\ ck.mode \in Writes => ck.sbx) /\ tree \in [{"repo", "sandbox"} -> Contents]
        /\ boxed' = boxed /\ UNCHANGED ck /\ PassedSame
    BY Underway, Holding
    DEF Apply, On, At, TreesCall, TreeAt, BoxAt, Fits, Sound, Ready, Stage, Executing, Checkpoint, Trying,
        Loading, Ending, Asleep, Still, PassedSame
  <1>2. CASE ck.sbx
    <2>1. RepoSame
      BY <1>1, <1>2 DEF Apply, Applied, Root, RepoSame
    <2> QED
      BY <1>1, <2>1, RestQuiet
  <1>3. CASE ~ck.sbx
    <2>1. tree'["repo"] = {ck.prop} /\ tree["repo"] = Clean /\ ~Isolated
      BY <1>1, <1>3 DEF Apply, Applied, Root, Blank, Clean, Place, Isolated
    <2> QED
      BY <1>1, <2>1, AsTry DEF Pending, Open, Abides
  <1> QED
    BY <1>2, <1>3

LEMMA ContractRestore == ASSUME Still, NEW f \in Flows, Restore(f) PROVE Abides
  <1>1. /\ pc[f] \in {"restore", "retract"} /\ Open /\ loc[f] = ck /\ Tried
        /\ (boxed /\ ck.mode \in Writes => ck.sbx) /\ tree \in [{"repo", "sandbox"} -> Contents]
        /\ boxed' = boxed /\ UNCHANGED ck /\ PassedSame
    BY Underway, Holding
    DEF Restore, On, At, TreesCall, TreeAt, BoxAt, Trying, Asleep, history, Still, PassedSame
  <1>2. CASE ck.sbx
    <2>1. RepoSame
      BY <1>1, <1>2 DEF Restore, Root, RepoSame
    <2> QED
      BY <1>1, <2>1, RestQuiet
  <1>3. CASE ~ck.sbx
    <2>1. tree'["repo"] = Clean /\ ~Isolated
      BY <1>1, <1>3, RevertedIs DEF Restore, Workspace, Tried, Place, Root, Isolated
    <2> QED
      BY <1>1, <2>1, AsUndo DEF Pending, Open, Abides
  <1> QED
    BY <1>2, <1>3

LEMMA ContractVerify == ASSUME Still, NEW f \in Flows, Verify(f) PROVE Abides
  <1>1. /\ pc[f] = "verify" /\ ck \in Checkpoint /\ Open /\ loc[f] = ck /\ Tried
        /\ ck.prop \in Drafts
    BY Underway, Holding
    DEF Verify, On, At, TreesCall, TreeAt, Fits, Sound, Ready, Stage, Executing, Checkpoint, Trying, Loading,
        Ending
  <1>2. CASE PauseForBudget(f)
    BY <1>1, <1>2, BudgetAbides
  <1>3. CASE Throw(f)
    BY <1>3, ThrowAbides
  <1>4. CASE UNCHANGED <<ck, world, history>>
    BY <1>4, RestQuiet DEF world, history, RepoSame, PassedSame
  <1>5. CASE /\ passed' = passed \cup {Workspace(f)} /\ UNCHANGED tree
             /\ Pause(f, loc[f]) \/ UNCHANGED ck
    <2>1. Workspace(f) = {ck.prop}
      BY <1>1 DEF Workspace, Root, Tried, Place
    <2>2. Pending
      BY <1>1, <1>5, ToKeeps DEF Pause, Pending, Open, Still
    <2> QED
      BY <1>1, <1>5, <2>1, <2>2, AsVet DEF RepoSame, Abides
  <1> QED
    BY <1>2, <1>3, <1>4, <1>5 DEF Verify

LEMMA ContractDeliver == ASSUME Still, NEW f \in Flows, Deliver(f) PROVE Abides
  <1>1. /\ pc[f] = "deliver" /\ Open /\ loc[f] = ck /\ Tried /\ ck.sbx /\ {ck.prop} \in passed
        /\ ck.prop \in Drafts /\ tree \in [{"repo", "sandbox"} -> Contents]
        /\ boxed' = boxed /\ UNCHANGED ck /\ PassedSame
    BY Underway, Holding
    DEF Deliver, On, At, TreesCall, TreeAt, StateAt, Fits, Sound, Ready, Stage, Executing, Checkpoint, Trying,
        Passing, Loading, Ending, Still, PassedSame
  <1>2. tree["repo"] = Clean /\ tree'["repo"] = {ck.prop}
    BY <1>1 DEF Deliver, Applied, Tried, Clean
  <1> QED
    BY <1>1, <1>2, AsDeliver DEF Pending, Open, Abides

\* The end of a task.
LEMMA ContractEnd ==
    ASSUME Still, NEW f \in Flows, Complete(f) \/ FinishComplete(f) \/ Fail(f) \/ FinishFail(f)
    PROVE  Abides
  <1>1. CASE Throw(f)
    BY <1>1, ThrowAbides
  <1>2. CASE FinishComplete(f) \/ FinishFail(f)
    BY <1>2, RestQuiet DEF FinishComplete, FinishFail, history, RepoSame, PassedSame
  <1>3. CASE Complete(f) /\ ~Throw(f)
    <2>1. ck \in Checkpoint /\ Open /\ loc[f] = ck /\ Delivered
      BY <1>3, Underway, Holding
      DEF Complete, On, At, TreesCall, TreeAt, Trying, Loading, Ending
    <2>2. ck' = To(ck, "completed") /\ RepoSame /\ PassedSame /\ boxed' = boxed
      BY <1>3, <2>1 DEF Complete, SetState, Save, world, history, RepoSame, PassedSame, Still
    <2> QED
      BY <2>1, <2>2, ToKeeps, AsSucceed DEF Delivered, Abides
  <1>4. CASE Fail(f) /\ ~Throw(f)
    <2>1. pc[f] = "fail" /\ loc[f] \in Checkpoint /\ TreesCall(f)
      BY <1>4, Holding DEF Fail, On, At
    <2>2. /\ ck' = To(loc[f], "failed") /\ RepoSame /\ PassedSame /\ boxed' = boxed
          /\ canTransition(loc[f].state, "failed")
      BY <1>4 DEF Fail, Save, world, history, RepoSame, PassedSame, Still
    <2>3. loc[f].state /= "completed"
      BY <2>2 DEF canTransition, Transitions
    <2>4. /\ Blank /\ ck.state \notin {"none", "completed", "cancelled"}
          /\ ck'.mode = ck.mode /\ ck'.state = "failed"
      BY <2>1, <2>2, <2>3, ToKeeps DEF TreesCall, TreeAt
    <2>5. CASE ck.state = "failed"
      BY <2>2, <2>4, <2>5, QuietStutters DEF Quiet, RepoSame, PassedSame, Abides
    <2>6. CASE ck.state /= "failed"
      BY <2>2, <2>4, <2>6, AsGiveUp DEF Open, Blank, Abides
    <2> QED
      BY <2>5, <2>6
  <1> QED
    BY <1>1, <1>2, <1>3, <1>4

LEMMA ContractOutside == ASSUME Still, Cancel \/ Exit \/ UNCHANGED vars PROVE Abides
  BY RestQuiet DEF Cancel, Exit, NewProcess, vars, world, history, RepoSame, PassedSame

\* Every step of a calm behaviour is a step of the contract, or a stutter.
LEMMA StepContract ==
    CalmTrees /\ IInv /\ LoneInv /\ OneCallAtATime /\ OneCallAtATime' /\ Calm' /\ [Next]_vars
       => [Contract!Next]_(Contract!contract)
  <1> SUFFICES ASSUME CalmTrees, Apart, Calm', [Next]_vars PROVE Abides
    BY DEF Apart, Abides
  <1>1. /\ Still
        /\ UNCHANGED vars \/ Cancel \/ Exit \/ \E f \in Flows : Call(f) \/ Work(f) \/ Answer(f)
    BY CalmStep DEF CalmTrees, Apart, Still
  <1>2. ASSUME NEW f \in Flows, LoopStep(f) PROVE Abides
    BY <1>1, <1>2, ContractMoves, ContractSaves, ContractProposals, ContractApply, ContractRestore,
       ContractVerify, ContractDeliver, ContractEnd
    DEF LoopStep
  <1>3. ASSUME NEW f \in Flows, Call(f) \/ Work(f) \/ Answer(f) PROVE Abides
    BY <1>1, <1>2, <1>3, ContractRun, ContractResume, ContractStart, ContractLoad, ContractRestate,
       ContractProposals, ContractAnswers
    DEF Call, Work, ResumeStep
  <1> QED
    BY <1>1, <1>3, ContractOutside

LEMMA InitContract == Init => Contract!Init
  BY DEF Init, NoCk, Writes, Contract!Init

\* The runner implements the contract (TaskContract): from a submission to its
\* verdict, whatever repairs, reviews, new plans, cancellations, pauses,
\* restarts and retries lie in between, a task leaves in the repository what
\* passed a verification, or nothing; an isolated one never shows anything else.
THEOREM RunnerImplementsContract ==
    Spec /\ []OneCallAtATime /\ []Calm => AllOrNothing
  BY InitContract, StepContract, Invariance, LoneInvariance, TreesInvariance, PTL
  DEF Spec, AllOrNothing, Contract!Spec

\* Where nothing can interfere, nothing is assumed of the behaviour: one caller
\* and no crash, fault or foreign edit give the contract outright.
THEOREM LoneCallerKeepsContract ==
    ASSUME NEW f, Flows = {f}, MaxCrashes = 0, MaxFaults = 0, MaxEdits = 0
    PROVE  Spec => AllOrNothing /\ []WorkspaceAtRest /\ []CompletedDelivers
  <1>1. Init => Calm
    BY DEF Init, Calm
  <1>2. Calm /\ [Next]_vars => Calm'
    <2> SUFFICES ASSUME Calm, [Next]_vars PROVE UNCHANGED bounds
      BY DEF Calm, bounds
    <2>1. ~Crash /\ ~UserEdit /\ \A g \in Flows : ~Fault(g) /\ ~Overlook(g)
      BY DEF Crash, UserEdit, Fault, Overlook, Calm
    <2>2. CASE UNCHANGED vars \/ Cancel \/ Exit
      BY <2>2 DEF vars, Cancel, Exit, NewProcess, bounds
    <2>3. ASSUME NEW g \in Flows, Call(g) \/ Work(g) \/ Answer(g) PROVE UNCHANGED bounds
      BY <2>3, OnKeepsBounds
    <2> QED
      BY <2>1, <2>2, <2>3 DEF Next
  <1>3. Spec => []Calm
    BY <1>1, <1>2, PTL DEF Spec
  <1> QED
    BY <1>3, LoneCaller, RunnerImplementsContract, AtRestTreesMatch, CompletionDelivers, PTL
=============================================================================
