-------------------------- MODULE TaskRunnerProofs --------------------------
(***************************************************************************)
(* Whatever the number of overlapping calls, of crashes, of failing calls  *)
(* and of user edits: the checkpoint always names what resume needs, and   *)
(* no tree is changed under a plan nobody approved.  As long as no two     *)
(* calls of run or resume overlap: an autonomous execution stays within    *)
(* its budget of mutations, and a cancelled call changes one tree at most. *)
(***************************************************************************)
EXTENDS TaskGuarantees, FiniteSetTheorems, TLAPS

\* Where the checkpoint of a call must stand at each step that writes a new one.
Fits(p, c) ==
    /\ p \in {"mutate", "apply", "record", "count", "settle"} => c.state = "mutating"
    /\ p \in {"count", "settle"} => c.prop \in Drafts /\ txns[c.prop] /= "none"
    /\ p \in {"verify", "decide", "restore", "restored"} => c.state = "verifying"
    /\ p = "review" => c.state = "reviewing"
    /\ p \in {"retract", "retracted", "verified", "promote", "deliver"} =>
           c.state \in {"verifying", "reviewing"}
    /\ p \in {"decide", "review", "restore", "restored", "retract", "retracted"} => runs
    /\ p \in {"repair", "repropose"} => c.state = "repairing"
    /\ p = "replan" => c.state = "replanning"
    /\ p \in {"approve", "rapprove", "reapprove"} => c.state = "awaiting_approval"
    /\ p = "plan" => c.state = "planning"
    /\ p \in {"propose", "rpropose"} => c.state = "planning" /\ c.plan /= 0

\* Every copy of the checkpoint, durable or held by a call, is well formed,
\* ready to be resumed from, and at work only under an approved plan.
Sound(c) ==
    /\ c \in Checkpoint
    /\ Ready(c)
    /\ Stage(c) \in Executing => c.plan \in approved

SharedOK ==
    /\ exec \in Usage /\ use \in Usage
    /\ outcome \in {"none", "success", "failure"}
    /\ txns \in [Drafts -> {"none", "applied", "rolled_back", "verified"}]
    /\ runs \in BOOLEAN /\ drafts \in Drafts \cup {0}
    /\ sbx \in {"none", "running", "paused", "destroyed"}
    /\ tree \in [{"repo", "sandbox"} -> Contents]
    /\ running \in BOOLEAN /\ cancel \in BOOLEAN /\ reviewFail \in BOOLEAN
    /\ boxed \in BOOLEAN /\ approved \subseteq Drafts /\ passed \subseteq Contents /\ late \in Nat
    /\ crashes \in Nat /\ faults \in Nat /\ edits \in Nat

FlowsOK ==
    /\ pc \in [Flows -> Steps] /\ kind \in [Flows -> Kinds]
    /\ loc \in [Flows -> Checkpoint] /\ base \in [Flows -> Checkpoint]
    /\ \A f \in Flows : Sound(loc[f]) /\ Sound(base[f]) /\ Fits(pc[f], loc[f])

IInv == SharedOK /\ Sound(ck) /\ FlowsOK
-----------------------------------------------------------------------------
\* The ids a model call hands out are ids, also when they have run out.
LEMMA FreshDraft == ASSUME SharedOK PROVE Fresh \in Drafts
  BY BoundsAssumption DEF SharedOK, Fresh, Drafts

\* What setState changes in a checkpoint, and what it keeps.
LEMMA ToFields ==
    ASSUME NEW c \in Checkpoint, NEW s \in TaskState, s = "paused" => c.state \in Resumable
    PROVE  /\ To(c, s) \in Checkpoint /\ To(c, s).state = s
           /\ To(c, s).resume = IF s = "paused" THEN c.state ELSE "none"
           /\ To(c, s).plan = c.plan /\ To(c, s).prop = c.prop /\ To(c, s).txn = c.txn
           /\ To(c, s).use = c.use /\ To(c, s).attempt = c.attempt
  BY DEF Checkpoint, To

\* A sound checkpoint moved to a state that needs nothing more is sound.
LEMMA ToQuiet ==
    ASSUME NEW c, Sound(c), NEW s \in TaskState,
           s \notin Executing \cup {"awaiting_approval", "paused"}
    PROVE  Sound(To(c, s)) /\ To(c, s).state = s /\ To(c, s).plan = c.plan
  BY ZenonT(60) DEF Sound, Checkpoint, Ready, Stage, To, TaskState, Executing

\* The table pauses a task only where resume can take it up.
LEMMA PausedIsResumable ==
    ASSUME NEW s \in TaskState, canTransition(s, "paused") PROVE s \in Resumable
  BY DEF TaskState, canTransition, Transitions, Resumable, Executing

\* A pause keeps the stage, and with it all that the stage needs.
LEMMA ToPaused ==
    ASSUME NEW c, Sound(c), canTransition(c.state, "paused")
    PROVE  Sound(To(c, "paused"))
  <1>1. c.state \in TaskState
    BY DEF Sound, Checkpoint, canTransition, Transitions, TaskState
  <1>2. c.state \in Resumable
    BY <1>1, PausedIsResumable
  <1> QED
    BY ZenonT(60), <1>2 DEF Sound, Checkpoint, Ready, Stage, To, TaskState, Resumable, Executing

\* Going on with the same plan and proposal under an approved plan.
LEMMA ToMutating ==
    ASSUME NEW c, Sound(c), c.plan \in approved,
           c.state \in {"awaiting_approval", "repairing", "replanning"}
    PROVE  Sound(To(c, "mutating")) /\ To(c, "mutating").state = "mutating"
  BY DEF Sound, Checkpoint, Ready, Stage, To, TaskState, Executing
-----------------------------------------------------------------------------
\* What a step adds to the records of the past, it never takes back.
Grows ==
    /\ \A d \in Drafts : txns[d] /= "none" => txns'[d] /= "none"
    /\ runs => runs'
    /\ approved \subseteq approved'

\* So a checkpoint that was sound still is.
LEMMA SoundStays ==
    ASSUME NEW c, Sound(c), Grows PROVE Sound(c)'
  BY DEF Sound, Checkpoint, Ready, Stage, Grows, Drafts

\* A step of one call leaves the other calls where they were.
Only(f) ==
    \A g \in Flows \ {f} :
        pc'[g] = pc[g] /\ kind'[g] = kind[g] /\ loc'[g] = loc[g] /\ base'[g] = base[g]

Shape ==
    /\ pc' \in [Flows -> Steps] /\ kind' \in [Flows -> Kinds]
    /\ DOMAIN loc' = Flows /\ DOMAIN base' = Flows
    /\ loc' = [g \in Flows |-> loc'[g]] /\ base' = [g \in Flows |-> base'[g]]

\* A step of one call keeps the invariant if it does so for the shared
\* variables, the durable checkpoint and its own.
LEMMA OneFlow ==
    ASSUME IInv, NEW f \in Flows, Only(f), Shape, Grows, SharedOK', Sound(ck)',
           Sound(loc[f])', Sound(base[f])', Fits(pc[f], loc[f])'
    PROVE  IInv'
  <1>1. \A g \in Flows : Sound(loc[g])' /\ Sound(base[g])' /\ Fits(pc[g], loc[g])'
    <2> SUFFICES ASSUME NEW g \in Flows, g /= f
                 PROVE  Sound(loc[g])' /\ Sound(base[g])' /\ Fits(pc[g], loc[g])'
      OBVIOUS
    <2>1. Sound(loc[g]) /\ Sound(base[g]) /\ Fits(pc[g], loc[g])
      BY DEF IInv, FlowsOK
    <2>2. pc'[g] = pc[g] /\ loc'[g] = loc[g] /\ base'[g] = base[g]
      BY DEF Only
    <2>3. Sound(loc[g])' /\ Sound(base[g])'
      BY <2>1, <2>2, SoundStays
    <2>4. Fits(pc[g], loc[g])'
      BY <2>1, <2>2 DEF Fits, Grows
    <2> QED
      BY <2>3, <2>4
  <1>2. loc' \in [Flows -> Checkpoint] /\ base' \in [Flows -> Checkpoint]
    BY <1>1 DEF Shape, Sound
  <1> QED
    BY <1>1, <1>2 DEF IInv, FlowsOK, Shape

-----------------------------------------------------------------------------
LEMMA NoCkSound == Sound(NoCk)
  BY DEF Sound, Checkpoint, NoCk, NoUse, Usage, Ready, Stage, Executing

\* What the invariant says of the call that takes the step.
LEMMA Mine ==
    ASSUME IInv, NEW f \in Flows
    PROVE  /\ Sound(ck) /\ Sound(loc[f]) /\ Sound(base[f]) /\ Fits(pc[f], loc[f])
           /\ loc[f] \in Checkpoint /\ pc[f] \in Steps /\ kind[f] \in Kinds
           /\ pc \in [Flows -> Steps] /\ SharedOK
  BY DEF IInv, FlowsOK

\* A call that ends leaves nothing behind.
LEMMA ReturnEnds ==
    ASSUME IInv, NEW f \in Flows, Return(f), Grows
    PROVE  /\ Sound(loc[f])' /\ Sound(base[f])' /\ Fits(pc[f], loc[f])'
           /\ Only(f) /\ Shape /\ running' \in BOOLEAN
  <1>1. loc'[f] = NoCk /\ base'[f] = NoCk /\ pc'[f] = "idle"
    BY DEF Return, Goto, IInv, FlowsOK
  <1>2. Sound(NoCk)'
    BY NoCkSound, SoundStays
  <1>3. Only(f) /\ Shape /\ running' \in BOOLEAN
    BY DEF Return, Goto, Only, Shape, IInv, FlowsOK, SharedOK, Steps, Kinds
  <1> QED
    BY <1>1, <1>2, <1>3 DEF Fits

\* An error leads to fail or out of the call; the records stay as they are.
LEMMA ThrowKeeps ==
    ASSUME IInv, NEW f \in Flows, Throw(f), UNCHANGED <<sbx, boxed, crashes, edits>>, faults' \in Nat
    PROVE  IInv'
  <1>1. Grows /\ SharedOK'
    BY ZenonT(60) DEF Throw, Return, Grows, IInv, SharedOK, store, flags, history
  <1>2. CASE Return(f)
    BY <1>1, <1>2, Mine, SoundStays, ReturnEnds, OneFlow DEF Throw
  <1>3. CASE ~Return(f)
    <2>1. Only(f) /\ Shape
      BY <1>3 DEF Throw, Goto, Only, Shape, IInv, FlowsOK, Steps, Kinds
    <2>2. loc'[f] \in {Start(f), ck} /\ pc'[f] = "fail" /\ base'[f] = base[f]
      BY <1>3 DEF Throw, Goto, IInv, FlowsOK
    <2>3. Sound(loc[f])' /\ Sound(base[f])' /\ Sound(ck)'
      BY <1>1, <1>3, <2>2, Mine, SoundStays DEF Throw, Start
    <2>4. Fits(pc[f], loc[f])'
      BY <2>2 DEF Fits
    <2> QED
      BY <1>1, <2>1, <2>3, <2>4, OneFlow
  <1> QED
    BY <1>2, <1>3

-----------------------------------------------------------------------------
LEMMA StepComplete == ASSUME IInv, NEW f \in Flows, Complete(f) PROVE IInv'
  <1>1. CASE Lost(f)
    BY <1>1, ThrowKeeps DEF Complete, On, bounds, IInv, SharedOK
  <1>2. CASE ~Lost(f)
    <2>1. Only(f) /\ Shape
      BY <1>2 DEF Complete, On, Goto, SetState, Save, Only, Shape, IInv, FlowsOK, Steps
    <2>2. Grows /\ SharedOK'
      BY <1>2 DEF Complete, On, SetState, Save, Grows, IInv, SharedOK, store, world, session, history, bounds
    <2>3. loc'[f] = To(loc[f], "completed") /\ ck' = loc'[f] /\ base'[f] = Start(f) /\ pc'[f] = "finishComplete"
      BY <1>2 DEF Complete, SetState, Save, Goto, IInv, FlowsOK
    <2>4. Sound(loc[f])' /\ Sound(ck)'
      BY <2>2, <2>3, Mine, ToQuiet, SoundStays DEF TaskState, Executing
    <2>5. Sound(base[f])'
      BY <2>2, <2>3, Mine, SoundStays DEF Start
    <2> QED
      BY <2>1, <2>2, <2>3, <2>4, <2>5, OneFlow DEF Fits
  <1> QED
    BY <1>1, <1>2

LEMMA StepFinishComplete == ASSUME IInv, NEW f \in Flows, FinishComplete(f) PROVE IInv'
  <1>1. Grows /\ SharedOK'
    BY DEF FinishComplete, Return, On, Grows, IInv, SharedOK, flags, history, bounds
  <1>2. Sound(ck)'
    BY <1>1, Mine, SoundStays DEF FinishComplete
  <1> QED
    BY <1>1, <1>2, ReturnEnds, OneFlow DEF FinishComplete

LEMMA StepFail == ASSUME IInv, NEW f \in Flows, Fail(f) PROVE IInv'
  <1>1. CASE ~canTransition(loc[f].state, "failed")
    BY <1>1, ThrowKeeps DEF Fail, On, bounds, IInv, SharedOK
  <1>2. CASE canTransition(loc[f].state, "failed")
    <2>1. Only(f) /\ Shape
      BY <1>2 DEF Fail, On, Goto, Save, Only, Shape, IInv, FlowsOK, Steps
    <2>2. Grows /\ SharedOK'
      BY <1>2 DEF Fail, On, Save, Grows, IInv, SharedOK, store, world, session, history, bounds
    <2>3. loc'[f] = To(loc[f], "failed") /\ ck' = loc'[f] /\ base'[f] = base[f] /\ pc'[f] = "finishFail"
      BY <1>2 DEF Fail, Save, Goto, IInv, FlowsOK
    <2>4. Sound(loc[f])' /\ Sound(ck)' /\ Sound(base[f])'
      BY <2>2, <2>3, Mine, ToQuiet, SoundStays DEF TaskState, Executing
    <2> QED
      BY <2>1, <2>2, <2>3, <2>4, OneFlow DEF Fits
  <1> QED
    BY <1>1, <1>2

LEMMA StepFinishFail == ASSUME IInv, NEW f \in Flows, FinishFail(f) PROVE IInv'
  <1>1. Grows /\ SharedOK'
    BY DEF FinishFail, Suspended, Return, On, Grows, IInv, SharedOK, flags, history, bounds
  <1>2. Sound(ck)'
    BY <1>1, Mine, SoundStays DEF FinishFail
  <1> QED
    BY <1>1, <1>2, ReturnEnds, OneFlow DEF FinishFail

LEMMA PauseForBudgetKeeps ==
    ASSUME IInv, NEW f \in Flows, PauseForBudget(f), UNCHANGED bounds PROVE IInv'
  <1>1. Grows /\ SharedOK'
    BY DEF PauseForBudget, Return, Grows, IInv, SharedOK, world, flags, history, bounds
  <1>2. Sound(To(loc[f], "paused"))
    BY Mine, ToPaused DEF PauseForBudget
  <1>3. Sound(ck)'
    <2>1. Sound([To(loc[f], "paused") EXCEPT !.use = use])
      BY <1>2, Mine DEF Sound, Checkpoint, Ready, Stage, SharedOK
    <2> QED
      BY <1>1, <2>1, SoundStays DEF PauseForBudget
  <1> QED
    BY <1>1, <1>3, ReturnEnds, OneFlow DEF PauseForBudget

\* pauseAtBoundary on a checkpoint that is sound now.
LEMMA PauseKeeps ==
    ASSUME IInv, NEW f \in Flows, NEW c, Sound(c), Pause(f, c), Grows, SharedOK' PROVE IInv'
  <1>1. Sound(ck)'
    BY ToPaused, SoundStays DEF Pause
  <1> QED
    BY <1>1, ReturnEnds, OneFlow DEF Pause
-----------------------------------------------------------------------------
\* A step that only moves its call on, with a checkpoint that fits there now
\* or did before.
LEMMA MoveOnKeeps ==
    ASSUME IInv, NEW f \in Flows, NEW p \in Steps, Goto(f, p), UNCHANGED <<ck, kind, loc, base>>,
           Grows, SharedOK', Fits(p, loc[f])'
    PROVE  IInv'
  <1>1. Only(f) /\ Shape
    BY DEF Goto, Only, Shape, IInv, FlowsOK
  <1>2. pc'[f] = p /\ loc'[f] = loc[f] /\ base'[f] = base[f]
    BY DEF Goto, IInv, FlowsOK
  <1>3. Sound(loc[f])' /\ Sound(ck)' /\ Sound(base[f])'
    BY <1>2, Mine, SoundStays
  <1>4. Fits(pc[f], loc[f])'
    BY <1>2 DEF Fits
  <1> QED
    BY <1>1, <1>3, <1>4, OneFlow

LEMMA GotoKeeps ==
    ASSUME IInv, NEW f \in Flows, NEW p \in Steps, Goto(f, p), UNCHANGED <<ck, kind, loc, base>>,
           Grows, SharedOK', Fits(p, loc[f])
    PROVE  IInv'
  <1>1. Fits(p, loc[f])'
    BY DEF Fits, Grows
  <1> QED
    BY <1>1, MoveOnKeeps

\* A step that saves a checkpoint that is sound now, and moves on.
LEMMA SaveKeeps ==
    ASSUME IInv, NEW f \in Flows, NEW p \in Steps, NEW c, Sound(c), Save(f, c), Goto(f, p),
           UNCHANGED <<kind, base>>, Grows, SharedOK', Fits(p, c)
    PROVE  IInv'
  <1>1. Only(f) /\ Shape
    BY DEF Goto, Save, Only, Shape, IInv, FlowsOK
  <1>2. pc'[f] = p /\ loc'[f] = c /\ base'[f] = base[f] /\ ck' = c
    BY DEF Goto, Save, IInv, FlowsOK
  <1>3. Sound(loc[f])' /\ Sound(ck)' /\ Sound(base[f])'
    BY <1>2, Mine, SoundStays
  <1>4. Fits(pc[f], loc[f])'
    BY <1>2 DEF Fits, Grows
  <1> QED
    BY <1>1, <1>3, <1>4, OneFlow

LEMMA StepMutate == ASSUME IInv, NEW f \in Flows, Mutate(f) PROVE IInv'
  <1>1. CASE PauseForBudget(f)
    BY <1>1, PauseForBudgetKeeps DEF Mutate, On
  <1>2. CASE Throw(f) /\ UNCHANGED sbx
    BY <1>2, ThrowKeeps DEF Mutate, On, bounds, IInv, SharedOK
  <1>3. CASE \E p \in {"fail", "apply"} :
                Goto(f, p) /\ UNCHANGED <<ck, store, world, session, kind, loc, base, history>>
    <2>1. PICK p \in {"fail", "apply"} :
                Goto(f, p) /\ UNCHANGED <<ck, store, world, session, kind, loc, base, history>>
      BY <1>3
    <2>2. Grows /\ SharedOK'
      BY <2>1 DEF Mutate, On, Grows, IInv, SharedOK, store, world, session, history, bounds
    <2>3. p \in Steps /\ Fits(p, loc[f])
      BY Mine DEF Mutate, On, At, Fits, Steps
    <2> QED
      BY <2>1, <2>2, <2>3, GotoKeeps
  <1> QED
    BY <1>1, <1>2, <1>3 DEF Mutate

\* A change added to a tree, or taken from it, leaves a tree.
LEMMA TreeTypes ==
    ASSUME SharedOK, NEW r \in {"repo", "sandbox"}, NEW d \in Drafts \cup {Edited}
    PROVE  /\ Applied(r, d) \in [{"repo", "sandbox"} -> Contents]
           /\ \A t \in Reverted(tree[r], d) : [tree EXCEPT ![r] = t] \in [{"repo", "sandbox"} -> Contents]
  <1>1. tree \in [{"repo", "sandbox"} -> Contents] /\ tree[r] \in Contents
    BY DEF SharedOK
  <1>2. tree[r] \cup {d} \in Contents
    BY <1>1 DEF Contents
  <1>3. \A t \in Reverted(tree[r], d) : t \in Contents
    BY <1>1 DEF Contents, Reverted
  <1> QED
    BY <1>1, <1>2, <1>3 DEF Applied

LEMMA RootIsTree == ASSUME IInv, NEW f \in Flows PROVE Root(f) \in {"repo", "sandbox"} /\ loc[f].prop \in Drafts \cup {Edited}
  BY Mine DEF Root, Checkpoint, Edited

LEMMA StepApply == ASSUME IInv, NEW f \in Flows, Apply(f) PROVE IInv'
  <1>1. Grows /\ SharedOK'
    BY Mine, TreeTypes, RootIsTree DEF Apply, On, Grows, SharedOK, store, session, bounds, LateChange
  <1>2. "record" \in Steps /\ Fits("record", loc[f])
    BY Mine DEF Apply, On, At, Fits, Steps
  <1> QED
    BY <1>1, <1>2, GotoKeeps DEF Apply

\* The proposal of the checkpoint now has a transaction.
LEMMA StepRecord == ASSUME IInv, NEW f \in Flows, Record(f) PROVE IInv'
  <1>1. loc[f].state = "mutating" /\ loc[f].prop \in Drafts
    BY Mine DEF Record, On, At, Fits, Sound, Ready, Stage, Checkpoint, Executing
  <1>2. PICK p : p = IF Autonomous THEN "count" ELSE "settle"
    OBVIOUS
  <1>3. Goto(f, p) /\ UNCHANGED <<ck, kind, loc, base>>
    BY <1>2 DEF Record
  <1>4. Grows /\ SharedOK'
    BY <1>1, Mine DEF Record, On, Grows, SharedOK, world, session, history, bounds
  <1>5. p \in Steps /\ Fits(p, loc[f])'
    BY <1>1, <1>2, <1>3, Mine DEF Record, Fits, Steps, SharedOK
  <1> QED
    BY <1>3, <1>4, <1>5, MoveOnKeeps

LEMMA StepCount == ASSUME IInv, NEW f \in Flows, Count(f) PROVE IInv'
  <1>1. Grows /\ SharedOK'
    <2>1. [use EXCEPT !.mut = @ + 1] \in Usage
      BY Mine DEF SharedOK, Usage
    <2> QED
      BY <2>1, Mine DEF Count, On, Grows, SharedOK, world, history, bounds
  <1>2. "settle" \in Steps /\ Fits("settle", loc[f])'
    BY Mine DEF Count, On, At, Fits, Steps
  <1> QED
    BY <1>1, <1>2, MoveOnKeeps DEF Count

\* The stage of the checkpoint needs the transaction of its proposal.
LEMMA StepSettle == ASSUME IInv, NEW f \in Flows, Settle(f) PROVE IInv'
  <1> DEFINE c == [To(loc[f], "verifying") EXCEPT !.txn = loc[f].prop, !.use = use]
  <1>1. loc[f].state = "mutating" /\ loc[f].prop \in Drafts /\ loc[f].plan \in approved
        /\ loc[f].plan \in Drafts /\ txns[loc[f].prop] /= "none"
    BY Mine DEF Settle, On, At, Fits, Sound, Ready, Stage, Checkpoint, Executing
  <1>2. c.use \in Usage /\ c \in Checkpoint
    <2>1. use \in Usage
      BY Mine DEF SharedOK
    <2>2. To(loc[f], "verifying") \in Checkpoint
      BY ZenonT(60), Mine DEF To, Checkpoint, TaskState
    <2> HIDE DEF Usage
    <2> QED
      BY <1>1, <2>1, <2>2 DEF Checkpoint
  <1>3. Grows
    BY DEF Settle, Grows, store, history
  <1>4. SharedOK'
    BY <1>2, Mine DEF Settle, On, Save, Pause, Suspended, Return, SharedOK, store, flags, history, bounds
  <1>5. txns' = txns /\ c.state = "verifying" /\ c.resume = "none" /\ c.plan = loc[f].plan /\ c.prop = loc[f].prop
        /\ c.txn = loc[f].prop /\ approved' = approved
    BY <1>1, Mine DEF Settle, To, SharedOK, Checkpoint, store, history
  <1>6. CASE AtBoundary
    <2>1. Pause(f, c)
      BY <1>6 DEF Settle
    <2> HIDE DEF c
    <2>2. /\ ck' \in Checkpoint /\ ck'.state = "paused" /\ ck'.resume = "verifying"
          /\ ck'.plan = loc[f].plan /\ ck'.prop = loc[f].prop /\ ck'.txn = loc[f].prop
      BY <1>2, <1>5, <2>1, ToFields DEF Pause, TaskState, Resumable, Executing
    <2>3. Sound(ck)'
      BY <1>1, <1>5, <2>2 DEF Sound, Ready, Stage, Resumable, Executing, Drafts
    <2> QED
      BY <1>3, <1>4, <2>1, <2>3, ReturnEnds, OneFlow DEF Pause
  <1>7. CASE ~AtBoundary
    <2>1. Only(f) /\ Shape
      BY <1>7 DEF Settle, Goto, Save, Only, Shape, IInv, FlowsOK, Steps
    <2>2. loc'[f] = c /\ ck' = c /\ base'[f] = base[f] /\ pc'[f] = "verify"
      BY <1>7 DEF Settle, Goto, Save, IInv, FlowsOK
    <2> HIDE DEF c
    <2>3. Sound(ck)' /\ Sound(loc[f])'
      BY <1>1, <1>2, <1>5, <2>2 DEF Sound, Ready, Stage, Executing, Drafts
    <2>4. Sound(base[f])'
      BY <1>3, <2>2, Mine, SoundStays
    <2>5. Fits(pc[f], loc[f])'
      BY <1>5, <2>2 DEF Fits
    <2> QED
      BY <1>3, <1>4, <2>1, <2>3, <2>4, <2>5, OneFlow
  <1> QED
    BY <1>6, <1>7

LEMMA StepVerify == ASSUME IInv, NEW f \in Flows, Verify(f) PROVE IInv'
  <1>1. CASE PauseForBudget(f)
    BY <1>1, PauseForBudgetKeeps DEF Verify, On
  <1>2. CASE Throw(f) /\ UNCHANGED sbx
    BY <1>2, ThrowKeeps DEF Verify, On, bounds, IInv, SharedOK
  <1>3. CASE /\ runs' = TRUE /\ Goto(f, "restore")
             /\ UNCHANGED <<ck, exec, outcome, txns, drafts, world, session, kind, loc, base, history>>
    <2>1. Grows /\ SharedOK'
      BY <1>3, Mine DEF Verify, On, Grows, SharedOK, world, session, history, bounds
    <2>2. loc[f].state = "verifying"
      BY Mine DEF Verify, On, At, Fits
    <2>3. Sound(loc[f])' /\ Sound(base[f])' /\ Sound(ck)'
      BY <1>3, <2>1, Mine, SoundStays
    <2>4. Only(f) /\ Shape /\ Fits(pc[f], loc[f])'
      BY <1>3, <2>2, Mine DEF Goto, Only, Shape, IInv, FlowsOK, Steps, Fits
    <2> QED
      BY <2>1, <2>3, <2>4, OneFlow
  <1>4. CASE /\ runs' = TRUE /\ passed' = passed \cup {Workspace(f)}
             /\ IF AtBoundary THEN Pause(f, loc[f])
                ELSE /\ Goto(f, IF Autonomous THEN "decide" ELSE "verified")
                     /\ UNCHANGED <<ck, sbx, running, kind, loc, base>>
             /\ UNCHANGED <<exec, outcome, txns, drafts, tree, flags, approved, late>>
    <2>1. Grows /\ SharedOK'
      <3>1. Workspace(f) \in Contents
        BY Mine DEF Workspace, Root, SharedOK
      <3>2. sbx' \in {"none", "running", "paused", "destroyed"} /\ running' \in BOOLEAN
        BY <1>4, Mine, ReturnEnds DEF Pause, Return, Suspended, SharedOK
      <3> QED
        BY <1>4, <3>1, <3>2, Mine DEF Verify, On, Grows, SharedOK, flags, bounds
    <2>2. CASE AtBoundary
      BY <1>4, <2>1, <2>2, Mine, PauseKeeps
    <2>3. CASE ~AtBoundary
      <3>1. loc[f].state = "verifying"
        BY Mine DEF Verify, On, At, Fits
      <3>2. Sound(loc[f])' /\ Sound(base[f])' /\ Sound(ck)'
        BY <1>4, <2>1, <2>3, Mine, SoundStays
      <3>3. Only(f) /\ Shape /\ Fits(pc[f], loc[f])'
        BY <1>4, <2>3, <3>1, Mine DEF Goto, Only, Shape, IInv, FlowsOK, Steps, Fits
      <3> QED
        BY <2>1, <3>2, <3>3, OneFlow
    <2> QED
      BY <2>2, <2>3
  <1> QED
    BY <1>1, <1>2, <1>3, <1>4 DEF Verify

LEMMA StepDecide == ASSUME IInv, NEW f \in Flows, Decide(f) PROVE IInv'
  <1>1. Grows /\ SharedOK'
    BY Mine DEF Decide, On, Grows, SharedOK, store, world, session, history, bounds
  <1>2. loc[f].state = "verifying" /\ runs
    BY Mine DEF Decide, On, At, Fits
  <1>3. CASE Goto(f, "retract") /\ UNCHANGED <<ck, loc>>
    BY <1>1, <1>2, <1>3, GotoKeeps DEF Decide, Fits, Steps
  <1>4. CASE SetState(f, loc[f], "reviewing") /\ Goto(f, "review")
    <2> DEFINE c == To(loc[f], "reviewing")
    <2>1. c \in Checkpoint /\ c.state = "reviewing" /\ c.plan = loc[f].plan
          /\ c.prop = loc[f].prop /\ c.txn = loc[f].txn
      BY Mine, ToFields DEF TaskState
    <2>2. Sound(c)
      BY <1>2, <2>1, Mine DEF Sound, Ready, Stage, Executing
    <2> QED
      BY <1>1, <1>2, <1>4, <2>1, <2>2, SaveKeeps DEF Decide, SetState, Fits, Steps
  <1> QED
    BY <1>3, <1>4 DEF Decide

LEMMA StepReview == ASSUME IInv, NEW f \in Flows, Review(f) PROVE IInv'
  <1>1. Grows /\ SharedOK'
    BY Mine DEF Review, On, Grows, SharedOK, store, world, session, history, bounds
  <1>2. Fits("retract", loc[f]) /\ Fits("verified", loc[f])
    BY Mine DEF Review, On, At, Fits
  <1> QED
    BY <1>1, <1>2, GotoKeeps DEF Review, Steps

LEMMA StepRestore == ASSUME IInv, NEW f \in Flows, Restore(f) PROVE IInv'
  <1>1. Grows /\ SharedOK'
    <2>1. \E t \in Reverted(tree[Root(f)], loc[f].prop) : tree' = [tree EXCEPT ![Root(f)] = t]
      BY DEF Restore, Workspace
    <2>2. tree' \in [{"repo", "sandbox"} -> Contents]
      BY <2>1, Mine, TreeTypes, RootIsTree
    <2> QED
      BY <2>2, Mine DEF Restore, On, Grows, SharedOK, store, session, history, bounds
  <1>2. PICK p \in {"restored", "retracted"} : Goto(f, p) /\ Fits(p, loc[f])
    BY Mine DEF Restore, On, At, Fits
  <1> QED
    BY <1>1, <1>2, GotoKeeps DEF Restore, Steps

\* A rolled back proposal keeps its transaction, so every checkpoint stays sound.
LEMMA RollBack ==
    ASSUME IInv, NEW f \in Flows, txns' = RolledBack(f), runs, UNCHANGED <<runs, approved>>
    PROVE  Grows /\ txns' \in [Drafts -> {"none", "applied", "rolled_back", "verified"}] /\ runs'
  BY Mine DEF RolledBack, Grows, SharedOK

\* The checkpoint that goes to a repair.
LEMMA ToRepairing ==
    ASSUME NEW c, Sound(c), c.state \in {"verifying", "reviewing"}, runs
    PROVE  LET r == [To(c, "repairing") EXCEPT !.txn = 0]
           IN Sound(r) /\ r.state = "repairing"
  BY DEF Sound, Checkpoint, Ready, Stage, To, TaskState, Executing

LEMMA StepRework == ASSUME IInv, NEW f \in Flows, Rework(f) PROVE IInv'
  <1> DEFINE c == [To(loc[f], "repairing") EXCEPT !.txn = 0]
  <1>1. loc[f].state = "verifying" /\ runs
    BY Mine DEF Rework, On, At, Fits
  <1>2. Sound(c) /\ c.state = "repairing"
    BY <1>1, Mine, ToRepairing
  <1>3. Grows /\ txns' \in [Drafts -> {"none", "applied", "rolled_back", "verified"}]
    BY <1>1, RollBack DEF Rework, history
  <1>4. SharedOK'
    BY <1>3, Mine DEF Rework, On, Pause, Return, Suspended, SharedOK, flags, history, bounds
  <1> HIDE DEF c
  <1>5. CASE Pause(f, c)
    BY <1>2, <1>3, <1>4, <1>5, PauseKeeps
  <1>6. CASE \E p \in {"fail", "repair"} : Save(f, c) /\ Goto(f, p) /\ UNCHANGED <<kind, base>>
    BY <1>2, <1>3, <1>4, <1>6, SaveKeeps DEF Fits, Steps
  <1> QED
    BY <1>5, <1>6 DEF Rework, c

LEMMA StepWithdraw == ASSUME IInv, NEW f \in Flows, Withdraw(f) PROVE IInv'
  <1> DEFINE c == [To(loc[f], "repairing") EXCEPT !.txn = 0]
  <1>1. loc[f].state \in {"verifying", "reviewing"} /\ runs
    BY Mine DEF Withdraw, On, At, Fits
  <1>2. Sound(c) /\ c.state = "repairing"
    BY <1>1, Mine, ToRepairing
  <1>3. Grows /\ txns' \in [Drafts -> {"none", "applied", "rolled_back", "verified"}]
    BY <1>1, RollBack DEF Withdraw, history
  <1>4. SharedOK'
    BY <1>3, Mine DEF Withdraw, On, SharedOK, world, history, bounds
  <1>5. Save(f, c) /\ Goto(f, "repair") /\ UNCHANGED <<kind, base>>
    BY DEF Withdraw
  <1> HIDE DEF c
  <1> QED
    BY <1>2, <1>3, <1>4, <1>5, SaveKeeps DEF Fits, Steps

\* Usage that has grown is still usage.
LEMMA MorePlans == ASSUME NEW u \in Usage PROVE [u EXCEPT !.pln = @ + 1, !.it = @ + 1] \in Usage
  <1> DEFINE v == [u EXCEPT !.pln = @ + 1]
  <1>1. v \in Usage
    BY DEF Usage
  <1>2. v.it + 1 \in Nat /\ v.it = u.it
    BY <1>1 DEF Usage
  <1> QED BY <1>1, <1>2 DEF Usage

LEMMA MoreRepairs == ASSUME NEW u \in Usage PROVE [u EXCEPT !.rep = @ + 1, !.it = @ + 1] \in Usage
  <1> DEFINE v == [u EXCEPT !.rep = @ + 1]
  <1>1. v \in Usage
    BY DEF Usage
  <1>2. v.it + 1 \in Nat /\ v.it = u.it
    BY <1>1 DEF Usage
  <1> QED BY <1>1, <1>2 DEF Usage

\* A checkpoint with its plan and proposal replaced.
LEMMA NewPlan ==
   ASSUME NEW t \in Checkpoint, NEW d \in Drafts
   PROVE LET n == [t EXCEPT !.plan = d, !.prop = d] IN n \in Checkpoint /\ n.plan = d /\ n.prop = d /\ n.state = t.state /\ n.resume = t.resume
  <1> DEFINE v == [t EXCEPT !.plan = d]
             w == [v EXCEPT !.prop = d]
  <1>1. v \in Checkpoint /\ v.plan = d /\ v.state = t.state /\ v.resume = t.resume
    BY DEF Checkpoint
  <1> HIDE DEF v
  <1>2. w \in Checkpoint /\ w.plan = d /\ w.prop = d /\ w.state = t.state /\ w.resume = t.resume
    BY <1>1 DEF Checkpoint
  <1>3. w = [t EXCEPT !.plan = d, !.prop = d]
    BY Zenon DEF Checkpoint, v
  <1> QED BY <1>2, <1>3

LEMMA StepRepair == ASSUME IInv, NEW f \in Flows, Repair(f) PROVE IInv'
  <1>1. loc[f].state = "repairing" /\ use \in Usage /\ exec \in Usage
    BY Mine DEF Repair, On, At, Fits, SharedOK
  <1>2. CASE PauseForBudget(f)
    BY <1>2, PauseForBudgetKeeps DEF Repair, On
  <1>3. CASE /\ use' = [use EXCEPT !.pln = @ + 1, !.it = @ + 1] /\ exec' = use' /\ reviewFail' = FALSE
             /\ canTransition(loc[f].state, "replanning")
             /\ Save(f, [To(loc[f], "replanning") EXCEPT !.use = use']) /\ Goto(f, "replan")
             /\ UNCHANGED <<outcome, txns, runs, drafts, world, running, cancel, kind, base, history>>
    <2>1. use' \in Usage
      BY <1>1, <1>3, MorePlans
    <2>2. Grows /\ SharedOK'
      BY <1>3, <2>1, Mine DEF Repair, On, Grows, SharedOK, world, history, bounds
    <2> DEFINE t == To(loc[f], "replanning")
    <2>3. t \in Checkpoint /\ t.state = "replanning" /\ t.plan = loc[f].plan /\ t.prop = loc[f].prop
      BY Mine, ToFields DEF TaskState
    <2>4. Sound(t)
      BY <1>1, <2>3, Mine DEF Sound, Ready, Stage, Executing
    <2> HIDE DEF t
    <2>5. PICK n : n = [t EXCEPT !.use = use']
      OBVIOUS
    <2>6. Sound(n) /\ n.state = "replanning"
      BY <2>1, <2>3, <2>4, <2>5 DEF Sound, Checkpoint, Ready, Stage
    <2>7. Save(f, n)
      BY <1>3, <2>5 DEF t
    <2> QED
      BY <1>3, <2>2, <2>6, <2>7, SaveKeeps DEF Fits, Steps
  <1>4. CASE /\ use' = IF Autonomous THEN [use EXCEPT !.rep = @ + 1, !.it = @ + 1] ELSE use
             /\ exec' = IF Autonomous THEN use' ELSE exec
             /\ Goto(f, "repropose")
             /\ UNCHANGED <<ck, outcome, txns, runs, drafts, world, running, cancel, reviewFail,
                            kind, loc, base, history>>
    <2>1. use' \in Usage /\ exec' \in Usage
      BY <1>1, <1>4, MoreRepairs
    <2>2. Grows /\ SharedOK'
      BY <1>4, <2>1, Mine DEF Repair, On, Grows, SharedOK, world, history, bounds
    <2>3. Fits("repropose", loc[f])
      BY <1>1 DEF Fits
    <2> QED
      BY <1>4, <2>2, <2>3, GotoKeeps DEF Steps
  <1> QED
    BY <1>2, <1>3, <1>4 DEF Repair

\* The model gave a new proposal under the plan at work.
LEMMA StepRepropose == ASSUME IInv, NEW f \in Flows, Repropose(f) PROVE IInv'
  <1>1. CASE Throw(f) /\ UNCHANGED sbx
    BY <1>1, ThrowKeeps DEF Repropose, On, bounds, IInv, SharedOK
  <1>2. CASE ~(Throw(f) /\ UNCHANGED sbx)
    <2> DEFINE t == To(loc[f], "mutating")
               n == [t EXCEPT !.attempt = NextAttempt(loc[f]), !.prop = Fresh, !.use = use]
    <2>1. loc[f].state = "repairing" /\ use \in Usage /\ Fresh \in Drafts /\ loc[f].attempt + 1 \in Nat
      BY Mine, FreshDraft DEF Repropose, On, At, Fits, SharedOK, Checkpoint
    <2>2. Sound(t) /\ t.state = "mutating"
      BY <2>1, Mine, ToMutating DEF Sound, Ready, Stage, Executing
    <2>3. Save(f, n) /\ Goto(f, "mutate") /\ UNCHANGED <<kind, base>>
      BY <1>2 DEF Repropose
    <2>4. Grows /\ SharedOK'
      BY <1>2, <2>1, Mine DEF Repropose, On, Grows, SharedOK, world, session, history, bounds
    <2> HIDE DEF t
    <2>5. /\ n \in Checkpoint /\ n.plan = t.plan /\ n.prop \in Drafts
          /\ n.state = "mutating"
      <3> DEFINE v == [t EXCEPT !.attempt = NextAttempt(loc[f])]
                 w == [v EXCEPT !.prop = Fresh]
                 x == [w EXCEPT !.use = use]
      <3>1. t \in Checkpoint /\ NextAttempt(loc[f]) \in Nat
        BY <2>1, <2>2 DEF Sound, NextAttempt
      <3>2. v \in Checkpoint /\ v.plan = t.plan /\ v.state = t.state
        BY <3>1 DEF Checkpoint
      <3> HIDE DEF v
      <3>3. w \in Checkpoint /\ w.plan = t.plan /\ w.prop = Fresh /\ w.state = t.state
        BY <2>1, <3>2 DEF Checkpoint
      <3> HIDE DEF w
      <3>4. x \in Checkpoint /\ x.plan = t.plan /\ x.prop = Fresh /\ x.state = t.state
        BY <2>1, <3>3 DEF Checkpoint
      <3>5. x = n
        BY Zenon DEF v, w
      <3> QED
        BY <2>1, <2>2, <3>4, <3>5
    <2> HIDE DEF n
    <2>6. Sound(n)
      BY <2>2, <2>5 DEF Sound, Ready, Stage, Executing, Drafts
    <2> QED
      BY <2>3, <2>4, <2>5, <2>6, SaveKeeps DEF Fits, Steps
  <1> QED
    BY <1>1, <1>2

\* The new plan is not approved: the task leaves the states that need it to be.
LEMMA StepReplan == ASSUME IInv, NEW f \in Flows, Replan(f) PROVE IInv'
  <1>1. CASE Throw(f) /\ UNCHANGED sbx
    BY <1>1, ThrowKeeps DEF Replan, On, bounds, IInv, SharedOK
  <1>2. CASE ~(Throw(f) /\ UNCHANGED sbx)
    <2> DEFINE t == To(loc[f], "awaiting_approval")
               n == [t EXCEPT !.plan = Fresh, !.prop = Fresh]
    <2>1. Fresh \in Drafts
      BY Mine, FreshDraft
    <2>2. t \in Checkpoint /\ t.state = "awaiting_approval"
      BY Mine, ToFields DEF TaskState
    <2>3. Save(f, n) /\ Goto(f, "reapprove") /\ UNCHANGED <<kind, base>>
      BY <1>2 DEF Replan
    <2>4. Grows /\ SharedOK'
      BY <1>2, <2>1, Mine DEF Replan, On, Grows, SharedOK, world, session, history, bounds
    <2> HIDE DEF t
    <2>5. n \in Checkpoint /\ n.plan \in Drafts /\ n.prop \in Drafts /\ n.state = "awaiting_approval"
      BY <2>1, <2>2, NewPlan
    <2> HIDE DEF n
    <2>6. Sound(n)
      BY <2>5 DEF Sound, Ready, Stage, Executing, Drafts
    <2> QED
      BY <2>3, <2>4, <2>5, <2>6, SaveKeeps DEF Fits, Steps
  <1> QED
    BY <1>1, <1>2

\* A checkpoint whose plan the user has just approved.
LEMMA Approved ==
    ASSUME IInv, NEW f \in Flows, loc[f].state = "awaiting_approval",
           approved' = approved \cup {loc[f].plan}, UNCHANGED <<txns, runs>>,
           NEW n, n = To(loc[f], "mutating")
    PROVE  /\ Grows /\ approved' \subseteq Drafts
           /\ n.state = "mutating" /\ n.plan \in approved' /\ n.plan /= 0 /\ n.prop /= 0 /\ n \in Checkpoint
           /\ \A x : x = n => (x \in Checkpoint /\ Ready(x)' /\ x.plan \in approved')
  <1>1. loc[f].plan \in Drafts /\ loc[f].plan /= 0 /\ loc[f].prop /= 0
    BY Mine DEF Sound, Ready, Stage, Checkpoint
  <1>2. Grows /\ approved' \subseteq Drafts
    BY <1>1, Mine DEF Grows, SharedOK
  <1>3. n \in Checkpoint /\ n.state = "mutating" /\ n.plan = loc[f].plan /\ n.prop = loc[f].prop
    BY Mine, ToFields DEF TaskState
  <1> QED
    BY <1>1, <1>2, <1>3 DEF Ready, Stage, Executing

LEMMA StepReapprove == ASSUME IInv, NEW f \in Flows, Reapprove(f) PROVE IInv'
  <1>1. loc[f].state = "awaiting_approval"
    BY Mine DEF Reapprove, On, At, Fits
  <1>2. CASE /\ approved' = approved \cup {loc[f].plan}
             /\ SetState(f, loc[f], "mutating") /\ Goto(f, "mutate")
             /\ UNCHANGED <<sbx, session, kind, base>>
    <2> DEFINE n == To(loc[f], "mutating")
    <2>1. UNCHANGED <<txns, runs, store, tree, passed, late, bounds>>
      BY DEF Reapprove, On, store
    <2>2. Grows /\ SharedOK'
      BY <1>1, <1>2, <2>1, Approved, Mine DEF SharedOK, store, session, bounds
    <2>3. Only(f) /\ Shape
      BY <1>2 DEF SetState, Save, Goto, Only, Shape, IInv, FlowsOK, Steps
    <2>4. ck' = n /\ loc'[f] = n /\ base'[f] = base[f] /\ pc'[f] = "mutate"
      BY <1>2 DEF SetState, Save, Goto, IInv, FlowsOK
    <2>5. n.state = "mutating" /\ n \in Checkpoint /\ Ready(ck)' /\ Ready(loc[f])' /\ n.plan \in approved'
      BY <1>1, <1>2, <2>1, <2>4, Approved
    <2>6. Sound(ck)' /\ Sound(loc[f])' /\ Sound(base[f])'
      BY <2>2, <2>4, <2>5, Mine, SoundStays DEF Sound
    <2>7. Fits(pc[f], loc[f])'
      BY <2>4, <2>5 DEF Fits
    <2> QED
      BY <2>2, <2>3, <2>6, <2>7, OneFlow
  <1>3. CASE cancel' = TRUE /\ Pause(f, loc[f]) /\ UNCHANGED <<use, reviewFail, approved>>
    <2>1. Grows /\ SharedOK'
      BY <1>3, Mine DEF Reapprove, On, Pause, Return, Suspended, Grows, SharedOK, store, bounds
    <2> QED
      BY <1>3, <2>1, Mine, PauseKeeps
  <1> QED
    BY <1>2, <1>3 DEF Reapprove

LEMMA StepAccept == ASSUME IInv, NEW f \in Flows, Accept(f) PROVE IInv'
  <1>1. Grows /\ SharedOK'
    BY Mine DEF Accept, On, Grows, SharedOK, world, session, history, bounds
  <1>2. Fits("promote", loc[f]) /\ Fits("complete", loc[f])
    BY Mine DEF Accept, On, At, Fits
  <1> QED
    BY <1>1, <1>2, GotoKeeps DEF Accept, Steps

LEMMA StepPromote == ASSUME IInv, NEW f \in Flows, Promote(f) PROVE IInv'
  <1>1. CASE Throw(f)
    BY <1>1, ThrowKeeps DEF Promote, On, world, bounds, IInv, SharedOK
  <1>2. CASE ~Throw(f)
    <2>1. Grows /\ SharedOK'
      BY <1>2, Mine DEF Promote, On, Grows, SharedOK, store, world, session, history, bounds
    <2>2. Fits("deliver", loc[f])
      BY Mine DEF Promote, On, At, Fits
    <2> QED
      BY <1>2, <2>1, <2>2, GotoKeeps DEF Promote, Steps
  <1> QED
    BY <1>1, <1>2

LEMMA StepDeliver == ASSUME IInv, NEW f \in Flows, Deliver(f) PROVE IInv'
  <1>1. Grows /\ SharedOK'
    BY Mine, TreeTypes, RootIsTree DEF Deliver, On, Grows, SharedOK, store, session, bounds, LateChange
  <1>2. "complete" \in Steps /\ Fits("complete", loc[f])
    BY DEF Fits, Steps
  <1> QED
    BY <1>1, <1>2, GotoKeeps DEF Deliver

-----------------------------------------------------------------------------
\* The same for steps that also change who catches the errors of the call, and
\* that may record what the new checkpoint needs.
LEMMA MoveKeeps ==
    ASSUME IInv, NEW f \in Flows, NEW p \in Steps, NEW k \in Kinds, NEW c, Sound(c)', Fits(p, c)',
           ck' \in {ck, c}, loc' = [loc EXCEPT ![f] = c], Goto(f, p),
           kind' \in {kind, [kind EXCEPT ![f] = k]}, base' \in {base, [base EXCEPT ![f] = c]},
           Grows, SharedOK'
    PROVE  IInv'
  <1>1. Only(f) /\ Shape
    BY DEF Goto, Only, Shape, IInv, FlowsOK
  <1>2. pc'[f] = p /\ loc'[f] = c /\ base'[f] \in {base[f], c}
    BY DEF Goto, IInv, FlowsOK
  <1>3. Sound(loc[f])' /\ Sound(ck)' /\ Sound(base[f])'
    <2>1. Sound(base[f]) /\ Sound(ck)
      BY Mine
    <2>2. base'[f] = base[f] \/ base'[f] = c
      BY <1>2
    <2>3. Sound(base[f])'
      BY <2>1, <2>2, SoundStays
    <2> QED
      BY <1>2, <2>1, <2>3, SoundStays
  <1>4. Fits(pc[f], loc[f])'
    BY <1>2
  <1> QED
    BY <1>1, <1>3, <1>4, OneFlow

LEMMA StepRun == ASSUME IInv, NEW f \in Flows, Run(f) PROVE IInv'
  <1>1. PICK m \in Modes : Save(f, [NoCk EXCEPT !.state = "created", !.mode = m])
    BY DEF Run
  <1>2. PICK c : c = [NoCk EXCEPT !.state = "created", !.mode = m]
    OBVIOUS
  <1>3. Sound(c)
    BY <1>2, ModesAssumption
    DEF Sound, Checkpoint, NoCk, NoUse, Usage, Ready, Stage, Executing, TaskState
  <1>4. Grows /\ SharedOK'
    BY Mine DEF Run, Free, On, Grows, SharedOK, store, world, history, bounds
  <1>5. Sound(c)'
    BY <1>3, <1>4, SoundStays
  <1> QED
    <2>1. ck' = c /\ loc' = [loc EXCEPT ![f] = c]
      BY <1>1, <1>2 DEF Save
    <2>2. Goto(f, "launch") /\ kind' = [kind EXCEPT ![f] = "boot"] /\ base' = base
      BY DEF Run
    <2>3. Fits("launch", c)' /\ "launch" \in Steps /\ "boot" \in Kinds
      BY DEF Fits, Steps, Kinds
    <2> QED
      BY <1>4, <1>5, <2>1, <2>2, <2>3, MoveKeeps

LEMMA StepLaunch == ASSUME IInv, NEW f \in Flows, Launch(f) PROVE IInv'
  <1>1. [NoUse EXCEPT !.it = 1] \in Usage
    BY DEF NoUse, Usage
  <1>2. Grows /\ SharedOK'
    BY <1>1, Mine DEF Launch, On, Grows, SharedOK, world, history, bounds
  <1>3. CASE loc[f].mode = "auto"
    <2>1. PICK c : c = [loc[f] EXCEPT !.use = use']
      OBVIOUS
    <2>2. Sound(c)
      BY <1>1, <1>3, <2>1, Mine DEF Launch, Sound, Checkpoint, Ready, Stage
    <2>3. Sound(c)'
      BY <1>2, <2>2, SoundStays
    <2>4. Save(f, c)
      BY <1>3, <2>1 DEF Launch
    <2> QED
      BY <1>2, <2>3, <2>4, MoveKeeps DEF Launch, Save, Fits, Steps, Kinds
  <1>4. CASE loc[f].mode /= "auto"
    <2>1. PICK c : c = loc[f]
      OBVIOUS
    <2>2. Sound(c)'
      BY <1>2, <2>1, Mine, SoundStays
    <2>3. loc' = [loc EXCEPT ![f] = c]
      BY <1>4, <2>1 DEF Launch, IInv, FlowsOK
    <2> QED
      BY <1>2, <1>4, <2>2, <2>3, MoveKeeps DEF Launch, Fits, Steps, Kinds
  <1> QED
    BY <1>3, <1>4

LEMMA StepEnsure == ASSUME IInv, NEW f \in Flows, Ensure(f) PROVE IInv'
  <1>1. CASE Throw(f) /\ UNCHANGED sbx
    BY <1>1, ThrowKeeps DEF Ensure, On, bounds, IInv, SharedOK
  <1>2. CASE ~(Throw(f) /\ UNCHANGED sbx)
    <2>1. Grows /\ SharedOK'
      BY <1>2, Mine DEF Ensure, On, Reopened, Grows, SharedOK, store, session, history, bounds
    <2>2. Goto(f, "context") /\ UNCHANGED <<kind, base>>
      BY <1>2 DEF Ensure
    <2>3. CASE UNCHANGED <<ck, loc>>
      BY <2>1, <2>2, <2>3, GotoKeeps DEF Fits, Steps
    <2>4. CASE Save(f, [loc[f] EXCEPT !.sbx = TRUE])
      <3>1. Sound([loc[f] EXCEPT !.sbx = TRUE])
        BY ZenonT(60), Mine DEF Sound, Checkpoint, Ready, Stage
      <3> QED
        BY <2>1, <2>2, <2>4, <3>1, SaveKeeps DEF Fits, Steps
    <2> QED
      BY <1>2, <2>3, <2>4 DEF Ensure
  <1> QED
    BY <1>1, <1>2

LEMMA StepContext == ASSUME IInv, NEW f \in Flows, Context(f) PROVE IInv'
  <1>1. Grows /\ SharedOK'
    BY Mine DEF Context, On, Grows, SharedOK, store, world, session, history, bounds
  <1>2. CASE UNCHANGED <<ck, loc>>
    BY <1>1, <1>2, GotoKeeps DEF Context, Fits, Steps
  <1>3. CASE SetState(f, loc[f], "contextualizing")
    <2>1. Sound(To(loc[f], "contextualizing"))
      BY Mine, ToQuiet DEF TaskState, Executing
    <2> QED
      BY <1>1, <1>3, <2>1, SaveKeeps DEF Context, SetState, Fits, Steps
  <1> QED
    BY <1>2, <1>3 DEF Context

LEMMA StepGathered == ASSUME IInv, NEW f \in Flows, Gathered(f) PROVE IInv'
  <1>1. Grows
    BY DEF Gathered, On, Grows, store, history
  <1>2. SharedOK'
    BY Mine DEF Gathered, On, Pause, Return, Suspended, SharedOK, store, flags, history, bounds
  <1>3. CASE Pause(f, loc[f])
    BY <1>1, <1>2, <1>3, Mine, PauseKeeps
  <1>4. CASE Goto(f, "complete") /\ UNCHANGED <<ck, kind, loc, base>>
    BY <1>1, <1>2, <1>4, GotoKeeps DEF Fits, Steps
  <1>5. CASE SetState(f, loc[f], "planning") /\ Goto(f, "plan") /\ UNCHANGED <<kind, base>>
    <2>1. Sound(To(loc[f], "planning")) /\ To(loc[f], "planning").state = "planning"
      BY Mine, ToQuiet DEF TaskState, Executing
    <2> QED
      BY <1>1, <1>2, <1>5, <2>1, SaveKeeps DEF SetState, Fits, Steps
  <1>6. CASE loc[f].state = "planning" /\ Goto(f, "plan") /\ UNCHANGED <<ck, kind, loc, base>>
    BY <1>1, <1>2, <1>6, GotoKeeps DEF Fits, Steps
  <1> QED
    BY <1>3, <1>4, <1>5, <1>6 DEF Gathered

LEMMA StepPlan == ASSUME IInv, NEW f \in Flows, Plan(f) PROVE IInv'
  <1>1. CASE Throw(f) /\ UNCHANGED sbx
    BY <1>1, ThrowKeeps DEF Plan, On, bounds, IInv, SharedOK
  <1>2. CASE ~(Throw(f) /\ UNCHANGED sbx)
    <2> DEFINE c == [loc[f] EXCEPT !.plan = Fresh]
    <2>1. loc[f].state = "planning" /\ Fresh \in Drafts
      BY Mine, FreshDraft DEF Plan, On, At, Fits
    <2>2. Sound(c) /\ c.state = "planning" /\ c.plan /= 0
      BY <2>1, Mine DEF Sound, Checkpoint, Ready, Stage, Executing, Drafts
    <2>3. Grows
      BY <1>2 DEF Plan, Grows, history
    <2>4. SharedOK'
      BY <1>2, <2>1, Mine
      DEF Plan, On, Pause, Return, Suspended, SharedOK, flags, history, bounds
    <2>5. CASE Pause(f, c)
      BY <2>2, <2>3, <2>4, <2>5, PauseKeeps
    <2>6. CASE \E p \in {"complete", "propose"} : Save(f, c) /\ Goto(f, p) /\ UNCHANGED <<kind, base>>
      BY <2>2, <2>3, <2>4, <2>6, SaveKeeps DEF Fits, Steps
    <2> QED
      BY <1>2, <2>5, <2>6 DEF Plan
  <1> QED
    BY <1>1, <1>2

LEMMA StepPropose == ASSUME IInv, NEW f \in Flows, Propose(f) PROVE IInv'
  <1>1. CASE Throw(f) /\ UNCHANGED sbx
    BY <1>1, ThrowKeeps DEF Propose, On, bounds, IInv, SharedOK
  <1>2. CASE ~(Throw(f) /\ UNCHANGED sbx)
    <2> DEFINE t == To(loc[f], "awaiting_approval")
               v == [t EXCEPT !.prop = Fresh]
               n == [t EXCEPT !.prop = Fresh, !.use = use]
    <2>1. loc[f].plan /= 0 /\ use \in Usage /\ Fresh \in Drafts
      BY Mine, FreshDraft DEF Propose, On, At, Fits, SharedOK
    <2>2. t \in Checkpoint /\ t.state = "awaiting_approval" /\ t.plan /= 0
      BY <2>1, Mine, ToFields DEF TaskState
    <2>3. PICK p \in {"approve", "rapprove"} : Save(f, n) /\ Goto(f, p) /\ UNCHANGED <<kind, base>>
      BY <1>2 DEF Propose
    <2>4. Grows /\ SharedOK'
      BY <1>2, <2>1, Mine DEF Propose, On, Grows, SharedOK, world, session, history, bounds
    <2> HIDE DEF t
    <2>5. Sound(n) /\ n.state = "awaiting_approval"
      <3>1. v \in Checkpoint /\ v.state = "awaiting_approval" /\ v.plan /= 0 /\ v.prop \in Drafts
        BY <2>1, <2>2 DEF Checkpoint
      <3> DEFINE w == [v EXCEPT !.use = use]
      <3> HIDE DEF v
      <3>2. w \in Checkpoint /\ w.state = "awaiting_approval" /\ w.plan /= 0 /\ w.prop \in Drafts
        BY <2>1, <3>1 DEF Checkpoint
      <3>3. w = n
        BY Zenon DEF v
      <3> HIDE DEF w, n
      <3>4. Sound(w)
        BY <3>2 DEF Sound, Ready, Stage, Executing, Drafts
      <3> QED
        BY <3>2, <3>3, <3>4
    <2> HIDE DEF n
    <2> QED
      BY <2>3, <2>4, <2>5, SaveKeeps DEF Fits, Steps
  <1> QED
    BY <1>1, <1>2

LEMMA StepApprove == ASSUME IInv, NEW f \in Flows, Approve(f) PROVE IInv'
  <1>1. loc[f].state = "awaiting_approval"
    BY Mine DEF Approve, On, At, Fits
  <1>2. CASE /\ SetState(f, loc[f], "mutating")
             /\ approved' = approved \cup {loc[f].plan}
             /\ base' = [base EXCEPT ![f] = ck'] /\ Goto(f, "mutate")
             /\ UNCHANGED <<sbx, running, cancel, kind>>
    <2>1. PICK n : n = To(loc[f], "mutating")
      OBVIOUS
    <2>2. UNCHANGED <<txns, runs, store, tree, use, reviewFail, passed, late, bounds>>
      BY DEF Approve, On, store
    <2>3. Grows /\ SharedOK'
      BY <1>1, <1>2, <2>1, <2>2, Approved, Mine DEF SharedOK, store, bounds
    <2>4. Sound(n)' /\ n.state = "mutating"
      BY <1>1, <1>2, <2>1, <2>2, Approved DEF Sound
    <2>5. ck' = n /\ loc' = [loc EXCEPT ![f] = n] /\ base' = [base EXCEPT ![f] = n]
      BY <1>2, <2>1 DEF SetState, Save
    <2> QED
      BY <1>2, <2>3, <2>4, <2>5, MoveKeeps DEF Fits, Steps, Kinds
  <1>3. CASE cancel' = TRUE /\ Pause(f, loc[f]) /\ UNCHANGED approved
    <2>1. Grows /\ SharedOK'
      BY <1>3, Mine DEF Approve, On, Pause, Return, Suspended, Grows, SharedOK, store, bounds
    <2> QED
      BY <1>3, <2>1, Mine, PauseKeeps
  <1>4. CASE /\ ck' = To(loc[f], "cancelled") /\ sbx' = (IF loc[f].sbx THEN Suspended ELSE sbx)
             /\ Return(f) /\ UNCHANGED <<cancel, approved>>
    <2>1. Grows /\ SharedOK'
      BY <1>4, Mine DEF Approve, On, Return, Suspended, Grows, SharedOK, store, bounds
    <2>2. PICK n : n = To(loc[f], "cancelled")
      OBVIOUS
    <2>3. Sound(n)
      BY <2>2, Mine, ToQuiet DEF TaskState, Executing
    <2>4. Sound(ck)'
      BY <1>4, <2>1, <2>2, <2>3, SoundStays
    <2> QED
      BY <1>4, <2>1, <2>4, ReturnEnds, OneFlow
  <1> QED
    BY <1>2, <1>3, <1>4 DEF Approve

LEMMA StepResume == ASSUME IInv, NEW f \in Flows, Resume(f) PROVE IInv'
  <1>1. Grows /\ SharedOK'
    BY Mine DEF Resume, Free, On, Grows, SharedOK, store, world, bounds
  <1>2. PICK c : c = ck
    OBVIOUS
  <1>3. Sound(c)'
    BY <1>1, <1>2, Mine, SoundStays
  <1>4. loc' = [loc EXCEPT ![f] = c] /\ ck' = c /\ base' = base /\ Goto(f, "load")
        /\ kind' = [kind EXCEPT ![f] = "resume"]
    BY <1>2 DEF Resume
  <1> QED
    BY <1>1, <1>3, <1>4, MoveKeeps DEF Fits, Steps, Kinds

\* start called again by resume, on a checkpoint that is sound now.
LEMMA RestartKeeps ==
    ASSUME IInv, NEW f \in Flows, NEW c, Sound(c), Restart(f, c), Grows, SharedOK' PROVE IInv'
  <1>1. Sound(c)'
    BY SoundStays
  <1> QED
    BY <1>1, MoveKeeps DEF Restart, Save, Fits, Steps, Kinds

LEMMA StepLoad == ASSUME IInv, NEW f \in Flows, Load(f) PROVE IInv'
  <1>1. CASE Lost(f)
    BY <1>1, ThrowKeeps DEF Load, On, bounds, IInv, SharedOK
  <1>2. CASE ~Lost(f)
    <2>1. UNCHANGED bounds /\ sbx' = IF loc[f].sbx THEN Reopened ELSE sbx
      BY <1>2 DEF Load, On
    <2>2. sbx' \in {"none", "running", "paused", "destroyed"}
      BY <2>1, Mine DEF Reopened, SharedOK
    <2>3. CASE Return(f) /\ UNCHANGED <<ck, store, tree, flags, history>>
      <3>1. Grows /\ SharedOK'
        BY <2>1, <2>2, <2>3, Mine DEF Return, Grows, SharedOK, store, flags, history, bounds
      <3>2. Sound(ck)'
        BY <2>3, <3>1, Mine, SoundStays
      <3> QED
        BY <2>3, <3>1, <3>2, ReturnEnds, OneFlow
    <2>4. CASE /\ loc[f].state = "failed" /\ use' = [exec EXCEPT !.it = @ + 1] /\ exec' = use'
               /\ Restart(f, [To(loc[f], "contextualizing") EXCEPT !.use = use', !.mode = "auto"])
               /\ UNCHANGED <<outcome, txns, runs, drafts>>
      <3>1. use' \in Usage
        BY <2>4, Mine DEF SharedOK, Usage
      <3>2. Grows /\ SharedOK'
        BY <2>1, <2>2, <2>4, <3>1, Mine DEF Restart, Grows, SharedOK, bounds
      <3>3. Sound(To(loc[f], "contextualizing")) /\ To(loc[f], "contextualizing").state = "contextualizing"
        BY Mine, ToQuiet DEF TaskState, Executing
      <3>4. PICK t : t = To(loc[f], "contextualizing")
        OBVIOUS
      <3>5. PICK v : v = [t EXCEPT !.use = use']
        OBVIOUS
      <3>6. PICK n : n = [v EXCEPT !.mode = "auto"]
        OBVIOUS
      <3>7. Sound(v)
        BY <3>1, <3>3, <3>4, <3>5 DEF Sound, Checkpoint, Ready, Stage
      <3>8. Sound(n)
        BY <3>6, <3>7 DEF Sound, Checkpoint, Ready, Stage, TaskMode
      <3>9. n = [t EXCEPT !.use = use', !.mode = "auto"]
        BY <3>5, <3>6, Zenon
      <3> QED
        BY <2>4, <3>2, <3>4, <3>8, <3>9, RestartKeeps
    <2>5. CASE Goto(f, "restate") /\ UNCHANGED <<ck, store, tree, session, kind, loc, base, history>>
      <3>1. Grows /\ SharedOK'
        BY <2>1, <2>2, <2>5, Mine DEF Grows, SharedOK, store, session, history, bounds
      <3> QED
        BY <2>5, <3>1, GotoKeeps DEF Fits, Steps
    <2> QED
      BY <1>2, <2>3, <2>4, <2>5 DEF Load
  <1> QED
    BY <1>1, <1>2

\* Where resume goes on from is as sound as the checkpoint it found.
LEMMA RestatedSound ==
    ASSUME NEW c, Sound(c)
    PROVE  Sound(Restated(c)) /\ Restated(c).state \notin {"paused", "reviewing", "replanning"}
  <1> DEFINE a == IF c.state = "paused" THEN To(c, c.resume) ELSE c
             b == IF a.state = "reviewing" THEN To(a, "verifying") ELSE a
             d == IF b.state = "replanning" THEN To(b, "repairing") ELSE b
  <1>1. Sound(a) /\ a.state /= "paused"
    <2>1. CASE c.state = "paused"
      <3>1. c \in Checkpoint /\ c.resume \in Resumable /\ Stage(c) = c.resume
        BY <2>1 DEF Sound, Ready, Stage
      <3>2. c.resume \in TaskState /\ c.resume /= "paused"
        BY <3>1 DEF Resumable, Executing, TaskState
      <3>3. /\ a \in Checkpoint /\ a.state = c.resume /\ a.plan = c.plan
            /\ a.prop = c.prop /\ a.txn = c.txn
        BY <2>1, <3>1, <3>2, ToFields
      <3> QED
        BY <3>1, <3>2, <3>3 DEF Sound, Ready, Stage
    <2> QED
      BY <2>1
  <1> HIDE DEF a
  <1>2. Sound(b) /\ b.state \notin {"paused", "reviewing"}
    <2>1. CASE a.state = "reviewing"
      <3>1. a \in Checkpoint /\ "verifying" \in TaskState
        BY <1>1 DEF Sound, TaskState
      <3>2. /\ b \in Checkpoint /\ b.state = "verifying" /\ b.plan = a.plan
            /\ b.prop = a.prop /\ b.txn = a.txn
        BY <2>1, <3>1, ToFields
      <3> QED
        BY <1>1, <2>1, <3>2 DEF Sound, Ready, Stage, Executing
    <2> QED
      BY <1>1, <2>1
  <1> HIDE DEF b
  <1>3. Sound(d) /\ d.state \notin {"paused", "reviewing", "replanning"}
    <2>1. CASE b.state = "replanning"
      <3>1. b \in Checkpoint /\ "repairing" \in TaskState
        BY <1>2 DEF Sound, TaskState
      <3>2. /\ d \in Checkpoint /\ d.state = "repairing" /\ d.plan = b.plan
            /\ d.prop = b.prop /\ d.txn = b.txn
        BY <2>1, <3>1, ToFields
      <3> QED
        BY <1>2, <2>1, <3>2 DEF Sound, Ready, Stage, Executing
    <2> QED
      BY <1>2, <2>1
  <1>4. Restated(c) = d
    BY DEF Restated, a, b
  <1> QED
    BY <1>3, <1>4

LEMMA StepRestate == ASSUME IInv, NEW f \in Flows, Restate(f) PROVE IInv'
  <1>1. PICK c : c = Restated(loc[f])
    OBVIOUS
  <1>2. Sound(c) /\ c.state \notin {"paused", "reviewing", "replanning"}
    BY <1>1, Mine, RestatedSound
  <1>3. use' \in Usage /\ UNCHANGED <<store, sbx, bounds>>
    BY Mine DEF Restate, On, Checkpoint
  <1>4. ASSUME NEW p \in {"rpropose", "rapprove"}, Fits(p, c), Save(f, c), Goto(f, p),
               UNCHANGED <<tree, running, cancel, reviewFail, kind, base, history>>
        PROVE  IInv'
    <2>1. Grows /\ SharedOK'
      BY <1>3, <1>4, Mine DEF Grows, SharedOK, store, history, bounds
    <2> QED
      BY <1>2, <1>4, <2>1, SaveKeeps DEF Steps
  <1>5. CASE Restart(f, c)
    <2>1. Grows /\ SharedOK'
      BY <1>3, <1>5, Mine DEF Restart, Grows, SharedOK, store, bounds
    <2> QED
      BY <1>2, <1>5, <2>1, RestartKeeps
  <1>6. CASE c.state \in Executing /\ Detach(f, c, Entry(c.state)) /\ UNCHANGED history
    <2>1. Grows /\ SharedOK'
      BY <1>3, <1>6, Mine DEF Detach, Grows, SharedOK, store, history, bounds
    <2>2. Sound(c)'
      BY <1>2, <2>1, SoundStays
    <2>3. PICK p : p = Entry(c.state)
      OBVIOUS
    <2>4. p \in Steps /\ Fits(p, c)'
      BY <1>2, <1>6, <2>3 DEF Entry, Executing, Fits, Steps
    <2> QED
      BY <1>6, <2>1, <2>2, <2>3, <2>4, MoveKeeps DEF Detach, Save, Kinds
  <1>7. CASE c.state = "planning" /\ c.plan /= 0
    <2>1. \/ /\ Save(f, c) /\ Goto(f, "rpropose")
             /\ UNCHANGED <<tree, running, cancel, reviewFail, kind, base, history>>
          \/ Restart(f, c)
      BY <1>1, <1>7 DEF Restate, Executing
    <2> QED
      BY <1>4, <1>5, <1>7, <2>1 DEF Fits
  <1>8. CASE c.state = "awaiting_approval"
    BY <1>1, <1>4, <1>8 DEF Restate, Executing, Fits
  <1> QED
    BY <1>1, <1>5, <1>6, <1>7, <1>8 DEF Restate

LEMMA StepReapproveOnResume ==
    ASSUME IInv, NEW f \in Flows, ReapproveOnResume(f) PROVE IInv'
  <1>1. loc[f].state = "awaiting_approval"
    BY Mine DEF ReapproveOnResume, On, At, Fits
  <1>2. CASE /\ Detach(f, To(loc[f], "mutating"), "mutate")
             /\ approved' = approved \cup {loc[f].plan} /\ UNCHANGED <<sbx, use>>
    <2>1. PICK n : n = To(loc[f], "mutating")
      OBVIOUS
    <2>2. UNCHANGED <<txns, runs, store, passed, late, bounds>>
      BY DEF ReapproveOnResume, On, store
    <2>3. Grows /\ SharedOK'
      BY <1>1, <1>2, <2>1, <2>2, Approved, Mine DEF Detach, SharedOK, store, bounds
    <2>4. Sound(n)' /\ n.state = "mutating"
      BY <1>1, <1>2, <2>1, <2>2, Approved DEF Sound
    <2> QED
      BY <1>2, <2>1, <2>3, <2>4, MoveKeeps DEF Detach, Save, Fits, Steps, Kinds
  <1>3. CASE cancel' = TRUE /\ Pause(f, loc[f]) /\ UNCHANGED <<tree, use, reviewFail, approved>>
    <2>1. Grows /\ SharedOK'
      BY <1>3, Mine DEF ReapproveOnResume, On, Pause, Return, Suspended, Grows, SharedOK, store, bounds
    <2> QED
      BY <1>3, <2>1, Mine, PauseKeeps
  <1> QED
    BY <1>2, <1>3 DEF ReapproveOnResume
-----------------------------------------------------------------------------
\* Steps that leave every call and every copy of the checkpoint alone.
LEMMA OutsideKeeps == ASSUME IInv, Grows, SharedOK', UNCHANGED <<ck, control>> PROVE IInv'
  <1>1. \A f \in Flows : Sound(loc[f])' /\ Sound(base[f])' /\ Fits(pc[f], loc[f])'
    <2> SUFFICES ASSUME NEW f \in Flows
                 PROVE  Sound(loc[f])' /\ Sound(base[f])' /\ Fits(pc[f], loc[f])'
      OBVIOUS
    <2>1. loc'[f] = loc[f] /\ base'[f] = base[f] /\ pc'[f] = pc[f]
      BY DEF control
    <2>2. Sound(loc[f])' /\ Sound(base[f])'
      BY <2>1, Mine, SoundStays
    <2> QED
      BY <2>1, <2>2, Mine DEF Fits, Grows
  <1>2. Sound(ck)'
    BY SoundStays DEF IInv
  <1> QED
    BY <1>1, <1>2 DEF IInv, FlowsOK, control

\* A dead process leaves no call behind.
LEMMA StepCrash == ASSUME IInv, Crash PROVE IInv'
  <1>1. Grows /\ SharedOK'
    <2>1. NoUse \in Usage /\ crashes' \in Nat
      BY DEF Crash, NoUse, Usage, IInv, SharedOK
    <2>2. late' \in Nat
      BY DEF Crash
    <2> QED
      BY <2>1, <2>2 DEF Crash, NewProcess, Grows, IInv, SharedOK, store, world
  <1>2. Sound(ck)' /\ Sound(NoCk)'
    BY <1>1, NoCkSound, SoundStays DEF IInv, Crash, NewProcess
  <1>3. \A f \in Flows : Sound(loc[f])' /\ Sound(base[f])' /\ Fits(pc[f], loc[f])'
    BY <1>2 DEF Crash, Fits
  <1>4. NoCk \in Checkpoint
    BY NoCkSound DEF Sound
  <1> QED
    BY <1>1, <1>2, <1>3, <1>4 DEF IInv, FlowsOK, Crash, Steps, Kinds

LEMMA StepOutside == ASSUME IInv, Cancel \/ Exit \/ UserEdit PROVE IInv'
  <1>1. CASE Cancel
    BY <1>1, OutsideKeeps
    DEF Cancel, IInv, Grows, SharedOK, store, world, history, bounds
  <1>2. CASE Exit
    BY <1>2, OutsideKeeps
    DEF Exit, NewProcess, IInv, Grows, SharedOK, store, world, NoUse, Usage
  <1>3. CASE UserEdit
    <2>1. SharedOK'
      BY <1>3 DEF UserEdit, Applied, IInv, SharedOK, store, session, history, Contents
    <2> QED
      BY <1>3, <2>1, OutsideKeeps DEF UserEdit, Grows, store, history
  <1> QED
    BY <1>1, <1>2, <1>3

LEMMA StepFault == ASSUME IInv, NEW f \in Flows, Fault(f) PROVE IInv'
  BY ThrowKeeps DEF Fault, IInv, SharedOK

LEMMA StepOverlook == ASSUME IInv, NEW f \in Flows, Overlook(f) PROVE IInv'
  <1>1. PICK p \in {"restored", "retracted"} : Goto(f, p) /\ (p = "restored" <=> At(f, "restore"))
    BY DEF Overlook
  <1>2. Grows /\ SharedOK' /\ UNCHANGED <<ck, kind, loc, base>>
    BY Mine DEF Overlook, Grows, SharedOK, store, world, session, history
  <1>3. p \in Steps /\ Fits(p, loc[f])'
    BY <1>1, <1>2, Mine DEF Overlook, At, Fits, Steps, history, store
  <1> QED
    BY <1>1, <1>2, <1>3, MoveOnKeeps
-----------------------------------------------------------------------------
LEMMA InitIInv == Init => IInv
  <1> SUFFICES ASSUME Init PROVE IInv
    OBVIOUS
  <1>1. NoCk \in Checkpoint /\ Sound(NoCk)
    BY NoCkSound DEF Sound
  <1>2. SharedOK
    BY BoxedAssumption DEF Init, SharedOK, NoUse, Usage, Contents, Clean
  <1>3. FlowsOK
    BY <1>1 DEF Init, FlowsOK, Steps, Kinds, Fits
  <1> QED
    BY <1>1, <1>2, <1>3 DEF IInv, Init

LEMMA StepIInv == IInv /\ [Next]_vars => IInv'
  <1> SUFFICES ASSUME IInv, [Next]_vars PROVE IInv'
    OBVIOUS
  <1>1. CASE UNCHANGED vars
    <2>1. Grows /\ SharedOK'
      BY <1>1 DEF vars, Grows, IInv, SharedOK, store, world, session, history, bounds
    <2> QED
      BY <1>1, <2>1, OutsideKeeps DEF vars
  <1>2. ASSUME NEW f \in Flows, Call(f) PROVE IInv'
    BY <1>2, StepRun, StepResume DEF Call
  <1>3. ASSUME NEW f \in Flows, StartStep(f) \/ ResumeStep(f) PROVE IInv'
    BY <1>3, StepLaunch, StepEnsure, StepContext, StepGathered, StepPlan,
       StepLoad, StepRestate, StepPropose
    DEF StartStep, ResumeStep
  <1>4. ASSUME NEW f \in Flows, LoopStep(f) PROVE IInv'
    <2>1. CASE Mutate(f) \/ Apply(f) \/ Record(f) \/ Count(f) \/ Settle(f) \/ Verify(f) \/ Decide(f) \/ Review(f)
      BY <2>1, StepMutate, StepApply, StepRecord, StepCount, StepSettle, StepVerify, StepDecide, StepReview
    <2>2. CASE Restore(f) \/ Rework(f) \/ Withdraw(f) \/ Repair(f) \/ Repropose(f) \/ Replan(f)
      BY <2>2, StepRestore, StepRework, StepWithdraw, StepRepair, StepRepropose, StepReplan
    <2>3. CASE Accept(f) \/ Promote(f) \/ Deliver(f)
      BY <2>3, StepAccept, StepPromote, StepDeliver
    <2>4. CASE Complete(f) \/ FinishComplete(f) \/ Fail(f) \/ FinishFail(f)
      BY <2>4, StepComplete, StepFinishComplete, StepFail, StepFinishFail
    <2> QED
      BY <1>4, <2>1, <2>2, <2>3, <2>4 DEF LoopStep
  <1>5. ASSUME NEW f \in Flows, Answer(f) PROVE IInv'
    BY <1>5, StepApprove, StepReapprove, StepReapproveOnResume DEF Answer
  <1>6. ASSUME NEW f \in Flows, Fault(f) \/ Overlook(f) PROVE IInv'
    BY <1>6, StepFault, StepOverlook
  <1>7. CASE Cancel \/ Exit \/ Crash \/ UserEdit
    BY <1>7, StepOutside, StepCrash
  <1> QED
    BY <1>1, <1>2, <1>3, <1>4, <1>5, <1>6, <1>7 DEF Next, Work
-----------------------------------------------------------------------------
\* The inductive invariant holds, whatever the constants.
THEOREM Invariance == Spec => []IInv
  BY InitIInv, StepIInv, PTL DEF Spec

\* The state of a runner and of the memory it keeps is what its types say.
THEOREM TypeCorrect == Spec => []TypeOK
  <1>1. IInv => TypeOK
    BY DEF IInv, SharedOK, FlowsOK, Sound, TypeOK
  <1> QED
    BY <1>1, Invariance, PTL

\* The durable checkpoint always names the plan, proposal, transaction and
\* verification that resume looks up (runner.ts:173, 208, 318), whatever number
\* of calls, crashes, failing calls and user edits went before.
THEOREM CheckpointResumable == Spec => []ResumeDataPresent
  <1>1. IInv => ResumeDataPresent
    BY DEF IInv, Sound, ResumeDataPresent
  <1> QED
    BY <1>1, Invariance, PTL

\* No call writes to a tree (runner.ts:163, 193) under a plan that was not
\* approved, also after a repair, a new plan, a pause or a restart.
THEOREM OnlyApprovedMutations == Spec => []MutationsAreApproved
  <1>1. IInv => MutationsAreApproved
    <2> SUFFICES ASSUME IInv, NEW f \in Flows, pc[f] \in {"apply", "deliver"}
                 PROVE  loc[f].plan \in approved
      BY DEF MutationsAreApproved
    <2>1. Stage(loc[f]) \in Executing /\ Sound(loc[f])
      BY Mine DEF Fits, Stage, Executing
    <2> QED
      BY <2>1 DEF Sound
  <1> QED
    BY <1>1, Invariance, PTL

\* ------------------------------------------------------------ one call at a time
\* The proposals that reached a tree, by their transactions.
Written == {d \in Drafts : txns[d] /= "none"}

\* A checkpoint exists once it has a state, and the transaction a verification
\* is about is that of the proposal it is about.
Identified ==
    /\ ck.state = "none" => ck = NoCk
    /\ Stage(ck) \in {"verifying", "reviewing"} => ck.txn = ck.prop

\* Only the change in hand when cancel was called is counted.
LateOK == late <= 1 /\ (late /= 0 => cancel /\ ck /= NoCk)

\* How far the runner and its execution, and how far the checkpoint, may lag
\* behind the transactions: by one for each interruption so far, and by the
\* change in hand until it is counted, or settled.
Lag(steps) == crashes + faults + (IF \E f \in Flows : pc[f] \in steps THEN 1 ELSE 0)
Uncounted  == Lag({"count"})
Unsettled  == Lag({"count", "settle"})

\* The execution, its runner and its checkpoint each count the proposals
\* written, but for their lag; whichever of them is used to restore another,
\* no count is worse than that. A failed checkpoint may be older.
CountsOK ==
    /\ exec.it = 0 => use.it = 0 /\ ck.use.it = 0
    /\ exec.it > 0 =>
         /\ Cardinality(Written) <= exec.mut + Uncounted /\ exec.mut <= MaxMutations
         /\ Autonomous => Cardinality(Written) <= use.mut + Uncounted /\ use.mut <= MaxMutations
         /\ ck.state /= "failed" =>
              /\ ck.use.it > 0
              /\ Cardinality(Written) <= ck.use.mut + Unsettled /\ ck.use.mut <= MaxMutations
    /\ ck = NoCk => exec.it = 0 /\ Written = {}

\* The steps a cancelled call still takes after its change.
LastSteps == {"idle", "record", "count", "settle", "complete", "finishComplete", "fail", "finishFail"}

\* The steps at which the runner may not have its execution (again).
Unloaded == {"idle", "launch", "load", "restate", "fail", "finishFail"}

\* A call works on the durable checkpoint; only the one it hands to `fail' may
\* be older. An idle call holds nothing.
CallOK(f) ==
    /\ pc[f] = "idle" => loc[f] = NoCk /\ base[f] = NoCk
    /\ pc[f] /= "idle" => loc[f].state /= "none" /\ ck.state /= "none"
    /\ pc[f] \notin {"idle", "fail"} => loc[f] = ck
    /\ base[f] = NoCk \/ base[f].state /= "none"
    /\ pc[f] = "restate" => ck.state /= "failed"
    /\ late /= 0 => pc[f] \in LastSteps
    /\ exec.it = 0 => loc[f].use.it = 0 /\ base[f].use.it = 0
    /\ exec.it > 0 /\ pc[f] \notin Unloaded => Autonomous
    /\ pc[f] = "launch" => exec.it = 0 /\ Written = {}
    /\ pc[f] \in {"apply", "record", "count"} /\ Autonomous => use.mut < MaxMutations
    /\ pc[f] = "count" => Autonomous

TaskOK == Identified /\ LateOK /\ CountsOK

LoneInv == TaskOK /\ \A f \in Flows : CallOK(f)
-----------------------------------------------------------------------------
\* Two states in a row in which no two calls are at work.
Apart == IInv /\ LoneInv /\ OneCallAtATime /\ OneCallAtATime'

\* A step that interrupts nothing between a transaction and its checkpoint.
Steady == Uncounted' = Uncounted /\ Unsettled' = Unsettled

\* What a step does to its call: it moves on, it saves a checkpoint and moves
\* on, it ends, or it fails.
Stays(f, p)    == Only(f) /\ pc'[f] = p /\ ck' = ck /\ loc'[f] = loc[f] /\ base'[f] = base[f]
Saves(f, p, c) == Only(f) /\ pc'[f] = p /\ ck' = c /\ loc'[f] = c /\ base'[f] = base[f]
Ends(f)        == Only(f) /\ pc'[f] = "idle" /\ loc'[f] = NoCk /\ base'[f] = NoCk
Fails(f)       == /\ Only(f) /\ pc'[f] = "fail" /\ base'[f] = base[f]
                  /\ loc'[f] = ck \/ (loc'[f] = base[f] /\ base[f] /= NoCk) \/ loc'[f] = loc[f]

LEMMA GotoStays ==
    ASSUME IInv, NEW f \in Flows, NEW p, Goto(f, p), UNCHANGED <<ck, kind, loc, base>>
    PROVE  Stays(f, p)
  BY DEF Goto, Stays, Only, IInv, FlowsOK

LEMMA GotoSaves ==
    ASSUME IInv, NEW f \in Flows, NEW p, NEW c, Goto(f, p), Save(f, c),
           \/ UNCHANGED <<kind, base>>
           \/ UNCHANGED base /\ \E k \in Kinds : kind' = [kind EXCEPT ![f] = k]
    PROVE  Saves(f, p, c)
  BY DEF Goto, Save, Saves, Only, IInv, FlowsOK

LEMMA ReturnIsEnd == ASSUME IInv, NEW f \in Flows, Return(f) PROVE Ends(f)
  BY DEF Return, Goto, Ends, Only, IInv, FlowsOK

LEMMA ThrowIsFailure ==
    ASSUME IInv, NEW f \in Flows, Throw(f)
    PROVE  Ends(f) \/ Fails(f)
  <1>1. CASE Return(f)
    BY <1>1, ReturnIsEnd
  <1>2. CASE ~Return(f)
    BY <1>2 DEF Throw, Start, Goto, Fails, Only, IInv, FlowsOK
  <1> QED
    BY <1>1, <1>2

LEMMA NoCkIs == NoCk.state = "none" /\ NoCk.use.it = 0 /\ NoCk.use.mut = 0 /\ Stage(NoCk) = "none"
  BY DEF NoCk, NoUse, Stage

\* While a call works, the other ones are idle; so a step keeps the invariant
\* if it does for the task and for its own call.
LEMMA Keeps ==
    ASSUME Apart, NEW f \in Flows, Only(f), pc[f] /= "idle" \/ pc'[f] /= "idle", TaskOK', CallOK(f)'
    PROVE  LoneInv'
  <1>1. ASSUME NEW g \in Flows \ {f} PROVE CallOK(g)'
    <2>1. pc'[g] = pc[g] /\ loc'[g] = loc[g] /\ base'[g] = base[g]
      BY DEF Only
    <2>2. pc[g] = "idle"
      BY <2>1 DEF Apart, OneCallAtATime, At
    <2>3. loc'[g] = NoCk /\ base'[g] = NoCk
      BY <2>1, <2>2 DEF Apart, LoneInv, CallOK
    <2> QED
      BY <2>1, <2>2, <2>3, NoCkIs DEF CallOK, LastSteps, Unloaded
  <1> QED
    BY <1>1 DEF LoneInv

\* The invariant holds for the task as long as these do not change.
LEMMA TaskSame ==
    ASSUME TaskOK, UNCHANGED <<ck, exec, use, cancel, late>>, Written' = Written, Steady
    PROVE  TaskOK'
  BY DEF Steady, TaskOK, Identified, LateOK, CountsOK, Stage, Autonomous

\* Nor does a new state of the checkpoint matter to it.
LEMMA TaskMoved ==
    ASSUME TaskOK, Steady, UNCHANGED <<exec, use>>, Written' = Written,
           late' <= 1, late' /= 0 => cancel',
           ck'.state /= "none", ck'.use = ck.use, ck.state = "failed" => ck'.state = "failed",
           Stage(ck)' \in {"verifying", "reviewing"} => ck'.txn = ck'.prop
    PROVE  TaskOK'
  BY NoCkIs DEF Steady, TaskOK, Identified, LateOK, CountsOK, Autonomous

LEMMA EndKeeps ==
    ASSUME Apart, NEW f \in Flows, pc[f] /= "idle", Ends(f), TaskOK' PROVE LoneInv'
  <1>1. CallOK(f)'
    BY NoCkIs DEF Ends, CallOK, LastSteps, Unloaded
  <1> QED
    BY <1>1, Keeps DEF Ends

LEMMA ThrowIsLone ==
    ASSUME Apart, NEW f \in Flows, pc[f] /= "idle", Throw(f), TaskOK' PROVE LoneInv'
  <1>1. UNCHANGED <<ck, exec, use, cancel, late>> /\ Written' = Written
    BY DEF Throw, store, flags, history, Written
  <1>2. CASE Ends(f)
    BY <1>2, EndKeeps
  <1>3. CASE Fails(f)
    <2>1. CallOK(f) /\ TaskOK
      BY DEF Apart, LoneInv
    <2>2. CallOK(f)'
      BY <1>1, <1>3, <2>1, NoCkIs DEF Fails, CallOK, TaskOK, CountsOK, Identified, LastSteps, Unloaded
    <2> QED
      BY <1>3, <2>2, Keeps DEF Fails
  <1> QED
    BY <1>2, <1>3, ThrowIsFailure DEF Apart

LEMMA ThrowKeepsLone ==
    ASSUME Apart, Steady, NEW f \in Flows, pc[f] /= "idle", Throw(f) PROVE LoneInv'
  <1>1. UNCHANGED <<ck, exec, use, cancel, late>> /\ Written' = Written
    BY DEF Throw, store, flags, history, Written
  <1>2. TaskOK'
    BY <1>1, TaskSame DEF Apart, LoneInv
  <1> QED
    BY <1>2, ThrowIsLone

\* Between the changes of a lone call nothing is in hand.
LEMMA NoneInHand ==
    ASSUME Apart, NEW f \in Flows, pc[f] \notin {"idle", "count", "settle"} PROVE Uncounted = Unsettled
  <1>1. \A g \in Flows : pc[g] \notin {"count", "settle"}
    BY DEF Apart, OneCallAtATime, At
  <1> QED
    BY <1>1 DEF Uncounted, Unsettled, Lag

LEMMA LagNat == ASSUME SharedOK PROVE Uncounted \in Nat /\ Unsettled \in Nat
  <1>1. crashes \in Nat /\ faults \in Nat
    BY DEF SharedOK
  <1> QED
    BY <1>1 DEF Uncounted, Unsettled, Lag

LEMMA NoneInHandYet ==
    ASSUME Apart, Steady, NEW f \in Flows, pc[f] \notin {"idle", "count", "settle"}
    PROVE  Uncounted \in Nat /\ Unsettled = Uncounted /\ Uncounted' = Uncounted /\ Unsettled' = Uncounted
  BY NoneInHand, LagNat DEF Apart, IInv, Steady

\* What the invariants say of the call that takes the step.
LEMMA Hand ==
    ASSUME Apart, NEW f \in Flows
    PROVE  /\ CallOK(f) /\ TaskOK /\ IInv /\ Sound(ck) /\ Fits(pc[f], loc[f]) /\ SharedOK
           /\ ck \in Checkpoint /\ loc[f] \in Checkpoint /\ pc[f] \in Steps
           /\ use \in Usage /\ exec \in Usage
  BY Mine DEF Apart, LoneInv, IInv, Sound, SharedOK

LEMMA PauseKeepsLone ==
    ASSUME Apart, Steady, NEW f \in Flows, pc[f] /= "idle", NEW c \in Checkpoint, Pause(f, c),
           c.use = ck.use, ck.state /= "failed", c.state \in {"verifying", "reviewing"} => c.txn = c.prop,
           UNCHANGED <<exec, use>>, Written' = Written, late' <= 1, late' /= 0 => cancel'
    PROVE  LoneInv'
  <1>1. c.state \in Resumable
    BY PausedIsResumable DEF Pause, Checkpoint, canTransition, Transitions, TaskState
  <1>2. /\ ck'.state = "paused" /\ ck'.use = ck.use /\ Stage(ck') = c.state
        /\ ck'.txn = c.txn /\ ck'.prop = c.prop
    BY <1>1, ToFields DEF Pause, TaskState, Stage
  <1>3. TaskOK'
    BY <1>2, TaskMoved DEF Apart, LoneInv, Stage
  <1> QED
    BY <1>3, EndKeeps, ReturnIsEnd DEF Pause, Apart

LEMMA BudgetPauseKeeps ==
    ASSUME Apart, Steady, NEW f \in Flows, pc[f] \notin {"idle", "fail", "count", "settle"},
           Autonomous, PauseForBudget(f)
    PROVE  LoneInv'
  <1>1. loc[f] = ck /\ loc[f].state \in Resumable /\ loc[f].state /= "failed"
    BY Hand, PausedIsResumable
    DEF PauseForBudget, CallOK, Checkpoint, canTransition, Transitions, TaskState
  <1>2. /\ ck'.state = "paused" /\ ck'.use = use /\ Stage(ck') = ck.state
        /\ ck'.txn = ck.txn /\ ck'.prop = ck.prop
    BY <1>1, Hand, ToFields DEF PauseForBudget, TaskState, Stage, Checkpoint
  <1>3. exec' = use /\ UNCHANGED <<use, cancel, late>> /\ Written' = Written
    BY DEF PauseForBudget, flags, history, Written
  <1>4. TaskOK'
    <2>1. TaskOK /\ use \in Usage /\ exec \in Usage
      BY Hand
    <2>2. Unsettled' = Uncounted /\ Uncounted' = Uncounted
      BY NoneInHandYet
    <2>3. Identified' /\ LateOK'
      BY <1>1, <1>2, <1>3, <2>1, NoCkIs DEF TaskOK, Identified, LateOK, Stage
    <2>4. CountsOK'
      <3>1. use.it > 0 /\ exec.it > 0
        BY <2>1 DEF TaskOK, CountsOK, Autonomous, Usage
      <3>2. Cardinality(Written) <= use.mut + Uncounted /\ use.mut <= MaxMutations
        BY <2>1, <3>1 DEF TaskOK, CountsOK
      <3>3. ck' /= NoCk
        BY <1>2, NoCkIs
      <3> QED
        BY <1>2, <1>3, <2>2, <3>1, <3>2, <3>3 DEF CountsOK, Autonomous
    <2> QED
      BY <2>3, <2>4 DEF TaskOK
  <1> QED
    BY <1>4, EndKeeps, ReturnIsEnd DEF PauseForBudget, Apart

LEMMA StayKeeps ==
    ASSUME Apart, NEW f \in Flows, NEW p \in Steps \ {"idle", "launch", "restate"},
           pc[f] \notin {"idle", "fail"}, Stays(f, p), TaskOK', UNCHANGED <<exec, use>>,
           late' /= 0 => p \in LastSteps, p \notin Unloaded => pc[f] \notin Unloaded,
           p \in {"apply", "record"} /\ Autonomous => use.mut < MaxMutations, p /= "count"
    PROVE  LoneInv'
  <1>1. CallOK(f)'
    BY Hand DEF CallOK, Stays, Autonomous, Unloaded
  <1> QED
    BY <1>1, Keeps DEF Stays

LEMMA SaveKeepsLone ==
    ASSUME Apart, NEW f \in Flows, NEW p \in Steps \ {"idle", "launch", "restate", "apply", "record", "count"},
           NEW c, pc[f] /= "idle", Saves(f, p, c), c.state /= "none", TaskOK',
           exec'.it = 0 => exec.it = 0, late' /= 0 => p \in LastSteps,
           exec'.it > 0 /\ p \notin Unloaded => Autonomous'
    PROVE  LoneInv'
  <1>1. CallOK(f)'
    BY Hand DEF CallOK, Saves, Unloaded, TaskOK, CountsOK
  <1> QED
    BY <1>1, Keeps DEF Saves
-----------------------------------------------------------------------------
\* The steps of the mutation loop.
LEMMA LoneMutate == ASSUME Apart, Steady, NEW f \in Flows, Mutate(f) PROVE LoneInv'
  <1>1. pc[f] = "mutate"
    BY DEF Mutate, On, At
  <1>2. CASE Autonomous /\ PauseForBudget(f)
    BY <1>1, <1>2, BudgetPauseKeeps
  <1>3. CASE Throw(f)
    BY <1>1, <1>3, ThrowKeepsLone
  <1>4. CASE \E p \in {"fail", "apply"} :
                /\ Goto(f, p) /\ UNCHANGED <<ck, store, world, session, kind, loc, base, history>>
                /\ p = "apply" => ~MutationsSpent
    <2>1. PICK p \in {"fail", "apply"} :
                /\ Goto(f, p) /\ UNCHANGED <<ck, store, world, session, kind, loc, base, history>>
                /\ p = "apply" => ~MutationsSpent
      BY <1>4
    <2>2. UNCHANGED <<ck, exec, use, cancel, late>> /\ Written' = Written
      BY <2>1 DEF store, session, history, Written
    <2>3. TaskOK' /\ Stays(f, p) /\ late = 0
      BY <1>1, <2>1, <2>2, Hand, TaskSame, GotoStays DEF CallOK, LastSteps
    <2>4. use.mut \in Int /\ MaxMutations \in Int /\ p \in Steps
      BY Hand, PolicyAssumption DEF Usage, Steps
    <2> QED
      BY <1>1, <2>1, <2>2, <2>3, <2>4, StayKeeps DEF MutationsSpent, Unloaded
  <1> QED
    BY <1>2, <1>3, <1>4 DEF Mutate

\* The change in hand counts once the call was cancelled, and only then.
LEMMA LateChangeOK ==
    ASSUME LateOK, late = 0, ck /= NoCk, late' = LateChange, UNCHANGED <<ck, cancel>>
    PROVE  LateOK'
  BY DEF LateOK, LateChange

LEMMA ChangeKeeps ==
    ASSUME Apart, Steady, NEW f \in Flows, NEW p \in {"record", "complete"}, pc[f] \in {"apply", "deliver"},
           Stays(f, p), late' = LateChange, UNCHANGED <<exec, use, cancel>>, Written' = Written,
           p = "record" => pc[f] = "apply"
    PROVE  LoneInv'
  <1>1. TaskOK' /\ p \in Steps
    <2>1. late = 0 /\ ck /= NoCk
      BY Hand, NoCkIs DEF CallOK, LastSteps
    <2>2. LateOK'
      BY <2>1, Hand, LateChangeOK DEF TaskOK, Stays
    <2> QED
      BY <2>2, Hand DEF Steady, TaskOK, Identified, CountsOK, Stays, Stage, Autonomous, Steps
  <1>2. p \in {"apply", "record"} /\ Autonomous => use.mut < MaxMutations
    BY Hand DEF CallOK
  <1> QED
    BY <1>1, <1>2, StayKeeps DEF LastSteps, Unloaded

LEMMA LoneApply == ASSUME Apart, Steady, NEW f \in Flows, Apply(f) \/ Deliver(f) PROVE LoneInv'
  <1>1. CASE Apply(f)
    BY <1>1, ChangeKeeps, GotoStays DEF Apply, On, At, Apart, store, session, Written
  <1>2. CASE Deliver(f)
    BY <1>2, ChangeKeeps, GotoStays DEF Deliver, On, At, Apart, store, session, Written
  <1> QED
    BY <1>1, <1>2

\* Steps that only move on: nothing that counts changes.
LEMMA OnlyMovesOn ==
    ASSUME Apart, Steady, NEW f \in Flows, NEW p \in Steps \ ({"apply", "record", "count"} \cup Unloaded),
           pc[f] \notin {"idle", "fail"} \cup Unloaded \cup LastSteps, Goto(f, p),
           UNCHANGED <<ck, exec, use, cancel, late, kind, loc, base>>, Written' = Written
    PROVE  LoneInv'
  <1>1. TaskOK' /\ Stays(f, p) /\ late = 0
    BY Hand, TaskSame, GotoStays DEF CallOK
  <1> QED
    BY <1>1, StayKeeps DEF Unloaded

LEMMA LoneVerify == ASSUME Apart, Steady, NEW f \in Flows, Verify(f) PROVE LoneInv'
  <1>1. pc[f] = "verify"
    BY DEF Verify, On, At
  <1>2. CASE Autonomous /\ PauseForBudget(f)
    BY <1>1, <1>2, BudgetPauseKeeps
  <1>3. CASE Throw(f)
    BY <1>1, <1>3, ThrowKeepsLone
  <1>4. CASE \E p \in {"restore", "decide", "verified"} :
                /\ Goto(f, p) /\ UNCHANGED <<ck, exec, txns, use, cancel, late, kind, loc, base>>
    BY <1>1, <1>4, OnlyMovesOn DEF Written, Steps, Unloaded, LastSteps
  <1>5. CASE Pause(f, loc[f]) /\ UNCHANGED <<exec, txns, use, cancel, late>>
    <2>1. loc[f] = ck /\ ck.state = "verifying" /\ loc[f] \in Checkpoint /\ TaskOK
      BY <1>1, Hand DEF CallOK, Fits
    <2> QED
      BY <1>1, <1>5, <2>1, PauseKeepsLone DEF Written, TaskOK, Identified, LateOK, Stage
  <1> QED
    BY <1>2, <1>3, <1>4, <1>5 DEF Verify, session, flags, history, store

LEMMA LoneDecide == ASSUME Apart, Steady, NEW f \in Flows, Decide(f) PROVE LoneInv'
  <1>1. pc[f] = "decide" /\ UNCHANGED <<exec, txns, use, cancel, late, kind, base>> /\ Written' = Written
    BY DEF Decide, On, At, store, session, history, Written
  <1>2. CASE Goto(f, "retract") /\ UNCHANGED <<ck, loc>>
    BY <1>1, <1>2, OnlyMovesOn DEF Steps, Unloaded, LastSteps
  <1>3. CASE SetState(f, loc[f], "reviewing") /\ Goto(f, "review")
    <2>1. loc[f] = ck /\ ck.state = "verifying" /\ ck \in Checkpoint /\ TaskOK /\ late = 0
      BY <1>1, Hand DEF CallOK, Fits, LastSteps
    <2>2. PICK c : c = To(ck, "reviewing")
      OBVIOUS
    <2>3. /\ c.state = "reviewing" /\ c.use = ck.use /\ Stage(c) = "reviewing"
          /\ c.txn = ck.txn /\ c.prop = ck.prop
      BY <2>1, <2>2, ToFields DEF TaskState, Stage
    <2>4. Saves(f, "review", c)
      BY <1>1, <1>3, <2>1, <2>2, GotoSaves DEF SetState, Apart
    <2>5. TaskOK'
      BY <1>1, <2>1, <2>3, <2>4, TaskMoved DEF Saves, TaskOK, Identified, Stage
    <2>6. exec.it > 0 => Autonomous
      BY <1>1, Hand DEF CallOK, Unloaded
    <2> QED
      BY <1>1, <2>1, <2>3, <2>4, <2>5, <2>6, SaveKeepsLone DEF Steps, Autonomous
  <1> QED
    BY <1>2, <1>3 DEF Decide

LEMMA WrittenCounts == ASSUME SharedOK PROVE IsFiniteSet(Written) /\ Cardinality(Written) \in Nat
  <1>1. IsFiniteSet(1 .. MaxDrafts)
    BY FS_Interval, BoundsAssumption
  <1> QED
    BY <1>1, FS_Subset, FS_CardinalityType DEF Written, Drafts

\* How far the counts lag depends on the one call at work.
LEMMA HandLag ==
    ASSUME Apart, NEW f \in Flows, Only(f), pc[f] /= "idle", UNCHANGED <<crashes, faults>>,
           NEW S, "idle" \notin S
    PROVE  /\ Lag(S) \in Nat /\ Lag(S) = crashes + faults + (IF pc[f] \in S THEN 1 ELSE 0)
           /\ Lag(S)' = crashes + faults + (IF pc'[f] \in S THEN 1 ELSE 0)
  <1>1. \A g \in Flows \ {f} : pc'[g] = pc[g] /\ pc[g] = "idle"
    BY DEF Apart, Only, OneCallAtATime, At
  <1>2. crashes \in Nat /\ faults \in Nat
    BY Hand DEF SharedOK
  <1>3. (\E g \in Flows : pc[g] \in S) <=> pc[f] \in S
    BY <1>1
  <1>4. (\E g \in Flows : pc'[g] \in S) <=> pc'[f] \in S
    BY <1>1
  <1> QED
    BY <1>2, <1>3, <1>4 DEF Lag

\* One transaction adds one proposal at most to those written.
LEMMA OneMore ==
    ASSUME SharedOK, NEW d \in Drafts, txns' = [txns EXCEPT ![d] = "applied"]
    PROVE  /\ Cardinality(Written) \in Nat /\ Cardinality(Written') \in Nat
           /\ Cardinality(Written') <= Cardinality(Written) + 1
  <1>1. Written' = Written \cup {d}
    BY DEF Written, SharedOK
  <1>2. Cardinality(Written \cup {d}) = IF d \in Written THEN Cardinality(Written) ELSE Cardinality(Written) + 1
    BY WrittenCounts, FS_AddElement
  <1> QED
    BY <1>1, <1>2, WrittenCounts

\* A proposal that is being verified has its transaction already.
LEMMA RollBackWrites ==
    ASSUME Apart, NEW f \in Flows, loc[f] = ck, ck.state \in {"verifying", "reviewing"},
           NEW s \in {"rolled_back", "verified"}, txns' = [txns EXCEPT ![loc[f].prop] = s]
    PROVE  Written' = Written
  <1>1. ck.prop = ck.txn /\ ck.txn /= 0 /\ txns[ck.txn] /= "none" /\ ck.txn \in Drafts
    BY Hand DEF TaskOK, Identified, Stage, Sound, Ready, Checkpoint
  <1> QED
    BY <1>1, Hand DEF Written, SharedOK

\* Where a step that is not loaded with a change saves a checkpoint on its way.
LEMMA SaveOnTheWay ==
    ASSUME Apart, Steady, NEW f \in Flows, NEW p \in Steps \ ({"apply", "record", "count"} \cup Unloaded),
           NEW c, pc[f] \notin Unloaded \cup LastSteps, Saves(f, p, c),
           c.state \in TaskState \ {"failed", "paused", "verifying", "reviewing"},
           c.use = use \/ (c.use = ck.use /\ ck.state /= "failed"),
           UNCHANGED <<exec, use, cancel, late>>, Written' = Written
    PROVE  LoneInv'
  <1>1. CallOK(f) /\ TaskOK /\ late = 0 /\ (exec.it > 0 => Autonomous) /\ c.state /= "none"
    BY Hand DEF CallOK, TaskState
  <1>2. TaskOK'
    <2>1. ck' = c /\ exec \in Usage /\ use \in Usage /\ c /= NoCk /\ late' = 0
      BY <1>1, Hand, NoCkIs DEF Saves
    <2>2. Unsettled = Uncounted /\ Unsettled' = Uncounted /\ Uncounted' = Uncounted
      BY NoneInHandYet DEF Unloaded, LastSteps
    <2>3. Identified' /\ LateOK'
      BY <1>1, <2>1, NoCkIs DEF TaskOK, Identified, LateOK, Stage
    <2>4. ASSUME exec.it > 0 PROVE CountsOK'
      <3>1. /\ Cardinality(Written) <= exec.mut + Uncounted /\ exec.mut <= MaxMutations
            /\ Cardinality(Written) <= use.mut + Uncounted /\ use.mut <= MaxMutations /\ use.it > 0
        BY <1>1, <2>1, <2>4 DEF TaskOK, CountsOK, Autonomous, Usage
      <3>2. /\ Cardinality(Written) <= c.use.mut + Uncounted /\ c.use.mut <= MaxMutations /\ c.use.it > 0
        BY <1>1, <2>2, <2>4, <3>1 DEF TaskOK, CountsOK
      <3> QED
        BY <2>1, <2>2, <2>4, <3>1, <3>2 DEF CountsOK
    <2>5. ASSUME exec.it = 0 PROVE CountsOK'
      BY <1>1, <2>1, <2>5 DEF TaskOK, CountsOK
    <2> QED
      BY <2>1, <2>3, <2>4, <2>5 DEF TaskOK, Usage
  <1> QED
    BY <1>1, <1>2, SaveKeepsLone DEF Autonomous, Unloaded

LEMMA LoneRecord == ASSUME Apart, NEW f \in Flows, Record(f) PROVE LoneInv'
  <1>1. /\ pc[f] = "record" /\ loc[f] = ck /\ ck.prop \in Drafts /\ TaskOK /\ CallOK(f)
        /\ (exec.it > 0 => Autonomous) /\ exec \in Usage /\ use \in Usage /\ ck.use \in Usage
    BY Hand DEF Record, On, At, CallOK, Fits, Sound, Ready, Stage, Checkpoint, Executing, Unloaded
  <1>2. PICK p : p = IF Autonomous THEN "count" ELSE "settle"
    OBVIOUS
  <1>3. /\ Goto(f, p) /\ UNCHANGED <<ck, exec, use, cancel, late, kind, loc, base, crashes, faults>>
        /\ txns' = [txns EXCEPT ![ck.prop] = "applied"]
    BY <1>1, <1>2 DEF Record, On, session, history, bounds
  <1>4. Stays(f, p) /\ p \in Steps
    BY <1>2, <1>3, GotoStays DEF Apart, Steps
  <1>5. Cardinality(Written) \in Nat /\ Cardinality(Written') \in Nat
        /\ Cardinality(Written') <= Cardinality(Written) + 1
    BY <1>1, <1>3, Hand, OneMore
  <1>6. /\ Uncounted \in Nat /\ Uncounted' = Uncounted + (IF Autonomous THEN 1 ELSE 0)
        /\ Unsettled \in Nat /\ Unsettled' = Unsettled + 1
    <2>1. /\ crashes + faults \in Nat /\ pc'[f] = p /\ Only(f)
          /\ \A S : "idle" \notin S => /\ Lag(S) = crashes + faults + (IF pc[f] \in S THEN 1 ELSE 0)
                                       /\ Lag(S)' = crashes + faults + (IF pc'[f] \in S THEN 1 ELSE 0)
      <3>1. crashes + faults \in Nat
        BY Hand DEF SharedOK
      <3>2. Only(f) /\ pc'[f] = p
        BY <1>4 DEF Stays
      <3>3. ASSUME NEW S, "idle" \notin S
            PROVE  /\ Lag(S) = crashes + faults + (IF pc[f] \in S THEN 1 ELSE 0)
                   /\ Lag(S)' = crashes + faults + (IF pc'[f] \in S THEN 1 ELSE 0)
        BY <1>1, <1>3, <3>2, <3>3, HandLag
      <3> QED
        BY <3>1, <3>2, <3>3
    <2>2. Uncounted = crashes + faults /\ Unsettled = crashes + faults
      BY <1>1, <2>1 DEF Uncounted, Unsettled
    <2>3. Unsettled' = crashes + faults + 1
      BY <1>2, <2>1 DEF Unsettled
    <2>4. Uncounted' = crashes + faults + (IF Autonomous THEN 1 ELSE 0)
      BY <1>2, <2>1 DEF Uncounted
    <2> QED
      BY <2>1, <2>2, <2>3, <2>4
  <1>7. CountsOK'
    BY <1>1, <1>3, <1>5, <1>6, NoCkIs DEF TaskOK, CountsOK, CallOK, Autonomous, Usage
  <1>8. TaskOK'
    BY <1>1, <1>3, <1>7 DEF TaskOK, Identified, LateOK, Stage
  <1>9. CallOK(f)'
    BY <1>1, <1>2, <1>3, <1>4 DEF CallOK, Stays, Autonomous, LastSteps, Unloaded
  <1> QED
    BY <1>1, <1>4, <1>8, <1>9, Keeps DEF Stays

LEMMA LoneCount == ASSUME Apart, NEW f \in Flows, Count(f) PROVE LoneInv'
  <1>1. /\ pc[f] = "count" /\ loc[f] = ck /\ TaskOK /\ CallOK(f) /\ Autonomous
        /\ exec \in Usage /\ use \in Usage /\ use.mut < MaxMutations /\ MaxMutations \in Nat
    BY Hand, PolicyAssumption DEF Count, On, At, CallOK
  <1>2. /\ Stays(f, "settle") /\ UNCHANGED <<txns, cancel, late, crashes, faults>> /\ Written' = Written
        /\ use' = [use EXCEPT !.mut = @ + 1] /\ exec' = use'
    BY GotoStays DEF Count, On, Apart, history, bounds, Written
  <1>3. use'.it = use.it /\ use'.mut = use.mut + 1 /\ use.it > 0
    BY <1>1, <1>2 DEF Usage, Autonomous
  <1>4. /\ Uncounted' \in Nat /\ Uncounted = Uncounted' + 1 /\ Unsettled' = Unsettled
    <2>1. crashes + faults \in Nat /\ pc'[f] = "settle" /\ Only(f)
      BY <1>2, Hand DEF SharedOK, Stays
    <2>2. ASSUME NEW S, "idle" \notin S
          PROVE  /\ Lag(S) = crashes + faults + (IF pc[f] \in S THEN 1 ELSE 0)
                 /\ Lag(S)' = crashes + faults + (IF pc'[f] \in S THEN 1 ELSE 0)
      BY <1>1, <1>2, <2>1, <2>2, HandLag
    <2>3. Uncounted = crashes + faults + 1 /\ Unsettled = crashes + faults + 1
      BY <1>1, <2>2 DEF Uncounted, Unsettled
    <2>4. Uncounted' = crashes + faults
      BY <2>1, <2>2 DEF Uncounted
    <2>5. Unsettled' = crashes + faults + 1
      BY <2>1, <2>2 DEF Unsettled
    <2> QED
      BY <2>1, <2>3, <2>4, <2>5
  <1>5. Cardinality(Written) \in Nat
    BY Hand, WrittenCounts
  <1>6. exec.it > 0
    BY <1>1, <1>3 DEF TaskOK, CountsOK, Usage
  <1>7. CountsOK'
    <2>1. Cardinality(Written') <= exec'.mut + Uncounted' /\ exec'.mut <= MaxMutations
      BY <1>1, <1>2, <1>3, <1>4, <1>5, <1>6 DEF TaskOK, CountsOK, Usage
    <2>2. ck' = ck /\ ck /= NoCk
      BY <1>1, <1>2, <1>6 DEF Stays, TaskOK, CountsOK, Usage
    <2> QED
      BY <1>1, <1>2, <1>3, <1>4, <1>6, <2>1, <2>2 DEF TaskOK, CountsOK, Usage
  <1>8. TaskOK'
    BY <1>1, <1>2, <1>7 DEF Stays, TaskOK, Identified, LateOK, Stage
  <1>9. CallOK(f)'
    BY <1>1, <1>2, <1>3, <1>6 DEF CallOK, Stays, Autonomous, LastSteps, Unloaded
  <1> QED
    BY <1>1, <1>2, <1>8, <1>9, Keeps DEF Stays

LEMMA LoneSettle == ASSUME Apart, NEW f \in Flows, Settle(f) PROVE LoneInv'
  <1>1. /\ pc[f] = "settle" /\ loc[f] = ck /\ ck.state = "mutating" /\ ck.prop \in Drafts /\ ck \in Checkpoint
        /\ TaskOK /\ CallOK(f) /\ use \in Usage /\ exec \in Usage /\ (exec.it > 0 => Autonomous)
    BY Hand DEF Settle, On, At, CallOK, Fits, Sound, Ready, Stage, Checkpoint, Executing, Unloaded
  <1>2. PICK v : v = [To(ck, "verifying") EXCEPT !.txn = ck.prop]
    OBVIOUS
  <1>3. PICK c : c = [v EXCEPT !.use = use]
    OBVIOUS
  <1>4. To(ck, "verifying") \in Checkpoint /\ To(ck, "verifying").state = "verifying"
        /\ To(ck, "verifying").prop = ck.prop
    BY <1>1, ToFields DEF TaskState
  <1>5. v \in Checkpoint /\ v.state = "verifying" /\ v.txn = ck.prop /\ v.prop = ck.prop
    BY <1>1, <1>2, <1>4 DEF Checkpoint
  <1>6. c \in Checkpoint /\ c.state = "verifying" /\ c.use = use /\ c.txn = c.prop
    BY <1>1, <1>3, <1>5 DEF Checkpoint
  <1>7. c = [To(loc[f], "verifying") EXCEPT !.txn = loc[f].prop, !.use = use]
    BY <1>1, <1>2, <1>3, Zenon
  <1>8. /\ UNCHANGED <<txns, exec, use, cancel, late, crashes, faults>> /\ Written' = Written
        /\ IF AtBoundary THEN Pause(f, c) ELSE Save(f, c) /\ Goto(f, "verify") /\ UNCHANGED <<kind, base>>
    BY <1>7 DEF Settle, On, store, flags, history, bounds, Written
  <1>9. ASSUME Only(f), pc'[f] \in {"idle", "verify"}
        PROVE  Uncounted' = Uncounted /\ Unsettled' = Uncounted
    BY <1>1, <1>8, <1>9, HandLag DEF Uncounted, Unsettled
  <1>10. ASSUME NEW k, ck' = k, k.use = use, k.state \in {"verifying", "paused"}, Stage(k) = "verifying",
                k.txn = k.prop, Uncounted' = Uncounted, Unsettled' = Uncounted
         PROVE  TaskOK'
    <2>1. CountsOK'
      BY <1>1, <1>8, <1>10, NoCkIs DEF TaskOK, CountsOK, Autonomous
    <2>2. Identified' /\ LateOK'
      BY <1>1, <1>8, <1>10, NoCkIs DEF TaskOK, Identified, LateOK, Stage
    <2> QED
      BY <2>1, <2>2 DEF TaskOK
  <1>11. CASE AtBoundary
    <2>1. /\ To(c, "paused").state = "paused" /\ To(c, "paused").use = use
          /\ Stage(To(c, "paused")) = "verifying" /\ To(c, "paused").txn = To(c, "paused").prop
      BY <1>6, ToFields DEF TaskState, Resumable, Executing, Stage
    <2>2. Pause(f, c) /\ ck' = To(c, "paused") /\ Ends(f)
      BY <1>8, <1>11, ReturnIsEnd DEF Pause, Apart
    <2>3. TaskOK'
      BY <1>9, <1>10, <2>1, <2>2 DEF Ends
    <2> QED
      BY <1>1, <2>2, <2>3, EndKeeps
  <1>12. CASE ~AtBoundary
    <2>1. Saves(f, "verify", c)
      BY <1>8, <1>12, GotoSaves DEF Apart
    <2>2. TaskOK' /\ late = 0
      <3>1. late = 0
        BY <1>1, <1>12 DEF AtBoundary, TaskOK, LateOK
      <3>2. Uncounted' = Uncounted /\ Unsettled' = Uncounted
        BY <1>9, <2>1 DEF Saves
      <3> QED
        BY <1>6, <1>10, <2>1, <3>1, <3>2 DEF Saves, Stage
    <2> QED
      BY <1>1, <1>6, <1>8, <2>1, <2>2, SaveKeepsLone DEF Steps, Autonomous
  <1> QED
    BY <1>11, <1>12

LEMMA LoneMoves == ASSUME Apart, Steady, NEW f \in Flows, Review(f) \/ Restore(f) \/ Accept(f) \/ Promote(f) PROVE LoneInv'
  <1>1. CASE Review(f)
    <2>1. pc[f] = "review" /\ Written' = Written
      BY <1>1 DEF Review, On, At, store, Written
    <2> QED
      BY <1>1, <2>1, OnlyMovesOn DEF Review, store, session, history, Steps, Unloaded, LastSteps
  <1>2. CASE Restore(f)
    <2>1. pc[f] \in {"restore", "retract"} /\ Written' = Written
      BY <1>2 DEF Restore, On, At, store, Written
    <2> QED
      BY <1>2, <2>1, OnlyMovesOn DEF Restore, store, session, history, Steps, Unloaded, LastSteps
  <1>3. CASE Accept(f)
    <2>1. pc[f] = "verified" /\ loc[f] = ck /\ ck.state \in {"verifying", "reviewing"} /\ late = 0
      BY <1>3, Hand DEF Accept, On, At, CallOK, Fits, LastSteps
    <2>2. Written' = Written
      BY <1>3, <2>1, RollBackWrites DEF Accept
    <2> QED
      BY <1>3, <2>1, <2>2, OnlyMovesOn DEF Accept, session, history, Steps, Unloaded, LastSteps
  <1>4. CASE Promote(f)
    <2>1. pc[f] = "promote"
      BY <1>4 DEF Promote, On, At
    <2>2. CASE Throw(f)
      BY <2>1, <2>2, ThrowKeepsLone
    <2>3. CASE ~Throw(f)
      BY <1>4, <2>1, <2>3, OnlyMovesOn DEF Promote, store, session, history, Written, Steps, Unloaded, LastSteps
    <2> QED
      BY <2>2, <2>3
  <1> QED
    BY <1>1, <1>2, <1>3, <1>4

\* The state of a checkpoint of which only these parts change.
LEMMA Changed ==
    ASSUME NEW t \in Checkpoint, NEW u, NEW q
    PROVE  /\ [t EXCEPT !.txn = 0].state = t.state /\ [t EXCEPT !.txn = 0].use = t.use
           /\ [t EXCEPT !.txn = 0].resume = t.resume /\ [t EXCEPT !.txn = 0] \in Checkpoint
           /\ [t EXCEPT !.use = u].state = t.state /\ [t EXCEPT !.use = u].use = u
           /\ [t EXCEPT !.plan = q, !.prop = q].state = t.state /\ [t EXCEPT !.plan = q, !.prop = q].use = t.use
           /\ [t EXCEPT !.prop = q, !.use = u].state = t.state /\ [t EXCEPT !.prop = q, !.use = u].use = u
  BY DEF Checkpoint

LEMMA LoneRework == ASSUME Apart, Steady, NEW f \in Flows, Rework(f) \/ Withdraw(f) PROVE LoneInv'
  <1>1. /\ pc[f] \in {"restored", "retracted"} /\ loc[f] = ck /\ ck.state \in {"verifying", "reviewing"}
        /\ late = 0 /\ ck \in Checkpoint /\ CallOK(f) /\ TaskOK
    BY Hand DEF Rework, Withdraw, On, At, CallOK, Fits, LastSteps
  <1>2. PICK c : c = [To(ck, "repairing") EXCEPT !.txn = 0]
    OBVIOUS
  <1>3. c.state = "repairing" /\ c.use = ck.use /\ c \in Checkpoint
    BY <1>1, <1>2, ToFields, Changed DEF TaskState
  <1>4. Written' = Written /\ UNCHANGED <<exec, use, late, cancel>>
    BY <1>1, RollBackWrites DEF Rework, Withdraw, RolledBack, history, flags
  <1>5. CASE Pause(f, c)
    BY <1>1, <1>3, <1>4, <1>5, PauseKeepsLone DEF TaskOK, LateOK
  <1>6. CASE \E p \in {"fail", "repair"} : Saves(f, p, c)
    <2>1. PICK p \in {"fail", "repair"} : Saves(f, p, c)
      BY <1>6
    <2>2. TaskOK'
      BY <1>1, <1>3, <1>4, <2>1, TaskMoved DEF Saves, TaskOK, LateOK, Stage
    <2>3. exec.it > 0 => Autonomous
      BY <1>1 DEF CallOK, Unloaded
    <2> QED
      BY <1>1, <1>3, <1>4, <2>1, <2>2, <2>3, SaveKeepsLone DEF Steps, Autonomous
  <1>7. Rework(f) => Pause(f, c) \/ \E p \in {"fail", "repair"} : Saves(f, p, c)
    BY <1>1, <1>2, GotoSaves DEF Rework, Apart
  <1>8. Withdraw(f) => Saves(f, "repair", c)
    BY <1>1, <1>2, GotoSaves DEF Withdraw, Apart
  <1> QED
    BY <1>5, <1>6, <1>7, <1>8

LEMMA LoneRepair == ASSUME Apart, Steady, NEW f \in Flows, Repair(f) PROVE LoneInv'
  <1>1. /\ pc[f] = "repair" /\ loc[f] = ck /\ late = 0 /\ ck \in Checkpoint /\ ck.state = "repairing"
        /\ CallOK(f) /\ TaskOK /\ use \in Usage /\ exec \in Usage /\ (exec.it > 0 => Autonomous)
    BY Hand DEF Repair, On, At, CallOK, Fits, LastSteps, Unloaded
  <1>2. CASE Autonomous /\ PauseForBudget(f)
    BY <1>1, <1>2, BudgetPauseKeeps
  <1>3. CASE /\ Autonomous /\ use' = [use EXCEPT !.pln = @ + 1, !.it = @ + 1] /\ exec' = use'
             /\ Save(f, [To(loc[f], "replanning") EXCEPT !.use = use']) /\ Goto(f, "replan")
             /\ UNCHANGED <<txns, cancel, kind, base, late>>
    <2>1. PICK c : c = [To(ck, "replanning") EXCEPT !.use = use']
      OBVIOUS
    <2>2. c.state = "replanning" /\ c.use = use'
      BY <1>1, <2>1, ToFields, Changed DEF TaskState
    <2>3. Saves(f, "replan", c)
      BY <1>1, <1>3, <2>1, GotoSaves DEF Apart
    <2>4. use'.it > 0 /\ use'.mut = use.mut /\ exec' = use' /\ Written' = Written
      BY <1>1, <1>3 DEF Usage, Autonomous, Written
    <2>5. TaskOK' /\ exec.it > 0
      <3>1. exec.it > 0 /\ exec.it \in Nat /\ exec'.it > 0
        BY <1>1, <1>3, <2>4 DEF TaskOK, CountsOK, Autonomous, Usage
      <3>2. CountsOK'
        <4>1. ck' = c /\ ck'.use = exec' /\ ck' /= NoCk
          BY <2>2, <2>3, <2>4, NoCkIs DEF Saves
        <4>2. /\ Cardinality(Written) <= use.mut + Uncounted /\ use.mut <= MaxMutations
              /\ exec'.mut = use.mut /\ use' = exec'
          BY <1>1, <1>3, <2>4, <3>1 DEF TaskOK, CountsOK
        <4>3. Uncounted = Unsettled /\ Uncounted' = Uncounted /\ Unsettled' = Unsettled
          BY <1>1, NoneInHand DEF Steady
        <4> QED
          BY <2>4, <3>1, <4>1, <4>2, <4>3 DEF CountsOK, Autonomous
      <3> QED
        BY <1>1, <1>3, <2>2, <2>3, <3>1, <3>2, NoCkIs DEF Saves, TaskOK, Identified, LateOK, Stage
    <2> QED
      BY <1>1, <1>3, <2>2, <2>3, <2>4, <2>5, SaveKeepsLone DEF Autonomous, Steps
  <1>4. CASE /\ use' = IF Autonomous THEN [use EXCEPT !.rep = @ + 1, !.it = @ + 1] ELSE use
             /\ exec' = IF Autonomous THEN use' ELSE exec
             /\ Goto(f, "repropose") /\ UNCHANGED <<ck, txns, cancel, kind, loc, base, late>>
    <2>1. Stays(f, "repropose") /\ Written' = Written
      BY <1>4, GotoStays DEF Apart, Written
    <2>2. use'.mut = use.mut /\ (Autonomous => use'.it > 0) /\ (~Autonomous => use' = use)
      BY <1>1, <1>4 DEF Usage, Autonomous
    <2>3. TaskOK' /\ (Autonomous => exec.it > 0)
      BY <1>1, <1>4, <2>1, <2>2, NoCkIs
      DEF Steady, Stays, TaskOK, Identified, LateOK, CountsOK, Autonomous, Stage, Usage
    <2>4. CallOK(f)'
      BY <1>1, <1>4, <2>1, <2>2, <2>3 DEF CallOK, Stays, Autonomous
    <2> QED
      BY <1>1, <2>1, <2>3, <2>4, Keeps DEF Stays
  <1>5. UNCHANGED late
    BY DEF Repair, PauseForBudget, history
  <1> QED
    BY <1>2, <1>3, <1>4, <1>5 DEF Repair

LEMMA LoneProposals ==
    ASSUME Apart, Steady, NEW f \in Flows, Repropose(f) \/ Replan(f) \/ Propose(f) PROVE LoneInv'
  <1>1. pc[f] \in {"repropose", "replan", "propose", "rpropose"}
    BY DEF Repropose, Replan, Propose, On, At
  <1>2. /\ loc[f] = ck /\ ck \in Checkpoint /\ ck.state \in {"repairing", "replanning", "planning"}
        /\ Fresh \in Drafts
    BY <1>1, Hand, FreshDraft DEF CallOK, Fits
  <1>3. CASE Throw(f)
    BY <1>1, <1>3, ThrowKeepsLone
  <1>4. CASE ~Throw(f)
    <2>1. UNCHANGED <<exec, use, cancel, late, kind, base>> /\ Written' = Written
      BY <1>4 DEF Repropose, Replan, Propose, session, history, Written
    <2>2. ASSUME NEW s \in {"mutating", "awaiting_approval"}, NEW p \in {"mutate", "reapprove", "approve", "rapprove"},
                 NEW c, c.state = s, c.use \in {use, ck.use}, Save(f, c), Goto(f, p)
          PROVE  LoneInv'
      <3>1. Saves(f, p, c)
        BY <2>1, <2>2, GotoSaves DEF Apart
      <3> QED
        BY <1>1, <1>2, <2>1, <2>2, <3>1, SaveOnTheWay DEF TaskState, Steps, Unloaded, LastSteps
    <2>3. ASSUME NEW s \in {"mutating", "awaiting_approval"}
          PROVE  To(ck, s) \in Checkpoint /\ To(ck, s).state = s /\ To(ck, s).use = ck.use
      BY <1>2, ToFields DEF TaskState
    <2>4. CASE Repropose(f)
      <3>1. PICK c : c = [To(ck, "mutating") EXCEPT !.attempt = NextAttempt(ck), !.prop = Fresh, !.use = use]
        OBVIOUS
      <3>2. c.state = "mutating" /\ c.use = use
        BY <2>3, <3>1 DEF Checkpoint
      <3> QED
        BY <1>2, <1>4, <2>2, <2>4, <3>1, <3>2 DEF Repropose
    <2>5. CASE Replan(f)
      <3>1. PICK c : c = [To(ck, "awaiting_approval") EXCEPT !.plan = Fresh, !.prop = Fresh]
        OBVIOUS
      <3>2. c.state = "awaiting_approval" /\ c.use = ck.use
        BY <2>3, <3>1, Changed
      <3> QED
        BY <1>2, <1>4, <2>2, <2>5, <3>1, <3>2 DEF Replan
    <2>6. CASE Propose(f)
      <3>1. PICK c : c = [To(ck, "awaiting_approval") EXCEPT !.prop = Fresh, !.use = use]
        OBVIOUS
      <3>2. c.state = "awaiting_approval" /\ c.use = use
        BY <2>3, <3>1, Changed
      <3> QED
        BY <1>2, <1>4, <2>2, <2>6, <3>1, <3>2 DEF Propose
    <2> QED
      BY <2>4, <2>5, <2>6
  <1> QED
    BY <1>3, <1>4

\* The answers of the user: going on, or a pause, which a rejection is too.
LEMMA LoneAnswers == ASSUME Apart, Steady, NEW f \in Flows, Answer(f) PROVE LoneInv'
  <1>1. pc[f] \in {"approve", "reapprove", "rapprove"}
    BY DEF Answer, Approve, Reapprove, ReapproveOnResume, On, At
  <1>2. /\ loc[f] = ck /\ ck \in Checkpoint /\ ck.state = "awaiting_approval" /\ late = 0 /\ TaskOK
    BY <1>1, Hand DEF CallOK, Fits, LastSteps
  <1>3. UNCHANGED <<exec, use, late>> /\ Written' = Written
    BY DEF Answer, Approve, Reapprove, ReapproveOnResume, Detach, store, session, Written
  <1>4. CASE Pause(f, loc[f])
    BY <1>1, <1>2, <1>3, <1>4, PauseKeepsLone
  <1>5. PICK c : c = To(ck, "mutating")
    OBVIOUS
  <1>6. c.state = "mutating" /\ c.use = ck.use
    BY <1>2, <1>5, ToFields DEF TaskState
  <1>7. CASE /\ Only(f) /\ pc'[f] = "mutate" /\ ck' = c /\ loc'[f] = c
             /\ base'[f] \in {base[f], c} /\ cancel' = cancel
    <2>1. TaskOK'
      BY <1>2, <1>3, <1>6, <1>7, TaskMoved DEF TaskOK, LateOK, Stage
    <2>2. CallOK(f)'
      BY <1>1, <1>2, <1>3, <1>6, <1>7, <2>1, Hand DEF CallOK, TaskOK, CountsOK, Unloaded, Autonomous
    <2> QED
      BY <1>1, <1>7, <2>1, <2>2, Keeps
  <1>8. CASE /\ ck' = To(ck, "cancelled") /\ Return(f) /\ cancel' = cancel
    <2>1. To(ck, "cancelled").state = "cancelled" /\ To(ck, "cancelled").use = ck.use
      BY <1>2, ToFields DEF TaskState
    <2>2. TaskOK'
      BY <1>2, <1>3, <1>8, <2>1, TaskMoved DEF TaskOK, LateOK, Stage
    <2> QED
      BY <1>1, <1>8, <2>2, EndKeeps, ReturnIsEnd DEF Apart
  <1>9. ASSUME Save(f, c), Goto(f, "mutate"),
               base' = base \/ base' = [base EXCEPT ![f] = ck'],
               kind' = kind \/ \E k \in Kinds : kind' = [kind EXCEPT ![f] = k], cancel' = cancel
        PROVE  LoneInv'
    BY <1>7, <1>9 DEF Save, Goto, Only, Apart, IInv, FlowsOK
  <1>10. CASE Approve(f)
    BY <1>2, <1>4, <1>5, <1>8, <1>9, <1>10 DEF Approve, SetState
  <1>11. CASE Reapprove(f)
    BY <1>2, <1>4, <1>5, <1>9, <1>11 DEF Reapprove, SetState, session
  <1>12. CASE ReapproveOnResume(f)
    <2>1. "detached" \in Kinds
      BY DEF Kinds
    <2> QED
      BY <1>2, <1>4, <1>5, <1>9, <1>12, <2>1 DEF ReapproveOnResume, Detach
  <1> QED
    BY <1>10, <1>11, <1>12 DEF Answer

LEMMA LoneComplete == ASSUME Apart, Steady, NEW f \in Flows, Complete(f) PROVE LoneInv'
  <1>1. pc[f] = "complete" /\ loc[f] = ck /\ ck \in Checkpoint /\ TaskOK /\ CallOK(f)
    BY Hand DEF Complete, On, At, CallOK
  <1>2. CASE Throw(f)
    BY <1>1, <1>2, ThrowKeepsLone
  <1>3. CASE ~Throw(f)
    <2>1. PICK c : c = To(ck, "completed")
      OBVIOUS
    <2>2. c.state = "completed" /\ c.use = ck.use
      BY <1>1, <2>1, ToFields DEF TaskState
    <2>3. /\ canTransition(ck.state, "completed") /\ Save(f, c) /\ base' = [base EXCEPT ![f] = Start(f)]
          /\ Goto(f, "finishComplete") /\ UNCHANGED <<txns, exec, use, cancel, late, kind>>
      BY <1>1, <1>3, <2>1 DEF Complete, SetState, store, session, history
    <2>4. /\ Only(f) /\ pc'[f] = "finishComplete" /\ ck' = c /\ loc'[f] = c /\ base'[f] = Start(f)
          /\ Written' = Written
      BY <2>3 DEF Save, Goto, Only, Apart, IInv, FlowsOK, Written
    <2>5. ck.state /= "failed"
      BY <2>3 DEF canTransition, Transitions
    <2>6. TaskOK'
      BY <1>1, <2>2, <2>3, <2>4, <2>5, TaskMoved DEF TaskOK, LateOK, Stage
    <2>7. CallOK(f)'
      BY <1>1, <2>2, <2>3, <2>4, <2>6
      DEF CallOK, TaskOK, CountsOK, Start, Unloaded, LastSteps, Autonomous
    <2> QED
      BY <1>1, <2>4, <2>6, <2>7, Keeps
  <1> QED
    BY <1>2, <1>3

LEMMA LoneFinish ==
    ASSUME Apart, Steady, NEW f \in Flows, FinishComplete(f) \/ FinishFail(f) PROVE LoneInv'
  <1>1. pc[f] \in {"finishComplete", "finishFail"} /\ loc[f] = ck
    BY Hand DEF FinishComplete, FinishFail, On, At, CallOK
  <1>2. /\ exec' = IF Autonomous THEN use ELSE exec
        /\ UNCHANGED <<ck, use, cancel, late>> /\ Written' = Written /\ Return(f)
    BY DEF FinishComplete, FinishFail, flags, history, Written
  <1>3. TaskOK'
    BY <1>2, Hand DEF Steady, TaskOK, Identified, LateOK, CountsOK, Autonomous, Stage, Usage
  <1> QED
    BY <1>1, <1>2, <1>3, EndKeeps, ReturnIsEnd DEF Apart

LEMMA LoneFail == ASSUME Apart, Steady, NEW f \in Flows, Fail(f) PROVE LoneInv'
  <1>1. pc[f] = "fail" /\ loc[f] \in Checkpoint /\ TaskOK /\ CallOK(f)
    BY Hand DEF Fail, On, At
  <1>2. CASE Throw(f)
    BY <1>1, <1>2, ThrowKeepsLone
  <1>3. CASE ~Throw(f)
    <2>1. PICK c : c = To(loc[f], "failed")
      OBVIOUS
    <2>2. c.state = "failed" /\ c.use = loc[f].use
      BY <1>1, <2>1, ToFields DEF TaskState
    <2>3. Saves(f, "finishFail", c) /\ UNCHANGED <<txns, exec, use, cancel, late>> /\ Written' = Written
      BY <1>3, <2>1, GotoSaves DEF Fail, Apart, store, session, history, Written
    <2>4. TaskOK'
      BY <1>1, <2>2, <2>3, NoCkIs
      DEF Steady, Saves, TaskOK, Identified, LateOK, CountsOK, CallOK, Autonomous, Stage
    <2> QED
      BY <1>1, <2>2, <2>3, <2>4, SaveKeepsLone DEF Steps, Unloaded, LastSteps
  <1> QED
    BY <1>2, <1>3

LEMMA LoneLoop ==
    ASSUME Apart, NEW f \in Flows, LoopStep(f), ~(Record(f) \/ Count(f) \/ Settle(f)) => Steady
    PROVE  LoneInv'
  BY LoneMutate, LoneApply, LoneRecord, LoneCount, LoneSettle, LoneVerify, LoneDecide, LoneMoves, LoneRework, LoneRepair,
     LoneProposals, LoneComplete, LoneFinish, LoneFail
  DEF LoopStep
-----------------------------------------------------------------------------
\* The steps of start.
LEMMA LoneRun == ASSUME Apart, Steady, NEW f \in Flows, Run(f) PROVE LoneInv'
  <1>1. ck = NoCk /\ pc[f] = "idle" /\ UNCHANGED <<exec, use, txns, base, late>> /\ cancel' = FALSE
    BY DEF Run, Free, On, At, store, history
  <1>2. PICK m \in Modes : Save(f, [NoCk EXCEPT !.state = "created", !.mode = m])
    BY DEF Run
  <1>3. PICK c : c = [NoCk EXCEPT !.state = "created", !.mode = m]
    OBVIOUS
  <1>4. c.state = "created" /\ c.use = NoCk.use
    BY <1>3 DEF NoCk
  <1>5. Saves(f, "launch", c)
    BY <1>1, <1>2, <1>3, GotoSaves DEF Run, Apart, Kinds
  <1>6. /\ TaskOK /\ CallOK(f) /\ late = 0 /\ exec.it = 0 /\ use.it = 0 /\ Written' = Written
        /\ Written = {} /\ base[f] = NoCk /\ exec.it \in Nat
    BY <1>1, Hand, NoCkIs DEF TaskOK, LateOK, CountsOK, CallOK, Written, Usage
  <1>7. TaskOK'
    BY <1>1, <1>4, <1>5, <1>6, NoCkIs
    DEF Steady, Saves, TaskOK, Identified, LateOK, CountsOK, Autonomous, Stage
  <1>8. CallOK(f)'
    BY <1>1, <1>4, <1>5, <1>6, NoCkIs DEF Saves, CallOK
  <1> QED
    BY <1>5, <1>7, <1>8, Keeps DEF Saves

LEMMA LoneLaunch == ASSUME Apart, Steady, NEW f \in Flows, Launch(f) PROVE LoneInv'
  <1>1. /\ pc[f] = "launch" /\ loc[f] = ck /\ ck \in Checkpoint /\ TaskOK /\ CallOK(f) /\ late = 0
        /\ exec.it = 0 /\ Written = {} /\ use.it = 0
    BY Hand DEF Launch, On, At, CallOK, TaskOK, CountsOK, LastSteps
  <1>2. UNCHANGED <<txns, cancel, late, base>> /\ Written' = {} /\ Goto(f, "ensure")
        /\ kind' = [kind EXCEPT ![f] = "start"] /\ "start" \in Kinds
    BY <1>1 DEF Launch, history, Written, Kinds
  <1>3. Only(f) /\ pc'[f] = "ensure" /\ base'[f] = base[f]
    BY <1>2 DEF Launch, Save, Goto, Only, Apart, IInv, FlowsOK
  <1>4. CASE loc[f].mode = "auto"
    <2>1. PICK c : c = [ck EXCEPT !.use = use']
      OBVIOUS
    <2>2. c.state = ck.state /\ c.use = use' /\ c.txn = ck.txn /\ c.prop = ck.prop /\ c.resume = ck.resume
      BY <1>1, <2>1 DEF Checkpoint
    <2>3. use' = [NoUse EXCEPT !.it = 1] /\ exec' = use' /\ ck' = c /\ loc'[f] = c
      BY <1>1, <1>4, <2>1 DEF Launch, Save, Apart, IInv, FlowsOK
    <2>4. use'.it = 1 /\ use'.mut = 0
      BY <2>3 DEF NoUse
    <2>5. Cardinality({}) = 0 /\ MaxMutations \in Nat
      BY FS_EmptySet, PolicyAssumption
    <2>6. TaskOK'
      <3>1. ck'.state /= "none"
        BY <1>1, <2>2, <2>3 DEF CallOK
      <3>2. Identified' /\ LateOK'
        BY <1>1, <1>2, <2>2, <2>3, <3>1 DEF TaskOK, Identified, LateOK, Stage
      <3>3. CountsOK'
        <4>1. Cardinality(Written') = 0
          BY <1>2, <2>5
        <4>2. exec'.it = 1 /\ exec'.mut = 0 /\ ck'.use.it = 1 /\ ck'.use.mut = 0 /\ ck' /= NoCk
          BY <2>2, <2>3, <2>4, <3>1, NoCkIs
        <4>3. Uncounted' \in Nat /\ Unsettled' \in Nat
          BY LagNat DEF Apart, IInv, Steady
        <4>4. PICK u \in Nat, v \in Nat : u = Uncounted' /\ v = Unsettled'
          BY <4>3
        <4>5. 0 <= 0 + u /\ 0 <= 0 + v
          OBVIOUS
        <4>6. 0 <= MaxMutations
          BY <2>5
        <4> QED
          BY <2>3, <2>4, <4>1, <4>2, <4>4, <4>5, <4>6 DEF CountsOK
      <3> QED
        BY <3>2, <3>3 DEF TaskOK
    <2>7. CallOK(f)'
      BY <1>1, <1>2, <1>3, <2>2, <2>3, <2>4 DEF CallOK, Autonomous
    <2> QED
      BY <1>1, <1>3, <2>6, <2>7, Keeps
  <1>5. CASE loc[f].mode /= "auto"
    <2>1. UNCHANGED <<ck, exec, use, loc>>
      BY <1>5 DEF Launch
    <2>2. TaskOK'
      BY <1>1, <1>2, <2>1, TaskSame
    <2>3. CallOK(f)'
      BY <1>1, <1>2, <1>3, <2>1 DEF CallOK
    <2> QED
      BY <1>1, <1>3, <2>2, <2>3, Keeps
  <1> QED
    BY <1>4, <1>5

LEMMA LoneEnsure == ASSUME Apart, Steady, NEW f \in Flows, Ensure(f) PROVE LoneInv'
  <1>1. pc[f] = "ensure" /\ loc[f] = ck /\ ck \in Checkpoint /\ TaskOK /\ CallOK(f) /\ late = 0
    BY Hand DEF Ensure, On, At, CallOK, LastSteps
  <1>2. CASE Throw(f)
    BY <1>1, <1>2, ThrowKeepsLone
  <1>3. CASE ~Throw(f)
    <2>1. /\ UNCHANGED <<txns, exec, use, cancel, late, kind, base>> /\ Written' = Written
          /\ Goto(f, "context")
      BY <1>3 DEF Ensure, store, session, history, Written
    <2>2. CASE UNCHANGED <<ck, loc>>
      BY <1>1, <2>1, <2>2, OnlyMovesOn DEF Steps, Unloaded, LastSteps
    <2>3. CASE ~UNCHANGED <<ck, loc>>
      <3>1. PICK c : c = [ck EXCEPT !.sbx = TRUE]
        OBVIOUS
      <3>2. /\ c.state = ck.state /\ c.use = ck.use /\ c.txn = ck.txn /\ c.prop = ck.prop
            /\ c.resume = ck.resume
        BY <1>1, <3>1 DEF Checkpoint
      <3>3. Save(f, c)
        BY <1>1, <1>3, <2>3, <3>1 DEF Ensure
      <3>4. Saves(f, "context", c)
        BY <2>1, <3>3, GotoSaves DEF Apart
      <3>5. ck'.state /= "none"
        BY <1>1, <3>2, <3>4 DEF Saves, CallOK
      <3>6. TaskOK'
        BY <1>1, <2>1, <3>2, <3>4, <3>5, TaskMoved DEF Saves, TaskOK, Identified, LateOK, Stage
      <3>7. exec.it > 0 => Autonomous
        BY <1>1 DEF CallOK, Unloaded
      <3> QED
        BY <1>1, <2>1, <3>4, <3>5, <3>6, <3>7, SaveKeepsLone DEF Saves, Steps, Autonomous
    <2> QED
      BY <2>2, <2>3
  <1> QED
    BY <1>2, <1>3

\* A new state on the way to a plan.
LEMMA NewState ==
    ASSUME Apart, Steady, NEW f \in Flows, NEW s \in {"contextualizing", "planning"},
           NEW p \in {"gathered", "plan"}, pc[f] \in {"context", "gathered"},
           SetState(f, loc[f], s), Goto(f, p),
           UNCHANGED <<exec, use, cancel, late, kind, base>>, Written' = Written,
           loc[f].state /= "failed"
    PROVE  LoneInv'
  <1>1. loc[f] = ck /\ ck \in Checkpoint
    BY Hand DEF CallOK
  <1>2. PICK c : c = To(ck, s)
    OBVIOUS
  <1>3. c.state = s /\ c.use = ck.use
    BY <1>1, <1>2, ToFields DEF TaskState
  <1>4. Saves(f, p, c)
    BY <1>1, <1>2, GotoSaves DEF SetState, Apart
  <1> QED
    BY <1>1, <1>3, <1>4, SaveOnTheWay DEF TaskState, Steps, Unloaded, LastSteps

LEMMA LoneContext == ASSUME Apart, Steady, NEW f \in Flows, Context(f) PROVE LoneInv'
  <1>1. /\ pc[f] = "context" /\ UNCHANGED <<txns, exec, use, cancel, late, kind, base>>
        /\ Written' = Written /\ Goto(f, "gathered")
    BY DEF Context, On, At, store, session, history, Written
  <1>2. CASE UNCHANGED <<ck, loc>>
    BY <1>1, <1>2, OnlyMovesOn DEF Steps, Unloaded, LastSteps
  <1>3. CASE ~UNCHANGED <<ck, loc>>
    BY <1>1, <1>3, NewState DEF Context
  <1> QED
    BY <1>2, <1>3

LEMMA LoneGathered == ASSUME Apart, Steady, NEW f \in Flows, Gathered(f) PROVE LoneInv'
  <1>1. /\ pc[f] = "gathered" /\ loc[f] = ck /\ ck \in Checkpoint /\ TaskOK /\ late = 0
        /\ UNCHANGED <<txns, exec, use, cancel, late>> /\ Written' = Written
    BY Hand DEF Gathered, On, At, CallOK, LastSteps, store, flags, history, Written
  <1>2. CASE Pause(f, loc[f])
    <2>1. ck.state /= "failed"
      BY <1>1, <1>2 DEF Pause, canTransition, Transitions
    <2> QED
      BY <1>1, <1>2, <2>1, PauseKeepsLone DEF TaskOK, Identified, LateOK, Stage
  <1>3. CASE Goto(f, "complete") /\ UNCHANGED <<ck, kind, loc, base>>
    <2>1. TaskOK' /\ Stays(f, "complete")
      BY <1>1, <1>3, TaskSame, GotoStays DEF Apart
    <2> QED
      BY <1>1, <2>1, StayKeeps DEF Steps, Unloaded
  <1>4. CASE /\ IF loc[f].state /= "planning" THEN SetState(f, loc[f], "planning") ELSE UNCHANGED <<ck, loc>>
             /\ Goto(f, "plan") /\ UNCHANGED <<kind, base>>
    <2>1. CASE loc[f].state = "planning"
      BY <1>1, <1>4, <2>1, OnlyMovesOn DEF Steps, Unloaded, LastSteps
    <2>2. CASE loc[f].state /= "planning"
      <3>1. loc[f].state /= "failed"
        BY <1>4, <2>2 DEF SetState, canTransition, Transitions
      <3> QED
        BY <1>1, <1>4, <2>2, <3>1, NewState
    <2> QED
      BY <2>1, <2>2
  <1> QED
    BY <1>2, <1>3, <1>4 DEF Gathered

LEMMA LonePlan == ASSUME Apart, Steady, NEW f \in Flows, Plan(f) PROVE LoneInv'
  <1>1. /\ pc[f] = "plan" /\ loc[f] = ck /\ ck \in Checkpoint /\ TaskOK /\ late = 0
        /\ CallOK(f) /\ ck.state = "planning" /\ Fresh \in Drafts
    BY Hand, FreshDraft DEF Plan, On, At, CallOK, LastSteps, Fits
  <1>2. CASE Throw(f)
    BY <1>1, <1>2, ThrowKeepsLone
  <1>3. CASE ~Throw(f)
    <2>1. PICK c : c = [ck EXCEPT !.plan = Fresh]
      OBVIOUS
    <2>2. c \in Checkpoint /\ c.state = "planning" /\ c.use = ck.use
      BY <1>1, <2>1 DEF Checkpoint
    <2>3. UNCHANGED <<txns, exec, use, cancel, late>> /\ Written' = Written
      BY <1>3 DEF Plan, flags, history, Written
    <2>4. CASE Pause(f, c)
      BY <1>1, <2>2, <2>3, <2>4, PauseKeepsLone DEF TaskOK, LateOK
    <2>5. CASE \E p \in {"complete", "propose"} : Saves(f, p, c)
      <3>1. PICK p \in {"complete", "propose"} : Saves(f, p, c)
        BY <2>5
      <3>2. TaskOK'
        BY <1>1, <2>2, <2>3, <3>1, TaskMoved DEF Saves, TaskOK, LateOK, Stage
      <3>3. exec.it > 0 => Autonomous
        BY <1>1 DEF CallOK, Unloaded
      <3> QED
        BY <1>1, <2>2, <2>3, <3>1, <3>2, <3>3, SaveKeepsLone DEF Steps, Autonomous
    <2>6. Pause(f, c) \/ \E p \in {"complete", "propose"} : Save(f, c) /\ Goto(f, p) /\ UNCHANGED <<kind, base>>
      BY <1>1, <1>3, <2>1 DEF Plan
    <2> QED
      BY <2>4, <2>5, <2>6, GotoSaves DEF Apart
  <1> QED
    BY <1>2, <1>3

LEMMA LoneStart == ASSUME Apart, Steady, NEW f \in Flows, StartStep(f) PROVE LoneInv'
  BY LoneLaunch, LoneEnsure, LoneContext, LoneGathered, LonePlan DEF StartStep
-----------------------------------------------------------------------------
\* The steps of resume.
LEMMA LoneResume == ASSUME Apart, Steady, NEW f \in Flows, Resume(f) PROVE LoneInv'
  <1>1. /\ pc[f] = "idle" /\ ck /= NoCk /\ late' = 0
        /\ UNCHANGED <<ck, exec, use, txns, base>> /\ Written' = Written
        /\ TaskOK /\ CallOK(f)
    BY Hand DEF Resume, Free, On, At, store, Written
  <1>2. Only(f) /\ pc'[f] = "load" /\ loc'[f] = ck /\ base'[f] = base[f]
    BY DEF Resume, Goto, Only, Apart, IInv, FlowsOK
  <1>3. TaskOK'
    BY <1>1 DEF Steady, TaskOK, Identified, LateOK, CountsOK, Autonomous, Stage
  <1>4. CallOK(f)'
    BY <1>1, <1>2, <1>3 DEF CallOK, TaskOK, Identified, CountsOK, Unloaded
  <1> QED
    BY <1>2, <1>3, <1>4, Keeps

LEMMA RestartSaves ==
    ASSUME IInv, NEW f \in Flows, NEW c, Restart(f, c) PROVE Saves(f, "ensure", c) /\ late' = 0
  BY GotoSaves DEF Restart, Kinds

LEMMA LoneLoad == ASSUME Apart, Steady, NEW f \in Flows, Load(f) PROVE LoneInv'
  <1>1. /\ pc[f] = "load" /\ loc[f] = ck /\ ck \in Checkpoint /\ TaskOK /\ CallOK(f) /\ late = 0
        /\ exec \in Usage
    BY Hand DEF Load, On, At, CallOK, LastSteps
  <1>2. CASE Throw(f)
    BY <1>1, <1>2, ThrowKeepsLone
  <1>3. CASE Return(f) /\ UNCHANGED <<ck, store, tree, flags, history>>
    <2>1. TaskOK'
      BY <1>1, <1>3, TaskSame DEF store, flags, history, Written
    <2> QED
      BY <1>1, <1>3, <2>1, EndKeeps, ReturnIsEnd DEF Apart
  <1>4. CASE /\ Retriable /\ use' = [exec EXCEPT !.it = @ + 1] /\ exec' = use'
             /\ Restart(f, [To(loc[f], "contextualizing") EXCEPT !.use = use', !.mode = "auto"])
             /\ UNCHANGED <<txns>>
    <2>1. PICK t : t = To(ck, "contextualizing")
      OBVIOUS
    <2>2. PICK c : c = [t EXCEPT !.use = use', !.mode = "auto"]
      OBVIOUS
    <2>3. t \in Checkpoint /\ t.state = "contextualizing"
      BY <1>1, <2>1, ToFields DEF TaskState
    <2>4. c.state = "contextualizing" /\ c.use = use'
      BY <2>2, <2>3 DEF Checkpoint
    <2>5. Saves(f, "ensure", c) /\ late' = 0
      BY <1>1, <1>4, <2>1, <2>2, RestartSaves DEF Apart
    <2>6. /\ exec.it > 0 /\ exec'.it > 0 /\ exec'.mut = exec.mut /\ Written' = Written
      BY <1>1, <1>4 DEF Retriable, Usage, Written
    <2>7. CountsOK'
      <3>1. Unsettled' = Uncounted /\ Uncounted' = Uncounted
        BY <1>1, NoneInHandYet
      <3>2. Cardinality(Written) <= exec.mut + Uncounted /\ exec.mut <= MaxMutations
        BY <1>1, <2>6 DEF TaskOK, CountsOK
      <3>3. exec'.it > 0 /\ use' = exec' /\ ck' = c /\ c.use = exec' /\ c.state /= "none"
        BY <1>4, <2>4, <2>5, <2>6 DEF Saves
      <3> QED
        BY <2>6, <3>1, <3>2, <3>3, NoCkIs DEF CountsOK, Autonomous
    <2>8. TaskOK'
      BY <2>4, <2>5, <2>7, NoCkIs DEF Saves, TaskOK, Identified, LateOK, Stage
    <2> QED
      BY <1>1, <1>4, <2>4, <2>5, <2>6, <2>8, SaveKeepsLone DEF Steps, Autonomous
  <1>5. CASE /\ loc[f].state \notin {"completed", "cancelled", "failed"}
             /\ Goto(f, "restate") /\ UNCHANGED <<ck, store, tree, session, kind, loc, base, history>>
    <2>1. UNCHANGED <<ck, exec, use, cancel, late>> /\ Written' = Written
      BY <1>5 DEF store, session, history, Written
    <2>2. TaskOK' /\ Stays(f, "restate")
      BY <1>1, <1>5, <2>1, TaskSame, GotoStays DEF Apart
    <2>3. CallOK(f)'
      BY <1>1, <1>5, <2>1, <2>2 DEF CallOK, Stays, Unloaded
    <2> QED
      BY <1>1, <2>2, <2>3, Keeps DEF Stays
  <1> QED
    BY <1>2, <1>3, <1>4, <1>5 DEF Load

\* Going on from a checkpoint keeps all of it but the state.
LEMMA RestatedKeeps ==
    ASSUME NEW c \in Checkpoint, c.state = "paused" => c.resume \in Resumable
    PROVE  /\ Restated(c).use = c.use /\ Restated(c).prop = c.prop /\ Restated(c).txn = c.txn
           /\ Restated(c).plan = c.plan /\ Restated(c).mode = c.mode /\ Restated(c).sbx = c.sbx
           /\ Restated(c) \in Checkpoint
           /\ Restated(c).state = CASE Stage(c) = "reviewing" -> "verifying"
                                    [] Stage(c) = "replanning" -> "repairing"
                                    [] OTHER -> Stage(c)
  <1> DEFINE a == IF c.state = "paused" THEN To(c, c.resume) ELSE c
             b == IF a.state = "reviewing" THEN To(a, "verifying") ELSE a
             d == IF b.state = "replanning" THEN To(b, "repairing") ELSE b
             Same(x) == /\ x.use = c.use /\ x.prop = c.prop /\ x.txn = c.txn /\ x.plan = c.plan
                        /\ x.mode = c.mode /\ x.sbx = c.sbx /\ x \in Checkpoint
  <1>1. ASSUME NEW x \in Checkpoint, NEW s \in TaskState \ {"paused"}
        PROVE  /\ To(x, s).use = x.use /\ To(x, s).prop = x.prop /\ To(x, s).txn = x.txn
               /\ To(x, s).plan = x.plan /\ To(x, s).mode = x.mode /\ To(x, s).sbx = x.sbx
               /\ To(x, s) \in Checkpoint /\ To(x, s).state = s
    <2>1. /\ To(x, s) \in Checkpoint /\ To(x, s).state = s /\ To(x, s).plan = x.plan
          /\ To(x, s).prop = x.prop /\ To(x, s).txn = x.txn
      BY ToFields
    <2>2. To(x, s).use = x.use /\ To(x, s).mode = x.mode /\ To(x, s).sbx = x.sbx
      BY DEF To, Checkpoint
    <2> QED
      BY <2>1, <2>2
  <1>2. Same(a) /\ a.state = Stage(c) /\ a.state /= "paused"
    <2>1. CASE c.state = "paused"
      <3>1. c.resume \in TaskState \ {"paused"}
        BY <2>1 DEF Resumable, Executing, TaskState
      <3> QED
        BY <1>1, <2>1, <3>1 DEF Stage
    <2>2. CASE c.state /= "paused"
      BY <2>2 DEF Stage
    <2> QED
      BY <2>1, <2>2
  <1> HIDE DEF a
  <1>3. Same(b) /\ b.state = IF Stage(c) = "reviewing" THEN "verifying" ELSE Stage(c)
    BY <1>1, <1>2 DEF TaskState
  <1> HIDE DEF b
  <1>4. /\ Same(d)
        /\ d.state = CASE Stage(c) = "reviewing" -> "verifying"
                       [] Stage(c) = "replanning" -> "repairing"
                       [] OTHER -> Stage(c)
    BY <1>1, <1>2, <1>3 DEF TaskState
  <1>5. Restated(c) = d
    BY DEF Restated, a, b
  <1> QED
    BY <1>4, <1>5

LEMMA LoneRestate == ASSUME Apart, Steady, NEW f \in Flows, Restate(f) PROVE LoneInv'
  <1>1. /\ pc[f] = "restate" /\ loc[f] = ck /\ ck \in Checkpoint /\ TaskOK /\ CallOK(f) /\ late = 0
        /\ ck.state /= "failed"
    BY Hand DEF Restate, On, At, CallOK, LastSteps
  <1>2. PICK c : c = Restated(ck)
    OBVIOUS
  <1>3. /\ c.use = ck.use /\ c.prop = ck.prop /\ c.txn = ck.txn
        /\ c.state = CASE Stage(ck) = "reviewing" -> "verifying"
                       [] Stage(ck) = "replanning" -> "repairing"
                       [] OTHER -> Stage(ck)
        /\ c.state /= "paused"
    <2>1. Sound(ck)
      BY Hand
    <2> QED
      BY <1>1, <1>2, <2>1, RestatedKeeps, RestatedSound DEF Sound, Ready
  <1>4. /\ use' = ck.use /\ UNCHANGED <<exec, txns>> /\ Written' = Written
        /\ c.state \in {"created", "contextualizing", "planning", "awaiting_approval"} \cup Executing
    BY <1>1, <1>2 DEF Restate, store, Written
  <1>5. /\ late' = 0
        /\ \E p \in {"rpropose", "ensure", "rapprove", "mutate", "verify", "repair"} : Saves(f, p, c)
    <2>1. "detached" \in Kinds /\ "start" \in Kinds
      BY DEF Kinds
    <2>2. ASSUME NEW p \in {"rpropose", "rapprove"}, Save(f, c), Goto(f, p), UNCHANGED <<kind, base, history>>
          PROVE  late' = 0 /\ Saves(f, p, c)
      BY <1>1, <2>2, GotoSaves DEF Apart, history
    <2>3. ASSUME Restart(f, c) PROVE late' = 0 /\ Saves(f, "ensure", c)
      BY <2>3, RestartSaves DEF Apart
    <2>4. ASSUME c.state \in Executing, Detach(f, c, Entry(c.state)), UNCHANGED history
          PROVE  late' = 0 /\ \E p \in {"mutate", "verify", "repair"} : Saves(f, p, c)
      <3>1. PICK p : p = Entry(c.state)
        OBVIOUS
      <3>2. p \in {"mutate", "verify", "repair"}
        BY <3>1 DEF Entry
      <3> QED
        BY <1>1, <2>1, <2>4, <3>1, <3>2, GotoSaves DEF Detach, Apart, history
    <2> QED
      BY <1>1, <1>2, <2>2, <2>3, <2>4 DEF Restate
  <1>6. PICK p \in {"rpropose", "ensure", "rapprove", "mutate", "verify", "repair"} : Saves(f, p, c)
    BY <1>5
  <1>7. c.state /= "none"
    BY <1>4 DEF Executing
  <1>8. CountsOK'
    <2>1. Unsettled = Uncounted /\ Unsettled' = Uncounted /\ Uncounted' = Uncounted
      BY <1>1, NoneInHandYet
    <2>2. ck' = c /\ c /= NoCk /\ c.state /= "failed"
      BY <1>4, <1>6, <1>7, NoCkIs DEF Saves, Executing
    <2> QED
      BY <1>1, <1>3, <1>4, <2>1, <2>2, NoCkIs DEF TaskOK, CountsOK, Autonomous
  <1>9. Identified' /\ LateOK'
    BY <1>1, <1>3, <1>5, <1>6, <1>7 DEF Saves, TaskOK, Identified, LateOK, Stage
  <1>10. TaskOK'
    BY <1>8, <1>9 DEF TaskOK
  <1>11. exec'.it > 0 => Autonomous'
    BY <1>1, <1>4 DEF TaskOK, CountsOK, Autonomous
  <1> QED
    BY <1>1, <1>4, <1>5, <1>6, <1>7, <1>10, <1>11, SaveKeepsLone DEF Steps
-----------------------------------------------------------------------------
\* The steps outside the calls: the process, the user, failing calls.
\* What interrupts a call counts as one, and leaves no change in hand.
LEMMA CutShort ==
    ASSUME Apart, Exit \/ Crash \/ \E f \in Flows : Fault(f)
    PROVE  /\ Uncounted' >= Uncounted /\ Unsettled' >= Unsettled
           /\ {Uncounted, Unsettled, Uncounted', Unsettled'} \subseteq Nat
  <1>1. crashes \in Nat /\ faults \in Nat /\ IInv
    BY DEF Apart, IInv, SharedOK
  <1>2. CASE Exit
    BY <1>1, <1>2 DEF Exit, NewProcess, control, Uncounted, Unsettled, Lag
  <1>3. CASE Crash
    BY <1>1, <1>3 DEF Crash, NewProcess, Uncounted, Unsettled, Lag
  <1>4. ASSUME NEW f \in Flows, Fault(f)
        PROVE  /\ Uncounted' >= Uncounted /\ Unsettled' >= Unsettled
               /\ {Uncounted, Unsettled, Uncounted', Unsettled'} \subseteq Nat
    <2>1. faults' = faults + 1 /\ crashes' = crashes
      BY <1>4 DEF Fault
    <2> QED
      BY <1>1, <2>1 DEF Uncounted, Unsettled, Lag
  <1> QED
    BY <1>2, <1>3, <1>4

\* A call that fails on the way from a transaction to its checkpoint included.
LEMMA LoneFault == ASSUME Apart, NEW f \in Flows, Fault(f) PROVE LoneInv'
  <1>1. pc[f] /= "idle" /\ Throw(f) /\ TaskOK
    BY Hand DEF Fault, At
  <1>2. UNCHANGED <<ck, exec, use, cancel, late>> /\ Written' = Written
    BY <1>1 DEF Throw, store, flags, history, Written
  <1>3. Uncounted' >= Uncounted /\ Unsettled' >= Unsettled /\ {Uncounted, Unsettled, Uncounted', Unsettled'} \subseteq Nat
    BY CutShort
  <1>4. Cardinality(Written) \in Nat /\ exec \in Usage /\ use \in Usage /\ ck.use \in Usage
    BY Hand, WrittenCounts DEF Checkpoint
  <1>5. CountsOK'
    BY <1>1, <1>2, <1>3, <1>4 DEF TaskOK, CountsOK, Autonomous, Usage
  <1>6. TaskOK'
    BY <1>1, <1>2, <1>5 DEF TaskOK, Identified, LateOK, Stage
  <1> QED
    BY <1>1, <1>6, ThrowIsLone

LEMMA LoneOverlook == ASSUME Apart, NEW f \in Flows, Overlook(f) PROVE LoneInv'
  <1>1. PICK p \in {"restored", "retracted"} : Goto(f, p)
    BY DEF Overlook
  <1>2. /\ UNCHANGED <<ck, exec, use, cancel, late, kind, loc, base>> /\ Written' = Written
        /\ pc[f] \in {"restore", "retract"} /\ faults' = faults + 1 /\ crashes' = crashes
    BY DEF Overlook, At, store, session, history, Written
  <1>3. TaskOK /\ CallOK(f) /\ late = 0 /\ crashes \in Nat /\ faults \in Nat
    BY <1>2, Hand DEF CallOK, LastSteps, SharedOK
  <1>4. Stays(f, p)
    BY <1>1, <1>2, GotoStays DEF Apart
  <1>5. /\ Uncounted' >= Uncounted /\ Unsettled' >= Unsettled
        /\ {Uncounted, Unsettled, Uncounted', Unsettled'} \subseteq Nat
    BY <1>1, <1>2, <1>3, <1>4 DEF Stays, Only, Uncounted, Unsettled, Lag
  <1>6. Cardinality(Written) \in Nat /\ exec \in Usage /\ use \in Usage /\ ck.use \in Usage
    BY Hand, WrittenCounts DEF Checkpoint
  <1>7. CountsOK'
    BY <1>2, <1>3, <1>5, <1>6 DEF TaskOK, CountsOK, Autonomous, Usage
  <1>8. TaskOK'
    BY <1>2, <1>3, <1>7 DEF TaskOK, Identified, LateOK, Stage
  <1> QED
    BY <1>1, <1>2, <1>3, <1>4, <1>8, StayKeeps DEF Steps, Unloaded

LEMMA LoneOutside ==
    ASSUME Apart, Cancel \/ Exit \/ Crash \/ UserEdit PROVE LoneInv'
  <1>1. TaskOK /\ \A f \in Flows : CallOK(f)
    BY DEF Apart, LoneInv
  <1>2. CASE Cancel \/ UserEdit
    <2>0. Steady
      BY <1>2 DEF Cancel, UserEdit, control, bounds, Steady, Uncounted, Unsettled, Lag
    <2>1. /\ UNCHANGED <<ck, exec, use, txns, late, pc, loc, base>> /\ Written' = Written
          /\ cancel => cancel'
      BY <1>2 DEF Cancel, UserEdit, store, session, control, history, Written
    <2>2. TaskOK'
      BY <1>1, <2>1, <2>0 DEF Steady, TaskOK, Identified, LateOK, CountsOK, Autonomous, Stage
    <2>3. \A f \in Flows : CallOK(f)'
      BY <1>1, <2>1 DEF CallOK, Autonomous
    <2> QED
      BY <2>2, <2>3 DEF LoneInv
  <1>3. CASE Exit \/ Crash
    <2>1. /\ UNCHANGED <<ck, exec, txns>> /\ use' = NoUse /\ late' = 0 /\ Written' = Written
      BY <1>3 DEF Exit, Crash, NewProcess, store, Written
    <2>2. \A f \in Flows : pc'[f] = "idle" /\ loc'[f] = NoCk /\ base'[f] = NoCk
      BY <1>1, <1>3 DEF Exit, Crash, At, CallOK, control
    <2>3. TaskOK'
      <3>1. Uncounted' >= Uncounted /\ Unsettled' >= Unsettled /\ {Uncounted, Unsettled, Uncounted', Unsettled'} \subseteq Nat
        BY <1>3, <2>2, CutShort
      <3>2. Cardinality(Written) \in Nat /\ exec \in Usage /\ ck.use \in Usage
        BY WrittenCounts DEF Apart, IInv, SharedOK, Sound, Checkpoint
      <3>3. CountsOK'
        BY <1>1, <2>1, <3>1, <3>2 DEF TaskOK, CountsOK, Autonomous, NoUse, Usage
      <3> QED
        BY <1>1, <2>1, <3>3 DEF TaskOK, Identified, LateOK, Stage
    <2>4. \A f \in Flows : CallOK(f)'
      BY <2>1, <2>2, NoCkIs DEF CallOK, Unloaded, LastSteps
    <2> QED
      BY <2>3, <2>4 DEF LoneInv
  <1> QED
    BY <1>2, <1>3

LEMMA InitLone == Init => LoneInv
  <1> SUFFICES ASSUME Init PROVE LoneInv
    OBVIOUS
  <1>1. Written = {} /\ exec.it = 0 /\ use.it = 0 /\ ck = NoCk /\ late = 0
    BY DEF Init, Written, NoUse
  <1>2. TaskOK
    BY <1>1, NoCkIs DEF TaskOK, Identified, LateOK, CountsOK
  <1>3. \A f \in Flows : CallOK(f)
    BY <1>1, NoCkIs DEF Init, CallOK, Unloaded, LastSteps
  <1> QED
    BY <1>2, <1>3 DEF LoneInv

\* Every step of a call leaves the bounds alone, and only the two that count and
\* settle a change start where a change is in hand.
LEMMA BoundsKept == ASSUME NEW f \in Flows, Call(f) \/ Work(f) \/ Answer(f) PROVE UNCHANGED bounds
  <1>1. CASE Call(f) \/ Answer(f)
    BY <1>1 DEF Call, Run, Resume, Free, Answer, Approve, Reapprove, ReapproveOnResume, On
  <1>2. CASE StartStep(f) \/ ResumeStep(f)
    BY <1>2 DEF StartStep, ResumeStep, Launch, Ensure, Context, Gathered, Plan, Load, Restate, Propose, On
  <1>3. CASE LoopStep(f)
    BY <1>3 DEF LoopStep, Mutate, Apply, Record, Count, Settle, Verify, Decide, Review, Restore, Rework, Withdraw,
       Repair, Repropose, Replan, Accept, Promote, Deliver, Complete, FinishComplete, Fail, FinishFail, On
  <1> QED
    BY <1>1, <1>2, <1>3 DEF Work

LEMMA SettlingSteps ==
    ASSUME NEW f \in Flows, Call(f) \/ Work(f) \/ Answer(f), ~(Record(f) \/ Count(f) \/ Settle(f))
    PROVE  pc[f] \notin {"count", "settle"}
  <1>1. CASE Call(f) \/ Answer(f)
    BY <1>1 DEF Call, Run, Resume, Free, Answer, Approve, Reapprove, ReapproveOnResume, On, At
  <1>2. CASE StartStep(f) \/ ResumeStep(f)
    BY <1>2 DEF StartStep, ResumeStep, Launch, Ensure, Context, Gathered, Plan, Load, Restate, Propose, On, At
  <1>3. CASE LoopStep(f)
    BY <1>3 DEF LoopStep, Mutate, Apply, Verify, Decide, Review, Restore, Rework, Withdraw,
       Repair, Repropose, Replan, Accept, Promote, Deliver, Complete, FinishComplete, Fail, FinishFail, On, At
  <1> QED
    BY <1>1, <1>2, <1>3 DEF Work

\* Where every step but those leads.
Leads(f) == \E p \in Steps \ {"count", "settle"} : pc' = [pc EXCEPT ![f] = p]

LEMMA EndLeads == ASSUME NEW f \in Flows, Throw(f) \/ Return(f) \/ PauseForBudget(f) \/ (\E c : Pause(f, c))
                  PROVE  Leads(f)
  BY DEF Throw, Return, Pause, PauseForBudget, Goto, Leads, Steps

LEMMA GoLeads == ASSUME NEW f \in Flows, NEW p \in Steps \ {"count", "settle"}, Goto(f, p) PROVE Leads(f)
  BY DEF Goto, Leads

LEMMA SteadyStep ==
    ASSUME IInv, NEW f \in Flows, Call(f) \/ Work(f) \/ Answer(f), ~(Record(f) \/ Count(f) \/ Settle(f))
    PROVE  Steady
  <1>1. Leads(f)
    <2>1. CASE Call(f)
      BY <2>1, GoLeads DEF Call, Run, Resume, Steps
    <2>2. CASE Answer(f)
      BY <2>2, GoLeads, EndLeads DEF Answer, Approve, Reapprove, ReapproveOnResume, Detach, Steps
    <2>3. CASE StartStep(f)
      BY <2>3, GoLeads, EndLeads DEF StartStep, Launch, Ensure, Context, Gathered, Plan, Steps
    <2>4. CASE ResumeStep(f)
      BY <2>4, GoLeads, EndLeads DEF ResumeStep, Load, Restate, Propose, Restart, Detach, Entry, Steps
    <2>5. CASE Mutate(f) \/ Apply(f) \/ Verify(f) \/ Decide(f) \/ Review(f) \/ Restore(f)
      BY <2>5, GoLeads, EndLeads DEF Mutate, Apply, Verify, Decide, Review, Restore, Steps
    <2>6. CASE Rework(f) \/ Withdraw(f) \/ Repair(f) \/ Repropose(f) \/ Replan(f)
      BY <2>6, GoLeads, EndLeads DEF Rework, Withdraw, Repair, Repropose, Replan, Steps
    <2>7. CASE Accept(f) \/ Promote(f) \/ Deliver(f) \/ Complete(f) \/ FinishComplete(f) \/ Fail(f) \/ FinishFail(f)
      BY <2>7, GoLeads, EndLeads
      DEF Accept, Promote, Deliver, Complete, FinishComplete, Fail, FinishFail, Steps
    <2> QED
      BY <2>1, <2>2, <2>3, <2>4, <2>5, <2>6, <2>7 DEF Work, LoopStep
  <1>2. pc[f] \notin {"count", "settle"} /\ UNCHANGED <<crashes, faults>>
    <2>1. UNCHANGED bounds
      BY BoundsKept
    <2>2. pc[f] \notin {"count", "settle"}
      BY SettlingSteps
    <2> QED
      BY <2>1, <2>2 DEF bounds
  <1>3. PICK p \in Steps \ {"count", "settle"} : pc' = [pc EXCEPT ![f] = p]
    BY <1>1 DEF Leads
  <1>4. pc \in [Flows -> Steps]
    BY DEF IInv, FlowsOK
  <1>5. \A g \in Flows : /\ pc'[g] = "count" <=> pc[g] = "count"
                         /\ pc'[g] \in {"count", "settle"} <=> pc[g] \in {"count", "settle"}
    BY <1>2, <1>3, <1>4
  <1> QED
    BY <1>2, <1>5 DEF Steady, Uncounted, Unsettled, Lag

LEMMA StepLone ==
    IInv /\ LoneInv /\ OneCallAtATime /\ OneCallAtATime' /\ [Next]_vars => LoneInv'
  <1> SUFFICES ASSUME Apart, [Next]_vars PROVE LoneInv'
    BY DEF Apart
  <1>1. CASE UNCHANGED vars
    <2>1. UNCHANGED <<ck, exec, use, txns, cancel, late, pc, loc, base>> /\ Written' = Written
      BY <1>1 DEF vars, store, session, control, history, Written
    <2>2. Steady
      BY <1>1 DEF vars, control, bounds, Steady, Uncounted, Unsettled, Lag
    <2>3. TaskOK' /\ \A f \in Flows : CallOK(f)'
      BY <2>1, <2>2, TaskSame DEF Apart, LoneInv, CallOK, Autonomous
    <2> QED
      BY <2>3 DEF LoneInv
  <1>2. ASSUME NEW f \in Flows, Call(f) \/ Work(f) \/ Answer(f) \/ Fault(f) \/ Overlook(f) PROVE LoneInv'
    <2>1. CASE Call(f)
      <3>1. ~(Record(f) \/ Count(f) \/ Settle(f))
        BY <2>1 DEF Call, Run, Resume, Free, Record, Count, Settle, On, At
      <3> QED
        BY <2>1, <3>1, LoneRun, LoneResume, SteadyStep DEF Call, Apart
    <2>2. CASE Work(f)
      <3>1. ~(Record(f) \/ Count(f) \/ Settle(f)) => Steady
        BY <2>2, SteadyStep DEF Apart
      <3>2. StartStep(f) \/ ResumeStep(f) => Steady
        BY <2>2, <3>1 DEF StartStep, ResumeStep, Launch, Ensure, Context, Gathered, Plan, Load, Restate,
          Propose, Record, Count, Settle, On, At
      <3> QED
        BY <2>2, <3>1, <3>2, LoneStart, LoneLoad, LoneRestate, LoneProposals, LoneLoop DEF Work, ResumeStep
    <2>3. CASE Answer(f)
      <3>1. ~(Record(f) \/ Count(f) \/ Settle(f))
        BY <2>3 DEF Answer, Approve, Reapprove, ReapproveOnResume, Record, Count, Settle, On, At
      <3> QED
        BY <2>3, <3>1, LoneAnswers, SteadyStep DEF Apart
    <2>4. CASE Fault(f)
      BY <2>4, LoneFault
    <2>5. CASE Overlook(f)
      BY <2>5, LoneOverlook
    <2> QED
      BY <1>2, <2>1, <2>2, <2>3, <2>4, <2>5
  <1>3. CASE Cancel \/ Exit \/ Crash \/ UserEdit
    BY <1>3, LoneOutside
  <1> QED
    BY <1>1, <1>2, <1>3 DEF Next
-----------------------------------------------------------------------------
\* With one caller there is nothing to overlap: the hypothesis below is no loss.
LEMMA LoneCaller == ASSUME NEW f, Flows = {f} PROVE Spec => []OneCallAtATime
  <1>1. OneCallAtATime
    BY DEF OneCallAtATime
  <1> QED
    BY <1>1, PTL

\* The invariant of a runner whose calls do not overlap.
THEOREM LoneInvariance == Spec /\ []OneCallAtATime => []LoneInv
  BY InitLone, StepLone, Invariance, PTL DEF Spec

\* An autonomous execution (autonomous-controller.ts, budgetExceeded) applies
\* no more proposals than its budget has mutations, whatever repairs, new
\* plans, pauses and restarts it goes through, as long as no two calls on the
\* runner overlap - and for each crash and each failing call at most one more:
\* the change whose transaction was stored (runner.ts:165) and not yet counted
\* in a checkpoint (167-168).
THEOREM BudgetHolds == Spec /\ []OneCallAtATime => []MutationsWithinBudget
  <1>1. IInv /\ LoneInv => MutationsWithinBudget
    <2> SUFFICES ASSUME IInv, LoneInv, exec.it > 0
                 PROVE  Cardinality({d \in Drafts : txns[d] /= "none"}) <= MaxMutations + crashes + faults
      BY DEF MutationsWithinBudget
    <2>1. /\ Cardinality(Written) \in Nat /\ exec.mut \in Nat /\ use.mut \in Nat /\ MaxMutations \in Nat
          /\ crashes \in Nat /\ faults \in Nat /\ CountsOK
      BY WrittenCounts, PolicyAssumption DEF IInv, SharedOK, Usage, LoneInv, TaskOK
    <2>2. CASE \A f \in Flows : pc[f] /= "count"
      BY <2>1, <2>2 DEF CountsOK, Uncounted, Lag, Written
    <2>3. ASSUME NEW f \in Flows, pc[f] = "count"
          PROVE  Cardinality(Written) <= MaxMutations + crashes + faults
      <3>1. Autonomous /\ use.mut < MaxMutations
        BY <2>3 DEF LoneInv, CallOK
      <3>2. Uncounted = crashes + faults + 1
        BY <2>3 DEF Uncounted, Lag
      <3> QED
        BY <2>1, <3>1, <3>2 DEF CountsOK
    <2> QED
      BY <2>2, <2>3 DEF Written
  <1> QED
    BY <1>1, LoneInvariance, Invariance, PTL

\* After cancel (runner.ts:331) a call whose work does not overlap with
\* another one's puts at most the change in hand into a tree.
THEOREM CancelStops == Spec /\ []OneCallAtATime => []AtMostOneChangeAfterCancel
  <1>1. LoneInv => AtMostOneChangeAfterCancel
    BY DEF LoneInv, TaskOK, LateOK, AtMostOneChangeAfterCancel
  <1> QED
    BY <1>1, LoneInvariance, PTL
=============================================================================
