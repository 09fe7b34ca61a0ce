------------------------- MODULE AgentDecisionsProofs -------------------------
(***************************************************************************)
(* Seven of the decisions, for every value of the constants: no verdict of *)
(* layered verification masks a failure it has to show, whatever steps are *)
(* asked for and found; what completes without a user was verified and a   *)
(* riskier change asks for more, after any number of attempts; a sandbox   *)
(* keeps the work done in it through any number of snapshots, resumes,     *)
(* restarts and lost directories; a plan that is accepted has no cycle and *)
(* its calls are recorded, however often a task is planned; the model that *)
(* delivered is the one credited, and only allowed models run; and what is *)
(* learned of a task, and the index of the project (LearningIndexProofs).  *)
(***************************************************************************)
EXTENDS LearningIndexProofs

\* ------------------------------------------------------------ the verification
Statuses == {"none", "passed", "failed", "denied"}
Scopes   == {"syntax", "type", "targeted", "affected", "package", "full"}
Checks   == [command : Commands, scope : Scopes, required : BOOLEAN]
Phases   == {"select", "layer", "steps", "conclude", "done", "threw"}

VerifyingTypeOK ==
    /\ requested \in Seq(Checks) /\ risky \in BOOLEAN
    /\ manifest \subseteq Verifying!Scripts \cap Commands
    /\ phase \in Phases /\ selected \in Seq(Checks)
    /\ layer \in 0 .. 6 /\ (phase = "steps" => layer # 0)
    /\ status \in [1 .. Len(selected) -> Statuses]
    /\ runs \in Seq([scope : Scopes, passed : BOOLEAN]) /\ passed \in BOOLEAN
    /\ phase = "select" => selected = <<>> /\ runs = <<>> /\ layer = 0

\* Nothing trusted was left out of a risky verification.
AllAsked ==
    phase # "select" /\ risky =>
        \A c \in detected : \E k \in 1 .. Len(selected) : selected[k].command = c

\* Every step of a layer that was run has a result, and a passed run is about them.
Finished(scope) == \A k \in Verifying!Group(scope) : status[k] # "none"
Ran ==
    /\ phase = "steps" => Verifying!Group(Verifying!order[layer]) # {}
    /\ \A n \in 1 .. Len(runs) :
          /\ Finished(runs[n].scope)
          /\ runs[n].passed => Verifying!RunPassed(runs[n].scope)
          /\ runs[n].passed => Len(selected) > 0

\* No layer that has steps was skipped.
Behind == IF phase = "steps" THEN layer - 1 ELSE IF phase = "layer" THEN layer ELSE 6
NoneSkipped ==
    phase \notin {"select", "threw"} =>
        \A j \in 1 .. Behind : Verifying!Group(Verifying!order[j]) # {} =>
            \E n \in 1 .. Len(runs) : runs[n].scope = Verifying!order[j]

Concluded ==
    /\ phase \in {"conclude", "done"} => Len(runs) > 0
    /\ phase = "done" /\ passed => runs[Len(runs)].passed /\ Verifying!HardFailures = {}

VerifyingInv == VerifyingTypeOK /\ AllAsked /\ Ran /\ NoneSkipped /\ Concluded

LEMMA OrderOfLayers ==
    /\ \A j \in 1 .. 6 : Verifying!order[j] \in Scopes
    /\ \A s \in Scopes : \E j \in 1 .. 6 : Verifying!order[j] = s
    /\ Len(Verifying!order) = 6
    /\ \A j, k \in 1 .. 6 : Verifying!order[j] = Verifying!order[k] => j = k
  BY DEF Verifying!order, Scopes

LEMMA VerifyingInit == Verifying!Init => VerifyingInv
<1> SUFFICES ASSUME Verifying!Init PROVE VerifyingInv
  OBVIOUS
<1>1. requested \in Seq(Checks)
  <2>1. Verifying!Steps \subseteq Checks
    BY OrderOfLayers DEF Verifying!Steps, Checks
  <2>2. PICK n \in 0 .. MaxRequested : requested \in [1 .. n -> Verifying!Steps]
    BY DEF Verifying!Init
  <2>3. n \in Nat
    BY <2>2
  <2> QED BY <2>1, <2>2, <2>3
<1>2. VerifyingTypeOK
  <2>1. selected \in Seq(Checks) /\ runs \in Seq([scope : Scopes, passed : BOOLEAN])
    BY DEF Verifying!Init
  <2>2. status \in [1 .. Len(selected) -> Statuses]
    BY DEF Verifying!Init
  <2>3. manifest \subseteq Verifying!Scripts \cap Commands
    BY DEF Verifying!Init
  <2>4. risky \in BOOLEAN /\ phase = "select" /\ selected = <<>> /\ runs = <<>> /\ layer = 0 /\ passed \in BOOLEAN
    BY DEF Verifying!Init
  <2> QED BY <1>1, <2>1, <2>2, <2>3, <2>4 DEF VerifyingTypeOK, Phases
<1>3. AllAsked /\ Ran /\ NoneSkipped /\ Concluded
  BY DEF Verifying!Init, AllAsked, Ran, NoneSkipped, Concluded
<1> QED BY <1>2, <1>3 DEF VerifyingInv

LEMMA VerdictFollows == VerifyingInv => Verifying!VerdictSound
<1> SUFFICES ASSUME VerifyingInv, phase = "done" PROVE Verifying!VerdictSound
  BY DEF Verifying!VerdictSound
<1>0. \A k \in 1 .. Len(selected) : selected[k].scope \in Scopes /\ k \in Verifying!Group(selected[k].scope)
  <2>1. \A k \in 1 .. Len(selected) : selected[k] \in Checks
    BY DEF VerifyingInv, VerifyingTypeOK
  <2> QED BY <2>1 DEF Checks, Verifying!Group
<1>1. ASSUME NEW k \in 1 .. Len(selected)
      PROVE  \E n \in 1 .. Len(runs) : runs[n].scope = selected[k].scope
  <2>1. PICK j \in 1 .. 6 : Verifying!order[j] = selected[k].scope
    BY <1>0, OrderOfLayers
  <2> QED BY <1>0, <2>1 DEF VerifyingInv, NoneSkipped, Behind
<1>2. ASSUME NEW k \in 1 .. Len(selected) PROVE status[k] # "none"
  BY <1>0, <1>1 DEF VerifyingInv, Ran, Finished
<1>3. ASSUME passed PROVE Len(selected) > 0 /\ Len(runs) \in 1 .. Len(runs)
  <2>1. Len(runs) \in Nat /\ Len(runs) > 0
    BY DEF VerifyingInv, VerifyingTypeOK, Concluded
  <2>2. Len(runs) \in 1 .. Len(runs)
    BY <2>1
  <2> QED BY <1>3, <2>2 DEF VerifyingInv, Ran, Concluded
<1>4. ASSUME passed, NEW k \in 1 .. Len(selected), selected[k].scope \in Verifying!Decisive,
             selected[k].required
      PROVE  status[k] = "passed"
  <2>1. \E n \in 1 .. Len(runs) : runs[n].scope = selected[k].scope /\ runs[n].passed
    <3>1. CASE selected[k].scope \in Verifying!Hard
      BY <3>1, <1>1, <1>4 DEF VerifyingInv, Concluded, Verifying!HardFailures
    <3>2. CASE selected[k].scope = runs[Len(runs)].scope
      BY <3>2, <1>3, <1>4 DEF VerifyingInv, Concluded
    <3> QED BY <3>1, <3>2, <1>4 DEF Verifying!Decisive
  <2> QED BY <2>1, <1>0, <1>4 DEF VerifyingInv, Ran, Verifying!RunPassed
<1>5. risky => \A c \in detected : \E k \in 1 .. Len(selected) : selected[k].command = c
  BY DEF VerifyingInv, AllAsked
<1> QED BY <1>2, <1>3, <1>4, <1>5 DEF Verifying!VerdictSound

\* The sequence of added scripts holds every trusted script that was left out, and no other.
LEMMA MissingAreTrusted ==
    ASSUME VerifyingTypeOK
    PROVE  /\ Verifying!Missing \in Seq(manifest)
           /\ risky => \A c \in manifest : Verifying!Asked(c)
                          \/ \E k \in 1 .. Len(Verifying!Missing) : Verifying!Missing[k] = c
<1> DEFINE L(k) == Verifying!LeftOut(k)
<1>1. \A k \in 1 .. 4 : L(k) \in Seq(manifest)
  BY DEF Verifying!LeftOut
<1>2. ASSUME risky, NEW k \in 1 .. 4, Verifying!TRUSTED_SCRIPTS[k] \in manifest,
             ~Verifying!Asked(Verifying!TRUSTED_SCRIPTS[k])
      PROVE  L(k) = <<Verifying!TRUSTED_SCRIPTS[k]>>
  BY <1>2 DEF Verifying!LeftOut
<1>3. ASSUME NEW c \in manifest
      PROVE  \E k \in 1 .. 4 : c = Verifying!TRUSTED_SCRIPTS[k]
  <2>1. c \in Verifying!Scripts
    BY DEF VerifyingTypeOK
  <2> QED BY <2>1 DEF Verifying!Scripts, Verifying!TRUSTED_SCRIPTS
<1>4. Verifying!Missing = ((L(1) \o L(2)) \o L(3)) \o L(4)
  BY DEF Verifying!Missing
<1> HIDE DEF L
<1> DEFINE A == L(1) \o L(2)
           B == A \o L(3)
<1>5. ASSUME NEW s \in Seq(manifest), NEW t \in Seq(manifest)
      PROVE  /\ s \o t \in Seq(manifest)
             /\ \A k \in 1 .. Len(s) : k \in 1 .. Len(s \o t) /\ (s \o t)[k] = s[k]
             /\ \A k \in 1 .. Len(t) : Len(s) + k \in 1 .. Len(s \o t) /\ (s \o t)[Len(s) + k] = t[k]
  OBVIOUS
<1>6. A \in Seq(manifest) /\ B \in Seq(manifest) /\ B \o L(4) \in Seq(manifest)
  BY <1>1, <1>5
<1>7. ASSUME NEW c, NEW k \in 1 .. 4, L(k) = <<c>>
      PROVE  \E n \in 1 .. Len(B \o L(4)) : (B \o L(4))[n] = c
  <2>0. 1 \in 1 .. Len(L(k)) /\ L(k)[1] = c
    BY <1>7
  <2>1. /\ L(1) \in Seq(manifest) /\ L(2) \in Seq(manifest)
        /\ L(3) \in Seq(manifest) /\ L(4) \in Seq(manifest)
    BY <1>1
  <2>2. (\E n \in 1 .. Len(A) : A[n] = c) => \E n \in 1 .. Len(B) : B[n] = c
    BY <2>1, <1>5, <1>6
  <2>3. (\E n \in 1 .. Len(B) : B[n] = c) => \E n \in 1 .. Len(B \o L(4)) : (B \o L(4))[n] = c
    BY <2>1, <1>5, <1>6
  <2>4. ASSUME NEW s \in Seq(manifest), NEW t \in Seq(manifest)
        PROVE  /\ s = <<c>> => \E n \in 1 .. Len(s \o t) : (s \o t)[n] = c
               /\ t = <<c>> => \E n \in 1 .. Len(s \o t) : (s \o t)[n] = c
    <3>1. s = <<c>> => 1 \in 1 .. Len(s) /\ s[1] = c
      OBVIOUS
    <3>2. t = <<c>> => 1 \in 1 .. Len(t) /\ t[1] = c
      OBVIOUS
    <3> QED BY <3>1, <3>2, <1>5
  <2>5. CASE k \in {1, 2}
    <3>1. \E n \in 1 .. Len(A) : A[n] = c
      BY ZenonT(60), <1>7, <2>1, <2>4, <2>5
    <3> QED BY <3>1, <2>2, <2>3
  <2>6. CASE k = 3
    <3>1. \E n \in 1 .. Len(B) : B[n] = c
      BY <1>6, <1>7, <2>1, <2>4, <2>6
    <3> QED BY <3>1, <2>3
  <2>7. CASE k = 4
    BY <1>6, <1>7, <2>1, <2>4, <2>7
  <2> QED BY <2>5, <2>6, <2>7
<1> QED BY ZenonT(60), <1>2, <1>3, <1>4, <1>6, <1>7

\* What only the user and the scripts change does not disturb the rest.
LEMMA VerifyingRewrite ==
    ASSUME VerifyingInv, Verifying!Rewrite
    PROVE  VerifyingInv'
<1>1. PICK m \in SUBSET (Verifying!Scripts \cap Commands) \ {manifest} : manifest' = m
  BY DEF Verifying!Rewrite
<1>2. UNCHANGED <<requested, risky, phase, selected, detected, layer, trusted, status, runs, passed>>
  BY DEF Verifying!Rewrite
<1>3. VerifyingTypeOK'
  BY <1>1, <1>2 DEF VerifyingInv, VerifyingTypeOK
<1>4. AllAsked' /\ Ran' /\ NoneSkipped' /\ Concluded'
  BY <1>2 DEF VerifyingInv, AllAsked, Ran, NoneSkipped, Concluded, Finished, Behind, Verifying!Group,
               Verifying!RunPassed, Verifying!HardFailures
<1> QED BY <1>3, <1>4 DEF VerifyingInv

LEMMA VerifyingSelect ==
    ASSUME VerifyingInv, Verifying!Select
    PROVE  VerifyingInv'
<1> DEFINE M == Verifying!Missing
           added == [k \in 1 .. Len(M) |-> Verifying!Detected(M[k])]
<1>0. VerifyingTypeOK /\ M \in Seq(manifest)
  BY MissingAreTrusted DEF VerifyingInv
<1>1. added \in Seq(Checks)
  <2>1. ASSUME NEW c \in manifest PROVE Verifying!Detected(c) \in Checks
    <3>1. c \in Commands /\ c \in {"test", "typecheck", "lint", "build"}
      BY <1>0 DEF VerifyingTypeOK, Verifying!Scripts, Verifying!TRUSTED_SCRIPTS
    <3> QED BY <3>1 DEF Verifying!Detected, Checks, Scopes
  <2>2. \A k \in 1 .. Len(M) : Verifying!Detected(M[k]) \in Checks
    BY <1>0, <2>1
  <2>3. Len(M) \in Nat
    BY <1>0
  <2> HIDE DEF M
  <2> QED BY <2>2, <2>3
<1>2. /\ selected' = requested \o added /\ detected' = manifest /\ phase' = "layer"
      /\ status' = [k \in 1 .. Len(selected') |-> "none"]
      /\ UNCHANGED <<requested, risky, manifest, layer, trusted, runs, passed, rewrites>>
  BY DEF Verifying!Select
<1>3. requested \in Seq(Checks) /\ runs = <<>> /\ layer = 0
  BY <1>0 DEF VerifyingTypeOK, Verifying!Select
<1>4. /\ Len(added) = Len(M) /\ \A k \in 1 .. Len(M) : added[k].command = M[k]
  BY <1>0 DEF Verifying!Detected
<1>5. risky => \A c \in manifest : (\E k \in 1 .. Len(requested) : requested[k].command = c)
                                    \/ \E k \in 1 .. Len(M) : M[k] = c
  BY <1>0, MissingAreTrusted DEF Verifying!Asked
<1> HIDE DEF M, added
<1>6. /\ selected' \in Seq(Checks)
      /\ \A k \in 1 .. Len(requested) : k \in 1 .. Len(selected') /\ selected'[k] = requested[k]
      /\ \A k \in 1 .. Len(added) :
            Len(requested) + k \in 1 .. Len(selected') /\ selected'[Len(requested) + k] = added[k]
  BY <1>1, <1>2, <1>3
<1>7. VerifyingTypeOK'
  <2>1. status' \in [1 .. Len(selected') -> Statuses]
    BY <1>2 DEF Statuses
  <2> QED BY <1>0, <1>2, <1>3, <1>6, <2>1 DEF VerifyingTypeOK, Phases
<1>8. AllAsked'
  BY ZenonT(60), <1>2, <1>4, <1>5, <1>6 DEF AllAsked
<1>9. Ran' /\ NoneSkipped' /\ Concluded'
  BY <1>2, <1>3 DEF Ran, NoneSkipped, Concluded, Behind
<1> QED BY <1>7, <1>8, <1>9 DEF VerifyingInv

LEMMA VerifyingLayer ==
    ASSUME VerifyingInv, Verifying!Layer
    PROVE  VerifyingInv'
<1>1. /\ phase = "layer" /\ phase' = "steps" /\ trusted' = manifest
      /\ layer' \in Verifying!Ahead /\ \A k \in Verifying!Ahead : layer' <= k
      /\ UNCHANGED <<requested, risky, manifest, selected, detected, status, runs, passed, rewrites>>
  BY DEF Verifying!Layer
<1>2. layer \in 0 .. 6 /\ layer' \in layer + 1 .. 6
  BY <1>1, OrderOfLayers DEF Verifying!Ahead, VerifyingInv, VerifyingTypeOK
<1>3. VerifyingTypeOK'
  BY <1>1, <1>2 DEF VerifyingInv, VerifyingTypeOK, Phases
<1>4. NoneSkipped'
  <2>0. \A n \in 1 .. 6 : \A j \in 1 .. n - 1 : j \in 1 .. 6 /\ ~(n <= j)
    OBVIOUS
  <2>1. ASSUME NEW j \in 1 .. layer' - 1, Verifying!Group(Verifying!order[j]) # {}
        PROVE  j \in 1 .. layer
    <3>. layer' \in 1 .. 6
      BY <1>2
    <3>0. j \in 1 .. 6 /\ ~(layer' <= j)
      BY <2>0
    <3>1. j \notin Verifying!Ahead /\ j \in 1 .. 6
      BY <1>1, <3>0
    <3> QED BY <3>1, <2>1, <1>2, OrderOfLayers DEF Verifying!Ahead
  <2>2. \A s : Verifying!Group(s)' = Verifying!Group(s)
    BY <1>1 DEF Verifying!Group
  <2> QED BY <1>1, <2>1, <2>2 DEF VerifyingInv, NoneSkipped, Behind
<1>5. AllAsked' /\ Concluded'
  BY <1>1 DEF VerifyingInv, AllAsked, Concluded
<1>6. Ran'
  <2>1. Verifying!Group(Verifying!order[layer']) # {}
    BY <1>1 DEF Verifying!Ahead
  <2>2. \A t : /\ Verifying!Group(t)' = Verifying!Group(t) /\ Finished(t)' = Finished(t)
               /\ Verifying!RunPassed(t)' = Verifying!RunPassed(t)
    BY <1>1 DEF Verifying!Group, Finished, Verifying!RunPassed
  <2>3. Verifying!Group(Verifying!order[layer])' = Verifying!Group(Verifying!order[layer'])
    BY <1>1 DEF Verifying!Group, Verifying!order
  <2> QED BY <2>1, <2>2, <2>3, <1>1 DEF VerifyingInv, Ran
<1> QED BY <1>3, <1>4, <1>5, <1>6 DEF VerifyingInv

\* A step of a layer gives a result to one that has none yet; no earlier run was about it.
LEMMA VerifyingStep ==
    ASSUME VerifyingInv, Verifying!Step
    PROVE  VerifyingInv'
<1>1. PICK k \in Verifying!Left(Verifying!order[layer]) :
          \/ phase' = phase /\ \E s \in Statuses \ {"none"} : status' = [status EXCEPT ![k] = s]
          \/ phase' = "threw" /\ status' = status
  BY DEF Verifying!Step, Statuses
<1>2. /\ phase = "steps"
      /\ UNCHANGED <<requested, risky, manifest, selected, detected, layer, trusted, runs, passed, rewrites>>
  BY DEF Verifying!Step
<1>3. k \in 1 .. Len(selected) /\ status[k] = "none"
  BY DEF Verifying!Left, Verifying!Group
<1>4. VerifyingTypeOK /\ status \in [1 .. Len(selected) -> Statuses]
  BY DEF VerifyingInv, VerifyingTypeOK
<1>5. /\ status' \in [1 .. Len(selected) -> Statuses]
      /\ \A n \in 1 .. Len(selected) : status[n] # "none" => status'[n] = status[n]
  BY <1>1, <1>3, <1>4
<1>6. VerifyingTypeOK'
  BY <1>1, <1>2, <1>4, <1>5 DEF VerifyingTypeOK, Phases
<1>7. \A s : Verifying!Group(s)' = Verifying!Group(s) /\ Verifying!Group(s) \subseteq 1 .. Len(selected)
  BY <1>2 DEF Verifying!Group
<1>8. Ran'
  <2>1. ASSUME NEW n \in 1 .. Len(runs)
        PROVE  /\ Finished(runs[n].scope)'
               /\ runs[n].passed => Verifying!RunPassed(runs[n].scope)'
               /\ runs[n].passed => Len(selected) > 0
    <3>1. /\ Finished(runs[n].scope)
          /\ runs[n].passed => Verifying!RunPassed(runs[n].scope)
          /\ runs[n].passed => Len(selected) > 0
      BY DEF VerifyingInv, Ran
    <3> QED BY <3>1, <1>2, <1>5, <1>7 DEF Finished, Verifying!RunPassed
  <2>2. Verifying!Group(Verifying!order[layer])' # {}
    BY <1>2 DEF VerifyingInv, Ran, Verifying!Group, Verifying!order
  <2> QED BY <2>1, <2>2, <1>2 DEF Ran
<1>9. AllAsked' /\ NoneSkipped' /\ Concluded'
  BY <1>1, <1>2, <1>7 DEF VerifyingInv, AllAsked, NoneSkipped, Concluded, Behind
<1> QED BY <1>6, <1>8, <1>9 DEF VerifyingInv

\* The run of a layer is about all its steps, and says whether the required ones passed.
LEMMA VerifyingEndOfLayer ==
    ASSUME VerifyingInv, Verifying!EndOfLayer
    PROVE  VerifyingInv'
<1> DEFINE s == Verifying!order[layer]
           run == [scope |-> s, passed |-> Verifying!RunPassed(s)]
<1>1. /\ phase = "steps" /\ Verifying!Left(s) = {} /\ runs' = Append(runs, run) /\ phase' = "layer"
      /\ UNCHANGED <<requested, risky, manifest, selected, detected, layer, trusted, status, passed, rewrites>>
  BY DEF Verifying!EndOfLayer
<1>2. VerifyingTypeOK /\ layer \in 1 .. 6 /\ s \in Scopes
  BY <1>1, OrderOfLayers DEF VerifyingInv, VerifyingTypeOK
<1>3. run \in [scope : Scopes, passed : BOOLEAN] /\ run.scope = s /\ run.passed = Verifying!RunPassed(s)
  <2>1. Verifying!RunPassed(s) \in BOOLEAN
    BY DEF Verifying!RunPassed
  <2> HIDE DEF s
  <2> QED BY <1>2, <2>1
<1>4. Finished(s)
  BY <1>1 DEF Verifying!Left, Finished
<1>5. Len(selected) > 0
  <2>1. Len(selected) \in Nat /\ Verifying!Group(s) # {}
    BY <1>1, <1>2 DEF VerifyingTypeOK, VerifyingInv, Ran
  <2> QED BY <2>1 DEF Verifying!Group
<1> HIDE DEF run
<1>6. /\ runs' \in Seq([scope : Scopes, passed : BOOLEAN]) /\ Len(runs') = Len(runs) + 1
      /\ \A n \in 1 .. Len(runs) : runs'[n] = runs[n] /\ n \in 1 .. Len(runs')
      /\ runs'[Len(runs')] = run /\ Len(runs') \in 1 .. Len(runs')
      /\ \A n \in 1 .. Len(runs') : n = Len(runs') \/ n \in 1 .. Len(runs)
  BY <1>1, <1>2, <1>3 DEF VerifyingTypeOK
<1>7. \A t : /\ Verifying!Group(t)' = Verifying!Group(t) /\ Finished(t)' = Finished(t)
             /\ Verifying!RunPassed(t)' = Verifying!RunPassed(t)
  BY <1>1 DEF Verifying!Group, Finished, Verifying!RunPassed
<1>8. VerifyingTypeOK'
  BY <1>1, <1>2, <1>6 DEF VerifyingTypeOK, Phases
<1>9. Ran'
  <2>1. ASSUME NEW n \in 1 .. Len(runs')
        PROVE  /\ Finished(runs'[n].scope)
               /\ runs'[n].passed => Verifying!RunPassed(runs'[n].scope)
               /\ runs'[n].passed => Len(selected) > 0
    <3>1. CASE n = Len(runs')
      BY <3>1, <1>3, <1>4, <1>5, <1>6
    <3>2. CASE n \in 1 .. Len(runs)
      BY <3>2, <1>6 DEF VerifyingInv, Ran
    <3> QED BY <3>1, <3>2, <1>6
  <2>2. phase' # "steps" /\ selected' = selected
    BY <1>1
  <2> QED BY <2>1, <2>2, <1>7 DEF Ran
<1>10. NoneSkipped'
  <2>1. ASSUME NEW j \in 1 .. layer, Verifying!Group(Verifying!order[j]) # {}
        PROVE  \E n \in 1 .. Len(runs') : runs'[n].scope = Verifying!order[j]
    <3>1. CASE j = layer
      BY <3>1, <1>3, <1>6
    <3>2. CASE j # layer
      <4>1. j \in 1 .. layer - 1
        BY <3>2, <1>2
      <4>2. \E n \in 1 .. Len(runs) : runs[n].scope = Verifying!order[j]
        BY <4>1, <2>1, <1>1 DEF VerifyingInv, NoneSkipped, Behind
      <4> QED BY <4>2, <1>6
    <3> QED BY <3>1, <3>2
  <2> HIDE DEF s
  <2> QED BY <2>1, <1>1, <1>7 DEF NoneSkipped, Behind
<1>11. AllAsked' /\ Concluded'
  BY <1>1 DEF VerifyingInv, AllAsked, Concluded
<1> QED BY <1>8, <1>9, <1>10, <1>11 DEF VerifyingInv

LEMMA VerifyingLayered ==
    ASSUME VerifyingInv, Verifying!Layered
    PROVE  VerifyingInv'
<1> DEFINE nothing == [scope |-> "targeted", passed |-> FALSE]
<1>1. /\ phase = "layer" /\ phase' = "conclude" /\ Verifying!Ahead = {}
      /\ runs' = IF runs = <<>> THEN <<nothing>> ELSE runs
      /\ UNCHANGED <<requested, risky, manifest, selected, detected, layer, trusted, status, passed, rewrites>>
  BY DEF Verifying!Layered
<1>2. nothing \in [scope : Scopes, passed : BOOLEAN] /\ nothing.passed = FALSE /\ nothing.scope = "targeted"
  BY DEF Scopes
<1> HIDE DEF nothing
<1>3. /\ VerifyingTypeOK /\ layer \in 0 .. 6
      /\ runs \in Seq([scope : Scopes, passed : BOOLEAN])
  BY DEF VerifyingInv, VerifyingTypeOK
<1>4. /\ \A t : /\ Verifying!Group(t)' = Verifying!Group(t) /\ Finished(t)' = Finished(t)
                /\ Verifying!RunPassed(t)' = Verifying!RunPassed(t)
  BY <1>1 DEF Verifying!Group, Finished, Verifying!RunPassed
<1>5. \A j \in 1 .. 6 : Verifying!Group(Verifying!order[j]) # {} =>
          j \in 1 .. layer /\ \E n \in 1 .. Len(runs) : runs[n].scope = Verifying!order[j]
  <2>1. ASSUME NEW j \in 1 .. 6, Verifying!Group(Verifying!order[j]) # {} PROVE j \in 1 .. layer
    <3>1. j \notin layer + 1 .. 6
      BY <1>1, <2>1, OrderOfLayers DEF Verifying!Ahead
    <3> QED BY <3>1, <1>3
  <2> QED BY <2>1, <1>1 DEF VerifyingInv, NoneSkipped, Behind
<1>6. CASE runs # <<>>
  <2>1. runs' = runs /\ Len(runs) > 0
    BY <1>1, <1>3, <1>6
  <2>2. VerifyingTypeOK'
    BY <1>1, <1>3, <2>1 DEF VerifyingTypeOK, Phases
  <2>3. Ran'
    BY <1>1, <1>4, <2>1 DEF VerifyingInv, Ran
  <2>4. NoneSkipped'
    BY <1>1, <1>4, <1>5, <2>1 DEF NoneSkipped, Behind
  <2>5. AllAsked' /\ Concluded'
    BY <1>1, <2>1 DEF VerifyingInv, AllAsked, Concluded
  <2> QED BY <2>2, <2>3, <2>4, <2>5 DEF VerifyingInv
<1>7. CASE runs = <<>>
  <2>1. /\ runs' = <<nothing>> /\ runs' \in Seq([scope : Scopes, passed : BOOLEAN])
        /\ Len(runs') = 1 /\ runs'[1] = nothing
    BY <1>1, <1>2, <1>7
  <2>2. \A j \in 1 .. 6 : Verifying!Group(Verifying!order[j]) = {}
    BY <1>5, <1>7
  <2>3. Verifying!Group("targeted") = {}
    BY <2>2, OrderOfLayers DEF Scopes
  <2>4. VerifyingTypeOK'
    BY <1>1, <1>3, <2>1 DEF VerifyingTypeOK, Phases
  <2>5. Ran'
    <3>1. \A n \in 1 .. Len(runs') : n = 1
      BY <2>1
    <3>2. Finished("targeted")
      BY <2>3 DEF Finished
    <3> QED BY <1>1, <1>2, <1>4, <2>1, <3>1, <3>2 DEF Ran
  <2>6. NoneSkipped'
    BY <1>1, <1>4, <2>2 DEF NoneSkipped, Behind
  <2>7. AllAsked' /\ Concluded'
    BY <1>1, <2>1 DEF VerifyingInv, AllAsked, Concluded
  <2> QED BY <2>4, <2>5, <2>6, <2>7 DEF VerifyingInv
<1> QED BY <1>6, <1>7

LEMMA VerifyingConclude ==
    ASSUME VerifyingInv, Verifying!Conclude
    PROVE  VerifyingInv'
<1>1. /\ phase = "conclude" /\ phase' = "done"
      /\ passed' = (runs[Len(runs)].passed /\ Verifying!HardFailures = {})
      /\ UNCHANGED <<requested, risky, manifest, selected, detected, layer, trusted, status, runs, rewrites>>
  BY DEF Verifying!Conclude
<1>2. passed' \in BOOLEAN
  <2>1. (runs[Len(runs)].passed /\ Verifying!HardFailures = {}) \in BOOLEAN
    OBVIOUS
  <2> QED BY <2>1, <1>1
<1>3. VerifyingTypeOK'
  BY <1>1, <1>2 DEF VerifyingInv, VerifyingTypeOK, Phases
<1>4. Verifying!HardFailures' = Verifying!HardFailures
  BY <1>1 DEF Verifying!HardFailures
<1>5. Concluded'
  BY <1>1, <1>4 DEF VerifyingInv, Concluded
<1>6. AllAsked' /\ Ran' /\ NoneSkipped'
  BY <1>1 DEF VerifyingInv, AllAsked, Ran, NoneSkipped, Behind, Finished, Verifying!Group, Verifying!RunPassed
<1> QED BY <1>3, <1>5, <1>6 DEF VerifyingInv

LEMMA VerifyingNext == ASSUME VerifyingInv, Verifying!Next PROVE VerifyingInv'
  BY VerifyingSelect, VerifyingLayer, VerifyingStep, VerifyingEndOfLayer, VerifyingLayered,
     VerifyingConclude, VerifyingRewrite DEF Verifying!Next

\* ---------------------------------------------------------------- the autonomy
AutoPlans    == {{}, {"x"}}
Findings     == {"unverified", "confirmed", "contradicted"}
AutoSteps    == {"plan", "approve", "mutate", "verify", "decide", "review", "repair",
                 "completed", "failed", "paused", "stopped"}
AutoScopes   == {"plain", "sensitive", "critical"}
AutoProfiles == [mutating : BOOLEAN, complexity : {"low", "medium", "high"}, scope : AutoScopes, failures : Nat]
AutoImpacts  == [affected : Nat, weak : BOOLEAN, added : BOOLEAN]
AutoChanges  == [files : Nat, lines : Nat, scripts : Nat]
AutoInputs   == [profile : AutoProfiles, proposal : AutoChanges, impact : AutoImpacts]
AutoUse      == [files : Nat, lines : Nat, mutations : Nat, repairs : Nat, replans : Nat,
                 iterations : Nat, late : BOOLEAN]
AutoChecks   == {<<>>} \cup UNION {[p -> Findings] : p \in AutoPlans}
Executions   == [pc : AutoSteps, mode : Autonomy!Modes, plan : AutoPlans, use : AutoUse, attempt : Nat,
                 input : AutoInputs, risk : AutoInputs, asked : BOOLEAN, due : BOOLEAN, expanded : BOOLEAN,
                 withdrawn : BOOLEAN, checks : AutoChecks, passed : BOOLEAN]

\* All the attempts together stay within the budget.
WithinBudget ==
    /\ auto.use.files <= 12 /\ auto.use.lines <= 250
    /\ auto.use.mutations <= 2 /\ auto.use.iterations <= 3
    /\ auto.use.repairs <= 1 /\ auto.use.replans <= 1

\* What is decided on is what the last verification said of the plan's assumptions.
Reviewed ==
    /\ auto.pc \in {"decide", "review", "completed"} => auto.passed /\ DOMAIN auto.checks = auto.plan
    /\ auto.pc \in {"review", "completed"} => (auto.expanded => auto.use.late)
    /\ auto.pc = "completed" => \A a \in auto.plan : auto.checks[a] = "confirmed"

AutonomyInv == auto \in Executions /\ WithinBudget /\ Reviewed

LEMMA ReviewFollows == AutonomyInv => Autonomy!CompletedAsReviewed
  BY DEF AutonomyInv, WithinBudget, Reviewed, Autonomy!CompletedAsReviewed, Autonomy!On

LEMMA ChangesTyped ==
    /\ {Change(1, 10, 3), Change(6, 120, 1), Change(11, 120, 0)} \subseteq AutoChanges
  BY DEF Change, AutoChanges

LEMMA ProfilesTyped == Autonomy!Profiles \subseteq AutoProfiles
<1> DEFINE Requested ==
        [words : {{"feature"}, {"refactor", "test"}}, signal : {FALSE}, files : {7, 8},
         scope : {"plain", "critical"}, failures : {39, 40}]
        \cup [words : {{}, {"test", "planning"}}, signal : {FALSE}, files : {1},
              scope : {"sensitive"}, failures : {0}]
        \cup [words : {{}}, signal : {TRUE}, files : {1}, scope : {"plain"}, failures : {0}]
<1>0. ASSUME NEW W, NEW G, NEW F, NEW S \in SUBSET AutoScopes, NEW R \in SUBSET Nat,
             NEW request \in [words : W, signal : G, files : F, scope : S, failures : R]
      PROVE  request.scope \in AutoScopes /\ request.failures \in Nat
  OBVIOUS
<1>1. ASSUME NEW request \in Requested
      PROVE  request.scope \in AutoScopes /\ request.failures \in Nat
  <2>1. CASE request \in [words : {{"feature"}, {"refactor", "test"}}, signal : {FALSE}, files : {7, 8},
                          scope : {"plain", "critical"}, failures : {39, 40}]
    BY <1>0, <2>1 DEF AutoScopes
  <2>2. CASE request \in [words : {{}, {"test", "planning"}}, signal : {FALSE}, files : {1},
                          scope : {"sensitive"}, failures : {0}]
    BY <1>0, <2>2 DEF AutoScopes
  <2>3. CASE request \in [words : {{}}, signal : {TRUE}, files : {1}, scope : {"plain"}, failures : {0}]
    BY <1>0, <2>3 DEF AutoScopes
  <2> QED BY <2>1, <2>2, <2>3
<1>2. ASSUME NEW request \in Requested
      PROVE  Autonomy!createTaskProfile(request) \in AutoProfiles
  <2> DEFINE type == Autonomy!classifyType(request.words)
             mutating == type \in {"bugfix", "refactor", "feature", "test"}
             again == type \in {"bugfix", "feature", "refactor"}
             complexity == IF request.signal \/ (mutating /\ request.files >= 8) THEN "high"
                           ELSE IF mutating \/ type \in {"planning", "investigation"} THEN "medium" ELSE "low"
  <2>1. again \in BOOLEAN /\ complexity \in {"low", "medium", "high"}
    OBVIOUS
  <2>2. Autonomy!createTaskProfile(request) =
            [mutating |-> again, complexity |-> complexity, scope |-> request.scope, failures |-> request.failures]
    BY DEF Autonomy!createTaskProfile
  <2> HIDE DEF again, complexity, Requested
  <2> QED BY <1>1, <2>1, <2>2 DEF AutoProfiles
<1>3. Autonomy!Profiles = {Autonomy!createTaskProfile(request) : request \in Requested}
  BY DEF Autonomy!Profiles
<1> HIDE DEF Requested
<1> QED BY <1>2, <1>3

LEMMA AutonomyInit == Autonomy!Init => AutonomyInv
<1> SUFFICES ASSUME Autonomy!Init PROVE AutonomyInv
  OBVIOUS
<1>1. PICK mode \in Autonomy!Modes, profile \in Autonomy!Profiles :
    auto = [pc |-> "plan", mode |-> mode, plan |-> {}, use |-> Autonomy!NoUse, attempt |-> 0,
            input |-> Autonomy!NoInput(profile), risk |-> Autonomy!NoInput(profile),
            asked |-> FALSE, due |-> FALSE, expanded |-> FALSE, withdrawn |-> FALSE,
            checks |-> <<>>, passed |-> FALSE]
  BY DEF Autonomy!Init, Autonomy!NoPlan
<1>2. Autonomy!NoUse \in AutoUse /\ Autonomy!Quiet \in AutoImpacts
  BY DEF Autonomy!NoUse, AutoUse, Autonomy!Quiet, AutoImpacts
<1>3. profile \in AutoProfiles
  BY ProfilesTyped
<1>4. Autonomy!NoInput(profile) \in AutoInputs
  BY <1>1, <1>2, <1>3 DEF Autonomy!NoInput, AutoInputs, AutoChanges
<1>5. <<>> \in AutoChecks
  BY DEF AutoChecks
<1>6. auto \in Executions
  BY <1>1, <1>2, <1>4, <1>5 DEF Executions, AutoSteps, AutoPlans
<1>7. WithinBudget /\ Reviewed
  BY <1>1 DEF WithinBudget, Reviewed, Autonomy!NoUse
<1> QED BY <1>6, <1>7 DEF AutonomyInv

LEMMA AutonomyPropose ==
    ASSUME AutonomyInv, NEW plan \in AutoPlans, NEW proposal \in AutoChanges, NEW impact \in AutoImpacts,
           Autonomy!Propose(plan, proposal, impact)
    PROVE  AutonomyInv'
<1>0. PICK input : input = [auto.input EXCEPT !.proposal = proposal, !.impact = impact]
  OBVIOUS
<1>1. auto' = [auto EXCEPT !.pc = "approve", !.plan = plan, !.input = input, !.risk = input]
  BY <1>0 DEF Autonomy!Propose
<1>2. auto \in Executions /\ input \in AutoInputs
  BY <1>0 DEF AutonomyInv, Executions, AutoInputs
<1>3. auto' \in Executions /\ auto'.use = auto.use /\ auto'.pc = "approve"
  BY <1>1, <1>2 DEF Executions, AutoSteps
<1> QED BY <1>3 DEF AutonomyInv, WithinBudget, Reviewed

LEMMA AutonomyApprove ==
    ASSUME AutonomyInv, NEW answer \in BOOLEAN, Autonomy!Approve(answer)
    PROVE  AutonomyInv'
<1> DEFINE asks == Autonomy!requiresApproval(auto.mode, auto.risk)
<1>1. asks \in BOOLEAN
  BY DEF Autonomy!requiresApproval
<1>2. auto' = [auto EXCEPT !.pc = IF asks /\ ~answer THEN "stopped" ELSE "mutate",
                           !.asked = asks, !.due = asks]
  BY DEF Autonomy!Approve
<1> HIDE DEF asks
<1>3. auto' \in Executions /\ auto'.use = auto.use /\ auto'.pc \in {"stopped", "mutate"}
  BY <1>1, <1>2 DEF AutonomyInv, Executions, AutoSteps
<1> QED BY <1>3 DEF AutonomyInv, WithinBudget, Reviewed

LEMMA AutonomyMutate ==
    ASSUME AutonomyInv, NEW impact \in AutoImpacts, Autonomy!Mutate(impact)
    PROVE  AutonomyInv'
<1> DEFINE p == auto.input.proposal
<1>0. auto \in Executions /\ p \in AutoChanges /\ auto.use \in AutoUse
  BY DEF AutonomyInv, Executions, AutoInputs
<1>1. CASE Autonomy!Overspends(auto.use, p)
  <2>1. auto' = [auto EXCEPT !.pc = "paused"]
    BY <1>1 DEF Autonomy!Mutate
  <2>2. auto' \in Executions /\ auto'.use = auto.use /\ auto'.pc = "paused"
    BY <1>0, <2>1 DEF Executions, AutoSteps
  <2> QED BY <2>2 DEF AutonomyInv, WithinBudget, Reviewed
<1>2. CASE ~Autonomy!Overspends(auto.use, p)
  <2>0. PICK input : input = [auto.input EXCEPT !.impact = impact]
    OBVIOUS
  <2>1. auto' = [auto EXCEPT !.pc = "verify", !.input = input, !.risk = input, !.expanded = impact.added,
                           !.use.mutations = @ + 1, !.use.files = @ + p.files, !.use.lines = @ + p.lines]
    BY <1>2, <2>0 DEF Autonomy!Mutate
  <2>2. auto.use.mutations < 2 /\ auto.use.files + p.files <= 12 /\ auto.use.lines + p.lines <= 250
    BY <1>0, <1>2 DEF Autonomy!Overspends, AutoUse, AutoChanges
  <2>3. /\ auto'.use = [auto.use EXCEPT !.mutations = @ + 1, !.files = @ + p.files, !.lines = @ + p.lines]
        /\ auto'.pc = "verify"
    BY <1>0, <2>1 DEF Executions, AutoUse
  <2>4. auto'.use \in AutoUse
    <3>1. /\ auto.use.mutations + 1 \in Nat
          /\ auto.use.files + p.files \in Nat /\ auto.use.lines + p.lines \in Nat
      BY <1>0 DEF AutoUse, AutoChanges
    <3> HIDE DEF p
    <3> QED BY <1>0, <2>3, <3>1 DEF AutoUse
  <2>5. auto' \in Executions
    <3>1. input \in AutoInputs /\ impact.added \in BOOLEAN
      BY <1>0, <2>0 DEF Executions, AutoInputs, AutoImpacts
    <3> QED BY <1>0, <2>1, <2>3, <2>4, <3>1 DEF Executions, AutoSteps
  <2>6. WithinBudget'
    BY <1>0, <2>2, <2>3 DEF AutonomyInv, WithinBudget, AutoUse, AutoChanges
  <2> QED BY <2>3, <2>5, <2>6 DEF AutonomyInv, Reviewed
<1> QED BY <1>1, <1>2

LEMMA AutonomyVerify ==
    ASSUME AutonomyInv, NEW succeeds \in BOOLEAN, NEW late \in BOOLEAN,
           NEW evidence \in [UNION AutoPlans -> Findings], Autonomy!Verify(succeeds, evidence, late)
    PROVE  AutonomyInv'
<1> DEFINE checks == Autonomy!Checked(auto.plan, evidence)
<1>0. auto \in Executions /\ auto.plan \in AutoPlans /\ auto.use \in AutoUse
  BY DEF AutonomyInv, Executions
<1>1. CASE auto.use.late
  <2>1. auto' = [auto EXCEPT !.pc = "paused"]
    BY <1>1 DEF Autonomy!Verify
  <2>2. auto' \in Executions /\ auto'.use = auto.use /\ auto'.pc = "paused"
    BY <1>0, <2>1 DEF Executions, AutoSteps
  <2> QED BY <2>2 DEF AutonomyInv, WithinBudget, Reviewed
<1>2. CASE ~auto.use.late
  <2>1. checks \in [auto.plan -> Findings] /\ checks \in AutoChecks /\ DOMAIN checks = auto.plan
    BY <1>0 DEF Autonomy!Checked, AutoChecks
  <2> HIDE DEF checks
  <2>2. auto' = [auto EXCEPT !.passed = succeeds, !.use.late = late, !.checks = checks,
                        !.pc = IF succeeds THEN "decide" ELSE IF auto.attempt >= MaxAttempts THEN "failed"
                               ELSE "repair"]
    BY <1>2 DEF Autonomy!Verify, checks
  <2>3. auto'.use = [auto.use EXCEPT !.late = late]
    BY <1>0, <2>2 DEF Executions
  <2>4. auto'.use \in AutoUse
    BY <1>0, <2>3 DEF AutoUse
  <2>5. auto' \in Executions
    BY <1>0, <2>1, <2>2, <2>3, <2>4 DEF Executions, AutoSteps
  <2>6. /\ auto'.pc \in {"decide", "failed", "repair"}
        /\ auto'.pc = "decide" => auto'.passed
        /\ auto'.checks = checks /\ auto'.plan = auto.plan
    BY <1>0, <2>2 DEF Executions
  <2>7. WithinBudget'
    BY <1>0, <2>3 DEF AutonomyInv, WithinBudget, AutoUse
  <2>8. Reviewed'
    BY <2>1, <2>6 DEF Reviewed
  <2> QED BY <2>5, <2>7, <2>8 DEF AutonomyInv
<1> QED BY <1>1, <1>2

LEMMA AutonomyDecide ==
    ASSUME AutonomyInv, Autonomy!Decide
    PROVE  AutonomyInv'
<1> DEFINE replan == Autonomy!Evaluated(auto.use, auto.checks, auto.expanded, TRUE, FALSE) = "replan"
<1>0. auto \in Executions /\ auto.use \in AutoUse /\ auto.pc = "decide" /\ auto.expanded \in BOOLEAN
  BY DEF AutonomyInv, Executions, Autonomy!Decide, Autonomy!On
<1>1. auto' = [auto EXCEPT !.pc = IF replan THEN "repair" ELSE "review", !.withdrawn = @ \/ replan]
  BY DEF Autonomy!Decide
<1>2. ~replan => (auto.expanded => auto.use.late)
  BY <1>0 DEF Autonomy!Evaluated, Autonomy!Exhausted, AutonomyInv, WithinBudget, AutoUse
<1>3. replan \in BOOLEAN
  OBVIOUS
<1> HIDE DEF replan
<1>4. /\ auto' \in Executions /\ auto'.use = auto.use /\ auto'.checks = auto.checks
      /\ auto'.plan = auto.plan /\ auto'.passed = auto.passed /\ auto'.expanded = auto.expanded
      /\ auto'.pc = IF replan THEN "repair" ELSE "review"
  BY <1>0, <1>1, <1>3 DEF Executions, AutoSteps
<1> QED BY <1>0, <1>2, <1>4 DEF AutonomyInv, WithinBudget, Reviewed

LEMMA AutonomyReview ==
    ASSUME AutonomyInv, Autonomy!Review
    PROVE  AutonomyInv'
<1>0. auto \in Executions /\ auto.pc = "review"
  BY DEF AutonomyInv, Autonomy!Review, Autonomy!On
<1>1. CASE Autonomy!ReviewFails(auto.checks)
  <2>1. auto' = [auto EXCEPT !.pc = "repair", !.withdrawn = TRUE]
    BY <1>1 DEF Autonomy!Review
  <2>2. auto' \in Executions /\ auto'.use = auto.use /\ auto'.pc = "repair"
    BY <1>0, <2>1 DEF Executions, AutoSteps
  <2> QED BY <2>2 DEF AutonomyInv, WithinBudget, Reviewed
<1>2. CASE ~Autonomy!ReviewFails(auto.checks)
  <2>1. auto' = [auto EXCEPT !.pc = "completed"]
    BY <1>2 DEF Autonomy!Review
  <2>2. /\ auto' \in Executions /\ auto'.use = auto.use /\ auto'.pc = "completed"
        /\ auto'.checks = auto.checks /\ auto'.plan = auto.plan /\ auto'.passed = auto.passed
        /\ auto'.expanded = auto.expanded
    BY <1>0, <2>1 DEF Executions, AutoSteps
  <2>3. \A a \in DOMAIN auto.checks : auto.checks[a] = "confirmed"
    BY <1>2 DEF Autonomy!ReviewFails
  <2> QED BY <1>0, <2>2, <2>3 DEF AutonomyInv, WithinBudget, Reviewed
<1> QED BY <1>1, <1>2

LEMMA AutonomyRepair ==
    ASSUME AutonomyInv, NEW plan \in AutoPlans, NEW proposal \in AutoChanges, NEW impact \in AutoImpacts,
           Autonomy!Repair(plan, proposal, impact)
    PROVE  AutonomyInv'
<1> DEFINE implementation == ~auto.withdrawn /\ ~Autonomy!Contradicted(auto.checks) /\ ~impact.added
           action == Autonomy!Evaluated(auto.use, auto.checks, impact.added \/ auto.withdrawn, FALSE, implementation)
           again == [auto EXCEPT !.expanded = FALSE, !.use.iterations = @ + 1]
           full == action = "stop" \/ Autonomy!NoRoom(IF action = "replan" THEN auto.use.replans ELSE auto.use.repairs,
                                         IF action = "replan" THEN 1 ELSE 1)
<1>0. auto \in Executions /\ auto.use \in AutoUse
  BY DEF AutonomyInv, Executions
<1>1. auto' =
            IF full THEN [auto EXCEPT !.pc = "paused"]
            ELSE IF action = "replan"
            THEN [again EXCEPT !.pc = "approve", !.plan = plan, !.input.proposal = proposal,
                               !.withdrawn = FALSE, !.use.replans = @ + 1]
            ELSE [again EXCEPT !.pc = "mutate", !.input.proposal = proposal,
                               !.attempt = @ + 1, !.use.repairs = @ + 1]
  BY DEF Autonomy!Repair
<1>2. ~full => /\ action = "replan" => auto.use.replans < 1
               /\ action # "replan" => auto.use.repairs < 1
               /\ auto.use.iterations < 3
  <2>1. auto.use.replans \in Nat /\ auto.use.repairs \in Nat /\ auto.use.iterations \in Nat
    BY <1>0 DEF AutoUse
  <2> HIDE DEF action
  <2> QED BY <2>1 DEF Autonomy!NoRoom
<1>3. /\ again \in Executions /\ again.use \in AutoUse
      /\ again.use = [auto.use EXCEPT !.iterations = @ + 1]
  <2>1. again.use = [auto.use EXCEPT !.iterations = @ + 1]
    BY <1>0 DEF Executions
  <2>2. auto.use.iterations + 1 \in Nat
    BY <1>0 DEF AutoUse
  <2>3. again.use \in AutoUse
    BY <1>0, <2>1, <2>2 DEF AutoUse
  <2>4. again \in Executions
    BY <1>0, <2>1, <2>3 DEF Executions
  <2> QED BY <2>1, <2>3, <2>4
<1> HIDE DEF action, again, full
<1>4. CASE full
  <2>1. auto' = [auto EXCEPT !.pc = "paused"]
    BY <1>1, <1>4
  <2>2. auto' \in Executions /\ auto'.use = auto.use /\ auto'.pc = "paused"
    BY <1>0, <2>1 DEF Executions, AutoSteps
  <2> QED BY <2>2 DEF AutonomyInv, WithinBudget, Reviewed
<1>5. CASE ~full /\ action = "replan"
  <2>1. auto' = [again EXCEPT !.pc = "approve", !.plan = plan, !.input.proposal = proposal,
                               !.withdrawn = FALSE, !.use.replans = @ + 1]
    BY <1>1, <1>5
  <2>2. auto'.use = [again.use EXCEPT !.replans = @ + 1] /\ auto'.pc = "approve"
    BY <1>3, <2>1 DEF Executions
  <2>3. auto'.use \in AutoUse /\ WithinBudget'
    <3>1. again.use.replans + 1 \in Nat /\ again.use.replans = auto.use.replans
      BY <1>0, <1>3 DEF AutoUse
    <3>2. auto'.use \in AutoUse
      BY <1>3, <2>2, <3>1 DEF AutoUse
    <3>3. /\ auto'.use.files = auto.use.files /\ auto'.use.lines = auto.use.lines
          /\ auto'.use.mutations = auto.use.mutations
          /\ auto'.use.iterations = auto.use.iterations + 1
          /\ auto'.use.replans = auto.use.replans + 1
          /\ auto'.use.repairs = auto.use.repairs
      BY <1>0, <1>3, <2>2 DEF AutoUse
    <3>4. WithinBudget'
      BY <1>0, <1>2, <1>5, <3>3 DEF AutonomyInv, WithinBudget, AutoUse
    <3> QED BY <3>2, <3>4
  <2>4. auto' \in Executions
    BY <1>3, <2>1, <2>2, <2>3 DEF Executions, AutoSteps, AutoInputs
  <2> QED BY <2>2, <2>3, <2>4 DEF AutonomyInv, Reviewed
<1>6. CASE ~full /\ action # "replan"
  <2>1. auto' = [again EXCEPT !.pc = "mutate", !.input.proposal = proposal,
                               !.attempt = @ + 1, !.use.repairs = @ + 1]
    BY <1>1, <1>6
  <2>2. auto'.use = [again.use EXCEPT !.repairs = @ + 1] /\ auto'.pc = "mutate"
    BY <1>3, <2>1 DEF Executions
  <2>3. auto'.use \in AutoUse /\ WithinBudget'
    <3>1. again.use.repairs + 1 \in Nat /\ again.use.repairs = auto.use.repairs
      BY <1>0, <1>3 DEF AutoUse
    <3>2. auto'.use \in AutoUse
      BY <1>3, <2>2, <3>1 DEF AutoUse
    <3>3. /\ auto'.use.files = auto.use.files /\ auto'.use.lines = auto.use.lines
          /\ auto'.use.mutations = auto.use.mutations
          /\ auto'.use.iterations = auto.use.iterations + 1
          /\ auto'.use.repairs = auto.use.repairs + 1
          /\ auto'.use.replans = auto.use.replans
      BY <1>0, <1>3, <2>2 DEF AutoUse
    <3>4. WithinBudget'
      BY <1>0, <1>2, <1>6, <3>3 DEF AutonomyInv, WithinBudget, AutoUse
    <3> QED BY <3>2, <3>4
  <2>4. auto' \in Executions
    <3>1. again.attempt + 1 \in Nat /\ [again.input EXCEPT !.proposal = proposal] \in AutoInputs
      BY <1>3 DEF Executions, AutoInputs
    <3> QED BY <1>3, <2>1, <2>2, <2>3, <3>1 DEF Executions, AutoSteps
  <2> QED BY <2>2, <2>3, <2>4 DEF AutonomyInv, Reviewed
<1> QED BY <1>4, <1>5, <1>6

LEMMA AutonomyNext == ASSUME AutonomyInv, Autonomy!Next PROVE AutonomyInv'
<1> DEFINE proposals == {Change(1, 10, 3), Change(6, 120, 1), Change(11, 120, 0)}
           impacts == {[affected |-> 2, weak |-> FALSE, added |-> FALSE], [affected |-> 2, weak |-> TRUE, added |-> TRUE],
                       [affected |-> 9, weak |-> FALSE, added |-> TRUE]}
<1>0. impacts \subseteq AutoImpacts
  BY DEF AutoImpacts
<1>1. \/ \E plan \in AutoPlans, proposal \in proposals, impact \in impacts :
            Autonomy!Propose(plan, proposal, impact) \/ Autonomy!Repair(plan, proposal, impact)
      \/ \E impact \in impacts : Autonomy!Mutate(impact)
      \/ \E succeeds, late \in BOOLEAN, evidence \in [UNION AutoPlans -> Findings] :
            Autonomy!Verify(succeeds, evidence, late)
      \/ (\E answer \in BOOLEAN : Autonomy!Approve(answer)) \/ Autonomy!Decide \/ Autonomy!Review
  BY DEF Autonomy!Next, Autonomy!Evidences, AutoPlans, Findings
<1> HIDE DEF proposals, impacts
<1>2. proposals \subseteq AutoChanges
  BY ChangesTyped DEF proposals
<1>3. ASSUME NEW plan \in AutoPlans, NEW proposal \in proposals, NEW impact \in impacts,
             Autonomy!Propose(plan, proposal, impact) \/ Autonomy!Repair(plan, proposal, impact)
      PROVE  AutonomyInv'
  BY <1>0, <1>2, <1>3, AutonomyPropose, AutonomyRepair
<1>4. ASSUME NEW impact \in impacts, Autonomy!Mutate(impact) PROVE AutonomyInv'
  BY <1>0, <1>4, AutonomyMutate
<1> QED BY <1>1, <1>3, <1>4, AutonomyVerify, AutonomyApprove, AutonomyDecide, AutonomyReview

\* No weight in the score of a riskier input is less than it was.
LEMMA RiskMonotone ==
    ASSUME NEW i \in AutoInputs, NEW j \in AutoInputs, Autonomy!Riskier(j, i)
    PROVE  /\ Autonomy!RiskScore(i) \in Nat /\ Autonomy!RiskScore(j) \in Nat
           /\ Autonomy!RiskScore(i) <= Autonomy!RiskScore(j)
           /\ Autonomy!Strength(j.proposal.scripts) = "strong" => Autonomy!Strength(i.proposal.scripts) = "strong"
<1> DEFINE Mutating(x) == IF x.profile.mutating THEN 1200 ELSE 0
           Complex(x) == CASE x.profile.complexity = "high" -> 2000 [] x.profile.complexity = "medium" -> 1000 [] OTHER -> 0
           Extent(x) == Autonomy!Step(Autonomy!Spread(x.proposal.files, x.impact.affected), 10, 2200, 5, 1200)
           Lines(x) == Autonomy!Step(x.proposal.lines, 300, 1800, 100, 800)
           Scope(x) == Autonomy!ScopeWeight(x.profile.scope)
           Failures(x) == Autonomy!FailureRisk(x.profile.failures)
           Weak(x) == IF x.impact.weak THEN 1200 ELSE 0
           Wide(x) == IF x.impact.affected > 8 THEN 1000 ELSE 0
           Untested(x) == IF Autonomy!Strength(x.proposal.scripts) = "weak" THEN 1500 ELSE 0
<1>0. \A x \in {i, j} :
          /\ x.profile \in AutoProfiles /\ x.proposal \in AutoChanges /\ x.impact \in AutoImpacts
          /\ x.profile.failures \in Nat /\ x.proposal.files \in Nat /\ x.proposal.lines \in Nat
          /\ x.proposal.scripts \in Nat /\ x.impact.affected \in Nat
          /\ x.profile.scope \in AutoScopes /\ x.profile.complexity \in {"low", "medium", "high"}
  BY DEF AutoInputs, AutoProfiles, AutoChanges, AutoImpacts
<1>1. /\ Mutating(i) \in Nat /\ Mutating(j) \in Nat /\ Mutating(i) <= Mutating(j)
      /\ Weak(i) \in Nat /\ Weak(j) \in Nat /\ Weak(i) <= Weak(j)
  BY DEF Autonomy!Riskier
<1>2. Complex(i) \in Nat /\ Complex(j) \in Nat /\ Complex(i) <= Complex(j)
  BY <1>0 DEF Autonomy!Riskier, Autonomy!Complexity
<1>3. Extent(i) \in Nat /\ Extent(j) \in Nat /\ Extent(i) <= Extent(j)
  BY <1>0 DEF Autonomy!Riskier, Autonomy!Step, Autonomy!Spread
<1>4. Lines(i) \in Nat /\ Lines(j) \in Nat /\ Lines(i) <= Lines(j)
  BY <1>0 DEF Autonomy!Riskier, Autonomy!Step
<1>5. Scope(i) \in Nat /\ Scope(j) \in Nat /\ Scope(i) <= Scope(j)
  BY <1>0 DEF Autonomy!Riskier, Autonomy!ScopeWeight, AutoScopes
<1>6. Failures(i) \in Nat /\ Failures(j) \in Nat /\ Failures(i) <= Failures(j)
  BY <1>0 DEF Autonomy!Riskier, Autonomy!FailureRisk, Autonomy!FailureWeight
<1>7. Wide(i) \in Nat /\ Wide(j) \in Nat /\ Wide(i) <= Wide(j)
  BY <1>0 DEF Autonomy!Riskier
<1>8. Untested(i) \in Nat /\ Untested(j) \in Nat /\ Untested(i) <= Untested(j)
  BY <1>0 DEF Autonomy!Riskier, Autonomy!Strength
<1>9. Autonomy!Strength(j.proposal.scripts) = "strong" => Autonomy!Strength(i.proposal.scripts) = "strong"
  BY <1>0 DEF Autonomy!Riskier, Autonomy!Strength
<1>10. \A x : Autonomy!RiskScore(x) = Mutating(x) + Complex(x) + Extent(x) + Lines(x) + Scope(x) + Failures(x)
                                       + Weak(x) + Wide(x) + Untested(x)
  BY DEF Autonomy!RiskScore
<1> HIDE DEF Mutating, Complex, Extent, Lines, Scope, Failures, Weak, Wide, Untested
<1> QED BY <1>1, <1>2, <1>3, <1>4, <1>5, <1>6, <1>7, <1>8, <1>9, <1>10

LEMMA RiskFollows == AutonomyInv => Autonomy!RiskierAsksMore
<1> SUFFICES ASSUME auto.risk \in AutoInputs, NEW j \in AutoInputs, Autonomy!Riskier(j, auto.risk),
                    NEW mode \in Autonomy!Modes, Autonomy!requiresApproval(mode, auto.risk)
             PROVE  /\ Autonomy!requiresApproval(mode, j)
                    /\ mode = "aggressive" => Autonomy!requiresApproval("standard", j)
                    /\ mode # "safe" => Autonomy!requiresApproval("safe", j)
  <2>1. Autonomy!Inputs \subseteq AutoInputs
    <3>1. {[affected |-> 2, weak |-> FALSE, added |-> FALSE], [affected |-> 2, weak |-> TRUE, added |-> TRUE],
           [affected |-> 9, weak |-> FALSE, added |-> TRUE]} \subseteq AutoImpacts
      BY DEF AutoImpacts
    <3> QED BY <3>1, ProfilesTyped, ChangesTyped DEF Autonomy!Inputs, AutoInputs
  <2>2. AutonomyInv => auto.risk \in AutoInputs
    BY DEF AutonomyInv, Executions
  <2> QED BY <2>1, <2>2 DEF Autonomy!RiskierAsksMore
<1> DEFINE i == auto.risk
<1>1. /\ Autonomy!RiskScore(i) \in Nat /\ Autonomy!RiskScore(j) \in Nat
      /\ Autonomy!RiskScore(i) <= Autonomy!RiskScore(j)
      /\ Autonomy!Strength(j.proposal.scripts) = "strong" => Autonomy!Strength(i.proposal.scripts) = "strong"
  BY RiskMonotone
<1>2. /\ Autonomy!RiskLevel(i) = "critical" => Autonomy!RiskLevel(j) = "critical"
      /\ Autonomy!RiskLevel(i) = "high" => Autonomy!RiskLevel(j) \in {"high", "critical"}
      /\ Autonomy!RiskLevel(i) # "low" => Autonomy!RiskLevel(j) # "low"
  BY <1>1 DEF Autonomy!RiskLevel
<1> QED BY <1>1, <1>2 DEF Autonomy!requiresApproval, Autonomy!Modes

\* ------------------------------------------------------------------ the sandbox
Gone     == -1   \* SandboxLifecycle's Missing
Making   == {"created", "copy", "ready", "baseline", "based", "start", "bind"}
Filled   == {"ready", "baseline", "based", "start", "bind"}
Refound  == {"recopy", "restore", "recovered"}
Closing  == {"stop", "remove", "released"}
BoxSteps == {"idle", "taken", "compare"} \cup Making \cup Refound \cup Closing
BoxStates == {"none", "created", "preparing", "ready", "running", "paused", "stopping", "destroyed", "failed"}
Roots    == [tree : Int, gone : BOOLEAN]
Taken    == [root : Nat, tree : Int \ {Gone}]
Records  == [status : BoxStates, path : Nat, snapshot : Nat]
Boxes    == [pc : BoxSteps, retention : {"destroy", "retain-on-failure"}, stored : Records, handle : Nat,
             roots : Seq(Roots), taken : Seq(Taken), bound : BOOLEAN, run : {"none", "open", "failing"},
             over : BOOLEAN, held : SUBSET Int, adopted : BOOLEAN, edits : Nat, troubles : Nat]

BoxTypeOK ==
    /\ boxed \in Boxes
    /\ boxed.stored.path <= Len(boxed.roots) /\ boxed.handle <= Len(boxed.roots)
    /\ boxed.stored.snapshot <= Len(boxed.taken)

\* Where a call of the manager stands: making the sandbox, using or leaving it.
Located ==
    /\ boxed.pc \in Making => ~boxed.bound /\ boxed.handle = boxed.stored.path /\ boxed.stored.path # 0
    /\ boxed.pc \in Refound \cup Closing \cup {"taken", "compare"} => boxed.bound
    /\ boxed.bound => boxed.stored.path # 0
    /\ ~boxed.bound => boxed.run = "none"
    /\ boxed.bound \/ boxed.pc \in {"start", "bind"} => boxed.stored.snapshot # 0
    /\ boxed.pc \in {"based", "taken"} => Len(boxed.taken) # 0
    /\ boxed.pc \in Refound => boxed.handle > boxed.stored.path /\ boxed.run # "open"
    /\ boxed.pc \in Closing => boxed.run = "none"
    /\ boxed.stored.status = "destroyed" => boxed.pc = "idle" /\ boxed.run = "none" /\ boxed.bound

Kept == boxed.roots[boxed.stored.path].tree   \* the workspace of the record
Holds == boxed.bound \/ boxed.pc \in Filled

\* The workspace holds what was last written to it; of a lost one the newest snapshots
\* are left, and the directory a recovery works in holds the one that counts.
Preserved ==
    /\ boxed.run = "open" \/ boxed.pc = "compare" => boxed.handle = boxed.stored.path
    /\ boxed.bound /\ boxed.handle # 0 /\ boxed.handle # boxed.stored.path => Kept = Gone
    /\ Holds /\ Kept # Gone => Kept \in boxed.held
    /\ Holds /\ Kept = Gone =>
          \A k \in 1 .. Len(boxed.taken) : k >= Sandboxing!Newest => boxed.taken[k].tree \in boxed.held
    /\ boxed.pc = "recovered" =>
          boxed.roots[boxed.handle].tree \in {Gone, boxed.taken[Sandboxing!Newest].tree}
    /\ boxed.pc = "released" \/ boxed.stored.status = "destroyed" => Kept = Gone

BoxInv == BoxTypeOK /\ Located /\ (~boxed.adopted => Preserved)

LEMMA WorkKept == BoxInv => Sandboxing!KeptWork
  BY DEF BoxInv, BoxTypeOK, Located, Preserved, Kept, Holds, Gone, Sandboxing!KeptWork, Sandboxing!Open,
         Sandboxing!Idle, Sandboxing!On, Sandboxing!Exists, Sandboxing!Tree, Sandboxing!Where,
         Sandboxing!Status, Sandboxing!Missing, Sandboxing!None, Boxes, Records

LEMMA BoxInit == Sandboxing!Init => BoxInv
<1> SUFFICES ASSUME NEW retention \in {"destroy", "retain-on-failure"},
                    boxed = [pc |-> "idle", retention |-> retention,
                             stored |-> [status |-> "none", path |-> 0, snapshot |-> 0], handle |-> 0,
                             roots |-> <<>>, taken |-> <<>>, bound |-> FALSE, run |-> "none", over |-> FALSE,
                             held |-> {}, adopted |-> FALSE, edits |-> 0, troubles |-> 0]
             PROVE  BoxInv
  BY DEF Sandboxing!Init, Sandboxing!None
<1>1. boxed.roots \in Seq(Roots) /\ boxed.taken \in Seq(Taken)
  OBVIOUS
<1>2. boxed \in Boxes
  BY <1>1 DEF Boxes, BoxSteps, Records, BoxStates
<1>3. BoxTypeOK
  BY <1>2 DEF BoxTypeOK
<1>4. Located /\ Preserved
  BY DEF Located, Preserved, Holds, Making, Refound, Closing, Filled
<1> QED BY <1>3, <1>4 DEF BoxInv

\* What one directory more, and a change of one, are.
LEMMA RootAdded ==
    ASSUME NEW s \in Seq(Roots), NEW r \in Roots
    PROVE  /\ Append(s, r) \in Seq(Roots) /\ Len(Append(s, r)) = Len(s) + 1
           /\ Append(s, r)[Len(s) + 1] = r /\ \A k \in 1 .. Len(s) : Append(s, r)[k] = s[k]
  OBVIOUS

LEMMA RootChanged ==
    ASSUME NEW s \in Seq(Roots), NEW n \in 1 .. Len(s), NEW r \in Roots
    PROVE  /\ [s EXCEPT ![n] = r] \in Seq(Roots) /\ Len([s EXCEPT ![n] = r]) = Len(s)
           /\ [s EXCEPT ![n] = r][n] = r
           /\ \A k \in 1 .. Len(s) : k # n => [s EXCEPT ![n] = r][k] = s[k]
  OBVIOUS

LEMMA TreeChanged ==
    ASSUME NEW s \in Seq(Roots), NEW n \in 1 .. Len(s), NEW t \in Int
    PROVE  /\ [s EXCEPT ![n].tree = t] \in Seq(Roots) /\ Len([s EXCEPT ![n].tree = t]) = Len(s)
           /\ [s EXCEPT ![n].tree = t][n].tree = t
           /\ \A k \in 1 .. Len(s) : k # n => [s EXCEPT ![n].tree = t][k] = s[k]
<1>0. ASSUME NEW r \in Roots PROVE [r EXCEPT !.tree = t] \in Roots /\ [r EXCEPT !.tree = t].tree = t
  BY DEF Roots
<1>1. s[n] \in Roots /\ [s[n] EXCEPT !.tree = t] \in Roots /\ [s[n] EXCEPT !.tree = t].tree = t
  BY <1>0
<1>2. [s EXCEPT ![n].tree = t] = [s EXCEPT ![n] = [s[n] EXCEPT !.tree = t]]
  OBVIOUS
<1> QED BY <1>1, <1>2, RootChanged

\* A step that leaves directories and snapshots alone.
LEMMA BoxQuiet ==
    ASSUME BoxInv, boxed' \in Boxes, Located',
           boxed'.roots = boxed.roots, boxed'.taken = boxed.taken, boxed'.held = boxed.held,
           boxed'.adopted = boxed.adopted, boxed'.stored.path = boxed.stored.path,
           boxed'.stored.snapshot = boxed.stored.snapshot, boxed'.handle \in {0, boxed.handle},
           boxed'.bound => boxed.bound, Holds' => Holds,
           boxed'.run = "open" \/ boxed'.pc = "compare" =>
               boxed'.handle = boxed.handle /\ (boxed.run = "open" \/ boxed.pc = "compare"),
           boxed'.pc # "recovered",
           boxed'.pc = "released" \/ boxed'.stored.status = "destroyed" =>
               boxed.pc = "released" \/ boxed.stored.status = "destroyed"
    PROVE  BoxInv'
<1>1. BoxTypeOK'
  BY DEF BoxInv, BoxTypeOK, Boxes
<1>2. Kept' = Kept /\ Sandboxing!Newest' = Sandboxing!Newest
  BY DEF Kept, Sandboxing!Newest
<1>3. ASSUME ~boxed.adopted PROVE Preserved'
  <2> HIDE DEF Kept, Holds, Sandboxing!Newest
  <2> QED BY <1>2, <1>3 DEF BoxInv, Preserved
<1> QED BY <1>1, <1>3 DEF BoxInv

LEMMA BoxCreate == ASSUME BoxInv, Sandboxing!Create PROVE BoxInv'
<1>0. boxed \in Boxes /\ boxed.roots \in Seq(Roots) /\ Len(boxed.roots) \in Nat /\ boxed.pc = "idle" /\ ~boxed.bound
      /\ boxed.taken \in Seq(Taken) /\ Len(boxed.taken) \in Nat
  BY DEF BoxInv, BoxTypeOK, Boxes, Sandboxing!Create, Sandboxing!On
<1>1. boxed' = [boxed EXCEPT !.pc = "created", !.roots = Append(@, Sandboxing!NewRoot), !.handle = Len(boxed.roots) + 1,
                    !.stored = [status |-> "created", path |-> Len(boxed.roots) + 1, snapshot |-> 0]]
  BY DEF Sandboxing!Create, Sandboxing!NextRoot, Sandboxing!None
<1>2. Sandboxing!NewRoot \in Roots
  BY DEF Sandboxing!NewRoot, Sandboxing!Missing, Roots
<1>3. Append(boxed.roots, Sandboxing!NewRoot) \in Seq(Roots)
      /\ Len(Append(boxed.roots, Sandboxing!NewRoot)) = Len(boxed.roots) + 1
  BY <1>0, <1>2, RootAdded
<1>4. boxed' \in Boxes
  <2>1. [status |-> "created", path |-> Len(boxed.roots) + 1, snapshot |-> 0] \in Records
    BY <1>0 DEF Records, BoxStates
  <2>2. Len(boxed.roots) + 1 \in Nat /\ "created" \in BoxSteps
    BY <1>0 DEF BoxSteps, Making
  <2> QED BY <1>0, <1>1, <1>3, <2>1, <2>2 DEF Boxes
<1>5. /\ boxed'.pc = "created" /\ boxed'.handle = Len(boxed.roots) + 1 /\ boxed'.stored.path = Len(boxed.roots) + 1
      /\ boxed'.stored.status = "created" /\ boxed'.stored.snapshot = 0 /\ boxed'.bound = FALSE /\ boxed'.run = boxed.run
      /\ boxed'.taken = boxed.taken /\ Len(boxed'.roots) = Len(boxed.roots) + 1
  BY <1>0, <1>1, <1>3 DEF Boxes
<1>6. BoxTypeOK'
  BY <1>0, <1>4, <1>5 DEF BoxTypeOK
<1>7. Located' /\ Preserved'
  BY <1>0, <1>5 DEF BoxInv, Located, Preserved, Holds, Making, Refound, Closing, Filled
<1> QED BY <1>6, <1>7 DEF BoxInv

LEMMA BoxPreparing == ASSUME BoxInv, Sandboxing!Preparing PROVE BoxInv'
<1>1. boxed.pc = "created" /\ boxed' = [boxed EXCEPT !.pc = "copy", !.stored.status = "preparing"]
  BY DEF Sandboxing!Preparing, Sandboxing!On
<1> QED BY <1>1 DEF BoxInv, BoxTypeOK, Boxes, BoxSteps, Records, BoxStates, Located, Preserved, Kept, Holds, Making, Refound,
      Closing, Filled, Sandboxing!Newest

LEMMA BoxReady == ASSUME BoxInv, Sandboxing!Ready PROVE BoxInv'
<1>1. boxed.pc = "ready" /\ boxed' = [boxed EXCEPT !.pc = "baseline", !.stored.status = "ready"]
  BY DEF Sandboxing!Ready, Sandboxing!On
<1> QED BY <1>1 DEF BoxInv, BoxTypeOK, Boxes, BoxSteps, Records, BoxStates, Located, Preserved, Kept, Holds, Making, Refound,
      Closing, Filled, Sandboxing!Newest, Sandboxing!None

LEMMA BoxStart == ASSUME BoxInv, Sandboxing!Start PROVE BoxInv'
<1>1. boxed.pc = "start" /\ boxed' = [boxed EXCEPT !.pc = "bind", !.stored.status = "running"]
  BY DEF Sandboxing!Start, Sandboxing!On
<1> QED BY <1>1 DEF BoxInv, BoxTypeOK, Boxes, BoxSteps, Records, BoxStates, Located, Preserved, Kept, Holds, Making, Refound,
      Closing, Filled, Sandboxing!Newest, Sandboxing!None

LEMMA BoxBind == ASSUME BoxInv, Sandboxing!Bind PROVE BoxInv'
<1>1. boxed.pc = "bind" /\ boxed' = [boxed EXCEPT !.pc = "idle", !.bound = TRUE, !.run = "open"]
  BY DEF Sandboxing!Bind, Sandboxing!On
<1> QED BY ZenonT(60), <1>1 DEF BoxInv, BoxTypeOK, Boxes, BoxSteps, Records, BoxStates, Located, Preserved, Kept, Holds, Making, Refound,
      Closing, Filled, Sandboxing!Newest, Sandboxing!None

LEMMA BoxRecord == ASSUME BoxInv, Sandboxing!Record PROVE BoxInv'
<1>0. /\ boxed \in Boxes /\ boxed.stored \in Records /\ boxed.stored.snapshot \in Nat /\ Len(boxed.taken) \in Nat
      /\ boxed.stored.snapshot <= Len(boxed.taken)
  BY DEF BoxInv, BoxTypeOK, Boxes, Records
<1>1. /\ boxed.pc \in {"based", "taken"}
      /\ boxed' = [boxed EXCEPT !.pc = IF boxed.pc = "based" THEN "start" ELSE "idle",
                                !.stored.snapshot = Len(boxed.taken)]
  BY DEF Sandboxing!Record, Sandboxing!On
<1>2. /\ boxed'.pc = IF boxed.pc = "based" THEN "start" ELSE "idle"
      /\ boxed'.stored = [boxed.stored EXCEPT !.snapshot = Len(boxed.taken)]
      /\ boxed'.roots = boxed.roots /\ boxed'.taken = boxed.taken /\ boxed'.held = boxed.held
      /\ boxed'.adopted = boxed.adopted /\ boxed'.handle = boxed.handle /\ boxed'.bound = boxed.bound
      /\ boxed'.run = boxed.run
  BY <1>0, <1>1 DEF Boxes
<1>3. /\ boxed'.stored.path = boxed.stored.path /\ boxed'.stored.status = boxed.stored.status
      /\ boxed'.stored.snapshot = Len(boxed.taken) /\ boxed'.stored \in Records
  BY <1>0, <1>2 DEF Records
<1>4. boxed' \in Boxes
  BY <1>0, <1>1, <1>2, <1>3 DEF Boxes, BoxSteps, Making
<1>5. BoxTypeOK' /\ Located'
  BY <1>0, <1>1, <1>2, <1>3, <1>4 DEF BoxInv, BoxTypeOK, Located, Making, Refound, Closing
<1>6. Len(boxed.taken) # 0 /\ Sandboxing!Newest <= Len(boxed.taken) /\ Sandboxing!Newest' = Len(boxed.taken)
  BY <1>0, <1>1, <1>2, <1>3 DEF BoxInv, Located, Sandboxing!Newest, Sandboxing!None
<1>7. Sandboxing!Newest \in Nat
  BY <1>0 DEF Sandboxing!Newest
<1>8. Kept' = Kept /\ (Holds' <=> Holds) /\ Holds
  BY <1>1, <1>2, <1>3 DEF Kept, Holds, Filled, BoxInv, Located
<1>9. ASSUME ~boxed.adopted PROVE Preserved'
  <2>1. ASSUME Kept = Gone, NEW k \in 1 .. Len(boxed.taken), k >= Len(boxed.taken)
        PROVE  boxed.taken[k].tree \in boxed.held
    <3>1. k >= Sandboxing!Newest
      BY <1>0, <1>6, <1>7, <2>1
    <3> QED BY <1>8, <1>9, <2>1, <3>1 DEF BoxInv, Preserved
  <2> HIDE DEF Kept, Holds, Sandboxing!Newest
  <2> QED BY <1>1, <1>2, <1>3, <1>6, <1>8, <1>9, <2>1 DEF BoxInv, Preserved
<1> QED BY <1>2, <1>5, <1>9 DEF BoxInv

LEMMA BoxPause == ASSUME BoxInv, Sandboxing!Pause PROVE BoxInv'
<1>1. boxed.pc = "idle" /\ boxed.bound /\ boxed.run = "open" /\ boxed.stored.status # "destroyed"
      /\ boxed' = [boxed EXCEPT !.stored.status = "paused", !.run = "none"]
  BY DEF Sandboxing!Pause, Sandboxing!Open, Sandboxing!Idle, Sandboxing!On, Sandboxing!Can, Sandboxing!Status, Sandboxing!transitions
<1> QED BY ZenonT(60), <1>1 DEF BoxInv, BoxTypeOK, Boxes, BoxSteps, Records, BoxStates, Located, Preserved, Kept, Holds, Making, Refound,
      Closing, Filled, Sandboxing!Newest, Sandboxing!None

LEMMA BoxRecovered == ASSUME BoxInv, Sandboxing!Recovered PROVE BoxInv'
<1>0. /\ boxed \in Boxes /\ boxed.handle \in Nat /\ boxed.stored.path \in Nat /\ boxed.stored.snapshot \in Nat
      /\ boxed.stored \in Records /\ Len(boxed.taken) \in Nat
  BY DEF BoxInv, BoxTypeOK, Boxes, Records
<1>1. boxed.pc = "recovered" /\ boxed.handle > boxed.stored.path /\ boxed.stored.path # 0 /\ boxed.bound
  BY DEF Sandboxing!Recovered, Sandboxing!On, BoxInv, Located, Refound
<1>2. boxed' = [boxed EXCEPT !.pc = "compare", !.stored.status = "paused", !.stored.path = boxed.handle]
  <2>1. Sandboxing!Where = boxed.handle
    BY <1>0, <1>1 DEF Sandboxing!Where, Sandboxing!None
  <2> QED BY <2>1 DEF Sandboxing!Recovered
<1>3. boxed'.stored = [status |-> "paused", path |-> boxed.handle, snapshot |-> boxed.stored.snapshot]
  BY <1>0, <1>2 DEF Boxes, Records
<1>4. /\ boxed'.pc = "compare" /\ boxed'.handle = boxed.handle /\ boxed'.roots = boxed.roots
      /\ boxed'.taken = boxed.taken /\ boxed'.bound = TRUE /\ boxed'.run = boxed.run
      /\ boxed'.held = boxed.held /\ boxed'.adopted = boxed.adopted
  BY <1>0, <1>1, <1>2 DEF Boxes
<1>5. boxed' \in Boxes
  <2>1. boxed'.stored \in Records
    BY <1>0, <1>3 DEF Records, BoxStates
  <2> QED BY <1>0, <1>2, <1>3, <2>1 DEF Boxes, BoxSteps
<1>6. BoxTypeOK' /\ Located'
  BY <1>0, <1>1, <1>3, <1>4, <1>5 DEF BoxInv, BoxTypeOK, Located, Making, Refound, Closing
<1>7. ASSUME ~boxed.adopted PROVE Preserved'
  <2>1. /\ Kept = Gone /\ Kept' = boxed.roots[boxed.handle].tree
        /\ Kept' \in {Gone, boxed.taken[Sandboxing!Newest].tree}
        /\ \A k \in 1 .. Len(boxed.taken) : k >= Sandboxing!Newest => boxed.taken[k].tree \in boxed.held
    BY <1>0, <1>1, <1>3, <1>4, <1>7 DEF BoxInv, Preserved, Kept, Holds
  <2>2. Sandboxing!Newest' = Sandboxing!Newest /\ Sandboxing!Newest \in 1 .. Len(boxed.taken)
    BY <1>0, <1>1, <1>3, <1>4 DEF BoxInv, BoxTypeOK, Located, Sandboxing!Newest, Sandboxing!None
  <2>3. Kept' # Gone => Kept' \in boxed.held
    BY <2>1, <2>2
  <2> HIDE DEF Kept, Sandboxing!Newest
  <2> QED BY <1>0, <1>3, <1>4, <2>1, <2>2, <2>3 DEF Preserved, Holds, Filled
<1> QED BY <1>4, <1>6, <1>7 DEF BoxInv

LEMMA BoxRestated ==
    ASSUME BoxInv, boxed.pc = "compare", NEW r \in {"none", "open", "failing"}, NEW t \in BoxStates \ {"destroyed"},
           boxed' = [boxed EXCEPT !.pc = "idle", !.run = r, !.stored.status = t]
    PROVE  BoxInv'
<1>0. boxed \in Boxes /\ boxed.stored \in Records
  BY DEF BoxInv, BoxTypeOK, Boxes
<1>1. /\ boxed'.pc = "idle" /\ boxed'.stored = [boxed.stored EXCEPT !.status = t]
      /\ boxed'.roots = boxed.roots /\ boxed'.taken = boxed.taken /\ boxed'.held = boxed.held
      /\ boxed'.adopted = boxed.adopted /\ boxed'.handle = boxed.handle /\ boxed'.bound = boxed.bound
      /\ boxed'.run = r
  BY <1>0 DEF Boxes
<1>2. /\ boxed'.stored.path = boxed.stored.path /\ boxed'.stored.status = t
      /\ boxed'.stored.snapshot = boxed.stored.snapshot /\ boxed'.stored \in Records
  BY <1>0, <1>1 DEF Records
<1>3. boxed' \in Boxes
  BY <1>0, <1>1, <1>2 DEF Boxes, BoxSteps
<1>4. Located' /\ (Holds' => Holds)
  BY <1>1, <1>2 DEF BoxInv, Located, Holds, Making, Refound, Closing, Filled
<1> QED BY <1>1, <1>2, <1>3, <1>4, BoxQuiet

LEMMA BoxCompare == ASSUME BoxInv, NEW same \in BOOLEAN, Sandboxing!Compare(same) PROVE BoxInv'
<1>0. boxed \in Boxes /\ boxed.stored \in Records
  BY DEF BoxInv, BoxTypeOK, Boxes
<1>1. /\ boxed.pc = "compare"
      /\ boxed' = IF ~same THEN [boxed EXCEPT !.pc = "idle", !.run = "failing"]
                  ELSE [boxed EXCEPT !.pc = "idle", !.run = IF boxed.over THEN "none" ELSE "open",
                                     !.stored.status = IF @ = "paused" THEN "running" ELSE @]
  BY DEF Sandboxing!Compare, Sandboxing!On
<1>2. boxed.stored.status # "destroyed" /\ boxed.bound /\ boxed.stored.status \in BoxStates
  BY <1>0, <1>1 DEF BoxInv, Located, Records
<1>3. PICK r \in {"none", "open", "failing"}, t \in BoxStates \ {"destroyed"} :
          boxed' = [boxed EXCEPT !.pc = "idle", !.run = r, !.stored.status = t]
  <2>1. CASE ~same
    <3>1. boxed' = [boxed EXCEPT !.pc = "idle", !.run = "failing", !.stored.status = boxed.stored.status]
      BY <1>0, <1>1, <2>1 DEF Boxes, Records
    <3> QED BY <1>2, <3>1
  <2>2. CASE same
    <3>1. (IF boxed.stored.status = "paused" THEN "running" ELSE boxed.stored.status) \in BoxStates \ {"destroyed"}
      BY <1>2 DEF BoxStates
    <3>2. boxed' = [boxed EXCEPT !.pc = "idle", !.run = IF boxed.over THEN "none" ELSE "open",
                        !.stored.status = IF boxed.stored.status = "paused" THEN "running" ELSE boxed.stored.status]
      BY <1>1, <2>2
    <3> QED BY <3>1, <3>2
  <2> QED BY <2>1, <2>2
<1> QED BY <1>0, <1>1, <1>2, <1>3, BoxRestated

LEMMA BoxFinalize ==
    ASSUME BoxInv, NEW success \in BOOLEAN, NEW cancelled \in BOOLEAN, Sandboxing!Finalize(success, cancelled)
    PROVE  BoxInv'
<1>1. boxed.pc = "idle" /\ boxed.bound /\ boxed.run \in {"open", "failing"}
  BY DEF Sandboxing!Finalize, Sandboxing!Open, Sandboxing!Idle, Sandboxing!On
<1>2. boxed.stored.status # "destroyed" /\ boxed.over \in BOOLEAN
  BY <1>1 DEF BoxInv, Located, BoxTypeOK, Boxes
<1>3. PICK p \in {"idle", "stop"}, t \in BoxStates \ {"destroyed"}, over \in BOOLEAN :
          boxed' = [boxed EXCEPT !.pc = p, !.run = "none", !.over = over, !.stored.status = t]
  <2> DEFINE over == boxed.over \/ success \/ cancelled
             ended == [boxed EXCEPT !.run = "none", !.over = over]
  <2>1. over \in BOOLEAN
    OBVIOUS
  <2>2. boxed' \in {ended, [ended EXCEPT !.pc = "stop"], [ended EXCEPT !.stored.status = "paused"]}
    BY DEF Sandboxing!Finalize
  <2> HIDE DEF over
  <2>3. boxed \in Boxes /\ boxed.stored.status \in BoxStates \ {"destroyed"}
    BY <1>2 DEF BoxInv, BoxTypeOK, Boxes, Records
  <2>4. CASE boxed' = ended
    <3>1. ended = [boxed EXCEPT !.pc = "idle", !.run = "none", !.over = over, !.stored.status = boxed.stored.status]
      BY ZenonT(60), <1>1, <2>3 DEF Boxes, Records
    <3> QED BY <2>1, <2>3, <2>4, <3>1
  <2>5. CASE boxed' = [ended EXCEPT !.pc = "stop"]
    <3>1. [ended EXCEPT !.pc = "stop"]
            = [boxed EXCEPT !.pc = "stop", !.run = "none", !.over = over, !.stored.status = boxed.stored.status]
      BY ZenonT(60), <1>1, <2>3 DEF Boxes, Records
    <3> QED BY <2>1, <2>3, <2>5, <3>1
  <2>6. CASE boxed' = [ended EXCEPT !.stored.status = "paused"]
    <3>1. [ended EXCEPT !.stored.status = "paused"]
            = [boxed EXCEPT !.pc = "idle", !.run = "none", !.over = over, !.stored.status = "paused"]
      BY <1>1, <2>3 DEF Boxes, Records
    <3> QED BY <2>1, <2>6, <3>1 DEF BoxStates
  <2> QED BY <2>2, <2>4, <2>5, <2>6
<1>4. /\ boxed'.pc = p /\ boxed'.stored = [boxed.stored EXCEPT !.status = t]
      /\ boxed'.roots = boxed.roots /\ boxed'.taken = boxed.taken /\ boxed'.held = boxed.held
      /\ boxed'.adopted = boxed.adopted /\ boxed'.handle = boxed.handle /\ boxed'.bound = boxed.bound
      /\ boxed'.run = "none" /\ boxed \in Boxes /\ boxed.stored \in Records
  BY <1>3 DEF BoxInv, BoxTypeOK, Boxes
<1>5. /\ boxed'.stored.path = boxed.stored.path /\ boxed'.stored.status = t
      /\ boxed'.stored.snapshot = boxed.stored.snapshot /\ boxed'.stored \in Records
  BY <1>4 DEF Records
<1>6. boxed' \in Boxes
  BY ZenonT(60), <1>3, <1>4, <1>5 DEF Boxes, BoxSteps, Closing
<1>7. Located' /\ (Holds' => Holds)
  BY <1>1, <1>2, <1>4, <1>5 DEF BoxInv, Located, Holds, Making, Refound, Closing, Filled
<1> QED BY <1>4, <1>5, <1>6, <1>7, BoxQuiet

LEMMA BoxStop == ASSUME BoxInv, Sandboxing!Stop PROVE BoxInv'
<1>1. boxed.pc = "stop" /\ boxed' = [boxed EXCEPT !.pc = "remove", !.stored.status = "stopping"]
  BY DEF Sandboxing!Stop, Sandboxing!On
<1> QED BY ZenonT(60), <1>1 DEF BoxInv, BoxTypeOK, Boxes, BoxSteps, Records, BoxStates, Located, Preserved, Kept, Holds, Making, Refound,
      Closing, Filled, Sandboxing!Newest, Sandboxing!None

LEMMA BoxDestroyed == ASSUME BoxInv, Sandboxing!Destroyed PROVE BoxInv'
<1>0. boxed \in Boxes /\ boxed.stored \in Records
  BY DEF BoxInv, BoxTypeOK, Boxes
<1>1. boxed.pc = "released" /\ boxed' = [boxed EXCEPT !.pc = "idle", !.stored.status = "destroyed", !.handle = 0]
  BY DEF Sandboxing!Destroyed, Sandboxing!On, Sandboxing!None
<1>2. /\ boxed'.pc = "idle" /\ boxed'.stored = [boxed.stored EXCEPT !.status = "destroyed"]
      /\ boxed'.roots = boxed.roots /\ boxed'.taken = boxed.taken /\ boxed'.held = boxed.held
      /\ boxed'.adopted = boxed.adopted /\ boxed'.handle = 0 /\ boxed'.bound = boxed.bound
      /\ boxed'.run = boxed.run
  BY <1>0, <1>1 DEF Boxes
<1>3. /\ boxed'.stored.path = boxed.stored.path /\ boxed'.stored.status = "destroyed"
      /\ boxed'.stored.snapshot = boxed.stored.snapshot /\ boxed'.stored \in Records
  BY <1>0, <1>2 DEF Records, BoxStates
<1>4. boxed' \in Boxes
  BY <1>0, <1>1, <1>2, <1>3 DEF Boxes, BoxSteps
<1>5. Located' /\ (Holds' => Holds) /\ boxed.run = "none"
  BY <1>1, <1>2, <1>3 DEF BoxInv, Located, Holds, Making, Refound, Closing, Filled
<1> QED BY <1>1, <1>2, <1>3, <1>4, <1>5, BoxQuiet

LEMMA BoxRestart == ASSUME BoxInv, Sandboxing!Restart PROVE BoxInv'
<1> DEFINE after == [boxed EXCEPT !.pc = "idle", !.run = "none", !.handle = 0]
<1>0. boxed \in Boxes
  BY DEF BoxInv, BoxTypeOK
<1>1. boxed' = [after EXCEPT !.troubles = @ + 1]
  BY DEF Sandboxing!Restart, Sandboxing!Trouble, Sandboxing!None
<1>2. /\ boxed'.pc = "idle" /\ boxed'.stored = boxed.stored
      /\ boxed'.roots = boxed.roots /\ boxed'.taken = boxed.taken /\ boxed'.held = boxed.held
      /\ boxed'.adopted = boxed.adopted /\ boxed'.handle = 0 /\ boxed'.bound = boxed.bound
      /\ boxed'.run = "none"
  BY <1>0, <1>1 DEF Boxes
<1>3. boxed' \in Boxes
  <2>1. boxed' = [boxed EXCEPT !.pc = "idle", !.run = "none", !.handle = 0, !.troubles = boxed.troubles + 1]
    BY <1>0, <1>1 DEF Boxes
  <2>2. boxed.troubles + 1 \in Nat
    BY <1>0 DEF Boxes
  <2> QED BY <1>0, <2>1, <2>2 DEF Boxes, BoxSteps
<1>4. Located' /\ (Holds' => Holds)
  BY <1>2 DEF BoxInv, Located, Holds, Making, Refound, Closing, Filled
<1> QED BY <1>2, <1>3, <1>4, BoxQuiet

\* The workspace a call finds: the handle's, else the record's.
LEMMA BoxWhere ==
    ASSUME BoxInv, boxed.bound \/ boxed.pc \in Making
    PROVE  /\ Sandboxing!Where \in 1 .. Len(boxed.roots) /\ boxed.stored.path \in 1 .. Len(boxed.roots)
           /\ Sandboxing!Where = IF boxed.handle # 0 THEN boxed.handle ELSE boxed.stored.path
           /\ boxed.handle = boxed.stored.path => Sandboxing!Where = boxed.stored.path
           /\ boxed.roots \in Seq(Roots) /\ Len(boxed.roots) \in Nat
           /\ boxed.taken \in Seq(Taken) /\ Len(boxed.taken) \in Nat
           /\ boxed \in Boxes /\ boxed.stored \in Records /\ boxed.handle \in Nat /\ boxed.stored.path \in Nat
<1>1. /\ boxed.roots \in Seq(Roots) /\ Len(boxed.roots) \in Nat
      /\ boxed.taken \in Seq(Taken) /\ Len(boxed.taken) \in Nat
      /\ boxed \in Boxes /\ boxed.stored \in Records /\ boxed.handle \in Nat /\ boxed.stored.path \in Nat
  BY DEF BoxInv, BoxTypeOK, Boxes, Records
<1>2. boxed.stored.path \in 1 .. Len(boxed.roots) /\ boxed.handle <= Len(boxed.roots)
  BY <1>1 DEF BoxInv, BoxTypeOK, Located
<1>3. Sandboxing!Where = IF boxed.handle # 0 THEN boxed.handle ELSE boxed.stored.path
  BY DEF Sandboxing!Where, Sandboxing!None
<1> QED BY <1>1, <1>2, <1>3

\* The call of an open run writes to the workspace.
LEMMA BoxWritten ==
    ASSUME BoxInv, boxed.pc = "idle", boxed.bound, boxed.run = "open", NEW t \in Int \ {Gone}, NEW e \in Nat,
           boxed' = [boxed EXCEPT !.edits = e, !.roots[Sandboxing!Where].tree = t, !.held = {t}]
    PROVE  BoxInv'
<1> DEFINE w == Sandboxing!Where
           r == [boxed.roots EXCEPT ![w].tree = t]
<1>0. /\ w \in 1 .. Len(boxed.roots) /\ boxed \in Boxes /\ boxed.roots \in Seq(Roots) /\ Len(boxed.roots) \in Nat
      /\ boxed.handle = boxed.stored.path => w = boxed.stored.path
  BY BoxWhere
<1> HIDE DEF w
<1>1. /\ r \in Seq(Roots) /\ Len(r) = Len(boxed.roots) /\ r[w].tree = t
  BY <1>0, TreeChanged
<1>2. boxed' = [boxed EXCEPT !.edits = e, !.roots = r, !.held = {t}]
  BY <1>0 DEF Boxes, w
<1> HIDE DEF r
<1>3. /\ boxed'.pc = "idle" /\ boxed'.stored = boxed.stored /\ boxed'.roots = r /\ boxed'.taken = boxed.taken
      /\ boxed'.held = {t} /\ boxed'.adopted = boxed.adopted /\ boxed'.handle = boxed.handle
      /\ boxed'.bound = TRUE /\ boxed'.run = "open"
  BY <1>0, <1>2 DEF Boxes
<1>4. boxed' \in Boxes
  <2>1. {t} \in SUBSET Int
    OBVIOUS
  <2> QED BY ZenonT(60), <1>0, <1>1, <1>2, <2>1 DEF Boxes
<1>5. BoxTypeOK' /\ Located'
  BY <1>1, <1>3, <1>4 DEF BoxInv, BoxTypeOK, Located, Making, Refound, Closing
<1>6. ASSUME ~boxed.adopted PROVE Preserved'
  <2>1. w = boxed.stored.path /\ boxed.handle = boxed.stored.path /\ boxed.stored.status # "destroyed"
    BY <1>0, <1>6 DEF BoxInv, Preserved, Located
  <2>2. Kept' = t
    BY <1>1, <1>3, <2>1 DEF Kept
  <2> HIDE DEF Kept, Sandboxing!Newest
  <2> QED BY <1>3, <2>1, <2>2 DEF Preserved
<1> QED BY <1>3, <1>5, <1>6 DEF BoxInv

LEMMA BoxChanged == ASSUME BoxInv, boxed.pc = "idle", boxed.bound, boxed.run = "open", boxed' = Sandboxing!Changed PROVE BoxInv'
<1>1. boxed.edits + 1 \in Nat /\ boxed.edits + 1 \in Int \ {Gone}
  BY DEF BoxInv, BoxTypeOK, Boxes, Gone
<1>2. boxed' = [boxed EXCEPT !.edits = boxed.edits + 1, !.roots[Sandboxing!Where].tree = boxed.edits + 1,
                    !.held = {boxed.edits + 1}]
  BY DEF Sandboxing!Changed
<1> QED BY <1>1, <1>2, BoxWritten

LEMMA BoxExecute == ASSUME BoxInv, NEW request, NEW answer, Sandboxing!Execute(request, answer) PROVE BoxInv'
  BY BoxChanged DEF Sandboxing!Execute, Sandboxing!Open, Sandboxing!Idle, Sandboxing!On

LEMMA BoxMutate == ASSUME BoxInv, Sandboxing!Mutate PROVE BoxInv'
  BY BoxChanged DEF Sandboxing!Mutate, Sandboxing!Open, Sandboxing!Idle, Sandboxing!On

\* A record that says the sandbox failed has changed nothing else.
LEMMA BoxFailed ==
    ASSUME BoxInv, boxed.pc \in {"idle", "baseline"}, boxed.stored.status # "destroyed",
           boxed' = [boxed EXCEPT !.pc = "idle", !.stored.status = "failed"]
    PROVE  BoxInv'
<1>0. boxed \in Boxes /\ boxed.stored \in Records
  BY DEF BoxInv, BoxTypeOK, Boxes
<1>1. /\ boxed'.pc = "idle" /\ boxed'.stored = [boxed.stored EXCEPT !.status = "failed"]
      /\ boxed'.roots = boxed.roots /\ boxed'.taken = boxed.taken /\ boxed'.held = boxed.held
      /\ boxed'.adopted = boxed.adopted /\ boxed'.handle = boxed.handle /\ boxed'.bound = boxed.bound
      /\ boxed'.run = boxed.run
  BY <1>0 DEF Boxes
<1>2. /\ boxed'.stored.path = boxed.stored.path /\ boxed'.stored.status = "failed"
      /\ boxed'.stored.snapshot = boxed.stored.snapshot /\ boxed'.stored \in Records
  BY <1>0, <1>1 DEF Records, BoxStates
<1>3. boxed' \in Boxes
  BY <1>0, <1>1, <1>2 DEF Boxes, BoxSteps
<1>4. Located' /\ (Holds' => Holds)
  BY <1>1, <1>2 DEF BoxInv, Located, Holds, Making, Refound, Closing, Filled
<1> QED BY <1>1, <1>2, <1>3, <1>4, BoxQuiet

LEMMA BoxRestore ==
    ASSUME BoxInv, NEW snapshot \in 1 .. Len(boxed.taken), Sandboxing!Restore(snapshot)
    PROVE  BoxInv'
<1>1. boxed.pc = "idle" /\ boxed.bound /\ boxed.run = "open" /\ boxed \in Boxes /\ boxed.edits \in Nat /\ boxed.stored \in Records
  BY DEF Sandboxing!Restore, Sandboxing!Open, Sandboxing!Idle, Sandboxing!On, BoxInv, BoxTypeOK, Boxes
<1>2. boxed.stored.status # "destroyed"
  BY <1>1 DEF BoxInv, Located
<1>3. boxed.taken[snapshot].tree \in Int \ {Gone}
  <2>1. boxed.taken[snapshot] \in Taken
    BY <1>1 DEF Boxes
  <2> QED BY <2>1 DEF Taken
<1>4. CASE Sandboxing!Exists /\ Sandboxing!Readable(snapshot)
  <2>1. boxed' = [boxed EXCEPT !.roots[Sandboxing!Where].tree = boxed.taken[snapshot].tree,
                               !.held = {boxed.taken[snapshot].tree}]
    BY <1>4 DEF Sandboxing!Restore
  <2>2. boxed' = [boxed EXCEPT !.edits = boxed.edits, !.roots[Sandboxing!Where].tree = boxed.taken[snapshot].tree,
                               !.held = {boxed.taken[snapshot].tree}]
    BY <1>1, <2>1 DEF Boxes
  <2> QED BY <1>1, <1>3, <2>2, BoxWritten
<1>5. CASE ~(Sandboxing!Exists /\ Sandboxing!Readable(snapshot))
  <2>1. boxed' = [boxed EXCEPT !.stored.status = "failed"]
    BY <1>5 DEF Sandboxing!Restore
  <2>2. boxed' = [boxed EXCEPT !.pc = "idle", !.stored.status = "failed"]
    BY <1>1, <2>1 DEF Boxes
  <2> QED BY <1>1, <1>2, <2>2, BoxFailed
<1> QED BY <1>4, <1>5

LEMMA BoxCopy == ASSUME BoxInv, Sandboxing!Copy PROVE BoxInv'
<1> DEFINE w == Sandboxing!Where
<1>0. boxed.pc = "copy" /\ ~boxed.bound /\ boxed.handle = boxed.stored.path /\ boxed.stored.status # "destroyed"
      /\ boxed.run = "none"
  BY DEF Sandboxing!Copy, Sandboxing!On, BoxInv, Located, Making
<1>1. /\ w \in 1 .. Len(boxed.roots) /\ w = boxed.stored.path /\ boxed \in Boxes /\ boxed.stored \in Records
      /\ boxed.roots \in Seq(Roots) /\ Len(boxed.roots) \in Nat
  BY <1>0, BoxWhere DEF Making
<1> HIDE DEF w
<1>2. ASSUME NEW t \in Int \ {Gone},
             boxed' = [boxed EXCEPT !.pc = "ready", !.roots[Sandboxing!Where].tree = t, !.held = {t}]
      PROVE  BoxInv'
  <2> DEFINE r == [boxed.roots EXCEPT ![w].tree = t]
  <2>1. r \in Seq(Roots) /\ Len(r) = Len(boxed.roots) /\ r[w].tree = t
    BY <1>1, TreeChanged
  <2>2. boxed' = [boxed EXCEPT !.pc = "ready", !.roots = r, !.held = {t}]
    BY <1>1, <1>2 DEF Boxes, w
  <2> HIDE DEF r
  <2>3. /\ boxed'.pc = "ready" /\ boxed'.stored = boxed.stored /\ boxed'.roots = r /\ boxed'.taken = boxed.taken
        /\ boxed'.held = {t} /\ boxed'.handle = boxed.handle /\ boxed'.bound = boxed.bound /\ boxed'.run = boxed.run
    BY <1>1, <2>2 DEF Boxes
  <2>4. boxed' \in Boxes
    <3>1. {t} \in SUBSET Int
      OBVIOUS
    <3> QED BY <1>1, <2>1, <2>2, <3>1 DEF Boxes, BoxSteps, Making
  <2>5. BoxTypeOK' /\ Located'
    BY <1>0, <2>1, <2>3, <2>4 DEF BoxInv, BoxTypeOK, Located, Making, Refound, Closing
  <2>6. Kept' = t
    BY <1>1, <2>1, <2>3 DEF Kept
  <2>7. Preserved'
    <3> HIDE DEF Kept, Sandboxing!Newest
    <3> QED BY <1>0, <2>3, <2>6 DEF Preserved
  <2> QED BY <2>5, <2>7 DEF BoxInv
<1>3. ASSUME NEW t \in {Sandboxing!Missing, Sandboxing!Partial},
             boxed' = [boxed EXCEPT !.pc = "idle", !.roots[Sandboxing!Where].tree = t, !.stored.status = "failed"]
      PROVE  BoxInv'
  <2> DEFINE r == [boxed.roots EXCEPT ![w].tree = t]
  <2>0. t \in Int
    BY DEF Sandboxing!Missing, Sandboxing!Partial
  <2>1. r \in Seq(Roots) /\ Len(r) = Len(boxed.roots)
    BY <1>1, <2>0, TreeChanged
  <2>2. boxed' = [boxed EXCEPT !.pc = "idle", !.roots = r, !.stored.status = "failed"]
    BY <1>1, <1>3 DEF Boxes, w
  <2> HIDE DEF r
  <2>3. /\ boxed'.pc = "idle" /\ boxed'.stored = [boxed.stored EXCEPT !.status = "failed"] /\ boxed'.roots = r
        /\ boxed'.taken = boxed.taken /\ boxed'.handle = boxed.handle /\ boxed'.bound = FALSE /\ boxed'.run = "none"
    BY <1>0, <1>1, <2>2 DEF Boxes
  <2>4. /\ boxed'.stored.path = boxed.stored.path /\ boxed'.stored.status = "failed"
        /\ boxed'.stored.snapshot = boxed.stored.snapshot /\ boxed'.stored \in Records
    BY <1>1, <2>3 DEF Records, BoxStates
  <2>5. boxed' \in Boxes
    BY <1>1, <2>1, <2>2, <2>3, <2>4 DEF Boxes, BoxSteps
  <2>6. BoxTypeOK' /\ Located' /\ ~Holds'
    BY <2>1, <2>3, <2>4, <2>5 DEF BoxInv, BoxTypeOK, Located, Making, Refound, Closing, Holds, Filled
  <2>7. Preserved'
    <3> HIDE DEF Kept, Sandboxing!Newest, Holds
    <3> QED BY <2>3, <2>4, <2>6 DEF Preserved
  <2> QED BY <2>6, <2>7 DEF BoxInv
<1>4. 0 \in Int \ {Gone}
  BY DEF Gone
<1>5. CASE boxed' = [boxed EXCEPT !.pc = "ready", !.roots[Sandboxing!Where].tree = 0, !.held = {0}]
  BY <1>2, <1>4, <1>5
<1> QED BY <1>3, <1>5 DEF Sandboxing!Copy, Sandboxing!Repository

LEMMA BoxSnapshot == ASSUME BoxInv, Sandboxing!Snapshot PROVE BoxInv'
<1> DEFINE w == Sandboxing!Where
           one == [root |-> w, tree |-> boxed.roots[w].tree]
           p == IF boxed.pc = "baseline" THEN "based" ELSE "taken"
<1>0. /\ boxed.pc = "baseline" \/ (boxed.pc = "idle" /\ boxed.bound /\ boxed.run = "open" /\ Sandboxing!Exists)
      /\ boxed.stored.status # "destroyed"
  BY DEF Sandboxing!Snapshot, Sandboxing!Open, Sandboxing!Idle, Sandboxing!On, BoxInv, Located
<1>1. /\ w \in 1 .. Len(boxed.roots) /\ boxed \in Boxes /\ boxed.stored \in Records /\ boxed.roots \in Seq(Roots)
      /\ boxed.taken \in Seq(Taken) /\ Len(boxed.taken) \in Nat /\ Len(boxed.roots) \in Nat
      /\ boxed.handle = boxed.stored.path => w = boxed.stored.path
  BY <1>0, BoxWhere DEF Making
<1>2. Sandboxing!Exists <=> boxed.roots[w].tree # Gone
  BY DEF Sandboxing!Exists, Sandboxing!Tree, Sandboxing!Missing, Gone
<1> HIDE DEF w
<1>3. CASE ~Sandboxing!Exists
  BY <1>0, <1>3, BoxFailed DEF Sandboxing!Snapshot
<1>4. CASE Sandboxing!Exists
  <2>1. boxed' = [boxed EXCEPT !.pc = p, !.taken = Append(boxed.taken, one)]
    BY <1>1, <1>4 DEF Sandboxing!Snapshot, Sandboxing!On, Sandboxing!Tree, w, Boxes
  <2>2. one \in Taken
    <3>1. boxed.roots[w] \in Roots
      BY <1>1
    <3> QED BY <1>1, <1>2, <1>4, <3>1 DEF Taken, Roots
  <2> HIDE DEF one
  <2>3. Append(boxed.taken, one) \in Seq(Taken) /\ Len(Append(boxed.taken, one)) = Len(boxed.taken) + 1
    BY <1>1, <2>2
  <2>4. /\ boxed'.pc = p /\ boxed'.stored = boxed.stored /\ boxed'.roots = boxed.roots
        /\ boxed'.taken = Append(boxed.taken, one) /\ boxed'.held = boxed.held /\ boxed'.adopted = boxed.adopted
        /\ boxed'.handle = boxed.handle /\ boxed'.bound = boxed.bound /\ boxed'.run = boxed.run
    BY <1>1, <2>1 DEF Boxes
  <2>5. boxed' \in Boxes
    BY <1>1, <2>1, <2>3 DEF Boxes, BoxSteps, Making
  <2>6. BoxTypeOK' /\ Located'
    <3>1. BoxTypeOK'
      <4>1. boxed.stored.snapshot \in Nat /\ boxed.stored.snapshot <= Len(boxed.taken)
        BY <1>1 DEF BoxInv, BoxTypeOK, Records
      <4>2. boxed.stored.path <= Len(boxed.roots) /\ boxed.handle <= Len(boxed.roots)
        BY DEF BoxInv, BoxTypeOK
      <4> QED BY <1>1, <2>3, <2>4, <2>5, <4>1, <4>2 DEF BoxTypeOK
    <3>2. Len(boxed'.taken) # 0
      BY <1>1, <2>3, <2>4
    <3>3. CASE boxed.pc = "baseline"
      <4>1. boxed'.pc = "based"
        BY <2>4, <3>3
      <4> QED BY <1>0, <2>4, <3>1, <3>2, <3>3, <4>1 DEF BoxInv, Located, Making, Refound, Closing
    <3>4. CASE boxed.pc = "idle" /\ boxed.bound
      <4>1. boxed'.pc = "taken"
        BY <2>4, <3>4
      <4> QED BY <1>0, <2>4, <3>1, <3>2, <3>4, <4>1 DEF BoxInv, Located, Making, Refound, Closing
    <3> QED BY <1>0, <3>3, <3>4
  <2>7. ASSUME ~boxed.adopted PROVE Preserved'
    <3>1. w = boxed.stored.path /\ boxed.handle = boxed.stored.path
      BY <1>0, <1>1, <2>7 DEF BoxInv, Located, Preserved, Making
    <3>2. Kept' = Kept /\ Kept # Gone
      BY <1>2, <1>4, <2>4, <3>1 DEF Kept
    <3>3. Holds /\ Kept \in boxed.held
      <4>1. Holds
        BY <1>0 DEF Holds, Filled
      <4> QED BY <2>7, <3>2, <4>1 DEF BoxInv, Preserved
    <3> HIDE DEF Kept, Sandboxing!Newest, Holds
    <3> QED BY <1>0, <2>4, <3>1, <3>2, <3>3 DEF Preserved
  <2> QED BY <2>4, <2>6, <2>7 DEF BoxInv
<1> QED BY <1>3, <1>4

LEMMA BoxResume == ASSUME BoxInv, Sandboxing!Resume PROVE BoxInv'
<1> DEFINE w == Sandboxing!Where
<1>0. /\ boxed.pc = "idle" /\ boxed.bound /\ boxed.run # "open" /\ boxed.stored.status # "destroyed"
  BY DEF Sandboxing!Resume, Sandboxing!Open, Sandboxing!Idle, Sandboxing!On, Sandboxing!Status
<1>1. /\ w \in 1 .. Len(boxed.roots) /\ boxed \in Boxes /\ boxed.stored \in Records /\ boxed.roots \in Seq(Roots)
      /\ boxed.stored.path \in 1 .. Len(boxed.roots) /\ boxed.stored.path \in Nat /\ Len(boxed.roots) \in Nat
      /\ w = IF boxed.handle # 0 THEN boxed.handle ELSE boxed.stored.path
  BY <1>0, BoxWhere
<1>2. Sandboxing!Exists <=> boxed.roots[w].tree # Gone
  BY DEF Sandboxing!Exists, Sandboxing!Tree, Sandboxing!Missing, Gone
<1> HIDE DEF w
<1>3. CASE Sandboxing!Exists
  <2> DEFINE a == boxed.adopted \/ w # boxed.stored.path
  <2>0. a \in BOOLEAN
    OBVIOUS
  <2>1. boxed' = [boxed EXCEPT !.pc = "compare", !.handle = w, !.adopted = a]
    BY <1>1, <1>3 DEF Sandboxing!Resume, w, Boxes
  <2>2. a = FALSE => w = boxed.stored.path /\ ~boxed.adopted
    OBVIOUS
  <2> HIDE DEF a
  <2>3. /\ boxed'.pc = "compare" /\ boxed'.stored = boxed.stored /\ boxed'.roots = boxed.roots
        /\ boxed'.taken = boxed.taken /\ boxed'.held = boxed.held /\ boxed'.adopted = a
        /\ boxed'.handle = w /\ boxed'.bound = TRUE /\ boxed'.run = boxed.run
    BY <1>0, <1>1, <2>1 DEF Boxes
  <2>4. boxed' \in Boxes
    BY <1>1, <2>0, <2>1 DEF Boxes, BoxSteps
  <2>5. BoxTypeOK' /\ Located'
    BY <1>0, <1>1, <2>3, <2>4 DEF BoxInv, BoxTypeOK, Located, Making, Refound, Closing
  <2>6. ASSUME ~a PROVE Preserved'
    <3>1. w = boxed.stored.path /\ Preserved
      BY <2>0, <2>2, <2>6 DEF BoxInv
    <3>2. Kept' = Kept /\ Sandboxing!Newest' = Sandboxing!Newest /\ Holds
      BY <1>0, <2>3 DEF Kept, Sandboxing!Newest, Holds
    <3> HIDE DEF Kept, Sandboxing!Newest, Holds
    <3> QED BY <1>0, <2>3, <3>1, <3>2 DEF Preserved
  <2> QED BY <2>3, <2>5, <2>6 DEF BoxInv
<1>4. CASE ~Sandboxing!Exists
  <2> DEFINE r == Append(boxed.roots, Sandboxing!NewRoot)
  <2>1. boxed' = [boxed EXCEPT !.pc = "recopy", !.roots = r, !.handle = Len(boxed.roots) + 1]
    BY <1>1, <1>4 DEF Sandboxing!Resume, Sandboxing!NextRoot, Boxes
  <2>2. Sandboxing!NewRoot \in Roots
    BY DEF Sandboxing!NewRoot, Sandboxing!Missing, Roots
  <2>3. r \in Seq(Roots) /\ Len(r) = Len(boxed.roots) + 1 /\ r[boxed.stored.path] = boxed.roots[boxed.stored.path]
    BY <1>1, <2>2, RootAdded
  <2> HIDE DEF r
  <2>4. /\ boxed'.pc = "recopy" /\ boxed'.stored = boxed.stored /\ boxed'.roots = r
        /\ boxed'.taken = boxed.taken /\ boxed'.held = boxed.held /\ boxed'.adopted = boxed.adopted
        /\ boxed'.handle = Len(boxed.roots) + 1 /\ boxed'.bound = TRUE /\ boxed'.run = boxed.run
    BY <1>0, <1>1, <2>1 DEF Boxes
  <2>5. boxed' \in Boxes
    <3>1. Len(boxed.roots) + 1 \in Nat /\ "recopy" \in BoxSteps
      BY <1>1 DEF BoxSteps, Refound
    <3> QED BY <1>1, <2>1, <2>3, <3>1 DEF Boxes
  <2>6. BoxTypeOK' /\ Located'
    BY <1>0, <1>1, <2>3, <2>4, <2>5 DEF BoxInv, BoxTypeOK, Located, Making, Refound, Closing
  <2>7. ASSUME ~boxed.adopted PROVE Preserved'
    <3>1. Kept = Gone
      BY <1>0, <1>1, <1>2, <1>4, <2>7 DEF BoxInv, Preserved, Kept
    <3>2. Kept' = Kept /\ Sandboxing!Newest' = Sandboxing!Newest /\ Holds
      BY <1>0, <2>3, <2>4 DEF Kept, Sandboxing!Newest, Holds
    <3> HIDE DEF Kept, Sandboxing!Newest, Holds
    <3> QED BY <1>0, <2>4, <2>7, <3>1, <3>2 DEF BoxInv, Preserved
  <2> QED BY <2>4, <2>6, <2>7 DEF BoxInv
<1> QED BY <1>3, <1>4

\* A recovery fills the directory it has made, never the workspace of the record.
LEMMA BoxFilled ==
    ASSUME BoxInv, boxed.pc \in Refound, NEW t \in Int, NEW p \in {"idle", "restore", "recovered"},
           NEW run \in {"none", "failing"}, p = "recovered" => t = boxed.taken[Sandboxing!Newest].tree,
           boxed' = [boxed EXCEPT !.pc = p, !.run = run, !.roots[Sandboxing!Where].tree = t]
    PROVE  BoxInv'
<1> DEFINE w == Sandboxing!Where
           r == [boxed.roots EXCEPT ![w].tree = t]
<1>0. boxed.bound /\ boxed.handle > boxed.stored.path /\ boxed.stored.status # "destroyed"
  BY DEF BoxInv, Located, Refound
<1>1. /\ w \in 1 .. Len(boxed.roots) /\ boxed \in Boxes /\ boxed.stored \in Records /\ boxed.roots \in Seq(Roots)
      /\ boxed.stored.path \in 1 .. Len(boxed.roots) /\ boxed.stored.path \in Nat /\ Len(boxed.roots) \in Nat
      /\ boxed.handle \in Nat /\ w = IF boxed.handle # 0 THEN boxed.handle ELSE boxed.stored.path
  BY <1>0, BoxWhere
<1>2. w = boxed.handle /\ w # boxed.stored.path
  BY <1>0, <1>1
<1> HIDE DEF w
<1>3. /\ r \in Seq(Roots) /\ Len(r) = Len(boxed.roots) /\ r[w].tree = t
      /\ r[boxed.stored.path] = boxed.roots[boxed.stored.path]
  BY <1>1, <1>2, TreeChanged
<1>4. boxed' = [boxed EXCEPT !.pc = p, !.run = run, !.roots = r]
  BY <1>1 DEF Boxes, w
<1> HIDE DEF r
<1>5. /\ boxed'.pc = p /\ boxed'.stored = boxed.stored /\ boxed'.roots = r /\ boxed'.taken = boxed.taken
      /\ boxed'.held = boxed.held /\ boxed'.adopted = boxed.adopted /\ boxed'.handle = boxed.handle
      /\ boxed'.bound = boxed.bound /\ boxed'.run = run
  BY <1>1, <1>4 DEF Boxes
<1>6. boxed' \in Boxes
  BY <1>1, <1>3, <1>4 DEF Boxes, BoxSteps, Refound
<1>7. BoxTypeOK' /\ Located'
  BY <1>0, <1>1, <1>3, <1>5, <1>6 DEF BoxInv, BoxTypeOK, Located, Making, Refound, Closing
<1>8. ASSUME ~boxed.adopted PROVE Preserved'
  <2>1. /\ Kept' = Kept
        /\ Sandboxing!Newest' = Sandboxing!Newest
        /\ Holds
    <3>1. Kept' = Kept
      BY <1>3, <1>5 DEF Kept
    <3>2. Sandboxing!Newest' = Sandboxing!Newest
      BY <1>5 DEF Sandboxing!Newest
    <3> QED BY <1>0, <3>1, <3>2 DEF Holds
  <2>3. Kept = Gone
    BY <1>0, <1>1, <1>8 DEF BoxInv, Preserved
  <2>2. p = "recovered" => r[boxed.handle].tree = boxed.taken[Sandboxing!Newest].tree
    BY <1>2, <1>3
  <2> HIDE DEF Kept, Sandboxing!Newest, Holds
  <2>4. \A k \in 1 .. Len(boxed.taken) : k >= Sandboxing!Newest => boxed.taken[k].tree \in boxed.held
    BY <1>8, <2>1, <2>3 DEF BoxInv, Preserved
  <2> QED BY <1>0, <1>5, <2>1, <2>2, <2>3, <2>4 DEF Preserved
<1> QED BY <1>5, <1>7, <1>8 DEF BoxInv

LEMMA BoxRecopy == ASSUME BoxInv, Sandboxing!Recopy PROVE BoxInv'
<1>1. boxed.pc \in Refound /\ boxed \in Boxes /\ boxed.run \in {"none", "failing"}
  BY DEF Sandboxing!Recopy, Sandboxing!On, Refound, BoxInv, BoxTypeOK, Located, Boxes
<1>2. CASE boxed' = [boxed EXCEPT !.pc = "restore", !.roots[Sandboxing!Where].tree = Sandboxing!Repository]
  <2>1. boxed' = [boxed EXCEPT !.pc = "restore", !.run = boxed.run, !.roots[Sandboxing!Where].tree = 0]
    BY <1>1, <1>2 DEF Boxes, Sandboxing!Repository
  <2>2. 0 \in Int /\ "restore" # "recovered" /\ "restore" \in {"idle", "restore", "recovered"}
    OBVIOUS
  <2> QED BY <1>1, <2>1, <2>2, BoxFilled
<1>3. ASSUME NEW t \in {Sandboxing!Missing, Sandboxing!Partial},
             boxed' = [boxed EXCEPT !.pc = "idle", !.run = "failing", !.roots[Sandboxing!Where].tree = t]
      PROVE  BoxInv'
  <2>1. t \in Int
    BY DEF Sandboxing!Missing, Sandboxing!Partial
  <2> QED BY <1>1, <1>3, <2>1, BoxFilled
<1> QED BY <1>2, <1>3 DEF Sandboxing!Recopy

LEMMA BoxRefill == ASSUME BoxInv, Sandboxing!Refill PROVE BoxInv'
<1>1. /\ boxed.pc = "restore" /\ boxed.pc \in Refound /\ boxed \in Boxes /\ boxed.run \in {"none", "failing"}
      /\ boxed.bound /\ boxed.stored.status # "destroyed" /\ boxed.taken \in Seq(Taken)
  BY DEF Sandboxing!Refill, Sandboxing!On, Refound, BoxInv, BoxTypeOK, Located, Boxes
<1>2. CASE Sandboxing!Readable(Sandboxing!Newest)
  <2> DEFINE t == boxed.taken[Sandboxing!Newest].tree
  <2>1. Sandboxing!Newest \in 1 .. Len(boxed.taken)
    BY <1>1 DEF BoxInv, BoxTypeOK, Located, Boxes, Records, Sandboxing!Newest, Sandboxing!None
  <2>2. t \in Int
    <3>1. boxed.taken[Sandboxing!Newest] \in Taken
      BY <1>1, <2>1
    <3> QED BY <3>1 DEF Taken
  <2>3. boxed' = [boxed EXCEPT !.pc = "recovered", !.run = boxed.run, !.roots[Sandboxing!Where].tree = t]
    BY <1>1, <1>2 DEF Sandboxing!Refill, Boxes
  <2> HIDE DEF Sandboxing!Newest
  <2> QED BY <1>1, <2>2, <2>3, BoxFilled
<1>3. CASE ~Sandboxing!Readable(Sandboxing!Newest)
  <2>1. boxed' = [boxed EXCEPT !.pc = "idle", !.run = "failing"]
    BY <1>3 DEF Sandboxing!Refill
  <2>2. /\ boxed'.pc = "idle" /\ boxed'.stored = boxed.stored /\ boxed'.roots = boxed.roots
        /\ boxed'.taken = boxed.taken /\ boxed'.held = boxed.held /\ boxed'.adopted = boxed.adopted
        /\ boxed'.handle = boxed.handle /\ boxed'.bound = boxed.bound /\ boxed'.run = "failing"
    BY <1>1, <2>1 DEF Boxes
  <2>3. boxed' \in Boxes
    BY <1>1, <2>1 DEF Boxes, BoxSteps
  <2>4. Located' /\ (Holds' => Holds)
    BY <1>1, <2>2 DEF BoxInv, Located, Holds, Making, Refound, Closing, Filled
  <2> QED BY <1>1, <2>2, <2>3, <2>4, BoxQuiet
<1> QED BY <1>2, <1>3

\* A directory goes, by the end of its sandbox or by chance; of the work of the record's own
\* the newest snapshots are what is left.
LEMMA BoxLost ==
    ASSUME BoxInv, NEW k \in 1 .. Len(boxed.roots), NEW root \in Roots, root.tree = Gone, NEW n \in Nat,
           NEW p \in BoxSteps, p = boxed.pc \/ (boxed.pc = "remove" /\ p = "released" /\ k = Sandboxing!Where),
           boxed' = [boxed EXCEPT !.pc = p, !.roots[k] = root, !.held = Sandboxing!Lost(k), !.troubles = n]
    PROVE  BoxInv'
<1> DEFINE r == [boxed.roots EXCEPT ![k] = root]
           held == Sandboxing!Lost(k)
<1>1. /\ boxed \in Boxes /\ boxed.roots \in Seq(Roots) /\ boxed.taken \in Seq(Taken) /\ Len(boxed.taken) \in Nat
      /\ boxed.handle \in Nat /\ boxed.stored.path \in Nat /\ boxed.held \in SUBSET Int /\ Len(boxed.roots) \in Nat
      /\ boxed.handle <= Len(boxed.roots) /\ boxed.stored.path <= Len(boxed.roots)
  BY DEF BoxInv, BoxTypeOK, Boxes, Records
<1>2. /\ r \in Seq(Roots) /\ Len(r) = Len(boxed.roots) /\ r[k] = root
      /\ \A j \in 1 .. Len(boxed.roots) : j # k => r[j] = boxed.roots[j]
  BY <1>1, RootChanged
<1>3. \A j \in 1 .. Len(boxed.taken) : j >= Sandboxing!Newest => boxed.taken[j].tree \in Sandboxing!Snapshots
  <2> HIDE DEF Sandboxing!Newest
  <2> QED BY DEF Sandboxing!Snapshots
<1>4. Sandboxing!Snapshots \in SUBSET Int
  <2>1. \A j \in 1 .. Len(boxed.taken) : boxed.taken[j].tree \in Int
    <3> SUFFICES ASSUME NEW j \in 1 .. Len(boxed.taken) PROVE boxed.taken[j].tree \in Int
      OBVIOUS
    <3>1. boxed.taken[j] \in Taken
      BY <1>1
    <3> QED BY <3>1 DEF Taken
  <2> HIDE DEF Sandboxing!Newest
  <2> QED BY <2>1 DEF Sandboxing!Snapshots
<1>5. /\ held = IF k = boxed.stored.path THEN Sandboxing!Snapshots ELSE boxed.held
      /\ held \in SUBSET Int
  BY <1>1, <1>4 DEF Sandboxing!Lost
<1>6. boxed' = [boxed EXCEPT !.pc = p, !.roots = r, !.held = held, !.troubles = n]
  BY <1>1 DEF Boxes
<1> HIDE DEF r, held
<1>7. /\ boxed'.pc = p /\ boxed'.stored = boxed.stored /\ boxed'.roots = r /\ boxed'.taken = boxed.taken
      /\ boxed'.held = held /\ boxed'.adopted = boxed.adopted /\ boxed'.handle = boxed.handle
      /\ boxed'.bound = boxed.bound /\ boxed'.run = boxed.run
  BY <1>1, <1>6 DEF Boxes
<1>8. boxed' \in Boxes
  BY ZenonT(60), <1>1, <1>2, <1>5, <1>6 DEF Boxes
<1>9. BoxTypeOK' /\ Located'
  BY <1>2, <1>7, <1>8 DEF BoxInv, BoxTypeOK, Located, Making, Refound, Closing
<1>10. ASSUME ~boxed.adopted PROVE Preserved'
  <2>1. Sandboxing!Newest' = Sandboxing!Newest /\ (Holds' => Holds)
    BY <1>7 DEF Sandboxing!Newest, Holds, Filled
  <2>2. CASE k = boxed.stored.path
    <3>1. Kept' = Gone /\ held = Sandboxing!Snapshots
      BY <1>2, <1>5, <1>7, <2>2 DEF Kept
    <3>2. p = "recovered" => r[boxed.handle].tree \in {Gone, boxed.taken[Sandboxing!Newest].tree}
      <4> SUFFICES ASSUME p = "recovered"
                   PROVE  r[boxed.handle].tree \in {Gone, boxed.taken[Sandboxing!Newest].tree}
        OBVIOUS
      <4>1. boxed.pc = "recovered" /\ boxed.handle > boxed.stored.path
        BY DEF BoxInv, Located, Refound
      <4>2. r[boxed.handle] = boxed.roots[boxed.handle]
        BY <1>1, <1>2, <2>2, <4>1
      <4> QED BY <1>10, <4>1, <4>2 DEF BoxInv, Preserved
    <3>3. boxed.run = "open" \/ p = "compare" => boxed.handle = boxed.stored.path
      BY <1>10 DEF BoxInv, Preserved
    <3> HIDE DEF Kept, Sandboxing!Newest, Holds, Sandboxing!Snapshots
    <3> QED BY <1>3, <1>7, <2>1, <3>1, <3>2, <3>3 DEF Preserved
  <2>3. CASE k # boxed.stored.path
    <3>1. held = boxed.held
      BY <1>5, <2>3
    <3>2. boxed.bound \/ Holds => Kept' = Kept
      <4>1. boxed.bound \/ Holds => boxed.stored.path # 0
        BY DEF BoxInv, Located, Holds, Making, Filled
      <4> QED BY <1>1, <1>2, <1>7, <2>3, <4>1 DEF Kept
    <3>3. p = "released" \/ boxed.stored.status = "destroyed" => boxed.bound /\ Kept = Gone
      <4>1. CASE boxed.pc = "remove" /\ k = Sandboxing!Where
        <5>1. boxed.bound /\ boxed.handle # 0 /\ boxed.handle # boxed.stored.path
          BY <2>3, <4>1 DEF BoxInv, Located, Closing, Sandboxing!Where, Sandboxing!None
        <5> QED BY <1>10, <5>1 DEF BoxInv, Preserved
      <4>2. CASE p = boxed.pc
        BY <1>10, <4>2 DEF BoxInv, Located, Closing, Preserved
      <4> QED BY <4>1, <4>2
    <3>4. p = "recovered" => boxed.pc = "recovered" /\ boxed.bound
                             /\ r[boxed.handle].tree \in {Gone, boxed.roots[boxed.handle].tree}
      <4> SUFFICES ASSUME p = "recovered"
                   PROVE  /\ boxed.pc = "recovered" /\ boxed.bound
                          /\ r[boxed.handle].tree \in {Gone, boxed.roots[boxed.handle].tree}
        OBVIOUS
      <4>1. boxed.pc = "recovered" /\ boxed.handle > boxed.stored.path /\ boxed.bound
        BY DEF BoxInv, Located, Refound
      <4> QED BY <1>1, <1>2, <4>1
    <3>5. p = "compare" => boxed.pc = "compare"
      OBVIOUS
    <3> HIDE DEF Kept, Sandboxing!Newest, Holds
    <3>6. Holds' => Holds /\ Kept' = Kept
      BY <2>1, <3>2
    <3>7. boxed.bound => Kept' = Kept
      BY <3>2
    <3>8. Preserved
      BY <1>10 DEF BoxInv
    <3> QED BY <1>7, <2>1, <3>1, <3>3, <3>4, <3>5, <3>6, <3>7, <3>8 DEF Preserved
  <2> QED BY <2>2, <2>3
<1> QED BY <1>7, <1>9, <1>10 DEF BoxInv

LEMMA BoxRemove == ASSUME BoxInv, Sandboxing!Remove PROVE BoxInv'
<1>1. boxed.pc = "remove" /\ boxed.bound /\ boxed \in Boxes
  BY DEF Sandboxing!Remove, Sandboxing!On, BoxInv, BoxTypeOK, Located, Closing
<1>2. Sandboxing!Where \in 1 .. Len(boxed.roots) /\ boxed.troubles \in Nat
  BY <1>1, BoxWhere DEF Boxes
<1>3. [tree |-> Gone, gone |-> TRUE] \in Roots /\ [tree |-> Gone, gone |-> TRUE].tree = Gone /\ "released" \in BoxSteps
  BY DEF Roots, Gone, BoxSteps, Closing
<1>4. boxed' = [boxed EXCEPT !.pc = "released", !.roots[Sandboxing!Where] = [tree |-> Gone, gone |-> TRUE],
                    !.held = Sandboxing!Lost(Sandboxing!Where), !.troubles = boxed.troubles]
  <2>1. boxed' = [boxed EXCEPT !.pc = "released", !.held = Sandboxing!Lost(Sandboxing!Where),
                      !.roots[Sandboxing!Where] = [tree |-> Gone, gone |-> TRUE]]
    BY DEF Sandboxing!Remove, Sandboxing!Missing, Gone
  <2> HIDE DEF Sandboxing!Where, Sandboxing!Lost
  <2> QED BY <1>1, <2>1 DEF Boxes
<1> QED BY <1>1, <1>2, <1>3, <1>4, BoxLost

LEMMA BoxLose ==
    ASSUME BoxInv, NEW k \in 1 .. Len(boxed.roots), NEW root \in Roots, root.tree = Gone, Sandboxing!Lose(k, root)
    PROVE  BoxInv'
<1>1. boxed \in Boxes /\ boxed.troubles \in Nat /\ boxed.troubles + 1 \in Nat /\ boxed.pc \in BoxSteps
  BY DEF BoxInv, BoxTypeOK, Boxes
<1>2. boxed' = [[boxed EXCEPT !.roots[k] = root, !.held = Sandboxing!Lost(k)] EXCEPT !.troubles = @ + 1]
  BY DEF Sandboxing!Lose, Sandboxing!Trouble
<1>3. boxed' = [boxed EXCEPT !.pc = boxed.pc, !.roots[k] = root, !.held = Sandboxing!Lost(k),
                    !.troubles = boxed.troubles + 1]
  <2> HIDE DEF Sandboxing!Lost
  <2> QED BY <1>1, <1>2 DEF Boxes
<1> QED BY <1>1, <1>3, BoxLost

LEMMA BoxLoses == ASSUME BoxInv, Sandboxing!LoseWorkspace \/ Sandboxing!LoseRoot PROVE BoxInv'
<1>1. ASSUME NEW k \in 1 .. Len(boxed.roots)
      PROVE  /\ [boxed.roots[k] EXCEPT !.tree = Gone] \in Roots /\ [boxed.roots[k] EXCEPT !.tree = Gone].tree = Gone
  <2>1. boxed.roots[k] \in Roots
    BY DEF BoxInv, BoxTypeOK, Boxes
  <2> QED BY <2>1 DEF Roots, Gone
<1>2. [tree |-> Gone, gone |-> TRUE] \in Roots /\ [tree |-> Gone, gone |-> TRUE].tree = Gone
  BY DEF Roots, Gone
<1>3. CASE Sandboxing!LoseWorkspace
  <2>1. PICK k \in 1 .. Len(boxed.roots) : Sandboxing!Lose(k, [boxed.roots[k] EXCEPT !.tree = Gone])
    BY <1>3 DEF Sandboxing!LoseWorkspace, Sandboxing!Missing, Gone
  <2> QED BY <1>1, <2>1, BoxLose
<1>4. CASE Sandboxing!LoseRoot
  <2>1. PICK k \in 1 .. Len(boxed.roots) : Sandboxing!Lose(k, [tree |-> Gone, gone |-> TRUE])
    BY <1>4 DEF Sandboxing!LoseRoot, Sandboxing!Missing, Gone
  <2> QED BY <1>2, <2>1, BoxLose
<1> QED BY <1>3, <1>4

LEMMA BoxNext == ASSUME BoxInv, Sandboxing!Next PROVE BoxInv'
  BY BoxCreate, BoxPreparing, BoxCopy, BoxReady, BoxStart, BoxBind, BoxSnapshot, BoxRecord, BoxMutate, BoxPause,
     BoxExecute, BoxRestore, BoxResume, BoxRecopy, BoxRefill, BoxRecovered, BoxCompare, BoxFinalize, BoxStop,
     BoxRemove, BoxDestroyed, BoxRestart, BoxLoses
  DEF Sandboxing!Next

Answered == {"inspect", "search", "analyze", "modify", "test", "verify", "fly"}
Steps == [id : 1 .. 3, order : 1 .. 3, action : Answered,
          target : {"file", "directory", "none", "missing", "outside"},
          dependencies : SUBSET (1 .. 4), cites : BOOLEAN]

LEMMA PlansAreSequences == SoundOrCyclic \cup Faulty \subseteq Seq(Steps)
<1>1. ASSUME NEW k \in 1 .. 3, NEW a \in Answered, NEW g \in {"file", "directory", "none"}, NEW d \in SUBSET (1 .. 3)
      PROVE  PlanStep(k, a, g, d) \in Steps
  BY DEF PlanStep, Steps
<1>2. ASSUME NEW x \in Steps, NEW y \in Steps, NEW z \in Steps
      PROVE  <<x>> \in Seq(Steps) /\ <<x, y>> \in Seq(Steps) /\ <<x, y, z>> \in Seq(Steps)
  OBVIOUS
<1>3. First \in Steps
  <2>1. {} \in SUBSET (1 .. 3) /\ 1 \in 1 .. 3 /\ "inspect" \in Answered
    BY DEF Answered
  <2> QED BY <1>1, <2>1 DEF First
<1>4. SoundOrCyclic \subseteq Seq(Steps)
  <2>0. {} \in SUBSET (1 .. 3) /\ {1} \in SUBSET (1 .. 3) /\ {2} \in SUBSET (1 .. 3) /\ {3} \in SUBSET (1 .. 3)
    OBVIOUS
  <2>1. ASSUME NEW a \in Answered, NEW b \in Answered, NEW g \in {"file", "none"},
               NEW d \in SUBSET {1, 2}, NEW e \in SUBSET {1, 2}
        PROVE  <<PlanStep(1, a, g, d), PlanStep(2, b, "file", e)>> \in Seq(Steps)
    <3>1. PlanStep(1, a, g, d) \in Steps /\ PlanStep(2, b, "file", e) \in Steps
      BY <1>1
    <3> QED BY <3>1, <1>2
  <2>2. ASSUME NEW a \in Answered, NEW b \in Answered, NEW c \in Answered
        PROVE  <<PlanStep(1, a, "directory", {}), PlanStep(2, b, "file", {1}), PlanStep(3, c, "file", {2})>> \in Seq(Steps)
    <3>1. /\ PlanStep(1, a, "directory", {}) \in Steps /\ PlanStep(2, b, "file", {1}) \in Steps
          /\ PlanStep(3, c, "file", {2}) \in Steps
      BY <2>0, <1>1
    <3> QED BY <3>1, <1>2
  <2>3. <<PlanStep(1, "inspect", "file", {3}), PlanStep(2, "search", "file", {1}), PlanStep(3, "search", "file", {2})>> \in Seq(Steps)
    <3>1. /\ PlanStep(1, "inspect", "file", {3}) \in Steps /\ PlanStep(2, "search", "file", {1}) \in Steps
          /\ PlanStep(3, "search", "file", {2}) \in Steps
      <4>1. "inspect" \in Answered /\ "search" \in Answered
        BY DEF Answered
      <4> QED BY <4>1, <2>0, <1>1
    <3> QED BY <3>1, <1>2
  <2>4. \A a \in {"inspect", "search", "test"} : a \in Answered
    BY DEF Answered
  <2>5. \A a \in {"inspect", "analyze"} : a \in Answered
    BY DEF Answered
  <2>6. \A a \in {"inspect", "search"} : a \in Answered
    BY DEF Answered
  <2>7. \A a \in {"test", "verify"} : a \in Answered
    BY DEF Answered
  <2>8. \A a \in {"test", "search"} : a \in Answered
    BY DEF Answered
  <2> DEFINE Choice == [first : {"inspect", "search", "test"}, second : {"inspect", "analyze"}, target : {"file", "none"},
                        needed : SUBSET {1, 2}, needs : SUBSET {1, 2}]
             Two == {<<PlanStep(1, c.first, c.target, c.needed), PlanStep(2, c.second, "file", c.needs)>> : c \in Choice}
             Three == {<<PlanStep(1, a, "directory", {}), PlanStep(2, b, "file", {1}), PlanStep(3, c, "file", {2})>> :
                         a \in {"inspect", "search"}, b \in {"test", "verify"}, c \in {"test", "search"}}
  <2>9. ASSUME NEW p \in Two PROVE p \in Seq(Steps)
    <3>1. PICK c \in Choice : p = <<PlanStep(1, c.first, c.target, c.needed), PlanStep(2, c.second, "file", c.needs)>>
      OBVIOUS
    <3>2. /\ c.first \in Answered /\ c.second \in Answered /\ c.target \in {"file", "none"}
          /\ c.needed \in SUBSET {1, 2} /\ c.needs \in SUBSET {1, 2}
      BY <2>4, <2>5
    <3> HIDE DEF Choice
    <3> QED BY <3>1, <3>2, <2>1
  <2>10. ASSUME NEW p \in Three PROVE p \in Seq(Steps)
    <3>1. PICK a \in {"inspect", "search"}, b \in {"test", "verify"}, c \in {"test", "search"} :
               p = <<PlanStep(1, a, "directory", {}), PlanStep(2, b, "file", {1}), PlanStep(3, c, "file", {2})>>
      OBVIOUS
    <3> QED BY <3>1, <2>2, <2>6, <2>7, <2>8
  <2>11. SoundOrCyclic = Two \cup Three \cup {<<PlanStep(1, "inspect", "file", {3}), PlanStep(2, "search", "file", {1}), PlanStep(3, "search", "file", {2})>>}
    BY DEF SoundOrCyclic
  <2> HIDE DEF Two, Three
  <2> QED BY <2>9, <2>10, <2>11, <2>3
<1>5. Faulty \subseteq Seq(Steps)
  <2>1. ASSUME NEW r \in Steps
        PROVE  /\ [r EXCEPT !.order = 2] \in Steps /\ [r EXCEPT !.cites = FALSE] \in Steps
               /\ [r EXCEPT !.dependencies = {4}] \in Steps
               /\ \A g \in {"missing", "outside"} : [r EXCEPT !.target = g] \in Steps
               /\ \A a \in Answered : [r EXCEPT !.action = a] \in Steps
    <3>1. {4} \in SUBSET (1 .. 4)
      OBVIOUS
    <3>2. [r EXCEPT !.order = 2] \in Steps
      BY DEF Steps
    <3>3. [r EXCEPT !.cites = FALSE] \in Steps
      BY DEF Steps
    <3>4. [r EXCEPT !.dependencies = {4}] \in Steps
      BY <3>1 DEF Steps
    <3>5. \A g \in {"missing", "outside"} : [r EXCEPT !.target = g] \in Steps
      BY DEF Steps
    <3>6. \A a \in Answered : [r EXCEPT !.action = a] \in Steps
      BY DEF Steps
    <3> QED BY <3>2, <3>3, <3>4, <3>5, <3>6
  <2>2. /\ [First EXCEPT !.order = 2] \in Steps /\ [First EXCEPT !.cites = FALSE] \in Steps
        /\ [First EXCEPT !.dependencies = {4}] \in Steps
        /\ \A g \in {"missing", "outside"} : [First EXCEPT !.target = g] \in Steps
        /\ \A a \in {"modify", "fly"} : [First EXCEPT !.action = a] \in Steps
    <3>1. "modify" \in Answered /\ "fly" \in Answered
      BY DEF Answered
    <3> QED BY <3>1, <1>3, <2>1
  <2>3. /\ <<First, First>> \in Seq(Steps) /\ <<[First EXCEPT !.order = 2]>> \in Seq(Steps)
        /\ <<[First EXCEPT !.cites = FALSE]>> \in Seq(Steps)
        /\ <<[First EXCEPT !.dependencies = {4}]>> \in Seq(Steps)
        /\ \A g \in {"missing", "outside"} : <<[First EXCEPT !.target = g]>> \in Seq(Steps)
        /\ \A a \in {"modify", "fly"} : <<[First EXCEPT !.action = a]>> \in Seq(Steps)
    BY <1>2, <1>3, <2>2, Zenon
  <2> QED BY <2>3, Zenon DEF Faulty
<1> QED BY <1>4, <1>5

\* what validation passes is sound
LEMMA NoIssueIsSound ==
  ASSUME NEW plan \in Seq(Steps), Planning!Issues(plan) = {}
  PROVE  /\ \E rank \in [Planning!Ids(plan) -> DOMAIN plan] :
               \A k \in DOMAIN plan : \A d \in plan[k].dependencies : rank[d] < rank[plan[k].id]
         /\ Cardinality(Planning!Ids(plan)) = Len(plan)
         /\ \A k \in DOMAIN plan : /\ plan[k].target \in {"file", "directory", "none"}
                                   /\ plan[k].cites /\ plan[k].action # "modify"
<1> DEFINE S == Planning!Ids(plan)
           D == [id \in S |-> Planning!DependenciesOf(plan, id)]
<1>1. /\ \A j \in DOMAIN plan : ~(\E i \in 1 .. (j - 1) : plan[i].id = plan[j].id)
      /\ \A j \in DOMAIN plan : plan[j].dependencies \subseteq S
      /\ \A j \in DOMAIN plan : plan[j].action # "modify"
      /\ \A j \in DOMAIN plan : plan[j].target # "outside" /\ plan[j].target # "missing"
      /\ \A j \in DOMAIN plan : plan[j].cites
      /\ ~Planning!Cyclic(plan)
  BY DEF Planning!Issues
<1>2. DOMAIN plan = 1 .. Len(plan) /\ Len(plan) \in Nat /\ \A k \in DOMAIN plan : plan[k] \in Steps
  OBVIOUS
<1>3. IsFiniteSet(S) /\ Cardinality(S) = Len(plan)
  <2> DEFINE b == [k \in 1 .. Len(plan) |-> plan[k].id]
  <2>1. ASSUME NEW j \in 1 .. Len(plan), NEW i \in 1 .. Len(plan), plan[i].id = plan[j].id
        PROVE  i = j
    <3>1. ~(i < j) /\ ~(j < i)
      BY <1>1, <1>2, <2>1
    <3> QED BY <3>1, <1>2
  <2>2. b \in Bijection(1 .. Len(plan), S)
    BY <1>2, <2>1 DEF Bijection, Injection, Surjection, IsInjective, Planning!Ids
  <2>3. ExistsBijection(1 .. Len(plan), S)
    BY <2>2 DEF ExistsBijection
  <2>4. IsFiniteSet(1 .. Len(plan)) /\ Cardinality(1 .. Len(plan)) = Len(plan)
    BY <1>2, FS_Interval
  <2> QED BY <2>3, <2>4, FS_Bijection
<1>4. D \in [S -> SUBSET S]
  BY DEF Planning!DependenciesOf
<1>5. Met(S, D, Planning!Meeting(plan))
  <2> DEFINE F(g) == [visiting \in SUBSET S |->
                        {id \in S : \/ id \in visiting
                                   \/ Planning!DependenciesOf(plan, id) \cap g[visiting \cup {id}] # {}}]
  <2>1. PICK f : Met(S, D, f)
    BY <1>4, WalkExists
  <2>2. \A g : Met(S, D, g) <=> g = F(g)
    BY DEF Met
  <2>3. Planning!Meeting(plan) = CHOOSE g : g = F(g)
    BY DEF Planning!Meeting
  <2> HIDE DEF F
  <2> QED BY <2>1, <2>2, <2>3
<1>6. Planning!Meeting(plan)[{}] = {}
  BY <1>1 DEF Planning!Cyclic
<1>7. \A U \in SUBSET S : U # {} => \E x \in U : D[x] \cap U = {}
  <2> HIDE DEF D, S
  <2> QED BY <1>3, <1>4, <1>5, <1>6, WalkComesBack
<1>8. PICK rank \in [S -> 1 .. Cardinality(S)] : \A x \in S : \A d \in D[x] : rank[d] < rank[x]
  <2> HIDE DEF D, S
  <2> QED BY <1>3, <1>4, <1>7, RankExists
<1>9. ASSUME NEW k \in DOMAIN plan, NEW d \in plan[k].dependencies PROVE rank[d] < rank[plan[k].id]
  <2>1. plan[k].id \in S /\ d \in S
    BY <1>1 DEF Planning!Ids
  <2>2. d \in D[plan[k].id]
    BY <2>1 DEF Planning!DependenciesOf
  <2> QED BY <1>8, <2>1, <2>2
<1>10. rank \in [S -> DOMAIN plan]
  BY <1>2, <1>3, <1>8
<1> HIDE DEF S, D
<1>11. \A k \in DOMAIN plan : plan[k].target \in {"file", "directory", "none"}
  BY <1>1, <1>2 DEF Steps
<1>12. Planning!Ids(plan) = S
  BY DEF S
<1> QED BY <1>1, <1>3, <1>9, <1>10, <1>11, <1>12

\* ------------------------------------------------------------------ the planner
Stages == {"idle", "validate", "run", "tool"}
PlanFields == {"pc", "status", "plan", "at", "call", "runs", "evidence", "found", "stored", "plannings", "denied", "ended"}
PlanningTypeOK ==
    /\ DOMAIN planned = PlanFields /\ planned.pc \in Stages
    /\ planned.call \in Nat /\ planned.found \in Nat /\ planned.found <= planned.call
    /\ planned.pc = "validate" => planned.plan \in SoundOrCyclic \cup Faulty /\ planned.ended = {}

\* What is stored is a plan that validation passed.
Validated ==
    planned.stored # <<>> =>
        planned.stored \in SoundOrCyclic \cup Faulty /\ Planning!Issues(planned.stored) = {}

\* The records of a call that ended are its own: they stay, for later calls use later ids.
StartKept(call) ==
    /\ Planning!StartedId(call) \in DOMAIN planned.runs
    /\ planned.runs[Planning!StartedId(call)] = Planning!Event("started", call)
EndKept(e) ==
    /\ Planning!EndedId(e.call) \in DOMAIN planned.runs
    /\ planned.runs[Planning!EndedId(e.call)] = Planning!Event(IF e.success THEN "completed" ELSE "failed", e.call)
EvidenceKept(e) == e.success => \E n \in 0 .. e.call : <<e.step, n>> \in planned.evidence
CallsKept ==
    ~planned.denied =>
        /\ planned.pc = "tool" => StartKept(planned.call)
        /\ \A e \in planned.ended : /\ e.call \in Nat /\ e.call < planned.call
                                    /\ StartKept(e.call) /\ EndKept(e) /\ EvidenceKept(e)

PlanningInv == PlanningTypeOK /\ Validated /\ CallsKept

LEMMA PlanningInit == Planning!Init => PlanningInv
BY DEF Planning!Init, PlanningInv, PlanningTypeOK, PlanFields, Stages, Validated, CallsKept

LEMMA PlanningUnchanged == PlanningInv /\ UNCHANGED planned => PlanningInv'
BY DEF PlanningInv, PlanningTypeOK, Validated, CallsKept, StartKept, EndKept, EvidenceKept, Planning!Event,
       Planning!StartedId, Planning!EndedId

\* a new planning, whose calls have not begun
LEMMA NewPlanning ==
  ASSUME PlanningInv, (\E plan \in SoundOrCyclic \cup Faulty : Planning!Propose(plan)) \/ Planning!ModelFails
  PROVE  PlanningInv'
<1>1. /\ DOMAIN planned' = PlanFields /\ planned'.pc \in {"idle", "validate"} /\ planned'.ended = {}
      /\ planned'.call = planned.call /\ planned'.found = planned.found /\ planned'.stored = planned.stored
      /\ planned'.pc = "validate" => planned'.plan \in SoundOrCyclic \cup Faulty
  BY DEF PlanningInv, PlanningTypeOK, PlanFields, Stages, Planning!Propose, Planning!ModelFails
<1>2. PlanningTypeOK'
  BY <1>1 DEF PlanningInv, PlanningTypeOK, Stages
<1>3. Validated'
  BY <1>1 DEF PlanningInv, Validated
<1>4. CallsKept'
  BY <1>1 DEF CallsKept
<1> QED BY <1>2, <1>3, <1>4 DEF PlanningInv

LEMMA PlanningValidate ==
  ASSUME PlanningInv, Planning!Validate
  PROVE  PlanningInv'
<1>1. planned.ended = {} /\ planned.plan \in SoundOrCyclic \cup Faulty
  BY DEF PlanningInv, PlanningTypeOK, Planning!Validate
<1>2. CASE Planning!Issues(planned.plan) # {}
  <2>1. /\ DOMAIN planned' = PlanFields /\ planned'.pc = "idle" /\ planned'.ended = {}
        /\ planned'.call = planned.call /\ planned'.found = planned.found /\ planned'.stored = planned.stored
    BY <1>1, <1>2 DEF PlanningInv, PlanningTypeOK, PlanFields, Planning!Validate
  <2>2. PlanningTypeOK' /\ Validated'
    BY <2>1 DEF PlanningInv, PlanningTypeOK, Validated, Stages
  <2>3. CallsKept'
    BY <2>1 DEF CallsKept
  <2> QED BY <2>2, <2>3 DEF PlanningInv
<1>3. CASE Planning!Issues(planned.plan) = {}
  <2>1. /\ DOMAIN planned' = PlanFields /\ planned'.pc = "run" /\ planned'.ended = {}
        /\ planned'.call = 0 /\ planned'.found = 0 /\ planned'.stored = planned.plan
    BY <1>1, <1>3 DEF PlanningInv, PlanningTypeOK, PlanFields, Planning!Validate
  <2>2. PlanningTypeOK' /\ Validated'
    BY <2>1, <1>1, <1>3 DEF PlanningTypeOK, Validated, Stages
  <2>3. CallsKept'
    BY <2>1 DEF CallsKept
  <2> QED BY <2>2, <2>3 DEF PlanningInv
<1> QED BY <1>2, <1>3

\* what leaves the records and the calls of the plan alone
LEMMA CallsStay ==
  ASSUME PlanningInv, DOMAIN planned' = PlanFields, planned'.pc \in {"idle", "run"},
         planned'.call = planned.call, planned'.found = planned.found, planned'.stored = planned.stored,
         planned'.runs = planned.runs, planned'.evidence = planned.evidence, planned'.ended = planned.ended,
         planned'.plannings = planned.plannings, planned'.denied = planned.denied
  PROVE  PlanningInv'
<1>1. PlanningTypeOK' /\ Validated'
  BY DEF PlanningInv, PlanningTypeOK, Validated, Stages
<1>2. CallsKept'
  BY DEF PlanningInv, CallsKept, StartKept, EndKept, EvidenceKept, Planning!Event, Planning!StartedId, Planning!EndedId
<1> QED BY <1>1, <1>2 DEF PlanningInv

LEMMA PlanningSkipOrFinish ==
  ASSUME PlanningInv, Planning!Skip \/ Planning!Finish
  PROVE  PlanningInv'
<1>1. planned.pc = "run" /\ DOMAIN planned = PlanFields
  BY DEF PlanningInv, PlanningTypeOK, Planning!Skip, Planning!Finish, Planning!Running
<1>2. /\ DOMAIN planned' = PlanFields /\ planned'.pc \in {"idle", "run"}
      /\ planned'.call = planned.call /\ planned'.found = planned.found /\ planned'.stored = planned.stored
      /\ planned'.runs = planned.runs /\ planned'.evidence = planned.evidence /\ planned'.ended = planned.ended
      /\ planned'.plannings = planned.plannings /\ planned'.denied = planned.denied
  BY <1>1 DEF Planning!Skip, Planning!Finish, PlanFields
<1> QED BY <1>2, CallsStay

LEMMA PlanningRefuse ==
  ASSUME PlanningInv, Planning!Refuse
  PROVE  PlanningInv'
<1>1. planned.pc = "run" /\ DOMAIN planned = PlanFields
  BY DEF PlanningInv, PlanningTypeOK, Planning!Refuse, Planning!Running
<1>2. /\ DOMAIN planned' = PlanFields /\ planned'.pc = "run" /\ planned'.call = planned.call + 1
      /\ planned'.found = planned.found /\ planned'.stored = planned.stored /\ planned'.denied = TRUE
  BY <1>1 DEF Planning!Refuse, PlanFields
<1>3. PlanningTypeOK' /\ Validated'
  BY <1>2 DEF PlanningInv, PlanningTypeOK, Validated, Stages
<1>4. CallsKept'
  BY <1>2 DEF CallsKept
<1> QED BY <1>3, <1>4 DEF PlanningInv

\* a record of another id leaves the records of a call alone
LEMMA OtherRecord ==
  ASSUME NEW id, NEW value, NEW call, planned'.runs = Planning!Stored(planned.runs, id, value),
         planned'.plannings = planned.plannings
  PROVE  /\ StartKept(call) /\ id # Planning!StartedId(call) => StartKept(call)'
         /\ \A e : EndKept(e) /\ id # Planning!EndedId(e.call) => EndKept(e)'
BY DEF Planning!Stored, StartKept, EndKept, Planning!Event, Planning!StartedId, Planning!EndedId

LEMMA PlanningStart ==
  ASSUME PlanningInv, Planning!Start
  PROVE  PlanningInv'
<1> DEFINE c == planned.call
<1>1. planned.pc = "run" /\ DOMAIN planned = PlanFields /\ c \in Nat
  BY DEF PlanningInv, PlanningTypeOK, Planning!Start, Planning!Running
<1>2. /\ DOMAIN planned' = PlanFields /\ planned'.pc = "tool" /\ planned'.call = c
      /\ planned'.found = planned.found /\ planned'.stored = planned.stored /\ planned'.denied = planned.denied
      /\ planned'.runs = Planning!Stored(planned.runs, Planning!StartedId(c), Planning!Event("started", c))
      /\ planned'.evidence = planned.evidence /\ planned'.ended = planned.ended
      /\ planned'.plannings = planned.plannings
  BY <1>1 DEF Planning!Start, PlanFields
<1>3. PlanningTypeOK' /\ Validated'
  BY <1>2 DEF PlanningInv, PlanningTypeOK, Validated, Stages
<1>4. StartKept(c)'
  BY <1>2 DEF StartKept, Planning!Stored, Planning!Event, Planning!StartedId
<1>5. ASSUME ~planned.denied, NEW e \in planned.ended
      PROVE  /\ e.call \in Nat /\ e.call < c
             /\ StartKept(e.call)' /\ EndKept(e)' /\ EvidenceKept(e)'
  <2>1. e.call \in Nat /\ e.call < c /\ StartKept(e.call) /\ EndKept(e) /\ EvidenceKept(e)
    BY <1>5 DEF PlanningInv, CallsKept
  <2>2. Planning!StartedId(c) # Planning!StartedId(e.call) /\ Planning!StartedId(c) # Planning!EndedId(e.call)
    BY <2>1, <1>1 DEF Planning!StartedId, Planning!EndedId
  <2>3. StartKept(e.call)' /\ EndKept(e)'
    BY <1>2, <2>1, <2>2, OtherRecord
  <2>4. EvidenceKept(e)'
    BY <1>2, <2>1 DEF EvidenceKept
  <2> QED BY <2>1, <2>3, <2>4
<1>6. CallsKept'
  BY <1>2, <1>4, <1>5 DEF CallsKept, StartKept, Planning!Event, Planning!StartedId
<1> QED BY <1>3, <1>6 DEF PlanningInv

LEMMA PlanningReturn ==
  ASSUME PlanningInv, NEW success \in BOOLEAN, Planning!Return(success)
  PROVE  PlanningInv'
<1>0. PICK c, id : c = planned.call /\ id = Planning!Step.id
  OBVIOUS
<1> DEFINE end == [call |-> c, step |-> id, success |-> success]
<1>1. planned.pc = "tool" /\ DOMAIN planned = PlanFields /\ c \in Nat /\ planned.found \in Nat /\ planned.found <= c
  BY <1>0 DEF PlanningInv, PlanningTypeOK, Planning!Return
<1>2. /\ DOMAIN planned' = PlanFields /\ planned'.pc = "run" /\ planned'.call = c + 1
      /\ planned'.found = IF success THEN planned.found + 1 ELSE planned.found
      /\ planned'.stored = planned.stored /\ planned'.denied = planned.denied
      /\ planned'.runs = Planning!Stored(planned.runs, Planning!EndedId(c),
                            Planning!Event(IF success THEN "completed" ELSE "failed", c))
      /\ planned'.evidence = IF success THEN planned.evidence \cup {<<id, planned.found>>} ELSE planned.evidence
      /\ planned'.ended = planned.ended \cup {end}
      /\ planned'.plannings = planned.plannings
  BY <1>0, <1>1 DEF Planning!Return, PlanFields
<1>3. PlanningTypeOK' /\ Validated'
  BY <1>0, <1>1, <1>2 DEF PlanningInv, PlanningTypeOK, Validated, Stages
<1>4. ASSUME ~planned.denied PROVE StartKept(c)' /\ EndKept(end)' /\ EvidenceKept(end)'
  <2>1. Planning!EndedId(c) # Planning!StartedId(c) /\ StartKept(c)
    BY <1>0, <1>1, <1>4 DEF PlanningInv, CallsKept, Planning!StartedId, Planning!EndedId
  <2>2. StartKept(c)'
    BY <1>2, <2>1, OtherRecord
  <2>3. EndKept(end)'
    BY <1>2 DEF EndKept, Planning!Stored, Planning!Event, Planning!EndedId
  <2>4. EvidenceKept(end)'
    BY <1>1, <1>2 DEF EvidenceKept
  <2> QED BY <2>2, <2>3, <2>4
<1>5. ASSUME ~planned.denied, NEW e \in planned.ended
      PROVE  /\ e.call \in Nat /\ e.call < c
             /\ StartKept(e.call)' /\ EndKept(e)' /\ EvidenceKept(e)'
  <2>1. e.call \in Nat /\ e.call < c /\ StartKept(e.call) /\ EndKept(e) /\ EvidenceKept(e)
    BY <1>0, <1>5 DEF PlanningInv, CallsKept
  <2>2. Planning!EndedId(c) # Planning!StartedId(e.call) /\ Planning!EndedId(c) # Planning!EndedId(e.call)
    BY <2>1, <1>1 DEF Planning!StartedId, Planning!EndedId
  <2>3. StartKept(e.call)' /\ EndKept(e)'
    BY <1>2, <2>1, <2>2, OtherRecord
  <2>4. EvidenceKept(e)'
    BY <1>2, <2>1 DEF EvidenceKept
  <2> QED BY <2>1, <2>3, <2>4
<1>6. CallsKept'
  <2> SUFFICES ASSUME ~planned.denied, NEW e \in planned.ended \cup {end}
               PROVE  e.call \in Nat /\ e.call < c + 1 /\ StartKept(e.call)' /\ EndKept(e)' /\ EvidenceKept(e)'
    BY <1>2 DEF CallsKept, StartKept, EndKept, EvidenceKept, Planning!Event, Planning!StartedId, Planning!EndedId
  <2>1. CASE e = end
    <3>1. e.call = c
      BY <2>1
    <3> QED BY <2>1, <3>1, <1>1, <1>4
  <2>2. CASE e \in planned.ended
    <3>1. e.call \in Nat /\ e.call < c
      BY <2>2, <1>5
    <3> QED BY <2>2, <3>1, <1>1, <1>5
  <2> QED BY <2>1, <2>2
<1> QED BY <1>3, <1>6 DEF PlanningInv

LEMMA PlanningNext == PlanningInv /\ Planning!Next => PlanningInv'
BY NewPlanning, PlanningValidate, PlanningSkipOrFinish, PlanningRefuse, PlanningStart, PlanningReturn
   DEF Planning!Next

LEMMA CallsFollow == PlanningInv => Planning!CallsRecorded
<1> SUFFICES ASSUME PlanningInv, ~planned.denied, NEW e \in planned.ended
             PROVE  /\ \A kind \in {"started", IF e.success THEN "completed" ELSE "failed"} :
                          \E id \in DOMAIN planned.runs : planned.runs[id] = Planning!Event(kind, e.call)
                    /\ e.success => \E n \in 0 .. e.call : <<e.step, n>> \in planned.evidence
  BY DEF Planning!CallsRecorded
<1>1. StartKept(e.call) /\ EndKept(e) /\ EvidenceKept(e)
  BY DEF PlanningInv, CallsKept
<1> QED BY <1>1 DEF StartKept, EndKept, EvidenceKept

LEMMA PlanningCardinality == ASSUME NEW S PROVE Planning!Cardinality(S) = Cardinality(S)
BY DEF Planning!Cardinality, Cardinality

LEMMA SoundFollows == PlanningInv => Planning!AcceptedIsSound
<1> SUFFICES ASSUME PlanningInv PROVE Planning!AcceptedIsSound
  OBVIOUS
<1> DEFINE plan == planned.stored
<1>1. CASE plan = <<>>
  <2>1. DOMAIN plan = {} /\ Len(plan) = 0
    BY <1>1
  <2>2. Planning!Ids(plan) = {}
    BY <2>1 DEF Planning!Ids
  <2>3. Cardinality(Planning!Ids(plan)) = Len(plan)
    BY <2>1, <2>2, FS_EmptySet
  <2>4. [x \in {} |-> x] \in [Planning!Ids(plan) -> DOMAIN plan]
    BY <2>1, <2>2
  <2> HIDE DEF plan
  <2>5. \E rank \in [Planning!Ids(plan) -> DOMAIN plan] :
           \A k \in DOMAIN plan : \A d \in plan[k].dependencies : rank[d] < rank[plan[k].id]
    BY <2>1, <2>4
  <2>6. \A k \in DOMAIN plan : /\ plan[k].target \in {"file", "directory", "none"}
                             /\ plan[k].cites /\ plan[k].action # "modify"
    BY <2>1
  <2> QED BY <2>3, <2>5, <2>6, PlanningCardinality DEF Planning!AcceptedIsSound, plan
<1>2. CASE plan # <<>>
  <2>1. plan \in Seq(Steps) /\ Planning!Issues(plan) = {}
    BY <1>2, PlansAreSequences DEF PlanningInv, Validated
  <2> HIDE DEF plan
  <2>2. /\ \E rank \in [Planning!Ids(plan) -> DOMAIN plan] :
              \A k \in DOMAIN plan : \A d \in plan[k].dependencies : rank[d] < rank[plan[k].id]
        /\ Cardinality(Planning!Ids(plan)) = Len(plan)
        /\ \A k \in DOMAIN plan : /\ plan[k].target \in {"file", "directory", "none"}
                                  /\ plan[k].cites /\ plan[k].action # "modify"
    BY <2>1, NoIssueIsSound
  <2> QED BY <2>2, PlanningCardinality DEF Planning!AcceptedIsSound, plan
<1> QED BY <1>1, <1>2

\* keys of one length are ordered by their first difference
LEMMA KeysOrdered ==
  ASSUME NEW n \in Nat, NEW k \in Seq(Int), NEW l \in Seq(Int), NEW m \in Seq(Int),
         Len(k) = n, Len(l) = n, Len(m) = n
  PROVE  /\ ~Routing!Less(k, k)
         /\ Routing!Less(k, l) /\ Routing!Less(l, m) => Routing!Less(k, m)
         /\ (\E i \in 1 .. n : k[i] # l[i]) => Routing!Less(k, l) \/ Routing!Less(l, k)
<1>1. /\ DOMAIN k = 1 .. n /\ DOMAIN l = 1 .. n /\ DOMAIN m = 1 .. n
      /\ \A i \in 1 .. n : k[i] \in Int /\ l[i] \in Int /\ m[i] \in Int /\ i \in Nat
  OBVIOUS
<1>2. ~Routing!Less(k, k)
  BY <1>1 DEF Routing!Less
<1>3. ASSUME Routing!Less(k, l), Routing!Less(l, m) PROVE Routing!Less(k, m)
  <2>1. PICK d \in 1 .. n : k[d] < l[d] /\ \A j \in 1 .. (d - 1) : k[j] = l[j]
    BY <1>1, <1>3 DEF Routing!Less
  <2>2. PICK e \in 1 .. n : l[e] < m[e] /\ \A j \in 1 .. (e - 1) : l[j] = m[j]
    BY <1>1, <1>3 DEF Routing!Less
  <2>3. CASE d <= e
    <3>1. k[d] < m[d]
      <4>1. CASE d = e
        BY <4>1, <1>1, <2>1, <2>2
      <4>2. CASE d < e
        <5>1. d \in 1 .. (e - 1)
          BY <4>2
        <5> QED BY <5>1, <1>1, <2>1, <2>2
      <4> QED BY <4>1, <4>2, <2>3
    <3>2. \A j \in 1 .. (d - 1) : k[j] = m[j]
      <4>1. \A j \in 1 .. (d - 1) : j \in 1 .. (e - 1)
        BY <2>3
      <4> QED BY <4>1, <2>1, <2>2
    <3> QED BY <1>1, <3>1, <3>2 DEF Routing!Less
  <2>4. CASE e < d
    <3>1. e \in 1 .. (d - 1)
      BY <2>4
    <3>2. k[e] < m[e]
      BY <3>1, <1>1, <2>1, <2>2
    <3>3. \A j \in 1 .. (e - 1) : k[j] = m[j]
      <4>1. \A j \in 1 .. (e - 1) : j \in 1 .. (d - 1)
        BY <2>4
      <4> QED BY <4>1, <2>1, <2>2
    <3> QED BY <1>1, <3>2, <3>3 DEF Routing!Less
  <2> QED BY <2>3, <2>4
<1>4. ASSUME NEW i \in 1 .. n, k[i] # l[i] PROVE Routing!Less(k, l) \/ Routing!Less(l, k)
  <2> DEFINE Differ == {j \in 1 .. n : k[j] # l[j]}
  <2>1. PICK d \in Differ : \A j \in Differ : d <= j
    <3>1. i \in Differ
      BY <1>4
    <3>2. Differ \subseteq 1 .. n /\ 1 .. n \subseteq Nat
      OBVIOUS
    <3> HIDE DEF Differ
    <3>3. Differ \in SUBSET Nat /\ Differ # {}
      BY <3>1, <3>2
    <3> QED BY <3>3, LeastElement
  <2>2. d \in 1 .. n /\ k[d] # l[d]
    OBVIOUS
  <2>3. \A j \in 1 .. (d - 1) : k[j] = l[j]
    <3> SUFFICES ASSUME NEW j \in 1 .. (d - 1) PROVE k[j] = l[j]
      OBVIOUS
    <3>1. j \in 1 .. n /\ ~(d <= j)
      BY <2>2
    <3> QED BY <3>1, <2>1
  <2> HIDE DEF Differ
  <2>4. k[d] < l[d] \/ l[d] < k[d]
    BY <1>1, <2>2
  <2>5. \A j \in 1 .. (d - 1) : l[j] = k[j]
    BY <2>3
  <2> QED BY <1>1, <2>2, <2>3, <2>4, <2>5 DEF Routing!Less
<1> QED BY <1>2, <1>3, <1>4

LEMMA RoutingCardinality == ASSUME NEW S PROVE Routing!Cardinality(S) = Cardinality(S)
BY DEF Routing!Cardinality, Cardinality

\* candidates put in an order are the ones there were
LEMMA OrderedKeeps ==
  ASSUME NEW S \in SUBSET Int, IsFiniteSet(S), NEW n \in Nat \ {0}, NEW key,
         \A x \in S : key[x] \in Seq(Int) /\ Len(key[x]) = n /\ key[x][n] = x
  PROVE  Routing!Ordered(S, key) \in [1 .. Cardinality(S) -> S]
<1> DEFINE D == [x \in S |-> {y \in S : Routing!Less(key[y], key[x])}]
<1>1. D \in [S -> SUBSET S]
  OBVIOUS
<1>2. StrictOrder(S, D)
  <2>1. \A x \in S : x \notin D[x]
    BY KeysOrdered
  <2>2. ASSUME NEW x \in S, NEW y \in D[x] PROVE D[y] \subseteq D[x]
    <3>1. y \in S /\ Routing!Less(key[y], key[x])
      OBVIOUS
    <3>2. ASSUME NEW z \in S, Routing!Less(key[z], key[y]) PROVE Routing!Less(key[z], key[x])
      BY <3>1, <3>2, KeysOrdered
    <3> QED BY <3>1, <3>2
  <2>3. ASSUME NEW x \in S, NEW y \in S, x # y PROVE x \in D[y] \/ y \in D[x]
    <3>1. n \in 1 .. n /\ key[x][n] # key[y][n]
      BY <2>3
    <3>2. Routing!Less(key[x], key[y]) \/ Routing!Less(key[y], key[x])
      BY <3>1, KeysOrdered
    <3> QED BY <3>2
  <2> HIDE DEF D
  <2> QED BY <2>1, <2>2, <2>3 DEF StrictOrder
<1>3. PICK s \in [1 .. Cardinality(S) -> S] : \A i, j \in 1 .. Cardinality(S) : i < j => s[i] \in D[s[j]]
  <2> HIDE DEF D
  <2> QED BY <1>1, <1>2, SortedExists
<1>4. \A i, j \in DOMAIN s : i < j => Routing!Less(key[s[i]], key[s[j]])
  BY <1>3
<1> QED BY <1>3, <1>4, RoutingCardinality DEF Routing!Ordered

\* --------------------------------------------------------------------- routing
Known == 1 .. 3
RoutedFacts == <<Fact("p", 2, TRUE, 100), Fact("p", 1, FALSE, 100), Fact("q", 3, TRUE, 120)>>

LEMMA RoomsKnown == \A room \in {{1, 2, 3}, {2, 3}} : room \subseteq Known
BY DEF Known

LEMMA PricesKnown ==
  ASSUME NEW m \in Known
  PROVE  RoutedFacts[m].price \in Known /\ RoutedFacts[m].merit \in Int
<1>1. RoutedFacts[1] = Fact("p", 2, TRUE, 100) /\ RoutedFacts[2] = Fact("p", 1, FALSE, 100)
      /\ RoutedFacts[3] = Fact("q", 3, TRUE, 120)
  BY DEF RoutedFacts
<1>2. m = 1 \/ m = 2 \/ m = 3
  BY DEF Known
<1> QED BY <1>1, <1>2 DEF Fact, Known

LEMMA HistoricalIsInt ==
  ASSUME NEW signals, IsFiniteSet(signals), NEW m \in Known
  PROVE  Routing!Historical(signals, m) \in Int
<1> DEFINE own == Routing!About(signals, m)
           kin == Routing!AboutProvider(signals, m)
<1>1. IsFiniteSet(own) /\ IsFiniteSet(kin)
  BY FS_Subset DEF Routing!About, Routing!AboutProvider
<1>2. ASSUME NEW S, IsFiniteSet(S)
      PROVE  /\ Routing!Cardinality(S) \in Nat /\ (S # {} => Routing!Cardinality(S) # 0)
             /\ Routing!Won(S) \in Nat
  <2>1. {x \in S : x.success} \in SUBSET S
    OBVIOUS
  <2>2. IsFiniteSet({x \in S : x.success})
    BY <1>2, <2>1, FS_Subset
  <2> QED BY <1>2, <2>2, FS_CardinalityType, FS_EmptySet, RoutingCardinality DEF Routing!Won
<1>3. ASSUME NEW a \in Int, NEW b \in Nat \ {0} PROVE a \div b \in Int
  OBVIOUS
<1> HIDE DEF own, kin
<1>4. CASE own # {}
  <2>1. Routing!Won(own) \in Nat /\ Routing!Cardinality(own) \in Nat \ {0}
    BY <1>1, <1>2, <1>4
  <2>2. (120 * Routing!Won(own)) \div Routing!Cardinality(own) \in Int
    BY <2>1, <1>3
  <2> QED BY <1>4, <2>2 DEF Routing!Historical, Routing!Unit, own
<1>5. CASE own = {} /\ kin # {}
  <2>1. Routing!Won(kin) \in Nat /\ Routing!Cardinality(kin) \in Nat \ {0}
    BY <1>1, <1>2, <1>5
  <2> DEFINE part == (120 \div 10) * (2 * Routing!Won(kin) - Routing!Cardinality(kin))
  <2>2. part \in Int
    BY <2>1
  <2>3. part \div Routing!Cardinality(kin) \in Int
    <3> HIDE DEF part
    <3> QED BY <2>1, <2>2, <1>3
  <2>4. 120 \div 2 + part \div Routing!Cardinality(kin) \in Int
    <3> HIDE DEF part
    <3> QED BY <2>3
  <2> QED BY <1>5, <2>4 DEF Routing!Historical, Routing!Unit, own, kin
<1>6. CASE own = {} /\ kin = {}
  BY <1>6 DEF Routing!Historical, Routing!Unit, own, kin
<1> QED BY <1>4, <1>5, <1>6

LEMMA CostIsInt ==
  ASSUME NEW among \in SUBSET Known, NEW m \in among
  PROVE  Routing!CostScore(m, among) \in Int
<1> DEFINE prices == {RoutedFacts[k].price : k \in among}
           high == Routing!Max(prices)
           low == Routing!Min(prices)
<1>1. prices \in SUBSET Known /\ RoutedFacts[m].price \in prices
  BY PricesKnown
<1>2. high \in Known /\ low \in Known /\ low <= high
  <2> HIDE DEF prices
  <2>0. prices # {} /\ \A y \in prices : y = 1 \/ y = 2 \/ y = 3
    BY <1>1 DEF Known
  <2>1. \E x \in prices : \A y \in prices : x >= y
    <3>1. CASE 3 \in prices
      BY <2>0, <3>1
    <3>2. CASE 3 \notin prices /\ 2 \in prices
      BY <2>0, <3>2
    <3>3. CASE 3 \notin prices /\ 2 \notin prices
      BY <2>0, <3>3
    <3> QED BY <3>1, <3>2, <3>3
  <2>2. \E x \in prices : \A y \in prices : x <= y
    <3>1. CASE 1 \in prices
      BY <2>0, <3>1
    <3>2. CASE 1 \notin prices /\ 2 \in prices
      BY <2>0, <3>2
    <3>3. CASE 1 \notin prices /\ 2 \notin prices
      BY <2>0, <3>3
    <3> QED BY <3>1, <3>2, <3>3
  <2>3. high \in prices /\ \A y \in prices : high >= y
    BY <2>1 DEF Routing!Max
  <2>4. low \in prices /\ \A y \in prices : low <= y
    BY <2>2 DEF Routing!Min
  <2> HIDE DEF high, low
  <2> QED BY <1>1, <2>3, <2>4 DEF Known
<1>3. high # low => high - low \in Nat \ {0}
  <2> HIDE DEF high, low
  <2> QED BY <1>2 DEF Known
<1>4. ASSUME NEW a \in Int, NEW b \in Nat \ {0} PROVE a \div b \in Int
  OBVIOUS
<1>5. 120 * (high - RoutedFacts[m].price) \in Int
  <2> HIDE DEF high, low
  <2> QED BY <1>2, PricesKnown DEF Known
<1>6. high # low => (120 * (high - RoutedFacts[m].price)) \div (high - low) \in Int
  <2> HIDE DEF high, low
  <2> QED BY <1>3, <1>4, <1>5
<1>7. Routing!CostScore(m, among) =
        IF high = low THEN 120 ELSE (120 * (high - RoutedFacts[m].price)) \div (high - low)
  BY DEF Routing!CostScore, RoutedFacts, Routing!Unit
<1> HIDE DEF high, low
<1> QED BY <1>6, <1>7

LEMMA ScoreIsInt ==
  ASSUME NEW signals, IsFiniteSet(signals), NEW among \in SUBSET Known, NEW m \in among
  PROVE  Routing!FinalScore(signals, m, among) \in Int
<1>1. m \in Known
  OBVIOUS
<1>2. RoutedFacts[m].merit \in Int /\ Routing!Historical(signals, m) \in Int /\ Routing!CostScore(m, among) \in Int
  BY <1>1, PricesKnown, HistoricalIsInt, CostIsInt
<1>3. Routing!FinalScore(signals, m, among) =
        50 * RoutedFacts[m].merit + 30 * Routing!Historical(signals, m) + 10 * Routing!CostScore(m, among) + 10 * (120 \div 2)
  BY DEF Routing!FinalScore, RoutedFacts, Routing!Unit
<1> QED BY <1>2, <1>3

\* only models of the room that fit and are affordable are candidates
LEMMA SelectedKeeps ==
  ASSUME NEW signals, IsFiniteSet(signals), NEW way, NEW room \in {{1, 2, 3}, {2, 3}}
  PROVE  Routing!Selected(signals, way, room) \in
            Seq({m \in room : Routing!Fits(m, way.reasoning) /\ Routing!Affordable(m, way.budget)})
<1> DEFINE fitting == Routing!Fitting(room, way.reasoning, way.budget)
           built == {m \in fitting : way.preference = "reasoning" => RoutedFacts[m].reasoning}
           score(m) == Routing!FinalScore(signals, m, fitting)
           key == [m \in built |->
                     CASE way.preference = "cheap" -> <<RoutedFacts[m].price, -score(m), m>>
                       [] way.preference = "fast" -> <<-score(m), m>>
                       [] OTHER -> <<-score(m), -Routing!Historical(signals, m), RoutedFacts[m].price, m>>]
           n == IF way.preference = "cheap" THEN 3 ELSE IF way.preference = "fast" THEN 2 ELSE 4
<1>1. fitting \in SUBSET Known /\ built \in SUBSET fitting /\ built \in SUBSET Int
      /\ fitting = {m \in room : Routing!Fits(m, way.reasoning) /\ Routing!Affordable(m, way.budget)}
  BY RoomsKnown DEF Routing!Fitting, Known
<1>2. IsFiniteSet(built)
  <2>1. IsFiniteSet(Known)
    <3>1. Known \in SUBSET Nat /\ 3 \in Nat /\ \A k \in Known : k <= 3
      BY DEF Known
    <3> QED BY <3>1, FS_BoundedSetOfNaturals
  <2> HIDE DEF fitting, built
  <2>2. built \in SUBSET Known
    BY <1>1
  <2> QED BY <2>1, <2>2, FS_Subset
<1>3. ASSUME NEW m \in built
      PROVE  key[m] \in Seq(Int) /\ Len(key[m]) = n /\ key[m][n] = m
  <2>1. m \in fitting /\ m \in Known /\ m \in Int
    BY <1>1
  <2> HIDE DEF fitting
  <2> DEFINE c == score(m)
             h == Routing!Historical(signals, m)
             p == RoutedFacts[m].price
  <2>2. c \in Int /\ h \in Int /\ p \in Int
    BY <1>1, <2>1, ScoreIsInt, HistoricalIsInt, PricesKnown DEF Known
  <2>3. key[m] = CASE way.preference = "cheap" -> <<p, -c, m>>
                   [] way.preference = "fast" -> <<-c, m>>
                   [] OTHER -> <<-c, -h, p, m>>
    OBVIOUS
  <2> HIDE DEF c, h, p, key
  <2> QED BY <2>1, <2>2, <2>3
<1>4. n \in Nat \ {0}
  OBVIOUS
<1>5. Routing!Selected(signals, way, room) = Routing!Ordered(built, key)
  BY DEF Routing!Selected, RoutedFacts
<1> HIDE DEF built, key, n, fitting
<1>6. Routing!Ordered(built, key) \in [1 .. Cardinality(built) -> built]
  BY <1>1, <1>2, <1>3, <1>4, OrderedKeeps
<1>7. Cardinality(built) \in Nat
  BY <1>2, FS_CardinalityType
<1>8. ASSUME NEW S, NEW T, S \subseteq T, NEW k \in Nat, NEW f \in [1 .. k -> S] PROVE f \in Seq(T)
  BY <1>8
<1> QED BY <1>1, <1>5, <1>6, <1>7, <1>8

RoutedModels == Models \cup Known
Routes == [candidates : Seq(RoutedModels), allowed : SUBSET RoutedModels]
RunIds == ProposalIds \cup {"plan"}
ModelRuns == [id : RunIds, model : RoutedModels, route : Routes]
RunFields == {"phase", "way", "route", "at", "executions", "reworks", "answered", "moved", "fallbacks"}
RoutePhases == {"new", "plan", "propose", "work", "again", "done", "failed"}

RunTypeOK(r) ==
    /\ DOMAIN r = RunFields /\ r.phase \in RoutePhases /\ r.route \in Routes
    /\ r.at \in Nat /\ r.executions \in Seq(ModelRuns)

\* The candidate that is tried is allowed, and fallbacks lead to it.
AllAllowed(r) == \A k \in 1 .. Len(r.route.candidates) : r.route.candidates[k] \in r.route.allowed
Placed(r) ==
    /\ r.phase \in {"new", "again", "work"} => r.at = 1
    /\ r.phase \in {"plan", "propose", "work", "again"} =>
          r.at \in 1 .. Len(r.route.candidates) /\ 1 .. (r.at - 1) \subseteq r.fallbacks
    /\ AllAllowed(r)

LedTo(e, fallbacks) ==
    /\ e.model \in e.route.allowed
    /\ \E k \in 1 .. Len(e.route.candidates) :
          e.route.candidates[k] = e.model /\ 1 .. (k - 1) \subseteq fallbacks
RunsLedTo(r) == \A i \in 1 .. Len(r.executions) : LedTo(r.executions[i], r.fallbacks)

\* The last execution is the one whose proposal is worked on; before a task is done there are
\* only failures to its models, and afterwards its success and the failures of other models.
OnlyFailures(signals) == \A s \in signals : s.task = "t1" => ~s.success
Deserved(r) ==
    r.phase = "work" /\ ~r.moved =>
        Len(r.executions) # 0 /\ r.executions[Len(r.executions)].model = r.answered
CreditDue(r, signals) ==
    /\ r.phase # "done" => OnlyFailures(signals)
    /\ Deserved(r)
    /\ r.phase = "done" /\ ~r.moved =>
          /\ \E s \in signals : s.task = "t1" /\ s.model = r.answered
          /\ \A s \in signals : s.task = "t1" => (s.success <=> s.model = r.answered)

RunInv(r, signals) == RunTypeOK(r) /\ Placed(r) /\ RunsLedTo(r) /\ CreditDue(r, signals)
RoutingInv ==
    /\ DOMAIN routed = {"signals", "run"} /\ DOMAIN routed.run = {"t1"}
    /\ IsFiniteSet(routed.signals) /\ RunInv(routed.run["t1"], routed.signals)

LEMMA RoutingInit == Routing!Init => RoutingInv
<1> SUFFICES ASSUME Routing!Init PROVE RoutingInv
  OBVIOUS
<1>1. PICK signals \in SUBSET Earlier : routed = [signals |-> signals, run |-> [t \in {"t1"} |-> Routing!NoRun]]
  BY DEF Routing!Init
<1>2. IsFiniteSet(signals)
  <2>1. IsFiniteSet(Earlier)
    BY PairsAreFinite, Zenon DEF Earlier
  <2> QED BY <2>1, FS_Subset
<1>3. \A s \in signals : s.task # "t1"
  BY DEF Earlier
<1>4. RunTypeOK(Routing!NoRun) /\ Placed(Routing!NoRun) /\ RunsLedTo(Routing!NoRun)
  BY DEF Routing!NoRun, Routing!NoRoute, RunTypeOK, Placed, AllAllowed, RunsLedTo, RunFields, RoutePhases, Routes
<1>5. CreditDue(Routing!NoRun, signals)
  BY <1>3 DEF CreditDue, OnlyFailures, Deserved, Routing!NoRun
<1>6. routed.run["t1"] = Routing!NoRun /\ routed.signals = signals /\ DOMAIN routed.run = {"t1"}
      /\ DOMAIN routed = {"signals", "run"}
  BY <1>1
<1> QED BY <1>2, <1>4, <1>5, <1>6 DEF RoutingInv, RunInv

LEMMA RoutingUnchanged == RoutingInv /\ UNCHANGED routed => RoutingInv'
BY DEF RoutingInv

\* recording an answer adds its run, at the end unless its id was used before
LEMMA RecordedRuns ==
  ASSUME NEW r, RunTypeOK(r), r.at \in 1 .. Len(r.route.candidates), NEW id \in RunIds
  PROVE  LET x == [id |-> id, model |-> r.route.candidates[r.at], route |-> r.route]
             new == Routing!Recorded(r, id)
         IN /\ new \in Seq(ModelRuns) /\ Len(new) # 0
            /\ \A k \in 1 .. Len(new) : new[k] = x \/ \E j \in 1 .. Len(r.executions) : new[k] = r.executions[j]
            /\ ~Routing!MovedBack(r.executions, id) => new[Len(new)] = x
<1> DEFINE x == [id |-> id, model |-> r.route.candidates[r.at], route |-> r.route]
           E == r.executions
           at == {k \in DOMAIN E : E[k].id = id}
           new == Routing!Recorded(r, id)
<1>1. x \in ModelRuns
  BY DEF RunTypeOK, Routes, ModelRuns
<1>2. E \in Seq(ModelRuns)
  BY DEF RunTypeOK
<1>3. new = IF at = {} THEN Append(E, x) ELSE [k \in DOMAIN E |-> IF k \in at THEN x ELSE E[k]]
  BY DEF Routing!Recorded
<1>4. Routing!MovedBack(E, id) <=> \E k \in 1 .. (Len(E) - 1) : E[k].id = id
  BY DEF Routing!MovedBack
<1> HIDE DEF x, E
<1>5. CASE at = {}
  <2>1. new = Append(E, x)
    BY <1>3, <1>5
  <2> HIDE DEF new
  <2>2. new \in Seq(ModelRuns) /\ Len(new) = Len(E) + 1 /\ new[Len(new)] = x /\ Len(E) \in Nat
    BY <2>1, <1>1, <1>2
  <2>3. \A k \in 1 .. Len(new) : new[k] = x \/ \E j \in 1 .. Len(E) : new[k] = E[j]
    BY <2>1, <2>2, <1>2
  <2> QED BY <2>2, <2>3 DEF x, E, new
<1>6. CASE at # {}
  <2>1. new = [k \in DOMAIN E |-> IF k \in at THEN x ELSE E[k]]
    BY <1>3, <1>6
  <2>2. DOMAIN E = 1 .. Len(E) /\ Len(E) \in Nat /\ \A k \in 1 .. Len(E) : E[k] \in ModelRuns
    BY <1>2
  <2>3. PICK a \in 1 .. Len(E) : E[a].id = id
    BY <1>6, <2>2
  <2> HIDE DEF new
  <2>4. new \in [1 .. Len(E) -> ModelRuns]
    BY <2>1, <2>2, <1>1
  <2>5. new \in Seq(ModelRuns) /\ Len(new) = Len(E) /\ Len(new) # 0
    BY <2>2, <2>3, <2>4
  <2>6. \A k \in 1 .. Len(new) : new[k] = x \/ \E j \in 1 .. Len(E) : new[k] = E[j]
    BY <2>1, <2>2, <2>5
  <2>7. ~Routing!MovedBack(E, id) => new[Len(new)] = x
    <3>1. ~Routing!MovedBack(E, id) => a = Len(E)
      <4>0. ASSUME NEW n \in Nat, NEW b \in 1 .. n, b # n PROVE b \in 1 .. (n - 1)
        BY <4>0
      <4>1. a # Len(E) => a \in 1 .. (Len(E) - 1)
        BY <2>2, <2>3, <4>0
      <4> HIDE DEF at
      <4> QED BY <4>1, <1>4, <2>3
    <3> QED BY <3>1, <2>1, <2>2, <2>3, <2>5
  <2> QED BY <2>5, <2>6, <2>7 DEF x, E, new
<1> QED BY <1>5, <1>6

\* the runs of a task, and how an outcome is credited
LEMMA RunRecorded ==
  ASSUME NEW r, RunTypeOK(r), Placed(r), RunsLedTo(r), r.phase \in {"plan", "propose"}, NEW id \in RunIds
  PROVE  LET new == Routing!Recorded(r, id)
         IN \A k \in 1 .. Len(new) : LedTo(new[k], r.fallbacks)
<1> DEFINE x == [id |-> id, model |-> r.route.candidates[r.at], route |-> r.route]
           new == Routing!Recorded(r, id)
<1>1. r.at \in 1 .. Len(r.route.candidates) /\ r.at \in Nat
  BY DEF Placed, RunTypeOK
<1>2. \A k \in 1 .. Len(new) : new[k] = x \/ \E j \in 1 .. Len(r.executions) : new[k] = r.executions[j]
  BY <1>1, RecordedRuns
<1>3. LedTo(x, r.fallbacks)
  BY <1>1 DEF LedTo, Placed, AllAllowed
<1> HIDE DEF x, new
<1>4. \A k \in 1 .. Len(new) : LedTo(new[k], r.fallbacks)
  BY <1>2, <1>3 DEF RunsLedTo
<1> QED BY <1>4 DEF new

\* what a step leaves of the runs of a task that is not credited in it
LEMMA RoutingMoves ==
  ASSUME RoutingInv, NEW r, RunInv(r, routed.signals),
         routed' = [routed EXCEPT !.run["t1"] = r]
  PROVE  RoutingInv'
<1>1. /\ DOMAIN routed' = {"signals", "run"} /\ routed'.signals = routed.signals
      /\ routed'.run = [routed.run EXCEPT !["t1"] = r]
  BY DEF RoutingInv
<1>2. DOMAIN routed'.run = {"t1"} /\ routed'.run["t1"] = r
  BY <1>1 DEF RoutingInv
<1> QED BY <1>1, <1>2 DEF RoutingInv

LEMMA RoutingFinished ==
  ASSUME RoutingInv, NEW r, RunTypeOK(r), RunsLedTo(r), AllAllowed(r), OnlyFailures(routed.signals),
         NEW success \in BOOLEAN, Routing!Finished("t1", r, success),
         success /\ ~r.moved => Len(r.executions) # 0 /\ r.executions[Len(r.executions)].model = r.answered
  PROVE  RoutingInv'
<1> DEFINE credited == Routing!Credited(r)
           signal == [task |-> "t1", model |-> credited, success |-> success]
           phase1 == IF success THEN "done" ELSE "failed"
           r1 == [r EXCEPT !.phase = phase1]
           kept == {s \in routed.signals : <<s.task, s.model>> # <<"t1", credited>>}
           signals1 == kept \cup {signal}
<1>1. routed' = [signals |-> signals1, run |-> [routed.run EXCEPT !["t1"] = r1]]
  BY DEF Routing!Finished
<1>2. DOMAIN routed' = {"signals", "run"} /\ routed'.signals = signals1 /\ routed'.run = [routed.run EXCEPT !["t1"] = r1]
  <2> HIDE DEF signals1, r1
  <2> QED BY <1>1
<1>3. DOMAIN routed'.run = {"t1"} /\ routed'.run["t1"] = r1
  BY <1>2 DEF RoutingInv
<1>4. IsFiniteSet(signals1)
  <2>1. kept \in SUBSET routed.signals /\ IsFiniteSet(routed.signals)
    BY DEF RoutingInv
  <2> HIDE DEF kept, signal
  <2> QED BY <2>1, FS_Subset, FS_AddElement
<1>5. /\ DOMAIN r1 = RunFields /\ r1.phase = phase1 /\ r1.route = r.route /\ r1.at = r.at
      /\ r1.executions = r.executions /\ r1.fallbacks = r.fallbacks /\ r1.moved = r.moved /\ r1.answered = r.answered
  BY DEF RunTypeOK, RunFields
<1>6. RunTypeOK(r1) /\ Placed(r1) /\ RunsLedTo(r1)
  <2> HIDE DEF r1
  <2> QED BY <1>5 DEF RunTypeOK, Placed, AllAllowed, RunsLedTo, RoutePhases
<1>7. CreditDue(r1, signals1)
  <2>1. CASE success /\ ~r.moved
    <3>1. credited = r.answered
      <4>1. r.executions # <<>>
        BY <2>1
      <4> QED BY <2>1, <4>1 DEF Routing!Credited, Routing!Last
    <3>2. signal.task = "t1" /\ signal.model = r.answered /\ signal.success = TRUE
      BY <2>1, <3>1
    <3>3. \A q \in kept : q.task = "t1" => q.model # r.answered /\ ~q.success
      BY <3>1 DEF OnlyFailures
    <3> HIDE DEF r1, kept, signal
    <3>4. \A q \in signals1 : q.task = "t1" => (q.success <=> q.model = r.answered)
      BY <3>2, <3>3
    <3>5. \E q \in signals1 : q.task = "t1" /\ q.model = r.answered
      BY <3>2
    <3> HIDE DEF signals1
    <3>6. r1.phase = "done"
      BY <1>5, <2>1
    <3> QED BY <3>4, <3>5, <3>6, <1>5 DEF CreditDue, Deserved
  <2>2. CASE success /\ r.moved
    <3> HIDE DEF r1, signals1
    <3>1. r1.phase = "done" /\ r1.moved
      BY <1>5, <2>2
    <3> QED BY <3>1 DEF CreditDue, Deserved
  <2>3. CASE ~success
    <3>1. signal.success = FALSE
      BY <2>3
    <3>2. OnlyFailures(kept)
      BY DEF OnlyFailures
    <3> HIDE DEF r1, kept, signal
    <3>3. OnlyFailures(signals1)
      BY <3>1, <3>2 DEF OnlyFailures
    <3> HIDE DEF signals1
    <3>4. r1.phase = "failed"
      BY <1>5, <2>3
    <3> QED BY <3>3, <3>4 DEF CreditDue, Deserved
  <2> QED BY <2>1, <2>2, <2>3
<1> HIDE DEF r1, signals1
<1> QED BY <1>2, <1>3, <1>4, <1>6, <1>7 DEF RoutingInv, RunInv

LEMMA RoutingAnswer ==
  ASSUME RoutingInv, NEW id \in RunIds, Routing!Answer("t1", id)
  PROVE  RoutingInv'
<1>1. PICK r : r = routed.run["t1"]
  OBVIOUS
<1>2. PICK signals : signals = routed.signals
  OBVIOUS
<1>3. RunInv(r, signals) /\ r.phase \in {"plan", "propose"}
  BY <1>1, <1>2 DEF RoutingInv, Routing!Answer, Routing!Trying
<1>4. RunTypeOK(r) /\ Placed(r) /\ RunsLedTo(r) /\ CreditDue(r, signals) /\ r.at \in 1 .. Len(r.route.candidates)
  BY <1>3 DEF RunInv, Placed
<1> DEFINE model == r.route.candidates[r.at]
           new == Routing!Recorded(r, id)
           phase1 == IF r.phase = "plan" THEN "propose" ELSE "work"
           moved1 == IF r.phase = "plan" THEN FALSE ELSE Routing!MovedBack(r.executions, id)
           r1 == [r EXCEPT !.phase = phase1, !.at = 1, !.executions = new, !.answered = model, !.moved = moved1]
<1>5. routed' = [routed EXCEPT !.run["t1"] = r1]
  BY <1>1 DEF Routing!Answer, Routing!Candidate
<1>6. /\ DOMAIN r1 = RunFields /\ r1.phase = phase1 /\ r1.route = r.route /\ r1.at = 1
      /\ r1.executions = new /\ r1.answered = model /\ r1.moved = moved1 /\ r1.fallbacks = r.fallbacks
  <2> HIDE DEF phase1, new, model, moved1
  <2> QED BY <1>4 DEF RunTypeOK, RunFields
<1>7. /\ new \in Seq(ModelRuns) /\ Len(new) # 0 /\ \A k \in 1 .. Len(new) : LedTo(new[k], r.fallbacks)
      /\ ~Routing!MovedBack(r.executions, id) => new[Len(new)].model = model
  <2>1. \A k \in 1 .. Len(new) : LedTo(new[k], r.fallbacks)
    BY <1>3, <1>4, RunRecorded
  <2> DEFINE x == [id |-> id, model |-> model, route |-> r.route]
  <2>2. /\ new \in Seq(ModelRuns) /\ Len(new) # 0
        /\ ~Routing!MovedBack(r.executions, id) => new[Len(new)] = x
    BY <1>4, RecordedRuns
  <2>3. x.model = model
    OBVIOUS
  <2> HIDE DEF x, new, model
  <2> QED BY <2>1, <2>2, <2>3
<1> HIDE DEF r1, new, model
<1>8. RunTypeOK(r1) /\ Placed(r1) /\ RunsLedTo(r1)
  <2>1. phase1 \in {"propose", "work"}
    OBVIOUS
  <2>2. RunTypeOK(r1)
    BY <1>4, <1>6, <1>7, <2>1 DEF RunTypeOK, RoutePhases
  <2>3. Placed(r1)
    <3>1. 1 \in 1 .. Len(r.route.candidates)
      BY <1>4
    <3>2. 1 .. (1 - 1) \subseteq r.fallbacks
      OBVIOUS
    <3> HIDE DEF phase1
    <3> QED BY <3>1, <3>2, <1>3, <1>4, <1>6 DEF Placed, AllAllowed
  <2>4. RunsLedTo(r1)
    BY <1>6, <1>7 DEF RunsLedTo
  <2> QED BY <2>2, <2>3, <2>4
<1>9. CreditDue(r1, signals)
  <2>1. OnlyFailures(signals)
    BY <1>3, <1>4 DEF CreditDue
  <2>2. r1.phase \in {"propose", "work"} /\ (r1.phase = "work" /\ ~r1.moved => ~Routing!MovedBack(r.executions, id))
    BY <1>3, <1>6
  <2>3. r1.phase = "work" /\ ~r1.moved =>
          Len(r1.executions) # 0 /\ r1.executions[Len(r1.executions)].model = r1.answered
    <3> HIDE DEF phase1, moved1
    <3> QED BY <2>2, <1>6, <1>7
  <2> QED BY <2>1, <2>2, <2>3 DEF CreditDue, Deserved
<1> QED BY <1>2, <1>5, <1>8, <1>9, RoutingMoves DEF RunInv

LEMMA RoutingRework ==
  ASSUME RoutingInv, NEW phase1 \in {"again", "propose"}, Routing!Rework("t1", phase1)
  PROVE  RoutingInv'
<1>1. PICK r : r = routed.run["t1"]
  OBVIOUS
<1>2. PICK signals : signals = routed.signals
  OBVIOUS
<1>3. /\ RunTypeOK(r) /\ Placed(r) /\ RunsLedTo(r) /\ CreditDue(r, signals) /\ r.phase = "work"
  BY <1>1, <1>2 DEF RoutingInv, RunInv, Routing!Rework, Routing!In
<1> DEFINE r1 == [r EXCEPT !.phase = phase1, !.reworks = @ + 1]
<1>4. routed' = [routed EXCEPT !.run["t1"] = r1]
  BY <1>1 DEF Routing!Rework, RoutingInv
<1>5. /\ DOMAIN r1 = RunFields /\ r1.phase = phase1 /\ r1.route = r.route /\ r1.at = r.at
      /\ r1.executions = r.executions /\ r1.answered = r.answered /\ r1.moved = r.moved /\ r1.fallbacks = r.fallbacks
  BY <1>3 DEF RunTypeOK, RunFields
<1> HIDE DEF r1
<1>6. RunTypeOK(r1) /\ RunsLedTo(r1)
  BY <1>3, <1>5 DEF RunTypeOK, RunsLedTo, RoutePhases
<1>7. Placed(r1) /\ CreditDue(r1, signals)
  BY <1>3, <1>5 DEF Placed, AllAllowed, CreditDue, Deserved
<1> QED BY <1>2, <1>4, <1>6, <1>7, RoutingMoves DEF RunInv

\* the next candidate is tried, if there is one
LEMMA RoutingFallsBack ==
  ASSUME RoutingInv, NEW r, RunTypeOK(r), Placed(r), RunsLedTo(r), r.phase \in {"plan", "propose"},
         OnlyFailures(routed.signals), Routing!FallsBack("t1", r)
  PROVE  RoutingInv'
<1>1. CASE r.at < Len(r.route.candidates)
  <2> DEFINE r1 == [r EXCEPT !.at = @ + 1, !.fallbacks = @ \cup {r.at}]
  <2>1. routed' = [routed EXCEPT !.run["t1"] = r1]
    BY <1>1 DEF Routing!FallsBack
  <2>2. /\ DOMAIN r1 = RunFields /\ r1.phase = r.phase /\ r1.route = r.route /\ r1.at = r.at + 1
        /\ r1.executions = r.executions /\ r1.fallbacks = r.fallbacks \cup {r.at}
    BY DEF RunTypeOK, RunFields
  <2> HIDE DEF r1
  <2>3. RunTypeOK(r1) /\ CreditDue(r1, routed.signals)
    BY <2>2 DEF RunTypeOK, CreditDue, Deserved
  <2>4. Placed(r1)
    <3>1. r.at \in 1 .. Len(r.route.candidates) /\ Len(r.route.candidates) \in Nat /\ 1 .. (r.at - 1) \subseteq r.fallbacks
      BY DEF Placed, RunTypeOK, Routes
    <3>2. r.at + 1 \in 1 .. Len(r.route.candidates)
      BY <3>1, <1>1
    <3>3. 1 .. (r.at + 1 - 1) \subseteq r.fallbacks \cup {r.at}
      <4>1. \A k \in 1 .. (r.at + 1 - 1) : k = r.at \/ k \in 1 .. (r.at - 1)
        BY <3>1
      <4> QED BY <4>1, <3>1
    <3> QED BY <3>2, <3>3, <2>2 DEF Placed, AllAllowed
  <2>5. RunsLedTo(r1)
    BY <2>2 DEF RunsLedTo, LedTo
  <2> QED BY <2>1, <2>3, <2>4, <2>5, RoutingMoves DEF RunInv
<1>2. CASE ~(r.at < Len(r.route.candidates))
  <2>1. Routing!Finished("t1", r, FALSE)
    BY <1>2 DEF Routing!FallsBack
  <2>2. AllAllowed(r)
    BY DEF Placed
  <2> QED BY <2>1, <2>2, RoutingFinished
<1> QED BY <1>1, <1>2

LEMMA RoutingUnavailable ==
  ASSUME RoutingInv, Routing!Unavailable("t1")
  PROVE  RoutingInv'
<1>1. PICK r : r = routed.run["t1"]
  OBVIOUS
<1>2. /\ RunTypeOK(r) /\ Placed(r) /\ RunsLedTo(r) /\ r.phase \in {"plan", "propose"}
      /\ OnlyFailures(routed.signals)
  BY <1>1 DEF RoutingInv, RunInv, CreditDue, Routing!Unavailable, Routing!Trying
<1>3. Routing!FallsBack("t1", r)
  BY <1>1 DEF Routing!Unavailable
<1> QED BY <1>2, <1>3, RoutingFallsBack

LEMMA RoutingFails ==
  ASSUME RoutingInv, Routing!Fatal("t1") \/ Routing!GiveUp("t1")
  PROVE  RoutingInv'
<1>1. PICK r : r = routed.run["t1"]
  OBVIOUS
<1>2. RunTypeOK(r) /\ AllAllowed(r) /\ RunsLedTo(r) /\ OnlyFailures(routed.signals)
  BY <1>1 DEF RoutingInv, RunInv, Placed, CreditDue, Routing!Fatal, Routing!GiveUp, Routing!Trying, Routing!In
<1>3. Routing!Finished("t1", r, FALSE)
  BY <1>1 DEF Routing!Fatal, Routing!GiveUp
<1> QED BY <1>2, <1>3, RoutingFinished

LEMMA RoutingInvalidPlan ==
  ASSUME RoutingInv, Routing!InvalidPlan("t1")
  PROVE  RoutingInv'
<1>1. PICK r : r = routed.run["t1"]
  OBVIOUS
<1>2. /\ RunTypeOK(r) /\ Placed(r) /\ RunsLedTo(r) /\ r.phase = "plan"
      /\ OnlyFailures(routed.signals)
  BY <1>1 DEF RoutingInv, RunInv, CreditDue, Routing!InvalidPlan, Routing!In
<1> DEFINE new == Routing!Recorded(r, "plan")
           model == r.route.candidates[r.at]
           r1 == [r EXCEPT !.executions = new, !.answered = model]
<1>3. Routing!Finished("t1", r1, FALSE) \/ Routing!FallsBack("t1", r1)
  BY <1>1 DEF Routing!InvalidPlan, Routing!Candidate
<1>4. new \in Seq(ModelRuns) /\ \A k \in 1 .. Len(new) : LedTo(new[k], r.fallbacks)
  <2>1. "plan" \in RunIds /\ r.at \in 1 .. Len(r.route.candidates)
    BY <1>2 DEF RunIds, Placed
  <2>2. \A k \in 1 .. Len(new) : LedTo(new[k], r.fallbacks)
    BY <2>1, <1>2, RunRecorded
  <2> QED BY <2>1, <2>2, <1>2, RecordedRuns
<1> HIDE DEF new, model
<1>5. /\ DOMAIN r1 = RunFields /\ r1.phase = r.phase /\ r1.route = r.route /\ r1.at = r.at
      /\ r1.executions = new /\ r1.moved = r.moved /\ r1.fallbacks = r.fallbacks
  BY <1>2 DEF RunTypeOK, RunFields
<1> HIDE DEF r1
<1>6. RunTypeOK(r1) /\ RunsLedTo(r1) /\ Placed(r1) /\ AllAllowed(r1)
  BY <1>2, <1>4, <1>5 DEF RunTypeOK, RunsLedTo, Placed, AllAllowed
<1>7. r1.phase \in {"plan", "propose"}
  BY <1>2, <1>5
<1>8. CASE Routing!Finished("t1", r1, FALSE)
  BY <1>2, <1>6, <1>8, RoutingFinished
<1>9. CASE Routing!FallsBack("t1", r1)
  BY <1>2, <1>6, <1>7, <1>9, RoutingFallsBack
<1> QED BY <1>3, <1>8, <1>9

\* A failed task starts again, with a new runner or the one that selected its models.
LEMMA RoutingRetry ==
  ASSUME RoutingInv, Routing!Retry("t1")
  PROVE  RoutingInv'
<1>1. PICK q : q = routed.run["t1"]
  OBVIOUS
<1>2. /\ RunTypeOK(q) /\ Placed(q) /\ RunsLedTo(q) /\ OnlyFailures(routed.signals)
  BY <1>1 DEF RoutingInv, RunInv, CreditDue, Routing!Retry, Routing!In
<1> DEFINE r == [q EXCEPT !.at = 1, !.reworks = @ + 1]
           fresh == [r EXCEPT !.phase = "new", !.way = Routing!NoWay, !.route = Routing!NoRoute]
           again == [r EXCEPT !.phase = "again"]
<1>3. /\ DOMAIN r = RunFields /\ r.route = q.route /\ r.at = 1
      /\ r.executions = q.executions /\ r.fallbacks = q.fallbacks
  BY <1>2 DEF RunTypeOK, RunFields
<1>4. \/ routed' = [routed EXCEPT !.run["t1"] = fresh]
      \/ routed' = [routed EXCEPT !.run["t1"] = again] /\ q.route.candidates # <<>>
  <2>1. r.route.candidates = q.route.candidates
    BY <1>3
  <2> QED BY <1>1, <2>1 DEF Routing!Retry
<1> HIDE DEF r
<1>5. /\ DOMAIN fresh = RunFields /\ fresh.phase = "new" /\ fresh.route = Routing!NoRoute /\ fresh.at = 1
      /\ fresh.executions = q.executions /\ fresh.fallbacks = q.fallbacks
  BY <1>3 DEF RunFields
<1>6. /\ DOMAIN again = RunFields /\ again.phase = "again" /\ again.route = q.route /\ again.at = 1
      /\ again.executions = q.executions /\ again.fallbacks = q.fallbacks
  BY <1>3 DEF RunFields
<1> HIDE DEF fresh, again
<1>7. CASE routed' = [routed EXCEPT !.run["t1"] = fresh]
  <2>1. RunTypeOK(fresh) /\ RunsLedTo(fresh) /\ Placed(fresh)
    BY <1>2, <1>5 DEF RunTypeOK, RoutePhases, RunsLedTo, Placed, AllAllowed, Routes, Routing!NoRoute
  <2>2. CreditDue(fresh, routed.signals)
    BY <1>2, <1>5 DEF CreditDue, Deserved
  <2> QED BY <2>1, <2>2, <1>7, RoutingMoves DEF RunInv
<1>8. CASE routed' = [routed EXCEPT !.run["t1"] = again] /\ q.route.candidates # <<>>
  <2>1. RunTypeOK(again) /\ RunsLedTo(again) /\ AllAllowed(again)
    BY <1>2, <1>6 DEF RunTypeOK, RoutePhases, RunsLedTo, Placed, AllAllowed
  <2>2. Len(q.route.candidates) \in Nat /\ Len(q.route.candidates) # 0
    BY <1>2, <1>8 DEF RunTypeOK, Routes
  <2>3. 1 \in 1 .. Len(again.route.candidates) /\ 1 .. (1 - 1) \subseteq again.fallbacks
    BY <1>6, <2>2
  <2>4. Placed(again)
    BY <2>1, <2>3, <1>6 DEF Placed
  <2>5. CreditDue(again, routed.signals)
    BY <1>2, <1>6 DEF CreditDue, Deserved
  <2> QED BY <2>1, <2>4, <2>5, <1>8, RoutingMoves DEF RunInv
<1> QED BY <1>4, <1>7, <1>8

LEMMA RoutingComplete ==
  ASSUME RoutingInv, Routing!Complete("t1")
  PROVE  RoutingInv'
<1>1. PICK r : r = routed.run["t1"]
  OBVIOUS
<1>2. RunTypeOK(r) /\ RunsLedTo(r) /\ AllAllowed(r) /\ CreditDue(r, routed.signals) /\ r.phase = "work"
  BY <1>1 DEF RoutingInv, RunInv, Placed, Routing!Complete, Routing!In
<1>3. Routing!Finished("t1", r, TRUE)
  BY <1>1 DEF Routing!Complete
<1>4. OnlyFailures(routed.signals) /\ Deserved(r)
  BY <1>2 DEF CreditDue
<1> QED BY <1>2, <1>3, <1>4, RoutingFinished DEF Deserved

LEMMA RoutingSelect ==
  ASSUME RoutingInv, NEW way \in Routing!Ways, NEW room \in {{1, 2, 3}, {2, 3}},
         NEW answer \in {<<2, 1>>} \cup {<<>>}, Routing!Select("t1", way, room, answer)
  PROVE  RoutingInv'
<1>1. PICK r : r = routed.run["t1"]
  OBVIOUS
<1>2. PICK signals : signals = routed.signals
  OBVIOUS
<1>3. /\ RunTypeOK(r) /\ Placed(r) /\ RunsLedTo(r) /\ CreditDue(r, signals) /\ r.phase \in {"new", "again"}
      /\ IsFiniteSet(signals)
  BY <1>1, <1>2 DEF RoutingInv, RunInv, Routing!Select, Routing!In
<1> DEFINE fitting == {m \in room : Routing!Fits(m, way.reasoning) /\ Routing!Affordable(m, way.budget)}
           route == CASE way.by = "name" -> [candidates |-> <<way.model>>, allowed |-> {way.model}]
                      [] way.by = "cx" /\ answer # <<>> -> [candidates |-> answer, allowed |-> Routing!ToSet(answer)]
                      [] OTHER -> [candidates |-> Routing!Selected(signals, way, room), allowed |-> fitting]
<1>4. /\ route \in Routes
      /\ \A k \in 1 .. Len(route.candidates) : route.candidates[k] \in route.allowed
  <2>1. CASE way.by = "name"
    <3>1. way.model \in RoutedModels
      BY <2>1 DEF Routing!Ways, RoutedModels
    <3>2. route = [candidates |-> <<way.model>>, allowed |-> {way.model}]
      BY <2>1
    <3> HIDE DEF route
    <3> QED BY <3>1, <3>2 DEF Routes
  <2>2. CASE way.by # "name" /\ way.by = "cx" /\ answer # <<>>
    <3>1. answer \in Seq(RoutedModels)
      <4>1. 1 \in RoutedModels /\ 2 \in RoutedModels
        BY DEF RoutedModels, Known
      <4>2. <<2, 1>> \in Seq(RoutedModels)
        BY <4>1
      <4> QED BY <4>2, <2>2
    <3>2. route = [candidates |-> answer, allowed |-> Routing!ToSet(answer)]
      BY <2>2
    <3>3. \A k \in 1 .. Len(answer) : answer[k] \in Routing!ToSet(answer) /\ answer[k] \in RoutedModels
      BY <3>1 DEF Routing!ToSet
    <3>4. Routing!ToSet(answer) \in SUBSET RoutedModels
      BY <3>1 DEF Routing!ToSet
    <3> HIDE DEF route
    <3> QED BY <3>1, <3>2, <3>3, <3>4 DEF Routes
  <2>3. CASE way.by # "name" /\ ~(way.by = "cx" /\ answer # <<>>)
    <3>1. Routing!Selected(signals, way, room) \in Seq(fitting)
      BY <1>3, SelectedKeeps
    <3>2. fitting \in SUBSET RoutedModels
      BY RoomsKnown DEF RoutedModels
    <3>3. route = [candidates |-> Routing!Selected(signals, way, room), allowed |-> fitting]
      BY <2>3
    <3> HIDE DEF route, fitting
    <3>4. Routing!Selected(signals, way, room) \in Seq(RoutedModels)
      BY <3>1, <3>2
    <3> QED BY <3>1, <3>2, <3>3, <3>4 DEF Routes
  <2> QED BY <2>1, <2>2, <2>3
<1>5. CASE route.candidates # <<>>
  <2> DEFINE r1 == [r EXCEPT !.phase = "plan", !.way = way, !.route = route]
  <2>1. routed' = [routed EXCEPT !.run["t1"] = r1]
    BY <1>1, <1>2, <1>5 DEF Routing!Select
  <2> HIDE DEF route
  <2>2. /\ DOMAIN r1 = RunFields /\ r1.phase = "plan" /\ r1.route = route /\ r1.at = r.at
        /\ r1.executions = r.executions /\ r1.answered = r.answered /\ r1.moved = r.moved
        /\ r1.fallbacks = r.fallbacks
    BY <1>3 DEF RunTypeOK, RunFields
  <2> HIDE DEF r1
  <2>3. RunTypeOK(r1) /\ CreditDue(r1, signals) /\ RunsLedTo(r1)
    BY <1>3, <1>4, <2>2 DEF RunTypeOK, CreditDue, Deserved, RunsLedTo, RoutePhases
  <2>4. Placed(r1)
    <3>1. r.at = 1
      BY <1>3 DEF Placed
    <3>2. Len(route.candidates) \in Nat /\ Len(route.candidates) # 0
      BY <1>4, <1>5 DEF Routes
    <3>3. 1 \in 1 .. Len(route.candidates) /\ 1 .. (1 - 1) \subseteq r.fallbacks
      BY <3>2
    <3> QED BY <3>1, <3>3, <1>4, <2>2 DEF Placed, AllAllowed
  <2> QED BY <1>2, <2>1, <2>3, <2>4, RoutingMoves DEF RunInv
<1>6. CASE route.candidates = <<>> /\ r.phase = "new"
  <2> DEFINE r1 == [r EXCEPT !.phase = "failed"]
  <2>1. routed' = [routed EXCEPT !.run["t1"] = r1]
    BY <1>1, <1>2, <1>6 DEF Routing!Select, RoutingInv
  <2> HIDE DEF route
  <2>2. /\ DOMAIN r1 = RunFields /\ r1.phase = "failed" /\ r1.route = r.route /\ r1.at = r.at
        /\ r1.executions = r.executions /\ r1.fallbacks = r.fallbacks
    BY <1>3 DEF RunTypeOK, RunFields
  <2> HIDE DEF r1
  <2>3. RunTypeOK(r1) /\ CreditDue(r1, signals) /\ RunsLedTo(r1) /\ Placed(r1)
    BY <1>3, <2>2 DEF RunTypeOK, CreditDue, Deserved, RunsLedTo, RoutePhases, Placed, AllAllowed
  <2> QED BY <1>2, <2>1, <2>3, RoutingMoves DEF RunInv
<1>7. CASE route.candidates = <<>> /\ r.phase # "new"
  <2>1. Routing!Finished("t1", r, FALSE)
    BY <1>1, <1>2, <1>7 DEF Routing!Select
  <2> HIDE DEF route
  <2>2. AllAllowed(r) /\ OnlyFailures(routed.signals)
    BY <1>2, <1>3 DEF Placed, CreditDue
  <2> QED BY <2>1, <2>2, <1>3, RoutingFinished
<1> QED BY <1>5, <1>6, <1>7

LEMMA RoutingNext == RoutingInv /\ Routing!Next => RoutingInv'
BY RoutingAnswer, RoutingRework, RoutingUnavailable, RoutingFails, RoutingInvalidPlan, RoutingComplete, RoutingSelect,
   RoutingRetry
   DEF Routing!Next, RunIds

LEMMA CreditFollows == RoutingInv => Routing!SuccessCredited
BY DEF RoutingInv, RunInv, CreditDue, Routing!SuccessCredited

LEMMA RunsFollow == RoutingInv => Routing!RunsJustified
<1> SUFFICES ASSUME RoutingInv, NEW e \in Routing!ToSet(routed.run["t1"].executions)
             PROVE  /\ e.model \in e.route.allowed
                    /\ \E k \in DOMAIN e.route.candidates :
                          e.route.candidates[k] = e.model /\ 1 .. (k - 1) \subseteq routed.run["t1"].fallbacks
  BY DEF Routing!RunsJustified
<1> DEFINE E == routed.run["t1"].executions
<1>1. E \in Seq(ModelRuns) /\ RunsLedTo(routed.run["t1"])
  BY DEF RoutingInv, RunInv, RunTypeOK
<1>2. PICK i \in 1 .. Len(E) : e = E[i]
  BY <1>1 DEF Routing!ToSet
<1>3. e \in ModelRuns /\ LedTo(e, routed.run["t1"].fallbacks)
  BY <1>1, <1>2 DEF RunsLedTo
<1>4. DOMAIN e.route.candidates = 1 .. Len(e.route.candidates)
  BY <1>3 DEF ModelRuns, Routes
<1> QED BY <1>3, <1>4 DEF LedTo

\* --------------------------------------------------------------- the decisions
IInv ==
    /\ topic = "verifying"  => VerifyingInv
    /\ topic = "autonomy"   => AutonomyInv
    /\ topic = "sandboxing" => BoxInv
    /\ topic = "planning"   => PlanningInv
    /\ topic = "routing"    => RoutingInv
    /\ topic = "learning"   => LearningInv
    /\ topic = "indexing"   => IndexInv

LEMMA VerifyingUnchanged == VerifyingInv /\ UNCHANGED verification => VerifyingInv'
<1> SUFFICES ASSUME VerifyingInv, UNCHANGED verification PROVE VerifyingInv'
  OBVIOUS
<1>1. UNCHANGED <<requested, risky, manifest, phase, selected, detected, layer, trusted, status, runs, passed, rewrites>>
  BY DEF verification
<1>2. VerifyingTypeOK' /\ AllAsked'
  BY <1>1 DEF VerifyingInv, VerifyingTypeOK, AllAsked
<1>3. Ran' /\ NoneSkipped'
  BY <1>1 DEF VerifyingInv, Ran, NoneSkipped, Behind, Finished, Verifying!Group, Verifying!RunPassed
<1>4. Concluded'
  <2>1. Verifying!HardFailures' = Verifying!HardFailures
    BY <1>1 DEF Verifying!HardFailures
  <2> QED BY <1>1, <2>1 DEF VerifyingInv, Concluded
<1> QED BY <1>2, <1>3, <1>4 DEF VerifyingInv

LEMMA AutonomyUnchanged == AutonomyInv /\ UNCHANGED auto => AutonomyInv'
BY DEF AutonomyInv, WithinBudget, Reviewed

LEMMA BoxUnchanged == BoxInv /\ UNCHANGED boxed => BoxInv'
BY DEF BoxInv, BoxTypeOK, Located, Preserved, Kept, Holds, Sandboxing!Newest

LEMMA DecisionsInit == Init => IInv
BY VerifyingInit, AutonomyInit, BoxInit, PlanningInit, RoutingInit, LearningInit, IndexInit DEF Init, IInv

LEMMA DecisionsStep == IInv /\ [Next]_vars => IInv'
<1> SUFFICES ASSUME IInv, [Next]_vars PROVE IInv'
  OBVIOUS
<1>1. CASE topic = "verifying" /\ Verifying!Next /\ topic' = topic
  BY <1>1, VerifyingNext DEF IInv
<1>2. CASE topic = "autonomy" /\ Autonomy!Next /\ topic' = topic
  BY <1>2, AutonomyNext DEF IInv
<1>3. CASE topic = "sandboxing" /\ Sandboxing!Next /\ topic' = topic
  BY <1>3, BoxNext DEF IInv
<1>4. CASE topic = "planning" /\ Planning!Next /\ topic' = topic
  BY <1>4, PlanningNext DEF IInv
<1>5. CASE topic = "routing" /\ Routing!Next /\ topic' = topic
  BY <1>5, RoutingNext DEF IInv
<1>6. CASE topic = "learning" /\ Learning!Next /\ topic' = topic
  BY <1>6, LearningNext DEF IInv
<1>7. CASE topic = "indexing" /\ Indexing!Next /\ topic' = topic
  BY <1>7, IndexNext DEF IInv
<1>8. CASE UNCHANGED <<topic, auto, boxed, planned, routed, learned, indexed, verification>>
  BY <1>8, VerifyingUnchanged, AutonomyUnchanged, BoxUnchanged, PlanningUnchanged, RoutingUnchanged,
     LearningUnchanged, IndexUnchanged DEF IInv
<1> QED BY <1>1, <1>2, <1>3, <1>4, <1>5, <1>6, <1>7, <1>8 DEF Next, vars

\* The inductive invariant holds in every behaviour: a verification has run what it has
\* passed, an execution stays within its budget and what it completes was reviewed, the
\* workspace of a sandbox, or the newest snapshot of a lost one, holds the work, what is stored
\* of a plan was validated, a task not yet done has left only failures to its models, each
\* task's prediction is known to be its own or crossed, and an index is what was walked.
THEOREM DecisionsInvariant == Spec => []IInv
<1> QED BY DecisionsInit, DecisionsStep, PTL DEF Spec

\* Every layer is run to its end; a passed verdict hides no required step of the syntax, type
\* and broadest layers that failed and, for a risky change, leaves out nothing trusted, for any
\* number of steps and rewrites of the manifest; it does not mean that anything ran, since
\* optional steps may all be denied (runLayeredVerification, runVerification).
THEOREM VerdictIsSound == Spec => []VerdictSound
<1>1. IInv => VerdictSound
  BY VerdictFollows DEF IInv, VerdictSound
<1> QED BY DecisionsInvariant, <1>1, PTL

\* What completes without a user passed its verification with every assumption of its plan
\* confirmed, reached no further than predicted unless the verification overran its time, and
\* kept to the budget, after any number of attempts (runner.ts 161-197, review.ts 8-16).
THEOREM ReviewedCompletion == Spec => []CompletedAsReviewed
<1>1. IInv => CompletedAsReviewed
  BY ReviewFollows DEF IInv, CompletedAsReviewed
<1> QED BY DecisionsInvariant, <1>1, PTL

\* Who has to ask for one change has to ask for every riskier one, and so has every more
\* careful mode (risk.ts 5-21, policy.ts 4-9).
THEOREM RiskierAsks == Spec => []RiskierAsksMore
<1>1. IInv => RiskierAsksMore
  BY RiskFollows DEF IInv, RiskierAsksMore
<1> QED BY DecisionsInvariant, <1>1, PTL

\* A run of a resumed sandbox works on what was last written there or, if that was lost, on
\* the newest snapshot; a destroyed sandbox has left no workspace (sandbox-manager.ts 25-47).
THEOREM WorkIsKept == Spec => []KeptWork
<1>1. IInv => KeptWork
  BY WorkKept DEF IInv, KeptWork
<1> QED BY DecisionsInvariant, <1>1, PTL

\* A plan that validation passes can be put in an order that respects its dependencies, has
\* its own id and evidence for each step, and asks for nothing the agent may not do: the walk
\* that finds no step it is still visiting rules out every cycle (validate-plan.ts 11-40).
THEOREM AcceptedPlansAreSound == Spec => []AcceptedIsSound
<1>1. IInv => AcceptedIsSound
  BY SoundFollows DEF IInv, AcceptedIsSound
<1> QED BY DecisionsInvariant, <1>1, PTL

\* Each tool call of a plan keeps its start, its outcome and its evidence in memory through all
\* later calls, whatever an earlier plan left under the same ids and however often the task is
\* planned, unless a call of the same plan was denied (executor.ts 18-35, 49-51).
THEOREM CallsAreRecorded == Spec => []CallsRecorded
<1>1. IInv => CallsRecorded
  BY CallsFollow DEF IInv, CallsRecorded
<1> QED BY DecisionsInvariant, <1>1, PTL

\* The success of a task is credited to the model whose proposal was delivered and to no other,
\* whichever candidates failed before it and however often it was repaired, planned again or
\* started again; the failures of earlier tries stay with their models.  A proposal that took an
\* older one's id is excepted (runner.ts 110-116, 299-302, fallback.ts 13-26).
THEOREM SuccessIsCredited == Spec => []SuccessCredited
<1>1. IInv => SuccessCredited
  BY CreditFollows DEF IInv, SuccessCredited
<1> QED BY DecisionsInvariant, <1>1, PTL

\* Every model that ran was allowed by the selection that chose it, and stored fallbacks lead
\* to it: ordering the candidates by score, price or success neither adds nor loses one
\* (candidate-builder.ts 38-47, model-selector.ts 11-28, fallback.ts 15-23).
THEOREM RunsAreJustified == Spec => []RunsJustified
<1>1. IInv => RunsJustified
  BY RunsFollow DEF IInv, RunsJustified
<1> QED BY DecisionsInvariant, <1>1, PTL

\* What a finished task changed, and the verdict on each file, is stored under that task,
\* whichever tasks share its prediction and however often it failed and was started again, as
\* long as no resume has taken up a record another task has overwritten (feedback.ts 4-13,
\* runner.ts 138, 147, 299-304).
THEOREM FeedbackIsFiled == Spec => []FeedbackFiled
<1>1. IInv => FeedbackFiled
  BY FiledFollows DEF IInv, FeedbackFiled
<1> QED BY DecisionsInvariant, <1>1, PTL

\* A prediction of a file that proves wrong never makes the file look more likely, to a task of
\* any type, once outcomes count as evidence and more than one observation stands behind it,
\* whatever was learned before (analyze-impact.ts 54-97).
THEOREM MissesNeverRaise == Spec => []LaterMissesNeverRaise
<1>1. IInv => LaterMissesNeverRaise
  BY MissFollows DEF IInv, LaterMissesNeverRaise
<1> QED BY DecisionsInvariant, <1>1, PTL

\* A finished index is the graph of the tree, in whatever order the tree was listed: the files
\* that can be reached, each import linked to a file it may mean whenever there is one, and to
\* the one it spells, each test tied to a file it is named after, and no edge to anything that
\* is not indexed (discover-files.ts 53-85, extract-symbols.ts 28-90, 169-181).
THEOREM ImportsAreReached == Spec => []ImportsReachTheirFile
<1>1. IInv => ImportsReachTheirFile
  BY IndexFollows DEF IInv, ImportsReachTheirFile
<1> QED BY DecisionsInvariant, <1>1, PTL
=============================================================================
