------------------------ MODULE LayeredVerification ------------------------
(***************************************************************************)
(* runLayeredVerification of packages/agent/src/autonomy/verification.ts   *)
(* and the runVerification it calls for every layer (verification/         *)
(* runner.ts, policy.ts): the steps of a proposal, and for risky work the  *)
(* trusted scripts it left out, run from the narrow layers to the broad.   *)
(* The proposal says which of its steps are required; the manifest says    *)
(* which commands are trusted, and is read again for every layer.          *)
(***************************************************************************)
EXTENDS Integers, Sequences, FiniteSets

CONSTANTS
    Commands,     \* what a step may ask for: the trusted names, and others
    MaxRequested, \* bound: steps of a proposal
    MaxRewrites   \* bound: changes of the manifest during the verification

VARIABLES
    requested, risky,   \* the arguments: steps, and a high or critical risk
    manifest,    \* the trusted commands package.json names now
    phase,       \* "select", "layer", "steps", "conclude", "done" or "threw"
    selected, detected,   \* the steps to run; what was trusted when they were chosen
    layer,       \* the layer of the last run, 0 before the first
    trusted,     \* the manifest as this layer's run read it
    status,      \* of every selected step: "none", "passed", "failed" or "denied"
    runs,        \* the runs so far: scope and verdict
    passed,      \* final.passed
    rewrites

vars == <<requested, risky, manifest, phase, selected, detected, layer, trusted,
          status, runs, passed, rewrites>>

TRUSTED_SCRIPTS == <<"test", "typecheck", "lint", "build">>
order == <<"syntax", "type", "targeted", "affected", "package", "full">>
Hard  == {"syntax", "type"}

\* scopeOf looks for words in id, command and purpose, the narrow layers' first;
\* id and purpose are the proposal's to choose.
scopeOf(command) ==
    CASE command = "lint"      -> {"syntax"}
      [] command = "typecheck" -> {"syntax", "type"}
      [] command = "test"      -> {"syntax", "type", "targeted"}
      [] command = "build"     -> {"syntax", "type", "targeted", "package"}
      [] OTHER                 -> {"syntax", "type", "targeted", "package", "affected"}

Steps ==
    {s \in [command : Commands, scope : {order[k] : k \in 1 .. Len(order)}, required : BOOLEAN] :
        s.scope \in scopeOf(s.command)}

\* A step detectVerificationCommands makes of a script.
Detected(command) ==
    [command  |-> command,
     scope    |-> CASE command = "test" -> "targeted" [] command = "typecheck" -> "type"
                    [] command = "lint" -> "syntax"   [] command = "build" -> "package",
     required |-> command \in {"test", "typecheck"}]

Scripts == {TRUSTED_SCRIPTS[k] : k \in 1 .. Len(TRUSTED_SCRIPTS)}

Init ==
    /\ requested \in UNION {[1 .. n -> Steps] : n \in 0 .. MaxRequested}
    /\ risky \in BOOLEAN
    /\ manifest \in SUBSET (Scripts \cap Commands)
    /\ phase = "select" /\ selected = <<>> /\ detected = {} /\ layer = 0 /\ trusted = {}
    /\ status = <<>> /\ runs = <<>> /\ passed = FALSE /\ rewrites = 0

Asked(command) == \E k \in 1 .. Len(requested) : requested[k].command = command

\* Mutant of Missing: the proposal's own steps are enough.
MissingNone == <<>>
\* The trusted scripts the proposal does not ask for itself, in their order.
LeftOut(k) ==
    IF risky /\ TRUSTED_SCRIPTS[k] \in manifest /\ ~Asked(TRUSTED_SCRIPTS[k])
    THEN <<TRUSTED_SCRIPTS[k]>> ELSE <<>>
Missing == LeftOut(1) \o LeftOut(2) \o LeftOut(3) \o LeftOut(4)

Select ==
    /\ phase = "select"
    /\ selected' = requested \o [k \in 1 .. Len(Missing) |-> Detected(Missing[k])]
    /\ detected' = manifest
    /\ status' = [k \in 1 .. Len(selected') |-> "none"]
    /\ phase' = "layer"
    /\ UNCHANGED <<requested, risky, manifest, layer, trusted, runs, passed, rewrites>>
-----------------------------------------------------------------------------
Group(scope) == {k \in 1 .. Len(selected) : selected[k].scope = scope}
Left(scope)  == {k \in Group(scope) : status[k] = "none"}

Ahead == {k \in layer + 1 .. Len(order) : Group(order[k]) /= {}}

\* The next layer that has steps; its run reads the manifest.
Layer ==
    /\ phase = "layer" /\ Ahead /= {}
    /\ layer' \in Ahead /\ \A k \in Ahead : layer' <= k
    /\ trusted' = manifest
    /\ phase' = "steps"
    /\ UNCHANGED <<requested, risky, manifest, selected, detected, status, runs, passed, rewrites>>

\* The next step of the run: denied, or executed; an executor may throw.
Step ==
    /\ phase = "steps"
    /\ \E k \in Left(order[layer]) :
        /\ \A other \in Left(order[layer]) : k <= other
        /\ \/ /\ \/ selected[k].command \notin trusted /\ status' = [status EXCEPT ![k] = "denied"]
                 \/ /\ selected[k].command \in trusted
                    /\ \E s \in {"passed", "failed"} : status' = [status EXCEPT ![k] = s]
              /\ UNCHANGED phase
           \/ /\ selected[k].command \in trusted
              /\ phase' = "threw" /\ UNCHANGED status
    /\ UNCHANGED <<requested, risky, manifest, selected, detected, layer, trusted, runs, passed, rewrites>>

RunPassed(scope) ==
    \A k \in Group(scope) : status[k] = "passed" \/ ~selected[k].required

\* The run's verdict; a failed layer escalates to the next one. The mutant stops.
StopsAfterFailure ==
    /\ phase = "steps" /\ Left(order[layer]) = {}
    /\ runs' = Append(runs, [scope |-> order[layer], passed |-> RunPassed(order[layer])])
    /\ phase' = IF RunPassed(order[layer]) THEN "layer" ELSE "conclude"
    /\ UNCHANGED <<requested, risky, manifest, selected, detected, layer, trusted, status, passed, rewrites>>
EndOfLayer ==
    /\ phase = "steps" /\ Left(order[layer]) = {}
    /\ runs' = Append(runs, [scope |-> order[layer], passed |-> RunPassed(order[layer])])
    /\ phase' = "layer"
    /\ UNCHANGED <<requested, risky, manifest, selected, detected, layer, trusted, status, passed, rewrites>>

\* Without any step there is one run all the same, of nothing, that fails.
Layered ==
    /\ phase = "layer" /\ Ahead = {}
    /\ runs' = IF runs = <<>> THEN <<[scope |-> "targeted", passed |-> FALSE]>> ELSE runs
    /\ phase' = "conclude"
    /\ UNCHANGED <<requested, risky, manifest, selected, detected, layer, trusted, status, passed, rewrites>>

\* Mutant of HardFailures: only the last run counts.
HardFailuresMasked == {}
HardFailures == {k \in 1 .. Len(runs) : runs[k].scope \in Hard /\ ~runs[k].passed}

\* The last run speaks for all, except that a syntax or type failure stands.
Conclude ==
    /\ phase = "conclude"
    /\ passed' = (runs[Len(runs)].passed /\ HardFailures = {})
    /\ phase' = "done"
    /\ UNCHANGED <<requested, risky, manifest, selected, detected, layer, trusted, status, runs, rewrites>>

\* A script that ran, or the user, has rewritten package.json: only what the
\* next layer finds makes a difference.
Rewrite ==
    /\ phase = "layer" /\ rewrites < MaxRewrites
    /\ rewrites' = rewrites + 1
    /\ \E m \in SUBSET (Scripts \cap Commands) \ {manifest} : manifest' = m
    /\ UNCHANGED <<requested, risky, phase, selected, detected, layer, trusted, status, runs, passed>>

Next == Select \/ Layer \/ Step \/ EndOfLayer \/ Layered \/ Conclude \/ Rewrite
Spec == Init /\ [][Next]_vars
-----------------------------------------------------------------------------
Decisive == Hard \cup {runs[Len(runs)].scope}

\* "runs trusted verification from narrow to broad", and "syntax/type failure
\* cannot be masked by broader verification": every layer runs to its end, also
\* after a narrower one failed; and a verdict of passed means that there was a
\* step to run, that every required step of the syntax and type layers and of
\* the broadest layer ran and passed, and that for a high or critical risk every
\* script the manifest named at the start was among them or in a layer between,
\* whatever became of the manifest meanwhile.  It does not mean that anything
\* ran: where these layers have optional steps only, each of them may have been
\* denied (runLayeredVerification, runVerification).
VerdictSound ==
    phase = "done" =>
        /\ \A k \in 1 .. Len(selected) : status[k] /= "none"
        /\ passed =>
            /\ Len(selected) > 0
            /\ \A k \in 1 .. Len(selected) :
                  selected[k].scope \in Decisive /\ selected[k].required => status[k] = "passed"
            /\ risky => \A c \in detected : \E k \in 1 .. Len(selected) : selected[k].command = c

\* The verdict as a reader of "review cannot falsely complete failed, unrelated,
\* or unresolved high-risk work" takes it (reviewExecution looks at nothing but
\* final.passed): no required step failed.
PassedMeansAllRequired ==
    phase = "done" /\ passed =>
        \A k \in 1 .. Len(selected) : selected[k].required => status[k] = "passed"
=============================================================================
