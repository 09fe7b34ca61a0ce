------------------------------ MODULE RuntimeServer ------------------------------
(***************************************************************************)
(* The runtime server seen from an editor: the event stream and the        *)
(* control of a task.  The two share nothing but the process, so that a    *)
(* behaviour is one of the stream or one of a task, as `part' says.        *)
(***************************************************************************)
EXTENDS Integers

CONSTANTS Listeners, MaxEvents, MaxPushes, MaxSubscribes, MaxBreaks, Runs, MaxControls

ASSUME RingSize == MaxEvents \in Nat   \* options.maxEvents

VARIABLES part, server, client, polls, heard, fate,
          session, runner, runs, stored, alive, asked

Stream == INSTANCE EventStream
Task   == INSTANCE TaskSession

streamVars == <<server, client, polls, heard, fate>>
taskVars   == <<session, runner, runs, stored, alive, asked>>
vars       == <<part, streamVars, taskVars>>
Unused == "unused"

Init ==
    \/ /\ part = "stream" /\ Stream!Init
       /\ session = Unused /\ runner = Unused /\ runs = Unused
       /\ stored = Unused /\ alive = Unused /\ asked = Unused
    \/ /\ part = "task" /\ Task!Init
       /\ server = Unused /\ client = Unused /\ polls = Unused /\ heard = Unused /\ fate = Unused

Next ==
    \/ part = "stream" /\ Stream!Next /\ UNCHANGED <<part, taskVars>>
    \/ part = "task" /\ Task!Next /\ UNCHANGED <<part, streamVars>>

Spec == /\ Init /\ [][Next]_vars
        /\ WF_vars(part = "stream" /\ Stream!Working /\ UNCHANGED <<part, taskVars>>)
        /\ WF_vars(part = "task" /\ Task!Working /\ UNCHANGED <<part, streamVars>>)

\* "replays events without duplicates": a listener is given every event once and in order,
\* unless one subscribed while a poll was under way that no timer stands for, which starts
\* a second loop, or a listener threw (client.ts 27-28).
OnceInOrder == part = "stream" => Stream!OnceInOrder

\* What the cursor has passed every listener was given, whatever polls crossed, failed or
\* threw, except the events a full ring had dropped before the poll (server 27, 45; client 28).
NothingSkipped == part = "stream" => Stream!NothingSkipped

\* Lost polls only delay: while nobody disconnects and somebody who subscribed over a
\* connection listens, the cursor reaches every event (client.ts 9-10, 27-28).
CursorCatchesUp ==
    \A o \in 0 .. MaxPushes - 1 :
        (part = "stream" /\ Stream!Owed(o)) ~> (part = "stream" /\ Stream!Reached(o))

\* A pause or cancellation the server accepted takes effect: the task ends up paused, or
\* cancelled, or had ended before, unless it was at rest, another call intervened (GET
\* overwrites the state by which settleTask knows, line 49), start forgot it (runner.ts 242),
\* the process died, the approval was being asked for, which waits for the user, or a resume
\* was accepted before every other run had ended and settled, whose end overwrites the outcome
\* (runtime-server.ts 30, 33, 51-53, runner.ts 314, 326).
ControlsTakeEffect ==
    \A c \in {"pause", "cancel"} :
        (part = "task" /\ Task!Stands(c)) ~> (part = "task" /\ Task!Done(c))

\* Nothing revives a cancelled task: no resume, late approval or settlement of an earlier
\* run works on it again or gives it another checkpoint (runtime-server.ts 33, 53-54), unless
\* the runner accepted a resume before every other run had ended and settled: such a run goes
\* on with the checkpoint it holds (runner.ts 314, 326).
CancelledIsFinal == [][part = "task" => Task!CancelledStays]_vars
=============================================================================
