------------------------------- MODULE EventStream -------------------------------
(***************************************************************************)
(* The event stream between the runtime server (ide/runtime-server.ts) and *)
(* a RuntimeClient (packages/ide/src/client.ts): the server keeps a ring   *)
(* of numbered events, the client polls for those after its cursor.        *)
(*                                                                         *)
(* Node runs one callback at a time: a step below is one callback. A poll  *)
(* is under way from its request to the callback that has its answer; the  *)
(* server may answer in between, and other callbacks may run.              *)
(***************************************************************************)
EXTENDS Integers, Sequences, SequencesExt

CONSTANTS
    Listeners,   \* handlers given to subscribeToEvents
    MaxEvents,   \* options.maxEvents, 2000 by default
    MaxPushes, MaxSubscribes, MaxBreaks   \* bounds: events, subscriptions, troubles

VARIABLES
    server,   \* the first ordinal its ring keeps, the next ordinal, whether a client has connected
    client,   \* its connection, listeners, cursor and timers
    polls,    \* the polls under way: what each asked for and its answer
    heard,    \* per listener: where and whether connected it began, and what it was given
    fate      \* ghosts and bounds

vars == <<server, client, polls, heard, fate>>

Pending == [ok |-> FALSE, done |-> FALSE, events |-> <<>>, cursor |-> 0]
Ended == [ok |-> FALSE, done |-> TRUE, events |-> <<>>, cursor |-> 0]
None == -1   \* the cursor of a client that has seen nothing

Init ==
    /\ server = [first |-> 0, ordinal |-> 0, negotiated |-> FALSE]
    /\ client = [connected |-> FALSE, listeners |-> {}, cursor |-> None,
                 polling |-> "unset", strays |-> 0]
    /\ polls = <<>>
    /\ heard = [l \in Listeners |-> [from |-> None, online |-> FALSE, events |-> <<>>]]
    /\ fate = [subscribes |-> 0, breaks |-> 0, lost |-> {}, crossed |-> FALSE, threw |-> FALSE, parted |-> FALSE]

\* The ordinals of a ring have no gap.
Consecutive(first, last) == [k \in 1 .. last - first + 1 |-> first + k - 1]
Later(m, n) == IF m > n THEN m ELSE n

\* pushEvent: the oldest events leave a full ring.
Push ==
    /\ server.ordinal < MaxPushes
    /\ server' = [server EXCEPT !.ordinal = @ + 1,
                                !.first = Later(@, server.ordinal + 1 - MaxEvents)]
    /\ UNCHANGED <<client, polls, heard, fate>>

\* GET /v1/events: everything after the cursor asked for, or an error before connect.
Answer(i) ==
    LET after  == polls[i].after
        events == Consecutive(Later(after + 1, server.first), server.ordinal - 1)
    IN /\ ~polls[i].answer.done
       /\ polls' = [polls EXCEPT ![i].answer =
              IF server.negotiated
              THEN [ok |-> TRUE, done |-> TRUE, events |-> events,
                    cursor |-> IF events = <<>> THEN after ELSE server.ordinal - 1]
              ELSE Ended]
       /\ fate' = IF server.negotiated
                  THEN [fate EXCEPT !.lost = @ \cup (after + 1 .. server.first - 1)] ELSE fate
       /\ UNCHANGED <<server, client, heard>>

\* The request is lost, or the runtime is gone for a while.
Unanswered(i) ==
    /\ ~polls[i].answer.done /\ fate.breaks < MaxBreaks
    /\ polls' = [polls EXCEPT ![i].answer = Ended]
    /\ fate' = [fate EXCEPT !.breaks = @ + 1]
    /\ UNCHANGED <<server, client, heard>>

\* connect; the runtime counts its client as connected from then on.
Connect ==
    /\ ~client.connected
    /\ client' = [client EXCEPT !.connected = TRUE] /\ server' = [server EXCEPT !.negotiated = TRUE]
    /\ UNCHANGED <<polls, heard, fate>>

\* disconnect clears the timer but leaves the variable that holds it.
Disconnect ==
    /\ client.connected /\ fate.breaks < MaxBreaks
    /\ client' = [client EXCEPT !.connected = FALSE, !.polling = IF @ = "armed" THEN "spent" ELSE @]
    /\ server' = [server EXCEPT !.negotiated = FALSE]
    /\ fate' = [fate EXCEPT !.breaks = @ + 1, !.parted = TRUE]
    /\ UNCHANGED <<polls, heard>>

\* The server keeps one connection for all: another editor's disconnect ends this one's.
OtherDisconnects ==
    /\ server.negotiated /\ fate.breaks < MaxBreaks
    /\ server' = [server EXCEPT !.negotiated = FALSE]
    /\ fate' = [fate EXCEPT !.breaks = @ + 1, !.parted = TRUE]
    /\ UNCHANGED <<client, polls, heard>>

\* A timer still set runs on unnoticed when the variable that holds it changes.
Untracked(c) == IF c.polling = "armed" THEN c.strays + 1 ELSE c.strays

\* poll(): with a connection and a listener it asks for what follows the cursor.
Polls(c) == c.connected /\ c.listeners # {}
PollNow(c) ==
    IF Polls(c) THEN /\ client' = c
                     /\ polls' = Append(polls, [after |-> c.cursor, answer |-> Pending])
                ELSE client' = [c EXCEPT !.polling = "unset", !.strays = Untracked(c)] /\ polls' = polls

\* subscribeToEvents: the first listener starts a poll.
EagerSubscribe(l) ==   \* mutant of Subscribe
    /\ l \notin client.listeners /\ fate.subscribes < MaxSubscribes
    /\ PollNow([client EXCEPT !.listeners = @ \cup {l}])
    /\ heard' = [heard EXCEPT ![l] = [from |-> client.cursor, online |-> client.connected, events |-> <<>>]]
    /\ fate' = [fate EXCEPT !.subscribes = @ + 1,
                            !.crossed = @ \/ (polls # <<>> /\ client.polling = "unset")]
    /\ UNCHANGED server
Subscribe(l) ==
    LET c == [client EXCEPT !.listeners = @ \cup {l}]
    IN /\ l \notin client.listeners /\ fate.subscribes < MaxSubscribes
       /\ IF client.polling = "unset" THEN PollNow(c) ELSE client' = c /\ polls' = polls
       /\ heard' = [heard EXCEPT ![l] = [from |-> client.cursor, online |-> client.connected, events |-> <<>>]]
       /\ fate' = [fate EXCEPT !.subscribes = @ + 1,
                               !.crossed = @ \/ (polls # <<>> /\ client.polling = "unset")]
       /\ UNCHANGED server

\* The last listener to leave stops the timer.
Unsubscribe(l) ==
    /\ l \in client.listeners
    /\ client' = [client EXCEPT !.listeners = @ \ {l},
                                !.polling = IF client.listeners = {l} THEN "unset" ELSE @]
    /\ UNCHANGED <<server, polls, heard, fate>>

\* The timer fires, the one the client still knows of or one it has lost sight of.
Fire ==
    /\ client.polling = "armed" /\ PollNow([client EXCEPT !.polling = "spent"])
    /\ UNCHANGED <<server, heard, fate>>
FireStray ==
    /\ client.strays > 0
    /\ PollNow([client EXCEPT !.strays = @ - 1])
    /\ UNCHANGED <<server, heard, fate>>

\* The end of a poll sets the next timer, or none.
Rearmed(c) ==
    [c EXCEPT !.strays = Untracked(c), !.polling = IF Polls(c) THEN "armed" ELSE "unset"]

Told(ls, events) ==
    [l \in Listeners |-> IF l \in ls THEN [heard[l] EXCEPT !.events = @ \o events] ELSE heard[l]]

\* Every listener is given every event; then the cursor moves.
DeliverToFirst(i) ==   \* mutant of Deliver
    /\ polls[i].answer.ok
    /\ LET events == polls[i].answer.events
       IN  heard' = Told(client.listeners, SubSeq(events, 1, IF events = <<>> THEN 0 ELSE 1))
    /\ client' = Rearmed([client EXCEPT !.cursor =
                     IF polls[i].answer.cursor > @ THEN polls[i].answer.cursor ELSE @])
    /\ polls' = RemoveAt(polls, i)
    /\ UNCHANGED <<server, fate>>
Deliver(i) ==
    /\ polls[i].answer.ok
    /\ heard' = Told(client.listeners, polls[i].answer.events)
    /\ client' = Rearmed([client EXCEPT !.cursor =
                     IF polls[i].answer.cursor > @ THEN polls[i].answer.cursor ELSE @])
    /\ polls' = RemoveAt(polls, i)
    /\ UNCHANGED <<server, fate>>

\* A listener throws at the n-th event: the rest is dropped and the cursor stays.
DeliverThrows(i) ==
    LET events == polls[i].answer.events
    IN /\ polls[i].answer.ok /\ events # <<>> /\ fate.breaks < MaxBreaks
       /\ \E n \in 1 .. Len(events), l \in client.listeners :
             heard' = [Told(client.listeners, SubSeq(events, 1, n - 1))
                         EXCEPT ![l].events = @ \o <<events[n]>>]
       /\ client' = Rearmed(client) /\ polls' = RemoveAt(polls, i)
       /\ fate' = [fate EXCEPT !.breaks = @ + 1, !.threw = TRUE]
       /\ UNCHANGED server

\* A poll that failed is forgotten; the next one asks for the same.
GivesUp(i) ==   \* mutant of PollFails
    /\ polls[i].answer.done /\ ~polls[i].answer.ok
    /\ client' = [client EXCEPT !.polling = "unset"] /\ polls' = RemoveAt(polls, i)
    /\ UNCHANGED <<server, heard, fate>>
PollFails(i) ==
    /\ polls[i].answer.done /\ ~polls[i].answer.ok
    /\ client' = Rearmed(client) /\ polls' = RemoveAt(polls, i)
    /\ UNCHANGED <<server, heard, fate>>

Next ==
    \/ Push \/ Connect \/ Disconnect \/ OtherDisconnects \/ Fire \/ FireStray
    \/ \E l \in Listeners : Subscribe(l) \/ Unsubscribe(l)
    \/ \E i \in DOMAIN polls :
          Answer(i) \/ Unanswered(i) \/ Deliver(i) \/ DeliverThrows(i) \/ PollFails(i)

\* Node runs timers and the callbacks of answered requests, and the server answers.
Working == Fire \/ FireStray \/ \E i \in DOMAIN polls : Answer(i) \/ Deliver(i) \/ PollFails(i)

\* "replays events without duplicates": a listener is given every event once and in order,
\* unless one subscribed while a poll was under way that no timer stands for, which starts
\* a second loop, or a listener threw (client.ts 27-28).
OnceInOrder ==
    ~fate.crossed /\ ~fate.threw =>
        \A l \in Listeners : \A i \in 1 .. Len(heard[l].events) - 1 :
            heard[l].events[i] < heard[l].events[i + 1]

\* What the cursor has passed every listener was given, whatever polls crossed, failed or
\* threw, except the events a full ring had dropped before the poll (server 27, 45; client 28).
NothingSkipped ==
    \A l \in client.listeners : \A o \in heard[l].from + 1 .. client.cursor :
        o \in fate.lost \/ o \in ToSet(heard[l].events)

\* What CursorCatchesUp of RuntimeServer says of an event: somebody who subscribed over a
\* connection listens, and the cursor has reached it.
Listening == \E l \in client.listeners : heard[l].online
Owed(o)   == Listening /\ o < server.ordinal
Reached(o) == client.cursor >= o \/ ~Listening \/ fate.parted
=============================================================================
