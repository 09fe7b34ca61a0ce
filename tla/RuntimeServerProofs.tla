-------------------------- MODULE RuntimeServerProofs --------------------------
(***************************************************************************)
(* The event stream for any number of listeners, polls, events and         *)
(* troubles: what the cursor has passed was given to every listener, and   *)
(* one loop of polls gives it once and in order.  And the control of a     *)
(* task: a cancelled one stays cancelled, unless runs of it overlapped.    *)
(***************************************************************************)
EXTENDS RuntimeServer, Sequences, SequenceTheorems, TLAPS

\* ------------------------------------------------------------------ the stream
Answers  == [ok : BOOLEAN, done : BOOLEAN, events : Seq(Int), cursor : Int]
Requests == [after : Int, answer : Answers]
Clients  == [connected : BOOLEAN, listeners : SUBSET Listeners, cursor : Int,
             polling : {"unset", "armed", "spent"}, strays : Nat]

Servers  == [first : Int, ordinal : Int, negotiated : BOOLEAN]
Fates    == [subscribes : Int, breaks : Int, lost : SUBSET Int,
             crossed : BOOLEAN, threw : BOOLEAN, parted : BOOLEAN]

StreamTypeOK ==
    /\ server \in Servers
    /\ client \in Clients
    /\ polls \in Seq(Requests)
    /\ heard \in [Listeners -> [from : Int, online : BOOLEAN, events : Seq(Int)]]
    /\ fate \in Fates

Has(events, o) == \E k \in 1 .. Len(events) : events[k] = o
Increasing(events) == \A k \in 1 .. Len(events) - 1 : events[k] < events[k + 1]

\* An answer holds whatever follows what was asked for, as far as the cursor it gives.
Whole(request) ==
    request.answer.ok =>
        \A o \in request.after + 1 .. request.answer.cursor :
            o \in fate.lost \/ Has(request.answer.events, o)

Answered == \A k \in 1 .. Len(polls) : polls[k].after <= client.cursor /\ Whole(polls[k])

\* NothingSkipped of EventStream, element by element.
Given ==
    \A l \in client.listeners : \A o \in heard[l].from + 1 .. client.cursor :
        o \in fate.lost \/ Has(heard[l].events, o)

\* As long as nobody subscribed across a poll there is one loop: one poll, or one timer.
OneLoop ==
    ~fate.crossed =>
        client.strays = 0 /\ Len(polls) <= 1 /\ (Len(polls) = 1 => client.polling /= "armed")

\* Then the answer under way continues where every listener was left.
Fresh(request) ==
    /\ request.after = client.cursor
    /\ request.answer.ok =>
          /\ Increasing(request.answer.events)
          /\ \A k \in 1 .. Len(request.answer.events) :
                request.after < request.answer.events[k]
                    /\ request.answer.events[k] <= request.answer.cursor
Continued ==
    ~fate.crossed /\ ~fate.threw =>
        /\ \A k \in 1 .. Len(polls) : Fresh(polls[k])
        /\ \A l \in Listeners :
              /\ Increasing(heard[l].events)
              /\ \A k \in 1 .. Len(heard[l].events) : heard[l].events[k] <= client.cursor

StreamInv == StreamTypeOK /\ Answered /\ Given /\ OneLoop /\ Continued

\* ------------------------------------------------------------------ its sequences
LEMMA OneRemoved ==
    ASSUME NEW S, NEW s \in Seq(S), NEW i \in 1 .. Len(s)
    PROVE  /\ Stream!RemoveAt(s, i) \in Seq(S)
           /\ Len(Stream!RemoveAt(s, i)) = Len(s) - 1
           /\ \A j \in 1 .. Len(s) - 1 :
                 \E k \in 1 .. Len(s) : Stream!RemoveAt(s, i)[j] = s[k]
<1> DEFINE a == SubSeq(s, 1, i - 1)
           b == SubSeq(s, i + 1, Len(s))
<1>1. a \in Seq(S) /\ Len(a) = i - 1 /\ \A k \in 1 .. i - 1 : a[k] = s[k]
  OBVIOUS
<1>2. b \in Seq(S) /\ Len(b) = Len(s) - i /\ \A k \in 1 .. Len(s) - i : b[k] = s[i + k]
  OBVIOUS
<1>3. Stream!RemoveAt(s, i) = a \o b
  BY DEF Stream!RemoveAt
<1> HIDE DEF a, b
<1>0. Len(s) \in Nat /\ i \in Int
  OBVIOUS
<1>4. a \o b \in Seq(S) /\ Len(a \o b) = Len(s) - 1
  <2>1. a \o b \in Seq(S) /\ Len(a \o b) = Len(a) + Len(b)
    BY <1>1, <1>2, ConcatProperties
  <2> QED BY <2>1, <1>0, <1>1, <1>2
<1>5. ASSUME NEW j \in 1 .. Len(s) - 1
      PROVE  \E k \in 1 .. Len(s) : (a \o b)[j] = s[k]
  <2>1. CASE j <= i - 1
    <3>1. (a \o b)[j] = a[j]
      BY <1>1, <1>2, <2>1
    <3> QED BY <3>1, <1>1, <2>1
  <2>2. CASE j > i - 1
    <3>1. (a \o b)[j] = b[j - (i - 1)]
      BY <1>1, <1>2, <2>2
    <3>2. j - (i - 1) \in 1 .. Len(s) - i /\ i + (j - (i - 1)) = j + 1
      BY <2>2
    <3> QED BY <3>1, <3>2, <1>2
  <2>3. j <= i - 1 \/ j > i - 1
    BY <1>0
  <2> QED BY <2>1, <2>2, <2>3
<1> QED BY <1>3, <1>4, <1>5

LEMMA Concatenation ==
    ASSUME NEW s \in Seq(Int), NEW t \in Seq(Int)
    PROVE  /\ s \o t \in Seq(Int) /\ Len(s \o t) = Len(s) + Len(t)
           /\ \A k \in 1 .. Len(s) : (s \o t)[k] = s[k]
           /\ \A k \in 1 .. Len(t) : (s \o t)[Len(s) + k] = t[k]
           /\ \A k \in 1 .. Len(s \o t) :
                 k \in 1 .. Len(s) \/ (k > Len(s) /\ k - Len(s) \in 1 .. Len(t) /\ (s \o t)[k] = t[k - Len(s)])
OBVIOUS

LEMMA HasBoth ==
    ASSUME NEW s \in Seq(Int), NEW t \in Seq(Int), NEW o, Has(s, o) \/ Has(t, o)
    PROVE  Has(s \o t, o)
<1>1. CASE Has(s, o)
  <2>1. PICK k \in 1 .. Len(s) : s[k] = o  BY <1>1 DEF Has
  <2>2. k \in 1 .. Len(s \o t) /\ (s \o t)[k] = o  BY <2>1, Concatenation
  <2> QED BY <2>2 DEF Has
<1>2. CASE Has(t, o)
  <2>1. PICK k \in 1 .. Len(t) : t[k] = o  BY <1>2 DEF Has
  <2>2. Len(s) + k \in 1 .. Len(s \o t) /\ (s \o t)[Len(s) + k] = o
    BY <2>1, Concatenation
  <2> QED BY <2>2 DEF Has
<1> QED BY <1>1, <1>2

\* What follows a bound continues what stays below it.
LEMMA StillIncreasing ==
    ASSUME NEW s \in Seq(Int), NEW t \in Seq(Int), NEW bound \in Int, NEW top \in Int,
           Increasing(s), \A k \in 1 .. Len(s) : s[k] <= bound,
           Increasing(t), \A k \in 1 .. Len(t) : bound < t[k] /\ t[k] <= top
    PROVE  /\ Increasing(s \o t)
           /\ \A k \in 1 .. Len(s \o t) : (s \o t)[k] <= bound \/ (s \o t)[k] <= top
<1> DEFINE u == s \o t
<1>1. /\ u \in Seq(Int) /\ Len(u) = Len(s) + Len(t)
      /\ \A k \in 1 .. Len(s) : u[k] = s[k]
      /\ \A k \in 1 .. Len(u) :
            k \in 1 .. Len(s) \/ (k > Len(s) /\ k - Len(s) \in 1 .. Len(t) /\ u[k] = t[k - Len(s)])
  BY Concatenation
<1>2. Len(s) \in Nat /\ Len(t) \in Nat
  OBVIOUS
<1> HIDE DEF u
<1>3. ASSUME NEW k \in 1 .. Len(u) - 1
      PROVE  u[k] < u[k + 1]
  <2>1. CASE k + 1 <= Len(s)
    <3>1. k \in 1 .. Len(s) - 1 /\ k \in 1 .. Len(s) /\ k + 1 \in 1 .. Len(s)
      BY <2>1, <1>1, <1>2
    <3>2. u[k] = s[k] /\ u[k + 1] = s[k + 1]
      BY <3>1, <1>1
    <3> QED BY <3>1, <3>2 DEF Increasing
  <2>2. CASE k = Len(s)
    <3>1. k + 1 \in 1 .. Len(u) /\ k \in 1 .. Len(s) /\ (k + 1) - Len(s) = 1
      BY <1>1, <1>2, <2>2
    <3>4. k + 1 \notin 1 .. Len(s)
      BY <1>2, <2>2
    <3>5. (k + 1) - Len(s) \in 1 .. Len(t) /\ u[k + 1] = t[(k + 1) - Len(s)]
      BY <3>1, <3>4, <1>1
    <3>2. u[k + 1] = t[1] /\ 1 \in 1 .. Len(t) /\ u[k] = s[k]
      BY <3>1, <3>5, <1>1
    <3>3. s[k] <= bound /\ bound < t[1] /\ s[k] \in Int /\ t[1] \in Int
      BY <3>1, <3>2
    <3> QED BY <3>2, <3>3
  <2>3. CASE k > Len(s)
    <3> DEFINE m == k - Len(s)
    <3>1. m \in 1 .. Len(t) - 1 /\ (k + 1) - Len(s) = m + 1
      BY <1>1, <1>2, <2>3
    <3>2. k \in 1 .. Len(u) /\ k \notin 1 .. Len(s) /\ k + 1 \in 1 .. Len(u) /\ k + 1 \notin 1 .. Len(s)
      BY <1>1, <1>2, <2>3
    <3>3. u[k] = t[k - Len(s)] /\ u[k + 1] = t[(k + 1) - Len(s)]
      BY <3>2, <1>1
    <3>4. u[k] = t[m] /\ u[k + 1] = t[m + 1]
      BY <3>1, <3>3
    <3> QED BY <3>1, <3>4 DEF Increasing
  <2> QED BY <2>1, <2>2, <2>3, <1>1, <1>2
<1>4. ASSUME NEW k \in 1 .. Len(u)
      PROVE  u[k] <= bound \/ u[k] <= top
  BY <1>1, <1>2
<1> QED BY <1>3, <1>4 DEF Increasing, u

LEMMA RunOfOrdinals ==
    ASSUME NEW a \in Int, NEW b \in Int
    PROVE  LET run == Stream!Consecutive(a, b)
           IN  /\ run \in Seq(Int)
               /\ Increasing(run)
               /\ \A k \in 1 .. Len(run) : a <= run[k] /\ run[k] <= b
               /\ \A o \in a .. b : Has(run, o)
               /\ run = <<>> <=> b < a
<1> DEFINE n == IF b < a THEN 0 ELSE b - a + 1
           run == [k \in 1 .. n |-> a + k - 1]
<1>1. n \in Nat /\ 1 .. b - a + 1 = 1 .. n
  OBVIOUS
<1>2. Stream!Consecutive(a, b) = run
  BY <1>1 DEF Stream!Consecutive
<1>3. run \in Seq(Int) /\ Len(run) = n /\ \A k \in 1 .. n : run[k] = a + k - 1
  BY <1>1
<1> HIDE DEF run
<1>4. Increasing(run)
  BY <1>1, <1>3 DEF Increasing
<1>5. \A k \in 1 .. Len(run) : a <= run[k] /\ run[k] <= b
  BY <1>1, <1>3
<1>6. ASSUME NEW o \in a .. b PROVE Has(run, o)
  <2>1. o - a + 1 \in 1 .. n /\ a + (o - a + 1) - 1 = o
    BY <1>1
  <2> QED BY <2>1, <1>3 DEF Has
<1>7. run = <<>> <=> b < a
  BY <1>1, <1>3
<1> QED BY <1>2, <1>3, <1>4, <1>5, <1>6, <1>7

\* ------------------------------------------------------------------ what a step may do
\* The polls after a step are polls from before it, or have no good answer yet.
OldPolls ==
    \A k \in 1 .. Len(polls') :
        \/ \E j \in 1 .. Len(polls) : polls'[k] = polls[j]
        \/ polls'[k].after = client'.cursor /\ ~polls'[k].answer.ok
        \/ ~polls'[k].answer.ok /\ \E j \in 1 .. Len(polls) : polls'[k].after = polls[j].after

LEMMA AnsweredStep ==
    ASSUME StreamInv, StreamTypeOK', client.cursor <= client'.cursor, fate.lost \subseteq fate'.lost,
           OldPolls
    PROVE  Answered'
<1> SUFFICES ASSUME NEW k \in 1 .. Len(polls')
             PROVE  polls'[k].after <= client'.cursor /\ Whole(polls[k])'
  BY DEF Answered
<1>1. /\ client.cursor \in Int /\ client'.cursor \in Int
      /\ polls'[k] \in Requests /\ \A j \in 1 .. Len(polls) : polls[j] \in Requests
  BY DEF StreamInv, StreamTypeOK, Clients
<1>2. CASE \E j \in 1 .. Len(polls) : polls'[k] = polls[j]
  <2>1. PICK j \in 1 .. Len(polls) : polls'[k] = polls[j]
    BY <1>2
  <2>2. polls[j].after <= client.cursor /\ Whole(polls[j])
    BY DEF StreamInv, Answered
  <2>3. polls[j].after \in Int
    BY <1>1 DEF Requests
  <2>4. polls'[k].after <= client'.cursor
    BY <2>1, <2>2, <2>3, <1>1
  <2>5. Whole(polls[k])'
    BY <2>1, <2>2 DEF Whole
  <2> QED BY <2>4, <2>5
<1>3. CASE polls'[k].after = client'.cursor /\ ~polls'[k].answer.ok
  BY <1>1, <1>3 DEF Whole
<1>4. CASE ~polls'[k].answer.ok /\ \E j \in 1 .. Len(polls) : polls'[k].after = polls[j].after
  <2>1. PICK j \in 1 .. Len(polls) : polls'[k].after = polls[j].after
    BY <1>4
  <2>2. polls[j].after <= client.cursor /\ polls[j].after \in Int
    BY <1>1 DEF StreamInv, Answered, Requests
  <2> QED BY <2>1, <2>2, <1>1, <1>4 DEF Whole
<1> QED BY <1>2, <1>3, <1>4 DEF OldPolls

\* Nobody starts to listen, the cursor stays, and what was heard stays heard.
LEMMA GivenStep ==
    ASSUME StreamInv, client'.listeners \subseteq client.listeners, client'.cursor = client.cursor,
           fate.lost \subseteq fate'.lost,
           \A l \in client.listeners :
               /\ heard'[l].from = heard[l].from
               /\ \A o : Has(heard[l].events, o) => Has(heard'[l].events, o)
    PROVE  Given'
<1> SUFFICES ASSUME NEW l \in client'.listeners, NEW o \in heard'[l].from + 1 .. client'.cursor
             PROVE  o \in fate'.lost \/ Has(heard'[l].events, o)
  BY DEF Given, Has
<1>1. l \in client.listeners /\ o \in heard[l].from + 1 .. client.cursor
  OBVIOUS
<1>2. o \in fate.lost \/ Has(heard[l].events, o)
  BY <1>1 DEF StreamInv, Given
<1> QED BY <1>1, <1>2

\* Continued survives a step that moves no cursor and gives nobody anything.
LEMMA ContinuedStep ==
    ASSUME StreamInv, StreamTypeOK', client'.cursor = client.cursor,
           \A l \in Listeners : heard'[l].events = heard[l].events \/ heard'[l].events = <<>>,
           fate.crossed => fate'.crossed, fate.threw => fate'.threw, OldPolls
    PROVE  Continued'
<1> SUFFICES ASSUME ~fate'.crossed, ~fate'.threw
             PROVE  /\ \A k \in 1 .. Len(polls') : Fresh(polls[k])'
                    /\ \A l \in Listeners :
                          /\ Increasing(heard'[l].events)
                          /\ \A k \in 1 .. Len(heard'[l].events) : heard'[l].events[k] <= client'.cursor
  BY DEF Continued, Increasing
<1>1. /\ \A k \in 1 .. Len(polls) : Fresh(polls[k])
      /\ \A l \in Listeners :
            /\ Increasing(heard[l].events)
            /\ \A k \in 1 .. Len(heard[l].events) : heard[l].events[k] <= client.cursor
  BY DEF StreamInv, Continued
<1>2. ASSUME NEW k \in 1 .. Len(polls') PROVE Fresh(polls[k])'
  <2>1. CASE \E j \in 1 .. Len(polls) : polls'[k] = polls[j]
    BY <2>1, <1>1 DEF Fresh, Increasing
  <2>2. CASE polls'[k].after = client'.cursor /\ ~polls'[k].answer.ok
    BY <2>2 DEF Fresh
  <2>3. CASE ~polls'[k].answer.ok /\ \E j \in 1 .. Len(polls) : polls'[k].after = polls[j].after
    BY <2>3, <1>1 DEF Fresh
  <2> QED BY <2>1, <2>2, <2>3 DEF OldPolls
<1>3. ASSUME NEW l \in Listeners
      PROVE  /\ Increasing(heard'[l].events)
             /\ \A k \in 1 .. Len(heard'[l].events) : heard'[l].events[k] <= client'.cursor
  <2>1. CASE heard'[l].events = heard[l].events
    BY <2>1, <1>1
  <2>2. CASE heard'[l].events = <<>>
    BY <2>2 DEF Increasing
  <2> QED BY <2>1, <2>2
<1> QED BY <1>2, <1>3

\* ------------------------------------------------------------------ the steps
\* poll(): one more poll that asks for what follows the cursor, or no poll and no timer.
LEMMA PollNowEffect ==
    ASSUME StreamTypeOK, NEW c \in Clients, Stream!PollNow(c)
    PROVE  /\ client' \in Clients /\ polls' \in Seq(Requests)
           /\ client'.cursor = c.cursor /\ client'.listeners = c.listeners
           /\ \/ /\ client' = c /\ Len(polls') = Len(polls) + 1
                 /\ \A k \in 1 .. Len(polls) : polls'[k] = polls[k]
                 /\ polls'[Len(polls) + 1].after = c.cursor
                 /\ ~polls'[Len(polls) + 1].answer.ok
              \/ /\ polls' = polls /\ client'.polling = "unset"
                 /\ client'.strays = IF c.polling = "armed" THEN c.strays + 1 ELSE c.strays
<1>1. CASE Stream!Polls(c)
  <2> DEFINE p == [after |-> c.cursor, answer |-> Stream!Pending]
  <2>1. client' = c /\ polls' = Append(polls, p)
    BY <1>1 DEF Stream!PollNow
  <2>2. p \in Requests /\ ~p.answer.ok /\ p.after = c.cursor
    BY DEF Stream!Pending, Requests, Answers, Clients
  <2>3. polls \in Seq(Requests)
    BY DEF StreamTypeOK
  <2> HIDE DEF p
  <2> QED BY <2>1, <2>2, <2>3
<1>2. CASE ~Stream!Polls(c)
  <2>1. polls' = polls /\ client' = [c EXCEPT !.polling = "unset", !.strays = Stream!Untracked(c)]
    BY <1>2 DEF Stream!PollNow
  <2>2. Stream!Untracked(c) = IF c.polling = "armed" THEN c.strays + 1 ELSE c.strays
    BY DEF Stream!Untracked
  <2>3. c.polling \in {"unset", "armed", "spent"} /\ c.strays \in Nat /\ Stream!Untracked(c) \in Nat
    BY <2>2 DEF Clients
  <2>4. client' \in Clients
    BY <2>1, <2>3 DEF Clients
  <2>5. /\ client'.cursor = c.cursor /\ client'.listeners = c.listeners
        /\ client'.polling = "unset" /\ client'.strays = Stream!Untracked(c)
    BY <2>1 DEF Clients
  <2> QED BY <2>1, <2>2, <2>4, <2>5 DEF StreamTypeOK
<1> QED BY <1>1, <1>2

LEMMA PollNowOldPolls ==
    ASSUME StreamTypeOK, NEW c \in Clients, Stream!PollNow(c)
    PROVE  OldPolls
<1>1. \/ /\ Len(polls') = Len(polls) + 1
         /\ \A k \in 1 .. Len(polls) : polls'[k] = polls[k]
         /\ polls'[Len(polls) + 1].after = client'.cursor
         /\ ~polls'[Len(polls) + 1].answer.ok
      \/ polls' = polls
  BY PollNowEffect
<1>2. Len(polls) \in Nat
  BY DEF StreamTypeOK
<1> QED BY <1>1, <1>2 DEF OldPolls

LEMMA SamePolls ==
    ASSUME polls' = polls
    PROVE  OldPolls
BY DEF OldPolls

LEMMA ServerUpdates ==
    ASSUME NEW s \in Servers, NEW o \in Int, NEW f \in Int, NEW n \in BOOLEAN
    PROVE  /\ [s EXCEPT !.ordinal = o, !.first = f] \in Servers
           /\ [s EXCEPT !.negotiated = n] \in Servers
BY DEF Servers

LEMMA FateUpdates ==
    ASSUME NEW f \in Fates, NEW n \in Int, NEW b \in BOOLEAN, NEW m \in SUBSET Int
    PROVE  /\ [f EXCEPT !.breaks = n] \in Fates
           /\ [f EXCEPT !.breaks = n, !.parted = TRUE] \in Fates
           /\ [f EXCEPT !.breaks = n, !.threw = TRUE] \in Fates
           /\ [f EXCEPT !.subscribes = n, !.crossed = b] \in Fates
           /\ [f EXCEPT !.lost = m] \in Fates
BY DEF Fates

LEMMA PushKeeps == StreamInv /\ Stream!Push => StreamInv'
<1> SUFFICES ASSUME StreamInv, Stream!Push PROVE StreamInv'
  OBVIOUS
<1>1. UNCHANGED <<client, polls, heard, fate>>
  BY DEF Stream!Push
<1>2. server' \in Servers
  <2>1. server \in Servers
    BY DEF StreamInv, StreamTypeOK
  <2>2. /\ Stream!Later(server.first, server.ordinal + 1 - MaxEvents) \in Int
        /\ server.ordinal + 1 \in Int
    BY <2>1, RingSize DEF Stream!Later, Servers
  <2>3. server' = [server EXCEPT !.ordinal = server.ordinal + 1,
                       !.first = Stream!Later(server.first, server.ordinal + 1 - MaxEvents)]
    BY DEF Stream!Push
  <2> QED BY <2>1, <2>2, <2>3, ServerUpdates
<1> QED BY <1>1, <1>2
    DEF StreamInv, StreamTypeOK, Answered, Whole, Given, OneLoop, Continued, Fresh

\* A connection opened or closed keeps the polls, the cursor and the listeners.
LEMMA ConnectionKeeps ==
    StreamInv /\ (Stream!Connect \/ Stream!Disconnect \/ Stream!OtherDisconnects) => StreamInv'
<1> SUFFICES ASSUME StreamInv, Stream!Connect \/ Stream!Disconnect \/ Stream!OtherDisconnects
             PROVE  StreamInv'
  OBVIOUS
<1>1. /\ polls' = polls /\ heard' = heard
      /\ client'.cursor = client.cursor /\ client'.listeners = client.listeners
      /\ client'.strays = client.strays
      /\ client'.polling = "armed" => client.polling = "armed"
      /\ fate'.lost = fate.lost /\ fate'.crossed = fate.crossed /\ fate'.threw = fate.threw
  BY ZenonT(60) DEF StreamInv, StreamTypeOK, Clients, Servers, Fates, Stream!Connect, Stream!Disconnect, Stream!OtherDisconnects
<1>2. StreamTypeOK'
  <2>1. StreamTypeOK
    BY DEF StreamInv
  <2>5. fate.breaks + 1 \in Int
    BY <2>1 DEF StreamTypeOK, Fates
  <2>2. CASE Stream!Connect
    <3>1. client' \in Clients
      BY <2>1, <2>2 DEF StreamTypeOK, Clients, Stream!Connect
    <3>2. server' \in Servers
      <4>1. server' = [server EXCEPT !.negotiated = TRUE]
        BY <2>2 DEF Stream!Connect
      <4> QED BY <2>1, <4>1 DEF StreamTypeOK, Servers
    <3> QED BY <3>1, <3>2, <2>1, <2>2 DEF StreamTypeOK, Stream!Connect
  <2>3. CASE Stream!Disconnect
    <3>1. client' \in Clients
      BY <2>1, <2>3 DEF StreamTypeOK, Clients, Stream!Disconnect
    <3>2. server' \in Servers /\ fate' \in Fates
      BY <2>1, <2>3, <2>5, ServerUpdates, FateUpdates DEF StreamTypeOK, Stream!Disconnect
    <3> QED BY <3>1, <3>2, <2>1, <2>3 DEF StreamTypeOK, Stream!Disconnect
  <2>4. CASE Stream!OtherDisconnects
    <3>1. server' \in Servers /\ fate' \in Fates
      BY <2>1, <2>4, <2>5, ServerUpdates, FateUpdates DEF StreamTypeOK, Stream!OtherDisconnects
    <3> QED BY <3>1, <2>1, <2>4 DEF StreamTypeOK, Stream!OtherDisconnects
  <2> QED BY <2>2, <2>3, <2>4
<1>3. Answered' /\ Given' /\ Continued'
  BY <1>1 DEF StreamInv, Answered, Whole, Given, Continued, Fresh
<1>4. OneLoop'
  BY <1>1 DEF StreamInv, OneLoop
<1> QED BY <1>2, <1>3, <1>4 DEF StreamInv

LEMMA SubscribeKeeps ==
    ASSUME StreamInv, NEW l \in Listeners, Stream!Subscribe(l)
    PROVE  StreamInv'
<1> DEFINE c == [client EXCEPT !.listeners = @ \cup {l}]
           h == [from |-> client.cursor, online |-> client.connected, events |-> <<>>]
<1>0. StreamTypeOK /\ Answered /\ Given /\ OneLoop /\ Continued
  BY DEF StreamInv
<1>1. c \in Clients /\ c.cursor = client.cursor /\ c.listeners = client.listeners \cup {l}
      /\ c.strays = client.strays /\ c.polling = client.polling
  BY <1>0 DEF StreamTypeOK, Clients
<1>2. h \in [from : Int, online : BOOLEAN, events : Seq(Int)] /\ h.events = <<>> /\ h.from = client.cursor
  BY <1>0 DEF StreamTypeOK, Clients
<1>3. heard' = [heard EXCEPT ![l] = h] /\ server' = server /\ l \notin client.listeners
  BY DEF Stream!Subscribe
<1>4. IF client.polling = "unset" THEN Stream!PollNow(c) ELSE client' = c /\ polls' = polls
  BY DEF Stream!Subscribe
<1>5. fate' = [fate EXCEPT !.subscribes = @ + 1,
                           !.crossed = @ \/ (polls # <<>> /\ client.polling = "unset")]
  BY DEF Stream!Subscribe
<1> HIDE DEF c, h
<1>6. /\ client' \in Clients /\ polls' \in Seq(Requests) /\ OldPolls
      /\ client'.cursor = client.cursor /\ client'.listeners = client.listeners \cup {l}
  <2>1. CASE client.polling = "unset"
    BY <2>1, <1>0, <1>1, <1>4, PollNowEffect, PollNowOldPolls
  <2>2. CASE client.polling # "unset"
    BY <2>2, <1>0, <1>1, <1>4, SamePolls DEF StreamTypeOK
  <2> QED BY <2>1, <2>2
<1>7. /\ fate'.lost = fate.lost /\ fate'.threw = fate.threw
      /\ fate'.crossed = (fate.crossed \/ (polls # <<>> /\ client.polling = "unset"))
      /\ fate' \in Fates
  <2> DEFINE b == fate.crossed \/ (polls # <<>> /\ client.polling = "unset")
  <2>1. fate \in Fates /\ fate.subscribes + 1 \in Int
    BY <1>0 DEF StreamTypeOK, Fates
  <2>2. b \in BOOLEAN
    OBVIOUS
  <2>3. fate' = [fate EXCEPT !.subscribes = fate.subscribes + 1, !.crossed = b]
    BY <1>5
  <2> HIDE DEF b
  <2>4. fate' \in Fates
    BY <2>1, <2>2, <2>3, FateUpdates
  <2>5. fate'.lost = fate.lost /\ fate'.threw = fate.threw /\ fate'.crossed = b
    BY <2>1, <2>3 DEF Fates
  <2> QED BY <2>4, <2>5 DEF b
<1>8. StreamTypeOK'
  BY <1>0, <1>2, <1>3, <1>6, <1>7 DEF StreamTypeOK
<1>9. heard'[l] = h /\ \A m \in Listeners : m # l => heard'[m] = heard[m]
  BY <1>0, <1>3 DEF StreamTypeOK
<1>10. client.cursor \in Int
  BY <1>0 DEF StreamTypeOK, Clients
<1>11. Answered'
  BY <1>6, <1>7, <1>8, <1>10, AnsweredStep
<1>12. Given'
  <2> SUFFICES ASSUME NEW m \in client'.listeners, NEW o \in heard'[m].from + 1 .. client'.cursor
               PROVE  o \in fate'.lost \/ Has(heard'[m].events, o)
    BY DEF Given, Has
  <2>1. CASE m = l
    <3>1. o \in client.cursor + 1 .. client.cursor
      BY <2>1, <1>2, <1>6, <1>9
    <3> QED BY <3>1, <1>10
  <2>2. CASE m # l
    <3>1. m \in client.listeners /\ m \in Listeners
      BY <2>2, <1>0, <1>6 DEF StreamTypeOK, Clients
    <3>2. heard'[m] = heard[m]
      BY <3>1, <2>2, <1>9
    <3>3. o \in fate.lost \/ Has(heard[m].events, o)
      BY <3>1, <3>2, <1>0, <1>6 DEF Given
    <3> QED BY <3>2, <3>3, <1>7
  <2> QED BY <2>1, <2>2
<1>13. OneLoop'
  <2> SUFFICES ASSUME ~fate'.crossed
               PROVE  /\ client'.strays = 0 /\ Len(polls') <= 1
                      /\ (Len(polls') = 1 => client'.polling /= "armed")
    BY DEF OneLoop
  <2>1. ~fate.crossed /\ (polls = <<>> \/ client.polling # "unset")
    BY <1>7
  <2>2. client.strays = 0 /\ Len(polls) <= 1 /\ (Len(polls) = 1 => client.polling /= "armed")
    BY <2>1, <1>0 DEF OneLoop
  <2>3. CASE client.polling = "unset"
    <3>1. polls = <<>> /\ Len(polls) = 0
      BY <2>1, <2>3
    <3>2. Stream!PollNow(c)
      BY <1>4, <2>3
    <3>3. \/ client' = c /\ Len(polls') = Len(polls) + 1
          \/ polls' = polls /\ client'.strays = c.strays /\ client'.polling = "unset"
      BY <3>2, <1>0, <1>1, <2>3, PollNowEffect
    <3>4. CASE client' = c /\ Len(polls') = Len(polls) + 1
      BY <3>1, <3>4, <2>2, <2>3, <1>1
    <3>5. CASE polls' = polls /\ client'.strays = c.strays /\ client'.polling = "unset"
      BY <3>1, <3>5, <2>2, <2>3, <1>1
    <3> QED BY <3>3, <3>4, <3>5
  <2>4. CASE client.polling # "unset"
    BY <2>4, <2>2, <1>1, <1>4
  <2> QED BY <2>3, <2>4
<1>14. Continued'
  BY <1>2, <1>6, <1>7, <1>8, <1>9, ContinuedStep
<1> QED BY <1>8, <1>11, <1>12, <1>13, <1>14 DEF StreamInv

LEMMA UnsubscribeKeeps ==
    ASSUME StreamInv, NEW l \in Listeners, Stream!Unsubscribe(l)
    PROVE  StreamInv'
<1>0. StreamTypeOK /\ client \in Clients
  BY DEF StreamInv, StreamTypeOK
<1>1. /\ client' \in Clients /\ client'.cursor = client.cursor
      /\ client'.listeners \subseteq client.listeners /\ client'.strays = client.strays
      /\ client'.polling \in {"unset", client.polling}
      /\ UNCHANGED <<server, polls, heard, fate>>
  BY <1>0 DEF Stream!Unsubscribe, Clients
<1>2. StreamTypeOK'
  BY <1>0, <1>1 DEF StreamTypeOK
<1>3. OldPolls /\ client.cursor \in Int
  BY <1>0, <1>1, SamePolls DEF Clients
<1>4. Answered' /\ Given' /\ Continued'
  BY <1>1, <1>2, <1>3, AnsweredStep, GivenStep, ContinuedStep
<1>5. OneLoop'
  BY <1>1 DEF StreamInv, OneLoop
<1> QED BY <1>2, <1>4, <1>5 DEF StreamInv

\* A timer fires: the client that polls is the one before it but for its timers.
LEMMA PollNowKeeps ==
    ASSUME StreamInv, NEW c \in Clients, Stream!PollNow(c), UNCHANGED <<server, heard, fate>>,
           c.cursor = client.cursor, c.listeners = client.listeners,
           ~fate.crossed => c.strays = 0 /\ c.polling # "armed" /\ Len(polls) = 0
    PROVE  StreamInv'
<1>0. StreamTypeOK /\ client \in Clients
  BY DEF StreamInv, StreamTypeOK
<1>1. /\ client' \in Clients /\ polls' \in Seq(Requests) /\ OldPolls
      /\ client'.cursor = client.cursor /\ client'.listeners = client.listeners
  BY <1>0, PollNowEffect, PollNowOldPolls
<1>2. StreamTypeOK'
  BY <1>0, <1>1 DEF StreamTypeOK
<1>3. client.cursor \in Int
  BY <1>0 DEF Clients
<1>4. Answered' /\ Given' /\ Continued'
  BY <1>1, <1>2, <1>3, AnsweredStep, GivenStep, ContinuedStep
<1>5. OneLoop'
  <2> SUFFICES ASSUME ~fate'.crossed
               PROVE  /\ client'.strays = 0 /\ Len(polls') <= 1
                      /\ (Len(polls') = 1 => client'.polling /= "armed")
    BY DEF OneLoop
  <2>1. c.strays = 0 /\ c.polling # "armed" /\ Len(polls) = 0
    OBVIOUS
  <2>2. \/ client' = c /\ Len(polls') = Len(polls) + 1
        \/ polls' = polls /\ client'.strays = c.strays /\ client'.polling = "unset"
    BY <1>0, <2>1, PollNowEffect
  <2>3. CASE client' = c /\ Len(polls') = Len(polls) + 1
    BY <2>1, <2>3
  <2>4. CASE polls' = polls /\ client'.strays = c.strays /\ client'.polling = "unset"
    BY <2>1, <2>4
  <2> QED BY <2>2, <2>3, <2>4
<1> QED BY <1>2, <1>4, <1>5 DEF StreamInv

LEMMA FireKeeps == StreamInv /\ Stream!Fire => StreamInv'
<1> SUFFICES ASSUME StreamInv, Stream!Fire PROVE StreamInv'
  OBVIOUS
<1> DEFINE c == [client EXCEPT !.polling = "spent"]
<1>1. client \in Clients /\ polls \in Seq(Requests) /\ client.polling = "armed"
  BY DEF StreamInv, StreamTypeOK, Stream!Fire
<1>2. /\ c \in Clients /\ c.cursor = client.cursor /\ c.listeners = client.listeners
      /\ c.strays = client.strays /\ c.polling = "spent"
  BY <1>1 DEF Clients
<1>3. Stream!PollNow(c) /\ UNCHANGED <<server, heard, fate>>
  BY DEF Stream!Fire
<1> HIDE DEF c
<1>4. ~fate.crossed => c.strays = 0 /\ c.polling # "armed" /\ Len(polls) = 0
  <2> HAVE ~fate.crossed
  <2>1. client.strays = 0 /\ Len(polls) <= 1 /\ Len(polls) # 1
    BY <1>1 DEF StreamInv, OneLoop
  <2>3. Len(polls) \in Nat
    BY <1>1
  <2>2. Len(polls) = 0
    BY <2>1, <2>3
  <2> QED BY <1>2, <2>1, <2>2
<1> QED BY <1>2, <1>3, <1>4, PollNowKeeps

LEMMA FireStrayKeeps == StreamInv /\ Stream!FireStray => StreamInv'
<1> SUFFICES ASSUME StreamInv, Stream!FireStray PROVE StreamInv'
  OBVIOUS
<1> DEFINE c == [client EXCEPT !.strays = @ - 1]
<1>1. client \in Clients /\ client.strays > 0
  BY DEF StreamInv, StreamTypeOK, Stream!FireStray
<1>2. c \in Clients /\ c.cursor = client.cursor /\ c.listeners = client.listeners
  BY <1>1 DEF Clients
<1>3. Stream!PollNow(c) /\ UNCHANGED <<server, heard, fate>>
  BY DEF Stream!FireStray
<1> HIDE DEF c
<1>4. fate.crossed
  BY <1>1 DEF StreamInv, OneLoop, Clients
<1> QED BY <1>2, <1>3, <1>4, PollNowKeeps

\* A poll is given its answer.
LEMMA OneAnswered ==
    ASSUME NEW s \in Seq(Requests), NEW i \in 1 .. Len(s), NEW a \in Answers,
           NEW t, t = [s EXCEPT ![i].answer = a]
    PROVE  /\ t \in Seq(Requests) /\ Len(t) = Len(s)
           /\ t[i].after = s[i].after /\ t[i].answer = a
           /\ \A k \in 1 .. Len(s) : k # i => t[k] = s[k]
<1> DEFINE r == [s[i] EXCEPT !.answer = a]
<1>0. s[i] \in Requests
  OBVIOUS
<1>1. r \in Requests /\ r.after = s[i].after /\ r.answer = a
  BY <1>0 DEF Requests
<1>2. t = [s EXCEPT ![i] = r]
  OBVIOUS
<1> HIDE DEF r
<1>3. t \in Seq(Requests) /\ Len(t) = Len(s) /\ t[i] = r /\ \A k \in 1 .. Len(s) : k # i => t[k] = s[k]
  BY <1>1, <1>2
<1> QED BY <1>1, <1>3

\* The request is lost.
LEMMA UnansweredKeeps ==
    ASSUME StreamInv, NEW i \in DOMAIN polls, Stream!Unanswered(i)
    PROVE  StreamInv'
<1>0. StreamTypeOK /\ client \in Clients /\ polls \in Seq(Requests) /\ i \in 1 .. Len(polls)
  BY DEF StreamInv, StreamTypeOK
<1>1. /\ polls' = [polls EXCEPT ![i].answer = Stream!Ended]
      /\ fate' = [fate EXCEPT !.breaks = @ + 1] /\ UNCHANGED <<server, client, heard>>
  BY DEF Stream!Unanswered
<1>2. Stream!Ended \in Answers /\ ~Stream!Ended.ok
  BY DEF Stream!Ended, Answers
<1>3. /\ polls' \in Seq(Requests) /\ Len(polls') = Len(polls)
      /\ polls'[i].after = polls[i].after /\ ~polls'[i].answer.ok
      /\ \A k \in 1 .. Len(polls) : k # i => polls'[k] = polls[k]
  BY <1>0, <1>1, <1>2, OneAnswered
<1>4. /\ fate' \in Fates /\ fate'.lost = fate.lost
      /\ fate'.crossed = fate.crossed /\ fate'.threw = fate.threw
  <2>1. fate \in Fates /\ fate.breaks + 1 \in Int
    BY <1>0 DEF StreamTypeOK, Fates
  <2>2. fate' \in Fates
    BY <1>1, <2>1, FateUpdates
  <2> QED BY <1>1, <2>1, <2>2 DEF Fates
<1>5. StreamTypeOK'
  BY <1>0, <1>1, <1>3, <1>4 DEF StreamTypeOK
<1>6. OldPolls /\ client.cursor \in Int
  BY <1>0, <1>3 DEF OldPolls, Clients
<1>7. Answered' /\ Given' /\ Continued'
  BY <1>1, <1>4, <1>5, <1>6, AnsweredStep, GivenStep, ContinuedStep
<1>8. OneLoop'
  BY <1>1, <1>3, <1>4 DEF StreamInv, OneLoop
<1> QED BY <1>5, <1>7, <1>8 DEF StreamInv

\* The server answers: what the ring still keeps of what was asked for.
LEMMA AnswerIsWhole ==
    ASSUME StreamInv, NEW i \in 1 .. Len(polls), Stream!Answer(i), server.negotiated
    PROVE  LET after  == polls[i].after
               answer == polls'[i].answer
           IN  /\ answer \in Answers
               /\ \A o \in after + 1 .. answer.cursor : o \in fate'.lost \/ Has(answer.events, o)
               /\ Increasing(answer.events)
               /\ \A k \in 1 .. Len(answer.events) :
                     after < answer.events[k] /\ answer.events[k] <= answer.cursor
<1>0. /\ polls \in Seq(Requests) /\ polls[i] \in Requests /\ polls[i].after \in Int
      /\ server.first \in Int /\ server.ordinal \in Int /\ fate \in Fates
  <2>1. /\ polls \in Seq(Requests) /\ server.first \in Int /\ server.ordinal \in Int /\ fate \in Fates
    BY DEF StreamInv, StreamTypeOK, Servers
  <2>2. polls[i] \in Requests
    BY <2>1
  <2> QED BY <2>1, <2>2 DEF Requests
<1> DEFINE after  == polls[i].after
           start  == Stream!Later(after + 1, server.first)
           last   == server.ordinal - 1
           events == Stream!Consecutive(start, last)
           cursor == IF events = <<>> THEN after ELSE last
           answer == [ok |-> TRUE, done |-> TRUE, events |-> events, cursor |-> cursor]
<1>1. /\ start \in Int /\ last \in Int
      /\ start >= after + 1 /\ start >= server.first
      /\ start = after + 1 \/ start = server.first
  BY <1>0 DEF Stream!Later
<1>2. polls' = [polls EXCEPT ![i].answer = answer]
  BY DEF Stream!Answer
<1>3. fate'.lost = fate.lost \cup (after + 1 .. server.first - 1)
  <2>1. fate' = [fate EXCEPT !.lost = @ \cup (after + 1 .. server.first - 1)]
    BY DEF Stream!Answer
  <2> QED BY <1>0, <2>1 DEF Fates
<1> HIDE DEF start, last
<1>4. /\ events \in Seq(Int) /\ Increasing(events)
      /\ \A k \in 1 .. Len(events) : start <= events[k] /\ events[k] <= last
      /\ \A o \in start .. last : Has(events, o)
      /\ events = <<>> <=> last < start
  BY <1>1, RunOfOrdinals
<1>5. events \in Seq(Int) /\ cursor \in Int /\ answer \in Answers /\ answer.events = events /\ answer.cursor = cursor
  BY <1>0, <1>1, <1>4 DEF Answers
<1> HIDE DEF events
<1>6. polls'[i].answer = answer
  <2> HIDE DEF after, answer
  <2> QED BY <1>0, <1>2, <1>5, OneAnswered
<1>7. ASSUME NEW o \in after + 1 .. cursor
      PROVE  o \in fate'.lost \/ Has(events, o)
  <2>1. cursor = last
    BY <1>0, <1>7
  <2>2. CASE o >= start
    <3>1. o \in start .. last
      BY <1>0, <1>1, <2>1, <2>2
    <3> QED BY <3>1, <1>4
  <2>3. CASE o < start
    <3>1. o \in after + 1 .. server.first - 1
      BY <1>0, <1>1, <2>1, <2>3
    <3> QED BY <3>1, <1>3
  <2> QED BY <2>2, <2>3, <1>0, <1>1, <2>1
<1>8. ASSUME NEW k \in 1 .. Len(events)
      PROVE  after < events[k] /\ events[k] <= cursor
  <2>1. events # <<>> /\ events[k] \in Int
    BY <1>4
  <2>2. cursor = last /\ start <= events[k] /\ events[k] <= last
    BY <2>1, <1>4
  <2> QED BY <2>1, <2>2, <1>0, <1>1
<1> HIDE DEF cursor, answer
<1> QED BY <1>4, <1>5, <1>6, <1>7, <1>8

LEMMA AnswerKeeps ==
    ASSUME StreamInv, NEW i \in DOMAIN polls, Stream!Answer(i)
    PROVE  StreamInv'
<1>0. /\ StreamTypeOK /\ client \in Clients /\ polls \in Seq(Requests) /\ i \in 1 .. Len(polls)
      /\ fate \in Fates /\ client.cursor \in Int
  BY DEF StreamInv, StreamTypeOK, Clients
<1>1. UNCHANGED <<server, client, heard>>
  BY DEF Stream!Answer
<1>2. CASE ~server.negotiated
  <2>1. polls' = [polls EXCEPT ![i].answer = Stream!Ended] /\ fate' = fate
    BY <1>2 DEF Stream!Answer
  <2>2. Stream!Ended \in Answers /\ ~Stream!Ended.ok
    BY DEF Stream!Ended, Answers
  <2>3. /\ polls' \in Seq(Requests) /\ Len(polls') = Len(polls)
        /\ polls'[i].after = polls[i].after /\ ~polls'[i].answer.ok
        /\ \A k \in 1 .. Len(polls) : k # i => polls'[k] = polls[k]
    BY <1>0, <2>1, <2>2, OneAnswered
  <2>4. StreamTypeOK'
    BY <1>0, <1>1, <2>1, <2>3 DEF StreamTypeOK
  <2>5. OldPolls
    BY <1>0, <2>3 DEF OldPolls
  <2>6. Answered' /\ Given' /\ Continued'
    BY <1>0, <1>1, <2>1, <2>4, <2>5, AnsweredStep, GivenStep, ContinuedStep
  <2>7. OneLoop'
    BY <1>1, <2>1, <2>3 DEF StreamInv, OneLoop
  <2> QED BY <2>4, <2>6, <2>7 DEF StreamInv
<1>3. CASE server.negotiated
  <2> DEFINE a == polls'[i].answer
  <2>1. /\ a \in Answers
        /\ \A o \in polls[i].after + 1 .. a.cursor : o \in fate'.lost \/ Has(a.events, o)
        /\ Increasing(a.events)
        /\ \A k \in 1 .. Len(a.events) : polls[i].after < a.events[k] /\ a.events[k] <= a.cursor
    BY <1>0, <1>3, AnswerIsWhole
  <2>2. /\ polls' \in Seq(Requests) /\ Len(polls') = Len(polls)
        /\ polls'[i].after = polls[i].after
        /\ \A k \in 1 .. Len(polls) : k # i => polls'[k] = polls[k]
    <3>1. PICK b : polls' = [polls EXCEPT ![i].answer = b]
      BY DEF Stream!Answer
    <3>2. b = a
      <4>1. i \in DOMAIN polls /\ polls[i] \in Requests
        BY <1>0
      <4> QED BY <3>1, <4>1 DEF Requests
    <3>3. polls' = [polls EXCEPT ![i].answer = a]
      BY <3>1, <3>2
    <3> HIDE DEF a
    <3> QED BY <1>0, <2>1, <3>3, OneAnswered
  <2>3. /\ fate' \in Fates /\ fate.lost \subseteq fate'.lost
        /\ fate'.crossed = fate.crossed /\ fate'.threw = fate.threw
    <3> DEFINE m == fate.lost \cup (polls[i].after + 1 .. server.first - 1)
    <3>1. m \in SUBSET Int /\ fate.lost \subseteq m
      BY <1>0 DEF StreamTypeOK, Fates, Servers, Requests
    <3>2. fate' = [fate EXCEPT !.lost = m]
      BY <1>3 DEF Stream!Answer
    <3> HIDE DEF m
    <3>3. fate' \in Fates
      BY <1>0, <3>1, <3>2 DEF Fates
    <3> QED BY <1>0, <3>1, <3>2, <3>3 DEF Fates
  <2> HIDE DEF a
  <2>4. StreamTypeOK'
    BY <1>0, <1>1, <2>2, <2>3 DEF StreamTypeOK
  <2>5. Answered'
    <3> SUFFICES ASSUME NEW k \in 1 .. Len(polls')
                 PROVE  polls'[k].after <= client'.cursor /\ Whole(polls[k])'
      BY DEF Answered
    <3>1. polls[k].after <= client.cursor /\ Whole(polls[k])
      BY <2>2 DEF StreamInv, Answered
    <3>2. CASE k = i
      BY <3>1, <3>2, <1>1, <2>1, <2>2 DEF Whole, a
    <3>3. CASE k # i
      BY <3>1, <3>3, <1>1, <2>2, <2>3 DEF Whole
    <3> QED BY <3>2, <3>3
  <2>6. Given'
    BY <1>1, <2>3, GivenStep
  <2>7. OneLoop'
    BY <1>1, <2>2, <2>3 DEF StreamInv, OneLoop
  <2>8. Continued'
    <3> SUFFICES ASSUME ~fate.crossed, ~fate.threw
                 PROVE  \A k \in 1 .. Len(polls') : Fresh(polls[k])'
      BY <1>1, <2>3 DEF StreamInv, Continued
    <3> TAKE k \in 1 .. Len(polls')
    <3>1. Fresh(polls[k])
      BY <2>2 DEF StreamInv, Continued
    <3>2. CASE k = i
      BY <3>1, <3>2, <1>1, <2>1, <2>2 DEF Fresh, a
    <3>3. CASE k # i
      BY <3>1, <3>3, <1>1, <2>2 DEF Fresh
    <3> QED BY <3>2, <3>3
  <2> QED BY <2>4, <2>5, <2>6, <2>7, <2>8 DEF StreamInv
<1> QED BY <1>2, <1>3

\* A poll that ended is gone, and the next timer, if any, is set.
LEMMA RearmedEffect ==
    ASSUME NEW c \in Clients
    PROVE  LET r == Stream!Rearmed(c)
           IN  /\ r \in Clients /\ r.cursor = c.cursor /\ r.listeners = c.listeners
               /\ c.polling # "armed" => r.strays = c.strays
<1> DEFINE p == IF Stream!Polls(c) THEN "armed" ELSE "unset"
           n == Stream!Untracked(c)
<1>1. n \in Nat /\ (c.polling # "armed" => n = c.strays) /\ p \in {"armed", "unset"}
  BY DEF Stream!Untracked, Clients
<1>2. Stream!Rearmed(c) = [c EXCEPT !.strays = n, !.polling = p]
  BY DEF Stream!Rearmed
<1> HIDE DEF n, p
<1> QED BY <1>1, <1>2 DEF Clients

LEMMA PollRemoved ==
    ASSUME StreamTypeOK, OneLoop, NEW i \in 1 .. Len(polls), polls' = Stream!RemoveAt(polls, i),
           NEW c \in Clients, client' = Stream!Rearmed(c),
           c.strays = client.strays, c.polling = client.polling,
           fate'.crossed = fate.crossed
    PROVE  /\ polls' \in Seq(Requests) /\ OldPolls /\ OneLoop'
           /\ client' \in Clients /\ client'.cursor = c.cursor /\ client'.listeners = c.listeners
           /\ ~fate.crossed => Len(polls') = 0
<1>1. polls \in Seq(Requests) /\ Len(polls) \in Nat
  BY DEF StreamTypeOK
<1>2. /\ polls' \in Seq(Requests) /\ Len(polls') = Len(polls) - 1
      /\ \A j \in 1 .. Len(polls) - 1 : \E k \in 1 .. Len(polls) : polls'[j] = polls[k]
  BY <1>1, OneRemoved
<1>3. OldPolls
  BY <1>2 DEF OldPolls
<1>4. /\ client' \in Clients /\ client'.cursor = c.cursor /\ client'.listeners = c.listeners
      /\ c.polling # "armed" => client'.strays = c.strays
  BY RearmedEffect
<1>5. ASSUME ~fate.crossed
      PROVE  client'.strays = 0 /\ Len(polls') = 0
  <2>1. client.strays = 0 /\ Len(polls) <= 1 /\ (Len(polls) = 1 => client.polling /= "armed")
    BY <1>5 DEF OneLoop
  <2>2. Len(polls) = 1
    <3>1. Len(polls) \in Nat /\ Len(polls) >= 1
      BY <1>1
    <3>2. \A n \in Nat : n >= 1 /\ n <= 1 => n = 1
      OBVIOUS
    <3> QED BY <2>1, <3>1, <3>2
  <2> QED BY <1>2, <1>4, <2>1, <2>2
<1> QED BY <1>2, <1>3, <1>4, <1>5 DEF OneLoop

LEMMA PollFailsKeeps ==
    ASSUME StreamInv, NEW i \in DOMAIN polls, Stream!PollFails(i)
    PROVE  StreamInv'
<1>0. StreamTypeOK /\ OneLoop /\ client \in Clients /\ i \in 1 .. Len(polls)
  BY DEF StreamInv, StreamTypeOK
<1>1. /\ client' = Stream!Rearmed(client) /\ polls' = Stream!RemoveAt(polls, i)
      /\ UNCHANGED <<server, heard, fate>>
  BY DEF Stream!PollFails
<1>2. /\ polls' \in Seq(Requests) /\ OldPolls /\ OneLoop' /\ client' \in Clients
      /\ client'.cursor = client.cursor /\ client'.listeners = client.listeners
  BY <1>0, <1>1, PollRemoved
<1>3. StreamTypeOK' /\ client.cursor \in Int
  BY <1>0, <1>1, <1>2 DEF StreamTypeOK, Clients
<1>4. Answered' /\ Given' /\ Continued'
  BY <1>1, <1>2, <1>3, AnsweredStep, GivenStep, ContinuedStep
<1> QED BY <1>2, <1>3, <1>4 DEF StreamInv

\* What a listener is told follows what it heard.
LEMMA ToldEffect ==
    ASSUME StreamTypeOK, NEW ls \in SUBSET Listeners, NEW events \in Seq(Int)
    PROVE  LET t == Stream!Told(ls, events)
           IN  /\ t \in [Listeners -> [from : Int, online : BOOLEAN, events : Seq(Int)]]
               /\ \A l \in Listeners :
                     /\ t[l].from = heard[l].from
                     /\ l \in ls => t[l].events = heard[l].events \o events
                     /\ l \notin ls => t[l] = heard[l]
<1> DEFINE H == [from : Int, online : BOOLEAN, events : Seq(Int)]
           f(l) == [heard[l] EXCEPT !.events = @ \o events]
           t == Stream!Told(ls, events)
<1>1. t = [l \in Listeners |-> IF l \in ls THEN f(l) ELSE heard[l]]
  BY DEF Stream!Told
<1>2. ASSUME NEW l \in Listeners
      PROVE  /\ heard[l] \in H /\ f(l) \in H
             /\ f(l).from = heard[l].from /\ f(l).events = heard[l].events \o events
  <2>1. heard[l] \in H
    BY DEF StreamTypeOK
  <2>2. heard[l].events \o events \in Seq(Int)
    BY <2>1
  <2> QED BY <2>1, <2>2
<1> HIDE DEF f, H, t
<1>3. t \in [Listeners -> H]
  BY <1>1, <1>2
<1>4. ASSUME NEW l \in Listeners
      PROVE  /\ t[l].from = heard[l].from
             /\ l \in ls => t[l].events = heard[l].events \o events
             /\ l \notin ls => t[l] = heard[l]
  BY <1>1, <1>2
<1> QED BY <1>3, <1>4 DEF H, t

LEMMA DeliverKeeps ==
    ASSUME StreamInv, NEW i \in DOMAIN polls, Stream!Deliver(i)
    PROVE  StreamInv'
<1> DEFINE a == polls[i].answer
           c == [client EXCEPT !.cursor = IF a.cursor > @ THEN a.cursor ELSE @]
<1>0. /\ StreamTypeOK /\ OneLoop /\ Answered /\ Given /\ client \in Clients
      /\ polls \in Seq(Requests) /\ i \in 1 .. Len(polls)
  BY DEF StreamInv, StreamTypeOK
<1>1. /\ a.ok /\ heard' = Stream!Told(client.listeners, a.events)
      /\ client' = Stream!Rearmed(c) /\ polls' = Stream!RemoveAt(polls, i)
      /\ UNCHANGED <<server, fate>>
  BY DEF Stream!Deliver
<1>2. /\ polls[i] \in Requests /\ a \in Answers /\ a.events \in Seq(Int) /\ a.cursor \in Int
      /\ polls[i].after \in Int /\ client.cursor \in Int /\ client.listeners \in SUBSET Listeners
  <2>1. polls[i] \in Requests
    BY <1>0
  <2> QED BY <2>1, <1>0 DEF Requests, Answers, Clients
<1>3. /\ c \in Clients /\ c.listeners = client.listeners /\ c.strays = client.strays
      /\ c.polling = client.polling
      /\ c.cursor \in Int /\ c.cursor >= client.cursor /\ c.cursor >= a.cursor
      /\ c.cursor \in {client.cursor, a.cursor}
  <2> DEFINE d == IF a.cursor > client.cursor THEN a.cursor ELSE client.cursor
  <2>1. d \in Int /\ d >= client.cursor /\ d >= a.cursor /\ d \in {client.cursor, a.cursor}
    BY <1>2
  <2>2. c = [client EXCEPT !.cursor = d]
    OBVIOUS
  <2> HIDE DEF d, c
  <2> QED BY <1>0, <2>1, <2>2 DEF Clients
<1> HIDE DEF c
<1>4. /\ polls' \in Seq(Requests) /\ OldPolls /\ OneLoop' /\ client' \in Clients
      /\ client'.cursor = c.cursor /\ client'.listeners = client.listeners
      /\ ~fate.crossed => Len(polls') = 0
  BY <1>0, <1>1, <1>3, PollRemoved
<1>5. /\ heard' \in [Listeners -> [from : Int, online : BOOLEAN, events : Seq(Int)]]
      /\ \A l \in Listeners :
            /\ heard'[l].from = heard[l].from
            /\ l \in client.listeners => heard'[l].events = heard[l].events \o a.events
            /\ l \notin client.listeners => heard'[l] = heard[l]
  BY <1>0, <1>1, <1>2, ToldEffect
<1>6. \A l \in Listeners : heard[l].events \in Seq(Int) /\ heard[l].from \in Int
  BY <1>0 DEF StreamTypeOK
<1>7. StreamTypeOK'
  BY <1>0, <1>1, <1>4, <1>5 DEF StreamTypeOK
<1>8. Answered'
  BY <1>1, <1>3, <1>4, <1>7, AnsweredStep
<1>9. polls[i].after <= client.cursor
      /\ \A o \in polls[i].after + 1 .. a.cursor : o \in fate.lost \/ Has(a.events, o)
  BY <1>0, <1>1 DEF Answered, Whole
<1> HIDE DEF a
<1>10. Given'
  <2> SUFFICES ASSUME NEW l \in client'.listeners, NEW o \in heard'[l].from + 1 .. client'.cursor
               PROVE  o \in fate'.lost \/ Has(heard'[l].events, o)
    BY DEF Given, Has
  <2>1. l \in client.listeners /\ l \in Listeners
    BY <1>2, <1>4
  <2>2. o \in heard[l].from + 1 .. c.cursor
    BY <2>1, <1>4, <1>5
  <2>3. heard'[l].events = heard[l].events \o a.events
    BY <2>1, <1>5
  <2>4. CASE o <= client.cursor
    <3>1. o \in heard[l].from + 1 .. client.cursor
      BY <2>1, <2>2, <2>4, <1>2, <1>3, <1>6
    <3>2. o \in fate.lost \/ Has(heard[l].events, o)
      BY <3>1, <2>1, <1>0 DEF Given
    <3> QED BY <3>2, <2>1, <2>3, <1>1, <1>2, <1>6, HasBoth
  <2>5. CASE o > client.cursor
    <3>1. o \in polls[i].after + 1 .. a.cursor
      BY <2>1, <2>2, <2>5, <1>2, <1>3, <1>6, <1>9
    <3>2. o \in fate.lost \/ Has(a.events, o)
      BY <3>1, <1>9
    <3> QED BY <3>2, <2>1, <2>3, <1>1, <1>2, <1>6, HasBoth
  <2>6. o \in Int
    BY <2>1, <2>2, <1>3, <1>6
  <2> QED BY <2>4, <2>5, <2>6, <1>2
<1>11. Continued'
  <2> SUFFICES ASSUME ~fate.crossed, ~fate.threw, NEW l \in Listeners
               PROVE  /\ Increasing(heard'[l].events)
                      /\ \A k \in 1 .. Len(heard'[l].events) : heard'[l].events[k] <= client'.cursor
    BY <1>1, <1>4 DEF Continued, Increasing
  <2>1. /\ Fresh(polls[i]) /\ Increasing(heard[l].events)
        /\ \A k \in 1 .. Len(heard[l].events) : heard[l].events[k] <= client.cursor
    BY <1>0 DEF StreamInv, Continued
  <2>2. /\ Increasing(a.events)
        /\ \A k \in 1 .. Len(a.events) : client.cursor < a.events[k] /\ a.events[k] <= a.cursor
    BY <2>1, <1>1 DEF Fresh, a
  <2>3. CASE l \in client.listeners
    <3>1. heard'[l].events = heard[l].events \o a.events
      BY <2>3, <1>5
    <3>2. /\ Increasing(heard'[l].events) /\ heard'[l].events \in Seq(Int)
          /\ \A k \in 1 .. Len(heard'[l].events) :
                heard'[l].events[k] <= client.cursor \/ heard'[l].events[k] <= a.cursor
      <4> DEFINE s == heard[l].events
                 t == a.events
                 bound == client.cursor
                 top == a.cursor
      <4>1. s \in Seq(Int) /\ t \in Seq(Int) /\ bound \in Int /\ top \in Int /\ s \o t \in Seq(Int)
        BY <1>2, <1>6
      <4>2. /\ Increasing(s) /\ \A k \in 1 .. Len(s) : s[k] <= bound
            /\ Increasing(t) /\ \A k \in 1 .. Len(t) : bound < t[k] /\ t[k] <= top
        BY <2>1, <2>2
      <4>3. heard'[l].events = s \o t
        BY <3>1
      <4> HIDE DEF s, t, bound, top
      <4>4. /\ Increasing(s \o t)
            /\ \A k \in 1 .. Len(s \o t) : (s \o t)[k] <= bound \/ (s \o t)[k] <= top
        BY <4>1, <4>2, StillIncreasing
      <4> QED BY <4>1, <4>3, <4>4 DEF bound, top
    <3>3. ASSUME NEW k \in 1 .. Len(heard'[l].events)
          PROVE  heard'[l].events[k] <= client'.cursor
      <4>1. heard'[l].events[k] \in Int
        BY <3>2
      <4> QED BY SMTT(30), <4>1, <3>2, <1>2, <1>3, <1>4
    <3> QED BY <3>2, <3>3
  <2>4. CASE l \notin client.listeners
    <3>1. heard'[l] = heard[l]
      BY <2>4, <1>5
    <3>2. ASSUME NEW k \in 1 .. Len(heard'[l].events)
          PROVE  heard'[l].events[k] <= client'.cursor
      <4>1. heard'[l].events[k] \in Int
        BY <3>1, <1>6
      <4> QED BY <4>1, <3>1, <2>1, <1>2, <1>3, <1>4
    <3> QED BY <3>1, <3>2, <2>1
  <2> QED BY <2>3, <2>4
<1> QED BY <1>4, <1>7, <1>8, <1>10, <1>11 DEF StreamInv

LEMMA DeliverThrowsKeeps ==
    ASSUME StreamInv, NEW i \in DOMAIN polls, Stream!DeliverThrows(i)
    PROVE  StreamInv'
<1> DEFINE H == [from : Int, online : BOOLEAN, events : Seq(Int)]
           events == polls[i].answer.events
<1>0. /\ StreamTypeOK /\ OneLoop /\ client \in Clients /\ heard \in [Listeners -> H]
      /\ polls \in Seq(Requests) /\ i \in 1 .. Len(polls) /\ fate \in Fates
      /\ client.listeners \in SUBSET Listeners /\ client.cursor \in Int
  BY DEF StreamInv, StreamTypeOK, Clients
<1>1. /\ client' = Stream!Rearmed(client) /\ polls' = Stream!RemoveAt(polls, i)
      /\ fate' = [fate EXCEPT !.breaks = @ + 1, !.threw = TRUE] /\ server' = server
  BY DEF Stream!DeliverThrows
<1>2. /\ fate' \in Fates /\ fate'.lost = fate.lost /\ fate'.crossed = fate.crossed /\ fate'.threw
  <2>1. fate.breaks + 1 \in Int
    BY <1>0 DEF Fates
  <2>2. fate' \in Fates
    BY <1>0, <1>1, <2>1, FateUpdates
  <2> QED BY <1>0, <1>1, <2>2 DEF Fates
<1>3. /\ polls' \in Seq(Requests) /\ OldPolls /\ OneLoop' /\ client' \in Clients
      /\ client'.cursor = client.cursor /\ client'.listeners = client.listeners
  BY <1>0, <1>1, <1>2, PollRemoved
<1>4. events \in Seq(Int)
  <2>1. polls[i] \in Requests
    BY <1>0
  <2> QED BY <2>1 DEF Requests, Answers
<1>5. PICK n \in 1 .. Len(events), l \in client.listeners :
          heard' = [Stream!Told(client.listeners, SubSeq(events, 1, n - 1))
                      EXCEPT ![l].events = @ \o <<events[n]>>]
  BY DEF Stream!DeliverThrows
<1> DEFINE t == Stream!Told(client.listeners, SubSeq(events, 1, n - 1))
           s == SubSeq(events, 1, n - 1)
           x == <<events[n]>>
<1>6. s \in Seq(Int) /\ x \in Seq(Int)
  BY <1>4
<1> HIDE DEF events
<1>7. /\ t \in [Listeners -> H]
      /\ \A m \in Listeners :
            /\ t[m].from = heard[m].from
            /\ m \in client.listeners => t[m].events = heard[m].events \o s
            /\ m \notin client.listeners => t[m] = heard[m]
  BY <1>0, <1>6, ToldEffect
<1> HIDE DEF s, t, x
<1>8. heard' = [t EXCEPT ![l].events = @ \o x]
  BY <1>5 DEF s, t, x
<1>9. \A m \in Listeners :
          /\ t[m] \in H /\ t[m].events \in Seq(Int) /\ heard[m].events \in Seq(Int)
  BY <1>0, <1>7
<1>10. /\ heard' \in [Listeners -> H]
       /\ \A m \in Listeners :
             /\ heard'[m].from = heard[m].from
             /\ heard'[m].events = t[m].events \/ heard'[m].events = t[m].events \o x
  <2>1. l \in Listeners /\ t[l].events \o x \in Seq(Int)
    BY <1>0, <1>6, <1>9
  <2> DEFINE h == [t[l] EXCEPT !.events = @ \o x]
  <2>2. h \in H /\ h.from = t[l].from /\ h.events = t[l].events \o x
    BY <2>1, <1>9
  <2>3. heard' = [t EXCEPT ![l] = h]
    BY <1>8
  <2> HIDE DEF h, H
  <2> QED BY <2>1, <2>2, <2>3, <1>7
<1>11. StreamTypeOK'
  BY <1>0, <1>1, <1>2, <1>3, <1>10 DEF StreamTypeOK
<1>12. Given'
  <2>1. ASSUME NEW m \in client.listeners, NEW o, Has(heard[m].events, o)
        PROVE  Has(heard'[m].events, o)
    <3>1. m \in Listeners
      BY <1>0
    <3>2. Has(t[m].events, o)
      BY <2>1, <3>1, <1>6, <1>7, <1>9, HasBoth
    <3>3. CASE heard'[m].events = t[m].events
      BY <3>2, <3>3
    <3>4. CASE heard'[m].events = t[m].events \o x
      BY <3>1, <3>2, <3>4, <1>6, <1>9, HasBoth
    <3> QED BY <3>1, <3>3, <3>4, <1>10
  <2> QED BY <2>1, <1>0, <1>2, <1>3, <1>10, GivenStep
<1>13. Answered'
  BY <1>0, <1>2, <1>3, <1>11, AnsweredStep
<1>14. Continued'
  BY <1>2 DEF Continued
<1> QED BY <1>3, <1>11, <1>12, <1>13, <1>14 DEF StreamInv

LEMMA StreamInit == Stream!Init => StreamInv
<1> SUFFICES ASSUME Stream!Init PROVE StreamInv
  OBVIOUS
<1>1. StreamTypeOK
  BY DEF Stream!Init, Stream!None, StreamTypeOK, Servers, Clients, Fates
<1>2. Answered /\ Given /\ OneLoop
  BY DEF Stream!Init, Answered, Given, OneLoop
<1>3. Continued
  BY DEF Stream!Init, Continued, Increasing
<1> QED BY <1>1, <1>2, <1>3 DEF StreamInv

LEMMA StreamStep == StreamInv /\ Stream!Next => StreamInv'
<1> SUFFICES ASSUME StreamInv, Stream!Next PROVE StreamInv'
  OBVIOUS
<1>1. CASE Stream!Push \/ Stream!Connect \/ Stream!Disconnect \/ Stream!OtherDisconnects
  BY <1>1, PushKeeps, ConnectionKeeps
<1>2. CASE Stream!Fire \/ Stream!FireStray
  BY <1>2, FireKeeps, FireStrayKeeps
<1>3. CASE \E l \in Listeners : Stream!Subscribe(l) \/ Stream!Unsubscribe(l)
  BY <1>3, SubscribeKeeps, UnsubscribeKeeps
<1>4. CASE \E i \in DOMAIN polls : \/ Stream!Answer(i) \/ Stream!Unanswered(i) \/ Stream!Deliver(i)
                                   \/ Stream!DeliverThrows(i) \/ Stream!PollFails(i)
  <2>1. PICK i \in DOMAIN polls : \/ Stream!Answer(i) \/ Stream!Unanswered(i) \/ Stream!Deliver(i)
                                  \/ Stream!DeliverThrows(i) \/ Stream!PollFails(i)
    BY <1>4
  <2> QED BY <2>1, AnswerKeeps, UnansweredKeeps, DeliverKeeps, DeliverThrowsKeeps, PollFailsKeeps
<1> QED BY <1>1, <1>2, <1>3, <1>4 DEF Stream!Next

\* ------------------------------------------------------------------ the control of a task
\* What the proofs need of the records of a task: their fields.
Places      == {"idle", "early", "asking", "waiting", "working", "loading", "failing", "settling"}
Words       == {"none", "planning", "awaiting_approval", "mutating", "paused", "completed", "failed",
                "cancelled", "approved", "rejected"}
RunRecords  == [at : Places, by : {"run", "start", "resume"}, decision : Words]
Checkpoints == [state : Words, resumeState : Words]
Askeds      == [standing : {"none", "pause", "cancel"}, calls : Int, overlap : BOOLEAN]

TaskTypeOK == runs \in [Runs -> RunRecords] /\ stored \in Checkpoints /\ asked \in Askeds

\* Unless runs overlapped, one is under way or settling.
OneRun ==
    ~asked.overlap => \A r, q \in Runs : runs[r].at # "idle" /\ runs[q].at # "idle" => r = q

\* Then a cancelled task is worked on by nobody: a resume may yet have to read its checkpoint.
Quiet == {"idle", "settling", "loading"}
CancelledAtRest ==
    ~asked.overlap /\ stored.state = "cancelled" => \A r \in Runs : runs[r].at \in Quiet

TaskInv == TaskTypeOK /\ OneRun /\ CancelledAtRest

LEMMA Vocabulary ==
    /\ \A w \in {"none", "planning", "awaiting_approval", "mutating", "paused", "completed", "failed",
              "cancelled", "approved", "rejected"} : w \in Words
    /\ \A p \in {"idle", "early", "asking", "waiting", "working", "loading", "failing",
                 "settling"} : p \in Places
BY DEF Words, Places

LEMMA StoredRecord ==
    ASSUME NEW s \in Words, NEW r \in Words
    PROVE  Task!Stored(s, r) \in Checkpoints /\ Task!Stored(s, r).state = s
BY DEF Task!Stored, Checkpoints

LEMMA RunRecord ==
    ASSUME NEW p \in Places, NEW b \in {"run", "start", "resume"}
    PROVE  Task!Run(p, b) \in RunRecords /\ Task!Run(p, b).at = p
BY Vocabulary DEF Task!Run, RunRecords

\* A run that goes on keeps who called for it.
LEMMA RunMoves ==
    ASSUME NEW run \in RunRecords, NEW p \in Places, NEW d \in Words
    PROVE  /\ [run EXCEPT !.at = p] \in RunRecords /\ [run EXCEPT !.at = p].at = p
           /\ [run EXCEPT !.at = p, !.decision = d] \in RunRecords
           /\ [run EXCEPT !.at = p, !.decision = d].at = p
           /\ [run EXCEPT !.decision = d] \in RunRecords /\ [run EXCEPT !.decision = d].at = run.at
BY DEF RunRecords

LEMMA TaskInit == Task!Init => TaskInv
<1> SUFFICES ASSUME Task!Init PROVE TaskInv
  OBVIOUS
<1>1. PICK r \in Runs : runs = [q \in Runs |-> Task!Run(IF q = r THEN "early" ELSE "idle", "run")]
  BY DEF Task!Init
<1>2. \A q \in Runs : runs[q] \in RunRecords /\ (q # r => runs[q].at = "idle")
  BY <1>1, RunRecord, Vocabulary
<1>3. runs \in [Runs -> RunRecords]
  BY <1>1, <1>2
<1>4. stored \in Checkpoints /\ stored.state = "planning"
  BY StoredRecord, Vocabulary DEF Task!Init
<1>5. asked \in Askeds
  BY DEF Task!Init, Askeds
<1> QED BY <1>2, <1>3, <1>4, <1>5 DEF TaskInv, TaskTypeOK, OneRun, CancelledAtRest

\* One run moves: the others are idle, so what it does to a cancelled task is all that is done.
LEMMA OneMoves ==
    ASSUME TaskInv, NEW r \in Runs, runs[r].at # "idle",
           NEW run \in RunRecords, runs' = [runs EXCEPT ![r] = run],
           stored' \in Checkpoints, asked' \in Askeds, asked'.overlap = asked.overlap,
           ~asked.overlap /\ stored'.state = "cancelled" => run.at \in Quiet,
           stored.state = "cancelled" /\ runs[r].at \in Quiet => stored'.state = "cancelled"
    PROVE  TaskInv' /\ Task!CancelledStays
<1>1. runs' \in [Runs -> RunRecords] /\ runs'[r] = run
      /\ \A q \in Runs : q # r => runs'[q] = runs[q]
  BY DEF TaskInv, TaskTypeOK
<1>2. TaskTypeOK'
  BY <1>1 DEF TaskTypeOK
<1>3. ~asked.overlap => \A q \in Runs : q # r => runs[q].at = "idle" /\ runs'[q].at = "idle"
  BY <1>1 DEF TaskInv, OneRun
<1>4. OneRun'
  BY <1>3 DEF OneRun
<1>5. CancelledAtRest'
  BY <1>1, <1>3 DEF CancelledAtRest, Quiet
<1>6. Task!CancelledStays
  <2> SUFFICES ASSUME stored.state = "cancelled", ~asked.overlap
               PROVE  stored'.state = "cancelled" /\ \A q \in Runs : runs'[q].at # "working"
    BY DEF Task!CancelledStays
  <2>1. stored'.state = "cancelled"
    BY DEF TaskInv, CancelledAtRest
  <2>2. \A q \in Runs : runs'[q].at \in Quiet
    BY <1>1, <1>3, <2>1 DEF Quiet
  <2> QED BY <2>1, <2>2 DEF Quiet
<1> QED BY <1>2, <1>4, <1>5, <1>6 DEF TaskInv

\* A run returns: it is idle or settles, and the checkpoint has the state it returned, or
\* cancelled.
LEMMA ReturnKeeps ==
    ASSUME TaskInv, NEW r \in Runs, runs[r].at # "idle", NEW s \in Words, NEW t \in Words,
           Task!Return(r, s, t),
           stored.state = "cancelled" /\ runs[r].at \in Quiet => s = "cancelled"
    PROVE  TaskInv' /\ Task!CancelledStays
<1>1. PICK place \in {"idle", "settling"} : Task!Leave(r, place, s)
  BY DEF Task!Return
<1>2. runs' = [runs EXCEPT ![r] = Task!Run(place, "run")] /\ asked' = asked
  BY <1>1 DEF Task!Leave
<1>3. Task!Run(place, "run") \in RunRecords /\ Task!Run(place, "run").at \in Quiet
  BY RunRecord, Vocabulary DEF Quiet
<1>4. stored' = Task!Stored("cancelled", "none") \/ stored' = Task!Stored(s, t)
  BY DEF Task!Return
<1>5. stored' \in Checkpoints /\ stored'.state \in {s, "cancelled"}
  <2>1. CASE stored' = Task!Stored("cancelled", "none")
    BY <2>1, StoredRecord, Vocabulary
  <2>2. CASE stored' = Task!Stored(s, t)
    BY <2>2, StoredRecord
  <2> QED BY <1>4, <2>1, <2>2
<1>6. asked' \in Askeds /\ asked'.overlap = asked.overlap
  BY <1>2 DEF TaskInv, TaskTypeOK
<1>7. stored.state = "cancelled" /\ runs[r].at \in Quiet => stored'.state = "cancelled"
  BY <1>5
<1> HIDE DEF Quiet
<1> QED BY <1>2, <1>3, <1>5, <1>6, <1>7, OneMoves

\* A run that goes on takes the task to a state that is not cancelled, if the task was not.
LEMMA GoesOn ==
    ASSUME TaskInv, NEW r \in Runs, runs[r].at # "idle",
           NEW run \in RunRecords, runs' = [runs EXCEPT ![r] = run],
           NEW s \in Words \ {"cancelled"}, NEW t \in Words, stored' = Task!Stored(s, t),
           asked' \in Askeds, asked'.overlap = asked.overlap,
           runs[r].at \in Quiet => stored.state # "cancelled"
    PROVE  TaskInv' /\ Task!CancelledStays
<1>1. stored' \in Checkpoints /\ stored'.state # "cancelled"
  BY StoredRecord
<1> QED BY <1>1, OneMoves

\* A run that waits for the next answer leaves the checkpoint.
LEMMA WaitsOn ==
    ASSUME TaskInv, NEW r \in Runs, runs[r].at # "idle",
           NEW run \in RunRecords, runs' = [runs EXCEPT ![r] = run], UNCHANGED <<stored, asked>>,
           ~asked.overlap /\ stored.state = "cancelled" => run.at \in Quiet
    PROVE  TaskInv' /\ Task!CancelledStays
<1>1. stored' \in Checkpoints /\ asked' \in Askeds /\ asked'.overlap = asked.overlap
      /\ stored'.state = stored.state
  BY DEF TaskInv, TaskTypeOK
<1> QED BY <1>1, OneMoves

LEMMA TaskUnchanged ==
    TaskInv /\ UNCHANGED <<runs, stored, asked>> => TaskInv' /\ Task!CancelledStays
<1> SUFFICES ASSUME TaskInv, UNCHANGED <<runs, stored, asked>> PROVE TaskInv' /\ Task!CancelledStays
  OBVIOUS
<1>1. TaskInv'
  BY DEF TaskInv, TaskTypeOK, OneRun, CancelledAtRest
<1>2. Task!CancelledStays
  BY DEF TaskInv, CancelledAtRest, Quiet, Task!CancelledStays
<1> QED BY <1>1, <1>2

\* What is thrown ends the process, or the run fails; of a cancelled checkpoint only the former.
LEMMA ThrowsKeeps ==
    ASSUME TaskInv, NEW r \in Runs, Task!Throws(r) PROVE TaskInv' /\ Task!CancelledStays
<1>1. runs[r].at \in {"early", "asking", "working", "loading"} /\ stored' = stored
  BY DEF Task!Throws
<1>2. CASE /\ Task!Held(r) \cap Task!MayFail # {} /\ runs' = [runs EXCEPT ![r] = Task!Run("failing", "run")]
           /\ asked' = asked
  <2>1. Task!Run("failing", "run") \in RunRecords
    BY RunRecord, Vocabulary
  <2>2. ~(~asked.overlap /\ stored.state = "cancelled")
    <3> SUFFICES ASSUME ~asked.overlap, stored.state = "cancelled" PROVE FALSE
      OBVIOUS
    <3>1. runs[r].at = "loading"
      BY <1>1 DEF TaskInv, CancelledAtRest, Quiet
    <3>2. Task!Held(r) = {"cancelled"}
      BY <3>1 DEF Task!Held, Task!At, Task!Target
    <3> QED BY <1>2, <3>2 DEF Task!MayFail
  <2> QED BY <1>1, <1>2, <2>1, <2>2, WaitsOn
<1>3. CASE UNCHANGED <<runs, asked>>
  BY <1>1, <1>3, TaskUnchanged
<1>4. CASE Task!Leave(r, "idle", "failed")
  <2>1. runs' = [runs EXCEPT ![r] = Task!Run("idle", "run")] /\ asked' = asked
    BY <1>4 DEF Task!Leave
  <2>2. Task!Run("idle", "run") \in RunRecords /\ Task!Run("idle", "run").at \in Quiet
    BY RunRecord, Vocabulary DEF Quiet
  <2> QED BY <1>1, <2>1, <2>2, WaitsOn
<1> QED BY <1>2, <1>3, <1>4 DEF Task!Throws

\* A run under way works on no cancelled task, unless runs overlapped.
LEMMA UnderWayKeeps ==
    ASSUME TaskInv, NEW r \in Runs,
           Task!Settle(r) \/ Task!Fail(r) \/ Task!Boundary(r) \/ Task!Ask(r) \/ Task!Work(r)
    PROVE  TaskInv' /\ Task!CancelledStays
<1>0. runs \in [Runs -> RunRecords] /\ runs[r] \in RunRecords /\ asked \in Askeds
  BY DEF TaskInv, TaskTypeOK
<1>1. CASE Task!Settle(r)
  <2>1. runs[r].at # "idle" /\ runs' = [runs EXCEPT ![r] = Task!Run("idle", "run")]
        /\ UNCHANGED <<stored, asked>>
    BY <1>1 DEF Task!Settle, Task!At
  <2>2. Task!Run("idle", "run") \in RunRecords /\ Task!Run("idle", "run").at \in Quiet
    BY RunRecord, Vocabulary DEF Quiet
  <2> QED BY <2>1, <2>2, WaitsOn
<1>2. CASE Task!Fail(r)
  <2>1. runs[r].at = "failing" /\ Task!Return(r, "failed", "none")
    BY <1>2 DEF Task!Fail, Task!At
  <2> QED BY <2>1, ReturnKeeps, Vocabulary DEF Quiet
<1>3. CASE Task!Boundary(r)
  <2>1. runs[r].at = "early"
    BY <1>3 DEF Task!Boundary, Task!At
  <2>2. CASE Task!Return(r, "paused", "planning") \/ Task!Return(r, "completed", "none")
    BY <2>1, <2>2, ReturnKeeps, Vocabulary DEF Quiet
  <2>3. CASE /\ stored' = Task!Stored("awaiting_approval", "none")
             /\ runs' = [runs EXCEPT ![r].at = "asking"] /\ asked' = asked
    <3>1. PICK run : run = [runs[r] EXCEPT !.at = "asking"]
      OBVIOUS
    <3>2. run \in RunRecords
      BY <1>0, <3>1, RunMoves, Vocabulary
    <3>3. runs' = [runs EXCEPT ![r] = run]
      BY <2>3, <3>1
    <3> QED BY <1>0, <2>1, <2>3, <3>2, <3>3, GoesOn, Vocabulary DEF Quiet
  <2> QED BY <1>3, <2>2, <2>3 DEF Task!Boundary
<1>4. CASE Task!Ask(r)
  <2>1. runs[r].at = "asking" /\ UNCHANGED <<stored, asked>>
    BY <1>4 DEF Task!Ask, Task!At
  <2>2. PICK run : run = [runs[r] EXCEPT !.at = "waiting", !.decision = "none"]
    OBVIOUS
  <2>3. run \in RunRecords
    BY <1>0, <2>2, RunMoves, Vocabulary
  <2>4. runs' = [runs EXCEPT ![r] = run]
    BY <1>0, <1>4, <2>2 DEF Task!Ask
  <2>5. ~(~asked.overlap /\ stored.state = "cancelled")
    BY <2>1 DEF TaskInv, CancelledAtRest, Quiet
  <2> QED BY <2>1, <2>3, <2>4, <2>5, WaitsOn
<1>5. CASE Task!Work(r)
  <2>1. runs[r].at = "working"
    BY <1>5 DEF Task!Work, Task!At
  <2>2. \/ Task!Return(r, "paused", "mutating")
        \/ Task!Return(r, "completed", "none") \/ Task!Return(r, "failed", "none")
    BY <1>5 DEF Task!Work
  <2> QED BY <2>1, <2>2, ReturnKeeps, Vocabulary DEF Quiet
<1> QED BY <1>1, <1>2, <1>3, <1>4, <1>5

LEMMA DecidedKeeps ==
    ASSUME TaskInv, NEW r \in Runs, Task!Decided(r) PROVE TaskInv' /\ Task!CancelledStays
<1>0. runs \in [Runs -> RunRecords] /\ runs[r] \in RunRecords /\ asked \in Askeds
  BY DEF TaskInv, TaskTypeOK
<1>1. runs[r].at = "waiting"
  BY DEF Task!Decided, Task!At
<1>2. \/ Task!Return(r, "cancelled", "none") \/ Task!Return(r, "paused", "awaiting_approval")
      \/ /\ stored' = Task!Stored("mutating", "none")
         /\ runs' = [runs EXCEPT ![r].at = "working"] /\ asked' = asked
  BY DEF Task!Decided
<1>3. CASE Task!Return(r, "cancelled", "none") \/ Task!Return(r, "paused", "awaiting_approval")
  BY <1>1, <1>3, ReturnKeeps, Vocabulary DEF Quiet
<1>4. CASE /\ stored' = Task!Stored("mutating", "none")
           /\ runs' = [runs EXCEPT ![r].at = "working"] /\ asked' = asked
  <2>1. PICK run : run = [runs[r] EXCEPT !.at = "working"]
    OBVIOUS
  <2>2. run \in RunRecords
    BY <1>0, <2>1, RunMoves, Vocabulary
  <2>3. runs' = [runs EXCEPT ![r] = run]
    BY <1>4, <2>1
  <2> QED BY <1>0, <1>1, <1>4, <2>2, <2>3, GoesOn, Vocabulary DEF Quiet
<1> QED BY <1>2, <1>3, <1>4

\* resume reads the checkpoint: of a cancelled task it returns what it read.
LEMMA LoadedKeeps ==
    ASSUME TaskInv, NEW r \in Runs, Task!Loaded(r) PROVE TaskInv' /\ Task!CancelledStays
<1>0. /\ runs \in [Runs -> RunRecords] /\ runs[r] \in RunRecords /\ asked \in Askeds
      /\ Task!Target \in Words /\ (stored.state = "cancelled" => Task!Target = "cancelled")
  BY DEF TaskInv, TaskTypeOK, Checkpoints, Task!Target
<1>1. runs[r].at = "loading"
  BY DEF Task!Loaded, Task!At
<1>2. CASE Task!Return(r, Task!Target, "none")
  BY <1>0, <1>1, <1>2, ReturnKeeps, Vocabulary
<1>3. CASE Task!Target \in {"planning", "failed"} /\ Task!Restart(r)
  <2>1. /\ runs' = [runs EXCEPT ![r] = Task!Run("early", "start")]
        /\ stored' = Task!Stored("planning", "none") /\ asked' = [asked EXCEPT !.standing = "none"]
    BY <1>3 DEF Task!Restart
  <2>2. Task!Run("early", "start") \in RunRecords
    BY RunRecord, Vocabulary
  <2>3. asked' \in Askeds /\ asked'.overlap = asked.overlap
    BY <1>0, <2>1 DEF Askeds
  <2>4. stored.state # "cancelled"
    BY <1>0, <1>3
  <2> QED BY <1>1, <2>1, <2>2, <2>3, <2>4, GoesOn, Vocabulary
<1>4. CASE /\ Task!Target \in {"awaiting_approval", "mutating"}
           /\ stored' = Task!Stored(Task!Target, "none") /\ asked' = asked
           /\ runs' = [runs EXCEPT ![r].at = IF Task!Target = "mutating" THEN "working" ELSE "asking"]
  <2>1. PICK run : run = [runs[r] EXCEPT !.at = IF Task!Target = "mutating" THEN "working" ELSE "asking"]
    OBVIOUS
  <2>2. run \in RunRecords
    BY <1>0, <2>1, RunMoves, Vocabulary
  <2>3. runs' = [runs EXCEPT ![r] = run]
    BY <1>4, <2>1
  <2>4. stored.state # "cancelled" /\ Task!Target \in Words \ {"cancelled"}
    BY <1>0, <1>4
  <2> QED BY <1>0, <1>1, <1>4, <2>2, <2>3, <2>4, GoesOn, Vocabulary
<1> QED BY <1>2, <1>3, <1>4 DEF Task!Loaded

\* The calls of the client leave the checkpoint, and every run where it is, but for a resume.
LEMMA ToldKeeps ==
    ASSUME TaskInv, runs' \in [Runs -> RunRecords], \A q \in Runs : runs'[q].at = runs[q].at,
           stored' = stored, asked' \in Askeds, asked'.overlap = asked.overlap
    PROVE  TaskInv' /\ Task!CancelledStays
<1>1. TaskTypeOK'
  BY DEF TaskInv, TaskTypeOK
<1>2. OneRun' /\ CancelledAtRest'
  BY DEF TaskInv, OneRun, CancelledAtRest
<1>3. Task!CancelledStays
  BY DEF TaskInv, CancelledAtRest, Quiet, Task!CancelledStays
<1> QED BY <1>1, <1>2, <1>3 DEF TaskInv

LEMMA ResolvedTold ==
    ASSUME TaskInv, NEW d \in Words
    PROVE  /\ Task!Resolved(d) \in [Runs -> RunRecords]
           /\ \A q \in Runs : Task!Resolved(d)[q].at = runs[q].at
<1>1. runs \in [Runs -> RunRecords]
  BY DEF TaskInv, TaskTypeOK
<1>2. CASE session.resolver = "open"
  <2>1. Task!Resolved(d) = [runs EXCEPT ![session.asker] = [runs[session.asker] EXCEPT !.decision = d]]
    BY <1>2 DEF Task!Resolved
  <2>2. \A q \in Runs : [runs[q] EXCEPT !.decision = d] \in RunRecords
                        /\ [runs[q] EXCEPT !.decision = d].at = runs[q].at
    BY <1>1, RunMoves, Vocabulary
  <2> QED BY <1>1, <2>1, <2>2
<1>3. CASE session.resolver # "open"
  BY <1>1, <1>3 DEF Task!Resolved
<1> QED BY <1>2, <1>3

LEMMA CalledAgain ==
    ASSUME TaskInv, NEW c \in {"none", "pause", "cancel"}, Task!Called(c)
    PROVE  asked' \in Askeds /\ asked'.overlap = asked.overlap
<1>1. asked \in Askeds /\ asked' = [asked EXCEPT !.standing = c, !.calls = @ + 1]
  BY DEF TaskInv, TaskTypeOK, Task!Called
<1>2. asked.calls + 1 \in Int
  BY <1>1 DEF Askeds
<1>3. asked' = [standing |-> c, calls |-> asked.calls + 1, overlap |-> asked.overlap]
  BY <1>1 DEF Askeds
<1> QED BY <1>1, <1>2, <1>3 DEF Askeds

LEMMA CallKeeps ==
    ASSUME TaskInv,
           \/ Task!Pause \/ Task!Cancel \/ Task!Get \/ Task!Refused
           \/ \E d \in {"approved", "rejected"} : Task!Approval(d)
    PROVE  TaskInv' /\ Task!CancelledStays
<1>0. runs \in [Runs -> RunRecords] /\ asked.standing \in {"none", "pause", "cancel"}
  BY DEF TaskInv, TaskTypeOK, Askeds
<1>1. /\ stored' = stored /\ \E c \in {"none", "pause", "cancel"} : Task!Called(c)
      /\ runs' = runs \/ \E d \in Words : runs' = Task!Resolved(d)
  <2>1. CASE Task!Get \/ Task!Refused
    BY <2>1 DEF Task!Get, Task!Refused
  <2>2. CASE Task!Pause \/ Task!Cancel
    BY <2>2, Vocabulary DEF Task!Pause, Task!Cancel, Task!Control
  <2>3. CASE \E d \in {"approved", "rejected"} : Task!Approval(d)
    BY <1>0, <2>3, Vocabulary DEF Task!Approval
  <2> QED BY <2>1, <2>2, <2>3
<1>2. asked' \in Askeds /\ asked'.overlap = asked.overlap
  BY <1>1, CalledAgain
<1>3. runs' \in [Runs -> RunRecords] /\ \A q \in Runs : runs'[q].at = runs[q].at
  BY <1>0, <1>1, ResolvedTold
<1> QED BY <1>1, <1>2, <1>3, ToldKeeps

\* A resume that finds every run idle is the only one; any other is an overlap.
LEMMA ResumeKeeps ==
    ASSUME TaskInv, NEW r \in Runs, Task!Resume(r) PROVE TaskInv' /\ Task!CancelledStays
<1>1. /\ runs' = [runs EXCEPT ![r] = Task!Run("loading", "resume")] /\ stored' = stored
      /\ asked' = [standing |-> "none", calls |-> asked.calls + 1,
                   overlap |-> \E q \in Runs : ~Task!At(q, "idle")]
  BY DEF Task!Resume
<1>2. Task!Run("loading", "resume") \in RunRecords /\ Task!Run("loading", "resume").at = "loading"
  BY RunRecord, Vocabulary
<1>3. runs' \in [Runs -> RunRecords] /\ runs'[r].at = "loading"
      /\ \A q \in Runs : q # r => runs'[q] = runs[q]
  BY <1>1, <1>2 DEF TaskInv, TaskTypeOK
<1>4. asked' \in Askeds /\ (~asked'.overlap => \A q \in Runs : runs[q].at = "idle")
  BY <1>1 DEF TaskInv, TaskTypeOK, Askeds, Task!At
<1>5. TaskTypeOK'
  BY <1>1, <1>3, <1>4 DEF TaskInv, TaskTypeOK
<1>6. OneRun' /\ CancelledAtRest'
  BY <1>3, <1>4 DEF OneRun, CancelledAtRest, Quiet
<1>7. Task!CancelledStays
  BY <1>1, <1>3 DEF TaskInv, CancelledAtRest, Quiet, Task!CancelledStays
<1> QED BY <1>5, <1>6, <1>7 DEF TaskInv

LEMMA TaskStep == TaskInv /\ Task!Next => TaskInv' /\ Task!CancelledStays
<1> SUFFICES ASSUME TaskInv, Task!Next PROVE TaskInv' /\ Task!CancelledStays
  OBVIOUS
<1>1. CASE \E r \in Runs : Task!Moves(r)
  BY <1>1, ThrowsKeeps, UnderWayKeeps, DecidedKeeps, LoadedKeeps DEF Task!Moves
<1>2. CASE \E r \in Runs : Task!Resume(r)
  BY <1>2, ResumeKeeps
<1>3. CASE \/ Task!Pause \/ Task!Cancel \/ Task!Get \/ Task!Refused
           \/ \E d \in {"approved", "rejected"} : Task!Approval(d)
  BY <1>3, CallKeeps
<1> QED BY <1>1, <1>2, <1>3 DEF Task!Next, Task!Working

\* ------------------------------------------------------------------ the server
IInv == (part = "stream" => StreamInv) /\ (part = "task" => TaskInv)

LEMMA StreamUnchanged == StreamInv /\ UNCHANGED streamVars => StreamInv'
BY DEF streamVars, StreamInv, StreamTypeOK, Answered, Whole, Given, OneLoop, Continued, Fresh

LEMMA ServerInit == Init => IInv
BY StreamInit, TaskInit DEF Init, IInv

LEMMA ServerStep ==
    IInv /\ [Next]_vars => IInv' /\ (part = "task" => Task!CancelledStays)
<1> SUFFICES ASSUME IInv, [Next]_vars PROVE IInv' /\ (part = "task" => Task!CancelledStays)
  OBVIOUS
<1>1. CASE part = "stream" /\ Stream!Next /\ UNCHANGED <<part, taskVars>>
  BY <1>1, StreamStep DEF IInv
<1>2. CASE part = "task" /\ Task!Next /\ UNCHANGED <<part, streamVars>>
  BY <1>2, TaskStep DEF IInv
<1>3. CASE UNCHANGED vars
  BY <1>3, StreamUnchanged, TaskUnchanged DEF IInv, vars, taskVars
<1> QED BY <1>1, <1>2, <1>3 DEF Next

LEMMA GivenIsSkippedNone == StreamInv => Stream!NothingSkipped
<1> SUFFICES ASSUME StreamInv, NEW l \in client.listeners, NEW o \in heard[l].from + 1 .. client.cursor
             PROVE  o \in fate.lost \/ o \in Stream!ToSet(heard[l].events)
  BY DEF Stream!NothingSkipped
<1>1. o \in fate.lost \/ Has(heard[l].events, o)
  BY DEF StreamInv, Given
<1>2. heard[l].events \in Seq(Int)
  BY DEF StreamInv, StreamTypeOK, Clients
<1> QED BY <1>1, <1>2 DEF Has, Stream!ToSet

\* The inductive invariant holds in every behaviour: the answers under way are whole, the
\* listeners have what the cursor has passed, and unless a resume was accepted beside another
\* run one run is under way, and none on a cancelled task.
THEOREM ServerInvariant == Spec => []IInv
<1>1. IInv /\ [Next]_vars => IInv'
  BY ServerStep
<1> QED BY ServerInit, <1>1, PTL DEF Spec

\* A listener of one loop of polls is given every event once and in order, for any ring,
\* number of listeners, lost polls and ended connections.
THEOREM EventsOnceInOrder == Spec => []OnceInOrder
<1>1. IInv => OnceInOrder
  BY DEF IInv, StreamInv, Continued, Increasing, OnceInOrder, Stream!OnceInOrder
<1> QED BY ServerInvariant, <1>1, PTL

\* Whatever loops cross and polls fail, a listener has what the cursor has passed, but for
\* the events that had left the ring.
THEOREM EventsNotSkipped == Spec => []NothingSkipped
<1>1. IInv => NothingSkipped
  BY GivenIsSkippedNone DEF IInv, NothingSkipped
<1> QED BY ServerInvariant, <1>1, PTL

\* No call, late approval or settlement works on a cancelled task or changes its checkpoint,
\* however many runs follow one another, unless a resume was accepted before every other run
\* had ended and settled.
THEOREM CancellationIsFinal == Spec => CancelledIsFinal
<1>1. IInv /\ [Next]_vars => [part = "task" => Task!CancelledStays]_vars
  BY ServerStep
<1> QED BY ServerInvariant, <1>1, PTL DEF Spec, CancelledIsFinal
=============================================================================
