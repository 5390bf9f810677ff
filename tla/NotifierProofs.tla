---------------------------- MODULE NotifierProofs ----------------------------
(***************************************************************************)
(* Theorems about Notifier for any stream keys, queue size and number of   *)
(* calls.  The generation of a liveStream is odd exactly while its grace   *)
(* period runs, so the event of a stopped timer, whose generation is odd,  *)
(* never matches a stream that is online.                                  *)
(***************************************************************************)
EXTENDS Notifier, TLAPS

\* The events that enqueue and the timers put into the channel are events.
LEMMA EventTypes ==
    ASSUME NEW k \in Keys, NEW g \in Nat,
           NEW kind \in {"online", "offline", "confirmed"}
    PROVE  [kind |-> kind, key |-> k, generation |-> g] \in Event
  BY DEF Event

Odd(n) == n % 2 = 1

\* Generations alternate between odd and even.
LEMMA OddAlternates ==
    ASSUME NEW n \in Nat
    PROVE  Odd(n + 1) <=> ~Odd(n)
  BY DEF Odd

\* A new liveStream starts at an even generation.
LEMMA ZeroIsEven == ~Odd(0)
  BY DEF Odd

-----------------------------------------------------------------------------
(* Type correctness. *)

\* A stream whose message ID is known has its message in the chat, so that
\* editing it never brings the count below zero.
MessageCounted ==
    \A k \in Keys : Tracked(k) /\ streams[k].messageID => shown[k] >= 1

\* Every variable keeps its type, the channel never holds more than its
\* capacity, and no message is edited that was not posted.
THEOREM TypeCorrect == Spec => [](TypeOK /\ MessageCounted)
<1>1. Init => TypeOK /\ MessageCounted
  BY QueueHasRoom DEF Init, TypeOK, MessageCounted, Tracked
<1>2. TypeOK /\ MessageCounted /\ [Next]_vars => TypeOK' /\ MessageCounted'
  <2> SUFFICES ASSUME TypeOK, MessageCounted, [Next]_vars
               PROVE  TypeOK' /\ MessageCounted'
    OBVIOUS
  <2> USE QueueHasRoom DEF TypeOK, MessageCounted, Tracked, Full
  <2>1. ASSUME NEW k \in Keys, NEW kind \in {"online", "offline"},
               Enqueue(k, kind)
        PROVE  TypeOK' /\ MessageCounted'
    <3>1. [kind |-> kind, key |-> k, generation |-> 0] \in Event
      BY EventTypes
    <3>2. CASE events' = events
      BY <2>1, <3>2 DEF Enqueue
    <3>3. CASE ~Full /\ events' = Append(events, [kind |-> kind, key |-> k,
                                                 generation |-> 0])
      BY <2>1, <3>1, <3>3 DEF Enqueue
    <3> QED
      BY <2>1, <3>2, <3>3 DEF Enqueue
  <2>2. ASSUME NEW t \in armed, Fire(t) PROVE TypeOK' /\ MessageCounted'
    BY <2>2 DEF Fire
  <2>3. ASSUME NEW t \in firing, SendConfirmed(t)
        PROVE  TypeOK' /\ MessageCounted'
    <3>1. [kind |-> "confirmed", key |-> t.key, generation |-> t.generation]
              \in Event
      BY EventTypes DEF Timer
    <3> QED
      BY <2>3, <3>1 DEF SendConfirmed
  <2>4. ASSUME events # <<>>
        PROVE  /\ Head(events) \in Event /\ Head(events).key \in Keys
               /\ Tail(events) \in Seq(Event)
               /\ Len(Tail(events)) <= QueueSize
    <3>1. events \in Seq(Event) /\ events # <<>>
      BY <2>4
    <3>2. Head(events) \in Event /\ Tail(events) \in Seq(Event)
      BY <3>1
    <3>3. Len(Tail(events)) = Len(events) - 1
      BY <3>1
    <3> QED
      BY <3>2, <3>3 DEF Event
  <2>5. CASE HandleOnline
    <3> DEFINE k == Head(events).key
    <3>1. /\ events # <<>> /\ k \in Keys /\ events' = Tail(events)
          /\ UNCHANGED <<serial, firing, calls, up, lost>>
          /\ heard' = [heard EXCEPT ![k] = "online"]
          /\ failed' = failed \/ failed' = failed \cup {k}
      BY <2>4, <2>5 DEF HandleOnline, Receive
    <3>2. CASE streams' = streams /\ armed' = armed /\ shown' = shown
      BY <2>4, <3>1, <3>2
    <3>3. CASE /\ streams[k] # NoStream /\ shown' = shown
               /\ armed' = {t \in armed : t.id # streams[k].timer}
               /\ streams' = [streams EXCEPT ![k] = NextGeneration(@, NoTimer)]
      <4>1. NextGeneration(streams[k], NoTimer) \in LiveStream
        BY <3>1, <3>3 DEF NextGeneration, LiveStream, NoTimer
      <4>2. streams' \in [Keys -> LiveStream \cup {NoStream}]
        BY <3>1, <3>3, <4>1
      <4>3. MessageCounted'
        BY <3>1, <3>3 DEF NextGeneration
      <4> QED
        BY <2>4, <3>1, <3>3, <4>2, <4>3
    <3>4. ASSUME NEW posted \in BOOLEAN, NEW id \in BOOLEAN, id => posted,
                 shown' = [shown EXCEPT ![k] = IF posted THEN @ + 1 ELSE @],
                 streams' = [streams EXCEPT ![k] =
                   [messageID |-> id, timer |-> NoTimer, generation |-> 0]],
                 armed' = armed
          PROVE  TypeOK' /\ MessageCounted'
      <4>1. [messageID |-> id, timer |-> NoTimer, generation |-> 0]
                \in LiveStream
        BY DEF LiveStream, NoTimer
      <4>2. streams' \in [Keys -> LiveStream \cup {NoStream}]
        BY <3>1, <3>4, <4>1
      <4>3. shown' \in [Keys -> Nat] /\ MessageCounted'
        BY <3>1, <3>4
      <4> QED
        BY <2>4, <3>1, <3>4, <4>2, <4>3
    <3> QED
      BY <2>5, <3>2, <3>3, <3>4 DEF HandleOnline
  <2>6. CASE HandleOffline
    <3> DEFINE k == Head(events).key
               timer == [id |-> serial + 1, key |-> k,
                         generation |-> streams[k].generation + 1]
    <3>1. /\ events # <<>> /\ k \in Keys /\ events' = Tail(events)
          /\ UNCHANGED <<firing, shown, calls, up, lost, failed>>
          /\ heard' = [heard EXCEPT ![k] = "offline"]
      BY <2>4, <2>6 DEF HandleOffline, Receive
    <3>2. CASE UNCHANGED <<streams, serial, armed>>
      BY <2>4, <3>1, <3>2
    <3>3. CASE /\ streams[k] # NoStream
               /\ serial' = serial + 1 /\ armed' = armed \cup {timer}
               /\ streams' = [streams EXCEPT ![k] =
                                NextGeneration(@, serial + 1)]
      <4>1. /\ NextGeneration(streams[k], serial + 1) \in LiveStream
            /\ timer \in Timer
        BY <3>1, <3>3 DEF NextGeneration, LiveStream, Timer
      <4>2. streams' \in [Keys -> LiveStream \cup {NoStream}]
        BY <3>1, <3>3, <4>1
      <4>3. MessageCounted'
        BY <3>1, <3>3 DEF NextGeneration
      <4> QED
        BY <2>4, <3>1, <3>3, <4>1, <4>2, <4>3
    <3> QED
      BY <2>6, <3>2, <3>3 DEF HandleOffline
  <2>7. CASE HandleOfflineConfirmed
    <3> DEFINE k == Head(events).key
    <3>1. /\ events # <<>> /\ k \in Keys /\ events' = Tail(events)
          /\ UNCHANGED <<serial, armed, firing, calls, up, heard, lost>>
          /\ failed' = failed \/ failed' = failed \cup {k}
      BY <2>4, <2>7 DEF HandleOfflineConfirmed, Receive
    <3>2. CASE UNCHANGED <<streams, shown>>
      BY <2>4, <3>1, <3>2
    <3>3. ASSUME NEW edited \in BOOLEAN, streams[k] # NoStream,
                 edited => Discord /\ streams[k].messageID,
                 streams' = [streams EXCEPT ![k] = NoStream],
                 shown' = [shown EXCEPT ![k] = IF edited THEN @ - 1 ELSE @]
          PROVE  TypeOK' /\ MessageCounted'
      <4>1. shown' \in [Keys -> Nat]
        BY <3>1, <3>3
      <4>2. streams' \in [Keys -> LiveStream \cup {NoStream}]
        BY <3>1, <3>3
      <4>3. MessageCounted'
        BY <3>1, <3>3
      <4> QED
        BY <2>4, <3>1, <3>3, <4>1, <4>2, <4>3
    <3> QED
      BY <2>7, <3>2, <3>3 DEF HandleOfflineConfirmed
  <2>8. CASE UNCHANGED vars
    BY <2>8 DEF vars
  <2> QED
    BY <2>1, <2>2, <2>3, <2>5, <2>6, <2>7, <2>8 DEF Next, Run
<1> QED
  BY <1>1, <1>2, PTL DEF Spec

-----------------------------------------------------------------------------
(* The parity of generations. *)

Parity ==
    /\ \A k \in Keys : Tracked(k) =>
          /\ InGrace(k) <=> Odd(streams[k].generation)
          /\ InGrace(k) <=> heard[k] = "offline"
    /\ \A t \in armed \cup firing : Odd(t.generation)
    /\ \A i \in 1..Len(events) :
          events[i].kind = "confirmed" => Odd(events[i].generation)

\* The generation of a stream is odd exactly while its grace period runs, and
\* every event of a timer carries an odd generation.
THEOREM ParityInvariant == Spec => []Parity
<1>1. Init => Parity
  BY DEF Init, Parity, Tracked
<1>2. TypeOK /\ Parity /\ [Next]_vars => Parity'
  <2> SUFFICES ASSUME TypeOK, Parity, [Next]_vars
               PROVE  Parity'
    OBVIOUS
  <2> USE DEF Parity, Tracked, InGrace, NoTimer
  <2>0. events \in Seq(Event)
    BY DEF TypeOK
  <2>1. ASSUME NEW k \in Keys, NEW kind \in {"online", "offline"},
               Enqueue(k, kind)
        PROVE  Parity'
    BY SMTT(20), <2>0, <2>1 DEF Enqueue
  <2>2. ASSUME NEW t \in armed, Fire(t) PROVE Parity'
    BY <2>2 DEF Fire
  <2>3. ASSUME NEW t \in firing, SendConfirmed(t) PROVE Parity'
    BY <2>0, <2>3 DEF SendConfirmed
  <2>4. ASSUME events # <<>>
        PROVE  /\ Head(events) = events[1] /\ 1 \in 1..Len(events)
               /\ Head(events).key \in Keys
               /\ \A i \in 1..Len(Tail(events)) :
                     i + 1 \in 1..Len(events) /\ Tail(events)[i] = events[i + 1]
    <3>1. events \in Seq(Event) /\ Len(events) \in Nat /\ Len(events) # 0
      BY <2>0, <2>4
    <3>2. Head(events) = events[1] /\ Head(events) \in Event
      BY <3>1
    <3>3. /\ Len(Tail(events)) = Len(events) - 1
          /\ \A i \in 1..Len(events) - 1 : Tail(events)[i] = events[i + 1]
      BY <3>1
    <3> QED
      BY <3>1, <3>2, <3>3 DEF Event
  <2>5. ASSUME events # <<>>, events' = Tail(events)
        PROVE  \A i \in 1..Len(events') :
                  events'[i].kind = "confirmed" => Odd(events'[i].generation)
    BY <2>4, <2>5
  <2>6. CASE HandleOnline
    <3> DEFINE k == Head(events).key
    <3>1. /\ events # <<>> /\ k \in Keys /\ events' = Tail(events)
          /\ heard' = [heard EXCEPT ![k] = "online"]
          /\ armed' \subseteq armed /\ firing' = firing
      BY <2>4, <2>6 DEF HandleOnline, Receive
    <3>2. CASE streams' = streams /\ (Tracked(k) => streams[k].timer = NoTimer)
               /\ streams[k] # NoStream
      BY <2>5, <3>1, <3>2 DEF TypeOK
    <3>3. CASE /\ streams[k] # NoStream /\ streams[k].timer # NoTimer
               /\ streams' = [streams EXCEPT ![k] = NextGeneration(@, NoTimer)]
      <4>1. streams[k].generation \in Nat
        BY <3>1, <3>3 DEF TypeOK, LiveStream
      <4>2. ~Odd(streams[k].generation + 1)
        BY <3>1, <3>3, <4>1, OddAlternates
      <4> QED
        BY <2>5, <3>1, <3>3, <4>2 DEF TypeOK, NextGeneration
    <3>4. ASSUME NEW id \in BOOLEAN,
                 streams' = [streams EXCEPT ![k] =
                   [messageID |-> id, timer |-> NoTimer, generation |-> 0]]
          PROVE  Parity'
      BY <2>5, <3>1, <3>4, ZeroIsEven DEF TypeOK
    <3> QED
      BY <2>6, <3>2, <3>3, <3>4 DEF HandleOnline
  <2>7. CASE HandleOffline
    <3> DEFINE k == Head(events).key
    <3>1. /\ events # <<>> /\ k \in Keys /\ events' = Tail(events)
          /\ heard' = [heard EXCEPT ![k] = "offline"] /\ firing' = firing
      BY <2>4, <2>7 DEF HandleOffline, Receive
    <3>2. CASE /\ UNCHANGED <<streams, armed>>
               /\ streams[k] = NoStream \/ streams[k].timer # NoTimer
      BY <2>5, <3>1, <3>2 DEF TypeOK
    <3>3. CASE /\ streams[k] # NoStream /\ streams[k].timer = NoTimer
               /\ armed' = armed \cup {[id |-> serial + 1, key |-> k,
                                 generation |-> streams[k].generation + 1]}
               /\ streams' = [streams EXCEPT ![k] =
                                NextGeneration(@, serial + 1)]
      <4>1. streams[k].generation \in Nat /\ serial \in Nat
        BY <3>1, <3>3 DEF TypeOK, LiveStream
      <4>2. Odd(streams[k].generation + 1)
        BY <3>1, <3>3, <4>1, OddAlternates
      <4>3. \A j \in Keys : Tracked(j)' =>
                /\ InGrace(j)' <=> Odd(streams'[j].generation)
                /\ InGrace(j)' <=> heard'[j] = "offline"
        BY <3>1, <3>3, <4>1, <4>2 DEF TypeOK, NextGeneration
      <4> QED
        BY <2>5, <3>1, <3>3, <4>2, <4>3
    <3> QED
      BY <2>7, <3>2, <3>3 DEF HandleOffline
  <2>9. CASE HandleOfflineConfirmed
    <3> DEFINE k == Head(events).key
    <3>1. /\ events # <<>> /\ k \in Keys /\ events' = Tail(events)
          /\ UNCHANGED <<armed, firing, heard>>
          /\ streams' = streams \/ streams' = [streams EXCEPT ![k] = NoStream]
      BY <2>4, <2>9 DEF HandleOfflineConfirmed, Receive
    <3> QED
      BY <2>5, <3>1 DEF TypeOK
  <2>8. CASE UNCHANGED vars
    BY <2>8 DEF vars
  <2> QED
    BY <2>1, <2>2, <2>3, <2>6, <2>7, <2>8, <2>9 DEF Next, Run
<1> QED
  BY <1>1, <1>2, TypeCorrect, PTL DEF Spec

\* Only the confirmation of a timer ends a stream, and only in its grace period.
LEMMA EndsInGrace ==
    ASSUME TypeOK, Parity, [Next]_vars, NEW k \in Keys, Ends(k)
    PROVE  HandleOfflineConfirmed /\ InGrace(k)
<1>1. HandleOfflineConfirmed
  <2>1. streams' # streams
    BY DEF Ends, Tracked
  <2>2. ~HandleOnline
    <3>1. ASSUME HandleOnline
          PROVE  streams'[k] = NoStream => streams[k] = NoStream
      <4>1. \A s \in LiveStream : NextGeneration(s, NoTimer) \in LiveStream
        BY DEF NextGeneration, LiveStream, NoTimer
      <4>2. \A id \in BOOLEAN : [messageID |-> id, timer |-> NoTimer,
                                 generation |-> 0] \in LiveStream
        BY DEF LiveStream, NoTimer
      <4>3. \A j \in Keys : streams[j] # NoStream => streams[j] \in LiveStream
        BY DEF TypeOK
      <4> DEFINE n == Head(events).key
      <4>4. CASE streams' = streams
        BY <4>4
      <4>5. CASE /\ streams[n] # NoStream
                 /\ streams' = [streams EXCEPT ![n] =
                                  NextGeneration(@, NoTimer)]
        BY <4>1, <4>3, <4>5, NoStreamIsNil DEF TypeOK
      <4>6. CASE \E id \in BOOLEAN :
                    streams' = [streams EXCEPT ![n] = [messageID |-> id,
                                   timer |-> NoTimer, generation |-> 0]]
        BY <4>2, <4>6, NoStreamIsNil DEF TypeOK
      <4> QED
        BY <3>1, <4>4, <4>5, <4>6 DEF HandleOnline
    <3> QED
      BY <3>1 DEF Ends, Tracked
  <2>3. ~HandleOffline
    <3>1. ASSUME HandleOffline
          PROVE  streams'[k] = NoStream => streams[k] = NoStream
      <4>1. \A s \in LiveStream : NextGeneration(s, serial + 1) \in LiveStream
        BY DEF NextGeneration, LiveStream, TypeOK
      <4> QED
        BY <3>1, <4>1, NoStreamIsNil DEF HandleOffline, TypeOK
    <3> QED
      BY <3>1 DEF Ends, Tracked
  <2> QED
    BY <2>1, <2>2, <2>3 DEF Next, Run, Enqueue, Fire, SendConfirmed, vars
<1>2. events # <<>> /\ Head(events) = events[1] /\ 1 \in 1..Len(events)
  BY <1>1 DEF HandleOfflineConfirmed, Receive, TypeOK
<1>3. k = Head(events).key /\ streams[k].generation = Head(events).generation
  BY <1>1, <1>2 DEF HandleOfflineConfirmed, Ends, Tracked, TypeOK
<1> QED
  BY <1>1, <1>2, <1>3
     DEF Parity, HandleOfflineConfirmed, Receive, Ends

\* No stream whose publisher run last heard to be online is announced as ended.
THEOREM EndedWhileOffline == Spec => EndedOnlyWhileOffline
<1>1. ASSUME TypeOK, Parity, [Next]_vars, NEW k \in Keys, Ends(k)
      PROVE  heard[k] = "offline"
  BY <1>1, EndsInGrace DEF Parity, Ends
<1>2. TypeOK /\ Parity /\ [Next]_vars
          => [\A k \in Keys : Ends(k) => heard[k] = "offline"]_vars
  BY <1>1
<1> QED
  BY <1>2, TypeCorrect, ParityInvariant, PTL DEF Spec, EndedOnlyWhileOffline

-----------------------------------------------------------------------------
(* The refinement. *)

\* The notifier implements the announcer: no step of it, however late the
\* event of a timer is, moves a stream otherwise than the announcer may.
THEOREM Implements == Spec => AnnouncerSpec
<1> DEFINE phases == [k \in Keys |-> Phase(k)]
<1>1. Init => Abstract!Init
  BY DEF Init, Abstract!Init, Phase, Tracked
<1>2. TypeOK /\ Parity /\ [Next]_vars => [Abstract!Next]_phases
  <2> SUFFICES ASSUME TypeOK, Parity, [Next]_vars
               PROVE  [Abstract!Next]_phases
    OBVIOUS
  <2> USE DEF Phase, Tracked, InGrace, NoTimer
  <2>1. CASE streams' = streams
    BY <2>1
  <2>2. ASSUME NEW n \in Keys, NEW s \in LiveStream,
               streams' = [streams EXCEPT ![n] = s],
               \/ s.timer = NoTimer
               \/ InGrace(n) \/ Phase(n) = "live"
        PROVE  [Abstract!Next]_phases
    <3>1. \A k \in Keys : k # n => Phase(k)' = Phase(k)
      BY <2>2 DEF TypeOK
    <3>0. streams'[n] = s /\ s # NoStream
      BY <2>2, NoStreamIsNil DEF TypeOK
    <3>2. Phase(n)' = IF s.timer = NoTimer THEN "live" ELSE "grace"
      BY <3>0
    <3>3. phases' = [phases EXCEPT ![n] = Phase(n)']
      BY <3>1
    <3>4. CASE phases' = phases
      BY <3>4
    <3>5. CASE phases' # phases
      <4>1. \/ phases[n] = "ended" /\ Phase(n)' = "live"
            \/ phases[n] = "live" /\ Phase(n)' = "grace"
            \/ phases[n] = "grace" /\ Phase(n)' = "live"
        BY <2>2, <3>2, <3>3, <3>5
      <4> QED
        BY <3>3, <4>1 DEF Abstract!Next, Abstract!Moves, Abstract!AnnounceLive,
           Abstract!Disconnect, Abstract!Reconnect
    <3> QED
      BY <3>4, <3>5
  <2>3. ASSUME NEW n \in Keys, InGrace(n),
               streams' = [streams EXCEPT ![n] = NoStream]
        PROVE  [Abstract!Next]_phases
    <3>1. phases' = [phases EXCEPT ![n] = "ended"] /\ phases[n] = "grace"
      <4>1. \A k \in Keys : k # n => Phase(k)' = Phase(k)
        BY <2>3 DEF TypeOK
      <4>2. streams'[n] = NoStream
        BY <2>3 DEF TypeOK
      <4>3. Phase(n)' = "ended" /\ Phase(n) = "grace"
        BY <2>3, <4>2
      <4> QED
        BY <4>1, <4>3
    <3> QED
      BY <3>1 DEF Abstract!Next, Abstract!Moves, Abstract!AnnounceEnded
  <2>4. events # <<>> => Head(events).key \in Keys
    <3>1. events \in Seq(Event)
      BY DEF TypeOK
    <3>2. events # <<>> => Head(events) \in Event
      BY <3>1
    <3> QED
      BY <3>2 DEF Event
  <2> DEFINE n == Head(events).key
  <2>5. CASE HandleOnline
    <3>1. n \in Keys
      BY <2>4, <2>5 DEF HandleOnline, Receive
    <3>2. CASE /\ streams[n] # NoStream
               /\ streams' = [streams EXCEPT ![n] = NextGeneration(@, NoTimer)]
      <4>1. NextGeneration(streams[n], NoTimer) \in LiveStream
        <5>1. streams[n] \in LiveStream
          BY <3>1, <3>2 DEF TypeOK
        <5> QED
          BY <5>1 DEF NextGeneration, LiveStream
      <4>2. NextGeneration(streams[n], NoTimer).timer = NoTimer
        BY DEF NextGeneration
      <4> QED
        BY <2>2, <3>1, <3>2, <4>1, <4>2
    <3>3. ASSUME NEW id \in BOOLEAN,
                 streams' = [streams EXCEPT ![n] =
                   [messageID |-> id, timer |-> NoTimer, generation |-> 0]]
          PROVE  [Abstract!Next]_phases
      <4>1. [messageID |-> id, timer |-> NoTimer, generation |-> 0]
                \in LiveStream
        BY DEF LiveStream
      <4> QED
        BY <2>2, <3>1, <3>3, <4>1
    <3> QED
      BY <2>1, <2>5, <3>2, <3>3 DEF HandleOnline
  <2>6. CASE HandleOffline
    <3>1. n \in Keys
      BY <2>4, <2>6 DEF HandleOffline, Receive
    <3>2. CASE /\ streams[n] # NoStream /\ streams[n].timer = NoTimer
               /\ streams' = [streams EXCEPT ![n] =
                                NextGeneration(@, serial + 1)]
      <4>1. NextGeneration(streams[n], serial + 1) \in LiveStream
        <5>1. streams[n] \in LiveStream /\ serial \in Nat
          BY <3>1, <3>2 DEF TypeOK
        <5> QED
          BY <5>1 DEF NextGeneration, LiveStream
      <4>2. Phase(n) = "live"
        BY <3>2
      <4> QED
        BY <2>2, <3>1, <3>2, <4>1, <4>2
    <3> QED
      BY <2>1, <2>6, <3>2 DEF HandleOffline
  <2>7. CASE HandleOfflineConfirmed
    <3>1. n \in Keys
      BY <2>4, <2>7 DEF HandleOfflineConfirmed, Receive
    <3>2. CASE /\ streams[n] # NoStream
               /\ streams' = [streams EXCEPT ![n] = NoStream]
      <4>1. Ends(n)
        BY <3>1, <3>2 DEF Ends, TypeOK
      <4>2. InGrace(n)
        BY <3>1, <4>1, EndsInGrace
      <4> QED
        BY <2>3, <3>1, <3>2, <4>2
    <3> QED
      BY <2>1, <2>7, <3>2 DEF HandleOfflineConfirmed
  <2> QED
    <3>1. Run \/ streams' = streams
      BY DEF Next, Enqueue, Fire, SendConfirmed, vars
    <3> QED
      BY <2>1, <2>5, <2>6, <2>7, <3>1 DEF Run
<1> QED
  BY <1>1, <1>2, TypeCorrect, ParityInvariant, PTL
     DEF Spec, AnnouncerSpec, Abstract!Spec

-----------------------------------------------------------------------------
(* No stream is stuck in its grace period. *)

\* A timer belongs to at most one stream, and while that stream still holds it
\* the two agree on the generation.
TimersLinked ==
    /\ \A k \in Keys : Tracked(k) => streams[k].timer <= serial
    /\ \A t \in armed \cup firing : t.id > 0 /\ t.id <= serial
    /\ \A t \in armed \cup firing, k \in Keys :
          Tracked(k) /\ t.id = streams[k].timer
              => t.key = k /\ t.generation = streams[k].generation

\* The event in the channel that ends stream k.
EndQueued(k) ==
    \E i \in 1..Len(events) :
        events[i] = [kind |-> "confirmed", key |-> k,
                     generation |-> streams[k].generation]

\* What run does to the events behind the one it takes.
LEMMA Received ==
    ASSUME TypeOK, NEW kind, Receive(kind)
    PROVE  /\ events[1].kind = kind /\ events[1] = Head(events)
           /\ Head(events).key \in Keys
           /\ \A e : (\E i \in 1..Len(events) : events[i] = e) =>
                 e = Head(events) \/ \E i \in 1..Len(events') : events'[i] = e
<1>1. events \in Seq(Event) /\ Len(events) \in Nat /\ Len(events) # 0
  BY DEF TypeOK, Receive
<1>2. Head(events) = events[1] /\ Head(events) \in Event
  BY <1>1
<1>3. /\ Len(events') = Len(events) - 1
      /\ \A i \in 1..Len(events) - 1 : events'[i] = events[i + 1]
  BY <1>1 DEF Receive
<1>4. ASSUME NEW i \in 1..Len(events), events[i] # Head(events)
      PROVE  i - 1 \in 1..Len(events') /\ events'[i - 1] = events[i]
  BY <1>1, <1>2, <1>3, <1>4
<1> QED
  BY <1>2, <1>4 DEF Event, Receive

\* The timer of a stream in its grace period is running, or its goroutine has
\* still to send, or the event that ends the stream is in the channel.
THEOREM GraceEndsAlways == Spec => []GraceEnds
<1> USE DEF Tracked, InGrace, NoTimer
<1>1. Init => TimersLinked /\ GraceEnds
  BY DEF Init, TimersLinked, GraceEnds
<1>2. TypeOK /\ TimersLinked /\ GraceEnds /\ [Next]_vars
          => TimersLinked' /\ GraceEnds'
  <2> SUFFICES ASSUME TypeOK, TimersLinked, GraceEnds, [Next]_vars
               PROVE  TimersLinked' /\ GraceEnds'
    OBVIOUS
  <2>0. events \in Seq(Event) /\ Len(events) \in Nat /\ serial \in Nat
    BY DEF TypeOK
  <2>1. ASSUME NEW k \in Keys, NEW kind \in {"online", "offline"},
               Enqueue(k, kind)
        PROVE  TimersLinked' /\ GraceEnds'
    <3>1. \A i \in 1..Len(events) : i \in 1..Len(events') /\ events'[i] = events[i]
      BY <2>0, <2>1 DEF Enqueue
    <3> QED
      BY <2>1, <3>1 DEF Enqueue, TimersLinked, GraceEnds
  <2>2. ASSUME NEW t \in armed, Fire(t) PROVE TimersLinked' /\ GraceEnds'
    BY <2>2 DEF Fire, TimersLinked, GraceEnds
  <2>3. ASSUME NEW t \in firing, SendConfirmed(t)
        PROVE  TimersLinked' /\ GraceEnds'
    <3> DEFINE e == [kind |-> "confirmed", key |-> t.key,
                     generation |-> t.generation]
    <3>1. \A i \in 1..Len(events) : i \in 1..Len(events') /\ events'[i] = events[i]
      BY <2>0, <2>3 DEF SendConfirmed
    <3>2. Len(events') \in 1..Len(events') /\ events'[Len(events')] = e
      BY <2>0, <2>3 DEF SendConfirmed
    <3>3. TimersLinked'
      BY <2>3 DEF SendConfirmed, TimersLinked
    <3>4. ASSUME NEW k \in Keys, InGrace(k), t.id = streams[k].timer
          PROVE  e = [kind |-> "confirmed", key |-> k,
                      generation |-> streams[k].generation]
      BY <2>3, <3>4 DEF TimersLinked
    <3> QED
      BY <2>3, <3>1, <3>2, <3>3, <3>4 DEF SendConfirmed, GraceEnds
  <2> DEFINE n == Head(events).key
  <2>5. CASE HandleOnline
    <3>1. /\ n \in Keys /\ UNCHANGED <<serial, firing>>
          /\ \A e : (\E i \in 1..Len(events) : events[i] = e)
                        /\ e.kind = "confirmed" =>
                    \E i \in 1..Len(events') : events'[i] = e
      BY <2>5, Received DEF HandleOnline
    <3>2. CASE UNCHANGED <<streams, armed>>
      BY <3>1, <3>2 DEF TimersLinked, GraceEnds
    <3>3. CASE /\ streams[n] # NoStream
               /\ armed' = {t \in armed : t.id # streams[n].timer}
               /\ streams' = [streams EXCEPT ![n] = NextGeneration(@, NoTimer)]
      <4>1. TimersLinked'
        BY <2>0, <3>1, <3>3 DEF TimersLinked, NextGeneration, TypeOK, Timer
      <4>2. ASSUME NEW k \in Keys, InGrace(k)'
            PROVE  k # n /\ streams'[k] = streams[k] /\ InGrace(k)
        BY <3>1, <3>3, <4>2 DEF NextGeneration, TypeOK
      <4>3. ASSUME NEW k \in Keys, InGrace(k), k # n,
                   NEW t \in armed \cup firing, t.id = streams[k].timer
            PROVE  t \in armed' \cup firing'
        BY <3>1, <3>3, <4>3 DEF TimersLinked
      <4> QED
        BY <3>1, <4>1, <4>2, <4>3 DEF GraceEnds
    <3>4. ASSUME NEW id \in BOOLEAN, streams[n] = NoStream, armed' = armed,
                 streams' = [streams EXCEPT ![n] =
                   [messageID |-> id, timer |-> NoTimer, generation |-> 0]]
          PROVE  TimersLinked' /\ GraceEnds'
      <4>1. ASSUME NEW k \in Keys
            PROVE  \/ streams'[k] = streams[k]
                   \/ streams'[k].timer = 0 /\ ~InGrace(k)'
        BY <3>1, <3>4 DEF TypeOK
      <4>2. TimersLinked'
        BY <2>0, <3>1, <3>4, <4>1 DEF TimersLinked, TypeOK, Timer
      <4> QED
        BY <3>1, <3>4, <4>1, <4>2 DEF GraceEnds
    <3> QED
      BY <2>5, <3>2, <3>3, <3>4 DEF HandleOnline
  <2>6. CASE HandleOffline
    <3>1. /\ n \in Keys /\ UNCHANGED firing
          /\ \A e : (\E i \in 1..Len(events) : events[i] = e)
                        /\ e.kind = "confirmed" =>
                    \E i \in 1..Len(events') : events'[i] = e
      <4>1. Receive("offline") /\ UNCHANGED firing
        BY <2>6 DEF HandleOffline
      <4>2. Head(events).kind = "offline"
        BY <4>1 DEF Receive
      <4> QED
        BY <4>1, <4>2, Received
    <3>2. CASE UNCHANGED <<streams, serial, armed>>
      BY <3>1, <3>2 DEF TimersLinked, GraceEnds
    <3>3. ASSUME NEW t, t = [id |-> serial + 1, key |-> n,
                             generation |-> streams[n].generation + 1],
                 streams[n] # NoStream,
                 serial' = serial + 1, armed' = armed \cup {t},
                 streams' = [streams EXCEPT ![n] =
                              NextGeneration(@, serial + 1)]
          PROVE  TimersLinked' /\ GraceEnds'
      <4>1. /\ \A k \in Keys : k # n => streams'[k] = streams[k]
            /\ streams'[n].timer = t.id /\ streams'[n].generation = t.generation
            /\ t.key = n /\ t.id = serial + 1
        BY <3>1, <3>3 DEF NextGeneration, TypeOK
      <4>2. \A k \in Keys : Tracked(k) => streams[k].timer \in Nat
        BY DEF TypeOK, LiveStream
      <4>3. \A u \in armed \cup firing : u.id \in Nat
        BY DEF TypeOK, Timer
      <4>4. TimersLinked'
        BY <2>0, <3>1, <3>3, <4>1, <4>2, <4>3 DEF TimersLinked
      <4> QED
        BY <3>1, <3>3, <4>1, <4>4 DEF GraceEnds
    <3> QED
      BY <2>6, <3>2, <3>3 DEF HandleOffline
  <2>7. CASE HandleOfflineConfirmed
    <3>1. /\ n \in Keys /\ UNCHANGED <<serial, armed, firing>>
          /\ \A e : (\E i \in 1..Len(events) : events[i] = e) =>
                    e = Head(events)
                        \/ \E i \in 1..Len(events') : events'[i] = e
      BY <2>7, Received DEF HandleOfflineConfirmed
    <3>2. CASE /\ streams' = streams
               /\ \/ streams[n] = NoStream
                  \/ streams[n].generation # Head(events).generation
      <4>1. ASSUME NEW k \in Keys, InGrace(k)
            PROVE  Head(events) # [kind |-> "confirmed", key |-> k,
                                   generation |-> streams[k].generation]
        BY <3>2, <4>1
      <4>2. \A k \in Keys : InGrace(k) /\ EndQueued(k) => EndQueued(k)'
        BY <3>1, <3>2, <4>1 DEF EndQueued
      <4> QED
        BY <3>1, <3>2, <4>2 DEF TimersLinked, GraceEnds, EndQueued
    <3>3. CASE streams' = [streams EXCEPT ![n] = NoStream]
      <4>1. /\ streams'[n] = NoStream
            /\ \A k \in Keys : k # n => streams'[k] = streams[k]
        BY <3>1, <3>3 DEF TypeOK
      <4>2. ASSUME NEW k \in Keys, k # n
            PROVE  Head(events) # [kind |-> "confirmed", key |-> k,
                                   generation |-> streams[k].generation]
        BY <4>2
      <4>3. ASSUME NEW k \in Keys, k # n, EndQueued(k)
            PROVE  EndQueued(k)'
        <5> DEFINE e == [kind |-> "confirmed", key |-> k,
                         generation |-> streams[k].generation]
        <5>1. e # Head(events) /\ \E i \in 1..Len(events) : events[i] = e
          BY <4>2, <4>3 DEF EndQueued
        <5>2. \E i \in 1..Len(events') : events'[i] = e
          BY <3>1, <5>1
        <5> QED
          BY <4>1, <4>3, <5>2 DEF EndQueued
      <4> QED
        BY <3>1, <4>1, <4>3 DEF TimersLinked, GraceEnds, EndQueued
    <3> QED
      BY <2>7, <3>2, <3>3 DEF HandleOfflineConfirmed
  <2>8. CASE UNCHANGED vars
    BY <2>8 DEF vars, TimersLinked, GraceEnds
  <2> QED
    BY <2>1, <2>2, <2>3, <2>5, <2>6, <2>7, <2>8 DEF Next, Run
<1> QED
  BY <1>1, <1>2, TypeCorrect, PTL DEF Spec

-----------------------------------------------------------------------------
(* What the chat shows.                                                    *)

\* On Discord every tracked stream has its message ID and its message, unless a
\* request of the stream has failed.
Shown ==
    Discord =>
        \A k \in Keys \ failed :
            /\ Tracked(k) => streams[k].messageID /\ shown[k] = 1
            /\ ~Tracked(k) => shown[k] = 0

\* Each live message is the message of a tracked stream, which is edited when it
\* ends: no stream is shown as live twice, or after its end.
THEOREM OneMessage == Spec => []OneLiveMessage
<1>1. Init => Shown
  BY DEF Init, Shown, Tracked
<1>2. TypeOK /\ Shown /\ [Next]_vars => Shown'
  <2> DEFINE n == Head(events).key
             Right(k) == /\ Tracked(k) => streams[k].messageID /\ shown[k] = 1
                         /\ ~Tracked(k) => shown[k] = 0
             Rightly(k) == /\ streams'[k] # NoStream => streams'[k].messageID /\ shown'[k] = 1
                           /\ streams'[k] = NoStream => shown'[k] = 0
             Goal == \A k \in Keys \ failed' : Rightly(k)
  <2> SUFFICES ASSUME TypeOK, Shown, [Next]_vars, Discord
               PROVE  Goal
    BY DEF Shown, Tracked
  <2> USE DEF Tracked
  <2>0. \A k \in Keys \ failed : Right(k)
    BY DEF Shown, Tracked
  <2>1. ASSUME streams' = streams, shown' = shown, failed' = failed PROVE Goal
    BY <2>0, <2>1
  \* A handler changes the stream of its event only.
  <2>2. ASSUME failed \subseteq failed', n \in Keys,
               \A k \in Keys : k # n => streams'[k] = streams[k] /\ shown'[k] = shown[k],
               n \notin failed' => Rightly(n)
        PROVE  Goal
    <3>1. ASSUME NEW k \in Keys \ failed', k # n PROVE Rightly(k)
      BY <2>0, <2>2, <3>1
    <3> QED
      BY <2>2, <3>1
  \* One that keeps the stream keeps its message.
  <2>3. ASSUME NEW timer \in Nat, shown' = shown, failed' = failed,
               streams[n] # NoStream, n \in Keys,
               streams' = [streams EXCEPT ![n] = NextGeneration(@, timer)]
        PROVE  Goal
    <3>1. \A k \in Keys : k # n => streams'[k] = streams[k] /\ shown'[k] = shown[k]
      BY <2>3 DEF TypeOK
    <3>2. streams'[n] = NextGeneration(streams[n], timer) /\ streams[n] \in LiveStream
      BY <2>3 DEF TypeOK
    <3>3. streams'[n] # NoStream /\ streams'[n].messageID = streams[n].messageID
      BY <2>3, <3>2, NoStreamIsNil DEF NextGeneration, LiveStream
    <3>4. n \notin failed => Rightly(n)
      BY <2>0, <2>3, <3>3
    <3> QED
      BY <2>2, <2>3, <3>1, <3>4
  <2>4. ASSUME NEW kind, Receive(kind) PROVE n \in Keys
    BY <2>4, Received
  <2>5. CASE HandleOnline
    <3>1. CASE streams[n] = NoStream
      <4>1. PICK posted \in BOOLEAN, id \in BOOLEAN :
                /\ failed' = IF posted /\ id = Discord THEN failed ELSE failed \cup {n}
                /\ shown' = [shown EXCEPT ![n] = IF posted THEN @ + 1 ELSE @]
                /\ streams' = [streams EXCEPT ![n] =
                      [messageID |-> id, timer |-> NoTimer, generation |-> 0]]
        BY <2>5, <3>1 DEF HandleOnline
      <4>2. n \in Keys
        BY <2>4, <2>5 DEF HandleOnline
      <4>3. \A k \in Keys : k # n => streams'[k] = streams[k] /\ shown'[k] = shown[k]
        BY <4>1, <4>2 DEF TypeOK
      <4>4. failed \subseteq failed'
        BY <4>1
      <4>5. ASSUME n \notin failed' PROVE Rightly(n)
        <5>1. posted /\ id /\ n \notin failed
          BY <4>1, <4>5
        <5>2. shown'[n] = 1
          BY <2>0, <3>1, <4>1, <4>2, <5>1 DEF TypeOK
        <5>3. streams'[n] = [messageID |-> id, timer |-> NoTimer, generation |-> 0]
          BY <4>1, <4>2 DEF TypeOK
        <5>4. streams'[n] \in LiveStream /\ streams'[n].messageID
          BY <5>1, <5>3 DEF LiveStream, NoTimer
        <5> QED
          BY <5>2, <5>4, NoStreamIsNil
      <4> QED
        BY <2>2, <4>2, <4>3, <4>4, <4>5
    <3>2. CASE streams[n] # NoStream
      <4>1. n \in Keys /\ NoTimer \in Nat
        BY <2>4, <2>5 DEF HandleOnline, NoTimer
      <4>2. /\ shown' = shown /\ failed' = failed
            /\ \/ streams' = streams
               \/ streams' = [streams EXCEPT ![n] = NextGeneration(@, NoTimer)]
        BY <2>5, <3>2 DEF HandleOnline
      <4> QED
        BY <2>1, <2>3, <3>2, <4>1, <4>2
    <3> QED
      BY <3>1, <3>2
  <2>6. CASE HandleOffline
    <3>1. CASE streams' = streams
      BY <2>1, <2>6, <3>1 DEF HandleOffline
    <3>2. CASE streams' # streams
      <4>1. n \in Keys /\ serial + 1 \in Nat
        BY <2>4, <2>6 DEF HandleOffline, TypeOK
      <4>2. /\ shown' = shown /\ failed' = failed /\ streams[n] # NoStream
            /\ streams' = [streams EXCEPT ![n] = NextGeneration(@, serial + 1)]
        BY <2>6, <3>2 DEF HandleOffline
      <4> QED
        BY <2>3, <4>1, <4>2
    <3> QED
      BY <3>1, <3>2
  <2>7. CASE HandleOfflineConfirmed
    <3>1. CASE streams' = streams /\ shown' = shown /\ failed' = failed
      BY <2>1, <3>1
    <3>2. CASE ~(streams' = streams /\ shown' = shown /\ failed' = failed)
      <4>1. streams[n] # NoStream /\ streams' = [streams EXCEPT ![n] = NoStream]
        BY <2>7, <3>2 DEF HandleOfflineConfirmed
      <4>2. PICK edited \in BOOLEAN :
                /\ failed' = IF edited = (Discord /\ streams[n].messageID)
                             THEN failed ELSE failed \cup {n}
                /\ shown' = [shown EXCEPT ![n] = IF edited THEN @ - 1 ELSE @]
        BY <2>7, <3>2 DEF HandleOfflineConfirmed
      <4>3. n \in Keys
        BY <2>4, <2>7 DEF HandleOfflineConfirmed
      <4>4. \A k \in Keys : k # n => streams'[k] = streams[k] /\ shown'[k] = shown[k]
        BY <4>1, <4>2, <4>3 DEF TypeOK
      <4>5. failed \subseteq failed'
        BY <4>2
      <4>6. ASSUME n \notin failed' PROVE Rightly(n)
        <5>1. n \notin failed /\ edited = (Discord /\ streams[n].messageID)
          BY <4>2, <4>6, Zenon
        <5>2. streams[n].messageID /\ shown[n] = 1
          BY <2>0, <4>1, <4>3, <5>1
        <5>3. edited
          BY <5>1, <5>2, Zenon
        <5>4. shown'[n] = 0 /\ streams'[n] = NoStream
          BY <4>1, <4>2, <4>3, <5>2, <5>3 DEF TypeOK
        <5> QED
          BY <5>4
      <4> QED
        BY <2>2, <4>3, <4>4, <4>5, <4>6
    <3> QED
      BY <3>1, <3>2
  <2>8. ASSUME NEW k \in Keys, NEW kind \in {"online", "offline"}, Enqueue(k, kind)
        PROVE  Goal
    BY <2>1, <2>8 DEF Enqueue
  <2>9. ASSUME NEW t, Fire(t) \/ SendConfirmed(t) PROVE Goal
    BY <2>1, <2>9 DEF Fire, SendConfirmed
  <2>10. CASE UNCHANGED vars
    BY <2>1, <2>10 DEF vars
  <2> QED
    BY <2>5, <2>6, <2>7, <2>8, <2>9, <2>10 DEF Next, Run
<1>3. TypeOK /\ Shown => OneLiveMessage
  <2> SUFFICES ASSUME Shown, Discord, NEW k \in Keys \ failed
               PROVE  shown[k] = IF Tracked(k) THEN 1 ELSE 0
    BY DEF OneLiveMessage
  <2>1. /\ Tracked(k) => shown[k] = 1
        /\ ~Tracked(k) => shown[k] = 0
    BY DEF Shown, Tracked
  <2> QED
    BY <2>1
<1> QED
  BY <1>1, <1>2, <1>3, TypeCorrect, PTL DEF Spec

-----------------------------------------------------------------------------
(* At rest the announcement is the truth.                                  *)

Passes(k) == OnlyKeys = {} \/ k \in OnlyKeys

\* An event that says that the publisher of k came or went.
IsReport(e, k) == e.key = k /\ e.kind \in {"online", "offline"}

\* A stream run has last heard to be online is tracked; and what run has last
\* heard, or will hear last of what is in the channel, is what was last said.
HeardTracked == \A k \in Keys : heard[k] = "online" => Tracked(k)

IsLastReport(i, k) ==
    /\ IsReport(events[i], k)
    /\ \A j \in 1..Len(events) : j > i => ~IsReport(events[j], k)

Unreported(k) == \A i \in 1..Len(events) : ~IsReport(events[i], k)

Said(k) ==
    /\ Passes(k) =>
          /\ \A i \in 1..Len(events) : IsLastReport(i, k) => events[i].kind = up[k]
          /\ Unreported(k) => heard[k] = up[k]
    /\ ~Passes(k) => heard[k] = "offline" /\ Unreported(k)

LastSaid == \A k \in Keys \ lost : Said(k)

\* A stream that is online, as far as run knows, is tracked: only a timer ends a
\* stream, and by parity not when it is online.
THEOREM HeardTrackedInvariant == Spec => []HeardTracked
<1>1. Init => HeardTracked
  BY DEF Init, HeardTracked
<1>2. TypeOK /\ Parity /\ HeardTracked /\ [Next]_vars => HeardTracked'
  <2> SUFFICES ASSUME TypeOK, Parity, HeardTracked, [Next]_vars,
                      NEW k \in Keys, heard'[k] = "online"
               PROVE  Tracked(k)'
    BY DEF HeardTracked
  <2>1. CASE Tracked(k)
    <3>1. ASSUME Ends(k) PROVE FALSE
      <4>1. heard' = heard /\ heard[k] = "offline"
        BY <3>1, EndsInGrace DEF Parity, InGrace, HandleOfflineConfirmed
      <4> QED
        BY <4>1
    <3> QED
      BY <2>1, <3>1 DEF Ends, Tracked
  <2>2. CASE ~Tracked(k)
    <3>1. heard[k] # "online"
      BY <2>2 DEF HeardTracked
    <3>2. HandleOnline /\ k = Head(events).key
      BY <3>1 DEF Next, Run, HandleOnline, HandleOffline, HandleOfflineConfirmed,
         Enqueue, Fire, SendConfirmed, vars, TypeOK
    <3>3. \E id \in BOOLEAN : streams'[k] = [messageID |-> id, timer |-> NoTimer,
                                             generation |-> 0]
      BY <2>2, <3>2 DEF HandleOnline, Tracked, TypeOK
    <3> QED
      BY <3>3, NoStreamIsNil DEF LiveStream, NoTimer, Tracked
  <2> QED
    BY <2>1, <2>2
<1> QED
  BY <1>1, <1>2, TypeCorrect, ParityInvariant, PTL DEF Spec

\* The channel keeps the order of the calls, and only a full one loses any.
THEOREM LastSaidInvariant == Spec => []LastSaid
<1>1. Init => LastSaid
  <2>1. ASSUME Init
        PROVE  Len(events) = 0 /\ \A k \in Keys : heard[k] = "offline"
            /\ up[k] = "offline"
    BY <2>1 DEF Init
  <2> QED
    <3>1. ASSUME Init, NEW k \in Keys PROVE Said(k)
      BY <2>1, <3>1 DEF Said, Unreported, IsLastReport
    <3> QED
      BY <3>1 DEF LastSaid
<1>2. TypeOK /\ LastSaid /\ [Next]_vars => LastSaid'
  <2> SUFFICES ASSUME TypeOK, LastSaid, [Next]_vars
               PROVE  LastSaid'
    OBVIOUS
  <2>0. events \in Seq(Event) /\ Len(events) \in Nat
    BY DEF TypeOK
  <2>1. ASSUME NEW n \in Keys, NEW kind \in {"online", "offline"}, Enqueue(n, kind)
        PROVE  LastSaid'
    <3>1. /\ UNCHANGED heard /\ up' = [up EXCEPT ![n] = kind]
          /\ lost \subseteq lost'
      BY <2>1 DEF Enqueue
    <3>2. CASE UNCHANGED events /\ (~Passes(n) \/ n \in lost')
      BY <3>1, <3>2
          DEF LastSaid, Said, Unreported, IsLastReport, IsReport, TypeOK, Passes
    <3>3. CASE /\ Passes(n)
               /\ events' = Append(events, [kind |-> kind, key |-> n, generation |-> 0])
      <4>1. /\ Len(events') = Len(events) + 1
            /\ \A i \in 1..Len(events) : events'[i] = events[i]
            /\ events'[Len(events) + 1] = [kind |-> kind, key |-> n, generation |-> 0]
        BY <2>0, <3>3
      <4>2. IsReport(events'[Len(events) + 1], n)
          /\ events'[Len(events) + 1].kind = kind
        BY <4>1 DEF IsReport
      <4>3. \A k \in Keys : k # n => ~IsReport(events'[Len(events) + 1], k)
        BY <4>1 DEF IsReport
      <4>4. \A k \in Keys, i \in 1..Len(events) : IsReport(events'[i], k)
          <=> IsReport(events[i], k)
        BY <4>1 DEF IsReport
      <4>5. \A i \in 1..Len(events') : i = Len(events) + 1 \/ i \in 1..Len(events)
        BY <2>0, <4>1
      <4>6. \A i \in 1..Len(events) : i \in 1..Len(events') /\ Len(events) + 1 > i
        BY <2>0, <4>1
      <4>7. Len(events) + 1 \in 1..Len(events')
        BY <2>0, <4>1
      <4>8. up'[n] = kind /\ \A k \in Keys : k # n => up'[k] = up[k]
        BY <3>1 DEF TypeOK
      <4> SUFFICES ASSUME NEW k \in Keys \ lost'
                   PROVE  Said(k)'
        BY DEF LastSaid, Said, Unreported, IsLastReport
      <4>9. CASE k = n
        BY <3>3, <4>2, <4>5, <4>6, <4>7, <4>8, <4>9
           DEF Said, Unreported, IsLastReport, Passes
      <4>10. CASE k # n
        BY <3>1, <4>1, <4>3, <4>4, <4>5, <4>6, <4>8, <4>10
            DEF LastSaid, Said, Unreported, IsLastReport, Passes
      <4> QED
        BY <4>9, <4>10
    <3> QED
      BY <2>1, <3>2, <3>3 DEF Enqueue, Passes
  <2>2. ASSUME NEW t \in firing, SendConfirmed(t) PROVE LastSaid'
    <3>1. /\ UNCHANGED <<heard, up, lost>>
          /\ events' = Append(events, [kind |-> "confirmed", key |-> t.key,
                                       generation |-> t.generation])
      BY <2>2 DEF SendConfirmed
    <3>2. /\ Len(events') = Len(events) + 1
          /\ \A i \in 1..Len(events) : events'[i] = events[i]
          /\ events'[Len(events) + 1].kind = "confirmed"
      BY <2>0, <3>1
    <3>3. \A k \in Keys : ~IsReport(events'[Len(events) + 1], k)
      BY <3>2 DEF IsReport
    <3>4. \A k \in Keys, i \in 1..Len(events) : IsReport(events'[i], k)
        <=> IsReport(events[i], k)
      BY <3>2 DEF IsReport
    <3>5. /\ \A i \in 1..Len(events') : i = Len(events) + 1 \/ i \in 1..Len(events)
          /\ \A i \in 1..Len(events) : i \in 1..Len(events')
      BY <2>0, <3>2
    <3> QED
      BY <3>1, <3>2, <3>3, <3>4, <3>5
          DEF LastSaid, Said, Unreported, IsLastReport, Passes
  <2>3. ASSUME NEW kind, Receive(kind), UNCHANGED <<up, lost>>,
               IF kind = "confirmed" THEN heard' = heard
               ELSE /\ kind \in {"online", "offline"}
                    /\ heard' = [heard EXCEPT ![Head(events).key] = kind]
        PROVE  LastSaid'
    <3> DEFINE n == Head(events).key
    <3>1. n \in Keys /\ events[1].kind = kind /\ events[1].key = n /\ Len(events) >= 1
      BY <2>0, <2>3, Received DEF Receive
    <3>2. /\ Len(events') = Len(events) - 1
          /\ \A i \in 1..Len(events) - 1 : events'[i] = events[i + 1]
      BY <2>0, <2>3 DEF Receive
    <3>3. \A k \in Keys, i \in 1..Len(events') : IsReport(events'[i], k)
        <=> IsReport(events[i + 1], k)
      BY <3>2 DEF IsReport
    <3>4. \A i \in 1..Len(events') :
              i + 1 \in 1..Len(events) /\ events'[i] = events[i + 1]
      BY <2>0, <3>1, <3>2
    <3>5. \A j \in 1..Len(events) : j = 1 \/ (j - 1 \in 1..Len(events')
        /\ j = (j - 1) + 1)
      BY <2>0, <3>2
    <3> SUFFICES ASSUME NEW k \in Keys \ lost
                 PROVE  Said(k)'
      BY <2>3 DEF LastSaid, Said, Unreported, IsLastReport
    <3>6. \A j \in 2..Len(events) : IsReport(events[j], k)
        => IsReport(events'[j - 1], k)
      BY <2>0, <3>2, <3>3
    <3>7. CASE ~Passes(k)
      <4>1. heard[k] = "offline" /\ \A i \in 1..Len(events) : ~IsReport(events[i], k)
        BY <3>7 DEF LastSaid, Said, Unreported, IsLastReport
      <4>2. ~IsReport(events[1], k)
        BY <2>0, <3>1, <4>1
      <4>3. heard'[k] = heard[k]
        BY <2>3, <3>1, <4>2 DEF IsReport, TypeOK
      <4> QED
        BY <3>3, <3>4, <3>7, <4>1, <4>3 DEF Said, Unreported, Passes
    <3>8. CASE Passes(k)
      <4>1. ASSUME NEW i \in 1..Len(events'), IsReport(events'[i], k),
                   \A j \in 1..Len(events') : j > i => ~IsReport(events'[j], k)
            PROVE  events'[i].kind = up'[k]
        <5>1. IsReport(events[i + 1], k) /\ i + 1 \in 1..Len(events)
          BY <3>3, <3>4, <4>1
        <5>2. ASSUME NEW j \in 1..Len(events), j > i + 1 PROVE ~IsReport(events[j], k)
          BY <2>0, <3>2, <3>6, <4>1, <5>2
        <5>3. events[i + 1].kind = up[k]
          BY <3>8, <5>1, <5>2 DEF LastSaid, Said, Unreported, IsLastReport
        <5> QED
          BY <2>3, <3>4, <5>3
      <4>2. ASSUME \A i \in 1..Len(events') : ~IsReport(events'[i], k)
            PROVE  heard'[k] = up'[k]
        <5>1. \A j \in 1..Len(events) : j > 1 => ~IsReport(events[j], k)
          BY <2>0, <3>2, <3>6, <4>2
        <5>2. CASE IsReport(events[1], k)
          <6>1. events[1].kind = up[k]
            BY <2>0, <3>1, <3>8, <5>1, <5>2 DEF LastSaid, Said, Unreported, IsLastReport
          <6> QED
            BY <2>3, <3>1, <5>2, <6>1 DEF IsReport, TypeOK
        <5>3. CASE ~IsReport(events[1], k)
          <6>1. heard[k] = up[k]
            <7>1. \A j \in 1..Len(events) : ~IsReport(events[j], k)
              BY <2>0, <5>1, <5>3
            <7> QED
              BY <3>8, <7>1 DEF LastSaid, Said, Unreported, IsLastReport
          <6> QED
            BY <2>3, <3>1, <5>3, <6>1 DEF IsReport, TypeOK
        <5> QED
          BY <5>2, <5>3
      <4> QED
        BY <3>8, <4>1, <4>2 DEF Said, Unreported, IsLastReport, Passes
    <3> QED
      BY <3>7, <3>8
  <2>4. CASE Run
    BY <2>3, <2>4 DEF Run, HandleOnline, HandleOffline, HandleOfflineConfirmed
  <2>5. ASSUME NEW t, Fire(t) PROVE LastSaid'
    BY <2>5 DEF Fire, LastSaid, Said, Unreported, IsLastReport, IsReport, Passes
  <2>6. CASE UNCHANGED vars
    BY <2>6 DEF vars, LastSaid, Said, Unreported, IsLastReport, IsReport, Passes
  <2> QED
    BY <2>1, <2>2, <2>4, <2>5, <2>6 DEF Next
<1> QED
  BY <1>1, <1>2, TypeCorrect, PTL DEF Spec

\* At rest exactly the streams that are online, as last said, are announced as
\* live, whatever the timers did, unless an event was dropped.
THEOREM AnnouncedRight == Spec => []AnnouncedAtRest
<1>1. ASSUME TypeOK, Parity, GraceEnds, HeardTracked, LastSaid, AtRest,
             NEW k \in Keys \ lost
      PROVE  Tracked(k) <=> up[k] = "online" /\ Passes(k)
  <2>1. Len(events) = 0
    BY <1>1 DEF AtRest
  <2>2. ~InGrace(k)
    BY <1>1, <2>1 DEF GraceEnds, AtRest
  <2>3. Tracked(k) <=> heard[k] = "online"
    BY <1>1, <2>2 DEF Parity, HeardTracked, TypeOK
  <2> QED
    BY <1>1, <2>1, <2>3 DEF LastSaid, Said, Unreported, IsLastReport
<1>2. TypeOK /\ Parity /\ GraceEnds /\ HeardTracked /\ LastSaid => AnnouncedAtRest
  BY <1>1 DEF AnnouncedAtRest, Passes
<1> QED
  BY <1>2, TypeCorrect, ParityInvariant, GraceEndsAlways, HeardTrackedInvariant,
     LastSaidInvariant, PTL

=============================================================================
