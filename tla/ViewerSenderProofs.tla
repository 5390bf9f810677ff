-------------------------- MODULE ViewerSenderProofs --------------------------
(***************************************************************************)
(* Theorems about ViewerSender for any layers, priorities and queue size.  *)
(***************************************************************************)
EXTENDS ViewerSender, Integers, TLAPS

-----------------------------------------------------------------------------
(* Type correctness. *)

\* Every variable keeps its type, the queue its bound, and runSender only ever
\* takes a packet to the keyframe test that is one of video.
THEOREM TypeCorrect == Spec => []TypeOK
<1>1. Init => TypeOK
  <2>1. <<>> \in Seq(Packet \cup {Audio}) /\ Len(<<>>) = 0
    OBVIOUS
  <2>2. Init => waiting \in BOOLEAN /\ explicit \in BOOLEAN
                /\ masked \in BOOLEAN /\ switched \in BOOLEAN
    BY Zenon DEF Init
  <2> QED
    BY <2>1, <2>2, BoundsAreNat DEF Init, TypeOK
<1>2. TypeOK /\ [Next]_vars => TypeOK'
  <2> SUFFICES ASSUME TypeOK, [Next]_vars
               PROVE  TypeOK'
    OBVIOUS
  <2> USE BoundsAreNat, PrioritiesAreSet DEF TypeOK
  <2>1. ASSUME NEW l \in Layers, ReadPacket(l) PROVE TypeOK'
    <3>1. layer' \in Layers \cup {NoLayer} /\ priority' \in Nat
          /\ waiting' \in BOOLEAN /\ switched' \in BOOLEAN
      BY <2>1 DEF ReadPacket, TakesLayer
    <3>2. /\ produced' \in [Layers -> Nat]
          /\ chosen' \in [Layers -> Packet \cup {NoPacket}]
      BY <2>1 DEF ReadPacket, Packet
    <3> QED
      BY <2>1, <3>1, <3>2 DEF ReadPacket
  <2>2. ASSUME NEW l \in Layers, QueueVideoPacket(l) PROVE TypeOK'
    <3>1. chosen[l] \in Packet
      BY <2>2 DEF QueueVideoPacket
    <3>2. CASE Full
      BY <2>2, <3>2 DEF QueueVideoPacket, KeyframeAhead
    <3>3. CASE ~Full
      <4>1. sendQueue' = Append(sendQueue, chosen[l])
        BY <2>2, <3>3 DEF QueueVideoPacket
      <4>2. /\ sendQueue' \in Seq(Packet \cup {Audio})
            /\ Len(sendQueue') <= QueueSize
        BY <3>1, <3>3, <4>1 DEF Full
      <4> QED
        BY <2>2, <3>3, <4>2 DEF QueueVideoPacket
    <3> QED
      BY <3>2, <3>3
  <2>3. CASE QueueAudioPacket
    <3>1. /\ sendQueue' \in Seq(Packet \cup {Audio})
          /\ Len(sendQueue') <= QueueSize
      BY <2>3 DEF QueueAudioPacket, Full
    <3> QED
      BY <2>3, <3>1 DEF QueueAudioPacket
  <2>4. CASE Take
    <3>1. sendQueue \in Seq(Packet \cup {Audio}) /\ sendQueue # <<>>
      BY <2>4 DEF Take
    <3>2. /\ Head(sendQueue) \in Packet \cup {Audio}
          /\ Tail(sendQueue) \in Seq(Packet \cup {Audio})
          /\ Len(Tail(sendQueue)) = Len(sendQueue) - 1
      BY <3>1
    <3>3. /\ sendQueue' \in Seq(Packet \cup {Audio})
          /\ Len(sendQueue') <= QueueSize
      BY <2>4, <3>1, <3>2 DEF Take
    <3> QED
      BY <2>4, <3>2, <3>3 DEF Take
  <2>5. CASE CheckKeyframe
    BY <2>5 DEF CheckKeyframe
  <2>6. CASE ClearWaiting \/ WriteVideo
    BY <2>6 DEF ClearWaiting, WriteVideo
  <2>7. ASSUME NEW l \in Layers \cup {NoLayer}, SetVideoLayer(l) PROVE TypeOK'
    BY <2>7 DEF SetVideoLayer
  <2>8. CASE MarkWaiting
    BY <2>8 DEF MarkWaiting
  <2>9. CASE SetAudioLayer
    BY <2>9 DEF SetAudioLayer
  <2>10. CASE ResetForNewPublisher
    <3>1. waiting' \in BOOLEAN /\ explicit' \in BOOLEAN
          /\ switched' \in BOOLEAN
      BY <2>10, Zenon DEF ResetForNewPublisher
    <3> QED
      BY <2>10, <3>1 DEF ResetForNewPublisher
  <2>11. CASE UNCHANGED vars
    BY <2>11 DEF vars
  <2> QED
    BY <2>1, <2>2, <2>3, <2>4, <2>5, <2>6, <2>7, <2>8, <2>9, <2>10, <2>11
       DEF Next
<1> QED
  BY <1>1, <1>2, PTL DEF Spec

-----------------------------------------------------------------------------
(* The first video packet. *)

KeyframeFirst ==
    /\ step = "clear" => hand.keyframe
    /\ sent = NoPacket => /\ waiting \/ step = "send"
                          /\ step = "send" => hand.keyframe

\* Until a first packet has been written the viewer waits for a keyframe, or
\* runSender has just cleared the flag for the one it holds: every other writer
\* of the flag sets it.
THEOREM KeyframeFirstInvariant == Spec => []KeyframeFirst
<1>1. Init => KeyframeFirst
  BY DEF Init, KeyframeFirst
<1>2. TypeOK /\ KeyframeFirst /\ [Next]_vars => KeyframeFirst'
  <2> SUFFICES ASSUME TypeOK, KeyframeFirst, [Next]_vars
               PROVE  KeyframeFirst'
    OBVIOUS
  <2> USE DEF KeyframeFirst
  <2>1. ASSUME NEW l \in Layers, ReadPacket(l) \/ QueueVideoPacket(l)
        PROVE  KeyframeFirst'
    <3>1. waiting => waiting'
      BY <2>1 DEF ReadPacket, QueueVideoPacket
    <3>2. UNCHANGED <<step, hand, sent>>
      BY <2>1 DEF ReadPacket, QueueVideoPacket
    <3> QED
      BY <3>1, <3>2
  <2>2. CASE QueueAudioPacket
    BY <2>2 DEF QueueAudioPacket
  <2>3. CASE Take
    BY <2>3 DEF Take
  <2>4. CASE CheckKeyframe
    BY <2>4 DEF CheckKeyframe, TypeOK
  <2>5. CASE ClearWaiting
    BY <2>5 DEF ClearWaiting
  <2>6. CASE WriteVideo
    BY <2>6, NilsDiffer DEF WriteVideo, TypeOK
  <2>7. ASSUME NEW l \in Layers \cup {NoLayer}, SetVideoLayer(l)
        PROVE  KeyframeFirst'
    BY <2>7 DEF SetVideoLayer
  <2>8. CASE MarkWaiting \/ SetAudioLayer \/ ResetForNewPublisher
    BY <2>8 DEF MarkWaiting, SetAudioLayer, ResetForNewPublisher
  <2>9. CASE UNCHANGED vars
    BY <2>9 DEF vars
  <2> QED
    BY <2>1, <2>2, <2>3, <2>4, <2>5, <2>6, <2>7, <2>8, <2>9 DEF Next
<1> QED
  BY <1>1, <1>2, TypeCorrect, PTL DEF Spec

\* Whatever is dropped and whatever layers change before it, the first video
\* packet a viewer gets is a keyframe.
THEOREM FirstKeyframe == Spec => FirstIsKeyframe
<1>1. KeyframeFirst => [WriteVideo /\ sent = NoPacket => hand.keyframe]_vars
  BY DEF KeyframeFirst, WriteVideo
<1> QED
  BY <1>1, KeyframeFirstInvariant, PTL DEF FirstIsKeyframe

-----------------------------------------------------------------------------
(* The automatic choice of the layer. *)

\* The priority kept for a viewer is 0 or that of its layer.
PriorityKept == priority # 0 => layer \in Layers /\ priority = Priority[layer]

\* Layer and priority are written under one lock, so they agree.
THEOREM PriorityKeptInvariant == Spec => []PriorityKept
<1>1. Init => PriorityKept
  BY DEF Init, PriorityKept
<1>2. TypeOK /\ PriorityKept /\ [Next]_vars => PriorityKept'
  BY PrioritiesAreSet
     DEF TypeOK, PriorityKept, Next, vars, ReadPacket, TakesLayer,
         QueueVideoPacket, QueueAudioPacket, Take, CheckKeyframe, ClearWaiting,
         WriteVideo, SetVideoLayer, MarkWaiting, SetAudioLayer,
         ResetForNewPublisher
<1> QED
  BY <1>1, <1>2, TypeCorrect, PTL DEF Spec

\* Whichever writer is faster, the automatic choice never moves a viewer to a
\* layer that is not better, once its priority is known.
THEOREM OnlyToBetterLayer == Spec => NeverToWorseLayer
<1>1. ASSUME TypeOK, PriorityKept, [Next]_vars, changes' = changes,
             layer' # layer, layer # NoLayer
      PROVE  explicit = FALSE
             /\ (priority = 0 \/ Priority[layer'] < Priority[layer])
  <2>1. PICK l \in Layers : ReadPacket(l)
    BY <1>1 DEF TypeOK, Next, vars, QueueVideoPacket, QueueAudioPacket, Take,
       CheckKeyframe, ClearWaiting, WriteVideo, SetVideoLayer, MarkWaiting,
       SetAudioLayer, ResetForNewPublisher
  <2> QED
    BY <1>1, <2>1 DEF ReadPacket, TakesLayer, PriorityKept, TypeOK
<1>2. TypeOK /\ PriorityKept /\ [Next]_vars
         => [changes' = changes /\ layer' # layer /\ layer # NoLayer
                => explicit = FALSE
                   /\ (priority = 0 \/ Priority[layer'] < Priority[layer])]_vars
  BY <1>1
<1> QED
  BY <1>2, TypeCorrect, PriorityKeptInvariant, PTL DEF Spec, NeverToWorseLayer

-----------------------------------------------------------------------------
(* After packets were dropped. *)

\* The number of the last packet of the layer that has been queued or dropped.
Handled == IF chosen[layer] = NoPacket THEN produced[layer] ELSE produced[layer] - 1

Queued == {i \in 1..Len(sendQueue) : sendQueue[i] # Audio}

\* While the layer stays, all that is on its way is of that layer.
OneLayer ==
    /\ \A l \in Layers : chosen[l] # NoPacket =>
           l = layer /\ chosen[l].layer = l /\ chosen[l].n = produced[l]
    /\ \A i \in Queued : sendQueue[i].layer = layer
    /\ step # "idle" => hand.layer = layer
    /\ sent # NoPacket => sent.layer = layer

\* Packets are sent in the order of their numbers.
Sorted ==
    /\ \A i, j \in Queued : i < j => sendQueue[i].n < sendQueue[j].n
    /\ \A i \in Queued : /\ sendQueue[i].n <= Handled
                         /\ step # "idle" => hand.n < sendQueue[i].n
                         /\ sent # NoPacket => sent.n < sendQueue[i].n
    /\ step # "idle" => hand.n <= Handled /\ (sent # NoPacket => sent.n < hand.n)
    /\ sent # NoPacket => sent.n <= Handled

\* Packet n has still to be looked at or acted upon.
Ahead(n) ==
    \/ \E i \in Queued : sendQueue[i].n = n
    \/ step \in {"check", "clear"} /\ hand.n = n

\* Nothing after packet b was dropped.
Complete(b) == \A n \in 1..Handled : b < n => Ahead(n)

\* Nothing was dropped after the last packet, when the viewer does not wait, nor
\* after a keyframe that will end its waiting.
NoneMissing ==
    /\ ~waiting /\ step \in {"idle", "check"} => Complete(sent.n)
    /\ ~waiting /\ step = "send" => Complete(hand.n)
    /\ step = "clear" \/ (step = "check" /\ hand.keyframe) => Complete(hand.n)
    /\ \A i \in Queued : sendQueue[i].keyframe => Complete(sendQueue[i].n)
    /\ step = "send" => Decodable(hand)

\* As long as the layer stays and no keyframe was ahead of a packet that was dropped.
Resuming == ~switched => OneLayer /\ Sorted /\ (~masked => NoneMissing)

\* A step that only makes the viewer wait, or does nothing to what is on its way.
LEMMA OnItsWay ==
    ASSUME Sorted, UNCHANGED <<sendQueue, hand, step, sent, Handled>>, waiting => waiting'
    PROVE  Sorted' /\ (NoneMissing => NoneMissing')
<1>1. Queued' = Queued /\ (\A n : Ahead(n)' <=> Ahead(n))
  BY DEF Queued, Ahead
<1>2. \A b : Complete(b) => Complete(b)'
  BY <1>1 DEF Complete
<1>3. Sorted'
  BY <1>1 DEF Sorted
<1>4. step = "send" /\ Decodable(hand) => Decodable(hand)'
  BY DEF Decodable
<1> QED
  BY <1>1, <1>2, <1>3, <1>4 DEF NoneMissing

\* What is queued is a packet of the layer.
LEMMA WhatIsQueued ==
    ASSUME TypeOK
    PROVE  /\ \A i \in Queued : sendQueue[i] \in Packet /\ i \in Nat /\ i <= Len(sendQueue)
           /\ \A p \in Packet : p.n \in Nat /\ p.layer \in Layers /\ p.keyframe \in BOOLEAN
           /\ step # "idle" => hand \in Packet
           /\ sent # NoPacket => sent \in Packet
           /\ layer \in Layers => Handled \in Int
BY DEF TypeOK, Queued, Packet, Handled

\* Nothing is missing before what is sent next, in every state.
THEOREM ResumingInvariant == Spec => []Resuming
<1>1. Init => Resuming
  <2> SUFFICES ASSUME Init PROVE Resuming
    OBVIOUS
  <2>1. Queued = {} /\ step = "idle" /\ sent = NoPacket /\ waiting
    BY DEF Init, Queued
  <2>2. \A l \in Layers : chosen[l] = NoPacket
    BY DEF Init
  <2> QED
    BY <2>1, <2>2 DEF Resuming, OneLayer, Sorted, NoneMissing
<1>2. TypeOK /\ KeyframeFirst /\ Resuming /\ [Next]_vars => Resuming'
  <2> SUFFICES ASSUME TypeOK, KeyframeFirst, Resuming, [Next]_vars, ~switched'
               PROVE  OneLayer' /\ Sorted' /\ (~masked' => NoneMissing')
    BY DEF Resuming
  <2>0. /\ ~switched /\ OneLayer /\ Sorted /\ (~masked => NoneMissing)
    <3>1. ~switched
      BY DEF Next, vars, ReadPacket, QueueVideoPacket, QueueAudioPacket, Take,
         CheckKeyframe, ClearWaiting, WriteVideo, SetVideoLayer, MarkWaiting,
         SetAudioLayer, ResetForNewPublisher
    <3> QED
      BY <3>1 DEF Resuming
  <2>1. ASSUME NEW l \in Layers, ReadPacket(l)
        PROVE  OneLayer' /\ Sorted' /\ (~masked' => NoneMissing')
    <3>1. /\ UNCHANGED <<sendQueue, hand, step, sent, masked>> /\ chosen[l] = NoPacket
          /\ produced' = [produced EXCEPT ![l] = @ + 1]
          /\ layer' = (IF TakesLayer(l) THEN l ELSE layer)
          /\ waiting' = (waiting \/ TakesLayer(l))
          /\ TakesLayer(l) => layer = NoLayer
      BY <2>1, <2>0 DEF ReadPacket
    <3>2. /\ \A k \in Layers \ {l} : chosen'[k] = chosen[k] /\ produced'[k] = produced[k]
          /\ produced'[l] = produced[l] + 1 /\ produced[l] \in Nat
          /\ chosen'[l] = NoPacket \/ (/\ layer' = l /\ chosen'[l] \in Packet
                                       /\ chosen'[l].layer = l
                                       /\ chosen'[l].n = produced'[l])
          /\ layer' = l => chosen'[l] # NoPacket
      <4>1. PICK keyframe \in BOOLEAN :
               chosen' = [chosen EXCEPT ![l] =
                  IF layer' = l
                  THEN [layer |-> l, n |-> produced'[l], keyframe |-> keyframe]
                  ELSE NoPacket]
        BY <2>1 DEF ReadPacket
      <4>2. produced'[l] \in Nat
        BY <3>1 DEF TypeOK
      <4>3. [layer |-> l, n |-> produced'[l], keyframe |-> keyframe] \in Packet
        BY <4>2 DEF Packet
      <4> QED
        BY <3>1, <4>1, <4>3, NilsDiffer DEF TypeOK
    <3>3. CASE ~TakesLayer(l)
      <4>1. layer' = layer /\ waiting' = waiting
        BY <3>1, <3>3 DEF TypeOK
      <4>2. OneLayer'
        BY <3>1, <3>2, <4>1, <2>0 DEF OneLayer, Queued
      <4>3. CASE layer = l
        <5>1. Handled' = Handled
          BY <3>1, <3>2, <4>1, <4>3 DEF Handled
        <5> QED
          BY <2>0, <3>1, <4>1, <4>2, <5>1, OnItsWay
      <4>4. CASE layer # l
        <5>1. CASE layer \in Layers
          <6>1. Handled' = Handled
            BY <3>2, <4>1, <4>4, <5>1 DEF Handled
          <6> QED
            BY <2>0, <3>1, <4>1, <4>2, <6>1, OnItsWay
        <5>2. CASE layer \notin Layers
          <6>1. Queued = {} /\ step = "idle" /\ sent = NoPacket
            BY <2>0, <5>2, WhatIsQueued DEF OneLayer
          <6>2. waiting
            BY <6>1 DEF KeyframeFirst
          <6>3. Queued' = {} /\ step' = "idle" /\ sent' = NoPacket /\ waiting'
            BY <3>1, <4>1, <6>1, <6>2 DEF Queued
          <6> QED
            BY <4>2, <6>3 DEF Sorted, NoneMissing
        <5> QED
          BY <5>1, <5>2
      <4> QED
        BY <4>3, <4>4
    <3>4. CASE TakesLayer(l)
      <4>1. layer = NoLayer /\ layer' = l /\ waiting' = TRUE
        BY <3>1, <3>4
      <4>2. Queued = {} /\ step = "idle" /\ sent = NoPacket
        BY <2>0, <4>1, WhatIsQueued, NilsDiffer DEF OneLayer
      <4>3. Queued' = {} /\ step' = "idle" /\ sent' = NoPacket
        BY <3>1, <4>2 DEF Queued
      <4>4. \A k \in Layers \ {l} : chosen'[k] = NoPacket
        BY <2>0, <3>2, <4>1, NilsDiffer DEF OneLayer
      <4>5. OneLayer'
        BY <3>2, <4>1, <4>3, <4>4 DEF OneLayer
      <4> QED
        BY <4>1, <4>3, <4>5 DEF Sorted, NoneMissing
    <3> QED
      BY <3>3, <3>4
  <2>2. ASSUME NEW l \in Layers, QueueVideoPacket(l)
        PROVE  OneLayer' /\ Sorted' /\ (~masked' => NoneMissing')
    <3> DEFINE p == chosen[l]
    <3>1. /\ UNCHANGED <<produced, hand, step, layer, sent>>
          /\ p \in Packet /\ p # Audio /\ l = layer
          /\ p.layer = layer /\ p.n = produced[layer] /\ layer \in Layers
      BY <2>0, <2>2, NilsDiffer DEF QueueVideoPacket, OneLayer, TypeOK
    <3>2. /\ chosen'[layer] = NoPacket
          /\ \A k \in Layers \ {layer} : chosen'[k] = chosen[k]
      BY <2>2, <3>1 DEF QueueVideoPacket, TypeOK
    <3>3. /\ Handled = p.n - 1 /\ Handled' = p.n /\ p.n \in Nat
      BY <2>2, <3>1, <3>2, WhatIsQueued DEF Handled, QueueVideoPacket
    <3>4. CASE Full
      <4>1. /\ waiting' = TRUE /\ sendQueue' = sendQueue
            /\ ~masked' => ~masked /\ ~KeyframeAhead
        BY <2>2, <3>4 DEF QueueVideoPacket
      <4>2. Queued' = Queued
        BY <4>1 DEF Queued
      <4>3. OneLayer'
        BY <2>0, <3>1, <3>2, <4>1, <4>2 DEF OneLayer
      <4>4. Sorted'
        BY <2>0, <3>1, <3>3, <4>1, <4>2, WhatIsQueued DEF Sorted
      <4>5. ASSUME ~masked'
            PROVE  NoneMissing'
        <5>1. /\ \A i \in Queued : ~sendQueue[i].keyframe
              /\ step \in {"check", "clear"} => ~hand.keyframe
          BY <4>1, <4>5, WhatIsQueued, NilsDiffer DEF KeyframeAhead, Queued
        <5>2. step = "send" => Decodable(hand)
          BY <2>0, <4>1, <4>5 DEF NoneMissing
        <5>3. step # "clear"
          BY <5>1 DEF KeyframeFirst
        <5> QED
          BY <3>1, <4>1, <4>2, <5>1, <5>2, <5>3 DEF NoneMissing, Decodable
      <4> QED
        BY <4>3, <4>4, <4>5
    <3>5. CASE ~Full
      <4>1. sendQueue' = Append(sendQueue, p) /\ UNCHANGED <<waiting, masked>>
        BY <2>2, <3>5 DEF QueueVideoPacket
      <4> DEFINE last == Len(sendQueue) + 1
      <4>2. /\ last \in Nat /\ Len(sendQueue') = last /\ sendQueue'[last] = p
            /\ \A i \in 1..Len(sendQueue) : sendQueue'[i] = sendQueue[i]
        BY <3>1, <4>1 DEF TypeOK
      <4>3. Queued' = Queued \cup {last}
        BY <3>1, <4>2 DEF Queued
      <4>4. \A i \in Queued : sendQueue'[i] = sendQueue[i] /\ i < last
        BY <4>2 DEF Queued
      <4> HIDE DEF last, p
      <4>5. OneLayer'
        BY <2>0, <3>1, <3>2, <4>2, <4>3, <4>4 DEF OneLayer
      <4>6. Sorted'
        <5>1. \A i \in Queued : sendQueue[i].n < p.n
          BY <2>0, <3>3, WhatIsQueued DEF Sorted
        <5>2. /\ step # "idle" => hand.n < p.n
              /\ sent # NoPacket => sent.n < p.n
          BY <2>0, <3>3, WhatIsQueued DEF Sorted
        <5>3. \A i, j \in Queued' : i < j => sendQueue'[i].n < sendQueue'[j].n
          BY <2>0, <4>2, <4>3, <4>4, <5>1, WhatIsQueued DEF Sorted
        <5>4. \A i \in Queued' : /\ sendQueue'[i].n <= Handled'
                                 /\ step' # "idle" => hand'.n < sendQueue'[i].n
                                 /\ sent' # NoPacket => sent'.n < sendQueue'[i].n
          BY <2>0, <3>1, <3>3, <4>2, <4>3, <4>4, <5>1, <5>2, WhatIsQueued DEF Sorted
        <5> QED
          BY <2>0, <3>1, <3>3, <5>2, <5>3, <5>4, WhatIsQueued DEF Sorted
      <4>7. ASSUME NoneMissing
            PROVE  NoneMissing'
        <5>1. \A n : Ahead(n) \/ n = p.n => Ahead(n)'
          BY <3>1, <4>2, <4>3, <4>4 DEF Ahead
        <5>2. \A b \in Nat : Complete(b) => Complete(b)'
          BY <3>3, <5>1 DEF Complete
        <5>3. \A b \in Nat : b = p.n => Complete(b)'
          BY <3>3 DEF Complete
        <5>4. \A i \in Queued' : \A b \in Nat :
                  b = sendQueue'[i].n /\ sendQueue'[i].keyframe => Complete(b)'
          BY <4>2, <4>3, <4>4, <4>7, <5>2, <5>3, WhatIsQueued DEF NoneMissing
        <5>7. \A i \in Queued' : sendQueue'[i].n \in Nat
          BY <3>3, <4>2, <4>3, <4>4, WhatIsQueued
        <5>5. ~waiting /\ step \in {"idle", "check"} => sent # NoPacket
          BY DEF KeyframeFirst
        <5>6. step = "send" => Decodable(hand)'
          BY <3>1, <4>7 DEF NoneMissing, Decodable
        <5> QED
          BY <3>1, <4>1, <4>7, <5>2, <5>4, <5>5, <5>6, <5>7, WhatIsQueued DEF NoneMissing
      <4> QED
        BY <2>0, <4>1, <4>5, <4>6, <4>7
    <3> QED
      BY <3>4, <3>5
  <2>3. CASE QueueAudioPacket
    <3>1. UNCHANGED <<produced, chosen, hand, step, waiting, layer, sent, masked>>
      BY <2>3 DEF QueueAudioPacket
    <3>2. /\ Queued' = Queued
          /\ \A i \in Queued : sendQueue'[i] = sendQueue[i]
      <4>1. CASE sendQueue' = sendQueue
        BY <4>1 DEF Queued
      <4>2. CASE sendQueue' = Append(sendQueue, Audio)
        <5>1. /\ Len(sendQueue') = Len(sendQueue) + 1 /\ Len(sendQueue) \in Nat
              /\ sendQueue'[Len(sendQueue) + 1] = Audio
              /\ \A i \in 1..Len(sendQueue) : sendQueue'[i] = sendQueue[i]
          BY <4>2 DEF TypeOK
        <5> QED
          BY <5>1 DEF Queued
      <4> QED
        BY <2>3, <4>1, <4>2 DEF QueueAudioPacket
    <3>3. Handled' = Handled /\ (\A n : Ahead(n)' <=> Ahead(n))
      BY <3>1, <3>2 DEF Handled, Ahead
    <3>4. OneLayer' /\ Sorted'
      BY <2>0, <3>1, <3>2, <3>3 DEF OneLayer, Sorted
    <3>5. \A b : Complete(b)' <=> Complete(b)
      BY <3>3 DEF Complete
    <3>6. NoneMissing => NoneMissing'
      BY <3>1, <3>2, <3>5 DEF NoneMissing, Decodable
    <3> QED
      BY <2>0, <3>1, <3>4, <3>6
  <2>4. CASE Take
    <3>1. /\ step = "idle" /\ sendQueue # <<>>
          /\ UNCHANGED <<produced, chosen, waiting, layer, sent, masked>>
          /\ hand' = Head(sendQueue) /\ sendQueue' = Tail(sendQueue)
          /\ step' = IF Head(sendQueue) = Audio THEN "idle" ELSE "check"
      BY <2>4 DEF Take
    <3>2. /\ Len(sendQueue) \in Nat \ {0} /\ Head(sendQueue) = sendQueue[1]
          /\ Len(sendQueue') = Len(sendQueue) - 1
          /\ \A i \in 1..Len(sendQueue') : sendQueue'[i] = sendQueue[i + 1]
      <4>1. sendQueue \in Seq(Packet \cup {Audio})
        BY DEF TypeOK
      <4>2. Len(sendQueue) \in Nat \ {0} /\ Head(sendQueue) = sendQueue[1]
        BY <3>1, <4>1
      <4>3. Len(sendQueue') = Len(sendQueue) - 1
        BY <3>1, <4>1
      <4>4. \A i \in 1..Len(sendQueue') : sendQueue'[i] = sendQueue[i + 1]
        BY <3>1, <4>1
      <4> QED
        BY <4>2, <4>3, <4>4
    <3>3. \A i \in Queued' : i + 1 \in Queued /\ sendQueue'[i] = sendQueue[i + 1] /\ i \in Nat
      BY <3>2 DEF Queued
    <3>4. \A i \in Queued : i # 1 => i - 1 \in Queued' /\ sendQueue'[i - 1] = sendQueue[i]
      BY <3>2 DEF Queued
    <3>5. \A i \in Queued' : 1 < i + 1
      BY <3>2 DEF Queued
    <3>6. /\ step' = "idle" => 1 \notin Queued
          /\ step' # "idle" => step' = "check" /\ 1 \in Queued /\ hand' = sendQueue[1]
      BY <3>1, <3>2 DEF Queued
    <3>7. Handled' = Handled
      BY <3>1 DEF Handled
    <3>8. OneLayer'
      BY <2>0, <3>1, <3>3, <3>6 DEF OneLayer
    <3>9. Sorted'
      <4>1. \A i, j \in Queued' : i < j => sendQueue'[i].n < sendQueue'[j].n
        BY <2>0, <3>3 DEF Sorted
      <4>2. \A i \in Queued' :
                /\ sendQueue'[i].n <= Handled'
                /\ step' # "idle" => hand'.n < sendQueue'[i].n
                /\ sent' # NoPacket => sent'.n < sendQueue'[i].n
        BY <2>0, <3>1, <3>3, <3>5, <3>6, <3>7 DEF Sorted
      <4>3. step' # "idle" => /\ hand'.n <= Handled'
                              /\ sent' # NoPacket => sent'.n < hand'.n
        BY <2>0, <3>1, <3>6, <3>7 DEF Sorted
      <4> QED
        BY <2>0, <3>1, <3>7, <4>1, <4>2, <4>3 DEF Sorted
    <3>10. ASSUME NoneMissing
           PROVE  NoneMissing'
      <4>1. \A n : Ahead(n) => Ahead(n)'
        BY <3>1, <3>4, <3>6 DEF Ahead
      <4>2. \A b : Complete(b) => Complete(b)'
        BY <3>7, <4>1 DEF Complete
      <4>3. step' \in {"idle", "check"}
        BY <3>1
      <4>4. ~waiting => Complete(sent.n)
        BY <3>1, <3>10 DEF NoneMissing
      <4>5. \A i \in Queued' : sendQueue'[i].keyframe =>
                \A b : b = sendQueue'[i].n => Complete(b)'
        BY <3>3, <3>10, <4>2 DEF NoneMissing
      <4>6. step' = "check" /\ hand'.keyframe => \A b : b = hand'.n => Complete(b)'
        BY <3>6, <3>10, <4>2 DEF NoneMissing
      <4> QED
        BY <3>1, <4>2, <4>3, <4>4, <4>5, <4>6 DEF NoneMissing
    <3> QED
      BY <2>0, <3>1, <3>8, <3>9, <3>10
  <2>5. CASE CheckKeyframe
    <3>1. /\ step = "check" /\ hand \in Packet
          /\ UNCHANGED <<produced, chosen, sendQueue, hand, waiting, layer, sent, masked>>
          /\ step' = IF ~waiting THEN "send" ELSE IF hand.keyframe THEN "clear" ELSE "idle"
      BY <2>5 DEF CheckKeyframe, TypeOK
    <3>2. Queued' = Queued /\ Handled' = Handled
      BY <3>1 DEF Queued, Handled
    <3>3. OneLayer'
      BY <2>0, <3>1, <3>2 DEF OneLayer
    <3>4. Sorted'
      BY <2>0, <3>1, <3>2 DEF Sorted
    <3>5. ASSUME NoneMissing
          PROVE  NoneMissing'
      <4>1. \A n \in Nat : Ahead(n) => Ahead(n)' \/ n = hand.n
        BY <3>1, <3>2 DEF Ahead
      <4>2. \A b \in Nat : hand.n <= b /\ Complete(b) => Complete(b)'
        BY <3>1, <3>2, <4>1, WhatIsQueued DEF Complete
      <4>3. \A i \in Queued : sendQueue[i].keyframe =>
                \A b : b = sendQueue[i].n => Complete(b)'
        BY <2>0, <3>1, <3>5, <4>2, WhatIsQueued DEF Sorted, NoneMissing
      <4>4. CASE ~waiting
        <5>1. step' = "send" /\ sent # NoPacket /\ Complete(sent.n)
          BY <3>1, <3>5, <4>4 DEF NoneMissing, KeyframeFirst
        <5>2. sent \in Packet /\ sent.n \in Nat /\ hand.n \in Nat /\ sent.n < hand.n
              /\ hand.n <= Handled /\ layer \in Layers /\ hand.layer = layer
              /\ sent.layer = layer
          BY <2>0, <3>1, <5>1, WhatIsQueued DEF Sorted, OneLayer
        <5>3. Handled \in Int
          BY <5>2, WhatIsQueued
        <5>4. Complete(hand.n)
          BY <5>1, <5>2, <5>3 DEF Complete
        <5>5. sent.n + 1 = hand.n
          <6>1. sent.n + 1 \in 1..Handled
            BY <5>2, <5>3
          <6>2. Ahead(sent.n + 1)
            BY <5>1, <5>2, <6>1 DEF Complete
          <6>3. \A i \in Queued : sendQueue[i].n \in Nat /\ hand.n < sendQueue[i].n
            BY <2>0, <3>1, WhatIsQueued DEF Sorted
          <6> QED
            BY <3>1, <5>2, <6>2, <6>3 DEF Ahead
        <5>6. Decodable(hand)'
          BY <3>1, <5>1, <5>2, <5>5 DEF Decodable
        <5>7. \A b : b = hand.n => Complete(b)'
          BY <4>2, <5>2, <5>4
        <5> QED
          BY <3>1, <3>2, <4>3, <5>1, <5>6, <5>7 DEF NoneMissing
      <4>5. CASE waiting /\ hand.keyframe
        <5>1. \A b : b = hand.n => Complete(b)'
          BY <3>1, <3>5, <4>2, <4>5, WhatIsQueued DEF NoneMissing
        <5> QED
          BY <3>1, <3>2, <4>3, <4>5, <5>1 DEF NoneMissing
      <4>6. CASE waiting /\ ~hand.keyframe
        BY <3>1, <3>2, <4>3, <4>6 DEF NoneMissing
      <4> QED
        BY <4>4, <4>5, <4>6
    <3> QED
      BY <2>0, <3>1, <3>3, <3>4, <3>5
  <2>6. CASE ClearWaiting
    <3>1. /\ step = "clear" /\ hand \in Packet /\ hand.keyframe
          /\ UNCHANGED <<produced, chosen, sendQueue, hand, layer, sent, masked>>
          /\ waiting' = FALSE /\ step' = "send"
      BY <2>6 DEF ClearWaiting, TypeOK, KeyframeFirst
    <3>2. Queued' = Queued /\ Handled' = Handled
      BY <3>1 DEF Queued, Handled
    <3>3. OneLayer'
      BY <2>0, <3>1, <3>2 DEF OneLayer
    <3>4. Sorted'
      BY <2>0, <3>1, <3>2 DEF Sorted
    <3>5. ASSUME NoneMissing
          PROVE  NoneMissing'
      <4>1. \A n \in Nat : Ahead(n) => Ahead(n)' \/ n = hand.n
        BY <3>1, <3>2 DEF Ahead
      <4>2. \A b \in Nat : hand.n <= b /\ Complete(b) => Complete(b)'
        BY <3>1, <3>2, <4>1, WhatIsQueued DEF Complete
      <4>3. \A i \in Queued : sendQueue[i].keyframe =>
                \A b : b = sendQueue[i].n => Complete(b)'
        BY <2>0, <3>1, <3>5, <4>2, WhatIsQueued DEF Sorted, NoneMissing
      <4>4. \A b : b = hand.n => Complete(b)'
        BY <3>1, <3>5, <4>2, WhatIsQueued DEF NoneMissing
      <4> QED
        BY <3>1, <3>2, <4>3, <4>4 DEF NoneMissing, Decodable
    <3> QED
      BY <2>0, <3>1, <3>3, <3>4, <3>5
  <2>7. CASE WriteVideo
    <3>1. /\ step = "send" /\ hand \in Packet
          /\ UNCHANGED <<produced, chosen, sendQueue, hand, waiting, layer, masked>>
          /\ sent' = hand /\ step' = "idle"
      BY <2>7 DEF WriteVideo, TypeOK
    <3>2. Queued' = Queued /\ Handled' = Handled
      BY <3>1 DEF Queued, Handled
    <3>3. OneLayer'
      BY <2>0, <3>1, <3>2 DEF OneLayer
    <3>4. Sorted'
      BY <2>0, <3>1, <3>2 DEF Sorted
    <3>5. ASSUME NoneMissing
          PROVE  NoneMissing'
      <4>1. \A n : Ahead(n) => Ahead(n)'
        BY <3>1, <3>2 DEF Ahead
      <4>2. \A b : Complete(b) => Complete(b)'
        BY <3>2, <4>1 DEF Complete
      <4> QED
        BY <3>1, <3>2, <3>5, <4>2 DEF NoneMissing
    <3> QED
      BY <2>0, <3>1, <3>3, <3>4, <3>5
  <2>8. CASE MarkWaiting \/ SetAudioLayer \/ UNCHANGED vars
    <3>1. /\ UNCHANGED <<produced, chosen, sendQueue, hand, step, layer, sent, masked>>
          /\ waiting => waiting'
      BY <2>8 DEF MarkWaiting, SetAudioLayer, vars
    <3>2. Handled' = Handled
      BY <3>1 DEF Handled
    <3>3. OneLayer'
      BY <2>0, <3>1 DEF OneLayer, Queued
    <3> QED
      BY <2>0, <3>1, <3>2, <3>3, OnItsWay
  <2>9. CASE ResetForNewPublisher \/ \E l \in Layers \cup {NoLayer} : SetVideoLayer(l)
    BY <2>9 DEF ResetForNewPublisher, SetVideoLayer
  <2> QED
    BY <2>1, <2>2, <2>3, <2>4, <2>5, <2>6, <2>7, <2>8, <2>9 DEF Next
<1> QED
  BY <1>1, <1>2, TypeCorrect, KeyframeFirstInvariant, PTL DEF Spec

\* While the layer stays, and unless a packet was dropped behind a keyframe that was
\* still unsent, every packet a viewer gets is one its decoder can use.
THEOREM ResumesRight == Spec => ResumesAtKeyframe
<1>1. Resuming => [WriteVideo /\ ~masked /\ ~switched => Decodable(hand)]_vars
  BY DEF Resuming, NoneMissing, WriteVideo
<1> QED
  BY <1>1, ResumingInvariant, PTL DEF ResumesAtKeyframe

=============================================================================
