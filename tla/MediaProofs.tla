------------------------------ MODULE MediaProofs ------------------------------
(***************************************************************************)
(* Theorems about PacketNumbers, ClipRecorder, ClipFrames and MkvWriter,   *)
(* for any number of tracks, viewers, layers, packets and publishers and   *)
(* any frames of a clip.                                                   *)
(***************************************************************************)
EXTENDS MCMedia, SequenceTheorems, WellFoundedInduction, TLAPS

-----------------------------------------------------------------------------
(* Arithmetic: numbers that go round. *)

\* What a division leaves.
LEMMA DivMod ==
    ASSUME NEW x \in Int, NEW m \in Nat \ {0}
    PROVE  /\ x \div m \in Int /\ x % m \in 0..m - 1
           /\ x = m * (x \div m) + (x % m)
BY SMTT(20)

\* A multiple of m that is not 0 is as far from it as m, or farther.
LEMMA Multiples ==
    ASSUME NEW k \in Int, NEW m \in Nat \ {0}
    PROVE  /\ m * k \in Int
           /\ k >= 1 => m * k >= m
           /\ k <= -1 => m * k <= -m
<1>1. CASE k >= 1
  BY <1>1, SMTT(20)
<1>2. CASE k <= -1
  BY <1>2, SMTT(20)
<1> QED
  BY <1>1, <1>2

\* There is one way to write a number as a multiple of m and a rest.
LEMMA OneRest ==
    ASSUME NEW m \in Nat \ {0}, NEW a \in Int, NEW b \in Int,
           NEW r \in 0..m - 1, NEW s \in 0..m - 1, m * a + r + m = m * b + s
    PROVE  r = s
<1>1. m * a \in Int /\ m * b \in Int /\ m \in Int
  BY Multiples
<1>2. m * a + m - m * b = s - r
  BY <1>1
<1>3. m * (a + 1 - b) = m * a + m - m * b
  BY SMTT(20)
<1>4. ~(a + 1 - b >= 1) /\ ~(a + 1 - b <= -1)
  BY <1>2, <1>3, Multiples
<1>5. m * (a + 1 - b) = 0
  BY <1>4
<1> QED
  BY <1>2, <1>3, <1>5

\* Going round once more leads to the same number.
LEMMA OnceRound ==
    ASSUME NEW x \in Int, NEW m \in Nat \ {0}
    PROVE  (x + m) % m = x % m
<1> DEFINE y == x + m
           a == x \div m   r == x % m
           b == y \div m   s == y % m
<1>1. y \in Int /\ m \in Int
  OBVIOUS
<1>2. a \in Int /\ r \in 0..m - 1 /\ x = m * a + r
  BY DivMod
<1>3. b \in Int /\ s \in 0..m - 1 /\ y = m * b + s
  BY <1>1, DivMod
<1>4. y = x + m
  OBVIOUS
<1> HIDE DEF a, b, r, s, y
<1>5. m * a \in Int /\ m * b \in Int
  BY <1>2, <1>3, Multiples
<1>6. m * a + r + m = m * b + s
  BY <1>1, <1>2, <1>3, <1>4, <1>5
<1>7. r = s
  BY <1>2, <1>3, <1>6, OneRest
<1> QED
  BY <1>7 DEF r, s, y

\* A tenth of the numbers are fewer than all of them.
LEMMA Tenth == ASSUME NEW m \in Nat \ {0} PROVE (m - 1) \div 10 \in 0..m - 1
OBVIOUS

-----------------------------------------------------------------------------
(* Numbers: what is in packets, queues and what was sent. *)

Packet == [writer : Writers, number : Numbers, diff : Int]
Sent   == [packet : Nat, number : 0..Modulus - 1]

\* Viewers have, waiting and sent, packets that were read.
NumbersShape ==
    /\ lastRead \in [Writers -> Numbers \cup {NoNumber}]
    /\ packets \in Seq(Packet)
    /\ shared \in Seq(Numbers) /\ Len(shared) = Len(packets)
    /\ queued \in [Watchers -> Seq(Nat)]
    /\ number \in [Watchers -> 0..Modulus - 1]
    /\ out \in [Watchers -> Seq(Sent)]
    /\ \A v \in Watchers :
          /\ \A i \in 1..Len(queued[v]) : queued[v][i] \in 1..Len(packets)
          /\ \A k \in 1..Len(out[v]) : out[v][k].packet \in 1..Len(packets)

\* A packet has its number still, and how far it is from the one its writer read
\* before; the writer remembers the last one.
Distances ==
    /\ \A p \in 1..Len(packets) :
          /\ shared[p] = packets[p].number
          /\ packets[p].diff \in -((Modulus - 1) \div 10)..Modulus - 1
          /\ (\A r \in p + 1..Len(packets) : packets[r].writer # packets[p].writer)
                => lastRead[packets[p].writer] = packets[p].number
    /\ \A p, q \in 1..Len(packets) :
          N!NextOfWriter(p, q) =>
              packets[q].diff = N!Difference(packets[q].number, packets[p].number)

\* A viewer's number is that of the packet it was sent last.
CountsOn ==
    \A v \in Watchers :
        out[v] # <<>> => number[v] = out[v][Len(out[v])].number

Numbering == NumbersShape /\ Distances /\ CountsOn /\ N!NumbersFollow

\* The distance of two numbers, without what they have gone round, is small.
LEMMA DifferenceBounds ==
    ASSUME NEW n \in 0..Modulus - 1, NEW before \in 0..Modulus - 1
    PROVE  /\ N!Difference(n, before) \in -((Modulus - 1) \div 10)..Modulus - 1
           /\ \A x \in Int : (x + N!Difference(n, before)) % Modulus = (x + n - before) % Modulus
<1> USE NumbersAssumption
<1> DEFINE tenth == (Modulus - 1) \div 10
<1>1. tenth \in 0..Modulus - 1
  BY Tenth
<1>2. N!Difference(n, before) =
          IF n - before < -tenth THEN n - before + Modulus ELSE n - before
  BY DEF N!Difference
<1> HIDE DEF tenth
<1>3. N!Difference(n, before) \in -tenth..Modulus - 1
  BY <1>1, <1>2
<1>4. ASSUME NEW x \in Int
      PROVE  (x + N!Difference(n, before)) % Modulus = (x + n - before) % Modulus
  <2>1. x + n - before \in Int
    OBVIOUS
  <2>2. (x + n - before + Modulus) % Modulus = (x + n - before) % Modulus
    BY <2>1, OnceRound
  <2>3. \/ x + N!Difference(n, before) = x + n - before
        \/ x + N!Difference(n, before) = x + n - before + Modulus
    BY <1>1, <1>2
  <2> QED
    BY <2>2, <2>3
<1> QED
  BY <1>3, <1>4 DEF tenth

\* Reading a packet.
LEMMA ReadKeepsNumbering ==
    ASSUME Numbering, NEW w \in Writers, NEW n \in Numbers, NEW to \in SUBSET Watchers,
           N!Read(w, n, to)
    PROVE  Numbering'
<1> USE NumbersAssumption
<1> DEFINE d   == IF lastRead[w] = NoNumber THEN 0 ELSE N!Difference(n, lastRead[w])
           new == [writer |-> w, number |-> n, diff |-> d]
           l   == Len(packets)
<1>1. /\ packets' = Append(packets, new) /\ shared' = Append(shared, n)
      /\ lastRead' = [lastRead EXCEPT ![w] = n]
      /\ queued' = [v \in Watchers |->
                      IF v \in to THEN Append(queued[v], l + 1) ELSE queued[v]]
      /\ UNCHANGED <<number, out>>
  BY DEF N!Read
<1>2. /\ lastRead \in [Writers -> Numbers \cup {NoNumber}]
      /\ packets \in Seq(Packet) /\ l \in Nat
      /\ shared \in Seq(Numbers) /\ Len(shared) = l
  BY DEF Numbering, NumbersShape
<1>3. d \in -((Modulus - 1) \div 10)..Modulus - 1 /\ d \in Int
  <2> DEFINE tenth == (Modulus - 1) \div 10
  <2>1. tenth \in 0..Modulus - 1
    BY Tenth
  <2>2. n \in 0..Modulus - 1 /\ lastRead[w] \in Numbers \cup {NoNumber}
    BY <1>2
  <2>3. lastRead[w] # NoNumber => lastRead[w] \in 0..Modulus - 1
    BY <2>2
  <2>4. lastRead[w] # NoNumber => d \in -tenth..Modulus - 1
    BY <2>2, <2>3, DifferenceBounds
  <2>5. lastRead[w] = NoNumber => d = 0
    OBVIOUS
  <2> HIDE DEF d, tenth
  <2>6. d \in -tenth..Modulus - 1 /\ d \in Int
    BY <2>1, <2>4, <2>5
  <2> QED
    BY <2>6 DEF tenth
<1>4. new \in Packet
  BY <1>3 DEF Packet
<1> HIDE DEF d
<1>5. /\ packets' \in Seq(Packet) /\ Len(packets') = l + 1
      /\ \A p \in 1..l : packets'[p] = packets[p] /\ p \in 1..l + 1
      /\ packets'[l + 1] = new
      /\ shared' \in Seq(Numbers) /\ Len(shared') = l + 1
      /\ \A p \in 1..l : shared'[p] = shared[p]
      /\ shared'[l + 1] = n
  BY <1>1, <1>2, <1>4
<1>6. NumbersShape'
  <2>1. ASSUME NEW v \in Watchers
        PROVE  /\ queued'[v] \in Seq(Nat)
               /\ \A i \in 1..Len(queued'[v]) : queued'[v][i] \in 1..l + 1
    <3>1. queued[v] \in Seq(Nat) /\ \A i \in 1..Len(queued[v]) : queued[v][i] \in 1..l
      BY DEF Numbering, NumbersShape
    <3>2. l + 1 \in Nat /\ \A i \in 1..l : i \in 1..l + 1
      BY <1>2
    <3>3. CASE queued'[v] = queued[v]
      BY <3>1, <3>2, <3>3
    <3>4. CASE queued'[v] = Append(queued[v], l + 1)
      <4>1. /\ queued'[v] \in Seq(Nat) /\ Len(queued'[v]) = Len(queued[v]) + 1
            /\ queued'[v][Len(queued[v]) + 1] = l + 1
            /\ \A i \in 1..Len(queued[v]) : queued'[v][i] = queued[v][i]
        BY <3>1, <3>2, <3>4
      <4>2. Len(queued[v]) \in Nat /\ l + 1 \in 1..l + 1
        BY <1>2, <3>1
      <4>3. ASSUME NEW i \in 1..Len(queued'[v]) PROVE queued'[v][i] \in 1..l + 1
        <5>1. i \in 1..Len(queued[v]) \/ i = Len(queued[v]) + 1
          BY <4>1, <4>2
        <5> QED
          BY <3>1, <3>2, <4>1, <4>2, <5>1
      <4> QED
        BY <4>1, <4>3
    <3> QED
      BY <1>1, <3>3, <3>4
  <2>2. queued' \in [Watchers -> Seq(Nat)]
    BY <1>1, <2>1
  <2>3. lastRead' \in [Writers -> Numbers \cup {NoNumber}]
    BY <1>1, <1>2
  <2> QED
    BY <1>1, <1>5, <2>1, <2>2, <2>3 DEF Numbering, NumbersShape
<1>7. Distances'
  <2>1. ASSUME NEW p \in 1..Len(packets')
        PROVE  /\ shared'[p] = packets'[p].number
               /\ packets'[p].diff \in -((Modulus - 1) \div 10)..Modulus - 1
               /\ (\A r \in p + 1..Len(packets') : packets'[r].writer # packets'[p].writer)
                    => lastRead'[packets'[p].writer] = packets'[p].number
    <3>1. CASE p = l + 1
      BY <1>1, <1>2, <1>3, <1>5, <3>1
    <3>2. CASE p # l + 1
      <4>1. p \in 1..l /\ packets[p] \in Packet
        BY <1>2, <1>5, <3>2
      <4>2. /\ shared[p] = packets[p].number
            /\ packets[p].diff \in -((Modulus - 1) \div 10)..Modulus - 1
            /\ (\A r \in p + 1..l : packets[r].writer # packets[p].writer)
                 => lastRead[packets[p].writer] = packets[p].number
        BY <4>1 DEF Numbering, Distances
      <4>3. ASSUME \A r \in p + 1..l + 1 : packets'[r].writer # packets'[p].writer
            PROVE  lastRead'[packets'[p].writer] = packets'[p].number
        <5>1. l + 1 \in p + 1..l + 1 /\ \A r \in p + 1..l : r \in 1..l /\ r \in p + 1..l + 1
          BY <1>2, <4>1
        <5>2. packets'[p] = packets[p] /\ packets'[l + 1].writer = w
          BY <1>5, <4>1
        <5>3. packets[p].writer # w
          BY <4>3, <5>1, <5>2
        <5>4. \A r \in p + 1..l : packets[r].writer # packets[p].writer
          BY <1>5, <4>3, <5>1, <5>2
        <5> QED
          BY <1>1, <1>2, <4>1, <4>2, <5>2, <5>3, <5>4 DEF Packet
      <4> QED
        BY <1>5, <4>1, <4>2, <4>3
    <3> QED
      BY <3>1, <3>2
  <2>2. ASSUME NEW p \in 1..Len(packets'), NEW q \in 1..Len(packets'),
               N!NextOfWriter(p, q)'
        PROVE  packets'[q].diff = N!Difference(packets'[q].number, packets'[p].number)
    <3>1. /\ p < q /\ packets'[p].writer = packets'[q].writer
          /\ \A r \in p + 1..q - 1 : packets'[r].writer # packets'[p].writer
      BY <2>2 DEF N!NextOfWriter
    <3>2. p \in 1..l /\ packets[p] \in Packet /\ packets'[p] = packets[p]
      BY <1>2, <1>5, <3>1
    <3>3. CASE q = l + 1
      <4>1. packets[p].writer = w /\ \A r \in p + 1..l : packets[r].writer # w
        BY <1>2, <1>5, <3>1, <3>2, <3>3
      <4>2. lastRead[w] = packets[p].number
        BY <3>2, <4>1 DEF Numbering, Distances
      <4>3. lastRead[w] # NoNumber
        BY <3>2, <4>2 DEF Packet
      <4> QED
        BY <1>5, <3>2, <3>3, <4>2, <4>3 DEF d
    <3>4. CASE q # l + 1
      <4>1. q \in 1..l /\ packets'[q] = packets[q]
        BY <1>2, <1>5, <3>4
      <4>2. \A r \in p + 1..q - 1 : r \in 1..l
        BY <1>2, <3>2, <4>1
      <4>3. N!NextOfWriter(p, q)
        BY <1>5, <3>1, <3>2, <4>1, <4>2 DEF N!NextOfWriter
      <4> QED
        BY <3>2, <4>1, <4>3 DEF Numbering, Distances
    <3> QED
      BY <3>3, <3>4
  <2>3. \A p, q \in 1..Len(packets') :
           N!NextOfWriter(p, q)' =>
               packets'[q].diff = N!Difference(packets'[q].number, packets'[p].number)
    BY <2>2
  <2> QED
    BY <2>1, <2>3 DEF Distances, N!NextOfWriter, N!Difference
<1>8. CountsOn'
  BY <1>1 DEF Numbering, CountsOn
<1>9. N!NumbersFollow'
  <2> SUFFICES ASSUME NEW v \in Watchers, NEW k \in 1..Len(out[v]) - 1,
                      N!NextOfWriter(out[v][k].packet, out[v][k + 1].packet)'
               PROVE  out[v][k + 1].number =
                         (out[v][k].number + packets'[out[v][k + 1].packet].number
                             - packets'[out[v][k].packet].number) % Modulus
    BY <1>1 DEF N!NumbersFollow
  <2> DEFINE p == out[v][k].packet  q == out[v][k + 1].packet
  <2>1. out[v] \in Seq(Sent) /\ k \in 1..Len(out[v]) /\ k + 1 \in 1..Len(out[v])
    BY DEF Numbering, NumbersShape
  <2>2. p \in 1..l /\ q \in 1..l
    BY <2>1 DEF Numbering, NumbersShape
  <2>3. packets'[p] = packets[p] /\ packets'[q] = packets[q]
    BY <1>5, <2>2
  <2> HIDE DEF p, q
  <2>4. \A r \in p + 1..q - 1 : packets'[r] = packets[r]
    <3>1. \A r \in p + 1..q - 1 : r \in 1..l
      BY <1>2, <2>2
    <3> QED
      BY <1>5, <3>1
  <2>5. N!NextOfWriter(p, q)' => N!NextOfWriter(p, q)
    BY <1>1, <2>3, <2>4 DEF N!NextOfWriter, p, q
  <2> QED
    BY <2>3, <2>5 DEF p, q, Numbering, N!NumbersFollow
<1> QED
  BY <1>6, <1>7, <1>8, <1>9 DEF Numbering

\* Sending a packet to a viewer.
LEMMA SendKeepsNumbering ==
    ASSUME Numbering, NEW v \in Watchers, N!Send(v)
    PROVE  Numbering'
<1> USE NumbersAssumption
<1> DEFINE p == Head(queued[v])
           n == (number[v] + packets[p].diff) % Modulus
           l == Len(out[v])
<1>1. /\ queued[v] # <<>>
      /\ number' = [number EXCEPT ![v] = n]
      /\ out' = [out EXCEPT ![v] = Append(@, [packet |-> p, number |-> n])]
      /\ queued' = [queued EXCEPT ![v] = Tail(@)]
      /\ UNCHANGED <<lastRead, packets, shared>>
  BY DEF N!Send
<1>2. /\ packets \in Seq(Packet)
      /\ queued \in [Watchers -> Seq(Nat)] /\ number \in [Watchers -> 0..Modulus - 1]
      /\ out \in [Watchers -> Seq(Sent)]
      /\ queued[v] \in Seq(Nat) /\ out[v] \in Seq(Sent) /\ l \in Nat
  BY DEF Numbering, NumbersShape
<1>3. /\ p \in 1..Len(packets) /\ packets[p] \in Packet
      /\ \A i \in 1..Len(Tail(queued[v])) : Tail(queued[v])[i] \in 1..Len(packets)
  <2>1. /\ p = queued[v][1] /\ 1 \in 1..Len(queued[v])
        /\ \A i \in 1..Len(Tail(queued[v])) :
              /\ Tail(queued[v])[i] = queued[v][i + 1]
              /\ i + 1 \in 1..Len(queued[v])
    BY <1>1, <1>2
  <2> QED
    BY <1>2, <2>1 DEF Numbering, NumbersShape
<1>4. n \in 0..Modulus - 1
  <2>1. number[v] + packets[p].diff \in Int
    BY <1>2, <1>3 DEF Packet
  <2> QED
    BY <2>1, DivMod
<1> HIDE DEF p, n
<1> DEFINE new == [packet |-> p, number |-> n]
<1>5. new \in Sent
  BY <1>3, <1>4 DEF Sent
<1>6. /\ out'[v] \in Seq(Sent) /\ Len(out'[v]) = l + 1
      /\ \A k \in 1..l : out'[v][k] = out[v][k]
      /\ out'[v][l + 1] = new
      /\ \A u \in Watchers : u # v => out'[u] = out[u] /\ number'[u] = number[u]
      /\ number'[v] = n
  BY <1>1, <1>2, <1>5
<1>7. NumbersShape'
  <2>1. /\ queued' \in [Watchers -> Seq(Nat)] /\ number' \in [Watchers -> 0..Modulus - 1]
        /\ out' \in [Watchers -> Seq(Sent)]
    <3>1. Tail(queued[v]) \in Seq(Nat)
      BY <1>1, <1>2
    <3> QED
      BY <1>1, <1>2, <1>4, <1>5, <3>1
  <2>2. ASSUME NEW u \in Watchers
        PROVE  /\ \A i \in 1..Len(queued'[u]) : queued'[u][i] \in 1..Len(packets)
               /\ \A k \in 1..Len(out'[u]) : out'[u][k].packet \in 1..Len(packets)
    <3>1. CASE u = v
      <4>1. queued'[u] = Tail(queued[v])
        BY <1>1, <1>2, <3>1
      <4>2. ASSUME NEW k \in 1..l + 1 PROVE out'[v][k].packet \in 1..Len(packets)
        <5> HIDE DEF l
        <5>1. CASE k = l + 1
          BY <1>3, <1>6, <5>1
        <5>2. CASE k # l + 1
          <6>1. k \in 1..l
            BY <1>2, <5>2
          <6>2. out[v][k].packet \in 1..Len(packets)
            BY <6>1 DEF l, Numbering, NumbersShape
          <6> QED
            BY <1>6, <6>1, <6>2
        <5> QED
          BY <5>1, <5>2
      <4> QED
        BY <1>3, <1>6, <3>1, <4>1, <4>2
    <3>2. CASE u # v
      BY <1>1, <1>2, <1>6, <3>2 DEF Numbering, NumbersShape
    <3> QED
      BY <3>1, <3>2
  <2> QED
    BY <1>1, <2>1, <2>2 DEF Numbering, NumbersShape
<1>8. Distances'
  BY <1>1 DEF Numbering, Distances, N!NextOfWriter, N!Difference
<1>9. CountsOn'
  <2>1. ASSUME NEW u \in Watchers, out'[u] # <<>>
        PROVE  number'[u] = out'[u][Len(out'[u])].number
    <3>1. CASE u = v
      BY <1>6, <3>1
    <3>2. CASE u # v
      BY <1>6, <2>1, <3>2 DEF Numbering, CountsOn
    <3> QED
      BY <3>1, <3>2
  <2> QED
    BY <2>1 DEF CountsOn
<1>10. N!NumbersFollow'
  <2> SUFFICES ASSUME NEW u \in Watchers, NEW k \in 1..Len(out'[u]) - 1,
                      N!NextOfWriter(out[u][k].packet, out[u][k + 1].packet)'
               PROVE  out'[u][k + 1].number =
                         (out'[u][k].number + packets'[out'[u][k + 1].packet].number
                             - packets'[out'[u][k].packet].number) % Modulus
    BY DEF N!NumbersFollow
  <2>0. packets' = packets /\ N!NextOfWriter(out'[u][k].packet, out'[u][k + 1].packet)
    BY <1>1 DEF N!NextOfWriter
  <2>1. CASE u # v
    <3>1. out'[u] = out[u]
      BY <1>6, <2>1
    <3>2. k \in 1..Len(out[u]) - 1 /\ N!NextOfWriter(out[u][k].packet, out[u][k + 1].packet)
      BY <2>0, <3>1
    <3> QED
      BY <2>0, <3>1, <3>2 DEF Numbering, N!NumbersFollow
  <2>2. CASE u = v /\ k # l
    <3>1. k \in 1..l - 1 /\ k \in 1..l /\ k + 1 \in 1..l
      BY <1>2, <1>6, <2>2
    <3>2. out'[u][k] = out[v][k] /\ out'[u][k + 1] = out[v][k + 1]
      BY <1>6, <2>2, <3>1
    <3> QED
      BY <2>0, <3>1, <3>2 DEF Numbering, N!NumbersFollow
  <2>3. CASE u = v /\ k = l
    <3> DEFINE o == out[v][l].packet
    <3>1. l \in 1..l /\ out[v] # <<>> /\ out[v][l] \in Sent
      BY <1>2, <1>6, <2>3
    <3>2. /\ out'[u][k] = out[v][l] /\ out'[u][k + 1] = new
          /\ number[v] = out[v][l].number
      BY <1>6, <2>3, <3>1 DEF Numbering, CountsOn
    <3>3. o \in 1..Len(packets) /\ packets[o] \in Packet
      BY <1>2, <3>1 DEF Numbering, NumbersShape
    <3>4. N!NextOfWriter(o, p)
      BY <2>0, <3>2
    <3>5. packets[p].diff = N!Difference(packets[p].number, packets[o].number)
      BY <1>3, <3>3, <3>4 DEF Numbering, Distances
    <3>6. packets[p].number \in 0..Modulus - 1 /\ packets[o].number \in 0..Modulus - 1
      BY <1>3, <3>3 DEF Packet
    <3>7. number[v] \in Int
      BY <1>2
    <3>8. n = (number[v] + packets[p].number - packets[o].number) % Modulus
      BY <3>5, <3>6, <3>7, DifferenceBounds DEF n
    <3> QED
      BY <2>0, <3>2, <3>8
  <2> QED
    BY <2>1, <2>2, <2>3
<1> QED
  BY <1>7, <1>8, <1>9, <1>10 DEF Numbering

\* Numbers follow each other, whoever writes and watches and however many there are.
THEOREM NumberingInvariant == N!Spec => []Numbering
<1>1. N!Init => Numbering
  <2> SUFFICES ASSUME N!Init PROVE Numbering
    OBVIOUS
  <2> USE NumbersAssumption
  <2>1. 0 \in 0..Modulus - 1 /\ Len(packets) = 0 /\ \A v \in Watchers : Len(out[v]) = 0
    BY DEF N!Init
  <2>2. NumbersShape
    BY <2>1 DEF N!Init, NumbersShape
  <2>3. Distances /\ CountsOn /\ N!NumbersFollow
    BY <2>1 DEF N!Init, Distances, CountsOn, N!NumbersFollow
  <2> QED
    BY <2>2, <2>3 DEF Numbering
<1>2. Numbering /\ [N!Next]_N!vars => Numbering'
  <2> SUFFICES ASSUME Numbering, [N!Next]_N!vars PROVE Numbering'
    OBVIOUS
  <2>1. CASE UNCHANGED N!vars
    <3>1. UNCHANGED <<lastRead, packets, shared, queued, number, out>>
      BY <2>1 DEF N!vars
    <3>2. NumbersShape' /\ CountsOn'
      BY <3>1 DEF Numbering, NumbersShape, CountsOn
    <3>3. Distances'
      BY <3>1 DEF Numbering, Distances, N!NextOfWriter, N!Difference
    <3>4. N!NumbersFollow'
      BY <3>1 DEF Numbering, N!NumbersFollow, N!NextOfWriter
    <3> QED
      BY <3>2, <3>3, <3>4 DEF Numbering
  <2> QED
    BY <2>1, ReadKeepsNumbering, SendKeepsNumbering DEF N!Next
<1> QED
  BY <1>1, <1>2, PTL DEF N!Spec

\* What PacketNumbers promises: types, numbers that say what was lost, and packets
\* that no viewer changes for others.
THEOREM NumbersAreKept == N!Spec => []N!NumbersKept
<1>1. Numbering => N!NumbersKept
  <2> SUFFICES ASSUME Numbering PROVE N!NumbersKept
    OBVIOUS
  <2>1. DOMAIN packets = 1..Len(packets)
    BY DEF Numbering, NumbersShape
  <2> QED
    BY <2>1 DEF Numbering, NumbersShape, Distances, N!NumbersKept, N!TypeOK,
                N!SharedUnchanged
<1> QED
  BY <1>1, NumberingInvariant, PTL

-----------------------------------------------------------------------------
(* The recorder: what trimming leaves of the buffer. *)

\* A set of numbers that is not empty has a smallest one.
LEMMA SmallestExists ==
    ASSUME NEW T \in SUBSET Nat, T # {}
    PROVE  SmallestOf(T) \in T /\ \A y \in T : SmallestOf(T) <= y
<1> DEFINE R == OpToRel(<, Nat)
<1>1. IsWellFoundedOn(R, Nat)
  BY NatLessThanWellFounded
<1>2. \A x, y \in Nat : x < y => <<x, y>> \in R
  BY DEF OpToRel
<1> HIDE DEF R
<1>3. PICK m \in T : \A y \in T : ~(<<y, m>> \in R)
  BY <1>1, WFMin
<1>4. ASSUME NEW y \in T PROVE m <= y
  <2>1. y \in Nat /\ m \in Nat
    OBVIOUS
  <2>2. ~(y < m)
    BY <1>2, <1>3, <2>1
  <2> QED
    BY <2>1, <2>2
<1> QED
  BY <1>4 DEF SmallestOf

\* The buffer t is what is left of fs when what is too old is trimmed, and c is the
\* codec of the video: it ends with the same frame, has no frame that was not there,
\* has every keyframe that is not too old, and begins with one that is only when
\* there is no keyframe to begin with instead.
Trimmed(t, fs, c) ==
    LET cutoff == fs[Len(fs)].pts - BufferDuration IN
    /\ t \in Seq(Frame) /\ t # <<>> /\ t[Len(t)] = fs[Len(fs)]
    /\ \A j \in 1..Len(t) : \E i \in 1..Len(fs) : t[j] = fs[i]
    /\ \A i \in 1..Len(fs) : IsVideoKeyframe(fs[i]) /\ fs[i].pts >= cutoff =>
          \E j \in 1..Len(t) : t[j] = fs[i]
    /\ c # None /\ t[1].pts < cutoff =>
          \A j \in 1..Len(t) : IsVideoKeyframe(t[j]) => t[j].pts < cutoff

\* trimLocked.
LEMMA TrimLockedTrims ==
    ASSUME NEW fs \in Seq(Frame), fs # <<>>, NEW c
    PROVE  Trimmed(TrimLocked(fs, c), fs, c)
<1> DEFINE n == Len(fs)
           cutoff == fs[n].pts - BufferDuration
           Starts == {i \in 1..n : fs[i].pts >= cutoff /\ (c = None \/ IsVideoKeyframe(fs[i]))}
           s == SmallestOf(Starts)
           t == SubSeq(fs, s, n)
<1>1. n \in Nat /\ n >= 1 /\ \A i \in 1..n : fs[i] \in Frame /\ fs[i].pts \in Nat
  <2>1. n \in Nat /\ n >= 1 /\ \A i \in 1..n : fs[i] \in Frame
    OBVIOUS
  <2> QED
    BY <2>1 DEF Frame
<1>2. cutoff \in Int
  BY <1>1, BoundsAreNat
<1>3. TrimLocked(fs, c) = IF fs[1].pts >= cutoff \/ Starts = {} THEN fs ELSE t
  BY DEF TrimLocked
<1>4. CASE fs[1].pts >= cutoff \/ Starts = {}
  <2>1. c # None /\ fs[1].pts < cutoff =>
           \A j \in 1..n : IsVideoKeyframe(fs[j]) => fs[j].pts < cutoff
    BY <1>1, <1>2, <1>4
  <2> QED
    BY <1>1, <1>3, <1>4, <2>1 DEF Trimmed
<1>5. CASE ~(fs[1].pts >= cutoff \/ Starts = {})
  <2>1. /\ s \in Starts /\ s \in 1..n
        /\ \A i \in Starts : s <= i
    <3>1. Starts \in SUBSET Nat /\ Starts # {}
      BY <1>1, <1>5
    <3> HIDE DEF Starts
    <3>2. s \in Starts /\ \A i \in Starts : s <= i
      BY <3>1, SmallestExists
    <3> QED
      BY <3>2 DEF Starts
  <2>2. fs[s].pts >= cutoff
    BY <2>1
  <2> HIDE DEF s
  <2>3. /\ t \in Seq(Frame) /\ Len(t) = n - s + 1
        /\ \A j \in 1..n - s + 1 : t[j] = fs[s + j - 1] /\ s + j - 1 \in 1..n
    <3>1. s \in 1..n + 1 /\ n \in s - 1..n /\ \A j \in 1..n - s + 1 : s + j - 1 \in 1..n
      BY <1>1, <2>1
    <3> QED
      BY <3>1, SubSeqProperties
  <2>4. t # <<>> /\ t[Len(t)] = fs[n] /\ t[1] = fs[s]
    <3>1. /\ n - s + 1 >= 1 /\ n - s + 1 \in 1..n - s + 1 /\ 1 \in 1..n - s + 1
          /\ s + (n - s + 1) - 1 = n /\ s + 1 - 1 = s
      BY <1>1, <2>1
    <3> HIDE DEF t
    <3>2. t[n - s + 1] = fs[n] /\ t[1] = fs[s] /\ Len(t) >= 1
      BY <2>3, <3>1
    <3> QED
      BY <2>3, <3>2
  <2>5. ASSUME NEW i \in 1..n, IsVideoKeyframe(fs[i]), fs[i].pts >= cutoff
        PROVE  \E j \in 1..Len(t) : t[j] = fs[i]
    <3>1. s <= i
      BY <2>1, <2>5
    <3>2. i - s + 1 \in 1..n - s + 1 /\ s + (i - s + 1) - 1 = i
      BY <1>1, <2>1, <3>1
    <3> QED
      BY <2>3, <3>2
  <2> HIDE DEF t, Starts
  <2>6. ~(t[1].pts < cutoff)
    BY <1>1, <1>2, <2>1, <2>2, <2>4
  <2> QED
    BY <1>3, <1>5, <2>3, <2>4, <2>5, <2>6 DEF Trimmed
<1> QED
  BY <1>4, <1>5

\* The buffer g is fs to which the frame f was added and which was trimmed, or fs
\* that f cannot begin.
Added(g, fs, f, c) ==
    /\ g \in Seq(Frame)
    /\ \A j \in 1..Len(g) : g[j] = f \/ \E i \in 1..Len(fs) : g[j] = fs[i]
    /\ g # <<>> =>
          LET cutoff == g[Len(g)].pts - BufferDuration IN
          /\ \A i \in 1..Len(fs) : IsVideoKeyframe(fs[i]) /\ fs[i].pts >= cutoff =>
                \E j \in 1..Len(g) : g[j] = fs[i]
          /\ c # None /\ g[1].pts < cutoff =>
                \A j \in 1..Len(g) : IsVideoKeyframe(g[j]) => g[j].pts < cutoff

\* addFrame.
LEMMA AddFrameAdds ==
    ASSUME NEW fs \in Seq(Frame), NEW f \in Frame, NEW c
    PROVE  Added(AddFrame(fs, f, c), fs, f, c)
<1>1. CASE f.video /\ fs = <<>> /\ ~f.keyframe
  BY <1>1 DEF AddFrame, Added
<1>2. CASE ~(f.video /\ fs = <<>> /\ ~f.keyframe)
  <2> DEFINE longer == Append(fs, f)
             t == TrimLocked(longer, c)
  <2>1. /\ longer \in Seq(Frame) /\ longer # <<>> /\ Len(longer) = Len(fs) + 1 /\ Len(fs) \in Nat
        /\ \A i \in 1..Len(fs) : longer[i] = fs[i] /\ i \in 1..Len(longer)
        /\ \A i \in 1..Len(longer) : i \in 1..Len(fs) \/ longer[i] = f
    OBVIOUS
  <2>2. AddFrame(fs, f, c) = t
    BY <1>2 DEF AddFrame
  <2> HIDE DEF longer
  <2>3. Trimmed(t, longer, c)
    BY <2>1, TrimLockedTrims
  <2> HIDE DEF t
  <2>4. \A j \in 1..Len(t) : t[j] = f \/ \E i \in 1..Len(fs) : t[j] = fs[i]
    BY <2>1, <2>3 DEF Trimmed
  <2>5. /\ t \in Seq(Frame) /\ t # <<>> /\ t[Len(t)] = longer[Len(longer)]
        /\ \A i \in 1..Len(longer) :
              IsVideoKeyframe(longer[i]) /\ longer[i].pts >= t[Len(t)].pts - BufferDuration =>
                  \E j \in 1..Len(t) : t[j] = longer[i]
        /\ c # None /\ t[1].pts < t[Len(t)].pts - BufferDuration =>
              \A j \in 1..Len(t) :
                  IsVideoKeyframe(t[j]) => t[j].pts < t[Len(t)].pts - BufferDuration
    BY <2>3 DEF Trimmed
  <2>6. \A i \in 1..Len(fs) :
           IsVideoKeyframe(fs[i]) /\ fs[i].pts >= t[Len(t)].pts - BufferDuration =>
               \E j \in 1..Len(t) : t[j] = fs[i]
    BY <2>1, <2>5
  <2> QED
    BY <2>2, <2>4, <2>5, <2>6 DEF Added
<1> QED
  BY <1>1, <1>2

\* A packet becomes a frame.
LEMMA FrameOfPacket ==
    ASSUME NEW i \in Input, NEW pts \in PTS(i)
    PROVE  FrameOf(i, pts) \in Frame
<1>1. i.arrival \in Nat /\ pts \in Nat
  BY BoundsAreNat DEF Input, PTS
<1> QED
  BY <1>1 DEF Input, Frame, FrameOf

-----------------------------------------------------------------------------
(* The recorder: types, and one layer in one codec. *)

\* Every variable keeps its type, and what waits and what is recorded of video has a
\* codec and a layer; the time line is one of the codec that is recorded.
Recording ==
    /\ TypeOK
    /\ \A i \in 1..Len(input) : input[i].kind = "video" =>
          input[i].layer \in Layers /\ input[i].codec \in Codecs
    /\ publisher > 0 => codec \in Codecs
    /\ late # None => publisher > 0
    /\ video # None => videoRID \in Layers /\ videoCodec = video
    /\ \A i \in 1..Len(frames) : frames[i].video => frames[i].codec \in Codecs
    /\ OneLayerOneCodec

\* What fits into the channel.
LEMMA Pushed ==
    ASSUME Recording, NEW i \in Input,
           i.kind = "video" => i.layer \in Layers /\ i.codec \in Codecs, Push(i)
    PROVE  /\ input' \in Seq(Input) /\ Len(input') <= QueueSize
           /\ \A k \in 1..Len(input') : input'[k].kind = "video" =>
                 input'[k].layer \in Layers /\ input'[k].codec \in Codecs
<1>1. /\ input \in Seq(Input) /\ Len(input) \in Nat /\ Len(input) <= QueueSize
      /\ QueueSize \in Nat
  BY BoundsAreNat DEF Recording, TypeOK
<1>2. CASE input' = input
  BY <1>1, <1>2 DEF Recording
<1>3. CASE input' = Append(input, i) /\ Len(input) < QueueSize
  <2>1. /\ input' \in Seq(Input) /\ Len(input') = Len(input) + 1
        /\ \A k \in 1..Len(input) : input'[k] = input[k]
        /\ input'[Len(input) + 1] = i
    BY <1>1, <1>3
  <2>2. \A k \in 1..Len(input') : k \in 1..Len(input) \/ k = Len(input) + 1
    BY <1>1, <2>1
  <2> QED
    BY <1>1, <1>3, <2>1, <2>2 DEF Recording
<1> QED
  BY <1>2, <1>3 DEF Push

\* What is left in the channel.
LEMMA TakenFrom ==
    ASSUME Recording, NEW kind, Taking(kind)
    PROVE  /\ Head(input) \in Input /\ Head(input) = input[1] /\ Head(input).kind = kind
           /\ kind = "video" => Head(input).layer \in Layers /\ Head(input).codec \in Codecs
           /\ input' \in Seq(Input) /\ Len(input') <= QueueSize
           /\ Len(input) \in Nat /\ Len(input) >= 1 /\ Len(input') = Len(input) - 1
           /\ \A k \in 1..Len(input') : input'[k] = input[k + 1] /\ k + 1 \in 1..Len(input)
           /\ \A k \in 1..Len(input') : input'[k].kind = "video" =>
                 input'[k].layer \in Layers /\ input'[k].codec \in Codecs
<1>1. input \in Seq(Input) /\ input # <<>> /\ Len(input) <= QueueSize /\ QueueSize \in Nat
  BY BoundsAreNat DEF Recording, TypeOK, Taking
<1>2. /\ Head(input) \in Input /\ Head(input) = input[1] /\ 1 \in 1..Len(input)
      /\ Tail(input) \in Seq(Input)
      /\ Len(input) \in Nat /\ Len(input) >= 1 /\ Len(Tail(input)) = Len(input) - 1
      /\ \A k \in 1..Len(Tail(input)) :
            Tail(input)[k] = input[k + 1] /\ k + 1 \in 1..Len(input)
  BY <1>1
<1>3. input' = Tail(input) /\ Head(input).kind = kind
  BY DEF Taking
<1> QED
  BY <1>1, <1>2, <1>3 DEF Recording

\* What is recorded of a packet: the buffer fs with its frame, or fs without a time
\* line for its codec.
LEMMA RecordAdds ==
    ASSUME Recording, NEW i \in Input, i.kind = "video", i.layer \in Layers, i.codec \in Codecs,
           NEW fs \in Seq(Frame), NEW oldConfig, oldConfig = None \/ oldConfig \in Nat,
           Record(i, fs, oldConfig)
    PROVE  /\ videoCodec' = i.codec
           /\ video' = Timeline(i.codec)
           /\ video' \in (Codecs \ {Unsupported}) \cup {None}
           /\ video' # None => video' = i.codec
           /\ config' = None \/ config' \in Nat
           /\ config' \in {oldConfig, i.from}
           /\ frames' \in Seq(Frame)
           /\ \/ video' = None /\ frames' = fs
              \/ /\ video' # None
                 /\ \E pts \in PTS(i) : Added(frames', fs, FrameOf(i, pts), i.codec)
<1> USE NoneIsNothing
<1>1. i.from \in Nat
  BY DEF Input
<1>2. ASSUME NEW pts \in PTS(i)
      PROVE  Added(AddFrame(fs, FrameOf(i, pts), i.codec), fs, FrameOf(i, pts), i.codec)
  BY FrameOfPacket, AddFrameAdds
<1>3. CASE video' = None
  BY <1>1, <1>3 DEF Record, Timeline
<1>4. CASE video' # None
  <2>1. PICK pts \in PTS(i) : frames' = AddFrame(fs, FrameOf(i, pts), i.codec)
    BY <1>4 DEF Record
  <2>2. Added(frames', fs, FrameOf(i, pts), i.codec)
    BY <1>2, <2>1
  <2>3. frames' \in Seq(Frame)
    BY <2>2 DEF Added
  <2> QED
    BY <1>1, <1>4, <2>2, <2>3 DEF Record, Timeline
<1> QED
  BY <1>3, <1>4

\* A picture of the buffer is that of the packet that was added, or was there before.
LEMMA AddedOfOne ==
    ASSUME NEW g, NEW fs, NEW i, NEW pts, NEW c, Added(g, fs, FrameOf(i, pts), c),
           NEW k \in 1..Len(g), g[k].video
    PROVE  \/ i.kind = "video" /\ g[k].codec = i.codec /\ g[k].layer = i.layer
           \/ \E m \in 1..Len(fs) : g[k] = fs[m]
<1>1. CASE g[k] = FrameOf(i, pts)
  <2>1. FrameOf(i, pts).video = (i.kind = "video")
    BY DEF FrameOf
  <2>2. g[k].codec = i.codec /\ g[k].layer = i.layer
    BY <1>1 DEF FrameOf
  <2>3. i.kind = "video"
    BY <1>1, <2>1
  <2> QED
    BY <2>2, <2>3
<1>2. CASE \E m \in 1..Len(fs) : g[k] = fs[m]
  BY <1>2
<1> QED
  BY <1>1, <1>2 DEF Added

\* Without a time line there is no picture in the buffer.
LEMMA NoLineNoPicture ==
    ASSUME Recording, video = None
    PROVE  \A k \in 1..Len(frames) : ~frames[k].video
BY NoneIsNothing DEF Recording, OneLayerOneCodec

\* What writers push is an input.
LEMMA PacketsAreInputs ==
    ASSUME NEW p \in Nat, NEW c \in Codecs, clock' \in Nat, NEW i \in Packets(p, c)
    PROVE  i \in Input /\ (i.kind = "video" => i.layer \in Layers /\ i.codec \in Codecs)
<1> DEFINE Picture(l, k) == [kind |-> "video", layer |-> l, codec |-> c, keyframe |-> k,
                           arrival |-> clock', from |-> p]
<1>1. CASE i = [kind |-> "audio", layer |-> None, codec |-> None, keyframe |-> TRUE,
                arrival |-> clock', from |-> p]
  BY <1>1 DEF Input
<1>2. ASSUME NEW l \in Layers, NEW k \in BOOLEAN, i = Picture(l, k)
      PROVE  i \in Input /\ (i.kind = "video" => i.layer \in Layers /\ i.codec \in Codecs)
  BY <1>2 DEF Input
<1> QED
  BY <1>1, <1>2 DEF Packets

\* The pushes.
LEMMA PushesKeepRecording ==
    ASSUME Recording, Reset \/ PushPacket \/ PushLate \/ Close
    PROVE  Recording'
<1> USE NoneIsNothing, BoundsAreNat, SendsAreCodecs
<1>0. /\ clock \in 0..MaxInputs /\ publisher \in 0..MaxPublishers
      /\ codec \in Codecs \cup {None} /\ late \in Codecs \cup {None}
  BY DEF Recording, TypeOK
<1>1. ASSUME /\ input' \in Seq(Input) /\ Len(input') <= QueueSize
             /\ \A k \in 1..Len(input') : input'[k].kind = "video" =>
                   input'[k].layer \in Layers /\ input'[k].codec \in Codecs,
             clock' \in 0..MaxInputs, publisher' \in 0..MaxPublishers,
             codec' \in Codecs \cup {None}, late' \in Codecs \cup {None},
             publisher' > 0 => codec' \in Codecs, late' # None => publisher' > 0,
             closed' \in BOOLEAN, mixed' \in BOOLEAN, UNCHANGED <<running, recording>>
      PROVE  Recording'
  BY <1>1 DEF Recording, TypeOK, OneLayerOneCodec, recording
<1>2. CASE Reset
  <2> DEFINE i == [kind |-> "reset", layer |-> None, codec |-> None, keyframe |-> FALSE,
                   arrival |-> clock, from |-> publisher + 1]
  <2>1. i \in Input /\ i.kind = "reset" /\ Push(i)
    BY <1>0, <1>2 DEF Reset, Input
  <2>2. publisher + 1 \in 1..MaxPublishers /\ Sends[publisher + 1] \in SUBSET Codecs
    BY <1>0, <1>2 DEF Reset
  <2>3. codec' \in Codecs /\ mixed' \in BOOLEAN
    BY <1>2, <2>2 DEF Reset
  <2> HIDE DEF i
  <2> QED
    BY <1>0, <1>1, <1>2, <2>1, <2>2, <2>3, Pushed DEF Reset, Recording, TypeOK
<1>3. CASE PushPacket
  <2>1. PICK i \in Packets(publisher, codec) : Push(i)
    BY <1>3 DEF PushPacket
  <2>2. codec \in Codecs /\ clock' \in 0..MaxInputs /\ clock' \in Nat /\ publisher \in Nat
    BY <1>0, <1>3 DEF PushPacket, Recording
  <2>3. i \in Input /\ (i.kind = "video" => i.layer \in Layers /\ i.codec \in Codecs)
    BY <2>2, PacketsAreInputs
  <2> QED
    BY <1>0, <1>1, <1>3, <2>1, <2>2, <2>3, Pushed DEF PushPacket, Recording, TypeOK
<1>4. CASE PushLate
  <2>1. PICK i \in Packets(publisher - 1, late) : Push(i)
    BY <1>4 DEF PushLate
  <2>2. late \in Codecs /\ publisher - 1 \in Nat /\ clock' = clock /\ clock' \in Nat
    BY <1>0, <1>4 DEF PushLate, Recording
  <2>3. i \in Input /\ (i.kind = "video" => i.layer \in Layers /\ i.codec \in Codecs)
    BY <2>2, PacketsAreInputs
  <2> QED
    BY <1>0, <1>1, <1>4, <2>1, <2>2, <2>3, Pushed DEF PushLate, Recording, TypeOK
<1>5. CASE Close
  BY <1>0, <1>1, <1>5 DEF Close, Recording, TypeOK
<1> QED
  BY <1>2, <1>3, <1>4, <1>5

\* What the goroutine does.
LEMMA HandlingKeepsRecording ==
    ASSUME Recording,
           \/ HandleReset \/ HandleAudio \/ HandleOtherCodec \/ HandleBetterLayer
           \/ IgnoreLayer \/ HandleSameLayer \/ Stop
    PROVE  Recording'
<1> USE NoneIsNothing
<1> DEFINE i == Head(input)
<1>0. /\ frames \in Seq(Frame) /\ (config = None \/ config \in Nat)
      /\ video \in (Codecs \ {Unsupported}) \cup {None}
      /\ <<>> \in Seq(Frame) /\ \A k \in 1..Len(<<>>) : FALSE
  BY DEF Recording, TypeOK
<1>1. ASSUME NEW kind, Taking(kind), UNCHANGED <<sending, running, mixed>>,
             video' \in (Codecs \ {Unsupported}) \cup {None},
             videoRID' \in Layers \cup {None}, frames' \in Seq(Frame),
             videoCodec' \in Codecs \cup {None}, config' = None \/ config' \in Nat,
             video' # None => videoRID' \in Layers /\ videoCodec' = video',
             \A k \in 1..Len(frames') : frames'[k].video =>
                 /\ frames'[k].codec \in Codecs
                 /\ frames'[k].codec = videoCodec' /\ frames'[k].codec = video'
                 /\ frames'[k].layer = videoRID'
      PROVE  Recording'
  <2>1. /\ input' \in Seq(Input) /\ Len(input') <= QueueSize
        /\ \A k \in 1..Len(input') : input'[k].kind = "video" =>
              input'[k].layer \in Layers /\ input'[k].codec \in Codecs
    BY <1>1, TakenFrom
  <2> QED
    BY <1>1, <2>1 DEF Recording, TypeOK, OneLayerOneCodec, sending
<1>2. CASE HandleReset
  BY <1>0, <1>1, <1>2 DEF HandleReset
<1>3. CASE HandleAudio
  <2>1. Taking("audio") /\ i \in Input /\ i.kind = "audio"
    BY <1>3, TakenFrom DEF HandleAudio
  <2>2. PICK pts \in PTS(i) : frames' = AddFrame(frames, FrameOf(i, pts), videoCodec)
    BY <1>3 DEF HandleAudio
  <2> HIDE DEF i
  <2>3. Added(frames', frames, FrameOf(i, pts), videoCodec)
    BY <1>0, <2>1, <2>2, FrameOfPacket, AddFrameAdds
  <2>4. ASSUME NEW k \in 1..Len(frames'), frames'[k].video
        PROVE  \E m \in 1..Len(frames) : frames'[k] = frames[m]
    <3>1. FrameOf(i, pts).video = FALSE
      BY <2>1 DEF FrameOf
    <3> QED
      BY <2>3, <2>4, <3>1 DEF Added
  <2>5. /\ UNCHANGED <<video, videoRID, videoCodec, config>>
        /\ UNCHANGED <<sending, running, mixed>>
    BY <1>3 DEF HandleAudio
  <2>6. frames' \in Seq(Frame)
    BY <2>3 DEF Added
  <2>7. \A k \in 1..Len(frames') : frames'[k].video =>
            /\ frames'[k].codec \in Codecs
            /\ frames'[k].codec = videoCodec' /\ frames'[k].codec = video'
            /\ frames'[k].layer = videoRID'
    BY <2>4, <2>5 DEF Recording, OneLayerOneCodec
  <2> QED
    BY <1>1, <2>1, <2>5, <2>6, <2>7 DEF Recording, TypeOK
<1>4. ASSUME Taking("video"), UNCHANGED <<sending, running, mixed>>,
             videoRID' = i.layer,
             NEW fs \in Seq(Frame), NEW old, old = None \/ old \in Nat, Record(i, fs, old),
             \A k \in 1..Len(fs) : fs[k].video =>
                 fs[k].codec \in Codecs /\ fs[k].codec = i.codec /\ fs[k].layer = i.layer,
             \A k \in 1..Len(fs) : fs[k].video => i.codec # Unsupported
      PROVE  Recording'
  <2>1. i \in Input /\ i.kind = "video" /\ i.layer \in Layers /\ i.codec \in Codecs
    BY <1>4, TakenFrom
  <2> HIDE DEF i
  <2>2. /\ videoCodec' = i.codec
        /\ video' = Timeline(i.codec)
        /\ video' \in (Codecs \ {Unsupported}) \cup {None}
        /\ video' # None => video' = i.codec
        /\ config' = None \/ config' \in Nat
        /\ frames' \in Seq(Frame)
        /\ \/ video' = None /\ frames' = fs
           \/ /\ video' # None
              /\ \E pts \in PTS(i) : Added(frames', fs, FrameOf(i, pts), i.codec)
    BY <1>4, <2>1, RecordAdds
  <2>3. \A k \in 1..Len(frames') : frames'[k].video =>
            /\ frames'[k].codec \in Codecs
            /\ frames'[k].codec = videoCodec' /\ frames'[k].codec = video'
            /\ frames'[k].layer = videoRID'
    <3>1. CASE video' = None /\ frames' = fs
      <4>1. \A k \in 1..Len(fs) : ~fs[k].video
        BY <1>4, <2>1, <2>2, <3>1 DEF Timeline
      <4> QED
        BY <3>1, <4>1
    <3>2. CASE /\ video' # None
               /\ \E pts \in PTS(i) : Added(frames', fs, FrameOf(i, pts), i.codec)
      <4>1. PICK pts \in PTS(i) : Added(frames', fs, FrameOf(i, pts), i.codec)
        BY <3>2
      <4>2. ASSUME NEW k \in 1..Len(frames'), frames'[k].video
            PROVE  frames'[k].codec = i.codec /\ frames'[k].layer = i.layer
        BY <1>4, <4>1, <4>2, AddedOfOne
      <4>3. /\ \A k \in 1..Len(frames') : frames'[k].video => frames'[k].codec \in Codecs
            /\ \A k \in 1..Len(frames') : frames'[k].video =>
                  frames'[k].codec = i.codec /\ frames'[k].layer = i.layer
        BY <2>1, <4>2
      <4> QED
        BY <1>4, <2>2, <3>2, <4>3 DEF i
    <3> QED
      BY <2>2, <3>1, <3>2
  <2> QED
    BY <1>1, <1>4, <2>1, <2>2, <2>3 DEF i
<1>5. CASE HandleOtherCodec
  <2>1. CASE video = None
    BY <1>0, <1>4, <1>5, <2>1, NoLineNoPicture DEF HandleOtherCodec
  <2>2. CASE video # None
    <3>1. /\ Taking("video") /\ UNCHANGED <<sending, running, mixed>>
          /\ videoRID' = i.layer /\ Record(i, <<>>, None)
      BY <1>5, <2>2 DEF HandleOtherCodec
    <3> QED
      BY <1>0, <1>4, <3>1
  <2> QED
    BY <2>1, <2>2
<1>6. CASE HandleBetterLayer
  <2>1. /\ Taking("video") /\ UNCHANGED <<sending, running, mixed>>
        /\ videoRID' = i.layer /\ Record(i, <<>>, None)
    BY <1>6 DEF HandleBetterLayer
  <2> QED
    BY <1>0, <1>4, <2>1
<1>7. CASE HandleSameLayer
  <2>1. /\ Taking("video") /\ UNCHANGED <<sending, running, mixed>>
        /\ i.codec = video /\ i.layer = videoRID /\ video # None
        /\ Record(i, frames, config) /\ videoRID' = videoRID
    BY <1>7 DEF HandleSameLayer
  <2>2. \A k \in 1..Len(frames) : frames[k].video =>
            frames[k].codec \in Codecs /\ frames[k].codec = i.codec /\ frames[k].layer = i.layer
    BY <2>1 DEF Recording, OneLayerOneCodec
  <2> QED
    BY <1>0, <1>4, <2>1, <2>2
<1>8. CASE IgnoreLayer
  <2>1. Taking("video") /\ UNCHANGED <<sending, running, recording, mixed>>
    BY <1>8 DEF IgnoreLayer
  <2> QED
    BY <1>1, <2>1 DEF Recording, TypeOK, OneLayerOneCodec, recording
<1>9. CASE Stop
  BY <1>9 DEF Stop, Recording, TypeOK, OneLayerOneCodec, recording, sending
<1> QED
  BY <1>2, <1>3, <1>5, <1>6, <1>7, <1>8, <1>9

\* The recorder's variables keep their types, and the buffer the pictures of one layer
\* in one codec, whatever publishers send and however many there are.
THEOREM RecordingInvariant == Spec => []Recording
<1>1. Init => Recording
  <2> SUFFICES ASSUME Init PROVE Recording
    OBVIOUS
  <2> USE NoneIsNothing, BoundsAreNat
  <2>1. 0 \in 0..MaxInputs /\ 0 \in 0..MaxPublishers /\ Len(<<>>) = 0
    OBVIOUS
  <2>2. /\ input \in Seq(Input) /\ Len(input) = 0 /\ frames \in Seq(Frame) /\ Len(frames) = 0
        /\ QueueSize >= 0
    BY DEF Init
  <2>3. TypeOK
    BY <2>1, <2>2 DEF Init, TypeOK
  <2>4. (\A k \in 1..Len(input) : FALSE) /\ (\A k \in 1..Len(frames) : FALSE)
    BY <2>2
  <2> QED
    BY <2>3, <2>4 DEF Init, Recording, OneLayerOneCodec
<1>2. Recording /\ [Next]_vars => Recording'
  <2> SUFFICES ASSUME Recording, [Next]_vars PROVE Recording'
    OBVIOUS
  <2>1. CASE UNCHANGED vars
    BY <2>1 DEF vars, sending, recording, Recording, TypeOK, OneLayerOneCodec
  <2> QED
    BY <2>1, PushesKeepRecording, HandlingKeepsRecording DEF Next
<1> QED
  BY <1>1, <1>2, PTL DEF Spec

\* The buffer holds the pictures of one layer in one codec.
THEOREM OneLayerRecorded == Spec => []OneLayerOneCodec
<1>1. Recording => OneLayerOneCodec
  BY DEF Recording
<1> QED
  BY <1>1, RecordingInvariant, PTL

-----------------------------------------------------------------------------
(* The recorder: what is trimmed and what is kept. *)

Handling == HandleAudio \/ HandleOtherCodec \/ HandleBetterLayer \/ HandleSameLayer

\* A packet is added to the buffer fs, which is another than the one before only with
\* another layer or codec; or nothing is, as there is no time line.
Handled(fs, c, pts) ==
    /\ fs \in {frames, <<>>}
    /\ fs = frames \/ video' # video \/ videoRID' # videoRID
    /\ video' # None => c # None
    /\ Taking("audio") \/ Taking("video")
    /\ UNCHANGED <<sending, running, mixed>>
    /\ config' \in {None, config, Head(input).from}
    /\ \/ video' = None /\ frames' = fs
       \/ Added(frames', fs, FrameOf(Head(input), pts), c)

\* Recording a packet is adding it.
LEMMA RecordHandles ==
    ASSUME Recording, Taking("video"), UNCHANGED <<sending, running, mixed>>,
           NEW fs \in {frames, <<>>}, NEW old \in {None, config}, Record(Head(input), fs, old),
           fs = frames \/ video' # video \/ videoRID' # videoRID
    PROVE  \E c, pts : Handled(fs, c, pts)
<1> USE NoneIsNothing
<1> DEFINE i == Head(input)
<1>1. i \in Input /\ i.kind = "video" /\ i.layer \in Layers /\ i.codec \in Codecs
  BY TakenFrom
<1>2. fs \in Seq(Frame) /\ (old = None \/ old \in Nat)
  <2>1. frames \in Seq(Frame) /\ <<>> \in Seq(Frame) /\ (config = None \/ config \in Nat)
    BY DEF Recording, TypeOK
  <2> QED
    BY <2>1
<1> HIDE DEF i
<1>3. Record(i, fs, old)
  BY DEF i
<1>4. /\ config' \in {old, i.from}
      /\ \/ video' = None /\ frames' = fs
         \/ /\ video' # None
            /\ \E pts \in PTS(i) : Added(frames', fs, FrameOf(i, pts), i.codec)
  BY <1>1, <1>2, <1>3, RecordAdds
<1>5. CASE video' = None /\ frames' = fs
  <2>1. Handled(fs, None, 0)
    BY <1>4, <1>5 DEF Handled, i
  <2> QED
    BY <2>1
<1>6. ASSUME NEW pts \in PTS(i), Added(frames', fs, FrameOf(i, pts), i.codec)
      PROVE  Handled(fs, i.codec, pts)
  <2>1. i.codec # None
    BY <1>1
  <2>2. config' \in {None, config, i.from}
    BY <1>4
  <2> QED
    BY <1>6, <2>1, <2>2 DEF Handled, i
<1> QED
  BY <1>4, <1>5, <1>6

\* What the goroutine does with a packet.
LEMMA HandlingAdds ==
    ASSUME Recording, Handling
    PROVE  \E fs, c, pts : Handled(fs, c, pts)
<1> DEFINE i == Head(input)
<1>1. CASE HandleAudio
  <2>1. Taking("audio") /\ i \in Input
    BY <1>1, TakenFrom DEF HandleAudio
  <2>2. PICK pts \in PTS(i) : frames' = AddFrame(frames, FrameOf(i, pts), videoCodec)
    BY <1>1 DEF HandleAudio
  <2>3. frames \in Seq(Frame)
    BY DEF Recording, TypeOK
  <2>4. Added(frames', frames, FrameOf(i, pts), videoCodec)
    <3> HIDE DEF i
    <3> QED
      BY <2>1, <2>2, <2>3, FrameOfPacket, AddFrameAdds
  <2>5. video' # None => videoCodec # None
    BY <1>1 DEF HandleAudio, Recording
  <2>6. Handled(frames, videoCodec, pts)
    BY <1>1, <2>1, <2>4, <2>5 DEF Handled, HandleAudio
  <2> QED
    BY <2>6
<1>2. CASE HandleOtherCodec
  <2>1. Taking("video") /\ UNCHANGED <<sending, running, mixed>>
    BY <1>2 DEF HandleOtherCodec
  <2>2. CASE video = None
    <3>1. Record(i, frames, config)
      BY <1>2, <2>2 DEF HandleOtherCodec
    <3> QED
      BY <2>1, <3>1, RecordHandles
  <2>3. CASE video # None
    <3>1. Record(i, <<>>, None) /\ i.codec # video
      BY <1>2, <2>3 DEF HandleOtherCodec
    <3>2. video' # video
      BY <2>3, <3>1 DEF Record, Timeline
    <3> QED
      BY <2>1, <3>1, <3>2, RecordHandles
  <2> QED
    BY <2>2, <2>3
<1>3. CASE HandleBetterLayer
  <2>1. /\ Taking("video") /\ UNCHANGED <<sending, running, mixed>>
        /\ Record(i, <<>>, None) /\ videoRID' # videoRID
    BY <1>3 DEF HandleBetterLayer
  <2> QED
    BY <2>1, RecordHandles
<1>4. CASE HandleSameLayer
  <2>1. /\ Taking("video") /\ UNCHANGED <<sending, running, mixed>>
        /\ Record(i, frames, config)
    BY <1>4 DEF HandleSameLayer
  <2> QED
    BY <2>1, RecordHandles
<1> QED
  BY <1>1, <1>2, <1>3, <1>4 DEF Handling

\* Whatever else happens leaves the recording alone or begins it anew.
LEMMA OtherSteps ==
    ASSUME [Next]_vars, ~Handling
    PROVE  UNCHANGED recording \/ HandleReset
BY DEF Next, vars, recording, Handling, Reset, PushPacket, PushLate, Close, IgnoreLayer, Stop

\* The buffer is no longer than it must be.
THEOREM NoOlderRecorded == Spec => []NoOlderThanNeeded
<1>1. Init => NoOlderThanNeeded
  BY DEF Init, NoOlderThanNeeded
<1>2. Recording /\ NoOlderThanNeeded /\ [Next]_vars => NoOlderThanNeeded'
  <2> SUFFICES ASSUME Recording, NoOlderThanNeeded, [Next]_vars PROVE NoOlderThanNeeded'
    OBVIOUS
  <2>1. CASE UNCHANGED recording
    BY <2>1 DEF recording, NoOlderThanNeeded
  <2>2. CASE HandleReset
    BY <2>2 DEF HandleReset, NoOlderThanNeeded
  <2>3. CASE Handling
    <3>1. PICK fs, c, pts : Handled(fs, c, pts)
      BY <2>3, HandlingAdds
    <3>2. CASE video' = None
      BY <3>2 DEF NoOlderThanNeeded
    <3>3. CASE video' # None
      <4>1. c # None /\ Added(frames', fs, FrameOf(Head(input), pts), c)
        BY <3>1, <3>3 DEF Handled
      <4> QED
        BY <4>1 DEF Added, NoOlderThanNeeded
    <3> QED
      BY <3>2, <3>3
  <2> QED
    BY <2>1, <2>2, <2>3, OtherSteps
<1> QED
  BY <1>1, <1>2, RecordingInvariant, PTL DEF Spec

\* A picture at the front of a buffer is a keyframe.
KeyframeInFront(fs) == fs # <<>> /\ fs[1].video => fs[1].keyframe

\* addFrame lets no other picture begin the buffer, and trimming begins it anew with a
\* keyframe, or with any frame if there are no pictures.
LEMMA AddFrameKeepsFront ==
    ASSUME NEW fs \in Seq(Frame), NEW f \in Frame, NEW c, KeyframeInFront(fs),
           c = None => ~f.video /\ \A i \in 1..Len(fs) : ~fs[i].video
    PROVE  KeyframeInFront(AddFrame(fs, f, c))
<1>1. CASE f.video /\ fs = <<>> /\ ~f.keyframe
  BY <1>1 DEF AddFrame
<1>2. CASE ~(f.video /\ fs = <<>> /\ ~f.keyframe)
  <2> DEFINE g == Append(fs, f)
             n == Len(g)
             cutoff == g[n].pts - BufferDuration
             Starts == {i \in 1..n : g[i].pts >= cutoff /\ (c = None \/ IsVideoKeyframe(g[i]))}
             s == SmallestOf(Starts)
  <2>1. /\ g \in Seq(Frame) /\ n = Len(fs) + 1 /\ Len(fs) \in Nat
        /\ \A i \in 1..Len(fs) : g[i] = fs[i]
        /\ g[n] = f
        /\ \A i \in 1..n : i \in 1..Len(fs) \/ i = n
    OBVIOUS
  <2>2. AddFrame(fs, f, c) = IF g[1].pts >= cutoff \/ Starts = {} THEN g ELSE SubSeq(g, s, n)
    BY <1>2 DEF AddFrame, TrimLocked
  <2> HIDE DEF g
  <2>3. CASE g[1].pts >= cutoff \/ Starts = {}
    <3>1. CASE fs = <<>>
      <4>1. n = 1 /\ g[1] = f
        BY <2>1, <3>1
      <4> QED
        BY <1>2, <2>2, <2>3, <3>1, <4>1 DEF KeyframeInFront
    <3>2. CASE fs # <<>>
      <4>1. g[1] = fs[1]
        BY <2>1, <3>2
      <4> QED
        BY <2>2, <2>3, <3>2, <4>1 DEF KeyframeInFront
    <3> QED
      BY <3>1, <3>2
  <2>4. CASE ~(g[1].pts >= cutoff \/ Starts = {})
    <3>1. s \in Starts
      <4>1. Starts \in SUBSET Nat /\ Starts # {}
        BY <2>1, <2>4
      <4> HIDE DEF Starts
      <4> QED
        BY <4>1, SmallestExists
    <3>2. s \in 1..n /\ (c = None \/ IsVideoKeyframe(g[s]))
      BY <3>1
    <3> HIDE DEF s, Starts
    <3>3. SubSeq(g, s, n)[1] = g[s]
      <4>1. /\ s \in 1..n + 1 /\ n \in s - 1..n /\ 1 \in 1..n - s + 1 /\ s + 1 - 1 = s
        BY <2>1, <3>2
      <4> HIDE DEF n
      <4> QED
        BY <2>1, <4>1, SubSeqProperties DEF n
    <3>4. c = None => ~g[s].video
      BY <2>1, <3>2
    <3> QED
      BY <2>2, <2>4, <3>2, <3>3, <3>4 DEF KeyframeInFront, IsVideoKeyframe
  <2> QED
    BY <2>3, <2>4
<1> QED
  BY <1>1, <1>2

\* So does what is recorded of a packet.
LEMMA RecordKeepsFront ==
    ASSUME Recording, KeyframeInFront(frames), Taking("video"),
           NEW fs \in {frames, <<>>}, NEW old, Record(Head(input), fs, old)
    PROVE  KeyframeInFront(frames')
<1> DEFINE i == Head(input)
<1>1. i \in Input /\ i.codec \in Codecs /\ i.codec # None
  BY TakenFrom, NoneIsNothing
<1>2. fs \in Seq(Frame) /\ KeyframeInFront(fs)
  <2>1. frames \in Seq(Frame) /\ <<>> \in Seq(Frame)
    BY DEF Recording, TypeOK
  <2> QED
    BY <2>1 DEF KeyframeInFront
<1> HIDE DEF i
<1>3. ASSUME NEW pts \in PTS(i) PROVE KeyframeInFront(AddFrame(fs, FrameOf(i, pts), i.codec))
  BY <1>1, <1>2, FrameOfPacket, AddFrameKeepsFront
<1>4. frames' = fs \/ \E pts \in PTS(i) : frames' = AddFrame(fs, FrameOf(i, pts), i.codec)
  BY DEF Record, i
<1> QED
  BY <1>2, <1>3, <1>4

\* However the buffer is added to, trimmed and begun anew, a picture at its front is a
\* keyframe.
THEOREM FrontStaysKeyframe == Spec => []KeyframeInFront(frames)
<1>1. Init => KeyframeInFront(frames)
  BY DEF Init, KeyframeInFront
<1>2. Recording /\ KeyframeInFront(frames) /\ [Next]_vars => KeyframeInFront(frames)'
  <2> SUFFICES ASSUME Recording, KeyframeInFront(frames), [Next]_vars
               PROVE  KeyframeInFront(frames')
    BY DEF KeyframeInFront
  <2>1. CASE UNCHANGED recording
    BY <2>1 DEF recording, KeyframeInFront
  <2>2. CASE HandleReset
    BY <2>2 DEF HandleReset, KeyframeInFront
  <2>3. CASE HandleAudio
    <3> DEFINE i == Head(input)
    <3>1. i \in Input /\ i.kind = "audio"
      BY <2>3, TakenFrom DEF HandleAudio
    <3>2. frames \in Seq(Frame)
      BY DEF Recording, TypeOK
    <3>3. videoCodec = None => \A k \in 1..Len(frames) : ~frames[k].video
      BY NoneIsNothing DEF Recording, OneLayerOneCodec
    <3>4. PICK pts \in PTS(i) : frames' = AddFrame(frames, FrameOf(i, pts), videoCodec)
      BY <2>3 DEF HandleAudio
    <3> HIDE DEF i
    <3>5. FrameOf(i, pts) \in Frame /\ ~FrameOf(i, pts).video
      <4>1. FrameOf(i, pts).video = (i.kind = "video")
        BY DEF FrameOf
      <4> QED
        BY <3>1, <4>1, FrameOfPacket
    <3>6. KeyframeInFront(AddFrame(frames, FrameOf(i, pts), videoCodec))
      BY <3>2, <3>3, <3>5, AddFrameKeepsFront
    <3> QED
      BY <3>4, <3>6
  <2>4. CASE HandleOtherCodec
    BY <2>4, RecordKeepsFront DEF HandleOtherCodec
  <2>5. CASE HandleBetterLayer
    BY <2>5, RecordKeepsFront DEF HandleBetterLayer
  <2>6. CASE HandleSameLayer
    BY <2>6, RecordKeepsFront DEF HandleSameLayer
  <2> QED
    BY <2>1, <2>2, <2>3, <2>4, <2>5, <2>6, OtherSteps DEF Handling
<1> QED
  BY <1>1, <1>2, RecordingInvariant, PTL DEF Spec

\* A keyframe that is young enough stays while the same layer is recorded.
THEOREM RecentStartsAreKept == Spec => RecentStartsKept
<1> DEFINE Stays ==
        frames' # <<>> /\ videoRID' = videoRID /\ video' = video =>
            \A i \in 1..Len(frames) :
                IsVideoKeyframe(frames[i]) /\ frames[i].pts >= frames'[Len(frames')].pts - BufferDuration
                    => \E j \in 1..Len(frames') : frames'[j] = frames[i]
<1>1. Recording /\ [Next]_vars => [Stays]_vars
  <2> SUFFICES ASSUME Recording, [Next]_vars PROVE Stays
    OBVIOUS
  <2>1. CASE UNCHANGED recording
    BY <2>1 DEF recording
  <2>2. CASE HandleReset
    BY <2>2 DEF HandleReset
  <2>3. CASE Handling
    <3>1. PICK fs, c, pts : Handled(fs, c, pts)
      BY <2>3, HandlingAdds
    <3> SUFFICES ASSUME frames' # <<>>, videoRID' = videoRID, video' = video,
                        NEW i \in 1..Len(frames), IsVideoKeyframe(frames[i]),
                        frames[i].pts >= frames'[Len(frames')].pts - BufferDuration
                 PROVE  \E j \in 1..Len(frames') : frames'[j] = frames[i]
      OBVIOUS
    <3>2. fs = frames
      BY <3>1 DEF Handled
    <3>3. CASE frames' = fs
      BY <3>2, <3>3
    <3>4. CASE Added(frames', fs, FrameOf(Head(input), pts), c)
      BY <3>2, <3>4 DEF Added
    <3> QED
      BY <3>1, <3>3, <3>4 DEF Handled
  <2> QED
    BY <2>1, <2>2, <2>3, OtherSteps
<1> QED
  BY <1>1, RecordingInvariant, PTL DEF Spec, RecentStartsKept

-----------------------------------------------------------------------------
(* The recorder: the frames of one publisher. *)

\* While no reset was lost and no packet came after one: between two resets all that
\* waits is of one publisher, the last of it of the current one, and so is what is
\* recorded and what waits before the next reset.
Apart ==
    ~mixed =>
        /\ late = None
        /\ \A i \in 1..Len(input) - 1 :
              input[i + 1].kind # "reset" => input[i + 1].from = input[i].from
        /\ input # <<>> => input[Len(input)].from = publisher
        /\ LET n == IF input = <<>> THEN publisher ELSE input[1].from IN
           input = <<>> \/ input[1].kind # "reset" =>
               /\ \A i \in 1..Len(frames) : frames[i].from = n
               /\ config \in {None, n}

\* A publisher's packet or the reset for a new one is pushed.
LEMMA PushKeepsApart ==
    ASSUME Recording, Apart, ~mixed, ~mixed', NEW i \in Input, Push(i),
           UNCHANGED <<frames, config>>, late' = None, i.from = publisher',
           \/ i.kind # "reset" /\ publisher' = publisher
           \/ i.kind = "reset" /\ Len(input) # QueueSize
    PROVE  Apart'
<1> DEFINE l == Len(input)
<1>1. /\ input \in Seq(Input) /\ l \in Nat /\ l <= QueueSize /\ QueueSize \in Nat
      /\ publisher \in Nat
  BY BoundsAreNat DEF Recording, TypeOK
<1>2. CASE input' = input
  <2>1. CASE publisher' = publisher
    BY <1>2, <2>1 DEF Apart
  <2>2. CASE publisher' # publisher
    <3>1. input' = Append(input, i)
      BY <1>1, <2>2 DEF Push
    <3>2. Len(input') = l + 1
      BY <1>1, <3>1
    <3> QED
      BY <1>1, <1>2, <3>2
  <2> QED
    BY <2>1, <2>2
<1>3. CASE input' = Append(input, i)
  <2>1. /\ Len(input') = l + 1 /\ input' # <<>>
        /\ \A k \in 1..l : input'[k] = input[k]
        /\ input'[l + 1] = i
    BY <1>1, <1>3
  <2>2. ASSUME NEW k \in 1..l, input'[k + 1].kind # "reset"
        PROVE  input'[k + 1].from = input'[k].from
    <3>1. CASE k = l
      <4>1. input # <<>> /\ input[l].from = publisher
        BY <1>1, <3>1 DEF Apart
      <4> QED
        BY <2>1, <2>2, <3>1, <4>1
    <3>2. CASE k # l
      <4>1. k \in 1..l - 1 /\ k + 1 \in 1..l
        BY <1>1, <3>2
      <4> QED
        BY <2>1, <2>2, <4>1 DEF Apart
    <3> QED
      BY <3>1, <3>2
  <2>3. ASSUME input'[1].kind # "reset"
        PROVE  /\ \A k \in 1..Len(frames) : frames[k].from = input'[1].from
               /\ config \in {None, input'[1].from}
    <3>1. CASE l = 0
      <4>1. input = <<>> /\ input'[1] = i
        BY <1>1, <2>1, <3>1
      <4> QED
        BY <2>3, <4>1 DEF Apart
    <3>2. CASE l # 0
      <4>1. input # <<>> /\ input'[1] = input[1]
        BY <1>1, <2>1, <3>2
      <4> QED
        BY <2>3, <4>1 DEF Apart
    <3> QED
      BY <3>1, <3>2
  <2>4. l + 1 - 1 = l
    BY <1>1
  <2> QED
    BY <2>1, <2>2, <2>3, <2>4 DEF Apart
<1> QED
  BY <1>2, <1>3 DEF Push

\* An input is taken, and what is recorded after it is of its publisher.
LEMMA TakeKeepsApart ==
    ASSUME Recording, Apart, ~mixed, NEW kind, Taking(kind), UNCHANGED <<sending, mixed>>,
           \A k \in 1..Len(frames') : frames'[k].from = Head(input).from,
           config' \in {None, Head(input).from}
    PROVE  Apart' /\ OnePublisher'
<1> DEFINE l == Len(input)
           n == Head(input).from
<1>1. /\ Head(input) = input[1] /\ l \in Nat /\ l >= 1 /\ Len(input') = l - 1
      /\ \A k \in 1..l - 1 : input'[k] = input[k + 1] /\ k + 1 \in 1..l
      /\ input # <<>> /\ input' \in Seq(Input)
  BY TakenFrom DEF Taking
<1>2. late' = None /\ publisher' = publisher
  BY DEF Apart, sending
<1> HIDE DEF l
<1>3. ASSUME NEW k \in 1..Len(input') - 1, input'[k + 1].kind # "reset"
      PROVE  input'[k + 1].from = input'[k].from
  <2>1. k \in 1..l - 1 /\ k + 1 \in 1..l - 1
    BY <1>1
  <2> QED
    BY <1>1, <1>3, <2>1 DEF Apart, l
<1>4. input' # <<>> => input'[Len(input')].from = publisher
  <2> SUFFICES ASSUME input' # <<>> PROVE input'[Len(input')].from = publisher
    OBVIOUS
  <2>1. Len(input') # 0
    BY <1>1
  <2>2. l - 1 \in 1..l - 1 /\ l - 1 + 1 = l
    BY <1>1, <2>1
  <2> QED
    BY <1>1, <2>2 DEF Apart, l
<1>5. CASE input' = <<>>
  <2>1. l = 1
    BY <1>1, <1>5
  <2>2. n = publisher
    BY <1>1, <2>1 DEF Apart, l
  <2> QED
    BY <1>2, <1>3, <1>4, <1>5, <2>2 DEF Apart, OnePublisher
<1>6. CASE input' # <<>>
  <2>1. Len(input') # 0
    BY <1>1, <1>6
  <2>2. input'[1] = input[2] /\ 1 \in 1..l - 1
    BY <1>1, <2>1
  <2>3. input'[1].kind # "reset" => input'[1].from = n
    BY <1>1, <2>2 DEF Apart, l
  <2> QED
    BY <1>2, <1>3, <1>4, <1>6, <2>3 DEF Apart, OnePublisher
<1> QED
  BY <1>5, <1>6

\* A clip is one of a single publisher, as long as no reset is lost and no packet of
\* the publisher before comes after it.
THEOREM OnePublisherRecorded == Spec => [](Apart /\ OnePublisher)
<1>1. Init => Apart /\ OnePublisher
  BY DEF Init, Apart, OnePublisher
<1>2. Recording /\ Apart /\ OnePublisher /\ [Next]_vars => Apart' /\ OnePublisher'
  <2> SUFFICES ASSUME Recording, Apart, OnePublisher, [Next]_vars
               PROVE  Apart' /\ OnePublisher'
    OBVIOUS
  <2> USE NoneIsNothing
  <2>1. CASE UNCHANGED <<sending, input, recording, mixed>>
    BY <2>1 DEF sending, recording, Apart, OnePublisher
  <2>2. CASE mixed'
    BY <2>2 DEF Apart, OnePublisher
  <2>3. mixed => mixed'
    BY DEF Next, vars, Reset, PushPacket, PushLate, Close, HandleReset, HandleAudio,
           HandleOtherCodec, HandleBetterLayer, IgnoreLayer, HandleSameLayer, Stop
  <2>4. /\ clock \in Nat /\ publisher \in Nat /\ codec \in Codecs \cup {None}
        /\ QueueSize \in Nat
    BY BoundsAreNat DEF Recording, TypeOK
  <2>5. ASSUME ~mixed', Reset PROVE Apart' /\ OnePublisher'
    <3> DEFINE i == [kind |-> "reset", layer |-> None, codec |-> None, keyframe |-> FALSE,
                     arrival |-> clock, from |-> publisher + 1]
    <3>1. i \in Input /\ i.kind = "reset" /\ i.from = publisher + 1
      BY <2>4 DEF Input
    <3>2. /\ Push(i) /\ publisher' = publisher + 1 /\ UNCHANGED <<frames, config>>
          /\ mixed' = (mixed \/ Len(input) = QueueSize \/ late' # None)
      BY <2>5 DEF Reset, recording
    <3>3. Len(input) # QueueSize /\ late' = None
      BY <2>5, <3>2
    <3> HIDE DEF i
    <3>4. Apart'
      BY <2>3, <2>5, <3>1, <3>2, <3>3, PushKeepsApart
    <3> QED
      BY <2>3, <2>5, <3>2, <3>4 DEF OnePublisher
  <2>6. ASSUME ~mixed', PushPacket PROVE Apart' /\ OnePublisher'
    <3>1. PICK i \in Packets(publisher, codec) : Push(i)
      BY <2>6 DEF PushPacket
    <3>2. codec \in Codecs /\ clock' \in Nat
      BY <2>4, <2>6 DEF PushPacket, Recording
    <3>3. i \in Input /\ i.kind # "reset" /\ i.from = publisher
      <4>1. i \in Input
        BY <2>4, <3>2, PacketsAreInputs
      <4> QED
        BY <4>1 DEF Packets
    <3>4. /\ publisher' = publisher /\ late' = late /\ UNCHANGED <<frames, config>>
          /\ late = None
      BY <2>3, <2>6 DEF PushPacket, recording, Apart
    <3>5. Apart'
      BY <2>3, <2>6, <3>1, <3>3, <3>4, PushKeepsApart
    <3> QED
      BY <2>3, <2>6, <3>4, <3>5 DEF OnePublisher
  <2>7. ASSUME ~mixed', PushLate PROVE FALSE
    BY <2>3, <2>7 DEF PushLate, Apart
  <2>8. ASSUME ~mixed', HandleReset PROVE Apart' /\ OnePublisher'
    <3>1. /\ Taking("reset") /\ UNCHANGED <<sending, mixed>>
          /\ (\A k \in 1..Len(frames') : frames'[k].from = Head(input).from)
          /\ config' = None
      BY <2>8 DEF HandleReset
    <3> QED
      BY <2>3, <2>8, <3>1, TakeKeepsApart
  <2>9. ASSUME ~mixed', Handling PROVE Apart' /\ OnePublisher'
    <3>1. PICK fs, c, pts : Handled(fs, c, pts)
      BY <2>9, HandlingAdds
    <3> DEFINE n == Head(input).from
    <3>2. /\ Head(input) = input[1] /\ input # <<>> /\ input[1].kind # "reset"
      BY <3>1, TakenFrom DEF Handled, Taking
    <3>3. /\ \A k \in 1..Len(frames) : frames[k].from = n
          /\ config \in {None, n}
      BY <2>3, <2>9, <3>2 DEF Apart
    <3>4. \A k \in 1..Len(fs) : fs[k].from = n
      BY <3>1, <3>3 DEF Handled
    <3>5. FrameOf(Head(input), pts).from = n
      BY DEF FrameOf
    <3> HIDE DEF n
    <3>6. \A k \in 1..Len(frames') : frames'[k].from = n
      <4>1. CASE frames' = fs
        BY <3>4, <4>1
      <4>2. CASE Added(frames', fs, FrameOf(Head(input), pts), c)
        BY <3>4, <3>5, <4>2 DEF Added
      <4> QED
        BY <3>1, <4>1, <4>2 DEF Handled
    <3>7. config' \in {None, n} /\ UNCHANGED <<sending, mixed>>
      BY <3>1, <3>3 DEF Handled, n
    <3> QED
      BY <2>3, <2>9, <3>1, <3>6, <3>7, TakeKeepsApart DEF Handled, n
  <2>10. ASSUME ~mixed', IgnoreLayer PROVE Apart' /\ OnePublisher'
    <3>1. Taking("video") /\ UNCHANGED <<sending, mixed, frames, config>>
      BY <2>10 DEF IgnoreLayer, recording
    <3>2. /\ Head(input) = input[1] /\ input # <<>> /\ input[1].kind # "reset"
      BY <3>1, TakenFrom DEF Taking
    <3>3. /\ \A k \in 1..Len(frames) : frames[k].from = Head(input).from
          /\ config \in {None, Head(input).from}
      BY <2>3, <2>10, <3>2 DEF Apart
    <3> QED
      BY <2>3, <2>10, <3>1, <3>3, TakeKeepsApart
  <2>11. CASE Close \/ Stop
    <3>1. UNCHANGED <<late, publisher, input, frames, config, mixed>>
      BY <2>11 DEF Close, Stop, sending, recording
    <3> QED
      BY <3>1 DEF Apart, OnePublisher
  <2>12. UNCHANGED vars => UNCHANGED <<sending, input, recording, mixed>>
    BY DEF vars
  <2> QED
    BY <2>1, <2>2, <2>5, <2>6, <2>7, <2>8, <2>9, <2>10, <2>11, <2>12 DEF Next, Handling
<1> QED
  BY <1>1, <1>2, RecordingInvariant, PTL DEF Spec

\* What ClipRecorder promises of its buffer.
THEOREM BufferIsKept == Spec => BufferKept
<1>1. Recording => TypeOK
  BY DEF Recording
<1> QED
  BY <1>1, RecordingInvariant, OneLayerRecorded, OnePublisherRecorded, NoOlderRecorded,
     RecentStartsAreKept, PTL DEF BufferKept

-----------------------------------------------------------------------------
(* Clips: what is computed step by step over a sequence. *)

\* What holds at first and goes on from each number to the next holds up to the last.
LEMMA StepByStep ==
    ASSUME NEW l \in Nat, NEW S, 0 \in S, \A n \in 1..l : n - 1 \in S => n \in S
    PROVE  0..l \subseteq S
<1> DEFINE T == {n \in 0..l : n \notin S}
<1> SUFFICES ASSUME T # {} PROVE FALSE
  OBVIOUS
<1> DEFINE m == SmallestOf(T)
<1>1. m \in T /\ \A y \in T : m <= y
  BY SmallestExists
<1> HIDE DEF m
<1>2. m \in 1..l
  BY <1>1
<1>3. m - 1 \notin T
  BY <1>1, <1>2
<1> QED
  BY <1>1, <1>2, <1>3

\* Steps from one value of V to the next.
Steps(l, V) == [1..l -> [V -> V]]

\* f begins with c and goes on by the steps.
Goes(f, l, V, c, step) ==
    f \in [0..l -> V] /\ f[0] = c /\ \A n \in 1..l : f[n] = step[n][f[n - 1]]

\* A function that is defined by its value before exists.
LEMMA StepwiseExists ==
    ASSUME NEW l \in Nat, NEW V, NEW c \in V, NEW step \in Steps(l, V)
    PROVE  \E f : Goes(f, l, V, c, step)
<1> USE DEF Steps, Goes
<1> DEFINE S == {n \in 0..l : \E f \in [0..n -> V] :
                    f[0] = c /\ \A i \in 1..n : f[i] = step[i][f[i - 1]]}
<1>1. 0 \in S
  <2> DEFINE f == [i \in 0..0 |-> c]
  <2>1. f \in [0..0 -> V] /\ f[0] = c
    OBVIOUS
  <2>2. \A i \in 1..0 : f[i] = step[i][f[i - 1]]
    OBVIOUS
  <2> HIDE DEF f
  <2>3. 0 \in 0..l
    OBVIOUS
  <2> QED
    BY <2>1, <2>2, <2>3
<1>2. ASSUME NEW n \in 1..l, n - 1 \in S PROVE n \in S
  <2>1. PICK f \in [0..n - 1 -> V] :
           f[0] = c /\ \A i \in 1..n - 1 : f[i] = step[i][f[i - 1]]
    BY <1>2
  <2>2. n - 1 \in 0..n - 1
    OBVIOUS
  <2> DEFINE g == [i \in 0..n |-> IF i = n THEN step[n][f[n - 1]] ELSE f[i]]
  <2>3. step[n][f[n - 1]] \in V
    BY <2>1, <2>2
  <2>4. g \in [0..n -> V]
    <3>1. \A i \in 0..n : i # n => i \in 0..n - 1
      OBVIOUS
    <3> QED
      BY <2>1, <2>3, <3>1
  <2>5. \A i \in 0..n : g[i] = IF i = n THEN step[n][f[n - 1]] ELSE f[i]
    OBVIOUS
  <2> HIDE DEF g
  <2>6. g[0] = c
    BY <2>1, <2>5
  <2>7. ASSUME NEW i \in 1..n PROVE g[i] = step[i][g[i - 1]]
    <3>1. i \in 0..n /\ i - 1 \in 0..n /\ i - 1 # n
      OBVIOUS
    <3>2. g[i - 1] = f[i - 1]
      BY <2>5, <3>1
    <3>3. CASE i = n
      BY <2>5, <3>1, <3>2, <3>3
    <3>4. CASE i # n
      <4>1. i \in 1..n - 1
        BY <3>4
      <4> QED
        BY <2>1, <2>5, <3>1, <3>2, <3>4, <4>1
    <3> QED
      BY <3>3, <3>4
  <2>8. n \in 0..l
    OBVIOUS
  <2>9. \E h \in [0..n -> V] : h[0] = c /\ \A i \in 1..n : h[i] = step[i][h[i - 1]]
    BY <2>4, <2>6, <2>7, Zenon
  <2> QED
    BY <2>8, <2>9, Zenon
<1>3. 0..l \subseteq S
  <2> HIDE DEF S
  <2> QED
    BY <1>1, <1>2, StepByStep
<1> QED
  BY <1>3

\* What is chosen is collected step by step.
Choosing(f, T, s, S) ==
    /\ f \in [0..Len(s) -> Seq(T)]
    /\ f[0] = <<>> /\ Chosen(s, S) = f[Len(s)]
    /\ \A n \in 1..Len(s) : f[n] = IF n \in S THEN Append(f[n - 1], s[n]) ELSE f[n - 1]

\* Choosing goes on place by place, to the whole.
LEMMA ChosenSteps ==
    ASSUME NEW T, NEW s \in Seq(T), NEW S
    PROVE  \E f : Choosing(f, T, s, S)
<1> DEFINE l == Len(s)
           step == [n \in 1..l |-> [t \in Seq(T) |-> IF n \in S THEN Append(t, s[n]) ELSE t]]
           Body(f) == [n \in 0..l |-> IF n = 0 THEN <<>>
                                      ELSE IF n \in S THEN Append(f[n - 1], s[n]) ELSE f[n - 1]]
<1>1. l \in Nat /\ \A n \in 1..l : s[n] \in T
  OBVIOUS
<1>2. step \in Steps(l, Seq(T))
  BY <1>1 DEF Steps
<1>3. <<>> \in Seq(T)
  OBVIOUS
<1>4. PICK f : Goes(f, l, Seq(T), <<>>, step)
  <2> HIDE DEF step, l
  <2> QED
    BY <1>1, <1>2, <1>3, StepwiseExists
<1>5. /\ \A n \in 1..l : n - 1 \in 0..l
      /\ f \in [0..l -> Seq(T)] /\ f[0] = <<>>
  BY <1>1, <1>4 DEF Goes
<1>6. \A n \in 1..l : f[n] = IF n \in S THEN Append(f[n - 1], s[n]) ELSE f[n - 1]
  BY <1>4, <1>5 DEF Goes
<1>7. f = Body(f)
  <2>1. f = [n \in 0..l |-> f[n]]
    BY <1>5
  <2>2. \A n \in 0..l : n # 0 => n \in 1..l
    BY <1>1
  <2>3. \A n \in 0..l : f[n] = IF n = 0 THEN <<>>
                               ELSE IF n \in S THEN Append(f[n - 1], s[n]) ELSE f[n - 1]
    BY <1>5, <1>6, <2>2
  <2> QED
    BY <2>1, <2>3
<1>8. PICK g : Chosen(s, S) = g[l] /\ g = Body(g)
  BY <1>7 DEF Chosen
<1>9. \A n \in 0..l : g[n] = f[n]
  <2> DEFINE E == {n \in 0..l : g[n] = f[n]}
  <2>1. 0 \in E
    <3>1. 0 \in 0..l
      BY <1>1
    <3>2. g[0] = <<>>
      BY <1>8, <3>1
    <3> QED
      BY <1>5, <3>1, <3>2
  <2>2. ASSUME NEW n \in 1..l, n - 1 \in E PROVE n \in E
    <3>1. n \in 0..l /\ n # 0
      BY <1>1
    <3>2. g[n] = IF n \in S THEN Append(g[n - 1], s[n]) ELSE g[n - 1]
      BY <1>8, <3>1
    <3> QED
      BY <1>6, <2>2, <3>1, <3>2
  <2>3. 0..l \subseteq E
    <3> HIDE DEF E, l
    <3> QED
      BY <1>1, <2>1, <2>2, StepByStep
  <2> QED
    BY <2>3
<1>10. l \in 0..l
  BY <1>1
<1>11. Choosing(f, T, s, S)
  BY <1>5, <1>6, <1>8, <1>9, <1>10 DEF Choosing
<1> QED
  BY <1>11

\* t is what is chosen of the first n places of s.
Collected(t, s, S, n) ==
    /\ \A j \in 1..Len(t) : \E i \in 1..n : i \in S /\ t[j] = s[i]
    /\ \A i \in 1..n : i \in S => \E j \in 1..Len(t) : t[j] = s[i]
    /\ \A i \in 1..n : i \in S /\ (\A j \in 1..n : j < i => j \notin S)
                         => t # <<>> /\ t[1] = s[i]

\* All that is chosen is there, and nothing else, beginning with the first.
LEMMA ChosenIs ==
    ASSUME NEW T, NEW s \in Seq(T), NEW S
    PROVE  Chosen(s, S) \in Seq(T) /\ Collected(Chosen(s, S), s, S, Len(s))
<1> DEFINE l == Len(s)
<1>0. l \in Nat /\ \A n \in 1..l : s[n] \in T
  OBVIOUS
<1>a. PICK f : Choosing(f, T, s, S)
  BY ChosenSteps
<1>1. /\ f \in [0..l -> Seq(T)]
      /\ f[0] = <<>> /\ Chosen(s, S) = f[l]
      /\ \A n \in 1..l : f[n] = IF n \in S THEN Append(f[n - 1], s[n]) ELSE f[n - 1]
  BY <1>a, Zenon DEF Choosing
<1> DEFINE E == {n \in 0..l : Collected(f[n], s, S, n)}
<1>2. 0 \in E
  BY <1>0, <1>1 DEF Collected
<1>3. ASSUME NEW n \in 1..l, n - 1 \in E PROVE n \in E
  <2>0. /\ n - 1 \in 0..l /\ n \in 0..l /\ s[n] \in T
        /\ \A i \in 1..n : i # n => i \in 1..n - 1
        /\ \A i \in 1..n - 1 : i \in 1..n /\ i # n
    BY <1>0
  <2>1. /\ n - 1 \in 0..l /\ n \in 0..l /\ f[n - 1] \in Seq(T) /\ s[n] \in T
        /\ \A i \in 1..n : i # n => i \in 1..n - 1
        /\ \A i \in 1..n - 1 : i \in 1..n /\ i # n
    BY <1>1, <2>0
  <2> DEFINE t == f[n - 1]
             u == f[n]
  <2>2. Collected(t, s, S, n - 1) /\ t \in Seq(T)
    BY <1>3, <2>1
  <2>3. u = IF n \in S THEN Append(t, s[n]) ELSE t
    BY <1>1
  <2> HIDE DEF t, u, l
  <2>4. CASE n \notin S
    <3>1. u = t
      BY <2>3, <2>4
    <3>2. Collected(u, s, S, n)
      BY <2>1, <2>2, <2>4, <3>1 DEF Collected
    <3> QED
      BY <2>1, <3>2 DEF u
  <2>5. CASE n \in S
    <3>1. u = Append(t, s[n])
      BY <2>3, <2>5
    <3>2. /\ Len(u) = Len(t) + 1 /\ Len(t) \in Nat /\ u[Len(t) + 1] = s[n]
          /\ \A j \in 1..Len(t) : u[j] = t[j]
      BY <2>1, <2>2, <3>1
    <3>3. \A j \in 1..Len(u) : \E i \in 1..n : i \in S /\ u[j] = s[i]
      <4>1. \A j \in 1..Len(u) : j = Len(t) + 1 \/ j \in 1..Len(t)
        BY <3>2
      <4>2. \A j \in 1..Len(t) : \E i \in 1..n - 1 : i \in S /\ t[j] = s[i]
        BY <2>2 DEF Collected
      <4>3. n \in 1..n
        OBVIOUS
      <4> QED
        BY <2>1, <2>5, <3>2, <4>1, <4>2, <4>3
    <3>4. \A i \in 1..n : i \in S => \E j \in 1..Len(u) : u[j] = s[i]
      <4>1. Len(t) + 1 \in 1..Len(u) /\ 1..Len(t) \subseteq 1..Len(u)
        BY <3>2
      <4>2. \A i \in 1..n - 1 : i \in S => \E j \in 1..Len(t) : t[j] = s[i]
        BY <2>2 DEF Collected
      <4> QED
        BY <2>1, <3>2, <4>1, <4>2
    <3>5. ASSUME NEW i \in 1..n, i \in S, \A j \in 1..n : j < i => j \notin S
          PROVE  u # <<>> /\ u[1] = s[i]
      <4>1. u # <<>>
        BY <3>2
      <4>2. CASE i = n
        <5>1. \A j \in 1..n - 1 : j \notin S
          BY <3>5, <4>2
        <5>2. 1..Len(t) = {}
          BY <2>2, <5>1 DEF Collected
        <5>3. Len(t) = 0
          BY <3>2, <5>2
        <5> QED
          BY <3>2, <4>1, <4>2, <5>3
      <4>3. CASE i # n
        <5>1. i \in 1..n - 1 /\ \A j \in 1..n - 1 : j < i => j \notin S
          BY <2>1, <3>5, <4>3
        <5>2. t # <<>> /\ t[1] = s[i]
          BY <2>2, <3>5, <5>1 DEF Collected
        <5>3. 1 \in 1..Len(t)
          BY <2>2, <5>2
        <5> QED
          BY <3>2, <4>1, <5>2, <5>3
      <4> QED
        BY <4>2, <4>3
    <3>6. Collected(u, s, S, n)
      BY <3>3, <3>4, <3>5 DEF Collected
    <3> QED
      BY <2>1, <3>6 DEF u
  <2> QED
    BY <2>4, <2>5
<1>4. 0..l \subseteq E
  <2> HIDE DEF E, l
  <2> QED
    BY <1>0, <1>2, <1>3, StepByStep
<1>5. l \in 0..l
  BY <1>0
<1> QED
  BY <1>1, <1>4, <1>5

\* c counts how much of r is chosen so far.
Counting(c, s, S, r) ==
    /\ c \in [0..Len(s) -> Nat]
    /\ c[0] = 0 /\ c[Len(s)] = Len(r)
    /\ \A n \in 1..Len(s) : \/ n \in S /\ c[n] = c[n - 1] + 1 /\ s[n] = r[c[n]]
                            \/ n \notin S /\ c[n] = c[n - 1]

\* What is counted to its end is what is chosen.
LEMMA ChosenAre ==
    ASSUME NEW T, NEW s \in Seq(T), NEW S, NEW r \in Seq(T), NEW c, Counting(c, s, S, r)
    PROVE  Chosen(s, S) = r
<1> DEFINE l == Len(s)
<1>0. /\ l \in Nat
      /\ c \in [0..l -> Nat] /\ c[0] = 0 /\ c[l] = Len(r)
      /\ \A n \in 1..l : \/ n \in S /\ c[n] = c[n - 1] + 1 /\ s[n] = r[c[n]]
                         \/ n \notin S /\ c[n] = c[n - 1]
  <2>1. l \in Nat
    OBVIOUS
  <2> QED
    BY <2>1, Zenon DEF Counting
<1>a. PICK f : Choosing(f, T, s, S)
  BY ChosenSteps
<1>1. /\ f \in [0..l -> Seq(T)]
      /\ f[0] = <<>> /\ Chosen(s, S) = f[l]
      /\ \A n \in 1..l : f[n] = IF n \in S THEN Append(f[n - 1], s[n]) ELSE f[n - 1]
  BY <1>a, Zenon DEF Choosing
<1> HIDE DEF l
<1> DEFINE E == {n \in 0..l : f[n] = [j \in 1..c[n] |-> r[j]]}
<1>2. 0 \in E
  <2>1. <<>> = [j \in 1..0 |-> r[j]]
    OBVIOUS
  <2> QED
    BY <1>0, <1>1, <2>1
<1>3. ASSUME NEW n \in 1..l, n - 1 \in E PROVE n \in E
  <2>1. n - 1 \in 0..l /\ n \in 0..l /\ c[n - 1] \in Nat /\ f[n - 1] = [j \in 1..c[n - 1] |-> r[j]]
    BY <1>0, <1>3
  <2>2. CASE n \in S
    <3>1. c[n] = c[n - 1] + 1 /\ s[n] = r[c[n - 1] + 1]
      BY <1>0, <2>2
    <3>2. f[n] = Append(f[n - 1], s[n])
      BY <1>1, <2>2
    <3> DEFINE x == c[n - 1]
    <3>3. x \in Nat /\ f[n] = Append([j \in 1..x |-> r[j]], r[x + 1])
      BY <2>1, <3>1, <3>2
    <3> HIDE DEF x
    <3>4. f[n] = [j \in 1..x + 1 |-> r[j]]
      <4>1. Append([j \in 1..x |-> r[j]], r[x + 1]) = [j \in 1..x + 1 |-> r[j]]
        BY <3>3
      <4> QED
        BY <3>3, <4>1
    <3> QED
      BY <2>1, <3>1, <3>4 DEF x
  <2>3. CASE n \notin S
    BY <1>0, <1>1, <2>1, <2>3
  <2> QED
    BY <2>2, <2>3
<1>4. 0..l \subseteq E
  <2> HIDE DEF E
  <2> QED
    BY <1>0, <1>2, <1>3, StepByStep
<1>5. l \in 0..l /\ c[l] = Len(r)
  BY <1>0
<1>6. f[l] = [j \in 1..Len(r) |-> r[j]]
  BY <1>4, <1>5
<1>7. r = [j \in 1..Len(r) |-> r[j]]
  OBVIOUS
<1> QED
  BY <1>1, <1>6, <1>7

\* What is chosen and what is not are the whole.
LEMMA ChosenParts ==
    ASSUME NEW T, NEW s \in Seq(T), NEW S, NEW R
    PROVE  (\A n \in 1..Len(s) : n \in R <=> n \notin S)
             => Len(Chosen(s, S)) + Len(Chosen(s, R)) = Len(s)
<1> DEFINE l == Len(s)
<1>0. l \in Nat /\ \A n \in 1..l : s[n] \in T
  OBVIOUS
<1>a. PICK f : Choosing(f, T, s, S)
  BY ChosenSteps
<1>1. /\ f \in [0..l -> Seq(T)]
      /\ f[0] = <<>> /\ Chosen(s, S) = f[l]
      /\ \A n \in 1..l : f[n] = IF n \in S THEN Append(f[n - 1], s[n]) ELSE f[n - 1]
  BY <1>a, Zenon DEF Choosing
<1>b. PICK g : Choosing(g, T, s, R)
  BY ChosenSteps
<1>2. /\ g \in [0..l -> Seq(T)]
      /\ g[0] = <<>> /\ Chosen(s, R) = g[l]
      /\ \A n \in 1..l : g[n] = IF n \in R THEN Append(g[n - 1], s[n]) ELSE g[n - 1]
  BY <1>b, Zenon DEF Choosing
<1> HAVE \A n \in 1..l : n \in R <=> n \notin S
<1>3. \A n \in 1..l : n \in R <=> n \notin S
  OBVIOUS
<1> HIDE DEF l
<1> DEFINE E == {n \in 0..l : Len(f[n]) + Len(g[n]) = n}
<1>4. 0 \in E
  BY <1>0, <1>1, <1>2
<1>5. ASSUME NEW n \in 1..l, n - 1 \in E PROVE n \in E
  <2> DEFINE x == f[n - 1]
             y == g[n - 1]
  <2>0. n - 1 \in 0..l /\ n \in 0..l /\ s[n] \in T
    BY <1>0
  <2>1. /\ n - 1 \in 0..l /\ n \in 0..l /\ x \in Seq(T) /\ y \in Seq(T)
        /\ Len(x) + Len(y) = n - 1 /\ s[n] \in T
    <3>1. x \in Seq(T)
      BY <1>1, <2>0
    <3>2. y \in Seq(T)
      BY <1>2, <2>0
    <3> QED
      BY <1>5, <2>0, <3>1, <3>2
  <2>2. \/ f[n] = Append(x, s[n]) /\ g[n] = y
        \/ f[n] = x /\ g[n] = Append(y, s[n])
    BY <1>1, <1>2, <1>3
  <2> HIDE DEF x, y
  <2>3. /\ Len(Append(x, s[n])) = Len(x) + 1 /\ Len(Append(y, s[n])) = Len(y) + 1
        /\ Len(x) \in Nat /\ Len(y) \in Nat
    BY <2>1
  <2>4. Len(f[n]) + Len(g[n]) = n
    <3>1. CASE f[n] = Append(x, s[n]) /\ g[n] = y
      <4>1. Len(f[n]) = Len(x) + 1 /\ Len(g[n]) = Len(y)
        BY <2>3, <3>1
      <4> QED
        BY <1>0, <2>1, <2>3, <4>1
    <3>2. CASE f[n] = x /\ g[n] = Append(y, s[n])
      <4>1. Len(f[n]) = Len(x) /\ Len(g[n]) = Len(y) + 1
        BY <2>3, <3>2
      <4> QED
        BY <1>0, <2>1, <2>3, <4>1
    <3> QED
      BY <2>2, <3>1, <3>2
  <2> QED
    BY <2>1, <2>4
<1>6. 0..l \subseteq E
  <2> HIDE DEF E
  <2> QED
    BY <1>0, <1>4, <1>5, StepByStep
<1>7. l \in 0..l
  BY <1>0
<1> QED
  BY <1>1, <1>2, <1>6, <1>7 DEF l

\* f is how many pictures are among the first blocks of v and a merged.
Counts(f, v, a) ==
    /\ f \in [0..Len(v) + Len(a) -> Nat]
    /\ f[0] = 0
    /\ \A k \in 1..Len(v) + Len(a) :
          f[k] = IF f[k - 1] + 1 <= Len(v) /\ (\/ k - f[k - 1] > Len(a)
                                              \/ v[f[k - 1] + 1].pts <= a[k - f[k - 1]].pts)
                 THEN f[k - 1] + 1 ELSE f[k - 1]
    /\ Merge(v, a) = [k \in 1..Len(v) + Len(a) |->
                         IF f[k] # f[k - 1] THEN v[f[k]] ELSE a[k - f[k]]]

\* The pictures of a line of blocks can be counted, block by block.
LEMMA MergeSteps ==
    ASSUME NEW T, NEW v \in Seq(T), NEW a \in Seq(T)
    PROVE  \E f : Counts(f, v, a)
<1> DEFINE l == Len(v) + Len(a)
           Some == {v[i] : i \in Nat} \cup {a[i] : i \in Int}
           V == [blocks : Seq(Some), pictures : Nat]
           c == [blocks |-> <<>>, pictures |-> 0]
           Picture(k, n) == n + 1 <= Len(v) /\ (\/ k - n > Len(a)
                                                \/ v[n + 1].pts <= a[k - n].pts)
           Then(k, x) == IF Picture(k, x.pictures)
                         THEN [blocks |-> Append(x.blocks, v[x.pictures + 1]),
                               pictures |-> x.pictures + 1]
                         ELSE [blocks |-> Append(x.blocks, a[k - x.pictures]),
                               pictures |-> x.pictures]
           step == [k \in 1..l |-> [x \in V |-> Then(k, x)]]
           Body(g) == [k \in 0..l |-> IF k = 0 THEN c ELSE Then(k, g[k - 1])]
<1>1. l \in Nat
  OBVIOUS
<1>2. ASSUME NEW k \in 1..l, NEW x \in V PROVE Then(k, x) \in V
  <2>1. x.blocks \in Seq(Some) /\ x.pictures \in Nat /\ x.pictures + 1 \in Nat /\ k - x.pictures \in Int
    OBVIOUS
  <2>2. v[x.pictures + 1] \in Some /\ a[k - x.pictures] \in Some
    BY <2>1
  <2> HIDE DEF Picture, Some
  <2>3. /\ Append(x.blocks, v[x.pictures + 1]) \in Seq(Some)
        /\ Append(x.blocks, a[k - x.pictures]) \in Seq(Some)
    BY <2>1, <2>2
  <2> QED
    BY <2>1, <2>3
<1>3. step \in Steps(l, V) /\ c \in V
  <2>1. c \in V
    OBVIOUS
  <2> HIDE DEF Then, V
  <2> QED
    BY <1>2, <2>1 DEF Steps
<1>4. PICK g : Goes(g, l, V, c, step)
  <2> HIDE DEF step, l, V, c
  <2> QED
    BY <1>1, <1>3, StepwiseExists
<1>5. /\ \A k \in 1..l : k - 1 \in 0..l /\ k \in 0..l /\ k # 0
      /\ g \in [0..l -> V] /\ g[0] = c
  <2> HIDE DEF V, c, step
  <2> QED
    BY <1>1, <1>4 DEF Goes
<1>6. \A k \in 1..l : g[k] = Then(k, g[k - 1])
  <2> HIDE DEF Then, V
  <2> QED
    BY <1>4, <1>5 DEF Goes
<1>7. g = Body(g)
  <2> HIDE DEF Then, V, c
  <2>1. g = [k \in 0..l |-> g[k]]
    BY <1>5
  <2>2. \A k \in 0..l : k # 0 => k \in 1..l
    BY <1>1
  <2>3. \A k \in 0..l : g[k] = IF k = 0 THEN c ELSE Then(k, g[k - 1])
    BY <1>5, <1>6, <2>2
  <2> QED
    BY <2>1, <2>3
<1>8. PICK h : h = Body(h) /\ Merge(v, a) = h[l].blocks
  <2>1. \A k, x : NextBlock(x, k, v, a) = Then(k, x)
    BY DEF NextBlock
  <2> HIDE DEF Then
  <2> DEFINE With(h) == h = [k \in 0..l |-> IF k = 0 THEN c ELSE NextBlock(h[k - 1], k, v, a)]
  <2>2. With(g)
    BY <1>7, <2>1
  <2>3. Merge(v, a) = (CHOOSE h : With(h))[l].blocks
    BY DEF Merge
  <2>4. With(CHOOSE h : With(h))
    BY <2>2
  <2>5. (CHOOSE h : With(h)) = Body(CHOOSE h : With(h))
    BY <2>1, <2>4
  <2> QED
    BY <2>3, <2>5
<1>9. \A k \in 0..l : h[k] = g[k]
  <2> HIDE DEF Then, V, c
  <2> DEFINE E == {k \in 0..l : h[k] = g[k]}
  <2>1. 0 \in E
    BY <1>1, <1>5, <1>8
  <2>2. ASSUME NEW k \in 1..l, k - 1 \in E PROVE k \in E
    <3>1. h[k] = Then(k, h[k - 1])
      BY <1>5, <1>8
    <3> QED
      BY <1>5, <1>6, <2>2, <3>1
  <2>3. 0..l \subseteq E
    <3> HIDE DEF E, l
    <3> QED
      BY <1>1, <2>1, <2>2, StepByStep
  <2> QED
    BY <2>3
<1> DEFINE f == [k \in 0..l |-> g[k].pictures]
           Block(k) == IF f[k] # f[k - 1] THEN v[f[k]] ELSE a[k - f[k]]
<1>10. f \in [0..l -> Nat] /\ f[0] = 0
  <2>1. \A x \in V : x.pictures \in Nat
    OBVIOUS
  <2>2. c.pictures = 0
    OBVIOUS
  <2>3. 0 \in 0..l
    BY <1>1
  <2> HIDE DEF V, c
  <2> QED
    BY <1>5, <2>1, <2>2, <2>3
<1>11. ASSUME NEW k \in 1..l
       PROVE  /\ f[k] = IF Picture(k, f[k - 1]) THEN f[k - 1] + 1 ELSE f[k - 1]
              /\ g[k].blocks = Append(g[k - 1].blocks, Block(k))
  <2>1. f[k] = g[k].pictures /\ f[k - 1] = g[k - 1].pictures /\ f[k] \in Nat /\ f[k - 1] \in Nat
    BY <1>5, <1>10
  <2> HIDE DEF f
  <2>2. g[k] = Then(k, g[k - 1])
    BY <1>6
  <2>3. CASE Picture(k, f[k - 1])
    <3>1. g[k] = [blocks |-> Append(g[k - 1].blocks, v[f[k - 1] + 1]), pictures |-> f[k - 1] + 1]
      BY <2>1, <2>2, <2>3, Zenon
    <3>2. /\ g[k].blocks = Append(g[k - 1].blocks, v[f[k - 1] + 1])
          /\ f[k] = f[k - 1] + 1
      <4> HIDE DEF Then, V, Picture
      <4>1. /\ g[k].blocks = Append(g[k - 1].blocks, v[f[k - 1] + 1])
            /\ g[k].pictures = f[k - 1] + 1
        BY <3>1
      <4> QED
        BY <2>1, <4>1
    <3>3. Block(k) = v[f[k - 1] + 1]
      BY <2>1, <3>2
    <3> HIDE DEF Block
    <3> QED
      BY <2>3, <3>2, <3>3, Zenon
  <2>4. CASE ~Picture(k, f[k - 1])
    <3>1. g[k] = [blocks |-> Append(g[k - 1].blocks, a[k - f[k - 1]]), pictures |-> f[k - 1]]
      BY <2>1, <2>2, <2>4, Zenon
    <3>2. /\ g[k].blocks = Append(g[k - 1].blocks, a[k - f[k - 1]])
          /\ f[k] = f[k - 1]
      <4> HIDE DEF Then, V, Picture
      <4>1. /\ g[k].blocks = Append(g[k - 1].blocks, a[k - f[k - 1]])
            /\ g[k].pictures = f[k - 1]
        BY <3>1
      <4> QED
        BY <2>1, <4>1
    <3>3. Block(k) = a[k - f[k - 1]]
      BY <3>2
    <3> HIDE DEF Block
    <3> QED
      BY <2>4, <3>2, <3>3, Zenon
  <2> QED
    BY <2>3, <2>4
<1>12. Merge(v, a) = [k \in 1..l |-> Block(k)]
  <2> HIDE DEF f, Block, Then
  <2> DEFINE E == {k \in 0..l : g[k].blocks = [j \in 1..k |-> Block(j)]}
  <2>1. 0 \in E
    <3>1. g[0].blocks = <<>> /\ 0 \in 0..l
      BY <1>1, <1>5
    <3>2. <<>> = [j \in 1..0 |-> Block(j)]
      OBVIOUS
    <3> QED
      BY <3>1, <3>2
  <2>2. ASSUME NEW k \in 1..l, k - 1 \in E PROVE k \in E
    <3>1. /\ g[k - 1].blocks = [j \in 1..k - 1 |-> Block(j)] /\ k - 1 \in Nat /\ k \in Nat
          /\ k \in 0..l /\ g[k].blocks = Append(g[k - 1].blocks, Block(k))
      BY <1>5, <1>11, <2>2
    <3>2. Append([j \in 1..k - 1 |-> Block(j)], Block(k)) = [j \in 1..k |-> Block(j)]
      BY <3>1
    <3> QED
      BY <3>1, <3>2
  <2>3. 0..l \subseteq E
    <3> HIDE DEF E, l
    <3> QED
      BY <1>1, <2>1, <2>2, StepByStep
  <2>4. l \in 0..l
    BY <1>1
  <2> QED
    BY <1>8, <1>9, <2>3, <2>4
<1> QED
  <2> HIDE DEF f
  <2> QED
    BY <1>10, <1>11, <1>12 DEF Counts

\* The pictures and the audio that are counted are there, and each picture is once.
Fitting(f, v, a) ==
    /\ \A k \in 0..Len(v) + Len(a) : f[k] \in 0..Len(v) /\ k - f[k] \in 0..Len(a)
    /\ \A k \in 1..Len(v) + Len(a) :
          \/ f[k] = f[k - 1] + 1 /\ f[k] \in 1..Len(v) /\ Merge(v, a)[k] = v[f[k]]
          \/ f[k] = f[k - 1] /\ k - f[k] \in 1..Len(a) /\ Merge(v, a)[k] = a[k - f[k]]
    /\ f[Len(v) + Len(a)] = Len(v)
    /\ \A i \in 1..Len(v) : \E k \in 1..Len(v) + Len(a) : f[k] = i /\ f[k - 1] # i

\* However they are counted, no track is read beyond its end.
LEMMA CountsFit ==
    ASSUME NEW T, NEW v \in Seq(T), NEW a \in Seq(T), NEW f, Counts(f, v, a)
    PROVE  Fitting(f, v, a)
<1> DEFINE p == Len(v)
           q == Len(a)
           m == Merge(v, a)
<1>0. p \in Nat /\ q \in Nat
  OBVIOUS
<1>1. /\ f \in [0..p + q -> Nat]
      /\ f[0] = 0
      /\ \A k \in 1..p + q :
            f[k] = IF f[k - 1] + 1 <= p /\ (\/ k - f[k - 1] > q
                                            \/ v[f[k - 1] + 1].pts <= a[k - f[k - 1]].pts)
                   THEN f[k - 1] + 1 ELSE f[k - 1]
      /\ m = [k \in 1..p + q |-> IF f[k] # f[k - 1] THEN v[f[k]] ELSE a[k - f[k]]]
  BY Zenon DEF Counts
<1> HIDE DEF p, q, m
<1> DEFINE Fits(k) == v[f[k - 1] + 1].pts <= a[k - f[k - 1]].pts
<1> DEFINE E == {k \in 0..p + q :
                    /\ f[k] \in 0..p /\ k - f[k] \in 0..q
                    /\ \A i \in 1..f[k] : \E j \in 1..k : f[j] = i /\ f[j - 1] # i}
<1>2. 0 \in E
  BY <1>0, <1>1
<1>3. ASSUME NEW k \in 1..p + q
      PROVE  /\ k \in 0..p + q /\ k - 1 \in 0..p + q /\ f[k] \in Nat /\ f[k - 1] \in Nat
             /\ f[k] \in {f[k - 1], f[k - 1] + 1}
             /\ f[k] = f[k - 1] => f[k - 1] >= p \/ k - f[k - 1] <= q
             /\ f[k] # f[k - 1] => f[k] = f[k - 1] + 1 /\ f[k - 1] < p
  <2>1. k \in 0..p + q /\ k - 1 \in 0..p + q
    BY <1>0
  <2>2. f[k] \in Nat /\ f[k - 1] \in Nat
    BY <1>1, <2>1
  <2>3. f[k] = IF f[k - 1] + 1 <= p /\ (k - f[k - 1] > q \/ Fits(k))
               THEN f[k - 1] + 1 ELSE f[k - 1]
    BY <1>1, Zenon
  <2> HIDE DEF Fits
  <2> QED
    BY <1>0, <2>1, <2>2, <2>3
<1>4. ASSUME NEW k \in 1..p + q, k - 1 \in E PROVE k \in E
  <2>1. /\ f[k - 1] \in 0..p /\ k - 1 - f[k - 1] \in 0..q
        /\ \A i \in 1..f[k - 1] : \E j \in 1..k - 1 : f[j] = i /\ f[j - 1] # i
    BY <1>4
  <2> DEFINE n == f[k - 1]
  <2>2. f[k] \in 0..p /\ k - f[k] \in 0..q
    <3>0. /\ n \in Nat /\ n \in 0..p /\ k - 1 - n \in 0..q
          /\ \/ f[k] = n /\ (n >= p \/ k - n <= q)
             \/ f[k] = n + 1 /\ n < p
      BY <1>3, <2>1
    <3> HIDE DEF n
    <3> QED
      BY <1>0, <3>0
  <2>3. ASSUME NEW i \in 1..f[k] PROVE \E j \in 1..k : f[j] = i /\ f[j - 1] # i
    <3>1. CASE i \in 1..f[k - 1]
      <4>1. PICK j \in 1..k - 1 : f[j] = i /\ f[j - 1] # i
        BY <2>1, <3>1
      <4>2. j \in 1..k
        OBVIOUS
      <4> QED
        BY <4>1, <4>2
    <3>2. CASE i \notin 1..f[k - 1]
      <4>1. k \in 1..k /\ f[k] \in Nat /\ f[k - 1] \in Nat
            /\ f[k] \in {f[k - 1], f[k - 1] + 1}
        BY <1>3
      <4>2. i = f[k] /\ i # f[k - 1]
        BY <3>2, <4>1
      <4> QED
        BY <4>1, <4>2
    <3> QED
      BY <3>1, <3>2
  <2> QED
    BY <1>3, <2>2, <2>3
<1>5. 0..p + q \subseteq E
  <2>1. p + q \in Nat
    BY <1>0
  <2> HIDE DEF E
  <2> QED
    BY <1>2, <1>4, <2>1, StepByStep
<1>6. p + q \in 0..p + q /\ f[p + q] = p
  <2> DEFINE n == p + q
  <2>1. n \in 0..n /\ \A k \in 0..n : f[k] \in 0..p /\ k - f[k] \in 0..q
    BY <1>0, <1>5
  <2>2. n = p + q
    OBVIOUS
  <2> HIDE DEF n
  <2>3. f[n] \in 0..p /\ n - f[n] \in 0..q
    BY <2>1, Zenon
  <2>4. f[n] = p
    BY <1>0, <2>2, <2>3
  <2> QED
    BY <2>1, <2>2, <2>4
<1>7. \A i \in 1..p : \E k \in 1..p + q : f[k] = i /\ f[k - 1] # i
  BY <1>5, <1>6
<1>8. ASSUME NEW k \in 1..p + q
      PROVE  \/ f[k] = f[k - 1] + 1 /\ f[k] \in 1..p /\ m[k] = v[f[k]]
             \/ f[k] = f[k - 1] /\ k - f[k] \in 1..q /\ m[k] = a[k - f[k]]
  <2>1. f[k] \in 0..p /\ k - f[k] \in 0..q /\ f[k - 1] \in 0..p /\ k - 1 - f[k - 1] \in 0..q
    BY <1>3, <1>5
  <2>2. m[k] = IF f[k] # f[k - 1] THEN v[f[k]] ELSE a[k - f[k]]
    BY <1>1
  <2> QED
    BY <1>0, <1>3, <2>1, <2>2
<1>9. \A k \in 0..p + q : f[k] \in 0..p /\ k - f[k] \in 0..q
  BY <1>5
<1> QED
  BY <1>6, <1>7, <1>8, <1>9, Zenon DEF Fitting, p, q, m

\* Every picture is in a line of blocks, which begins with one that is not later than
\* the audio; and there is nothing else in it than what is merged.
Merged(m, v, a) ==
    /\ \A i \in 1..Len(v) : \E k \in 1..Len(m) : m[k] = v[i]
    /\ \A k \in 1..Len(m) : (\E i \in 1..Len(v) : m[k] = v[i]) \/ (\E i \in 1..Len(a) : m[k] = a[i])
    /\ v # <<>> /\ (a = <<>> \/ v[1].pts <= a[1].pts) => m # <<>> /\ m[1] = v[1]

\* A line of blocks is as long as both tracks are together.
LEMMA MergeIs ==
    ASSUME NEW T, NEW v \in Seq(T), NEW a \in Seq(T)
    PROVE  /\ Merge(v, a) \in Seq(T) /\ Len(Merge(v, a)) = Len(v) + Len(a)
           /\ Merged(Merge(v, a), v, a)
<1> DEFINE p == Len(v)
           q == Len(a)
           m == Merge(v, a)
<1>0. p \in Nat /\ q \in Nat
  OBVIOUS
<1>1. PICK f : Counts(f, v, a)
  BY MergeSteps
<1>2. /\ f \in [0..p + q -> Nat]
      /\ f[0] = 0
      /\ \A k \in 1..p + q :
            f[k] = IF f[k - 1] + 1 <= p /\ (\/ k - f[k - 1] > q
                                            \/ v[f[k - 1] + 1].pts <= a[k - f[k - 1]].pts)
                   THEN f[k - 1] + 1 ELSE f[k - 1]
      /\ m = [k \in 1..p + q |-> IF f[k] # f[k - 1] THEN v[f[k]] ELSE a[k - f[k]]]
  BY <1>1, Zenon DEF Counts
<1> HIDE DEF p, q, m
<1>3. /\ \A k \in 1..p + q :
            \/ f[k] = f[k - 1] + 1 /\ f[k] \in 1..p /\ m[k] = v[f[k]]
            \/ f[k] = f[k - 1] /\ k - f[k] \in 1..q /\ m[k] = a[k - f[k]]
      /\ \A i \in 1..p : \E k \in 1..p + q : f[k] = i /\ f[k - 1] # i
  <2>1. Fitting(f, v, a)
    BY <1>1, CountsFit
  <2> QED
    BY <2>1, Zenon DEF Fitting, p, q, m
<1>4. ASSUME NEW k \in 1..p + q
      PROVE  /\ f[k] # f[k - 1] => f[k] \in 1..p /\ m[k] = v[f[k]]
             /\ f[k] = f[k - 1] => k - f[k] \in 1..q /\ m[k] = a[k - f[k]]
  <2>1. k \in 0..p + q /\ k - 1 \in 0..p + q
    BY <1>0
  <2>2. f[k - 1] \in Nat
    BY <1>2, <2>1
  <2> QED
    BY <1>3, <2>2
<1>5. /\ \A i \in 1..p : v[i] \in T
      /\ \A i \in 1..q : a[i] \in T
  BY DEF p, q
<1>6. m \in Seq(T) /\ Len(m) = p + q
  <2>1. m = [k \in 1..p + q |-> m[k]]
    BY <1>2
  <2>2. \A k \in 1..p + q : m[k] \in T
    BY <1>4, <1>5
  <2>3. p + q \in Nat
    BY <1>0
  <2>4. m \in [1..p + q -> T]
    BY <2>1, <2>2
  <2> QED
    BY <2>3, <2>4, SeqDef, LenProperties
<1>7. \A i \in 1..p : \E k \in 1..p + q : m[k] = v[i]
  <2> TAKE i \in 1..p
  <2>2. PICK j \in 1..p + q : f[j] = i /\ f[j - 1] # i
    BY <1>3
  <2> QED
    BY <1>4, <2>2
<1>8. ASSUME v # <<>>, a = <<>> \/ v[1].pts <= a[1].pts
       PROVE  m # <<>> /\ m[1] = v[1]
  <2>1. p >= 1 /\ (a = <<>> => q = 0)
    BY <1>8 DEF p, q
  <2>2. 1 \in 1..p + q
    BY <1>0, <2>1
  <2>3. 1 - 1 = 0 /\ 0 + 1 = 1 /\ 1 - 0 = 1
    OBVIOUS
  <2>4. f[1] = 1
    <3>1. f[1] = IF f[0] + 1 <= p /\ (\/ 1 - f[0] > q
                                      \/ v[f[0] + 1].pts <= a[1 - f[0]].pts)
                 THEN f[0] + 1 ELSE f[0]
      BY <1>2, <2>2, <2>3
    <3>2. f[1] = IF 1 <= p /\ (1 > q \/ v[1].pts <= a[1].pts) THEN 1 ELSE 0
      BY <1>2, <2>3, <3>1, Zenon
    <3> QED
      BY <1>0, <1>8, <2>1, <3>2
  <2>5. m[1] = v[1]
    BY <1>2, <1>4, <2>2, <2>3, <2>4
  <2> QED
    BY <1>6, <2>2, <2>5
<1> QED
  <2>1. \A k \in 1..p + q : (\E i \in 1..p : m[k] = v[i]) \/ (\E i \in 1..q : m[k] = a[i])
    BY <1>4
  <2>2. Merged(m, v, a)
    BY <1>6, <1>7, <1>8, <2>1 DEF p, q, Merged
  <2> QED
    BY <1>6, <2>2 DEF m, p, q

\* In a line of blocks each track is what it was.
LEMMA MergeParts ==
    ASSUME NEW T, NEW v \in Seq(T), NEW a \in Seq(T),
           \A i \in 1..Len(v) : v[i].video, \A i \in 1..Len(a) : ~a[i].video
    PROVE  Video(Merge(v, a)) = v /\ Audio(Merge(v, a)) = a
<1> DEFINE p == Len(v)
           q == Len(a)
           m == Merge(v, a)
<1>0. p \in Nat /\ q \in Nat
  OBVIOUS
<1>1. PICK f : Counts(f, v, a)
  BY MergeSteps
<1>2. m \in Seq(T) /\ Len(m) = p + q
  BY MergeIs
<1>3. /\ f \in [0..p + q -> Nat] /\ f[0] = 0
      /\ \A k \in 0..p + q : f[k] \in 0..p /\ k - f[k] \in 0..q
      /\ \A k \in 1..p + q :
            \/ f[k] = f[k - 1] + 1 /\ f[k] \in 1..p /\ m[k] = v[f[k]]
            \/ f[k] = f[k - 1] /\ k - f[k] \in 1..q /\ m[k] = a[k - f[k]]
      /\ f[p + q] = p
  <2>1. Fitting(f, v, a)
    BY <1>1, CountsFit
  <2> QED
    BY <1>1, <2>1, Zenon DEF Fitting, Counts, p, q, m
<1>4. /\ \A i \in 1..p : v[i].video
      /\ \A i \in 1..q : ~a[i].video
  OBVIOUS
<1> HIDE DEF p, q, m
<1>5. ASSUME NEW k \in 1..p + q
      PROVE  \/ m[k].video /\ f[k] = f[k - 1] + 1 /\ m[k] = v[f[k]]
             \/ ~m[k].video /\ f[k] = f[k - 1] /\ m[k] = a[k - f[k]]
  BY <1>3, <1>4
<1>6. Video(m) = v
  <2> DEFINE S == {k \in 1..Len(m) : m[k].video}
  <2>1. \A n \in 1..Len(m) : \/ n \in S /\ f[n] = f[n - 1] + 1 /\ m[n] = v[f[n]]
                             \/ n \notin S /\ f[n] = f[n - 1]
    BY <1>2, <1>5
  <2>2. f \in [0..Len(m) -> Nat] /\ f[0] = 0 /\ f[Len(m)] = Len(v)
    BY <1>2, <1>3 DEF p
  <2> HIDE DEF S
  <2>3. Counting(f, m, S, v)
    BY <2>1, <2>2 DEF Counting
  <2>4. Chosen(m, S) = v
    BY <1>2, <2>3, ChosenAre
  <2> QED
    BY <2>4 DEF Video, S
<1>7. Audio(m) = a
  <2> DEFINE S == {k \in 1..Len(m) : ~m[k].video}
             c == [k \in 0..Len(m) |-> k - f[k]]
  <2>0. \A k \in 1..p + q : k \in 0..p + q /\ k - 1 \in 0..p + q
    BY <1>0
  <2>1. c \in [0..Len(m) -> Nat] /\ c[0] = 0 /\ c[Len(m)] = Len(a)
    <3>1. 0 \in 0..p + q /\ p + q \in 0..p + q /\ p + q - p = q
      BY <1>0
    <3>2. \A k \in 0..p + q : k - f[k] \in Nat
      BY <1>3
    <3> QED
      BY <1>2, <1>3, <3>1, <3>2 DEF q
  <2>3. \A k \in 1..Len(m) : k \in S <=> ~m[k].video
    OBVIOUS
  <2> HIDE DEF S
  <2>2. ASSUME NEW n \in 1..Len(m)
        PROVE  \/ n \in S /\ c[n] = c[n - 1] + 1 /\ m[n] = a[c[n]]
               \/ n \notin S /\ c[n] = c[n - 1]
    <3>1. /\ n \in 1..p + q /\ f[n] \in Nat /\ f[n - 1] \in Nat
          /\ c[n] = n - f[n] /\ c[n - 1] = n - 1 - f[n - 1]
      BY <1>2, <1>3, <2>0
    <3>2. \/ m[n].video /\ f[n] = f[n - 1] + 1
          \/ ~m[n].video /\ f[n] = f[n - 1] /\ m[n] = a[n - f[n]]
      BY <1>5, <3>1
    <3>3. n \in Int
      BY <1>0
    <3> HIDE DEF c
    <3>4. CASE m[n].video
      <4>1. c[n] = c[n - 1]
        BY <3>1, <3>2, <3>3, <3>4
      <4> QED
        BY <2>3, <3>4, <4>1
    <3>5. CASE ~m[n].video
      <4>1. c[n] = c[n - 1] + 1 /\ m[n] = a[c[n]]
        BY <3>1, <3>2, <3>3, <3>5
      <4> QED
        BY <2>3, <3>5, <4>1
    <3> QED
      BY <3>4, <3>5
  <2> HIDE DEF S, c
  <2>4. Counting(c, m, S, a)
    BY <2>1, <2>2 DEF Counting
  <2>5. Chosen(m, S) = a
    BY <1>2, <2>4, ChosenAre
  <2> QED
    BY <2>5 DEF Audio, S
<1> QED
  BY <1>6, <1>7 DEF m

-----------------------------------------------------------------------------
(* Frames: their time may be counted from another moment. *)

Timed(T) ==
    \A f \in T : /\ f.pts \in Int /\ f.video \in BOOLEAN
                 /\ \A d \in Int :
                      LET g == [f EXCEPT !.pts = @ - d]
                      IN  g \in T /\ g.pts = f.pts - d /\ g.video = f.video
                                  /\ g.keyframe = f.keyframe

\* The audio that is left begins with the picture or after it.
LEMMA AudioFromIs ==
    ASSUME NEW T, Timed(T), NEW a \in Seq(T), NEW start \in Int
    PROVE  /\ AudioFrom(a, start) \in Seq(T)
           /\ AudioFrom(a, start) # <<>> => start <= AudioFrom(a, start)[1].pts
<1> DEFINE K == {i \in 1..Len(a) : a[i].pts >= start}
<1>1. CASE K = {}
  BY <1>1 DEF AudioFrom
<1>2. CASE K # {}
  <2> DEFINE b == SmallestOf(K)
  <2>1. b \in K
    <3>1. K \in SUBSET Nat
      OBVIOUS
    <3> HIDE DEF K
    <3> QED
      BY <1>2, <3>1, SmallestExists
  <2>2. AudioFrom(a, start) = SubSeq(a, b, Len(a))
    BY <1>2 DEF AudioFrom
  <2>3. b \in 1..Len(a) /\ a[b].pts >= start /\ a[b] \in T /\ a[b].pts \in Int
    BY <2>1 DEF Timed
  <2> HIDE DEF b, K
  <2>4. SubSeq(a, b, Len(a)) \in Seq(T) /\ SubSeq(a, b, Len(a))[1] = a[b]
    BY <2>3
  <2> QED
    BY <2>2, <2>3, <2>4
<1> QED
  BY <1>1, <1>2

\* A line of blocks and what becomes of its times.
LEMMA ShiftIs ==
    ASSUME NEW T, Timed(T), NEW m \in Seq(T), NEW start \in Int
    PROVE  LET b == [i \in 1..Len(m) |-> [m[i] EXCEPT !.pts = @ - start]]
           IN  /\ b \in Seq(T) /\ Len(b) = Len(m)
               /\ \A i \in 1..Len(m) : /\ b[i].video = m[i].video
                                       /\ b[i].keyframe = m[i].keyframe
                                       /\ b[i].pts = m[i].pts - start
<1> DEFINE b == [i \in 1..Len(m) |-> [m[i] EXCEPT !.pts = @ - start]]
<1>1. Len(m) \in Nat /\ \A i \in 1..Len(m) : m[i] \in T
  OBVIOUS
<1>2. ASSUME NEW i \in 1..Len(m)
      PROVE  /\ b[i] \in T /\ b[i].video = m[i].video
             /\ b[i].keyframe = m[i].keyframe /\ b[i].pts = m[i].pts - start
  BY <1>1 DEF Timed
<1>3. b \in [1..Len(m) -> T]
  <2>1. b = [i \in 1..Len(m) |-> b[i]]
    OBVIOUS
  <2> HIDE DEF b
  <2> QED
    BY <1>2, <2>1
<1> HIDE DEF b
<1>4. b \in Seq(T) /\ Len(b) = Len(m)
  BY <1>1, <1>3, SeqDef, LenProperties
<1> QED
  BY <1>2, <1>4 DEF b

\* The pictures of a file are those of its frames, and if the first of these is a
\* keyframe, the file begins with it.
LEMMA InterleaveIs ==
    ASSUME NEW T, Timed(T), NEW fs \in Seq(T)
    PROVE  /\ Interleave(fs) \in Seq(T)
           /\ \A i \in 1..Len(fs) : fs[i].video =>
                 \E k \in 1..Len(Interleave(fs)) :
                    Interleave(fs)[k].video /\ Interleave(fs)[k].keyframe = fs[i].keyframe
           /\ \A i \in 1..Len(fs) : fs[i].video /\ (\A j \in 1..Len(fs) : j < i => ~fs[j].video)
                 => /\ Interleave(fs) # <<>> /\ Interleave(fs)[1].video
                    /\ Interleave(fs)[1].keyframe = fs[i].keyframe
<1> DEFINE VS == {i \in 1..Len(fs) : fs[i].video}
           v == Video(fs)
           sound == Audio(fs)
           start == IF v # <<>> THEN v[1].pts ELSE IF sound # <<>> THEN sound[1].pts ELSE 0
           a == IF v # <<>> THEN AudioFrom(sound, start) ELSE sound
           m == Merge(v, a)
           b == [i \in 1..Len(m) |-> [m[i] EXCEPT !.pts = @ - start]]
<1>1. Interleave(fs) = b
  BY DEF Interleave
<1>2. v \in Seq(T) /\ sound \in Seq(T) /\ Collected(v, fs, VS, Len(fs))
  BY ChosenIs DEF Video, Audio
<1> HIDE DEF v, sound
<1>3. start \in Int
  <2>1. v # <<>> => v[1] \in T
    BY <1>2
  <2>2. sound # <<>> => sound[1] \in T
    BY <1>2
  <2> QED
    BY <2>1, <2>2 DEF Timed
<1>4. a \in Seq(T) /\ (v # <<>> => start = v[1].pts /\ (a = <<>> \/ start <= a[1].pts))
  <2> HIDE DEF start
  <2>1. /\ AudioFrom(sound, start) \in Seq(T)
        /\ AudioFrom(sound, start) # <<>> => start <= AudioFrom(sound, start)[1].pts
    BY <1>2, <1>3, AudioFromIs
  <2> QED
    BY <1>2, <2>1 DEF start
<1> HIDE DEF start, a
<1>5. /\ m \in Seq(T)
      /\ \A i \in 1..Len(v) : \E k \in 1..Len(m) : m[k] = v[i]
      /\ v # <<>> => m # <<>> /\ m[1] = v[1]
  <2>1. v \in Seq(T) /\ a \in Seq(T)
    BY <1>2, <1>4
  <2>2. v # <<>> => (a = <<>> \/ v[1].pts <= a[1].pts)
    BY <1>4
  <2> QED
    <3>1. Merged(Merge(v, a), v, a) /\ Merge(v, a) \in Seq(T)
      BY <2>1, MergeIs
    <3> QED
      BY <2>2, <3>1 DEF Merged
<1> HIDE DEF m
<1>6. /\ b \in Seq(T) /\ Len(b) = Len(m)
      /\ \A i \in 1..Len(m) : b[i].video = m[i].video /\ b[i].keyframe = m[i].keyframe
  BY <1>3, <1>5, ShiftIs
<1> HIDE DEF b
<1>7. ASSUME NEW i \in 1..Len(fs), fs[i].video
      PROVE  \E k \in 1..Len(b) : b[k].video /\ b[k].keyframe = fs[i].keyframe
  <2>1. i \in VS /\ i \in 1..Len(fs)
    BY <1>7
  <2> HIDE DEF VS
  <2>2. PICK j \in 1..Len(v) : v[j] = fs[i]
    BY <1>2, <2>1 DEF Collected
  <2>3. PICK k \in 1..Len(m) : m[k] = v[j]
    BY <1>5
  <2> QED
    BY <1>6, <1>7, <2>2, <2>3
<1>8. ASSUME NEW i \in 1..Len(fs), fs[i].video, \A j \in 1..Len(fs) : j < i => ~fs[j].video
      PROVE  b # <<>> /\ b[1].video /\ b[1].keyframe = fs[i].keyframe
  <2>1. i \in VS /\ \A j \in 1..Len(fs) : j < i => j \notin VS
    BY <1>8
  <2> HIDE DEF VS
  <2>2. v # <<>> /\ v[1] = fs[i]
    BY <1>2, <2>1 DEF Collected
  <2>3. 1 \in 1..Len(m) /\ m[1] = fs[i]
    BY <1>5, <2>2
  <2>4. b[1].video = fs[i].video /\ b[1].keyframe = fs[i].keyframe
    BY <1>6, <2>3
  <2>5. b # <<>>
    BY <1>6, <2>3
  <2> QED
    BY <1>8, <2>4, <2>5
<1> QED
  BY <1>1, <1>6, <1>7, <1>8

\* The largest of some of the first numbers.
LEMMA LargestExists ==
    ASSUME NEW n \in Nat, NEW S \in SUBSET (1..n), S # {}
    PROVE  LargestOf(S) \in S /\ \A y \in S : y <= LargestOf(S)
<1> DEFINE Mirror == {n - y : y \in S}
           s == SmallestOf(Mirror)
<1>1. Mirror \in SUBSET Nat /\ Mirror # {}
  <2>1. \A y \in S : n - y \in Nat
    OBVIOUS
  <2> QED
    BY <2>1
<1>2. s \in Mirror /\ \A y \in Mirror : s <= y
  <2> HIDE DEF Mirror
  <2> QED
    BY <1>1, SmallestExists
<1> HIDE DEF s
<1>3. PICK m \in S : s = n - m
  BY <1>2
<1>4. \A y \in S : y <= m
  <2> TAKE y \in S
  <2>1. n - y \in Mirror
    OBVIOUS
  <2>2. s <= n - y
    BY <1>2, <2>1
  <2>3. y \in 1..n /\ m \in 1..n
    OBVIOUS
  <2> QED
    BY <1>3, <2>2, <2>3
<1> QED
  BY <1>4 DEF LargestOf

\* A draft has the pictures of the buffer, and begins with the keyframe that the buffer
\* begins with.
LEMMA DraftIs ==
    ASSUME NEW T, Timed(T), NEW fs \in Seq(T)
    PROVE  /\ DraftFrames(fs) \in Seq(T)
           /\ \A i \in 1..Len(fs) : IsVideoKeyframe(fs[i]) =>
                 \E k \in 1..Len(DraftFrames(fs)) : IsVideoKeyframe(DraftFrames(fs)[k])
           /\ fs # <<>> /\ IsVideoKeyframe(fs[1]) =>
                 /\ DraftFrames(fs) # <<>> /\ IsVideoKeyframe(DraftFrames(fs)[1])
                 /\ DraftFrames(fs)[1].pts = 0
<1> DEFINE m == Interleave(fs)
           start == m[1].pts
           b == [i \in 1..Len(m) |-> [m[i] EXCEPT !.pts = @ - start]]
<1>1. DraftFrames(fs) = b
  BY DEF DraftFrames
<1>2. /\ m \in Seq(T)
      /\ \A i \in 1..Len(fs) : fs[i].video =>
            \E k \in 1..Len(m) : m[k].video /\ m[k].keyframe = fs[i].keyframe
      /\ fs # <<>> /\ IsVideoKeyframe(fs[1]) => m # <<>> /\ IsVideoKeyframe(m[1])
  <2>1. fs # <<>> => 1 \in 1..Len(fs) /\ \A j \in 1..Len(fs) : ~(j < 1)
    OBVIOUS
  <2> HIDE DEF m
  <2>2. fs # <<>> /\ fs[1].video =>
           m # <<>> /\ m[1].video /\ m[1].keyframe = fs[1].keyframe
    BY <2>1, InterleaveIs DEF m
  <2> QED
    BY <2>2, InterleaveIs DEF m, IsVideoKeyframe
<1> HIDE DEF m
<1>3. CASE m = <<>>
  <2>1. b = <<>>
    BY <1>3
  <2>2. \A i \in 1..Len(fs) : ~fs[i].video
    BY <1>2, <1>3
  <2> QED
    BY <1>1, <2>1, <2>2 DEF IsVideoKeyframe
<1>4. CASE m # <<>>
  <2>1. start \in Int
    <3>1. m[1] \in T
      BY <1>2, <1>4
    <3> QED
      BY <3>1 DEF Timed
  <2> HIDE DEF start
  <2>2. /\ b \in Seq(T) /\ Len(b) = Len(m)
        /\ \A i \in 1..Len(m) : /\ b[i].video = m[i].video /\ b[i].keyframe = m[i].keyframe
                                /\ b[i].pts = m[i].pts - start
    BY <1>2, <2>1, ShiftIs
  <2>3. 1 \in 1..Len(m) /\ m[1].pts = start
    BY <1>2, <1>4 DEF start
  <2> HIDE DEF b
  <2>4. b # <<>> /\ b[1].pts = 0
    BY <1>4, <2>1, <2>2, <2>3
  <2> QED
    BY <1>1, <1>2, <2>2, <2>3, <2>4 DEF IsVideoKeyframe
<1> QED
  BY <1>3, <1>4

Keyframes(fs) == {i \in 1..Len(fs) : IsVideoKeyframe(fs[i])}

\* A clip begins at a keyframe, which is not beyond the chosen start, or a later moment,
\* if the first keyframe is not.
LEMMA ClipStartIs ==
    ASSUME NEW T, Timed(T), NEW fs \in Seq(T), NEW hasVideo, hasVideo, NEW start \in Int,
           Keyframes(fs) # {}
    PROVE  /\ ClipStart(fs, hasVideo, start) \in Keyframes(fs)
           /\ \A moment \in Int :
                 start <= moment /\ fs[SmallestOf(Keyframes(fs))].pts <= moment =>
                    fs[ClipStart(fs, hasVideo, start)].pts <= moment
<1> DEFINE Starts == Keyframes(fs)
           Beyond == {i \in Starts : fs[i].pts > start}
           Before == {i \in Starts : \A j \in Beyond : i < j}
           first == ClipStart(fs, hasVideo, start)
<1>1. {i \in 1..Len(fs) : ~hasVideo \/ IsVideoKeyframe(fs[i])} = Starts
  BY DEF Keyframes
<1>2. first = IF Before = {} THEN SmallestOf(Starts) ELSE LargestOf(Before)
  BY <1>1 DEF ClipStart
<1>3. Starts \subseteq 1..Len(fs) /\ Len(fs) \in Nat
      /\ \A i \in Starts : fs[i].pts \in Int
  <2>1. \A i \in 1..Len(fs) : fs[i] \in T
    OBVIOUS
  <2> QED
    BY <2>1 DEF Keyframes, Timed
<1> HIDE DEF Starts, first
<1>4. CASE Before = {}
  <2>1. Starts \in SUBSET Nat
    BY <1>3
  <2>2. SmallestOf(Starts) \in Starts
    BY <2>1, SmallestExists DEF Starts
  <2> QED
    BY <1>2, <1>4, <2>2 DEF Starts, first
<1>5. CASE Before # {}
  <2>1. Before \in SUBSET (1..Len(fs))
    BY <1>3
  <2>2. first \in Before
    <3> HIDE DEF Before
    <3> QED
      BY <1>2, <1>3, <1>5, <2>1, LargestExists
  <2>3. first \in Starts /\ first \notin Beyond
    BY <1>3, <2>2
  <2>4. fs[first].pts <= start /\ fs[first].pts \in Int
    BY <1>3, <2>3
  <2>5. \A moment \in Int : start <= moment => fs[first].pts <= moment
    BY <2>4
  <2> QED
    BY <2>3, <2>5 DEF Starts, first
<1> QED
  BY <1>4, <1>5

\* What is selected of a draft for a clip, and its file.
LEMMA ClipIs ==
    ASSUME NEW T, Timed(T), NEW fs \in Seq(T), NEW hasVideo, hasVideo,
           NEW start \in Int, NEW end \in Int, start <= end, Keyframes(fs) # {}
    PROVE  LET clip == SelectFrames(fs, hasVideo, start, end)
               early == fs[SmallestOf(Keyframes(fs))].pts
           IN  /\ early <= end => clip # <<>> /\ IsVideoKeyframe(Interleave(clip)[1])
               /\ early <= start => clip[1].pts <= start
<1> DEFINE first == ClipStart(fs, hasVideo, start)
           Wanted == {i \in first..Len(fs) : fs[i].pts <= end /\
                                             (fs[i].video \/ fs[first].pts <= fs[i].pts)}
           clip == SelectFrames(fs, hasVideo, start, end)
           early == fs[SmallestOf(Keyframes(fs))].pts
<1>1. /\ first \in Keyframes(fs)
      /\ early <= start => fs[first].pts <= start
      /\ early <= end => fs[first].pts <= end
  <2>1. /\ first \in Keyframes(fs)
        /\ \A moment \in Int : start <= moment /\ early <= moment => fs[first].pts <= moment
    BY ClipStartIs
  <2> HIDE DEF first, early
  <2> QED
    BY <2>1
<1> HIDE DEF first, early
<1>2. first \in 1..Len(fs) /\ fs[first].video /\ fs[first].keyframe /\ fs[first].pts \in Int
  <2>1. first \in 1..Len(fs) /\ IsVideoKeyframe(fs[first]) /\ fs[first] \in T
    BY <1>1 DEF Keyframes
  <2> QED
    BY <2>1 DEF IsVideoKeyframe, Timed
<1>3. clip = Chosen(fs, Wanted)
  <2>1. first # 0
    BY <1>2
  <2> QED
    BY <2>1 DEF SelectFrames, first
<1> HIDE DEF Wanted, clip
<1>4. clip \in Seq(T) /\ Collected(clip, fs, Wanted, Len(fs))
  BY <1>3, ChosenIs
<1>5. ASSUME fs[first].pts <= end
      PROVE  clip # <<>> /\ clip[1] = fs[first] /\ IsVideoKeyframe(Interleave(clip)[1])
  <2>1. first \in Wanted /\ \A j \in 1..Len(fs) : j < first => j \notin Wanted
    BY <1>2, <1>5 DEF Wanted
  <2>2. clip # <<>> /\ clip[1] = fs[first]
    BY <1>2, <1>4, <2>1 DEF Collected
  <2>3. 1 \in 1..Len(clip) /\ \A j \in 1..Len(clip) : ~(j < 1)
    BY <1>4, <2>2
  <2>4. /\ Interleave(clip)[1].video
        /\ Interleave(clip)[1].keyframe = clip[1].keyframe
    BY <1>2, <1>4, <2>2, <2>3, InterleaveIs
  <2> QED
    BY <1>2, <2>2, <2>4 DEF IsVideoKeyframe
<1>6. fs[first].pts <= start => fs[first].pts <= end
  BY <1>2
<1> QED
  BY <1>1, <1>5, <1>6 DEF clip, early

-----------------------------------------------------------------------------
(* Clips: the order of their frames. *)

\* The same frames, their time counted from d.
Shift(s, d) == [i \in 1..Len(s) |-> [s[i] EXCEPT !.pts = @ - d]]

\* Only the times change.
LEMMA ShiftParts ==
    ASSUME NEW T, Timed(T), NEW s \in Seq(T), NEW d \in Int
    PROVE  /\ Shift(s, d) \in Seq(T) /\ Len(Shift(s, d)) = Len(s)
           /\ \A i \in 1..Len(s) : /\ Shift(s, d)[i].video = s[i].video
                                   /\ Shift(s, d)[i].keyframe = s[i].keyframe
                                   /\ Shift(s, d)[i].pts = s[i].pts - d
BY ShiftIs DEF Shift

\* What is chosen does not depend on where time is counted from.
LEMMA ChosenShift ==
    ASSUME NEW T, Timed(T), NEW s \in Seq(T), NEW S, NEW d \in Int
    PROVE  Chosen(Shift(s, d), S) = Shift(Chosen(s, S), d)
<1> DEFINE l == Len(s)
           t == Shift(s, d)
<1>1. /\ l \in Nat /\ t \in Seq(T) /\ Len(t) = l
      /\ \A n \in 1..l : s[n] \in T /\ t[n] = [s[n] EXCEPT !.pts = @ - d]
  <2>1. \A n \in 1..l : s[n] \in T
    OBVIOUS
  <2> QED
    BY <2>1, ShiftParts DEF Shift
<1>a. PICK f : Choosing(f, T, s, S)
  BY ChosenSteps
<1>2. /\ f \in [0..l -> Seq(T)]
      /\ f[0] = <<>> /\ Chosen(s, S) = f[l]
      /\ \A n \in 1..l : f[n] = IF n \in S THEN Append(f[n - 1], s[n]) ELSE f[n - 1]
  BY <1>a, Zenon DEF Choosing
<1>b. PICK g : Choosing(g, T, t, S)
  <2> HIDE DEF t
  <2> QED
    BY <1>1, ChosenSteps
<1> HIDE DEF t, l
<1>3. /\ g \in [0..l -> Seq(T)]
      /\ g[0] = <<>> /\ Chosen(t, S) = g[l]
      /\ \A n \in 1..l : g[n] = IF n \in S THEN Append(g[n - 1], t[n]) ELSE g[n - 1]
  BY <1>1, <1>b DEF Choosing
<1> DEFINE E == {n \in 0..l : g[n] = Shift(f[n], d)}
<1>4. 0 \in E
  <2>1. Shift(<<>>, d) = <<>>
    BY DEF Shift
  <2> QED
    BY <1>1, <1>2, <1>3, <2>1
<1>5. ASSUME NEW n \in 1..l, n - 1 \in E PROVE n \in E
  <2>0. n - 1 \in 0..l /\ n \in 0..l
    BY <1>1
  <2> DEFINE x == f[n - 1]
  <2>1. x \in Seq(T) /\ g[n - 1] = Shift(x, d) /\ s[n] \in T
    BY <1>1, <1>2, <1>5, <2>0
  <2>2. CASE n \in S
    <3>1. f[n] = Append(x, s[n]) /\ g[n] = Append(Shift(x, d), t[n])
      BY <1>2, <1>3, <2>1, <2>2
    <3>2. t[n] = [s[n] EXCEPT !.pts = @ - d]
      BY <1>1
    <3> HIDE DEF x
    <3> DEFINE h == s[n]
               k == [h EXCEPT !.pts = @ - d]
    <3>3. Append(Shift(x, d), k) = Shift(Append(x, h), d)
      <4> DEFINE y == Append(x, h)
      <4>1. /\ Len(x) \in Nat /\ Len(y) = Len(x) + 1 /\ y[Len(x) + 1] = h
            /\ \A i \in 1..Len(x) : y[i] = x[i]
        BY <2>1
      <4>2. Shift(x, d) = [i \in 1..Len(x) |-> [x[i] EXCEPT !.pts = @ - d]]
        BY DEF Shift
      <4> HIDE DEF y, h
      <4>3. Append(Shift(x, d), k)
              = [i \in 1..Len(x) + 1 |-> IF i = Len(x) + 1 THEN k ELSE [x[i] EXCEPT !.pts = @ - d]]
        <5> HIDE DEF k
        <5> QED
          BY <4>1, <4>2
      <4>4. Shift(y, d) = [i \in 1..Len(x) + 1 |-> [y[i] EXCEPT !.pts = @ - d]]
        BY <4>1 DEF Shift
      <4>5. ASSUME NEW i \in 1..Len(x) + 1
            PROVE  (IF i = Len(x) + 1 THEN k ELSE [x[i] EXCEPT !.pts = @ - d])
                     = [y[i] EXCEPT !.pts = @ - d]
        <5>1. CASE i = Len(x) + 1
          BY <4>1, <5>1
        <5>2. CASE i # Len(x) + 1
          <6>1. i \in 1..Len(x)
            BY <4>1, <5>2
          <6>2. y[i] = x[i]
            BY <4>1, <6>1
          <6> QED
            BY <5>2, <6>2
        <5> QED
          BY <5>1, <5>2
      <4> QED
        BY <4>3, <4>4, <4>5 DEF y
    <3>4. g[n] = Shift(f[n], d)
      BY <3>1, <3>2, <3>3
    <3> QED
      BY <2>0, <3>4
  <2>3. CASE n \notin S
    BY <1>2, <1>3, <2>0, <2>1, <2>3
  <2> QED
    BY <2>2, <2>3
<1>6. 0..l \subseteq E
  <2> HIDE DEF E
  <2> QED
    BY <1>1, <1>4, <1>5, StepByStep
<1>7. l \in 0..l
  BY <1>1
<1>8. g[l] = Shift(f[l], d)
  BY <1>6, <1>7
<1> QED
  BY <1>2, <1>3, <1>8 DEF t

\* Each track is counted from another moment, too.
LEMMA TracksShift ==
    ASSUME NEW T, Timed(T), NEW s \in Seq(T), NEW d \in Int
    PROVE  Video(Shift(s, d)) = Shift(Video(s), d) /\ Audio(Shift(s, d)) = Shift(Audio(s), d)
<1> DEFINE t == Shift(s, d)
<1>1. Len(t) = Len(s) /\ \A i \in 1..Len(s) : t[i].video = s[i].video
  BY ShiftParts
<1> HIDE DEF t
<1>2. /\ {i \in 1..Len(t) : t[i].video} = {i \in 1..Len(s) : s[i].video}
      /\ {i \in 1..Len(t) : ~t[i].video} = {i \in 1..Len(s) : ~s[i].video}
  BY <1>1
<1>3. \A S : Chosen(t, S) = Shift(Chosen(s, S), d)
  BY ChosenShift DEF t
<1> QED
  BY <1>2, <1>3 DEF Video, Audio, t

\* The audio that is left is the end of it, from the first that is not too early.
LEMMA AudioFromLoses ==
    ASSUME NEW T, Timed(T), NEW a \in Seq(T), NEW start \in Int
    PROVE  LET lost == Len(a) - Len(AudioFrom(a, start))
           IN  /\ lost \in 0..Len(a) /\ AudioFrom(a, start) = SubSeq(a, lost + 1, Len(a))
               /\ \A i \in 1..lost : a[i].pts < start
               /\ AudioFrom(a, start) # <<>> => a[lost + 1].pts >= start
<1> DEFINE K == {i \in 1..Len(a) : a[i].pts >= start}
<1>0. Len(a) \in Nat /\ \A i \in 1..Len(a) : a[i].pts \in Int
  <2>1. \A i \in 1..Len(a) : a[i] \in T
    OBVIOUS
  <2> QED
    BY <2>1 DEF Timed
<1>1. CASE K = {}
  <2>1. AudioFrom(a, start) = <<>>
    BY <1>1 DEF AudioFrom
  <2>2. SubSeq(a, Len(a) + 1, Len(a)) = <<>>
    BY <1>0
  <2>3. \A i \in 1..Len(a) : a[i].pts < start
    BY <1>0, <1>1
  <2> QED
    BY <1>0, <2>1, <2>2, <2>3
<1>2. CASE K # {}
  <2> DEFINE b == SmallestOf(K)
  <2>1. b \in K /\ \A y \in K : b <= y
    <3>1. K \in SUBSET Nat
      OBVIOUS
    <3> HIDE DEF K
    <3> QED
      BY <1>2, <3>1, SmallestExists
  <2>2. AudioFrom(a, start) = SubSeq(a, b, Len(a))
    BY <1>2 DEF AudioFrom
  <2>3. b \in 1..Len(a) /\ a[b].pts >= start
    BY <2>1
  <2> HIDE DEF b
  <2>4. \A i \in 1..b - 1 : a[i].pts < start
    <3> TAKE i \in 1..b - 1
    <3>1. i \in 1..Len(a) /\ ~(b <= i)
      BY <1>0, <2>3
    <3>2. i \notin K
      BY <2>1, <3>1
    <3> QED
      BY <1>0, <3>1, <3>2
  <2> HIDE DEF K
  <2>5. Len(SubSeq(a, b, Len(a))) = Len(a) - b + 1
    BY <1>0, <2>3
  <2>6. Len(a) - Len(AudioFrom(a, start)) = b - 1
    BY <1>0, <2>2, <2>3, <2>5
  <2>7. b - 1 \in 0..Len(a) /\ b - 1 + 1 = b
    BY <1>0, <2>3
  <2> QED
    BY <2>2, <2>3, <2>4, <2>6, <2>7
<1> QED
  BY <1>1, <1>2

\* How the blocks of a file come from its frames: which audio is in it, and what is lost.
Interleaved(bs, fs, d, a) ==
    LET v == Video(fs)
        sound == Audio(fs)
        lost == Len(sound) - Len(a)
    IN  /\ d \in Int /\ bs = Shift(Merge(v, a), d) /\ Len(bs) <= Len(fs)
        /\ Video(bs) = Shift(v, d) /\ Audio(bs) = Shift(a, d)
        /\ lost \in 0..Len(sound) /\ a = SubSeq(sound, lost + 1, Len(sound))
        /\ lost > 0 => /\ v # <<>>
                       /\ \A i \in 1..lost : sound[i].pts < v[1].pts
                       /\ a # <<>> => sound[lost + 1].pts >= v[1].pts
        /\ v # <<>> => bs # <<>> /\ bs[1].video = v[1].video /\ bs[1].keyframe = v[1].keyframe

\* Every file is made in this way, whatever the frames.
LEMMA InterleaveParts ==
    ASSUME NEW T, Timed(T), NEW fs \in Seq(T)
    PROVE  \E d, a : Interleaved(Interleave(fs), fs, d, a) /\ a \in Seq(T)
<1> DEFINE v == Video(fs)
           sound == Audio(fs)
           start == IF v # <<>> THEN v[1].pts ELSE IF sound # <<>> THEN sound[1].pts ELSE 0
           a == IF v # <<>> THEN AudioFrom(sound, start) ELSE sound
           m == Merge(v, a)
           b == Shift(m, start)
           lost == Len(sound) - Len(a)
           VS == {i \in 1..Len(fs) : fs[i].video}
           AS == {i \in 1..Len(fs) : ~fs[i].video}
<1>1. Interleave(fs) = b
  BY DEF Interleave, Shift
<1>2. /\ v \in Seq(T) /\ Collected(v, fs, VS, Len(fs))
      /\ sound \in Seq(T) /\ Collected(sound, fs, AS, Len(fs))
  BY ChosenIs DEF Video, Audio
<1>3. Len(v) + Len(sound) = Len(fs)
  <2>1. \A n \in 1..Len(fs) : n \in AS <=> n \notin VS
    OBVIOUS
  <2>2. v = Chosen(fs, VS) /\ sound = Chosen(fs, AS)
    BY DEF Video, Audio
  <2> HIDE DEF VS, AS, v, sound
  <2> QED
    BY <2>1, <2>2, ChosenParts
<1>4. /\ \A i \in 1..Len(v) : v[i].video
      /\ \A i \in 1..Len(sound) : ~sound[i].video
  <2>1. /\ \A i \in VS : fs[i].video
        /\ \A i \in AS : ~fs[i].video
    OBVIOUS
  <2> HIDE DEF VS, AS, v, sound
  <2>2. /\ \A j \in 1..Len(v) : \E i \in 1..Len(fs) : i \in VS /\ v[j] = fs[i]
        /\ \A j \in 1..Len(sound) : \E i \in 1..Len(fs) : i \in AS /\ sound[j] = fs[i]
    BY <1>2, Zenon DEF Collected
  <2> QED
    BY <2>1, <2>2, Zenon
<1> HIDE DEF v, sound, VS, AS
<1>5. start \in Int /\ (v # <<>> => start = v[1].pts)
  <2>1. v # <<>> => v[1] \in T
    BY <1>2
  <2>2. sound # <<>> => sound[1] \in T
    BY <1>2
  <2> QED
    BY <2>1, <2>2 DEF Timed
<1>6. /\ a \in Seq(T) /\ lost \in 0..Len(sound) /\ a = SubSeq(sound, lost + 1, Len(sound))
      /\ v # <<>> => \A i \in 1..lost : sound[i].pts < v[1].pts
      /\ v # <<>> /\ a # <<>> => sound[lost + 1].pts >= v[1].pts /\ start <= a[1].pts
      /\ lost > 0 => v # <<>>
  <2>1. CASE v = <<>>
    <3>1. a = sound /\ Len(sound) \in Nat
      BY <1>2, <2>1
    <3>2. lost = 0 /\ SubSeq(sound, 1, Len(sound)) = sound
      BY <1>2, <3>1
    <3> QED
      BY <1>2, <2>1, <3>1, <3>2
  <2>2. CASE v # <<>>
    <3>1. a = AudioFrom(sound, start) /\ start = v[1].pts
      BY <1>5, <2>2
    <3> HIDE DEF start, a
    <3>2. /\ AudioFrom(sound, start) \in Seq(T)
          /\ AudioFrom(sound, start) # <<>> => start <= AudioFrom(sound, start)[1].pts
      BY <1>2, <1>5, AudioFromIs
    <3>3. LET lst == Len(sound) - Len(AudioFrom(sound, start))
          IN  /\ lst \in 0..Len(sound) /\ AudioFrom(sound, start) = SubSeq(sound, lst + 1, Len(sound))
              /\ \A i \in 1..lst : sound[i].pts < start
              /\ AudioFrom(sound, start) # <<>> => sound[lst + 1].pts >= start
      BY <1>2, <1>5, AudioFromLoses
    <3> QED
      BY <2>2, <3>1, <3>2, <3>3, Zenon
  <2> QED
    BY <2>1, <2>2
<1> HIDE DEF start
<1>7. \A i \in 1..Len(a) : ~a[i].video
  <2> DEFINE x == lost
  <2>1. a = SubSeq(sound, x + 1, Len(sound)) /\ x \in 0..Len(sound) /\ a \in Seq(T)
    BY <1>6
  <2> HIDE DEF a, x
  <2> QED
    BY <1>2, <1>4, <2>1
<1> HIDE DEF a
<1>8. /\ m \in Seq(T) /\ Len(m) = Len(v) + Len(a)
      /\ v # <<>> => m # <<>> /\ m[1] = v[1]
      /\ Video(m) = v /\ Audio(m) = a
  <2>1. m \in Seq(T) /\ Len(m) = Len(v) + Len(a) /\ Merged(m, v, a)
    BY <1>2, <1>6, MergeIs
  <2>2. Video(m) = v /\ Audio(m) = a
    BY <1>2, <1>4, <1>6, <1>7, MergeParts
  <2>3. v # <<>> => (a = <<>> \/ v[1].pts <= a[1].pts)
    BY <1>5, <1>6
  <2> HIDE DEF m
  <2> QED
    BY <2>1, <2>2, <2>3 DEF Merged
<1> HIDE DEF m
<1>9. /\ Video(b) = Shift(v, start) /\ Audio(b) = Shift(a, start) /\ Len(b) = Len(m)
      /\ \A i \in 1..Len(m) : b[i].video = m[i].video /\ b[i].keyframe = m[i].keyframe
  BY <1>5, <1>8, ShiftParts, TracksShift
<1>10. v # <<>> => b # <<>> /\ b[1].video = v[1].video /\ b[1].keyframe = v[1].keyframe
  <2> HAVE v # <<>>
  <2>1. 1 \in 1..Len(m) /\ m[1] = v[1]
    BY <1>8
  <2> HIDE DEF b
  <2> QED
    BY <1>9, <2>1
<1>11. Len(b) <= Len(fs)
  <2>1. Len(a) <= Len(sound)
    BY <1>2, <1>6
  <2> HIDE DEF b
  <2> QED
    BY <1>2, <1>3, <1>6, <1>8, <1>9, <2>1
<1>12. Interleaved(b, fs, start, a)
  <2>1. b = Shift(m, start)
    OBVIOUS
  <2> HIDE DEF b
  <2> QED
    BY <1>5, <1>6, <1>9, <1>10, <1>11, <2>1, Zenon DEF Interleaved, m, v, sound
<1> QED
  BY <1>1, <1>6, <1>12, Zenon

-----------------------------------------------------------------------------
(* The recorder: clips. *)

\* A frame, whatever moment its time is counted from.
AnyFrame == [video : BOOLEAN, keyframe : BOOLEAN, pts : Int, layer : Layers \cup {None},
             codec : Codecs \cup {None}, from : Nat]

LEMMA FramesTimed == Timed(AnyFrame)
  BY DEF Timed, AnyFrame

\* A clip can be played from its first frame, wherever it is cut of a buffer that begins
\* with a picture; of another, if it does not end before the first keyframe.
THEOREM ClipsArePlayed == Spec => []ClipsPlay
<1>1. TypeOK /\ KeyframeInFront(frames) => ClipsPlay
  <2> DEFINE draft == DraftFrames(frames)
             early == draft[SmallestOf(Keyframes(draft))].pts
  <2> SUFFICES ASSUME TypeOK, KeyframeInFront(frames), CanSnapshot, videoCodec # None,
                      NEW start \in 0..(clock + Drift), NEW end \in start..(clock + Drift)
               PROVE  LET clip == SelectFrames(draft, TRUE, start, end)
                      IN  /\ frames[1].video \/ early <= end
                               => clip # <<>> /\ IsVideoKeyframe(Interleave(clip)[1])
                          /\ frames[1].video \/ early <= start
                               => clip[1].pts <= start
    BY Zenon DEF ClipsPlay, Keyframes
  <2>1. start \in Int /\ end \in Int /\ 0 <= start /\ start <= end
    BY BoundsAreNat DEF TypeOK
  <2>2. frames \in Seq(AnyFrame) /\ frames # <<>>
    <3>1. frames \in Seq(Frame)
      BY DEF TypeOK
    <3>2. Frame \subseteq AnyFrame
      BY DEF Frame, AnyFrame
    <3>3. frames \in [1..Len(frames) -> AnyFrame] /\ Len(frames) \in Nat
      BY <3>1, <3>2
    <3> QED
      BY <3>3, SeqDef DEF CanSnapshot
  <2>3. /\ draft \in Seq(AnyFrame)
        /\ \A i \in 1..Len(frames) : IsVideoKeyframe(frames[i]) =>
              \E k \in 1..Len(draft) : IsVideoKeyframe(draft[k])
        /\ frames[1].video =>
              draft # <<>> /\ IsVideoKeyframe(draft[1]) /\ draft[1].pts = 0
    <3>1. frames[1].video => IsVideoKeyframe(frames[1])
      BY <2>2 DEF KeyframeInFront, IsVideoKeyframe
    <3> QED
      BY <2>2, <3>1, FramesTimed, DraftIs
  <2> HIDE DEF draft
  <2>4. Keyframes(draft) # {}
    BY <2>3 DEF CanSnapshot, Keyframes
  <2>5. LET clip == SelectFrames(draft, TRUE, start, end)
        IN  /\ early <= end => clip # <<>> /\ IsVideoKeyframe(Interleave(clip)[1])
            /\ early <= start => clip[1].pts <= start
    BY <2>1, <2>3, <2>4, FramesTimed, ClipIs
  <2>6. frames[1].video => early = 0
    <3>1. Keyframes(draft) \in SUBSET Nat /\ \A i \in Keyframes(draft) : 1 <= i
      BY DEF Keyframes
    <3>2. frames[1].video => 1 \in Keyframes(draft)
      BY <2>3 DEF Keyframes
    <3>3. SmallestOf(Keyframes(draft)) \in Keyframes(draft)
          /\ \A i \in Keyframes(draft) : SmallestOf(Keyframes(draft)) <= i
      BY <2>4, <3>1, SmallestExists
    <3>4. frames[1].video => SmallestOf(Keyframes(draft)) = 1
      BY <3>1, <3>2, <3>3
    <3> QED
      BY <2>3, <3>4
  <2>7. frames[1].video => early <= start /\ early <= end
    BY <2>1, <2>6
  <2> HIDE DEF early
  <2> QED
    BY <2>5, <2>7
<1>2. Recording => TypeOK
  BY DEF Recording
<1> QED
  BY <1>1, <1>2, RecordingInvariant, FrontStaysKeyframe, PTL

-----------------------------------------------------------------------------
(* The writer: sizes. *)

\* As many bytes as are needed, eight at most.
LEMMA LengthsAreNat ==
    ASSUME NEW n \in Int
    PROVE  W!SizeLength(n) \in 1..8 /\ W!UintLength(n) \in 1..8
<1> DEFINE S == {l \in 1..8 : l = 8 \/ n < 2^(7 * l) - 1}
           U == {l \in 1..8 : l = 8 \/ n < 2^(8 * l)}
<1>1. \A k \in 1..7 : 2^(7 * k) \in Int /\ 2^(8 * k) \in Int
  BY SMTT(20)
<1>2. S \in SUBSET Nat /\ U \in SUBSET Nat /\ S # {} /\ U # {}
  <2>1. 8 \in S /\ 8 \in U
    OBVIOUS
  <2>2. S \subseteq 1..8 /\ U \subseteq 1..8
    BY Zenon
  <2> HIDE DEF S, U
  <2> QED
    BY <2>1, <2>2
<1>3. /\ SmallestOf(S) \in S /\ \A y \in S : SmallestOf(S) <= y
      /\ SmallestOf(U) \in U /\ \A y \in U : SmallestOf(U) <= y
  <2> HIDE DEF S, U
  <2> QED
    BY <1>2, SmallestExists
<1>4. \E l \in 1..8 : (l = 8 \/ n < 2^(7 * l) - 1) /\ \A k \in 1..(l - 1) : n >= 2^(7 * k) - 1
  <2> DEFINE l == SmallestOf(S)
  <2>1. l \in 1..8 /\ (l = 8 \/ n < 2^(7 * l) - 1) /\ \A y \in S : l <= y
    BY <1>3
  <2> HIDE DEF l
  <2>2. ASSUME NEW k \in 1..(l - 1) PROVE n >= 2^(7 * k) - 1
    <3>1. k \in 1..7 /\ ~(l <= k)
      BY <2>1
    <3>2. k \notin S
      BY <2>1, <3>1
    <3> QED
      BY <1>1, <3>1, <3>2
  <2> QED
    BY <2>1, <2>2
<1>5. \E l \in 1..8 : (l = 8 \/ n < 2^(8 * l)) /\ \A k \in 1..(l - 1) : n >= 2^(8 * k)
  <2> DEFINE l == SmallestOf(U)
  <2>1. l \in 1..8 /\ (l = 8 \/ n < 2^(8 * l)) /\ \A y \in U : l <= y
    BY <1>3
  <2> HIDE DEF l
  <2>2. ASSUME NEW k \in 1..(l - 1) PROVE n >= 2^(8 * k)
    <3>1. k \in 1..7 /\ ~(l <= k)
      BY <2>1
    <3>2. k \notin U
      BY <2>1, <3>1
    <3> QED
      BY <1>1, <3>1, <3>2
  <2> QED
    BY <2>1, <2>2
<1>6. W!SizeLength(n) \in 1..8
  BY <1>4, Zenon DEF W!SizeLength
<1>7. W!UintLength(n) \in 1..8
  BY <1>5, Zenon DEF W!UintLength
<1> QED
  BY <1>6, <1>7

\* An element is its ID, its length and what it holds.
LEMMA ElementSizes ==
    \A a, b \in Nat :
        W!ElementSize(a, b) \in Nat /\ W!ElementSize(a, b) = a + W!SizeLength(b) + b
BY LengthsAreNat DEF W!ElementSize

\* A cue is a number of bytes.
LEMMA CueSizes == ASSUME NEW time \in Int PROVE W!CueSize(time) \in Nat
<1> DEFINE a == W!UintLength(time)
           b == W!ElementSize(1, a)
           c == W!ElementSize(1, 1)
           d == W!ElementSize(1, 8)
           e == W!ElementSize(1, c + d)
<1>1. a \in Nat
  BY LengthsAreNat
<1>2. W!CueSize(time) = W!ElementSize(1, b + e)
  BY DEF W!CueSize
<1> HIDE DEF a
<1>3. b \in Nat /\ c \in Nat /\ d \in Nat
  BY <1>1, ElementSizes
<1>4. e \in Nat
  <2>1. c + d \in Nat
    BY <1>3
  <2> HIDE DEF c, d
  <2> QED
    BY <2>1, ElementSizes
<1>5. b + e \in Nat
  BY <1>3, <1>4
<1> HIDE DEF b, e
<1> QED
  BY <1>2, <1>5, ElementSizes

\* So is all that precedes the clusters.
LEMMA HeaderSizes == W!SegmentStart \in Nat /\ W!SeekHeadSize \in Nat
<1>1. /\ W!ElementSize(2, 1) \in Nat /\ W!ElementSize(2, 8) \in Nat /\ W!ElementSize(2, 4) \in Nat
  BY ElementSizes
<1>2. W!EbmlHeaderSize \in Nat
  <2>1. 4 * W!ElementSize(2, 1) + W!ElementSize(2, 8) + 2 * W!ElementSize(2, 1) \in Nat
    BY <1>1
  <2> QED
    BY <2>1, ElementSizes DEF W!EbmlHeaderSize
<1>3. W!SegmentStart \in Nat
  BY <1>2 DEF W!SegmentStart, W!ClusterId, W!LargeSize
<1> DEFINE a == W!ElementSize(2, 4)
           b == W!ElementSize(2, 8)
           c == W!ElementSize(2, a + b)
<1>4. a \in Nat /\ b \in Nat /\ W!SeekHeadSize = W!ElementSize(4, 3 * c)
  BY <1>1 DEF W!SeekHeadSize
<1> HIDE DEF a, b
<1>5. c \in Nat
  <2>1. a + b \in Nat
    BY <1>4
  <2> QED
    BY <2>1, ElementSizes
<1> HIDE DEF c
<1>6. W!SeekHeadSize \in Nat
  <2>1. 3 * c \in Nat
    BY <1>5
  <2> QED
    BY <1>4, <2>1, ElementSizes
<1> QED
  BY <1>3, <1>6

\* A total is what has been added up, number by number.
AddsUp(g, f, S) ==
    /\ g \in [0..MaxFrames -> Nat]
    /\ g[0] = 0 /\ W!TotalOf(f, S) = g[MaxFrames]
    /\ \A n \in 1..MaxFrames : g[n] = g[n - 1] + (IF n \in S THEN f[n] ELSE 0)

\* Whatever is added up, it can be done so.
LEMMA TotalSteps ==
    ASSUME NEW f, NEW S, \A n \in S : f[n] \in Nat
    PROVE  \E g : AddsUp(g, f, S)
<1> DEFINE l == MaxFrames
           Add(n, x) == x + (IF n \in S THEN f[n] ELSE 0)
           step == [n \in 1..l |-> [x \in Nat |-> Add(n, x)]]
           Body(g) == [n \in 0..l |-> IF n = 0 THEN 0 ELSE Add(n, g[n - 1])]
<1>1. l \in Nat
  BY WriterAssumption
<1>2. \A n \in 1..l, x \in Nat : Add(n, x) \in Nat
  OBVIOUS
<1>3. step \in Steps(l, Nat)
  <2> HIDE DEF Add
  <2> QED
    BY <1>2 DEF Steps
<1>4. PICK g : Goes(g, l, Nat, 0, step)
  <2> HIDE DEF step, l
  <2> QED
    BY <1>1, <1>3, StepwiseExists
<1>5. /\ \A n \in 1..l : n - 1 \in 0..l /\ n \in 0..l /\ n # 0
      /\ g \in [0..l -> Nat] /\ g[0] = 0
  <2> HIDE DEF step, l
  <2> QED
    BY <1>1, <1>4 DEF Goes
<1>6. \A n \in 1..l : g[n] = Add(n, g[n - 1])
  <2> HIDE DEF Add
  <2> QED
    BY <1>4, <1>5 DEF Goes
<1>7. g = Body(g)
  <2> HIDE DEF Add
  <2>1. g = [n \in 0..l |-> g[n]]
    BY <1>5
  <2>2. \A n \in 0..l : n # 0 => n \in 1..l
    BY <1>1
  <2>3. \A n \in 0..l : g[n] = IF n = 0 THEN 0 ELSE Add(n, g[n - 1])
    BY <1>5, <1>6, <2>2
  <2> QED
    BY <2>1, <2>3
<1>8. PICK h : W!TotalOf(f, S) = h[l] /\ h = Body(h)
  BY <1>7 DEF W!TotalOf
<1>9. \A n \in 0..l : h[n] = g[n]
  <2> HIDE DEF Add
  <2> DEFINE E == {n \in 0..l : h[n] = g[n]}
  <2>1. 0 \in E
    BY <1>1, <1>5, <1>8
  <2>2. ASSUME NEW n \in 1..l, n - 1 \in E PROVE n \in E
    <3>1. h[n] = Add(n, h[n - 1])
      BY <1>5, <1>8
    <3> QED
      BY <1>5, <1>6, <2>2, <3>1
  <2>3. 0..l \subseteq E
    <3> HIDE DEF E, l
    <3> QED
      BY <1>1, <2>1, <2>2, StepByStep
  <2> QED
    BY <2>3
<1>10. l \in 0..l
  BY <1>1
<1>11. AddsUp(g, f, S)
  BY <1>5, <1>6, <1>8, <1>9, <1>10 DEF AddsUp
<1> QED
  BY <1>11

\* Totals are numbers.
LEMMA TotalsAreNat ==
    ASSUME NEW f, NEW S, \A n \in S : f[n] \in Nat
    PROVE  W!TotalOf(f, S) \in Nat
<1>1. MaxFrames \in 0..MaxFrames
  BY WriterAssumption
<1> QED
  BY <1>1, TotalSteps DEF AddsUp

\* A total of nothing.
LEMMA TotalOfNone ==
    ASSUME NEW f, NEW S, \A n \in S : f[n] \in Nat
    PROVE  S = {} => W!TotalOf(f, S) = 0
<1>0. PICK g : AddsUp(g, f, S)
  BY TotalSteps
<1>1. /\ g \in [0..MaxFrames -> Nat]
      /\ g[0] = 0 /\ W!TotalOf(f, S) = g[MaxFrames]
      /\ \A n \in 1..MaxFrames : g[n] = g[n - 1] + (IF n \in S THEN f[n] ELSE 0)
  BY <1>0, Zenon DEF AddsUp
<1> SUFFICES ASSUME S = {} PROVE W!TotalOf(f, S) = 0
  OBVIOUS
<1> DEFINE E == {n \in 0..MaxFrames : g[n] = 0}
<1>2. 0 \in E
  BY WriterAssumption, <1>1
<1>3. ASSUME NEW n \in 1..MaxFrames, n - 1 \in E PROVE n \in E
  BY WriterAssumption, <1>1, <1>3
<1>4. 0..MaxFrames \subseteq E
  <2> HIDE DEF E
  <2> QED
    BY WriterAssumption, <1>2, <1>3, StepByStep
<1>5. MaxFrames \in 0..MaxFrames
  BY WriterAssumption
<1> QED
  BY <1>1, <1>4, <1>5

\* A total with one more.
LEMMA TotalWithLast ==
    ASSUME NEW f, NEW S, NEW n \in 1..MaxFrames,
           \A i \in S : i \in Nat /\ i < n /\ f[i] \in Nat, f[n] \in Nat
    PROVE  W!TotalOf(f, S \cup {n}) = W!TotalOf(f, S) + f[n]
<1> DEFINE R == S \cup {n}
<1>a. PICK g : AddsUp(g, f, S)
  BY TotalSteps
<1>b. PICK h : AddsUp(h, f, R)
  <2>1. \A i \in R : f[i] \in Nat
    OBVIOUS
  <2> HIDE DEF R
  <2> QED
    BY <2>1, TotalSteps
<1>1. /\ g \in [0..MaxFrames -> Nat]
      /\ g[0] = 0 /\ W!TotalOf(f, S) = g[MaxFrames]
      /\ \A i \in 1..MaxFrames : g[i] = g[i - 1] + (IF i \in S THEN f[i] ELSE 0)
  BY <1>a, Zenon DEF AddsUp
<1>2. /\ h \in [0..MaxFrames -> Nat]
      /\ h[0] = 0 /\ W!TotalOf(f, R) = h[MaxFrames]
      /\ \A i \in 1..MaxFrames : h[i] = h[i - 1] + (IF i \in R THEN f[i] ELSE 0)
  BY <1>b, Zenon DEF AddsUp
<1> DEFINE E == {i \in 0..MaxFrames : h[i] = g[i] + (IF i < n THEN 0 ELSE f[n])}
<1>3. 0 \in E
  BY WriterAssumption, <1>1, <1>2
<1>4. ASSUME NEW i \in 1..MaxFrames, i - 1 \in E PROVE i \in E
  <2>1. /\ i - 1 \in 0..MaxFrames /\ i \in 0..MaxFrames
        /\ g[i] \in Nat /\ g[i - 1] \in Nat /\ h[i] \in Nat /\ h[i - 1] \in Nat
    BY WriterAssumption, <1>1, <1>2
  <2>2. h[i - 1] = g[i - 1] + (IF i - 1 < n THEN 0 ELSE f[n])
    BY <1>4
  <2>3. g[i] = g[i - 1] + (IF i \in S THEN f[i] ELSE 0)
    BY <1>1
  <2>4. h[i] = h[i - 1] + (IF i \in R THEN f[i] ELSE 0)
    BY <1>2
  <2>5. CASE i < n
    <3>1. i \in R <=> i \in S
      BY <2>5
    <3> HIDE DEF R
    <3> QED
      BY <2>1, <2>2, <2>3, <2>4, <2>5, <3>1
  <2>6. CASE i = n
    <3>1. i \in R /\ i \notin S
      BY <2>6
    <3> HIDE DEF R
    <3> QED
      BY <2>1, <2>2, <2>3, <2>4, <2>6, <3>1
  <2>7. CASE i > n
    <3>1. i \notin R /\ i \notin S
      BY <2>7
    <3> HIDE DEF R
    <3> QED
      BY <2>1, <2>2, <2>3, <2>4, <2>7, <3>1
  <2> QED
    BY <2>5, <2>6, <2>7
<1>5. 0..MaxFrames \subseteq E
  <2> HIDE DEF E
  <2> QED
    BY WriterAssumption, <1>3, <1>4, StepByStep
<1>6. MaxFrames \in 0..MaxFrames /\ ~(MaxFrames < n)
  BY WriterAssumption
<1> QED
  BY <1>1, <1>2, <1>5, <1>6

-----------------------------------------------------------------------------
(* The writer: clusters. *)

\* Frames and blocks, of any time and size.
Block == [video : BOOLEAN, keyframe : BOOLEAN, pts : Int, size : Nat]

\* Block by block: a cluster begins, or it is that of the block before.
LEMMA ClusterSteps ==
    ASSUME NEW bs, Len(bs) \in Nat, NEW max
    PROVE  LET c == W!ClusterOf(bs, max) IN
           c = [i \in 1..Len(bs) |->
                  IF i = 1 \/ W!IsVideoKeyframe(bs[i]) \/ bs[i].pts - bs[c[i - 1]].pts > max
                           \/ bs[i].pts - bs[c[i - 1]].pts < -max
                  THEN i ELSE c[i - 1]]
<1> DEFINE l == Len(bs)
           Begins(i, x) == i = 1 \/ W!IsVideoKeyframe(bs[i]) \/ bs[i].pts - bs[x].pts > max
                                 \/ bs[i].pts - bs[x].pts < -max
           step == [i \in 1..l |-> [x \in Nat |-> IF Begins(i, x) THEN i ELSE x]]
           With(h) == h = [i \in 1..l |->
                             IF i = 1 \/ W!IsVideoKeyframe(bs[i]) THEN i
                             ELSE IF \/ bs[i].pts - bs[h[i - 1]].pts > max
                                     \/ bs[i].pts - bs[h[i - 1]].pts < -max
                                  THEN i ELSE h[i - 1]]
<1>1. ASSUME NEW h
      PROVE  With(h) <=> h = [i \in 1..l |-> IF Begins(i, h[i - 1]) THEN i ELSE h[i - 1]]
  <2>1. \A i : (IF i = 1 \/ W!IsVideoKeyframe(bs[i]) THEN i
               ELSE IF \/ bs[i].pts - bs[h[i - 1]].pts > max
                       \/ bs[i].pts - bs[h[i - 1]].pts < -max
                    THEN i ELSE h[i - 1])
              = IF Begins(i, h[i - 1]) THEN i ELSE h[i - 1]
    OBVIOUS
  <2> HIDE DEF Begins
  <2> QED
    BY <2>1
<1>2. step \in Steps(l, Nat)
  <2> HIDE DEF Begins
  <2> QED
    BY DEF Steps
<1>3. PICK g : Goes(g, l, Nat, 0, step)
  <2> HIDE DEF step
  <2> QED
    BY <1>2, StepwiseExists
<1> DEFINE h == [i \in 1..l |-> g[i]]
<1>4. With(h)
  <2> HIDE DEF With, Begins
  <2>1. ASSUME NEW i \in 1..l PROVE h[i] = IF Begins(i, g[i - 1]) THEN i ELSE g[i - 1]
    <3>1. i - 1 \in 0..l
      OBVIOUS
    <3>2. g[i] = step[i][g[i - 1]] /\ g[i - 1] \in Nat
      <4> HIDE DEF step
      <4> QED
        BY <1>3, <3>1 DEF Goes
    <3> QED
      BY <3>2
  <2>2. ASSUME NEW i \in 1..l
        PROVE  h[i] = IF Begins(i, h[i - 1]) THEN i ELSE h[i - 1]
    <3>1. CASE i = 1
      <4>1. \A x : Begins(1, x)
        BY DEF Begins
      <4> QED
        BY <2>1, <3>1, <4>1
    <3>2. CASE i # 1
      <4>1. i - 1 \in 1..l
        BY <3>2
      <4>2. h[i - 1] = g[i - 1]
        BY <4>1
      <4> HIDE DEF h
      <4> QED
        BY <2>1, <4>2
    <3> QED
      BY <3>1, <3>2
  <2>3. h = [i \in 1..l |-> h[i]]
    OBVIOUS
  <2> HIDE DEF h
  <2>4. h = [i \in 1..l |-> IF Begins(i, h[i - 1]) THEN i ELSE h[i - 1]]
    BY <2>2, <2>3
  <2> QED
    BY <1>1, <2>4
<1>5. W!ClusterOf(bs, max) = CHOOSE f : With(f)
  BY Zenon DEF W!ClusterOf
<1>6. With(CHOOSE f : With(f))
  <2> HIDE DEF With, h
  <2> QED
    BY <1>4
<1>7. With(W!ClusterOf(bs, max))
  <2> HIDE DEF With
  <2> QED
    BY <1>5, <1>6
<1> QED
  BY <1>1, <1>7

\* Where clusters begin, and what is in them.
Clustered(c, bs, max, n) ==
    /\ c[n] \in 1..n /\ c[c[n]] = c[n]
    /\ c[n] = n \/ (n > 1 /\ c[n] = c[n - 1])
    /\ n = 1 \/ W!IsVideoKeyframe(bs[n]) => c[n] = n
    /\ bs[n].pts - bs[c[n]].pts <= max /\ bs[n].pts - bs[c[n]].pts >= -max
    /\ \A b \in 1..n : c[b] = b => b <= c[n]

\* Every block is in a cluster that begins with it or before it.
LEMMA ClusterIs ==
    ASSUME NEW bs \in Seq(Block), NEW max \in Nat
    PROVE  \A n \in 1..Len(bs) : Clustered(W!ClusterOf(bs, max), bs, max, n)
<1> DEFINE c == W!ClusterOf(bs, max)
           l == Len(bs)
           Begins(i) == i = 1 \/ W!IsVideoKeyframe(bs[i]) \/ bs[i].pts - bs[c[i - 1]].pts > max
                              \/ bs[i].pts - bs[c[i - 1]].pts < -max
<1>1. l \in Nat /\ \A i \in 1..l : bs[i].pts \in Int
  <2>1. \A i \in 1..l : bs[i] \in Block
    OBVIOUS
  <2> QED
    BY <2>1 DEF Block
<1>2. \A i \in 1..l : c[i] = IF Begins(i) THEN i ELSE c[i - 1]
  BY <1>1, ClusterSteps
<1> HIDE DEF c, l
<1> DEFINE E == {n \in 0..l : n = 0 \/ Clustered(c, bs, max, n)}
<1>3. 0 \in E
  BY <1>1
<1>4. ASSUME NEW n \in 1..l, n - 1 \in E PROVE n \in E
  <2>1. CASE Begins(n)
    <3>1. c[n] = n
      BY <1>2, <2>1
    <3>2. \A b \in 1..n : b <= n
      OBVIOUS
    <3>3. bs[n].pts \in Int /\ n \in Nat /\ n >= 1
      BY <1>1
    <3>4. Clustered(c, bs, max, n)
      BY <3>1, <3>2, <3>3 DEF Clustered
    <3> QED
      BY <3>4
  <2>2. CASE ~Begins(n)
    <3>1. c[n] = c[n - 1] /\ n # 1
      BY <1>2, <2>2
    <3>2. n - 1 \in 1..l /\ n > 1 /\ n \in Nat
      BY <1>1, <3>1
    <3>3. Clustered(c, bs, max, n - 1)
      BY <1>4, <3>2
    <3>4. c[n - 1] \in 1..n - 1 /\ c[c[n - 1]] = c[n - 1]
      BY <3>3 DEF Clustered
    <3>5. c[n - 1] \in 1..l
      BY <1>1, <3>2, <3>4
    <3>6. /\ bs[n].pts - bs[c[n]].pts <= max /\ bs[n].pts - bs[c[n]].pts >= -max
          /\ ~W!IsVideoKeyframe(bs[n])
      BY <1>1, <2>2, <3>1, <3>5
    <3> HIDE DEF Begins
    <3>7. \A b \in 1..n : c[b] = b => b <= c[n]
      <4> TAKE b \in 1..n
      <4>1. CASE b = n
        BY <3>1, <3>2, <3>4, <4>1
      <4>2. CASE b # n
        <5>1. b \in 1..n - 1
          BY <4>2
        <5> QED
          BY <3>1, <3>3, <5>1 DEF Clustered
      <4> QED
        BY <4>1, <4>2
    <3>8. Clustered(c, bs, max, n)
      BY <3>1, <3>2, <3>4, <3>6, <3>7 DEF Clustered
    <3> QED
      BY <3>8
  <2> QED
    BY <2>1, <2>2
<1>5. 0..l \subseteq E
  <2> HIDE DEF E
  <2> QED
    BY <1>1, <1>3, <1>4, StepByStep
<1> QED
  BY <1>5 DEF c, l

\* Blocks are frames whose times may be counted from anywhere.
LEMMA BlocksTimed == Timed(Block)
BY DEF Timed, Block

\* From its first frame on, a track is the same wherever its time is counted from.
FromFirst(s) == [i \in 1..Len(s) |-> [s[i] EXCEPT !.pts = @ - s[1].pts]]

\* The first frame is counted from that moment, too.
LEMMA FromFirstSame ==
    ASSUME NEW s \in Seq(Block), NEW d \in Int
    PROVE  FromFirst(Shift(s, d)) = FromFirst(s)
<1> DEFINE t == Shift(s, d)
<1>1. Len(t) = Len(s) /\ \A i \in 1..Len(s) : t[i] = [s[i] EXCEPT !.pts = @ - d]
  <2>1. Len(t) = Len(s)
    BY BlocksTimed, ShiftParts
  <2> QED
    BY <2>1 DEF Shift
<1> HIDE DEF t
<1>2. ASSUME NEW i \in 1..Len(s)
      PROVE  [t[i] EXCEPT !.pts = @ - t[1].pts] = [s[i] EXCEPT !.pts = @ - s[1].pts]
  <2> DEFINE f == s[i]
             g == s[1]
  <2>1. 1 \in 1..Len(s) /\ f \in Block /\ g \in Block
    OBVIOUS
  <2>2. t[i] = [f EXCEPT !.pts = @ - d] /\ t[1] = [g EXCEPT !.pts = @ - d]
    BY <1>1, <2>1
  <2> HIDE DEF f, g
  <2>3. f.pts \in Int /\ g.pts \in Int /\ t[1].pts = g.pts - d /\ t[i].pts = f.pts - d
    BY <2>1, <2>2 DEF Block
  <2>4. t[i].pts - t[1].pts = f.pts - g.pts
    BY <2>3
  <2>5. [t[i] EXCEPT !.pts = t[i].pts - t[1].pts] = [f EXCEPT !.pts = f.pts - g.pts]
    BY <2>1, <2>2, <2>4 DEF Block
  <2> QED
    BY <2>5 DEF f, g
<1> QED
  BY <1>1, <1>2 DEF FromFirst, t

\* What is planned of a file.
ClusterStarts(bs) == {b \in 1..Len(bs) : W!ClusterOf(bs, MaxDuration)[b] = b}

BlockSizes(bs) == [i \in 1..Len(bs) |-> W!ElementSize(1, W!BlockHeader + bs[i].size)]

ClusterSizes(bs) ==
    [b \in ClusterStarts(bs) |-> W!ClusterSize(W!PayloadSize(bs, W!ClusterOf(bs, MaxDuration), b))]

CuesSize(bs, hasVideo) ==
    W!TotalOf([b \in ClusterStarts(bs) |-> W!CueSize(bs[b].pts)],
            {b \in ClusterStarts(bs) : W!IsCue(bs, hasVideo, b)})

FirstCluster(bs, hasVideo) ==
    W!SeekHeadSize + InfoSize + TracksSize + W!ElementSize(4, CuesSize(bs, hasVideo))

PlannedBefore(bs, n) == W!TotalOf(ClusterSizes(bs), {c \in ClusterStarts(bs) : c < n})

\* newMuxer plans these sizes and positions.
LEMMA PlanIs ==
    ASSUME NEW bs, NEW hasVideo
    PROVE  LET S == ClusterStarts(bs)
           IN  W!PlanOf(bs, hasVideo) =
                 [clusters |-> [b \in S |->
                      [position |-> FirstCluster(bs, hasVideo) + PlannedBefore(bs, b),
                       payload  |-> W!PayloadSize(bs, W!ClusterOf(bs, MaxDuration), b),
                       cue      |-> W!IsCue(bs, hasVideo, b)]],
                  segment |-> FirstCluster(bs, hasVideo) + W!TotalOf(ClusterSizes(bs), S)]
<1> DEFINE begins == W!ClusterOf(bs, MaxDuration)
           S == ClusterStarts(bs)
           payload == [b \in S |-> W!PayloadSize(bs, begins, b)]
           sizes == [b \in S |-> W!ClusterSize(payload[b])]
           first == FirstCluster(bs, hasVideo)
<1>1. W!PlanOf(bs, hasVideo) =
        [clusters |-> [b \in S |->
             [position |-> first + W!TotalOf(sizes, {c \in S : c < b}),
              payload  |-> payload[b],
              cue      |-> W!IsCue(bs, hasVideo, b)]],
         segment |-> first + W!TotalOf(sizes, S)]
  BY Zenon DEF W!PlanOf, FirstCluster, CuesSize, ClusterStarts
<1>2. \A b \in S : payload[b] = W!PayloadSize(bs, begins, b)
  OBVIOUS
<1> HIDE DEF payload
<1>3. sizes = ClusterSizes(bs)
  BY <1>2 DEF ClusterSizes
<1> HIDE DEF sizes, S, first, begins
<1> QED
  BY <1>1, <1>2, <1>3 DEF PlannedBefore, S, first, begins

\* They are numbers of bytes.
LEMMA PlanSizes ==
    ASSUME NEW bs \in Seq(Block), NEW hasVideo
    PROVE  /\ \A i \in 1..Len(bs) : /\ BlockSizes(bs)[i] \in Nat
                                    /\ W!ElementSize(1, W!UintLength(bs[i].pts)) \in Nat
           /\ \A b \in ClusterStarts(bs) : ClusterSizes(bs)[b] \in Nat
           /\ FirstCluster(bs, hasVideo) \in Nat /\ CuesSize(bs, hasVideo) \in Nat
<1>1. \A i \in 1..Len(bs) : bs[i].pts \in Int /\ bs[i].size \in Nat
  <2>1. \A i \in 1..Len(bs) : bs[i] \in Block
    OBVIOUS
  <2> QED
    BY <2>1 DEF Block
<1>2. \A i \in 1..Len(bs) : BlockSizes(bs)[i] \in Nat
  <2> TAKE i \in 1..Len(bs)
  <2>1. BlockSizes(bs)[i] = W!ElementSize(1, W!BlockHeader + bs[i].size)
    BY DEF BlockSizes
  <2>2. W!BlockHeader + bs[i].size \in Nat /\ 1 \in Nat
    BY <1>1 DEF W!BlockHeader
  <2> QED
    BY <2>1, <2>2, ElementSizes
<1>3. \A i \in 1..Len(bs) : W!ElementSize(1, W!UintLength(bs[i].pts)) \in Nat
  <2> TAKE i \in 1..Len(bs)
  <2> DEFINE pts == bs[i].pts
  <2>1. W!UintLength(pts) \in Nat /\ 1 \in Nat
    <3>1. pts \in Int
      BY <1>1
    <3> HIDE DEF pts
    <3> QED
      BY <3>1, LengthsAreNat
  <2> QED
    BY <2>1, ElementSizes
<1>4. ASSUME NEW b \in ClusterStarts(bs) PROVE ClusterSizes(bs)[b] \in Nat
  <2> DEFINE begins == W!ClusterOf(bs, MaxDuration)
             total == W!TotalOf(BlockSizes(bs), W!BlocksOf(bs, begins, b))
  <2>1. ClusterSizes(bs)[b] = W!ClusterSize(W!PayloadSize(bs, begins, b))
    BY DEF ClusterSizes
  <2>2. W!PayloadSize(bs, begins, b) = W!ElementSize(1, W!UintLength(bs[b].pts)) + total
    BY Zenon DEF W!PayloadSize, BlockSizes
  <2>3. \A i \in W!BlocksOf(bs, begins, b) : BlockSizes(bs)[i] \in Nat
    BY <1>2 DEF W!BlocksOf
  <2>4. total \in Nat
    <3> HIDE DEF begins
    <3> QED
      BY <2>3, TotalsAreNat
  <2>5. b \in 1..Len(bs)
    BY DEF ClusterStarts
  <2>6. W!PayloadSize(bs, begins, b) \in Nat
    <3> HIDE DEF begins, total
    <3> QED
      BY <1>3, <2>2, <2>4, <2>5
  <2> HIDE DEF begins
  <2> QED
    BY <2>1, <2>6 DEF W!ClusterSize, W!ClusterId, W!LargeSize
<1>5. CuesSize(bs, hasVideo) \in Nat
  <2> DEFINE f == [b \in ClusterStarts(bs) |-> W!CueSize(bs[b].pts)]
             R == {b \in ClusterStarts(bs) : W!IsCue(bs, hasVideo, b)}
  <2>1. \A b \in R : f[b] \in Nat
    <3> TAKE b \in R
    <3>1. b \in ClusterStarts(bs) /\ b \in 1..Len(bs)
      BY DEF ClusterStarts
    <3>2. f[b] = W!CueSize(bs[b].pts)
      BY <3>1
    <3>3. W!CueSize(bs[b].pts) \in Nat
      BY <1>1, <3>1, CueSizes
    <3> QED
      BY <3>2, <3>3
  <2>2. CuesSize(bs, hasVideo) = W!TotalOf(f, R)
    BY DEF CuesSize
  <2> HIDE DEF f, R
  <2> QED
    BY <2>1, <2>2, TotalsAreNat
<1>6. FirstCluster(bs, hasVideo) \in Nat
  <2>1. W!ElementSize(4, CuesSize(bs, hasVideo)) \in Nat
    BY <1>5, ElementSizes
  <2> QED
    BY <2>1, HeaderSizes, WriterAssumption DEF FirstCluster
<1> QED
  BY <1>2, <1>3, <1>4, <1>5, <1>6

\* What is written of a file when block n is the next: before its cluster, and in it.
WrittenAt(bs, hasVideo, n) ==
    W!SegmentStart + FirstCluster(bs, hasVideo) + PlannedBefore(bs, n)

ClusterHead(bs, b) == W!ClusterId + W!LargeSize + W!ElementSize(1, W!UintLength(bs[b].pts))

EarlierIn(bs, n) ==
    LET begins == W!ClusterOf(bs, MaxDuration)
    IN  {i \in 1..Len(bs) : begins[i] = begins[n] /\ i < n}

WrittenIn(bs, hasVideo, n) ==
    LET b == W!ClusterOf(bs, MaxDuration)[n]
    IN  WrittenAt(bs, hasVideo, b) + ClusterHead(bs, b) + W!TotalOf(BlockSizes(bs), EarlierIn(bs, n))

\* So is what is written.
LEMMA WrittenAreNat ==
    ASSUME NEW bs \in Seq(Block), NEW hasVideo, NEW n \in Nat
    PROVE  /\ WrittenAt(bs, hasVideo, n) \in Nat
           /\ PlannedBefore(bs, n) \in Nat
           /\ W!TotalOf(BlockSizes(bs), EarlierIn(bs, n)) \in Nat
           /\ n \in 1..Len(bs) => ClusterHead(bs, n) \in Nat
<1>1. PlannedBefore(bs, n) \in Nat
  <2> DEFINE S == {c \in ClusterStarts(bs) : c < n}
  <2>1. \A c \in S : ClusterSizes(bs)[c] \in Nat
    BY PlanSizes
  <2>2. PlannedBefore(bs, n) = W!TotalOf(ClusterSizes(bs), S)
    BY DEF PlannedBefore
  <2> HIDE DEF S
  <2> QED
    BY <2>1, <2>2, TotalsAreNat
<1>2. W!TotalOf(BlockSizes(bs), EarlierIn(bs, n)) \in Nat
  <2>1. \A i \in EarlierIn(bs, n) : BlockSizes(bs)[i] \in Nat
    BY PlanSizes DEF EarlierIn
  <2> QED
    BY <2>1, TotalsAreNat
<1>3. n \in 1..Len(bs) => ClusterHead(bs, n) \in Nat
  BY PlanSizes DEF ClusterHead, W!ClusterId, W!LargeSize
<1>4. WrittenAt(bs, hasVideo, n) \in Nat
  BY <1>1, PlanSizes, HeaderSizes DEF WrittenAt
<1> QED
  BY <1>1, <1>2, <1>3, <1>4

\* After the header nothing of the clusters is written.
LEMMA HeaderIsWritten ==
    ASSUME NEW bs \in Seq(Block), NEW hasVideo
    PROVE  WrittenAt(bs, hasVideo, 1) = W!SegmentStart + FirstCluster(bs, hasVideo)
<1> DEFINE S == {c \in ClusterStarts(bs) : c < 1}
<1>1. S = {}
  BY DEF ClusterStarts
<1>2. PlannedBefore(bs, 1) = W!TotalOf(ClusterSizes(bs), S)
  BY DEF PlannedBefore
<1>3. \A c \in S : ClusterSizes(bs)[c] \in Nat
  BY <1>1
<1> HIDE DEF S
<1>4. PlannedBefore(bs, 1) = 0
  BY <1>1, <1>2, <1>3, TotalOfNone
<1> QED
  BY <1>4, HeaderSizes, PlanSizes DEF WrittenAt

\* A cluster that begins.
LEMMA ClusterIsWritten ==
    ASSUME NEW bs \in Seq(Block), NEW hasVideo, NEW n \in ClusterStarts(bs)
    PROVE  WrittenIn(bs, hasVideo, n) = WrittenAt(bs, hasVideo, n) + ClusterHead(bs, n)
<1> DEFINE begins == W!ClusterOf(bs, MaxDuration)
<1>1. n \in 1..Len(bs) /\ begins[n] = n
  BY DEF ClusterStarts
<1>2. EarlierIn(bs, n) = {}
  <2>1. \A i \in 1..Len(bs) : Clustered(begins, bs, MaxDuration, i)
    BY ClusterIs, WriterAssumption
  <2> HIDE DEF begins
  <2>2. \A i \in 1..Len(bs) : begins[i] \in 1..i
    BY <2>1, Zenon DEF Clustered
  <2>3. \A i \in 1..Len(bs) : ~(begins[i] = n /\ i < n)
    BY <2>2
  <2> QED
    BY <1>1, <2>3 DEF EarlierIn, begins
<1>3. W!TotalOf(BlockSizes(bs), EarlierIn(bs, n)) = 0
  <2>1. \A i \in EarlierIn(bs, n) : BlockSizes(bs)[i] \in Nat
    BY <1>2
  <2> QED
    BY <1>2, <2>1, TotalOfNone
<1>4. WrittenIn(bs, hasVideo, n) = WrittenAt(bs, hasVideo, n) + ClusterHead(bs, n) + 0
  BY <1>1, <1>3 DEF WrittenIn
<1> QED
  BY <1>1, <1>4, WrittenAreNat

\* A block: the next one is in its cluster, or the cluster is written as it was planned.
LEMMA BlockIsWritten ==
    ASSUME NEW bs \in Seq(Block), NEW hasVideo, Len(bs) <= MaxFrames, NEW n \in 1..Len(bs)
    PROVE  LET then == WrittenIn(bs, hasVideo, n) + BlockSizes(bs)[n]
           IN  IF n + 1 > Len(bs) \/ n + 1 \in ClusterStarts(bs)
               THEN then = WrittenAt(bs, hasVideo, n + 1)
               ELSE then = WrittenIn(bs, hasVideo, n + 1)
<1> DEFINE begins == W!ClusterOf(bs, MaxDuration)
           b == begins[n]
           S == EarlierIn(bs, n)
           R == S \cup {n}
           size == BlockSizes(bs)[n]
           before == W!TotalOf(BlockSizes(bs), S)
<1>0. Len(bs) \in Nat /\ n \in 1..MaxFrames /\ MaxFrames \in Nat
  BY WriterAssumption
<1>1. /\ \A i \in 1..Len(bs) : Clustered(begins, bs, MaxDuration, i)
      /\ \A i \in 1..Len(bs) : i \in ClusterStarts(bs) <=> begins[i] = i
      /\ \A i \in ClusterStarts(bs) : i \in 1..Len(bs)
  <2>1. \A i \in 1..Len(bs) : Clustered(begins, bs, MaxDuration, i)
    BY ClusterIs, WriterAssumption
  <2> QED
    BY <2>1 DEF ClusterStarts
<1>2. S = {i \in 1..Len(bs) : begins[i] = b /\ i < n}
  BY DEF EarlierIn
<1>3. /\ \A i \in 1..Len(bs) : BlockSizes(bs)[i] \in Nat
      /\ \A i \in ClusterStarts(bs) : ClusterSizes(bs)[i] \in Nat
  BY PlanSizes
<1> HIDE DEF begins, S
<1>4. /\ \A i \in 1..Len(bs) : begins[i] \in 1..i /\ begins[begins[i]] = begins[i]
      /\ \A i \in 1..Len(bs) : begins[i] = i \/ (i > 1 /\ begins[i] = begins[i - 1])
      /\ \A i \in 1..Len(bs) : \A c \in 1..i : begins[c] = c => c <= begins[i]
  BY <1>1, Zenon DEF Clustered
<1>5. b \in 1..Len(bs) /\ b <= n /\ b \in ClusterStarts(bs)
  BY <1>0, <1>1, <1>4
<1>6. W!TotalOf(BlockSizes(bs), R) = before + size
  <2>1. \A i \in S : i \in Nat /\ i < n /\ BlockSizes(bs)[i] \in Nat
    BY <1>2, <1>3
  <2> QED
    BY <1>0, <1>3, <2>1, TotalWithLast
<1>7. /\ WrittenAt(bs, hasVideo, b) \in Nat /\ ClusterHead(bs, b) \in Nat /\ before \in Nat
      /\ size \in Nat /\ PlannedBefore(bs, b) \in Nat
  <2>1. b \in Nat /\ n \in Nat
    BY <1>0, <1>5
  <2>2. before \in Nat
    BY <2>1, WrittenAreNat DEF S
  <2> HIDE DEF b, before
  <2> QED
    BY <1>3, <1>5, <2>1, <2>2, WrittenAreNat
<1>8. WrittenIn(bs, hasVideo, n) = WrittenAt(bs, hasVideo, b) + ClusterHead(bs, b) + before
  BY DEF WrittenIn, S, begins
<1> DEFINE then == WrittenIn(bs, hasVideo, n) + size
<1> HIDE DEF R, before, size, b
<1>9. then = WrittenAt(bs, hasVideo, b) + ClusterHead(bs, b) + W!TotalOf(BlockSizes(bs), R)
  BY <1>6, <1>7, <1>8
<1> HIDE DEF then
<1>10. CASE n + 1 <= Len(bs) /\ n + 1 \notin ClusterStarts(bs)
  <2>1. n + 1 \in 1..Len(bs) /\ begins[n + 1] = b
    <3>1. n + 1 \in 1..Len(bs) /\ n + 1 - 1 = n
      BY <1>0, <1>10
    <3>2. begins[n + 1] # n + 1
      BY <1>1, <1>10, <3>1
    <3>3. begins[n + 1] = begins[n]
      BY <1>4, <3>1, <3>2
    <3> QED
      BY <3>1, <3>3 DEF b
  <2>2. EarlierIn(bs, n + 1) = {i \in 1..Len(bs) : begins[i] = b /\ i < n + 1}
    BY <2>1 DEF EarlierIn, begins
  <2>3. EarlierIn(bs, n + 1) = R
    BY <1>0, <1>2, <2>2 DEF R, b
  <2>4. WrittenIn(bs, hasVideo, n + 1)
          = WrittenAt(bs, hasVideo, b) + ClusterHead(bs, b) + W!TotalOf(BlockSizes(bs), R)
    BY <2>1, <2>3 DEF WrittenIn, begins
  <2> QED
    BY <1>0, <1>9, <1>10, <2>4 DEF then, size
<1>11. CASE n + 1 > Len(bs) \/ n + 1 \in ClusterStarts(bs)
  <2>1. \A i \in 1..Len(bs) : i > n => begins[i] # b
    <3> TAKE i \in 1..Len(bs)
    <3> HAVE i > n
    <3>1. n + 1 \in ClusterStarts(bs) /\ n + 1 \in 1..i
      BY <1>0, <1>11
    <3>2. begins[n + 1] = n + 1
      BY <1>1, <3>1
    <3>3. n + 1 <= begins[i]
      BY <1>4, <3>1, <3>2
    <3> QED
      BY <1>0, <1>4, <1>5, <3>3
  <2>2. W!BlocksOf(bs, begins, b) = R
    <3>1. \A i \in 1..Len(bs) : begins[i] = b <=> i \in R
      <4> TAKE i \in 1..Len(bs)
      <4>1. begins[n] = b
        BY DEF b
      <4>2. i \in R <=> (i = n \/ (begins[i] = b /\ i < n))
        BY <1>2 DEF R, b
      <4>3. i < n \/ i = n \/ i > n
        BY <1>0
      <4> QED
        BY <2>1, <4>1, <4>2, <4>3
    <3>2. \A i \in R : i \in 1..Len(bs)
      BY <1>2 DEF R
    <3> QED
      BY <3>1, <3>2 DEF W!BlocksOf
  <2>3. ClusterSizes(bs)[b] = ClusterHead(bs, b) + W!TotalOf(BlockSizes(bs), R)
    <3>1. ClusterSizes(bs)[b] = W!ClusterSize(W!PayloadSize(bs, begins, b))
      BY <1>5 DEF ClusterSizes, begins
    <3>2. W!PayloadSize(bs, begins, b) = W!ElementSize(1, W!UintLength(bs[b].pts)) + W!TotalOf(BlockSizes(bs), R)
      BY <2>2, Zenon DEF W!PayloadSize, BlockSizes
    <3>3. W!ElementSize(1, W!UintLength(bs[b].pts)) \in Nat /\ W!TotalOf(BlockSizes(bs), R) \in Nat
      BY <1>5, <1>6, <1>7, PlanSizes
    <3> QED
      BY <3>1, <3>2, <3>3 DEF W!ClusterSize, ClusterHead, W!ClusterId, W!LargeSize
  <2>4. PlannedBefore(bs, n + 1) = PlannedBefore(bs, b) + ClusterSizes(bs)[b]
    <3> DEFINE Earlier == {c \in ClusterStarts(bs) : c < b}
    <3>1. {c \in ClusterStarts(bs) : c < n + 1} = Earlier \cup {b}
      <4>1. \A c \in ClusterStarts(bs) : c < n + 1 <=> c < b \/ c = b
        <5> TAKE c \in ClusterStarts(bs)
        <5>1. c \in 1..Len(bs) /\ begins[c] = c
          BY <1>1
        <5>2. c <= n => c <= b
          BY <1>0, <1>4, <5>1 DEF b
        <5> QED
          BY <1>0, <1>5, <5>1, <5>2
      <4> QED
        BY <1>5, <4>1
    <3>2. \A c \in Earlier : c \in Nat /\ c < b /\ ClusterSizes(bs)[c] \in Nat
      BY <1>1, <1>3
    <3>3. b \in 1..MaxFrames /\ ClusterSizes(bs)[b] \in Nat
      BY <1>0, <1>3, <1>5
    <3>4. PlannedBefore(bs, b) = W!TotalOf(ClusterSizes(bs), Earlier)
      BY DEF PlannedBefore
    <3>5. PlannedBefore(bs, n + 1) = W!TotalOf(ClusterSizes(bs), Earlier \cup {b})
      BY <3>1 DEF PlannedBefore
    <3> HIDE DEF Earlier
    <3> QED
      BY <3>2, <3>3, <3>4, <3>5, TotalWithLast
  <2>5. then = WrittenAt(bs, hasVideo, n + 1)
    <3>1. /\ W!SegmentStart \in Nat /\ FirstCluster(bs, hasVideo) \in Nat
          /\ W!TotalOf(BlockSizes(bs), R) \in Nat
      BY <1>6, <1>7, HeaderSizes, PlanSizes
    <3>2. /\ WrittenAt(bs, hasVideo, n + 1)
               = W!SegmentStart + FirstCluster(bs, hasVideo) + PlannedBefore(bs, n + 1)
          /\ WrittenAt(bs, hasVideo, b)
               = W!SegmentStart + FirstCluster(bs, hasVideo) + PlannedBefore(bs, b)
      BY Zenon DEF WrittenAt
    <3> QED
      BY <1>7, <1>9, <2>3, <2>4, <3>1, <3>2
  <2> QED
    BY <1>11, <2>5 DEF then, size
<1> QED
  BY <1>0, <1>10, <1>11

GivenVideo == \E i \in 1..Len(given) : given[i].video

\* The writer: what is written is what is planned of the frames that are given.
Writing ==
    /\ W!TypeOK
    /\ phase = "adding" => blocks = <<>> /\ offsets = <<>>
    /\ phase # "adding" => /\ W!Plannable(given)
                           /\ blocks = Interleave(given)
                           /\ clusters = W!PlanOf(blocks, GivenVideo).clusters
                           /\ segment = W!PlanOf(blocks, GivenVideo).segment
    /\ phase \in {"adding", "planned"} => next = 1
    /\ phase = "clusters" => /\ next <= Len(blocks) => next \in ClusterStarts(blocks)
                             /\ written = WrittenAt(blocks, GivenVideo, next)
    /\ phase = "blocks" => /\ next <= Len(blocks)
                           /\ written = WrittenIn(blocks, GivenVideo, next)
    /\ phase = "done" => written = W!SegmentStart + segment
    /\ W!FramesReadBack

\* The frames of the writer are put in order as those of the recorder.
LEMMA SameTracks ==
    ASSUME NEW fs
    PROVE  W!Video(fs) = Video(fs) /\ W!Audio(fs) = Audio(fs) /\ W!Interleave(fs) = Interleave(fs)
<1>1. \A s, S : W!Chosen(s, S) = Chosen(s, S)
  BY Zenon DEF W!Chosen, Chosen
<1>2. \A s : W!Video(s) = Video(s) /\ W!Audio(s) = Audio(s)
  BY <1>1, Zenon DEF W!Video, Video, W!Audio, Audio
<1>3. \A a, start : W!AudioFrom(a, start) = AudioFrom(a, start)
  BY Zenon DEF W!AudioFrom, AudioFrom, W!SmallestOf, SmallestOf
<1>4. \A v, a : W!Merge(v, a) = Merge(v, a)
  BY ZenonT(40) DEF W!Merge, Merge, W!NextBlock, NextBlock
<1>5. \A s : W!Interleave(s) = Interleave(s)
  BY <1>2, <1>3, <1>4, Zenon DEF W!Interleave, Interleave
<1> QED
  BY <1>2, <1>5

\* The frames that are given are blocks.
LEMMA FramesAreBlocks == ASSUME NEW s \in Seq(MCFrames) PROVE s \in Seq(Block)
<1>1. MCFrames \subseteq Block
  BY WriterAssumption DEF MCFrames, Block
<1>2. s \in [1..Len(s) -> Block] /\ Len(s) \in Nat
  BY <1>1
<1> QED
  BY <1>2, SeqDef

\* A file has no more blocks than it is given frames.
LEMMA BlocksAreGiven ==
    ASSUME NEW s \in Seq(MCFrames), Len(s) <= MaxFrames
    PROVE  Interleave(s) \in Seq(Block) /\ Len(Interleave(s)) <= MaxFrames
<1>1. s \in Seq(Block)
  BY FramesAreBlocks
<1>2. Interleave(s) \in Seq(Block)
  BY <1>1, BlocksTimed, InterleaveIs
<1>3. PICK d, a : Interleaved(Interleave(s), s, d, a)
  BY <1>1, BlocksTimed, InterleaveParts
<1>4. Len(Interleave(s)) <= Len(s)
  BY <1>3, Zenon DEF Interleaved
<1>5. Len(Interleave(s)) \in Nat /\ Len(s) \in Nat
  BY <1>2
<1> QED
  BY <1>2, <1>4, <1>5, WriterAssumption

\* newMuxer: nothing is written yet.
LEMMA PlanKeepsWriting == ASSUME Writing, W!Plan PROVE Writing'
<1> DEFINE bs == Interleave(given)
           hasVideo == GivenVideo
           plan == W!PlanOf(bs, hasVideo)
<1>1. /\ phase = "adding" /\ W!Plannable(given) /\ blocks' = bs
      /\ clusters' = plan.clusters /\ segment' = plan.segment /\ phase' = "planned"
      /\ UNCHANGED <<given, next, written, offsets>>
  BY SameTracks DEF W!Plan, GivenVideo
<1>2. bs \in Seq(Block) /\ Len(bs) \in Nat
  <2>1. given \in Seq(MCFrames) /\ Len(given) <= MaxFrames
    BY DEF Writing, W!TypeOK
  <2> QED
    BY <2>1, BlocksAreGiven
<1>3. offsets = <<>> /\ next = 1
  BY <1>1 DEF Writing
<1>4. /\ plan.clusters = [b \in ClusterStarts(bs) |->
             [position |-> FirstCluster(bs, hasVideo) + PlannedBefore(bs, b),
              payload  |-> W!PayloadSize(bs, W!ClusterOf(bs, MaxDuration), b),
              cue      |-> W!IsCue(bs, hasVideo, b)]]
      /\ plan.segment = FirstCluster(bs, hasVideo) + W!TotalOf(ClusterSizes(bs), ClusterStarts(bs))
  <2> HIDE DEF bs, hasVideo
  <2> QED
    BY PlanIs
<1> HIDE DEF bs, plan
<1>5. DOMAIN plan.clusters \subseteq 1..Len(bs)
  BY <1>4 DEF ClusterStarts
<1>6. plan.segment \in Nat
  <2>1. W!TotalOf(ClusterSizes(bs), ClusterStarts(bs)) \in Nat
    BY <1>2, PlanSizes, TotalsAreNat
  <2> QED
    BY <1>2, <1>4, <2>1, PlanSizes
<1>7. W!TypeOK'
  <2>1. W!TypeOK
    BY DEF Writing
  <2> QED
    BY <1>1, <1>2, <1>3, <1>5, <1>6, <2>1 DEF W!TypeOK, Block
<1>8. GivenVideo' = GivenVideo /\ W!FramesReadBack'
  BY <1>1, <1>3 DEF GivenVideo, W!FramesReadBack
<1>9. W!Plannable(given')
  BY <1>1
<1> QED
  BY <1>1, <1>3, <1>7, <1>8, <1>9 DEF Writing, bs, plan

\* What is planned and does not change while the file is written.
Unchanging == /\ UNCHANGED <<given, blocks, clusters, segment>>
              /\ phase # "adding" /\ phase' # "adding"

\* The plan is that of the frames, whatever is written.
LEMMA PlanIsKept ==
    ASSUME Writing, Unchanging
    PROVE  /\ GivenVideo' = GivenVideo
           /\ W!Plannable(given') /\ blocks' = Interleave(given')
           /\ clusters' = W!PlanOf(blocks', GivenVideo').clusters
           /\ segment' = W!PlanOf(blocks', GivenVideo').segment
<1>1. given' = given /\ GivenVideo' = GivenVideo
  BY DEF Unchanging, GivenVideo
<1> QED
  BY <1>1 DEF Writing, Unchanging

\* The blocks of a planned file, where its clusters begin and how many bytes they are.
LEMMA PlannedFile ==
    ASSUME Writing, phase # "adding"
    PROVE  /\ blocks \in Seq(Block) /\ Len(blocks) \in Nat /\ Len(blocks) <= MaxFrames
           /\ DOMAIN clusters = ClusterStarts(blocks)
           /\ \A b \in ClusterStarts(blocks) :
                 /\ W!SegmentStart + clusters[b].position = WrittenAt(blocks, GivenVideo, b)
                 /\ clusters[b].cue = W!IsCue(blocks, GivenVideo, b)
           /\ W!SegmentStart + segment = WrittenAt(blocks, GivenVideo, Len(blocks) + 1)
           /\ Len(blocks) >= 1 => 1 \in ClusterStarts(blocks)
<1> DEFINE S == ClusterStarts(blocks)
           hasVideo == GivenVideo
<1>1. /\ blocks \in Seq(Block) /\ Len(blocks) \in Nat /\ Len(blocks) <= MaxFrames
  <2>1. given \in Seq(MCFrames) /\ Len(given) <= MaxFrames /\ blocks = Interleave(given)
    BY DEF Writing, W!TypeOK
  <2> QED
    BY <2>1, BlocksAreGiven
<1>2. /\ clusters = [b \in S |->
             [position |-> FirstCluster(blocks, hasVideo) + PlannedBefore(blocks, b),
              payload  |-> W!PayloadSize(blocks, W!ClusterOf(blocks, MaxDuration), b),
              cue      |-> W!IsCue(blocks, hasVideo, b)]]
      /\ segment = FirstCluster(blocks, hasVideo) + W!TotalOf(ClusterSizes(blocks), S)
  <2>1. /\ clusters = W!PlanOf(blocks, hasVideo).clusters
        /\ segment = W!PlanOf(blocks, hasVideo).segment
    BY DEF Writing
  <2> HIDE DEF hasVideo
  <2> QED
    BY <2>1, PlanIs
<1> HIDE DEF hasVideo
<1>3. /\ W!SegmentStart \in Nat /\ FirstCluster(blocks, hasVideo) \in Nat
      /\ W!TotalOf(ClusterSizes(blocks), S) \in Nat
      /\ \A b \in S : PlannedBefore(blocks, b) \in Nat /\ b \in 1..Len(blocks)
  <2>1. \A b \in S : b \in 1..Len(blocks) /\ b \in Nat
    BY <1>1 DEF ClusterStarts
  <2>2. W!TotalOf(ClusterSizes(blocks), S) \in Nat
    BY <1>1, PlanSizes, TotalsAreNat
  <2> HIDE DEF S
  <2> QED
    BY <1>1, <2>1, <2>2, HeaderSizes, PlanSizes, WrittenAreNat
<1>4. \A b \in S : /\ W!SegmentStart + clusters[b].position = WrittenAt(blocks, hasVideo, b)
                   /\ clusters[b].cue = W!IsCue(blocks, hasVideo, b)
  <2> TAKE b \in S
  <2>1. /\ clusters[b].position = FirstCluster(blocks, hasVideo) + PlannedBefore(blocks, b)
        /\ clusters[b].cue = W!IsCue(blocks, hasVideo, b)
    BY <1>2
  <2> QED
    BY <1>3, <2>1 DEF WrittenAt
<1>5. W!SegmentStart + segment = WrittenAt(blocks, hasVideo, Len(blocks) + 1)
  <2>1. {c \in S : c < Len(blocks) + 1} = S
    BY <1>1, <1>3
  <2>2. PlannedBefore(blocks, Len(blocks) + 1) = W!TotalOf(ClusterSizes(blocks), S)
    BY <2>1 DEF PlannedBefore
  <2> QED
    BY <1>2, <1>3, <2>2 DEF WrittenAt
<1>6. Len(blocks) >= 1 => 1 \in S
  <2> HAVE Len(blocks) >= 1
  <2>1. 1 \in 1..Len(blocks)
    BY <1>1
  <2>2. Clustered(W!ClusterOf(blocks, MaxDuration), blocks, MaxDuration, 1)
    BY <1>1, <2>1, ClusterIs, WriterAssumption
  <2> QED
    BY <2>1, <2>2 DEF Clustered, ClusterStarts
<1>7. DOMAIN clusters = S
  BY <1>2
<1> QED
  BY <1>1, <1>4, <1>5, <1>6, <1>7 DEF hasVideo

\* Each step of WriteTo writes what was planned for it.
LEMMA StepsKeepWriting == ASSUME Writing, [W!Next]_W!vars PROVE Writing'
<1>1. CASE UNCHANGED W!vars
  <2>1. /\ W!TypeOK' /\ GivenVideo' = GivenVideo /\ W!FramesReadBack'
        /\ W!Plannable(given') = W!Plannable(given)
    BY <1>1 DEF Writing, W!TypeOK, W!vars, GivenVideo, W!FramesReadBack
  <2> QED
    BY <1>1, <2>1 DEF Writing, W!vars
<1>2. CASE W!AddFrame
  <2>1. PICK f \in MCFrames : given' = Append(given, f)
    BY <1>2 DEF W!AddFrame
  <2>2. /\ phase = "adding" /\ Len(given) < MaxFrames /\ phase' = "adding"
        /\ UNCHANGED <<blocks, clusters, segment, next, written, offsets>>
    BY <1>2 DEF W!AddFrame
  <2>3. W!TypeOK'
    <3>1. given' \in Seq(MCFrames) /\ Len(given') <= MaxFrames
      BY <2>1, <2>2, WriterAssumption DEF Writing, W!TypeOK
    <3> QED
      BY <2>2, <3>1 DEF Writing, W!TypeOK
  <2>4. W!FramesReadBack'
    BY <2>2 DEF Writing, W!FramesReadBack
  <2> QED
    BY <2>2, <2>3, <2>4 DEF Writing
<1>3. CASE W!Plan
  BY <1>3, PlanKeepsWriting
<1>4. CASE W!WriteHeader
  <2>1. /\ phase = "planned" /\ written' = W!HeaderSize /\ phase' = "clusters"
        /\ UNCHANGED <<given, blocks, clusters, segment, next, offsets>>
    BY <1>4 DEF W!WriteHeader
  <2>2. W!HeaderSize = WrittenAt(blocks, GivenVideo, 1) /\ W!HeaderSize \in Nat
    <3> DEFINE hasVideo == GivenVideo
    <3>1. /\ blocks \in Seq(Block) /\ DOMAIN clusters = ClusterStarts(blocks)
          /\ \A b \in ClusterStarts(blocks) : clusters[b].cue = W!IsCue(blocks, hasVideo, b)
      BY <2>1, PlannedFile
    <3> HIDE DEF hasVideo
    <3>2. W!Cues = {b \in ClusterStarts(blocks) : W!IsCue(blocks, hasVideo, b)}
      BY <3>1 DEF W!Cues
    <3>3. W!HeaderSize = W!SegmentStart + W!SeekHeadSize + InfoSize + TracksSize
                       + W!ElementSize(4, CuesSize(blocks, hasVideo))
      BY <3>1, <3>2, Zenon DEF W!HeaderSize, CuesSize
    <3>4. W!ElementSize(4, CuesSize(blocks, hasVideo)) \in Nat
      BY <3>1, ElementSizes, PlanSizes
    <3>5. W!HeaderSize = W!SegmentStart + FirstCluster(blocks, hasVideo) /\ W!HeaderSize \in Nat
      BY <3>3, <3>4, HeaderSizes, WriterAssumption DEF FirstCluster
    <3>6. WrittenAt(blocks, hasVideo, 1) = W!SegmentStart + FirstCluster(blocks, hasVideo)
      BY <3>1, HeaderIsWritten
    <3> QED
      BY <3>5, <3>6 DEF hasVideo
  <2>3. next = 1 /\ offsets = <<>>
    <3>1. next = 1 /\ Len(offsets) = 0 /\ offsets \in Seq(Nat)
      BY <2>1 DEF Writing, W!TypeOK
    <3> QED
      BY <3>1
  <2>4. W!TypeOK'
    BY <2>1, <2>2 DEF Writing, W!TypeOK
  <2>5. W!FramesReadBack'
    BY <2>1, <2>3 DEF W!FramesReadBack
  <2>6. Len(blocks) >= 1 => 1 \in ClusterStarts(blocks)
    BY <2>1, PlannedFile
  <2>7. Unchanging
    BY <2>1 DEF Unchanging
  <2> QED
    BY <2>1, <2>2, <2>3, <2>4, <2>5, <2>6, <2>7, PlanIsKept DEF Writing
<1>5. CASE W!WriteCluster
  <2>1. /\ phase = "clusters" /\ next <= Len(blocks) /\ phase' = "blocks"
        /\ written' = written + W!ClusterId + W!LargeSize + W!ElementSize(1, W!UintLength(blocks[next].pts))
        /\ UNCHANGED <<given, blocks, clusters, segment, next, offsets>>
    BY <1>5 DEF W!WriteCluster
  <2>2. /\ blocks \in Seq(Block) /\ next \in 1..Len(blocks) /\ next \in ClusterStarts(blocks)
        /\ written = WrittenAt(blocks, GivenVideo, next) /\ written \in Nat
        /\ W!ElementSize(1, W!UintLength(blocks[next].pts)) \in Nat
    <3>1. blocks \in Seq(Block)
      BY <2>1, PlannedFile
    <3>2. next \in 1..Len(blocks) /\ written \in Nat
      BY <2>1, <3>1 DEF Writing, W!TypeOK
    <3>3. W!ElementSize(1, W!UintLength(blocks[next].pts)) \in Nat
      BY <3>1, <3>2, PlanSizes
    <3> QED
      BY <2>1, <3>1, <3>2, <3>3 DEF Writing
  <2>3. written' = written + ClusterHead(blocks, next)
    BY <2>1, <2>2 DEF ClusterHead, W!ClusterId, W!LargeSize
  <2>4. written' = WrittenIn(blocks, GivenVideo, next)
    <3> DEFINE hasVideo == GivenVideo
    <3>1. written' = WrittenAt(blocks, hasVideo, next) + ClusterHead(blocks, next)
      BY <2>2, <2>3
    <3> HIDE DEF hasVideo
    <3> QED
      BY <2>2, <3>1, ClusterIsWritten DEF hasVideo
  <2>5. written' \in Nat /\ written' >= written
    BY <2>1, <2>2 DEF W!ClusterId, W!LargeSize
  <2>6. W!TypeOK'
    BY <2>1, <2>5 DEF Writing, W!TypeOK
  <2>7. W!FramesReadBack'
    <3>1. ASSUME NEW i \in 1..Len(offsets)
          PROVE  offsets[i] + blocks[i].size
                   <= (IF i < Len(offsets) THEN offsets[i + 1] - W!BlockHeader ELSE written')
      <4>1. offsets \in Seq(Nat) /\ Len(offsets) = next - 1
        BY DEF Writing, W!TypeOK
      <4>2. i \in 1..Len(blocks) /\ offsets[i] \in Nat
        BY <2>2, <4>1
      <4>3. blocks[i].size \in Nat
        <5>1. blocks[i] \in Block
          BY <2>2, <4>2
        <5> QED
          BY <5>1 DEF Block
      <4>4. offsets[i] + blocks[i].size
              <= (IF i < Len(offsets) THEN offsets[i + 1] - W!BlockHeader ELSE written)
        BY DEF Writing, W!FramesReadBack
      <4> QED
        BY <2>2, <2>5, <4>2, <4>3, <4>4
    <3> QED
      BY <2>1, <3>1 DEF W!FramesReadBack
  <2>8. Unchanging
    BY <2>1 DEF Unchanging
  <2> QED
    BY <2>1, <2>4, <2>6, <2>7, <2>8, PlanIsKept DEF Writing
<1>6. CASE W!WriteBlock
  <2> DEFINE size == blocks[next].size
             header == 1 + W!SizeLength(W!BlockHeader + size) + W!BlockHeader
  <2>1. /\ phase = "blocks" /\ next <= Len(blocks)
        /\ offsets' = Append(offsets, written + header)
        /\ written' = written + header + size
        /\ next' = next + 1
        /\ phase' = IF next + 1 > Len(blocks) \/ next + 1 \in DOMAIN clusters
                    THEN "clusters" ELSE "blocks"
        /\ UNCHANGED <<given, blocks, clusters, segment>>
    BY <1>6 DEF W!WriteBlock
  <2>2. /\ blocks \in Seq(Block) /\ Len(blocks) \in Nat /\ Len(blocks) <= MaxFrames
        /\ DOMAIN clusters = ClusterStarts(blocks)
    BY <2>1, PlannedFile
  <2>3. /\ next \in 1..Len(blocks) /\ written \in Nat
        /\ written = WrittenIn(blocks, GivenVideo, next)
        /\ offsets \in Seq(Nat) /\ Len(offsets) = next - 1
    BY <2>1, <2>2 DEF Writing, W!TypeOK
  <2>4. size \in Nat
    <3>1. blocks[next] \in Block
      BY <2>2, <2>3
    <3> QED
      BY <3>1 DEF Block
  <2>5. /\ header \in Nat /\ BlockSizes(blocks)[next] = header + size
        /\ header >= W!BlockHeader
    <3> DEFINE l == W!SizeLength(W!BlockHeader + size)
    <3>1. BlockSizes(blocks)[next] = W!ElementSize(1, W!BlockHeader + size)
      BY <2>3 DEF BlockSizes
    <3>2. W!BlockHeader + size \in Nat /\ W!BlockHeader \in Nat
      BY <2>4 DEF W!BlockHeader
    <3>3. l \in Nat
      BY <3>2, LengthsAreNat
    <3>4. W!ElementSize(1, W!BlockHeader + size) = 1 + l + (W!BlockHeader + size)
      BY <3>2, ElementSizes
    <3>5. header = 1 + l + W!BlockHeader
      OBVIOUS
    <3> HIDE DEF l, size, header
    <3> QED
      BY <2>4, <3>1, <3>2, <3>3, <3>4, <3>5
  <2> HIDE DEF size, header
  <2>6. written' = written + BlockSizes(blocks)[next] /\ written' \in Nat
    BY <2>1, <2>3, <2>4, <2>5
  <2>7. W!TypeOK'
    <3>1. offsets' \in Seq(Nat) /\ Len(offsets') = next' - 1 /\ next' \in 1..Len(blocks) + 1
      <4>1. written + header \in Nat
        BY <2>3, <2>5
      <4> QED
        BY <2>1, <2>2, <2>3, <4>1
    <3>2. phase' \in {"clusters", "blocks"}
      BY <2>1
    <3> QED
      BY <2>1, <2>6, <3>1, <3>2 DEF Writing, W!TypeOK
  <2>8. W!FramesReadBack'
    <3>1. /\ Len(offsets') = next /\ offsets'[next] = written + header
          /\ \A i \in 1..next - 1 : offsets'[i] = offsets[i]
      <4>1. written + header \in Nat
        BY <2>3, <2>5
      <4> QED
        BY <2>1, <2>3, <4>1
    <3>2. ASSUME NEW i \in 1..next
          PROVE  offsets'[i] + blocks'[i].size
                   <= (IF i < next THEN offsets'[i + 1] - W!BlockHeader ELSE written')
      <4>1. CASE i = next
        <5>1. offsets'[i] + blocks'[i].size = written + header + size
          BY <2>1, <3>1, <4>1 DEF size
        <5> QED
          BY <2>1, <2>3, <2>4, <2>5, <4>1, <5>1
      <4>2. CASE i # next
        <5>1. i \in 1..next - 1 /\ i \in 1..Len(offsets) /\ i \in 1..Len(blocks) /\ next \in Nat
          BY <2>2, <2>3, <4>2
        <5>2. offsets[i] + blocks[i].size
                <= (IF i < Len(offsets) THEN offsets[i + 1] - W!BlockHeader ELSE written)
          BY <5>1 DEF Writing, W!FramesReadBack
        <5>3. blocks[i].size \in Nat /\ offsets[i] \in Nat
          <6>1. blocks[i] \in Block
            BY <2>2, <5>1
          <6>2. offsets[i] \in Nat
            BY <2>3, <5>1
          <6> QED
            BY <6>1, <6>2 DEF Block
        <5>4. CASE i < next - 1
          <6>1. i + 1 \in 1..next - 1 /\ i < Len(offsets)
            BY <2>3, <5>1, <5>4
          <6> QED
            BY <2>1, <2>3, <3>1, <5>1, <5>2, <6>1
        <5>5. CASE i = next - 1
          <6>1. i + 1 = next /\ ~(i < Len(offsets)) /\ i < next
            BY <2>3, <5>1, <5>5
          <6>2. offsets[i] + blocks[i].size <= written
            BY <5>2, <6>1
          <6>3. written <= written + header - W!BlockHeader
            BY <2>3, <2>5 DEF W!BlockHeader
          <6>4. offsets'[i + 1] = written + header /\ offsets'[i] = offsets[i] /\ blocks' = blocks
            BY <2>1, <3>1, <5>1, <6>1
          <6>5. offsets'[i] + blocks'[i].size <= written + header - W!BlockHeader
            <7>1. offsets'[i] + blocks'[i].size = offsets[i] + blocks[i].size
              BY <6>4
            <7>2. W!BlockHeader \in Nat /\ written \in Nat
              BY <2>3 DEF W!BlockHeader
            <7> QED
              BY <2>5, <5>3, <6>2, <6>3, <7>1, <7>2
          <6> QED
            BY <2>3, <2>5, <6>1, <6>4, <6>5 DEF W!BlockHeader
        <5> QED
          BY <5>1, <5>4, <5>5
      <4> QED
        BY <4>1, <4>2
    <3> QED
      BY <3>1, <3>2 DEF W!FramesReadBack
  <2>9. /\ phase' = "clusters" => /\ next' <= Len(blocks) => next' \in ClusterStarts(blocks)
                                  /\ written' = WrittenAt(blocks, GivenVideo, next')
        /\ phase' = "blocks" => /\ next' <= Len(blocks)
                                /\ written' = WrittenIn(blocks, GivenVideo, next')
    <3> DEFINE hasVideo == GivenVideo
               then == WrittenIn(blocks, hasVideo, next) + BlockSizes(blocks)[next]
    <3>1. written' = then
      BY <2>3, <2>6
    <3> HIDE DEF hasVideo
    <3>2. IF next + 1 > Len(blocks) \/ next + 1 \in ClusterStarts(blocks)
          THEN then = WrittenAt(blocks, hasVideo, next + 1)
          ELSE then = WrittenIn(blocks, hasVideo, next + 1)
      BY <2>2, <2>3, BlockIsWritten
    <3> HIDE DEF then
    <3> QED
      BY <2>1, <2>2, <2>3, <3>1, <3>2 DEF hasVideo
  <2>10. Unchanging
    BY <2>1 DEF Unchanging
  <2> QED
    BY <2>1, <2>7, <2>8, <2>9, <2>10, PlanIsKept DEF Writing
<1>7. CASE W!Fail
  <2>1. /\ phase \in {"planned", "clusters", "blocks"} /\ phase' = "failed"
        /\ UNCHANGED <<given, blocks, clusters, segment, next, written, offsets>>
    BY <1>7 DEF W!Fail
  <2>2. Unchanging
    BY <2>1 DEF Unchanging
  <2>3. W!TypeOK' /\ W!FramesReadBack'
    BY <2>1 DEF Writing, W!TypeOK, W!FramesReadBack
  <2> QED
    BY <2>1, <2>2, <2>3, PlanIsKept DEF Writing
<1>8. CASE W!Flush
  <2>1. /\ phase = "clusters" /\ next > Len(blocks) /\ phase' = "done"
        /\ UNCHANGED <<given, blocks, clusters, segment, next, written, offsets>>
    BY <1>8 DEF W!Flush
  <2>2. Unchanging
    BY <2>1 DEF Unchanging
  <2>3. W!TypeOK' /\ W!FramesReadBack'
    BY <2>1 DEF Writing, W!TypeOK, W!FramesReadBack
  <2>4. written' = W!SegmentStart + segment'
    <3>1. W!SegmentStart + segment = WrittenAt(blocks, GivenVideo, Len(blocks) + 1) /\ Len(blocks) \in Nat
      BY <2>1, PlannedFile
    <3>2. next = Len(blocks) + 1
      BY <2>1, <3>1 DEF Writing, W!TypeOK
    <3>3. written = WrittenAt(blocks, GivenVideo, next)
      BY <2>1 DEF Writing
    <3> QED
      BY <2>1, <3>1, <3>2, <3>3
  <2> QED
    BY <2>1, <2>2, <2>3, <2>4, PlanIsKept DEF Writing
<1> QED
  BY <1>1, <1>2, <1>3, <1>4, <1>5, <1>6, <1>7, <1>8 DEF W!Next

\* What is written is what is planned, at every step.
THEOREM WritingInvariant == W!Spec => []Writing
<1>1. W!Init => Writing
  <2> SUFFICES ASSUME W!Init PROVE Writing
    OBVIOUS
  <2>1. W!TypeOK
    <3>1. /\ given = <<>> /\ phase = "adding" /\ blocks = <<>> /\ clusters = <<>>
          /\ segment = 0 /\ next = 1 /\ written = 0 /\ offsets = <<>>
      BY DEF W!Init
    <3>2. DOMAIN clusters \subseteq 1..Len(blocks) /\ next \in 1..Len(blocks) + 1
      BY <3>1
    <3> QED
      BY <3>1, <3>2, WriterAssumption DEF W!TypeOK
  <2>2. W!FramesReadBack
    BY DEF W!Init, W!FramesReadBack
  <2> QED
    BY <2>1, <2>2 DEF W!Init, Writing
<1>2. Writing /\ [W!Next]_W!vars => Writing'
  BY StepsKeepWriting
<1> QED
  BY <1>1, <1>2, PTL DEF W!Spec

\* Cues point at the keyframes of the video, if there is one.
LEMMA CuesPoint == ASSUME Writing PROVE W!CuesAtKeyframes
<1>1. CASE phase = "adding"
  <2>1. ~\E i \in 1..Len(blocks) : blocks[i].video
    BY <1>1 DEF Writing
  <2> QED
    BY <2>1 DEF W!CuesAtKeyframes
<1>2. CASE phase # "adding"
  <2> SUFFICES ASSUME NEW i \in 1..Len(blocks), blocks[i].video
               PROVE  /\ W!IsVideoKeyframe(blocks[1])
                      /\ W!Cues = {j \in 1..Len(blocks) : W!IsVideoKeyframe(blocks[j])}
    BY DEF W!CuesAtKeyframes
  <2>1. /\ blocks \in Seq(Block) /\ DOMAIN clusters = ClusterStarts(blocks)
        /\ \A b \in ClusterStarts(blocks) : clusters[b].cue = W!IsCue(blocks, GivenVideo, b)
        /\ given \in Seq(Block) /\ blocks = Interleave(given) /\ W!Plannable(given)
    <3>1. given \in Seq(MCFrames) /\ blocks = Interleave(given) /\ W!Plannable(given)
      BY <1>2 DEF Writing, W!TypeOK
    <3> QED
      BY <1>2, <3>1, PlannedFile, FramesAreBlocks
  <2>2. PICK d, a : Interleaved(blocks, given, d, a)
    BY <2>1, BlocksTimed, InterleaveParts
  <2> DEFINE v == Video(given)
             VS == {j \in 1..Len(given) : given[j].video}
  <2>3. /\ d \in Int /\ Video(blocks) = Shift(v, d)
        /\ v # <<>> => blocks[1].video = v[1].video /\ blocks[1].keyframe = v[1].keyframe
    BY <2>2, Zenon DEF Interleaved
  <2>4. v \in Seq(Block) /\ \A j \in 1..Len(v) : \E k \in 1..Len(given) : k \in VS /\ v[j] = given[k]
    <3>1. Chosen(given, VS) \in Seq(Block) /\ Collected(Chosen(given, VS), given, VS, Len(given))
      BY <2>1, ChosenIs
    <3> HIDE DEF VS
    <3>2. v = Chosen(given, VS)
      BY DEF Video, VS
    <3> HIDE DEF v
    <3> QED
      BY <3>1, <3>2, Zenon DEF Collected
  <2>5. v # <<>>
    <3> DEFINE R == {j \in 1..Len(blocks) : blocks[j].video}
    <3>1. i \in R /\ Video(blocks) = Chosen(blocks, R)
      BY DEF Video
    <3> HIDE DEF R
    <3>2. Chosen(blocks, R) \in Seq(Block) /\ Collected(Chosen(blocks, R), blocks, R, Len(blocks))
      BY <2>1, ChosenIs
    <3>3. \E j \in 1..Len(Video(blocks)) : TRUE
      BY <3>1, <3>2, Zenon DEF Collected
    <3>4. Len(Shift(v, d)) = Len(v)
      BY <2>3, <2>4, BlocksTimed, ShiftParts
    <3> HIDE DEF v
    <3> QED
      BY <2>3, <3>3, <3>4
  <2>6. W!IsVideoKeyframe(v[1])
    <3>1. W!Video(given) = v
      BY SameTracks
    <3> QED
      BY <2>1, <2>5, <3>1, Zenon DEF W!Plannable
  <2>7. GivenVideo
    <3>1. 1 \in 1..Len(v)
      <4> HIDE DEF v
      <4> QED
        BY <2>4, <2>5
    <3>2. \E k \in 1..Len(given) : k \in VS
      <4> HIDE DEF v, VS
      <4> QED
        BY <2>4, <3>1
    <3> QED
      BY <3>2 DEF GivenVideo
  <2>8. W!IsVideoKeyframe(blocks[1])
    BY <2>3, <2>5, <2>6 DEF W!IsVideoKeyframe
  <2>9. \A j \in 1..Len(blocks) : W!IsVideoKeyframe(blocks[j]) => j \in ClusterStarts(blocks)
    <3>1. \A j \in 1..Len(blocks) : Clustered(W!ClusterOf(blocks, MaxDuration), blocks, MaxDuration, j)
      BY <2>1, ClusterIs, WriterAssumption
    <3>2. \A j \in 1..Len(blocks) : W!IsVideoKeyframe(blocks[j]) => W!ClusterOf(blocks, MaxDuration)[j] = j
      BY <3>1, Zenon DEF Clustered
    <3> QED
      BY <3>2 DEF ClusterStarts
  <2>10. \A j \in ClusterStarts(blocks) : j \in 1..Len(blocks) /\ clusters[j].cue = W!IsVideoKeyframe(blocks[j])
    <3>1. \A j \in ClusterStarts(blocks) : j \in 1..Len(blocks)
      BY DEF ClusterStarts
    <3>2. \A j \in ClusterStarts(blocks) : clusters[j].cue = (W!IsVideoKeyframe(blocks[j]) \/ ~GivenVideo)
      BY <2>1 DEF W!IsCue
    <3>3. \A j \in 1..Len(blocks) : W!IsVideoKeyframe(blocks[j]) \in BOOLEAN
      <4>1. \A j \in 1..Len(blocks) : blocks[j] \in Block
        BY <2>1
      <4> QED
        BY <4>1 DEF W!IsVideoKeyframe, Block
    <3> QED
      BY <2>7, <3>1, <3>2, <3>3
  <2>11. W!Cues = {j \in 1..Len(blocks) : W!IsVideoKeyframe(blocks[j])}
    BY <2>1, <2>9, <2>10 DEF W!Cues
  <2> QED
    BY <2>8, <2>11
<1> QED
  BY <1>1, <1>2

\* Blocks are never far from the beginning of their cluster.
LEMMA TimesFit == ASSUME Writing PROVE W!RelativeTimesFit
<1>1. CASE phase = "adding"
  <2>1. 1..Len(blocks) = {}
    BY <1>1 DEF Writing
  <2> QED
    BY <2>1 DEF W!RelativeTimesFit
<1>2. CASE phase # "adding"
  <2> DEFINE begins == W!ClusterOf(blocks, MaxDuration)
  <2>1. blocks \in Seq(Block) /\ DOMAIN clusters = ClusterStarts(blocks)
    BY <1>2, PlannedFile
  <2>2. \A i \in 1..Len(blocks) : Clustered(begins, blocks, MaxDuration, i)
    BY <2>1, ClusterIs, WriterAssumption
  <2>3. ClusterStarts(blocks) = {b \in 1..Len(blocks) : begins[b] = b}
    BY DEF ClusterStarts
  <2> HIDE DEF begins
  <2>4. ASSUME NEW i \in 1..Len(blocks)
        PROVE  W!LargestOf({b \in DOMAIN clusters : b <= i}) = begins[i]
    <3> DEFINE S == {b \in DOMAIN clusters : b <= i}
    <3>1. /\ begins[i] \in 1..i /\ begins[begins[i]] = begins[i]
          /\ \A b \in 1..i : begins[b] = b => b <= begins[i]
      BY <2>2, Zenon DEF Clustered
    <3>2. i \in Nat /\ Len(blocks) \in Nat
      BY <2>1
    <3>3. begins[i] \in S /\ \A b \in S : b <= begins[i]
      BY <2>1, <2>3, <3>1, <3>2
    <3>4. S \in SUBSET (1..Len(blocks)) /\ S # {}
      BY <2>1, <2>3, <3>3
    <3> HIDE DEF S
    <3>5. LargestOf(S) \in S /\ \A y \in S : y <= LargestOf(S)
      BY <3>2, <3>4, LargestExists
    <3> DEFINE last == LargestOf(S)
    <3>6. last \in S /\ last <= begins[i] /\ begins[i] <= last
      BY <3>3, <3>5
    <3>7. \A y \in S : y \in Int
      BY <3>2, <3>4
    <3>8. last \in Int /\ begins[i] \in Int
      BY <3>3, <3>6, <3>7
    <3> HIDE DEF last
    <3>9. last = begins[i]
      BY <3>6, <3>8
    <3>10. W!LargestOf(S) = last
      BY Zenon DEF last, W!LargestOf, LargestOf
    <3> QED
      BY <3>9, <3>10 DEF S
  <2>5. \A i \in 1..Len(blocks) : /\ blocks[i].pts - blocks[begins[i]].pts <= MaxDuration
                                  /\ blocks[i].pts - blocks[begins[i]].pts >= -MaxDuration
    BY <2>2, Zenon DEF Clustered
  <2> QED
    BY <2>4, <2>5, Zenon DEF W!RelativeTimesFit
<1> QED
  BY <1>1, <1>2

\* Each track is in the order of its frames.
LEMMA OrderIsKept == ASSUME Writing PROVE W!TrackOrderKept
<1> DEFINE track == Video(given)
           sound == Audio(given)
           kept == Audio(blocks)
           lost == Len(sound) - Len(kept)
<1> SUFFICES ASSUME phase # "adding"
             PROVE  /\ FromFirst(Video(blocks)) = FromFirst(track)
                    /\ FromFirst(kept) = FromFirst(SubSeq(sound, lost + 1, Len(sound)))
                    /\ lost > 0 => /\ track # <<>>
                                   /\ \A i \in 1..lost : sound[i].pts < track[1].pts
                                   /\ kept # <<>> => sound[lost + 1].pts >= track[1].pts
  <2>1. /\ W!Video(given) = track /\ W!Audio(given) = sound
        /\ W!Video(blocks) = Video(blocks) /\ W!Audio(blocks) = kept
    BY SameTracks
  <2> QED
    BY <2>1, Zenon DEF W!TrackOrderKept, FromFirst
<1>1. given \in Seq(Block) /\ blocks = Interleave(given)
  <2>1. given \in Seq(MCFrames) /\ blocks = Interleave(given)
    BY DEF Writing, W!TypeOK
  <2> QED
    BY <2>1, FramesAreBlocks
<1>2. PICK d, a : Interleaved(blocks, given, d, a) /\ a \in Seq(Block)
  BY <1>1, BlocksTimed, InterleaveParts
<1>3. /\ d \in Int /\ Video(blocks) = Shift(track, d) /\ kept = Shift(a, d)
      /\ Len(sound) - Len(a) \in 0..Len(sound)
      /\ a = SubSeq(sound, Len(sound) - Len(a) + 1, Len(sound))
      /\ Len(sound) - Len(a) > 0
           => /\ track # <<>>
              /\ \A i \in 1..Len(sound) - Len(a) : sound[i].pts < track[1].pts
              /\ a # <<>> => sound[Len(sound) - Len(a) + 1].pts >= track[1].pts
  BY <1>2, Zenon DEF Interleaved
<1>4. track \in Seq(Block)
  BY <1>1, ChosenIs DEF Video
<1> HIDE DEF track, sound, kept
<1>5. Len(kept) = Len(a)
  BY <1>2, <1>3, BlocksTimed, ShiftParts
<1>6. FromFirst(Video(blocks)) = FromFirst(track) /\ FromFirst(kept) = FromFirst(a)
  BY <1>2, <1>3, <1>4, FromFirstSame
<1>7. kept # <<>> => a # <<>>
  BY <1>3 DEF Shift
<1> QED
  BY <1>3, <1>5, <1>6, <1>7, Zenon

\* mkv.go: a file is as long as was promised, its clusters are where the cues and the
\* seek head say, block times fit, tracks keep their order and frames are read back.
THEOREM FilesAreRight == W!Spec => []W!FileRight
<1>1. Writing => W!FileRight
  <2> SUFFICES ASSUME Writing PROVE W!FileRight
    OBVIOUS
  <2>1. W!WrittenAsPlanned
    <3>1. CASE phase = "clusters" /\ next <= Len(blocks)
      <4>1. next \in ClusterStarts(blocks) /\ written = WrittenAt(blocks, GivenVideo, next)
        BY <3>1 DEF Writing
      <4>2. /\ DOMAIN clusters = ClusterStarts(blocks)
            /\ W!SegmentStart + clusters[next].position = WrittenAt(blocks, GivenVideo, next)
        BY <3>1, <4>1, PlannedFile
      <4> QED
        BY <3>1, <4>1, <4>2 DEF W!WrittenAsPlanned
    <3>2. CASE ~(phase = "clusters" /\ next <= Len(blocks))
      BY <3>2 DEF Writing, W!WrittenAsPlanned
    <3> QED
      BY <3>1, <3>2
  <2> QED
    BY <2>1, CuesPoint, TimesFit, OrderIsKept DEF Writing, W!FileRight
<1> QED
  BY <1>1, WritingInvariant, PTL

-----------------------------------------------------------------------------
(* All of them together: what the run checks, for all constants. *)

\* A step of the composition is one of each part, or leaves it alone.
LEMMA StepsOfEach == [MCNext]_all => [Next]_vars /\ [N!Next]_N!vars /\ [W!Next]_W!vars
<1> SUFFICES ASSUME [MCNext]_all PROVE [Next]_vars /\ [N!Next]_N!vars /\ [W!Next]_W!vars
  OBVIOUS
<1>1. CASE UNCHANGED <<vars, writing, numbering>>
  BY <1>1 DEF N!vars, numbering, W!vars, writing
<1>2. CASE Next /\ UNCHANGED <<writing, numbering>>
  BY <1>2 DEF N!vars, numbering, W!vars, writing
<1>3. CASE N!Next /\ UNCHANGED <<vars, writing>>
  BY <1>3 DEF W!vars, writing
<1>4. CASE W!Next /\ UNCHANGED <<vars, numbering>>
  BY <1>4 DEF N!vars, numbering
<1> QED
  BY <1>1, <1>2, <1>3, <1>4 DEF MCNext, all

\* A behaviour of the composition is one of each part.
LEMMA SpecOfEach == MCSpec => Spec /\ N!Spec /\ W!Spec
<1>1. MCInit => Init /\ N!Init /\ W!Init
  BY DEF MCInit
<1> QED
  BY <1>1, StepsOfEach, PTL DEF MCSpec, Spec, N!Spec, W!Spec

\* The recorder keeps its buffer, with any number of layers, codecs, publishers and packets.
THEOREM BufferKeptAlways == MCSpec => BufferKept
BY SpecOfEach, BufferIsKept

\* Clips begin with a keyframe, wherever they are cut of a buffer that begins with a
\* picture, and if they do not end before the first keyframe of any other.
THEOREM ClipsPlayAlways == MCSpec => []ClipsPlay
BY SpecOfEach, ClipsArePlayed, PTL

\* Files are right, with any frames, however many, long or far apart they are.
THEOREM FileRightAlways == MCSpec => []FileRight
<1>1. W!FileRight => FileRight
  BY DEF FileRight
<1> QED
  BY <1>1, SpecOfEach, FilesAreRight, PTL

\* Viewers get the numbers that say what was lost, with any number of writers and viewers.
THEOREM NumbersKeptAlways == MCSpec => []NumbersKept
<1>1. N!NumbersKept => NumbersKept
  BY DEF NumbersKept
<1> QED
  BY <1>1, SpecOfEach, NumbersAreKept, PTL

=============================================================================
