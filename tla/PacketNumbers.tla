----------------------------- MODULE PacketNumbers -----------------------------
(***************************************************************************)
(* The numbers in RTP headers on their way from a track's writer           *)
(* (whip/writers.go) to the viewers (whep/packet_writer.go).  A packet is  *)
(* one object that all viewers' queues and the recorder share; a writer    *)
(* adds how far it is from the packet before, and each viewer counts on    *)
(* from its own number, as its packets may come from several writers: of   *)
(* layers of simulcast, or of one publisher and the next.                  *)
(*                                                                         *)
(* Time stamps go the same way as sequence numbers, modulo 2^32.           *)
(***************************************************************************)
EXTENDS Integers, Sequences

CONSTANTS
    Writers, Watchers,  \* tracks of publishers, and viewers
    Modulus,            \* 2^16
    Numbers,            \* those that packets arrive with: in any order, with gaps
    NoNumber,           \* lastSequenceNumberSet is false
    MaxPackets          \* bound: packets that are read

VARIABLES
    last,     \* last[w]: lastSequenceNumber
    packets,  \* TrackPackets: the number they came with, and the difference
    shared,   \* shared[p]: the number in the header of packet p now
    queued,   \* queued[v]: the packets in the viewer's queue
    number,   \* number[v]: VideoSequenceNumber
    out       \* out[v]: the packets that were written to the viewer, and their numbers

vars == <<last, packets, shared, queued, number, out>>

Init ==
    /\ last = [w \in Writers |-> NoNumber]
    /\ packets = <<>>
    /\ shared = <<>>
    /\ queued = [v \in Watchers |-> <<>>]
    /\ number = [v \in Watchers |-> 0]
    /\ out = [v \in Watchers |-> <<>>]

\* A number that is much smaller has gone round, a little smaller came late.
Difference(n, before) ==
    IF n - before < -((Modulus - 1) \div 10) THEN n - before + Modulus ELSE n - before

\* The writer reads a packet and shares it; to some viewers it does not go: they
\* watch another layer, or their queue is full.
Read(w, n, to) ==
    /\ Len(packets) < MaxPackets
    /\ packets' = Append(packets,
         [writer |-> w, number |-> n,
          diff   |-> IF last[w] = NoNumber THEN 0 ELSE Difference(n, last[w])])
    /\ shared' = Append(shared, n)
    /\ last' = [last EXCEPT ![w] = n]
    /\ queued' = [v \in Watchers |->
                    IF v \in to THEN Append(queued[v], Len(packets) + 1) ELSE queued[v]]
    /\ UNCHANGED <<number, out>>

\* Slip: the sender renumbers the packet that others have queued as well.
SendShared(v) ==
    /\ queued[v] # <<>>
    /\ LET p == Head(queued[v])
           n == (number[v] + packets[p].diff) % Modulus
       IN  /\ number' = [number EXCEPT ![v] = n]
           /\ out' = [out EXCEPT ![v] = Append(@, [packet |-> p, number |-> n])]
           /\ shared' = [shared EXCEPT ![p] = n]
    /\ queued' = [queued EXCEPT ![v] = Tail(@)]
    /\ UNCHANGED <<last, packets>>

\* runSender copies the header before SendVideoPacket renumbers it.
Send(v) ==
    /\ queued[v] # <<>>
    /\ LET p == Head(queued[v])
           n == (number[v] + packets[p].diff) % Modulus
       IN  /\ number' = [number EXCEPT ![v] = n]
           /\ out' = [out EXCEPT ![v] = Append(@, [packet |-> p, number |-> n])]
    /\ queued' = [queued EXCEPT ![v] = Tail(@)]
    /\ UNCHANGED <<last, packets, shared>>

Next ==
    \/ \E w \in Writers, n \in Numbers, to \in SUBSET Watchers : Read(w, n, to)
    \/ \E v \in Watchers : Send(v)

Spec == Init /\ [][Next]_vars

-----------------------------------------------------------------------------
(* The variables have their types.                                         *)
TypeOK ==
    /\ last \in [Writers -> Numbers \cup {NoNumber}]
    /\ \A p \in DOMAIN packets :
          packets[p].diff \in -((Modulus - 1) \div 10)..Modulus - 1
    /\ number \in [Watchers -> 0..Modulus - 1]

\* q is what its writer read after p.
NextOfWriter(p, q) ==
    /\ p < q /\ packets[p].writer = packets[q].writer
    /\ \A r \in p + 1..q - 1 : packets[r].writer # packets[p].writer

(* What a viewer's decoder concludes from numbers (lost, late, in order) is  *)
(* what happened on the way to the server: one packet after the other of a   *)
(* track is as far from it as when it came, also where numbers go round.     *)
NumbersFollow ==
    \A v \in Watchers : \A k \in 1..Len(out[v]) - 1 :
        LET p == out[v][k]  q == out[v][k + 1] IN
        NextOfWriter(p.packet, q.packet) =>
            q.number = (p.number + packets[q.packet].number - packets[p.packet].number)
                       % Modulus

(* No viewer changes what the recorder and other viewers have still to read: *)
(* a packet in a queue is the one that came.                                 *)
SharedUnchanged == \A p \in DOMAIN packets : shared[p] = packets[p].number

(* A viewer's numbers, and what other viewers have still to read.           *)
NumbersKept == TypeOK /\ NumbersFollow /\ SharedUnchanged

=============================================================================
