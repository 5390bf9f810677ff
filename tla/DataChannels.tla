------------------------------ MODULE DataChannels ------------------------------
(***************************************************************************)
(* internal/webrtc/sessions/session/datachannels.go: the data channels of  *)
(* a session.  The handlers of a channel run when they like; register and  *)
(* closePeer are atomic under the channel's peerLock, the table of peers   *)
(* has a lock of its own, and a viewer may open a second channel.          *)
(***************************************************************************)
EXTENDS Naturals, FiniteSets

CONSTANTS
    Channels,     \* data channels with the label of the relay
    Viewers,
    ViewerOf,     \* ViewerOf[c]: the peerID of channel c
    NoChannel,    \* the absence of an entry of dataChannelPeers
    MaxMessages   \* bound: messages relayed for one channel

VARIABLES
    peers,        \* dataChannelPeers
    peer,         \* the channels whose peer has been made
    isClosed,     \* the channels whose isClosed is set
    sending,      \* the channels in OnMessage, between register and the recipients
    removing,     \* those whose OnClose or OnError has still to remove the peer
    sent,         \* sent[c]: how many messages of c were relayed
    relays,       \* what is still to be sent: from a channel, its message n, to one
    got           \* got[c][d]: the last message of d that was sent to c

relaying == <<sent, relays, got>>
vars == <<peers, peer, isClosed, sending, removing, relaying>>

Init ==
    /\ peers = [v \in Viewers |-> NoChannel]
    /\ peer = {} /\ isClosed = {} /\ sending = {} /\ removing = {}
    /\ sent = [c \in Channels |-> 0]
    /\ relays = {}
    /\ got = [c \in Channels |-> [d \in Channels |-> 0]]

\* register: the first call adds the peer, none does once the channel is closed.
Register(c) ==
    /\ peers' = IF c \notin peer \cup isClosed
                THEN [peers EXCEPT ![ViewerOf[c]] = c] ELSE peers
    /\ peer' = IF c \in isClosed THEN peer ELSE peer \cup {c}

OnOpen(c) ==
    /\ Register(c)
    /\ UNCHANGED <<isClosed, sending, removing, relaying>>

-----------------------------------------------------------------------------
(* OnMessage, of a message that is small enough, within the limit, and no reaction. *)

OnMessage(c) ==
    /\ c \notin sending
    /\ \A r \in relays : r.from # c
    /\ sent[c] < MaxMessages
    /\ Register(c)
    /\ sending' = IF c \in isClosed THEN sending ELSE sending \cup {c}
    /\ UNCHANGED <<isClosed, removing, relaying>>

Others(v) == {peers[w] : w \in Viewers \ {v}} \ {NoChannel}

\* broadcastDataChannelFrom: the recipients, if the sender is still in the table.
Broadcast(c) ==
    /\ c \in sending
    /\ sending' = sending \ {c}
    /\ IF peers[ViewerOf[c]] = c
       THEN /\ sent' = [sent EXCEPT ![c] = @ + 1]
            /\ relays' = relays \cup
                  {[from |-> c, n |-> sent[c] + 1, to |-> d] : d \in Others(ViewerOf[c])}
       ELSE UNCHANGED <<sent, relays>>
    /\ UNCHANGED <<peers, peer, isClosed, removing, got>>

\* sendToDataChannelPeers: all at once, and one that fails does not hold the others up.
Send(r) ==
    /\ r \in relays
    /\ relays' = relays \ {r}
    /\ \/ got' = [got EXCEPT ![r.to][r.from] = r.n]
       \/ UNCHANGED got
    /\ UNCHANGED <<peers, peer, isClosed, sending, removing, sent>>

-----------------------------------------------------------------------------
(* OnClose and OnError: closePeer, of which only the first counts, and then the table. *)

OnClose(c) ==
    /\ c \notin isClosed
    /\ isClosed' = isClosed \cup {c}
    /\ removing' = IF c \in peer THEN removing \cup {c} ELSE removing
    /\ UNCHANGED <<peers, peer, sending, relaying>>

\* Slip: the entry of the viewer is removed, whatever it is.
WithoutViewer(c) == [peers EXCEPT ![ViewerOf[c]] = NoChannel]

\* removeDataChannelPeer leaves the entry of a channel that has come since.
Without(c) == IF peers[ViewerOf[c]] = c
              THEN [peers EXCEPT ![ViewerOf[c]] = NoChannel] ELSE peers

Remove(c) ==
    /\ c \in removing
    /\ removing' = removing \ {c}
    /\ peers' = Without(c)
    /\ UNCHANGED <<peer, isClosed, sending, relaying>>

Next ==
    \/ \E c \in Channels :
          OnOpen(c) \/ OnMessage(c) \/ Broadcast(c) \/ OnClose(c) \/ Remove(c)
    \/ \E r \in relays : Send(r)

Spec == Init /\ [][Next]_vars

-----------------------------------------------------------------------------
(* Properties. *)

TypeOK ==
    /\ peers \in [Viewers -> Channels \cup {NoChannel}]
    /\ peer \subseteq Channels /\ isClosed \subseteq Channels
    /\ sending \subseteq Channels /\ removing \subseteq isClosed
    /\ sent \in [Channels -> 0..MaxMessages]
    /\ relays \subseteq [from : Channels, n : 1..MaxMessages, to : Channels]
    /\ got \in [Channels -> [Channels -> 0..MaxMessages]]

\* A channel that is closed is in the table only until the handler that closed it has
\* removed it: a message that comes late does not bring it back.
ClosedGone ==
    \A c \in isClosed \ removing : peers[ViewerOf[c]] # c

\* An end takes nothing out of the table but the channel that has ended.
SuccessorKept ==
    [][\A v \in Viewers :
          peers[v] # NoChannel /\ peers'[v] = NoChannel => peers[v] \in isClosed]_vars

\* What one viewer sends on a channel reaches each of the others in the order it was
\* sent, although the sends to them are concurrent.
RelayedInOrder == [][\A c, d \in Channels : got'[c][d] >= got[c][d]]_vars

\* Who is in the table, and what it carries.
ChannelsKept == []TypeOK /\ []ClosedGone /\ SuccessorKept /\ RelayedInOrder

=============================================================================
