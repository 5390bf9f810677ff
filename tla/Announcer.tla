------------------------------ MODULE Announcer ------------------------------
(***************************************************************************)
(* What the notifications promise of each stream: it is announced as live, *)
(* then as ended, and so on; it is announced as ended only out of a grace  *)
(* period, which every reconnect within it takes back.                     *)
(***************************************************************************)
CONSTANT Keys

VARIABLE phase   \* phase[k]: what has been announced of stream k

Init == phase = [k \in Keys |-> "ended"]

Moves(k, from, to) == phase[k] = from /\ phase' = [phase EXCEPT ![k] = to]

AnnounceLive(k)  == Moves(k, "ended", "live")
Disconnect(k)    == Moves(k, "live", "grace")
Reconnect(k)     == Moves(k, "grace", "live")
AnnounceEnded(k) == Moves(k, "grace", "ended")

Next == \E k \in Keys : \/ AnnounceLive(k) \/ Disconnect(k)
                        \/ Reconnect(k) \/ AnnounceEnded(k)

Spec == Init /\ [][Next]_phase

=============================================================================
