---------------------------- MODULE MCViewerSender ----------------------------
(***************************************************************************)
(* ViewerSender for TLC: two layers of which High is the better one, with  *)
(* a number of packets each.                                               *)
(***************************************************************************)
EXTENDS ViewerSender

CONSTANTS High, Low, HighPackets, LowPackets

MCPriority == [l \in Layers |-> IF l = High THEN 1 ELSE 2]

MCMaxPackets == [l \in Layers |-> IF l = High THEN HighPackets ELSE LowPackets]

=============================================================================
