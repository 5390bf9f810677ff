------------------------------- MODULE MCChatRoom -------------------------------
(* Model checking of ChatRoom. *)
EXTENDS ChatRoom
=============================================================================
