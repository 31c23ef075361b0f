-------------------------- MODULE MCChatSession --------------------------
(* ChatSession with small bounds. *)
EXTENDS ChatSession
==========================================================================
