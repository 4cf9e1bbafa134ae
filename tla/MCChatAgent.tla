---------------------------- MODULE MCChatAgent ----------------------------
(* A small agent: see MCChatAgent.cfg for the bounds. *)
EXTENDS ChatAgent
=============================================================================
