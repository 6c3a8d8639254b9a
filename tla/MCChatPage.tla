----------------------------- MODULE MCChatPage -----------------------------
(***************************************************************************)
(* Instances of ChatPage for TLC: one sub-agent, texts and tools that tell *)
(* two answers and two calls apart.                                        *)
(***************************************************************************)
EXTENDS ChatPage
=============================================================================
