------------------------------ MODULE MCWebChat -----------------------------
(* Two connections that chat while maps change. *)
EXTENDS WebChat
MCChatters == {1, 2}
=============================================================================
