--------------------------- MODULE MCChatSessions ---------------------------
(* Instances of ChatSessions for TLC.                                      *)
EXTENDS ChatSessions
=============================================================================
