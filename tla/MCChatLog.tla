------------------------------ MODULE MCChatLog ------------------------------
(***************************************************************************)
(* Model checking of ChatLog: one page, one connection, one backend.       *)
(***************************************************************************)
EXTENDS ChatLog

ThePage == {Page}
TheConn == {Conn}

=============================================================================
