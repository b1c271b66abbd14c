------------------------------ MODULE MCWSClient ------------------------------
(***************************************************************************)
(* Model checking of WSClient: one page with one session id.               *)
(***************************************************************************)
EXTENDS WSClient

Speech == {"USER_SPEECH_END"}

=============================================================================
