-------------------------- MODULE MCWSClientManager --------------------------
(***************************************************************************)
(* Model checking of WSClientManager: two components that come and go.     *)
(***************************************************************************)
EXTENDS WSClientManager

Speech == {"USER_SPEECH_END"}

=============================================================================
