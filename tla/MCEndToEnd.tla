------------------------------ MODULE MCEndToEnd ------------------------------
(***************************************************************************)
(* Model checking of EndToEnd: one page that speaks and types.             *)
(***************************************************************************)
EXTENDS EndToEnd

SpeechAndText == {"USER_SPEECH_END", "TEXT_INPUT"}

=============================================================================
