----------------------------- MODULE Conversation -----------------------------
(***************************************************************************)
(* What the backend promises about each conversation, without connections, *)
(* conversation states or replies in transit: a conversation is the        *)
(* sequence of the user's turns, turn n is answered under generation n,    *)
(* and at most the generation of the last turn is current.  Turns are      *)
(* only ever added; a generation that stopped being current never is       *)
(* again.  SessionManager implements this specification.                   *)
(***************************************************************************)
EXTENDS Naturals, Sequences

CONSTANTS
    Sessions,   \* conversation sessions
    Sayings     \* what a user can say or type

VARIABLES
    turns,      \* what the user said in each session, in order
    current     \* the generation being answered, 0 when there is none

convVars == <<turns, current>>

Init ==
    /\ turns = [s \in Sessions |-> <<>>]
    /\ current = [s \in Sessions |-> 0]

\* The user says something; its answer supersedes the one before.
Ask(s, text) ==
    /\ turns' = [turns EXCEPT ![s] = Append(@, text)]
    /\ current' = [current EXCEPT ![s] = Len(turns[s]) + 1]

\* The answer is cancelled, or the session is stopped or started again.
Retire(s) ==
    /\ current' = [current EXCEPT ![s] = 0]
    /\ UNCHANGED turns

Next == \E s \in Sessions : Retire(s) \/ \E text \in Sayings : Ask(s, text)

Spec == Init /\ [][Next]_convVars

=============================================================================
