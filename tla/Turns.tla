------------------------------- MODULE Turns --------------------------------
(***************************************************************************)
(* What the chat promises its user when no request fails and nothing is    *)
(* cleared or summarized: app and agent take turns, one prompt at a time;  *)
(* a turn is over only when its prompt has become part of the conversation *)
(* and nothing the conversation holds is ever lost.                        *)
(***************************************************************************)
CONSTANT Prompts

VARIABLES
    turn,    \* {} while it is the user's, {p} while p is worked on
    memory   \* the prompts the conversation holds

Init == turn = {} /\ memory = {}

Ask    == turn = {} /\ (\E p \in Prompts \ memory : turn' = {p}) /\ UNCHANGED memory
Hear   == ~ turn \subseteq memory /\ memory' = memory \cup turn /\ UNCHANGED turn
Answer == turn # {} /\ turn \subseteq memory /\ turn' = {} /\ UNCHANGED memory

Next == Ask \/ Hear \/ Answer

Spec == Init /\ [][Next]_<<turn, memory>>
=============================================================================
