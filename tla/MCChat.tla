------------------------------- MODULE MCChat -------------------------------
(* Small instances of Chat: what the user types and presses; and the turns  *)
(* it implements.                                                           *)
EXTENDS Chat

PatientKeys   == {"queue", "interrupt", "discard", "yes", "no", "stop"}
ImpatientKeys == {"queue", "interrupt", "esc"}

(* A prompt is worked on from the message that carries it to the Done that  *)
(* the app has yet to read.                                                 *)
UnderWay ==
    {inbox[i].prompt : i \in {j \in DOMAIN inbox : inbox[j].kind = "UserInput"}}
      \cup {gens[g].prompt : g \in {h \in DOMAIN gens : Live(h)}}
      \cup {gens[out[i].of].prompt : i \in {j \in DOMAIN out : out[j].kind = "Done"}}

Taken == INSTANCE Turns WITH Prompts <- Texts, turn <- UnderWay, memory <- Known

(* App and agent implement turn taking: queued and interrupting messages    *)
(* are said one at a time, each is heard before its turn is over, and       *)
(* neither an interruption nor a denied command loses what was said before. *)
RefinesTurns == Taken!Spec
=============================================================================
