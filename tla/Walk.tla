-------------------------------- MODULE Walk --------------------------------
(***************************************************************************)
(* What a run of the spec orchestrator promises when its operator neither  *)
(* injects a spec nor resumes a step: the steps of a plan are taken one by *)
(* one, the child spec of a step before what is left of its own, and a run *)
(* is complete when no step is left.  A step is known by its position, as  *)
(* <<1, 2>> for "1.2", so that a set of steps has an order already.        *)
(***************************************************************************)
EXTENDS Naturals, Sequences

CONSTANTS
    RootLen,   \* steps of the plan
    ChildLens  \* steps a child spec may have

VARIABLES
    todo,      \* the steps left
    outcome    \* "running", "completed", "gave up"

Steps(p, n) == {Append(p, i) : i \in 1..n}
Last(s)     == s[Len(s)]
Sibling(s, t) == /\ Len(s) = Len(t)
                 /\ SubSeq(s, 1, Len(s) - 1) = SubSeq(t, 1, Len(t) - 1)

(* The next step is nested deepest, and the first of its spec.             *)
Foremost(s) == \A t \in todo \ {s} :
                  \/ Len(t) < Len(s)
                  \/ Sibling(s, t) /\ Last(s) < Last(t)

Init == todo = Steps(<<>>, RootLen) /\ outcome = "running"

(* The next step is settled, and what it has handed in is next.            *)
Settle(s) == \E n \in {0} \cup ChildLens :
                todo' = (todo \ {s}) \cup Steps(s, n)

(* The next step has to wait for a child spec, and is then taken again.    *)
Split(s) == \E n \in ChildLens : todo' = todo \cup Steps(s, n)

(* A verifier rejects the next step, or the operator has it cancelled: the *)
(* rest of its spec goes with it.                                          *)
Drop(s) == todo' = {t \in todo : ~Sibling(s, t)}

Take   == /\ outcome = "running"
          /\ \E s \in todo : Foremost(s) /\ (Settle(s) \/ Split(s) \/ Drop(s))
          /\ UNCHANGED outcome
Finish == outcome = "running" /\ todo = {} /\ outcome' = "completed" /\ UNCHANGED todo
GiveUp == outcome = "running" /\ outcome' = "gave up" /\ UNCHANGED todo

Next == Take \/ Finish \/ GiveUp

Spec == Init /\ [][Next]_<<todo, outcome>>
=============================================================================
