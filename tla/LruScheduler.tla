---------------------------- MODULE LruScheduler ----------------------------
(***************************************************************************)
(* The LRU scheduler of mistralrs-server-scheduler: which models it takes  *)
(* for resident, in order of last access, and which of them it advises to  *)
(* evict.  The order is behind one lock, so what an operation does under   *)
(* it is one step of whoever calls it; the pinned set is outside of it.    *)
(*                                                                         *)
(* The scheduler is given its own way to look deadlines up.  Time is kept  *)
(* as the set of models whose deadline, looked up there, lies ahead; the   *)
(* models have keep-alives of different lengths, so the order of eviction  *)
(* among those whose deadline has passed is left open.                     *)
(*                                                                         *)
(* A definition whose name ends in _Something repeats the one after it     *)
(* with a plausible slip; no action uses it.                               *)
(***************************************************************************)
EXTENDS Naturals, Sequences, FiniteSets

CONSTANTS
    Models,     \* the configured models
    MaxModels   \* max_loaded_models

ASSUME SchedulerAssumption ==
    IsFiniteSet(Models) /\ Models # {} /\ MaxModels \in Nat

VARIABLES
    order,      \* InnerState.order, the least recently used first
    schedPinned,\* LruScheduler.pinned
    alive       \* the models whose deadline keep_alive_fn puts ahead

Tracked == {order[i] : i \in DOMAIN order}

(* VecDeque::retain                                                         *)
Without(q, S) ==
    LET kept   == {i \in DOMAIN q : q[i] \notin S}
        nth(n) == CHOOSE i \in kept : Cardinality({j \in kept : j <= i}) = n
    IN  [n \in 1..Cardinality(kept) |-> q[nth(n)]]

(* register_activity touches the model, known or not.                       *)
RegisterActivity_Twice(m) == order' = Append(order, m)
RegisterActivity(m) == order' = Append(Without(order, {m}), m)

(* on_model_loaded does the same to the order, and sets the pin after it    *)
(* has let the lock go.                                                     *)
SetPin(m, pin) ==
    schedPinned' = IF pin THEN schedPinned \cup {m} ELSE schedPinned \ {m}

OnModelUnloaded(m) ==
    /\ order' = Without(order, {m})
    /\ schedPinned' = schedPinned \ {m}

Evictable == (Tracked \ schedPinned) \ alive
Excess    == IF Len(order) > MaxModels THEN Len(order) - MaxModels ELSE 0

(* advise_evict forgets its victims at once, before the caller has unloaded *)
(* any of them.                                                             *)
AdviseEvict(victims) ==
    /\ victims \subseteq Evictable
    /\ Cardinality(victims) = IF Cardinality(Evictable) < Excess
                              THEN Cardinality(Evictable) ELSE Excess
    /\ order' = Without(order, victims)
=============================================================================
