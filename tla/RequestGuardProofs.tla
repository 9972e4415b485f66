------------------------- MODULE RequestGuardProofs -------------------------
(* ActiveRequestGuard keeps the limits of ModelManager and is given back in *)
(* full, for every finite number of requests under way; with that, every    *)
(* variable of ModelManager keeps its type.                                 *)
EXTENDS ModelManagerProofs

(* The points between taking a counter and giving it back.                  *)
CountedPoints == {"countTotal", "rollback", "send", "respond", "release"}
TotalPoints   == {"send", "respond", "release", "releaseTotal"}
Guarded       == CountedPoints \cup TotalPoints

(* The handlers that hold a place of a model's counter, and of the total.   *)
Counted(m) == {h \in Handlers : frame[h].pc \in CountedPoints /\ Model(h) = m}
InTotal    == {h \in Handlers : frame[h].pc \in TotalPoints}

(* Each counter is the number of those who hold a place of it.              *)
GuardInv ==
    /\ active \in [Models -> Nat] /\ total \in Nat
    /\ \A m \in Models : /\ active[m] = Cardinality(Counted(m))
                         /\ active[m] <= ModelLimit
    /\ total = Cardinality(InTotal) /\ total <= TotalLimit

OthersKeep(h) == \A g \in Handlers \ {h} : frame'[g] = frame[g]

-----------------------------------------------------------------------------
(* What one handler's move does to the places of a counter.                 *)
LEMMA KeepCounted ==
  ASSUME NEW h \in Handlers, OthersKeep(h), NEW m,
         \/ /\ frame[h].pc \notin CountedPoints
            /\ frame'[h].pc \notin CountedPoints
         \/ /\ frame[h].pc \in CountedPoints /\ frame'[h].pc \in CountedPoints
            /\ frame'[h].model = frame[h].model
  PROVE  Counted(m)' = Counted(m)
<1>1. ASSUME NEW g \in Handlers PROVE g \in Counted(m)' <=> g \in Counted(m)
  <2>1. CASE g = h
    BY <2>1 DEF Counted, Model
  <2>2. CASE g # h
    BY <2>2 DEF Counted, Model, OthersKeep
  <2> QED
    BY <2>1, <2>2
<1> QED
  BY <1>1 DEF Counted

LEMMA EnterCounted ==
  ASSUME IsFiniteSet(Handlers), NEW h \in Handlers, OthersKeep(h), NEW m,
         frame[h].pc \notin CountedPoints, frame'[h].pc \in CountedPoints,
         frame'[h].model = frame[h].model
  PROVE  Cardinality(Counted(m)') = IF m = Model(h) THEN Cardinality(Counted(m)) + 1
                                    ELSE Cardinality(Counted(m))
<1>1. ASSUME NEW g \in Handlers \ {h}
      PROVE  g \in Counted(m)' <=> g \in Counted(m)
  BY <1>1 DEF Counted, Model, OthersKeep
<1>2. h \notin Counted(m) /\ (h \in Counted(m)' <=> m = Model(h))
  BY DEF Counted, Model
<1>3. Counted(m)' = IF m = Model(h) THEN Counted(m) \cup {h} ELSE Counted(m)
  BY <1>1, <1>2 DEF Counted
<1>4. IsFiniteSet(Counted(m))
  BY FS_Subset DEF Counted
<1>5. Cardinality(Counted(m) \cup {h}) = Cardinality(Counted(m)) + 1
  BY <1>2, <1>4, FS_AddElement
<1> QED
  BY <1>3, <1>5

LEMMA LeaveCounted ==
  ASSUME IsFiniteSet(Handlers), NEW h \in Handlers, OthersKeep(h), NEW m,
         frame[h].pc \in CountedPoints, frame'[h].pc \notin CountedPoints
  PROVE  Cardinality(Counted(m)') = IF m = Model(h) THEN Cardinality(Counted(m)) - 1
                                    ELSE Cardinality(Counted(m))
<1>1. ASSUME NEW g \in Handlers \ {h}
      PROVE  g \in Counted(m)' <=> g \in Counted(m)
  BY <1>1 DEF Counted, Model, OthersKeep
<1>2. h \notin Counted(m)' /\ (h \in Counted(m) <=> m = Model(h))
  BY DEF Counted, Model
<1>3. Counted(m)' = IF m = Model(h) THEN Counted(m) \ {h} ELSE Counted(m)
  BY <1>1, <1>2 DEF Counted
<1>4. IsFiniteSet(Counted(m))
  BY FS_Subset DEF Counted
<1>5. m = Model(h) => Cardinality(Counted(m) \ {h}) = Cardinality(Counted(m)) - 1
  BY <1>2, <1>4, FS_RemoveElement
<1> QED
  BY <1>3, <1>5

LEMMA KeepTotal ==
  ASSUME NEW h \in Handlers, OthersKeep(h),
         frame[h].pc \in TotalPoints <=> frame'[h].pc \in TotalPoints
  PROVE  InTotal' = InTotal
BY DEF InTotal, OthersKeep

LEMMA EnterTotal ==
  ASSUME IsFiniteSet(Handlers), NEW h \in Handlers, OthersKeep(h),
         frame[h].pc \notin TotalPoints, frame'[h].pc \in TotalPoints
  PROVE  Cardinality(InTotal') = Cardinality(InTotal) + 1
<1>1. h \notin InTotal /\ InTotal' = InTotal \cup {h}
  BY DEF InTotal, OthersKeep
<1>2. IsFiniteSet(InTotal)
  BY FS_Subset DEF InTotal
<1> QED
  BY <1>1, <1>2, FS_AddElement

LEMMA LeaveTotal ==
  ASSUME IsFiniteSet(Handlers), NEW h \in Handlers, OthersKeep(h),
         frame[h].pc \in TotalPoints, frame'[h].pc \notin TotalPoints
  PROVE  Cardinality(InTotal') = Cardinality(InTotal) - 1
<1>1. h \in InTotal /\ InTotal' = InTotal \ {h}
  BY DEF InTotal, OthersKeep
<1>2. IsFiniteSet(InTotal)
  BY FS_Subset DEF InTotal
<1> QED
  BY <1>1, <1>2, FS_RemoveElement

-----------------------------------------------------------------------------
(* Outside of the guard's life nothing touches the counters.                *)
LEMMA OutsideStep ==
  ASSUME GuardInv, NEW h \in Handlers, OthersKeep(h), UNCHANGED counters,
         frame[h].pc \notin Guarded, frame'[h].pc \notin Guarded
  PROVE  GuardInv'
<1>1. \A m : Counted(m)' = Counted(m)
  BY KeepCounted DEF Guarded
<1>2. InTotal' = InTotal
  BY KeepTotal DEF Guarded
<1> QED
  BY <1>1, <1>2 DEF GuardInv, counters

LEMMA OutsideMove ==
  ASSUME Inv, GuardInv, NEW h \in Handlers, NEW p \in Points \ Guarded,
         Goto(h, p), UNCHANGED counters, frame[h].pc \notin Guarded
  PROVE  GuardInv'
<1>1. Moves(h, p)
  BY GotoMoves DEF Inv
<1> QED
  BY <1>1, OutsideStep DEF Moves, OthersKeep

(* Advice, unloading, loading: steps before the guard is taken.             *)
LEMMA BeforeGuard ==
  ASSUME Inv, GuardInv, NEW h \in Handlers,
         \/ TakeAdvice(h) \/ EvictNext(h) \/ AdviceTaken(h) \/ EnsureEngine(h)
         \/ Refresh(h) \/ Finalize(h) \/ SetSchedulerPin(h)
  PROVE  GuardInv'
<1>1. UNCHANGED counters
  BY DEF TakeAdvice, EvictNext, AdviceTaken, EnsureEngine, Refresh, Finalize,
     SetSchedulerPin
<1>2. frame \in Frames
  BY DEF Inv, Shape
<1>3. frame[h].pc \in {"advise", "evict", "ensure", "refresh", "finalize",
                       "pinScheduler"}
  BY DEF TakeAdvice, EvictNext, AdviceTaken, EnsureEngine, Refresh, Finalize,
     SetSchedulerPin, At
<1>4. OthersKeep(h) /\ frame'[h].pc \notin Guarded
  <2>1. CASE TakeAdvice(h)
    BY <1>2, <2>1 DEF TakeAdvice, OthersKeep, Frames, HandlerFrame, Guarded,
       CountedPoints, TotalPoints
  <2>2. CASE EvictNext(h)
    BY <1>2, <2>2 DEF EvictNext, OthersKeep, Frames, HandlerFrame, Guarded,
       CountedPoints, TotalPoints
  <2>3. CASE AdviceTaken(h)
    BY <1>2, <2>3 DEF AdviceTaken, OthersKeep, Frames, HandlerFrame, Guarded,
       CountedPoints, TotalPoints
  <2>4. CASE EnsureEngine(h)
    <3>1. CASE Goto(h, "touch")
      BY <3>1, GotoMoves DEF Inv, Moves, OthersKeep, Points, Guarded,
         CountedPoints, TotalPoints
    <3>2. CASE frame' = [frame EXCEPT ![h].pc = "advise", ![h].loading = TRUE]
      BY <1>2, <3>2 DEF OthersKeep, Frames, HandlerFrame, Guarded,
         CountedPoints, TotalPoints
    <3> QED
      BY <2>4, <3>1, <3>2 DEF EnsureEngine
  <2>5. CASE Refresh(h)
    BY <1>2, <2>5 DEF Refresh, OthersKeep, Frames, HandlerFrame, Guarded,
       CountedPoints, TotalPoints
  <2>6. CASE Finalize(h)
    BY <1>2, <2>6 DEF Finalize, OthersKeep, Frames, HandlerFrame, Guarded,
       CountedPoints, TotalPoints
  <2>7. CASE SetSchedulerPin(h)
    BY <1>2, <2>7 DEF SetSchedulerPin, Idle, OthersKeep, Frames, HandlerFrame,
       Guarded, CountedPoints, TotalPoints
  <2> QED
    BY <2>1, <2>2, <2>3, <2>4, <2>5, <2>6, <2>7
<1> QED
  BY <1>1, <1>3, <1>4, OutsideStep DEF Guarded, CountedPoints, TotalPoints

LEMMA OutsideGuard ==
  ASSUME Inv, GuardInv, NEW h \in Handlers,
         \/ CheckPinned(h) \/ CheckActive(h) \/ MarkUnloaded(h)
         \/ RemoveFromEngine(h) \/ RemovalRefused(h) \/ Forget(h) \/ Admit(h)
         \/ AddToEngine(h) \/ InsertIntoEngine(h) \/ AddFails(h)
         \/ SetManagerPin(h) \/ Track(h) \/ Touch(h)
  PROVE  GuardInv'
<1>1. UNCHANGED counters
  BY DEF CheckPinned, CheckActive, MarkUnloaded, RemoveFromEngine,
     RemovalRefused, Forget, Admit, AddToEngine, InsertIntoEngine, AddFails,
     SetManagerPin, Track, Touch, counters
<1>2. frame[h].pc \in {"check", "checkActive", "mark", "remove", "forget",
                       "admit", "add", "insert", "setPin", "track", "touch"}
  BY DEF CheckPinned, CheckActive, MarkUnloaded, RemoveFromEngine,
     RemovalRefused, Forget, Admit, AddToEngine, InsertIntoEngine, AddFails,
     SetManagerPin, Track, Touch, At
<1>3. PICK p \in {"idle", "evict", "checkActive", "mark", "remove", "forget",
                  "refresh", "add", "insert", "finalize", "track",
                  "pinScheduler", "count"} : Goto(h, p)
  BY DEF CheckPinned, CheckActive, MarkUnloaded, RemoveFromEngine,
     RemovalRefused, Forget, Admit, AddToEngine, InsertIntoEngine, AddFails,
     SetManagerPin, Track, Touch, AfterUnload
<1>4. p \in Points \ Guarded
  BY DEF Points, Guarded, CountedPoints, TotalPoints
<1>5. frame[h].pc \notin Guarded
  BY <1>2 DEF Guarded, CountedPoints, TotalPoints
<1> QED
  BY <1>1, <1>3, <1>4, <1>5, OutsideMove

(* Taking the guard, and giving it back.                                    *)
LEMMA WithGuard ==
  ASSUME IsFiniteSet(Handlers), Inv, GuardInv, NEW h \in Handlers,
         \/ CountModel(h) \/ CountTotal(h) \/ Rollback(h) \/ Send(h)
         \/ Respond(h) \/ ReleaseModel(h) \/ ReleaseTotal(h)
  PROVE  GuardInv'
<1> DEFINE m == Model(h)
<1>0. m \in Models /\ ModelLimit \in Nat /\ TotalLimit \in Nat
  BY ManagerAssumption DEF Inv, Shape, Frames, HandlerFrame, Model
<1>1. ASSUME NEW p \in Points, Goto(h, p)
      PROVE  /\ OthersKeep(h) /\ frame'[h].pc = p
             /\ p # "idle" => frame'[h].model = frame[h].model
  BY <1>1, GotoMoves DEF Inv, Moves, OthersKeep
<1> USE DEF CountedPoints, TotalPoints, At, Points
<1>2. CASE CountModel(h) /\ Goto(h, "countTotal")
  <2>1. /\ frame[h].pc = "count" /\ active[m] < ModelLimit /\ total' = total
        /\ active' = [active EXCEPT ![m] = @ + 1]
    BY <1>1, <1>2 DEF CountModel
  <2>2. /\ OthersKeep(h) /\ frame'[h].pc = "countTotal"
        /\ frame'[h].model = frame[h].model
    BY <1>1, <1>2
  <2>3. \A n \in Models : Cardinality(Counted(n)') =
          IF n = m THEN Cardinality(Counted(n)) + 1 ELSE Cardinality(Counted(n))
    BY <2>1, <2>2, EnterCounted
  <2>4. InTotal' = InTotal
    BY <2>1, <2>2, KeepTotal
  <2> QED
    BY <1>0, <2>1, <2>3, <2>4 DEF GuardInv
<1>3. CASE CountModel(h) /\ Goto(h, "idle")
  <2>1. frame[h].pc = "count" /\ UNCHANGED counters
    BY <1>1, <1>3 DEF CountModel, counters
  <2> QED
    BY <1>3, <2>1, OutsideMove DEF Guarded
<1>4. CASE CountTotal(h) /\ Goto(h, "send")
  <2>1. /\ frame[h].pc = "countTotal" /\ total < TotalLimit
        /\ total' = total + 1 /\ active' = active
    BY <1>1, <1>4 DEF CountTotal
  <2>2. /\ OthersKeep(h) /\ frame'[h].pc = "send"
        /\ frame'[h].model = frame[h].model
    BY <1>1, <1>4
  <2>3. \A n : Counted(n)' = Counted(n)
    BY <2>1, <2>2, KeepCounted
  <2>4. Cardinality(InTotal') = Cardinality(InTotal) + 1
    BY <2>1, <2>2, EnterTotal
  <2> QED
    BY <1>0, <2>1, <2>3, <2>4 DEF GuardInv
<1>5. CASE \/ CountTotal(h) /\ Goto(h, "rollback")
           \/ Send(h) \/ Respond(h)
  <2>1. UNCHANGED <<active, total>>
    BY <1>1, <1>5 DEF CountTotal, Send, Respond, counters
  <2>2. \/ /\ frame[h].pc = "countTotal" /\ frame'[h].pc = "rollback"
        \/ /\ frame[h].pc \in {"send", "respond"}
           /\ frame'[h].pc \in {"respond", "release"}
    BY <1>1, <1>5 DEF CountTotal, Send, Respond
  <2>3. OthersKeep(h) /\ frame'[h].model = frame[h].model
    BY <1>1, <1>5 DEF Send, Respond
  <2>4. \A n : Counted(n)' = Counted(n)
    BY <2>2, <2>3, KeepCounted
  <2>5. InTotal' = InTotal
    BY <2>2, <2>3, KeepTotal
  <2> QED
    BY <2>1, <2>4, <2>5 DEF GuardInv
<1>6. CASE Rollback(h) \/ ReleaseModel(h)
  <2>1. /\ total' = total /\ active' = [active EXCEPT ![m] = @ - 1]
        /\ \/ frame[h].pc = "rollback" /\ Goto(h, "idle")
           \/ frame[h].pc = "release" /\ Goto(h, "releaseTotal")
    BY <1>6 DEF Rollback, ReleaseModel
  <2>2. /\ OthersKeep(h)
        /\ \/ frame[h].pc = "rollback" /\ frame'[h].pc = "idle"
           \/ frame[h].pc = "release" /\ frame'[h].pc = "releaseTotal"
    BY <1>1, <2>1
  <2>3. \A n \in Models : Cardinality(Counted(n)') =
          IF n = m THEN Cardinality(Counted(n)) - 1 ELSE Cardinality(Counted(n))
    BY <2>2, LeaveCounted
  <2>4. InTotal' = InTotal
    BY <2>2, KeepTotal
  <2>5. active[m] # 0
    <3>1. h \in Counted(m) /\ IsFiniteSet(Counted(m))
      BY <2>2, FS_Subset DEF Counted
    <3> QED
      BY <1>0, <3>1, FS_EmptySet DEF GuardInv
  <2> QED
    BY <1>0, <2>1, <2>3, <2>4, <2>5 DEF GuardInv
<1>7. CASE ReleaseTotal(h)
  <2>1. /\ frame[h].pc = "releaseTotal" /\ Goto(h, "idle")
        /\ total' = total - 1 /\ active' = active
    BY <1>7 DEF ReleaseTotal
  <2>2. OthersKeep(h) /\ frame'[h].pc = "idle"
    BY <1>1, <2>1
  <2>3. \A n : Counted(n)' = Counted(n)
    BY <2>1, <2>2, KeepCounted
  <2>4. Cardinality(InTotal') = Cardinality(InTotal) - 1
    BY <2>1, <2>2, LeaveTotal
  <2>5. total # 0
    <3>1. h \in InTotal /\ IsFiniteSet(InTotal)
      BY <2>1, FS_Subset DEF InTotal
    <3> QED
      BY <3>1, FS_EmptySet DEF GuardInv
  <2> QED
    BY <1>0, <2>1, <2>3, <2>4, <2>5 DEF GuardInv
<1> QED
  BY <1>2, <1>3, <1>4, <1>5, <1>6, <1>7 DEF CountModel, CountTotal

-----------------------------------------------------------------------------
LEMMA InitGuard == Init => GuardInv
<1> SUFFICES ASSUME Init PROVE GuardInv
  OBVIOUS
<1>1. \A h \in Handlers : frame[h].pc = "idle"
  BY DEF Init, Idle
<1>2. InTotal = {} /\ \A m : Counted(m) = {}
  BY <1>1 DEF InTotal, Counted, TotalPoints, CountedPoints
<1>3. Cardinality(InTotal) = 0 /\ \A m : Cardinality(Counted(m)) = 0
  BY <1>2, FS_EmptySet
<1>4. active = [m \in Models |-> 0] /\ total = 0
  BY DEF Init
<1>5. active \in [Models -> Nat] /\ \A m \in Models : active[m] = 0
  BY <1>4
<1> QED
  BY <1>3, <1>4, <1>5, ManagerAssumption DEF GuardInv

LEMMA NextGuard ==
  ASSUME IsFiniteSet(Handlers), Inv, GuardInv, [Next]_vars
  PROVE  GuardInv'
<1>1. ASSUME UNCHANGED <<counters, frame>> PROVE GuardInv'
  BY <1>1 DEF GuardInv, Counted, InTotal, Model, counters
<1>2. ASSUME NEW h \in Handlers, NEW op \in Operations, NEW m \in Models,
             Begin(h, op, m)
      PROVE  GuardInv'
  <2> DEFINE p == IF op = "unload" THEN "check" ELSE "advise"
             f == [Idle(m) EXCEPT !.pc = p, !.op = op,
                                  !.loading = op \in {"load", "pin"}]
  <2>1. /\ frame[h].pc = "idle" /\ UNCHANGED counters
        /\ frame' = [frame EXCEPT ![h] = f]
    BY <1>2 DEF Begin, At
  <2>2. f.pc = p
    BY DEF Idle
  <2> HIDE DEF f
  <2>3. OthersKeep(h) /\ frame'[h].pc = p
    BY <2>1, <2>2 DEF OthersKeep, Inv, Shape, Frames
  <2> QED
    BY <2>1, <2>3, OutsideStep DEF Guarded, CountedPoints, TotalPoints
<1>3. ASSUME NEW m \in Models, Expire(m) \/ TrackExisting(m) \/ PinExisting(m)
      PROVE  GuardInv'
  BY <1>1, <1>3 DEF Expire, TrackExisting, PinExisting
<1>4. ASSUME NEW h \in Handlers, Handle(h) PROVE GuardInv'
  BY <1>4, BeforeGuard, OutsideGuard, WithGuard DEF Handle
<1>5. CASE UNCHANGED vars
  BY <1>1, <1>5 DEF vars
<1> QED
  BY <1>2, <1>3, <1>4, <1>5 DEF Next, Environment

(* The requests with the engine, and those to one model, never exceed their *)
(* limits: the check and the increment of the two counters are not one step *)
(* together, but each counter is the number of those who hold a place.      *)
THEOREM LimitsKeptCorrect ==
  ASSUME IsFiniteSet(Handlers) PROVE Spec => []LimitsKept
<1>1. GuardInv => LimitsKept
  <2> SUFFICES ASSUME GuardInv PROVE LimitsKept
    OBVIOUS
  <2>1. ASSUME NEW m \in Models
        PROVE  Cardinality({h \in WithEngine : Model(h) = m}) <= ModelLimit
    <3>1. {h \in WithEngine : Model(h) = m} \in SUBSET Counted(m)
      BY DEF WithEngine, Counted, At, CountedPoints
    <3>2. IsFiniteSet(Counted(m))
      BY FS_Subset DEF Counted
    <3>3. /\ Cardinality({h \in WithEngine : Model(h) = m})
               <= Cardinality(Counted(m))
          /\ Cardinality({h \in WithEngine : Model(h) = m}) \in Nat
      BY <3>1, <3>2, FS_Subset, FS_CardinalityType
    <3> QED
      BY <3>3, ManagerAssumption DEF GuardInv
  <2>2. Cardinality(WithEngine) <= TotalLimit
    <3>1. WithEngine \in SUBSET InTotal
      BY DEF WithEngine, InTotal, At, TotalPoints
    <3>2. IsFiniteSet(InTotal)
      BY FS_Subset DEF InTotal
    <3>3. /\ Cardinality(WithEngine) <= Cardinality(InTotal)
          /\ Cardinality(WithEngine) \in Nat
      BY <3>1, <3>2, FS_Subset, FS_CardinalityType
    <3> QED
      BY <3>3, ManagerAssumption DEF GuardInv
  <2> QED
    BY <2>1, <2>2 DEF LimitsKept
<1> QED
  BY InitInv, NextInv, InitGuard, NextGuard, <1>1, PTL DEF Spec

(* When no request is under way nothing is counted: a guard refused half    *)
(* way, and one dropped after an error, give back what they took.           *)
THEOREM GuardsReturnedCorrect ==
  ASSUME IsFiniteSet(Handlers) PROVE Spec => []GuardsReturned
<1>1. GuardInv => GuardsReturned
  <2> SUFFICES ASSUME GuardInv, AllIdle
               PROVE  total = 0 /\ \A m \in Models : active[m] = 0
    BY DEF GuardsReturned
  <2>1. InTotal = {} /\ \A m : Counted(m) = {}
    BY DEF AllIdle, At, InTotal, Counted, TotalPoints, CountedPoints
  <2> QED
    BY <2>1, FS_EmptySet DEF GuardInv
<1> QED
  BY InitInv, NextInv, InitGuard, NextGuard, <1>1, PTL DEF Spec

(* Every variable keeps its type and no model has two places in the order:  *)
(* retain takes out what is appended again, and no counter goes below zero, *)
(* because each is given back by a handler that holds a place of it.        *)
THEOREM TypeCorrect ==
  ASSUME IsFiniteSet(Handlers) PROVE Spec => []TypeOK
<1>1. Inv /\ Sched /\ GuardInv => TypeOK
  <2> SUFFICES ASSUME Inv, Sched, GuardInv PROVE TypeOK
    OBVIOUS
  <2>1. /\ loaded \in SUBSET Models /\ marked \in SUBSET Models
        /\ pinned \in SUBSET Models /\ engine \in SUBSET Models
        /\ frame \in [Handlers -> HandlerFrame]
    BY DEF Inv, Shape, Frames
  <2>2. /\ order \in Seq(Models)
        /\ \A i, j \in DOMAIN order : order[i] = order[j] => i = j
        /\ schedPinned \in SUBSET Models /\ alive \in SUBSET Models
        /\ twice \in SUBSET Models
        /\ registering \in [Models -> {"track", "pin", "done"}]
    BY DEF Sched, Distinct
  <2>3. active \in [Models -> Nat] /\ total \in Nat
    BY DEF GuardInv
  <2> QED
    BY <2>1, <2>2, <2>3 DEF TypeOK
<1> QED
  BY InitInv, NextInv, InitSched, NextSched, InitGuard, NextGuard, <1>1, PTL
     DEF Spec
=============================================================================
