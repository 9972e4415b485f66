------------------------- MODULE ModelManagerProofs -------------------------
(* Theorems about ModelManager, for every set of models and of handlers,   *)
(* every choice of requests and every limit.                               *)
EXTENDS ModelManager, FiniteSetTheorems, WellFoundedInduction, TLAPS

Frames == [Handlers -> HandlerFrame]

(* The part of TypeOK the theorems need.                                   *)
Shape ==
    /\ loaded \in SUBSET Models /\ marked \in SUBSET Models
    /\ pinned \in SUBSET Models /\ engine \in SUBSET Models
    /\ frame \in Frames

(* Between the engine's change of hands and the metadata's, a handler      *)
(* alone answers for its model: after the insertion and before the         *)
(* metadata says loaded, or after the metadata says unloaded and before    *)
(* remove_model.  A model that two handlers were adding at once is past    *)
(* help; of any other, at most one is about to be inserted.                *)
Holder(h) == At(h, "finalize") \/ At(h, "remove")
Held(h)   == IF At(h, "finalize") THEN Model(h) ELSE Target(h)

HeldInEngine ==
    \A h \in Handlers :
        Holder(h) /\ Held(h) \notin twice => Held(h) \in engine \ loaded
HeldAlone ==
    \A h, g \in Handlers :
        Holder(h) /\ Holder(g) /\ h # g /\ Held(h) \notin twice
            => Held(h) # Held(g)
InsertOutside ==
    \A h \in Handlers :
        At(h, "insert") /\ Model(h) \notin twice => Model(h) \notin engine
InsertAlone ==
    \A h, g \in Handlers :
        At(h, "insert") /\ At(g, "insert") /\ h # g
        /\ Model(h) \notin twice => Model(h) # Model(g)

Residence ==
    LoadedIsResident /\ HeldInEngine /\ HeldAlone
    /\ InsertOutside /\ InsertAlone

(* A handler past the first check of unload_model_internal has a target    *)
(* that was not configured as pinned, and no handler is about to take the  *)
(* pin of one that was.                                                    *)
PastCheck(h) == At(h, "checkActive") \/ At(h, "mark") \/ At(h, "remove")
Pins ==
    /\ Configured \subseteq marked /\ Configured \subseteq pinned
    /\ Configured \subseteq loaded /\ Configured \subseteq engine
    /\ \A h \in Handlers : PastCheck(h) => Target(h) \notin Configured
    /\ \A h \in Handlers :
         At(h, "setPin") /\ Model(h) \in Configured => frame[h].snapshot

Inv == Shape /\ Residence /\ Pins

-----------------------------------------------------------------------------
LEMMA AnyModelType == AnyModel \in Models
BY SchedulerAssumption DEF AnyModel

LEMMA IdleType ==
  ASSUME NEW m \in Models PROVE Idle(m) \in HandlerFrame
BY DEF Idle, Points, HandlerFrame

(* A handler's frame is replaced by another.                               *)
Replaces(h, f) ==
    /\ frame' \in Frames /\ frame'[h] = f
    /\ \A g \in Handlers \ {h} : frame'[g] = frame[g]

LEMMA FrameSet ==
  ASSUME Shape, NEW h \in Handlers, NEW f \in HandlerFrame,
         frame' = [frame EXCEPT ![h] = f]
  PROVE  Replaces(h, f)
BY DEF Shape, Frames, Replaces

(* Moves(h, p): handler h moves to p and keeps the rest of its frame,      *)
(* unless it has become idle.                                              *)
Moves(h, p) ==
    /\ frame' \in Frames
    /\ frame'[h].pc = p
    /\ p # "idle" => /\ frame'[h].model = frame[h].model
                     /\ frame'[h].target = frame[h].target
    /\ \A g \in Handlers \ {h} : frame'[g] = frame[g]

LEMMA GotoMoves ==
  ASSUME Shape, NEW h \in Handlers, NEW p \in Points, Goto(h, p)
  PROVE  Moves(h, p)
<1>1. CASE p = "idle"
  <2>1. frame' = [frame EXCEPT ![h] = Idle(AnyModel)]
    BY <1>1 DEF Goto
  <2>2. Replaces(h, Idle(AnyModel))
    BY <2>1, FrameSet, IdleType, AnyModelType
  <2> QED
    BY <1>1, <2>2 DEF Moves, Replaces, Idle
<1>2. CASE p # "idle"
  <2>1. frame' = [frame EXCEPT ![h].pc = p]
    BY <1>2 DEF Goto
  <2>2. frame' \in Frames
    BY <2>1 DEF Shape, Frames, HandlerFrame
  <2> QED
    BY <1>2, <2>1, <2>2 DEF Moves, Shape, Frames, HandlerFrame
<1> QED
  BY <1>1, <1>2

-----------------------------------------------------------------------------
(* Where a handler answers for a model, or has passed a check on it.       *)
Critical == {"checkActive", "mark", "remove", "insert", "finalize", "setPin"}
Quiet    == Points \ Critical

(* A step that leaves metadata and engine alone, and takes its handler to  *)
(* a point where it answers for nothing, or past a check its target has    *)
(* passed, keeps the invariant.                                            *)
LEMMA QuietStep ==
  ASSUME Inv, NEW h \in Handlers,
         loaded' = loaded, engine' = engine, twice' = twice,
         marked \subseteq marked', marked' \in SUBSET Models,
         pinned \subseteq pinned', pinned' \in SUBSET Models,
         frame' \in Frames,
         \A g \in Handlers \ {h} : frame'[g] = frame[g],
         \/ frame'[h].pc \in Quiet
         \/ /\ frame'[h].pc \in {"checkActive", "mark"}
            /\ frame'[h].target \notin Configured
  PROVE  Inv'
<1>1. frame'[h].pc \notin {"remove", "insert", "finalize", "setPin"}
  BY DEF Quiet, Critical
<1>2. Shape' /\ LoadedIsResident'
  BY DEF Inv, Shape, Residence, LoadedIsResident
<1>3. HeldInEngine'
  BY <1>1 DEF Inv, Residence, HeldInEngine, Holder, Held, At, Model, Target
<1>4. HeldAlone'
  BY <1>1 DEF Inv, Residence, HeldAlone, Holder, Held, At, Model, Target
<1>5. InsertOutside' /\ InsertAlone'
  BY <1>1 DEF Inv, Residence, InsertOutside, InsertAlone, At, Model
<1>6. Pins'
  <2>1. \A g \in Handlers : PastCheck(g)' => (Target(g) \notin Configured)'
    BY <1>1 DEF Inv, Pins, PastCheck, At, Target, Quiet, Critical
  <2>2. \A g \in Handlers :
          (At(g, "setPin") /\ Model(g) \in Configured => frame[g].snapshot)'
    BY <1>1 DEF Inv, Pins, At, Model
  <2> QED
    BY <2>1, <2>2 DEF Inv, Pins
<1> QED
  BY <1>2, <1>3, <1>4, <1>5, <1>6 DEF Inv, Residence

(* The common cases of it, with the pins left alone as well.               *)
LEMMA QuietReplace ==
  ASSUME Inv, NEW h \in Handlers, NEW f, Replaces(h, f), f.pc \in Quiet,
         UNCHANGED models
  PROVE  Inv'
<1>1. loaded' = loaded /\ engine' = engine /\ twice' = twice
      /\ marked' = marked /\ pinned' = pinned
  BY DEF models
<1>2. marked' \in SUBSET Models /\ pinned' \in SUBSET Models
  BY <1>1 DEF Inv, Shape
<1> QED
  BY <1>1, <1>2, QuietStep DEF Replaces

LEMMA QuietMove ==
  ASSUME Inv, NEW h \in Handlers, NEW p \in Quiet, UNCHANGED models, Goto(h, p)
  PROVE  Inv'
<1>1. Moves(h, p)
  BY GotoMoves DEF Inv, Quiet
<1>2. Replaces(h, frame'[h]) /\ frame'[h].pc \in Quiet
  BY <1>1 DEF Moves, Replaces
<1> QED
  BY <1>2, QuietReplace

LEMMA AfterUnloadQuiet == ASSUME NEW h PROVE AfterUnload(h) \in Quiet
BY DEF AfterUnload, Points, Quiet, Critical

(* What a step that changes metadata or engine leaves of the others.       *)
LEMMA OthersStay ==
  ASSUME NEW h \in Handlers,
         \A g \in Handlers \ {h} : frame'[g] = frame[g]
  PROVE  \A g \in Handlers \ {h} :
           /\ Holder(g)' <=> Holder(g)
           /\ Held(g)' = Held(g)
           /\ At(g, "insert")' <=> At(g, "insert")
           /\ Model(g)' = Model(g)
           /\ PastCheck(g)' <=> PastCheck(g)
           /\ Target(g)' = Target(g)
           /\ At(g, "setPin")' <=> At(g, "setPin")
           /\ frame'[g].snapshot = frame[g].snapshot
BY DEF Holder, Held, At, Target, Model, PastCheck

-----------------------------------------------------------------------------
LEMMA InitInv == Init => Inv
<1> SUFFICES ASSUME Init PROVE Inv
  OBVIOUS
<1>1. Idle(AnyModel).pc = "idle"
  BY DEF Idle
<1>2. frame \in Frames /\ \A h \in Handlers : At(h, "idle")
  BY <1>1, IdleType, AnyModelType DEF Init, Frames, At
<1>3. Shape /\ LoadedIsResident
  BY <1>2, ManagerAssumption DEF Init, Shape, LoadedIsResident
<1>4. HeldInEngine /\ HeldAlone /\ InsertOutside /\ InsertAlone
  BY <1>2 DEF HeldInEngine, HeldAlone, InsertOutside, InsertAlone, Holder, At
<1>5. Pins
  BY <1>2, ManagerAssumption DEF Init, Pins, PastCheck, At
<1> QED
  BY <1>3, <1>4, <1>5 DEF Inv, Residence

(* A step that changes nothing the invariant speaks of.                    *)
LEMMA Untouched == Inv /\ UNCHANGED <<models, frame>> => Inv'
BY DEF models, Inv, Shape, Residence, LoadedIsResident, HeldInEngine,
   HeldAlone, InsertOutside, InsertAlone, Pins, PastCheck, Holder, Held, At,
   Model, Target

(* A request comes, or time passes.                                        *)
LEMMA EnvironmentInv == Inv /\ Environment => Inv'
<1> SUFFICES ASSUME Inv, Environment PROVE Inv'
  OBVIOUS
<1>1. ASSUME NEW h \in Handlers, NEW op \in Operations, NEW m \in Models,
             Begin(h, op, m)
      PROVE  Inv'
  <2> DEFINE b == op \in {"load", "pin"}
             q == IF op = "unload" THEN "check" ELSE "advise"
             f == [Idle(m) EXCEPT !.pc = q, !.op = op, !.loading = b]
  <2>1. frame' = [frame EXCEPT ![h] = f]
    BY <1>1 DEF Begin
  <2>2. b \in BOOLEAN /\ q \in Quiet
        /\ op \in {"infer", "load", "pin", "unload"}
    BY ManagerAssumption DEF Points, Quiet, Critical
  <2> HIDE DEF b, q
  <2>3. f = [Idle(m) EXCEPT !.pc = q, !.op = op, !.loading = b]
    OBVIOUS
  <2> HIDE DEF f
  <2>4. f = [pc |-> q, op |-> op, model |-> m, loading |-> b,
             victims |-> {}, target |-> m, snapshot |-> FALSE,
             holds |-> FALSE]
    BY <2>3 DEF Idle
  <2>5. f \in HandlerFrame /\ f.pc \in Quiet
    BY <2>2, <2>4 DEF HandlerFrame, Quiet
  <2>6. UNCHANGED models
    BY <1>1 DEF Begin
  <2> QED
    BY <2>1, <2>5, <2>6, FrameSet, QuietReplace DEF Inv
<1>2. ASSUME NEW m \in Models, Expire(m) PROVE Inv'
  BY <1>2, Untouched DEF Expire
<1> QED
  BY <1>1, <1>2 DEF Environment

-----------------------------------------------------------------------------
(* apply_scheduler_advice.                                                 *)
LEMMA AdviceInv ==
  ASSUME Inv, NEW h \in Handlers,
         TakeAdvice(h) \/ EvictNext(h) \/ AdviceTaken(h)
  PROVE  Inv'
<1>1. frame[h] \in HandlerFrame
  BY DEF Inv, Shape, Frames
<1>2. UNCHANGED models
  BY DEF TakeAdvice, EvictNext, AdviceTaken
<1>3. CASE TakeAdvice(h)
  <2>1. PICK V \in SUBSET Models :
          frame' = [frame EXCEPT ![h].pc = "evict", ![h].victims = V]
    BY <1>3 DEF TakeAdvice
  <2> DEFINE f == [frame[h] EXCEPT !.pc = "evict", !.victims = V]
  <2>2. f \in HandlerFrame /\ f.pc \in Quiet
    BY <1>1 DEF HandlerFrame, Points, Quiet, Critical
  <2>3. frame' = [frame EXCEPT ![h] = f]
    BY <2>1 DEF Inv, Shape, Frames, HandlerFrame
  <2> QED
    BY <1>2, <2>2, <2>3, FrameSet, QuietReplace DEF Inv
<1>4. CASE EvictNext(h)
  <2>1. PICK m \in frame[h].victims :
          frame' = [frame EXCEPT ![h].pc = "check", ![h].target = m,
                                 ![h].victims = @ \ {m}]
    BY <1>4 DEF EvictNext
  <2> DEFINE f == [frame[h] EXCEPT !.pc = "check", !.target = m,
                                   !.victims = frame[h].victims \ {m}]
  <2>2. m \in Models /\ frame[h].victims \in SUBSET Models
    BY <1>1, <2>1 DEF HandlerFrame
  <2>3. f \in HandlerFrame /\ f.pc \in Quiet
    BY <1>1, <2>2 DEF HandlerFrame, Points, Quiet, Critical
  <2>4. frame' = [frame EXCEPT ![h] = f]
    BY <2>1 DEF Inv, Shape, Frames, HandlerFrame
  <2> QED
    BY <1>2, <2>3, <2>4, FrameSet, QuietReplace DEF Inv
<1>5. CASE AdviceTaken(h)
  <2> DEFINE p == IF frame[h].loading THEN "admit" ELSE "ensure"
             f == [frame[h] EXCEPT !.pc = p, !.target = Model(h)]
  <2>1. frame' = [frame EXCEPT ![h].pc = p, ![h].target = Model(h)]
    BY <1>5 DEF AdviceTaken
  <2>2. p \in Quiet
    BY DEF Points, Quiet, Critical
  <2> HIDE DEF p
  <2>3. f \in HandlerFrame /\ f.pc \in Quiet
    BY <1>1, <2>2 DEF HandlerFrame, Quiet, Model
  <2>4. frame' = [frame EXCEPT ![h] = f]
    BY <2>1 DEF Inv, Shape, Frames, HandlerFrame
  <2> QED
    BY <1>2, <2>3, <2>4, FrameSet, QuietReplace DEF Inv
<1> QED
  BY <1>3, <1>4, <1>5

(* unload_model_internal marks its target as not loaded.                   *)
LEMMA MarkInv ==
  ASSUME Inv, NEW h \in Handlers, MarkUnloaded(h), Target(h) \in loaded
  PROVE  Inv'
<1> DEFINE m == Target(h)
<1>1. /\ loaded' = loaded \ {m} /\ marked' = marked /\ pinned' = pinned
      /\ engine' = engine /\ twice' = twice /\ Goto(h, "remove")
  BY DEF MarkUnloaded
<1>2. Moves(h, "remove")
  BY <1>1, GotoMoves DEF Inv, Points
<1>3. m \notin Configured
  BY DEF Inv, Pins, PastCheck, MarkUnloaded
<1>4. m \notin twice => m \in engine
  BY DEF Inv, Residence, LoadedIsResident
<1>5. Shape' /\ LoadedIsResident'
  BY <1>1, <1>2 DEF Inv, Shape, Residence, LoadedIsResident, Moves
<1>6. /\ Holder(h)' /\ Held(h)' = m /\ ~At(h, "insert")'
      /\ ~At(h, "setPin")' /\ Target(h)' = m
  BY <1>2 DEF Moves, Holder, Held, At, Target
<1>7. \A g \in Handlers \ {h} : frame'[g] = frame[g]
  BY <1>2 DEF Moves
<1>8. HeldInEngine'
  BY <1>1, <1>4, <1>6, <1>7, OthersStay DEF Inv, Residence, HeldInEngine
<1>9. HeldAlone'
  <2>1. \A g \in Handlers \ {h} :
          Holder(g) /\ Held(g) \notin twice => Held(g) # m
    BY DEF Inv, Residence, HeldInEngine
  <2> QED
    BY <1>1, <1>6, <1>7, <2>1, OthersStay DEF Inv, Residence, HeldAlone
<1>10. InsertOutside' /\ InsertAlone'
  BY <1>1, <1>6, <1>7, OthersStay DEF Inv, Residence, InsertOutside,
     InsertAlone
<1>11. Pins'
  BY <1>1, <1>3, <1>6, <1>7, OthersStay DEF Inv, Pins
<1> QED
  BY <1>5, <1>8, <1>9, <1>10, <1>11 DEF Inv, Residence

(* The engine removes the target.                                          *)
LEMMA RemoveInv ==
  ASSUME Inv, NEW h \in Handlers, RemoveFromEngine(h) PROVE Inv'
<1> DEFINE m == Target(h)
<1>1. /\ engine' = engine \ {m} /\ loaded' = loaded /\ marked' = marked
      /\ pinned' = pinned /\ twice' = twice
      /\ At(h, "remove") /\ Goto(h, "forget")
  BY DEF RemoveFromEngine
<1>2. Moves(h, "forget")
  BY <1>1, GotoMoves DEF Inv, Points
<1>3. Holder(h) /\ Held(h) = m
  BY <1>1 DEF Holder, Held, At
<1>4. m \notin Configured /\ (m \notin twice => m \notin loaded)
  BY <1>1, <1>3 DEF Inv, Pins, PastCheck, Residence, HeldInEngine
<1>5. Shape' /\ LoadedIsResident'
  BY <1>1, <1>2, <1>4 DEF Inv, Shape, Residence, LoadedIsResident, Moves
<1>6. ~Holder(h)' /\ ~At(h, "insert")' /\ ~At(h, "setPin")' /\ ~PastCheck(h)'
  BY <1>2 DEF Moves, Holder, At, PastCheck
<1>7. \A g \in Handlers \ {h} : frame'[g] = frame[g]
  BY <1>2 DEF Moves
<1>8. \A g \in Handlers \ {h} :
        Holder(g) /\ Held(g) \notin twice => Held(g) # m
  BY <1>3 DEF Inv, Residence, HeldAlone
<1>9. HeldInEngine'
  BY <1>1, <1>6, <1>7, <1>8, OthersStay DEF Inv, Residence, HeldInEngine
<1>10. HeldAlone'
  BY <1>1, <1>6, <1>7, OthersStay DEF Inv, Residence, HeldAlone
<1>11. InsertOutside' /\ InsertAlone'
  BY <1>1, <1>6, <1>7, OthersStay DEF Inv, Residence, InsertOutside,
     InsertAlone
<1>12. Pins'
  BY <1>1, <1>4, <1>6, <1>7, OthersStay DEF Inv, Pins
<1> QED
  BY <1>5, <1>9, <1>10, <1>11, <1>12 DEF Inv, Residence

(* unload_model_internal.                                                  *)
LEMMA UnloadInv ==
  ASSUME Inv, NEW h \in Handlers,
         \/ CheckPinned(h) \/ CheckActive(h) \/ MarkUnloaded(h)
         \/ RemoveFromEngine(h) \/ RemovalRefused(h) \/ Forget(h)
  PROVE  Inv'
<1> USE AfterUnloadQuiet
<1>1. ASSUME NEW p \in {"checkActive", "mark"}, Goto(h, p), UNCHANGED models,
             Target(h) \notin Configured
      PROVE  Inv'
  <2>1. Moves(h, p)
    BY <1>1, GotoMoves DEF Inv, Points
  <2>2. /\ loaded' = loaded /\ engine' = engine /\ twice' = twice
        /\ marked' = marked /\ pinned' = pinned
    BY <1>1 DEF models
  <2>3. marked' \in SUBSET Models /\ pinned' \in SUBSET Models
    BY <2>2 DEF Inv, Shape
  <2>4. frame'[h].target \notin Configured
    BY <1>1, <2>1 DEF Moves, Target
  <2> QED
    BY <2>1, <2>2, <2>3, <2>4, QuietStep DEF Moves
<1>2. CASE CheckPinned(h)
  <2>1. CASE Target(h) \in pinned
    BY <1>2, <2>1, QuietMove DEF CheckPinned
  <2>2. CASE Target(h) \notin pinned
    BY <1>1, <1>2, <2>2 DEF CheckPinned, Inv, Pins
  <2> QED
    BY <2>1, <2>2
<1>3. CASE CheckActive(h)
  <2>1. CASE active[Target(h)] > 0
    BY <1>3, <2>1, QuietMove DEF CheckActive
  <2>2. CASE ~(active[Target(h)] > 0)
    BY <1>1, <1>3, <2>2 DEF CheckActive, Inv, Pins, PastCheck
  <2> QED
    BY <2>1, <2>2
<1>4. CASE MarkUnloaded(h)
  <2>1. CASE Target(h) \notin loaded
    <3>1. UNCHANGED models /\ Goto(h, AfterUnload(h))
      BY <1>4, <2>1 DEF MarkUnloaded, models
    <3> QED
      BY <3>1, QuietMove
  <2> QED
    BY <1>4, <2>1, MarkInv
<1>5. CASE RemovalRefused(h)
  BY <1>5, QuietMove DEF RemovalRefused
<1>6. CASE Forget(h)
  BY <1>6, QuietMove DEF Forget
<1> QED
  BY <1>2, <1>3, <1>4, <1>5, <1>6, RemoveInv

-----------------------------------------------------------------------------
(* The engine starts to add a model it has just not found.                 *)
LEMMA AddInv == ASSUME Inv, NEW h \in Handlers, AddToEngine(h) PROVE Inv'
<1> DEFINE m == Model(h)
<1>1. /\ m \notin engine /\ engine' = engine /\ loaded' = loaded
      /\ marked' = marked /\ pinned' = pinned /\ Goto(h, "insert")
  BY DEF AddToEngine
<1>2. Moves(h, "insert")
  BY <1>1, GotoMoves DEF Inv, Points
<1>3. twice \subseteq twice'
  BY DEF AddToEngine
<1>4. m \notin twice' =>
        \A g \in Handlers : At(g, "insert") => Model(g) # m
  BY DEF AddToEngine
<1>5. Shape' /\ LoadedIsResident'
  BY <1>1, <1>2, <1>3 DEF Inv, Shape, Residence, LoadedIsResident, Moves
<1>6. /\ ~Holder(h)' /\ Model(h)' = m /\ ~At(h, "setPin")'
      /\ ~PastCheck(h)'
  BY <1>2 DEF Moves, Holder, At, PastCheck, Model
<1>7. \A g \in Handlers \ {h} : frame'[g] = frame[g]
  BY <1>2 DEF Moves
<1>8. HeldInEngine' /\ HeldAlone'
  BY <1>1, <1>3, <1>6, <1>7, OthersStay DEF Inv, Residence, HeldInEngine,
     HeldAlone
<1>9. InsertOutside'
  BY <1>1, <1>3, <1>6, <1>7, OthersStay DEF Inv, Residence, InsertOutside
<1>10. InsertAlone'
  BY <1>3, <1>4, <1>6, <1>7, OthersStay DEF Inv, Residence, InsertAlone
<1>11. Pins'
  BY <1>1, <1>6, <1>7, OthersStay DEF Inv, Pins
<1> QED
  BY <1>5, <1>8, <1>9, <1>10, <1>11 DEF Inv, Residence

(* The engine inserts it.                                                  *)
LEMMA InsertInv ==
  ASSUME Inv, NEW h \in Handlers, InsertIntoEngine(h) PROVE Inv'
<1> DEFINE m == Model(h)
<1>m. m \in Models
  BY DEF Inv, Shape, Frames, HandlerFrame, Model
<1>1. /\ At(h, "insert") /\ engine' = engine \cup {m} /\ loaded' = loaded
      /\ marked' = marked /\ pinned' = pinned /\ twice' = twice
      /\ Goto(h, "finalize")
  BY DEF InsertIntoEngine
<1>2. Moves(h, "finalize")
  BY <1>1, GotoMoves DEF Inv, Points
<1>3. m \notin twice => m \notin engine /\ m \notin loaded
  BY <1>1 DEF Inv, Residence, InsertOutside, LoadedIsResident
<1>4. Shape' /\ LoadedIsResident'
  BY <1>m, <1>1, <1>2 DEF Inv, Shape, Residence, LoadedIsResident, Moves
<1>5. /\ Holder(h)' /\ Held(h)' = m /\ ~At(h, "insert")'
      /\ ~At(h, "setPin")' /\ ~PastCheck(h)'
  BY <1>2 DEF Moves, Holder, Held, At, PastCheck, Model
<1>6. \A g \in Handlers \ {h} : frame'[g] = frame[g]
  BY <1>2 DEF Moves
<1>7. HeldInEngine'
  BY <1>1, <1>3, <1>5, <1>6, OthersStay DEF Inv, Residence, HeldInEngine
<1>8. HeldAlone'
  <2>1. \A g \in Handlers \ {h} :
          Holder(g) /\ Held(g) \notin twice => Held(g) # m
    BY <1>3 DEF Inv, Residence, HeldInEngine
  <2> QED
    BY <1>1, <1>5, <1>6, <2>1, OthersStay DEF Inv, Residence, HeldAlone
<1>9. InsertOutside'
  <2>1. \A g \in Handlers \ {h} :
          At(g, "insert") /\ Model(g) \notin twice => Model(g) # m
    BY <1>1 DEF Inv, Residence, InsertAlone
  <2> QED
    BY <1>1, <1>5, <1>6, <2>1, OthersStay DEF Inv, Residence, InsertOutside
<1>10. InsertAlone'
  BY <1>1, <1>5, <1>6, OthersStay DEF Inv, Residence, InsertAlone
<1>11. Pins'
  BY <1>1, <1>5, <1>6, OthersStay DEF Inv, Pins
<1> QED
  BY <1>4, <1>7, <1>8, <1>9, <1>10, <1>11 DEF Inv, Residence

(* finalize_model_load writes the metadata.                                *)
LEMMA FinalizeInv ==
  ASSUME Inv, NEW h \in Handlers, Finalize(h) PROVE Inv'
<1> DEFINE m == Model(h)
<1>m. m \in Models
  BY DEF Inv, Shape, Frames, HandlerFrame, Model
<1>1. /\ At(h, "finalize") /\ loaded' = loaded \cup {m} /\ engine' = engine
      /\ pinned' = pinned /\ twice' = twice /\ marked \subseteq marked'
      /\ marked' \in SUBSET Models
  BY <1>m DEF Finalize, Inv, Shape
<1> DEFINE s == m \in marked'
           f == [frame[h] EXCEPT !.pc = "setPin", !.snapshot = s]
<1>2. frame' = [frame EXCEPT ![h].pc = "setPin", ![h].snapshot = s]
  BY DEF Finalize
<1>3. s \in BOOLEAN /\ (m \in Configured => s)
  BY <1>1 DEF Inv, Pins
<1> HIDE DEF s
<1>4. frame[h] \in HandlerFrame
  BY DEF Inv, Shape, Frames
<1>5. /\ f \in HandlerFrame /\ f.pc = "setPin" /\ f.snapshot = s
      /\ f.model = m
  BY <1>3, <1>4 DEF HandlerFrame, Points, Model
<1>6. frame' = [frame EXCEPT ![h] = f]
  BY <1>2 DEF Inv, Shape, Frames, HandlerFrame
<1> HIDE DEF f
<1>7. Replaces(h, f)
  BY <1>5, <1>6, FrameSet DEF Inv
<1>8. Holder(h) /\ Held(h) = m
  BY <1>1 DEF Holder, Held
<1>9. m \notin twice => m \in engine
  BY <1>8 DEF Inv, Residence, HeldInEngine
<1>10. Shape' /\ LoadedIsResident'
  BY <1>m, <1>1, <1>7, <1>9 DEF Inv, Shape, Residence, LoadedIsResident,
     Replaces
<1>11. /\ ~Holder(h)' /\ ~At(h, "insert")' /\ ~PastCheck(h)'
       /\ Model(h)' = m /\ frame'[h].snapshot = s
  BY <1>5, <1>7 DEF Replaces, Holder, At, PastCheck, Model
<1>12. \A g \in Handlers \ {h} : frame'[g] = frame[g]
  BY <1>7 DEF Replaces
<1>13. \A g \in Handlers \ {h} :
         Holder(g) /\ Held(g) \notin twice => Held(g) # m
  BY <1>8 DEF Inv, Residence, HeldAlone
<1>14. HeldInEngine'
  BY <1>1, <1>11, <1>12, <1>13, OthersStay DEF Inv, Residence, HeldInEngine
<1>15. HeldAlone' /\ InsertOutside' /\ InsertAlone'
  BY <1>1, <1>11, <1>12, OthersStay DEF Inv, Residence, HeldAlone,
     InsertOutside, InsertAlone
<1>16. Pins'
  BY <1>1, <1>3, <1>11, <1>12, OthersStay DEF Inv, Pins
<1> QED
  BY <1>10, <1>14, <1>15, <1>16 DEF Inv, Residence

(* It sets the manager's pin from its copy of the metadata.                *)
LEMMA SetManagerPinInv ==
  ASSUME Inv, NEW h \in Handlers, SetManagerPin(h) PROVE Inv'
<1> DEFINE m == Model(h)
<1>m. m \in Models
  BY DEF Inv, Shape, Frames, HandlerFrame, Model
<1>1. /\ At(h, "setPin") /\ loaded' = loaded /\ engine' = engine
      /\ marked' = marked /\ twice' = twice /\ Goto(h, "track")
      /\ pinned' = IF frame[h].snapshot THEN pinned \cup {m} ELSE pinned \ {m}
  BY DEF SetManagerPin
<1>2. Moves(h, "track")
  BY <1>1, GotoMoves DEF Inv, Points
<1>3. Configured \subseteq pinned' /\ pinned' \in SUBSET Models
  BY <1>m, <1>1 DEF Inv, Shape, Pins
<1>4. Shape' /\ LoadedIsResident'
  BY <1>1, <1>2, <1>3 DEF Inv, Shape, Residence, LoadedIsResident, Moves
<1>5. ~Holder(h)' /\ ~At(h, "insert")' /\ ~At(h, "setPin")' /\ ~PastCheck(h)'
  BY <1>2 DEF Moves, Holder, At, PastCheck
<1>6. \A g \in Handlers \ {h} : frame'[g] = frame[g]
  BY <1>2 DEF Moves
<1>7. HeldInEngine' /\ HeldAlone' /\ InsertOutside' /\ InsertAlone'
  BY <1>1, <1>5, <1>6, OthersStay DEF Inv, Residence, HeldInEngine, HeldAlone,
     InsertOutside, InsertAlone
<1>8. Pins'
  BY <1>1, <1>3, <1>5, <1>6, OthersStay DEF Inv, Pins
<1> QED
  BY <1>4, <1>7, <1>8 DEF Inv, Residence

(* ensure_engine_has_model and the rest of load_model.                     *)
LEMMA LoadInv ==
  ASSUME Inv, NEW h \in Handlers,
         \/ EnsureEngine(h) \/ Admit(h) \/ Refresh(h) \/ AddFails(h)
         \/ Track(h) \/ SetSchedulerPin(h)
  PROVE  Inv'
<1> DEFINE m == Model(h)
<1>f. frame[h] \in HandlerFrame
  BY DEF Inv, Shape, Frames
<1>m. m \in Models
  BY <1>f DEF HandlerFrame, Model
<1>1. CASE EnsureEngine(h)
  <2>1. UNCHANGED models
    BY <1>1 DEF EnsureEngine
  <2>2. CASE Goto(h, "touch")
    BY <2>1, <2>2, QuietMove DEF Points, Quiet, Critical
  <2>3. CASE frame' = [frame EXCEPT ![h].pc = "advise", ![h].loading = TRUE]
    <3> DEFINE f == [frame[h] EXCEPT !.pc = "advise", !.loading = TRUE]
    <3>1. f \in HandlerFrame /\ f.pc \in Quiet
      BY <1>f DEF HandlerFrame, Points, Quiet, Critical
    <3>2. frame' = [frame EXCEPT ![h] = f]
      BY <2>3 DEF Inv, Shape, Frames, HandlerFrame
    <3> QED
      BY <2>1, <3>1, <3>2, FrameSet, QuietReplace DEF Inv
  <2> QED
    BY <1>1, <2>2, <2>3 DEF EnsureEngine
<1>2. CASE Admit(h)
  <2>1. (IF m \in Oversized THEN "idle"
         ELSE IF m \in loaded THEN "refresh" ELSE "add") \in Quiet
    BY DEF Points, Quiet, Critical
  <2> QED
    BY <1>2, <2>1, QuietMove DEF Admit
<1>3. CASE Refresh(h)
  <2> DEFINE s == m \in marked'
             f == [frame[h] EXCEPT !.pc = "track", !.holds = TRUE,
                                   !.snapshot = s]
  <2>1. frame' = [frame EXCEPT ![h].pc = "track", ![h].holds = TRUE,
                               ![h].snapshot = s]
    BY <1>3 DEF Refresh
  <2>2. s \in BOOLEAN
    OBVIOUS
  <2> HIDE DEF s
  <2>3. f \in HandlerFrame /\ f.pc \in Quiet
    BY <1>f, <2>2 DEF HandlerFrame, Points, Quiet, Critical
  <2>4. frame' = [frame EXCEPT ![h] = f]
    BY <2>1 DEF Inv, Shape, Frames, HandlerFrame
  <2> HIDE DEF f
  <2>5. Replaces(h, f)
    BY <2>3, <2>4, FrameSet DEF Inv
  <2>6. loaded' = loaded /\ engine' = engine /\ twice' = twice
    BY <1>3 DEF Refresh
  <2>7. /\ marked \subseteq marked' /\ marked' \in SUBSET Models
        /\ pinned \subseteq pinned' /\ pinned' \in SUBSET Models
    BY <1>3, <1>m DEF Refresh, Inv, Shape
  <2> QED
    BY <2>3, <2>5, <2>6, <2>7, QuietStep DEF Replaces
<1>4. CASE AddFails(h)
  BY <1>4, QuietMove DEF AddFails, Points, Quiet, Critical
<1>5. CASE Track(h)
  BY <1>5, QuietMove DEF Track, Points, Quiet, Critical
<1>6. CASE SetSchedulerPin(h)
  <2> DEFINE f == IF frame[h].op # "infer" THEN Idle(AnyModel)
                  ELSE [Idle(Model(h)) EXCEPT !.pc = "touch"]
  <2>1. frame' = [frame EXCEPT ![h] = f] /\ UNCHANGED models
    BY <1>6 DEF SetSchedulerPin
  <2>2. Idle(AnyModel) \in HandlerFrame /\ Idle(AnyModel).pc \in Quiet
    BY IdleType, AnyModelType DEF Idle, Points, Quiet, Critical
  <2>3. /\ [Idle(Model(h)) EXCEPT !.pc = "touch"] \in HandlerFrame
        /\ [Idle(Model(h)) EXCEPT !.pc = "touch"].pc \in Quiet
    BY <1>m DEF Idle, HandlerFrame, Points, Quiet, Critical
  <2>4. f \in HandlerFrame /\ f.pc \in Quiet
    BY <2>2, <2>3
  <2> HIDE DEF f
  <2> QED
    BY <2>1, <2>4, FrameSet, QuietReplace DEF Inv
<1> QED
  BY <1>1, <1>2, <1>3, <1>4, <1>5, <1>6

-----------------------------------------------------------------------------
(* The inference itself touches neither metadata nor engine.               *)
LEMMA InferInv ==
  ASSUME Inv, NEW h \in Handlers,
         \/ Touch(h) \/ CountModel(h) \/ CountTotal(h) \/ Rollback(h)
         \/ Send(h) \/ Respond(h) \/ ReleaseModel(h) \/ ReleaseTotal(h)
  PROVE  Inv'
<1>1. UNCHANGED models
  BY DEF Touch, CountModel, CountTotal, Rollback, Send, Respond,
     ReleaseModel, ReleaseTotal, models
<1>2. \E p \in {"count", "countTotal", "idle", "send", "rollback", "respond",
                "release", "releaseTotal"} : Goto(h, p)
  BY DEF Touch, CountModel, CountTotal, Rollback, Send, Respond,
     ReleaseModel, ReleaseTotal
<1>3. PICK p \in Quiet : Goto(h, p)
  BY <1>2 DEF Points, Quiet, Critical
<1> QED
  BY <1>1, <1>3, QuietMove

LEMMA NextInv == Inv /\ [Next]_vars => Inv'
<1> SUFFICES ASSUME Inv, [Next]_vars PROVE Inv'
  OBVIOUS
<1>1. CASE Environment
  BY <1>1, EnvironmentInv
<1>2. ASSUME NEW m \in Models, TrackExisting(m) \/ PinExisting(m) PROVE Inv'
  BY <1>2, Untouched DEF TrackExisting, PinExisting
<1>3. ASSUME NEW h \in Handlers, Handle(h) PROVE Inv'
  BY <1>3, AdviceInv, UnloadInv, AddInv, InsertInv, FinalizeInv,
     SetManagerPinInv, LoadInv, InferInv DEF Handle
<1>4. CASE UNCHANGED vars
  BY <1>4, Untouched DEF vars
<1> QED
  BY <1>1, <1>2, <1>3, <1>4 DEF Next

(* The metadata says loaded of a model the engine does not hold only where *)
(* two handlers were adding it at once, whatever loads, unloads and        *)
(* evictions race: load_model and unload_model_internal each change the    *)
(* engine while the metadata says unloaded, and no two handlers are        *)
(* between the two for the same model.                                     *)
THEOREM LoadedIsResidentCorrect == Spec => []LoadedIsResident
<1>1. Inv => LoadedIsResident
  BY DEF Inv, Residence
<1> QED
  BY InitInv, NextInv, <1>1, PTL DEF Spec

(* A model configured as pinned is never evicted or unloaded: no copy of   *)
(* its metadata ever says unpinned, so the manager keeps its pin and the   *)
(* check of unload_model_internal stays true until the model is removed.   *)
THEOREM ConfiguredStaysCorrect == Spec => []ConfiguredStays
<1>1. Inv => ConfiguredStays
  BY DEF Inv, Pins, ConfiguredStays
<1> QED
  BY InitInv, NextInv, <1>1, PTL DEF Spec

-----------------------------------------------------------------------------
(* What retain leaves of the order: the n-th element kept is at the least   *)
(* index up to which n are kept.                                            *)
LEMMA LeastOf ==
  ASSUME NEW S \in SUBSET Nat, S # {}
  PROVE  \E x \in S : \A y \in S : x <= y
<1> DEFINE R == OpToRel(<, Nat)
<1>1. \E x \in S : \A y \in S : ~ (<<y, x>> \in R)
  BY NatLessThanWellFounded, WFMin, Zenon
<1>2. \A x \in S : \A y \in S : y < x => <<y, x>> \in R
  BY Zenon DEF OpToRel
<1> HIDE DEF R
<1>3. \E x \in S : \A y \in S : ~ (y < x)
  BY <1>1, <1>2
<1> QED
  BY <1>3

Upto(K, i) == {j \in K : j <= i}

LEMMA NthIs ==
  ASSUME NEW N \in Nat, NEW K \in SUBSET (1..N), NEW n \in 1..Cardinality(K)
  PROVE  \E i \in K : Cardinality(Upto(K, i)) = n
<1>0. IsFiniteSet(1..N)
  BY FS_Interval
<1>1. IsFiniteSet(K) /\ Cardinality(K) \in Nat
  BY <1>0, FS_Subset, FS_CardinalityType
<1>2. \A i \in Nat : Cardinality(Upto(K, i)) \in Nat /\ IsFiniteSet(Upto(K, i))
  BY <1>1, FS_Subset, FS_CardinalityType DEF Upto
<1> DEFINE A == {i \in 0..N : n <= Cardinality(Upto(K, i))}
<1>3. \A j \in K : j \in Nat /\ 1 <= j /\ j <= N
  OBVIOUS
<1>4. Upto(K, N) = K
  <2>1. \A j : j \in Upto(K, N) <=> j \in K
    BY <1>3 DEF Upto
  <2> QED
    BY <2>1
<1>5. N \in A
  BY <1>1, <1>4
<1>6. PICK k \in A : \A i \in A : k <= i
  <2>1. A \in SUBSET Nat /\ A # {}
    BY <1>5
  <2> HIDE DEF A
  <2> QED
    BY <2>1, LeastOf
<1>7. k # 0
  <2>0. \A j \in K : ~ (j <= 0)
    BY <1>3
  <2>1. \A j : j \notin Upto(K, 0)
    BY <2>0 DEF Upto
  <2>2. Upto(K, 0) = {}
    BY <2>1
  <2>3. Cardinality(Upto(K, 0)) = 0
    BY <2>2, FS_EmptySet
  <2> QED
    BY <1>1, <2>3
<1>8. /\ k \in Nat /\ k - 1 \in Nat /\ k - 1 < k /\ k <= N
      /\ n <= Cardinality(Upto(K, k))
  BY <1>6, <1>7
<1>9. Cardinality(Upto(K, k - 1)) < n
  BY <1>1, <1>2, <1>6, <1>8
<1>10. k \in K
  <2>1. ASSUME k \notin K PROVE FALSE
    <3>0. \A j \in K : j <= k <=> j <= k - 1
      <4>1. \A j \in K : j # k
        BY <2>1
      <4> QED
        BY <1>3, <1>8, <4>1
    <3>1. \A j : j \in Upto(K, k) <=> j \in Upto(K, k - 1)
      BY <3>0 DEF Upto
    <3>2. Upto(K, k) = Upto(K, k - 1)
      BY <3>1
    <3> QED
      BY <1>1, <1>2, <1>8, <1>9, <3>2
  <2> QED
    BY <2>1
<1>11. Cardinality(Upto(K, k)) = Cardinality(Upto(K, k - 1)) + 1
  <2>0. \A j \in K : j <= k <=> j <= k - 1 \/ j = k
    BY <1>3, <1>8
  <2>1. \A j : j \in Upto(K, k) <=> j \in Upto(K, k - 1) \/ j = k
    BY <1>8, <1>10, <2>0 DEF Upto
  <2>2. k \notin Upto(K, k - 1)
    BY <1>8 DEF Upto
  <2>3. Upto(K, k) = Upto(K, k - 1) \cup {k}
    BY <2>1
  <2>4. IsFiniteSet(Upto(K, k - 1))
    BY <1>2, <1>8
  <2> QED
    BY <2>2, <2>3, <2>4, FS_AddElement
<1> QED
  BY <1>1, <1>2, <1>8, <1>9, <1>10, <1>11

Distinct(q) == \A i, j \in DOMAIN q : q[i] = q[j] => i = j

LEMMA WithoutIs ==
  ASSUME NEW q \in Seq(Models), Distinct(q), NEW S
  PROVE  /\ Without(q, S) \in Seq(Models) /\ Distinct(Without(q, S))
         /\ \A n \in DOMAIN Without(q, S) : Without(q, S)[n] \notin S
<1> DEFINE K      == {i \in DOMAIN q : q[i] \notin S}
           nth(n) == CHOOSE i \in K : Cardinality(Upto(K, i)) = n
           r      == [n \in 1..Cardinality(K) |-> q[nth(n)]]
<1>1. Without(q, S) = r
  BY DEF Without, Upto
<1>2. Len(q) \in Nat /\ K \in SUBSET (1..Len(q))
  OBVIOUS
<1>3. Cardinality(K) \in Nat
  <2> HIDE DEF K
  <2>1. IsFiniteSet(1..Len(q))
    BY <1>2, FS_Interval
  <2> QED
    BY <1>2, <2>1, FS_Subset, FS_CardinalityType
<1>4. \A i \in K : q[i] \in Models /\ q[i] \notin S
  OBVIOUS
<1>5. ASSUME NEW n \in 1..Cardinality(K)
      PROVE  nth(n) \in K /\ Cardinality(Upto(K, nth(n))) = n
  <2> HIDE DEF K
  <2>1. \E i \in K : Cardinality(Upto(K, i)) = n
    BY <1>2, NthIs
  <2> QED
    BY <2>1
<1>6. \A i, j \in K : q[i] = q[j] => i = j
  BY DEF Distinct
<1> HIDE DEF K, nth
<1>7. r \in Seq(Models) /\ DOMAIN r = 1..Cardinality(K)
  BY <1>3, <1>4, <1>5
<1>8. \A n \in 1..Cardinality(K) : r[n] = q[nth(n)]
  OBVIOUS
<1> HIDE DEF r
<1>9. Distinct(r)
  <2>1. ASSUME NEW m \in DOMAIN r, NEW n \in DOMAIN r, r[m] = r[n]
        PROVE  m = n
    <3>1. nth(m) = nth(n)
      BY <1>5, <1>6, <1>7, <1>8, <2>1
    <3> QED
      BY <1>5, <1>7, <3>1
  <2> QED
    BY <2>1 DEF Distinct
<1> QED
  BY <1>1, <1>4, <1>5, <1>7, <1>8, <1>9

(* The scheduler's order and what else Shape says nothing of.               *)
Sched ==
    /\ order \in Seq(Models) /\ Distinct(order)
    /\ schedPinned \in SUBSET Models /\ alive \in SUBSET Models
    /\ twice \in SUBSET Models
    /\ registering \in [Models -> {"track", "pin", "done"}]

LEMMA InitSched == Init => Sched
<1> SUFFICES ASSUME Init PROVE Sched
  OBVIOUS
<1> DEFINE M == Models \ Delayed
           n == Cardinality(M)
<1>1. n \in Nat
  BY SchedulerAssumption, FS_Subset, FS_CardinalityType
<1>2. order \in [1..n -> M] /\ Distinct(order)
  BY DEF Init, Distinct
<1> HIDE DEF n
<1>3. order \in Seq(Models)
  BY <1>1, <1>2
<1> QED
  BY <1>2, <1>3, ManagerAssumption DEF Init, Sched

LEMMA TouchSched ==
  ASSUME Sched, NEW m \in Models, RegisterActivity(m)
  PROVE  order' \in Seq(Models) /\ Distinct(order')
<1> DEFINE r == Without(order, {m})
<1>1. r \in Seq(Models) /\ Distinct(r) /\ \A n \in DOMAIN r : r[n] # m
  BY WithoutIs DEF Sched
<1>2. order' = Append(r, m)
  BY DEF RegisterActivity
<1> HIDE DEF r
<1>3. order' \in Seq(Models)
  BY <1>1, <1>2
<1>4. ASSUME NEW i \in DOMAIN order', NEW j \in DOMAIN order',
             order'[i] = order'[j]
      PROVE  i = j
  <2>1. /\ Len(r) \in Nat /\ DOMAIN r = 1..Len(r)
        /\ DOMAIN order' = 1..Len(r) + 1 /\ order'[Len(r) + 1] = m
        /\ \A n \in 1..Len(r) : order'[n] = r[n]
    BY <1>1, <1>2
  <2> QED
    BY <1>1, <1>4, <2>1 DEF Distinct
<1> QED
  BY <1>3, <1>4 DEF Distinct

LEMMA NextSched == Inv /\ Sched /\ [Next]_vars => Sched'
<1> SUFFICES ASSUME Inv, Sched, [Next]_vars PROVE Sched'
  OBVIOUS
<1> DEFINE kept == order' \in Seq(Models) /\ Distinct(order')
<1>1. \A h \in Handlers : Model(h) \in Models /\ Target(h) \in Models
  BY DEF Inv, Shape, Frames, HandlerFrame, Model, Target
<1>2. ASSUME UNCHANGED <<scheduler, twice, registering>> PROVE Sched'
  BY <1>2 DEF Sched, Distinct, scheduler
<1>3. ASSUME kept, UNCHANGED <<schedPinned, alive, twice, registering>>
      PROVE  Sched'
  BY <1>3 DEF Sched
<1>4. ASSUME NEW m \in Models, TrackExisting(m) PROVE Sched'
  <2>1. kept
    BY <1>4, TouchSched DEF TrackExisting
  <2>2. /\ UNCHANGED <<schedPinned, alive, twice>>
        /\ registering' = [registering EXCEPT ![m] = "pin"]
    BY <1>4 DEF TrackExisting, models
  <2>3. registering' \in [Models -> {"track", "pin", "done"}]
    BY <2>2 DEF Sched
  <2> QED
    BY <2>1, <2>2, <2>3 DEF Sched
<1>5. ASSUME NEW m \in Models, PinExisting(m) PROVE Sched'
  <2>1. order' = order /\ alive' = alive /\ twice' = twice
    BY <1>5 DEF PinExisting, models
  <2>2. registering' \in [Models -> {"track", "pin", "done"}]
    BY <1>5 DEF PinExisting, Sched
  <2>3. schedPinned' \in SUBSET Models
    BY <1>5 DEF PinExisting, SetPin, Sched
  <2> QED
    BY <2>1, <2>2, <2>3 DEF Sched
<1>6. ASSUME NEW m \in Models, Expire(m) PROVE Sched'
  BY <1>6 DEF Expire, Sched, models
<1>7. ASSUME NEW h \in Handlers, TakeAdvice(h) PROVE Sched'
  <2>1. PICK V \in SUBSET Models : order' = Without(order, V)
    BY <1>7 DEF TakeAdvice, AdviseEvict
  <2>2. kept
    BY <2>1, WithoutIs DEF Sched
  <2> QED
    BY <1>3, <1>7, <2>2 DEF TakeAdvice, models
<1>8. ASSUME NEW h \in Handlers, Track(h) \/ Touch(h) PROVE Sched'
  <2>1. kept
    BY <1>1, <1>8, TouchSched DEF Track, Touch
  <2> QED
    BY <1>3, <1>8, <2>1 DEF Track, Touch, models
<1>9. ASSUME NEW h \in Handlers, Forget(h) PROVE Sched'
  <2>1. kept
    BY <1>9, WithoutIs DEF Forget, OnModelUnloaded, Sched
  <2> QED
    BY <1>9, <2>1 DEF Forget, OnModelUnloaded, Sched, models
<1>10. ASSUME NEW h \in Handlers, SetSchedulerPin(h) PROVE Sched'
  <2>1. schedPinned' \in SUBSET Models
    BY <1>1, <1>10 DEF SetSchedulerPin, SetPin, Sched
  <2> QED
    BY <1>10, <2>1 DEF SetSchedulerPin, Sched, models
<1>11. ASSUME NEW h \in Handlers, AddToEngine(h) PROVE Sched'
  BY <1>1, <1>11 DEF AddToEngine, Sched, scheduler
<1>12. ASSUME NEW h \in Handlers,
              \/ EvictNext(h) \/ AdviceTaken(h) \/ CheckPinned(h)
              \/ CheckActive(h) \/ MarkUnloaded(h) \/ RemoveFromEngine(h)
              \/ RemovalRefused(h)
       PROVE  Sched'
  <2>1. UNCHANGED <<scheduler, twice, registering>>
    BY <1>12 DEF EvictNext, AdviceTaken, CheckPinned, CheckActive, MarkUnloaded,
       RemoveFromEngine, RemovalRefused, models
  <2> QED
    BY <1>2, <2>1
<1>13. ASSUME NEW h \in Handlers,
              \/ EnsureEngine(h) \/ Admit(h) \/ Refresh(h)
              \/ InsertIntoEngine(h) \/ AddFails(h) \/ Finalize(h)
              \/ SetManagerPin(h)
       PROVE  Sched'
  <2>1. UNCHANGED <<scheduler, twice, registering>>
    BY <1>13 DEF EnsureEngine, Admit, Refresh, InsertIntoEngine, AddFails,
       Finalize, SetManagerPin, models
  <2> QED
    BY <1>2, <2>1
<1>14. ASSUME NEW h \in Handlers,
              \/ CountModel(h) \/ CountTotal(h) \/ Rollback(h) \/ Send(h)
              \/ Respond(h) \/ ReleaseModel(h) \/ ReleaseTotal(h)
       PROVE  Sched'
  <2>1. UNCHANGED <<scheduler, twice, registering>>
    BY <1>14 DEF CountModel, CountTotal, Rollback, Send, Respond, ReleaseModel,
       ReleaseTotal, models
  <2> QED
    BY <1>2, <2>1
<1>15. ASSUME NEW h \in Handlers, NEW op \in Operations, NEW m \in Models,
              Begin(h, op, m)
       PROVE  Sched'
  BY <1>2, <1>15 DEF Begin, models
<1>16. CASE UNCHANGED vars
  BY <1>2, <1>16 DEF vars, models
<1>17. ASSUME NEW h \in Handlers, Handle(h) PROVE Sched'
  BY <1>7, <1>8, <1>9, <1>10, <1>11, <1>12, <1>13, <1>14, <1>17 DEF Handle
<1> QED
  BY <1>4, <1>5, <1>6, <1>15, <1>16, <1>17 DEF Next, Environment
=============================================================================
