---------------------------- MODULE ModelManager ----------------------------
(***************************************************************************)
(* MistralModelManager (mistralrs-server-core) above the LRU scheduler and *)
(* the engine.  Every HTTP request runs one handler, and the handlers      *)
(* share the manager through maps and counters that are each safe to use   *)
(* alone.  A step ends wherever another handler can see the difference:    *)
(* between accesses of two of them, and at every await.                    *)
(*                                                                         *)
(* The engine is taken at its word: it adds and removes a model or returns *)
(* an error.  It looks for a model and inserts it in two steps.            *)
(*                                                                         *)
(* A request names an operation and a model: "infer" stands for generate,  *)
(* chat and embeddings, streamed or not; "load" and "pin" for load_model   *)
(* without and with `pinned`; "unload" for unload_model.                   *)
(*                                                                         *)
(* A definition whose name ends in _Something repeats the one after it     *)
(* with a plausible slip; no action uses it, and a property of this module *)
(* fails when it does.                                                     *)
(***************************************************************************)
EXTENDS LruScheduler

CONSTANTS
    Handlers,    \* the requests that can be under way at once
    Operations,  \* the operations requested
    Configured,  \* the models configured as pinned
    Oversized,   \* the models too large for the memory limit
    Delayed,     \* the models that requests may find not yet registered
    ModelLimit,  \* max_parallel_requests_per_model
    TotalLimit   \* max_total_concurrent_requests

ASSUME ManagerAssumption ==
    /\ Operations \subseteq {"infer", "load", "pin", "unload"}
    /\ Configured \subseteq Models /\ Oversized \subseteq Models
    /\ Delayed \subseteq Models
    /\ ModelLimit \in Nat /\ TotalLimit \in Nat

VARIABLES
    loaded,      \* models whose metadata says loaded
    marked,      \* models whose metadata says pinned
    pinned,      \* MistralModelManager.pinned
    engine,      \* models the engine holds
    twice,       \* models that two handlers were adding to the engine at once
    registering, \* model -> how far its registration at startup is
    active,      \* active_requests: model -> counter
    total,       \* total_active
    frame        \* handler -> where it is, and its local variables

scheduler == <<order, schedPinned, alive>>
models    == <<loaded, marked, pinned, engine, twice>>
counters  == <<active, total>>
vars == <<scheduler, models, registering, counters, frame>>

(* op and model: the request; loading: is the handler inside load_model;    *)
(* victims: the advised evictions still to be tried; target: the model it   *)
(* is unloading; snapshot: metadata.pinned as it was copied or borrowed;    *)
(* holds: does the handler hold the model's entry of `models`?              *)
Idle(m) == [pc |-> "idle", op |-> "infer", model |-> m, loading |-> FALSE,
            victims |-> {}, target |-> m, snapshot |-> FALSE,
            holds |-> FALSE]

AnyModel == CHOOSE m \in Models : TRUE

(* Every configured model is built into the engine and marked loaded; its   *)
(* registration with the scheduler is spawned, and may be over before the   *)
(* first request comes.                                                     *)
Init ==
    /\ order \in {q \in [1..Cardinality(Models \ Delayed) -> Models \ Delayed] :
                   \A i, j \in DOMAIN q : q[i] = q[j] => i = j}
    /\ schedPinned = Configured \ Delayed /\ alive = Models
    /\ loaded = Models /\ engine = Models
    /\ marked = Configured /\ pinned = Configured
    /\ twice = {}
    /\ registering = [m \in Models |-> IF m \in Delayed THEN "track" ELSE "done"]
    /\ active = [m \in Models |-> 0] /\ total = 0
    /\ frame = [h \in Handlers |-> Idle(AnyModel)]

TrackExisting(m) ==
    /\ registering[m] = "track"
    /\ registering' = [registering EXCEPT ![m] = "pin"]
    /\ RegisterActivity(m)
    /\ UNCHANGED <<schedPinned, alive, models, counters, frame>>

PinExisting(m) ==
    /\ registering[m] = "pin"
    /\ registering' = [registering EXCEPT ![m] = "done"]
    /\ SetPin(m, m \in Configured)
    /\ UNCHANGED <<order, alive, models, counters, frame>>

(* A deadline passes that the scheduler sees.  It sees a copy of keep_alive *)
(* made at startup: cloning a DashMap clones its entries.  Nothing reads    *)
(* the deadlines that requests set in keep_alive itself, so the map is not  *)
(* kept here.                                                               *)
Expire(m) ==
    /\ m \in alive
    /\ alive' = alive \ {m}
    /\ UNCHANGED <<order, schedPinned, models, registering, counters, frame>>

-----------------------------------------------------------------------------
Model(h)   == frame[h].model
Target(h)  == frame[h].target
At(h, p)   == frame[h].pc = p
Goto(h, p) == frame' = [frame EXCEPT ![h] = IF p = "idle" THEN Idle(AnyModel)
                                            ELSE [@ EXCEPT !.pc = p]]

(* refresh_loaded_metadata holds the model's entry while the scheduler      *)
(* registers it, and whoever needs the entry waits.                         *)
Free(m) == ~\E g \in Handlers : frame[g].holds /\ Model(g) = m

(* load_model begins with the scheduler's advice, as does every inference,  *)
(* unload_model with its checks.                                            *)
Begin(h, op, m) ==
    /\ At(h, "idle")
    /\ frame' = [frame EXCEPT ![h] =
                   [Idle(m) EXCEPT !.pc = IF op = "unload" THEN "check"
                                          ELSE "advise",
                                   !.op = op,
                                   !.loading = op \in {"load", "pin"}]]
    /\ UNCHANGED <<scheduler, models, registering, counters>>

-----------------------------------------------------------------------------
(* apply_scheduler_advice                                                   *)

TakeAdvice(h) ==
    /\ At(h, "advise")
    /\ \E V \in SUBSET Models :
         /\ AdviseEvict(V)
         /\ frame' = [frame EXCEPT ![h].pc = "evict", ![h].victims = V]
    /\ UNCHANGED <<schedPinned, alive, models, registering, counters>>

EvictNext_Again(h) ==
    /\ At(h, "evict")
    /\ \E m \in frame[h].victims :
         frame' = [frame EXCEPT ![h].pc = "check", ![h].target = m]
    /\ UNCHANGED <<scheduler, models, registering, counters>>
EvictNext(h) ==
    /\ At(h, "evict")
    /\ \E m \in frame[h].victims :
         frame' = [frame EXCEPT ![h].pc = "check", ![h].target = m,
                                ![h].victims = @ \ {m}]
    /\ UNCHANGED <<scheduler, models, registering, counters>>

AdviceTaken(h) ==
    /\ At(h, "evict") /\ frame[h].victims = {}
    /\ frame' = [frame EXCEPT ![h].pc = IF frame[h].loading THEN "admit"
                                        ELSE "ensure",
                              ![h].target = Model(h)]
    /\ UNCHANGED <<scheduler, models, registering, counters>>

-----------------------------------------------------------------------------
(* unload_model_internal; an eviction that fails is logged and skipped.     *)

AfterUnload(h) == IF frame[h].op = "unload" THEN "idle" ELSE "evict"

CheckPinned_Ignored(h) ==
    /\ At(h, "check") /\ Free(Target(h))
    /\ Goto(h, "checkActive")
    /\ UNCHANGED <<scheduler, models, registering, counters>>
CheckPinned(h) ==
    /\ At(h, "check") /\ Free(Target(h))
    /\ Goto(h, IF Target(h) \in pinned THEN AfterUnload(h) ELSE "checkActive")
    /\ UNCHANGED <<scheduler, models, registering, counters>>

CheckActive(h) ==
    /\ At(h, "checkActive")
    /\ Goto(h, IF active[Target(h)] > 0 THEN AfterUnload(h) ELSE "mark")
    /\ UNCHANGED <<scheduler, models, registering, counters>>

MarkUnloaded_Late(h) ==
    /\ At(h, "mark") /\ Free(Target(h))
    /\ Goto(h, IF Target(h) \in loaded THEN "remove" ELSE AfterUnload(h))
    /\ UNCHANGED <<scheduler, models, registering, counters>>
MarkUnloaded(h) ==
    /\ At(h, "mark") /\ Free(Target(h))
    /\ loaded' = loaded \ {Target(h)}
    /\ Goto(h, IF Target(h) \in loaded THEN "remove" ELSE AfterUnload(h))
    /\ UNCHANGED <<scheduler, marked, pinned, engine, twice,
                   registering, counters>>

(* The engine refuses to remove a model it does not hold, or its last one.  *)
Removable(m) == m \in engine /\ Cardinality(engine) > 1

RemoveFromEngine(h) ==
    /\ At(h, "remove") /\ Removable(Target(h))
    /\ engine' = engine \ {Target(h)}
    /\ Goto(h, "forget")
    /\ UNCHANGED <<scheduler, loaded, marked, pinned, twice, registering,
                   counters>>

(* The error leaves through `?`, the metadata already changed.              *)
RemovalRefused(h) ==
    /\ At(h, "remove") /\ ~Removable(Target(h))
    /\ Goto(h, AfterUnload(h))
    /\ UNCHANGED <<scheduler, models, registering, counters>>

Forget(h) ==
    /\ At(h, "forget")
    /\ OnModelUnloaded(Target(h))
    /\ Goto(h, AfterUnload(h))
    /\ UNCHANGED <<alive, models, registering, counters>>

-----------------------------------------------------------------------------
(* ensure_engine_has_model and load_model                                   *)

EnsureEngine(h) ==
    /\ At(h, "ensure") /\ Free(Model(h))
    /\ \/ /\ Model(h) \in engine
          /\ Goto(h, "touch")
       \/ /\ Model(h) \notin engine
          /\ frame' = [frame EXCEPT ![h].pc = "advise", ![h].loading = TRUE]
    /\ UNCHANGED <<scheduler, models, registering, counters>>

Admit(h) ==
    /\ At(h, "admit") /\ Free(Model(h))
    /\ Goto(h, IF Model(h) \in Oversized THEN "idle"
               ELSE IF Model(h) \in loaded THEN "refresh" ELSE "add")
    /\ UNCHANGED <<scheduler, models, registering, counters>>

Refresh(h) ==
    /\ At(h, "refresh") /\ Free(Model(h))
    /\ LET pin == IF frame[h].op = "pin" THEN {Model(h)} ELSE {} IN
         /\ marked' = marked \cup pin
         /\ pinned' = pinned \cup pin
    /\ frame' = [frame EXCEPT ![h].pc = "track", ![h].holds = TRUE,
                              ![h].snapshot = Model(h) \in marked']
    /\ UNCHANGED <<scheduler, loaded, engine, twice, registering, counters>>

(* The engine refuses a model it holds.                                     *)
AddToEngine(h) ==
    /\ At(h, "add") /\ Model(h) \notin engine
    /\ twice' = IF \E g \in Handlers : At(g, "insert") /\ Model(g) = Model(h)
                THEN twice \cup {Model(h)} ELSE twice
    /\ Goto(h, "insert")
    /\ UNCHANGED <<scheduler, loaded, marked, pinned, engine,
                   registering, counters>>

InsertIntoEngine(h) ==
    /\ At(h, "insert")
    /\ engine' = engine \cup {Model(h)}
    /\ Goto(h, "finalize")
    /\ UNCHANGED <<scheduler, loaded, marked, pinned, twice,
                   registering, counters>>

(* The model is there already, or building it fails.                        *)
AddFails(h) ==
    /\ At(h, "add") \/ At(h, "insert")
    /\ Goto(h, "idle")
    /\ UNCHANGED <<scheduler, models, registering, counters>>

(* finalize_model_load copies the metadata before it lets the entry go, and *)
(* sets the manager's pin from the copy.                                    *)
Finalize(h) ==
    /\ At(h, "finalize") /\ Free(Model(h))
    /\ loaded' = loaded \cup {Model(h)}
    /\ marked' = IF frame[h].op = "pin" THEN marked \cup {Model(h)} ELSE marked
    /\ frame' = [frame EXCEPT ![h].pc = "setPin",
                              ![h].snapshot = Model(h) \in marked']
    /\ UNCHANGED <<scheduler, pinned, engine, twice, registering,
                   counters>>

SetManagerPin(h) ==
    /\ At(h, "setPin")
    /\ pinned' = IF frame[h].snapshot THEN pinned \cup {Model(h)}
                 ELSE pinned \ {Model(h)}
    /\ Goto(h, "track")
    /\ UNCHANGED <<scheduler, loaded, marked, engine, twice, registering,
                   counters>>

(* on_model_loaded                                                          *)
Track(h) ==
    /\ At(h, "track")
    /\ RegisterActivity(Model(h))
    /\ Goto(h, "pinScheduler")
    /\ UNCHANGED <<schedPinned, alive, models, registering, counters>>

SetSchedulerPin(h) ==
    /\ At(h, "pinScheduler")
    /\ SetPin(Model(h), frame[h].snapshot)
    /\ frame' = [frame EXCEPT ![h] =
                   IF frame[h].op # "infer" THEN Idle(AnyModel)
                   ELSE [Idle(Model(h)) EXCEPT !.pc = "touch"]]
    /\ UNCHANGED <<order, alive, models, registering, counters>>

-----------------------------------------------------------------------------
(* generate, chat and embeddings, once the engine has had the model         *)

(* register_activity, touch_model and apply_keep_alive_override; the last   *)
(* may find that the override does not parse.                               *)
Touch(h) ==
    /\ At(h, "touch") /\ Free(Model(h))
    /\ RegisterActivity(Model(h))
    /\ Goto(h, "count") \/ Goto(h, "idle")
    /\ UNCHANGED <<schedPinned, alive, loaded, marked, pinned, engine, twice,
                   registering, counters>>

(* ActiveRequestGuard::try_new takes the model's counter, then the total,   *)
(* and gives the first back when the second is at its limit.                *)
CountModel(h) ==
    /\ At(h, "count")
    /\ \/ /\ active[Model(h)] < ModelLimit
          /\ active' = [active EXCEPT ![Model(h)] = @ + 1]
          /\ Goto(h, "countTotal")
       \/ /\ active[Model(h)] >= ModelLimit
          /\ Goto(h, "idle")
          /\ UNCHANGED active
    /\ UNCHANGED <<scheduler, models, registering, total>>

CountTotal_NoLimit(h) ==
    /\ At(h, "countTotal")
    /\ total' = total + 1
    /\ Goto(h, "send")
    /\ UNCHANGED <<scheduler, models, registering, active>>
CountTotal(h) ==
    /\ At(h, "countTotal")
    /\ \/ /\ total < TotalLimit
          /\ total' = total + 1
          /\ Goto(h, "send")
       \/ /\ total >= TotalLimit
          /\ Goto(h, "rollback")
          /\ UNCHANGED total
    /\ UNCHANGED <<scheduler, models, registering, active>>

Rollback_Forgotten(h) ==
    /\ At(h, "rollback")
    /\ Goto(h, "idle")
    /\ UNCHANGED <<scheduler, models, registering, counters>>
Rollback(h) ==
    /\ At(h, "rollback")
    /\ active' = [active EXCEPT ![Model(h)] = @ - 1]
    /\ Goto(h, "idle")
    /\ UNCHANGED <<scheduler, models, registering, total>>

(* The engine has no sender for a model it does not hold; building the      *)
(* engine's request may fail as well.                                       *)
Send(h) ==
    /\ At(h, "send")
    /\ \/ Model(h) \in engine /\ Goto(h, "respond")
       \/ Goto(h, "release")
    /\ UNCHANGED <<scheduler, models, registering, counters>>

(* The response arrives or its channel closes, or the client of a stream    *)
(* goes away: the guard is dropped.                                         *)
Respond(h) ==
    /\ At(h, "respond")
    /\ Goto(h, "release")
    /\ UNCHANGED <<scheduler, models, registering, counters>>

ReleaseModel(h) ==
    /\ At(h, "release")
    /\ active' = [active EXCEPT ![Model(h)] = @ - 1]
    /\ Goto(h, "releaseTotal")
    /\ UNCHANGED <<scheduler, models, registering, total>>

ReleaseTotal(h) ==
    /\ At(h, "releaseTotal")
    /\ total' = total - 1
    /\ Goto(h, "idle")
    /\ UNCHANGED <<scheduler, models, registering, active>>

-----------------------------------------------------------------------------
Handle(h) ==
    \/ TakeAdvice(h) \/ EvictNext(h) \/ AdviceTaken(h)
    \/ CheckPinned(h) \/ CheckActive(h) \/ MarkUnloaded(h)
    \/ RemoveFromEngine(h) \/ RemovalRefused(h) \/ Forget(h)
    \/ EnsureEngine(h) \/ Admit(h) \/ Refresh(h)
    \/ AddToEngine(h) \/ InsertIntoEngine(h) \/ AddFails(h)
    \/ Finalize(h) \/ SetManagerPin(h) \/ Track(h) \/ SetSchedulerPin(h)
    \/ Touch(h) \/ CountModel(h) \/ CountTotal(h) \/ Rollback(h) \/ Send(h)
    \/ Respond(h) \/ ReleaseModel(h) \/ ReleaseTotal(h)

Environment ==
    \/ \E h \in Handlers, op \in Operations, m \in Models : Begin(h, op, m)
    \/ \E m \in Models : Expire(m)

Next ==
    \/ Environment
    \/ \E m \in Models : TrackExisting(m) \/ PinExisting(m)
    \/ \E h \in Handlers : Handle(h)

Spec == Init /\ [][Next]_vars

(* The runtime keeps polling every task and the engine answers; an entry    *)
(* held and let go again and again is in the end given to who waits for it. *)
Fairness == \A h \in Handlers : SF_vars(Handle(h))
FairSpec == Spec /\ Fairness

-----------------------------------------------------------------------------
Points == {"idle", "advise", "evict", "check", "checkActive", "mark",
           "remove", "forget", "ensure", "admit", "refresh", "add", "insert",
           "finalize", "setPin", "track", "pinScheduler", "touch", "count",
           "countTotal", "rollback", "send", "respond", "release",
           "releaseTotal"}

HandlerFrame ==
    [pc : Points, op : {"infer", "load", "pin", "unload"}, model : Models,
     loading : BOOLEAN, victims : SUBSET Models, target : Models,
     snapshot : BOOLEAN, holds : BOOLEAN]

(* Every variable has its type, and a model has one place in the order.     *)
TypeOK ==
    /\ order \in Seq(Models) /\ \A i, j \in DOMAIN order : order[i] = order[j] => i = j
    /\ schedPinned \in SUBSET Models /\ alive \in SUBSET Models
    /\ loaded \in SUBSET Models /\ marked \in SUBSET Models
    /\ pinned \in SUBSET Models /\ engine \in SUBSET Models
    /\ twice \in SUBSET Models
    /\ registering \in [Models -> {"track", "pin", "done"}]
    /\ active \in [Models -> Nat] /\ total \in Nat
    /\ frame \in [Handlers -> HandlerFrame]

(* The metadata says loaded of a model the engine does not hold only where  *)
(* two handlers were adding that model at once, however else loads, unloads *)
(* and evictions race: unload_model_internal marks before it removes and    *)
(* load_model inserts before it marks.                                      *)
LoadedIsResident == loaded \ twice \subseteq engine

(* ActiveRequestGuard keeps the two limits, counted over the handlers that  *)
(* have a request with the engine, and is given back in full: when all      *)
(* handlers are idle nothing is counted.                                    *)
WithEngine == {h \in Handlers : At(h, "respond")}
AllIdle    == \A h \in Handlers : At(h, "idle")
LimitsKept ==
    /\ \A m \in Models :
         Cardinality({h \in WithEngine : Model(h) = m}) <= ModelLimit
    /\ Cardinality(WithEngine) <= TotalLimit
GuardsReturned == AllIdle => total = 0 /\ \A m \in Models : active[m] = 0

(* A model configured as pinned stays in the engine, though the scheduler   *)
(* and the manager each keep a pinned set of their own and the scheduler's  *)
(* is filled by tasks spawned at startup.                                   *)
ConfiguredStays == Configured \subseteq engine \cap loaded

(* Every request that reached the manager ends.                             *)
RequestsEnd == \A h \in Handlers : ~At(h, "idle") ~> At(h, "idle")
=============================================================================
