---------------------------- MODULE ShellProofs ----------------------------
(* Theorems about Shell, for any number of callers, commands and sessions.  *)
EXTENDS Shell, TLAPS

Pol    == [mode : {"readonly", "regular"}, root : BOOLEAN]
Items  == [kind : {"boot", "probe", "command", "replay", "snapshot"}, n : Nat,
           last : BOOLEAN]
Tasks  == [mode : SafetyModes, next : {"config", "policy", "done"}]
MarkOf == [mark : {"cwd", "D"}, of : Items]
Makers == Callers \cup {0}
Sess   == [policy : Pol, listed : BOOLEAN, writer : BOOLEAN, alive : BOOLEAN,
           ready : BOOLEAN, maker : SUBSET Makers, typed : Seq(Items),
           busy : SUBSET Items, screen : Seq(MarkOf), state : SUBSET Nat]
Pcs    == {"idle", "refresh", "look", "choose", "restore", "type", "listen", "over",
           "forget", "restart"}
Rec    == [pc : Pcs, n : Nat, session : Nat, todo : Seq(Nat), policy : Pol,
           retried : BOOLEAN, doing : {"replay", "command", "snapshot"},
           code : SUBSET Items, cwd : BOOLEAN,
           status : {"none", "Completed", "Unfinished"}, modes : SUBSET SafetyModes]
Told   == [status : {"none", "Completed", "Unfinished", "Err", "Failure"},
           code : SUBSET Items]

InSession == {"restore", "type", "listen", "over"}

(* What may become of the policy: the modes under way and that of the       *)
(* pending one.                                                             *)
Seen == [way |-> UnderWay, next |-> pending.mode]

(* What holds of a call f, when w is seen, with the sessions ss: it knows   *)
(* of every mode that may come into force, and from its refresh on of the   *)
(* one that is to; its session's policy is of one of those it knows, and    *)
(* while it restores a session that policy is the one it read.              *)
Replaying(f) == f.pc = "restore" \/ (f.pc \in InSession /\ f.doing = "replay")

CallOK(f, w, ss) ==
    /\ f \in Rec /\ f.session \in 0..Len(ss)
    /\ f.pc # "idle" => w.way \subseteq f.modes
    /\ f.pc \notin {"idle", "refresh"} => w.next \in f.modes
    /\ f.pc = "choose" => f.policy.mode \in f.modes
    /\ f.pc \in InSession => f.session # 0 /\ ss[f.session].policy.mode \in f.modes
    /\ Replaying(f) => ss[f.session].policy = f.policy
    /\ f.pc \in InSession \ {"restore"} /\ f.doing = "replay" => f.todo # <<>>

Shape ==
    /\ mode \in SafetyModes /\ pending \in Pol /\ effective \in Pol
    /\ updates \in Seq(Tasks)
    /\ owner \subseteq Callers /\ journal \in Seq(Nat) /\ sessions \in Seq(Sess)
    /\ stateful \in SUBSET Nat /\ told \in Seq(Told)
    /\ \A i \in DOMAIN journal : journal[i] \in stateful
    /\ calls = [c \in Callers |-> calls[c]]

(* The policy in effect is the current session's.                           *)
InEffect ==
    /\ current \in 0..Len(sessions)
    /\ current # 0 => sessions[current].policy = effective

Inv == Shape /\ InEffect /\ \A c \in Callers : CallOK(calls[c], Seen, sessions)

-----------------------------------------------------------------------------
(* Sequences as functions, and one entry of a sequence replaced.            *)
LEMMA SeqOf ==
  ASSUME NEW S, NEW n \in Nat, NEW f \in [1..n -> S]
  PROVE  f \in Seq(S) /\ Len(f) = n /\ DOMAIN f = 1..n
OBVIOUS

LEMMA Replaced ==
  ASSUME NEW S, NEW s \in Seq(S), NEW i \in DOMAIN s, NEW x \in S
  PROVE  /\ [s EXCEPT ![i] = x] \in Seq(S) /\ Len([s EXCEPT ![i] = x]) = Len(s)
         /\ [s EXCEPT ![i] = x][i] = x
         /\ \A j \in DOMAIN s : j # i => [s EXCEPT ![i] = x][j] = s[j]
OBVIOUS

LEMMA PolicyType ==
  ASSUME NEW m \in SafetyModes PROVE Policy(m) \in Pol /\ Policy(m).mode = m
BY DEF Policy, Pol, SafetyModes

LEMMA MarksType == ASSUME NEW i \in Items PROVE Marks(i) \in Seq(MarkOf)
<1>1. Mark("cwd", i) \in MarkOf /\ Mark("D", i) \in MarkOf
  BY DEF Mark, MarkOf
<1> QED
  BY <1>1 DEF Marks

LEMMA NewSessionType ==
  ASSUME NEW p \in Pol, NEW c \in Makers
  PROVE  NewSession(p, c) \in Sess /\ NewSession(p, c).policy = p
<1>1. Item("probe", 0) \in Items /\ Item("boot", 0) \in Items
  BY DEF Item, Items
<1>2. FirstPrompt \in Seq(MarkOf)
  BY <1>1, MarksType DEF FirstPrompt
<1>3. <<Item("probe", 0)>> \in Seq(Items)
  BY <1>1
<1> QED
  BY <1>2, <1>3 DEF NewSession, Sess

LEMMA GoneType ==
  ASSUME NEW t \in Sess PROVE Gone(t) \in Sess /\ Gone(t).policy = t.policy
<1>1. t.policy \in Pol /\ 0 \in Makers
  BY DEF Sess, Makers
<1>2. NewSession(t.policy, 0) \in Sess /\ NewSession(t.policy, 0).policy = t.policy
  BY <1>1, NewSessionType
<1>3. <<>> \in Seq(Items) /\ <<>> \in Seq(MarkOf)
  OBVIOUS
<1> QED
  BY <1>2, <1>3 DEF Gone, Sess

LEMMA NoCallType == NoCall \in Rec
BY DEF NoCall, Rec, Pcs, Policy, Pol

(* Sessions keep their policy and are never removed from the sequence.      *)
Lasts(ss, tt) ==
    /\ tt \in Seq(Sess) /\ Len(ss) <= Len(tt)
    /\ \A s \in DOMAIN ss : tt[s].policy = ss[s].policy

LEMMA CallLasts ==
  ASSUME NEW f, NEW m, NEW ss \in Seq(Sess), NEW tt, CallOK(f, m, ss), Lasts(ss, tt)
  PROVE  CallOK(f, m, tt)
<1>1. DOMAIN ss = 1..Len(ss) /\ Len(ss) \in Nat /\ Len(tt) \in Nat
  BY DEF Lasts
<1>2. f.session # 0 => f.session \in DOMAIN ss
  BY <1>1 DEF CallOK
<1>3. Replaying(f) => f.session # 0
  BY DEF CallOK, Replaying, InSession
<1> QED
  BY <1>1, <1>2, <1>3 DEF CallOK, Lasts

LEMMA CallLess ==
  ASSUME NEW f, NEW w, NEW v, NEW ss, CallOK(f, w, ss), v.way \subseteq w.way,
         v.next = w.next
  PROVE  CallOK(f, v, ss)
BY DEF CallOK

(* A call that enters "refresh" with a mode that is under way, and one that *)
(* leaves it, bring no mode with them.                                      *)
LEMMA SeenKept ==
  ASSUME Shape, UNCHANGED settings, NEW c \in Callers, NEW f,
         calls' = [calls EXCEPT ![c] = f],
         f.pc = "refresh" => f.policy.mode \in UnderWay
  PROVE  Seen'.way \subseteq Seen.way /\ Seen'.next = Seen.next
<1>1. /\ mode' = mode /\ updates' = updates /\ pending' = pending
      /\ calls'[c] = f /\ \A d \in Callers \ {c} : calls'[d] = calls[d]
  BY DEF Shape, settings
<1>2. UnderWay' \subseteq UnderWay
  BY <1>1 DEF UnderWay
<1> QED
  BY <1>1, <1>2 DEF Seen

LEMMA SessionChanged ==
  ASSUME Inv, NEW s \in DOMAIN sessions, NEW t \in Sess,
         t.policy = sessions[s].policy
  PROVE  Lasts(sessions, [sessions EXCEPT ![s] = t])
BY Replaced DEF Inv, Shape, Lasts

LEMMA SeenSame ==
  ASSUME UNCHANGED settings,
         \A c \in Callers : calls'[c].pc = "refresh" =>
            calls[c].pc = "refresh" /\ calls'[c].policy = calls[c].policy
  PROVE  Seen'.way \subseteq Seen.way /\ Seen'.next = Seen.next
<1>1. mode' = mode /\ updates' = updates /\ pending' = pending
  BY DEF settings
<1>2. UnderWay' \subseteq UnderWay
  BY <1>1 DEF UnderWay
<1> QED
  BY <1>1, <1>2 DEF Seen

(* A step of a call, as far as the invariant is concerned.                  *)
LEMMA CallSteps ==
  ASSUME Inv, NEW c \in Callers, NEW f, calls' = [calls EXCEPT ![c] = f],
         CallOK(f, Seen, sessions'), f.pc = "refresh" => f.policy.mode \in UnderWay,
         Lasts(sessions, sessions'),
         UNCHANGED settings,
         effective' \in Pol, current' \in 0..Len(sessions'),
         current' # 0 => sessions'[current'].policy = effective',
         owner' \subseteq Callers, journal' \in Seq(Nat), told' \in Seq(Told),
         stateful \subseteq stateful', stateful' \in SUBSET Nat,
         \A i \in DOMAIN journal' : journal'[i] \in stateful'
  PROVE  Inv'
<1>1. /\ DOMAIN calls = Callers /\ calls' = [d \in Callers |-> calls'[d]]
      /\ calls'[c] = f /\ \A d \in Callers \ {c} : calls'[d] = calls[d]
  BY DEF Inv, Shape
<1>2. Shape'
  BY <1>1 DEF Inv, Shape, Lasts, settings
<1>3. InEffect'
  BY DEF InEffect
<1>4. Seen'.way \subseteq Seen.way /\ Seen'.next = Seen.next
  BY SeenKept DEF Inv
<1>5. ASSUME NEW d \in Callers PROVE CallOK(calls'[d], Seen', sessions')
  <2>1. CallOK(calls'[d], Seen, sessions')
    <3>1. CASE d = c
      BY <1>1, <3>1
    <3>2. CASE d # c
      <4>1. CallOK(calls[d], Seen, sessions) /\ sessions \in Seq(Sess)
        BY DEF Inv, Shape
      <4> QED
        BY <1>1, <3>2, <4>1, CallLasts
    <3> QED
      BY <3>1, <3>2
  <2> QED
    BY <1>4, <2>1, CallLess
<1> QED
  BY <1>2, <1>3, <1>5 DEF Inv

(* Most steps change nothing but the call itself and its session.           *)
LEMMA CallOnly ==
  ASSUME Inv, NEW c \in Callers, NEW f, calls' = [calls EXCEPT ![c] = f],
         CallOK(f, Seen, sessions'), f.pc # "refresh", Lasts(sessions, sessions'),
         told' \in Seq(Told), owner' \subseteq Callers,
         UNCHANGED <<settings, effective, current, journal, stateful>>
  PROVE  Inv'
<1>1. /\ sessions \in Seq(Sess) /\ sessions' \in Seq(Sess) /\ Len(sessions) <= Len(sessions')
      /\ current \in 0..Len(sessions) /\ DOMAIN sessions = 1..Len(sessions)
      /\ Len(sessions) \in Nat /\ Len(sessions') \in Nat
  BY DEF Inv, Shape, InEffect, Lasts
<1>2. current' \in 0..Len(sessions') /\ (current' # 0 => sessions'[current'].policy = effective')
  BY <1>1 DEF Inv, InEffect, Lasts
<1>3. /\ UNCHANGED settings /\ effective' \in Pol
      /\ journal' \in Seq(Nat) /\ stateful \subseteq stateful' /\ stateful' \in SUBSET Nat
      /\ \A i \in DOMAIN journal' : journal'[i] \in stateful'
  BY DEF Inv, Shape, InEffect, settings
<1> QED
  BY <1>2, <1>3, CallSteps

LEMMA SameLasts == Inv /\ UNCHANGED sessions => Lasts(sessions, sessions')
BY DEF Inv, Shape, Lasts

-----------------------------------------------------------------------------
(* Return: the call is over and what it reports is a report.                *)
LEMMA ReturnType ==
  ASSUME Inv, NEW c \in Callers, NEW status \in {"Completed", "Unfinished", "none", "Err", "Failure"},
         Return(c, status)
  PROVE  /\ calls' = [calls EXCEPT ![c] = NoCall] /\ told' \in Seq(Told)
         /\ NoCall.pc = "idle" /\ \A ss \in Seq(Sess) : CallOK(NoCall, Seen, ss)
<1>1. calls[c].code \in SUBSET Items /\ told \in Seq(Told)
  BY DEF Inv, Shape, CallOK, Rec
<1>2. [status |-> status, code |-> calls[c].code] \in Told
  BY <1>1 DEF Told
<1>3. told' \in Seq(Told)
  <2>1. told \in [1..Len(told) -> Told] /\ Len(told) \in Nat
    BY <1>1
  <2>2. told' \in [1..Len(told) -> Told]
    BY <1>2, <2>1 DEF Return
  <2> QED
    BY <2>1, <2>2, SeqOf
<1>4. NoCall.pc = "idle" /\ NoCall.session = 0
  BY DEF NoCall
<1> QED
  BY <1>3, <1>4, NoCallType DEF Return, Set, CallOK, Replaying, InSession

(* What is known of a call from the invariant.                              *)
LEMMA Known ==
  ASSUME Inv, NEW c \in Callers
  PROVE  /\ calls[c] \in Rec /\ CallOK(calls[c], Seen, sessions)
         /\ sessions \in Seq(Sess) /\ DOMAIN sessions = 1..Len(sessions)
         /\ Len(sessions) \in Nat /\ told \in Seq(Told) /\ owner \subseteq Callers
         /\ calls[c].pc \in InSession => calls[c].session \in DOMAIN sessions
BY DEF Inv, Shape, CallOK

(* terminate_session on the session of a call.                              *)
LEMMA TerminatedLasts ==
  ASSUME Inv, NEW s \in DOMAIN sessions
  PROVE  Lasts(sessions, Terminated(s))
<1>1. sessions[s] \in Sess
  BY DEF Inv, Shape
<1> QED
  BY <1>1, GoneType, SessionChanged DEF Terminated

-----------------------------------------------------------------------------
(* The user.                                                                *)
LEMMA ModesSeen ==
  ASSUME Inv PROVE mode \in UnderWay /\ UnderWay \in SUBSET SafetyModes
<1>1. \A u \in DOMAIN updates : updates[u].mode \in SafetyModes
  <2> SUFFICES ASSUME NEW u \in DOMAIN updates PROVE updates[u] \in Tasks
    BY DEF Tasks
  <2> QED
    BY DEF Inv, Shape
<1>2. \A c \in Callers : calls[c].policy.mode \in SafetyModes
  BY Known DEF Rec, Pol, SafetyModes
<1> QED
  BY <1>1, <1>2 DEF UnderWay, Inv, Shape

LEMMA SetModeInv == ASSUME Inv, NEW m \in SafetyModes, SetMode(m) PROVE Inv'
<1> DEFINE task == [mode |-> m, next |-> "config"]
<1>1. /\ mode' \in {mode, m} /\ pending' \in {pending, Policy(m)}
      /\ updates' = Append(updates, task)
      /\ calls' = [c \in Callers |-> [calls[c] EXCEPT !.modes = @ \cup {m}]]
      /\ UNCHANGED <<effective, current, owner, journal, sessions, stateful, told>>
  BY DEF SetMode, Switch
<1>2. updates \in Seq(Tasks) /\ task \in Tasks
  BY DEF Inv, Shape, Tasks
<1>3. /\ updates' \in Seq(Tasks)
      /\ \A u \in DOMAIN updates' : \/ u \in DOMAIN updates /\ updates'[u] = updates[u]
                                    \/ updates'[u].mode = m
  <2>1. \A u \in DOMAIN Append(updates, task) :
           \/ u \in DOMAIN updates /\ Append(updates, task)[u] = updates[u]
           \/ Append(updates, task)[u] = task
    BY <1>2
  <2> QED
    BY <1>1, <1>2, <2>1
<1> HIDE DEF task
<1>4. Shape' /\ InEffect'
  BY <1>1, <1>3, PolicyType DEF Inv, Shape, InEffect
<1>5. ASSUME NEW c \in Callers
      PROVE  /\ calls'[c] \in Rec /\ calls'[c].modes = calls[c].modes \cup {m}
             /\ calls'[c].pc = calls[c].pc /\ calls'[c].session = calls[c].session
             /\ calls'[c].policy = calls[c].policy /\ calls'[c].doing = calls[c].doing
             /\ calls'[c].todo = calls[c].todo
  <2>1. calls'[c] = [calls[c] EXCEPT !.modes = calls[c].modes \cup {m}]
    BY <1>1
  <2>2. calls[c] \in Rec
    BY Known
  <2> QED
    BY <2>1, <2>2 DEF Rec
<1>6. UnderWay' \subseteq UnderWay \cup {m}
  BY <1>1, <1>3, <1>5 DEF UnderWay
<1>7. Seen'.way \subseteq Seen.way \cup {m} /\ Seen'.next \in {Seen.next, m}
  BY <1>1, <1>6, PolicyType DEF Seen
<1>8. ASSUME NEW c \in Callers PROVE CallOK(calls'[c], Seen', sessions')
  <2>1. CallOK(calls[c], Seen, sessions)
    BY Known
  <2> QED
    BY <1>1, <1>5, <1>7, <2>1 DEF CallOK, Replaying
<1> QED
  BY <1>4, <1>8 DEF Inv

(* The task writes a mode that every call has known of since it was spawned. *)
LEMMA UpdateInv ==
  ASSUME Inv, NEW u \in DOMAIN updates, UpdateConfig(u) \/ UpdatePolicy(u)
  PROVE  Inv'
<1>1. updates \in Seq(Tasks) /\ updates[u] \in Tasks
  BY DEF Inv, Shape
<1>2. PICK next \in {"policy", "done"} :
        updates' = [updates EXCEPT ![u].next = next]
  BY DEF UpdateConfig, UpdatePolicy
<1>3. updates[u].mode \in UnderWay /\ updates[u].mode \in SafetyModes
  BY <1>1 DEF UpdateConfig, UpdatePolicy, UnderWay, Tasks
<1>4. /\ mode' \in {mode, updates[u].mode}
      /\ pending' \in {pending, Policy(updates[u].mode)}
      /\ UNCHANGED <<effective, current, owner, journal, sessions, calls, stateful, told>>
  BY DEF UpdateConfig, UpdatePolicy
<1> DEFINE task == [updates[u] EXCEPT !.next = next]
<1>5. task \in Tasks /\ task.mode = updates[u].mode /\ updates' = [updates EXCEPT ![u] = task]
  BY <1>1, <1>2 DEF Tasks
<1>11. updates[u].next # "done"
  BY DEF UpdateConfig, UpdatePolicy
<1> HIDE DEF task
<1>6. /\ updates' \in Seq(Tasks) /\ DOMAIN updates' = DOMAIN updates
      /\ \A v \in DOMAIN updates : updates'[v] = IF v = u THEN task ELSE updates[v]
  BY <1>1, <1>5
<1>7. Shape' /\ InEffect'
  BY <1>3, <1>4, <1>6, PolicyType DEF Inv, Shape, InEffect
<1>8. UnderWay' \subseteq UnderWay
  BY <1>3, <1>4, <1>5, <1>6, <1>11 DEF UnderWay
<1>9. Seen'.way \subseteq Seen.way /\ Seen'.next \in {Seen.next} \cup Seen.way
  BY <1>3, <1>4, <1>8, PolicyType DEF Seen
<1>10. ASSUME NEW c \in Callers PROVE CallOK(calls'[c], Seen', sessions')
  <2>1. CallOK(calls[c], Seen, sessions)
    BY Known
  <2> QED
    BY <1>4, <1>9, <2>1 DEF CallOK
<1> QED
  BY <1>7, <1>10 DEF Inv

LEMMA AddWritableRootInv == Inv /\ AddWritableRoot => Inv'
<1> SUFFICES ASSUME Inv, AddWritableRoot PROVE Inv'
  OBVIOUS
<1>1. pending' \in Pol /\ pending'.mode = pending.mode
  BY DEF AddWritableRoot, Inv, Shape, Pol
<1>2. UNCHANGED <<mode, updates, calls, effective, current, owner, journal, sessions, stateful, told>>
  BY DEF AddWritableRoot, Switch
<1>3. Seen' = Seen
  BY <1>1, <1>2 DEF Seen, UnderWay
<1> QED
  BY <1>1, <1>2, <1>3 DEF Inv, Shape, InEffect

-----------------------------------------------------------------------------
(* The shell.  Its session keeps its policy, whatever it does.              *)
LEMMA SessionOnly ==
  ASSUME Inv, NEW s \in DOMAIN sessions, NEW t \in Sess, t.policy = sessions[s].policy,
         Update(s, t), UNCHANGED calls
  PROVE  Inv'
<1>1. /\ sessions' = [sessions EXCEPT ![s] = t]
      /\ UNCHANGED <<settings, effective, current, owner, journal, stateful, told, calls>>
  BY DEF Update
<1>2. Lasts(sessions, sessions')
  BY <1>1, SessionChanged
<1>3. /\ sessions \in Seq(Sess) /\ Len(sessions) <= Len(sessions') /\ Len(sessions) \in Nat
      /\ Len(sessions') \in Nat /\ DOMAIN sessions = 1..Len(sessions)
  BY <1>2 DEF Inv, Shape, Lasts
<1>4. Shape' /\ InEffect'
  BY <1>1, <1>2, <1>3 DEF Inv, Shape, InEffect, Lasts, settings
<1>6. Seen' = Seen
  BY <1>1 DEF Seen, UnderWay, settings
<1>5. \A c \in Callers : CallOK(calls'[c], Seen', sessions')
  BY <1>1, <1>2, <1>3, <1>6, CallLasts DEF Inv
<1> QED
  BY <1>4, <1>5 DEF Inv

LEMMA PtyInv ==
  ASSUME Inv, NEW s \in DOMAIN sessions,
         RunNext(s) \/ FinishLine(s) \/ ReadyAnyway(s) \/ Exits(s) \/ RuntimeEnds(s)
  PROVE  Inv'
<1>1. sessions[s] \in Sess
  BY DEF Inv, Shape
<1>0. <<>> \in Seq(Items) /\ {} \in SUBSET Items
  OBVIOUS
<1>2. CASE RunNext(s)
  <2> DEFINE t == [sessions[s] EXCEPT !.busy = {Head(sessions[s].typed)}, !.typed = Tail(@)]
  <2>1. sessions[s].typed \in Seq(Items) /\ sessions[s].typed # <<>>
    BY <1>1, <1>2 DEF RunNext, Sess
  <2>2. Head(sessions[s].typed) \in Items /\ Tail(sessions[s].typed) \in Seq(Items)
    BY <2>1
  <2>3. t \in Sess /\ t.policy = sessions[s].policy
    BY <1>1, <2>2 DEF Sess
  <2> QED
    BY <1>2, <2>3, SessionOnly DEF RunNext
<1>3. CASE FinishLine(s)
  <2>1. PICK i \in sessions[s].busy :
          /\ Update(s, [sessions[s] EXCEPT !.busy = {}, !.screen = @ \o Marks(i),
                                           !.state = @ \cup Done(i)])
          /\ UNCHANGED calls
    BY <1>3 DEF FinishLine
  <2>2. i \in Items
    BY <1>1 DEF Sess
  <2> DEFINE t == [sessions[s] EXCEPT !.busy = {}, !.screen = @ \o Marks(i),
                                      !.state = @ \cup Done(i)]
  <2>3. t \in Sess /\ t.policy = sessions[s].policy
    <3>1. sessions[s].screen \o Marks(i) \in Seq(MarkOf)
      BY <1>1, <2>2, MarksType DEF Sess
    <3>2. sessions[s].state \cup Done(i) \in SUBSET Nat
      BY <1>1 DEF Sess, Inv, Shape, Done
    <3> QED
      BY <1>1, <3>1, <3>2 DEF Sess
  <2> HIDE DEF t
  <2>4. Update(s, t)
    BY <2>1 DEF t
  <2> QED
    BY <2>1, <2>3, <2>4, SessionOnly
<1>4. CASE ReadyAnyway(s)
  <2>1. [sessions[s] EXCEPT !.ready = TRUE] \in Sess
    BY <1>1 DEF Sess
  <2> QED
    BY <1>1, <1>4, <2>1, SessionOnly DEF ReadyAnyway, Sess
<1>5. CASE Exits(s)
  <2>1. [sessions[s] EXCEPT !.alive = FALSE, !.busy = {}, !.typed = <<>>] \in Sess
    BY <1>0, <1>1 DEF Sess
  <2> QED
    BY <1>1, <1>5, <2>1, SessionOnly DEF Exits, Sess
<1>6. CASE RuntimeEnds(s)
  <2>1. [sessions[s] EXCEPT !.writer = FALSE, !.alive = FALSE, !.busy = {}, !.typed = <<>>] \in Sess
    BY <1>0, <1>1 DEF Sess
  <2> QED
    BY <1>1, <1>6, <2>1, SessionOnly DEF RuntimeEnds, Sess
<1> QED
  BY <1>2, <1>3, <1>4, <1>5, <1>6

(* What a listener hears changes what it does next, and nothing else the    *)
(* invariant speaks of.                                                     *)
LEMMA HeardOK ==
  ASSUME NEW f, NEW m, NEW ss, CallOK(f, m, ss), f.pc = "listen",
         NEW chunk \in Seq(MarkOf)
  PROVE  CallOK(Heard(f, chunk), m, ss) /\ Heard(f, chunk).pc # "refresh"
<1>1. f \in Rec
  BY DEF CallOK
<1>2. Codes(chunk) \in SUBSET Items
  <2>1. \A i \in DOMAIN chunk : chunk[i].of \in Items
    <3> SUFFICES ASSUME NEW i \in DOMAIN chunk PROVE chunk[i].of \in Items
      OBVIOUS
    <3>1. chunk[i] \in MarkOf
      OBVIOUS
    <3> QED
      BY <3>1 DEF MarkOf
  <2> QED
    BY <2>1 DEF Codes
<1>3. (f.cwd \/ Has(chunk, "cwd")) \in BOOLEAN
  BY Zenon
<1>4. PICK b \in BOOLEAN :
        Heard(f, chunk) \in {[f EXCEPT !.cwd = b], [f EXCEPT !.cwd = b, !.pc = "over"],
                             [f EXCEPT !.pc = "over", !.status = "Completed", !.code = Codes(chunk)]}
  BY <1>3, Zenon DEF Heard
<1>5. /\ Heard(f, chunk) \in Rec /\ Heard(f, chunk).pc \in {"listen", "over"}
      /\ Heard(f, chunk).session = f.session /\ Heard(f, chunk).modes = f.modes
      /\ Heard(f, chunk).policy = f.policy /\ Heard(f, chunk).doing = f.doing
      /\ Heard(f, chunk).todo = f.todo
  BY <1>1, <1>2, <1>4 DEF Rec, Pcs
<1> QED
  BY <1>5 DEF CallOK, Replaying, InSession

LEMMA ReadInv == ASSUME Inv, NEW s \in DOMAIN sessions, Read(s) PROVE Inv'
<1>0. sessions[s] \in Sess
  BY DEF Inv, Shape
<1>1. sessions[s] \in Sess /\ sessions[s].screen \in Seq(MarkOf)
  BY <1>0 DEF Sess
<1> DEFINE chunk(k) == SubSeq(sessions[s].screen, 1, k)
<1>2. PICK k \in 1..Len(sessions[s].screen) :
        /\ Update(s, [sessions[s] EXCEPT !.screen = SubSeq(@, k + 1, Len(@)),
                                         !.ready = @ \/ Has(chunk(k), "D")])
        /\ Hears(s, chunk(k)) \/ UNCHANGED calls
  BY DEF Read
<1> DEFINE t == [sessions[s] EXCEPT !.screen = SubSeq(@, k + 1, Len(@)),
                                    !.ready = @ \/ Has(chunk(k), "D")]
<1>3. /\ chunk(k) \in Seq(MarkOf)
      /\ SubSeq(sessions[s].screen, k + 1, Len(sessions[s].screen)) \in Seq(MarkOf)
  BY <1>1, <1>2
<1> HIDE DEF chunk
<1>4. t \in Sess /\ t.policy = sessions[s].policy
  <2>1. (sessions[s].ready \/ Has(chunk(k), "D")) \in BOOLEAN
    BY Zenon
  <2> QED
    BY <1>1, <1>3, <2>1 DEF Sess
<1> HIDE DEF t
<1>5. /\ sessions' = [sessions EXCEPT ![s] = t]
      /\ UNCHANGED <<settings, effective, current, owner, journal, stateful, told>>
  BY <1>2 DEF Update, t
<1>6. Lasts(sessions, sessions')
  BY <1>4, <1>5, SessionChanged
<1>7. /\ sessions \in Seq(Sess) /\ Len(sessions) <= Len(sessions') /\ Len(sessions) \in Nat
      /\ Len(sessions') \in Nat /\ DOMAIN sessions = 1..Len(sessions)
  BY <1>6 DEF Inv, Shape, Lasts
<1>8. /\ calls' = [c \in Callers |-> calls'[c]]
      /\ \A c \in Callers : \/ calls'[c] = calls[c]
                            \/ calls[c].pc = "listen" /\ calls'[c] = Heard(calls[c], chunk(k))
  BY <1>2, Zenon DEF Hears, Inv, Shape
<1>9. Shape' /\ InEffect'
  BY <1>5, <1>6, <1>7, <1>8 DEF Inv, Shape, InEffect, Lasts, settings
<1>10. ASSUME NEW c \in Callers
       PROVE  /\ CallOK(calls'[c], Seen, sessions)
              /\ calls'[c].pc = "refresh" => calls'[c] = calls[c]
  <2>1. CallOK(calls[c], Seen, sessions)
    BY DEF Inv
  <2>2. calls[c].pc = "listen" => /\ CallOK(Heard(calls[c], chunk(k)), Seen, sessions)
                                  /\ Heard(calls[c], chunk(k)).pc # "refresh"
    BY <1>3, <2>1, HeardOK
  <2> QED
    BY <1>8, <2>1, <2>2
<1>11. Seen'.way \subseteq Seen.way /\ Seen'.next = Seen.next
  BY <1>5, <1>10, SeenSame
<1>12. ASSUME NEW c \in Callers PROVE CallOK(calls'[c], Seen', sessions')
  <2>1. CallOK(calls'[c], Seen, sessions')
    BY <1>6, <1>7, <1>10, CallLasts
  <2> QED
    BY <1>11, <2>1, CallLess
<1> QED
  BY <1>9, <1>12 DEF Inv

-----------------------------------------------------------------------------
(* The steps of a call.                                                     *)
LEMMA CallInv == ASSUME Inv, NEW c \in Callers, NEW keep \in Keeps, Call(c, keep) PROVE Inv'
<1> DEFINE f == [NoCall EXCEPT !.pc = "refresh", !.n = Len(told) + 1,
                               !.policy = Policy(mode), !.modes = UnderWay]
<1>1. /\ told \in Seq(Told) /\ Len(told) \in Nat /\ sessions \in Seq(Sess)
      /\ stateful \in SUBSET Nat /\ mode \in SafetyModes
      /\ mode \in UnderWay /\ UnderWay \in SUBSET SafetyModes
  BY ModesSeen DEF Inv, Shape
<1>2. /\ f \in Rec /\ f.pc = "refresh" /\ f.session = 0 /\ f.modes = UnderWay
      /\ f.policy.mode = mode
  <2>1. "refresh" \in Pcs /\ Len(told) + 1 \in Nat
    BY <1>1 DEF Pcs
  <2>2. NoCall.session = 0
    BY DEF NoCall
  <2>3. Policy(mode) \in Pol /\ Policy(mode).mode = mode
    BY <1>1, PolicyType
  <2> QED
    BY <1>1, <2>1, <2>2, <2>3, NoCallType DEF Rec
<1>3. CallOK(f, Seen, sessions)
  BY <1>1, <1>2 DEF CallOK, Replaying, InSession, Seen
<1>4. told' \in Seq(Told)
  <2>1. [status |-> "none", code |-> {}] \in Told
    BY DEF Told
  <2> QED
    BY <1>1, <2>1 DEF Call
<1>5. stateful \subseteq stateful' /\ stateful' \in SUBSET Nat
  BY <1>1 DEF Call
<1>6. calls' = [calls EXCEPT ![c] = f]
  BY DEF Call, Set
<1> HIDE DEF f
<1>7. UNCHANGED <<settings, effective, current, owner, journal, sessions>>
  BY DEF Call
<1>8. Lasts(sessions, sessions')
  BY <1>7, SameLasts
<1>9. /\ effective' \in Pol /\ current' \in 0..Len(sessions')
      /\ current' # 0 => sessions'[current'].policy = effective'
      /\ owner' \subseteq Callers /\ journal' \in Seq(Nat)
      /\ \A i \in DOMAIN journal' : journal'[i] \in stateful'
  BY <1>5, <1>7 DEF Inv, Shape, InEffect
<1> QED
  BY <1>1, <1>2, <1>3, <1>4, <1>5, <1>6, <1>7, <1>8, <1>9, CallSteps

(* The policy that is written is of a mode that every call knows of.        *)
LEMMA RefreshInv == ASSUME Inv, NEW c \in Callers, Refresh(c) PROVE Inv'
<1> DEFINE f == [calls[c] EXCEPT !.pc = "look"]
<1>1. calls[c] \in Rec /\ CallOK(calls[c], Seen, sessions) /\ calls[c].pc = "refresh"
  BY Known DEF Refresh, At
<1>2. /\ f \in Rec /\ f.pc = "look" /\ f.session = calls[c].session
      /\ f.modes = calls[c].modes
  BY <1>1 DEF Rec, Pcs
<1>3. /\ pending' = calls[c].policy /\ calls' = [calls EXCEPT ![c] = f]
      /\ UNCHANGED <<mode, updates, effective, current, owner, journal, sessions,
                     stateful, told>>
  BY DEF Refresh, Set
<1> HIDE DEF f
<1>4. /\ DOMAIN calls = Callers /\ calls' = [d \in Callers |-> calls'[d]]
      /\ calls'[c] = f /\ \A d \in Callers \ {c} : calls'[d] = calls[d]
  BY <1>3 DEF Inv, Shape
<1>5. calls[c].policy \in Pol /\ calls[c].policy.mode \in UnderWay
  BY <1>1 DEF Rec, UnderWay
<1>6. Shape' /\ InEffect'
  BY <1>3, <1>4, <1>5 DEF Inv, Shape, InEffect
<1>7. UnderWay' \subseteq UnderWay
  BY <1>2, <1>3, <1>4 DEF UnderWay
<1>8. Seen'.way \subseteq Seen.way /\ Seen'.next \in Seen.way
  BY <1>3, <1>5, <1>7 DEF Seen
<1>9. ASSUME NEW d \in Callers PROVE CallOK(calls'[d], Seen', sessions')
  <2>1. CallOK(calls[d], Seen, sessions)
    BY Known
  <2>2. CASE d = c
    BY <1>1, <1>2, <1>3, <1>4, <1>8, <2>2 DEF CallOK, Replaying, InSession
  <2>3. CASE d # c
    BY <1>3, <1>4, <1>8, <2>1, <2>3 DEF CallOK
  <2> QED
    BY <2>2, <2>3
<1> QED
  BY <1>6, <1>9 DEF Inv

(* What the shell session's lock guards.                                    *)
LEMMA LookInv == ASSUME Inv, NEW c \in Callers, Look(c) PROVE Inv'
<1> DEFINE f == [calls[c] EXCEPT !.pc = "choose", !.policy = pending, !.todo = journal]
<1>1. /\ calls[c] \in Rec /\ CallOK(calls[c], Seen, sessions) /\ pending \in Pol
      /\ journal \in Seq(Nat) /\ calls[c].pc = "look"
  BY Known DEF Inv, Shape, InEffect, Look, At
<1>2. f \in Rec /\ f.pc = "choose" /\ f.policy = pending /\ f.session = calls[c].session
      /\ f.modes = calls[c].modes
  BY <1>1 DEF Rec, Pcs
<1>3. CallOK(f, Seen, sessions)
  BY <1>1, <1>2 DEF CallOK, Replaying, InSession, Seen
<1>4. calls' = [calls EXCEPT ![c] = f]
  BY DEF Look, Set
<1> HIDE DEF f
<1>5. /\ UNCHANGED <<settings, effective, journal, sessions, stateful, told>>
      /\ owner' = {c} /\ current' \in {0, current}
  BY DEF Look
<1>6. Lasts(sessions, sessions')
  BY <1>5, SameLasts
<1>7. /\ UNCHANGED settings /\ effective' \in Pol
      /\ current' \in 0..Len(sessions') /\ owner' \subseteq Callers
      /\ current' # 0 => sessions'[current'].policy = effective'
      /\ journal' \in Seq(Nat) /\ told' \in Seq(Told) /\ stateful' \in SUBSET Nat
      /\ \A i \in DOMAIN journal' : journal'[i] \in stateful'
  BY <1>5 DEF Inv, Shape, InEffect, settings
<1> QED
  BY <1>2, <1>3, <1>4, <1>5, <1>6, <1>7, CallSteps

(* A session is reused only if its policy is the one that was read.         *)
LEMMA ReuseInv == ASSUME Inv, NEW c \in Callers, Reuse(c) PROVE Inv'
<1> DEFINE f == [calls[c] EXCEPT !.pc = "type", !.session = current, !.doing = "command"]
<1>1. /\ calls[c] \in Rec /\ CallOK(calls[c], Seen, sessions) /\ calls[c].pc = "choose"
      /\ current \in 0..Len(sessions) /\ current # 0 /\ Len(sessions) \in Nat
      /\ sessions[current].policy = calls[c].policy
  BY Known DEF Inv, InEffect, Reuse, At, Outdated
<1>2. f \in Rec /\ f.pc = "type" /\ f.session = current /\ f.doing = "command"
      /\ f.modes = calls[c].modes
  <2>1. "type" \in Pcs /\ current \in Nat
    BY <1>1 DEF Pcs
  <2> QED
    BY <1>1, <2>1 DEF Rec
<1>3. CallOK(f, Seen, sessions)
  BY <1>1, <1>2 DEF CallOK, Replaying, InSession
<1>4. calls' = [calls EXCEPT ![c] = f]
  BY DEF Reuse, Set
<1> HIDE DEF f
<1>5. /\ UNCHANGED <<settings, effective, current, journal, sessions, stateful, told>>
      /\ owner' = owner \ {c}
  BY DEF Reuse, Unlock
<1>6. Lasts(sessions, sessions') /\ told' \in Seq(Told) /\ owner' \subseteq Callers
  BY <1>5, SameLasts DEF Inv, Shape
<1> QED
  BY <1>2, <1>3, <1>4, <1>5, <1>6, CallOnly

LEMMA ClearedLasts == ASSUME Inv PROVE Lasts(sessions, Cleared)
<1>1. CASE current = 0
  BY <1>1 DEF Cleared, Inv, Shape, Lasts
<1>2. CASE current # 0
  <2>1. current \in DOMAIN sessions
    BY <1>2 DEF Inv, Shape, InEffect
  <2> QED
    BY <1>2, <2>1, TerminatedLasts DEF Cleared
<1> QED
  BY <1>1, <1>2

(* The new session is given the policy that was read.                       *)
LEMMA SpawnSessionInv == ASSUME Inv, NEW c \in Callers, SpawnSession(c) PROVE Inv'
<1> DEFINE new == NewSession(calls[c].policy, c)
           f   == [calls[c] EXCEPT !.pc = "restore", !.session = Len(sessions) + 1]
<1>1. /\ calls[c] \in Rec /\ CallOK(calls[c], Seen, sessions) /\ calls[c].pc = "choose"
      /\ sessions \in Seq(Sess) /\ Len(sessions) \in Nat /\ c \in Makers
      /\ DOMAIN sessions = 1..Len(sessions)
  BY Known DEF SpawnSession, Replaces, At, Makers
<1>2. calls[c].policy \in Pol
  BY <1>1 DEF Rec
<1>3. new \in Sess /\ new.policy = calls[c].policy
  BY <1>1, <1>2, NewSessionType
<1> HIDE DEF new
<1>4. /\ Cleared \in Seq(Sess) /\ Len(Cleared) = Len(sessions)
      /\ \A s \in DOMAIN sessions : Cleared[s].policy = sessions[s].policy
  <2>1. Lasts(sessions, Cleared)
    BY ClearedLasts
  <2>2. Len(Cleared) = Len(sessions)
    <3>1. CASE current = 0
      BY <3>1 DEF Cleared
    <3>2. CASE current # 0
      <4>1. current \in DOMAIN sessions /\ sessions[current] \in Sess
        BY <1>1, <3>2 DEF Inv, InEffect
      <4> QED
        BY <1>1, <3>2, <4>1, GoneType, Replaced DEF Cleared, Terminated
    <3> QED
      BY <3>1, <3>2
  <2> QED
    BY <2>1, <2>2 DEF Lasts
<1>5. /\ sessions' = Append(Cleared, new) /\ current' = 0
      /\ UNCHANGED <<settings, effective, owner, journal, stateful, told>>
  BY DEF SpawnSession, new
<1>6. /\ sessions' \in Seq(Sess) /\ Len(sessions') = Len(sessions) + 1
      /\ sessions'[Len(sessions) + 1] = new
      /\ \A s \in DOMAIN sessions : sessions'[s] = Cleared[s]
  BY <1>1, <1>3, <1>4, <1>5
<1>7. Lasts(sessions, sessions')
  BY <1>1, <1>4, <1>6 DEF Lasts
<1>8. /\ f \in Rec /\ f.pc = "restore" /\ f.session = Len(sessions) + 1
      /\ f.modes = calls[c].modes /\ f.policy = calls[c].policy
  <2>1. "restore" \in Pcs /\ Len(sessions) + 1 \in Nat
    BY <1>1 DEF Pcs
  <2> QED
    BY <1>1, <2>1 DEF Rec
<1>9. CallOK(f, Seen, sessions')
  BY <1>1, <1>3, <1>6, <1>8 DEF CallOK, Replaying, InSession
<1>10. calls' = [calls EXCEPT ![c] = f]
  BY DEF SpawnSession, Set
<1> HIDE DEF f
<1>11. /\ UNCHANGED settings /\ effective' \in Pol
       /\ current' \in 0..Len(sessions') /\ owner' \subseteq Callers
       /\ journal' \in Seq(Nat) /\ told' \in Seq(Told) /\ stateful' \in SUBSET Nat
       /\ \A i \in DOMAIN journal' : journal'[i] \in stateful'
  BY <1>1, <1>5, <1>6 DEF Inv, Shape, InEffect, settings
<1> QED
  BY <1>8, <1>5, <1>7, <1>9, <1>10, <1>11, CallSteps

LEMMA SpawnFailsInv == ASSUME Inv, NEW c \in Callers, SpawnFails(c) PROVE Inv'
<1>1. /\ calls' = [calls EXCEPT ![c] = NoCall] /\ told' \in Seq(Told)
      /\ NoCall.pc = "idle" /\ \A ss \in Seq(Sess) : CallOK(NoCall, Seen, ss)
  BY ReturnType DEF SpawnFails
<1>2. /\ UNCHANGED <<settings, effective, journal, stateful>> /\ owner' = owner \ {c}
      /\ (sessions' = sessions /\ current' = current) \/ (sessions' = Cleared /\ current' = 0)
  BY DEF SpawnFails, Unlock
<1>3. Lasts(sessions, sessions')
  BY <1>2, SameLasts, ClearedLasts
<1>4. sessions' \in Seq(Sess) /\ Len(sessions') \in Nat
  BY <1>3 DEF Lasts
<1>5. /\ UNCHANGED settings /\ effective' \in Pol
      /\ current' \in 0..Len(sessions') /\ owner' \subseteq Callers
      /\ current' # 0 => sessions'[current'].policy = effective'
      /\ journal' \in Seq(Nat) /\ stateful' \in SUBSET Nat
      /\ \A i \in DOMAIN journal' : journal'[i] \in stateful'
  BY <1>2, <1>4 DEF Inv, Shape, InEffect, settings
<1> QED
  BY <1>1, <1>2, <1>3, <1>4, <1>5, CallSteps

(* The new session, once restored, is the current one, and its policy the   *)
(* one in effect.                                                           *)
LEMMA RestoredInv == ASSUME Inv, NEW c \in Callers, Restored(c) PROVE Inv'
<1> DEFINE f == [calls[c] EXCEPT !.pc = "type", !.doing = "command"]
<1>1. /\ calls[c] \in Rec /\ CallOK(calls[c], Seen, sessions) /\ calls[c].pc = "restore"
      /\ Len(sessions) \in Nat
  BY Known DEF Restored, At
<1>2. /\ f \in Rec /\ f.pc = "type" /\ f.session = calls[c].session /\ f.doing = "command"
      /\ f.modes = calls[c].modes /\ calls[c].policy \in Pol
  BY <1>1 DEF Rec, Pcs
<1>3. /\ CallOK(f, Seen, sessions) /\ calls[c].session \in 0..Len(sessions)
      /\ sessions[calls[c].session].policy = calls[c].policy
  BY <1>1, <1>2 DEF CallOK, Replaying, InSession
<1>4. calls' = [calls EXCEPT ![c] = f]
  BY DEF Restored, Set
<1> HIDE DEF f
<1>5. /\ UNCHANGED <<settings, journal, sessions, stateful, told>> /\ owner' = owner \ {c}
      /\ current' = calls[c].session /\ effective' = calls[c].policy
  BY DEF Restored, Unlock
<1>6. Lasts(sessions, sessions')
  BY <1>5, SameLasts
<1>7. /\ UNCHANGED settings /\ effective' \in Pol
      /\ current' \in 0..Len(sessions') /\ owner' \subseteq Callers
      /\ current' # 0 => sessions'[current'].policy = effective'
      /\ journal' \in Seq(Nat) /\ told' \in Seq(Told) /\ stateful' \in SUBSET Nat
      /\ \A i \in DOMAIN journal' : journal'[i] \in stateful'
  BY <1>2, <1>3, <1>5 DEF Inv, Shape, InEffect, settings
<1> QED
  BY <1>2, <1>3, <1>4, <1>5, <1>6, <1>7, CallSteps

(* The shell is typed into.                                                 *)
LEMMA TypeInv == ASSUME Inv, NEW c \in Callers, Type(c) PROVE Inv'
<1> DEFINE f == [calls[c] EXCEPT !.pc = "listen", !.cwd = FALSE]
           s == calls[c].session
           t == [sessions[s] EXCEPT !.typed =
                   IF sessions[s].alive THEN @ \o LinesOf(Typed(c)) ELSE @]
<1>1. /\ calls[c] \in Rec /\ CallOK(calls[c], Seen, sessions) /\ calls[c].pc = "type"
      /\ s \in DOMAIN sessions /\ sessions[s] \in Sess
  BY Known DEF Type, At, InSession, Inv, Shape
<1>2. Typed(c) \in Items
  <2>1. calls[c].n \in Nat /\ calls[c].doing \in {"replay", "command", "snapshot"}
        /\ calls[c].todo \in Seq(Nat)
    BY <1>1 DEF Rec
  <2>2. calls[c].doing = "replay" => Head(calls[c].todo) \in Nat
    BY <1>1, <2>1 DEF CallOK, InSession
  <2> QED
    BY <2>1, <2>2 DEF Typed, Item, Items
<1>3. t \in Sess /\ t.policy = sessions[s].policy
  <2>1. sessions[s].typed \in Seq(Items)
    BY <1>1 DEF Sess
  <2>2. sessions[s].typed \o LinesOf(Typed(c)) \in Seq(Items)
    <3>1. [Typed(c) EXCEPT !.last = FALSE] \in Items
      BY <1>2 DEF Items
    <3>2. LinesOf(Typed(c)) \in Seq(Items)
      BY <1>2, <3>1 DEF LinesOf
    <3> QED
      BY <2>1, <3>2
  <2> QED
    BY <1>1, <2>1, <2>2 DEF Sess
<1>4. sessions' = [sessions EXCEPT ![s] = t]
  BY <1>1 DEF Type, Target
<1> HIDE DEF t
<1>5. Lasts(sessions, sessions')
  BY <1>1, <1>3, <1>4, SessionChanged
<1>6. /\ f \in Rec /\ f.pc = "listen" /\ f.session = s /\ f.modes = calls[c].modes
      /\ f.policy = calls[c].policy /\ f.doing = calls[c].doing /\ f.todo = calls[c].todo
  BY <1>1 DEF Rec, Pcs
<1>7. CallOK(f, Seen, sessions)
  BY <1>1, <1>6 DEF CallOK, Replaying, InSession
<1>8. CallOK(f, Seen, sessions')
  BY <1>5, <1>7, CallLasts DEF Inv, Shape
<1>9. /\ calls' = [calls EXCEPT ![c] = f] /\ owner' = owner /\ told' = told
      /\ UNCHANGED <<settings, effective, current, journal, stateful>>
  BY DEF Type, Set
<1> HIDE DEF f
<1> QED
  BY <1>6, <1>5, <1>8, <1>9, CallOnly DEF Inv, Shape

(* Steps that change only where the call is, what it does next or has       *)
(* heard, while its session is the same.                                    *)
LEMMA Onwards ==
  ASSUME Inv, NEW c \in Callers, NEW f \in Rec, calls' = [calls EXCEPT ![c] = f],
         calls[c].pc \notin {"idle", "refresh"},
         f.session = calls[c].session, f.modes = calls[c].modes,
         f.policy = calls[c].policy, f.pc \notin {"idle", "refresh", "choose"},
         f.pc \in InSession => calls[c].pc \in InSession,
         Replaying(f) => Replaying(calls[c]),
         f.pc \in InSession \ {"restore"} /\ f.doing = "replay" => f.todo # <<>>,
         Lasts(sessions, sessions'),
         UNCHANGED <<settings, effective, current, owner, journal, stateful, told>>
  PROVE  Inv'
<1>1. CallOK(calls[c], Seen, sessions) /\ sessions \in Seq(Sess)
  BY Known
<1>2. CallOK(f, Seen, sessions)
  BY <1>1 DEF CallOK
<1>3. CallOK(f, Seen, sessions')
  BY <1>1, <1>2, CallLasts
<1> QED
  BY <1>3, CallOnly DEF Inv, Shape

LEMMA ReplayInv ==
  ASSUME Inv, NEW c \in Callers, Replay(c) \/ ReplayOver(c) \/ GiveUp(c) \/ CommandOver(c)
  PROVE  Inv'
<1>1. calls[c] \in Rec /\ CallOK(calls[c], Seen, sessions)
  BY Known
<1>2. Lasts(sessions, sessions')
  BY SameLasts DEF Replay, ReplayOver, GiveUp, CommandOver
<1>3. UNCHANGED <<settings, effective, current, owner, journal, stateful, told>>
  BY DEF Replay, ReplayOver, GiveUp, CommandOver
<1>4. CASE Replay(c)
  <2> DEFINE f == [calls[c] EXCEPT !.pc = "type", !.doing = "replay"]
  <2>1. /\ f \in Rec /\ f.session = calls[c].session /\ f.modes = calls[c].modes
        /\ f.policy = calls[c].policy /\ f.pc = "type" /\ f.todo = calls[c].todo
    BY <1>1 DEF Rec, Pcs
  <2>2. /\ calls' = [calls EXCEPT ![c] = f] /\ calls[c].pc = "restore" /\ calls[c].todo # <<>>
    BY <1>4 DEF Replay, Set, At
  <2> HIDE DEF f
  <2> QED
    BY <1>1, <1>2, <1>3, <2>1, <2>2, Onwards DEF Replaying, InSession
<1>5. CASE ReplayOver(c)
  <2> DEFINE f == [calls[c] EXCEPT !.pc = "restore", !.todo = Tail(@)]
  <2>1. /\ calls' = [calls EXCEPT ![c] = f] /\ calls[c].pc = "over" /\ calls[c].doing = "replay"
    BY <1>5 DEF ReplayOver, Set, At
  <2>2. calls[c].todo \in Seq(Nat) /\ calls[c].todo # <<>>
    BY <1>1, <2>1 DEF Rec, CallOK, InSession
  <2>3. Tail(calls[c].todo) \in Seq(Nat)
    BY <2>2
  <2>4. /\ f \in Rec /\ f.session = calls[c].session /\ f.modes = calls[c].modes
        /\ f.policy = calls[c].policy /\ f.pc = "restore"
    BY <1>1, <2>3 DEF Rec, Pcs
  <2> HIDE DEF f
  <2> QED
    BY <1>1, <1>2, <1>3, <2>1, <2>4, Onwards DEF Replaying, InSession
<1>6. CASE GiveUp(c)
  <2> DEFINE f == [calls[c] EXCEPT !.pc = "over",
                     !.status = IF calls[c].doing = "command" THEN "Unfinished" ELSE @]
  <2>1. /\ f \in Rec /\ f.session = calls[c].session /\ f.modes = calls[c].modes
        /\ f.policy = calls[c].policy /\ f.pc = "over" /\ f.todo = calls[c].todo
        /\ f.doing = calls[c].doing
    BY <1>1 DEF Rec, Pcs
  <2>2. calls' = [calls EXCEPT ![c] = f] /\ calls[c].pc = "listen"
    BY <1>6 DEF GiveUp, Set, At
  <2>3. calls[c].doing = "replay" => calls[c].todo # <<>>
    BY <1>1, <2>2 DEF CallOK, InSession
  <2> HIDE DEF f
  <2> QED
    BY <1>1, <1>2, <1>3, <2>1, <2>2, <2>3, Onwards DEF Replaying, InSession
<1>7. CASE CommandOver(c)
  <2> DEFINE f == [calls[c] EXCEPT !.pc = "type", !.doing = "snapshot"]
  <2>1. /\ f \in Rec /\ f.session = calls[c].session /\ f.modes = calls[c].modes
        /\ f.policy = calls[c].policy /\ f.pc = "type" /\ f.doing = "snapshot"
    BY <1>1 DEF Rec, Pcs
  <2>2. calls' = [calls EXCEPT ![c] = f] /\ calls[c].pc = "over"
    BY <1>7 DEF CommandOver, Set, At
  <2> HIDE DEF f
  <2> QED
    BY <1>1, <1>2, <1>3, <2>1, <2>2, Onwards DEF Replaying, InSession
<1> QED
  BY <1>4, <1>5, <1>6, <1>7

LEMMA LeaveSessionInv == ASSUME Inv, NEW c \in Callers, Retire(c) \/ Retry(c) PROVE Inv'
<1>1. /\ calls[c] \in Rec /\ calls[c].pc \in {"type", "over"}
      /\ calls[c].session \in DOMAIN sessions
  BY Known DEF Retire, SyncFails, Unknown, Retry, Broken, At, InSession
<1>2. sessions' = Terminated(calls[c].session)
  BY DEF Retire, Retry
<1>3. Lasts(sessions, sessions')
  BY <1>1, <1>2, TerminatedLasts
<1>4. UNCHANGED <<settings, effective, current, owner, journal, stateful, told>>
  BY DEF Retire, Retry
<1>5. CASE Retire(c)
  <2> DEFINE f == [calls[c] EXCEPT !.pc = "forget"]
  <2>1. /\ f \in Rec /\ f.session = calls[c].session /\ f.modes = calls[c].modes
        /\ f.policy = calls[c].policy /\ f.pc = "forget"
    BY <1>1 DEF Rec, Pcs
  <2>2. calls' = [calls EXCEPT ![c] = f]
    BY <1>5 DEF Retire, Set
  <2> HIDE DEF f
  <2> QED
    BY <1>1, <1>3, <1>4, <2>1, <2>2, Onwards DEF Replaying, InSession
<1>6. CASE Retry(c)
  <2> DEFINE f == [calls[c] EXCEPT !.pc = "restart", !.retried = TRUE]
  <2>1. /\ f \in Rec /\ f.session = calls[c].session /\ f.modes = calls[c].modes
        /\ f.policy = calls[c].policy /\ f.pc = "restart"
    BY <1>1 DEF Rec, Pcs
  <2>2. calls' = [calls EXCEPT ![c] = f]
    BY <1>6 DEF Retry, Set
  <2> HIDE DEF f
  <2> QED
    BY <1>1, <1>3, <1>4, <2>1, <2>2, Onwards DEF Replaying, InSession
<1> QED
  BY <1>5, <1>6

LEMMA RestartInv == ASSUME Inv, NEW c \in Callers, Restart(c) PROVE Inv'
<1> DEFINE f == [calls[c] EXCEPT !.pc = "look"]
<1>1. calls[c] \in Rec /\ CallOK(calls[c], Seen, sessions) /\ calls[c].pc = "restart"
  BY Known DEF Restart, At
<1>2. /\ f \in Rec /\ f.pc = "look" /\ f.session = calls[c].session
      /\ f.modes = calls[c].modes
  BY <1>1 DEF Rec, Pcs
<1>3. CallOK(f, Seen, sessions)
  BY <1>1, <1>2 DEF CallOK, Replaying, InSession
<1>4. calls' = [calls EXCEPT ![c] = f]
  BY DEF Restart, Set
<1> HIDE DEF f
<1>5. /\ UNCHANGED <<settings, effective, owner, journal, sessions, stateful, told>>
      /\ current' = 0
  BY DEF Restart
<1>6. Lasts(sessions, sessions')
  BY <1>5, SameLasts
<1>7. /\ UNCHANGED settings /\ effective' \in Pol
      /\ current' \in 0..Len(sessions') /\ owner' \subseteq Callers
      /\ journal' \in Seq(Nat) /\ told' \in Seq(Told) /\ stateful' \in SUBSET Nat
      /\ \A i \in DOMAIN journal' : journal'[i] \in stateful'
  BY <1>5 DEF Inv, Shape, InEffect, settings
<1> QED
  BY <1>2, <1>3, <1>4, <1>5, <1>6, <1>7, CallSteps

(* The call returns.  Only a command called with replay_state joins the     *)
(* journal.                                                                 *)
LEMMA ReturnInv ==
  ASSUME Inv, NEW c \in Callers, Sync(c) \/ Forget(c) \/ SyncError(c) \/ Refused(c)
  PROVE  Inv'
<1>1. calls[c] \in Rec
  BY Known
<1>2. PICK status \in {"Completed", "Unfinished", "none", "Err", "Failure"} : Return(c, status)
  BY <1>1 DEF Sync, Forget, SyncError, Refused, Rec
<1>3. /\ calls' = [calls EXCEPT ![c] = NoCall] /\ told' \in Seq(Told)
      /\ NoCall.pc = "idle" /\ \A ss \in Seq(Sess) : CallOK(NoCall, Seen, ss)
  BY <1>2, ReturnType
<1>4. /\ UNCHANGED <<settings, effective, owner, sessions, stateful>>
      /\ current' \in {0, current}
  BY DEF Sync, Forget, SyncError, Refused
<1>5. journal' \in Seq(Nat) /\ \A i \in DOMAIN journal' : journal'[i] \in stateful
  <2>1. journal \in Seq(Nat) /\ \A i \in DOMAIN journal : journal[i] \in stateful
    BY DEF Inv, Shape
  <2>2. CASE Sync(c)
    <3>1. journal' = journal \o Recorded(c) /\ calls[c].n \in Nat
      BY <1>1, <2>2 DEF Sync, Journal, Rec
    <3>2. CASE calls[c].n \in stateful
      <4>1. journal' = journal \o <<calls[c].n>>
        BY <3>1, <3>2 DEF Recorded
      <4> QED
        BY <2>1, <3>1, <3>2, <4>1
    <3>3. CASE calls[c].n \notin stateful
      <4>1. journal' = journal
        BY <2>1, <3>1, <3>3 DEF Recorded
      <4> QED
        BY <2>1, <4>1
    <3> QED
      BY <3>2, <3>3
  <2>3. CASE Forget(c) \/ SyncError(c) \/ Refused(c)
    BY <2>1, <2>3 DEF Forget, SyncError, Refused
  <2> QED
    BY <2>2, <2>3
<1>6. Lasts(sessions, sessions') /\ sessions' \in Seq(Sess)
  BY <1>4, SameLasts DEF Lasts
<1>7. /\ UNCHANGED settings /\ effective' \in Pol
      /\ current' \in 0..Len(sessions') /\ owner' \subseteq Callers
      /\ current' # 0 => sessions'[current'].policy = effective'
      /\ stateful' \in SUBSET Nat
  BY <1>4 DEF Inv, Shape, InEffect, settings
<1> QED
  BY <1>3, <1>4, <1>5, <1>6, <1>7, CallSteps

-----------------------------------------------------------------------------
LEMMA InitInv == Init => Inv
<1> SUFFICES ASSUME Init PROVE Inv
  OBVIOUS
<1>1. /\ mode \in SafetyModes /\ pending = Policy(mode) /\ effective = Policy(mode)
      /\ updates \in Seq(Tasks)
  BY ShellAssumption DEF Init
<1>2. /\ current = 0 /\ owner = {} /\ journal = <<>> /\ sessions = <<>> /\ stateful = {}
      /\ told = <<>> /\ calls = [c \in Callers |-> NoCall]
  BY DEF Init
<1>3. /\ journal \in Seq(Nat) /\ sessions \in Seq(Sess) /\ told \in Seq(Told)
      /\ DOMAIN journal = {} /\ Len(sessions) = 0
  BY <1>2
<1>4. Shape
  <2>1. calls = [c \in Callers |-> calls[c]]
    BY <1>2
  <2>2. owner \subseteq Callers /\ stateful \in SUBSET Nat
    BY <1>2
  <2> QED
    BY <1>1, <1>3, <2>1, <2>2, PolicyType DEF Shape
<1>5. InEffect
  BY <1>1, <1>2, <1>3, PolicyType DEF InEffect
<1>6. ASSUME NEW c \in Callers PROVE CallOK(calls[c], Seen, sessions)
  <2>1. calls[c] = NoCall
    BY <1>2
  <2>2. NoCall.pc = "idle" /\ NoCall.session = 0
    BY DEF NoCall
  <2> QED
    BY <1>3, <2>1, <2>2, NoCallType DEF CallOK, Replaying, InSession
<1> QED
  BY <1>4, <1>5, <1>6 DEF Inv

LEMMA StepInv == Inv /\ [Next]_vars => Inv'
<1> SUFFICES ASSUME Inv, [Next]_vars PROVE Inv'
  OBVIOUS
<1>1. CASE User
  BY <1>1, SetModeInv, UpdateInv, AddWritableRootInv DEF User
<1>2. ASSUME NEW s \in DOMAIN sessions, Pty(s) \/ Exits(s) \/ RuntimeEnds(s) PROVE Inv'
  BY <1>2, PtyInv, ReadInv DEF Pty
<1>3. ASSUME NEW c \in Callers, Step(c) PROVE Inv'
  <2>1. CASE Refresh(c) \/ Look(c) \/ Reuse(c) \/ SpawnSession(c) \/ SpawnFails(c)
             \/ Restored(c)
    BY <2>1, RefreshInv, LookInv, ReuseInv, SpawnSessionInv, SpawnFailsInv, RestoredInv
  <2>2. CASE Replay(c) \/ ReplayOver(c) \/ GiveUp(c) \/ CommandOver(c)
    BY <2>2, ReplayInv
  <2>3. CASE Type(c) \/ Retire(c) \/ Retry(c) \/ Restart(c)
    BY <2>3, TypeInv, LeaveSessionInv, RestartInv
  <2>4. CASE Sync(c) \/ Forget(c) \/ SyncError(c) \/ Refused(c)
    BY <2>4, ReturnInv
  <2> QED
    BY <1>3, <2>1, <2>2, <2>3, <2>4 DEF Step
<1>4. ASSUME NEW c \in Callers, NEW keep \in Keeps, Call(c, keep) PROVE Inv'
  BY <1>4, CallInv
<1>5. CASE UNCHANGED vars
  <2>1. Seen' = Seen
    BY <1>5 DEF vars, settings, Seen, UnderWay
  <2> QED
    BY <1>5, <2>1 DEF vars, settings, Inv, Shape, InEffect
<1> QED
  BY <1>1, <1>2, <1>3, <1>4, <1>5 DEF Next

LEMMA InvAlways == Spec => []Inv
BY InitInv, StepInv, PTL DEF Spec

-----------------------------------------------------------------------------
(***************************************************************************)
(* The state of the shells and of the calls keeps its type, and the        *)
(* journal holds only commands that were called with replay_state.         *)
(***************************************************************************)
THEOREM TypeCorrect == Spec => []TypeOK
<1>1. Inv => TypeOK
  <2> SUFFICES ASSUME Inv PROVE TypeOK
    OBVIOUS
  <2>1. ASSUME NEW c \in Callers
        PROVE  /\ calls[c].session \in 0..Len(sessions)
               /\ calls[c].doing \in {"replay", "command", "snapshot"}
               /\ calls[c].status \in {"none", "Completed", "Unfinished"}
    BY DEF Inv, CallOK, Rec
  <2> QED
    BY <2>1 DEF Inv, Shape, InEffect, TypeOK
<1> QED
  BY InvAlways, <1>1, PTL

(***************************************************************************)
(* A command is typed only into a session whose sandbox was built for a    *)
(* mode in force since the command was called, or one that a call or an    *)
(* update had read by then and had still to write: get_or_create_shell_    *)
(* session replaces a session whose policy is not the pending one, and the *)
(* policy in effect stays that of the current session, whoever restores it. *)
(***************************************************************************)
THEOREM ModeInForceCorrect == Spec => []ModeInForce
<1>1. Inv => ModeInForce
  BY DEF Inv, ModeInForce, CallOK, InSession, At, Target
<1> QED
  BY InvAlways, <1>1, PTL
-----------------------------------------------------------------------------
(* One caller: which sessions the manager still lists.                      *)
Listed == {s \in DOMAIN sessions : sessions[s].listed}

Sole(f) ==
    /\ f.pc \in {"idle", "refresh", "look", "choose"} => Listed \subseteq {current}
    /\ f.pc = "choose" /\ current # 0 => current \in Listed
    /\ f.pc \in {"forget", "restart"} => Listed = {}
    /\ f.pc \in InSession => Listed = {f.session}
    /\ f.pc \in InSession /\ ~ Replaying(f) => f.session = current

(* A session changed, one terminated, one spawned.                          *)
LEMMA ListedKept ==
  ASSUME Inv, NEW s \in DOMAIN sessions, NEW t, sessions' = [sessions EXCEPT ![s] = t],
         t.listed = sessions[s].listed
  PROVE  Listed' = Listed
BY Replaced DEF Inv, Shape, Listed

LEMMA ListedLess ==
  ASSUME Inv, NEW s \in DOMAIN sessions
  PROVE  /\ DOMAIN Terminated(s) = DOMAIN sessions
         /\ \A r \in DOMAIN sessions : r # s => Terminated(s)[r] = sessions[r]
         /\ Terminated(s)[s] = Gone(sessions[s]) /\ Terminated(s) \in Seq(Sess)
         /\ ~ Gone(sessions[s]).listed /\ ~ Gone(sessions[s]).alive
         /\ sessions' = Terminated(s) => Listed' = Listed \ {s}
<1>1. sessions[s] \in Sess /\ sessions \in Seq(Sess)
  BY DEF Inv, Shape
<1>2. Gone(sessions[s]) \in Sess
  BY <1>1, GoneType
<1>3. ~ Gone(sessions[s]).listed /\ ~ Gone(sessions[s]).alive
  BY DEF Gone, NewSession
<1> HIDE DEF Terminated
<1>4. /\ DOMAIN Terminated(s) = DOMAIN sessions
      /\ \A r \in DOMAIN sessions : r # s => Terminated(s)[r] = sessions[r]
      /\ Terminated(s)[s] = Gone(sessions[s])
  BY <1>1 DEF Terminated
<1>5. Terminated(s) \in Seq(Sess)
  BY <1>1, <1>2, Replaced DEF Terminated
<1> QED
  BY <1>3, <1>4, <1>5 DEF Listed


LEMMA ListedMore ==
  ASSUME Inv, NEW c \in Callers, SpawnSession(c)
  PROVE  /\ Listed' = (Listed \ {current}) \cup {Len(sessions) + 1}
         /\ Len(sessions) + 1 \in DOMAIN sessions'
         /\ sessions'[Len(sessions) + 1] = NewSession(calls[c].policy, c)
         /\ current' = 0 /\ calls'[c].pc = "restore"
         /\ calls'[c].session = Len(sessions) + 1
         /\ calls'[c].todo = calls[c].todo
<1>1. /\ sessions' = Append(Cleared, NewSession(calls[c].policy, c)) /\ current' = 0
      /\ calls' = [calls EXCEPT ![c] = [calls[c] EXCEPT !.pc = "restore",
                                            !.session = Len(sessions) + 1]]
      /\ calls[c] \in Rec /\ DOMAIN calls = Callers
      /\ sessions \in Seq(Sess) /\ current \in 0..Len(sessions)
      /\ DOMAIN sessions = 1..Len(sessions) /\ Len(sessions) \in Nat
  BY Known DEF SpawnSession, Set, Inv, Shape, InEffect
<1>2. /\ Cleared \in Seq(Sess) /\ DOMAIN Cleared = DOMAIN sessions
      /\ \A s \in DOMAIN sessions : Cleared[s].listed <=> s \in Listed \ {current}
  <2>1. CASE current = 0
    BY <1>1, <2>1 DEF Cleared, Listed
  <2>2. CASE current # 0
    BY <1>1, <2>2, ListedLess DEF Cleared, Listed
  <2> QED
    BY <2>1, <2>2
<1> DEFINE n == NewSession(calls[c].policy, c)
<1>3. n \in Sess /\ n.listed
  <2>1. calls[c].policy \in Pol /\ c \in Makers
    BY <1>1 DEF Rec, Makers
  <2>2. n \in Sess
    BY <2>1, NewSessionType
  <2> QED
    BY <2>2 DEF NewSession
<1>4. sessions' = Append(Cleared, n)
  BY <1>1
<1> HIDE DEF n
<1>a. Len(Cleared) = Len(sessions)
  BY <1>1, <1>2
<1>5. /\ DOMAIN sessions' = 1..Len(sessions) + 1
      /\ sessions'[Len(sessions) + 1] = n
      /\ \A s \in DOMAIN sessions : sessions'[s] = Cleared[s]
  BY <1>1, <1>2, <1>3, <1>4, <1>a
<1>6. Listed' = (Listed \ {current}) \cup {Len(sessions) + 1}
  BY <1>1, <1>2, <1>3, <1>5 DEF Listed
<1>7. /\ calls'[c].pc = "restore" /\ calls'[c].session = Len(sessions) + 1
      /\ calls'[c].todo = calls[c].todo
  BY <1>1 DEF Rec
<1> QED
  BY <1>1, <1>5, <1>6, <1>7 DEF n

(* The record of a call after a step of it.                                 *)
LEMMA Moves ==
  ASSUME Inv, NEW c \in Callers
  PROVE  /\ \A f : Set(c, f) => calls'[c] = f
         /\ \A status : Return(c, status) =>
               calls'[c] = NoCall /\ calls'[c].pc = "idle" /\ calls'[c].n = 0
         /\ calls[c] \in Rec
<1>1. DOMAIN calls = Callers /\ calls[c] \in Rec
  BY DEF Inv, Shape, CallOK
<1>2. \A f : Set(c, f) => calls'[c] = f
  BY <1>1 DEF Set
<1> QED
  BY <1>1, <1>2 DEF Return, NoCall

(* What becomes of the session t at the other end of the terminal: a line   *)
(* is read, a line finishes, the probe is given up, the shell dies, or the  *)
(* first k marks are taken from its screen.                                 *)
Runs(t, u) ==
    /\ t.alive /\ u.alive /\ t.busy = {} /\ t.typed # <<>>
    /\ u.busy = {Head(t.typed)} /\ u.typed = Tail(t.typed)
    /\ u.screen = t.screen /\ u.state = t.state /\ u.ready = t.ready
Finishes(t, u) ==
    /\ u.busy = {} /\ u.typed = t.typed /\ u.alive = t.alive /\ u.ready = t.ready
    /\ \E i \in t.busy : /\ u.screen = t.screen \o Marks(i)
                         /\ u.state = t.state \cup Done(i)
Readies(t, u) ==
    /\ "probe" \in Slow \/ Silent(t)
    /\ u.busy = t.busy /\ u.typed = t.typed /\ u.alive = t.alive
    /\ u.screen = t.screen /\ u.state = t.state
Dies(t, u) ==
    /\ ~ u.alive /\ u.busy = {} /\ u.typed = <<>>
    /\ u.screen = t.screen /\ u.state = t.state
Reads(t, u, k) ==
    /\ u.busy = t.busy /\ u.typed = t.typed /\ u.alive = t.alive
    /\ u.state = t.state
    /\ u.screen = SubSeq(t.screen, k + 1, Len(t.screen))

LEMMA Terminal ==
  ASSUME Inv, NEW s \in DOMAIN sessions, Pty(s) \/ Exits(s) \/ RuntimeEnds(s)
  PROVE  \E t : /\ Update(s, t) /\ t.listed = sessions[s].listed
                /\ \/ /\ UNCHANGED calls
                      /\ \/ Runs(sessions[s], t) \/ Finishes(sessions[s], t)
                         \/ Readies(sessions[s], t) \/ Dies(sessions[s], t)
                   \/ \E k \in 1..Len(sessions[s].screen) :
                        /\ Reads(sessions[s], t, k)
                        /\ \/ Hears(s, SubSeq(sessions[s].screen, 1, k))
                           \/ "drop" \in Faults /\ UNCHANGED calls
<1> DEFINE t == sessions[s]
<1>1. t \in Sess
  BY DEF Inv, Shape
<1>2. CASE RunNext(s)
  <2> DEFINE u == [t EXCEPT !.busy = {Head(t.typed)}, !.typed = Tail(t.typed)]
  <2>1. /\ Update(s, u) /\ UNCHANGED calls /\ t.alive /\ t.busy = {} /\ t.typed # <<>>
    BY <1>2 DEF RunNext
  <2> HIDE DEF t
  <2>2. Runs(t, u) /\ u.listed = t.listed
    BY <1>1, <2>1 DEF Sess, Runs
  <2> HIDE DEF u
  <2> QED
    BY <2>1, <2>2 DEF t
<1>3. CASE FinishLine(s)
  <2>1. PICK i \in t.busy :
          /\ Update(s, [t EXCEPT !.busy = {}, !.screen = @ \o Marks(i),
                                 !.state = @ \cup Done(i)])
          /\ UNCHANGED calls
    BY <1>3 DEF FinishLine
  <2> DEFINE u == [t EXCEPT !.busy = {}, !.screen = t.screen \o Marks(i),
                            !.state = t.state \cup Done(i)]
  <2>2. Update(s, u)
    BY <2>1
  <2> HIDE DEF t
  <2>3. Finishes(t, u) /\ u.listed = t.listed
    BY <1>1 DEF Sess, Finishes
  <2> HIDE DEF u
  <2> QED
    BY <2>1, <2>2, <2>3 DEF t
<1>4. CASE ReadyAnyway(s)
  <2> DEFINE u == [t EXCEPT !.ready = TRUE]
  <2>1. Update(s, u) /\ UNCHANGED calls /\ ("probe" \in Slow \/ Silent(t))
    BY <1>4 DEF ReadyAnyway
  <2> HIDE DEF t
  <2>2. Readies(t, u) /\ u.listed = t.listed
    BY <1>1, <2>1 DEF Sess, Readies
  <2> HIDE DEF u
  <2> QED
    BY <2>1, <2>2 DEF t
<1>5. CASE Exits(s) \/ RuntimeEnds(s)
  <2> DEFINE u == [t EXCEPT !.alive = FALSE, !.busy = {}, !.typed = <<>>]
             v == [t EXCEPT !.writer = FALSE, !.alive = FALSE, !.busy = {}, !.typed = <<>>]
  <2>1. (Update(s, u) \/ Update(s, v)) /\ UNCHANGED calls
    BY <1>5 DEF Exits, RuntimeEnds
  <2> HIDE DEF t
  <2>2. Dies(t, u) /\ u.listed = t.listed /\ Dies(t, v) /\ v.listed = t.listed
    BY <1>1 DEF Sess, Dies
  <2> HIDE DEF u, v
  <2> QED
    BY <2>1, <2>2 DEF t
<1>6. CASE Read(s)
  <2>1. PICK k \in 1..Len(t.screen) :
          /\ Update(s, [t EXCEPT !.screen = SubSeq(t.screen, k + 1, Len(t.screen)),
                                 !.ready = @ \/ Has(SubSeq(t.screen, 1, k), "D")])
          /\ \/ Hears(s, SubSeq(t.screen, 1, k))
             \/ "drop" \in Faults /\ UNCHANGED calls
    BY <1>6 DEF Read
  <2> DEFINE b == t.ready \/ Has(SubSeq(t.screen, 1, k), "D")
             u == [t EXCEPT !.screen = SubSeq(t.screen, k + 1, Len(t.screen)), !.ready = b]
  <2>2. Update(s, u)
    BY <2>1
  <2> HIDE DEF t, b
  <2>3. Reads(t, u, k) /\ u.listed = t.listed
    BY <1>1 DEF Sess, Reads
  <2> HIDE DEF u
  <2> QED
    BY <2>1, <2>2, <2>3 DEF t
<1> QED
  BY <1>2, <1>3, <1>4, <1>5, <1>6 DEF Pty

(* The terminal neither lists nor forgets a session.                        *)
LEMMA PtySole ==
  ASSUME Inv, NEW c \in Callers, Sole(calls[c]), NEW s \in DOMAIN sessions,
         Pty(s) \/ Exits(s) \/ RuntimeEnds(s)
  PROVE  Sole(calls[c])'
<1>1. sessions[s] \in Sess /\ calls[c] \in Rec
  BY Known DEF Inv, Shape
<1>2. PICK t : Update(s, t) /\ t.listed = sessions[s].listed
  BY Terminal, Zenon
<1>3. Listed' = Listed /\ current' = current
  BY <1>2, ListedKept DEF Update
<1>4. /\ calls'[c].session = calls[c].session /\ calls'[c].doing = calls[c].doing
      /\ \/ calls'[c].pc = calls[c].pc
         \/ calls[c].pc = "listen" /\ calls'[c].pc = "over"
  <2>1. CASE UNCHANGED calls
    BY <2>1
  <2>2. ASSUME NEW k, Hears(s, SubSeq(sessions[s].screen, 1, k))
        PROVE  /\ calls'[c].session = calls[c].session
               /\ calls'[c].doing = calls[c].doing
               /\ \/ calls'[c].pc = calls[c].pc
                  \/ calls[c].pc = "listen" /\ calls'[c].pc = "over"
    <3> DEFINE chunk == SubSeq(sessions[s].screen, 1, k)
    <3>1. calls'[c] = IF calls[c].pc = "listen" /\ calls[c].session = s
                        THEN Heard(calls[c], chunk) ELSE calls[c]
      BY <2>2 DEF Hears
    <3> HIDE DEF chunk
    <3>2. ASSUME calls[c].pc = "listen"
          PROVE  /\ Heard(calls[c], chunk).session = calls[c].session
                 /\ Heard(calls[c], chunk).doing = calls[c].doing
                 /\ Heard(calls[c], chunk).pc \in {"listen", "over"}
      BY <1>1, <3>2 DEF Heard, Rec
    <3> QED
      BY <3>1, <3>2
  <2> QED
    BY <2>1, <2>2, Terminal
<1> QED
  BY <1>3, <1>4 DEF Sole, Replaying, InSession

LEMMA StepSole ==
  ASSUME Inv, NEW c \in Callers, Sole(calls[c]), Step(c)
  PROVE  Sole(calls[c])'
<1>1. /\ calls[c] \in Rec /\ CallOK(calls[c], Seen, sessions)
      /\ calls[c].pc \in InSession => calls[c].session \in DOMAIN sessions
      /\ current \in 0..Len(sessions) /\ DOMAIN sessions = 1..Len(sessions)
      /\ Len(sessions) \in Nat
  BY Known DEF Inv, InEffect
<1>2. /\ \A f : Set(c, f) => calls'[c] = f
      /\ \A status : Return(c, status) => calls'[c].pc = "idle"
  BY Moves
<1>3. UNCHANGED sessions => Listed' = Listed
  BY DEF Listed
<1>18. CASE Refresh(c)
  <2>1. /\ calls'[c] = [calls[c] EXCEPT !.pc = "look"]
        /\ calls[c].pc = "refresh" /\ UNCHANGED <<sessions, current>>
    BY <1>2, <1>18 DEF Refresh, At
  <2>2. calls'[c].pc = "look"
    BY <1>1, <2>1 DEF Rec
  <2> QED
    BY <1>3, <2>1, <2>2 DEF Sole, InSession
<1>4. CASE Look(c)
  <2>1. /\ calls'[c] = [calls[c] EXCEPT !.pc = "choose", !.policy = pending, !.todo = journal]
        /\ calls[c].pc = "look" /\ UNCHANGED sessions
        /\ current' = IF current # 0 /\ ~ sessions[current].listed THEN 0 ELSE current
    BY <1>2, <1>4 DEF Look, At
  <2>2. calls'[c].pc = "choose"
    BY <1>1, <2>1 DEF Rec
  <2> QED
    BY <1>1, <1>3, <2>1, <2>2 DEF Sole, InSession, Listed
<1>5. CASE Reuse(c)
  <2>1. /\ calls'[c] = [calls[c] EXCEPT !.pc = "type", !.session = current, !.doing = "command"]
        /\ calls[c].pc = "choose" /\ UNCHANGED <<sessions, current>> /\ current # 0
    BY <1>2, <1>5 DEF Reuse, At
  <2>2. calls'[c].pc = "type" /\ calls'[c].session = current /\ calls'[c].doing = "command"
    BY <1>1, <2>1 DEF Rec
  <2> QED
    BY <1>1, <1>3, <2>1, <2>2 DEF Sole, Replaying, InSession
<1>6. CASE SpawnSession(c)
  <2>1. calls[c].pc = "choose"
    BY <1>6 DEF SpawnSession, Replaces, At
  <2>2. Listed \ {current} = {}
    BY <2>1 DEF Sole
  <2> QED
    BY <1>6, <2>2, ListedMore DEF Sole, Replaying, InSession
<1>7. CASE SpawnFails(c)
  <2>1. calls[c].pc = "choose" /\ calls'[c].pc = "idle"
    BY <1>2, <1>7 DEF SpawnFails, Replaces, At
  <2>2. Listed' \subseteq {current'}
    <3>1. CASE UNCHANGED <<sessions, current>>
      BY <1>3, <2>1, <3>1 DEF Sole
    <3>2. CASE sessions' = Cleared /\ current' = 0
      <4>1. CASE current = 0
        BY <1>1, <1>3, <2>1, <3>2, <4>1 DEF Sole, Cleared
      <4>2. CASE current # 0
        <5>1. Listed' = Listed \ {current}
          BY <1>1, <3>2, <4>2, ListedLess DEF Cleared
        <5> QED
          BY <5>1, <2>1 DEF Sole
      <4> QED
        BY <4>1, <4>2
    <3> QED
      BY <1>7, <3>1, <3>2 DEF SpawnFails
  <2> QED
    BY <2>1, <2>2 DEF Sole, InSession
<1>8. CASE Replay(c)
  <2>1. /\ calls'[c] = [calls[c] EXCEPT !.pc = "type", !.doing = "replay"]
        /\ calls[c].pc = "restore" /\ UNCHANGED <<sessions, current>>
    BY <1>2, <1>8 DEF Replay, At
  <2>2. calls'[c].pc = "type" /\ calls'[c].session = calls[c].session
        /\ calls'[c].doing = "replay"
    BY <1>1, <2>1 DEF Rec
  <2> QED
    BY <1>3, <2>1, <2>2 DEF Sole, Replaying, InSession
<1>9. CASE Restored(c)
  <2>1. /\ calls'[c] = [calls[c] EXCEPT !.pc = "type", !.doing = "command"]
        /\ calls[c].pc = "restore" /\ UNCHANGED sessions /\ current' = calls[c].session
    BY <1>2, <1>9 DEF Restored, At
  <2>2. calls'[c].pc = "type" /\ calls'[c].session = calls[c].session
        /\ calls'[c].doing = "command"
    BY <1>1, <2>1 DEF Rec
  <2> QED
    BY <1>3, <2>1, <2>2 DEF Sole, Replaying, InSession
<1>10. CASE Type(c)
  <2>1. /\ calls'[c] = [calls[c] EXCEPT !.pc = "listen", !.cwd = FALSE]
        /\ calls[c].pc = "type" /\ UNCHANGED current
        /\ sessions' = [sessions EXCEPT ![calls[c].session].typed =
                         IF Target(c).alive THEN @ \o LinesOf(Typed(c)) ELSE @]
    BY <1>2, <1>10 DEF Type, At
  <2>2. calls'[c].pc = "listen" /\ calls'[c].session = calls[c].session
        /\ calls'[c].doing = calls[c].doing
    BY <1>1, <2>1 DEF Rec
  <2>3. calls[c].session \in DOMAIN sessions
    BY <1>1, <2>1 DEF InSession
  <2> DEFINE old == sessions[calls[c].session].typed
             q == IF Target(c).alive THEN old \o LinesOf(Typed(c)) ELSE old
             t == [sessions[calls[c].session] EXCEPT !.typed = q]
  <2>4. sessions' = [sessions EXCEPT ![calls[c].session] = t]
    BY <2>1
  <2>5. t.listed = sessions[calls[c].session].listed
    <3>1. sessions[calls[c].session] \in Sess
      BY <2>3 DEF Inv, Shape
    <3> HIDE DEF q
    <3> QED
      BY <3>1 DEF Sess
  <2> HIDE DEF t
  <2>6. Listed' = Listed
    BY <2>3, <2>4, <2>5, ListedKept
  <2> QED
    BY <2>1, <2>2, <2>6 DEF Sole, Replaying, InSession
<1>11. CASE GiveUp(c)
  <2> DEFINE st == IF calls[c].doing = "command" THEN "Unfinished" ELSE calls[c].status
  <2>1. /\ calls'[c] = [calls[c] EXCEPT !.pc = "over", !.status = st]
        /\ calls[c].pc = "listen" /\ UNCHANGED <<sessions, current>>
    BY <1>2, <1>11 DEF GiveUp, At
  <2> HIDE DEF st
  <2>2. calls'[c].pc = "over" /\ calls'[c].session = calls[c].session
        /\ calls'[c].doing = calls[c].doing
    BY <1>1, <2>1 DEF Rec
  <2> QED
    BY <1>3, <2>1, <2>2 DEF Sole, Replaying, InSession
<1>12. CASE ReplayOver(c)
  <2>1. /\ calls'[c] = [calls[c] EXCEPT !.pc = "restore", !.todo = Tail(@)]
        /\ calls[c].pc = "over" /\ UNCHANGED <<sessions, current>>
    BY <1>2, <1>12 DEF ReplayOver, At
  <2>2. calls'[c].pc = "restore" /\ calls'[c].session = calls[c].session
    BY <1>1, <2>1 DEF Rec
  <2> QED
    BY <1>3, <2>1, <2>2 DEF Sole, Replaying, InSession
<1>13. CASE CommandOver(c)
  <2>1. /\ calls'[c] = [calls[c] EXCEPT !.pc = "type", !.doing = "snapshot"]
        /\ calls[c].pc = "over" /\ calls[c].doing = "command"
        /\ UNCHANGED <<sessions, current>>
    BY <1>2, <1>13 DEF CommandOver, At
  <2>2. calls'[c].pc = "type" /\ calls'[c].session = calls[c].session
        /\ calls'[c].doing = "snapshot"
    BY <1>1, <2>1 DEF Rec
  <2> QED
    BY <1>3, <2>1, <2>2 DEF Sole, Replaying, InSession
<1>14. CASE Sync(c) \/ SyncError(c) \/ Refused(c)
  <2>1. /\ calls'[c].pc = "idle" /\ UNCHANGED <<sessions, current>>
        /\ calls[c].pc \in {"type", "over"} /\ calls[c].doing \in {"snapshot", "command"}
    BY <1>2, <1>14 DEF Sync, SyncError, Refused, SyncFails, Unknown, Broken, At
  <2> QED
    BY <1>3, <2>1 DEF Sole, Replaying, InSession
<1>15. CASE Retire(c) \/ Retry(c)
  <2>1. /\ UNCHANGED current /\ sessions' = Terminated(calls[c].session)
        /\ calls[c].pc \in {"type", "over"}
    BY <1>15 DEF Retire, Retry, SyncFails, Unknown, Broken, At
  <2>2. calls'[c].pc \in {"forget", "restart"}
    <3>1. \/ calls'[c] = [calls[c] EXCEPT !.pc = "forget"]
          \/ calls'[c] = [calls[c] EXCEPT !.pc = "restart", !.retried = TRUE]
      BY <1>2, <1>15 DEF Retire, Retry
    <3> QED
      BY <1>1, <3>1 DEF Rec
  <2>3. Listed' = Listed \ {calls[c].session}
    BY <1>1, <2>1, ListedLess DEF InSession
  <2> QED
    BY <2>1, <2>2, <2>3 DEF Sole, InSession
<1>16. CASE Forget(c)
  <2>1. calls'[c].pc = "idle" /\ calls[c].pc = "forget" /\ UNCHANGED sessions
    BY <1>2, <1>16 DEF Forget, At
  <2> QED
    BY <1>3, <2>1 DEF Sole, InSession
<1>17. CASE Restart(c)
  <2>1. calls'[c] = [calls[c] EXCEPT !.pc = "look"] /\ calls[c].pc = "restart"
        /\ UNCHANGED sessions
    BY <1>2, <1>17 DEF Restart, At
  <2>2. calls'[c].pc = "look"
    BY <1>1, <2>1 DEF Rec
  <2> QED
    BY <1>3, <2>1, <2>2 DEF Sole, InSession
<1> QED
  BY <1>4, <1>5, <1>6, <1>7, <1>8, <1>9, <1>10, <1>11, <1>12, <1>13, <1>14, <1>15,
     <1>16, <1>17, <1>18 DEF Step

LEMMA SoleStep ==
  ASSUME NEW c, Callers = {c}, Inv, Sole(calls[c]), [Next]_vars
  PROVE  Sole(calls[c])'
<1>1. calls[c] \in Rec /\ c \in Callers
  BY Known
<1>2. ASSUME UNCHANGED <<sessions, current>>, calls'[c].pc = calls[c].pc,
             calls'[c].doing = calls[c].doing, calls'[c].session = calls[c].session
      PROVE  Sole(calls[c])'
  BY <1>2 DEF Sole, Replaying, InSession, Listed
<1>3. CASE AddWritableRoot \/ \E u \in DOMAIN updates : UpdateConfig(u) \/ UpdatePolicy(u)
  BY <1>2, <1>3 DEF AddWritableRoot, UpdateConfig, UpdatePolicy, Switch
<1>4. ASSUME NEW m \in SafetyModes, SetMode(m) PROVE Sole(calls[c])'
  <2>1. /\ calls'[c] = [calls[c] EXCEPT !.modes = @ \cup {m}]
        /\ UNCHANGED <<sessions, current>>
    BY <1>1, <1>4 DEF SetMode, Switch
  <2>2. calls'[c].pc = calls[c].pc /\ calls'[c].doing = calls[c].doing
        /\ calls'[c].session = calls[c].session
    BY <1>1, <2>1 DEF Rec
  <2> QED
    BY <1>2, <2>1, <2>2
<1>5. ASSUME NEW keep \in Keeps, Call(c, keep) PROVE Sole(calls[c])'
  <2>1. /\ calls'[c] = [NoCall EXCEPT !.pc = "refresh", !.n = Len(told) + 1,
                                      !.policy = Policy(mode), !.modes = UnderWay]
        /\ calls[c].pc = "idle" /\ UNCHANGED <<sessions, current>>
    BY <1>1, <1>5, Moves DEF Call, At
  <2>2. calls'[c].pc = "refresh"
    BY <2>1 DEF NoCall
  <2> QED
    BY <2>1, <2>2 DEF Sole, InSession, Listed
<1>6. CASE UNCHANGED vars
  BY <1>2, <1>6 DEF vars
<1> QED
  BY <1>1, <1>3, <1>4, <1>5, <1>6, PtySole, StepSole DEF Next, User

LEMMA SoleInit ==
  ASSUME NEW c, Callers = {c}, Init PROVE Sole(calls[c])
BY DEF Init, Sole, Listed, NoCall, InSession

LEMMA SoleAlways ==
  ASSUME NEW c, Callers = {c} PROVE Spec => [](Inv /\ Sole(calls[c]))
<1>1. Init => Inv /\ Sole(calls[c])
  BY SoleInit, InitInv
<1>2. Inv /\ Sole(calls[c]) /\ [Next]_vars => (Inv /\ Sole(calls[c]))'
  BY SoleStep, StepInv
<1> QED
  BY <1>1, <1>2, PTL DEF Spec

(* A lone caller leaves no shell behind: whatever fails and however slow,   *)
(* when its call has returned, the one session the manager may still list   *)
(* is the one that shell_session_id names.                                  *)
THEOREM NoShellLeaksCorrect ==
  ASSUME NEW c, Callers = {c} PROVE Spec => []NoShellLeaks
<1>1. Inv /\ Sole(calls[c]) => NoShellLeaks
  BY DEF Sole, NoShellLeaks, Calm, At, Listed
<1> QED
  BY <1>1, SoleAlways, PTL

-----------------------------------------------------------------------------
(* One caller, for whom nothing but a command outlasts its timeout, no      *)
(* listener lags, no chunk is taken for debug output, and what is typed is  *)
(* one line to the shell.  What its shell may be in the middle of: nothing, *)
(* being dead, with no answer to a snapshot on the screen; nothing, but,    *)
(* until it is ready, its probe; the command x, alone, and nothing seen of  *)
(* it yet; the rest of a command x given up; whatever is not a command.     *)
Prompt == /\ Slow \subseteq {"command"}
          /\ "lag" \notin Faults /\ "drop" \notin Faults
          /\ Bash => Long = {}

Probe      == Item("probe", 0)
Quiet(t)   == t.typed = <<>> /\ t.busy = {}
Did(t, n)  == n \in stateful => n \in t.state
Lost(t)    == ~ t.alive /\ Quiet(t) /\ ~ Has(t.screen, "cwd")
Boots(t)   == /\ t.alive /\ ~ t.ready
              /\ \/ t.typed = <<Probe>> /\ t.busy = {} /\ t.screen = <<>>
                 \/ t.typed = <<>> /\ t.busy = {Probe} /\ t.screen = <<>>
                 \/ Quiet(t) /\ t.screen = Marks(Probe)
Fresh(t)   == t.alive /\ Silent(t)
Ready(t)   == Lost(t) \/ Fresh(t) \/ Boots(t)
Waits(t, x) == t.alive /\ t.typed = <<x>> /\ t.busy = {} /\ t.screen = <<>>
Works(t, x) == t.alive /\ t.typed = <<>> /\ t.busy = {x} /\ t.screen = <<>>
Ends(t, x)  == t.alive /\ Quiet(t) /\ t.screen = <<Mark("D", x)>> /\ Did(t, x.n)
Past(t, x)  == t.alive /\ Quiet(t) /\ t.screen = <<>> /\ Did(t, x.n)
Exec(t, x)  == Waits(t, x) \/ Works(t, x) \/ Ends(t, x)
Trail(t, x) == Works(t, x) \/ Ends(t, x) \/ Past(t, x)
Behind(t, x, y) == t.alive /\ t.typed = <<y>> /\ t.busy = {x} /\ t.screen = <<>>
Clear(t)    == /\ \A i \in t.busy : i.kind # "command"
               /\ \A i \in DOMAIN t.typed : t.typed[i].kind # "command"

Moved(t, u) == \/ Runs(t, u) \/ Finishes(t, u) \/ Readies(t, u) \/ Dies(t, u)
               \/ \E k \in 1..Len(t.screen) : Reads(t, u, k)

(* What is taken from a screen, and what is left on it.                     *)
LEMMA Cuts ==
  ASSUME NEW q \in Seq(MarkOf), NEW k \in 1..Len(q), NEW m, ~ Has(q, m)
  PROVE  ~ Has(SubSeq(q, 1, k), m) /\ ~ Has(SubSeq(q, k + 1, Len(q)), m)
<1>1. /\ Len(SubSeq(q, 1, k)) = k /\ \A i \in 1..k : SubSeq(q, 1, k)[i] = q[i]
      /\ DOMAIN SubSeq(q, 1, k) = 1..k
  OBVIOUS
<1>2. /\ DOMAIN SubSeq(q, k + 1, Len(q)) = 1..Len(q) - k
      /\ \A i \in 1..Len(q) - k : SubSeq(q, k + 1, Len(q))[i] = q[i + k]
  OBVIOUS
<1>3. \A i \in 1..Len(q) : q[i].mark # m
  BY DEF Has
<1> HIDE DEF Has
<1>4. ~ Has(SubSeq(q, 1, k), m)
  BY <1>1, <1>3 DEF Has
<1>5. ~ Has(SubSeq(q, k + 1, Len(q)), m)
  BY <1>2, <1>3 DEF Has
<1> QED
  BY <1>4, <1>5

LEMMA Blank == ~ Has(<<>>, "cwd") /\ ~ Has(<<>>, "D")
BY DEF Has

LEMMA OneMark ==
  ASSUME NEW x \in Items, NEW k \in 1..Len(<<Mark("D", x)>>)
  PROVE  LET chunk == SubSeq(<<Mark("D", x)>>, 1, k)
             rest  == SubSeq(<<Mark("D", x)>>, k + 1, Len(<<Mark("D", x)>>))
         IN  /\ rest = <<>> /\ Has(chunk, "D") /\ Codes(chunk) = {x}
             /\ ~ Has(<<Mark("D", x)>>, "cwd")
<1> DEFINE q == <<Mark("D", x)>>
           chunk == SubSeq(q, 1, k)
           rest  == SubSeq(q, k + 1, Len(q))
<1>1. q \in Seq(MarkOf) /\ Len(q) = 1 /\ q[1].mark = "D" /\ q[1].of = x
  BY DEF Mark, MarkOf
<1>2. k = 1
  BY <1>1
<1>3. ~ Has(q, "cwd")
  BY <1>1 DEF Has, Mark
<1> HIDE DEF q
<1>4. /\ Len(chunk) = 1 /\ DOMAIN chunk = {1} /\ chunk[1].mark = "D" /\ chunk[1].of = x
      /\ rest = <<>>
  BY <1>1, <1>2
<1> HIDE DEF chunk
<1>5. Has(chunk, "D")
  BY <1>4 DEF Has
<1>6. Codes(chunk) = {x}
  <2>1. {j \in DOMAIN chunk : /\ chunk[j].mark = "D"
                              /\ \A i \in j + 1..Len(chunk) : chunk[i].mark # "D"} = {1}
    BY <1>4
  <2> QED
    BY <1>4, <2>1 DEF Codes
<1> QED
  BY <1>3, <1>4, <1>5, <1>6 DEF q, chunk

LEMMA MarksOf ==
  ASSUME NEW x \in Items, x.kind \in {"replay", "command"}
  PROVE  Marks(x) = <<Mark("D", x)>> /\ <<>> \o Marks(x) = <<Mark("D", x)>>
<1> DEFINE q == <<Mark("D", x)>>
<1>1. q \in Seq(MarkOf)
  BY DEF Mark, MarkOf
<1>2. Marks(x) = <<>> \o q
  BY DEF Marks
<1> HIDE DEF q
<1>3. <<>> \o q = q
  BY <1>1
<1> QED
  BY <1>2, <1>3 DEF q

LEMMA Some == \A x : <<x>> # <<>>
OBVIOUS

LEMMA ProbeMarks ==
  Probe \in Items /\ Probe.kind = "probe" /\ Marks(Probe) \in {<<>>, <<Mark("D", Probe)>>}
BY DEF Probe, Item, Items, Marks

LEMMA NothingRead ==
  ASSUME NEW t, NEW u, t.screen = <<>>
  PROVE  ~ \E k \in 1..Len(t.screen) : Reads(t, u, k)
OBVIOUS

(* What the terminal makes of each of these.                                *)
LEMMA LostLasts ==
  ASSUME NEW t \in Sess, NEW u \in Sess, Lost(t), Moved(t, u) PROVE Lost(u)
<1>1. ~ Runs(t, u) /\ ~ Finishes(t, u)
  BY DEF Lost, Quiet, Runs, Finishes
<1>2. CASE Readies(t, u) \/ Dies(t, u)
  BY <1>2 DEF Lost, Quiet, Readies, Dies
<1>3. ASSUME NEW k \in 1..Len(t.screen), Reads(t, u, k) PROVE Lost(u)
  <2>1. t.screen \in Seq(MarkOf)
    BY DEF Sess
  <2>2. ~ Has(u.screen, "cwd")
    BY <1>3, <2>1, Cuts DEF Lost, Reads
  <2> QED
    BY <1>3, <2>2 DEF Lost, Quiet, Reads
<1> QED
  BY <1>1, <1>2, <1>3 DEF Moved

LEMMA DeadLost ==
  ASSUME NEW t, NEW u, Dies(t, u), ~ Has(t.screen, "cwd") PROVE Lost(u)
BY DEF Dies, Lost, Quiet

LEMMA FreshLasts ==
  ASSUME NEW t, NEW u, Fresh(t), Moved(t, u) PROVE Lost(u) \/ Fresh(u)
<1>1. ~ Runs(t, u) /\ ~ Finishes(t, u) /\ ~ \E k \in 1..Len(t.screen) : Reads(t, u, k)
  BY NothingRead DEF Fresh, Silent, Runs, Finishes
<1>2. CASE Dies(t, u)
  BY <1>2, DeadLost, Blank DEF Fresh, Silent
<1>3. CASE Readies(t, u)
  BY <1>3 DEF Readies, Fresh, Silent
<1> QED
  BY <1>1, <1>2, <1>3 DEF Moved

LEMMA BootsLasts ==
  ASSUME Prompt, NEW t, NEW u, Boots(t), Moved(t, u) PROVE Ready(u)
<1>1. t.screen \in {<<>>, <<Mark("D", Probe)>>}
  BY ProbeMarks DEF Boots
<1>2. CASE Runs(t, u)
  <2>1. t.typed = <<Probe>> /\ t.screen = <<>>
    BY <1>2 DEF Boots, Quiet, Runs
  <2> QED
    BY <1>2, <2>1 DEF Boots, Runs, Ready
<1>3. CASE Finishes(t, u)
  <2>1. t.busy = {Probe} /\ t.screen = <<>> /\ t.typed = <<>>
    BY <1>3 DEF Boots, Quiet, Finishes
  <2>2. u.screen = <<>> \o Marks(Probe)
    BY <1>3, <2>1 DEF Finishes
  <2>3. u.screen = Marks(Probe)
    BY <2>2, ProbeMarks
  <2> QED
    BY <1>3, <2>1, <2>3 DEF Boots, Finishes, Quiet, Ready
<1>4. CASE Readies(t, u)
  BY <1>4 DEF Boots, Readies, Prompt, Fresh, Silent, Ready
<1>5. CASE Dies(t, u)
  <2>1. ~ Has(t.screen, "cwd")
    BY <1>1, Blank, OneMark, ProbeMarks
  <2> QED
    BY <1>5, <2>1, DeadLost DEF Ready
<1>6. ASSUME NEW k \in 1..Len(t.screen), Reads(t, u, k) PROVE Ready(u)
  <2>1. t.screen = <<Mark("D", Probe)>>
    BY <1>1, <1>6
  <2>2. u.screen = <<>>
    BY <1>6, <2>1, OneMark, ProbeMarks DEF Reads
  <2>3. Quiet(t)
    BY <2>1 DEF Boots
  <2> QED
    BY <1>6, <2>2, <2>3 DEF Boots, Reads, Quiet, Fresh, Silent, Ready
<1> QED
  BY <1>2, <1>3, <1>4, <1>5, <1>6 DEF Moved

LEMMA ReadyLasts ==
  ASSUME Prompt, NEW t \in Sess, NEW u \in Sess, Ready(t), Moved(t, u) PROVE Ready(u)
BY LostLasts, FreshLasts, BootsLasts DEF Ready

(* ... of a command x, but for its end being read,                          *)
LEMMA ExecLasts ==
  ASSUME Prompt, NEW t \in Sess, NEW u \in Sess,
         NEW x \in Items, x.kind \in {"replay", "command"}, x.last, Exec(t, x),
         \/ Runs(t, u) \/ Finishes(t, u) \/ Readies(t, u) \/ Dies(t, u)
  PROVE  Lost(u) \/ Exec(u, x)
<1>1. ~ Readies(t, u)
  BY Some DEF Exec, Waits, Works, Ends, Readies, Silent, Prompt
<1>2. CASE Dies(t, u)
  <2>1. t.screen \in {<<>>, <<Mark("D", x)>>}
    BY DEF Exec, Waits, Works, Ends
  <2>2. ~ Has(t.screen, "cwd")
    BY <2>1, Blank, OneMark
  <2> QED
    BY <1>2, <2>2, DeadLost
<1>3. CASE Runs(t, u)
  <2>1. Waits(t, x)
    BY <1>3 DEF Exec, Waits, Works, Ends, Quiet, Runs
  <2>2. Works(u, x)
    BY <1>3, <2>1 DEF Waits, Works, Runs
  <2> QED
    BY <2>2 DEF Exec
<1>4. CASE Finishes(t, u)
  <2>1. Works(t, x)
    BY <1>4 DEF Exec, Waits, Works, Ends, Quiet, Finishes
  <2>2. /\ u.screen = t.screen \o Marks(x)
        /\ u.state = t.state \cup ({x.n} \cap stateful)
        /\ u.busy = {} /\ u.typed = <<>> /\ u.alive
    BY <1>4, <2>1 DEF Works, Finishes, Done
  <2>3. u.screen = <<Mark("D", x)>>
    BY <2>1, <2>2, MarksOf DEF Works
  <2>4. Ends(u, x)
    BY <2>2, <2>3 DEF Ends, Quiet, Did
  <2> QED
    BY <2>4 DEF Exec
<1> QED
  BY <1>1, <1>2, <1>3, <1>4

(* ... which the call that listens hears, and only that,                    *)
LEMMA ExecHeard ==
  ASSUME NEW t \in Sess, NEW u \in Sess, NEW x \in Items, Exec(t, x),
         NEW k \in 1..Len(t.screen), Reads(t, u, k)
  PROVE  /\ Past(u, x) /\ Has(SubSeq(t.screen, 1, k), "D")
         /\ Codes(SubSeq(t.screen, 1, k)) = {x}
<1>1. Ends(t, x)
  BY DEF Exec, Waits, Works
<1>2. t.screen = <<Mark("D", x)>>
  BY <1>1 DEF Ends
<1>3. /\ u.screen = <<>> /\ Has(SubSeq(t.screen, 1, k), "D")
      /\ Codes(SubSeq(t.screen, 1, k)) = {x}
  BY <1>2, OneMark DEF Reads
<1> QED
  BY <1>1, <1>3 DEF Ends, Past, Quiet, Reads, Did

(* A shell does not come back to life nor undo what was done.               *)
LEMMA StateGrows ==
  ASSUME NEW t, NEW u, Moved(t, u)
  PROVE  (u.alive => t.alive) /\ t.state \subseteq u.state
BY DEF Moved, Runs, Finishes, Readies, Dies, Reads

LEMMA PastLasts ==
  ASSUME NEW t, NEW u, NEW x, Past(t, x), Moved(t, u)
  PROVE  Lost(u) \/ Past(u, x)
<1>1. Fresh(t) /\ (Did(t, x.n) => Did(u, x.n))
  BY StateGrows DEF Past, Quiet, Fresh, Silent, Did
<1> QED
  BY <1>1, FreshLasts DEF Past, Quiet, Fresh, Silent

(* ... of one given up,                                                     *)
LEMMA TrailLasts ==
  ASSUME Prompt, NEW t \in Sess, NEW u \in Sess,
         NEW x \in Items, x.kind = "command", x.last, Trail(t, x), Moved(t, u)
  PROVE  Lost(u) \/ Trail(u, x)
<1>1. CASE Past(t, x)
  BY <1>1, PastLasts DEF Trail
<1>2. CASE ~ Past(t, x)
  <2>1. Exec(t, x) /\ ~ Waits(t, x)
    BY <1>2, Some DEF Trail, Exec, Works, Waits, Ends, Quiet
  <2>2. ASSUME NEW k \in 1..Len(t.screen), Reads(t, u, k) PROVE Trail(u, x)
    BY <2>1, <2>2, ExecHeard DEF Trail
  <2>3. ASSUME Runs(t, u) \/ Finishes(t, u) \/ Readies(t, u) \/ Dies(t, u)
        PROVE  Lost(u) \/ Trail(u, x)
    <3>1. Lost(u) \/ Exec(u, x)
      BY <2>1, <2>3, ExecLasts
    <3>2. ~ Waits(u, x)
      <4>1. t.typed = <<>>
        BY <2>1 DEF Exec, Works, Ends, Quiet
      <4>2. u.typed = <<>>
        BY <2>3, <4>1 DEF Runs, Finishes, Readies, Dies
      <4> QED
        BY <4>2 DEF Waits
    <3> QED
      BY <3>1, <3>2 DEF Exec, Trail
  <2> QED
    BY <2>2, <2>3 DEF Moved
<1> QED
  BY <1>1, <1>2

(* ... of one given up with a snapshot behind it, and of no command.        *)
LEMMA BehindLasts ==
  ASSUME Prompt, NEW t \in Sess, NEW u \in Sess, Moved(t, u),
         NEW x \in Items, x.kind = "command", x.last,
         NEW y \in Items, y.kind # "command", Behind(t, x, y)
  PROVE  \/ Lost(u) \/ Behind(u, x, y)
         \/ Clear(u) /\ Did(u, x.n)
<1>1. ~ Runs(t, u) /\ ~ Readies(t, u) /\ ~ \E k \in 1..Len(t.screen) : Reads(t, u, k)
  BY NothingRead DEF Behind, Runs, Readies, Silent, Prompt
<1>2. CASE Dies(t, u)
  BY <1>2, DeadLost, Blank DEF Behind
<1>3. CASE Finishes(t, u)
  <2>1. /\ u.busy = {} /\ u.typed = <<y>>
        /\ u.state = t.state \cup ({x.n} \cap stateful)
    BY <1>3 DEF Behind, Finishes, Done
  <2> QED
    BY <2>1 DEF Clear, Did
<1> QED
  BY <1>1, <1>2, <1>3 DEF Moved

LEMMA ClearLasts ==
  ASSUME NEW t \in Sess, NEW u \in Sess, Clear(t), Moved(t, u)
  PROVE  Clear(u)
<1>1. CASE Runs(t, u)
  <2>1. t.typed \in Seq(Items) /\ t.typed # <<>>
    BY <1>1 DEF Sess, Runs
  <2>2. /\ Head(t.typed) = t.typed[1] /\ 1 \in DOMAIN t.typed
        /\ \A i \in DOMAIN Tail(t.typed) :
              i + 1 \in DOMAIN t.typed /\ Tail(t.typed)[i] = t.typed[i + 1]
    BY <2>1
  <2> QED
    BY <1>1, <2>2 DEF Clear, Runs
<1>2. CASE Finishes(t, u)
  BY <1>2 DEF Clear, Finishes
<1>3. CASE Dies(t, u)
  BY <1>3 DEF Clear, Dies
<1>4. CASE Readies(t, u) \/ \E k \in 1..Len(t.screen) : Reads(t, u, k)
  BY <1>4 DEF Clear, Readies, Reads
<1> QED
  BY <1>1, <1>2, <1>3, <1>4 DEF Moved

-----------------------------------------------------------------------------
(* What a call f in a session finds in it, the session being t.             *)
Cmd(f)  == Item("command", f.n)
Snap(f) == Item("snapshot", f.n)
Rep(f)  == Item("replay", Head(f.todo))

Reported(f)  == f.status \in {"Completed", "Unfinished"}
Whole(f, t)  == f.status = "Completed" /\ f.code = {Cmd(f)} /\ Past(t, Cmd(f))
Parted(f, t) == f.status = "Unfinished" /\ Trail(t, Cmd(f))
Mute(f, t) == Lost(t) /\ ~ f.cwd
Answer(f, t) == /\ Clear(t) /\ (t.alive => Did(t, f.n))
                /\ f.status = "Completed" => f.code = {Cmd(f)}
Stuck(f, t)  == f.status = "Unfinished" /\ ~ f.cwd /\ Behind(t, Cmd(f), Snap(f))

Holds(f, t) ==
    /\ f.pc = "restore" \/ (f.pc = "type" /\ f.doing # "snapshot") => Ready(t)
    /\ f.pc = "listen" /\ f.doing = "replay" => Lost(t) \/ Exec(t, Rep(f))
    /\ f.pc = "over" /\ f.doing = "replay" => Lost(t) \/ Past(t, Rep(f))
    /\ f.pc = "listen" /\ f.doing = "command" => Lost(t) \/ Exec(t, Cmd(f))
    /\ \/ f.pc = "over" /\ f.doing = "command"
       \/ f.pc = "type" /\ f.doing = "snapshot"
       => Reported(f) /\ (Lost(t) \/ Whole(f, t) \/ Parted(f, t))
    /\ f.pc \in {"listen", "over"} /\ f.doing = "snapshot"
       => Reported(f) /\ (Mute(f, t) \/ Answer(f, t) \/ Stuck(f, t))

LEMMA Named ==
  ASSUME NEW f \in Rec
  PROVE  /\ Cmd(f) \in Items /\ Cmd(f).kind = "command" /\ Cmd(f).n = f.n /\ Cmd(f).last
         /\ Snap(f) \in Items /\ Snap(f).kind = "snapshot"
         /\ f.todo # <<>> => /\ Rep(f) \in Items /\ Rep(f).kind = "replay"
                             /\ Rep(f).n = Head(f.todo) /\ Rep(f).last
<1>1. f.n \in Nat /\ f.todo \in Seq(Nat)
  BY DEF Rec
<1>2. f.todo # <<>> => Head(f.todo) \in Nat
  BY <1>1
<1> QED
  BY <1>1, <1>2 DEF Cmd, Snap, Rep, Item, Items

(* The terminal moves, and the call hears nothing of it;                    *)
LEMMA HoldsMoved ==
  ASSUME Prompt, NEW f \in Rec, NEW t \in Sess, NEW u \in Sess, Holds(f, t),
         f.pc \in InSession \ {"restore"} /\ f.doing = "replay" => f.todo # <<>>,
         Moved(t, u),
         f.pc = "listen" => Runs(t, u) \/ Finishes(t, u) \/ Readies(t, u) \/ Dies(t, u)
  PROVE  Holds(f, u)
<1>1. ASSUME f.pc = "restore" \/ (f.pc = "type" /\ f.doing # "snapshot") PROVE Ready(u)
  BY <1>1, ReadyLasts DEF Holds
<1>2. ASSUME f.pc = "listen", f.doing = "replay" PROVE Lost(u) \/ Exec(u, Rep(f))
  <2>1. Rep(f) \in Items /\ Rep(f).kind = "replay" /\ Rep(f).last
    BY <1>2, Named DEF InSession
  <2> QED
    BY <1>2, <2>1, LostLasts, ExecLasts DEF Holds
<1>3. ASSUME f.pc = "over", f.doing = "replay" PROVE Lost(u) \/ Past(u, Rep(f))
  BY <1>3, LostLasts, PastLasts DEF Holds
<1>4. ASSUME f.pc = "listen", f.doing = "command" PROVE Lost(u) \/ Exec(u, Cmd(f))
  BY <1>4, Named, LostLasts, ExecLasts DEF Holds
<1>5. ASSUME \/ f.pc = "over" /\ f.doing = "command"
             \/ f.pc = "type" /\ f.doing = "snapshot"
      PROVE  Reported(f) /\ (Lost(u) \/ Whole(f, u) \/ Parted(f, u))
  <2>1. Reported(f) /\ (Lost(t) \/ Whole(f, t) \/ Parted(f, t))
    BY <1>5 DEF Holds
  <2>2. Whole(f, t) => Lost(u) \/ Whole(f, u)
    BY PastLasts DEF Whole
  <2>3. Parted(f, t) => Lost(u) \/ Parted(f, u)
    BY Named, TrailLasts DEF Parted
  <2> QED
    BY <2>1, <2>2, <2>3, LostLasts
<1>6. ASSUME f.pc \in {"listen", "over"}, f.doing = "snapshot"
      PROVE  Reported(f) /\ (Mute(f, u) \/ Answer(f, u) \/ Stuck(f, u))
  <2>1. Reported(f) /\ (Mute(f, t) \/ Answer(f, t) \/ Stuck(f, t))
    BY <1>6 DEF Holds
  <2>2. Mute(f, t) => Mute(f, u)
    BY LostLasts DEF Mute
  <2>3. Answer(f, t) => Answer(f, u)
    <3>1. Did(t, f.n) => Did(u, f.n)
      BY StateGrows DEF Did
    <3> QED
      BY <3>1, ClearLasts, StateGrows DEF Answer
  <2>4. Stuck(f, t) => Mute(f, u) \/ Answer(f, u) \/ Stuck(f, u)
    <3>1. ASSUME Stuck(f, t)
          PROVE  Lost(u) \/ Behind(u, Cmd(f), Snap(f)) \/ (Clear(u) /\ Did(u, f.n))
      BY <3>1, Named, BehindLasts DEF Stuck
    <3> QED
      BY <3>1 DEF Stuck, Mute, Answer
  <2> QED
    BY <2>1, <2>2, <2>3, <2>4
<1> QED
  BY <1>1, <1>2, <1>3, <1>4, <1>5, <1>6 DEF Holds

LEMMA HeardFields ==
  ASSUME NEW f \in Rec, f.pc = "listen", NEW chunk
  PROVE  LET g == Heard(f, chunk) IN
      /\ g.pc = IF Has(chunk, "D") THEN "over" ELSE "listen"
      /\ f.doing # "command" => g.cwd = (f.cwd \/ Has(chunk, "cwd"))
      /\ g.n = f.n /\ g.todo = f.todo /\ g.doing = f.doing
      /\ f.doing # "command" => g.status = f.status /\ g.code = f.code
      /\ f.doing = "command" /\ Has(chunk, "D") =>
            g.status = "Completed" /\ g.code = Codes(chunk)
<1> DEFINE h == f.cwd \/ Has(chunk, "cwd")
           d == Has(chunk, "D")
           g == Heard(f, chunk)
           x == Codes(chunk)
<1>1. g = IF ~ d THEN [f EXCEPT !.cwd = h]
          ELSE IF f.doing # "command" THEN [f EXCEPT !.cwd = h, !.pc = "over"]
          ELSE [f EXCEPT !.pc = "over", !.status = "Completed", !.code = x]
  BY DEF Heard
<1> HIDE DEF h, d, g, x
<1>2. CASE ~ d
  <2>1. g.cwd = h /\ g.pc = f.pc /\ g.n = f.n /\ g.todo = f.todo /\ g.doing = f.doing
        /\ g.status = f.status /\ g.code = f.code
    BY <1>1, <1>2 DEF Rec
  <2> QED
    BY <1>2, <2>1 DEF h, d, g
<1>3. CASE d /\ f.doing # "command"
  <2>1. g.cwd = h /\ g.pc = "over" /\ g.n = f.n /\ g.todo = f.todo /\ g.doing = f.doing
        /\ g.status = f.status /\ g.code = f.code
    BY <1>1, <1>3 DEF Rec
  <2> QED
    BY <1>3, <2>1 DEF h, d, g
<1>4. CASE d /\ f.doing = "command"
  <2>1. g.pc = "over" /\ g.n = f.n /\ g.todo = f.todo /\ g.doing = f.doing
        /\ g.status = "Completed" /\ g.code = x
    BY <1>1, <1>4 DEF Rec
  <2> QED
    BY <1>4, <2>1 DEF h, d, g, x
<1> QED
  BY <1>2, <1>3, <1>4

(* ... or the call hears what is read.                                      *)
LEMMA HoldsHeard ==
  ASSUME Prompt, NEW f \in Rec, NEW t \in Sess, NEW u \in Sess, Holds(f, t),
         f.pc = "listen", f.doing = "replay" => f.todo # <<>>,
         NEW k \in 1..Len(t.screen), Reads(t, u, k)
  PROVE  Holds(Heard(f, SubSeq(t.screen, 1, k)), u)
<1> DEFINE chunk == SubSeq(t.screen, 1, k)
           g     == Heard(f, chunk)
<1>1. t.screen \in Seq(MarkOf) /\ Moved(t, u)
  BY DEF Sess, Moved
<1>2. /\ g.pc = IF Has(chunk, "D") THEN "over" ELSE "listen"
      /\ f.doing # "command" => g.cwd = (f.cwd \/ Has(chunk, "cwd"))
      /\ g.n = f.n /\ g.todo = f.todo /\ g.doing = f.doing
      /\ f.doing # "command" => g.status = f.status /\ g.code = f.code
      /\ f.doing = "command" /\ Has(chunk, "D") =>
            g.status = "Completed" /\ g.code = Codes(chunk)
  BY HeardFields
<1>3. Lost(t) => ~ Has(chunk, "cwd")
  BY <1>1, Cuts DEF Lost
<1> HIDE DEF g
<1>4. Cmd(g) = Cmd(f) /\ Snap(g) = Snap(f) /\ Rep(g) = Rep(f)
  BY <1>2 DEF Cmd, Snap, Rep
<1>5. Lost(t) => Lost(u)
  BY <1>1, LostLasts
<1>6. ASSUME f.doing = "replay" PROVE Holds(g, u)
  <2>1. Rep(f) \in Items
    BY <1>6, Named
  <2>2. Lost(u) \/ (Past(u, Rep(f)) /\ Has(chunk, "D"))
    BY <1>5, <1>6, <2>1, ExecHeard DEF Holds
  <2> HIDE DEF chunk
  <2> QED
    BY <1>2, <1>4, <1>6, <2>2 DEF Holds
<1>7. ASSUME f.doing = "command" PROVE Holds(g, u)
  <2>1. Lost(u) \/ (Past(u, Cmd(f)) /\ Has(chunk, "D") /\ Codes(chunk) = {Cmd(f)})
    BY <1>5, <1>7, Named, ExecHeard DEF Holds
  <2> HIDE DEF chunk
  <2> QED
    BY <1>2, <1>4, <1>7, <2>1 DEF Holds, Reported, Whole
<1>8. ASSUME f.doing = "snapshot" PROVE Holds(g, u)
  <2>1. Reported(f) /\ (Mute(f, t) \/ Answer(f, t) \/ Stuck(f, t))
    BY <1>8 DEF Holds
  <2>2. ~ Stuck(f, t)
    BY NothingRead DEF Stuck, Behind
  <2>3. Mute(f, t) => Mute(g, u)
    BY <1>2, <1>3, <1>5, <1>8 DEF Mute
  <2>4. Answer(f, t) => Answer(g, u)
    <3>1. Did(t, f.n) => Did(u, f.n)
      BY <1>1, StateGrows DEF Did
    <3> QED
      BY <1>1, <1>2, <1>4, <1>8, <3>1, ClearLasts, StateGrows DEF Answer
  <2> QED
    BY <1>2, <1>8, <2>1, <2>2, <2>3, <2>4 DEF Holds, Reported
<1> QED
  BY <1>6, <1>7, <1>8 DEF Rec, g

-----------------------------------------------------------------------------
(* What holds with one caller, of its call f; of the journal and the        *)
(* current session; and of what was told.                                   *)
Owes(f, t) == t.alive => \A i \in DOMAIN journal :
    journal[i] \in t.state \/ \E j \in DOMAIN f.todo : f.todo[j] = journal[i]

Phase(f) ==
    /\ f.pc = "idle" => \A s \in Listed : Clear(sessions[s])
    /\ f.pc \in {"refresh", "look", "choose"} => \A s \in Listed : Ready(sessions[s])
    /\ f.pc = "choose" => f.todo = journal
    /\ f.pc = "forget" => f.status = "Unfinished"
    /\ f.pc \in InSession => Holds(f, sessions[f.session])
    /\ Replaying(f) => /\ \A j \in DOMAIN f.todo : f.todo[j] \in stateful
                       /\ Owes(f, sessions[f.session])

UpToDate == current # 0 /\ sessions[current].alive =>
    \A i \in DOMAIN journal : journal[i] \in sessions[current].state
Reports == \A n \in DOMAIN told : told[n].status = "Completed" =>
    told[n].code = {Item("command", n)} /\ (n \in stateful => InJournal(n))

Lone(c) == Inv /\ Sole(calls[c]) /\ Phase(calls[c]) /\ UpToDate /\ Reports

LEMMA HoldsNext ==
  ASSUME NEW c, UNCHANGED stateful
  PROVE  Holds(calls[c], sessions[calls[c].session])'
            <=> Holds(calls'[c], sessions'[calls'[c].session])
BY DEF Holds, Exec, Ends, Past, Trail, Whole, Parted, Answer, Did

LEMMA PtyLone ==
  ASSUME Prompt, NEW c \in Callers, Lone(c), NEW s \in DOMAIN sessions, Inv',
         Pty(s) \/ Exits(s) \/ RuntimeEnds(s)
  PROVE  (Phase(calls[c]) /\ UpToDate /\ Reports)'
<1> DEFINE f == calls[c]
           g == calls'[c]
<1>1. PICK t : /\ Update(s, t) /\ t.listed = sessions[s].listed
               /\ \/ /\ UNCHANGED calls
                     /\ \/ Runs(sessions[s], t) \/ Finishes(sessions[s], t)
                        \/ Readies(sessions[s], t) \/ Dies(sessions[s], t)
                  \/ \E k \in 1..Len(sessions[s].screen) :
                       /\ Reads(sessions[s], t, k)
                       /\ Hears(s, SubSeq(sessions[s].screen, 1, k))
  BY Terminal DEF Lone, Prompt
<1>2. /\ UNCHANGED <<journal, stateful, told, current>>
      /\ sessions' = [sessions EXCEPT ![s] = t]
  BY <1>1 DEF Update
<1>3. Listed' = Listed
  BY <1>1, <1>2, ListedKept DEF Lone
<1>4. sessions \in Seq(Sess) /\ sessions' \in Seq(Sess)
  BY DEF Lone, Inv, Shape
<1>5. /\ DOMAIN sessions' = DOMAIN sessions /\ sessions'[s] = t
      /\ \A r \in DOMAIN sessions : r # s => sessions'[r] = sessions[r]
  BY <1>2, <1>4
<1>6. sessions[s] \in Sess /\ t \in Sess
  BY <1>4, <1>5
<1>7. Moved(sessions[s], t)
  BY <1>1 DEF Moved
<1>8. Listed \subseteq DOMAIN sessions
  BY DEF Listed
<1>9. ASSUME f.pc = "idle" PROVE \A r \in Listed : Clear(sessions'[r])
  BY <1>5, <1>6, <1>7, <1>8, <1>9, ClearLasts DEF Lone, Phase
<1>10. ASSUME f.pc \in {"refresh", "look", "choose"} PROVE \A r \in Listed : Ready(sessions'[r])
  BY <1>5, <1>6, <1>7, <1>8, <1>10, ReadyLasts DEF Lone, Phase
<1>11. UpToDate'
  <2>1. \A r \in DOMAIN sessions : /\ sessions'[r].alive => sessions[r].alive
                                   /\ sessions[r].state \subseteq sessions'[r].state
    BY <1>5, <1>7, StateGrows
  <2>2. current # 0 => current \in DOMAIN sessions
    BY Known DEF Lone, Inv, InEffect
  <2> QED
    BY <1>2, <2>1, <2>2 DEF Lone, UpToDate
<1>12. Reports'
  BY <1>2 DEF Lone, Reports, InJournal
<1>13. /\ f \in Rec /\ CallOK(f, Seen, sessions)
       /\ f.pc \in InSession => f.session \in DOMAIN sessions
  BY Known DEF Lone, Inv
<1>14. f.pc \in InSession \ {"restore"} /\ f.doing = "replay" => f.todo # <<>>
  BY <1>13 DEF CallOK
<1>15. f.pc \in InSession => Holds(f, sessions[f.session])
  BY DEF Lone, Phase
<1>16. CASE f.pc \in InSession /\ f.session = s
  <2>1. f.todo = g.todo /\ f.session = g.session /\ Holds(g, t)
        /\ g.pc \in InSession /\ f.doing = g.doing
        /\ (g.pc = f.pc \/ (f.pc = "listen" /\ g.pc = "over"))
    <3>1. CASE /\ UNCHANGED calls
               /\ \/ Runs(sessions[s], t) \/ Finishes(sessions[s], t)
                  \/ Readies(sessions[s], t) \/ Dies(sessions[s], t)
      <4>1. g = f
        BY <3>1
      <4>2. Holds(f, t)
        BY <1>6, <1>7, <1>13, <1>14, <1>15, <1>16, <3>1, HoldsMoved
      <4> QED
        BY <1>16, <4>1, <4>2
    <3>2. ASSUME NEW k \in 1..Len(sessions[s].screen), Reads(sessions[s], t, k),
                 g = IF f.pc = "listen" /\ f.session = s
                       THEN Heard(f, SubSeq(sessions[s].screen, 1, k)) ELSE f
          PROVE  /\ f.todo = g.todo /\ f.session = g.session /\ Holds(g, t)
                 /\ g.pc \in InSession /\ f.doing = g.doing
                 /\ (g.pc = f.pc \/ (f.pc = "listen" /\ g.pc = "over"))
      <4>1. CASE f.pc = "listen"
        <5> DEFINE chunk == SubSeq(sessions[s].screen, 1, k)
        <5>1. g = Heard(f, chunk)
          BY <1>16, <3>2, <4>1
        <5>2. Holds(g, t)
          BY <1>6, <1>13, <1>14, <1>15, <1>16, <3>2, <4>1, <5>1, HoldsHeard DEF InSession
        <5> HIDE DEF chunk, f, g
        <5>3. Heard(f, chunk).session = f.session /\ Heard(f, chunk).pc \in {"listen", "over"}
              /\ Heard(f, chunk).todo = f.todo /\ Heard(f, chunk).doing = f.doing
          BY <1>13, <4>1 DEF Heard, Rec
        <5> QED
          BY <4>1, <5>1, <5>2, <5>3 DEF InSession
      <4>2. CASE f.pc # "listen"
        <5>1. g = f
          BY <3>2, <4>2
        <5>2. Holds(f, t)
          BY <1>6, <1>7, <1>13, <1>14, <1>15, <1>16, <4>2, HoldsMoved
        <5> QED
          BY <1>16, <5>1, <5>2
      <4> QED
        BY <4>1, <4>2
    <3>3. c \in Callers
      OBVIOUS
    <3> HIDE DEF Replaying
    <3>4. CASE \E k \in 1..Len(sessions[s].screen) :
                 /\ Reads(sessions[s], t, k)
                 /\ Hears(s, SubSeq(sessions[s].screen, 1, k))
      <4>1. PICK k \in 1..Len(sessions[s].screen) :
                 /\ Reads(sessions[s], t, k)
                 /\ Hears(s, SubSeq(sessions[s].screen, 1, k))
        BY <3>4
      <4>2. g = IF f.pc = "listen" /\ f.session = s
                  THEN Heard(f, SubSeq(sessions[s].screen, 1, k)) ELSE f
        BY <4>1 DEF Hears
      <4> HIDE DEF f, g
      <4> QED
        BY <3>2, <4>1, <4>2
    <3> QED
      BY <1>1, <3>1, <3>4
  <2>2. Replaying(g) => Replaying(f)
    BY <1>16, <2>1 DEF Replaying
  <2>3. Replaying(f) => Owes(calls[c], t)'
    <3>1. Replaying(f) => Owes(f, sessions[s])
      BY <1>16 DEF Lone, Phase
    <3> HIDE DEF f
    <3>2. (t.alive => sessions[s].alive) /\ sessions[s].state \subseteq t.state
      BY <1>7, StateGrows
    <3> QED
      BY <1>2, <2>1, <3>1, <3>2 DEF Owes
  <2>4. Replaying(f) => \A j \in DOMAIN g.todo : g.todo[j] \in stateful'
    BY <1>2, <2>1 DEF Lone, Phase
  <2>5. sessions'[g.session] = t
    BY <1>5, <1>16, <2>1
  <2> QED
    <3>1. Phase(calls[c])'
      BY <1>2, <2>1, <2>2, <2>3, <2>4, <2>5, HoldsNext DEF Phase, InSession
    <3> QED
      BY <1>11, <1>12, <3>1
<1>17. CASE ~ (f.pc \in InSession /\ f.session = s)
  <2>1. g = f
    BY <1>1, <1>17 DEF Hears, InSession
  <2>2. f.pc \in InSession => sessions'[f.session] = sessions[f.session]
    BY <1>5, <1>13, <1>17
  <2>3. Replaying(f) => f.pc \in InSession
    BY DEF Replaying, InSession
  <2>4. Phase(f) /\ f.pc \in Pcs
    BY <1>13 DEF Lone, Rec
  <2>5. Phase(calls[c])'
    BY <1>2, <1>3, <1>9, <1>10, <2>1, <2>2, <2>3, <2>4, HoldsNext DEF Phase, Owes
  <2> QED
    BY <1>11, <1>12, <2>5
<1> QED
  BY <1>16, <1>17

LEMMA QuietClear == ASSUME NEW t, Quiet(t) PROVE Clear(t)
BY DEF Quiet, Clear

LEMMA ReadyClear == ASSUME NEW t, Ready(t) PROVE Clear(t)
BY ProbeMarks DEF Ready, Lost, Fresh, Boots, Silent, Quiet, Clear

LEMMA SettledReady ==
  ASSUME Prompt, NEW t, Clear(t), t.screen = <<>>, t.busy # {} \/ t.typed = <<>>,
         \A i \in t.busy : i.kind \in Slow
  PROVE  Ready(t)
<1>1. t.busy = {}
  BY DEF Clear, Prompt
<1> QED
  BY <1>1, Blank DEF Ready, Lost, Fresh, Silent, Quiet

LEMMA ReturnReports ==
  ASSUME NEW c, Inv, Reports, NEW status, Return(c, status), UNCHANGED stateful,
         \A n : InJournal(n) => InJournal(n)', NEW k, k = calls[c].n,
         status = "Completed" =>
             calls[c].code = {Cmd(calls[c])} /\ (k \in stateful => InJournal(k)')
  PROVE  Reports'
<1> DEFINE r == [status |-> status, code |-> calls[c].code]
<1>1. told' = [told EXCEPT ![k] = r] /\ told \in Seq(Told)
  BY DEF Return, Inv, Shape
<1>2. r.status = status /\ r.code = calls[c].code
  OBVIOUS
<1> HIDE DEF r
<1>3. /\ DOMAIN told' = DOMAIN told
      /\ \A m \in DOMAIN told : told'[m] = IF m = k THEN r ELSE told[m]
  BY <1>1
<1>4. ASSUME NEW m \in DOMAIN told, told'[m].status = "Completed"
      PROVE  told'[m].code = {Item("command", m)} /\ (m \in stateful => InJournal(m)')
  <2>1. CASE m = k
    BY <1>2, <1>3, <1>4, <2>1 DEF Cmd
  <2>2. CASE m # k
    BY <1>3, <1>4, <2>2 DEF Reports
  <2> QED
    BY <2>1, <2>2
<1> HIDE DEF InJournal
<1> QED
  BY <1>3, <1>4 DEF Reports

LEMMA NothingTold ==
  ASSUME Reports, UNCHANGED <<told, journal, stateful>> PROVE Reports'
BY DEF Reports, InJournal

LEMMA NothingNew ==
  ASSUME UpToDate, UNCHANGED <<sessions, current, journal>> PROVE UpToDate'
BY DEF UpToDate

(* A call that is in a session after its step.                              *)
LEMMA InSessionPhase ==
  ASSUME NEW c, UNCHANGED stateful, calls'[c].pc \in InSession,
         Holds(calls'[c], sessions'[calls'[c].session]),
         Replaying(calls'[c]) =>
             /\ \A j \in DOMAIN calls'[c].todo : calls'[c].todo[j] \in stateful
             /\ Owes(calls[c], sessions[calls[c].session])'
  PROVE  Phase(calls[c])'
<1> DEFINE g == calls'[c]
<1>1. g.pc \notin {"idle", "refresh", "look", "choose", "forget"}
  BY DEF InSession
<1>2. Replaying(calls[c])' <=> Replaying(g)
  BY DEF Replaying, InSession
<1> QED
  BY <1>1, <1>2, HoldsNext DEF Phase, InSession

LEMMA Within ==
  ASSUME NEW c \in Callers, Lone(c), UNCHANGED <<sessions, current, journal, stateful, told>>,
         NEW g, Set(c, g), g.pc \in InSession, g.session = calls[c].session,
         Holds(g, sessions[g.session]),
         Replaying(g) => Replaying(calls[c]) /\ g.todo = calls[c].todo
  PROVE  (Phase(calls[c]) /\ UpToDate /\ Reports)'
<1>1. calls'[c] = g
  BY Moves DEF Lone
<1>2. ASSUME Replaying(g)
      PROVE  /\ \A j \in DOMAIN g.todo : g.todo[j] \in stateful
             /\ Owes(calls[c], sessions[calls[c].session])'
  BY <1>1, <1>2 DEF Lone, Phase, Owes
<1>3. Phase(calls[c])'
  BY <1>1, <1>2, InSessionPhase
<1> QED
  BY <1>3, NothingTold, NothingNew DEF Lone

LEMMA ReplayLone ==
  ASSUME NEW c \in Callers, Lone(c), Replay(c)
  PROVE  (Phase(calls[c]) /\ UpToDate /\ Reports)'
<1> DEFINE f == calls[c]
           g == [f EXCEPT !.pc = "type", !.doing = "replay"]
<1>1. f \in Rec /\ f.pc = "restore" /\ Holds(f, sessions[f.session])
  BY Known DEF Lone, Replay, At, Phase, InSession
<1>2. g.pc = "type" /\ g.doing = "replay" /\ g.session = f.session /\ g.todo = f.todo
  BY <1>1 DEF Rec
<1>3. Set(c, g) /\ UNCHANGED <<sessions, current, journal, stateful, told>>
  BY DEF Replay
<1> HIDE DEF g
<1>4. Holds(g, sessions[g.session])
  BY <1>1, <1>2 DEF Holds
<1> QED
  BY <1>1, <1>2, <1>3, <1>4, Within DEF Replaying, InSession

LEMMA GiveUpLone ==
  ASSUME Prompt, NEW c \in Callers, Lone(c), GiveUp(c)
  PROVE  (Phase(calls[c]) /\ UpToDate /\ Reports)'
<1> DEFINE f == calls[c]
           t == sessions[f.session]
           x == IF f.doing = "command" THEN "Unfinished" ELSE f.status
           g == [f EXCEPT !.pc = "over", !.status = x]
<1>1. f \in Rec /\ f.pc = "listen" /\ Holds(f, t) /\ f.session \in Listed
  BY Known DEF Lone, GiveUp, At, Phase, InSession, Sole
<1>2. Set(c, g) /\ UNCHANGED <<sessions, current, journal, stateful, told>>
  BY DEF GiveUp
<1>3. Silent(t) \/ \E i \in t.busy : i.kind = "command"
  BY <1>1 DEF GiveUp, Closed, Overdue, Target, Listed, Prompt
<1> HIDE DEF x
<1>4. /\ g.pc = "over" /\ g.doing = f.doing /\ g.session = f.session /\ g.todo = f.todo
      /\ g.status = x /\ g.n = f.n /\ g.cwd = f.cwd /\ g.code = f.code
  BY <1>1 DEF Rec
<1> HIDE DEF g
<1>5. Cmd(g) = Cmd(f) /\ Snap(g) = Snap(f) /\ Rep(g) = Rep(f)
  BY <1>4 DEF Cmd, Snap, Rep
<1> HIDE DEF t
<1>6. ASSUME f.doing = "replay" PROVE Holds(g, t)
  <2>1. ~ Exec(t, Rep(f))
    BY <1>3, Some DEF Exec, Waits, Works, Ends, Quiet, Silent, Rep, Item
  <2> QED
    BY <1>1, <1>4, <1>5, <1>6, <2>1 DEF Holds
<1>7. ASSUME f.doing = "command" PROVE Holds(g, t)
  <2>1. Exec(t, Cmd(f)) => Works(t, Cmd(f))
    BY <1>3, Some DEF Exec, Waits, Ends, Silent, Quiet
  <2>2. g.status = "Unfinished"
    BY <1>4, <1>7 DEF x
  <2>3. Lost(t) \/ Parted(g, t)
    BY <1>1, <1>5, <1>7, <2>1, <2>2 DEF Holds, Parted, Trail
  <2> QED
    BY <1>4, <1>7, <2>2, <2>3 DEF Holds, Reported
<1>8. ASSUME f.doing = "snapshot" PROVE Holds(g, t)
  <2>1. g.status = f.status
    BY <1>4, <1>8 DEF x
  <2>2. /\ Mute(f, t) => Mute(g, t)
        /\ Answer(f, t) => Answer(g, t)
        /\ Stuck(f, t) => Stuck(g, t)
    BY <1>4, <1>5, <2>1 DEF Mute, Answer, Stuck
  <2> QED
    BY <1>1, <1>4, <1>8, <2>1, <2>2 DEF Holds, Reported
<1>9. Holds(g, t)
  BY <1>1, <1>6, <1>7, <1>8 DEF Rec
<1> QED
  BY <1>1, <1>2, <1>4, <1>9, Within DEF Replaying, InSession, t

LEMMA CommandOverLone ==
  ASSUME NEW c \in Callers, Lone(c), CommandOver(c)
  PROVE  (Phase(calls[c]) /\ UpToDate /\ Reports)'
<1> DEFINE f == calls[c]
           t == sessions[f.session]
           g == [f EXCEPT !.pc = "type", !.doing = "snapshot"]
<1>1. f \in Rec /\ f.pc = "over" /\ f.doing = "command" /\ Holds(f, t)
  BY Known DEF Lone, CommandOver, At, Phase, InSession
<1>2. /\ g.pc = "type" /\ g.doing = "snapshot" /\ g.session = f.session
      /\ g.status = f.status /\ g.code = f.code /\ g.n = f.n
  BY <1>1 DEF Rec
<1>3. Set(c, g) /\ UNCHANGED <<sessions, current, journal, stateful, told>>
  BY DEF CommandOver
<1> HIDE DEF g
<1>4. Cmd(g) = Cmd(f)
  BY <1>2 DEF Cmd
<1>5. (Whole(f, t) => Whole(g, t)) /\ (Parted(f, t) => Parted(g, t))
      /\ (Reported(f) => Reported(g))
  BY <1>2, <1>4 DEF Whole, Parted, Reported
<1>6. Holds(g, t)
  BY <1>1, <1>2, <1>5 DEF Holds
<1> QED
  BY <1>1, <1>2, <1>3, <1>6, Within DEF Replaying, InSession

LEMMA Tails ==
  ASSUME NEW q \in Seq(Nat), q # <<>>
  PROVE  /\ Head(q) = q[1] /\ 1 \in DOMAIN q
         /\ \A j \in DOMAIN Tail(q) : j + 1 \in DOMAIN q /\ Tail(q)[j] = q[j + 1]
         /\ \A j \in DOMAIN q : j # 1 => j - 1 \in DOMAIN Tail(q) /\ Tail(q)[j - 1] = q[j]
<1>1. DOMAIN q = 1..Len(q) /\ Len(q) \in Nat /\ Len(q) # 0
  OBVIOUS
<1>2. /\ DOMAIN Tail(q) = 1..Len(q) - 1
      /\ \A j \in 1..Len(q) - 1 : Tail(q)[j] = q[j + 1]
  BY <1>1
<1>3. \A j \in 1..Len(q) : j # 1 => j - 1 \in 1..Len(q) - 1 /\ (j - 1) + 1 = j
  BY <1>1
<1> QED
  BY <1>1, <1>2, <1>3

LEMMA ReplayOverLone ==
  ASSUME NEW c \in Callers, Lone(c), ReplayOver(c)
  PROVE  (Phase(calls[c]) /\ UpToDate /\ Reports)'
<1> DEFINE f == calls[c]
           t == sessions[f.session]
           q == Tail(f.todo)
           g == [f EXCEPT !.pc = "restore", !.todo = q]
<1>1. /\ f \in Rec /\ f.pc = "over" /\ f.doing = "replay" /\ Holds(f, t)
      /\ f.todo # <<>> /\ \A j \in DOMAIN f.todo : f.todo[j] \in stateful
      /\ Owes(f, t)
  BY Known DEF Lone, ReplayOver, At, Phase, InSession, CallOK, Replaying
<1>2. f.todo \in Seq(Nat)
  BY <1>1 DEF Rec
<1>3. /\ Head(f.todo) = f.todo[1] /\ 1 \in DOMAIN f.todo
      /\ \A j \in DOMAIN q : j + 1 \in DOMAIN f.todo /\ q[j] = f.todo[j + 1]
      /\ \A j \in DOMAIN f.todo : j # 1 => j - 1 \in DOMAIN q /\ q[j - 1] = f.todo[j]
  BY <1>1, <1>2, Tails
<1> HIDE DEF q
<1>4. g.pc = "restore" /\ g.session = f.session /\ g.todo = q
  BY <1>1 DEF Rec
<1>5. /\ UNCHANGED <<sessions, current, journal, stateful, told>>
      /\ calls'[c] = g
  BY Moves DEF Lone, ReplayOver, q
<1> HIDE DEF g, t
<1>6. Lost(t) \/ Past(t, Rep(f))
  BY <1>1 DEF Holds
<1>7. Ready(t)
  BY <1>6 DEF Ready, Fresh, Silent, Past, Quiet
<1>8. Holds(g, t)
  BY <1>4, <1>7 DEF Holds
<1>9. \A j \in DOMAIN q : q[j] \in stateful
  BY <1>1, <1>3
<1>10. t.alive => Head(f.todo) \in t.state
  <2>1. Rep(f).n = Head(f.todo)
    BY <1>1, Named
  <2> QED
    BY <1>1, <1>3, <1>6, <2>1 DEF Lost, Past, Did
<1>11. ASSUME t.alive, NEW i \in DOMAIN journal
       PROVE  journal[i] \in t.state \/ \E j \in DOMAIN q : q[j] = journal[i]
  <2>1. CASE journal[i] \in t.state
    BY <2>1
  <2>2. CASE \E j \in DOMAIN f.todo : f.todo[j] = journal[i]
    <3>1. PICK j \in DOMAIN f.todo : f.todo[j] = journal[i]
      BY <2>2
    <3>2. CASE j = 1
      BY <1>3, <1>10, <1>11, <3>1, <3>2
    <3>3. CASE j # 1
      BY <1>3, <3>1, <3>3
    <3> QED
      BY <3>2, <3>3
  <2> QED
    BY <1>1, <1>11, <2>1, <2>2 DEF Owes
<1>12. Owes(calls[c], sessions[calls[c].session])'
  <2>1. sessions'[g.session] = t
    BY <1>4, <1>5 DEF t
  <2> QED
    BY <1>4, <1>5, <1>11, <2>1 DEF Owes
<1>13. Phase(calls[c])'
  <2>1. sessions'[g.session] = t
    BY <1>4, <1>5 DEF t
  <2> QED
    BY <1>4, <1>5, <1>8, <1>9, <1>12, <2>1, InSessionPhase DEF InSession
<1> QED
  BY <1>5, <1>13, NothingTold, NothingNew DEF Lone

LEMMA RestoredLone ==
  ASSUME NEW c \in Callers, Lone(c), Restored(c)
  PROVE  (Phase(calls[c]) /\ UpToDate /\ Reports)'
<1> DEFINE f == calls[c]
           t == sessions[f.session]
           g == [f EXCEPT !.pc = "type", !.doing = "command"]
<1>1. f \in Rec /\ f.pc = "restore" /\ Holds(f, t) /\ Owes(f, t) /\ f.todo = <<>>
  BY Known DEF Lone, Restored, At, Phase, InSession, Replaying
<1>2. g.pc = "type" /\ g.doing = "command" /\ g.session = f.session
  BY <1>1 DEF Rec
<1>3. /\ UNCHANGED <<sessions, journal, stateful, told>> /\ current' = f.session
      /\ calls'[c] = g
  BY Moves DEF Lone, Restored
<1> HIDE DEF g
<1>4. Holds(g, t)
  BY <1>1, <1>2 DEF Holds
<1>5. Phase(calls[c])'
  BY <1>2, <1>3, <1>4, InSessionPhase DEF InSession, Replaying
<1>6. UpToDate'
  BY <1>1, <1>3 DEF Owes, UpToDate
<1> QED
  BY <1>3, <1>5, <1>6, NothingTold DEF Lone

LEMMA TypeLone ==
  ASSUME Prompt, NEW c \in Callers, Lone(c), Type(c)
  PROVE  (Phase(calls[c]) /\ UpToDate /\ Reports)'
<1> DEFINE f == calls[c]
           s == f.session
           t == sessions[s]
           q == IF t.alive THEN t.typed \o <<Typed(c)>> ELSE t.typed
           u == [t EXCEPT !.typed = q]
           g == [f EXCEPT !.pc = "listen", !.cwd = FALSE]
<1>1. /\ f \in Rec /\ f.pc = "type" /\ Holds(f, t) /\ s \in DOMAIN sessions
      /\ sessions \in Seq(Sess) /\ t \in Sess /\ t.ready
      /\ f.doing = "replay" => f.todo # <<>>
  BY Known DEF Lone, Type, At, Target, Phase, InSession, CallOK, Inv
<1>2. /\ UNCHANGED <<current, journal, stateful, told>>
      /\ sessions' = [sessions EXCEPT ![s] = u] /\ calls'[c] = g
  BY Moves DEF Lone, Type, Target, LinesOf, Prompt
<1>3. /\ g.pc = "listen" /\ g.doing = f.doing /\ g.session = s /\ g.todo = f.todo
      /\ ~ g.cwd /\ g.n = f.n /\ g.status = f.status /\ g.code = f.code
  BY <1>1 DEF Rec
<1> HIDE DEF g
<1>4. Cmd(g) = Cmd(f) /\ Snap(g) = Snap(f) /\ Rep(g) = Rep(f)
  BY <1>3 DEF Cmd, Snap, Rep
<1>5. Typed(c) = CASE f.doing = "replay" -> Rep(f) [] f.doing = "command" -> Cmd(f)
                   [] f.doing = "snapshot" -> Snap(f)
  BY DEF Typed, Rep, Cmd, Snap
<1> HIDE DEF f
<1>6. /\ f.doing = "replay" => Typed(c) = Rep(f)
      /\ f.doing = "command" => Typed(c) = Cmd(f)
      /\ f.doing = "snapshot" => Typed(c) = Snap(f)
  BY <1>5
<1> HIDE DEF t
<1>7. /\ u.alive = t.alive /\ u.busy = t.busy /\ u.screen = t.screen /\ u.state = t.state
      /\ u.typed = q
  BY <1>1 DEF Sess
<1> HIDE DEF u
<1>8. Lost(t) => Lost(u)
  BY <1>7 DEF Lost, Quiet
<1>9. t.alive /\ t.typed = <<>> => u.typed = <<Typed(c)>>
  BY <1>7
<1> HIDE DEF q
<1>10. Fresh(t) => Waits(u, Typed(c))
  BY <1>7, <1>9 DEF Fresh, Silent, Waits
<1>18. ~ Boots(t)
  BY <1>1 DEF Boots
<1>11. ASSUME f.doing \in {"replay", "command"} PROVE Holds(g, u)
  <2>1. Lost(u) \/ Exec(u, Typed(c))
    BY <1>1, <1>8, <1>10, <1>11, <1>18 DEF Holds, Ready, Exec
  <2> QED
    BY <1>3, <1>4, <1>6, <1>11, <2>1 DEF Holds
<1>12. ASSUME f.doing = "snapshot" PROVE Holds(g, u)
  <2>1. Reported(f) /\ (Lost(t) \/ Whole(f, t) \/ Parted(f, t))
    BY <1>1, <1>12 DEF Holds
  <2>2. /\ Cmd(f).kind = "command" /\ Cmd(f).n = f.n /\ Snap(f).kind = "snapshot"
    BY <1>1, Named
  <2>3. Lost(t) => Mute(g, u)
    BY <1>3, <1>8 DEF Mute
  <2>4. Works(t, Cmd(f)) /\ f.status = "Unfinished" => Stuck(g, u)
    BY <1>3, <1>4, <1>6, <1>7, <1>9, <1>12 DEF Works, Stuck, Behind
  <2>5. ASSUME Ends(t, Cmd(f)) \/ Past(t, Cmd(f)) PROVE Clear(u) /\ Did(u, f.n)
    <3>1. u.busy = {} /\ u.typed = <<Snap(f)>>
      BY <1>6, <1>7, <1>9, <1>12, <2>5 DEF Ends, Past, Quiet
    <3>2. Clear(u)
      BY <2>2, <3>1 DEF Clear
    <3>3. Did(u, f.n)
      BY <1>7, <2>2, <2>5 DEF Ends, Past, Did
    <3> QED
      BY <3>2, <3>3
  <2>6. Whole(f, t) => Answer(g, u)
    BY <1>3, <1>4, <2>5 DEF Whole, Answer
  <2>7. Parted(f, t) => Answer(g, u) \/ Stuck(g, u)
    BY <1>3, <2>4, <2>5 DEF Parted, Trail, Answer
  <2> QED
    BY <1>3, <1>12, <2>1, <2>3, <2>6, <2>7 DEF Holds, Reported
<1>13. Holds(g, u)
  BY <1>1, <1>11, <1>12 DEF Rec
<1>14. /\ sessions'[s] = u /\ DOMAIN sessions' = DOMAIN sessions
       /\ \A r \in DOMAIN sessions : r # s => sessions'[r] = sessions[r]
  BY <1>1, <1>2
<1>15. ASSUME Replaying(g)
       PROVE  /\ \A j \in DOMAIN g.todo : g.todo[j] \in stateful
              /\ Owes(calls[c], sessions[calls[c].session])'
  <2>1. Replaying(f)
    BY <1>1, <1>3, <1>15 DEF Replaying, InSession
  <2>2. /\ \A j \in DOMAIN f.todo : f.todo[j] \in stateful
        /\ Owes(f, t)
    BY <2>1 DEF Lone, Phase, f, t
  <2> QED
    BY <1>2, <1>3, <1>7, <1>14, <2>2 DEF Owes
<1>16. Phase(calls[c])'
  BY <1>2, <1>3, <1>13, <1>14, <1>15, InSessionPhase DEF InSession
<1>17. UpToDate'
  <2>1. current # 0 => current \in DOMAIN sessions
    BY Known DEF Lone, Inv, InEffect
  <2>2. \A r \in DOMAIN sessions : /\ sessions'[r].alive = sessions[r].alive
                                   /\ sessions'[r].state = sessions[r].state
    BY <1>7, <1>14 DEF t
  <2> QED
    BY <1>2, <2>1, <2>2 DEF Lone, UpToDate
<1> QED
  BY <1>2, <1>16, <1>17, NothingTold DEF Lone

(* A call that returns.                                                     *)
LEMMA IdlePhase ==
  ASSUME NEW c, calls'[c].pc = "idle", \A s \in Listed' : Clear(sessions'[s])
  PROVE  Phase(calls[c])'
<1>1. ~ Replaying(calls[c])'
  BY DEF Replaying, InSession
<1> QED
  BY <1>1 DEF Phase, InSession

LEMMA SyncLone ==
  ASSUME NEW c \in Callers, Lone(c), Sync(c)
  PROVE  (Phase(calls[c]) /\ UpToDate /\ Reports)'
<1> DEFINE f == calls[c]
           t == sessions[f.session]
<1>1. /\ f \in Rec /\ f.pc = "over" /\ f.doing = "snapshot" /\ f.cwd
      /\ Holds(f, t) /\ f.session = current /\ Listed = {current}
      /\ journal \in Seq(Nat)
  BY Known DEF Lone, Sync, At, Phase, InSession, Replaying, Sole, Inv, Shape
<1>2. /\ UNCHANGED <<sessions, current, stateful>> /\ Listed' = Listed
      /\ journal' = journal \o Recorded(c) /\ Return(c, f.status)
      /\ calls'[c].pc = "idle"
  BY Moves DEF Lone, Sync, Journal, Listed
<1>3. Answer(f, t)
  BY <1>1 DEF Holds, Mute, Stuck
<1>4. PICK k : k = f.n
  OBVIOUS
<1>5. k \in Nat
  BY <1>1, <1>4 DEF Rec
<1>6. /\ \A i \in DOMAIN journal : i \in DOMAIN journal' /\ journal'[i] = journal[i]
      /\ \A i \in DOMAIN journal' : i \in DOMAIN journal \/ (k \in stateful /\ journal'[i] = k)
      /\ k \in stateful => \E i \in DOMAIN journal' : journal'[i] = k
  <2>1. CASE k \in stateful
    <3>1. journal' = Append(journal, k)
      BY <1>1, <1>2, <1>4, <1>5, <2>1 DEF Recorded
    <3>2. /\ DOMAIN journal' = 1..Len(journal) + 1 /\ journal'[Len(journal) + 1] = k
          /\ DOMAIN journal = 1..Len(journal) /\ Len(journal) \in Nat
          /\ \A i \in 1..Len(journal) : journal'[i] = journal[i]
      BY <1>1, <1>5, <3>1
    <3> QED
      BY <2>1, <3>2
  <2>2. CASE k \notin stateful
    <3>1. journal' = journal
      BY <1>1, <1>2, <1>4, <2>2 DEF Recorded
    <3> QED
      BY <2>2, <3>1
  <2> QED
    BY <2>1, <2>2
<1>7. \A n : InJournal(n) => InJournal(n)'
  BY <1>6 DEF InJournal
<1>8. Reports'
  <2>1. k \in stateful => InJournal(k)'
    BY <1>6 DEF InJournal
  <2>2. f.status = "Completed" => f.code = {Cmd(f)}
    BY <1>3 DEF Answer
  <2> HIDE DEF InJournal
  <2> QED
    BY <1>2, <1>4, <1>7, <2>1, <2>2, ReturnReports DEF Lone
<1>9. UpToDate'
  <2>1. t.alive => (k \in stateful => k \in t.state)
    BY <1>3, <1>4 DEF Answer, Did
  <2> QED
    BY <1>1, <1>2, <1>6, <2>1 DEF Lone, UpToDate
<1>10. Phase(calls[c])'
  BY <1>1, <1>2, <1>3, IdlePhase DEF Answer
<1> QED
  BY <1>8, <1>9, <1>10

LEMMA AbandonLone ==
  ASSUME NEW c \in Callers, Lone(c), Sole(calls[c])', Retire(c) \/ Retry(c)
  PROVE  (Phase(calls[c]) /\ UpToDate /\ Reports)'
<1> DEFINE f == calls[c]
<1>1. /\ f \in Rec /\ f.session \in DOMAIN sessions
      /\ UNCHANGED <<current, journal, stateful, told>>
      /\ sessions' = Terminated(f.session)
      /\ f.pc \in {"type", "over"} /\ f.doing # "replay"
  BY Known DEF Lone, Retire, Retry, SyncFails, Unknown, Broken, At, InSession
<1>2. f.session = current
  BY <1>1 DEF Lone, Sole, Replaying, InSession
<1>3. \/ calls'[c] = [f EXCEPT !.pc = "forget"] /\ f.status = "Unfinished"
      \/ calls'[c] = [f EXCEPT !.pc = "restart", !.retried = TRUE]
  BY Moves DEF Lone, Retire, Retry, Unfinished
<1>4. \/ calls'[c].pc = "forget" /\ calls'[c].status = "Unfinished"
      \/ calls'[c].pc = "restart"
  BY <1>1, <1>3 DEF Rec
<1>5. Phase(calls[c])'
  BY <1>4 DEF Phase, InSession, Replaying
<1>6. ~ sessions'[current].alive
  BY <1>1, <1>2, ListedLess DEF Lone
<1> QED
  BY <1>1, <1>5, <1>6, NothingTold DEF Lone, UpToDate

LEMMA LeaveLone ==
  ASSUME NEW c \in Callers, Lone(c), Forget(c) \/ SyncError(c) \/ Refused(c)
  PROVE  (Phase(calls[c]) /\ UpToDate /\ Reports)'
<1> DEFINE f == calls[c]
           t == sessions[f.session]
<1>1. /\ UNCHANGED <<sessions, journal, stateful>> /\ current' \in {current, 0}
      /\ Listed' = Listed /\ calls'[c].pc = "idle"
      /\ f \in Rec
  BY Moves DEF Lone, Forget, SyncError, Refused, Listed
<1>2. \E st : st # "Completed" /\ Return(c, st)
  <2>1. Forget(c) => f.status = "Unfinished" /\ Return(c, f.status)
    BY DEF Forget, At, Lone, Phase
  <2> QED
    BY <2>1 DEF SyncError, Refused
<1>3. Reports'
  <2>1. \A n : InJournal(n) => InJournal(n)'
    BY <1>1 DEF InJournal
  <2>2. PICK k : k = f.n
    OBVIOUS
  <2> HIDE DEF InJournal
  <2> QED
    BY <1>1, <1>2, <2>1, <2>2, ReturnReports DEF Lone
<1>4. UpToDate'
  BY <1>1 DEF Lone, UpToDate
<1>5. CASE Forget(c)
  <2>1. Listed = {}
    BY <1>5 DEF Lone, Sole, Forget, At
  <2> QED
    BY <1>1, <1>3, <1>4, <2>1, IdlePhase
<1>6. CASE SyncError(c)
  <2>1. /\ f.doing = "snapshot" /\ f.status # "Unfinished"
        /\ f.pc = "type" \/ (f.pc = "over" /\ ~ f.cwd)
    BY <1>6 DEF SyncError, SyncFails, Unknown, Broken, At, Unfinished
  <2>2. Holds(f, t) /\ Listed = {f.session}
    BY <2>1 DEF Lone, Phase, InSession, Sole
  <2>3. Lost(t) \/ Past(t, Cmd(f)) \/ Clear(t)
    BY <2>1, <2>2 DEF Holds, Whole, Parted, Mute, Answer, Stuck
  <2>4. Clear(t)
    BY <2>3, QuietClear DEF Lost, Past
  <2> QED
    BY <1>1, <1>3, <1>4, <2>2, <2>4, IdlePhase
<1>7. CASE Refused(c)
  <2>1. f.doing = "command" /\ f.pc = "type"
    BY <1>7 DEF Refused, Unknown, Broken, At
  <2>2. Ready(t) /\ Listed = {f.session}
    BY <2>1 DEF Lone, Phase, InSession, Sole, Holds
  <2> QED
    BY <1>1, <1>3, <1>4, <2>2, ReadyClear, IdlePhase
<1> QED
  BY <1>5, <1>6, <1>7

LEMMA LookLone ==
  ASSUME NEW c \in Callers, Lone(c), Refresh(c) \/ Look(c) \/ Restart(c)
  PROVE  (Phase(calls[c]) /\ UpToDate /\ Reports)'
<1> DEFINE f == calls[c]
<1>1. /\ UNCHANGED <<sessions, journal, stateful, told>> /\ current' \in {current, 0}
      /\ Listed' = Listed /\ f \in Rec
  BY Moves DEF Lone, Refresh, Look, Restart, Listed
<1>2. UpToDate' /\ Reports'
  BY <1>1, NothingTold DEF Lone, UpToDate
<1>3. CASE Look(c)
  <2>1. /\ calls'[c] = [f EXCEPT !.pc = "choose", !.policy = pending, !.todo = journal]
        /\ f.pc = "look"
    BY <1>3, Moves DEF Lone, Look, At
  <2>2. calls'[c].pc = "choose" /\ calls'[c].todo = journal
    BY <1>1, <2>1 DEF Rec
  <2>3. \A s \in Listed : Ready(sessions[s])
    BY <2>1 DEF Lone, Phase
  <2> QED
    BY <1>1, <1>2, <2>2, <2>3 DEF Phase, InSession, Replaying
<1>4. CASE Refresh(c) \/ Restart(c)
  <2>1. calls'[c] = [f EXCEPT !.pc = "look"] /\ f.pc \in {"refresh", "restart"}
    BY <1>4, Moves DEF Lone, Refresh, Restart, At
  <2>2. calls'[c].pc = "look"
    BY <1>1, <2>1 DEF Rec
  <2>3. \A s \in Listed : Ready(sessions[s])
    BY <2>1 DEF Lone, Phase, Sole
  <2> QED
    BY <1>1, <1>2, <2>2, <2>3 DEF Phase, InSession, Replaying
<1> QED
  BY <1>3, <1>4

LEMMA ReuseLone ==
  ASSUME NEW c \in Callers, Lone(c), Reuse(c)
  PROVE  (Phase(calls[c]) /\ UpToDate /\ Reports)'
<1> DEFINE f == calls[c]
           g == [f EXCEPT !.pc = "type", !.session = current, !.doing = "command"]
<1>1. /\ UNCHANGED <<sessions, current, journal, stateful, told>> /\ calls'[c] = g
      /\ f \in Rec /\ f.pc = "choose" /\ current # 0
  BY Moves DEF Lone, Reuse, At
<1>2. g.pc = "type" /\ g.session = current /\ g.doing = "command"
  BY <1>1 DEF Rec
<1> HIDE DEF g
<1>3. Ready(sessions[current])
  BY <1>1 DEF Lone, Phase, Sole
<1>4. Holds(g, sessions[current])
  BY <1>2, <1>3 DEF Holds
<1>5. Phase(calls[c])'
  BY <1>1, <1>2, <1>4, InSessionPhase DEF InSession, Replaying
<1> QED
  BY <1>1, <1>5, NothingTold, NothingNew DEF Lone

LEMMA SpawnSessionLone ==
  ASSUME Prompt, NEW c \in Callers, Lone(c), SpawnSession(c)
  PROVE  (Phase(calls[c]) /\ UpToDate /\ Reports)'
<1> DEFINE f == calls[c]
           g == calls'[c]
           n == NewSession(f.policy, c)
<1>1. /\ UNCHANGED <<journal, stateful, told>> /\ current' = 0
      /\ g.pc = "restore" /\ sessions'[g.session] = n /\ g.todo = f.todo
  BY ListedMore DEF Lone, SpawnSession
<1>2. f.todo = journal
  BY DEF SpawnSession, Replaces, At, Lone, Phase
<1>3. Boots(n)
  BY DEF Boots, NewSession, FirstPrompt, Probe, Prompt
<1> HIDE DEF n
<1>4. Holds(g, n)
  BY <1>1, <1>3 DEF Holds, Ready
<1>5. \A j \in DOMAIN g.todo : g.todo[j] \in stateful
  BY <1>1, <1>2 DEF Lone, Inv, Shape
<1>6. Owes(calls[c], sessions[calls[c].session])'
  BY <1>1, <1>2 DEF Owes
<1>7. Phase(calls[c])'
  BY <1>1, <1>4, <1>5, <1>6, InSessionPhase DEF InSession
<1> QED
  BY <1>1, <1>7, NothingTold DEF Lone, UpToDate

LEMMA SpawnFailsLone ==
  ASSUME NEW c \in Callers, Lone(c), Inv', Sole(calls[c])', SpawnFails(c)
  PROVE  (Phase(calls[c]) /\ UpToDate /\ Reports)'
<1>1. /\ UNCHANGED <<journal, stateful>> /\ calls[c].pc = "choose"
      /\ calls'[c].pc = "idle" /\ Return(c, "Err")
  BY Moves DEF Lone, SpawnFails, Replaces, At
<1>2. Reports'
  <2>1. \A n : InJournal(n) => InJournal(n)'
    BY <1>1 DEF InJournal
  <2>2. PICK k : k = calls[c].n
    OBVIOUS
  <2> HIDE DEF InJournal
  <2> QED
    BY <1>1, <2>1, <2>2, ReturnReports DEF Lone
<1>3. CASE UNCHANGED <<sessions, current>>
  <2>1. Listed' = Listed /\ \A s \in Listed : Clear(sessions[s])
    BY <1>1, <1>3, ReadyClear DEF Listed, Lone, Phase
  <2> QED
    BY <1>1, <1>2, <1>3, <2>1, IdlePhase, NothingNew DEF Lone
<1>4. CASE current' = 0
  <2>1. Listed' \subseteq {0}
    BY <1>1, <1>4 DEF Sole
  <2>2. 0 \notin DOMAIN sessions'
    BY DEF Inv, Shape
  <2>3. Listed' = {}
    BY <2>1, <2>2 DEF Listed
  <2> QED
    BY <1>1, <1>2, <1>4, <2>3, IdlePhase DEF UpToDate
<1> QED
  BY <1>3, <1>4 DEF SpawnFails

LEMMA CallLone ==
  ASSUME Prompt, NEW c, Callers = {c}, Lone(c), NEW keep \in Keeps, Call(c, keep)
  PROVE  (Phase(calls[c]) /\ UpToDate /\ Reports)'
<1>1. /\ UNCHANGED <<sessions, current, journal>> /\ calls[c].pc = "idle"
      /\ calls'[c] = [NoCall EXCEPT !.pc = "refresh", !.n = Len(told) + 1,
                                    !.policy = Policy(mode), !.modes = UnderWay]
      /\ stateful' \subseteq stateful \cup {Len(told) + 1}
      /\ told' = Append(told, [status |-> "none", code |-> {}])
      /\ told \in Seq(Told)
  BY Moves DEF Lone, Call, At, Inv, Shape
<1>2. calls'[c].pc = "refresh"
  BY <1>1 DEF NoCall
<1>6. Settled
  BY <1>1 DEF Call, Calm, At
<1>3. \A s \in Listed : Ready(sessions[s])
  BY <1>1, <1>6, SettledReady DEF Settled, Listed, Lone, Phase
<1>4. Phase(calls[c])'
  BY <1>1, <1>2, <1>3 DEF Phase, InSession, Replaying, Listed
<1>5. Reports'
  <2> DEFINE r == [status |-> "none", code |-> {}]
  <2>1. r.status = "none"
    OBVIOUS
  <2> HIDE DEF r
  <2>2. /\ DOMAIN told' = 1..Len(told) + 1 /\ told'[Len(told) + 1] = r
        /\ DOMAIN told = 1..Len(told) /\ Len(told) \in Nat
        /\ \A m \in 1..Len(told) : told'[m] = told[m]
    BY <1>1 DEF r
  <2>3. \A m \in DOMAIN told' : told'[m].status = "Completed" =>
            m \in DOMAIN told /\ told'[m] = told[m] /\ m # Len(told) + 1
    BY <2>1, <2>2
  <2> QED
    BY <1>1, <2>3 DEF Lone, Reports, InJournal
<1> QED
  BY <1>1, <1>4, <1>5, NothingNew DEF Lone

(* Only the modes of a call change, or nothing of it.                       *)
LEMMA IdlyLone ==
  ASSUME NEW c \in Callers, Lone(c),
         UNCHANGED <<sessions, current, journal, stateful, told>>,
         \/ calls'[c] = calls[c]
         \/ \E m : calls'[c] = [calls[c] EXCEPT !.modes = m]
  PROVE  (Phase(calls[c]) /\ UpToDate /\ Reports)'
<1> DEFINE f == calls[c]
           g == calls'[c]
<1>1. f \in Rec
  BY Known DEF Lone
<1>2. /\ g.pc = f.pc /\ g.todo = f.todo /\ g.status = f.status /\ g.doing = f.doing
      /\ g.session = f.session /\ g.n = f.n /\ g.code = f.code /\ g.cwd = f.cwd
  BY <1>1 DEF Rec
<1>3. Listed' = Listed
  BY DEF Listed
<1>4. CASE f.pc \in InSession
  <2>1. Holds(f, sessions[f.session])
    BY <1>4 DEF Lone, Phase
  <2> HIDE DEF f, g
  <2>2. Holds(g, sessions[f.session])
    <3>1. Cmd(g) = Cmd(f) /\ Snap(g) = Snap(f) /\ Rep(g) = Rep(f)
      BY <1>2 DEF Cmd, Snap, Rep
    <3>2. \A t : /\ Whole(g, t) <=> Whole(f, t)
                 /\ Parted(g, t) <=> Parted(f, t)
                 /\ Mute(g, t) <=> Mute(f, t)
                 /\ Answer(g, t) <=> Answer(f, t)
                 /\ Stuck(g, t) <=> Stuck(f, t)
      BY <1>2, <3>1 DEF Whole, Parted, Mute, Answer, Stuck
    <3> QED
      BY <1>2, <2>1, <3>1, <3>2 DEF Holds, Reported
  <2>3. Replaying(g) => /\ \A j \in DOMAIN g.todo : g.todo[j] \in stateful
                        /\ Owes(calls[c], sessions[calls[c].session])'
    BY <1>2 DEF Replaying, Lone, Phase, Owes, f, g
  <2>4. Phase(calls[c])'
    BY <1>2, <1>4, <2>2, <2>3, InSessionPhase DEF g
  <2> QED
    BY <2>4, NothingTold, NothingNew DEF Lone
<1>5. CASE f.pc \notin InSession
  <2>1. Phase(calls[c])'
    BY <1>2, <1>3, <1>5 DEF Lone, Phase, InSession, Replaying
  <2> QED
    BY <2>1, NothingTold, NothingNew DEF Lone
<1> QED
  BY <1>4, <1>5

LEMMA LoneInit ==
  ASSUME NEW c, Callers = {c}, Init PROVE Lone(c)
<1>1. Inv /\ Sole(calls[c])
  BY InitInv, SoleInit
<1>2. calls[c] = NoCall /\ Listed = {} /\ told = <<>> /\ current = 0
  BY DEF Init, Listed
<1>3. Phase(calls[c])
  BY <1>2 DEF Phase, NoCall, InSession, Replaying
<1> QED
  BY <1>1, <1>2, <1>3 DEF Lone, UpToDate, Reports

LEMMA LoneStep ==
  ASSUME NEW c, Callers = {c}, Prompt, Lone(c), [Next]_vars
  PROVE  Lone(c)'
<1>1. Inv' /\ Sole(calls[c])' /\ c \in Callers /\ calls[c] \in Rec
  BY StepInv, SoleStep, Known DEF Lone
<1>2. CASE \/ AddWritableRoot \/ UNCHANGED vars
           \/ \E u \in DOMAIN updates : UpdateConfig(u) \/ UpdatePolicy(u)
  BY <1>1, <1>2, IdlyLone
     DEF AddWritableRoot, UpdateConfig, UpdatePolicy, Switch, vars, Lone
<1>3. ASSUME NEW m \in SafetyModes, SetMode(m) PROVE Lone(c)'
  <2>1. calls'[c] = [calls[c] EXCEPT !.modes = @ \cup {m}]
    BY <1>1, <1>3 DEF SetMode
  <2>2. \E q : calls'[c] = [calls[c] EXCEPT !.modes = q]
    BY <2>1
  <2> QED
    BY <1>1, <1>3, <2>2, IdlyLone DEF SetMode, Switch, Lone
<1>4. ASSUME NEW s \in DOMAIN sessions, Pty(s) \/ Exits(s) \/ RuntimeEnds(s)
      PROVE  Lone(c)'
  BY <1>1, <1>4, PtyLone DEF Lone
<1>5. ASSUME NEW keep \in Keeps, Call(c, keep) PROVE Lone(c)'
  BY <1>1, <1>5, CallLone DEF Lone
<1>6. CASE Step(c)
  BY <1>1, <1>6, LookLone, ReuseLone, SpawnSessionLone, SpawnFailsLone, ReplayLone,
     RestoredLone, TypeLone, GiveUpLone, ReplayOverLone, CommandOverLone, SyncLone,
     AbandonLone, LeaveLone DEF Step, Lone
<1> QED
  BY <1>1, <1>2, <1>3, <1>4, <1>5, <1>6 DEF Next, User

LEMMA LoneAlways ==
  ASSUME NEW c, Callers = {c}, Prompt PROVE Spec => []Lone(c)
<1>1. Init => Lone(c)
  BY LoneInit
<1>2. Lone(c) /\ [Next]_vars => Lone(c)'
  BY LoneStep
<1> QED
  BY <1>1, <1>2, PTL DEF Spec

(* With one caller, nothing slow but a command, no chunk lost to a listener *)
(* and what is typed one line to the shell: a command whose call has        *)
(* returned is not at work, nor waiting to be, in a session still used.     *)
THEOREM NothingLeftRunningCorrect ==
  ASSUME NEW c, Callers = {c}, Prompt PROVE Spec => []NothingLeftRunning
<1>1. Lone(c) => NothingLeftRunning
  <2> SUFFICES ASSUME Lone(c), NEW s \in DOMAIN sessions, sessions[s].listed,
                      NEW i \in AtWork(sessions[s]), i.kind = "command"
               PROVE  calls[c].n = i.n
    BY DEF NothingLeftRunning
  <2> DEFINE f == calls[c]
             t == sessions[s]
  <2>1. s \in Listed /\ f \in Rec /\ CallOK(f, Seen, sessions)
    BY Known DEF Lone, Listed, Inv
  <2>2. i \in t.busy \/ \E j \in DOMAIN t.typed : i = t.typed[j]
    BY DEF AtWork
  <2> HIDE DEF t
  <2>3. ~ Clear(t)
    BY <2>2 DEF Clear
  <2>4. ~ Ready(t) /\ ~ Lost(t)
    BY <2>3, ReadyClear DEF Ready
  <2>5. f.pc \in InSession /\ f.session = s /\ Holds(f, t)
    BY <2>1, <2>3, <2>4 DEF Lone, Phase, Sole, Rec, Pcs, InSession, t
  <2>6. f.pc \in {"listen", "over"} /\ f.doing = "replay" => f.todo # <<>>
    BY <2>1 DEF CallOK, InSession
  <2>7. f.pc \in {"listen", "over"} /\ f.doing = "replay" =>
            Rep(f).kind = "replay" /\ (Exec(t, Rep(f)) \/ Past(t, Rep(f)))
    BY <2>1, <2>4, <2>5, <2>6, Named DEF Holds
  <2>8. ~ (f.pc \in {"listen", "over"} /\ f.doing = "replay")
    BY <2>3, <2>7 DEF Clear, Exec, Waits, Works, Ends, Past, Quiet
  <2>9. Exec(t, Cmd(f)) \/ Trail(t, Cmd(f)) \/ Behind(t, Cmd(f), Snap(f))
    BY <2>1, <2>3, <2>4, <2>5, <2>8
       DEF Holds, Whole, Parted, Mute, Answer, Stuck, Trail, Rec, InSession
  <2>10. i = Cmd(f) \/ i = Snap(f)
    BY <2>2, <2>9 DEF Exec, Trail, Waits, Works, Ends, Past, Behind, Quiet
  <2> QED
    BY <2>1, <2>10, Named
<1> QED
  BY <1>1, LoneAlways, PTL

(* Under the same conditions, what a replay_state command did is kept: a    *)
(* completion told is in the journal, and whatever sessions have come and   *)
(* gone, the current one has done all of it if it lives.                    *)
THEOREM StateKeptCorrect ==
  ASSUME NEW c, Callers = {c}, Prompt PROVE Spec => []StateKept
<1>1. Lone(c) => StateKept
  BY DEF Lone, UpToDate, Reports, StateKept
<1> QED
  BY <1>1, LoneAlways, PTL

(* Under the same conditions, a command told to be completed has the exit   *)
(* code that the shell printed for it and for no other.                     *)
THEOREM ExitCodeIsOwnCorrect ==
  ASSUME NEW c, Callers = {c}, Prompt PROVE Spec => []ExitCodeIsOwn
<1>1. Lone(c) => ExitCodeIsOwn
  BY DEF Lone, Reports, ExitCodeIsOwn
<1> QED
  BY <1>1, LoneAlways, PTL
=============================================================================
