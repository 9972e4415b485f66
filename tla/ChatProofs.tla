----------------------------- MODULE ChatProofs -----------------------------
(* Theorems about Chat, for any number of messages and commands, whatever   *)
(* keys the patient user presses: nobody presses Esc, clears or summarizes, *)
(* the context does not run low and no request fails.                       *)
EXTENDS MCChat, FiniteSetTheorems, TLAPS

Patient ==
    /\ Faults = {} /\ ContextLow = FALSE
    /\ "esc" \notin Keys /\ Texts \cap Commands = {}

Question == Nat \X Int

Gen == [prompt : Texts, mem : SUBSET Texts, left : Int,
        pc : {"spawned", "request", "poll", "wait", "tool", "approve",
              "finish", "ended", "stopped", "failed"},
        answer : {"none", "yes", "no", "closed"},
        heard : BOOLEAN, cancelled : BOOLEAN, late : Nat]

InMsg == [kind : {"UserInput"}, prompt : Texts] \cup [kind : {"Cancel"}]
           \cup [kind : {"ApprovalResponse"}, answer : {"yes", "no"}, of : Question]

OutMsg == [kind : {"Text", "Done"}, of : Nat]
            \cup [kind : {"RequestApproval"}, of : Question]

AppRec == [processing : BOOLEAN, interrupted : BOOLEAN, compacting : BOOLEAN,
           indicator : BOOLEAN, auto : BOOLEAN, compactPending : BOOLEAN,
           sync : BOOLEAN, inject : BOOLEAN, resume : BOOLEAN,
           resumeReady : BOOLEAN, interruptPending : SUBSET Texts,
           choice : SUBSET Texts, prompt : SUBSET Question, queue : Seq(Texts)]

Shape ==
    /\ gens \in Seq(Gen) /\ inbox \in Seq(InMsg) /\ out \in Seq(OutMsg)
    /\ tasks \in Seq(InMsg) /\ app \in AppRec
    /\ outcome \in [queued : BOOLEAN, interrupt : SUBSET Texts, low : BOOLEAN,
                    summarize : BOOLEAN]
    /\ conversation \in SUBSET SUBSET Texts /\ cancelRequested \in BOOLEAN
    /\ typed \in SUBSET Texts

(* No compaction, no Esc; and what a Done has left for process_pending_     *)
(* actions waits for a turn that is over.                                   *)
Calm ==
    /\ ~ app.interrupted /\ ~ app.compacting /\ ~ app.compactPending
    /\ ~ app.resumeReady /\ ~ outcome.summarize
    /\ ui = "keys" => outcome = NoOutcome
    /\ outcome.queued \/ outcome.interrupt # {} => ~ app.processing
    /\ outcome.interrupt # {} => ~ outcome.queued

-----------------------------------------------------------------------------
(* Messages of a kind in a sequence of messages: none, or one that is x.    *)
None(s, k)    == \A i \in DOMAIN s : s[i].kind # k
Only(s, k, x) == \E i \in DOMAIN s : /\ s[i] = x /\ s[i].kind = k
                                     /\ \A j \in DOMAIN s : s[j].kind = k => j = i

NoLive      == \A g \in DOMAIN gens : ~ Live(g)
SoleLive(g) == Live(g) /\ \A h \in DOMAIN gens : Live(h) => h = g

(* Where the turn is, and the prompts T under way and M known there.        *)
AtRest(T, M) ==
    /\ ~ app.processing /\ None(inbox, "UserInput") /\ NoLive /\ None(out, "Done")
    /\ T = {} /\ M = UNION conversation
OnItsWay(p, T, M) ==
    /\ app.processing /\ Only(inbox, "UserInput", Input(p)) /\ NoLive
    /\ None(out, "Done")
    /\ T = {p} /\ p \notin M /\ M = UNION conversation
Waiting(g, T, M) ==
    /\ app.processing /\ None(inbox, "UserInput") /\ SoleLive(g)
    /\ None(out, "Done") /\ gens[g].pc = "spawned"
    /\ T = {gens[g].prompt} /\ gens[g].prompt \notin M /\ M = UNION conversation
Working(g, T, M) ==
    /\ app.processing /\ None(inbox, "UserInput") /\ SoleLive(g)
    /\ None(out, "Done") /\ gens[g].pc # "spawned"
    /\ T = {gens[g].prompt} /\ gens[g].prompt \in M
    /\ M = gens[g].mem /\ conversation = {}
Reported(g, T, M) ==
    /\ app.processing /\ None(inbox, "UserInput") /\ NoLive
    /\ Only(out, "Done", Msg("Done", g))
    /\ T = {gens[g].prompt} /\ T \subseteq M /\ M = UNION conversation

Stage(T, M) ==
    \/ AtRest(T, M)
    \/ \E p \in Texts : OnItsWay(p, T, M)
    \/ \E g \in DOMAIN gens : Waiting(g, T, M) \/ Working(g, T, M) \/ Reported(g, T, M)

(* What the user has typed and the app has not said is nowhere else, so     *)
(* that nothing is said twice.                                              *)
Queued == {app.queue[i] : i \in DOMAIN app.queue}
Unsaid == app.choice \cup Queued \cup app.interruptPending \cup outcome.interrupt

Fresh(T, M) ==
    /\ T \cup M \cup Unsaid \subseteq typed
    /\ Unsaid \cap (T \cup M) = {}
    /\ app.choice \cap (Queued \cup app.interruptPending \cup outcome.interrupt) = {}
    /\ Queued \cap (app.interruptPending \cup outcome.interrupt) = {}
    /\ app.interruptPending \cap outcome.interrupt = {}
    /\ \A i, j \in DOMAIN app.queue : app.queue[i] = app.queue[j] => i = j

Sees(T, M) == Stage(T, M) /\ Fresh(T, M)

(* A command that waits for an answer is the only one that does, and either *)
(* its question or the answer to it is in one place.                        *)
Asking(g, q) ==
    \/ /\ Only(out, "RequestApproval", [kind |-> "RequestApproval", of |-> q])
       /\ app.prompt = {} /\ None(inbox, "ApprovalResponse") /\ Len(tasks) = 0
    \/ /\ None(out, "RequestApproval") /\ app.prompt = {q}
       /\ None(inbox, "ApprovalResponse") /\ Len(tasks) = 0
    \/ /\ None(out, "RequestApproval") /\ app.prompt = {} /\ Len(tasks) = 0
       /\ \E a \in {"yes", "no"} : Only(inbox, "ApprovalResponse", Answer(a, q))
    \/ /\ None(out, "RequestApproval") /\ app.prompt = {}
       /\ None(inbox, "ApprovalResponse")
       /\ Len(tasks) = 1 /\ tasks[1].kind = "ApprovalResponse" /\ tasks[1].of = q

NobodyAsks ==
    /\ pendingApproval = {} /\ None(out, "RequestApproval") /\ app.prompt = {}
    /\ None(inbox, "ApprovalResponse") /\ Len(tasks) = 0

Approval ==
    /\ \/ NobodyAsks
       \/ \E g \in DOMAIN gens :
             /\ pendingApproval = {g} /\ gens[g].pc = "approve"
             /\ gens[g].answer = "none" /\ Asking(g, Asked(g))
    /\ ~ astray

(* A cancelled generation that has made a request sees the flag next.       *)
Cancels == \A g \in DOMAIN gens :
    /\ gens[g].late <= 1
    /\ AtWork(g) /\ gens[g].cancelled => cancelRequested
    /\ Live(g) /\ gens[g].late = 1 => gens[g].pc = "poll" /\ gens[g].cancelled
    /\ gens[g].pc = "spawned" => ~ gens[g].cancelled

(* An answer is there only while it is waited for.                          *)
NotAsked == \A g \in DOMAIN gens :
    gens[g].pc # "approve" => gens[g].answer = "none"

Still == Shape /\ Calm /\ Approval /\ Cancels /\ NotAsked
Inv   == Still /\ \E T, M \in SUBSET Texts : Sees(T, M)

(* A step of the turn taking, or none.                                      *)
Taking(T, M, T2, M2) ==
    \/ T2 = T /\ M2 = M
    \/ T = {} /\ (\E p \in Texts \ M : T2 = {p}) /\ M2 = M
    \/ ~ T \subseteq M /\ M2 = M \cup T /\ T2 = T
    \/ T # {} /\ T \subseteq M /\ T2 = {} /\ M2 = M

-----------------------------------------------------------------------------
(* Messages of a kind, when one is appended or taken off.                   *)
LEMMA AppendMsg ==
  ASSUME NEW S, NEW s \in Seq(S), NEW x \in S, NEW k
  PROVE  /\ s \o <<x>> \in Seq(S) /\ Len(s \o <<x>>) = Len(s) + 1
         /\ x.kind # k /\ None(s, k) => None(s \o <<x>>, k)
         /\ x.kind = k /\ None(s, k) => Only(s \o <<x>>, k, x)
         /\ \A y : x.kind # k /\ Only(s, k, y) => Only(s \o <<x>>, k, y)
<1> DEFINE t == s \o <<x>>
<1>1. t \in Seq(S) /\ Len(t) = Len(s) + 1 /\ DOMAIN t = 1..Len(s) + 1
  OBVIOUS
<1>2. t[Len(s) + 1] = x /\ \A i \in DOMAIN s : t[i] = s[i] /\ i \in DOMAIN t
  OBVIOUS
<1>3. \A i \in DOMAIN t : i \in DOMAIN s \/ i = Len(s) + 1
  BY <1>1
<1>4. Len(s) + 1 \in DOMAIN t
  BY <1>1
<1> HIDE DEF t
<1>5. x.kind # k /\ None(s, k) => None(t, k)
  BY <1>2, <1>3 DEF None
<1>6. x.kind = k /\ None(s, k) => Only(t, k, x)
  BY <1>2, <1>3, <1>4 DEF None, Only
<1>7. \A y : x.kind # k /\ Only(s, k, y) => Only(t, k, y)
  <2> SUFFICES ASSUME NEW y, x.kind # k, Only(s, k, y) PROVE Only(t, k, y)
    OBVIOUS
  <2>1. PICK i \in DOMAIN s : /\ s[i] = y /\ s[i].kind = k
                             /\ \A j \in DOMAIN s : s[j].kind = k => j = i
    BY DEF Only
  <2>2. i \in DOMAIN t /\ t[i] = y /\ t[i].kind = k
    BY <2>1, <1>2
  <2>3. \A j \in DOMAIN t : t[j].kind = k => j = i
    BY <2>1, <1>2, <1>3
  <2> QED
    BY <2>2, <2>3 DEF Only
<1> QED
  BY <1>1, <1>5, <1>6, <1>7 DEF t

LEMMA TailMsg ==
  ASSUME NEW S, NEW s \in Seq(S), s # <<>>, NEW k
  PROVE  /\ Tail(s) \in Seq(S) /\ Head(s) \in S /\ Len(Tail(s)) = Len(s) - 1
         /\ None(s, k) => None(Tail(s), k) /\ Head(s).kind # k
         /\ \A y : Only(s, k, y) =>
               IF Head(s).kind = k THEN y = Head(s) /\ None(Tail(s), k)
                                   ELSE Only(Tail(s), k, y)
<1> DEFINE t == Tail(s)
<1>1. /\ t \in Seq(S) /\ Len(t) = Len(s) - 1 /\ Head(s) \in S
      /\ Head(s) = s[1] /\ 1 \in DOMAIN s /\ DOMAIN t = 1..Len(s) - 1
      /\ DOMAIN s = 1..Len(s) /\ Len(s) \in Nat
  OBVIOUS
<1>2. \A i \in DOMAIN t : t[i] = s[i + 1] /\ i + 1 \in DOMAIN s /\ i + 1 # 1
  BY <1>1
<1>3. \A i \in DOMAIN s : i # 1 => i - 1 \in DOMAIN t /\ t[i - 1] = s[i]
  BY <1>1
<1>a. \A i, j \in DOMAIN t : i + 1 = j + 1 => i = j
  BY <1>1
<1>b. \A i \in DOMAIN s, j \in DOMAIN t : j + 1 = i => j = i - 1
  BY <1>1
<1> HIDE DEF t
<1>4. None(s, k) => None(t, k) /\ Head(s).kind # k
  BY <1>1, <1>2 DEF None
<1>5. ASSUME NEW y, Only(s, k, y)
      PROVE  IF Head(s).kind = k THEN y = Head(s) /\ None(t, k) ELSE Only(t, k, y)
  <2>1. PICK i \in DOMAIN s : /\ s[i] = y /\ s[i].kind = k
                             /\ \A j \in DOMAIN s : s[j].kind = k => j = i
    BY <1>5 DEF Only
  <2>2. CASE Head(s).kind = k
    <3>1. i = 1
      BY <2>1, <2>2, <1>1
    <3> QED
      BY <3>1, <2>1, <2>2, <1>1, <1>2 DEF None
  <2>3. CASE Head(s).kind # k
    <3>1. i # 1
      BY <2>1, <2>3, <1>1
    <3>2. i - 1 \in DOMAIN t /\ t[i - 1] = y /\ t[i - 1].kind = k
      BY <3>1, <2>1, <1>3
    <3>3. \A j \in DOMAIN t : t[j].kind = k => j = i - 1
      BY <2>1, <1>2, <1>b
    <3> QED
      BY <3>2, <3>3, <2>3 DEF Only
  <2> QED
    BY <2>2, <2>3
<1> QED
  BY <1>1, <1>4, <1>5 DEF t

LEMMA EmptyMsg == ASSUME NEW k PROVE None(<<>>, k)
BY DEF None

(* A sequence followed by nothing, and one entry of a sequence replaced.    *)
LEMMA Nothing == ASSUME NEW S, NEW s \in Seq(S) PROVE s \o <<>> = s
OBVIOUS

LEMMA Replaced ==
  ASSUME NEW S, NEW s \in Seq(S), NEW i \in DOMAIN s, NEW x \in S
  PROVE  /\ [s EXCEPT ![i] = x] \in Seq(S) /\ DOMAIN [s EXCEPT ![i] = x] = DOMAIN s
         /\ [s EXCEPT ![i] = x][i] = x
         /\ \A j \in DOMAIN s : j # i => [s EXCEPT ![i] = x][j] = s[j]
OBVIOUS
-----------------------------------------------------------------------------
LEMMA InitInv == Init => Still /\ Sees({}, {})
<1> SUFFICES ASSUME Init PROVE Still /\ Sees({}, {})
  OBVIOUS
<1>1. /\ gens = <<>> /\ inbox = <<>> /\ out = <<>> /\ tasks = <<>>
      /\ conversation = {} /\ cancelRequested = FALSE /\ pendingApproval = {}
      /\ typed = {} /\ astray = FALSE /\ ui = "drain" /\ outcome = NoOutcome
  BY DEF Init, AgentInit
<1>2. /\ app \in AppRec /\ app.prompt = {} /\ app.choice = {}
      /\ app.interruptPending = {} /\ app.queue = <<>> /\ ~ app.processing
      /\ ~ app.interrupted /\ ~ app.compacting /\ ~ app.compactPending
      /\ ~ app.resumeReady
  BY DEF Init, AppRec
<1>3. Shape
  <2>1. \A S : <<>> \in Seq(S)
    OBVIOUS
  <2>2. outcome \in [queued : BOOLEAN, interrupt : SUBSET Texts, low : BOOLEAN,
                     summarize : BOOLEAN]
    BY <1>1 DEF NoOutcome
  <2>3. gens \in Seq(Gen) /\ inbox \in Seq(InMsg) /\ out \in Seq(OutMsg)
        /\ tasks \in Seq(InMsg)
    BY <1>1, <2>1
  <2> QED
    BY <1>1, <1>2, <2>2, <2>3 DEF Shape
<1>4. Calm
  BY <1>1, <1>2 DEF Calm, NoOutcome
<1>5. Approval
  BY <1>1, <1>2, EmptyMsg DEF Approval, NobodyAsks
<1>6. Cancels /\ NotAsked
  BY <1>1 DEF Cancels, NotAsked
<1>7. Stage({}, {})
  BY <1>1, <1>2, EmptyMsg DEF Stage, AtRest, NoLive
<1>8. Fresh({}, {})
  BY <1>1, <1>2 DEF Fresh, Unsaid, Queued, NoOutcome
<1> QED
  BY <1>3, <1>4, <1>5, <1>6, <1>7, <1>8 DEF Still, Sees

(* What is seen of the turn is what MCChat hands to Turns.                  *)
LEMMA View ==
  ASSUME Still, NEW T \in SUBSET Texts, NEW M \in SUBSET Texts, Sees(T, M)
  PROVE  T = UnderWay /\ M = Known
<1>1. /\ \A i \in DOMAIN inbox : inbox[i].kind # "InjectContext"
      /\ \A i \in DOMAIN tasks : tasks[i].kind # "InjectContext"
  <2>1. \A m \in InMsg : m.kind # "InjectContext"
    BY DEF InMsg
  <2>2. inbox \in Seq(InMsg) /\ tasks \in Seq(InMsg)
    BY DEF Still, Shape
  <2> QED
    BY <2>1, <2>2
<1>2. Known = UNION (conversation \cup
                {gens[g].mem : g \in {h \in DOMAIN gens : AtWork(h)}})
  BY <1>1 DEF Known
<1> DEFINE Told == {inbox[i].prompt :
                      i \in {j \in DOMAIN inbox : inbox[j].kind = "UserInput"}}
           Live1 == {gens[g].prompt : g \in {h \in DOMAIN gens : Live(h)}}
           Done1 == {gens[out[i].of].prompt :
                      i \in {j \in DOMAIN out : out[j].kind = "Done"}}
<1>3. UnderWay = Told \cup Live1 \cup Done1
  BY DEF UnderWay
<1>4. None(inbox, "UserInput") => Told = {}
  BY DEF None
<1>5. NoLive => Live1 = {} /\ Known = UNION conversation
  BY <1>2 DEF NoLive, AtWork
<1>6. None(out, "Done") => Done1 = {}
  BY DEF None
<1> HIDE DEF Told, Live1, Done1
<1>7. CASE AtRest(T, M)
  BY <1>7, <1>3, <1>4, <1>5, <1>6 DEF AtRest
<1>8. ASSUME NEW p \in Texts, OnItsWay(p, T, M) PROVE T = UnderWay /\ M = Known
  <2>1. Told = {p}
    BY <1>8 DEF OnItsWay, Only, Input, Told
  <2> QED
    BY <1>8, <2>1, <1>3, <1>5, <1>6 DEF OnItsWay
<1>9. ASSUME NEW g \in DOMAIN gens, Waiting(g, T, M) PROVE T = UnderWay /\ M = Known
  <2>1. Live1 = {gens[g].prompt}
    BY <1>9 DEF Waiting, SoleLive, Live1
  <2>2. \A h \in DOMAIN gens : ~ AtWork(h)
    BY <1>9 DEF Waiting, SoleLive, AtWork
  <2>3. Known = UNION conversation
    BY <2>2, <1>2
  <2> QED
    BY <1>9, <2>1, <2>3, <1>3, <1>4, <1>6 DEF Waiting
<1>10. ASSUME NEW g \in DOMAIN gens, Working(g, T, M) PROVE T = UnderWay /\ M = Known
  <2>1. Live1 = {gens[g].prompt}
    BY <1>10 DEF Working, SoleLive, Live1
  <2>2. {h \in DOMAIN gens : AtWork(h)} = {g}
    BY <1>10 DEF Working, SoleLive, AtWork
  <2>3. Known = UNION ({} \cup {gens[g].mem})
    BY <2>2, <1>2, <1>10 DEF Working
  <2> QED
    BY <1>10, <2>1, <2>3, <1>3, <1>4, <1>6 DEF Working
<1>11. ASSUME NEW g \in DOMAIN gens, Reported(g, T, M) PROVE T = UnderWay /\ M = Known
  <2>1. Done1 = {gens[g].prompt}
    BY <1>11 DEF Reported, Only, Msg, Done1
  <2> QED
    BY <1>11, <2>1, <1>3, <1>4, <1>5 DEF Reported
<1> QED
  BY <1>7, <1>8, <1>9, <1>10, <1>11 DEF Sees, Stage

-----------------------------------------------------------------------------
(* The generation at work goes on, and perhaps says something.              *)
LEMMA GoesOn ==
  ASSUME Still, NEW T \in SUBSET Texts, NEW M \in SUBSET Texts, Sees(T, M),
         NEW g \in DOMAIN gens, AtWork(g), pendingApproval # {g}, NEW r \in Gen,
         r.prompt = gens[g].prompt, r.mem = gens[g].mem,
         r.cancelled = gens[g].cancelled, r.pc \notin Over \cup {"spawned"},
         r.late = 0 \/ (r.late = 1 /\ r.pc = "poll" /\ r.cancelled),
         r.pc # "approve", r.answer = "none",
         gens' = [gens EXCEPT ![g] = r],
         out' = out \/ out' = out \o <<Msg("Text", g)>>,
         UNCHANGED <<conversation, cancelRequested, pendingApproval, app, ui,
                     outcome, inbox, tasks, typed, astray>>
  PROVE  Still' /\ Sees(T, M)'
<1>1. /\ gens' \in Seq(Gen) /\ DOMAIN gens' = DOMAIN gens /\ gens'[g] = r
      /\ \A h \in DOMAIN gens : h # g => gens'[h] = gens[h]
  BY Replaced DEF Still, Shape
<1>2. /\ out' \in Seq(OutMsg)
      /\ None(out, "Done") => None(out', "Done")
      /\ None(out, "RequestApproval") => None(out', "RequestApproval")
      /\ \A y : Only(out, "RequestApproval", y) => Only(out', "RequestApproval", y)
  <2>1. CASE out' = out
    BY <2>1 DEF Still, Shape
  <2>2. CASE out' = out \o <<Msg("Text", g)>>
    <3>1. out \in Seq(OutMsg) /\ Msg("Text", g) \in OutMsg /\ Msg("Text", g).kind = "Text"
      BY DEF Still, Shape, Msg, OutMsg
    <3>2. "Text" # "Done" /\ "Text" # "RequestApproval"
      OBVIOUS
    <3> QED
      BY <2>2, <3>1, <3>2, AppendMsg
  <2> QED
    BY <2>1, <2>2
<1>3. Shape'
  BY <1>1, <1>2 DEF Still, Shape
<1>4. Calm'
  BY DEF Still, Calm
<1>5. Live(g) /\ (\A h \in DOMAIN gens : Live(h)' = Live(h))
  BY <1>1 DEF Live, AtWork
<1>6. Working(g, T, M)
  <2>1. ~ NoLive /\ \A h \in DOMAIN gens : SoleLive(h) => h = g
    BY <1>5 DEF NoLive, SoleLive
  <2> QED
    BY <2>1 DEF Sees, Stage, AtRest, OnItsWay, Waiting, Working, Reported, AtWork
<1>7. Working(g, T, M)'
  BY <1>1, <1>2, <1>5, <1>6 DEF Working, SoleLive
<1>8. Fresh(T, M)'
  BY DEF Sees, Fresh, Unsaid, Queued
<1>9. Sees(T, M)'
  BY <1>1, <1>7, <1>8 DEF Sees, Stage
<1>10. Cancels'
  <2> SUFFICES ASSUME NEW h \in DOMAIN gens
               PROVE  /\ gens'[h].late <= 1
                      /\ AtWork(h)' /\ gens'[h].cancelled => cancelRequested'
                      /\ Live(h)' /\ gens'[h].late = 1 =>
                           gens'[h].pc = "poll" /\ gens'[h].cancelled
                      /\ gens'[h].pc = "spawned" => ~ gens'[h].cancelled
    BY <1>1 DEF Cancels
  <2>1. CASE h = g
    BY <2>1, <1>1 DEF Still, Cancels, AtWork, Over
  <2>2. CASE h # g
    BY <2>2, <1>1 DEF Still, Cancels, AtWork, Live
  <2> QED
    BY <2>1, <2>2
<1>11. Approval'
  <2>1. CASE NobodyAsks
    BY <2>1, <1>2 DEF NobodyAsks, Approval, Still
  <2>2. ASSUME NEW h \in DOMAIN gens, pendingApproval = {h}, gens[h].pc = "approve",
               gens[h].answer = "none", Asking(h, Asked(h))
        PROVE  Approval'
    <3>1. h # g /\ gens'[h] = gens[h]
      BY <2>2, <1>1
    <3>2. Asked(h)' = Asked(h)
      BY <3>1 DEF Asked
    <3>3. Asking(h, Asked(h))'
      BY <2>2, <1>2, <3>2 DEF Asking
    <3> QED
      BY <2>2, <3>1, <3>3, <1>1 DEF Approval, Still
  <2> QED
    BY <2>1, <2>2 DEF Still, Approval
<1>12. NotAsked'
  BY <1>1 DEF Still, NotAsked
<1> QED
  BY <1>3, <1>4, <1>9, <1>10, <1>11, <1>12 DEF Still
(* It begins: what the model is told has not been said before.              *)
LEMMA Begins ==
  ASSUME Still, NEW T \in SUBSET Texts, NEW M \in SUBSET Texts, Sees(T, M),
         NEW g \in DOMAIN gens, Begin(g),
         UNCHANGED <<app, ui, outcome, inbox, tasks, typed, astray>>
  PROVE  /\ Still' /\ Sees(T, M \cup T)' /\ M \cup T \in SUBSET Texts
         /\ Taking(T, M, T, M \cup T)
<1> DEFINE r == [gens[g] EXCEPT !.pc = "request",
                                !.mem = (UNION conversation) \cup {gens[g].prompt}]
<1>0. gens \in Seq(Gen)
  BY DEF Still, Shape
<1>1. /\ gens[g] \in Gen /\ gens[g].pc = "spawned" /\ conversation' = {}
      /\ cancelRequested' = FALSE /\ pendingApproval' = pendingApproval
      /\ out' = out /\ gens' = [gens EXCEPT ![g] = r]
  <2>1. gens[g] \in Gen
    BY <1>0
  <2>2. gens' = [gens EXCEPT ![g] = r]
    BY <1>0 DEF Begin
  <2> QED
    BY <2>1, <2>2 DEF Begin, At
<1>2. /\ r \in Gen /\ r.prompt = gens[g].prompt /\ r.pc = "request"
      /\ r.mem = (UNION conversation) \cup {gens[g].prompt}
      /\ r.cancelled = gens[g].cancelled /\ r.late = gens[g].late
      /\ r.answer = gens[g].answer
  <2>1. (UNION conversation) \cup {gens[g].prompt} \in SUBSET Texts
    BY <1>1 DEF Still, Shape, Gen
  <2> QED
    BY <1>1, <2>1 DEF Gen
<1> HIDE DEF r
<1>3. /\ gens' \in Seq(Gen) /\ DOMAIN gens' = DOMAIN gens /\ gens'[g] = r
      /\ \A h \in DOMAIN gens : h # g => gens'[h] = gens[h]
  BY <1>0, <1>1, <1>2, Replaced
<1>4. Shape'
  BY <1>1, <1>3 DEF Still, Shape
<1>5. Calm'
  BY DEF Still, Calm
<1>6. Live(g) /\ (\A h \in DOMAIN gens : Live(h)' = Live(h))
  BY <1>1, <1>2, <1>3 DEF Live, Over
<1>7. Waiting(g, T, M)
  <2>1. ~ NoLive /\ \A h \in DOMAIN gens : SoleLive(h) => h = g
    BY <1>6 DEF NoLive, SoleLive
  <2> QED
    BY <2>1, <1>1 DEF Sees, Stage, AtRest, OnItsWay, Waiting, Working, Reported
<1>8. r.mem = M \cup T /\ T = {gens[g].prompt} /\ ~ T \subseteq M
  BY <1>2, <1>7 DEF Waiting
<1>9. Working(g, T, M \cup T)'
  BY <1>1, <1>2, <1>3, <1>6, <1>7, <1>8 DEF Working, Waiting, SoleLive
<1>10. Fresh(T, M \cup T)'
  BY DEF Sees, Fresh, Unsaid, Queued
<1>11. Sees(T, M \cup T)'
  BY <1>3, <1>9, <1>10 DEF Sees, Stage
<1>12. \A h \in DOMAIN gens : h # g => ~ Live(h)
  BY <1>6, <1>7 DEF Waiting, SoleLive
<1>13. Cancels'
  <2> SUFFICES ASSUME NEW h \in DOMAIN gens
               PROVE  /\ gens'[h].late <= 1
                      /\ AtWork(h)' /\ gens'[h].cancelled => cancelRequested'
                      /\ Live(h)' /\ gens'[h].late = 1 =>
                           gens'[h].pc = "poll" /\ gens'[h].cancelled
                      /\ gens'[h].pc = "spawned" => ~ gens'[h].cancelled
    BY <1>3 DEF Cancels
  <2>1. CASE h = g
    BY <2>1, <1>1, <1>2, <1>3, <1>6 DEF Still, Cancels
  <2>2. CASE h # g
    BY <2>2, <1>3, <1>6, <1>12 DEF Still, Cancels, AtWork
  <2> QED
    BY <2>1, <2>2
<1>14. Approval'
  <2>1. CASE NobodyAsks
    BY <2>1, <1>1 DEF NobodyAsks, Approval, Still
  <2>2. ASSUME NEW h \in DOMAIN gens, pendingApproval = {h}, gens[h].pc = "approve"
        PROVE  FALSE
    BY <2>2, <1>1, <1>12 DEF Live, Over
  <2> QED
    BY <2>1, <2>2 DEF Still, Approval
<1>15. NotAsked'
  BY <1>1, <1>2, <1>3 DEF Still, NotAsked
<1>16. M \cup T \in SUBSET Texts /\ Taking(T, M, T, M \cup T)
  BY <1>8 DEF Taking
<1> QED
  BY <1>4, <1>5, <1>11, <1>13, <1>14, <1>15, <1>16 DEF Still

(* It ends, of itself or stopped, and leaves its conversation.              *)
LEMMA EndsTurn ==
  ASSUME Still, NEW T \in SUBSET Texts, NEW M \in SUBSET Texts, Sees(T, M),
         NEW g \in DOMAIN gens, gens[g].pc \in {"poll", "finish"},
         NEW pc \in {"stopped", "ended"}, NEW r, r = [gens[g] EXCEPT !.pc = pc],
         gens' = [gens EXCEPT ![g] = r],
         out' = out \o <<Msg("Done", g)>>, conversation' = {gens[g].mem},
         UNCHANGED <<cancelRequested, pendingApproval, app, ui, outcome, inbox,
                     tasks, typed, astray>>
  PROVE  Still' /\ Sees(T, M)'
<1>0. gens \in Seq(Gen)
  BY DEF Still, Shape
<1>1. gens[g] \in Gen
  BY <1>0
<1>2. /\ r \in Gen /\ r.prompt = gens[g].prompt /\ r.pc = pc
      /\ r.cancelled = gens[g].cancelled /\ r.late = gens[g].late
      /\ r.answer = gens[g].answer
  BY <1>1 DEF Gen
<1>3. /\ gens' \in Seq(Gen) /\ DOMAIN gens' = DOMAIN gens /\ gens'[g] = r
      /\ \A h \in DOMAIN gens : h # g => gens'[h] = gens[h]
  BY <1>0, <1>2, Replaced
<1>4. /\ out' \in Seq(OutMsg)
      /\ None(out, "Done") => Only(out', "Done", Msg("Done", g))
      /\ None(out, "RequestApproval") => None(out', "RequestApproval")
  <2>1. g \in Nat /\ out \in Seq(OutMsg)
    BY DEF Still, Shape
  <2>2. Msg("Done", g) \in OutMsg /\ Msg("Done", g).kind = "Done"
    BY <2>1 DEF Msg, OutMsg
  <2>3. "Done" # "RequestApproval"
    OBVIOUS
  <2> QED
    BY <2>1, <2>2, <2>3, AppendMsg
<1>5. gens[g].mem \in SUBSET Texts
  BY <1>1 DEF Gen
<1>6. Shape'
  BY <1>3, <1>4, <1>5 DEF Still, Shape
<1>7. Calm'
  BY DEF Still, Calm
<1>8. Working(g, T, M)
  <2>1. ~ NoLive /\ \A h \in DOMAIN gens : SoleLive(h) => h = g
    BY DEF NoLive, SoleLive, Live, Over
  <2> QED
    BY <2>1 DEF Sees, Stage, AtRest, OnItsWay, Waiting, Working, Reported
<1>9. \A h \in DOMAIN gens : h # g => ~ Live(h)
  BY <1>8 DEF Working, SoleLive
<1>10. NoLive'
  BY <1>2, <1>3, <1>9 DEF NoLive, Live, Over
<1>11. Reported(g, T, M)'
  BY <1>2, <1>3, <1>4, <1>8, <1>10 DEF Reported, Working
<1>12. Fresh(T, M)'
  BY DEF Sees, Fresh, Unsaid, Queued
<1>13. Sees(T, M)'
  BY <1>3, <1>11, <1>12 DEF Sees, Stage
<1>14. Cancels'
  BY <1>2, <1>3, <1>10 DEF Cancels, AtWork, NoLive, Live, Over, Still
<1>15. Approval'
  <2>1. CASE NobodyAsks
    BY <2>1, <1>4 DEF NobodyAsks, Approval, Still
  <2>2. ASSUME NEW h \in DOMAIN gens, pendingApproval = {h}, gens[h].pc = "approve"
        PROVE  FALSE
    BY <2>2, <1>9 DEF Live, Over
  <2> QED
    BY <2>1, <2>2 DEF Still, Approval
<1>16. NotAsked'
  BY <1>2, <1>3 DEF Still, NotAsked
<1> QED
  BY <1>6, <1>7, <1>13, <1>14, <1>15, <1>16 DEF Still

(* It asks the user, and waits.                                             *)
LEMMA Asks ==
  ASSUME Still, NEW T \in SUBSET Texts, NEW M \in SUBSET Texts, Sees(T, M),
         NEW g \in DOMAIN gens, AskUser(g),
         UNCHANGED <<app, ui, outcome, inbox, tasks, typed, astray>>
  PROVE  Still' /\ Sees(T, M)'
<1> DEFINE r == [gens[g] EXCEPT !.pc = "approve"]
           q == [kind |-> "RequestApproval", of |-> Asked(g)]
<1>1. /\ gens[g] \in Gen /\ gens[g].pc = "tool" /\ pendingApproval' = {g}
      /\ out' = out \o <<q>> /\ conversation' = conversation
      /\ cancelRequested' = cancelRequested
  BY DEF AskUser, At, Tell, Still, Shape
<1>2. /\ r \in Gen /\ r.prompt = gens[g].prompt /\ r.pc = "approve"
      /\ r.mem = gens[g].mem /\ r.answer = gens[g].answer /\ r.left = gens[g].left
      /\ r.cancelled = gens[g].cancelled /\ r.late = gens[g].late
  BY <1>1 DEF Gen
<1>3. Working(g, T, M)
  <2>1. ~ NoLive /\ \A h \in DOMAIN gens : SoleLive(h) => h = g
    BY <1>1 DEF NoLive, SoleLive, Live, Over
  <2> QED
    BY <2>1, <1>1 DEF Sees, Stage, AtRest, OnItsWay, Waiting, Working, Reported
<1>4. \A h \in DOMAIN gens : h # g => ~ Live(h)
  BY <1>3 DEF Working, SoleLive
<1>5. NobodyAsks /\ ~ astray
  BY <1>1, <1>4 DEF Still, Approval, Live, Over
<1>6. /\ gens' \in Seq(Gen) /\ DOMAIN gens' = DOMAIN gens /\ gens'[g] = r
      /\ \A h \in DOMAIN gens : h # g => gens'[h] = gens[h]
  <2>1. gens' = [h \in DOMAIN gens |-> IF h = g THEN r ELSE gens[h]]
    BY <1>5 DEF AskUser, NobodyAsks
  <2>2. gens' = [gens EXCEPT ![g] = r]
    BY <2>1
  <2> QED
    BY <2>2, <1>2, Replaced DEF Still, Shape
<1>7. out \in Seq(OutMsg) /\ q \in OutMsg /\ q.kind = "RequestApproval"
  BY <1>1, <1>2 DEF Still, Shape, OutMsg, Question, Asked, Gen
<1>8. /\ out' \in Seq(OutMsg) /\ None(out', "Done")
      /\ Only(out', "RequestApproval", q)
  <2>1. "RequestApproval" # "Done"
    OBVIOUS
  <2> HIDE DEF q
  <2> QED
    BY <1>1, <1>3, <1>5, <1>7, <2>1, AppendMsg DEF Working, NobodyAsks
<1>9. Asked(g)' = Asked(g)
  BY <1>2, <1>6 DEF Asked
<1> HIDE DEF r
<1>10. Shape'
  BY <1>1, <1>6, <1>8 DEF Still, Shape
<1>11. Calm'
  BY DEF Still, Calm
<1>12. Live(g)' /\ (\A h \in DOMAIN gens : Live(h)' => h = g)
  BY <1>2, <1>4, <1>6 DEF Live, Over
<1>13. Working(g, T, M)'
  BY <1>1, <1>2, <1>3, <1>6, <1>8, <1>12 DEF Working, SoleLive
<1>14. Fresh(T, M)'
  BY DEF Sees, Fresh, Unsaid, Queued
<1>15. Sees(T, M)'
  BY <1>6, <1>13, <1>14 DEF Sees, Stage
<1>16. Cancels'
  <2> SUFFICES ASSUME NEW h \in DOMAIN gens
               PROVE  /\ gens'[h].late <= 1
                      /\ AtWork(h)' /\ gens'[h].cancelled => cancelRequested'
                      /\ Live(h)' /\ gens'[h].late = 1 =>
                           gens'[h].pc = "poll" /\ gens'[h].cancelled
                      /\ gens'[h].pc = "spawned" => ~ gens'[h].cancelled
    BY <1>6 DEF Cancels
  <2>1. CASE h = g
    BY <2>1, <1>1, <1>2, <1>6 DEF Still, Cancels, AtWork, Live, Over
  <2>2. CASE h # g
    BY <2>2, <1>1, <1>6 DEF Still, Cancels, AtWork, Live
  <2> QED
    BY <2>1, <2>2
<1>17. Asking(g, Asked(g))'
  BY <1>5, <1>8, <1>9 DEF Asking, NobodyAsks
<1>18. gens'[g].answer = "none"
  BY <1>1, <1>2, <1>6 DEF Still, NotAsked
<1>19. Approval'
  BY <1>1, <1>2, <1>5, <1>6, <1>17, <1>18 DEF Approval
<1>20. NotAsked'
  BY <1>2, <1>6 DEF Still, NotAsked
<1> QED
  BY <1>10, <1>11, <1>15, <1>16, <1>19, <1>20 DEF Still

(* A generation at work takes a step of the turn, or none.                  *)
LEMMA Generates ==
  ASSUME Patient, Still, NEW T \in SUBSET Texts, NEW M \in SUBSET Texts, Sees(T, M),
         NEW g \in DOMAIN gens, Work(g)
  PROVE  /\ Still'
         /\ \E T2, M2 \in SUBSET Texts : Sees(T2, M2)' /\ Taking(T, M, T2, M2)
<1>0. gens \in Seq(Gen) /\ gens[g] \in Gen /\ out \in Seq(OutMsg)
  BY DEF Still, Shape
<1>1. /\ Generate(g)
      /\ UNCHANGED <<app, ui, outcome, inbox, tasks, typed, astray>>
  BY DEF Work, Patient, RequestFails
<1>2. Still' /\ Sees(T, M)' =>
        \E T2, M2 \in SUBSET Texts : Sees(T2, M2)' /\ Taking(T, M, T2, M2)
  BY DEF Taking
<1>3. /\ gens[g].late <= 1 /\ (AtWork(g) /\ gens[g].cancelled => cancelRequested)
      /\ Live(g) /\ gens[g].late = 1 => gens[g].pc = "poll" /\ gens[g].cancelled
      /\ gens[g].pc # "approve" => gens[g].answer = "none"
  BY DEF Still, Cancels, NotAsked
<1>4. gens[g].pc # "approve" => pendingApproval # {g}
  BY DEF Still, Approval, NobodyAsks
<1>a. gens[g].late = 0 \/ gens[g].late = 1
  BY <1>0, <1>3 DEF Gen
<1> DEFINE Quiet == UNCHANGED <<conversation, cancelRequested, pendingApproval>>
           On(r) == /\ r \in Gen /\ r.prompt = gens[g].prompt
                    /\ r.mem = gens[g].mem /\ r.cancelled = gens[g].cancelled
                    /\ r.pc \notin Over \cup {"spawned"}
                    /\ r.late = 0 \/ (r.late = 1 /\ r.pc = "poll" /\ r.cancelled)
                    /\ r.pc # "approve" /\ r.answer = "none"
                    /\ gens' = [gens EXCEPT ![g] = r]
<1>5. ASSUME AtWork(g), pendingApproval # {g}, Quiet, NEW r, On(r),
             out' = out \/ out' = out \o <<Msg("Text", g)>>
      PROVE  Still' /\ Sees(T, M)'
  BY <1>1, <1>5, GoesOn
<1>6. CASE Begin(g)
  BY <1>1, <1>6, Begins
<1>7. CASE Request(g)
  <2> DEFINE n == IF gens[g].cancelled THEN 1 ELSE 0
             r == [gens[g] EXCEPT !.pc = "poll", !.late = n]
  <2>1. gens[g].pc = "request" /\ AtWork(g) /\ Quiet /\ out' = out
    BY <1>7 DEF Request, At, AtWork, Live, Over
  <2>2. gens[g].late = 0
    BY <1>a, <1>3, <2>1 DEF AtWork
  <2>b. gens[g].cancelled \in BOOLEAN
    BY <1>0 DEF Gen
  <2>3. gens' = [gens EXCEPT ![g] = r]
    <3>1. gens' = [gens EXCEPT ![g].pc = "poll",
                               ![g].late = IF gens[g].cancelled THEN @ + 1 ELSE @]
      BY <1>7 DEF Request
    <3>2. CASE gens[g].cancelled
      <4>1. gens' = [gens EXCEPT ![g].pc = "poll", ![g].late = @ + 1]
        BY <3>1, <3>2
      <4>2. n = 1
        BY <3>2, Zenon
      <4> HIDE DEF n
      <4>3. gens[g].late + 1 = n
        BY <2>2, <4>2
      <4>4. gens' = [gens EXCEPT ![g] = [gens[g] EXCEPT !.pc = "poll",
                                                      !.late = gens[g].late + 1]]
        BY <1>0, <4>1
      <4> QED
        BY <4>3, <4>4
    <3>3. CASE ~ gens[g].cancelled
      <4>1. gens' = [gens EXCEPT ![g].pc = "poll", ![g].late = @]
        BY <3>1, <3>3
      <4>2. n = 0
        BY <3>3, Zenon
      <4> HIDE DEF n
      <4> QED
        BY <1>0, <2>2, <4>1, <4>2
    <3> QED
      BY <3>2, <3>3
  <2>4. n = 0 \/ (n = 1 /\ gens[g].cancelled)
    BY Zenon
  <2> HIDE DEF n
  <2>c. n \in Nat
    BY <2>4
  <2>5. r \in Gen /\ r.prompt = gens[g].prompt /\ r.mem = gens[g].mem
        /\ r.cancelled = gens[g].cancelled /\ r.pc = "poll" /\ r.late = n
        /\ r.answer = gens[g].answer
    BY <1>0, <2>c DEF Gen
  <2> HIDE DEF r
  <2>6. On(r)
    BY <1>3, <2>1, <2>3, <2>4, <2>5 DEF Over
  <2> QED
    BY <1>2, <1>4, <1>5, <2>1, <2>6
<1>8. CASE CancelSeen(g)
  <2>1. gens' = [gens EXCEPT ![g] = [gens[g] EXCEPT !.pc = "stopped"]]
    BY <1>0, <1>8 DEF CancelSeen, Goto
  <2> QED
    BY <1>1, <1>2, <1>8, <2>1, EndsTurn DEF CancelSeen, At, Tell
<1>9. CASE Poll(g)
  <2> DEFINE r == [gens[g] EXCEPT !.pc = "wait"]
  <2>1. gens[g].pc = "poll" /\ AtWork(g) /\ Quiet /\ out' = out /\ ~ cancelRequested
    BY <1>9 DEF Poll, At, AtWork, Live, Over
  <2>2. gens' = [gens EXCEPT ![g] = r]
    BY <1>0, <1>9 DEF Poll, Goto
  <2>3. gens[g].late = 0
    BY <1>a, <1>3, <2>1 DEF AtWork
  <2>4. On(r)
    BY <1>0, <1>3, <2>1, <2>2, <2>3 DEF Gen, Over
  <2> QED
    BY <1>2, <1>4, <1>5, <2>1, <2>4
<1>10. ASSUME gens[g].pc = "wait", Quiet,
              NEW pc \in {"poll", "finish", "tool"}, NEW b \in BOOLEAN,
              gens' = [gens EXCEPT ![g] = [gens[g] EXCEPT !.pc = pc, !.heard = b]],
              out' = out \/ out' = out \o <<Msg("Text", g)>>
       PROVE  Still' /\ Sees(T, M)'
  <2> DEFINE r == [gens[g] EXCEPT !.pc = pc, !.heard = b]
  <2>1. AtWork(g) /\ gens[g].late = 0
    BY <1>a, <1>3, <1>10 DEF AtWork, Live, Over
  <2>2. On(r)
    BY <1>0, <1>3, <1>10, <2>1 DEF Gen, Over
  <2> QED
    BY <1>4, <1>5, <1>10, <2>1, <2>2
<1>b. \A pc : [gens[g] EXCEPT !.pc = pc] =
                [gens[g] EXCEPT !.pc = pc, !.heard = gens[g].heard]
  BY <1>0 DEF Gen
<1>c. \A pc : [gens EXCEPT ![g].pc = pc] =
         [gens EXCEPT ![g] = [gens[g] EXCEPT !.pc = pc, !.heard = gens[g].heard]]
  BY <1>0, <1>b
<1>d. gens[g].heard \in BOOLEAN
  BY <1>0 DEF Gen
<1>11. CASE Tick(g)
  <2>1. gens[g].pc = "wait" /\ Quiet /\ out' = out
    BY <1>11 DEF Tick, At
  <2>2. gens' = [gens EXCEPT ![g] = [gens[g] EXCEPT !.pc = "poll",
                                                   !.heard = gens[g].heard]]
    BY <1>11, <1>c DEF Tick, Goto
  <2> QED
    BY <1>2, <1>10, <1>d, <2>1, <2>2
<1>12. CASE Chunk(g)
  <2>1. gens[g].pc = "wait" /\ Quiet /\ out' = out \o <<Msg("Text", g)>>
    BY <1>12 DEF Chunk, At, Tell
  <2>2. gens' = [gens EXCEPT ![g] = [gens[g] EXCEPT !.pc = "poll", !.heard = TRUE]]
    BY <1>0, <1>12 DEF Chunk
  <2> QED
    BY <1>2, <1>10, <2>1, <2>2
<1>13. CASE StreamEnds(g)
  <2>1. gens[g].pc = "wait" /\ Quiet /\ out' = out
    BY <1>13 DEF StreamEnds, At
  <2>2. \E pc \in {"finish", "tool"} : gens' =
          [gens EXCEPT ![g] = [gens[g] EXCEPT !.pc = pc, !.heard = gens[g].heard]]
    BY <1>13, <1>c DEF StreamEnds, Goto
  <2> QED
    BY <1>2, <1>10, <1>d, <2>1, <2>2
<1>14. CASE StreamErrors(g)
  BY <1>14 DEF StreamErrors, Patient
<1>15. ASSUME gens[g].pc \in {"tool", "approve"}, pendingApproval # {g}, ToolDone(g)
       PROVE  Still' /\ Sees(T, M)'
  <2>1. PICK pc \in {"request", "tool"} :
          gens' = [gens EXCEPT ![g].pc = pc, ![g].answer = "none", ![g].left = @ - 1]
    BY <1>15 DEF ToolDone
  <2> DEFINE r == [gens[g] EXCEPT !.pc = pc, !.answer = "none", !.left = @ - 1]
  <2>2. gens' = [gens EXCEPT ![g] = r]
    BY <1>0, <2>1
  <2>3. AtWork(g) /\ gens[g].late = 0
    BY <1>a, <1>3, <1>15 DEF AtWork, Live, Over
  <2>a. gens[g].left - 1 \in Int
    BY <1>0 DEF Gen
  <2>b. r \in Gen /\ r.prompt = gens[g].prompt /\ r.mem = gens[g].mem
        /\ r.cancelled = gens[g].cancelled /\ r.pc = pc /\ r.answer = "none"
        /\ r.late = gens[g].late
    BY <1>0, <2>a DEF Gen
  <2>4. On(r)
    BY <2>2, <2>3, <2>b DEF Over
  <2>5. Quiet /\ out' = out
    BY <1>15 DEF ToolDone
  <2> QED
    BY <1>5, <1>15, <2>3, <2>4, <2>5
<1>16. CASE RunTool(g)
  BY <1>2, <1>4, <1>15, <1>16 DEF RunTool, At
<1>17. CASE AskUser(g)
  BY <1>1, <1>2, <1>17, Asks
<1>18. CASE AnswerTaken(g)
  <2>1. gens[g].pc = "approve" /\ gens[g].answer # "none" /\ ToolDone(g)
    BY <1>18 DEF AnswerTaken, At
  <2>2. pendingApproval # {g}
    BY <2>1 DEF Still, Approval, NobodyAsks
  <2> QED
    BY <1>2, <1>15, <2>1, <2>2
<1>19. CASE Finish(g)
  <2>1. gens' = [gens EXCEPT ![g] = [gens[g] EXCEPT !.pc = "ended"]]
    BY <1>0, <1>19 DEF Finish, Goto
  <2> QED
    BY <1>1, <1>2, <1>19, <2>1, EndsTurn DEF Finish, At, Tell
<1> QED
  BY <1>1, <1>6, <1>7, <1>8, <1>9, <1>11, <1>12, <1>13, <1>14, <1>16, <1>17,
     <1>18, <1>19 DEF Generate
-----------------------------------------------------------------------------
(* The app changes what no turn depends on, and may send a cancellation.    *)
LEMMA Retouched ==
  ASSUME Still, NEW T \in SUBSET Texts, NEW M \in SUBSET Texts, Stage(T, M),
         app' \in AppRec, app'.processing = app.processing, app'.prompt = app.prompt,
         outcome' \in [queued : BOOLEAN, interrupt : SUBSET Texts, low : BOOLEAN,
                       summarize : BOOLEAN],
         Calm', typed' \in SUBSET Texts,
         inbox' = inbox \/ inbox' = inbox \o <<Cancel>>,
         UNCHANGED <<agentVars, tasks, astray>>
  PROVE  Still' /\ Stage(T, M)'
<1>0. inbox \in Seq(InMsg) /\ Cancel \in InMsg /\ Cancel.kind = "Cancel"
      /\ "Cancel" # "UserInput" /\ "Cancel" # "ApprovalResponse"
  BY DEF Still, Shape, InMsg, Cancel
<1>1. /\ inbox' \in Seq(InMsg)
      /\ None(inbox, "UserInput") => None(inbox', "UserInput")
      /\ None(inbox, "ApprovalResponse") => None(inbox', "ApprovalResponse")
      /\ \A y : Only(inbox, "UserInput", y) => Only(inbox', "UserInput", y)
      /\ \A y : Only(inbox, "ApprovalResponse", y) => Only(inbox', "ApprovalResponse", y)
  <2>1. CASE inbox' = inbox
    BY <1>0, <2>1
  <2>2. CASE inbox' = inbox \o <<Cancel>>
    BY <1>0, <2>2, AppendMsg
  <2> QED
    BY <2>1, <2>2
<1>2. Shape'
  BY <1>1 DEF Still, Shape, agentVars
<1>3. Cancels' /\ NotAsked'
  BY DEF Still, Cancels, NotAsked, AtWork, Live, agentVars
<1>4. Approval'
  <2>1. CASE NobodyAsks
    BY <2>1, <1>1 DEF NobodyAsks, Approval, Still, agentVars
  <2>2. ASSUME NEW h \in DOMAIN gens, pendingApproval = {h}, gens[h].pc = "approve",
               gens[h].answer = "none", Asking(h, Asked(h))
        PROVE  Approval'
    <3>1. Asked(h)' = Asked(h)
      BY DEF Asked, agentVars
    <3>2. Asking(h, Asked(h))'
      BY <2>2, <1>1, <3>1 DEF Asking, agentVars
    <3> QED
      BY <2>2, <3>2 DEF Approval, Still, agentVars
  <2> QED
    BY <2>1, <2>2 DEF Still, Approval
<1>5. NoLive' = NoLive /\ \A g : SoleLive(g)' = SoleLive(g)
  BY DEF NoLive, SoleLive, Live, agentVars
<1>6. Stage(T, M)'
  BY <1>1, <1>5 DEF Stage, AtRest, OnItsWay, Waiting, Working, Reported, agentVars
<1> QED
  BY <1>2, <1>3, <1>4, <1>6 DEF Still

(* The app says something while no turn is under way.                       *)
LEMMA Says ==
  ASSUME Still, NEW T \in SUBSET Texts, NEW M \in SUBSET Texts, Stage(T, M),
         ~ app.processing, NEW p \in Texts, p \notin M, Fresh({p}, M)',
         app' \in AppRec, app'.processing, app'.prompt = app.prompt,
         outcome' = NoOutcome, typed' \in SUBSET Texts,
         ~ app'.interrupted, ~ app'.compacting, ~ app'.compactPending,
         ~ app'.resumeReady, inbox' = inbox \o <<Input(p)>>,
         UNCHANGED <<agentVars, tasks, astray>>
  PROVE  /\ Still' /\ {p} \in SUBSET Texts
         /\ Sees({p}, M)' /\ Taking(T, M, {p}, M)
<1>0. inbox \in Seq(InMsg) /\ Input(p) \in InMsg /\ Input(p).kind = "UserInput"
      /\ "UserInput" # "ApprovalResponse"
  BY DEF Still, Shape, InMsg, Input
<1>1. /\ AtRest(T, M) /\ T = {}
  BY DEF Stage, AtRest, OnItsWay, Waiting, Working, Reported
<1>2. /\ inbox' \in Seq(InMsg) /\ Only(inbox', "UserInput", Input(p))
      /\ None(inbox, "ApprovalResponse") => None(inbox', "ApprovalResponse")
  BY <1>0, <1>1, AppendMsg DEF AtRest
<1>3. Shape'
  BY <1>2 DEF Still, Shape, agentVars, NoOutcome
<1>4. Calm'
  BY DEF Calm, NoOutcome
<1>5. Cancels' /\ NotAsked'
  BY DEF Still, Cancels, NotAsked, AtWork, Live, agentVars
<1>6. NobodyAsks /\ ~ astray
  BY <1>1 DEF Still, Approval, AtRest, NoLive, Live, Over
<1>7. Approval'
  BY <1>2, <1>6 DEF Approval, NobodyAsks, agentVars
<1>8. NoLive'
  BY <1>1 DEF AtRest, NoLive, Live, agentVars
<1>9. OnItsWay(p, {p}, M)'
  BY <1>1, <1>2, <1>8 DEF AtRest, OnItsWay, agentVars
<1>10. Sees({p}, M)'
  BY <1>9 DEF Sees, Stage
<1> QED
  BY <1>1, <1>3, <1>4, <1>5, <1>7, <1>10 DEF Still, Taking

-----------------------------------------------------------------------------
(* The agent's thread takes a message.                                      *)
LEMMA Receives ==
  ASSUME Patient, Still, NEW T \in SUBSET Texts, NEW M \in SUBSET Texts, Sees(T, M),
         Receive
  PROVE  Still' /\ Sees(T, M)'
<1> DEFINE m == Head(inbox)
<1>0. inbox \in Seq(InMsg) /\ inbox # <<>> /\ inbox' = Tail(inbox) /\ m \in InMsg
      /\ UNCHANGED <<app, ui, outcome, typed, astray>>
  BY DEF Still, Shape, Receive
<1>1. /\ inbox' \in Seq(InMsg)
      /\ \A k : None(inbox, k) => None(inbox', k) /\ m.kind # k
      /\ \A k, y : Only(inbox, k, y) =>
           IF m.kind = k THEN y = m /\ None(inbox', k) ELSE Only(inbox', k, y)
  BY <1>0, TailMsg
<1>2. Calm' /\ Fresh(T, M)'
  BY <1>0 DEF Still, Calm, Sees, Fresh, Unsaid, Queued
<1>a. gens \in Seq(Gen) /\ tasks \in Seq(InMsg)
  BY DEF Still, Shape
<1>3. CASE m.kind = "UserInput"
  <2>1. PICK p \in Texts : OnItsWay(p, T, M) /\ m = Input(p) /\ None(inbox', "UserInput")
    BY <1>1, <1>3 DEF Sees, Stage, AtRest, OnItsWay, Waiting, Working, Reported
  <2>n. PICK n \in Nat : n = Len(gens) + 1
    BY <1>a
  <2>2. /\ gens' = Append(gens, Call(p)) /\ conversation' = conversation
        /\ cancelRequested' = cancelRequested /\ pendingApproval' = pendingApproval
        /\ out' = out /\ tasks' = tasks
    BY <1>3, <2>1 DEF Receive, Spawn, Input
  <2>3. Call(p) \in Gen /\ Call(p).prompt = p /\ Call(p).pc = "spawned"
        /\ Call(p).late = 0 /\ Call(p).answer = "none" /\ Call(p).cancelled = FALSE
    BY AgentAssumption DEF Call, Gen
  <2>4. /\ gens' \in Seq(Gen) /\ n \in DOMAIN gens' /\ gens'[n] = Call(p)
        /\ \A h \in DOMAIN gens' : h # n => h \in DOMAIN gens /\ gens'[h] = gens[h]
    BY <1>a, <2>n, <2>2, <2>3
  <2>5. \A h \in DOMAIN gens : ~ Live(h)
    BY <2>1 DEF OnItsWay, NoLive
  <2>6. \A h \in DOMAIN gens' : h # n => ~ Live(h)'
    BY <2>4, <2>5 DEF Live
  <2>7. Live(n)'
    BY <2>3, <2>4 DEF Live, Over
  <2>8. Shape'
    BY <1>0, <1>1, <2>2, <2>4 DEF Still, Shape
  <2>9. NobodyAsks /\ ~ astray
    BY <2>5 DEF Still, Approval, Live, Over
  <2>10. Approval'
    BY <1>0, <1>1, <2>2, <2>9 DEF Approval, NobodyAsks
  <2>11. Cancels' /\ NotAsked'
    <3>1. ASSUME NEW h \in DOMAIN gens', h # n
          PROVE /\ gens'[h].late <= 1 /\ ~ AtWork(h)' /\ ~ Live(h)'
                /\ gens'[h].pc # "spawned"
                /\ gens'[h].pc # "approve" => gens'[h].answer = "none"
      BY <3>1, <2>4, <2>6 DEF Still, Cancels, NotAsked, AtWork, Live, Over
    <3>2. gens'[n].late = 0 /\ gens'[n].pc = "spawned" /\ ~ gens'[n].cancelled
          /\ ~ AtWork(n)' /\ gens'[n].answer = "none"
      BY <2>3, <2>4 DEF AtWork
    <3> QED
      BY <3>1, <3>2 DEF Cancels, NotAsked
  <2>12. Waiting(n, T, M)'
    BY <1>0, <2>1, <2>2, <2>3, <2>4, <2>6, <2>7 DEF Waiting, OnItsWay, SoleLive
  <2> QED
    BY <1>2, <2>4, <2>8, <2>10, <2>11, <2>12 DEF Still, Sees, Stage
<1>4. CASE m.kind = "Cancel"
  <2>1. /\ cancelRequested' = TRUE /\ UNCHANGED <<conversation, pendingApproval, out, tasks>>
        /\ gens' = [g \in DOMAIN gens |->
                      [gens[g] EXCEPT !.cancelled = @ \/ AtWork(g)]]
    BY <1>4 DEF Receive, RequestCancel
  <2>2. \A g \in DOMAIN gens :
          LET r == [gens[g] EXCEPT !.cancelled = @ \/ AtWork(g)] IN
            /\ r \in Gen /\ r.prompt = gens[g].prompt /\ r.mem = gens[g].mem
            /\ r.pc = gens[g].pc /\ r.late = gens[g].late /\ r.left = gens[g].left
            /\ r.answer = gens[g].answer
            /\ gens[g].cancelled => r.cancelled
            /\ gens[g].pc = "spawned" => r.cancelled = gens[g].cancelled
    <3> SUFFICES ASSUME NEW g \in DOMAIN gens
                 PROVE  LET r == [gens[g] EXCEPT !.cancelled = @ \/ AtWork(g)] IN
            /\ r \in Gen /\ r.prompt = gens[g].prompt /\ r.mem = gens[g].mem
            /\ r.pc = gens[g].pc /\ r.late = gens[g].late /\ r.left = gens[g].left
            /\ r.answer = gens[g].answer
            /\ gens[g].cancelled => r.cancelled
            /\ gens[g].pc = "spawned" => r.cancelled = gens[g].cancelled
      OBVIOUS
    <3>1. gens[g] \in Gen
      BY <1>a
    <3>2. CASE AtWork(g)
      <4>1. (gens[g].cancelled \/ AtWork(g)) = TRUE /\ gens[g].pc # "spawned"
        BY <3>2 DEF AtWork
      <4> QED
        BY <3>1, <4>1 DEF Gen
    <3>3. CASE ~ AtWork(g)
      <4>1. (gens[g].cancelled \/ AtWork(g)) = gens[g].cancelled
        BY <3>1, <3>3 DEF Gen
      <4> QED
        BY <3>1, <4>1 DEF Gen
    <3> QED
      BY <3>2, <3>3
  <2>3. gens' \in Seq(Gen) /\ DOMAIN gens' = DOMAIN gens
    <3>1. \A g \in DOMAIN gens : gens'[g] \in Gen
      BY <2>1, <2>2
    <3>2. DOMAIN gens' = 1..Len(gens) /\ DOMAIN gens = 1..Len(gens) /\ Len(gens) \in Nat
      BY <1>a, <2>1
    <3>3. gens' = [g \in 1..Len(gens) |-> gens'[g]]
      BY <2>1, <3>2
    <3>4. gens' \in [1..Len(gens) -> Gen]
      BY <3>1, <3>2, <3>3
    <3> QED
      BY <3>2, <3>4
  <2>4. \A g \in DOMAIN gens :
            /\ gens'[g].prompt = gens[g].prompt /\ gens'[g].mem = gens[g].mem
            /\ gens'[g].pc = gens[g].pc /\ gens'[g].late = gens[g].late
            /\ gens'[g].left = gens[g].left /\ gens'[g].answer = gens[g].answer
            /\ gens[g].cancelled => gens'[g].cancelled
            /\ gens[g].pc = "spawned" => gens'[g].cancelled = gens[g].cancelled
    BY <2>1, <2>2
  <2>5. Shape'
    BY <1>0, <1>1, <2>1, <2>3 DEF Still, Shape
  <2>6. \A g \in DOMAIN gens : Live(g)' = Live(g) /\ AtWork(g)' = AtWork(g)
    BY <2>4 DEF Live, AtWork
  <2>7. Cancels' /\ NotAsked'
    <3>1. ASSUME NEW h \in DOMAIN gens
          PROVE  /\ gens'[h].late <= 1
                 /\ Live(h)' /\ gens'[h].late = 1 =>
                      gens'[h].pc = "poll" /\ gens'[h].cancelled
                 /\ gens'[h].pc = "spawned" => ~ gens'[h].cancelled
                 /\ gens'[h].pc # "approve" => gens'[h].answer = "none"
      <4>1. /\ gens[h].late <= 1
            /\ Live(h) /\ gens[h].late = 1 => gens[h].pc = "poll" /\ gens[h].cancelled
            /\ gens[h].pc = "spawned" => ~ gens[h].cancelled
            /\ gens[h].pc # "approve" => gens[h].answer = "none"
        BY DEF Still, Cancels, NotAsked
      <4>2. /\ gens'[h].pc = gens[h].pc /\ gens'[h].late = gens[h].late
            /\ gens'[h].answer = gens[h].answer
            /\ gens[h].cancelled => gens'[h].cancelled
            /\ gens[h].pc = "spawned" => gens'[h].cancelled = gens[h].cancelled
        BY <2>4
      <4> QED
        BY <4>1, <4>2, <2>6
    <3> QED
      BY <2>1, <2>3, <3>1 DEF Cancels, NotAsked
  <2>8. /\ None(inbox, "UserInput") => None(inbox', "UserInput")
        /\ None(inbox, "ApprovalResponse") => None(inbox', "ApprovalResponse")
        /\ \A y : Only(inbox, "UserInput", y) => Only(inbox', "UserInput", y)
        /\ \A y : Only(inbox, "ApprovalResponse", y) => Only(inbox', "ApprovalResponse", y)
    BY <1>1, <1>4
  <2>9. Approval'
    <3>1. CASE NobodyAsks
      BY <3>1, <2>8, <2>1, <1>0 DEF NobodyAsks, Approval, Still
    <3>2. ASSUME NEW h \in DOMAIN gens, pendingApproval = {h}, gens[h].pc = "approve",
                 gens[h].answer = "none", Asking(h, Asked(h))
          PROVE  Approval'
      <4>1. Asked(h)' = Asked(h)
        BY <2>4 DEF Asked
      <4>2. Asking(h, Asked(h))'
        BY <3>2, <4>1, <2>8, <2>1, <1>0 DEF Asking
      <4> QED
        BY <3>2, <4>2, <2>1, <2>3, <2>4, <1>0 DEF Approval, Still
    <3> QED
      BY <3>1, <3>2 DEF Still, Approval
  <2>10. NoLive => NoLive'
    BY <2>3, <2>6 DEF NoLive
  <2>11. \A g \in DOMAIN gens : SoleLive(g) => SoleLive(g)'
    BY <2>3, <2>6 DEF SoleLive
  <2>12. Stage(T, M)'
    <3>1. CASE AtRest(T, M)
      BY <3>1, <2>8, <2>10, <2>1, <1>0 DEF Stage, AtRest
    <3>2. ASSUME NEW p \in Texts, OnItsWay(p, T, M) PROVE Stage(T, M)'
      BY <3>2, <2>8, <2>10, <2>1, <1>0 DEF Stage, OnItsWay
    <3>3. ASSUME NEW g \in DOMAIN gens, Waiting(g, T, M) PROVE Waiting(g, T, M)'
      BY <3>3, <2>8, <2>4, <2>11, <2>1, <1>0 DEF Waiting
    <3>4. ASSUME NEW g \in DOMAIN gens, Working(g, T, M) PROVE Working(g, T, M)'
      BY <3>4, <2>8, <2>4, <2>11, <2>1, <1>0 DEF Working
    <3>5. ASSUME NEW g \in DOMAIN gens, Reported(g, T, M) PROVE Reported(g, T, M)'
      BY <3>5, <2>8, <2>4, <2>10, <2>1, <1>0 DEF Reported
    <3> QED
      BY <3>1, <3>2, <3>3, <3>4, <3>5, <2>3 DEF Sees, Stage
  <2> QED
    BY <1>2, <2>5, <2>7, <2>9, <2>12 DEF Still, Sees
<1>5. CASE m.kind = "ApprovalResponse"
  <2>1. tasks' = Append(tasks, m) /\ UNCHANGED agentVars
    BY <1>5 DEF Receive
  <2>2. ~ NobodyAsks
    BY <1>1, <1>5 DEF NobodyAsks
  <2>3. PICK h \in DOMAIN gens :
          /\ pendingApproval = {h} /\ gens[h].pc = "approve"
          /\ gens[h].answer = "none" /\ Asking(h, Asked(h))
    BY <2>2 DEF Still, Approval
  <2>4. PICK a \in {"yes", "no"} :
          /\ None(out, "RequestApproval") /\ app.prompt = {} /\ Len(tasks) = 0
          /\ Only(inbox, "ApprovalResponse", Answer(a, Asked(h)))
    BY <1>1, <1>5, <2>3 DEF Asking
  <2>5. m = Answer(a, Asked(h)) /\ None(inbox', "ApprovalResponse")
    BY <1>1, <1>5, <2>4
  <2>6. tasks' \in Seq(InMsg) /\ Len(tasks') = 1 /\ tasks'[1] = m
    BY <1>0, <1>a, <2>1, <2>4
  <2>7. Asked(h)' = Asked(h)
    BY <2>1 DEF Asked, agentVars
  <2>8. Asking(h, Asked(h))'
    BY <1>0, <1>5, <2>1, <2>4, <2>5, <2>6, <2>7 DEF Asking, Answer, agentVars
  <2>9. Approval'
    BY <1>0, <2>1, <2>3, <2>8 DEF Approval, Still, agentVars
  <2>10. Shape'
    BY <1>0, <1>1, <2>1, <2>6 DEF Still, Shape, agentVars
  <2>11. Cancels' /\ NotAsked'
    BY <2>1 DEF Still, Cancels, NotAsked, AtWork, Live, agentVars
  <2>12. NoLive' = NoLive /\ \A g : SoleLive(g)' = SoleLive(g)
    BY <2>1 DEF NoLive, SoleLive, Live, agentVars
  <2>13. /\ None(inbox, "UserInput") => None(inbox', "UserInput")
         /\ \A y : Only(inbox, "UserInput", y) => Only(inbox', "UserInput", y)
    BY <1>1, <1>5
  <2>14. Stage(T, M)'
    BY <1>0, <2>1, <2>12, <2>13 DEF Sees, Stage, AtRest, OnItsWay, Waiting,
       Working, Reported, agentVars
  <2> QED
    BY <1>2, <2>9, <2>10, <2>11, <2>14 DEF Still, Sees
<1> QED
  BY <1>0, <1>3, <1>4, <1>5 DEF InMsg
(* The answer reaches the command that was asked about.                     *)
LEMMA Delivers ==
  ASSUME Still, NEW T \in SUBSET Texts, NEW M \in SUBSET Texts, Sees(T, M),
         NEW i \in DOMAIN tasks, Synchronise(i) \/ DeliverAnswer(i)
  PROVE  Still' /\ Sees(T, M)'
<1>0. /\ gens \in Seq(Gen) /\ tasks \in Seq(InMsg) /\ tasks[i] \in InMsg
      /\ Len(tasks) \in Nat /\ DOMAIN tasks = 1..Len(tasks)
  BY DEF Still, Shape
<1>1. ~ Synchronise(i)
  BY <1>0 DEF Synchronise, InMsg
<1>2. /\ tasks[i].kind = "ApprovalResponse" /\ Respond(tasks[i].answer) /\ Finished(i)
      /\ astray' = (astray \/ \E g \in pendingApproval : Asked(g) # tasks[i].of)
      /\ UNCHANGED <<app, ui, outcome, inbox, typed>>
  BY <1>1 DEF DeliverAnswer
<1>3. Len(tasks) # 0
  BY <1>0
<1>4. PICK h \in DOMAIN gens :
        /\ pendingApproval = {h} /\ gens[h].pc = "approve"
        /\ gens[h].answer = "none" /\ Asking(h, Asked(h))
  BY <1>3 DEF Still, Approval, NobodyAsks
<1>5. /\ None(out, "RequestApproval") /\ app.prompt = {}
      /\ None(inbox, "ApprovalResponse")
      /\ Len(tasks) = 1 /\ tasks[1].of = Asked(h)
  BY <1>3, <1>4 DEF Asking
<1>6. i = 1
  BY <1>0, <1>5
<1>7. /\ pendingApproval' = {} /\ UNCHANGED <<conversation, cancelRequested, out>>
      /\ gens' = [g \in DOMAIN gens |->
                    IF g \in pendingApproval
                      THEN [gens[g] EXCEPT !.answer = tasks[i].answer] ELSE gens[g]]
  BY <1>2 DEF Respond
<1> DEFINE r == [gens[h] EXCEPT !.answer = tasks[i].answer]
<1>8. gens[h] \in Gen /\ tasks[i].answer \in {"yes", "no"}
  BY <1>0, <1>2 DEF InMsg
<1>9. /\ r \in Gen /\ r.prompt = gens[h].prompt /\ r.pc = "approve"
      /\ r.mem = gens[h].mem /\ r.cancelled = gens[h].cancelled
      /\ r.late = gens[h].late
  BY <1>4, <1>8 DEF Gen
<1>10. /\ gens' \in Seq(Gen) /\ DOMAIN gens' = DOMAIN gens /\ gens'[h] = r
       /\ \A g \in DOMAIN gens : g # h => gens'[g] = gens[g]
  <2>1. gens' = [gens EXCEPT ![h] = r]
    BY <1>0, <1>4, <1>7
  <2> QED
    BY <2>1, <1>0, <1>9, Replaced
<1> HIDE DEF r
<1>11. \A g \in DOMAIN gens : /\ gens'[g].pc = gens[g].pc /\ gens'[g].mem = gens[g].mem
                              /\ gens'[g].prompt = gens[g].prompt
                              /\ gens'[g].late = gens[g].late
                              /\ gens'[g].cancelled = gens[g].cancelled
  BY <1>4, <1>9, <1>10
<1>12. Len(tasks') = 0 /\ tasks' \in Seq(InMsg)
  <2>1. tasks' = [j \in 1..0 |-> tasks[IF j < i THEN j ELSE j + 1]]
    BY <1>2, <1>5 DEF Finished
  <2>2. 1..0 = {}
    OBVIOUS
  <2>3. tasks' = <<>>
    BY <2>1, <2>2
  <2> QED
    BY <2>3
<1>13. astray' = FALSE
  BY <1>2, <1>4, <1>5, <1>6 DEF Still, Approval
<1>14. Shape'
  BY <1>2, <1>7, <1>10, <1>12 DEF Still, Shape
<1>15. Calm' /\ Fresh(T, M)'
  BY <1>2 DEF Still, Calm, Sees, Fresh, Unsaid, Queued
<1>16. Approval'
  BY <1>2, <1>5, <1>7, <1>12, <1>13 DEF Approval, NobodyAsks
<1>17. Cancels' /\ NotAsked'
  BY <1>4, <1>7, <1>10, <1>11 DEF Still, Cancels, NotAsked, AtWork, Live
<1>18. \A g \in DOMAIN gens : Live(g)' = Live(g)
  BY <1>11 DEF Live
<1>19. NoLive' = NoLive /\ \A g \in DOMAIN gens : SoleLive(g) => SoleLive(g)'
  BY <1>10, <1>18 DEF NoLive, SoleLive
<1>20. Stage(T, M)'
  <2>1. CASE AtRest(T, M)
    BY <2>1, <1>2, <1>7, <1>19 DEF Stage, AtRest
  <2>2. ASSUME NEW p \in Texts, OnItsWay(p, T, M) PROVE Stage(T, M)'
    BY <2>2, <1>2, <1>7, <1>19 DEF Stage, OnItsWay
  <2>3. ASSUME NEW g \in DOMAIN gens, Waiting(g, T, M) PROVE Waiting(g, T, M)'
    BY <2>3, <1>2, <1>7, <1>11, <1>19 DEF Waiting
  <2>4. ASSUME NEW g \in DOMAIN gens, Working(g, T, M) PROVE Working(g, T, M)'
    BY <2>4, <1>2, <1>7, <1>11, <1>19 DEF Working
  <2>5. ASSUME NEW g \in DOMAIN gens, Reported(g, T, M) PROVE Reported(g, T, M)'
    BY <2>5, <1>2, <1>7, <1>11, <1>19 DEF Reported
  <2> QED
    BY <2>1, <2>2, <2>3, <2>4, <2>5, <1>10 DEF Sees, Stage
<1> QED
  BY <1>14, <1>15, <1>16, <1>17, <1>20 DEF Still, Sees
-----------------------------------------------------------------------------
(* The app reads a message that does not end the turn.                      *)
LEMMA Looks ==
  ASSUME Still, NEW T \in SUBSET Texts, NEW M \in SUBSET Texts, Stage(T, M),
         NEW kind, kind # "Done", Take(kind), inbox' = inbox,
         app'.processing = app.processing
  PROVE  Stage(T, M)'
<1>1. /\ out \in Seq(OutMsg) /\ out # <<>> /\ Head(out).kind = kind
      /\ out' = Tail(out) /\ gens' = gens /\ conversation' = conversation
  BY DEF Still, Shape, Take
<1>2. /\ None(out, "Done") => None(out', "Done")
      /\ \A y : Only(out, "Done", y) => Only(out', "Done", y)
  BY <1>1, TailMsg
<1>3. NoLive' = NoLive /\ \A g : SoleLive(g)' = SoleLive(g)
  BY <1>1 DEF NoLive, SoleLive, Live
<1> QED
  BY <1>1, <1>2, <1>3 DEF Stage, AtRest, OnItsWay, Waiting, Working, Reported

LEMMA Drains ==
  ASSUME Patient, Still, NEW T \in SUBSET Texts, NEW M \in SUBSET Texts, Sees(T, M),
         Drain
  PROVE  /\ Still'
         /\ \E T2, M2 \in SUBSET Texts : Sees(T2, M2)' /\ Taking(T, M, T2, M2)
<1>1. /\ ~ app.interrupted /\ ~ app.compacting /\ app \in AppRec
      /\ out \in Seq(OutMsg) /\ Lows = {FALSE}
      /\ outcome \in [queued : BOOLEAN, interrupt : SUBSET Texts, low : BOOLEAN,
                      summarize : BOOLEAN]
      /\ outcome.summarize = FALSE
  BY DEF Still, Shape, Calm, Patient, Lows, MayRunLow
<1>2. \A kind : Take(kind) =>
         /\ out # <<>> /\ Head(out).kind = kind /\ out' = Tail(out) /\ out' \in Seq(OutMsg)
         /\ Head(out) \in OutMsg /\ ui = "drain"
         /\ UNCHANGED <<conversation, cancelRequested, pendingApproval, gens, ui,
                        tasks, typed, astray>>
  <2>1. out # <<>> => Head(out) \in OutMsg /\ Tail(out) \in Seq(OutMsg)
    BY <1>1
  <2> QED
    BY <2>1 DEF Take
<1>a. ASSUME NEW kind, Take(kind), NEW k
      PROVE  /\ None(out, k) => None(out', k) /\ kind # k
             /\ \A y : Only(out, k, y) =>
                  IF kind = k THEN y = Head(out) /\ None(out', k) ELSE Only(out', k, y)
  <2>1. out \in Seq(OutMsg) /\ out # <<>> /\ Head(out).kind = kind /\ out' = Tail(out)
    BY <1>1, <1>2, <1>a
  <2>2. /\ None(out, k) => None(Tail(out), k) /\ Head(out).kind # k
        /\ \A y : Only(out, k, y) =>
             IF Head(out).kind = k THEN y = Head(out) /\ None(Tail(out), k)
                                   ELSE Only(Tail(out), k, y)
    BY <2>1, TailMsg
  <2> QED
    BY <2>1, <2>2
<1>3. DrainText \/ DrainRequestApproval \/ DrainDone
  <2>1. ~ DrainCompacted /\ \A kind \in Kinds : ~ DrainSilenced(kind)
    BY <1>1 DEF DrainCompacted, DrainSilenced
  <2>2. ~ Take("Error") /\ ~ Take("ContextCleared") /\ ~ Take("ContextInjected")
    BY <1>2 DEF OutMsg
  <2> QED
    BY <2>1, <2>2 DEF Drain, DrainError, DrainContextCleared, DrainContextInjected
<1>4. Still' /\ Sees(T, M)' =>
        \E T2, M2 \in SUBSET Texts : Sees(T2, M2)' /\ Taking(T, M, T2, M2)
  BY DEF Taking
<1>5. (Cancels /\ NotAsked) /\ UNCHANGED <<gens, cancelRequested>> =>
        Cancels' /\ NotAsked'
  BY DEF Cancels, NotAsked, AtWork, Live
<1>6. CASE DrainText
  <2>1. Take("Text") /\ inbox' = inbox
    BY <1>6 DEF DrainText
  <2>2. PICK shown \in {TRUE, app.indicator} : app' = [app EXCEPT !.indicator = shown]
    BY <1>6 DEF DrainText
  <2>3. app.indicator \in BOOLEAN
    BY <1>1 DEF AppRec
  <2>4. shown \in BOOLEAN
    BY <2>3
  <2>5. /\ app' \in AppRec /\ app'.processing = app.processing
        /\ app'.prompt = app.prompt /\ app'.choice = app.choice
        /\ app'.queue = app.queue /\ app'.interruptPending = app.interruptPending
        /\ app'.interrupted = app.interrupted /\ app'.compacting = app.compacting
        /\ app'.compactPending = app.compactPending
        /\ app'.resumeReady = app.resumeReady
    BY <1>1, <2>2, <2>4 DEF AppRec
  <2>6. outcome' = outcome
    <3>1. outcome' = [outcome EXCEPT !.summarize = @ \/
            (FALSE /\ ~ app.compacting /\ ~ app.auto /\ app.queue = <<>>)]
      BY <1>1, <1>6 DEF DrainText
    <3>2. outcome' = [outcome EXCEPT !.summarize = FALSE]
      BY <1>1, <3>1
    <3> QED
      BY <1>1, <3>2
  <2>7. Stage(T, M)'
    BY <2>1, <2>5, Looks DEF Sees
  <2>8. Fresh(T, M)'
    BY <1>2, <2>1, <2>5, <2>6 DEF Sees, Fresh, Unsaid, Queued
  <2>9. Shape'
    BY <1>1, <1>2, <2>1, <2>5, <2>6 DEF Still, Shape
  <2>10. Calm'
    BY <1>2, <2>1, <2>5, <2>6 DEF Still, Calm
  <2>11. /\ None(out, "RequestApproval") => None(out', "RequestApproval")
         /\ \A y : Only(out, "RequestApproval", y) => Only(out', "RequestApproval", y)
    <3>1. "Text" # "RequestApproval"
      OBVIOUS
    <3> QED
      BY <1>a, <2>1, <3>1
  <2>12. Approval'
    <3>1. CASE NobodyAsks
      BY <3>1, <1>2, <2>1, <2>5, <2>11 DEF NobodyAsks, Approval, Still
    <3>2. ASSUME NEW h \in DOMAIN gens, pendingApproval = {h}, gens[h].pc = "approve",
                 gens[h].answer = "none", Asking(h, Asked(h))
          PROVE  Approval'
      <4>1. Asked(h)' = Asked(h)
        BY <1>2, <2>1 DEF Asked
      <4>2. Asking(h, Asked(h))'
        BY <3>2, <4>1, <1>2, <2>1, <2>5, <2>11 DEF Asking
      <4> QED
        BY <3>2, <4>2, <1>2, <2>1 DEF Approval, Still
    <3> QED
      BY <3>1, <3>2 DEF Still, Approval
  <2> QED
    BY <1>2, <1>4, <1>5, <2>1, <2>7, <2>8, <2>9, <2>10, <2>12 DEF Still, Sees
<1>7. CASE DrainRequestApproval
  <2>1. /\ Take("RequestApproval") /\ inbox' = inbox /\ outcome' = outcome
        /\ app' = [app EXCEPT !.prompt = {Head(out).of}]
    BY <1>7 DEF DrainRequestApproval, AppOnly
  <2>2. Head(out).of \in Question
    BY <1>2, <2>1 DEF OutMsg
  <2>3. /\ app' \in AppRec /\ app'.processing = app.processing
        /\ app'.prompt = {Head(out).of} /\ app'.choice = app.choice
        /\ app'.queue = app.queue /\ app'.interruptPending = app.interruptPending
        /\ app'.interrupted = app.interrupted /\ app'.compacting = app.compacting
        /\ app'.compactPending = app.compactPending
        /\ app'.resumeReady = app.resumeReady
    BY <1>1, <2>1, <2>2 DEF AppRec
  <2>4. Stage(T, M)'
    BY <2>1, <2>3, Looks DEF Sees
  <2>5. Fresh(T, M)'
    BY <1>2, <2>1, <2>3 DEF Sees, Fresh, Unsaid, Queued
  <2>6. Shape'
    BY <1>1, <1>2, <2>1, <2>3 DEF Still, Shape
  <2>7. Calm'
    BY <1>2, <2>1, <2>3 DEF Still, Calm
  <2>8. ~ None(out, "RequestApproval")
    BY <1>a, <2>1
  <2>9. PICK h \in DOMAIN gens :
          /\ pendingApproval = {h} /\ gens[h].pc = "approve"
          /\ gens[h].answer = "none" /\ Asking(h, Asked(h))
    BY <2>8 DEF Still, Approval, NobodyAsks
  <2>10. /\ Only(out, "RequestApproval", [kind |-> "RequestApproval", of |-> Asked(h)])
         /\ None(inbox, "ApprovalResponse") /\ Len(tasks) = 0
    BY <2>8, <2>9 DEF Asking
  <2>11. /\ Head(out) = [kind |-> "RequestApproval", of |-> Asked(h)]
         /\ None(out', "RequestApproval")
    BY <1>a, <2>1, <2>10
  <2>12. Asked(h)' = Asked(h)
    BY <1>2, <2>1 DEF Asked
  <2>13. Asking(h, Asked(h))'
    BY <1>2, <2>1, <2>3, <2>10, <2>11, <2>12 DEF Asking
  <2>14. Approval'
    BY <1>2, <2>1, <2>9, <2>13 DEF Approval, Still
  <2> QED
    BY <1>2, <1>4, <1>5, <2>1, <2>4, <2>5, <2>6, <2>7, <2>14 DEF Still, Sees
<1>8. CASE DrainDone
  <2>1. Take("Done") /\ inbox' = inbox
    BY <1>8 DEF DrainDone
  <2>2. ~ None(out, "Done")
    BY <1>a, <2>1
  <2>3. PICK g \in DOMAIN gens : Reported(g, T, M)
    BY <2>2 DEF Sees, Stage, AtRest, OnItsWay, Waiting, Working
  <2>4. /\ app.processing /\ None(inbox, "UserInput") /\ NoLive
        /\ T = {gens[g].prompt} /\ T \subseteq M /\ M = UNION conversation
        /\ None(out', "Done")
    BY <1>a, <2>1, <2>3 DEF Reported
  <2>5. outcome.queued = FALSE /\ outcome.interrupt = {}
    BY <1>1, <2>4 DEF Still, Calm
  <2>6. /\ app' \in AppRec /\ app'.processing = FALSE /\ app'.prompt = {}
        /\ app'.choice = app.choice /\ app'.queue = app.queue
        /\ app'.interruptPending = {}
        /\ app'.interrupted = app.interrupted /\ app'.compacting = app.compacting
        /\ app'.compactPending = app.compactPending
        /\ app'.resumeReady = app.resumeReady
        /\ outcome' \in [queued : BOOLEAN, interrupt : SUBSET Texts, low : BOOLEAN,
                         summarize : BOOLEAN]
        /\ outcome'.interrupt = app.interruptPending /\ outcome'.summarize = FALSE
        /\ outcome'.interrupt # {} => outcome'.queued = FALSE
    <3>1. CASE app.interruptPending # {}
      <4>1. /\ app' = [TurnOver EXCEPT !.interruptPending = {}]
            /\ outcome' = [outcome EXCEPT !.interrupt = app.interruptPending]
        BY <1>8, <3>1 DEF DrainDone
      <4> QED
        BY <1>1, <2>5, <4>1 DEF TurnOver, AppRec
    <3>2. CASE app.interruptPending = {}
      <4>1. /\ app' = TurnOver
            /\ outcome' = [outcome EXCEPT !.queued = TRUE, !.low = TRUE]
        BY <1>8, <3>2 DEF DrainDone
      <4> QED
        BY <1>1, <2>5, <3>2, <4>1 DEF TurnOver, AppRec
    <3> QED
      BY <3>1, <3>2
  <2>7. NoLive'
    BY <1>2, <2>1, <2>4 DEF NoLive, Live
  <2>8. AtRest({}, M)'
    BY <1>2, <2>1, <2>4, <2>6, <2>7 DEF AtRest
  <2>9. Fresh({}, M)'
    BY <1>2, <2>1, <2>5, <2>6 DEF Sees, Fresh, Unsaid, Queued
  <2>10. Shape'
    BY <1>1, <1>2, <2>1, <2>6 DEF Still, Shape
  <2>11. Calm'
    BY <1>2, <2>1, <2>6 DEF Still, Calm
  <2>12. NobodyAsks /\ ~ astray
    BY <2>4 DEF Still, Approval, NoLive, Live, Over
  <2>13. None(out', "RequestApproval")
    BY <1>a, <2>1, <2>12 DEF NobodyAsks
  <2>14. Approval'
    BY <1>2, <2>1, <2>6, <2>12, <2>13 DEF Approval, NobodyAsks
  <2>15. Taking(T, M, {}, M)
    BY <2>4 DEF Taking
  <2> QED
    BY <1>2, <1>5, <2>1, <2>8, <2>9, <2>10, <2>11, <2>14, <2>15 DEF Still, Sees, Stage
<1> QED
  BY <1>3, <1>6, <1>7, <1>8
-----------------------------------------------------------------------------
(* What the app does before it sends, and what it sends.                    *)
LEMMA Saying ==
  ASSUME NEW a, NEW s, NEW p, s = [app |-> a, send |-> <<>>]
  PROVE  Say(s, p) =
           [app |-> [a EXCEPT !.processing = TRUE, !.indicator = TRUE],
            send |-> <<Input(p)>>]
<1> DEFINE b == [a EXCEPT !.processing = TRUE, !.indicator = TRUE]
<1>1. s.app = a /\ s.send = <<>>
  OBVIOUS
<1>2. [s.app EXCEPT !.processing = TRUE, !.indicator = TRUE] = b
  BY <1>1, Zenon
<1> HIDE DEF b
<1>3. Say(s, p) = Send(Become(s, b), Input(p))
  BY <1>2, Zenon DEF Say
<1>4. Send(Become(s, b), Input(p)) = [app |-> b, send |-> Append(<<>>, Input(p))]
  BY <1>1 DEF Send, Become
<1>5. Append(<<>>, Input(p)) = <<Input(p)>>
  OBVIOUS
<1> QED
  BY <1>3, <1>4, <1>5 DEF b

(* process_pending_actions says what interrupted, or what is first in the   *)
(* queue, or nothing.                                                       *)
LEMMA Pends ==
  ASSUME Patient, Still, Pending
  PROVE  /\ ui' = "keys" /\ outcome' = NoOutcome
         /\ UNCHANGED <<agentVars, tasks, typed, astray>>
         /\ \/ /\ outcome.interrupt = {}
               /\ app' = app /\ inbox' = inbox
            \/ \E p \in outcome.interrupt :
                  /\ app' = [app EXCEPT !.processing = TRUE, !.indicator = TRUE]
                  /\ inbox' = inbox \o <<Input(p)>>
            \/ /\ outcome.interrupt = {} /\ outcome.queued /\ app.queue # <<>>
               /\ app' = [app EXCEPT !.queue = Tail(@), !.processing = TRUE,
                                     !.indicator = TRUE]
               /\ inbox' = inbox \o <<Input(Head(app.queue))>>
<1>1. /\ app \in AppRec /\ inbox \in Seq(InMsg) /\ outcome.summarize = FALSE
      /\ app.resumeReady = FALSE /\ app.compactPending = FALSE
      /\ outcome.interrupt \in SUBSET Texts /\ outcome.queued \in BOOLEAN
      /\ app.queue \in Seq(Texts)
      /\ outcome.interrupt # {} => outcome.queued = FALSE
  BY DEF Still, Shape, Calm, AppRec
<1>2. /\ ui' = "keys" /\ outcome' = NoOutcome
      /\ UNCHANGED <<agentVars, tasks, typed, astray>>
  BY DEF Pending
<1>3. Do(Compact(SayQueued(SayContinue(SyncTimesOut(SummarizeIfLow(
           StopToSummarize(SayInterrupt(Now)), FALSE), FALSE)))))
  <2>1. Lows = {FALSE} /\ ("timeout" \in Faults) = FALSE
    BY DEF Patient, Lows, MayRunLow
  <2>2. PICK low \in Lows, timedOut \in {FALSE, "timeout" \in Faults} :
          Do(Compact(SayQueued(SayContinue(SyncTimesOut(SummarizeIfLow(
               StopToSummarize(SayInterrupt(Now)), low), timedOut)))))
    BY DEF Pending
  <2>3. low = FALSE /\ timedOut = FALSE
    BY <2>1
  <2> QED
    BY <2>2, <2>3
<1>4. /\ \A s : StopToSummarize(s) = s
      /\ \A s : SummarizeIfLow(s, FALSE) = s
      /\ \A s : SyncTimesOut(s, FALSE) = s
      /\ \A s : s.app.resumeReady = FALSE => SayContinue(s) = s
      /\ \A s : s.app.compactPending = FALSE => Compact(s) = s
  <2>1. \A s : StopToSummarize(s) = s
    BY <1>1, Zenon DEF StopToSummarize
  <2>2. \A s : SummarizeIfLow(s, FALSE) = s
    BY Zenon DEF SummarizeIfLow
  <2>3. \A s : SyncTimesOut(s, FALSE) = s
    BY Zenon DEF SyncTimesOut
  <2>4. \A s : s.app.resumeReady = FALSE => SayContinue(s) = s
    BY Zenon DEF SayContinue
  <2>5. \A s : s.app.compactPending = FALSE => Compact(s) = s
    BY Zenon DEF Compact
  <2> QED
    BY <2>1, <2>2, <2>3, <2>4, <2>5
<1>5. Texts \cap Commands = {}
  BY DEF Patient
<1> DEFINE spoken(a) == [a EXCEPT !.processing = TRUE, !.indicator = TRUE]
<1>6. \A a \in AppRec : spoken(a) \in AppRec
                        /\ spoken(a).resumeReady = a.resumeReady
                        /\ spoken(a).compactPending = a.compactPending
  BY DEF AppRec
<1>7. \A a : \A p : Say([app |-> a, send |-> <<>>], p)
                     = [app |-> spoken(a), send |-> <<Input(p)>>]
  BY Saying, Zenon DEF spoken
<1>8. \A m \in Texts : \A s : SayOrDo(s, m) = Say(s, m)
  BY <1>5 DEF SayOrDo
<1> HIDE DEF spoken
<1>9. CASE outcome.interrupt # {}
  <2>1. PICK p \in outcome.interrupt : p = CHOOSE m \in outcome.interrupt : TRUE
    BY <1>9
  <2>2. SayInterrupt(Now) = [app |-> spoken(app), send |-> <<Input(p)>>]
    BY <1>1, <1>7, <1>8, <1>9, <2>1 DEF SayInterrupt, Now
  <2> DEFINE s == [app |-> spoken(app), send |-> <<Input(p)>>]
  <2>3. /\ s.app = spoken(app) /\ s.send = <<Input(p)>>
        /\ s.app.resumeReady = FALSE /\ s.app.compactPending = FALSE
    BY <1>1, <1>6
  <2>4. SayQueued(s) = s
    BY <1>1, <1>9 DEF SayQueued
  <2>a. SayInterrupt(Now) = s
    BY <2>2
  <2> HIDE DEF s
  <2>b. SyncTimesOut(SummarizeIfLow(StopToSummarize(SayInterrupt(Now)), FALSE), FALSE) = s
    BY <1>4, <2>a, Zenon
  <2>c. SayContinue(s) = s /\ Compact(s) = s
    BY <1>4, <2>3
  <2>5. Do(s)
    BY <1>3, <2>4, <2>b, <2>c
  <2> QED
    BY <1>2, <2>1, <2>3, <2>5 DEF Do, spoken
<1>10. CASE outcome.interrupt = {}
  <2>1. SayInterrupt(Now) = Now
    BY <1>10 DEF SayInterrupt
  <2>2. /\ Now.app = app /\ Now.send = <<>>
    BY DEF Now
  <2>a. SyncTimesOut(SummarizeIfLow(StopToSummarize(SayInterrupt(Now)), FALSE), FALSE)
          = Now
    BY <1>4, <2>1, Zenon
  <2>b. SayContinue(Now) = Now
    BY <1>1, <1>4, <2>2
  <2>c. Do(Compact(SayQueued(SayContinue(Now))))
    BY <1>3, <2>a, Zenon
  <2>3. Do(Compact(SayQueued(Now)))
    BY <2>b, <2>c, Zenon
  <2>4. CASE SayQueued(Now) = Now
    <3>1. Do(Now)
      BY <1>1, <1>4, <2>2, <2>3, <2>4
    <3> QED
      BY <1>1, <1>2, <1>10, <2>2, <3>1, Nothing DEF Do
  <2>5. CASE SayQueued(Now) # Now
    <3>1. outcome.queued /\ app.queue # <<>>
      BY <2>2, <2>5 DEF SayQueued
    <3>2. SayQueued(Now) =
            SayOrDo(Become(Now, [app EXCEPT !.queue = Tail(@)]), Head(app.queue))
      BY <2>2, <2>5 DEF SayQueued
    <3> DEFINE a == [app EXCEPT !.queue = Tail(@)]
    <3>3. Head(app.queue) \in Texts /\ Tail(app.queue) \in Seq(Texts)
      BY <1>1, <3>1
    <3>4. a \in AppRec /\ a.resumeReady = FALSE /\ a.compactPending = FALSE
      BY <1>1, <3>3 DEF AppRec
    <3>5. Become(Now, a) = [app |-> a, send |-> <<>>]
      BY <2>2 DEF Become
    <3> DEFINE s == [app |-> spoken(a), send |-> <<Input(Head(app.queue))>>]
    <3>b. SayQueued(Now) = SayOrDo(Become(Now, a), Head(app.queue))
      BY <3>2
    <3> HIDE DEF a
    <3>c. SayQueued(Now) = SayOrDo([app |-> a, send |-> <<>>], Head(app.queue))
      BY <3>b, <3>5, Zenon
    <3>6. SayQueued(Now) = s
      BY <1>7, <1>8, <3>c, <3>3, <3>4
    <3>7. /\ s.app = spoken(a) /\ s.send = <<Input(Head(app.queue))>>
          /\ s.app.compactPending = FALSE
      BY <1>6, <3>4
    <3> HIDE DEF s
    <3>8. Do(s)
      BY <1>4, <2>3, <3>6, <3>7
    <3>9. /\ app' = [app EXCEPT !.queue = Tail(@), !.processing = TRUE,
                                !.indicator = TRUE]
          /\ inbox' = inbox \o <<Input(Head(app.queue))>>
      BY <3>7, <3>8, <1>1 DEF Do, spoken, a
    <3> QED
      BY <1>2, <1>10, <3>1, <3>9
  <2> QED
    BY <2>4, <2>5
<1> QED
  BY <1>9, <1>10
LEMMA Resolves ==
  ASSUME Patient, Still, NEW T \in SUBSET Texts, NEW M \in SUBSET Texts, Sees(T, M),
         Pending
  PROVE  /\ Still'
         /\ \E T2, M2 \in SUBSET Texts : Sees(T2, M2)' /\ Taking(T, M, T2, M2)
<1>1. /\ app \in AppRec /\ outcome.interrupt \in SUBSET Texts
      /\ app.queue \in Seq(Texts) /\ ui' = "keys" /\ outcome' = NoOutcome
      /\ UNCHANGED <<agentVars, tasks, typed, astray>>
      /\ NoOutcome.interrupt = {} /\ NoOutcome.queued = FALSE
      /\ NoOutcome.summarize = FALSE
      /\ NoOutcome \in [queued : BOOLEAN, interrupt : SUBSET Texts, low : BOOLEAN,
                        summarize : BOOLEAN]
  <2>1. /\ app \in AppRec /\ outcome.interrupt \in SUBSET Texts
        /\ app.queue \in Seq(Texts)
    BY DEF Still, Shape, AppRec
  <2>2. /\ ui' = "keys" /\ outcome' = NoOutcome
        /\ UNCHANGED <<agentVars, tasks, typed, astray>>
    BY Pends
  <2> QED
    BY <2>1, <2>2 DEF NoOutcome
<1>2. /\ ~ app.interrupted /\ ~ app.compacting /\ ~ app.compactPending
      /\ ~ app.resumeReady
      /\ outcome.queued \/ outcome.interrupt # {} => ~ app.processing
  BY DEF Still, Calm
<1>3. CASE outcome.interrupt = {} /\ app' = app /\ inbox' = inbox
  <2>1. Calm'
    BY <1>1, <1>2, <1>3 DEF Calm
  <2>2. Still' /\ Stage(T, M)'
    BY <1>1, <1>3, <2>1, Retouched DEF Sees, Still, Shape
  <2>3. Fresh(T, M)'
    BY <1>1, <1>3 DEF Sees, Fresh, Unsaid, Queued
  <2> QED
    BY <2>2, <2>3 DEF Sees, Taking
<1>4. ASSUME ~ app.processing, NEW p \in Texts, p \notin M, Fresh({p}, M)',
             app' \in AppRec, app'.processing, app'.prompt = app.prompt,
             ~ app'.interrupted, ~ app'.compacting, ~ app'.compactPending,
             ~ app'.resumeReady, inbox' = inbox \o <<Input(p)>>
      PROVE  /\ Still'
             /\ \E T2, M2 \in SUBSET Texts : Sees(T2, M2)' /\ Taking(T, M, T2, M2)
  BY <1>1, <1>4, Says DEF Sees, Still, Shape
<1>5. ASSUME NEW p \in outcome.interrupt,
             app' = [app EXCEPT !.processing = TRUE, !.indicator = TRUE],
             inbox' = inbox \o <<Input(p)>>
      PROVE  /\ Still'
             /\ \E T2, M2 \in SUBSET Texts : Sees(T2, M2)' /\ Taking(T, M, T2, M2)
  <2>1. /\ app' \in AppRec /\ app'.processing = TRUE /\ app'.prompt = app.prompt
        /\ app'.choice = app.choice /\ app'.queue = app.queue
        /\ app'.interruptPending = app.interruptPending
        /\ app'.interrupted = app.interrupted /\ app'.compacting = app.compacting
        /\ app'.compactPending = app.compactPending
        /\ app'.resumeReady = app.resumeReady
    BY <1>1, <1>5 DEF AppRec
  <2>2. p \in Texts /\ p \in typed /\ p \notin M
    BY <1>1 DEF Sees, Fresh, Unsaid
  <2>3. Fresh({p}, M)'
    BY <1>1, <2>1, <2>2 DEF Sees, Fresh, Unsaid, Queued
  <2> QED
    BY <1>2, <1>4, <1>5, <2>1, <2>2, <2>3
<1>6. CASE /\ outcome.interrupt = {} /\ outcome.queued /\ app.queue # <<>>
           /\ app' = [app EXCEPT !.queue = Tail(@), !.processing = TRUE,
                                 !.indicator = TRUE]
           /\ inbox' = inbox \o <<Input(Head(app.queue))>>
  <2>1. /\ Tail(app.queue) \in Seq(Texts) /\ Head(app.queue) \in Texts
        /\ Head(app.queue) = app.queue[1] /\ 1 \in DOMAIN app.queue
        /\ DOMAIN Tail(app.queue) = 1..Len(app.queue) - 1
        /\ DOMAIN app.queue = 1..Len(app.queue) /\ Len(app.queue) \in Nat
    BY <1>1, <1>6
  <2>2. \A i \in DOMAIN Tail(app.queue) : /\ Tail(app.queue)[i] = app.queue[i + 1]
                                          /\ i + 1 \in DOMAIN app.queue /\ i + 1 # 1
    BY <1>1, <2>1
  <2>3. \A i, j \in DOMAIN Tail(app.queue) : i + 1 = j + 1 => i = j
    BY <2>1
  <2>4. /\ app' \in AppRec /\ app'.processing = TRUE /\ app'.prompt = app.prompt
        /\ app'.choice = app.choice /\ app'.queue = Tail(app.queue)
        /\ app'.interruptPending = app.interruptPending
        /\ app'.interrupted = app.interrupted /\ app'.compacting = app.compacting
        /\ app'.compactPending = app.compactPending
        /\ app'.resumeReady = app.resumeReady
    BY <1>1, <1>6, <2>1 DEF AppRec
  <2>5. PICK p \in Texts : p = Head(app.queue)
    BY <2>1
  <2>6. \A i, j \in DOMAIN app.queue : app.queue[i] = app.queue[j] => i = j
    BY DEF Sees, Fresh
  <2>7. p \in Queued /\ Queued' \subseteq Queued /\ p \notin Queued'
    <3>1. p \in Queued
      BY <2>1, <2>5 DEF Queued
    <3>2. \A i \in DOMAIN Tail(app.queue) : Tail(app.queue)[i] \in Queued \ {p}
      BY <2>1, <2>2, <2>5, <2>6 DEF Queued
    <3> QED
      BY <2>4, <3>1, <3>2 DEF Queued
  <2>8. \A i, j \in DOMAIN app'.queue : app'.queue[i] = app'.queue[j] => i = j
    BY <2>2, <2>3, <2>4, <2>6
  <2>9. p \in typed /\ p \notin M
    BY <2>7 DEF Sees, Fresh, Unsaid
  <2>10. Fresh({p}, M)'
    BY <1>1, <1>6, <2>4, <2>7, <2>8, <2>9 DEF Sees, Fresh, Unsaid
  <2> QED
    BY <1>2, <1>4, <1>6, <2>4, <2>5, <2>9, <2>10
<1> QED
  BY <1>3, <1>5, <1>6, Pends
-----------------------------------------------------------------------------
(* What a key does to the app, and what it sends.                           *)
LEMMA Edits ==
  /\ Now.app = app /\ Now.send = <<>>
  /\ \A a : Become(Now, a) = [app |-> a, send |-> <<>>]
BY DEF Now, Become

LEMMA Sent ==
  ASSUME NEW s, NEW x, NEW b, NEW m, s = [app |-> x, send |-> b]
  PROVE  Send(s, m) = [app |-> x, send |-> Append(b, m)]
BY DEF Send

LEMMA Keyed ==
  ASSUME NEW s, NEW x, NEW b, s = [app |-> x, send |-> b], Key(s)
  PROVE  /\ app' = x /\ inbox' = inbox \o b /\ ui = "keys"
         /\ UNCHANGED <<agentVars, ui, outcome, tasks, astray>>
<1>1. s.app = x /\ s.send = b
  OBVIOUS
<1> QED
  BY <1>1 DEF Key, Do

LEMMA Chooses ==
  ASSUME NEW k, Choose(k), app \in AppRec
  PROVE  /\ ui = "keys" /\ UNCHANGED <<agentVars, ui, outcome, tasks, astray, typed>>
         /\ app' \in AppRec /\ app'.choice = {} /\ app'.processing = app.processing
         /\ app'.prompt = app.prompt /\ app'.interrupted = app.interrupted
         /\ app'.compacting = app.compacting
         /\ app'.compactPending = app.compactPending
         /\ app'.resumeReady = app.resumeReady
         /\ \E m \in app.choice :
              \/ /\ app'.queue = Append(app.queue, m) /\ inbox' = inbox \o <<>>
                 /\ app'.interruptPending = app.interruptPending
              \/ /\ app'.queue = app.queue /\ inbox' = inbox \o <<Cancel>>
                 /\ app'.interruptPending = {m}
              \/ /\ app'.queue = app.queue /\ inbox' = inbox \o <<>>
                 /\ app'.interruptPending = app.interruptPending
<1> DEFINE Same == /\ ui = "keys"
                   /\ UNCHANGED <<agentVars, ui, outcome, tasks, astray, typed>>
                   /\ app' \in AppRec /\ app'.choice = {}
                   /\ app'.processing = app.processing
                   /\ app'.prompt = app.prompt /\ app'.interrupted = app.interrupted
                   /\ app'.compacting = app.compacting
                   /\ app'.compactPending = app.compactPending
                   /\ app'.resumeReady = app.resumeReady
           Queues(m) == /\ app'.queue = Append(app.queue, m) /\ inbox' = inbox \o <<>>
                        /\ app'.interruptPending = app.interruptPending
           Breaks(m) == /\ app'.queue = app.queue /\ inbox' = inbox \o <<Cancel>>
                        /\ app'.interruptPending = {m}
           Drops == /\ app'.queue = app.queue /\ inbox' = inbox \o <<>>
                    /\ app'.interruptPending = app.interruptPending
<1> SUFFICES Same /\ \E m \in app.choice : Queues(m) \/ Breaks(m) \/ Drops
  OBVIOUS
<1> HIDE DEF Same, Queues, Breaks, Drops
<1>1. PICK m \in app.choice : m = CHOOSE n \in app.choice : TRUE
  BY DEF Choose
<1>a. m \in Texts /\ app.choice \in SUBSET Texts /\ app.queue \in Seq(Texts)
  BY DEF AppRec
<1>b. Append(app.queue, m) \in Seq(Texts)
  BY <1>a
<1> DEFINE a == [app EXCEPT !.choice = {}]
<1>2. /\ typed' = typed
      /\ \/ Key(Become(Now, [a EXCEPT !.queue = Append(@, m)]))
         \/ Key(Send(Become(Now, [a EXCEPT !.interruptPending = {m},
                                           !.indicator = FALSE]), Cancel))
         \/ Key(Become(Now, a))
  BY <1>1, Zenon DEF Choose
<1>3. CASE Key(Become(Now, [a EXCEPT !.queue = Append(@, m)]))
  <2> DEFINE b == [a EXCEPT !.queue = Append(@, m)]
  <2>1. app' = b /\ inbox' = inbox \o <<>> /\ ui = "keys"
        /\ UNCHANGED <<agentVars, ui, outcome, tasks, astray>>
    <3> HIDE DEF b
    <3> QED
      BY <1>3, Edits, Keyed DEF b
  <2> QED
    BY <1>a, <1>b, <1>2, <2>1 DEF Same, Queues, AppRec
<1>4. CASE Key(Send(Become(Now, [a EXCEPT !.interruptPending = {m},
                                          !.indicator = FALSE]), Cancel))
  <2> DEFINE b == [a EXCEPT !.interruptPending = {m}, !.indicator = FALSE]
  <2>1. app' = b /\ inbox' = inbox \o <<Cancel>> /\ ui = "keys"
        /\ UNCHANGED <<agentVars, ui, outcome, tasks, astray>>
    <3>1. Key(Send(Become(Now, b), Cancel))
      BY <1>4
    <3> HIDE DEF b
    <3>2. Send(Become(Now, b), Cancel) = [app |-> b, send |-> <<Cancel>>]
      <4>1. Append(<<>>, Cancel) = <<Cancel>>
        OBVIOUS
      <4>2. Become(Now, b) = [app |-> b, send |-> <<>>]
        BY Edits
      <4>3. [app |-> b, send |-> <<>>].app = b
            /\ [app |-> b, send |-> <<>>].send = <<>>
        OBVIOUS
      <4> QED
        BY <4>1, <4>2, <4>3, Zenon DEF Send
    <3> QED
      BY <3>1, <3>2, Keyed
  <2> QED
    BY <1>a, <1>2, <2>1 DEF Same, Breaks, AppRec
<1>5. CASE Key(Become(Now, a))
  <2>1. app' = a /\ inbox' = inbox \o <<>> /\ ui = "keys"
        /\ UNCHANGED <<agentVars, ui, outcome, tasks, astray>>
    <3> HIDE DEF a
    <3> QED
      BY <1>5, Edits, Keyed
  <2> QED
    BY <1>a, <1>2, <2>1 DEF Same, Drops, AppRec
<1> QED
  BY <1>2, <1>3, <1>4, <1>5, Zenon
(* A message in the popup is queued, interrupts, or is dropped.             *)
LEMMA Decides ==
  ASSUME Still, NEW T \in SUBSET Texts, NEW M \in SUBSET Texts, Sees(T, M),
         NEW k, Choose(k)
  PROVE  Still' /\ Sees(T, M)'
<1>1. /\ app \in AppRec /\ inbox \in Seq(InMsg) /\ app.choice \in SUBSET Texts
      /\ app.queue \in Seq(Texts) /\ typed \in SUBSET Texts
  BY DEF Still, Shape, AppRec
<1>2. /\ ui = "keys" /\ UNCHANGED <<agentVars, ui, outcome, tasks, astray, typed>>
      /\ app' \in AppRec /\ app'.choice = {} /\ app'.processing = app.processing
      /\ app'.prompt = app.prompt /\ app'.interrupted = app.interrupted
      /\ app'.compacting = app.compacting
      /\ app'.compactPending = app.compactPending
      /\ app'.resumeReady = app.resumeReady
  BY <1>1, Chooses
<1>3. PICK m \in app.choice :
              \/ /\ app'.queue = Append(app.queue, m) /\ inbox' = inbox \o <<>>
                 /\ app'.interruptPending = app.interruptPending
              \/ /\ app'.queue = app.queue /\ inbox' = inbox \o <<Cancel>>
                 /\ app'.interruptPending = {m}
              \/ /\ app'.queue = app.queue /\ inbox' = inbox \o <<>>
                 /\ app'.interruptPending = app.interruptPending
  BY <1>1, Chooses
<1>4. inbox \o <<>> = inbox
  BY <1>1, Nothing
<1>5. Calm'
  BY <1>2 DEF Still, Calm
<1>6. Still' /\ Stage(T, M)'
  <2>1. inbox' = inbox \/ inbox' = inbox \o <<Cancel>>
    BY <1>3, <1>4
  <2>2. outcome' \in [queued : BOOLEAN, interrupt : SUBSET Texts, low : BOOLEAN,
                      summarize : BOOLEAN]
    BY <1>2 DEF Still, Shape
  <2> QED
    BY <1>1, <1>2, <1>5, <2>1, <2>2, Retouched DEF Sees
<1>7. Fresh(T, M)'
  <2>1. /\ T \cup M \cup Unsaid \subseteq typed /\ Unsaid \cap (T \cup M) = {}
        /\ app.choice \cap (Queued \cup app.interruptPending \cup outcome.interrupt) = {}
        /\ Queued \cap (app.interruptPending \cup outcome.interrupt) = {}
        /\ app.interruptPending \cap outcome.interrupt = {}
        /\ \A i, j \in DOMAIN app.queue : app.queue[i] = app.queue[j] => i = j
    BY DEF Sees, Fresh
  <2>2. CASE app'.queue = app.queue /\ app'.interruptPending \in {app.interruptPending, {m}}
    <3>1. Queued' = Queued
      BY <2>2 DEF Queued
    <3> QED
      BY <1>2, <2>1, <2>2, <3>1 DEF Fresh, Unsaid
  <2>3. CASE /\ app'.queue = Append(app.queue, m)
             /\ app'.interruptPending = app.interruptPending
    <3>1. /\ DOMAIN app'.queue = 1..Len(app.queue) + 1 /\ Len(app.queue) \in Nat
          /\ DOMAIN app.queue = 1..Len(app.queue)
          /\ app'.queue[Len(app.queue) + 1] = m
          /\ \A i \in DOMAIN app.queue : app'.queue[i] = app.queue[i]
      BY <1>1, <2>3
    <3>2. /\ \A i \in DOMAIN app.queue : i \in DOMAIN app'.queue
          /\ Len(app.queue) + 1 \in DOMAIN app'.queue
          /\ \A i \in DOMAIN app'.queue : i \in DOMAIN app.queue \/ i = Len(app.queue) + 1
      BY <3>1
    <3>3. \A i \in DOMAIN app.queue : app.queue[i] # m
      BY <2>1 DEF Queued
    <3>4. Queued' = Queued \cup {m}
      <4>1. \A i \in DOMAIN app'.queue : app'.queue[i] \in Queued \cup {m}
        BY <3>1, <3>2 DEF Queued
      <4>2. Queued \cup {m} \subseteq Queued'
        BY <3>1, <3>2 DEF Queued
      <4> QED
        BY <4>1, <4>2 DEF Queued
    <3>5. \A i, j \in DOMAIN app'.queue : app'.queue[i] = app'.queue[j] => i = j
      BY <2>1, <3>1, <3>2, <3>3
    <3> QED
      BY <1>2, <2>1, <2>3, <3>4, <3>5 DEF Fresh, Unsaid
  <2> QED
    BY <1>3, <2>2, <2>3
<1> QED
  BY <1>6, <1>7 DEF Sees

(* What is typed is said at once, or put to the user.                       *)
LEMMA Types ==
  ASSUME Patient, Still, NEW T \in SUBSET Texts, NEW M \in SUBSET Texts, Sees(T, M),
         NEW m \in Texts, Type(m)
  PROVE  /\ Still'
         /\ \E T2, M2 \in SUBSET Texts : Sees(T2, M2)' /\ Taking(T, M, T2, M2)
<1>1. /\ app \in AppRec /\ inbox \in Seq(InMsg) /\ m \notin typed
      /\ typed \in SUBSET Texts /\ typed' = typed \cup {m} /\ app.choice = {}
      /\ m \notin Commands /\ typed' \in SUBSET Texts
  BY DEF Still, Shape, Type, Patient
<1>2. m \notin M /\ m \notin T /\ m \notin Unsaid
  BY <1>1 DEF Sees, Fresh
<1>3. CASE app.processing \/ app.indicator
  <2> DEFINE a == [app EXCEPT !.choice = {m}]
  <2>2. Key(Become(Now, a))
    BY <1>3, Zenon DEF Type
  <2> HIDE DEF a
  <2>3. Become(Now, a) = [app |-> a, send |-> <<>>]
    BY Edits
  <2>4. app' = a /\ inbox' = inbox \o <<>> /\ ui = "keys"
        /\ UNCHANGED <<agentVars, ui, outcome, tasks, astray>>
    BY <2>2, <2>3, Keyed, Zenon
  <2>5. inbox' = inbox
    BY <1>1, <2>4, Nothing
  <2>6. /\ app' \in AppRec /\ app'.choice = {m} /\ app'.processing = app.processing
        /\ app'.prompt = app.prompt /\ app'.interrupted = app.interrupted
        /\ app'.compacting = app.compacting /\ app'.queue = app.queue
        /\ app'.interruptPending = app.interruptPending
        /\ app'.compactPending = app.compactPending
        /\ app'.resumeReady = app.resumeReady
    BY <1>1, <2>4 DEF a, AppRec
  <2>7. Calm'
    BY <2>4, <2>6 DEF Still, Calm
  <2>8. Still' /\ Stage(T, M)'
    <3>1. outcome' \in [queued : BOOLEAN, interrupt : SUBSET Texts, low : BOOLEAN,
                        summarize : BOOLEAN]
      BY <2>4 DEF Still, Shape
    <3> QED
      BY <1>1, <2>4, <2>5, <2>6, <2>7, <3>1, Retouched DEF Sees
  <2>9. Fresh(T, M)'
    <3>1. Queued' = Queued
      BY <2>6 DEF Queued
    <3> QED
      BY <1>1, <1>2, <2>4, <2>6, <3>1 DEF Sees, Fresh, Unsaid
  <2> QED
    BY <2>8, <2>9 DEF Sees, Taking
<1>4. CASE ~ (app.processing \/ app.indicator)
  <2> DEFINE a == [app EXCEPT !.interrupted = FALSE]
             b == [a EXCEPT !.processing = TRUE, !.indicator = TRUE]
  <2>2. Key(Say(Become(Now, a), m))
    BY <1>1, <1>4, Zenon DEF Type
  <2> HIDE DEF a
  <2>4. Say(Become(Now, a), m) = [app |-> b, send |-> <<Input(m)>>]
    BY Edits, Saying
  <2> HIDE DEF b
  <2>5. app' = b /\ inbox' = inbox \o <<Input(m)>> /\ ui = "keys"
        /\ UNCHANGED <<agentVars, ui, outcome, tasks, astray>>
    BY <2>2, <2>4, Keyed, Zenon
  <2>6. /\ app' \in AppRec /\ app'.choice = app.choice /\ app'.processing = TRUE
        /\ app'.prompt = app.prompt /\ app'.interrupted = FALSE
        /\ app'.compacting = app.compacting /\ app'.queue = app.queue
        /\ app'.interruptPending = app.interruptPending
        /\ app'.compactPending = app.compactPending
        /\ app'.resumeReady = app.resumeReady
    BY <1>1, <2>5 DEF a, b, AppRec
  <2>7. outcome' = NoOutcome
    BY <2>5 DEF Still, Calm
  <2>8. Fresh({m}, M)'
    <3>1. Queued' = Queued
      BY <2>6 DEF Queued
    <3> QED
      BY <1>1, <1>2, <2>5, <2>6, <3>1 DEF Sees, Fresh, Unsaid
  <2>9. /\ ~ app'.compacting /\ ~ app'.compactPending /\ ~ app'.resumeReady
    BY <2>6 DEF Still, Calm
  <2>10. Still' /\ {m} \in SUBSET Texts /\ Sees({m}, M)' /\ Taking(T, M, {m}, M)
    BY <1>1, <1>2, <1>4, <2>5, <2>6, <2>7, <2>8, <2>9, Says DEF Sees
  <2> QED
    BY <2>10
<1> QED
  BY <1>3, <1>4
(* The answer to the prompt is sent, and perhaps a cancellation.            *)
LEMMA Replies ==
  ASSUME NEW k, AnswerPrompt(k), app \in AppRec
  PROVE  /\ ui = "keys" /\ UNCHANGED <<agentVars, ui, outcome, tasks, astray, typed>>
         /\ app' \in AppRec /\ app'.prompt = {} /\ app'.choice = app.choice
         /\ app'.queue = app.queue /\ app'.interruptPending = app.interruptPending
         /\ app'.processing = app.processing /\ app'.interrupted = app.interrupted
         /\ app'.compacting = app.compacting
         /\ app'.compactPending = app.compactPending
         /\ app'.resumeReady = app.resumeReady
         /\ \E q \in app.prompt, a \in {"yes", "no"} :
              \/ inbox' = inbox \o <<Answer(a, q)>>
              \/ inbox' = inbox \o Append(<<Answer(a, q)>>, Cancel)
<1>1. PICK q \in app.prompt : q = CHOOSE n \in app.prompt : TRUE
  BY DEF AnswerPrompt
<1> DEFINE b == [app EXCEPT !.prompt = {}]
           c == [b EXCEPT !.indicator = FALSE]
<1>2. Answered = [app |-> b, send |-> <<>>]
  <2> HIDE DEF b
  <2> QED
    BY Edits DEF Answered, b
<1>3. PICK u : u = Become(Answered, [Answered.app EXCEPT !.indicator = FALSE])
  OBVIOUS
<1>4. u = [app |-> c, send |-> <<>>]
  <2>1. Answered.app = b /\ Answered.send = <<>>
    <3> HIDE DEF b
    <3> QED
      BY <1>2
  <2> HIDE DEF b
  <2>2. [Answered.app EXCEPT !.indicator = FALSE] = c
    BY <2>1, Zenon
  <2> HIDE DEF c
  <2> QED
    BY <1>3, <2>1, <2>2 DEF Become
<1>5. /\ typed' = typed
      /\ \/ \E a \in {"yes", "no"} : Key(Send(Answered, Answer(a, q)))
         \/ Key(Send(Send(u, Answer("no", q)), Cancel))
  BY <1>1, <1>3, Zenon DEF AnswerPrompt
<1>6. ASSUME NEW x PROVE Append(<<>>, x) = <<x>>
  OBVIOUS
<1>7. ASSUME NEW a \in {"yes", "no"}, Key(Send(Answered, Answer(a, q)))
      PROVE  /\ app' = b /\ inbox' = inbox \o <<Answer(a, q)>> /\ ui = "keys"
             /\ UNCHANGED <<agentVars, ui, outcome, tasks, astray>>
  <2> HIDE DEF b
  <2>1. Send(Answered, Answer(a, q)) = [app |-> b, send |-> <<Answer(a, q)>>]
    BY <1>2, <1>6, Sent
  <2> QED
    BY <1>7, <2>1, Keyed, Zenon
<1>8. ASSUME Key(Send(Send(u, Answer("no", q)), Cancel))
      PROVE  /\ app' = c /\ ui = "keys"
             /\ inbox' = inbox \o Append(<<Answer("no", q)>>, Cancel)
             /\ UNCHANGED <<agentVars, ui, outcome, tasks, astray>>
  <2> HIDE DEF c
  <2>1. Send(u, Answer("no", q)) = [app |-> c, send |-> <<Answer("no", q)>>]
    BY <1>4, <1>6, Sent
  <2>2. PICK v : v = Send(u, Answer("no", q))
    OBVIOUS
  <2>w. PICK w : w = <<Answer("no", q)>>
    OBVIOUS
  <2>v. v = [app |-> c, send |-> w]
    BY <2>1, <2>2, <2>w, Zenon
  <2>s. Send(v, Cancel) = [app |-> c, send |-> Append(w, Cancel)]
    BY <2>v, Sent
  <2>3. Send(v, Cancel) = [app |-> c, send |-> Append(<<Answer("no", q)>>, Cancel)]
    BY <2>w, <2>s, Zenon
  <2> QED
    BY <1>8, <2>2, <2>3, Keyed, Zenon
<1>9. b \in AppRec /\ c \in AppRec
  BY DEF AppRec
<1>10. CASE \E a \in {"yes", "no"} : Key(Send(Answered, Answer(a, q)))
  BY <1>5, <1>7, <1>9, <1>10 DEF AppRec
<1>11. CASE Key(Send(Send(u, Answer("no", q)), Cancel))
  <2>1. \E p \in app.prompt, a \in {"yes", "no"} :
              \/ inbox' = inbox \o <<Answer(a, p)>>
              \/ inbox' = inbox \o Append(<<Answer(a, p)>>, Cancel)
    <3>1. "no" \in {"yes", "no"}
      OBVIOUS
    <3> QED
      BY <1>8, <1>11, <3>1
  <2>2. /\ app' = c /\ ui = "keys"
        /\ UNCHANGED <<agentVars, ui, outcome, tasks, astray>>
    BY <1>8, <1>11
  <2>3. /\ app' \in AppRec /\ app'.prompt = {} /\ app'.choice = app.choice
        /\ app'.queue = app.queue /\ app'.interruptPending = app.interruptPending
        /\ app'.processing = app.processing /\ app'.interrupted = app.interrupted
        /\ app'.compacting = app.compacting
        /\ app'.compactPending = app.compactPending
        /\ app'.resumeReady = app.resumeReady
    BY <1>9, <2>2 DEF AppRec
  <2>4. UNCHANGED <<agentVars, ui, outcome, tasks, astray, typed>>
    BY <1>5, <2>2
  <2> QED
    BY <2>1, <2>2, <2>3, <2>4, Zenon
<1> QED
  BY <1>5, <1>10, <1>11, Zenon

LEMMA Allows ==
  ASSUME Still, NEW T \in SUBSET Texts, NEW M \in SUBSET Texts, Sees(T, M),
         NEW k, AnswerPrompt(k)
  PROVE  Still' /\ Sees(T, M)'
<1>1. /\ app \in AppRec /\ inbox \in Seq(InMsg) /\ app.prompt \in SUBSET Question
      /\ app.prompt # {}
  BY DEF Still, Shape, AppRec, AnswerPrompt
<1>2. /\ ui = "keys" /\ UNCHANGED <<agentVars, ui, outcome, tasks, astray, typed>>
      /\ app' \in AppRec /\ app'.prompt = {} /\ app'.choice = app.choice
      /\ app'.queue = app.queue /\ app'.interruptPending = app.interruptPending
      /\ app'.processing = app.processing /\ app'.interrupted = app.interrupted
      /\ app'.compacting = app.compacting
      /\ app'.compactPending = app.compactPending
      /\ app'.resumeReady = app.resumeReady
  BY <1>1, Replies
<1>3. PICK q \in app.prompt, a \in {"yes", "no"} :
              \/ inbox' = inbox \o <<Answer(a, q)>>
              \/ inbox' = inbox \o Append(<<Answer(a, q)>>, Cancel)
  BY <1>1, Replies
<1>4. PICK h \in DOMAIN gens :
        /\ pendingApproval = {h} /\ gens[h].pc = "approve"
        /\ gens[h].answer = "none" /\ Asking(h, Asked(h))
  BY <1>1 DEF Still, Approval, NobodyAsks
<1>5. /\ None(out, "RequestApproval") /\ app.prompt = {Asked(h)}
      /\ None(inbox, "ApprovalResponse") /\ Len(tasks) = 0
  BY <1>1, <1>4 DEF Asking
<1>6. q = Asked(h)
  BY <1>5
<1> DEFINE x == Answer(a, q)
<1>7. /\ x \in InMsg /\ x.kind = "ApprovalResponse" /\ Cancel \in InMsg
      /\ Cancel.kind = "Cancel" /\ "Cancel" # "UserInput"
      /\ "ApprovalResponse" # "UserInput" /\ "Cancel" # "ApprovalResponse"
  BY <1>1 DEF InMsg, Answer, Cancel
<1> HIDE DEF x
<1>8. /\ inbox' \in Seq(InMsg) /\ Only(inbox', "ApprovalResponse", x)
      /\ None(inbox, "UserInput") => None(inbox', "UserInput")
      /\ \A y : Only(inbox, "UserInput", y) => Only(inbox', "UserInput", y)
  <2> DEFINE s == inbox \o <<x>>
  <2>1. /\ s \in Seq(InMsg) /\ Only(s, "ApprovalResponse", x)
        /\ None(inbox, "UserInput") => None(s, "UserInput")
        /\ \A y : Only(inbox, "UserInput", y) => Only(s, "UserInput", y)
    BY <1>1, <1>5, <1>7, AppendMsg
  <2>2. CASE inbox' = s
    BY <2>1, <2>2
  <2>3. CASE inbox' = s \o <<Cancel>>
    <3> HIDE DEF s
    <3>1. /\ s \o <<Cancel>> \in Seq(InMsg)
          /\ Only(s \o <<Cancel>>, "ApprovalResponse", x)
          /\ None(s, "UserInput") => None(s \o <<Cancel>>, "UserInput")
          /\ \A y : Only(s, "UserInput", y) => Only(s \o <<Cancel>>, "UserInput", y)
      BY <1>7, <2>1, AppendMsg
    <3> QED
      BY <2>1, <2>3, <3>1
  <2>4. inbox \o Append(<<x>>, Cancel) = s \o <<Cancel>>
    BY <1>1, <1>7
  <2> QED
    BY <1>3, <2>2, <2>3, <2>4 DEF x
<1>9. Shape'
  BY <1>2, <1>8 DEF Still, Shape, agentVars
<1>10. Calm'
  BY <1>2 DEF Still, Calm
<1>11. Cancels' /\ NotAsked'
  BY <1>2 DEF Still, Cancels, NotAsked, AtWork, Live, agentVars
<1>12. Approval'
  <2>1. Asked(h)' = Asked(h)
    BY <1>2 DEF Asked, agentVars
  <2>2. Asking(h, Asked(h))'
    BY <1>2, <1>5, <1>6, <1>8, <2>1 DEF Asking, agentVars, x
  <2> QED
    BY <1>2, <1>4, <2>2 DEF Approval, Still, agentVars
<1>13. NoLive' = NoLive /\ \A g : SoleLive(g)' = SoleLive(g)
  BY <1>2 DEF NoLive, SoleLive, Live, agentVars
<1>14. Stage(T, M)'
  BY <1>2, <1>8, <1>13 DEF Sees, Stage, AtRest, OnItsWay, Waiting, Working,
     Reported, agentVars
<1>15. Fresh(T, M)'
  BY <1>2 DEF Sees, Fresh, Unsaid, Queued
<1> QED
  BY <1>9, <1>10, <1>11, <1>12, <1>14, <1>15 DEF Still, Sees

LEMMA Ticks ==
  ASSUME Still, NEW T \in SUBSET Texts, NEW M \in SUBSET Texts, Sees(T, M), NextTick
  PROVE  Still' /\ Sees(T, M)'
<1>1. /\ UNCHANGED <<agentVars, app, outcome, inbox, tasks, typed, astray>>
      /\ ui' = "drain"
  BY DEF NextTick
<1>2. Calm'
  BY <1>1 DEF Still, Calm
<1>3. Still' /\ Stage(T, M)'
  BY <1>1, <1>2, Retouched DEF Still, Shape, Sees
<1>4. Fresh(T, M)'
  BY <1>1 DEF Sees, Fresh, Unsaid, Queued
<1> QED
  BY <1>3, <1>4 DEF Sees
-----------------------------------------------------------------------------
(* Whatever happens, the turn takes a step or none.                         *)
LEMMA Steps ==
  ASSUME Patient, Still, NEW T \in SUBSET Texts, NEW M \in SUBSET Texts, Sees(T, M),
         [Next]_vars
  PROVE  /\ Still'
         /\ \E T2, M2 \in SUBSET Texts : Sees(T2, M2)' /\ Taking(T, M, T2, M2)
<1>1. Still' /\ Sees(T, M)' =>
        \E T2, M2 \in SUBSET Texts : Sees(T2, M2)' /\ Taking(T, M, T2, M2)
  BY DEF Taking
<1>2. CASE Receive
  BY <1>1, <1>2, Receives
<1>3. ASSUME NEW i \in DOMAIN tasks, Synchronise(i) \/ DeliverAnswer(i)
      PROVE  Still' /\ Sees(T, M)'
  BY <1>3, Delivers
<1>4. ASSUME NEW g \in DOMAIN gens, Work(g)
      PROVE  /\ Still'
             /\ \E T2, M2 \in SUBSET Texts : Sees(T2, M2)' /\ Taking(T, M, T2, M2)
  BY <1>4, Generates
<1>5. CASE Drain
  BY <1>5, Drains
<1>6. CASE Pending
  BY <1>6, Resolves
<1>7. CASE NextTick
  BY <1>1, <1>7, Ticks
<1>8. ASSUME NEW m \in Texts, Type(m)
      PROVE  /\ Still'
             /\ \E T2, M2 \in SUBSET Texts : Sees(T2, M2)' /\ Taking(T, M, T2, M2)
  BY <1>8, Types
<1>9. ASSUME NEW k \in Keys, Choose(k) \/ AnswerPrompt(k)
      PROVE  Still' /\ Sees(T, M)'
  BY <1>9, Decides, Allows
<1>10. ~ Esc
  BY DEF Esc, Patient
<1>11. CASE UNCHANGED vars
  <2>1. Still'
    BY <1>11 DEF vars, agentVars, Still, Shape, Calm, Approval, NobodyAsks, Asking,
       Asked, Cancels, NotAsked, AtWork, Live
  <2>2. NoLive' = NoLive /\ \A g : SoleLive(g)' = SoleLive(g)
    BY <1>11 DEF vars, agentVars, NoLive, SoleLive, Live
  <2>3. Sees(T, M)'
    BY <1>11, <2>2 DEF vars, agentVars, Sees, Stage, AtRest, OnItsWay, Waiting,
       Working, Reported, Fresh, Unsaid, Queued
  <2> QED
    BY <1>1, <2>1, <2>3
<1> QED
  BY <1>1, <1>2, <1>3, <1>4, <1>5, <1>6, <1>7, <1>8, <1>9, <1>10, <1>11
  DEF Next, Presses

(* What is seen of the turn, now and after a step.                          *)
Views == \A T, M \in SUBSET Texts :
           Still /\ Sees(T, M) => T = UnderWay /\ M = Known

LEMMA Viewed == Views
BY View DEF Views

LEMMA ViewedNext == Views'
BY Viewed, PTL

LEMMA InvStep ==
  ASSUME Patient, Inv, [Next]_vars
  PROVE  Inv' /\ [Taken!Next]_<<UnderWay, Known>>
<1>1. PICK T, M \in SUBSET Texts : Sees(T, M)
  BY DEF Inv
<1>2. Still /\ T = UnderWay /\ M = Known
  BY <1>1, Viewed DEF Inv, Views
<1>3. PICK T2, M2 \in SUBSET Texts : Still' /\ Sees(T2, M2)' /\ Taking(T, M, T2, M2)
  BY <1>1, <1>2, Steps
<1>4. T2 = UnderWay' /\ M2 = Known'
  BY <1>3, ViewedNext DEF Views
<1>5. Inv'
  BY <1>3 DEF Inv
<1>6. [Taken!Next]_<<UnderWay, Known>>
  BY <1>2, <1>3, <1>4
  DEF Taking, Taken!Next, Taken!Ask, Taken!Hear, Taken!Answer
<1> QED
  BY <1>5, <1>6

LEMMA SpecInv == ASSUME Patient PROVE Spec => []Inv
<1>1. Init => Inv
  BY InitInv DEF Inv
<1>2. Inv /\ [Next]_vars => Inv'
  BY InvStep
<1> QED
  BY <1>1, <1>2, PTL DEF Spec

-----------------------------------------------------------------------------
(* How many messages of a kind there are.                                   *)
LEMMA Counted ==
  ASSUME NEW s, NEW k
  PROVE  /\ None(s, k) => Cardinality({i \in DOMAIN s : s[i].kind = k}) = 0
         /\ \A y : Only(s, k, y) => Cardinality({i \in DOMAIN s : s[i].kind = k}) = 1
<1> DEFINE I == {i \in DOMAIN s : s[i].kind = k}
<1>1. None(s, k) => I = {}
  BY DEF None
<1>2. \A y : Only(s, k, y) => \E i : I = {i}
  BY DEF Only
<1> HIDE DEF I
<1>3. Cardinality({}) = 0 /\ \A i : Cardinality({i}) = 1
  BY FS_EmptySet, FS_Singleton
<1> QED
  BY <1>1, <1>2, <1>3 DEF I

LEMMA TurnCount ==
  ASSUME NEW T \in SUBSET Texts, NEW M \in SUBSET Texts, Still, Sees(T, M)
  PROVE  OneTurn
<1> DEFINE L == Cardinality({g \in DOMAIN gens : Live(g)})
<1>1. /\ None(inbox, "UserInput") => Inputs = 0
      /\ \A y : Only(inbox, "UserInput", y) => Inputs = 1
      /\ None(out, "Done") => Dones = 0
      /\ \A y : Only(out, "Done", y) => Dones = 1
  BY Counted DEF Inputs, Dones
<1>2. Cardinality({}) = 0 /\ \A i : Cardinality({i}) = 1
  BY FS_EmptySet, FS_Singleton
<1>3. NoLive => L = 0
  <2>1. NoLive => {g \in DOMAIN gens : Live(g)} = {}
    BY DEF NoLive
  <2> QED
    BY <1>2, <2>1
<1>4. \A h \in DOMAIN gens : SoleLive(h) => L = 1
  <2>1. \A h \in DOMAIN gens : SoleLive(h) => {g \in DOMAIN gens : Live(g)} = {h}
    BY DEF SoleLive
  <2> QED
    BY <1>2, <2>1
<1> HIDE DEF L
<1>5. Inputs + L + Dones = IF app.processing THEN 1 ELSE 0
  <2>1. CASE AtRest(T, M)
    BY <1>1, <1>3, <2>1 DEF AtRest
  <2>2. ASSUME NEW p \in Texts, OnItsWay(p, T, M)
        PROVE  Inputs + L + Dones = IF app.processing THEN 1 ELSE 0
    BY <1>1, <1>3, <2>2 DEF OnItsWay
  <2>3. ASSUME NEW g \in DOMAIN gens, Waiting(g, T, M) \/ Working(g, T, M)
        PROVE  Inputs + L + Dones = IF app.processing THEN 1 ELSE 0
    BY <1>1, <1>4, <2>3 DEF Waiting, Working
  <2>4. ASSUME NEW g \in DOMAIN gens, Reported(g, T, M)
        PROVE  Inputs + L + Dones = IF app.processing THEN 1 ELSE 0
    BY <1>1, <1>3, <2>4 DEF Reported
  <2> QED
    BY <2>1, <2>2, <2>3, <2>4 DEF Sees, Stage
<1> QED
  BY <1>5 DEF OneTurn, L

-----------------------------------------------------------------------------
(* App and agent share one turn: a message on its way, a generation or a    *)
(* Done that is not yet read, exactly while agent_processing is set.        *)
THEOREM OneTurnCorrect == ASSUME Patient PROVE Spec => []OneTurn
<1>1. Inv => OneTurn
  BY TurnCount DEF Inv
<1> QED
  BY <1>1, SpecInv, PTL

(* A cancellation that found a generation at work leaves it at most one     *)
(* more request.                                                            *)
THEOREM CancelStopsCorrect == ASSUME Patient PROVE Spec => []CancelStops
<1>1. Inv => CancelStops
  BY DEF Inv, Still, Cancels, CancelStops
<1> QED
  BY <1>1, SpecInv, PTL

(* The user's answer reaches the command the prompt named.                  *)
THEOREM AnswersCorrect == ASSUME Patient PROVE Spec => []AnswersReachTheirCommand
<1>1. Inv => AnswersReachTheirCommand
  BY DEF Inv, Still, Approval, AnswersReachTheirCommand
<1> QED
  BY <1>1, SpecInv, PTL

(* App and agent implement the turn taking of Turns.                        *)
THEOREM RefinesTurnsCorrect == ASSUME Patient PROVE Spec => RefinesTurns
<1>1. Init => Taken!Init
  <2> SUFFICES ASSUME Init PROVE Taken!Init
    OBVIOUS
  <2>1. UnderWay = {} /\ Known = {}
    BY InitInv, Viewed DEF Views
  <2> QED
    BY <2>1 DEF Taken!Init
<1>2. Inv /\ [Next]_vars => [Taken!Next]_<<UnderWay, Known>>
  BY InvStep
<1> QED
  BY <1>1, <1>2, SpecInv, PTL DEF Spec, RefinesTurns, Taken!Spec
=============================================================================
