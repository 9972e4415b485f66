--------------------------- MODULE SpinnerProofs ---------------------------
(* Theorems about Chat: whatever fails, whatever the user types and         *)
(* presses, and however low the context runs. Only the last one leaves a    *)
(* fault out, and says which race it does not speak of.                     *)
EXTENDS Chat, FiniteSetTheorems, TLAPS

Prompts  == Texts \cup {Summary, Continue}
Question == Nat \X Nat

Gen == [prompt : Prompts, mem : SUBSET Prompts, left : 0..MaxCommands,
        pc : {"spawned", "request", "poll", "wait", "tool", "approve",
              "finish", "ended", "stopped", "failed"},
        answer : {"none", "yes", "no", "closed"},
        heard : BOOLEAN, cancelled : BOOLEAN, late : Nat]

InMsg == [kind : {"UserInput"}, prompt : Prompts]
           \cup [kind : {"Cancel", "ClearContext"}]
           \cup [kind : {"InjectContext"}, mem : SUBSET Prompts]
           \cup [kind : {"ApprovalResponse"}, answer : {"yes", "no"}, of : Question]

OutMsg == [kind : {"Text", "Done", "Error", "ContextCleared", "ContextInjected"},
           of : Nat]
            \cup [kind : {"RequestApproval"}, of : Question]

AppRec == [processing : BOOLEAN, interrupted : BOOLEAN, compacting : BOOLEAN,
           indicator : BOOLEAN, auto : BOOLEAN, compactPending : BOOLEAN,
           sync : BOOLEAN, inject : BOOLEAN, resume : BOOLEAN,
           resumeReady : BOOLEAN, interruptPending : SUBSET Texts,
           choice : SUBSET Texts, prompt : SUBSET Question, queue : Seq(Texts)]

AgentTyped ==
    /\ gens \in Seq(Gen) /\ out \in Seq(OutMsg)
    /\ conversation \in SUBSET SUBSET Prompts /\ cancelRequested \in BOOLEAN
    /\ pendingApproval \in SUBSET DOMAIN gens
    /\ \A i \in DOMAIN out : out[i].kind = "Done" => out[i].of \in DOMAIN gens
    /\ \A g \in DOMAIN gens : gens[g].pc \in {"tool", "approve"} => gens[g].left # 0

AppTyped ==
    /\ app \in AppRec /\ \A p, q \in app.prompt : p = q
    /\ ui \in {"drain", "keys"}
    /\ outcome \in [queued : BOOLEAN, interrupt : SUBSET Texts, low : BOOLEAN,
                    summarize : BOOLEAN]
    /\ inbox \in Seq(InMsg) /\ tasks \in Seq(InMsg)
    /\ typed \in SUBSET Texts /\ astray \in BOOLEAN

(* Something under way that ends the turn.                                  *)
Has(s, kinds) == \E i \in DOMAIN s : s[i].kind \in kinds
Busy == \/ Has(inbox, {"UserInput"})
        \/ \E g \in DOMAIN gens : Live(g)
        \/ Has(out, {"Done", "Error"})

(* The app never ignores what ends the turn it shows: it has either pressed *)
(* Esc or a turn, and what process_pending_actions is to say next was left  *)
(* by a Done that it did not ignore.                                        *)
Listens ==
    /\ app.processing => ~ app.interrupted
    /\ outcome.queued \/ outcome.interrupt # {} => ~ app.interrupted
    /\ ui = "keys" => outcome = NoOutcome

Inv == AgentTyped /\ AppTyped /\ Listens /\ (app.processing => Busy)

-----------------------------------------------------------------------------
LEMMA HasJoin ==
  ASSUME NEW S, NEW s \in Seq(S), NEW t \in Seq(S), NEW kinds
  PROVE  Has(s \o t, kinds) <=> Has(s, kinds) \/ Has(t, kinds)
<1> DEFINE r == s \o t
<1>1. /\ DOMAIN r = 1..Len(s) + Len(t) /\ DOMAIN s = 1..Len(s) /\ DOMAIN t = 1..Len(t)
      /\ Len(s) \in Nat /\ Len(t) \in Nat
  OBVIOUS
<1>2. /\ \A i \in DOMAIN s : i \in DOMAIN r /\ r[i] = s[i]
      /\ \A i \in DOMAIN t : Len(s) + i \in DOMAIN r /\ r[Len(s) + i] = t[i]
  OBVIOUS
<1>3. \A i \in DOMAIN r : \/ i \in DOMAIN s
                          \/ i - Len(s) \in DOMAIN t /\ Len(s) + (i - Len(s)) = i
  BY <1>1
<1> HIDE DEF r
<1>4. ASSUME Has(r, kinds) PROVE Has(s, kinds) \/ Has(t, kinds)
  <2>1. PICK i \in DOMAIN r : r[i].kind \in kinds
    BY <1>4 DEF Has
  <2>2. CASE i \in DOMAIN s
    BY <2>1, <2>2, <1>2 DEF Has
  <2>3. CASE i - Len(s) \in DOMAIN t /\ Len(s) + (i - Len(s)) = i
    <3>1. t[i - Len(s)] = r[i]
      BY <2>3, <1>2
    <3> QED
      BY <3>1, <2>1, <2>3 DEF Has
  <2> QED
    BY <1>3, <2>2, <2>3
<1>5. Has(s, kinds) \/ Has(t, kinds) => Has(r, kinds)
  BY <1>2 DEF Has
<1> QED
  BY <1>4, <1>5 DEF r

LEMMA HasTail ==
  ASSUME NEW S, NEW s \in Seq(S), s # <<>>, NEW kinds, Has(s, kinds),
         Head(s).kind \notin kinds
  PROVE  Has(Tail(s), kinds)
<1> DEFINE t == Tail(s)
<1>1. PICK i \in DOMAIN s : s[i].kind \in kinds
  BY DEF Has
<1>2. i # 1 /\ i - 1 \in DOMAIN t /\ t[i - 1] = s[i]
  <2>1. Head(s) = s[1] /\ DOMAIN s = 1..Len(s) /\ DOMAIN t = 1..Len(s) - 1
        /\ \A j \in DOMAIN t : t[j] = s[j + 1]
    OBVIOUS
  <2> QED
    BY <1>1, <2>1
<1> QED
  BY <1>1, <1>2 DEF Has

LEMMA HasOne ==
  ASSUME NEW x, NEW kinds
  PROVE  /\ Has(<<x>>, kinds) <=> x.kind \in kinds
         /\ ~ Has(<<>>, kinds)
BY DEF Has

LEMMA TailType ==
  ASSUME NEW S, NEW s \in Seq(S), s # <<>>
  PROVE  /\ Tail(s) \in Seq(S) /\ Head(s) \in S /\ 1 \in DOMAIN s /\ Head(s) = s[1]
         /\ \A i \in DOMAIN Tail(s) : i + 1 \in DOMAIN s /\ Tail(s)[i] = s[i + 1]
OBVIOUS

LEMMA Replaced ==
  ASSUME NEW S, NEW s \in Seq(S), NEW i \in DOMAIN s, NEW x \in S
  PROVE  /\ [s EXCEPT ![i] = x] \in Seq(S) /\ DOMAIN [s EXCEPT ![i] = x] = DOMAIN s
         /\ [s EXCEPT ![i] = x][i] = x
         /\ \A j \in DOMAIN s : j # i => [s EXCEPT ![i] = x][j] = s[j]
OBVIOUS

-----------------------------------------------------------------------------
(* A step of the agent that says msgs: it leaves the record of every        *)
(* generation one of its kind, and what ends tells of it.                   *)
LEMMA AgentSteps ==
  ASSUME AgentTyped, NEW msgs \in Seq(OutMsg), out' = out \o msgs,
         gens' \in Seq(Gen), DOMAIN gens' = DOMAIN gens,
         \A i \in DOMAIN msgs : msgs[i].kind = "Done" => msgs[i].of \in DOMAIN gens,
         \A g \in DOMAIN gens : gens'[g].pc \in {"tool", "approve"} => gens'[g].left # 0,
         \A g \in DOMAIN gens : gens[g].pc \notin Over =>
            gens'[g].pc \notin Over \/ Has(msgs, {"Done", "Error"}),
         conversation' \in SUBSET SUBSET Prompts, cancelRequested' \in BOOLEAN,
         pendingApproval' \in SUBSET DOMAIN gens
  PROVE  AgentTyped' /\ (inbox' = inbox /\ Busy => Busy')
<1>1. out' \in Seq(OutMsg)
  BY DEF AgentTyped
<1>2. ASSUME NEW i \in DOMAIN out', out'[i].kind = "Done"
      PROVE  out'[i].of \in DOMAIN gens'
  <2>1. /\ out \in Seq(OutMsg) /\ DOMAIN out' = 1..Len(out) + Len(msgs)
        /\ DOMAIN out = 1..Len(out) /\ DOMAIN msgs = 1..Len(msgs)
    BY DEF AgentTyped
  <2>2. CASE i \in DOMAIN out
    <3>1. out'[i] = out[i]
      BY <2>1, <2>2
    <3> QED
      BY <3>1, <1>2, <2>2 DEF AgentTyped
  <2>3. CASE i \notin DOMAIN out
    <3>1. i - Len(out) \in DOMAIN msgs /\ out'[i] = msgs[i - Len(out)]
      BY <2>1, <2>3
    <3> QED
      BY <3>1, <1>2
  <2> QED
    BY <2>2, <2>3
<1>3. AgentTyped'
  BY <1>1, <1>2 DEF AgentTyped
<1>4. ASSUME inbox' = inbox, Busy PROVE Busy'
  <2>1. /\ Has(out, {"Done", "Error"}) => Has(out', {"Done", "Error"})
        /\ Has(msgs, {"Done", "Error"}) => Has(out', {"Done", "Error"})
    BY HasJoin DEF AgentTyped
  <2>2. CASE Has(inbox, {"UserInput"})
    BY <1>4, <2>2 DEF Busy
  <2>3. ASSUME NEW g \in DOMAIN gens, Live(g) PROVE Busy'
    BY <2>1, <2>3 DEF Busy, Live
  <2>4. CASE Has(out, {"Done", "Error"})
    BY <2>1, <2>4 DEF Busy
  <2> QED
    BY <1>4, <2>2, <2>3, <2>4 DEF Busy
<1> QED
  BY <1>3, <1>4

(* A step of one generation.                                                *)
LEMMA GenSteps ==
  ASSUME AgentTyped, NEW g \in DOMAIN gens, NEW r \in Gen,
         gens' = [gens EXCEPT ![g] = r],
         NEW msgs \in Seq(OutMsg), out' = out \o msgs,
         \A i \in DOMAIN msgs : msgs[i].kind = "Done" => msgs[i].of \in DOMAIN gens,
         r.pc \in {"tool", "approve"} => r.left # 0,
         r.pc \in Over => Has(msgs, {"Done", "Error"}),
         conversation' \in SUBSET SUBSET Prompts, cancelRequested' \in BOOLEAN,
         pendingApproval' = pendingApproval
  PROVE  AgentTyped' /\ (inbox' = inbox /\ Busy => Busy')
<1>1. gens \in Seq(Gen) /\ pendingApproval \in SUBSET DOMAIN gens
      /\ \A h \in DOMAIN gens : gens[h].pc \in {"tool", "approve"} => gens[h].left # 0
  BY DEF AgentTyped
<1>2. /\ gens' \in Seq(Gen) /\ DOMAIN gens' = DOMAIN gens /\ gens'[g] = r
      /\ \A h \in DOMAIN gens : h # g => gens'[h] = gens[h]
  BY <1>1, Replaced
<1>3. /\ \A h \in DOMAIN gens : gens'[h].pc \in {"tool", "approve"} => gens'[h].left # 0
      /\ \A h \in DOMAIN gens : gens[h].pc \notin Over =>
            gens'[h].pc \notin Over \/ Has(msgs, {"Done", "Error"})
  BY <1>1, <1>2
<1> QED
  BY <1>1, <1>2, <1>3, AgentSteps

(* ... that says nothing.                                                   *)
LEMMA SilentSteps ==
  ASSUME AgentTyped, NEW g \in DOMAIN gens, NEW r \in Gen,
         gens' = [gens EXCEPT ![g] = r], out' = out,
         r.pc \in {"tool", "approve"} => r.left # 0, r.pc \notin Over,
         conversation' \in SUBSET SUBSET Prompts, cancelRequested' \in BOOLEAN,
         pendingApproval' = pendingApproval
  PROVE  AgentTyped' /\ (inbox' = inbox /\ Busy => Busy')
<1>1. <<>> \in Seq(OutMsg) /\ out' = out \o <<>> /\ DOMAIN <<>> = {}
  BY DEF AgentTyped
<1> QED
  BY <1>1, GenSteps

(* ... that says one thing.                                                 *)
LEMMA TellingSteps ==
  ASSUME AgentTyped, NEW g \in DOMAIN gens, NEW r \in Gen,
         gens' = [gens EXCEPT ![g] = r], NEW m \in OutMsg, Tell(<<m>>),
         m.kind = "Done" => m.of \in DOMAIN gens,
         r.pc \in {"tool", "approve"} => r.left # 0,
         r.pc \in Over => m.kind \in {"Done", "Error"},
         conversation' \in SUBSET SUBSET Prompts, cancelRequested' \in BOOLEAN,
         pendingApproval' = pendingApproval
  PROVE  AgentTyped' /\ (inbox' = inbox /\ Busy => Busy')
<1>1. <<m>> \in Seq(OutMsg) /\ DOMAIN <<m>> = {1} /\ <<m>>[1] = m
  OBVIOUS
<1>2. out' = out \o <<m>>
  BY DEF Tell
<1>3. r.pc \in Over => Has(<<m>>, {"Done", "Error"})
  BY HasOne
<1>4. \A i \in DOMAIN <<m>> : <<m>>[i].kind = "Done" => <<m>>[i].of \in DOMAIN gens
  BY <1>1
<1> HIDE <1>1
<1> QED
  BY <1>1, <1>2, <1>3, <1>4, GenSteps

(* A generation that goes from one place to the next.                       *)
LEMMA GotoSteps ==
  ASSUME AgentTyped, NEW g \in DOMAIN gens,
         NEW pc \in {"request", "poll", "wait", "tool", "finish", "ended",
                     "stopped", "failed"}, Goto(g, pc),
         pc = "tool" => gens[g].left # 0,
         NEW msgs \in Seq(OutMsg), out' = out \o msgs,
         \A i \in DOMAIN msgs : msgs[i].kind = "Done" => msgs[i].of \in DOMAIN gens,
         pc \in Over => Has(msgs, {"Done", "Error"}),
         conversation' \in SUBSET SUBSET Prompts, cancelRequested' \in BOOLEAN,
         pendingApproval' = pendingApproval
  PROVE  AgentTyped' /\ (inbox' = inbox /\ Busy => Busy')
<1> DEFINE r == [gens[g] EXCEPT !.pc = pc]
<1>1. gens[g] \in Gen
  BY DEF AgentTyped
<1>2. gens' = [gens EXCEPT ![g] = r]
  BY DEF Goto
<1>3. r \in Gen /\ r.pc = pc /\ r.left = gens[g].left
  BY <1>1 DEF Gen
<1> HIDE DEF r
<1>4. r.pc \in {"tool", "approve"} => r.left # 0
  BY <1>3
<1> QED
  BY <1>2, <1>3, <1>4, GenSteps

LEMMA SilentGoto ==
  ASSUME AgentTyped, NEW g \in DOMAIN gens,
         NEW pc \in {"poll", "wait", "tool", "finish"}, Goto(g, pc),
         pc = "tool" => gens[g].left # 0,
         UNCHANGED <<conversation, cancelRequested, pendingApproval, out>>
  PROVE  AgentTyped' /\ (inbox' = inbox /\ Busy => Busy')
<1>1. <<>> \in Seq(OutMsg) /\ out' = out \o <<>> /\ DOMAIN <<>> = {}
  BY DEF AgentTyped
<1>2. conversation' \in SUBSET SUBSET Prompts /\ cancelRequested' \in BOOLEAN
  BY DEF AgentTyped
<1> QED
  BY <1>1, <1>2, GotoSteps DEF Over

LEMMA TellingGoto ==
  ASSUME AgentTyped, NEW g \in DOMAIN gens,
         NEW pc \in {"tool", "finish", "ended", "stopped"}, Goto(g, pc),
         pc = "tool" => gens[g].left # 0,
         NEW kind \in {"Error", "Done"}, Tell(<<Msg(kind, g)>>),
         conversation' \in SUBSET SUBSET Prompts,
         UNCHANGED <<cancelRequested, pendingApproval>>
  PROVE  AgentTyped' /\ (inbox' = inbox /\ Busy => Busy')
<1> DEFINE m == Msg(kind, g)
<1>1. m \in OutMsg /\ m.kind = kind /\ m.of = g
  BY DEF AgentTyped, Msg, OutMsg
<1>2. out' = out \o <<m>>
  BY DEF Tell
<1> HIDE DEF m
<1>3. <<m>> \in Seq(OutMsg) /\ \A i \in DOMAIN <<m>> : <<m>>[i] = m
  BY <1>1
<1>4. Has(<<m>>, {"Done", "Error"})
  BY <1>1, HasOne
<1>5. cancelRequested' \in BOOLEAN
  BY DEF AgentTyped
<1>6. \A i \in DOMAIN <<m>> : <<m>>[i].kind = "Done" => <<m>>[i].of \in DOMAIN gens
  BY <1>1, <1>3
<1> QED
  BY <1>2, <1>3, <1>4, <1>5, <1>6, GotoSteps

(* run_generation, step by step.                                            *)
LEMMA Generates ==
  ASSUME AgentTyped, NEW g \in DOMAIN gens, inbox' = inbox,
         Generate(g) \/ RequestFails(g, <<Msg("Error", g), Msg("Done", g)>>)
  PROVE  AgentTyped' /\ (Busy => Busy')
<1> DEFINE G == gens[g]
<1>1. /\ G \in Gen /\ gens \in Seq(Gen) /\ out \in Seq(OutMsg) /\ g \in Nat
      /\ conversation \in SUBSET SUBSET Prompts /\ cancelRequested \in BOOLEAN
      /\ G.pc \in {"tool", "approve"} => G.left # 0
      /\ MaxCommands \in Nat
  BY AgentAssumption DEF AgentTyped
<1>2. /\ G.prompt \in Prompts /\ G.mem \in SUBSET Prompts /\ G.left \in 0..MaxCommands
      /\ G.late \in Nat
  BY <1>1 DEF Gen
<1>5. /\ Msg("Done", g) \in OutMsg /\ Msg("Error", g) \in OutMsg
      /\ Msg("Text", g) \in OutMsg
      /\ \A kind : Msg(kind, g).kind = kind /\ Msg(kind, g).of = g
  BY <1>1 DEF Msg, OutMsg
<1> HIDE DEF G
<1>6. CASE Begin(g)
  <2> DEFINE r == [G EXCEPT !.pc = "request", !.mem = (UNION conversation) \cup {G.prompt}]
  <2>1. gens' = [gens EXCEPT ![g] = r] /\ out' = out
        /\ conversation' = {} /\ cancelRequested' = FALSE
        /\ pendingApproval' = pendingApproval
    BY <1>6 DEF Begin, G
  <2>2. r \in Gen /\ r.pc = "request"
    BY <1>1, <1>2 DEF Gen
  <2> HIDE DEF r
  <2> QED
    BY <2>1, <2>2, SilentSteps DEF Over
<1>7. CASE Request(g)
  <2> DEFINE n == IF G.cancelled THEN G.late + 1 ELSE G.late
             r == [G EXCEPT !.pc = "poll", !.late = n]
  <2>1. gens' = [gens EXCEPT ![g] = r] /\ out' = out
        /\ conversation' = conversation /\ cancelRequested' = cancelRequested
        /\ pendingApproval' = pendingApproval
    BY <1>7 DEF Request, G
  <2>2. n \in Nat
    BY <1>2
  <2> HIDE DEF n
  <2>3. r \in Gen /\ r.pc = "poll"
    BY <1>1, <2>2 DEF Gen
  <2> HIDE DEF r
  <2> QED
    BY <1>1, <2>1, <2>3, SilentSteps DEF Over
<1>8. CASE CancelSeen(g)
  <2>1. Goto(g, "stopped") /\ Tell(<<Msg("Done", g)>>) /\ conversation' = {G.mem}
        /\ UNCHANGED <<cancelRequested, pendingApproval>>
    BY <1>8 DEF CancelSeen, G
  <2>2. conversation' \in SUBSET SUBSET Prompts
    BY <1>2, <2>1
  <2> QED
    BY <2>1, <2>2, TellingGoto
<1>9. CASE Poll(g) \/ Tick(g)
  <2>1. PICK pc \in {"poll", "wait"} : Goto(g, pc)
    BY <1>9 DEF Poll, Tick
  <2>2. UNCHANGED <<conversation, cancelRequested, pendingApproval, out>>
    BY <1>9 DEF Poll, Tick
  <2> QED
    BY <2>1, <2>2, SilentGoto
<1>10. CASE Chunk(g)
  <2> DEFINE r == [G EXCEPT !.pc = "poll", !.heard = TRUE]
  <2>1. gens' = [gens EXCEPT ![g] = r] /\ Tell(<<Msg("Text", g)>>)
        /\ conversation' = conversation /\ cancelRequested' = cancelRequested
        /\ pendingApproval' = pendingApproval
    BY <1>10 DEF Chunk, G
  <2>2. r \in Gen /\ r.pc = "poll"
    BY <1>1 DEF Gen
  <2> HIDE DEF r
  <2> QED
    BY <1>1, <1>5, <2>1, <2>2, TellingSteps DEF Over
<1>11. CASE StreamEnds(g)
  <2>1. PICK pc \in {"finish", "tool"} : Goto(g, pc) /\ (pc = "tool" => gens[g].left # 0)
    BY <1>2, <1>11 DEF StreamEnds, G
  <2>2. UNCHANGED <<conversation, cancelRequested, pendingApproval, out>>
    BY <1>11 DEF StreamEnds
  <2> QED
    BY <2>1, <2>2, SilentGoto
<1>12. CASE StreamErrors(g)
  <2>1. PICK pc \in {"finish", "tool"} : Goto(g, pc) /\ (pc = "tool" => gens[g].left # 0)
    BY <1>2, <1>12 DEF StreamErrors, G
  <2>2. Tell(<<Msg("Error", g)>>) /\ conversation' \in SUBSET SUBSET Prompts
        /\ UNCHANGED <<cancelRequested, pendingApproval>>
    BY <1>1, <1>12 DEF StreamErrors
  <2> QED
    BY <2>1, <2>2, TellingGoto
<1>13. CASE RunTool(g) \/ AnswerTaken(g)
  <2>1. ToolDone(g) /\ G.left \in 1..MaxCommands
    BY <1>1, <1>2, <1>13 DEF RunTool, AnswerTaken, At, G
  <2>2. PICK pc \in {"request"} \cup IF G.left > 1 THEN {"tool"} ELSE {} :
          gens' = [gens EXCEPT ![g].pc = pc, ![g].answer = "none",
                               ![g].left = @ - 1]
    BY <2>1 DEF ToolDone, G
  <2> DEFINE n == G.left - 1
             r == [G EXCEPT !.pc = pc, !.answer = "none", !.left = n]
  <2>3. gens' = [gens EXCEPT ![g] = r] /\ out' = out
        /\ conversation' = conversation /\ cancelRequested' = cancelRequested
        /\ pendingApproval' = pendingApproval
    BY <2>1, <2>2 DEF ToolDone, G
  <2>4. n \in 0..MaxCommands /\ (pc = "tool" => n # 0) /\ pc \in {"request", "tool"}
    BY <1>1, <2>1, <2>2
  <2> HIDE DEF n
  <2>5. r \in Gen /\ r.pc = pc /\ r.left = n
    BY <1>1, <2>4 DEF Gen
  <2>6. r.pc \in {"tool", "approve"} => r.left # 0
    BY <2>4, <2>5
  <2> HIDE DEF r
  <2> QED
    BY <1>1, <2>3, <2>4, <2>5, <2>6, SilentSteps DEF Over
<1>14. CASE Finish(g)
  <2>1. Goto(g, "ended") /\ Tell(<<Msg("Done", g)>>) /\ conversation' = {G.mem}
        /\ UNCHANGED <<cancelRequested, pendingApproval>>
    BY <1>14 DEF Finish, G
  <2>2. conversation' \in SUBSET SUBSET Prompts
    BY <1>2, <2>1
  <2> QED
    BY <2>1, <2>2, TellingGoto
<1>15. CASE RequestFails(g, <<Msg("Error", g), Msg("Done", g)>>)
  <2> DEFINE msgs == <<Msg("Error", g), Msg("Done", g)>>
  <2>1. Goto(g, "failed") /\ out' = out \o msgs
        /\ UNCHANGED <<conversation, cancelRequested, pendingApproval>>
    BY <1>15 DEF RequestFails, Tell
  <2>2. msgs \in Seq(OutMsg) /\ DOMAIN msgs = {1, 2} /\ msgs[2] = Msg("Done", g)
        /\ msgs[1] = Msg("Error", g)
    BY <1>5
  <2>3. /\ Has(msgs, {"Done", "Error"})
        /\ \A i \in DOMAIN msgs : msgs[i].kind = "Done" => msgs[i].of \in DOMAIN gens
    BY <1>5, <2>2 DEF Has
  <2> HIDE DEF msgs
  <2> QED
    BY <1>1, <2>1, <2>2, <2>3, GotoSteps
<1>16. CASE AskUser(g)
  <2>1. /\ gens' = [h \in DOMAIN gens |->
                      IF h = g THEN [gens[h] EXCEPT !.pc = "approve"]
                      ELSE IF h \in pendingApproval
                        THEN [gens[h] EXCEPT !.answer = "closed"]
                        ELSE gens[h]]
        /\ pendingApproval' = {g} /\ G.pc = "tool"
        /\ out' = out \o <<[kind |-> "RequestApproval", of |-> Asked(g)]>>
        /\ conversation' = conversation /\ cancelRequested' = cancelRequested
    BY <1>16 DEF AskUser, Tell, At, G
  <2> DEFINE m == [kind |-> "RequestApproval", of |-> Asked(g)]
  <2>2. m \in OutMsg /\ m.kind = "RequestApproval"
    BY <1>1, <1>2 DEF OutMsg, Question, Asked, G
  <2>3. ASSUME NEW h \in DOMAIN gens
        PROVE  /\ gens'[h] \in Gen /\ gens'[h].left = gens[h].left
               /\ \/ gens'[h].pc = gens[h].pc
                  \/ h = g /\ gens'[h].pc = "approve"
    <3>1. gens[h] \in Gen
      BY <1>1
    <3>2. \/ gens'[h] = [gens[h] EXCEPT !.pc = "approve"] /\ h = g
          \/ gens'[h] = [gens[h] EXCEPT !.answer = "closed"]
          \/ gens'[h] = gens[h]
      BY <2>1
    <3> QED
      BY <3>1, <3>2 DEF Gen
  <2>4. gens' \in Seq(Gen) /\ DOMAIN gens' = DOMAIN gens
    <3>1. DOMAIN gens = 1..Len(gens) /\ DOMAIN gens' = DOMAIN gens
          /\ gens' = [h \in DOMAIN gens |-> gens'[h]]
      BY <1>1, <2>1
    <3>2. \A h \in DOMAIN gens : gens'[h] \in Gen
      BY <2>3
    <3>3. [h \in 1..Len(gens) |-> gens'[h]] \in Seq(Gen)
      <4>1. Len(gens) \in Nat
        BY <1>1
      <4> QED
        BY <3>1, <3>2, <4>1
    <3> QED
      BY <3>1, <3>3
  <2>5. \A h \in DOMAIN gens : gens[h].pc \in {"tool", "approve"} => gens[h].left # 0
    BY DEF AgentTyped
  <2>6. G.left # 0 /\ G = gens[g]
    BY <1>1, <2>1 DEF G
  <2>7. \A h \in DOMAIN gens :
          /\ gens'[h].pc \in {"tool", "approve"} => gens'[h].left # 0
          /\ gens[h].pc \notin Over => gens'[h].pc \notin Over
    BY <2>3, <2>5, <2>6 DEF Over
  <2>8. <<m>> \in Seq(OutMsg) /\ \A i \in DOMAIN <<m>> : <<m>>[i].kind # "Done"
    BY <2>2
  <2>9. out' = out \o <<m>>
    BY <2>1
  <2> HIDE DEF m
  <2> QED
    BY <1>1, <2>1, <2>4, <2>7, <2>8, <2>9, AgentSteps
<1> QED
  BY <1>6, <1>7, <1>8, <1>9, <1>10, <1>11, <1>12, <1>13, <1>14, <1>15, <1>16
     DEF Generate

-----------------------------------------------------------------------------
(* A step of the agent or its runtime, which leaves the app alone.          *)
LEMMA Elsewhere ==
  ASSUME Inv, UNCHANGED <<app, ui, outcome, typed>>, astray' \in BOOLEAN,
         inbox' \in Seq(InMsg), tasks' \in Seq(InMsg), AgentTyped', Busy => Busy'
  PROVE  Inv'
BY DEF Inv, AppTyped, Listens

LEMMA Works ==
  ASSUME Inv, NEW g \in DOMAIN gens, Work(g) PROVE Inv'
<1>1. Generate(g) \/ RequestFails(g, <<Msg("Error", g), Msg("Done", g)>>)
  BY DEF Work
<1>2. UNCHANGED <<app, ui, outcome, inbox, tasks, typed, astray>>
  BY DEF Work
<1>3. AgentTyped' /\ (Busy => Busy')
  BY <1>1, <1>2, Generates DEF Inv
<1>4. astray' \in BOOLEAN /\ inbox' \in Seq(InMsg) /\ tasks' \in Seq(InMsg)
  BY <1>2 DEF Inv, AppTyped
<1> QED
  BY <1>2, <1>3, <1>4, Elsewhere

(* The records of the generations retouched, and nothing said.              *)
LEMMA Retouches ==
  ASSUME AgentTyped, out' = out, DOMAIN gens' = DOMAIN gens,
         gens' = [g \in DOMAIN gens |-> gens'[g]],
         \A g \in DOMAIN gens : /\ gens'[g] \in Gen /\ gens'[g].pc = gens[g].pc
                                /\ gens'[g].left = gens[g].left,
         conversation' = conversation, cancelRequested' \in BOOLEAN,
         pendingApproval' \in SUBSET DOMAIN gens
  PROVE  AgentTyped' /\ (inbox' = inbox /\ Busy => Busy')
<1>1. /\ gens \in Seq(Gen) /\ conversation' \in SUBSET SUBSET Prompts
      /\ \A g \in DOMAIN gens : gens[g].pc \in {"tool", "approve"} => gens[g].left # 0
      /\ out \in Seq(OutMsg)
  BY DEF AgentTyped
<1>2. gens' \in Seq(Gen)
  <2>1. DOMAIN gens = 1..Len(gens)
    BY <1>1
  <2> QED
    BY <1>1, <2>1
<1>3. <<>> \in Seq(OutMsg) /\ out' = out \o <<>> /\ DOMAIN <<>> = {}
  BY <1>1
<1> QED
  BY <1>1, <1>2, <1>3, AgentSteps

LEMMA Receives ==
  ASSUME Inv, Receive PROVE Inv'
<1> DEFINE m == Head(inbox)
<1>1. /\ inbox \in Seq(InMsg) /\ tasks \in Seq(InMsg) /\ inbox # <<>>
      /\ inbox' = Tail(inbox) /\ AgentTyped /\ gens \in Seq(Gen)
      /\ UNCHANGED <<app, ui, outcome, typed, astray>> /\ astray \in BOOLEAN
  BY DEF Inv, AppTyped, AgentTyped, Receive
<1>2. inbox' \in Seq(InMsg) /\ m \in InMsg
  BY <1>1, TailType
<1>3. m.kind # "UserInput" /\ Has(inbox, {"UserInput"}) => Has(inbox', {"UserInput"})
  BY <1>1, HasTail
<1>4. m.kind = "UserInput" => m.prompt \in Prompts
  BY <1>2 DEF InMsg
<1>5. m.kind = "UserInput" =>
        /\ Spawn(m.prompt)
        /\ UNCHANGED <<conversation, cancelRequested, pendingApproval, out, tasks>>
  BY DEF Receive
<1>6. m.kind = "Cancel" => RequestCancel /\ UNCHANGED tasks
  BY DEF Receive
<1>7. m.kind \notin {"UserInput", "Cancel"} =>
        tasks' = Append(tasks, m) /\ UNCHANGED agentVars
  BY DEF Receive
<1> HIDE DEF m
<1>8. CASE m.kind = "UserInput"
  <2> DEFINE c == Call(m.prompt)
  <2>1. gens' = Append(gens, c)
    BY <1>5, <1>8 DEF Spawn
  <2>2. c \in Gen /\ c.pc = "spawned"
    BY <1>4, <1>8, AgentAssumption DEF Call, Gen
  <2> HIDE DEF c
  <2>3. /\ gens' \in Seq(Gen) /\ DOMAIN gens \subseteq DOMAIN gens'
        /\ \A g \in DOMAIN gens : gens'[g] = gens[g]
        /\ Len(gens) + 1 \in DOMAIN gens' /\ gens'[Len(gens) + 1] = c
        /\ \A g \in DOMAIN gens' : g \in DOMAIN gens \/ g = Len(gens) + 1
    BY <1>1, <2>1, <2>2
  <2>4. AgentTyped'
    BY <1>1, <1>5, <1>8, <2>2, <2>3 DEF AgentTyped
  <2>5. Busy'
    BY <2>2, <2>3 DEF Busy, Live, Over
  <2> QED
    BY <1>1, <1>2, <1>5, <1>8, <2>4, <2>5, Elsewhere
<1>9. CASE m.kind = "Cancel"
  <2>1. /\ cancelRequested' = TRUE
        /\ gens' = [g \in DOMAIN gens |-> [gens[g] EXCEPT !.cancelled = @ \/ AtWork(g)]]
        /\ UNCHANGED <<conversation, pendingApproval, out>>
    BY <1>6, <1>9 DEF RequestCancel
  <2>2. DOMAIN gens' = DOMAIN gens /\ gens' = [g \in DOMAIN gens |-> gens'[g]]
    BY <2>1
  <2>3. ASSUME NEW g \in DOMAIN gens
        PROVE  /\ gens'[g] \in Gen /\ gens'[g].pc = gens[g].pc
               /\ gens'[g].left = gens[g].left
    <3> DEFINE b == gens[g].cancelled \/ AtWork(g)
    <3>1. gens'[g] = [gens[g] EXCEPT !.cancelled = b] /\ gens[g] \in Gen
      BY <1>1, <2>1
    <3>2. b \in BOOLEAN
      OBVIOUS
    <3> HIDE DEF b
    <3> QED
      BY <3>1, <3>2 DEF Gen
  <2>4. pendingApproval' \in SUBSET DOMAIN gens
    BY <1>1, <2>1 DEF AgentTyped
  <2>5. AgentTyped'
    BY <1>1, <2>1, <2>2, <2>3, <2>4, Retouches
  <2>6. Busy => Busy'
    BY <1>3, <1>9, <2>1, <2>2, <2>3 DEF Busy, Live
  <2> QED
    BY <1>1, <1>2, <1>6, <1>9, <2>5, <2>6, Elsewhere
<1>10. CASE m.kind \notin {"UserInput", "Cancel"}
  <2>1. tasks' \in Seq(InMsg) /\ UNCHANGED agentVars
    BY <1>1, <1>2, <1>7, <1>10
  <2>2. AgentTyped' /\ (Busy => Busy')
    BY <1>1, <1>3, <1>10, <2>1 DEF agentVars, AgentTyped, Busy, Live
  <2> QED
    BY <1>1, <1>2, <2>1, <2>2, Elsewhere
<1> QED
  BY <1>8, <1>9, <1>10

LEMMA Finishes ==
  ASSUME NEW i \in DOMAIN tasks, tasks \in Seq(InMsg), Finished(i)
  PROVE  tasks' \in Seq(InMsg) /\ tasks[i] \in InMsg
BY DEF Finished

LEMMA Synchronises ==
  ASSUME Inv, NEW i \in DOMAIN tasks, Synchronise(i) PROVE Inv'
<1>1. /\ tasks \in Seq(InMsg) /\ inbox \in Seq(InMsg) /\ AgentTyped
      /\ UNCHANGED <<app, ui, outcome, inbox, typed, astray>> /\ astray \in BOOLEAN
  BY DEF Inv, AppTyped, Synchronise
<1>2. tasks' \in Seq(InMsg) /\ tasks[i] \in InMsg
  BY <1>1, Finishes DEF Synchronise
<1>3. PICK c, kind : /\ c \in SUBSET SUBSET Prompts
                     /\ kind \in {"ContextCleared", "ContextInjected"}
                     /\ SetConversation(c) /\ Tell(<<Msg(kind, 0)>>)
  <2>1. CASE tasks[i].kind = "ClearContext"
    BY <1>2, <2>1 DEF Synchronise
  <2>2. CASE tasks[i].kind = "InjectContext"
    <3>1. tasks[i].mem \in SUBSET Prompts
      BY <1>2, <2>2 DEF InMsg
    <3>2. {tasks[i].mem} \in SUBSET SUBSET Prompts
      BY <3>1
    <3> QED
      BY <3>2, <2>2 DEF Synchronise
  <2> QED
    BY <2>1, <2>2 DEF Synchronise
<1> DEFINE m == Msg(kind, 0)
<1>4. m \in OutMsg /\ m.kind = kind
  BY <1>3 DEF Msg, OutMsg
<1>5. out' = out \o <<m>>
  BY <1>3 DEF Tell
<1> HIDE DEF m
<1>6. <<m>> \in Seq(OutMsg) /\ \A j \in DOMAIN <<m>> : <<m>>[j].kind # "Done"
  BY <1>3, <1>4
<1>7. /\ gens' = gens /\ cancelRequested' = cancelRequested
      /\ pendingApproval' = pendingApproval /\ conversation' = c
  BY <1>3 DEF SetConversation
<1>8. /\ gens \in Seq(Gen) /\ cancelRequested \in BOOLEAN
      /\ pendingApproval \in SUBSET DOMAIN gens
      /\ \A g \in DOMAIN gens : gens[g].pc \in {"tool", "approve"} => gens[g].left # 0
  BY <1>1 DEF AgentTyped
<1>9. AgentTyped' /\ (inbox' = inbox /\ Busy => Busy')
  BY <1>1, <1>3, <1>5, <1>6, <1>7, <1>8, AgentSteps
<1> QED
  BY <1>1, <1>2, <1>9, Elsewhere

LEMMA Delivers ==
  ASSUME Inv, NEW i \in DOMAIN tasks, DeliverAnswer(i) PROVE Inv'
<1>1. /\ tasks \in Seq(InMsg) /\ inbox \in Seq(InMsg) /\ AgentTyped
      /\ UNCHANGED <<app, ui, outcome, inbox, typed>>
  BY DEF Inv, AppTyped, DeliverAnswer
<1>2. tasks' \in Seq(InMsg) /\ tasks[i] \in InMsg
  BY <1>1, Finishes DEF DeliverAnswer
<1>3. tasks[i].answer \in {"yes", "no"}
  BY <1>2 DEF InMsg, DeliverAnswer
<1>4. astray' \in BOOLEAN
  BY DEF DeliverAnswer, Inv, AppTyped
<1>5. /\ gens' = [g \in DOMAIN gens |-> IF g \in pendingApproval
                    THEN [gens[g] EXCEPT !.answer = tasks[i].answer] ELSE gens[g]]
      /\ pendingApproval' = {}
      /\ UNCHANGED <<conversation, cancelRequested, out>>
  BY DEF DeliverAnswer, Respond
<1>6. DOMAIN gens' = DOMAIN gens /\ gens' = [g \in DOMAIN gens |-> gens'[g]]
  BY <1>5
<1>7. ASSUME NEW g \in DOMAIN gens
      PROVE  /\ gens'[g] \in Gen /\ gens'[g].pc = gens[g].pc
             /\ gens'[g].left = gens[g].left
  <2>1. gens[g] \in Gen
    BY <1>1 DEF AgentTyped
  <2>2. gens'[g] = [gens[g] EXCEPT !.answer = tasks[i].answer] \/ gens'[g] = gens[g]
    BY <1>5
  <2> QED
    BY <1>3, <2>1, <2>2 DEF Gen
<1>8. cancelRequested' \in BOOLEAN /\ pendingApproval' \in SUBSET DOMAIN gens
  BY <1>1, <1>5 DEF AgentTyped
<1>9. AgentTyped' /\ (inbox' = inbox /\ Busy => Busy')
  BY <1>1, <1>5, <1>6, <1>7, <1>8, Retouches
<1> QED
  BY <1>1, <1>2, <1>4, <1>9, Elsewhere

-----------------------------------------------------------------------------
(* drain_agent_rx takes a message.                                          *)
LEMMA Takes ==
  ASSUME Inv, NEW kind, Take(kind)
  PROVE  /\ AgentTyped' /\ ui = "drain" /\ UNCHANGED <<gens, ui, tasks, typed, astray>>
         /\ Head(out) \in OutMsg /\ Head(out).kind = kind
         /\ kind = "Done" => Head(out).of \in DOMAIN gens
         /\ kind \notin {"Done", "Error"} /\ inbox' = inbox /\ Busy => Busy'
<1>1. /\ ui = "drain" /\ out # <<>> /\ Head(out).kind = kind /\ out' = Tail(out)
      /\ UNCHANGED <<conversation, cancelRequested, pendingApproval, gens, ui,
                     tasks, typed, astray>>
  BY DEF Take
<1>2. AgentTyped /\ out \in Seq(OutMsg)
  BY DEF Inv, AgentTyped
<1>3. /\ out' \in Seq(OutMsg) /\ Head(out) \in OutMsg /\ 1 \in DOMAIN out
      /\ Head(out) = out[1]
      /\ \A i \in DOMAIN out' : i + 1 \in DOMAIN out /\ out'[i] = out[i + 1]
  BY <1>1, <1>2, TailType
<1>4. AgentTyped'
  BY <1>1, <1>2, <1>3 DEF AgentTyped
<1>5. kind = "Done" => Head(out).of \in DOMAIN gens
  BY <1>1, <1>2, <1>3 DEF AgentTyped
<1>6. ASSUME kind \notin {"Done", "Error"}, inbox' = inbox, Busy PROVE Busy'
  <2>1. Has(out, {"Done", "Error"}) => Has(out', {"Done", "Error"})
    BY <1>1, <1>2, <1>6, HasTail
  <2> QED
    BY <1>1, <1>6, <2>1 DEF Busy, Live
<1> QED
  BY <1>1, <1>3, <1>4, <1>5, <1>6

LEMMA Drains ==
  ASSUME Inv, Drain PROVE Inv'
<1>1. /\ app \in AppRec /\ inbox \in Seq(InMsg) /\ tasks \in Seq(InMsg)
      /\ \A p, q \in app.prompt : p = q
      /\ outcome \in [queued : BOOLEAN, interrupt : SUBSET Texts, low : BOOLEAN,
                      summarize : BOOLEAN]
      /\ typed \in SUBSET Texts /\ astray \in BOOLEAN
      /\ app.processing => ~ app.interrupted /\ Busy
      /\ outcome.queued \/ outcome.interrupt # {} => ~ app.interrupted
  BY DEF Inv, AppTyped, Listens
<1> DEFINE Ok == /\ app' \in AppRec /\ \A p, q \in app'.prompt : p = q
                 /\ outcome' \in [queued : BOOLEAN, interrupt : SUBSET Texts,
                                  low : BOOLEAN, summarize : BOOLEAN]
                 /\ inbox' \in Seq(InMsg)
                 /\ app'.processing => ~ app'.interrupted
                 /\ outcome'.queued \/ outcome'.interrupt # {} => ~ app'.interrupted
<1>2. ASSUME NEW kind, Take(kind), Ok, app'.processing => Busy' PROVE Inv'
  <2>1. AgentTyped' /\ ui = "drain" /\ UNCHANGED <<gens, ui, tasks, typed, astray>>
    BY <1>2, Takes
  <2> QED
    BY <1>1, <1>2, <2>1 DEF Inv, AppTyped, Listens
<1>3. ASSUME NEW kind \in Kinds, DrainSilenced(kind) PROVE Inv'
  <2>1. /\ Take(kind) /\ inbox' = inbox /\ app.interrupted
        /\ \/ UNCHANGED <<app, outcome>>
           \/ /\ app' = [app EXCEPT !.interrupted = FALSE, !.indicator = FALSE,
                                    !.prompt = {}]
              /\ outcome' = [outcome EXCEPT !.low = TRUE]
    BY <1>3 DEF DrainSilenced
  <2>2. ~ app.processing
    BY <1>1, <2>1
  <2> DEFINE a == [app EXCEPT !.interrupted = FALSE, !.indicator = FALSE, !.prompt = {}]
             o == [outcome EXCEPT !.low = TRUE]
  <2>3. a \in AppRec /\ a.prompt = {} /\ ~ a.interrupted /\ ~ a.processing
    BY <1>1, <2>2 DEF AppRec
  <2>4. /\ o \in [queued : BOOLEAN, interrupt : SUBSET Texts, low : BOOLEAN,
                  summarize : BOOLEAN]
        /\ o.queued = outcome.queued /\ o.interrupt = outcome.interrupt
    BY <1>1
  <2>5. \/ app' = app /\ outcome' = outcome
        \/ app' = a /\ outcome' = o
    BY <2>1
  <2> HIDE DEF a, o
  <2>6. Ok /\ ~ app'.processing
    <3>1. CASE app' = app /\ outcome' = outcome
      BY <1>1, <2>1, <2>2, <3>1
    <3>2. CASE app' = a /\ outcome' = o
      BY <1>1, <2>1, <2>3, <2>4, <3>2
    <3> QED
      BY <2>5, <3>1, <3>2
  <2> QED
    BY <1>2, <2>1, <2>6
<1>4. CASE DrainText
  <2>1. Take("Text") /\ inbox' = inbox
    BY <1>4 DEF DrainText
  <2>2. PICK shown \in {TRUE, app.indicator} : app' = [app EXCEPT !.indicator = shown]
    BY <1>4 DEF DrainText
  <2>3. PICK low \in Lows : outcome' = [outcome EXCEPT !.summarize = @ \/
            (low /\ ~ app.compacting /\ ~ app.auto /\ app.queue = <<>>)]
    BY <1>4 DEF DrainText
  <2> DEFINE b == outcome.summarize \/
                    (low /\ ~ app.compacting /\ ~ app.auto /\ app.queue = <<>>)
  <2>4. outcome' = [outcome EXCEPT !.summarize = b] /\ b \in BOOLEAN
    BY <2>3
  <2> HIDE DEF b
  <2>5. Ok /\ app'.processing = app.processing
    BY <1>1, <2>1, <2>2, <2>4 DEF AppRec
  <2>6. Busy => Busy'
    BY <2>1, Takes
  <2> QED
    BY <1>1, <1>2, <2>1, <2>5, <2>6
<1>5. CASE DrainRequestApproval
  <2>1. /\ Take("RequestApproval") /\ inbox' = inbox /\ outcome' = outcome
        /\ app' = [app EXCEPT !.prompt = {Head(out).of}]
    BY <1>5 DEF DrainRequestApproval, AppOnly
  <2>2. Head(out).of \in Question
    <3>1. Head(out) \in OutMsg /\ Head(out).kind = "RequestApproval"
      BY <2>1, Takes
    <3> QED
      BY <3>1 DEF OutMsg
  <2>3. Ok /\ app'.processing = app.processing
    BY <1>1, <2>1, <2>2 DEF AppRec
  <2>4. Busy => Busy'
    BY <2>1, Takes
  <2> QED
    BY <1>1, <1>2, <2>1, <2>3, <2>4
<1>6. CASE DrainError
  <2>1. /\ Take("Error") /\ inbox' = inbox /\ outcome' = outcome
        /\ app' = [app EXCEPT !.processing = FALSE, !.indicator = FALSE, !.prompt = {}]
    BY <1>6 DEF DrainError, AppOnly
  <2>2. Ok /\ ~ app'.processing
    BY <1>1, <2>1 DEF AppRec
  <2> QED
    BY <1>2, <2>1, <2>2
<1>7. CASE DrainContextCleared \/ DrainContextInjected
  <2>1. PICK kind \in {"ContextCleared", "ContextInjected"}, b, c \in BOOLEAN :
          /\ Take(kind) /\ inbox' = inbox /\ outcome' = outcome
          /\ app' = [app EXCEPT !.sync = b, !.inject = c]
    <3>1. CASE DrainContextCleared
      <4> DEFINE b == app.sync /\ app.inject
      <4>1. app' = [app EXCEPT !.sync = b] /\ b \in BOOLEAN
        BY <3>1 DEF DrainContextCleared, AppOnly
      <4>2. app.inject \in BOOLEAN
        BY <1>1 DEF AppRec
      <4> HIDE DEF b
      <4>3. app' = [app EXCEPT !.sync = b, !.inject = app.inject]
        BY <1>1, <4>1 DEF AppRec
      <4>4. Take("ContextCleared") /\ inbox' = inbox /\ outcome' = outcome
        BY <3>1 DEF DrainContextCleared, AppOnly
      <4> QED
        BY <4>1, <4>2, <4>3, <4>4
    <3>2. CASE DrainContextInjected
      BY <3>2 DEF DrainContextInjected, AppOnly
    <3> QED
      BY <1>7, <3>1, <3>2
  <2>2. Ok /\ app'.processing = app.processing
    BY <1>1, <2>1 DEF AppRec
  <2>3. Busy => Busy'
    BY <2>1, Takes
  <2> QED
    BY <1>1, <1>2, <2>1, <2>2, <2>3
<1>8. CASE DrainCompacted
  <2>1. Take("Done") /\ outcome' = outcome /\ ~ app.interrupted
    BY <1>8 DEF DrainCompacted
  <2> DEFINE over == [TurnOver EXCEPT !.compacting = FALSE, !.auto = FALSE]
             quiet == [over EXCEPT !.resume = FALSE, !.resumeReady = FALSE]
             told == [over EXCEPT !.sync = TRUE, !.inject = TRUE,
                                  !.resumeReady = @ \/ app.resume]
  <2>2. PICK s \in Summaries(Head(out).of) :
          Do(IF s = {} THEN Become(Now, quiet)
             ELSE Send(Send(Become(Now, told), ClearContext),
                       InjectContext(CHOOSE m \in s : TRUE)))
    BY <1>8 DEF DrainCompacted
  <2>3. /\ over \in AppRec /\ ~ over.processing /\ ~ over.interrupted
        /\ over.prompt = {}
    BY <1>1, <2>1 DEF TurnOver, AppRec
  <2>4. quiet \in AppRec /\ ~ quiet.processing /\ ~ quiet.interrupted
        /\ quiet.prompt = {}
    <3> HIDE DEF over
    <3> QED
      BY <2>3 DEF AppRec
  <2>5. told \in AppRec /\ ~ told.processing /\ ~ told.interrupted
        /\ told.prompt = {}
    <3> HIDE DEF over
    <3> DEFINE b == over.resumeReady \/ app.resume
    <3>1. told = [over EXCEPT !.sync = TRUE, !.inject = TRUE, !.resumeReady = b]
          /\ b \in BOOLEAN
      OBVIOUS
    <3> HIDE DEF b, told
    <3> QED
      BY <2>3, <3>1 DEF AppRec
  <2> HIDE DEF over, quiet, told
  <2>6. \A m \in s : m \in SUBSET Prompts
    <3>1. Head(out).of \in DOMAIN gens /\ gens \in Seq(Gen)
      BY <2>1, Takes DEF Inv, AgentTyped
    <3>2. gens[Head(out).of] \in Gen
      BY <3>1
    <3>3. gens[Head(out).of].mem \in SUBSET Prompts
      BY <3>2 DEF Gen
    <3> QED
      BY <3>3 DEF Summaries
  <2>7. CASE s = {}
    <3>1. Do(Become(Now, quiet))
      BY <2>2, <2>7
    <3>2. app' = quiet /\ inbox' = inbox \o <<>>
      BY <3>1 DEF Do, Become, Now
    <3>3. inbox' = inbox
      BY <1>1, <3>2
    <3> QED
      BY <1>1, <1>2, <2>1, <2>4, <3>2, <3>3
  <2>8. CASE s # {}
    <3> DEFINE m == CHOOSE n \in s : TRUE
    <3>1. m \in SUBSET Prompts
      BY <2>6, <2>8
    <3>2. Do(Send(Send(Become(Now, told), ClearContext), InjectContext(m)))
      BY <2>2, <2>8
    <3> HIDE DEF m
    <3>3. app' = told
          /\ inbox' = inbox \o Append(Append(<<>>, ClearContext), InjectContext(m))
      BY <3>2 DEF Do, Send, Become, Now
    <3>4. ClearContext \in InMsg /\ InjectContext(m) \in InMsg
      BY <3>1 DEF InMsg, ClearContext, InjectContext
    <3>5. inbox' \in Seq(InMsg)
      BY <1>1, <3>3, <3>4
    <3> QED
      BY <1>1, <1>2, <2>1, <2>5, <3>3, <3>5
  <2> QED
    BY <2>7, <2>8
<1>9. CASE DrainDone
  <2>1. Take("Done") /\ inbox' = inbox /\ ~ app.interrupted
    BY <1>9 DEF DrainDone
  <2> DEFINE over == TurnOver
  <2>2. /\ over \in AppRec /\ ~ over.processing /\ ~ over.interrupted
        /\ over.prompt = {}
    BY <1>1, <2>1 DEF TurnOver, AppRec
  <2>3. \/ /\ app' = [over EXCEPT !.interruptPending = {}]
           /\ outcome' = [outcome EXCEPT !.interrupt = app.interruptPending]
        \/ /\ app' = over
           /\ outcome' = [outcome EXCEPT !.queued = TRUE, !.low = TRUE]
    BY <1>9 DEF DrainDone
  <2>4. app.interruptPending \in SUBSET Texts
    BY <1>1 DEF AppRec
  <2> HIDE DEF over
  <2>5. app' \in AppRec /\ ~ app'.processing /\ ~ app'.interrupted /\ app'.prompt = {}
    BY <2>2, <2>3 DEF AppRec
  <2>6. outcome' \in [queued : BOOLEAN, interrupt : SUBSET Texts, low : BOOLEAN,
                      summarize : BOOLEAN]
    BY <1>1, <2>3, <2>4
  <2> QED
    BY <1>1, <1>2, <2>1, <2>5, <2>6
<1> QED
  BY <1>3, <1>4, <1>5, <1>6, <1>7, <1>8, <1>9 DEF Drain

-----------------------------------------------------------------------------
(* What a paragraph of process_pending_actions or a key makes of the app.   *)
(* A spinner has its reason, here or in a prompt about to be sent; and when *)
(* the app ignores the agent under a spinner, a compaction is to follow     *)
(* that ends both.                                                          *)
Act == [app : AppRec, send : Seq(InMsg)]

Good(s) ==
    /\ s \in Act /\ s.app.prompt \subseteq app.prompt
    /\ s.app.processing /\ s.app.interrupted => s.app.compactPending
    /\ s.app.interrupted => app.interrupted \/ s.app.compactPending
    /\ s.app.processing => app.processing \/ Has(s.send, {"UserInput"})

LEMMA BecomeAct ==
  ASSUME NEW s \in Act, NEW a \in AppRec
  PROVE  /\ Become(s, a) \in Act /\ Become(s, a).app = a /\ Become(s, a).send = s.send
         /\ s.app \in AppRec /\ s.send \in Seq(InMsg)
BY DEF Become, Act

LEMMA SendAct ==
  ASSUME NEW s \in Act, NEW m \in InMsg
  PROVE  /\ Send(s, m) \in Act /\ Send(s, m).app = s.app
         /\ Has(Send(s, m).send, {"UserInput"}) <=>
              Has(s.send, {"UserInput"}) \/ m.kind = "UserInput"
<1>1. s.app \in AppRec /\ s.send \in Seq(InMsg)
  BY DEF Act
<1>2. Append(s.send, m) \in Seq(InMsg) /\ Append(s.send, m) = s.send \o <<m>>
      /\ <<m>> \in Seq(InMsg)
  BY <1>1
<1>3. Send(s, m).app = s.app /\ Send(s, m).send = Append(s.send, m) /\ Send(s, m) \in Act
  BY <1>1, <1>2 DEF Send, Act
<1>4. Has(Append(s.send, m), {"UserInput"}) <=>
         Has(s.send, {"UserInput"}) \/ m.kind = "UserInput"
  <2>1. Has(<<m>>, {"UserInput"}) <=> m.kind \in {"UserInput"}
    BY HasOne
  <2>2. Has(s.send \o <<m>>, {"UserInput"}) <=>
           Has(s.send, {"UserInput"}) \/ Has(<<m>>, {"UserInput"})
    BY <1>1, <1>2, HasJoin
  <2>3. m.kind \in {"UserInput"} <=> m.kind = "UserInput"
    OBVIOUS
  <2> QED
    BY <1>2, <2>1, <2>2, <2>3, Zenon
<1> QED
  BY <1>3, <1>4

LEMMA SayAct ==
  ASSUME NEW s \in Act, NEW p \in Prompts
  PROVE  /\ Say(s, p) \in Act /\ Has(Say(s, p).send, {"UserInput"})
         /\ Say(s, p).app = [s.app EXCEPT !.processing = TRUE, !.indicator = TRUE]
<1> DEFINE a == [s.app EXCEPT !.processing = TRUE, !.indicator = TRUE]
<1>1. s.app \in AppRec
  BY DEF Act
<1>2. a \in AppRec
  BY <1>1 DEF AppRec
<1>3. Input(p) \in InMsg /\ Input(p).kind = "UserInput"
  BY DEF Input, InMsg
<1>4. Say(s, p) = Send(Become(s, a), Input(p))
  BY DEF Say
<1> HIDE DEF a
<1>5. Say(s, p) \in Act /\ Has(Say(s, p).send, {"UserInput"}) /\ Say(s, p).app = a
  <2>1. Become(s, a) \in Act /\ Become(s, a).app = a
    BY <1>2, BecomeAct
  <2> DEFINE t == Become(s, a)
  <2> HIDE DEF t
  <2>2. /\ Send(t, Input(p)) \in Act /\ Send(t, Input(p)).app = t.app
        /\ Has(Send(t, Input(p)).send, {"UserInput"})
    BY <1>3, <2>1, SendAct DEF t
  <2> QED
    BY <1>4, <2>1, <2>2 DEF t
<1> QED
  BY <1>5 DEF a

LEMMA SayGood ==
  ASSUME NEW s, Good(s), NEW p \in Prompts, ~ app.interrupted \/ ~ s.app.interrupted
  PROVE  Good(Say(s, p))
<1>1. s \in Act /\ s.app \in AppRec
  BY DEF Good, Act
<1> DEFINE t == Say(s, p)
<1>2. /\ t \in Act /\ Has(t.send, {"UserInput"})
      /\ t.app = [s.app EXCEPT !.processing = TRUE, !.indicator = TRUE]
  BY <1>1, SayAct
<1>3. /\ t.app.interrupted = s.app.interrupted /\ t.app.prompt = s.app.prompt
      /\ t.app.compactPending = s.app.compactPending
  BY <1>1, <1>2 DEF AppRec
<1> HIDE DEF t
<1>4. Good(t)
  BY <1>2, <1>3 DEF Good
<1> QED
  BY <1>4 DEF t

(* A change of the app that starts no turn and does not make it ignore the  *)
(* agent.                                                                   *)
LEMMA BecomeGood ==
  ASSUME NEW s, Good(s), NEW a \in AppRec, a.prompt = s.app.prompt,
         a.processing = s.app.processing,
         a.interrupted => s.app.interrupted \/ a.compactPending,
         s.app.compactPending => a.compactPending
  PROVE  Good(Become(s, a))
<1>1. s \in Act
  BY DEF Good
<1>2. Become(s, a) \in Act /\ Become(s, a).app = a /\ Become(s, a).send = s.send
  BY <1>1, BecomeAct
<1> QED
  BY <1>2 DEF Good

LEMMA SlashGood ==
  ASSUME NEW s, Good(s), NEW c PROVE Good(Slash(s, c))
<1>1. s \in Act /\ s.app \in AppRec
  BY DEF Good, Act
<1>2. CASE c = "/clear"
  <2>1. Slash(s, c) = Send(s, ClearContext) /\ ClearContext \in InMsg
    BY <1>2 DEF Slash, ClearContext, InMsg
  <2>2. /\ Send(s, ClearContext) \in Act /\ Send(s, ClearContext).app = s.app
        /\ Has(s.send, {"UserInput"}) => Has(Send(s, ClearContext).send, {"UserInput"})
    BY <1>1, <2>1, SendAct
  <2> QED
    BY <2>1, <2>2 DEF Good
<1>3. CASE c # "/clear"
  <2> DEFINE a == [s.app EXCEPT !.compactPending = TRUE, !.resume = FALSE,
                                !.resumeReady = FALSE]
  <2>1. Slash(s, c) = s \/ Slash(s, c) = Become(s, a)
    BY <1>3 DEF Slash
  <2>2. a \in AppRec /\ a.prompt = s.app.prompt /\ a.processing = s.app.processing
        /\ a.compactPending
    BY <1>1 DEF AppRec
  <2> HIDE DEF a
  <2>3. Good(Become(s, a))
    BY <2>2, BecomeGood
  <2> QED
    BY <2>1, <2>3
<1> QED
  BY <1>2, <1>3

LEMMA SayOrDoGood ==
  ASSUME NEW s, Good(s), NEW m \in Texts, ~ app.interrupted
  PROVE  Good(SayOrDo(s, m))
<1>1. Good(Slash(s, m)) /\ (m \in Prompts => Good(Say(s, m)))
  BY SlashGood, SayGood
<1> QED
  BY <1>1 DEF SayOrDo, Prompts

(* The paragraphs in their order.                                           *)
LEMMA Paragraphs ==
  ASSUME Inv, NEW s, Good(s)
  PROVE  /\ Good(SayInterrupt(s)) /\ Good(StopToSummarize(s))
         /\ \A low : Good(SummarizeIfLow(s, low))
         /\ \A timedOut : Good(SyncTimesOut(s, timedOut))
         /\ Good(SayContinue(s)) /\ Good(SayQueued(s))
<1>1. s \in Act /\ s.app \in AppRec /\ s.send \in Seq(InMsg)
  BY DEF Good, Act
<1>2. /\ outcome.queued \/ outcome.interrupt # {} => ~ app.interrupted
      /\ outcome.interrupt \in SUBSET Texts
  BY DEF Inv, Listens, AppTyped
<1>3. Good(SayInterrupt(s))
  <2>1. CASE outcome.interrupt # {}
    <3> DEFINE m == CHOOSE n \in outcome.interrupt : TRUE
    <3>1. m \in Texts
      BY <1>2, <2>1
    <3>2. SayInterrupt(s) = SayOrDo(s, m)
      BY <2>1 DEF SayInterrupt
    <3> HIDE DEF m
    <3> QED
      BY <1>2, <2>1, <3>1, <3>2, SayOrDoGood
  <2> QED
    BY <2>1 DEF SayInterrupt
<1>4. Good(StopToSummarize(s))
  <2> DEFINE a == [s.app EXCEPT !.auto = TRUE, !.compactPending = TRUE,
                                !.resume = TRUE, !.resumeReady = FALSE,
                                !.interrupted = TRUE, !.indicator = FALSE]
  <2>1. a \in AppRec /\ a.prompt = s.app.prompt /\ a.processing = s.app.processing
        /\ a.compactPending
    BY <1>1 DEF AppRec
  <2>2. StopToSummarize(s) = s \/ StopToSummarize(s) = Send(Become(s, a), Cancel)
    BY DEF StopToSummarize
  <2> HIDE DEF a
  <2> DEFINE t == Become(s, a)
  <2>3. Good(t) /\ t \in Act
    BY <2>1, BecomeGood DEF Good
  <2>4. Cancel \in InMsg
    BY DEF Cancel, InMsg
  <2> HIDE DEF t
  <2>5. /\ Send(t, Cancel) \in Act /\ Send(t, Cancel).app = t.app
        /\ Has(t.send, {"UserInput"}) => Has(Send(t, Cancel).send, {"UserInput"})
    BY <2>3, <2>4, SendAct
  <2>6. Good(Send(t, Cancel))
    BY <2>3, <2>5 DEF Good
  <2> QED
    BY <2>2, <2>6 DEF t
<1>5. ASSUME NEW low PROVE Good(SummarizeIfLow(s, low))
  <2> DEFINE a == [s.app EXCEPT !.auto = TRUE, !.compactPending = TRUE,
                                !.resume = FALSE, !.resumeReady = FALSE]
  <2>1. a \in AppRec /\ a.prompt = s.app.prompt /\ a.processing = s.app.processing
        /\ a.compactPending
    BY <1>1 DEF AppRec
  <2>2. SummarizeIfLow(s, low) = s \/ SummarizeIfLow(s, low) = Become(s, a)
    BY DEF SummarizeIfLow
  <2> HIDE DEF a
  <2> QED
    BY <2>1, <2>2, BecomeGood
<1>6. ASSUME NEW timedOut PROVE Good(SyncTimesOut(s, timedOut))
  <2> DEFINE a == [s.app EXCEPT !.sync = FALSE, !.inject = FALSE]
  <2>1. a \in AppRec /\ a.prompt = s.app.prompt /\ a.processing = s.app.processing
        /\ a.compactPending = s.app.compactPending /\ a.interrupted = s.app.interrupted
    BY <1>1 DEF AppRec
  <2>2. SyncTimesOut(s, timedOut) = s \/ SyncTimesOut(s, timedOut) = Become(s, a)
    BY DEF SyncTimesOut
  <2> HIDE DEF a
  <2> QED
    BY <2>1, <2>2, BecomeGood
<1>7. Good(SayContinue(s))
  <2> DEFINE a == [s.app EXCEPT !.resumeReady = FALSE]
             b == [s.app EXCEPT !.resumeReady = FALSE, !.resume = FALSE,
                                !.interrupted = FALSE]
  <2>1. a \in AppRec /\ a.prompt = s.app.prompt /\ a.processing = s.app.processing
        /\ a.compactPending = s.app.compactPending /\ a.interrupted = s.app.interrupted
    BY <1>1 DEF AppRec
  <2>2. b \in AppRec /\ b.prompt = s.app.prompt /\ b.processing = s.app.processing
        /\ b.compactPending = s.app.compactPending /\ ~ b.interrupted
    BY <1>1 DEF AppRec
  <2>3. \/ SayContinue(s) = s \/ SayContinue(s) = Become(s, a)
        \/ SayContinue(s) = Say(Become(s, b), Continue)
    BY DEF SayContinue, Resumed
  <2> HIDE DEF a, b
  <2>4. Good(Become(s, a)) /\ Good(Become(s, b)) /\ ~ Become(s, b).app.interrupted
    BY <1>1, <2>1, <2>2, BecomeGood, BecomeAct
  <2>5. Good(Say(Become(s, b), Continue))
    BY <2>4, SayGood DEF Prompts
  <2> QED
    BY <2>3, <2>4, <2>5
<1>8. Good(SayQueued(s))
  <2>1. CASE outcome.queued /\ s.app.queue # <<>>
    <3> DEFINE a == [s.app EXCEPT !.queue = Tail(@)]
               m == Head(s.app.queue)
    <3>1. s.app.queue \in Seq(Texts)
      BY <1>1 DEF AppRec
    <3>2. Tail(s.app.queue) \in Seq(Texts) /\ m \in Texts
      BY <2>1, <3>1
    <3>3. a \in AppRec /\ a.prompt = s.app.prompt /\ a.processing = s.app.processing
          /\ a.compactPending = s.app.compactPending /\ a.interrupted = s.app.interrupted
      BY <1>1, <3>2 DEF AppRec
    <3>4. SayQueued(s) = s \/ SayQueued(s) = SayOrDo(Become(s, a), m)
      BY DEF SayQueued
    <3> HIDE DEF a, m
    <3> QED
      BY <1>2, <2>1, <3>2, <3>3, <3>4, BecomeGood, SayOrDoGood
  <2> QED
    BY <2>1 DEF SayQueued
<1> QED
  BY <1>3, <1>4, <1>5, <1>6, <1>7, <1>8

LEMMA CompactGood ==
  ASSUME NEW s, Good(s)
  PROVE  /\ Good(Compact(s))
         /\ Compact(s).app.processing => ~ Compact(s).app.interrupted
<1>1. s \in Act /\ s.app \in AppRec
  BY DEF Good, Act
<1>2. CASE s.app.compactPending
  <2> DEFINE a == [s.app EXCEPT !.compactPending = FALSE, !.compacting = TRUE,
                                !.interrupted = FALSE]
             t == Become(s, a)
             r == Say(t, Summary)
  <2>1. a \in AppRec /\ a.prompt = s.app.prompt /\ ~ a.interrupted
    BY <1>1 DEF AppRec
  <2>2. Compact(s) = r
    BY <1>2 DEF Compact
  <2> HIDE DEF a
  <2>3. t \in Act /\ t.app = a
    BY <1>1, <2>1, BecomeAct
  <2> HIDE DEF t
  <2>4. /\ r \in Act /\ Has(r.send, {"UserInput"})
        /\ r.app = [t.app EXCEPT !.processing = TRUE, !.indicator = TRUE]
    BY <2>3, SayAct DEF Prompts
  <2>5. ~ r.app.interrupted /\ r.app.prompt = s.app.prompt
    BY <2>1, <2>3, <2>4 DEF AppRec
  <2> HIDE DEF r
  <2> QED
    BY <2>2, <2>4, <2>5 DEF Good
<1>3. CASE ~ s.app.compactPending
  BY <1>3 DEF Compact, Good
<1> QED
  BY <1>2, <1>3

LEMMA NowGood == ASSUME Inv PROVE Good(Now)
<1>1. Now.app = app /\ Now.send = <<>> /\ Now = [app |-> app, send |-> <<>>]
  BY DEF Now
<1>2. app \in AppRec /\ (app.processing => ~ app.interrupted)
  BY DEF Inv, AppTyped, Listens
<1>3. <<>> \in Seq(InMsg)
  OBVIOUS
<1>4. Now \in Act
  BY <1>1, <1>2, <1>3 DEF Act
<1> QED
  BY <1>1, <1>2, <1>4 DEF Good

(* The app does so.                                                         *)
LEMMA Does ==
  ASSUME Inv, NEW s, Good(s), s.app.processing => ~ s.app.interrupted, Do(s),
         UNCHANGED <<agentVars, tasks, astray>>, typed' \in SUBSET Texts,
         ui' = "keys", outcome' = NoOutcome
  PROVE  Inv'
<1>1. /\ s.app \in AppRec /\ s.send \in Seq(InMsg) /\ app' = s.app
      /\ inbox' = inbox \o s.send /\ inbox \in Seq(InMsg)
  BY DEF Good, Act, Do, Inv, AppTyped
<1>2. inbox' \in Seq(InMsg)
  BY <1>1
<1>3. /\ Has(inbox, {"UserInput"}) => Has(inbox', {"UserInput"})
      /\ Has(s.send, {"UserInput"}) => Has(inbox', {"UserInput"})
  BY <1>1, HasJoin
<1>4. UNCHANGED <<gens, out, conversation, cancelRequested, pendingApproval>>
  BY DEF agentVars
<1>5. Busy => Busy'
  BY <1>3, <1>4 DEF Busy, Live
<1>6. app'.processing => Busy'
  BY <1>1, <1>3, <1>5 DEF Good, Inv, Busy
<1>7. AgentTyped'
  BY <1>4 DEF Inv, AgentTyped
<1>8. /\ outcome' \in [queued : BOOLEAN, interrupt : SUBSET Texts, low : BOOLEAN,
                       summarize : BOOLEAN]
      /\ ~ outcome'.queued /\ outcome'.interrupt = {}
  BY DEF NoOutcome
<1>9. \A p, q \in app'.prompt : p = q
  BY <1>1 DEF Good, Inv, AppTyped
<1>10. AppTyped'
  BY <1>1, <1>2, <1>8, <1>9 DEF Inv, AppTyped
<1>11. Listens'
  BY <1>1, <1>8 DEF Listens
<1> QED
  BY <1>6, <1>7, <1>10, <1>11 DEF Inv

LEMMA Pends == ASSUME Inv, Pending PROVE Inv'
<1>1. PICK low \in Lows, timedOut \in {FALSE, "timeout" \in Faults} :
         Do(Compact(SayQueued(SayContinue(SyncTimesOut(SummarizeIfLow(
              StopToSummarize(SayInterrupt(Now)), low), timedOut)))))
  BY DEF Pending
<1> DEFINE s1 == SayInterrupt(Now)
           s2 == StopToSummarize(s1)
           s3 == SummarizeIfLow(s2, low)
           s4 == SyncTimesOut(s3, timedOut)
           s5 == SayContinue(s4)
           s6 == SayQueued(s5)
<1>2. Good(s1)
  BY NowGood, Paragraphs
<1>3. Good(s2)
  <2> HIDE DEF s1
  <2> QED
    BY <1>2, Paragraphs
<1>4. Good(s3)
  <2> HIDE DEF s2
  <2> QED
    BY <1>3, Paragraphs
<1>5. Good(s4)
  <2> HIDE DEF s3
  <2> QED
    BY <1>4, Paragraphs
<1>6. Good(s5)
  <2> HIDE DEF s4
  <2> QED
    BY <1>5, Paragraphs
<1>7. Good(s6)
  <2> HIDE DEF s5
  <2> QED
    BY <1>6, Paragraphs
<1>8. Do(Compact(s6))
  BY <1>1
<1>9. /\ UNCHANGED <<agentVars, tasks, astray>> /\ typed' \in SUBSET Texts
      /\ ui' = "keys" /\ outcome' = NoOutcome
  BY DEF Pending, Inv, AppTyped
<1> HIDE DEF s6
<1>10. Good(Compact(s6)) /\ (Compact(s6).app.processing => ~ Compact(s6).app.interrupted)
  BY <1>7, CompactGood
<1> QED
  BY <1>8, <1>9, <1>10, Does

-----------------------------------------------------------------------------
(* Keys.                                                                    *)
LEMMA Keyed ==
  ASSUME Inv, NEW s, Good(s), s.app.processing => ~ s.app.interrupted, Key(s),
         typed' \in SUBSET Texts
  PROVE  Inv'
<1>1. /\ ui = "keys" /\ Do(s) /\ UNCHANGED <<agentVars, ui, outcome, tasks, astray>>
      /\ outcome = NoOutcome
  BY DEF Key, Inv, Listens
<1> QED
  BY <1>1, Does

(* A key that changes the app, and one that also sends a message.           *)
LEMMA Edits ==
  ASSUME Inv, NEW a \in AppRec, a.prompt \subseteq app.prompt,
         a.processing => app.processing /\ ~ a.interrupted,
         a.interrupted => app.interrupted
  PROVE  Good(Become(Now, a)) /\ Become(Now, a).app = a
<1>1. Now \in Act
  BY NowGood DEF Good
<1>2. Become(Now, a) \in Act /\ Become(Now, a).app = a
  BY <1>1, BecomeAct
<1> QED
  BY <1>2 DEF Good

LEMMA Sends ==
  ASSUME NEW s, Good(s), NEW m \in InMsg
  PROVE  Good(Send(s, m)) /\ Send(s, m).app = s.app
<1>1. s \in Act
  BY DEF Good
<1>2. /\ Send(s, m) \in Act /\ Send(s, m).app = s.app
      /\ Has(s.send, {"UserInput"}) => Has(Send(s, m).send, {"UserInput"})
  BY <1>1, SendAct
<1> QED
  BY <1>2 DEF Good

LEMMA Types ==
  ASSUME Inv, NEW m \in Texts, Type(m) PROVE Inv'
<1>1. app \in AppRec /\ (app.processing => ~ app.interrupted) /\ typed \in SUBSET Texts
  BY DEF Inv, AppTyped, Listens
<1>2. typed' \in SUBSET Texts
  BY <1>1 DEF Type
<1> DEFINE a == [app EXCEPT !.choice = {m}]
           b == [app EXCEPT !.interrupted = FALSE]
<1>3. /\ a \in AppRec /\ a.prompt = app.prompt /\ a.processing = app.processing
      /\ a.interrupted = app.interrupted
      /\ b \in AppRec /\ b.prompt = app.prompt /\ b.processing = app.processing
      /\ ~ b.interrupted
  BY <1>1 DEF AppRec
<1>4. \/ Key(Become(Now, a)) \/ Key(Slash(Now, m)) \/ Key(Say(Become(Now, b), m))
  BY DEF Type
<1> HIDE DEF a, b
<1>5. CASE Key(Become(Now, a))
  BY <1>1, <1>2, <1>3, <1>5, Edits, Keyed
<1>6. CASE Key(Slash(Now, m))
  <2>1. Good(Slash(Now, m))
    BY NowGood, SlashGood
  <2>2. Slash(Now, m).app.processing => ~ Slash(Now, m).app.interrupted
    <3> DEFINE d == [app EXCEPT !.compactPending = TRUE, !.resume = FALSE,
                                !.resumeReady = FALSE]
    <3>1. Slash(Now, m).app \in {app, d}
      BY DEF Slash, Now, Send, Become
    <3>2. d.processing = app.processing /\ d.interrupted = app.interrupted
      BY <1>1 DEF AppRec
    <3> HIDE DEF d
    <3> QED
      BY <1>1, <3>1, <3>2
  <2> QED
    BY <1>2, <1>6, <2>1, <2>2, Keyed
<1>7. CASE Key(Say(Become(Now, b), m))
  <2> DEFINE t == Become(Now, b)
             r == Say(t, m)
  <2>1. Good(t) /\ t.app = b
    BY <1>1, <1>3, Edits
  <2> HIDE DEF t
  <2>2. m \in Prompts /\ t \in Act
    BY <2>1 DEF Prompts, Good
  <2>3. Good(r) /\ r.app = [t.app EXCEPT !.processing = TRUE, !.indicator = TRUE]
    BY <1>3, <2>1, <2>2, SayGood, SayAct
  <2>4. ~ r.app.interrupted
    BY <1>3, <2>1, <2>3 DEF AppRec
  <2>5. Key(r)
    BY <1>7 DEF t
  <2> HIDE DEF r
  <2> QED
    BY <1>2, <2>3, <2>4, <2>5, Keyed
<1> QED
  BY <1>4, <1>5, <1>6, <1>7

LEMMA Chooses ==
  ASSUME Inv, NEW k, Choose(k) PROVE Inv'
<1>1. app \in AppRec /\ (app.processing => ~ app.interrupted) /\ typed \in SUBSET Texts
  BY DEF Inv, AppTyped, Listens
<1> DEFINE m == CHOOSE m \in app.choice : TRUE
           a == [app EXCEPT !.choice = {}]
           b == [a EXCEPT !.queue = Append(@, m)]
           c == [a EXCEPT !.interruptPending = {m}, !.indicator = FALSE]
<1>2. app.choice # {} /\ typed' = typed
      /\ \/ Key(Become(Now, b)) \/ Key(Send(Become(Now, c), Cancel))
         \/ Key(Become(Now, a))
  BY Zenon DEF Choose
<1>3. m \in Texts /\ app.queue \in Seq(Texts)
  <2>1. app.choice \in SUBSET Texts /\ app.queue \in Seq(Texts)
    BY <1>1 DEF AppRec
  <2> QED
    BY <1>2, <2>1
<1> HIDE DEF m
<1>4. /\ a \in AppRec /\ a.prompt = app.prompt /\ a.processing = app.processing
      /\ a.interrupted = app.interrupted /\ a.queue = app.queue
  BY <1>1 DEF AppRec
<1> HIDE DEF a
<1>5. /\ b \in AppRec /\ b.prompt = app.prompt /\ b.processing = app.processing
      /\ b.interrupted = app.interrupted
  <2> DEFINE q == Append(a.queue, m)
  <2>1. q \in Seq(Texts) /\ b = [a EXCEPT !.queue = q]
    BY <1>3, <1>4
  <2> HIDE DEF q, b
  <2> QED
    BY <1>4, <2>1 DEF AppRec
<1>6. /\ c \in AppRec /\ c.prompt = app.prompt /\ c.processing = app.processing
      /\ c.interrupted = app.interrupted
  BY <1>3, <1>4 DEF AppRec
<1> HIDE DEF b, c
<1>7. \A d \in {a, b, c} : Good(Become(Now, d)) /\ Become(Now, d).app = d
  BY <1>1, <1>4, <1>5, <1>6, Edits
<1>8. Good(Send(Become(Now, c), Cancel)) /\ Send(Become(Now, c), Cancel).app = c
  BY <1>7, Sends DEF Cancel, InMsg
<1> QED
  BY <1>1, <1>2, <1>4, <1>5, <1>6, <1>7, <1>8, Keyed

LEMMA Replies ==
  ASSUME Inv, NEW k, AnswerPrompt(k) PROVE Inv'
<1>1. app \in AppRec /\ (app.processing => ~ app.interrupted) /\ typed \in SUBSET Texts
  BY DEF Inv, AppTyped, Listens
<1> DEFINE q == CHOOSE q \in app.prompt : TRUE
           a == [app EXCEPT !.prompt = {}]
           b == [Answered.app EXCEPT !.indicator = FALSE]
<1>2. app.prompt # {} /\ typed' = typed
      /\ \/ Key(Send(Answered, Answer("yes", q)))
         \/ Key(Send(Answered, Answer("no", q)))
         \/ Key(Send(Send(Become(Answered, b), Answer("no", q)), Cancel))
  BY Zenon DEF AnswerPrompt
<1>3. q \in Question
  <2>1. app.prompt \in SUBSET Question
    BY <1>1 DEF AppRec
  <2> QED
    BY <1>2, <2>1
<1> HIDE DEF q
<1>4. /\ Answer("yes", q) \in InMsg /\ Answer("no", q) \in InMsg /\ Cancel \in InMsg
  BY <1>3 DEF Answer, Cancel, InMsg
<1>5. /\ a \in AppRec /\ a.prompt = {} /\ a.processing = app.processing
      /\ a.interrupted = app.interrupted
  BY <1>1 DEF AppRec
<1>6. Answered = Become(Now, a)
  BY DEF Answered
<1> HIDE DEF a
<1>7. Good(Answered) /\ Answered.app = a
  BY <1>1, <1>5, <1>6, Edits
<1>8. /\ b \in AppRec /\ b.prompt = a.prompt /\ b.processing = a.processing
      /\ b.interrupted = a.interrupted /\ b.compactPending = a.compactPending
  BY <1>5, <1>7 DEF AppRec
<1> HIDE DEF b
<1>9. Good(Become(Answered, b)) /\ Become(Answered, b).app = b
  BY <1>7, <1>8, BecomeGood, BecomeAct DEF Good
<1>10. /\ Good(Send(Answered, Answer("yes", q))) /\ Good(Send(Answered, Answer("no", q)))
       /\ Send(Answered, Answer("yes", q)).app = a
       /\ Send(Answered, Answer("no", q)).app = a
  BY <1>4, <1>7, Sends
<1>11. /\ Good(Send(Send(Become(Answered, b), Answer("no", q)), Cancel))
       /\ Send(Send(Become(Answered, b), Answer("no", q)), Cancel).app = b
  <2>1. /\ Good(Send(Become(Answered, b), Answer("no", q)))
        /\ Send(Become(Answered, b), Answer("no", q)).app = b
    BY <1>4, <1>9, Sends
  <2> QED
    BY <1>4, <2>1, Sends
<1> QED
  BY <1>1, <1>2, <1>5, <1>8, <1>10, <1>11, Keyed

LEMMA Escapes == ASSUME Inv, Esc PROVE Inv'
<1>1. /\ app \in AppRec /\ typed \in SUBSET Texts /\ typed' = typed
      /\ inbox \in Seq(InMsg) /\ AgentTyped /\ AppTyped /\ Listens
  BY DEF Inv, AppTyped, Esc
<1> DEFINE a == [app EXCEPT !.interrupted = TRUE, !.prompt = {},
                            !.indicator = FALSE, !.processing = FALSE]
<1>2. a \in AppRec /\ a.prompt = {} /\ ~ a.processing
  BY <1>1 DEF AppRec
<1>3. Key(Send(Become(Now, a), Cancel))
  BY DEF Esc
<1> HIDE DEF a
<1>4. /\ app' = a /\ inbox' = inbox \o Append(<<>>, Cancel) /\ ui = "keys"
      /\ UNCHANGED <<agentVars, ui, outcome, tasks, astray>>
  BY <1>3 DEF Key, Do, Send, Become, Now
<1>5. inbox' \in Seq(InMsg)
  <2>1. Cancel \in InMsg
    BY DEF Cancel, InMsg
  <2> QED
    BY <1>1, <1>4, <2>1
<1>6. AgentTyped'
  BY <1>1, <1>4 DEF AgentTyped, agentVars
<1>7. AppTyped'
  BY <1>1, <1>2, <1>4, <1>5 DEF AppTyped
<1>8. Listens'
  BY <1>1, <1>2, <1>4 DEF Listens, NoOutcome
<1> QED
  BY <1>2, <1>4, <1>6, <1>7, <1>8 DEF Inv

-----------------------------------------------------------------------------
LEMMA InitInv == Init => Inv
<1> SUFFICES ASSUME Init PROVE Inv
  OBVIOUS
<1>1. /\ gens = <<>> /\ inbox = <<>> /\ out = <<>> /\ tasks = <<>>
      /\ conversation = {} /\ cancelRequested = FALSE /\ pendingApproval = {}
      /\ typed = {} /\ astray = FALSE /\ ui = "drain" /\ outcome = NoOutcome
  BY DEF Init, AgentInit
<1>2. app \in AppRec /\ app.prompt = {} /\ ~ app.processing /\ ~ app.interrupted
  BY DEF Init, AppRec
<1>3. \A S : <<>> \in Seq(S)
  OBVIOUS
<1>4. AgentTyped
  <2>1. gens \in Seq(Gen) /\ out \in Seq(OutMsg)
    BY <1>1, <1>3
  <2>2. DOMAIN gens = {} /\ DOMAIN out = {}
    BY <1>1
  <2>3. /\ conversation \in SUBSET SUBSET Prompts /\ cancelRequested \in BOOLEAN
        /\ pendingApproval \in SUBSET DOMAIN gens
    BY <1>1
  <2> QED
    BY <2>1, <2>2, <2>3 DEF AgentTyped
<1>5. AppTyped
  <2>1. inbox \in Seq(InMsg) /\ tasks \in Seq(InMsg)
    BY <1>1, <1>3
  <2> QED
    BY <1>1, <1>2, <2>1 DEF AppTyped, NoOutcome
<1> QED
  BY <1>1, <1>2, <1>4, <1>5 DEF Inv, Listens, NoOutcome

LEMMA Ticks == ASSUME Inv, NextTick PROVE Inv'
<1>1. /\ ui = "keys" /\ ui' = "drain"
      /\ UNCHANGED <<agentVars, app, outcome, inbox, tasks, typed, astray>>
  BY DEF NextTick
<1> QED
  BY <1>1 DEF Inv, AgentTyped, AppTyped, Listens, Busy, Live, agentVars

LEMMA InvStep == Inv /\ [Next]_vars => Inv'
<1> SUFFICES ASSUME Inv, [Next]_vars PROVE Inv'
  OBVIOUS
<1>1. CASE Receive
  BY <1>1, Receives
<1>2. ASSUME NEW i \in DOMAIN tasks, Synchronise(i) \/ DeliverAnswer(i) PROVE Inv'
  BY <1>2, Synchronises, Delivers
<1>3. ASSUME NEW g \in DOMAIN gens, Work(g) PROVE Inv'
  BY <1>3, Works
<1>4. CASE Drain
  BY <1>4, Drains
<1>5. CASE Pending
  BY <1>5, Pends
<1>6. CASE NextTick
  BY <1>6, Ticks
<1>7. ASSUME NEW m \in Texts, Type(m) PROVE Inv'
  BY <1>7, Types
<1>8. CASE Presses
  BY <1>8, Chooses, Replies DEF Presses
<1>9. CASE Esc
  BY <1>9, Escapes
<1>10. CASE UNCHANGED vars
  BY <1>10 DEF Inv, AgentTyped, AppTyped, Listens, Busy, Live, vars, agentVars
<1> QED
  BY <1>1, <1>2, <1>3, <1>4, <1>5, <1>6, <1>7, <1>8, <1>9, <1>10 DEF Next

LEMMA SpecInv == Spec => []Inv
BY InitInv, InvStep, PTL DEF Spec

-----------------------------------------------------------------------------
(* The sender in the slot is one whose receiver waits, whoever is at work   *)
(* has its own prompt, and only who asked has an answer.                    *)
Slots ==
    /\ pendingApproval \subseteq
          {h \in DOMAIN gens : gens[h].pc = "approve" /\ gens[h].answer = "none"}
    /\ \A h \in DOMAIN gens :
          /\ AtWork(h) => gens[h].prompt \in gens[h].mem
          /\ gens[h].answer # "none" => gens[h].pc = "approve"

LEMMA OneMoves ==
  ASSUME gens \in Seq(Gen), Slots, NEW g \in DOMAIN gens \ pendingApproval,
         NEW r, gens' = [gens EXCEPT ![g] = r], r.prompt = gens[g].prompt,
         r.pc \notin Over /\ r.pc # "spawned" => r.prompt \in r.mem,
         r.answer = "none",
         pendingApproval' = pendingApproval
  PROVE  Slots'
<1>1. /\ DOMAIN gens' = DOMAIN gens /\ gens'[g] = r
      /\ \A h \in DOMAIN gens : h # g => gens'[h] = gens[h]
  OBVIOUS
<1>2. pendingApproval' \subseteq
        {h \in DOMAIN gens' : gens'[h].pc = "approve" /\ gens'[h].answer = "none"}
  BY <1>1 DEF Slots
<1>3. \A h \in DOMAIN gens' :
        /\ AtWork(h)' => gens'[h].prompt \in gens'[h].mem
        /\ gens'[h].answer # "none" => gens'[h].pc = "approve"
  BY <1>1 DEF Slots, AtWork, Live
<1> QED
  BY <1>2, <1>3 DEF Slots

LEMMA GenerateSlots ==
  ASSUME gens \in Seq(Gen), Slots, NEW g \in DOMAIN gens, NEW msgs,
         Generate(g) \/ RequestFails(g, msgs)
  PROVE  Slots'
<1>1. gens[g] \in Gen /\ (gens[g].pc # "approve" => gens[g].answer = "none")
  BY DEF Slots
<1>2. g \in pendingApproval => gens[g].pc = "approve" /\ gens[g].answer = "none"
  BY DEF Slots
<1>3. AtWork(g) => gens[g].prompt \in gens[g].mem
  BY DEF Slots
<1>4. ASSUME NEW pc, Goto(g, pc), At(g, "request") \/ At(g, "poll")
                       \/ At(g, "wait") \/ At(g, "finish"),
             pendingApproval' = pendingApproval
      PROVE  Slots'
  <2> DEFINE r == [gens[g] EXCEPT !.pc = pc]
  <2>1. gens' = [gens EXCEPT ![g] = r]
    BY <1>4 DEF Goto
  <2>2. r.prompt = gens[g].prompt /\ r.mem = gens[g].mem /\ r.answer = "none"
    BY <1>1, <1>4 DEF Gen, At
  <2>3. g \notin pendingApproval /\ AtWork(g)
    BY <1>2, <1>4 DEF At, AtWork, Live, Over
  <2> HIDE DEF r
  <2> QED
    BY <1>3, <1>4, <2>1, <2>2, <2>3, OneMoves
<1>5. CASE Begin(g)
  <2> DEFINE m == (UNION conversation) \cup {gens[g].prompt}
             r == [gens[g] EXCEPT !.pc = "request", !.mem = m]
  <2>1. gens' = [gens EXCEPT ![g] = r] /\ pendingApproval' = pendingApproval
    BY <1>5 DEF Begin
  <2>2. gens[g].prompt \in m
    OBVIOUS
  <2> HIDE DEF m
  <2>3. r.prompt = gens[g].prompt /\ r.mem = m /\ r.answer = "none"
    BY <1>1, <1>5 DEF Gen, Begin, At
  <2>4. g \notin pendingApproval
    BY <1>2, <1>5 DEF Begin, At
  <2> HIDE DEF r
  <2> QED
    BY <2>1, <2>2, <2>3, <2>4, OneMoves
<1>6. CASE Request(g)
  <2> DEFINE n == IF gens[g].cancelled THEN gens[g].late + 1 ELSE gens[g].late
             r == [gens[g] EXCEPT !.pc = "poll", !.late = n]
  <2>1. gens' = [gens EXCEPT ![g] = r] /\ pendingApproval' = pendingApproval
    BY <1>6 DEF Request
  <2> HIDE DEF n
  <2>2. r.prompt = gens[g].prompt /\ r.mem = gens[g].mem /\ r.answer = "none"
    BY <1>1, <1>6 DEF Gen, Request, At
  <2>3. g \notin pendingApproval /\ AtWork(g)
    BY <1>2, <1>6 DEF Request, At, AtWork, Live, Over
  <2> HIDE DEF r
  <2> QED
    BY <1>3, <2>1, <2>2, <2>3, OneMoves
<1>7. CASE Chunk(g)
  <2> DEFINE r == [gens[g] EXCEPT !.pc = "poll", !.heard = TRUE]
  <2>1. gens' = [gens EXCEPT ![g] = r] /\ pendingApproval' = pendingApproval
    BY <1>7 DEF Chunk
  <2>2. r.prompt = gens[g].prompt /\ r.mem = gens[g].mem /\ r.answer = "none"
    BY <1>1, <1>7 DEF Gen, Chunk, At
  <2>3. g \notin pendingApproval /\ AtWork(g)
    BY <1>2, <1>7 DEF Chunk, At, AtWork, Live, Over
  <2> HIDE DEF r
  <2> QED
    BY <1>3, <2>1, <2>2, <2>3, OneMoves
<1>8. CASE RunTool(g) \/ AnswerTaken(g)
  <2>1. PICK pc \in {"request"} \cup IF gens[g].left > 1 THEN {"tool"} ELSE {} :
          gens' = [gens EXCEPT ![g].pc = pc, ![g].answer = "none", ![g].left = @ - 1]
    BY <1>8 DEF RunTool, AnswerTaken, ToolDone
  <2> DEFINE n == gens[g].left - 1
             r == [gens[g] EXCEPT !.pc = pc, !.answer = "none", !.left = n]
  <2>2. gens' = [gens EXCEPT ![g] = r] /\ pendingApproval' = pendingApproval
    BY <1>8, <2>1 DEF RunTool, AnswerTaken, ToolDone
  <2> HIDE DEF n
  <2>3. r.prompt = gens[g].prompt /\ r.mem = gens[g].mem /\ r.answer = "none"
    BY <1>1 DEF Gen
  <2>4. g \notin pendingApproval /\ AtWork(g)
    BY <1>2, <1>8 DEF RunTool, AnswerTaken, At, AtWork, Live, Over
  <2> HIDE DEF r
  <2> QED
    BY <1>3, <2>2, <2>3, <2>4, OneMoves
<1>9. CASE AskUser(g)
  <2>1. /\ At(g, "tool") /\ pendingApproval' = {g} /\ DOMAIN gens' = DOMAIN gens
        /\ gens'[g] = [gens[g] EXCEPT !.pc = "approve"]
        /\ \A h \in DOMAIN gens : h # g =>
             \/ gens'[h] = gens[h]
             \/ h \in pendingApproval /\ gens'[h] = [gens[h] EXCEPT !.answer = "closed"]
    BY <1>9 DEF AskUser
  <2>2. /\ gens'[g].pc = "approve" /\ gens'[g].answer = gens[g].answer
        /\ gens'[g].prompt = gens[g].prompt /\ gens'[g].mem = gens[g].mem
    BY <1>1, <2>1 DEF Gen
  <2>3. \A h \in DOMAIN gens : h # g =>
          /\ gens'[h].pc = gens[h].pc /\ gens'[h].prompt = gens[h].prompt
          /\ gens'[h].mem = gens[h].mem
          /\ gens'[h].answer = gens[h].answer \/ h \in pendingApproval
    <3>1. \A h \in DOMAIN gens : gens[h] \in Gen
      OBVIOUS
    <3> QED
      BY <2>1, <3>1 DEF Gen
  <2>4. gens[g].answer = "none"
    BY <1>1, <2>1 DEF At
  <2>5. AtWork(g)
    BY <2>1 DEF At, AtWork, Live, Over
  <2>6. pendingApproval' \subseteq
        {h \in DOMAIN gens' : gens'[h].pc = "approve" /\ gens'[h].answer = "none"}
    BY <2>1, <2>2, <2>4
  <2>7. ASSUME NEW h \in DOMAIN gens'
        PROVE  /\ AtWork(h)' => gens'[h].prompt \in gens'[h].mem
               /\ gens'[h].answer # "none" => gens'[h].pc = "approve"
    <3>1. CASE h = g
      BY <1>3, <2>2, <2>4, <2>5, <3>1
    <3>2. CASE h # g
      <4>1. /\ AtWork(h) => gens[h].prompt \in gens[h].mem
            /\ gens[h].answer # "none" \/ h \in pendingApproval => gens[h].pc = "approve"
        BY <2>1, <2>7 DEF Slots
      <4>2. AtWork(h)' => AtWork(h)
        BY <2>1, <2>3, <2>7, <3>2 DEF AtWork, Live
      <4> QED
        BY <2>1, <2>3, <2>7, <3>2, <4>1, <4>2
    <3> QED
      BY <3>1, <3>2
  <2> QED
    BY <2>6, <2>7 DEF Slots
<1> QED
  BY <1>4, <1>5, <1>6, <1>7, <1>8, <1>9
     DEF Generate, RequestFails, CancelSeen, Poll, Tick, StreamEnds, StreamErrors, Finish

LEMMA CancelSlots ==
  ASSUME gens \in Seq(Gen), Slots, RequestCancel PROVE Slots'
<1>1. /\ DOMAIN gens' = DOMAIN gens /\ pendingApproval' = pendingApproval
      /\ \A h \in DOMAIN gens : gens[h] \in Gen
      /\ \A h \in DOMAIN gens :
           gens'[h] = [gens[h] EXCEPT !.cancelled = gens[h].cancelled \/ AtWork(h)]
  BY DEF RequestCancel
<1>2. \A h \in DOMAIN gens :
        /\ gens'[h].pc = gens[h].pc /\ gens'[h].answer = gens[h].answer
        /\ gens'[h].prompt = gens[h].prompt /\ gens'[h].mem = gens[h].mem
  BY <1>1 DEF Gen
<1> QED
  BY <1>1, <1>2 DEF Slots, AtWork, Live

LEMMA SpawnSlots ==
  ASSUME gens \in Seq(Gen), Slots, NEW p, Spawn(p), pendingApproval' = pendingApproval
  PROVE  Slots'
<1>1. /\ \A h \in DOMAIN gens : h \in DOMAIN gens' /\ gens'[h] = gens[h]
      /\ \A h \in DOMAIN gens' : h \in DOMAIN gens \/ gens'[h] = Call(p)
  BY DEF Spawn
<1>2. Call(p).pc = "spawned" /\ Call(p).answer = "none"
  BY DEF Call
<1> QED
  BY <1>1, <1>2 DEF Slots, AtWork, Live

LEMMA RespondSlots ==
  ASSUME gens \in Seq(Gen), Slots, NEW a, Respond(a) PROVE Slots'
<1>1. /\ DOMAIN gens' = DOMAIN gens /\ pendingApproval' = {}
      /\ \A h \in DOMAIN gens : gens[h] \in Gen
      /\ \A h \in DOMAIN gens :
           \/ gens'[h] = gens[h]
           \/ h \in pendingApproval /\ gens'[h] = [gens[h] EXCEPT !.answer = a]
  BY DEF Respond
<1>2. \A h \in DOMAIN gens :
        /\ gens'[h].pc = gens[h].pc
        /\ gens'[h].prompt = gens[h].prompt /\ gens'[h].mem = gens[h].mem
        /\ gens'[h].answer = gens[h].answer \/ h \in pendingApproval
  BY <1>1 DEF Gen
<1> QED
  BY <1>1, <1>2 DEF Slots, AtWork, Live

LEMMA SlotsStep == Inv /\ Slots /\ [Next]_vars => Slots'
<1> SUFFICES ASSUME Inv, Slots, [Next]_vars PROVE Slots'
  OBVIOUS
<1>1. gens \in Seq(Gen)
  BY DEF Inv, AgentTyped
<1>2. ASSUME UNCHANGED <<gens, pendingApproval>> PROVE Slots'
  BY <1>2 DEF Slots, AtWork, Live
<1>3. CASE Receive
  <2>1. \/ \E p : Spawn(p) /\ pendingApproval' = pendingApproval
        \/ RequestCancel
        \/ UNCHANGED agentVars
    BY <1>3, Zenon DEF Receive
  <2> QED
    BY <1>1, <1>2, <2>1, SpawnSlots, CancelSlots DEF agentVars
<1>4. ASSUME NEW i \in DOMAIN tasks, Synchronise(i) PROVE Slots'
  BY <1>2, <1>4 DEF Synchronise, SetConversation
<1>5. ASSUME NEW i \in DOMAIN tasks, DeliverAnswer(i) PROVE Slots'
  BY <1>1, <1>5, RespondSlots DEF DeliverAnswer
<1>6. ASSUME NEW g \in DOMAIN gens, Work(g) PROVE Slots'
  BY <1>1, <1>6, GenerateSlots DEF Work
<1>7. CASE Drain
  <2>1. UNCHANGED <<gens, pendingApproval>>
    BY <1>7 DEF Drain, DrainSilenced, DrainText, DrainRequestApproval, DrainError,
       DrainContextCleared, DrainContextInjected, DrainCompacted, DrainDone, Take
  <2> QED
    BY <1>2, <2>1
<1>8. CASE Pending \/ NextTick \/ UNCHANGED vars
  BY <1>2, <1>8 DEF Pending, NextTick, vars, agentVars
<1>9. CASE (\E m \in Texts : Type(m)) \/ Presses \/ Esc
  <2>1. \E s : Key(s)
    BY <1>9, Zenon DEF Type, Presses, Choose, AnswerPrompt, Esc
  <2> QED
    BY <1>2, <2>1 DEF Key, agentVars
<1> QED
  BY <1>3, <1>4, <1>5, <1>6, <1>7, <1>8, <1>9 DEF Next

(* The records of app and agent keep their types: at most one question is   *)
(* shown, the slot of handle_approval_response holds the sender of a        *)
(* generation that still waits, and one at work was told its prompt.        *)
THEOREM TypeCorrect == Spec => []TypeOK
<1>1. Inv /\ Slots => TypeOK
  <2> SUFFICES ASSUME Inv, Slots PROVE TypeOK
    OBVIOUS
  <2>1. AgentTypeOK
    <3>1. /\ gens \in Seq(Gen) /\ cancelRequested \in BOOLEAN
          /\ pendingApproval \in SUBSET DOMAIN gens
      BY DEF Inv, AgentTyped
    <3>2. \A g \in DOMAIN gens : gens[g] \in Gen
      BY <3>1
    <3> QED
      BY <3>1, <3>2 DEF AgentTypeOK, Slots, Gen, Over
  <2>2. /\ app \in AppRec /\ \A p, q \in app.prompt : p = q
        /\ ui \in {"drain", "keys"} /\ typed \in SUBSET Texts /\ astray \in BOOLEAN
    BY DEF Inv, AppTyped
  <2>3. Cardinality(app.prompt) <= 1
    <3>1. CASE app.prompt = {}
      BY <3>1, FS_EmptySet
    <3>2. CASE app.prompt # {}
      <4>1. PICK q \in app.prompt : TRUE
        BY <3>2
      <4>2. app.prompt = {q}
        BY <2>2, <4>1
      <4> QED
        BY <4>2, FS_Singleton
    <3> QED
      BY <3>1, <3>2
  <2>4. ASSUME NEW f \in DOMAIN app
        PROVE  \/ f = "queue" /\ app[f] \in Seq(Texts)
               \/ f \in {"interruptPending", "choice"} /\ app[f] \subseteq Texts
               \/ f = "prompt" /\ Cardinality(app[f]) <= 1
               \/ app[f] \in BOOLEAN
    BY <2>2, <2>3, <2>4 DEF AppRec
  <2> QED
    BY <2>1, <2>2, <2>4 DEF TypeOK
<1>2. Init => Slots
  BY DEF Init, AgentInit, Slots
<1> QED
  BY <1>1, <1>2, SlotsStep, SpecInv, PTL DEF Spec

(* Whatever is typed and pressed and whatever fails, a spinner has its      *)
(* reason: agent_processing is set only while input, a generation or the    *)
(* message that ends it is on its way, so that it is never left set by a    *)
(* Done that agent_interrupted made the app ignore.                         *)
THEOREM SpinnerCorrect == Spec => []SpinnerMeansWork
<1>1. Inv => SpinnerMeansWork
  <2> SUFFICES ASSUME Inv, app.processing PROVE
        \/ Inputs > 0 \/ \E g \in DOMAIN gens : Live(g)
        \/ \E i \in DOMAIN out : out[i].kind \in {"Done", "Error"}
    BY DEF SpinnerMeansWork
  <2>1. Busy
    BY DEF Inv
  <2>2. CASE Has(inbox, {"UserInput"})
    <3> DEFINE I == {i \in DOMAIN inbox : inbox[i].kind = "UserInput"}
    <3>1. IsFiniteSet(DOMAIN inbox)
      <4>1. inbox \in Seq(InMsg)
        BY DEF Inv, AppTyped
      <4>2. DOMAIN inbox = 1..Len(inbox) /\ Len(inbox) \in Nat
        BY <4>1
      <4> QED
        BY <4>2, FS_Interval
    <3>2. IsFiniteSet(I) /\ I # {}
      BY <2>2, <3>1, FS_Subset DEF Has
    <3>3. Cardinality(I) \in Nat /\ Cardinality(I) # 0
      BY <3>2, FS_CardinalityType, FS_EmptySet
    <3> QED
      BY <3>3 DEF Inputs
  <2> QED
    BY <2>1, <2>2 DEF Busy, Has
<1> QED
  BY <1>1, SpecInv, PTL

-----------------------------------------------------------------------------
(* While a compaction has yet to replace the conversation the app waits for *)
(* it, as long as what it reads of can only be the last step of it.         *)
Awaited == (Synchronising => app.sync /\ app.inject) /\ ContinueAfterSummary

(* What a paragraph or a key makes of the app leaves it waiting, and takes  *)
(* up the work only when there is nothing to wait for.                      *)
Waits(s) ==
    /\ s \in Act /\ s.app.sync = app.sync /\ s.app.inject = app.inject
    /\ \A i \in DOMAIN s.send : /\ ~ ReplacesContext(s.send[i])
                                /\ Resumption(s.send[i]) => ~ app.sync

LEMMA NowWaits == ASSUME Inv PROVE Waits(Now)
<1>1. Now.app = app /\ Now.send = <<>> /\ Now \in Act
  BY NowGood DEF Good, Now
<1> QED
  BY <1>1 DEF Waits

LEMMA BecomeWaits ==
  ASSUME NEW s, Waits(s), NEW a \in AppRec, a.sync = s.app.sync,
         a.inject = s.app.inject
  PROVE  Waits(Become(s, a)) /\ Become(s, a).app = a
<1>1. s \in Act
  BY DEF Waits
<1>2. Become(s, a) \in Act /\ Become(s, a).app = a /\ Become(s, a).send = s.send
  BY <1>1, BecomeAct
<1> QED
  BY <1>2 DEF Waits

LEMMA SendWaits ==
  ASSUME NEW s, Waits(s), NEW m \in InMsg, ~ ReplacesContext(m),
         Resumption(m) => ~ app.sync
  PROVE  Waits(Send(s, m)) /\ Send(s, m).app = s.app
<1>1. s \in Act /\ s.send \in Seq(InMsg)
  BY DEF Waits, Act
<1>2. Send(s, m) \in Act /\ Send(s, m).app = s.app
  BY <1>1, SendAct
<1>3. Send(s, m).send = Append(s.send, m)
  BY DEF Send
<1>4. \A i \in DOMAIN Append(s.send, m) :
         \/ i \in DOMAIN s.send /\ Append(s.send, m)[i] = s.send[i]
         \/ Append(s.send, m)[i] = m
  BY <1>1
<1> DEFINE q == Append(s.send, m)
<1> HIDE DEF q
<1>5. \A i \in DOMAIN q : ~ ReplacesContext(q[i]) /\ (Resumption(q[i]) => ~ app.sync)
  BY <1>4 DEF Waits, q
<1> QED
  BY <1>2, <1>3, <1>5 DEF Waits, q

LEMMA SayWaits ==
  ASSUME NEW s, Waits(s), NEW p \in Prompts, p = Continue => ~ app.sync
  PROVE  Waits(Say(s, p))
<1> DEFINE a == [s.app EXCEPT !.processing = TRUE, !.indicator = TRUE]
<1>1. s.app \in AppRec
  BY DEF Waits, Act
<1>2. a \in AppRec /\ a.sync = s.app.sync /\ a.inject = s.app.inject
  BY <1>1 DEF AppRec
<1>3. Say(s, p) = Send(Become(s, a), Input(p))
  BY DEF Say
<1>4. /\ Input(p) \in InMsg /\ Input(p).kind = "UserInput" /\ Input(p).prompt = p
  BY DEF Input, InMsg
<1> HIDE DEF a
<1>5. Waits(Become(s, a))
  BY <1>2, BecomeWaits
<1>6. ~ ReplacesContext(Input(p)) /\ (Resumption(Input(p)) => ~ app.sync)
  BY <1>4 DEF Resumption, ReplacesContext
<1> QED
  BY <1>3, <1>4, <1>5, <1>6, SendWaits

LEMMA SlashWaits ==
  ASSUME NEW s, Waits(s), NEW c, c # "/clear" PROVE Waits(Slash(s, c))
<1> DEFINE a == [s.app EXCEPT !.compactPending = TRUE, !.resume = FALSE,
                              !.resumeReady = FALSE]
<1>1. s.app \in AppRec
  BY DEF Waits, Act
<1>2. a \in AppRec /\ a.sync = s.app.sync /\ a.inject = s.app.inject
  BY <1>1 DEF AppRec
<1>3. Slash(s, c) = s \/ Slash(s, c) = Become(s, a)
  BY DEF Slash
<1> HIDE DEF a
<1>5. Waits(Become(s, a))
  BY <1>2, BecomeWaits
<1> QED
  BY <1>3, <1>5

LEMMA SayOrDoWaits ==
  ASSUME Continue \notin Texts, "/clear" \notin Texts, NEW s, Waits(s), NEW m \in Texts
  PROVE  Waits(SayOrDo(s, m))
<1>1. m \in Prompts /\ m # Continue
  BY DEF Prompts
<1> QED
  BY <1>1, SlashWaits, SayWaits DEF SayOrDo

(* process_pending_actions, as long as the synchronisation is in time.      *)
LEMMA WaitsParagraphs ==
  ASSUME "timeout" \notin Faults, Continue \notin Texts, "/clear" \notin Texts, Inv, NEW s, Waits(s)
  PROVE  /\ Waits(SayInterrupt(s)) /\ Waits(StopToSummarize(s))
         /\ \A low : Waits(SummarizeIfLow(s, low))
         /\ \A timedOut \in {FALSE, "timeout" \in Faults} :
              Waits(SyncTimesOut(s, timedOut))
         /\ Waits(SayContinue(s)) /\ Waits(SayQueued(s)) /\ Waits(Compact(s))
<1>1. s.app \in AppRec
  BY DEF Waits, Act
<1>2. Waits(SayInterrupt(s))
  <2>1. CASE outcome.interrupt # {}
    <3> DEFINE m == CHOOSE n \in outcome.interrupt : TRUE
    <3>1. outcome.interrupt \in SUBSET Texts
      BY DEF Inv, AppTyped
    <3>2. m \in Texts
      BY <2>1, <3>1
    <3>3. SayInterrupt(s) = SayOrDo(s, m)
      BY <2>1 DEF SayInterrupt
    <3> HIDE DEF m
    <3> QED
      BY <3>2, <3>3, SayOrDoWaits
  <2> QED
    BY <2>1 DEF SayInterrupt
<1>3. Waits(StopToSummarize(s))
  <2> DEFINE a == [s.app EXCEPT !.auto = TRUE, !.compactPending = TRUE,
                                !.resume = TRUE, !.resumeReady = FALSE,
                                !.interrupted = TRUE, !.indicator = FALSE]
  <2>1. a \in AppRec /\ a.sync = s.app.sync /\ a.inject = s.app.inject
    BY <1>1 DEF AppRec
  <2>2. StopToSummarize(s) = s \/ StopToSummarize(s) = Send(Become(s, a), Cancel)
    BY DEF StopToSummarize
  <2>3. Cancel \in InMsg /\ Cancel.kind = "Cancel"
    BY DEF Cancel, InMsg
  <2> HIDE DEF a
  <2>4. Waits(Become(s, a))
    BY <2>1, BecomeWaits
  <2>5. Waits(Send(Become(s, a), Cancel))
    BY <2>3, <2>4, SendWaits DEF Resumption, ReplacesContext
  <2> QED
    BY <2>2, <2>5
<1>4. ASSUME NEW low PROVE Waits(SummarizeIfLow(s, low))
  <2> DEFINE a == [s.app EXCEPT !.auto = TRUE, !.compactPending = TRUE,
                                !.resume = FALSE, !.resumeReady = FALSE]
  <2>1. a \in AppRec /\ a.sync = s.app.sync /\ a.inject = s.app.inject
    BY <1>1 DEF AppRec
  <2>2. SummarizeIfLow(s, low) = s \/ SummarizeIfLow(s, low) = Become(s, a)
    BY DEF SummarizeIfLow
  <2> HIDE DEF a
  <2> QED
    BY <2>1, <2>2, BecomeWaits
<1>5. ASSUME NEW timedOut \in {FALSE, "timeout" \in Faults}
      PROVE  Waits(SyncTimesOut(s, timedOut))
  <2>1. ~ timedOut
    OBVIOUS
  <2> QED
    BY <2>1 DEF SyncTimesOut
<1>6. Waits(SayContinue(s))
  <2> DEFINE a == [s.app EXCEPT !.resumeReady = FALSE]
             b == [s.app EXCEPT !.resumeReady = FALSE, !.resume = FALSE,
                                !.interrupted = FALSE]
  <2>1. /\ a \in AppRec /\ a.sync = s.app.sync /\ a.inject = s.app.inject
        /\ b \in AppRec /\ b.sync = s.app.sync /\ b.inject = s.app.inject
    BY <1>1 DEF AppRec
  <2>2. \/ SayContinue(s) = s \/ SayContinue(s) = Become(s, a)
        \/ ~ s.app.sync /\ SayContinue(s) = Say(Become(s, b), Continue)
    BY DEF SayContinue, Resumed
  <2> HIDE DEF a, b
  <2>3. Waits(Become(s, a)) /\ Waits(Become(s, b))
    BY <2>1, BecomeWaits
  <2>4. ~ s.app.sync => Waits(Say(Become(s, b), Continue))
    <3>1. s.app.sync = app.sync /\ Continue \in Prompts
      BY DEF Waits, Prompts
    <3> QED
      BY <2>3, <3>1, SayWaits
  <2> QED
    BY <2>2, <2>3, <2>4
<1>7. Waits(SayQueued(s))
  <2>1. CASE s.app.queue # <<>>
    <3> DEFINE a == [s.app EXCEPT !.queue = Tail(@)]
               m == Head(s.app.queue)
    <3>1. s.app.queue \in Seq(Texts)
      BY <1>1 DEF AppRec
    <3>2. Tail(s.app.queue) \in Seq(Texts) /\ m \in Texts
      BY <2>1, <3>1
    <3>3. a \in AppRec /\ a.sync = s.app.sync /\ a.inject = s.app.inject
      BY <1>1, <3>2 DEF AppRec
    <3>4. SayQueued(s) = s \/ SayQueued(s) = SayOrDo(Become(s, a), m)
      BY DEF SayQueued
    <3> HIDE DEF a, m
    <3>5. Waits(Become(s, a))
      BY <3>3, BecomeWaits
    <3> QED
      BY <3>2, <3>4, <3>5, SayOrDoWaits
  <2> QED
    BY <2>1 DEF SayQueued
<1>8. Waits(Compact(s))
  <2> DEFINE a == [s.app EXCEPT !.compactPending = FALSE, !.compacting = TRUE,
                                !.interrupted = FALSE]
  <2>1. a \in AppRec /\ a.sync = s.app.sync /\ a.inject = s.app.inject
    BY <1>1 DEF AppRec
  <2>2. Compact(s) = s \/ Compact(s) = Say(Become(s, a), Summary)
    BY DEF Compact
  <2> HIDE DEF a
  <2>3. Waits(Become(s, a))
    BY <2>1, BecomeWaits
  <2>4. Summary \in Prompts /\ Summary # Continue
    BY DEF Prompts, Summary, Continue
  <2>5. Waits(Say(Become(s, a), Summary))
    BY <2>3, <2>4, SayWaits
  <2> QED
    BY <2>2, <2>5
<1> QED
  BY <1>2, <1>3, <1>4, <1>5, <1>6, <1>7, <1>8

LEMMA DoesWait ==
  ASSUME Inv, Awaited, NEW s, Waits(s), Do(s), tasks' = tasks
  PROVE  Awaited'
<1> DEFINE q == s.send
<1>1. /\ q \in Seq(InMsg) /\ inbox \in Seq(InMsg) /\ inbox' = inbox \o q /\ app' = s.app
  BY DEF Waits, Act, Inv, AppTyped, Do
<1>2. /\ app'.sync = app.sync /\ app'.inject = app.inject
      /\ \A i \in DOMAIN q : ~ ReplacesContext(q[i]) /\ (Resumption(q[i]) => ~ app.sync)
  BY <1>1 DEF Waits
<1> HIDE DEF q
<1>3. /\ DOMAIN inbox' = 1..Len(inbox) + Len(q) /\ DOMAIN inbox = 1..Len(inbox)
      /\ DOMAIN q = 1..Len(q) /\ Len(inbox) \in Nat /\ Len(q) \in Nat
      /\ \A i \in 1..Len(inbox) : inbox'[i] = inbox[i]
      /\ \A i \in 1..Len(q) : inbox'[Len(inbox) + i] = q[i]
  BY <1>1
<1>4. ASSUME NEW i \in DOMAIN inbox'
      PROVE  \/ i \in DOMAIN inbox /\ inbox'[i] = inbox[i]
             \/ \E k \in DOMAIN q : inbox'[i] = q[k]
  <2>1. CASE i \in 1..Len(inbox)
    BY <1>3, <2>1
  <2>2. CASE i \notin 1..Len(inbox)
    <3>1. i - Len(inbox) \in 1..Len(q) /\ Len(inbox) + (i - Len(inbox)) = i
      BY <1>3, <2>2
    <3> QED
      BY <1>3, <3>1
  <2> QED
    BY <2>1, <2>2
<1>5. Synchronising' => Synchronising
  BY <1>2, <1>4 DEF Synchronising
<1>6. ASSUME NEW j \in DOMAIN inbox', Resumption(inbox'[j])
      PROVE  /\ \A i \in 1..j - 1 : ~ ReplacesContext(inbox'[i])
             /\ \A i \in DOMAIN tasks' : ~ ReplacesContext(tasks'[i])
  <2>1. CASE j \in DOMAIN inbox /\ inbox'[j] = inbox[j]
    <3>1. \A i \in 1..j - 1 : ~ ReplacesContext(inbox[i])
      BY <1>6, <2>1 DEF Awaited, ContinueAfterSummary
    <3>2. \A i \in DOMAIN tasks : ~ ReplacesContext(tasks[i])
      BY <1>6, <2>1 DEF Awaited, ContinueAfterSummary
    <3>3. \A i \in 1..j - 1 : inbox'[i] = inbox[i]
      BY <1>3, <2>1
    <3> QED
      BY <3>1, <3>2, <3>3
  <2>2. CASE \E k \in DOMAIN q : inbox'[j] = q[k]
    <3>1. ~ Synchronising
      BY <1>2, <1>6, <2>2 DEF Awaited
    <3>2. \A i \in DOMAIN inbox' : ~ ReplacesContext(inbox'[i])
      BY <1>2, <1>4, <3>1 DEF Synchronising
    <3>3. \A i \in 1..j - 1 : i \in DOMAIN inbox'
      BY <1>3
    <3> QED
      BY <3>1, <3>2, <3>3 DEF Synchronising
  <2> QED
    BY <1>4, <2>1, <2>2
<1> QED
  BY <1>2, <1>5, <1>6 DEF Awaited, ContinueAfterSummary

(* The agent's thread and its tasks.                                        *)
LEMMA ReceiveWaits ==
  ASSUME Inv, Awaited, Receive PROVE Awaited'
<1> DEFINE m == Head(inbox)
<1>1. /\ inbox # <<>> /\ inbox' = Tail(inbox) /\ app' = app
      /\ \/ tasks' = tasks
         \/ tasks' = Append(tasks, m)
  BY DEF Receive
<1>2. inbox \in Seq(InMsg) /\ tasks \in Seq(InMsg)
  BY DEF Inv, AppTyped
<1>3. /\ 1 \in DOMAIN inbox /\ m = inbox[1]
      /\ \A i \in DOMAIN inbox' : i \in Nat \ {0} /\ i + 1 \in DOMAIN inbox
                                  /\ inbox'[i] = inbox[i + 1]
  BY <1>1, <1>2, TailType
<1>4. \A i \in DOMAIN tasks' : \/ i \in DOMAIN tasks /\ tasks'[i] = tasks[i]
                               \/ tasks'[i] = m
  <2>1. \A i \in DOMAIN Append(tasks, m) :
           \/ i \in DOMAIN tasks /\ Append(tasks, m)[i] = tasks[i]
           \/ Append(tasks, m)[i] = m
    BY <1>2
  <2> QED
    BY <1>1, <2>1
<1> HIDE DEF m
<1>5. Synchronising' => Synchronising
  BY <1>3, <1>4 DEF Synchronising
<1>6. ASSUME NEW j \in DOMAIN inbox', Resumption(inbox'[j])
      PROVE  /\ \A i \in 1..j - 1 : ~ ReplacesContext(inbox'[i])
             /\ \A i \in DOMAIN tasks' : ~ ReplacesContext(tasks'[i])
  <2>1. /\ j \in Nat /\ j + 1 \in DOMAIN inbox /\ Resumption(inbox[j + 1])
    BY <1>3, <1>6
  <2>2. /\ \A i \in 1..(j + 1) - 1 : ~ ReplacesContext(inbox[i])
        /\ \A i \in DOMAIN tasks : ~ ReplacesContext(tasks[i])
    BY <2>1 DEF Awaited, ContinueAfterSummary
  <2>3. ~ ReplacesContext(m)
    <3>1. 1 \in 1..(j + 1) - 1
      BY <1>3, <1>6
    <3> QED
      BY <1>3, <2>2, <3>1
  <2>4. ASSUME NEW i \in 1..j - 1 PROVE ~ ReplacesContext(inbox'[i])
    <3>1. i \in DOMAIN inbox' /\ i + 1 \in 1..(j + 1) - 1
      <4>1. DOMAIN inbox' = 1..Len(inbox) - 1 /\ Len(inbox) \in Nat
        BY <1>1, <1>2
      <4> QED
        BY <1>6, <2>1, <4>1
    <3> QED
      BY <1>3, <2>2, <3>1
  <2> QED
    BY <1>4, <2>2, <2>3, <2>4
<1> QED
  BY <1>1, <1>5, <1>6 DEF Awaited, ContinueAfterSummary

LEMMA TaskWaits ==
  ASSUME Inv, Awaited, NEW i \in DOMAIN tasks, Synchronise(i) \/ DeliverAnswer(i)
  PROVE  Awaited'
<1>1. /\ Finished(i) /\ inbox' = inbox /\ app' = app /\ tasks \in Seq(InMsg)
  BY DEF Synchronise, DeliverAnswer, Inv, AppTyped
<1>2. \A j \in DOMAIN tasks' : \E k \in DOMAIN tasks : tasks'[j] = tasks[k]
  <2>1. i \in 1..Len(tasks) /\ Len(tasks) \in Nat /\ DOMAIN tasks = 1..Len(tasks)
    BY <1>1
  <2>2. \A j \in 1..Len(tasks) - 1 : j \in 1..Len(tasks) /\ j + 1 \in 1..Len(tasks)
    BY <2>1
  <2>3. /\ DOMAIN tasks' = 1..Len(tasks) - 1
        /\ \A j \in DOMAIN tasks' : tasks'[j] = tasks[IF j < i THEN j ELSE j + 1]
    BY <1>1 DEF Finished
  <2> QED
    BY <2>1, <2>2, <2>3
<1> QED
  BY <1>1, <1>2 DEF Awaited, ContinueAfterSummary, Synchronising

(* What the app reads.                                                      *)
LEMMA DrainWaits ==
  ASSUME Inv, Awaited, ~ Crossing, Drain PROVE Awaited'
<1>1. app \in AppRec /\ tasks' = tasks /\ inbox \in Seq(InMsg)
  BY DEF Inv, AppTyped, Drain, DrainSilenced, DrainText, DrainRequestApproval,
     DrainError, DrainContextCleared, DrainContextInjected, DrainCompacted,
     DrainDone, Take
<1>2. ASSUME inbox' = inbox, app'.sync = app.sync, app'.inject = app.inject
      PROVE  Awaited'
  BY <1>1, <1>2 DEF Awaited, ContinueAfterSummary, Synchronising
<1>3. ASSUME NEW kind, DrainSilenced(kind) PROVE Awaited'
  <2>1. inbox' = inbox
        /\ \/ app' = app
           \/ app' = [app EXCEPT !.interrupted = FALSE, !.indicator = FALSE,
                                 !.prompt = {}]
    BY <1>3 DEF DrainSilenced
  <2> QED
    BY <1>1, <1>2, <2>1 DEF AppRec
<1>4. CASE DrainText
  <2>1. inbox' = inbox /\ \E shown : app' = [app EXCEPT !.indicator = shown]
    BY <1>4 DEF DrainText
  <2> QED
    BY <1>1, <1>2, <2>1 DEF AppRec
<1>5. CASE DrainRequestApproval
  <2>1. inbox' = inbox /\ app' = [app EXCEPT !.prompt = {Head(out).of}]
    BY <1>5 DEF DrainRequestApproval, AppOnly
  <2> QED
    BY <1>1, <1>2, <2>1 DEF AppRec
<1>6. CASE DrainError
  <2>1. inbox' = inbox /\ app' = [app EXCEPT !.processing = FALSE,
                                             !.indicator = FALSE, !.prompt = {}]
    BY <1>6 DEF DrainError, AppOnly
  <2> QED
    BY <1>1, <1>2, <2>1 DEF AppRec
<1>7. CASE DrainContextCleared
  <2>1. inbox' = inbox /\ app' = [app EXCEPT !.sync = app.sync /\ app.inject]
    BY <1>7 DEF DrainContextCleared, AppOnly
  <2>2. app'.sync = (app.sync /\ app.inject) /\ app'.inject = app.inject
    BY <1>1, <2>1 DEF AppRec
  <2> QED
    BY <1>1, <2>1, <2>2 DEF Awaited, ContinueAfterSummary, Synchronising
<1>8. CASE DrainContextInjected
  <2>1. inbox' = inbox /\ out # <<>> /\ Head(out).kind = "ContextInjected"
    BY <1>8 DEF DrainContextInjected, AppOnly, Take
  <2>2. 1 \in DOMAIN out /\ out[1] = Head(out)
    BY <2>1, TailType DEF Inv, AgentTyped
  <2>3. ~ Synchronising
    BY <2>1, <2>2 DEF Crossing
  <2> QED
    BY <1>1, <2>1, <2>3 DEF Awaited, ContinueAfterSummary, Synchronising
<1>9. CASE DrainDone
  <2>1. /\ inbox' = inbox
        /\ \/ app' = TurnOver
           \/ app' = [TurnOver EXCEPT !.interruptPending = {}]
    BY <1>9 DEF DrainDone
  <2> DEFINE over == TurnOver
  <2>2. over \in AppRec /\ over.sync = app.sync /\ over.inject = app.inject
    BY <1>1 DEF TurnOver, AppRec
  <2>3. app' = over \/ app' = [over EXCEPT !.interruptPending = {}]
    BY <2>1
  <2> HIDE DEF over
  <2>4. app'.sync = app.sync /\ app'.inject = app.inject
    BY <2>2, <2>3 DEF AppRec
  <2> QED
    BY <1>2, <2>1, <2>4
<1>10. CASE DrainCompacted
  <2> DEFINE over == [TurnOver EXCEPT !.compacting = FALSE, !.auto = FALSE]
             a == [over EXCEPT !.resume = FALSE, !.resumeReady = FALSE]
             b == [over EXCEPT !.sync = TRUE, !.inject = TRUE,
                               !.resumeReady = @ \/ app.resume]
  <2>1. PICK s \in Summaries(Head(out).of) :
          Do(IF s = {} THEN Become(Now, a)
             ELSE Send(Send(Become(Now, b), ClearContext),
                       InjectContext(CHOOSE m \in s : TRUE)))
    BY <1>10 DEF DrainCompacted
  <2> DEFINE j == InjectContext(CHOOSE m \in s : TRUE)
  <2>2. over \in AppRec /\ over.sync = app.sync /\ over.inject = app.inject
    BY <1>1 DEF TurnOver, AppRec
  <2> HIDE DEF over
  <2>3. a.sync = app.sync /\ a.inject = app.inject /\ b.sync /\ b.inject
    BY <2>2 DEF AppRec
  <2> HIDE DEF a, b, j
  <2>4. \/ app' = a /\ inbox' = inbox \o <<>>
        \/ app' = b /\ inbox' = inbox \o Append(Append(<<>>, ClearContext), j)
    BY <2>1 DEF Do, Become, Send, Now, j
  <2>5. CASE app' = a /\ inbox' = inbox \o <<>>
    BY <1>1, <1>2, <2>3, <2>5
  <2>6. CASE app' = b /\ inbox' = inbox \o <<ClearContext, j>>
    <3>1. ~ Resumption(ClearContext) /\ ~ Resumption(j)
      BY DEF Resumption, ClearContext, j, InjectContext
    <3>2. /\ DOMAIN inbox' = 1..Len(inbox) + 2 /\ Len(inbox) \in Nat
          /\ DOMAIN inbox = 1..Len(inbox)
          /\ \A i \in 1..Len(inbox) : inbox'[i] = inbox[i]
          /\ inbox'[Len(inbox) + 1] = ClearContext /\ inbox'[Len(inbox) + 2] = j
      BY <1>1, <2>6
    <3>3. ASSUME NEW n \in DOMAIN inbox', Resumption(inbox'[n])
          PROVE  /\ \A i \in 1..n - 1 : ~ ReplacesContext(inbox'[i])
                 /\ \A i \in DOMAIN tasks' : ~ ReplacesContext(tasks'[i])
      <4>1. n \in 1..Len(inbox)
        BY <3>1, <3>2, <3>3
      <4>2. inbox'[n] = inbox[n] /\ \A i \in 1..n - 1 : inbox'[i] = inbox[i]
        BY <3>2, <4>1
      <4> QED
        BY <1>1, <3>2, <3>3, <4>1, <4>2 DEF Awaited, ContinueAfterSummary
    <3> QED
      BY <2>3, <2>6, <3>3 DEF Awaited, ContinueAfterSummary
  <2> QED
    BY <2>4, <2>5, <2>6
<1> QED
  BY <1>3, <1>4, <1>5, <1>6, <1>7, <1>8, <1>9, <1>10 DEF Drain

LEMMA PendingWaits ==
  ASSUME "timeout" \notin Faults, Continue \notin Texts, "/clear" \notin Texts, Inv, Awaited, Pending
  PROVE  Awaited'
<1>1. PICK low \in Lows, timedOut \in {FALSE, "timeout" \in Faults} :
         Do(Compact(SayQueued(SayContinue(SyncTimesOut(SummarizeIfLow(
              StopToSummarize(SayInterrupt(Now)), low), timedOut)))))
  BY DEF Pending
<1> DEFINE s1 == SayInterrupt(Now)
           s2 == StopToSummarize(s1)
           s3 == SummarizeIfLow(s2, low)
           s4 == SyncTimesOut(s3, timedOut)
           s5 == SayContinue(s4)
           s6 == SayQueued(s5)
<1>2. Waits(s1)
  BY NowWaits, WaitsParagraphs
<1>3. Waits(s2)
  <2> HIDE DEF s1
  <2> QED
    BY <1>2, WaitsParagraphs
<1>4. Waits(s3)
  <2> HIDE DEF s2
  <2> QED
    BY <1>3, WaitsParagraphs
<1>5. Waits(s4)
  <2> HIDE DEF s3
  <2> QED
    BY <1>4, WaitsParagraphs
<1>6. Waits(s5)
  <2> HIDE DEF s4
  <2> QED
    BY <1>5, WaitsParagraphs
<1>7. Waits(s6)
  <2> HIDE DEF s5
  <2> QED
    BY <1>6, WaitsParagraphs
<1>8. Do(Compact(s6)) /\ tasks' = tasks
  BY <1>1 DEF Pending
<1> HIDE DEF s6
<1>9. Waits(Compact(s6))
  BY <1>7, WaitsParagraphs
<1> QED
  BY <1>8, <1>9, DoesWait

(* Keys start and end turns, and leave the synchronisation alone.           *)
LEMMA KeyWaits ==
  ASSUME Continue \notin Texts, "/clear" \notin Texts, Inv, Awaited,
         \/ \E m \in Texts : Type(m)
         \/ Presses \/ Esc
  PROVE  Awaited'
<1>1. app \in AppRec /\ Waits(Now) /\ Now.app = app
  BY NowWaits DEF Inv, AppTyped, Now
<1>2. ASSUME NEW s, Waits(s), Key(s) PROVE Awaited'
  BY <1>2, DoesWait DEF Key
<1>3. Cancel \in InMsg /\ Cancel.kind = "Cancel"
  BY DEF Cancel, InMsg
<1>4. ASSUME NEW s, Waits(s) PROVE Waits(Send(s, Cancel))
  BY <1>3, <1>4, SendWaits DEF Resumption, ReplacesContext
<1>5. ASSUME NEW m \in Texts, Type(m) PROVE Awaited'
  <2> DEFINE a == [app EXCEPT !.choice = {m}]
             b == [app EXCEPT !.interrupted = FALSE]
  <2>1. /\ a \in AppRec /\ a.sync = app.sync /\ a.inject = app.inject
        /\ b \in AppRec /\ b.sync = app.sync /\ b.inject = app.inject
    BY <1>1 DEF AppRec
  <2>2. \/ Key(Become(Now, a)) \/ Key(Slash(Now, m)) \/ Key(Say(Become(Now, b), m))
    BY <1>5 DEF Type
  <2> HIDE DEF a, b
  <2>3. Waits(Become(Now, a)) /\ Waits(Become(Now, b)) /\ Waits(Slash(Now, m))
    BY <1>1, <2>1, BecomeWaits, SlashWaits
  <2>4. Waits(Say(Become(Now, b), m))
    BY <2>3, SayWaits DEF Prompts
  <2> QED
    BY <1>2, <2>2, <2>3, <2>4
<1>6. ASSUME NEW k, Choose(k) PROVE Awaited'
  <2> DEFINE m == CHOOSE m \in app.choice : TRUE
             a == [app EXCEPT !.choice = {}]
             b == [a EXCEPT !.queue = Append(@, m)]
             c == [a EXCEPT !.interruptPending = {m}, !.indicator = FALSE]
  <2>1. app.choice # {}
        /\ \/ Key(Become(Now, b)) \/ Key(Send(Become(Now, c), Cancel))
           \/ Key(Become(Now, a))
    BY <1>6, Zenon DEF Choose
  <2>2. m \in Texts /\ app.queue \in Seq(Texts)
    <3>1. app.choice \in SUBSET Texts /\ app.queue \in Seq(Texts)
      BY <1>1 DEF AppRec
    <3> QED
      BY <2>1, <3>1
  <2> HIDE DEF m
  <2>3. a \in AppRec /\ a.sync = app.sync /\ a.inject = app.inject /\ a.queue = app.queue
    BY <1>1 DEF AppRec
  <2> HIDE DEF a
  <2>4. b \in AppRec /\ b.sync = app.sync /\ b.inject = app.inject
    <3> DEFINE q == Append(a.queue, m)
    <3>1. q \in Seq(Texts) /\ b = [a EXCEPT !.queue = q]
      BY <2>2, <2>3
    <3> HIDE DEF q, b
    <3> QED
      BY <2>3, <3>1 DEF AppRec
  <2>5. c \in AppRec /\ c.sync = app.sync /\ c.inject = app.inject
    BY <2>2, <2>3 DEF AppRec
  <2> HIDE DEF b, c
  <2>6. \A d \in {a, b, c} : Waits(Become(Now, d))
    BY <1>1, <2>3, <2>4, <2>5, BecomeWaits
  <2> QED
    BY <1>2, <1>4, <2>1, <2>6
<1>7. ASSUME NEW k, AnswerPrompt(k) PROVE Awaited'
  <2> DEFINE q == CHOOSE q \in app.prompt : TRUE
             a == [app EXCEPT !.prompt = {}]
             b == [Answered.app EXCEPT !.indicator = FALSE]
  <2>1. app.prompt # {}
        /\ \/ Key(Send(Answered, Answer("yes", q)))
           \/ Key(Send(Answered, Answer("no", q)))
           \/ Key(Send(Send(Become(Answered, b), Answer("no", q)), Cancel))
    BY <1>7, Zenon DEF AnswerPrompt
  <2>2. q \in Question
    <3>1. app.prompt \in SUBSET Question
      BY <1>1 DEF AppRec
    <3> QED
      BY <2>1, <3>1
  <2> HIDE DEF q
  <2>3. ASSUME NEW s, Waits(s), NEW x \in {"yes", "no"} PROVE Waits(Send(s, Answer(x, q)))
    <3>1. Answer(x, q) \in InMsg /\ Answer(x, q).kind = "ApprovalResponse"
      BY <2>2 DEF Answer, InMsg
    <3> QED
      BY <2>3, <3>1, SendWaits DEF Resumption, ReplacesContext
  <2>4. a \in AppRec /\ a.sync = app.sync /\ a.inject = app.inject
    BY <1>1 DEF AppRec
  <2>5. Answered = Become(Now, a)
    BY DEF Answered
  <2> HIDE DEF a
  <2>6. Waits(Answered) /\ Answered.app = a
    BY <1>1, <2>4, <2>5, BecomeWaits
  <2>7. b \in AppRec /\ b.sync = a.sync /\ b.inject = a.inject
    BY <2>4, <2>6 DEF AppRec
  <2> HIDE DEF b
  <2>8. Waits(Become(Answered, b))
    BY <2>6, <2>7, BecomeWaits
  <2>9. /\ Waits(Send(Answered, Answer("yes", q))) /\ Waits(Send(Answered, Answer("no", q)))
        /\ Waits(Send(Become(Answered, b), Answer("no", q)))
    BY <2>3, <2>6, <2>8
  <2> QED
    BY <1>2, <1>4, <2>1, <2>9
<1>8. CASE Esc
  <2> DEFINE a == [app EXCEPT !.interrupted = TRUE, !.prompt = {},
                              !.indicator = FALSE, !.processing = FALSE]
  <2>1. a \in AppRec /\ a.sync = app.sync /\ a.inject = app.inject
    BY <1>1 DEF AppRec
  <2>2. Key(Send(Become(Now, a), Cancel))
    BY <1>8 DEF Esc
  <2> HIDE DEF a
  <2>3. Waits(Become(Now, a))
    BY <1>1, <2>1, BecomeWaits
  <2> QED
    BY <1>2, <1>4, <2>2, <2>3
<1> QED
  BY <1>5, <1>6, <1>7, <1>8 DEF Presses

LEMMA AwaitedStep ==
  ASSUME "timeout" \notin Faults, Continue \notin Texts, "/clear" \notin Texts
  PROVE  Inv /\ Awaited /\ ~ Crossing /\ [Next]_vars => Awaited'
<1> SUFFICES ASSUME Inv, Awaited, ~ Crossing, [Next]_vars PROVE Awaited'
  OBVIOUS
<1>1. ASSUME UNCHANGED <<app, inbox, tasks>> PROVE Awaited'
  BY <1>1 DEF Awaited, ContinueAfterSummary, Synchronising
<1>2. ASSUME NEW g, Work(g) PROVE Awaited'
  BY <1>1, <1>2 DEF Work
<1>3. CASE NextTick \/ UNCHANGED vars
  BY <1>1, <1>3 DEF NextTick, vars
<1> QED
  BY <1>2, <1>3, ReceiveWaits, TaskWaits, DrainWaits, PendingWaits, KeyWaits DEF Next

(***************************************************************************)
(* The app takes up the work only when the summary has become the          *)
(* conversation: context_sync_pending and context_inject_expected hold     *)
(* maybe_send_compaction_resume_prompt back, whatever the user presses and *)
(* however the context runs low, as long as the synchronisation does not   *)
(* time out, no user types "/clear" or the very prompt, and an             *)
(* InjectContext neither overtakes its ClearContext nor crosses with the   *)
(* next compaction.                                                        *)
(***************************************************************************)
THEOREM ContinueCorrect ==
  ASSUME "timeout" \notin Faults, Continue \notin Texts, "/clear" \notin Texts
  PROVE  Spec => ([]~Crossing => []ContinueAfterSummary)
<1>1. Init => Awaited
  <2> SUFFICES ASSUME Init PROVE Awaited
    OBVIOUS
  <2>1. DOMAIN inbox = {} /\ DOMAIN tasks = {}
    BY DEF Init
  <2> QED
    BY <2>1 DEF Awaited, ContinueAfterSummary, Synchronising
<1>2. Awaited => ContinueAfterSummary
  BY DEF Awaited
<1>3. Inv /\ Awaited /\ ~ Crossing /\ [Next]_vars => Awaited'
  BY AwaitedStep
<1> QED
  BY <1>1, <1>2, <1>3, SpecInv, PTL DEF Spec
=============================================================================
