-------------------------- MODULE SubAgentsProofs --------------------------
(* Theorems about SubAgents, for any number of sub-agents and commands.     *)
EXTENDS SubAgents, TLAPS

Pcs     == {"spawned", "request", "poll", "wait", "tool", "approve", "finish",
            "ended", "stopped", "failed"}
Answers == {"none", "yes", "no", "closed"}
Gen     == [prompt : Nat, pc : Pcs, mem : SUBSET Nat, left : 0..MaxCommands,
            answer : Answers, heard : BOOLEAN, cancelled : BOOLEAN, late : Nat]
Job     == [pc : {"idle", "listen", "join"}, role : Roles, requested : BOOLEAN,
            error : BOOLEAN]
Entry   == [role : Roles, state : {"Completed", "Cancelled", "Failed"}]

Shape ==
    /\ gens \in Seq(Gen) /\ job \in Job /\ log \in Seq(Entry)
    /\ conversation \in SUBSET SUBSET Nat /\ cancelRequested \in BOOLEAN
    /\ pendingApproval \subseteq DOMAIN gens
    /\ tools \in {"all", "readonly", "verifier"} /\ cancelRx \in 0..1

(* A generation at a command may still ask for one.                         *)
Counted == \A g \in DOMAIN gens :
    gens[g].pc \in {"tool", "approve"} => gens[g].left > 0

(* One sub-agent at a time: the last one while there is a job.              *)
OneAtWork ==
    /\ Len(gens) = IF job.pc = "idle" THEN Len(log) ELSE Len(log) + 1
    /\ \A g \in DOMAIN gens : Live(g) => g = Len(gens) /\ job.pc # "idle"

(* Nobody sets its flag but the job it belongs to.                          *)
Flagged == job.pc # "idle" =>
    (cancelRequested \/ gens[Len(gens)].pc = "stopped" => job.requested)

(* The conversation of a sub-agent that has not begun is empty.             *)
Fresh == \A g \in DOMAIN gens : gens[g].pc = "spawned" => conversation = {}

Inv == Shape /\ Counted /\ OneAtWork /\ Flagged /\ Fresh
         /\ OwnContext /\ CompletedRanWhole

-----------------------------------------------------------------------------
(* Sequences as functions, and one entry of a sequence replaced.            *)
LEMMA SeqOf ==
  ASSUME NEW S, NEW n \in Nat, NEW f \in [1..n -> S]
  PROVE  f \in Seq(S) /\ Len(f) = n /\ DOMAIN f = 1..n
OBVIOUS

LEMMA Replaced ==
  ASSUME NEW S, NEW s \in Seq(S), NEW i \in DOMAIN s, NEW x \in S
  PROVE  /\ [s EXCEPT ![i] = x] \in Seq(S) /\ Len([s EXCEPT ![i] = x]) = Len(s)
         /\ [s EXCEPT ![i] = x][i] = x
         /\ \A j \in DOMAIN s : j # i => [s EXCEPT ![i] = x][j] = s[j]
OBVIOUS

LEMMA InitInv == Init => Inv
<1> SUFFICES ASSUME Init PROVE Inv
  OBVIOUS
<1>1. /\ gens = <<>> /\ log = <<>> /\ job = Idle /\ conversation = {}
      /\ cancelRequested = FALSE /\ pendingApproval = {} /\ tools = "all"
      /\ cancelRx = 0
  BY DEF Init, AgentInit
<1>2. job \in Job /\ job.pc = "idle"
  BY <1>1 DEF Idle, Job, Roles
<1>3. /\ gens \in Seq(Gen) /\ log \in Seq(Entry) /\ Len(gens) = 0 /\ Len(log) = 0
      /\ DOMAIN gens = {} /\ DOMAIN log = {}
  BY <1>1
<1>4. Shape
  <2>1. conversation \in SUBSET SUBSET Nat /\ pendingApproval \subseteq DOMAIN gens
    BY <1>1
  <2>2. cancelRequested \in BOOLEAN
    BY <1>1, Zenon
  <2>3. cancelRx \in 0..1
    BY <1>1
  <2> QED
    BY <1>1, <1>2, <1>3, <2>1, <2>2, <2>3 DEF Shape
<1>5. Counted /\ OneAtWork /\ Flagged /\ Fresh
  BY <1>1, <1>2, <1>3 DEF Counted, OneAtWork, Flagged, Fresh
<1>6. OwnContext /\ CompletedRanWhole
  BY <1>3 DEF OwnContext, CompletedRanWhole
<1> QED
  BY <1>4, <1>5, <1>6 DEF Inv

(* What a step of the blocking thread does to the generation at work, while *)
(* nothing of the job changes.                                              *)
LEMMA Works ==
  ASSUME Inv, NEW g \in DOMAIN gens, Live(g),
         gens' \in Seq(Gen), Len(gens') = Len(gens),
         \A h \in DOMAIN gens : h # g =>
            gens'[h].pc = gens[h].pc /\ gens'[h].left = gens[h].left
              /\ gens'[h].mem = gens[h].mem /\ gens'[h].prompt = gens[h].prompt,
         gens'[g].prompt = gens[g].prompt, gens'[g].pc # "spawned",
         gens'[g].pc \notin Over => gens'[g].mem = {gens[g].prompt},
         gens'[g].pc \in {"tool", "approve"} => gens'[g].left > 0,
         gens'[g].pc = "stopped" => cancelRequested,
         cancelRequested' \in BOOLEAN, cancelRequested' => cancelRequested,
         conversation' \in SUBSET SUBSET Nat,
         pendingApproval' \subseteq DOMAIN gens,
         UNCHANGED <<tools, job, cancelRx, log>>
  PROVE  Inv'
<1>1. /\ DOMAIN gens' = DOMAIN gens /\ g = Len(gens) /\ job.pc # "idle"
      /\ Len(gens) = Len(log) + 1 /\ DOMAIN gens = 1..Len(gens) /\ Len(log) \in Nat
      /\ DOMAIN log = 1..Len(log)
  BY DEF Inv, Shape, OneAtWork
<1>2. Shape'
  BY <1>1 DEF Inv, Shape
<1>3. Counted'
  BY <1>1 DEF Inv, Counted
<1>4. OneAtWork'
  BY <1>1 DEF Inv, OneAtWork, Live
<1>5. Flagged'
  BY <1>1 DEF Inv, Flagged
<1>6. Fresh'
  <2>1. \A h \in DOMAIN gens : h # g => gens[h].pc # "spawned"
    BY <1>1 DEF Inv, OneAtWork, Live, Over
  <2> QED
    BY <1>1, <2>1 DEF Fresh
<1>7. OwnContext'
  <2>1. \A h \in DOMAIN gens : h # g => gens[h].pc \in Over
    BY <1>1 DEF Inv, OneAtWork, Live
  <2> QED
    BY <1>1, <2>1 DEF OwnContext, AtWork, Live
<1>8. CompletedRanWhole'
  BY <1>1 DEF Inv, CompletedRanWhole
<1> QED
  BY <1>2, <1>3, <1>4, <1>5, <1>6, <1>7, <1>8 DEF Inv

(* The actions of Agent, one by one.                                        *)
LEMMA GenerateInv ==
  ASSUME Inv, NEW g \in DOMAIN gens, Generate(g) \/ RequestFails(g, <<>>),
         UNCHANGED <<tools, job, cancelRx, log>>
  PROVE  Inv'
<1>1. /\ gens \in Seq(Gen) /\ gens[g] \in Gen /\ DOMAIN gens = 1..Len(gens)
      /\ Len(gens) \in Nat
      /\ pendingApproval \subseteq DOMAIN gens /\ cancelRequested \in BOOLEAN
      /\ conversation \in SUBSET SUBSET Nat /\ MaxCommands \in Nat
  BY AgentAssumption DEF Inv, Shape
<1>2. Live(g) /\ gens[g].pc # "spawned" => gens[g].mem = {gens[g].prompt}
  BY DEF Inv, OwnContext, AtWork
<1>3. gens[g].pc \in {"tool", "approve"} => gens[g].left > 0
  BY DEF Inv, Counted
<1>a. ASSUME NEW pc \in Pcs \ {"spawned"}, Goto(g, pc), Live(g), gens[g].pc # "spawned",
             pc \in {"tool", "approve"} => gens[g].left > 0,
             pc = "stopped" => cancelRequested,
             cancelRequested' = cancelRequested,
             conversation' \in {conversation, {gens[g].mem}},
             pendingApproval' = pendingApproval
      PROVE  Inv'
  <2>r. [gens[g] EXCEPT !.pc = pc] \in Gen
    BY <1>1 DEF Gen
  <2>1. gens' \in Seq(Gen) /\ Len(gens') = Len(gens)
    BY <1>1, <1>a, <2>r, Replaced DEF Goto
  <2>2. \A h \in DOMAIN gens : h # g => gens'[h] = gens[h]
    BY <1>1, <1>a DEF Goto
  <2>3. /\ gens'[g].pc = pc /\ gens'[g].mem = gens[g].mem
        /\ gens'[g].left = gens[g].left /\ gens'[g].prompt = gens[g].prompt
    BY <1>1, <1>a DEF Goto, Gen
  <2>4. conversation' \in SUBSET SUBSET Nat
    BY <1>1, <1>a DEF Gen
  <2> QED
    BY <1>1, <1>2, <1>a, <2>1, <2>2, <2>3, <2>4, Works DEF Over
<1>b. ASSUME ToolDone(g), gens[g].pc \in {"tool", "approve"}
      PROVE  Inv'
  <2>0. /\ gens[g].left \in 1..MaxCommands /\ Live(g) /\ gens[g].mem = {gens[g].prompt}
    BY <1>1, <1>2, <1>3, <1>b DEF Gen, Live, Over
  <2>1. PICK pc \in {"request"} \cup IF gens[g].left > 1 THEN {"tool"} ELSE {} :
          gens' = [gens EXCEPT ![g].pc = pc, ![g].answer = "none", ![g].left = @ - 1]
    BY <1>b DEF ToolDone
  <2>2. pc \in Pcs \ {"spawned", "stopped"} /\ (pc \in {"tool", "approve"} => gens[g].left > 1)
    BY <2>1 DEF Pcs
  <2> DEFINE r == [gens[g] EXCEPT !.pc = pc, !.answer = "none", !.left = gens[g].left - 1]
  <2>r. r \in Gen
    <3>1. gens[g].left - 1 \in 0..MaxCommands
      BY <1>1, <2>0
    <3> QED
      BY <1>1, <2>2, <3>1 DEF Gen, Answers
  <2>s. gens' = [gens EXCEPT ![g] = r]
    BY <1>1, <2>1
  <2>3. gens' \in Seq(Gen) /\ Len(gens') = Len(gens)
    BY <1>1, <2>r, <2>s, Replaced
  <2>4. \A h \in DOMAIN gens : h # g => gens'[h] = gens[h]
    BY <1>1, <2>1
  <2>5. /\ gens'[g].pc = pc /\ gens'[g].mem = gens[g].mem
        /\ gens'[g].left = gens[g].left - 1 /\ gens'[g].prompt = gens[g].prompt
    BY <1>1, <2>1 DEF Gen
  <2>6. /\ conversation' = conversation /\ cancelRequested' = cancelRequested
        /\ pendingApproval' = pendingApproval
    BY <1>b DEF ToolDone
  <2>7. gens'[g].pc \in {"tool", "approve"} => gens'[g].left > 0
    BY <2>0, <2>2, <2>5
  <2> QED
    BY <1>1, <2>0, <2>2, <2>3, <2>4, <2>5, <2>6, <2>7, Works
<1>c. CASE Begin(g)
  <2>1. gens[g].pc = "spawned" /\ conversation = {} /\ Live(g)
    BY <1>c DEF Begin, At, Inv, Fresh, Live, Over
  <2>2. gens' = [gens EXCEPT ![g].pc = "request", ![g].mem = {gens[g].prompt}]
    BY <1>c, <2>1 DEF Begin
  <2>r. [gens[g] EXCEPT !.pc = "request", !.mem = {gens[g].prompt}] \in Gen
    BY <1>1, <2>2 DEF Gen, Pcs
  <2>s. gens' = [gens EXCEPT ![g] = [gens[g] EXCEPT !.pc = "request", !.mem = {gens[g].prompt}]]
    BY <1>1, <2>2
  <2>3. gens' \in Seq(Gen) /\ Len(gens') = Len(gens)
    BY <1>1, <2>r, <2>s, Replaced
  <2>4. \A h \in DOMAIN gens : h # g => gens'[h] = gens[h]
    BY <1>1, <2>2
  <2>5. /\ gens'[g].pc = "request" /\ gens'[g].mem = {gens[g].prompt}
        /\ gens'[g].prompt = gens[g].prompt
    BY <1>1, <2>2 DEF Gen
  <2>6. /\ conversation' = {} /\ cancelRequested' = FALSE
        /\ pendingApproval' = pendingApproval
    BY <1>c DEF Begin
  <2> QED
    BY <1>1, <2>1, <2>3, <2>4, <2>5, <2>6, Works
<1>d. CASE Request(g)
  <2>1. gens[g].pc = "request" /\ Live(g) /\ gens[g].mem = {gens[g].prompt}
    BY <1>2, <1>d DEF Request, At, Live, Over
  <2>2. PICK n \in Nat : gens' = [gens EXCEPT ![g].pc = "poll", ![g].late = n]
    <3>1. gens[g].late \in Nat
      BY <1>1 DEF Gen
    <3>2. (IF gens[g].cancelled THEN gens[g].late + 1 ELSE gens[g].late) \in Nat
      BY <3>1
    <3> QED
      BY <1>1, <1>d, <3>2 DEF Request
  <2>r. [gens[g] EXCEPT !.pc = "poll", !.late = n] \in Gen
    BY <1>1, <2>2 DEF Gen, Pcs
  <2>s. gens' = [gens EXCEPT ![g] = [gens[g] EXCEPT !.pc = "poll", !.late = n]]
    BY <1>1, <2>2
  <2>3. gens' \in Seq(Gen) /\ Len(gens') = Len(gens)
    BY <1>1, <2>r, <2>s, Replaced
  <2>4. \A h \in DOMAIN gens : h # g => gens'[h] = gens[h]
    BY <1>1, <2>2
  <2>5. /\ gens'[g].pc = "poll" /\ gens'[g].mem = gens[g].mem
        /\ gens'[g].prompt = gens[g].prompt
    BY <1>1, <2>2 DEF Gen
  <2>6. /\ conversation' = conversation /\ cancelRequested' = cancelRequested
        /\ pendingApproval' = pendingApproval
    BY <1>d DEF Request
  <2> QED
    BY <1>1, <2>1, <2>3, <2>4, <2>5, <2>6, Works
<1>e. CASE Chunk(g)
  <2>1. gens[g].pc = "wait" /\ Live(g) /\ gens[g].mem = {gens[g].prompt}
    BY <1>2, <1>e DEF Chunk, At, Live, Over
  <2>2. gens' = [gens EXCEPT ![g].pc = "poll", ![g].heard = TRUE]
    BY <1>e DEF Chunk
  <2>r. [gens[g] EXCEPT !.pc = "poll", !.heard = TRUE] \in Gen
    BY <1>1, <2>2 DEF Gen, Pcs
  <2>s. gens' = [gens EXCEPT ![g] = [gens[g] EXCEPT !.pc = "poll", !.heard = TRUE]]
    BY <1>1, <2>2
  <2>3. gens' \in Seq(Gen) /\ Len(gens') = Len(gens)
    BY <1>1, <2>r, <2>s, Replaced
  <2>4. \A h \in DOMAIN gens : h # g => gens'[h] = gens[h]
    BY <1>1, <2>2
  <2>5. /\ gens'[g].pc = "poll" /\ gens'[g].mem = gens[g].mem
        /\ gens'[g].prompt = gens[g].prompt
    BY <1>1, <2>2 DEF Gen
  <2>6. /\ conversation' = conversation /\ cancelRequested' = cancelRequested
        /\ pendingApproval' = pendingApproval
    BY <1>e DEF Chunk
  <2> QED
    BY <1>1, <2>1, <2>3, <2>4, <2>5, <2>6, Works
<1>f. CASE AskUser(g)
  <2>1. /\ gens[g].pc = "tool" /\ Live(g) /\ gens[g].mem = {gens[g].prompt}
        /\ gens[g].left > 0
    BY <1>2, <1>3, <1>f DEF AskUser, At, Live, Over
  <2>2. gens' = [h \in DOMAIN gens |->
                  IF h = g THEN [gens[h] EXCEPT !.pc = "approve"]
                  ELSE IF h \in pendingApproval
                    THEN [gens[h] EXCEPT !.answer = "closed"] ELSE gens[h]]
    BY <1>f DEF AskUser
  <2>3. \A h \in DOMAIN gens : gens'[h] \in Gen
    <3> SUFFICES ASSUME NEW h \in DOMAIN gens PROVE gens'[h] \in Gen
      OBVIOUS
    <3>1. gens[h] \in Gen
      BY <1>1
    <3>2. gens'[h] \in {[gens[h] EXCEPT !.pc = "approve"],
                        [gens[h] EXCEPT !.answer = "closed"], gens[h]}
      BY <2>2
    <3> QED
      BY <3>1, <3>2 DEF Gen, Pcs, Answers
  <2>4. gens' \in Seq(Gen) /\ Len(gens') = Len(gens)
    <3>1. gens' \in [1..Len(gens) -> Gen]
      BY <1>1, <2>2, <2>3
    <3> QED
      BY <1>1, <3>1, SeqOf
  <2>5. \A h \in DOMAIN gens : h # g =>
            gens'[h].pc = gens[h].pc /\ gens'[h].left = gens[h].left
              /\ gens'[h].mem = gens[h].mem /\ gens'[h].prompt = gens[h].prompt
    BY <1>1, <2>2 DEF Gen
  <2>6. /\ gens'[g].pc = "approve" /\ gens'[g].mem = gens[g].mem
        /\ gens'[g].left = gens[g].left /\ gens'[g].prompt = gens[g].prompt
    BY <1>1, <2>2 DEF Gen
  <2>7. /\ conversation' = conversation /\ cancelRequested' = cancelRequested
        /\ pendingApproval' = {g}
    BY <1>f DEF AskUser
  <2> QED
    BY <1>1, <2>1, <2>4, <2>5, <2>6, <2>7, Works
<1>g. CASE CancelSeen(g) \/ Poll(g) \/ Tick(g) \/ Finish(g)
  BY <1>a, <1>g, <1>1 DEF CancelSeen, Poll, Tick, Finish, At, Live, Over, Pcs
<1>h. CASE StreamEnds(g) \/ StreamErrors(g) \/ RequestFails(g, <<>>)
  BY <1>a, <1>h, <1>1 DEF StreamEnds, StreamErrors, RequestFails, At, Live, Over, Pcs
<1>i. CASE RunTool(g) \/ AnswerTaken(g)
  BY <1>b, <1>i DEF RunTool, AnswerTaken, At
<1> QED
  BY <1>c, <1>d, <1>e, <1>f, <1>g, <1>h, <1>i DEF Generate

-----------------------------------------------------------------------------
(* The actions of the task that calls the sub-agents.                       *)
LEMMA StartInv == ASSUME Inv, NEW role \in Roles, Start(role) PROVE Inv'
<1> DEFINE c == Call(Len(log) + 1)
<1>1. /\ gens \in Seq(Gen) /\ log \in Seq(Entry) /\ DOMAIN gens = 1..Len(gens)
      /\ DOMAIN log = 1..Len(log) /\ Len(gens) \in Nat /\ Len(log) \in Nat
      /\ MaxCommands \in Nat /\ Len(gens) = Len(log)
      /\ \A g \in DOMAIN gens : gens[g].pc \in Over
  BY AgentAssumption DEF Inv, Shape, OneAtWork, Start, Live
<1>2. c \in Gen /\ c.pc = "spawned"
  BY <1>1 DEF Call, Gen, Pcs, Answers
<1> HIDE DEF c
<1>3. /\ gens' = Append(gens, c) /\ job' = [Idle EXCEPT !.pc = "listen", !.role = role]
      /\ conversation' = {} /\ cancelRequested' = FALSE /\ cancelRx' = 0
      /\ log' = log /\ pendingApproval' = pendingApproval
      /\ tools' = IF role = "worker" THEN tools ELSE Outfit(role)
  BY DEF Start, Clone, Equip, Spawn, c
<1>4. /\ gens' \in Seq(Gen) /\ Len(gens') = Len(log) + 1
      /\ DOMAIN gens' = 1..Len(gens) + 1 /\ gens'[Len(gens) + 1] = c
      /\ \A g \in DOMAIN gens : gens'[g] = gens[g]
  BY <1>1, <1>2, <1>3
<1>5. job' \in Job /\ job'.pc = "listen"
  BY <1>3 DEF Job, Idle, Roles
<1>6. tools' \in {"all", "readonly", "verifier"}
  <2>1. role # "worker" => Outfit(role) \in {"readonly", "verifier"}
    BY DEF Outfit, Roles
  <2> QED
    BY <1>3, <2>1 DEF Inv, Shape
<1>7. Shape'
  <2>1. conversation' \in SUBSET SUBSET Nat /\ cancelRx' \in 0..1
    BY <1>3
  <2>3. cancelRequested' \in BOOLEAN
    BY <1>3, Zenon
  <2>2. pendingApproval' \subseteq DOMAIN gens'
    BY <1>1, <1>3, <1>4 DEF Inv, Shape
  <2> QED
    BY <1>1, <1>3, <1>4, <1>5, <1>6, <2>1, <2>2, <2>3 DEF Shape
<1>8. Counted'
  BY <1>1, <1>2, <1>4 DEF Inv, Counted
<1>9. OneAtWork'
  BY <1>1, <1>2, <1>3, <1>4, <1>5 DEF OneAtWork, Live
<1>10. Flagged' /\ Fresh'
  BY <1>1, <1>2, <1>3, <1>4 DEF Flagged, Fresh
<1>11. OwnContext'
  BY <1>1, <1>2, <1>4 DEF OwnContext, AtWork, Live
<1>12. CompletedRanWhole'
  BY <1>1, <1>3, <1>4 DEF Inv, CompletedRanWhole
<1> QED
  BY <1>7, <1>8, <1>9, <1>10, <1>11, <1>12 DEF Inv

LEMMA HearSignalInv == Inv /\ HearSignal => Inv'
<1> SUFFICES ASSUME Inv, HearSignal PROVE Inv'
  OBVIOUS
<1>1. /\ gens \in Seq(Gen) /\ DOMAIN gens = 1..Len(gens) /\ Len(gens) \in Nat
      /\ job \in Job /\ job.pc = "listen"
  BY DEF Inv, Shape, HearSignal
<1>2. gens' = [g \in DOMAIN gens |-> [gens[g] EXCEPT !.cancelled = @ \/ AtWork(g)]]
  BY DEF HearSignal, RequestCancel
<1>3. \A g \in DOMAIN gens :
        /\ gens'[g] \in Gen /\ gens'[g].pc = gens[g].pc /\ gens'[g].mem = gens[g].mem
        /\ gens'[g].left = gens[g].left /\ gens'[g].prompt = gens[g].prompt
  <2> SUFFICES ASSUME NEW g \in DOMAIN gens
               PROVE  /\ gens'[g] \in Gen /\ gens'[g].pc = gens[g].pc
                      /\ gens'[g].mem = gens[g].mem /\ gens'[g].left = gens[g].left
                      /\ gens'[g].prompt = gens[g].prompt
    OBVIOUS
  <2>1. gens[g] \in Gen
    BY <1>1
  <2>2. (gens[g].cancelled \/ AtWork(g)) \in BOOLEAN
    BY Zenon
  <2>3. PICK b \in BOOLEAN : gens'[g] = [gens[g] EXCEPT !.cancelled = b]
    BY <1>2, <2>2, Zenon
  <2> QED
    BY <2>1, <2>3 DEF Gen
<1>4. gens' \in Seq(Gen) /\ Len(gens') = Len(gens) /\ DOMAIN gens' = DOMAIN gens
  <2>1. gens' \in [1..Len(gens) -> Gen]
    BY <1>1, <1>2, <1>3
  <2> QED
    BY <1>1, <2>1, SeqOf
<1>5. /\ job' \in Job /\ job'.pc = job.pc /\ job'.requested
  BY <1>1 DEF HearSignal, Job
<1>6. /\ log' = log /\ tools' = tools /\ conversation' = conversation /\ cancelRx' = 0
      /\ pendingApproval' = pendingApproval /\ cancelRequested' = TRUE
  BY DEF HearSignal, RequestCancel
<1>7. Shape'
  BY <1>4, <1>5, <1>6 DEF Inv, Shape
<1>8. Counted' /\ Fresh'
  BY <1>3, <1>4, <1>6 DEF Inv, Counted, Fresh
<1>9. OneAtWork' /\ OwnContext'
  BY <1>3, <1>4, <1>5, <1>6 DEF Inv, OneAtWork, OwnContext, AtWork, Live
<1>10. Flagged'
  BY <1>5 DEF Flagged
<1>11. CompletedRanWhole'
  <2>1. \A i \in DOMAIN log : i \in DOMAIN gens
    BY <1>1 DEF Inv, OneAtWork, Shape
  <2> QED
    BY <1>3, <1>6, <2>1 DEF Inv, CompletedRanWhole
<1> QED
  BY <1>7, <1>8, <1>9, <1>10, <1>11 DEF Inv

(* Messages are heard and signals given: only the job's state of listening, *)
(* its error and its channel change.                                        *)
LEMMA ListenInv == Inv /\ (Signal \/ Hear \/ HearNothing) => Inv'
<1> SUFFICES ASSUME Inv, Signal \/ Hear \/ HearNothing PROVE Inv'
  OBVIOUS
<1>1. /\ job' \in Job /\ (job'.pc = "idle" <=> job.pc = "idle")
      /\ job'.requested = job.requested /\ cancelRx' \in 0..1
  <2>1. job \in Job /\ cancelRx \in 0..1
    BY DEF Inv, Shape
  <2>2. CASE Signal
    BY <2>1, <2>2 DEF Signal
  <2>3. CASE Hear
    <3>1. PICK e \in BOOLEAN, pc \in {job.pc, "join"} :
            job' = [job EXCEPT !.error = e, !.pc = pc]
      <4>1. (job.error \/ Head(out).kind = "Error") \in BOOLEAN
        BY Zenon
      <4> QED
        BY <2>3, <4>1, Zenon DEF Hear
    <3> QED
      BY <2>1, <2>3, <3>1 DEF Hear, Job
  <2>4. CASE HearNothing
    BY <2>1, <2>4 DEF HearNothing, Job
  <2> QED
    BY <2>2, <2>3, <2>4
<1>2. UNCHANGED <<conversation, cancelRequested, pendingApproval, gens, tools, log>>
  BY DEF Signal, Hear, HearNothing, agentVars
<1>3. Shape' /\ Counted' /\ Fresh' /\ CompletedRanWhole'
  BY <1>1, <1>2 DEF Inv, Shape, Counted, Fresh, CompletedRanWhole
<1>4. OneAtWork' /\ OwnContext' /\ Flagged'
  BY <1>1, <1>2 DEF Inv, OneAtWork, OwnContext, Flagged, AtWork, Live
<1> QED
  BY <1>3, <1>4 DEF Inv

(* A job ends when its generation is over; it is reported as completed if   *)
(* no signal was heard and nothing failed, and the flag is not set without. *)
LEMMA JoinInv == Inv /\ Join => Inv'
<1> SUFFICES ASSUME Inv, Join PROVE Inv'
  OBVIOUS
<1> DEFINE failed == job.error \/ gens[Current].pc = "failed"
           e      == [role |-> job.role, state |-> Outcome(failed)]
<1>1. /\ gens \in Seq(Gen) /\ log \in Seq(Entry) /\ job \in Job /\ job.pc = "join"
      /\ Len(gens) = Len(log) + 1 /\ Len(log) \in Nat
      /\ DOMAIN gens = 1..Len(log) + 1 /\ DOMAIN log = 1..Len(log)
  BY DEF Inv, Shape, OneAtWork, Join
<1>2. e \in Entry
  BY <1>1 DEF Entry, Job, Outcome
<1>3. e.state = "Completed" => gens[Len(gens)].pc = "ended"
  <2>1. gens[Len(gens)].pc \in Over
    BY DEF Join, Current, Live
  <2>2. ASSUME e.state = "Completed"
        PROVE  ~ job.requested /\ gens[Len(gens)].pc # "failed"
    BY <2>2 DEF Outcome, Current
  <2>3. ~ job.requested => gens[Len(gens)].pc # "stopped"
    BY <1>1 DEF Inv, Flagged
  <2> QED
    BY <2>1, <2>2, <2>3 DEF Over
<1>4. /\ log' = Append(log, e) /\ job' = Idle
      /\ UNCHANGED <<conversation, cancelRequested, pendingApproval, gens, tools, cancelRx>>
  BY DEF Join, agentVars
<1> HIDE DEF e
<1>5. /\ log' \in Seq(Entry) /\ Len(log') = Len(log) + 1
      /\ DOMAIN log' = 1..Len(log) + 1 /\ log'[Len(log) + 1] = e
      /\ \A i \in DOMAIN log : log'[i] = log[i]
  BY <1>1, <1>2, <1>4
<1>6. job' \in Job /\ job'.pc = "idle"
  BY <1>4 DEF Idle, Job, Roles
<1>7. Shape' /\ Counted' /\ Fresh' /\ Flagged'
  BY <1>4, <1>5, <1>6 DEF Inv, Shape, Counted, Fresh, Flagged
<1>8. OneAtWork'
  <2>1. \A g \in DOMAIN gens : ~ Live(g)
    BY <1>1 DEF Inv, OneAtWork, Join, Current
  <2> QED
    BY <1>1, <1>4, <1>5, <1>6, <2>1 DEF OneAtWork, Live
<1>9. OwnContext'
  BY <1>4 DEF Inv, OwnContext, AtWork, Live
<1>10. CompletedRanWhole'
  BY <1>1, <1>3, <1>4, <1>5 DEF Inv, CompletedRanWhole
<1> QED
  BY <1>7, <1>8, <1>9, <1>10 DEF Inv

LEMMA StepInv == Inv /\ [Next]_vars => Inv'
<1> SUFFICES ASSUME Inv, [Next]_vars PROVE Inv'
  OBVIOUS
<1>1. ASSUME NEW g \in DOMAIN gens, Work(g) PROVE Inv'
  BY <1>1, GenerateInv DEF Work
<1>2. CASE UNCHANGED vars
  BY <1>2 DEF vars, agentVars, Inv, Shape, Counted, OneAtWork, Flagged, Fresh,
     OwnContext, CompletedRanWhole, Live, AtWork
<1> QED
  BY <1>1, <1>2, StartInv, HearSignalInv, ListenInv, JoinInv DEF Next

LEMMA InvAlways == Spec => []Inv
BY InitInv, StepInv, PTL DEF Spec

-----------------------------------------------------------------------------
(* The sender in the slot is one whose receiver waits, whoever is at work   *)
(* has its own prompt, and only who asked has an answer.                    *)
Slots ==
    /\ pendingApproval \subseteq
          {h \in DOMAIN gens : gens[h].pc = "approve" /\ gens[h].answer = "none"}
    /\ \A h \in DOMAIN gens :
          /\ AtWork(h) => gens[h].prompt \in gens[h].mem
          /\ gens[h].answer # "none" => gens[h].pc = "approve"

LEMMA OneMoves ==
  ASSUME gens \in Seq(Gen), Slots, NEW g \in DOMAIN gens \ pendingApproval,
         NEW r, gens' = [gens EXCEPT ![g] = r], r.prompt = gens[g].prompt,
         r.pc \notin Over /\ r.pc # "spawned" => r.prompt \in r.mem,
         r.answer = "none",
         pendingApproval' = pendingApproval
  PROVE  Slots'
<1>1. /\ DOMAIN gens' = DOMAIN gens /\ gens'[g] = r
      /\ \A h \in DOMAIN gens : h # g => gens'[h] = gens[h]
  OBVIOUS
<1>2. pendingApproval' \subseteq
        {h \in DOMAIN gens' : gens'[h].pc = "approve" /\ gens'[h].answer = "none"}
  BY <1>1 DEF Slots
<1>3. \A h \in DOMAIN gens' :
        /\ AtWork(h)' => gens'[h].prompt \in gens'[h].mem
        /\ gens'[h].answer # "none" => gens'[h].pc = "approve"
  BY <1>1 DEF Slots, AtWork, Live
<1> QED
  BY <1>2, <1>3 DEF Slots

LEMMA GenerateSlots ==
  ASSUME gens \in Seq(Gen), Slots, NEW g \in DOMAIN gens, NEW msgs,
         Generate(g) \/ RequestFails(g, msgs)
  PROVE  Slots'
<1>1. gens[g] \in Gen /\ (gens[g].pc # "approve" => gens[g].answer = "none")
  BY DEF Slots
<1>2. g \in pendingApproval => gens[g].pc = "approve" /\ gens[g].answer = "none"
  BY DEF Slots
<1>3. AtWork(g) => gens[g].prompt \in gens[g].mem
  BY DEF Slots
<1>4. ASSUME NEW pc, Goto(g, pc), At(g, "request") \/ At(g, "poll")
                       \/ At(g, "wait") \/ At(g, "finish"),
             pendingApproval' = pendingApproval
      PROVE  Slots'
  <2> DEFINE r == [gens[g] EXCEPT !.pc = pc]
  <2>1. gens' = [gens EXCEPT ![g] = r]
    BY <1>4 DEF Goto
  <2>2. r.prompt = gens[g].prompt /\ r.mem = gens[g].mem /\ r.answer = "none"
    BY <1>1, <1>4 DEF Gen, At
  <2>3. g \notin pendingApproval /\ AtWork(g)
    BY <1>2, <1>4 DEF At, AtWork, Live, Over
  <2> HIDE DEF r
  <2> QED
    BY <1>3, <1>4, <2>1, <2>2, <2>3, OneMoves
<1>5. CASE Begin(g)
  <2> DEFINE m == (UNION conversation) \cup {gens[g].prompt}
             r == [gens[g] EXCEPT !.pc = "request", !.mem = m]
  <2>1. gens' = [gens EXCEPT ![g] = r] /\ pendingApproval' = pendingApproval
    BY <1>5 DEF Begin
  <2>2. gens[g].prompt \in m
    OBVIOUS
  <2> HIDE DEF m
  <2>3. r.prompt = gens[g].prompt /\ r.mem = m /\ r.answer = "none"
    BY <1>1, <1>5 DEF Gen, Begin, At
  <2>4. g \notin pendingApproval
    BY <1>2, <1>5 DEF Begin, At
  <2> HIDE DEF r
  <2> QED
    BY <2>1, <2>2, <2>3, <2>4, OneMoves
<1>6. CASE Request(g)
  <2> DEFINE n == IF gens[g].cancelled THEN gens[g].late + 1 ELSE gens[g].late
             r == [gens[g] EXCEPT !.pc = "poll", !.late = n]
  <2>1. gens' = [gens EXCEPT ![g] = r] /\ pendingApproval' = pendingApproval
    BY <1>6 DEF Request
  <2> HIDE DEF n
  <2>2. r.prompt = gens[g].prompt /\ r.mem = gens[g].mem /\ r.answer = "none"
    BY <1>1, <1>6 DEF Gen, Request, At
  <2>3. g \notin pendingApproval /\ AtWork(g)
    BY <1>2, <1>6 DEF Request, At, AtWork, Live, Over
  <2> HIDE DEF r
  <2> QED
    BY <1>3, <2>1, <2>2, <2>3, OneMoves
<1>7. CASE Chunk(g)
  <2> DEFINE r == [gens[g] EXCEPT !.pc = "poll", !.heard = TRUE]
  <2>1. gens' = [gens EXCEPT ![g] = r] /\ pendingApproval' = pendingApproval
    BY <1>7 DEF Chunk
  <2>2. r.prompt = gens[g].prompt /\ r.mem = gens[g].mem /\ r.answer = "none"
    BY <1>1, <1>7 DEF Gen, Chunk, At
  <2>3. g \notin pendingApproval /\ AtWork(g)
    BY <1>2, <1>7 DEF Chunk, At, AtWork, Live, Over
  <2> HIDE DEF r
  <2> QED
    BY <1>3, <2>1, <2>2, <2>3, OneMoves
<1>8. CASE RunTool(g) \/ AnswerTaken(g)
  <2>1. PICK pc \in {"request"} \cup IF gens[g].left > 1 THEN {"tool"} ELSE {} :
          gens' = [gens EXCEPT ![g].pc = pc, ![g].answer = "none", ![g].left = @ - 1]
    BY <1>8 DEF RunTool, AnswerTaken, ToolDone
  <2> DEFINE n == gens[g].left - 1
             r == [gens[g] EXCEPT !.pc = pc, !.answer = "none", !.left = n]
  <2>2. gens' = [gens EXCEPT ![g] = r] /\ pendingApproval' = pendingApproval
    BY <1>8, <2>1 DEF RunTool, AnswerTaken, ToolDone
  <2> HIDE DEF n
  <2>3. r.prompt = gens[g].prompt /\ r.mem = gens[g].mem /\ r.answer = "none"
    BY <1>1 DEF Gen
  <2>4. g \notin pendingApproval /\ AtWork(g)
    BY <1>2, <1>8 DEF RunTool, AnswerTaken, At, AtWork, Live, Over
  <2> HIDE DEF r
  <2> QED
    BY <1>3, <2>2, <2>3, <2>4, OneMoves
<1>9. CASE AskUser(g)
  <2>1. /\ At(g, "tool") /\ pendingApproval' = {g} /\ DOMAIN gens' = DOMAIN gens
        /\ gens'[g] = [gens[g] EXCEPT !.pc = "approve"]
        /\ \A h \in DOMAIN gens : h # g =>
             \/ gens'[h] = gens[h]
             \/ h \in pendingApproval /\ gens'[h] = [gens[h] EXCEPT !.answer = "closed"]
    BY <1>9 DEF AskUser
  <2>2. /\ gens'[g].pc = "approve" /\ gens'[g].answer = gens[g].answer
        /\ gens'[g].prompt = gens[g].prompt /\ gens'[g].mem = gens[g].mem
    BY <1>1, <2>1 DEF Gen
  <2>3. \A h \in DOMAIN gens : h # g =>
          /\ gens'[h].pc = gens[h].pc /\ gens'[h].prompt = gens[h].prompt
          /\ gens'[h].mem = gens[h].mem
          /\ gens'[h].answer = gens[h].answer \/ h \in pendingApproval
    <3>1. \A h \in DOMAIN gens : gens[h] \in Gen
      OBVIOUS
    <3> QED
      BY <2>1, <3>1 DEF Gen
  <2>4. gens[g].answer = "none"
    BY <1>1, <2>1 DEF At
  <2>5. AtWork(g)
    BY <2>1 DEF At, AtWork, Live, Over
  <2>6. pendingApproval' \subseteq
        {h \in DOMAIN gens' : gens'[h].pc = "approve" /\ gens'[h].answer = "none"}
    BY <2>1, <2>2, <2>4
  <2>7. ASSUME NEW h \in DOMAIN gens'
        PROVE  /\ AtWork(h)' => gens'[h].prompt \in gens'[h].mem
               /\ gens'[h].answer # "none" => gens'[h].pc = "approve"
    <3>1. CASE h = g
      BY <1>3, <2>2, <2>4, <2>5, <3>1
    <3>2. CASE h # g
      <4>1. /\ AtWork(h) => gens[h].prompt \in gens[h].mem
            /\ gens[h].answer # "none" \/ h \in pendingApproval => gens[h].pc = "approve"
        BY <2>1, <2>7 DEF Slots
      <4>2. AtWork(h)' => AtWork(h)
        BY <2>1, <2>3, <2>7, <3>2 DEF AtWork, Live
      <4> QED
        BY <2>1, <2>3, <2>7, <3>2, <4>1, <4>2
    <3> QED
      BY <3>1, <3>2
  <2> QED
    BY <2>6, <2>7 DEF Slots
<1> QED
  BY <1>4, <1>5, <1>6, <1>7, <1>8, <1>9
     DEF Generate, RequestFails, CancelSeen, Poll, Tick, StreamEnds, StreamErrors, Finish

LEMMA CancelSlots ==
  ASSUME gens \in Seq(Gen), Slots, RequestCancel PROVE Slots'
<1>1. /\ DOMAIN gens' = DOMAIN gens /\ pendingApproval' = pendingApproval
      /\ \A h \in DOMAIN gens : gens[h] \in Gen
      /\ \A h \in DOMAIN gens :
           gens'[h] = [gens[h] EXCEPT !.cancelled = gens[h].cancelled \/ AtWork(h)]
  BY DEF RequestCancel
<1>2. \A h \in DOMAIN gens :
        /\ gens'[h].pc = gens[h].pc /\ gens'[h].answer = gens[h].answer
        /\ gens'[h].prompt = gens[h].prompt /\ gens'[h].mem = gens[h].mem
  BY <1>1 DEF Gen
<1> QED
  BY <1>1, <1>2 DEF Slots, AtWork, Live

LEMMA SpawnSlots ==
  ASSUME gens \in Seq(Gen), Slots, NEW p, Spawn(p), pendingApproval' = pendingApproval
  PROVE  Slots'
<1>1. /\ \A h \in DOMAIN gens : h \in DOMAIN gens' /\ gens'[h] = gens[h]
      /\ \A h \in DOMAIN gens' : h \in DOMAIN gens \/ gens'[h] = Call(p)
  BY DEF Spawn
<1>2. Call(p).pc = "spawned" /\ Call(p).answer = "none"
  BY DEF Call
<1> QED
  BY <1>1, <1>2 DEF Slots, AtWork, Live

LEMMA SlotsStep == Inv /\ Slots /\ [Next]_vars => Slots'
<1> SUFFICES ASSUME Inv, Slots, [Next]_vars PROVE Slots'
  OBVIOUS
<1>1. gens \in Seq(Gen)
  BY DEF Inv, Shape
<1>2. ASSUME UNCHANGED <<gens, pendingApproval>> PROVE Slots'
  BY <1>2 DEF Slots, AtWork, Live
<1>3. ASSUME NEW role \in Roles, Start(role) PROVE Slots'
  BY <1>1, <1>3, SpawnSlots DEF Start
<1>4. ASSUME NEW g \in DOMAIN gens, Work(g) PROVE Slots'
  BY <1>1, <1>4, GenerateSlots DEF Work
<1>5. CASE HearSignal
  BY <1>1, <1>5, CancelSlots DEF HearSignal
<1>6. CASE Signal \/ Hear \/ HearNothing \/ Join \/ UNCHANGED vars
  BY <1>2, <1>6 DEF Signal, Hear, HearNothing, Join, vars, agentVars
<1> QED
  BY <1>3, <1>4, <1>5, <1>6 DEF Next

(***************************************************************************)
(* Every variable of the sub-agents keeps its type: the slot for approvals *)
(* refers to a generation that waits, every sub-agent at work was told its *)
(* prompt, and every call but the one under way has returned.              *)
(***************************************************************************)
THEOREM TypeCorrect == Spec => []TypeOK
<1>1. Inv /\ Slots => AgentTypeOK
  <2> SUFFICES ASSUME Inv, Slots, NEW g \in DOMAIN gens
               PROVE  /\ gens[g].pc \in {"spawned", "request", "poll", "wait", "tool",
                                         "approve", "finish"} \cup Over
                      /\ gens[g].left \in 0..MaxCommands
                      /\ gens[g].answer \in {"none", "yes", "no", "closed"}
    BY DEF Inv, Shape, Slots, AgentTypeOK
  <2>1. gens[g] \in Gen
    BY DEF Inv, Shape
  <2> QED
    BY <2>1 DEF Gen, Pcs, Answers, Over
<1>2. Inv /\ Slots => TypeOK
  BY <1>1 DEF Inv, Shape, OneAtWork, TypeOK, Job, Current
<1>3. Init => Slots
  BY DEF Init, AgentInit, Slots
<1> QED
  BY InvAlways, SlotsStep, <1>2, <1>3, PTL DEF Spec

(***************************************************************************)
(* A sub-agent's conversation is its own, although the clones share other  *)
(* state: with_working_directory replaces it, and none is at work while    *)
(* another is.                                                             *)
(***************************************************************************)
THEOREM OwnContextCorrect == Spec => []OwnContext
<1>1. Inv => OwnContext
  BY DEF Inv
<1> QED
  BY InvAlways, <1>1, PTL

(***************************************************************************)
(* A step reported as completed ran to its end, whenever the cancel signal *)
(* came and whatever failed: only the job sets its generation's flag, and  *)
(* it remembers that it did.                                               *)
(***************************************************************************)
THEOREM CompletedRanWholeCorrect == Spec => []CompletedRanWhole
<1>1. Inv => CompletedRanWhole
  BY DEF Inv
<1> QED
  BY InvAlways, <1>1, PTL
=============================================================================
