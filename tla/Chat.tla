-------------------------------- MODULE Chat --------------------------------
(***************************************************************************)
(* The terminal application and its agent: what the user types             *)
(* (submit_message, the Esc handler), the messages the agent's thread      *)
(* sends back (drain_agent_rx), what the app does about them once per tick *)
(* (process_pending_actions), and the loop of spawn_agent_runtime that     *)
(* turns the app's messages into tasks on the agent.                       *)
(*                                                                         *)
(* The app believes a turn is under way while agent_processing is set, and *)
(* everything it does hangs on the Done that ends the turn: queued         *)
(* messages, a message that interrupts, a summary that replaces the        *)
(* conversation.                                                           *)
(*                                                                         *)
(* Left out: the transcript and all drawing, the sandbox prompt (it only   *)
(* differs in what "accept" does), /review (a message like any other),     *)
(* editing a queued message, model reloads and an orchestration in         *)
(* progress, which silences the main agent.                                *)
(*                                                                         *)
(* A definition whose name ends in _Something repeats the one after it     *)
(* with a plausible slip; no action uses it, and a property of this module *)
(* fails when it does.                                                     *)
(***************************************************************************)
EXTENDS Agent, FiniteSets

CONSTANTS
    Texts,      \* what the user may type: messages, "/clear", "/summarize"
    Keys,       \* what the user may press: "queue", "interrupt", "discard" in
                \* the queue popup, "yes", "no", "stop" in the approval prompt,
                \* "esc"
    MaxInputs,  \* bound: messages typed
    MaxCalls,   \* bound: process_message calls the context may run low in
    ContextLow  \* can the context run low?

ASSUME ChatAssumption ==
    /\ Keys \subseteq {"queue", "interrupt", "discard", "yes", "no", "stop", "esc"}
    /\ MaxInputs \in Nat /\ MaxCalls \in Nat
    /\ ContextLow \in BOOLEAN

VARIABLES
    app,      \* the fields of App the turns depend on
    ui,       \* where the tick is: "drain" or "keys"
    outcome,  \* AgentStreamOutcome
    inbox,    \* messages to the agent's thread
    tasks,    \* what that thread has spawned, generations apart
    typed,    \* what the user has typed so far
    astray    \* history: an answer reached a command it was not given for

vars == <<agentVars, app, ui, outcome, inbox, tasks, typed, astray>>

Commands == {"/clear", "/summarize"}
Summary  == "summarize"  \* the prompt of build_compact_prompt
Continue == "continue"   \* default_compaction_resume_prompt

NoOutcome == [queued |-> FALSE, interrupt |-> {}, low |-> FALSE,
              summarize |-> FALSE]

Init ==
    /\ AgentInit
    /\ app = [processing       |-> FALSE,  \* agent_state.agent_processing
              interrupted      |-> FALSE,  \* agent_state.agent_interrupted
              interruptPending |-> {},     \* agent_state.interrupt_pending
              compacting       |-> FALSE,  \* agent_state.is_compacting
              indicator        |-> FALSE,  \* thinking_indicator_active
              prompt           |-> {},     \* show_approval_prompt, and for what
              choice           |-> {},     \* show_queue_choice, and for what
              queue            |-> <<>>,   \* queued_messages
              auto             |-> FALSE,  \* is_auto_summarize
              compactPending   |-> FALSE,  \* compact_pending.is_some()
              sync             |-> FALSE,  \* context_sync_pending
              inject           |-> FALSE,  \* context_inject_expected
              resume           |-> FALSE,  \* compaction_resume_prompt.is_some()
              resumeReady      |-> FALSE]  \* compaction_resume_ready
    /\ ui = "drain" /\ outcome = NoOutcome
    /\ inbox = <<>> /\ tasks = <<>>
    /\ typed = {} /\ astray = FALSE

-----------------------------------------------------------------------------
(* What a tick or a key does to the app and what it sends, as one record.   *)

Now              == [app |-> app, send |-> <<>>]
Become(s, a)     == [app |-> a, send |-> s.send]
Send(s, m)       == [app |-> s.app, send |-> Append(s.send, m)]
Input(p)         == [kind |-> "UserInput", prompt |-> p]
Cancel           == [kind |-> "Cancel"]
ClearContext     == [kind |-> "ClearContext"]
InjectContext(m) == [kind |-> "InjectContext", mem |-> m]
Answer(a, q)     == [kind |-> "ApprovalResponse", answer |-> a, of |-> q]

Say_Idle(s, p) == Send(Become(s, [s.app EXCEPT !.indicator = TRUE]), Input(p))

Say(s, p) == Send(Become(s, [s.app EXCEPT !.processing = TRUE,
                                          !.indicator = TRUE]), Input(p))

(* handle_slash_command for the two commands that touch the agent.          *)
Slash(s, c) ==
    IF c = "/clear"
      THEN Send(s, ClearContext)
      ELSE IF typed = {c} THEN s
           ELSE Become(s, [s.app EXCEPT !.compactPending = TRUE, !.resume = FALSE,
                                        !.resumeReady = FALSE])

SayOrDo(s, m) == IF m \in Commands THEN Slash(s, m) ELSE Say(s, m)

Do(s) ==
    /\ app' = s.app
    /\ inbox' = inbox \o s.send

-----------------------------------------------------------------------------
(* The runtime loop of spawn_agent_runtime, and the tasks it spawns.        *)

Receive ==
    /\ inbox # <<>>
    /\ inbox' = Tail(inbox)
    /\ LET m == Head(inbox) IN
         CASE m.kind = "UserInput" ->
                /\ Spawn(m.prompt)
                /\ UNCHANGED <<conversation, cancelRequested, pendingApproval,
                               out, tasks>>
           [] m.kind = "Cancel" -> RequestCancel /\ UNCHANGED tasks
           [] OTHER -> tasks' = Append(tasks, m) /\ UNCHANGED agentVars
    /\ UNCHANGED <<app, ui, outcome, typed, astray>>

Finished(i) == tasks' = [j \in 1..Len(tasks) - 1 |-> tasks[IF j < i THEN j ELSE j + 1]]

(* tokio::spawn hands these two to any worker thread: they run in either    *)
(* order.                                                                   *)
Synchronise(i) ==
    /\ \/ /\ tasks[i].kind = "ClearContext"
          /\ SetConversation({}) /\ Tell(<<Msg("ContextCleared", 0)>>)
       \/ /\ tasks[i].kind = "InjectContext"
          /\ SetConversation({tasks[i].mem})
          /\ Tell(<<Msg("ContextInjected", 0)>>)
    /\ Finished(i)
    /\ UNCHANGED <<app, ui, outcome, inbox, typed, astray>>

(* spawn_local keeps these in order.                                        *)
DeliverAnswer(i) ==
    /\ tasks[i].kind = "ApprovalResponse"
    /\ \A j \in 1..i - 1 : tasks[j].kind # "ApprovalResponse"
    /\ Respond(tasks[i].answer)
    /\ astray' = (astray \/ \E g \in pendingApproval : Asked(g) # tasks[i].of)
    /\ Finished(i)
    /\ UNCHANGED <<app, ui, outcome, inbox, typed>>

Work_Silent(g) ==
    /\ Generate(g) \/ RequestFails(g, <<>>)
    /\ UNCHANGED <<app, ui, outcome, inbox, tasks, typed, astray>>

(* A generation at work; one that fails is reported by its task.            *)
Work(g) ==
    /\ \/ Generate(g)
       \/ RequestFails(g, <<Msg("Error", g), Msg("Done", g)>>)
    /\ UNCHANGED <<app, ui, outcome, inbox, tasks, typed, astray>>

-----------------------------------------------------------------------------
(* drain_agent_rx, one message at a time.                                   *)

MayRunLow == ContextLow /\ Len(gens) + Len(inbox) < MaxCalls
Lows      == IF MayRunLow THEN BOOLEAN ELSE {FALSE}

Take(kind) ==
    /\ ui = "drain" /\ out # <<>> /\ Head(out).kind = kind
    /\ out' = Tail(out)
    /\ UNCHANGED <<conversation, cancelRequested, pendingApproval, gens, ui,
                   tasks, typed, astray>>

AppOnly(a) == app' = a /\ UNCHANGED <<outcome, inbox>>

(* While agent_interrupted is set only Done counts.                         *)
DrainSilenced(kind) ==
    /\ app.interrupted /\ Take(kind)
    /\ UNCHANGED inbox
    /\ IF kind # "Done" THEN UNCHANGED <<app, outcome>>
       ELSE /\ app' = [app EXCEPT !.interrupted = FALSE, !.indicator = FALSE,
                                  !.prompt = {}]
            /\ outcome' = [outcome EXCEPT !.low = TRUE]

(* ThinkingContent shows the indicator, AgentResponse leaves it; both count *)
(* tokens, which may show that the context is running low.                  *)
DrainText ==
    /\ ~ app.interrupted /\ Take("Text")
    /\ \E shown \in {TRUE, app.indicator} : app' = [app EXCEPT !.indicator = shown]
    /\ \E low \in Lows :
          outcome' = [outcome EXCEPT !.summarize = @ \/
            (low /\ ~ app.compacting /\ ~ app.auto /\ app.queue = <<>>)]
    /\ UNCHANGED inbox

DrainRequestApproval ==
    /\ ~ app.interrupted /\ Take("RequestApproval")
    /\ AppOnly([app EXCEPT !.prompt = {Head(out).of}])

DrainError ==
    /\ ~ app.interrupted /\ Take("Error")
    /\ AppOnly([app EXCEPT !.processing = FALSE, !.indicator = FALSE,
                           !.prompt = {}])

DrainContextCleared ==
    /\ ~ app.interrupted /\ Take("ContextCleared")
    /\ AppOnly([app EXCEPT !.sync = @ /\ app.inject])

DrainContextInjected ==
    /\ ~ app.interrupted /\ Take("ContextInjected")
    /\ AppOnly([app EXCEPT !.sync = FALSE, !.inject = FALSE])

(* What Done does first in every case.                                      *)
TurnOver_Busy ==
    [app EXCEPT !.indicator = FALSE, !.prompt = {}]
TurnOver ==
    [app EXCEPT !.processing = FALSE, !.indicator = FALSE, !.prompt = {}]

(* find_latest_compaction_summary takes the last thing the agent said: the  *)
(* summary if the turn that wrote it has ended whole, else whatever came    *)
(* before, if anything.                                                     *)
Summaries(g) == IF gens[g].prompt = Summary /\ gens[g].pc = "ended"
                  THEN {{gens[g].mem}} ELSE {{{}}, {}}

DrainCompacted ==
    /\ ~ app.interrupted /\ app.compacting /\ Take("Done")
    /\ \E s \in Summaries(Head(out).of) :
         LET over == [TurnOver EXCEPT !.compacting = FALSE, !.auto = FALSE]
         IN Do(IF s = {}
                 THEN Become(Now, [over EXCEPT !.resume = FALSE,
                                               !.resumeReady = FALSE])
                 ELSE Send(Send(Become(Now, [over EXCEPT
                        !.sync = TRUE, !.inject = TRUE,
                        !.resumeReady = @ \/ app.resume]),
                      ClearContext), InjectContext(CHOOSE m \in s : TRUE)))
    /\ UNCHANGED outcome

DrainDone ==
    /\ ~ app.interrupted /\ ~ app.compacting /\ Take("Done")
    /\ IF app.interruptPending # {}
         THEN /\ app' = [TurnOver EXCEPT !.interruptPending = {}]
              /\ outcome' = [outcome EXCEPT !.interrupt = app.interruptPending]
         ELSE /\ app' = TurnOver
              /\ outcome' = [outcome EXCEPT !.queued = TRUE, !.low = TRUE]
    /\ UNCHANGED inbox

-----------------------------------------------------------------------------
(* process_pending_actions, once the channel is empty: each operator is one *)
(* paragraph of it, and they are run in this order.                         *)

SayInterrupt(s) ==
    IF outcome.interrupt = {} THEN s
    ELSE SayOrDo(s, CHOOSE m \in outcome.interrupt : TRUE)

(* trigger_mid_stream_auto_summarize.                                       *)
StopToSummarize(s) ==
    IF ~ outcome.summarize THEN s
    ELSE Send(Become(s, [s.app EXCEPT !.auto = TRUE, !.compactPending = TRUE,
                                      !.resume = TRUE, !.resumeReady = FALSE,
                                      !.interrupted = TRUE,
                                      !.indicator = FALSE]), Cancel)

SummarizeIfLow(s, low) ==
    IF ~ (outcome.low /\ s.app.queue = <<>> /\ low) THEN s
    ELSE Become(s, [s.app EXCEPT !.auto = TRUE, !.compactPending = TRUE,
                                 !.resume = FALSE, !.resumeReady = FALSE])

SyncTimesOut(s, timedOut) ==
    IF s.app.sync /\ timedOut
      THEN Become(s, [s.app EXCEPT !.sync = FALSE, !.inject = FALSE]) ELSE s

(* maybe_send_compaction_resume_prompt.                                     *)
Resumed(s) == Become(s, [s.app EXCEPT !.resumeReady = FALSE, !.resume = FALSE,
                                      !.interrupted = FALSE])
SayContinue(s) ==
    IF ~ s.app.resumeReady \/ s.app.sync THEN s
    ELSE IF ~ s.app.resume THEN Become(s, [s.app EXCEPT !.resumeReady = FALSE])
    ELSE Say(Resumed(s), Continue)

SayQueued(s) ==
    IF ~ outcome.queued \/ s.app.sync \/ s.app.queue = <<>> THEN s
    ELSE SayOrDo(Become(s, [s.app EXCEPT !.queue = Tail(@)]), Head(s.app.queue))

Compact_Unsent(s) ==
    IF ~ s.app.compactPending THEN s
    ELSE Become(s, [s.app EXCEPT !.compactPending = FALSE, !.compacting = TRUE,
                                 !.processing = TRUE, !.interrupted = FALSE])

Compact(s) ==
    IF ~ s.app.compactPending THEN s
    ELSE Say(Become(s, [s.app EXCEPT !.compactPending = FALSE,
                                     !.compacting = TRUE,
                                     !.interrupted = FALSE]), Summary)

Pending ==
    /\ ui = "drain" /\ out = <<>>
    /\ \E low \in Lows, timedOut \in {FALSE, "timeout" \in Faults} :
         Do(Compact(SayQueued(SayContinue(SyncTimesOut(SummarizeIfLow(
              StopToSummarize(SayInterrupt(Now)), low), timedOut)))))
    /\ ui' = "keys" /\ outcome' = NoOutcome
    /\ UNCHANGED <<agentVars, tasks, typed, astray>>

-----------------------------------------------------------------------------
(* Keys, any number of them before the next tick.                           *)

Key(s) ==
    /\ ui = "keys"
    /\ Do(s)
    /\ UNCHANGED <<agentVars, ui, outcome, tasks, astray>>

NextTick ==
    /\ ui = "keys" /\ ui' = "drain"
    /\ UNCHANGED <<agentVars, app, outcome, inbox, tasks, typed, astray>>

(* submit_message with no popup shown.                                      *)
Type(m) ==
    /\ app.choice = {} /\ app.prompt = {}
    /\ m \in Texts \ typed /\ Cardinality(typed) < MaxInputs
    /\ typed' = typed \cup {m}
    /\ Key(IF app.processing \/ app.indicator
             THEN Become(Now, [app EXCEPT !.choice = {m}])
           ELSE IF m \in Commands THEN Slash(Now, m)
           ELSE Say(Become(Now, [app EXCEPT !.interrupted = FALSE]), m))

(* submit_message in the queue popup.                                       *)
Choose(k) ==
    /\ app.choice # {} /\ k \in Keys
    /\ LET m == CHOOSE m \in app.choice : TRUE
           a == [app EXCEPT !.choice = {}] IN
       \/ k = "queue" /\ Key(Become(Now, [a EXCEPT !.queue = Append(@, m)]))
       \/ k = "interrupt"
            /\ Key(Send(Become(Now, [a EXCEPT !.interruptPending = {m},
                                              !.indicator = FALSE]), Cancel))
       \/ k = "discard" /\ Key(Become(Now, a))
    /\ UNCHANGED typed

(* submit_message in the approval prompt, which any choice closes.          *)
Answered_Again == Now
Answered       == Become(Now, [app EXCEPT !.prompt = {}])

AnswerPrompt(k) ==
    /\ app.choice = {} /\ app.prompt # {} /\ k \in Keys
    /\ LET q == CHOOSE q \in app.prompt : TRUE IN
       \/ k = "yes" /\ Key(Send(Answered, Answer("yes", q)))
       \/ k = "no"  /\ Key(Send(Answered, Answer("no", q)))
       \/ k = "stop"
            /\ Key(Send(Send(Become(Answered, [Answered.app EXCEPT
                                !.indicator = FALSE]), Answer("no", q)), Cancel))
    /\ UNCHANGED typed

(* Esc while the agent works.                                               *)
Esc ==
    /\ "esc" \in Keys /\ (app.processing \/ app.indicator)
    /\ Key(Send(Become(Now, [app EXCEPT !.interrupted = TRUE, !.prompt = {},
                                        !.indicator = FALSE,
                                        !.processing = FALSE]), Cancel))
    /\ UNCHANGED typed

-----------------------------------------------------------------------------
Kinds == {"Text", "RequestApproval", "Error", "Done", "ContextCleared",
          "ContextInjected"}

Drain ==
    \/ \E kind \in Kinds : DrainSilenced(kind)
    \/ DrainText \/ DrainRequestApproval \/ DrainError
    \/ DrainContextCleared \/ DrainContextInjected
    \/ DrainCompacted \/ DrainDone

Presses == \E k \in Keys : Choose(k) \/ AnswerPrompt(k)

Next ==
    \/ Receive
    \/ \E i \in DOMAIN tasks : Synchronise(i) \/ DeliverAnswer(i)
    \/ \E g \in DOMAIN gens : Work(g)
    \/ Drain \/ Pending \/ NextTick
    \/ \E m \in Texts : Type(m)
    \/ Presses \/ Esc

Spec == Init /\ [][Next]_vars

(***************************************************************************)
(* The threads run, tasks are polled and a stream ends: the app's loop     *)
(* ticks, the runtime receives, and a backend's stream has an end whatever *)
(* chunks come before it.  Nothing is assumed of the user.                 *)
(***************************************************************************)
Ends(g) == (StreamEnds(g) \/ StreamErrors(g)) /\ Work(g)

FairSpec ==
    /\ Spec
    /\ WF_vars(Receive) /\ WF_vars(Drain) /\ WF_vars(Pending) /\ WF_vars(NextTick)
    /\ WF_vars(\E i \in DOMAIN tasks : Synchronise(i) \/ DeliverAnswer(i))
    /\ \A g \in 1..MaxInputs + 2 * MaxCalls : WF_vars(Work(g)) /\ SF_vars(Ends(g))

-----------------------------------------------------------------------------
(* TypeOK: the agent's part, and what the app's own records may hold.       *)
TypeOK ==
    /\ AgentTypeOK
    /\ ui \in {"drain", "keys"}
    /\ \A f \in DOMAIN app :
          \/ f = "queue" /\ app[f] \in Seq(Texts)
          \/ f \in {"interruptPending", "choice"} /\ app[f] \subseteq Texts
          \/ f = "prompt" /\ Cardinality(app[f]) <= 1
          \/ app[f] \in BOOLEAN
    /\ typed \subseteq Texts /\ astray \in BOOLEAN

Inputs == Cardinality({i \in DOMAIN inbox : inbox[i].kind = "UserInput"})
Dones  == Cardinality({i \in DOMAIN out : out[i].kind = "Done"})

(***************************************************************************)
(* A turn is a token that the app hands to the agent as UserInput and gets *)
(* back as Done: there is one exactly while agent_processing is set, so no *)
(* two generations ever share the conversation and no Done ends another's  *)
(* turn.                                                                   *)
(***************************************************************************)
OneTurn == Inputs + Cardinality({g \in DOMAIN gens : Live(g)}) + Dones
             = IF app.processing THEN 1 ELSE 0

(* What the model has been told and has not been made to forget: it is in   *)
(* the conversation, in the builder of the turn at work, or in the summary  *)
(* on its way.                                                              *)
Known == UNION (conversation
                \cup {gens[g].mem : g \in {h \in DOMAIN gens : AtWork(h)}}
                \cup {tasks[i].mem :
                       i \in {j \in DOMAIN tasks : tasks[j].kind = "InjectContext"}}
                \cup {inbox[i].mem :
                       i \in {j \in DOMAIN inbox : inbox[j].kind = "InjectContext"}})

(* The user's answer reaches the command the prompt named, not another one  *)
(* that has asked since.                                                    *)
AnswersReachTheirCommand == ~ astray

(***************************************************************************)
(* While the app shows a turn under way, something is under way that will  *)
(* end it: input not yet received, a generation, or its last message.      *)
(***************************************************************************)
SpinnerMeansWork == app.processing =>
    \/ Inputs > 0 \/ \E g \in DOMAIN gens : Live(g)
    \/ \E i \in DOMAIN out : out[i].kind \in {"Done", "Error"}

(* ... and it ends.                                                         *)
SpinnerStops == []<> ~ app.processing

(* A compaction replaces the conversation by two messages, which become two *)
(* tasks.                                                                   *)
ReplacesContext(m) == m.kind \in {"ClearContext", "InjectContext"}
Synchronising ==
    \/ \E i \in DOMAIN inbox : ReplacesContext(inbox[i])
    \/ \E i \in DOMAIN tasks : ReplacesContext(tasks[i])

(* One of them is on its way, and the app has yet to read a ContextInjected: *)
(* that of the same compaction, which has overtaken its ClearContext, or of *)
(* the one before, and the app cannot tell them apart.                      *)
Crossing == Synchronising /\ \E i \in DOMAIN out : out[i].kind = "ContextInjected"

(***************************************************************************)
(* The prompt that takes up the work after a compaction is sent once the   *)
(* summary is the conversation: nothing sent before it is still to clear   *)
(* the conversation or to put a summary in its place.                      *)
(***************************************************************************)
Resumption(m) == m.kind = "UserInput" /\ m.prompt = Continue
ContinueAfterSummary ==
    \A j \in DOMAIN inbox : Resumption(inbox[j]) =>
        /\ \A i \in 1..j - 1 : ~ ReplacesContext(inbox[i])
        /\ \A i \in DOMAIN tasks : ~ ReplacesContext(tasks[i])
=============================================================================
