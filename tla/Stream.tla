------------------------------- MODULE Stream -------------------------------
(***************************************************************************)
(* One request to a language model over HTTP: the task that reads the      *)
(* response (process_sse_stream, process_anthropic_sse and                 *)
(* process_responses_sse of llm_backend), the channel of Responses, and    *)
(* the inner loop of run_generation (agent.rs), which tells thinking from  *)
(* text and collects tool calls.                                           *)
(*                                                                         *)
(* The network cuts the bytes of the response anywhere, the server cuts    *)
(* its text and the arguments of its calls anywhere, and a stream may stop *)
(* anywhere: what the user sees and which calls are run should not depend  *)
(* on the cuts.  On the wire the body of an event is one unit and so is    *)
(* each byte of the blank line that follows it; text is a sequence of      *)
(* characters.  Ids, models, usage, token counts and the summaries of      *)
(* thoughts are left out.                                                  *)
(*                                                                         *)
(* A definition whose name ends in _Something repeats the one after it     *)
(* with a plausible slip; no action uses it, and a property of this module *)
(* fails when it does.                                                     *)
(***************************************************************************)
EXTENDS Naturals, Sequences, FiniteSets, SequencesExt

CONSTANTS
    Backends,  \* of "openai", "anthropic", "responses"
    Answers,   \* what the model may say: a text, and calls whose arguments
               \* are cut into pieces
    OpenTag,   \* ThinkingTags::open_tag
    CloseTag,  \* ThinkingTags::close_tag
    Hold,      \* characters of thought held back, 11 in the code
    Spaces,    \* white space
    Faults,    \* "error": an error event; "closed": the response ends early;
               \* "broken": its connection fails; "cancel"
    MaxOnWay   \* bound: events between the server and the agent

ASSUME StreamAssumption ==
    /\ Backends \subseteq {"openai", "anthropic", "responses"}
    /\ Faults \subseteq {"error", "closed", "broken", "cancel"}
    /\ MaxOnWay \in Nat \ {0} /\ Hold \in Nat
    /\ Answers \subseteq [text  : Seq(STRING),
                         calls : Seq([name : STRING \ {""}, args : Seq(STRING)])]
    /\ {OpenTag, CloseTag} \subseteq Seq(STRING)
    /\ OpenTag # <<>> /\ Len(CloseTag) \in 1..Hold + 1
    /\ \A i \in DOMAIN OpenTag : OpenTag[i] \notin Spaces

VARIABLES
    backend,  \* whose protocol the server speaks
    answer,   \* what the model says, all of it
    server,   \* how much of that has been written
    wire,     \* written and not yet received
    buffer,   \* received and not yet taken apart
    reader,   \* the rest of process_*: tool_state, current_tool_index
    queue,    \* Responses sent and not yet taken
    agent,    \* the locals of run_generation's inner loop
    shown,    \* what the app has been sent, as thoughts and as text
    heard,    \* history: the text the agent has been sent
    ran       \* the calls handed to execute_tool_call

vars == <<backend, answer, server, wire, buffer, reader, queue, agent, shown,
          heard, ran>>

Reader == <<buffer, reader, queue>>
Agent  == <<agent, shown, heard, ran>>

Init ==
    /\ backend \in Backends /\ answer \in Answers
    /\ server \in [said : {0}, given : {<<>>}, whole : {{}}, ends : {"no"},
                   blank : IF backend = "anthropic" THEN {"\n"} ELSE {"\n", "\r\n"}]
    /\ wire = <<>> /\ buffer = <<>> /\ queue = <<>>
    /\ reader = [pc |-> "reading", tools |-> <<>>, current |-> {}]
    /\ agent = [pc        |-> "listening",
                opening   |-> TRUE,   \* allow_thinking_start
                prefix    |-> <<>>,   \* pending_prefix
                thinking  |-> FALSE,  \* in_thinking
                thought   |-> <<>>,   \* thinking_buffer
                white     |-> <<>>,   \* pending_agent_response_prefix
                started   |-> FALSE,  \* final_response_started
                content   |-> <<>>,   \* accumulated_content
                calls     |-> <<>>,   \* accumulated_tool_calls
                error     |-> FALSE]  \* an Error was sent
    /\ shown = [thoughts |-> <<>>, text |-> <<>>]
    /\ heard = <<>> /\ ran = <<>>

-----------------------------------------------------------------------------
(* The server, as each provider's protocol has it: text first, then calls;  *)
(* of a call its name, its arguments piece by piece, and, from the          *)
(* Responses API, the whole of them once more.                              *)

Event(kind, text, call, name, args) ==
    [kind |-> kind, text |-> text, call |-> call, name |-> name, args |-> args]
Plain(kind) == Event(kind, <<>>, {}, "", <<>>)
Lf          == Plain("\n")
Cr          == Plain("\r")

Blank == IF server.blank = "\n" THEN <<Lf, Lf>> ELSE <<Cr, Lf, Cr, Lf>>

OnWay == Len(SelectSeq(wire \o buffer, LAMBDA u : u \notin {Lf, Cr})) + Len(queue)

Write(e, s) ==
    /\ server.ends = "no" /\ OnWay < MaxOnWay
    /\ wire' = wire \o <<e>> \o Blank
    /\ server' = s
    /\ UNCHANGED <<backend, answer, Reader, Agent>>

Calls     == answer.calls
Begun     == Len(server.given)
Pieces(i) == Len(Calls[i].args)
Given(i)  == server.given[i] = Pieces(i)
TextSaid  == server.said = Len(answer.text)

SayText(n) ==
    /\ n \in 1..Len(answer.text) - server.said
    /\ Write(Event("text", SubSeq(answer.text, server.said + 1, server.said + n),
                   {}, "", <<>>),
             [server EXCEPT !.said = @ + n])

BeginCall ==
    /\ TextSaid /\ Begun < Len(Calls)
    /\ backend = "anthropic" => \A i \in 1..Begun : Given(i)
    /\ Write(Event("begin", <<>>, {Begun + 1}, Calls[Begun + 1].name, <<>>),
             [server EXCEPT !.given = Append(@, 0)])

GivePiece(i) ==
    /\ i \in 1..Begun /\ ~ Given(i) /\ i \notin server.whole
    /\ Write(Event("args", <<>>, {i}, "", <<Calls[i].args[server.given[i] + 1]>>),
             [server EXCEPT !.given[i] = @ + 1])

GiveWhole(i) ==
    /\ backend = "responses" /\ i \in 1..Begun /\ i \notin server.whole
    /\ Write(Event("whole", <<>>, {i}, "", Calls[i].args),
             [server EXCEPT !.whole = @ \cup {i}])

(* Some servers of the chat API send a call at once and do not number it.   *)
WholeCall ==
    /\ backend = "openai" /\ TextSaid /\ Begun < Len(Calls)
    /\ \A i \in 1..Begun : Given(i)
    /\ Write(Event("begin", <<>>, {}, Calls[Begun + 1].name, Calls[Begun + 1].args),
             [server EXCEPT !.given = Append(@, Pieces(Begun + 1))])

Finish ==
    /\ TextSaid /\ Begun = Len(Calls)
    /\ \A i \in 1..Begun : Given(i) \/ i \in server.whole
    /\ Write(Plain("end"), [server EXCEPT !.ends = "whole"])

Stop(how) ==
    /\ how \in Faults
    /\ \/ how = "error" /\ Write(Plain("error"), [server EXCEPT !.ends = "error"])
       \/ /\ how \in {"closed", "broken"} /\ server.ends = "no"
          /\ server' = [server EXCEPT !.ends = how]
          /\ \E n \in 0..Len(wire) : wire' = SubSeq(wire, 1, n)
          /\ UNCHANGED <<backend, answer, Reader, Agent>>

-----------------------------------------------------------------------------
(* The reader.                                                              *)

Found(s, t)  == {i \in 1..Len(t) + 1 - Len(s) : SubSeq(t, i, i + Len(s) - 1) = s}

(* find_sse_separator; Anthropic's extract_sse_event knows only one of them. *)
Ends(b) == Found(<<Lf, Lf>>, b) \cup
           (IF backend = "anthropic" THEN {} ELSE Found(<<Cr, Lf, Cr, Lf>>, b))

Listening == reader.pc = "reading" /\ agent.pc = "listening"

(* The body's next chunk, as much of it as has come.                        *)
Receive(n) ==
    /\ Listening /\ Ends(buffer) = {} /\ n \in 1..Len(wire)
    /\ buffer' = buffer \o SubSeq(wire, 1, n)
    /\ wire' = SubSeq(wire, n + 1, Len(wire))
    /\ UNCHANGED <<backend, answer, server, reader, queue, Agent>>

(* extract_sse_event, and what follows for the event at hand.               *)
Message(kind, text, calls) == [kind |-> kind, text |-> text, calls |-> calls]

Extract(kind, messages, r) ==
    /\ Listening /\ Ends(buffer) # {}
    /\ LET i == Min(Ends(buffer)) IN
         /\ buffer[1].kind = kind
         /\ buffer' = SubSeq(buffer, i + (IF buffer[i] = Lf THEN 2 ELSE 4), Len(buffer))
    /\ queue' = queue \o messages
    /\ reader' = r
    /\ UNCHANGED <<backend, answer, server, wire, Agent>>

InHand == buffer[1]

ReadText == Extract("text", <<Message("text", InHand.text, <<>>)>>, reader)

(* A call's state by its index or by its item's id.                         *)
NoTool   == [name |-> "", args |-> <<>>]
Place_Next(call) == Len(reader.tools) + 1
Place(call) == IF call = {} THEN Len(reader.tools) + 1 ELSE Max(call)
Enlarged(i) == [j \in 1..Max({i, Len(reader.tools)}) |->
                  IF j \in DOMAIN reader.tools THEN reader.tools[j] ELSE NoTool]

(* update_streaming_tool_calls: each chunk carries the call as it is by now. *)
Updated(i) == [Enlarged(i) EXCEPT ![i] =
                 [name |-> IF InHand.name = "" THEN @.name ELSE InHand.name,
                  args |-> @.args \o InHand.args]]
Numbered(i, t) == [index |-> i, name |-> t.name, args |-> t.args]

ReadOpenAiCall ==
    /\ backend = "openai"
    /\ \E kind \in {"begin", "args"} :
         LET i == Place(InHand.call) IN
         Extract(kind, <<Message("calls", <<>>, <<Numbered(i, Updated(i)[i])>>)>>,
                 [reader EXCEPT !.tools = Updated(i)])

(* content_block_start and input_json_delta.                                *)
Grown == [j \in DOMAIN reader.tools |->
            IF j \in reader.current
              THEN [reader.tools[j] EXCEPT !.args = @ \o InHand.args]
              ELSE reader.tools[j]]

ReadAnthropicCall ==
    /\ backend = "anthropic"
    /\ \/ Extract("begin", <<>>,
            [reader EXCEPT !.tools = Append(@, [name |-> InHand.name, args |-> <<>>]),
                           !.current = {Len(reader.tools) + 1}])
       \/ Extract("args", <<>>, [reader EXCEPT !.tools = Grown])

(* output_item.added, function_call_arguments.delta, and .done, which       *)
(* replaces what the deltas have brought.                                   *)
Whole_Appended(i) == [Enlarged(i) EXCEPT ![i].args = @ \o InHand.args]
Whole(i)          == [Enlarged(i) EXCEPT ![i].args = InHand.args]

ReadResponsesCall ==
    /\ backend = "responses"
    /\ \/ \E kind \in {"begin", "args"} :
            Extract(kind, <<>>, [reader EXCEPT !.tools = Updated(Place(InHand.call))])
       \/ Extract("whole", <<>>, [reader EXCEPT !.tools = Whole(Place(InHand.call))])

(* finalize_tools: the calls, without the gaps that Enlarged has left.      *)
Kept      == {i \in DOMAIN reader.tools : reader.tools[i] # NoTool}
Nth(k)    == CHOOSE i \in Kept : Cardinality({j \in Kept : j <= i}) = k
Finalized == [k \in 1..Cardinality(Kept) |-> Numbered(Nth(k), reader.tools[Nth(k)])]

Done  == Message("done", <<>>, Finalized)
Error == Message("error", <<>>, <<>>)
Over  == [reader EXCEPT !.pc = "over"]

ReadEnd   == Extract("end", <<Done>>, Over)
ReadError == Extract("error", <<Error>>, Over)

(* The body ends.                                                           *)
Verdict_Lenient == IF server.ends = "broken" THEN Error ELSE Done
Verdict == IF server.ends = "broken" \/ backend = "anthropic" THEN Error ELSE Done

BodyEnds ==
    /\ Listening /\ wire = <<>> /\ Ends(buffer) = {}
    /\ server.ends # "no"
    /\ queue' = Append(queue, Verdict)
    /\ reader' = Over
    /\ UNCHANGED <<backend, answer, server, wire, buffer, Agent>>

-----------------------------------------------------------------------------
(* The agent.                                                               *)

HasVisible(t) == \E i \in DOMAIN t : t[i] \notin Spaces
FirstVisible(t) == Min({i \in DOMAIN t : t[i] \notin Spaces})
Trimmed(t) == SubSeq(t, FirstVisible(t), Len(t))
After(t, n) == SubSeq(t, n + 1, Len(t))

(* What a chunk does to the agent's locals and what it shows, as a record.  *)
Now == [a |-> agent, think |-> <<>>, say |-> <<>>]

(* Visible text: white space before the first of it waits for it.           *)
Say(s, t) ==
    IF ~ s.a.started /\ ~ HasVisible(t) THEN [s EXCEPT !.a.white = @ \o t]
    ELSE [s EXCEPT !.a.white = <<>>, !.a.content = @ \o s.a.white \o t,
                   !.say = @ \o s.a.white \o t,
                   !.a.started = @ \/ HasVisible(t)]

(* Thought: the closing tag may be cut, so as much as may be the beginning  *)
(* of one is held back.                                                     *)
Held_Less(t) == IF Len(t) < Hold THEN [show |-> <<>>, keep |-> t]
                ELSE [show |-> SubSeq(t, 1, Len(t) - Hold + 1),
                      keep |-> SubSeq(t, Len(t) - Hold + 2, Len(t))]
Held(t) == IF Len(t) <= Hold THEN [show |-> <<>>, keep |-> t]
           ELSE [show |-> SubSeq(t, 1, Len(t) - Hold),
                 keep |-> SubSeq(t, Len(t) - Hold + 1, Len(t))]

Think(s, t) ==
    IF t = <<>> THEN s
    ELSE LET all == s.a.thought \o t IN
         IF Found(CloseTag, all) = {}
           THEN [s EXCEPT !.a.thought = Held(all).keep, !.think = @ \o Held(all).show]
           ELSE LET i    == Min(Found(CloseTag, all))
                    over == [s EXCEPT !.a.thinking = FALSE, !.a.thought = <<>>,
                                      !.think = @ \o SubSeq(all, 1, i - 1)]
                    rest == After(all, i + Len(CloseTag) - 1)
                IN IF rest = <<>> THEN over ELSE Say(over, rest)

(* analyze_thinking_start on what has come so far.                          *)
Undecided(t) == ~ HasVisible(t) \/ IsStrictPrefix(Trimmed(t), OpenTag)
Opens(t)     == HasVisible(t) /\ IsPrefix(OpenTag, Trimmed(t))

Heed(t) ==
    IF ~ agent.opening THEN IF agent.thinking THEN Think(Now, t) ELSE Say(Now, t)
    ELSE LET all     == agent.prefix \o t
             decided == [Now EXCEPT !.a.opening = FALSE, !.a.prefix = <<>>]
         IN CASE Undecided(all) -> [Now EXCEPT !.a.prefix = all]
              [] Opens(all)     -> Think([decided EXCEPT !.a.thinking = TRUE],
                                         After(Trimmed(all), Len(OpenTag)))
              [] OTHER          -> Say(decided, all)

Show(s) ==
    /\ agent' = s.a
    /\ shown' = [thoughts |-> shown.thoughts \o s.think, text |-> shown.text \o s.say]

Take(kind) ==
    /\ agent.pc = "listening" /\ queue # <<>> /\ Head(queue).kind = kind
    /\ queue' = Tail(queue)
    /\ UNCHANGED <<backend, answer, server, wire, buffer, reader, ran>>

TakeText ==
    /\ Take("text")
    /\ Show(Heed(Head(queue).text))
    /\ heard' = heard \o Head(queue).text

(* A tool call, of which a message brings one, ends a thought and replaces  *)
(* what was known of it.                                                    *)
Inserted(calls, c) ==
    IF \E i \in DOMAIN calls : calls[i].index = c.index
      THEN [i \in DOMAIN calls |-> IF calls[i].index = c.index THEN c ELSE calls[i]]
      ELSE Append(calls, c)

Flushed(s) ==
    IF ~ s.a.thinking \/ s.a.thought = <<>> THEN s
    ELSE [s EXCEPT !.think = @ \o s.a.thought, !.a.thought = <<>>, !.a.thinking = FALSE]

TakeCalls ==
    /\ Take("calls")
    /\ Show([Flushed(Now) EXCEPT !.a.calls = Inserted(@, Head(Head(queue).calls))])
    /\ UNCHANGED heard

(* After the loop: what was held back is shown, and the calls are run.      *)
Leave(s) ==
    /\ Show(LET said == [s EXCEPT !.say = @ \o s.a.prefix, !.a.content = @ \o s.a.prefix,
                                  !.a.prefix = <<>>, !.a.pc = "over"]
            IN Flushed(said))
    /\ ran' = s.a.calls
    /\ UNCHANGED <<backend, answer, server, wire, buffer, reader, heard>>

TakeEnd(kind) ==
    /\ agent.pc = "listening" /\ queue # <<>> /\ Head(queue).kind = kind
    /\ queue' = Tail(queue)

TakeDone ==
    /\ TakeEnd("done")
    /\ Leave([Now EXCEPT !.a.calls = IF @ = <<>> THEN Head(queue).calls ELSE @])

TakeError == TakeEnd("error") /\ Leave([Now EXCEPT !.a.error = TRUE])

(* check_cancel: what was said is said again, and the stream dropped.       *)
Cancel ==
    /\ "cancel" \in Faults /\ agent.pc = "listening"
    /\ agent' = [agent EXCEPT !.pc = "left"]
    /\ shown' = IF agent.thinking THEN shown
                ELSE [shown EXCEPT !.text = @ \o agent.content]
    /\ UNCHANGED <<backend, answer, server, wire, Reader, heard, ran>>

(* With nobody to send to, the reader returns sooner or later.              *)
Abandon ==
    /\ agent.pc = "left" /\ reader.pc = "reading"
    /\ reader' = Over
    /\ UNCHANGED <<backend, answer, server, wire, buffer, queue, Agent>>

-----------------------------------------------------------------------------
Serve ==
    \/ \E n \in 1..Len(answer.text) : SayText(n)
    \/ BeginCall \/ WholeCall
    \/ \E i \in 1..Begun : GivePiece(i) \/ GiveWhole(i)
    \/ Finish
    \/ \E how \in Faults : Stop(how)

ReadOn ==
    \/ \E n \in 1..Len(wire) : Receive(n)
    \/ ReadText \/ ReadOpenAiCall \/ ReadAnthropicCall \/ ReadResponsesCall
    \/ ReadEnd \/ ReadError \/ BodyEnds \/ Abandon

Next == Serve \/ ReadOn \/ TakeText \/ TakeCalls \/ TakeDone \/ TakeError \/ Cancel

Spec == Init /\ [][Next]_vars

-----------------------------------------------------------------------------
TypeOK ==
    /\ server.said \in 0..Len(answer.text) /\ Begun \in 0..Len(Calls)
    /\ reader.pc \in {"reading", "over"} /\ Len(reader.tools) <= Len(Calls)
    /\ reader.current \subseteq DOMAIN reader.tools
    /\ agent.pc \in {"listening", "over", "left"}
    /\ Len(agent.thought) <= Hold

(* What a text means, as a whole: a thought in front, between the tags, and *)
(* the rest.                                                                *)
Inside(t)   == After(Trimmed(t), Len(OpenTag))
Thoughts(t) ==
    IF ~ Opens(t) THEN <<>>
    ELSE IF Found(CloseTag, Inside(t)) = {} THEN Inside(t)
    ELSE SubSeq(Inside(t), 1, Min(Found(CloseTag, Inside(t))) - 1)
Words(t) ==
    IF ~ Opens(t) THEN t
    ELSE After(Inside(t), Len(Thoughts(t)) + Len(CloseTag))

(***************************************************************************)
(* Thoughts and text are told apart, and nothing of either is lost, shown  *)
(* twice or shown as the other, whatever pieces they come in.  White space *)
(* that nothing follows is not shown.                                      *)
(***************************************************************************)
ShownAsWritten == agent.pc # "left" =>
    /\ IsPrefix(shown.thoughts, Thoughts(heard)) /\ IsPrefix(shown.text, Words(heard))
    /\ agent.pc = "over" =>
         /\ shown.thoughts = Thoughts(heard)
         /\ shown.text = Words(heard) \/ ~ HasVisible(Words(heard))

(***************************************************************************)
(* When a stream has come to its end, all of its text was heard and the    *)
(* calls that are run are those the model asked for, in order and with     *)
(* their whole arguments, wherever the bytes were cut.  From Anthropic no  *)
(* call is run otherwise.                                                  *)
(***************************************************************************)
Asked == [i \in DOMAIN Calls |-> Numbered(i, Calls[i])]
RunAsAsked == agent.pc = "over" =>
    /\ server.ends = "whole" => heard = answer.text /\ ran = Asked
    /\ backend = "anthropic" => ran \in {<<>>, Asked}

(***************************************************************************)
(* An answer that was cut short is not taken for a complete one: the user  *)
(* is told of an error, of a closed connection as far as the protocol has  *)
(* an end the reader insists on.                                           *)
(***************************************************************************)
CutShortIsTold ==
    agent.pc = "over" /\ server.ends \in
        (IF backend = "anthropic" THEN {"error", "broken", "closed"} ELSE {"error", "broken"})
      => agent.error
=============================================================================
