------------------------------- MODULE Agent -------------------------------
(***************************************************************************)
(* The conversation agent of agent_core (agent.rs, conversation.rs, the    *)
(* cancel flag and handle_approval_response of lib.rs) and the permission  *)
(* dialogue of exec_command.rs.  One Agent is shared by every caller: a    *)
(* process_message takes the conversation away while it generates and puts *)
(* it back at its end, one flag cancels, and one slot holds the sender     *)
(* whose receiver waits for the user's permission.                         *)
(*                                                                         *)
(* The module has no Next: Chat and SubAgents put the agent to work.  What a *)
(* conversation says is abstracted to the set of prompts the model was     *)
(* told; texts, token counts and the thinking tags are left out.           *)
(***************************************************************************)
EXTENDS Naturals, Sequences

CONSTANTS
    AskPermission,  \* SafetyConfig::ask_permission
    Faults,         \* "request": stream_chat_request fails; "stream": an
                    \* error response within the stream
    MaxCommands     \* bound: commands a generation asks for

ASSUME AgentAssumption ==
    /\ AskPermission \in BOOLEAN
    /\ Faults \subseteq {"request", "stream", "timeout"}
    /\ MaxCommands \in Nat

VARIABLES
    conversation,     \* Agent::conversation: {} is None, {m} a builder that
                      \* holds the prompts m
    cancelRequested,  \* Agent::cancel_requested
    pendingApproval,  \* GlobalState::pending_approval: {} or the generation
                      \* whose receiver is at the other end
    gens,             \* the process_message calls, in the order of their start
    out               \* the messages sent on tx, oldest first

agentVars == <<conversation, cancelRequested, pendingApproval, gens, out>>

(***************************************************************************)
(* A process_message call.  prompt and mem are what it asks and what the   *)
(* builder holds, left the commands it may still ask for, heard whether it *)
(* has sent text.  cancelled and late are history: a cancellation that     *)
(* found the generation at work, and the requests it has made since.       *)
(***************************************************************************)
Call(p) == [prompt |-> p, pc |-> "spawned", mem |-> {}, left |-> MaxCommands,
            answer |-> "none", heard |-> FALSE, cancelled |-> FALSE, late |-> 0]

Over      == {"ended", "stopped", "failed"}
Live(g)   == gens[g].pc \notin Over
AtWork(g) == Live(g) /\ gens[g].pc # "spawned"
Spawned   == {g \in DOMAIN gens : gens[g].pc = "spawned"}

(* What the user is asked: the command that generation g has reached.      *)
Asked(g) == <<g, gens[g].left>>

AgentInit ==
    /\ conversation = {}
    /\ cancelRequested = FALSE
    /\ pendingApproval = {}
    /\ gens = <<>>
    /\ out = <<>>

At(g, pc)       == g \in DOMAIN gens /\ gens[g].pc = pc
Goto(g, pc)     == gens' = [gens EXCEPT ![g].pc = pc]
Msg(kind, g)    == [kind |-> kind, of |-> g]
Tell(msgs)      == out' = out \o msgs

-----------------------------------------------------------------------------
(***************************************************************************)
(* process_message up to run_generation: the flag is reset and the         *)
(* conversation taken, which leaves None to whoever looks next.            *)
(***************************************************************************)
Begin_Unsaid(g) ==
    /\ At(g, "spawned") /\ \A h \in Spawned : g <= h
    /\ cancelRequested' = FALSE
    /\ conversation' = {}
    /\ gens' = [gens EXCEPT ![g].pc = "request", ![g].mem = UNION conversation]
    /\ UNCHANGED <<pendingApproval, out>>

Begin(g) ==
    /\ At(g, "spawned") /\ \A h \in Spawned : g <= h
    /\ cancelRequested' = FALSE
    /\ conversation' = {}
    /\ gens' = [gens EXCEPT ![g].pc = "request",
                            ![g].mem = (UNION conversation) \cup {gens[g].prompt}]
    /\ UNCHANGED <<pendingApproval, out>>

(* run_generation, one turn of its outer loop: stream_chat_request answers  *)
(* with a stream.                                                           *)
Request(g) ==
    /\ At(g, "request")
    /\ gens' = [gens EXCEPT ![g].pc = "poll",
                            ![g].late = IF gens[g].cancelled THEN @ + 1 ELSE @]
    /\ UNCHANGED <<conversation, cancelRequested, pendingApproval, out>>

(* ... or fails: the ? leaves the function, and the builder with it.        *)
RequestFails(g, msgs) ==
    /\ At(g, "request") /\ "request" \in Faults
    /\ Goto(g, "failed") /\ Tell(msgs)
    /\ UNCHANGED <<conversation, cancelRequested, pendingApproval>>

(* check_cancel! at the head of the inner loop: what was said so far goes   *)
(* back into the conversation, and the turn is over.                        *)
CancelSeen(g) ==
    /\ At(g, "poll") /\ cancelRequested
    /\ conversation' = {gens[g].mem}
    /\ Goto(g, "stopped") /\ Tell(<<Msg("Done", g)>>)
    /\ UNCHANGED <<cancelRequested, pendingApproval>>

Poll_Deaf(g) ==
    /\ At(g, "poll")
    /\ Goto(g, "wait")
    /\ UNCHANGED <<conversation, cancelRequested, pendingApproval, out>>

Poll(g) ==
    /\ At(g, "poll") /\ ~ cancelRequested
    /\ Goto(g, "wait")
    /\ UNCHANGED <<conversation, cancelRequested, pendingApproval, out>>

(* The select: ten milliseconds or a chunk go by, and the flag is looked at *)
(* again.  Only one chunk of a turn is told of, the one the app acts on.    *)
Tick(g) ==
    /\ At(g, "wait")
    /\ Goto(g, "poll")
    /\ UNCHANGED <<conversation, cancelRequested, pendingApproval, out>>

Chunk(g) ==
    /\ At(g, "wait") /\ ~ gens[g].heard
    /\ gens' = [gens EXCEPT ![g].pc = "poll", ![g].heard = TRUE]
    /\ Tell(<<Msg("Text", g)>>)
    /\ UNCHANGED <<conversation, cancelRequested, pendingApproval>>

(* The stream ends: with tool calls, or with the answer; an error response  *)
(* ends the stream and not the turn.                                        *)
StreamEnds(g) ==
    /\ At(g, "wait")
    /\ \/ Goto(g, "finish")
       \/ gens[g].left > 0 /\ Goto(g, "tool")
    /\ UNCHANGED <<conversation, cancelRequested, pendingApproval, out>>

StreamErrors(g) ==
    /\ At(g, "wait") /\ "stream" \in Faults
    /\ \/ Goto(g, "finish")
       \/ gens[g].left > 0 /\ Goto(g, "tool")
    /\ Tell(<<Msg("Error", g)>>)
    /\ UNCHANGED <<conversation, cancelRequested, pendingApproval>>

(* A tool call is done with; the response may hold another.                 *)
ToolDone(g) ==
    /\ \E pc \in {"request"} \cup IF gens[g].left > 1 THEN {"tool"} ELSE {} :
          gens' = [gens EXCEPT ![g].pc = pc, ![g].answer = "none",
                               ![g].left = @ - 1]
    /\ UNCHANGED <<conversation, cancelRequested, pendingApproval, out>>

(* execute_tool_call: a tool that is not exec_command, or a command that    *)
(* needs no permission.                                                     *)
RunTool(g) == At(g, "tool") /\ ToolDone(g)

(* A command that needs permission: the new sender replaces the one in the  *)
(* slot, whose receiver thereby learns that its channel is closed.          *)
AskUser(g) ==
    /\ At(g, "tool") /\ AskPermission
    /\ gens' = [h \in DOMAIN gens |->
                  IF h = g THEN [gens[h] EXCEPT !.pc = "approve"]
                  ELSE IF h \in pendingApproval
                    THEN [gens[h] EXCEPT !.answer = "closed"]
                    ELSE gens[h]]
    /\ pendingApproval' = {g}
    /\ Tell(<<[kind |-> "RequestApproval", of |-> Asked(g)]>>)
    /\ UNCHANGED <<conversation, cancelRequested>>

(* Approved, denied or closed: the command has run or not, and its result   *)
(* joins the builder.                                                       *)
AnswerTaken(g) ==
    /\ At(g, "approve") /\ gens[g].answer # "none"
    /\ ToolDone(g)

(* The answer is complete: the builder becomes the conversation.            *)
Finish_Forgets(g) ==
    /\ At(g, "finish")
    /\ Goto(g, "ended") /\ Tell(<<Msg("Done", g)>>)
    /\ UNCHANGED <<conversation, cancelRequested, pendingApproval>>

Finish(g) ==
    /\ At(g, "finish")
    /\ conversation' = {gens[g].mem}
    /\ Goto(g, "ended") /\ Tell(<<Msg("Done", g)>>)
    /\ UNCHANGED <<cancelRequested, pendingApproval>>

-----------------------------------------------------------------------------
(* request_cancel.                                                          *)
RequestCancel ==
    /\ cancelRequested' = TRUE
    /\ gens' = [g \in DOMAIN gens |->
                  [gens[g] EXCEPT !.cancelled = @ \/ AtWork(g)]]
    /\ UNCHANGED <<conversation, pendingApproval, out>>

(* handle_approval_response.                                                *)
Respond(a) ==
    /\ gens' = [g \in DOMAIN gens |->
                  IF g \in pendingApproval
                    THEN [gens[g] EXCEPT !.answer = a] ELSE gens[g]]
    /\ pendingApproval' = {}
    /\ UNCHANGED <<conversation, cancelRequested, out>>

(* process_message handed to the runtime, which will poll it.               *)
Spawn(p) == gens' = Append(gens, Call(p))

(* clear_conversation and inject_summary_context.                           *)
SetConversation(c) ==
    /\ conversation' = c
    /\ UNCHANGED <<cancelRequested, pendingApproval, gens>>

(* run_generation at work, whoever called it.                               *)
Generate(g) ==
    \/ Begin(g) \/ Request(g) \/ CancelSeen(g) \/ Poll(g) \/ Tick(g)
    \/ Chunk(g) \/ StreamEnds(g) \/ StreamErrors(g) \/ RunTool(g)
    \/ AskUser(g) \/ AnswerTaken(g) \/ Finish(g)

-----------------------------------------------------------------------------
(* Beside the types: a generation at work has its own prompt in the builder *)
(* it took, and the sender in the slot is one whose receiver still waits.   *)
AgentTypeOK ==
    /\ cancelRequested \in BOOLEAN
    /\ pendingApproval \subseteq
          {g \in DOMAIN gens : gens[g].pc = "approve" /\ gens[g].answer = "none"}
    /\ \A g \in DOMAIN gens :
          /\ gens[g].pc \in {"spawned", "request", "poll", "wait", "tool",
                             "approve", "finish"} \cup Over
          /\ gens[g].left \in 0..MaxCommands
          /\ gens[g].answer \in {"none", "yes", "no", "closed"}
          /\ AtWork(g) => gens[g].prompt \in gens[g].mem

(***************************************************************************)
(* A generation that was cancelled at work makes at most one more request: *)
(* a command under way is waited for, and the flag is seen before the      *)
(* stream that follows is read.                                            *)
(***************************************************************************)
CancelStops == \A g \in DOMAIN gens : gens[g].late <= 1
=============================================================================
