----------------------------- MODULE SubAgents -----------------------------
(***************************************************************************)
(* The sub-agents of an orchestration (step_execution.rs, with_tools and   *)
(* with_working_directory of lib.rs): a worker does a step, a summarizer   *)
(* and then perhaps a verifier look at its work, each in a clone of the    *)
(* app's agent.  A clone has a cancel flag and a conversation of its own;  *)
(* the tools and the approval slot are everybody's.                        *)
(*                                                                         *)
(* execute_step_with_events_and_cancel runs process_message on a blocking  *)
(* thread and listens to its messages and to the step's cancel channel,    *)
(* which only a worker has.  Agent's flag and conversation stand for those *)
(* of the sub-agent at work, of which there is one.  The events it         *)
(* forwards and the texts it keeps for the task are left out.              *)
(*                                                                         *)
(* A definition whose name ends in _Something repeats the one after it     *)
(* with a plausible slip; no action uses it, and a property of this module *)
(* fails when it does.                                                     *)
(***************************************************************************)
EXTENDS Agent

CONSTANT MaxJobs  \* bound: sub-agents

ASSUME SubAgentsAssumption == MaxJobs \in Nat

VARIABLES
    tools,      \* Agent::tools, shared by every clone
    job,        \* the call of execute_step_with_events_and_cancel
    cancelRx,   \* signals in the step's cancel channel
    log         \* what the calls returned, oldest first

vars == <<agentVars, tools, job, cancelRx, log>>

Roles == {"worker", "summarizer", "verifier"}
Outfit(role) == CASE role = "worker"     -> "all"
                  [] role = "summarizer" -> "readonly"
                  [] role = "verifier"   -> "verifier"

Idle == [pc |-> "idle", role |-> "worker", requested |-> FALSE, error |-> FALSE]

Init ==
    /\ AgentInit
    /\ tools = "all" /\ job = Idle /\ cancelRx = 0
    /\ log = <<>>

Current == Len(gens)

-----------------------------------------------------------------------------
(* Which sub-agent comes next: a completed step that requires verification  *)
(* is summarized and its summary verified; otherwise the run goes on to     *)
(* another step.                                                            *)
After(task, role) ==
    CASE role = "summarizer" -> task.role = "worker" /\ task.state = "Completed"
      [] role = "verifier"   -> task.role = "summarizer" /\ task.state # "Failed"
      [] OTHER               -> task.role # "summarizer" \/ task.state = "Failed"
Due(role) == IF log = <<>> THEN role = "worker" ELSE After(log[Len(log)], role)

(* with_working_directory, and clear_conversation at the head of the step.  *)
Clone_Shared == UNCHANGED <<conversation, cancelRequested>>
Clone        == conversation' = {} /\ cancelRequested' = FALSE

(* with_tools stores the list in the clone's tools, which are the original's. *)
Equip(role) == tools' = IF role = "worker" THEN tools ELSE Outfit(role)

Start(role) ==
    /\ job.pc = "idle" /\ Len(log) < MaxJobs /\ Due(role)
    /\ Clone /\ Equip(role) /\ Spawn(Len(log) + 1)
    /\ job' = [Idle EXCEPT !.pc = "listen", !.role = role]
    /\ out' = <<>> /\ cancelRx' = 0
    /\ UNCHANGED <<pendingApproval, log>>

(* cancel_step or abort finds the step's sender in the cancel handle.       *)
Signal ==
    /\ job.pc # "idle" /\ job.role = "worker" /\ cancelRx = 0 /\ ~ job.requested
    /\ cancelRx' = 1
    /\ UNCHANGED <<agentVars, tools, job, log>>

-----------------------------------------------------------------------------
(* The blocking thread.  A failed request is returned, not sent.            *)
Work(g) ==
    /\ Generate(g) \/ RequestFails(g, <<>>)
    /\ UNCHANGED <<tools, job, cancelRx, log>>

(* The listening loop: a message of the agent ...                           *)
Hear ==
    /\ job.pc = "listen" /\ out # <<>>
    /\ out' = Tail(out)
    /\ job' = [job EXCEPT !.error = @ \/ Head(out).kind = "Error",
                          !.pc = IF Head(out).kind \in {"Error", "Done"}
                                   THEN "join" ELSE @]
    /\ UNCHANGED <<conversation, cancelRequested, pendingApproval, gens, tools,
                   cancelRx, log>>

(* ... the end of its channel ...                                           *)
ChannelClosed_Ignored == FALSE
ChannelClosed == out = <<>> /\ ~ Live(Current)

HearNothing ==
    /\ job.pc = "listen" /\ ChannelClosed
    /\ job' = [job EXCEPT !.pc = "join"]
    /\ UNCHANGED <<agentVars, tools, cancelRx, log>>

(* ... or the signal, after which the channel is not looked at again.       *)
HearSignal ==
    /\ job.pc = "listen" /\ cancelRx > 0 /\ ~ job.requested
    /\ job' = [job EXCEPT !.requested = TRUE]
    /\ cancelRx' = 0
    /\ RequestCancel
    /\ UNCHANGED <<tools, log>>

Outcome_Deaf(failed) == IF failed THEN "Failed" ELSE "Completed"
Outcome(failed) ==
    IF job.requested THEN "Cancelled" ELSE IF failed THEN "Failed" ELSE "Completed"

(* blocking.await, and the task that is returned.                           *)
Join ==
    /\ job.pc = "join" /\ ~ Live(Current)
    /\ LET failed == job.error \/ gens[Current].pc = "failed" IN
         log' = Append(log, [role |-> job.role, state |-> Outcome(failed)])
    /\ job' = Idle
    /\ UNCHANGED <<agentVars, tools, cancelRx>>

-----------------------------------------------------------------------------
Next ==
    \/ \E role \in Roles : Start(role)
    \/ Signal
    \/ \E g \in DOMAIN gens : Work(g)
    \/ Hear \/ HearNothing \/ HearSignal \/ Join

Spec == Init /\ [][Next]_vars

(* The blocking thread runs, streams end, and the listening task is polled. *)
Ends(g) == (StreamEnds(g) \/ StreamErrors(g)) /\ Work(g)

FairSpec ==
    /\ Spec
    /\ WF_vars(Hear) /\ WF_vars(HearNothing) /\ WF_vars(Join)
    /\ \A g \in 1..MaxJobs : WF_vars(Work(g)) /\ SF_vars(Ends(g))

-----------------------------------------------------------------------------
TypeOK ==
    /\ AgentTypeOK
    /\ tools \in {"all", "readonly", "verifier"} /\ cancelRx \in 0..1
    /\ job.pc \in {"idle", "listen", "join"} /\ job.role \in Roles
    /\ Len(log) \in {Current, Current - 1}

(***************************************************************************)
(* A step reported as completed was worked on to its end: its generation   *)
(* was neither stopped by a cancellation nor did it fail.                  *)
(***************************************************************************)
CompletedRanWhole == \A i \in DOMAIN log :
    log[i].state = "Completed" => gens[i].pc = "ended"

(* A sub-agent knows its own prompt and nothing of those before it.         *)
OwnContext == \A g \in DOMAIN gens : AtWork(g) => gens[g].mem = {gens[g].prompt}

(* Every call returns, if the backend's streams end and no command needs    *)
(* permission.                                                              *)
JobsEnd == []<>(job.pc = "idle")
=============================================================================
