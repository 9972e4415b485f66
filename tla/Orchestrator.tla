---------------------------- MODULE Orchestrator ----------------------------
(***************************************************************************)
(* The spec orchestrator of agent_core (orchestrator.rs): one task runs    *)
(* `Orchestrator::run`, a depth-first walk over a stack of spec sheets,    *)
(* while the operator's task calls `OrchestratorControl` on a clone of the *)
(* shared flags, the shared cancel handle and the command channel.  The    *)
(* two tasks share memory and take no common lock, so every read or write  *)
(* of something shared is a step of its own.                               *)
(*                                                                         *)
(* A spec sheet is known by the prefix of its steps ("1.2" is <<1, 2>>)    *)
(* and its length; a step by the prefix `compose_prefix` gives it.         *)
(*                                                                         *)
(* A definition whose name ends in _Something repeats the one after it     *)
(* with a plausible slip; no action uses it, and a property of this module *)
(* fails when it does.                                                     *)
(***************************************************************************)
EXTENDS Naturals, Sequences

CONSTANTS
    RootLen,    \* number of steps of the spec the run starts with
    ChildLens,  \* numbers of steps a child spec may have
    Verified,   \* the steps whose sheet says requires_verification
    Outcomes,   \* what executing a step may end in, cancellation apart
    Verdicts,   \* what the verifier may answer, or that there is no summary
    Requests,   \* the commands the operator may issue
    MaxDepth,   \* bound: no sub-agent splits a step nested this deep
    MaxCalls    \* bound: number of calls the operator makes

Prefix   == Seq(Nat)
Kinds    == {"Pause", "Resume", "Abort", "RerunVerifiers", "InjectSplit",
             "CancelStep", "ResumeStep"}
Command  == [kind : Kinds, prefix : Prefix, len : Nat]
Frame    == [prefix : Prefix, len : Nat, idx : Nat \ {0}]
States   == {"Completed", "Submitted", "Failed", "Cancelled"}

ASSUME RunAssumption ==
    /\ RootLen \in Nat
    /\ ChildLens \subseteq Nat
    /\ Verified \subseteq Prefix
    /\ Outcomes \subseteq {"Completed", "Submitted", "Failed", "Error"}
    /\ Verdicts \subseteq {"Verified", "NeedsRevision", "Failed", "NoSummary"}
ASSUME OperatorAssumption ==
    /\ Requests \subseteq Command
    /\ MaxDepth \in Nat
    /\ MaxCalls \in Nat

VARIABLES
    (* Orchestrator, private to the run loop *)
    stack,            \* Vec<(SpecSheet, usize, String)>, the top first
    cur,              \* the entry `run` has popped
    pc,               \* where `run` is
    site,             \* which of the three calls of process_commands is open
    batch,            \* the commands process_commands has drained
    task,             \* the task the sub-agent returned: state and child spec
    pending,          \* pending_resume: Option<entry>
    cancelPrefix,     \* cancel_prefix: Option<prefix>
    lastSummary,      \* last_summary: Option<step>
    lastVerification, \* last_verification: Option<step>
    done, failed,     \* the steps whose status is Completed, Failed
    (* shared by the run loop and OrchestratorControl *)
    commands,         \* the command channel
    paused,           \* the pause flag
    sharedPrefix,     \* shared_current_prefix: Option<prefix>
    sharedCancel,     \* shared_current_cancel.is_some()
    signal,           \* calls whose () is in the current step's cancel channel
    (* the operator *)
    control,          \* where the operator is in which call
    calls             \* number of calls begun

VARIABLES
    (* history: read by no action, only by properties *)
    opened,           \* the specs pushed so far: prefix and length
    cut,              \* specs whose rest was dropped by a verifier's rejection
    overwritten,      \* specs whose entry was overwritten in pending_resume
    aborting,         \* abort() has returned
    lateStarts,       \* steps started since (counted up to 2)
    pausing,          \* pause() has returned and nothing was resumed since
    pausedStarts      \* steps started since (counted up to 2)

walkVars    == <<stack, cur, done, failed>>
loopVars    == <<site, batch, task>>
cancelVars  == <<pending, cancelPrefix>>
lastVars    == <<lastSummary, lastVerification>>
handleVars  == <<sharedPrefix, sharedCancel, signal>>
controlVars == <<control, calls>>
specHistory == <<opened, cut, overwritten>>
stopHistory == <<aborting, lateStarts, pausing, pausedStarts>>
vars == <<walkVars, loopVars, pc, cancelVars, lastVars, commands, paused,
          handleVars, controlVars, specHistory, stopHistory>>

Ended == pc \in {"completed", "aborted", "error"}

Step(f)     == Append(f.prefix, f.idx)
Below(p, q) == Len(p) < Len(q) /\ SubSeq(q, 1, Len(p)) = p
Push(f, s)  == <<f>> \o s
Root        == [prefix |-> <<>>, len |-> RootLen, idx |-> 1]
Child_FromZero(p, n) == [prefix |-> p, len |-> n, idx |-> 0]
Child(p, n) == [prefix |-> p, len |-> n, idx |-> 1]
UpTo2(n)    == IF n < 2 THEN n + 1 ELSE n

Init ==
    /\ stack = <<Root>> /\ cur = Root
    /\ pc = "pop" /\ site = "top"
    /\ batch = <<>> /\ task = [state |-> "Completed", child |-> {}]
    /\ pending = {} /\ cancelPrefix = {}
    /\ lastSummary = {} /\ lastVerification = {}
    /\ done = {} /\ failed = {}
    /\ commands = <<>> /\ paused = FALSE
    /\ sharedPrefix = {} /\ sharedCancel = FALSE /\ signal = {}
    /\ control = [at |-> "idle", cmd |-> {}] /\ calls = 0
    /\ opened = {[prefix |-> <<>>, len |-> RootLen]}
    /\ cut = {} /\ overwritten = {}
    /\ aborting = FALSE /\ lateStarts = 0
    /\ pausing = FALSE /\ pausedStarts = 0

-----------------------------------------------------------------------------
(* OrchestratorControl, called from the operator's task.                    *)

(* pause() and resume() store the flag before they send; abort() and        *)
(* cancel_step() go to the cancel handle before they send.                  *)
Call(c) ==
    /\ control.at = "idle" /\ calls < MaxCalls
    /\ calls' = calls + 1
    /\ control' = [at |-> CASE c.kind = "CancelStep" -> "match"
                            [] c.kind = "Abort"      -> "signal"
                            [] OTHER                 -> "send",
                   cmd |-> {c}]
    /\ paused' = (c.kind = "Pause" \/ (paused /\ c.kind # "Resume"))
    /\ pausing' = (pausing /\ c.kind \notin {"Resume", "ResumeStep"})
    /\ UNCHANGED <<walkVars, loopVars, pc, cancelVars, lastVars, commands,
                   handleVars, specHistory, aborting, lateStarts, pausedStarts>>

(* signal_cancel_if_matches reads the shared prefix under its own lock ... *)
MatchPrefix(c) ==
    /\ control = [at |-> "match", cmd |-> {c}]
    /\ control' = [control EXCEPT !.at = IF sharedPrefix = {c.prefix}
                                         THEN "signal" ELSE "send"]
    /\ UNCHANGED <<walkVars, loopVars, pc, cancelVars, lastVars, commands,
                   paused, handleVars, calls, specHistory, stopHistory>>

(* ... and signal_current_cancel sends to whatever handle is there by then. *)
SignalCancel(c) ==
    /\ control = [at |-> "signal", cmd |-> {c}]
    /\ signal' = IF sharedCancel THEN signal \cup {c} ELSE signal
    /\ control' = [control EXCEPT !.at = "send"]
    /\ UNCHANGED <<walkVars, loopVars, pc, cancelVars, lastVars, commands,
                   paused, sharedPrefix, sharedCancel, calls, specHistory,
                   stopHistory>>

(* The send fails when the run is over and its receiver is gone.            *)
SendCommand(c) ==
    /\ control = [at |-> "send", cmd |-> {c}]
    /\ control' = [at |-> "idle", cmd |-> {}]
    /\ commands' = IF Ended THEN commands ELSE Append(commands, c)
    /\ aborting' = (aborting \/ c.kind = "Abort")
    /\ pausing' = (pausing \/ c.kind = "Pause")
    /\ pausedStarts' = IF c.kind = "Pause" THEN 0 ELSE pausedStarts
    /\ UNCHANGED <<walkVars, loopVars, pc, cancelVars, lastVars, paused,
                   handleVars, calls, specHistory, lateStarts>>

Operator ==
    \E c \in Requests : Call(c)
Calling ==
    \E c \in control.cmd : MatchPrefix(c) \/ SignalCancel(c) \/ SendCommand(c)

-----------------------------------------------------------------------------
(* run: take the next entry, drain the commands, wait while paused.         *)

Pop ==
    /\ pc = "pop" /\ stack # <<>>
    /\ cur' = Head(stack) /\ stack' = Tail(stack)
    /\ site' = "top" /\ pc' = "poll"
    /\ UNCHANGED <<done, failed, batch, task, cancelVars, lastVars, commands,
                   paused, handleVars, controlVars, specHistory, stopHistory>>

(* The stack is empty: Completed is emitted and run returns.                *)
Complete ==
    /\ pc = "pop" /\ stack = <<>>
    /\ pc' = "completed"
    /\ UNCHANGED <<walkVars, loopVars, cancelVars, lastVars, commands, paused,
                   handleVars, controlVars, specHistory, stopHistory>>

(* process_commands first drains the channel into a vector ...              *)
Drain ==
    /\ pc = "poll"
    /\ batch' = commands /\ commands' = <<>>
    /\ pc' = "handle"
    /\ UNCHANGED <<walkVars, site, task, cancelVars, lastVars, paused,
                   handleVars, controlVars, specHistory, stopHistory>>

(* ... then handles the commands of the vector one by one.                  *)
Handling(kind) == /\ pc = "handle" /\ batch # <<>>
                  /\ Head(batch).kind = kind
                  /\ batch' = Tail(batch)

HandlePause_EventOnly ==
    /\ Handling("Pause")
    /\ UNCHANGED <<walkVars, site, task, pc, cancelVars, lastVars, commands,
                   paused, handleVars, controlVars, specHistory, stopHistory>>
HandlePause ==
    /\ Handling("Pause")
    /\ paused' = TRUE
    /\ UNCHANGED <<walkVars, site, task, pc, cancelVars, lastVars, commands,
                   handleVars, controlVars, specHistory, stopHistory>>

HandleResume ==
    /\ Handling("Resume")
    /\ paused' = FALSE
    /\ UNCHANGED <<walkVars, site, task, pc, cancelVars, lastVars, commands,
                   handleVars, controlVars, specHistory, stopHistory>>

(* Every caller of process_commands returns from run: the rest of the batch *)
(* and the entry in hand are dropped.                                       *)
HandleAbort_EventOnly ==
    /\ Handling("Abort")
    /\ UNCHANGED <<walkVars, site, task, pc, cancelVars, lastVars, commands,
                   paused, handleVars, controlVars, specHistory, stopHistory>>
HandleAbort ==
    /\ Handling("Abort")
    /\ pc' = "aborted"
    /\ UNCHANGED <<walkVars, site, task, cancelVars, lastVars, commands, paused,
                   handleVars, controlVars, specHistory, stopHistory>>

(* rerun_last_verifier judges the cached context again and makes its        *)
(* summary the last one.                                                    *)
HandleRerun ==
    /\ Handling("RerunVerifiers")
    /\ lastSummary' = IF lastVerification = {} THEN lastSummary
                      ELSE lastVerification
    /\ UNCHANGED <<walkVars, site, task, pc, cancelVars, lastVerification,
                   commands, paused, handleVars, controlVars, specHistory,
                   stopHistory>>

(* A child spec is pushed: its steps start Pending, whatever an earlier     *)
(* child of the same step did.                                              *)
Open(p, n) ==
    /\ opened' = {o \in opened : o.prefix # p /\ ~Below(p, o.prefix)}
                 \cup {[prefix |-> p, len |-> n]}
    /\ cut' = {q \in cut : q # p /\ ~Below(p, q)}
    /\ UNCHANGED overwritten
Fresh(p, steps) == {q \in steps : ~Below(p, q)}

(* The prefix is composed with the top of the stack, which no longer holds  *)
(* the entry in hand.                                                       *)
HandleInjectSplit ==
    /\ Handling("InjectSplit")
    /\ LET c    == Head(batch)
           base == IF stack = <<>> THEN <<>> ELSE Head(stack).prefix
           p    == base \o c.prefix
       IN /\ stack' = Push(Child(p, c.len), stack)
          /\ done' = Fresh(p, done) /\ failed' = Fresh(p, failed)
          /\ Open(p, c.len)
    /\ UNCHANGED <<cur, site, task, pc, cancelVars, lastVars, commands, paused,
                   handleVars, controlVars, stopHistory>>

(* current_prefix is set only while a step executes, when no command is     *)
(* handled: the handle is taken in no reachable state (HandlesIdle).        *)
HandleCancelStep ==
    /\ Handling("CancelStep")
    /\ cancelPrefix' = {Head(batch).prefix}
    /\ LET hit == sharedCancel /\ sharedPrefix = {Head(batch).prefix}
       IN /\ signal' = IF hit THEN signal \cup {Head(batch)} ELSE signal
          /\ sharedCancel' = (sharedCancel /\ ~hit)
    /\ UNCHANGED <<walkVars, site, task, pc, pending, lastVars, commands,
                   paused, sharedPrefix, controlVars, specHistory, stopHistory>>

(* pending_resume.take() found the entry of another prefix: it is put back. *)
PutBack_Forgotten == pending' = {} /\ UNCHANGED <<stack, paused>>
PutBack           == UNCHANGED <<stack, pending, paused>>

(* The prefix is compared with the prefix kept in pending_resume, that of   *)
(* the spec the cancelled step belongs to.                                  *)
HandleResumeStep ==
    /\ Handling("ResumeStep")
    /\ LET match == {f \in pending : f.prefix = Head(batch).prefix}
       IN \/ /\ pending = {}
             /\ paused' = FALSE
             /\ UNCHANGED <<stack, pending>>
          \/ /\ pending # {} /\ match = {}
             /\ PutBack
          \/ \E f \in match : /\ stack' = Push(f, stack)
                              /\ pending' = {}
                              /\ paused' = FALSE
    /\ UNCHANGED <<cur, done, failed, site, task, pc, cancelPrefix, lastVars,
                   commands, handleVars, controlVars, specHistory, stopHistory>>

HandleCommand == \/ HandlePause \/ HandleResume \/ HandleAbort \/ HandleRerun
                 \/ HandleInjectSplit \/ HandleCancelStep \/ HandleResumeStep

(* process_commands returns: after the pop and after a round of             *)
(* wait_while_paused the pause flag is looked at, after a step its result.  *)
Handled ==
    /\ pc = "handle" /\ batch = <<>>
    /\ pc' = IF site = "step" THEN "settle" ELSE "paused"
    /\ UNCHANGED <<walkVars, loopVars, cancelVars, lastVars, commands, paused,
                   handleVars, controlVars, specHistory, stopHistory>>

(* One round of wait_while_paused.                                          *)
StayPaused_Deaf ==
    /\ pc = "paused" /\ paused
    /\ site' = "wait"
    /\ UNCHANGED <<walkVars, batch, task, pc, cancelVars, lastVars, commands,
                   paused, handleVars, controlVars, specHistory, stopHistory>>
StayPaused ==
    /\ pc = "paused" /\ paused
    /\ site' = "wait" /\ pc' = "poll"
    /\ UNCHANGED <<walkVars, batch, task, cancelVars, lastVars, commands,
                   paused, handleVars, controlVars, specHistory, stopHistory>>

(* The entry is past its last step: its spec is finished.                   *)
SkipFinished ==
    /\ pc = "paused" /\ ~paused
    /\ cur.idx > cur.len
    /\ pc' = "pop"
    /\ UNCHANGED <<walkVars, loopVars, cancelVars, lastVars, commands, paused,
                   handleVars, controlVars, specHistory, stopHistory>>

-----------------------------------------------------------------------------
(* run: execute the step in hand.                                           *)

StartStep ==
    /\ pc = "paused" /\ ~paused
    /\ cur.idx <= cur.len
    /\ done' = done \ {Step(cur)} /\ failed' = failed \ {Step(cur)}
    /\ pc' = "publish"
    /\ lateStarts'   = IF aborting THEN UpTo2(lateStarts) ELSE lateStarts
    /\ pausedStarts' = IF pausing THEN UpTo2(pausedStarts) ELSE pausedStarts
    /\ UNCHANGED <<stack, cur, loopVars, cancelVars, lastVars, commands, paused,
                   handleVars, controlVars, specHistory, aborting, pausing>>

PublishPrefix ==
    /\ pc = "publish"
    /\ sharedPrefix' = {Step(cur)}
    /\ pc' = "publishCancel"
    /\ UNCHANGED <<walkVars, loopVars, cancelVars, lastVars, commands, paused,
                   sharedCancel, signal, controlVars, specHistory, stopHistory>>

(* The handle of a new, empty channel.                                      *)
PublishCancel ==
    /\ pc = "publishCancel"
    /\ sharedCancel' = TRUE /\ signal' = {}
    /\ pc' = "armed"
    /\ UNCHANGED <<walkVars, loopVars, cancelVars, lastVars, commands, paused,
                   sharedPrefix, controlVars, specHistory, stopHistory>>

(* The step in hand goes to pending_resume, run pauses and takes the next   *)
(* entry of the stack.                                                      *)
Shelve ==
    /\ pending' = {cur}
    /\ overwritten' = overwritten \cup {f.prefix : f \in pending}
    /\ paused' = TRUE
    /\ pc' = "pop"

Withdraw == /\ sharedCancel' = FALSE /\ sharedPrefix' = {}
            /\ UNCHANGED signal

(* A cancel_step for this prefix was handled before the step began.         *)
CancelBeforeStep ==
    /\ pc = "armed" /\ cancelPrefix = {Step(cur)}
    /\ Shelve
    /\ cancelPrefix' = {}
    /\ Withdraw
    /\ UNCHANGED <<walkVars, loopVars, lastVars, commands, controlVars,
                   opened, cut, stopHistory>>

Execute ==
    /\ pc = "armed" /\ cancelPrefix # {Step(cur)}
    /\ pc' = "run"
    /\ UNCHANGED <<walkVars, loopVars, cancelVars, lastVars, commands, paused,
                   handleVars, controlVars, specHistory, stopHistory>>

(* The sub-agent ends by itself; a Completed or Submitted task may carry a  *)
(* child spec.                                                              *)
SubAgentEnds ==
    /\ pc = "run"
    /\ \E state \in Outcomes \ {"Error"} :
         \E child \in {{}} \cup {{n} : n \in ChildLens} :
            /\ child # {} => /\ state # "Failed"
                             /\ Len(Step(cur)) < MaxDepth
            /\ task' = [state |-> state, child |-> child]
    /\ pc' = "clear"
    /\ UNCHANGED <<walkVars, site, batch, cancelVars, lastVars, commands,
                   paused, handleVars, controlVars, specHistory, stopHistory>>

(* The select! of the execution receives the cancel signal first.           *)
SubAgentCancelled ==
    /\ pc = "run" /\ signal # {}
    /\ task' = [state |-> "Cancelled", child |-> {}]
    /\ pc' = "clear"
    /\ UNCHANGED <<walkVars, site, batch, cancelVars, lastVars, commands,
                   paused, handleVars, controlVars, specHistory, stopHistory>>

(* An error leaves run through `?`: no event says so and the shared handle  *)
(* stays published.                                                         *)
SubAgentErrs ==
    /\ pc = "run" /\ "Error" \in Outcomes
    /\ pc' = "error"
    /\ UNCHANGED <<walkVars, loopVars, cancelVars, lastVars, commands, paused,
                   handleVars, controlVars, specHistory, stopHistory>>

ClearCancel_Kept ==
    /\ pc = "clear"
    /\ pc' = "clearPrefix"
    /\ UNCHANGED <<walkVars, loopVars, cancelVars, lastVars, commands, paused,
                   handleVars, controlVars, specHistory, stopHistory>>
ClearCancel ==
    /\ pc = "clear"
    /\ sharedCancel' = FALSE
    /\ pc' = "clearPrefix"
    /\ UNCHANGED <<walkVars, loopVars, cancelVars, lastVars, commands, paused,
                   sharedPrefix, signal, controlVars, specHistory, stopHistory>>

ClearPrefix ==
    /\ pc = "clearPrefix"
    /\ sharedPrefix' = {}
    /\ site' = "step" /\ pc' = "poll"
    /\ UNCHANGED <<walkVars, batch, task, cancelVars, lastVars, commands,
                   paused, sharedCancel, signal, controlVars, specHistory,
                   stopHistory>>

-----------------------------------------------------------------------------
(* run: what becomes of the step.                                           *)

CancelAfterStep ==
    /\ pc = "settle"
    /\ \/ /\ cancelPrefix = {Step(cur)}
          /\ cancelPrefix' = {}
       \/ /\ cancelPrefix # {Step(cur)}
          /\ task.state = "Cancelled"
          /\ UNCHANGED cancelPrefix
    /\ Shelve
    /\ UNCHANGED <<walkVars, loopVars, lastVars, commands, handleVars,
                   controlVars, opened, cut, stopHistory>>

Settling == /\ pc = "settle"
            /\ cancelPrefix # {Step(cur)}
            /\ task.state # "Cancelled"
            /\ pc' = "pop"

(* A child spec is pushed last, its prefix that of the step it splits.      *)
ChildOnTop_OwnPrefix(n, below) == Push(Child(cur.prefix, n), below)
ChildOnTop_PushedFirst(n, below) == below \o <<Child(Step(cur), n)>>
ChildOnTop(n, below) == Push(Child(Step(cur), n), below)

(* A submitted child spec runs before its step, which is then run again.    *)
SplitStep ==
    /\ Settling /\ task.state = "Submitted"
    /\ \E n \in task.child :
         /\ stack' = ChildOnTop(n, Push(cur, stack))
         /\ Open(Step(cur), n)
    /\ done' = Fresh(Step(cur), done) /\ failed' = Fresh(Step(cur), failed)
    /\ UNCHANGED <<cur, loopVars, cancelVars, lastVars, commands, paused,
                   handleVars, controlVars, stopHistory>>

Advance(f) == [f EXCEPT !.idx = @ + 1]

(* A step whose task failed is passed over.                                 *)
FailStep_Again ==
    /\ Settling /\ task.state = "Failed"
    /\ failed' = failed \cup {Step(cur)}
    /\ stack' = Push(cur, stack)
    /\ UNCHANGED <<cur, done, loopVars, cancelVars, lastVars, commands, paused,
                   handleVars, controlVars, specHistory, stopHistory>>
FailStep ==
    /\ Settling /\ task.state = "Failed"
    /\ failed' = failed \cup {Step(cur)}
    /\ stack' = Push(Advance(cur), stack)
    /\ UNCHANGED <<cur, done, loopVars, cancelVars, lastVars, commands, paused,
                   handleVars, controlVars, specHistory, stopHistory>>

(* A Submitted task without a child spec is taken for a completed one.      *)
Summarizing ==
    /\ Settling
    /\ task.state = "Completed" \/ (task.state = "Submitted" /\ task.child = {})

(* verify_and_feedback, after the summarizer has run                        *)
Judging(verdict) ==
    /\ Summarizing
    /\ \/ Step(cur) \notin Verified /\ verdict = "Verified"
       \/ Step(cur) \in Verified /\ verdict \in Verdicts
    /\ lastVerification' = IF Step(cur) \in Verified THEN {Step(cur)}
                           ELSE lastVerification

Rest_OffByOne == IF cur.idx + 1 < cur.len THEN Push(Advance(cur), stack)
                 ELSE stack
Rest == IF cur.idx < cur.len THEN Push(Advance(cur), stack) ELSE stack

(* The next step of the spec goes on the stack and the task's child spec    *)
(* on top of it.                                                            *)
CompleteStep ==
    /\ Judging("Verified")
    /\ lastSummary' = {Step(cur)}
    /\ LET p == Step(cur)
       IN \/ /\ task.child = {}
             /\ stack' = Rest /\ done' = done \cup {p}
             /\ UNCHANGED <<failed, specHistory>>
          \/ \E n \in task.child :
             /\ stack' = ChildOnTop(n, Rest)
             /\ done' = Fresh(p, done) \cup {p} /\ failed' = Fresh(p, failed)
             /\ Open(p, n)
    /\ UNCHANGED <<cur, loopVars, cancelVars, commands, paused, handleVars,
                   controlVars, stopHistory>>

RetryStep ==
    /\ Judging("NeedsRevision")
    /\ stack' = Push(cur, stack)
    /\ UNCHANGED <<cur, done, failed, loopVars, cancelVars, lastSummary,
                   commands, paused, handleVars, controlVars, specHistory,
                   stopHistory>>

(* The summarizer's failure is a retry too; the verifier did not run.       *)
RetrySummary ==
    /\ Summarizing /\ Step(cur) \in Verified /\ "NoSummary" \in Verdicts
    /\ stack' = Push(cur, stack)
    /\ UNCHANGED <<cur, done, failed, loopVars, cancelVars, lastVars, commands,
                   paused, handleVars, controlVars, specHistory, stopHistory>>

(* The entry is not pushed back: the rest of its spec is never run.         *)
RejectStep ==
    /\ Judging("Failed")
    /\ lastSummary' = {Step(cur)}
    /\ failed' = failed \cup {Step(cur)}
    /\ cut' = cut \cup {cur.prefix}
    /\ UNCHANGED <<stack, cur, done, loopVars, cancelVars, commands, paused,
                   handleVars, controlVars, opened, overwritten, stopHistory>>

(* Reading the task, the summary or the child spec out of it fails: run is  *)
(* left through `?` again, now with nothing published.                      *)
SettleErrs ==
    /\ pc = "settle" /\ "Error" \in Outcomes
    /\ cancelPrefix # {Step(cur)} /\ task.state \in {"Completed", "Submitted"}
    /\ pc' = "error"
    /\ UNCHANGED <<walkVars, loopVars, cancelVars, lastVars, commands, paused,
                   handleVars, controlVars, specHistory, stopHistory>>

-----------------------------------------------------------------------------
RunLoop ==
    \/ Pop \/ Complete \/ Drain \/ HandleCommand \/ Handled \/ StayPaused
    \/ SkipFinished \/ StartStep \/ PublishPrefix \/ PublishCancel
    \/ CancelBeforeStep \/ Execute \/ SubAgentEnds \/ SubAgentCancelled
    \/ SubAgentErrs \/ ClearCancel \/ ClearPrefix \/ CancelAfterStep
    \/ SplitStep \/ FailStep \/ CompleteStep \/ RetryStep \/ RetrySummary
    \/ RejectStep \/ SettleErrs

(* run has returned and the operator makes no call.                         *)
Terminated == Ended /\ control.at = "idle" /\ UNCHANGED vars

Next == Operator \/ Calling \/ RunLoop \/ Terminated

Spec == Init /\ [][Next]_vars

(* The runtime keeps polling the run task, a sub-agent's generation ends,   *)
(* and a control call, which never blocks, returns.                         *)
Fairness == WF_vars(RunLoop) /\ WF_vars(Calling)
FairSpec == Spec /\ Fairness

-----------------------------------------------------------------------------
Busy == pc \notin {"pop", "completed"}
Entries(s) == {s[i] : i \in DOMAIN s}
Held == IF Busy THEN {cur} ELSE {}
Live == Entries(stack) \cup pending \cup Held

(* Every variable has its type.                                             *)
TypeOK ==
    /\ stack \in Seq(Frame) /\ cur \in Frame
    /\ pc \in {"pop", "poll", "handle", "paused", "publish", "publishCancel",
               "armed", "run", "clear", "clearPrefix", "settle", "completed",
               "aborted", "error"}
    /\ site \in {"top", "wait", "step"}
    /\ batch \in Seq(Command) /\ commands \in Seq(Command)
    /\ task \in [state : States, child : SUBSET Nat]
    /\ pending \in SUBSET Frame
    /\ cancelPrefix \in SUBSET Prefix /\ sharedPrefix \in SUBSET Prefix
    /\ lastSummary \in SUBSET Prefix /\ lastVerification \in SUBSET Prefix
    /\ done \in SUBSET Prefix /\ failed \in SUBSET Prefix
    /\ paused \in BOOLEAN /\ sharedCancel \in BOOLEAN
    /\ signal \in SUBSET Command
    /\ control \in [at : {"idle", "match", "signal", "send"},
                    cmd : SUBSET Command]
    /\ calls \in Nat
    /\ opened \in SUBSET [prefix : Prefix, len : Nat]
    /\ cut \in SUBSET Prefix /\ overwritten \in SUBSET Prefix
    /\ aborting \in BOOLEAN /\ pausing \in BOOLEAN
    /\ lateStarts \in 0..2 /\ pausedStarts \in 0..2

(* set_current_prefix_state and set_current_cancel_state: a cancel handle   *)
(* another task can reach is that of the step in hand, between its          *)
(* publication and its result, and no command is handled meanwhile.         *)
HandlesIdle ==
    /\ sharedCancel =>
         /\ sharedPrefix = {Step(cur)}
         /\ pc \in {"armed", "run", "clear", "error"}
    /\ pc \in {"poll", "handle", "paused", "settle", "pop"} =>
         sharedPrefix = {} /\ ~sharedCancel

(* Work is not lost: each step of each spec ever pushed is settled, or its  *)
(* spec is on the stack, in hand or in pending_resume with it still ahead;  *)
(* except the rest of a spec a verifier rejected and a spec whose entry     *)
(* was overwritten in pending_resume.                                       *)
WorkAccounted ==
    \A o \in opened :
       \/ o.prefix \in cut \cup overwritten
       \/ \A i \in 1..o.len :
            \/ Append(o.prefix, i) \in done \cup failed
            \/ \E f \in Live :
                  f.prefix = o.prefix /\ f.idx <= i /\ i <= f.len

(* No spec is on the stack twice, nor on the stack and in hand: it would    *)
(* be walked twice.                                                         *)
NoSpecTwice ==
    /\ \A i, j \in DOMAIN stack :
          stack[i].prefix = stack[j].prefix => i = j
    /\ Busy => \A i \in DOMAIN stack : stack[i].prefix # cur.prefix

(* abort() has returned: at most one step, whose start it raced with, is    *)
(* still started.                                                           *)
AbortStopsRun == lateStarts <= 1

(* pause() has returned and nothing was resumed since: at most one more     *)
(* step is started.                                                         *)
PauseHoldsRun == pausedStarts <= 1

(* abort() has returned, or is about to: the run ends.                      *)
AbortEndsRun == aborting ~> Ended

(* The walk ends unless steps are revised or split for ever or run is left  *)
(* paused: no command, and nothing shelved for a resume, keeps it up.       *)
Redo == RetryStep \/ RetrySummary \/ SplitStep
WalkEnds == <>[][~Redo]_vars /\ <>[]~paused => <>Ended

(* What an entry of the stack still has to do, and what all of them have.   *)
Left(f) == {Append(f.prefix, i) : i \in f.idx..f.len}
Todo    == UNION {Left(f) : f \in Entries(stack) \cup Held}
Outcome == CASE pc = "completed"            -> "completed"
             [] pc \in {"aborted", "error"} -> "gave up"
             [] OTHER                       -> "running"

Walked == INSTANCE Walk WITH todo <- Todo, outcome <- Outcome

(* The run's stack implements the walk: whatever ways steps end in, the     *)
(* next one is the next of the plan, a child spec comes first, and run      *)
(* reports Completed only when nothing is left.                             *)
RefinesWalk == Walked!Spec
=============================================================================
