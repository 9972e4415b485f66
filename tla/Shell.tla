------------------------------- MODULE Shell -------------------------------
(***************************************************************************)
(* The persistent POSIX shell behind exec_command: execute_replay_state of *)
(* exec_command.rs, the session that shell_session.rs keeps and replaces,  *)
(* and, below it, SessionManager's exec_command_in_shell_session, which    *)
(* types a command into a pseudo-terminal and listens for the OSC 133      *)
(* marks the shell prints when a command has finished and a prompt is due. *)
(*                                                                         *)
(* A session is replaced when the sandbox policy has changed, when the     *)
(* runtime whose tasks feed it is gone, or when a command that timed out   *)
(* still has it; the new one is brought to the state of the old by playing *)
(* the journal of replay_state commands.                                   *)
(*                                                                         *)
(* Commands are numbered by the call that runs them.  Left out: the        *)
(* working directory and the environment (restored before the journal, in  *)
(* the same way), output texts, the approval dialogue (Agent has it),      *)
(* background and managed Nu commands.                                     *)
(*                                                                         *)
(* A definition whose name ends in _Something repeats the one after it     *)
(* with a plausible slip; no action uses it, and a property of this module *)
(* fails when it does.                                                     *)
(***************************************************************************)
EXTENDS Naturals, Sequences

CONSTANTS
    Callers,   \* generations that run commands
    Keeps,     \* the values of replay_state that commands are called with
    Modes,     \* the modes that the configuration may be in at the start
    Bash,      \* the user's shell is bash
    Long,      \* the commands of several lines, which stand here for two
    Slow,      \* which of "command", "replay", "snapshot", "probe" may
               \* outlast their timeout; "boot": the first prompt of a
               \* shell comes after the 100 ms that the probe waits
    Faults,    \* "runtime": a caller's runtime ends; "exit": the shell
               \* exits; "lag": a listener falls 256 chunks behind;
               \* "drop": a chunk is taken for debug output; "lock": a lock
               \* is not free when the user presses the mode key; "spawn"
    MaxCalls,  \* bound: commands
    MaxSwitches, \* bound: changes of mode or writable roots
    MaxSessions \* bound: sessions ever spawned

SafetyModes == {"readonly", "regular"}

ASSUME ShellAssumption ==
    /\ Keeps \subseteq BOOLEAN
    /\ Bash \in BOOLEAN /\ Long \subseteq Nat
    /\ Slow \subseteq {"command", "replay", "snapshot", "probe", "boot"}
    /\ Faults \subseteq {"runtime", "exit", "lag", "drop", "lock", "spawn"}
    /\ Modes \subseteq SafetyModes
    /\ MaxCalls \in Nat /\ MaxSwitches \in Nat /\ MaxSessions \in Nat

VARIABLES
    mode,      \* SafetyConfig::mode
    pending,   \* pending_sandbox_policy
    updates,   \* the update_safety_config tasks, oldest first
    effective, \* effective_sandbox_policy
    current,   \* shell_session_id, 0 for None
    owner,     \* who holds the lock on shell_session_id, {} for nobody
    journal,   \* continuity_state.replay_commands
    sessions,  \* every shell session ever spawned
    calls,     \* execute_replay_state, one per caller
    stateful,  \* the commands called with replay_state
    told,      \* history: what the calls returned, one per command
    switches   \* changes of mode or writable roots so far

settings == <<mode, pending, updates, switches>>
vars == <<settings, effective, current, owner, journal, sessions, calls,
          stateful, told>>

(* A policy, as far as it matters here: the mode it was derived from, and   *)
(* whether it has the root the user added.                                  *)
Policy(m)      == [mode |-> m, root |-> FALSE]

(* What a command is to the shell: a line it reads, or, if the command has  *)
(* several, each of its lines.  A shell other than bash gets the command    *)
(* wrapped in braces, which is one line whatever is in them.                *)
Item(kind, n)  == [kind |-> kind, n |-> n, last |-> TRUE]
LinesOf(i)     == IF Bash /\ i.n \in Long /\ i.kind # "snapshot"
                    THEN <<[i EXCEPT !.last = FALSE], i>> ELSE <<i>>

NoCall == [pc |-> "idle", n |-> 0, session |-> 0, todo |-> <<>>,
           policy |-> Policy("regular"), retried |-> FALSE, doing |-> "command",
           code |-> {}, cwd |-> FALSE,
           status |-> "none", modes |-> {}]

Init ==
    /\ mode \in Modes
    /\ pending = Policy(mode) /\ effective = Policy(mode) /\ updates = <<>>
    /\ current = 0 /\ owner = {} /\ journal = <<>> /\ sessions = <<>>
    /\ calls = [c \in Callers |-> NoCall]
    /\ stateful = {} /\ told = <<>> /\ switches = 0

-----------------------------------------------------------------------------
(* The sandbox policy.                                                      *)

Switch ==
    /\ switches < MaxSwitches /\ switches' = switches + 1
    /\ UNCHANGED <<effective, current, owner, journal, sessions, stateful, told>>

(* A mode key: apply_safety_config_immediately writes what it can lock      *)
(* without waiting, and a task is spawned that writes both again ...        *)
SetMode(m) ==
    /\ mode' = m \/ ("lock" \in Faults /\ mode' = mode)
    /\ pending' = Policy(m) \/ ("lock" \in Faults /\ pending' = pending)
    /\ updates' = Append(updates, [mode |-> m, next |-> "config"])
    /\ calls' = [c \in Callers |-> [calls[c] EXCEPT !.modes = @ \cup {m}]]
    /\ Switch

(* ... update_safety_config, one lock after the other.                      *)
UpdateConfig(u) ==
    /\ updates[u].next = "config"
    /\ mode' = updates[u].mode
    /\ updates' = [updates EXCEPT ![u].next = "policy"]
    /\ UNCHANGED <<pending, switches, effective, current, owner, journal,
                   sessions, calls, stateful, told>>

UpdatePolicy(u) ==
    /\ updates[u].next = "policy"
    /\ pending' = Policy(updates[u].mode)
    /\ updates' = [updates EXCEPT ![u].next = "done"]
    /\ UNCHANGED <<mode, switches, effective, current, owner, journal,
                   sessions, calls, stateful, told>>

(* add_writable_root, once the user accepts the sandbox prompt.             *)
AddWritableRoot ==
    /\ pending = Policy("regular")
    /\ pending' = [pending EXCEPT !.root = TRUE]
    /\ UNCHANGED <<mode, updates, calls>>
    /\ Switch

(* The modes that a later write may still bring into force.                 *)
UnderWay == {mode} \cup {updates[u].mode : u \in
                           {v \in DOMAIN updates : updates[v].next # "done"}}
                   \cup {calls[c].policy.mode : c \in
                           {d \in Callers : calls[d].pc = "refresh"}}

-----------------------------------------------------------------------------
(* The shell at the other end of the pseudo-terminal.                       *)

Update(s, f) ==
    /\ sessions' = [sessions EXCEPT ![s] = f]
    /\ UNCHANGED <<settings, effective, current, owner, journal, stateful, told>>

(* Nothing is to come from it any more, as things are.                      *)
Silent(t) == t.busy = {} /\ t.typed = <<>> /\ t.screen = <<>>

(* What a finished line leaves on the terminal: a snapshot the working      *)
(* directory, and before each of its prompts bash, or at the end of the     *)
(* braces another shell, the mark D with the exit code.  D stands for the   *)
(* marks A and B of the prompt too, which follow it at once: after a D they *)
(* end nothing, and without one they only tell Killed from Timeout.         *)
Mark(m, i) == [mark |-> m, of |-> i]
Marks(i)   == (IF i.kind = "snapshot" THEN <<Mark("cwd", i)>> ELSE <<>>)
                \o (IF Bash \/ i.kind \notin {"boot", "probe"}
                      THEN <<Mark("D", i)>> ELSE <<>>)

(* The shell reads the next line that was typed.                            *)
RunNext(s) ==
    LET t == sessions[s] IN
    /\ t.alive /\ t.busy = {} /\ t.typed # <<>>
    /\ Update(s, [t EXCEPT !.busy = {Head(t.typed)}, !.typed = Tail(@)])
    /\ UNCHANGED calls

(* The line finishes.  A command has done what it does with its last one.   *)
Done(i) == IF i.last THEN {i.n} \cap stateful ELSE {}

FinishLine(s) ==
    LET t == sessions[s] IN
    \E i \in t.busy :
       /\ Update(s, [t EXCEPT !.busy = {}, !.screen = @ \o Marks(i),
                              !.state = @ \cup Done(i)])
       /\ UNCHANGED calls

(* The task that probes for readiness does not wait for ever.               *)
ReadyAnyway(s) ==
    /\ sessions[s].writer /\ ~ sessions[s].ready
    /\ "probe" \in Slow \/ Silent(sessions[s])
    /\ Update(s, [sessions[s] EXCEPT !.ready = TRUE])
    /\ UNCHANGED calls

(* apply_osc133_events on a chunk: the command is over at a D, and the last *)
(* D gives the exit code.                                                   *)
Has(chunk, m) == \E i \in DOMAIN chunk : chunk[i].mark = m
Codes(chunk)  == {chunk[i].of : i \in {j \in DOMAIN chunk :
                    /\ chunk[j].mark = "D"
                    /\ \A k \in j + 1..Len(chunk) : chunk[k].mark # "D"}}

Heard(call, chunk) ==
    LET cwd == call.cwd \/ Has(chunk, "cwd") IN
    IF ~ Has(chunk, "D") THEN [call EXCEPT !.cwd = cwd]
    ELSE IF call.doing # "command" THEN [call EXCEPT !.cwd = cwd, !.pc = "over"]
    ELSE [call EXCEPT !.pc = "over", !.status = "Completed", !.code = Codes(chunk)]

(* The reader thread takes what is there and broadcasts it as one chunk to  *)
(* those who have subscribed by now.  A listener's own channel delays what  *)
(* it hears and changes nothing of it, so it hears at once, unless the task *)
(* in between drops the chunk.  The task that probes hears every chunk, and *)
(* the terminal's echo of what it typed is the marker it looks for: to it,  *)
(* the next prompt after that is the probe's.                               *)
Hears(s, chunk) ==
    calls' = [c \in Callers |->
                IF calls[c].pc = "listen" /\ calls[c].session = s
                  THEN Heard(calls[c], chunk) ELSE calls[c]]

Read(s) ==
    LET t == sessions[s] IN
    \E k \in 1..Len(t.screen) :
       LET chunk == SubSeq(t.screen, 1, k) IN
       /\ Update(s, [t EXCEPT !.screen = SubSeq(@, k + 1, Len(@)),
                              !.ready = @ \/ Has(chunk, "D")])
       /\ Hears(s, chunk) \/ ("drop" \in Faults /\ UNCHANGED calls)

Exits(s) ==
    /\ "exit" \in Faults /\ sessions[s].alive
    /\ Update(s, [sessions[s] EXCEPT !.alive = FALSE, !.busy = {}, !.typed = <<>>])
    /\ UNCHANGED calls

(* The runtime of the step that spawned the session ends, and the task that *)
(* writes to the terminal with it: the shell reads the end of its input.    *)
RuntimeEnds(s) ==
    /\ "runtime" \in Faults /\ sessions[s].writer
    /\ \A c \in sessions[s].maker : calls[c].pc = "idle"
    /\ Update(s, [sessions[s] EXCEPT !.writer = FALSE, !.alive = FALSE,
                                     !.busy = {}, !.typed = <<>>])
    /\ UNCHANGED calls

-----------------------------------------------------------------------------
(* Helpers of the calls.                                                    *)

(* A new shell: the probe is typed 100 ms after it was spawned, when its    *)
(* first prompt has been read, or is still to be.                           *)
FirstPrompt == IF "boot" \in Slow THEN Marks(Item("boot", 0)) ELSE <<>>

NewSession_Ready(p, c) ==
    [policy |-> p, listed |-> TRUE, writer |-> TRUE, alive |-> TRUE,
     ready |-> TRUE, maker |-> {c}, typed |-> <<Item("probe", 0)>>,
     busy |-> {}, screen |-> FirstPrompt, state |-> {}]

NewSession(p, c) ==
    [policy |-> p, listed |-> TRUE, writer |-> TRUE, alive |-> TRUE,
     ready |-> FALSE, maker |-> {c}, typed |-> <<Item("probe", 0)>>,
     busy |-> {}, screen |-> FirstPrompt, state |-> {}]

(* terminate_session.                                                       *)
Gone(t)       == [NewSession(t.policy, 0) EXCEPT !.listed = FALSE, !.writer = FALSE,
                                    !.alive = FALSE, !.typed = <<>>,
                                    !.screen = <<>>]
Terminated(s) == [sessions EXCEPT ![s] = Gone(@)]

At(c, pc) == calls[c].pc = pc
Set(c, f) == calls' = [calls EXCEPT ![c] = f]

Return(c, status) ==
    /\ Set(c, NoCall)
    /\ told' = [told EXCEPT ![calls[c].n] =
                  [status |-> status, code |-> calls[c].code]]

Unlock(c)       == owner' = owner \ {c}

-----------------------------------------------------------------------------
(* Assumed of time: while nobody calls, the shells settle, a slow command    *)
(* apart.                                                                   *)
Calm    == \A c \in Callers : At(c, "idle")
Settled == \A s \in DOMAIN sessions :
    sessions[s].listed => /\ sessions[s].screen = <<>>
                          /\ sessions[s].busy # {} \/ sessions[s].typed = <<>>
                          /\ \A i \in sessions[s].busy : i.kind \in Slow

(* execute_tool_call reads the configuration ...                            *)
Call(c, keep) ==
    /\ At(c, "idle") /\ Len(told) < MaxCalls /\ (Calm => Settled)
    /\ told' = Append(told, [status |-> "none", code |-> {}])
    /\ stateful' = IF keep THEN stateful \cup {Len(told) + 1} ELSE stateful
    /\ Set(c, [NoCall EXCEPT !.pc = "refresh", !.n = Len(told) + 1,
                             !.policy = Policy(mode), !.modes = UnderWay])
    /\ UNCHANGED <<settings, effective, current, owner, journal, sessions>>

(* ... and, once it has the other lock, writes the policy that follows from *)
(* it; then execute_replay_state starts.                                    *)
Refresh(c) ==
    /\ At(c, "refresh")
    /\ pending' = calls[c].policy
    /\ Set(c, [calls[c] EXCEPT !.pc = "look"])
    /\ UNCHANGED <<mode, updates, switches, effective, current, owner, journal,
                   sessions, stateful, told>>

(* get_or_create_shell_session: with the lock taken, a session that is gone *)
(* is forgotten, and policy and journal are read.                           *)
Look(c) ==
    /\ At(c, "look") /\ owner = {}
    /\ owner' = {c}
    /\ current' = IF current # 0 /\ ~ sessions[current].listed THEN 0 ELSE current
    /\ Set(c, [calls[c] EXCEPT !.pc = "choose", !.policy = pending, !.todo = journal])
    /\ UNCHANGED <<settings, effective, journal, sessions, stateful, told>>

Outdated_Never(c) == FALSE
Outdated(c)       == effective # calls[c].policy

Reuse(c) ==
    /\ At(c, "choose") /\ current # 0 /\ ~ Outdated(c)
    /\ Set(c, [calls[c] EXCEPT !.pc = "type", !.session = current, !.doing = "command"])
    /\ Unlock(c)
    /\ UNCHANGED <<settings, effective, current, journal, sessions, stateful, told>>

(* The old session is terminated and a new one spawned, or neither is known *)
(* to the manager any more, or spawning fails.                              *)
Replaces(c) == At(c, "choose") /\ (current = 0 \/ Outdated(c))
OldGone     == current # 0 /\ ~ sessions[current].listed
Cleared     == IF current = 0 THEN sessions ELSE Terminated(current)

SpawnSession(c) ==
    /\ Replaces(c) /\ ~ OldGone
    /\ sessions' = Append(Cleared, NewSession(calls[c].policy, c))
    /\ current' = 0
    /\ Set(c, [calls[c] EXCEPT !.pc = "restore", !.session = Len(sessions) + 1])
    /\ UNCHANGED <<settings, effective, owner, journal, stateful, told>>

SpawnFails(c) ==
    /\ Replaces(c)
    /\ \/ OldGone /\ UNCHANGED <<sessions, current>>
       \/ "spawn" \in Faults /\ ~ OldGone /\ sessions' = Cleared /\ current' = 0
    /\ Return(c, "Err") /\ Unlock(c)
    /\ UNCHANGED <<settings, effective, journal, stateful>>

(* restore_shell_session_from_snapshot: one command of the journal after    *)
(* the other, whatever becomes of each.  Nobody else knows the session yet, *)
(* so it is there to be typed into.                                         *)
Replay(c) ==
    /\ At(c, "restore") /\ calls[c].todo # <<>>
    /\ Set(c, [calls[c] EXCEPT !.pc = "type", !.doing = "replay"])
    /\ UNCHANGED <<settings, effective, current, owner, journal, sessions, stateful, told>>

Restored(c) ==
    /\ At(c, "restore") /\ calls[c].todo = <<>>
    /\ current' = calls[c].session /\ effective' = calls[c].policy
    /\ Unlock(c)
    /\ Set(c, [calls[c] EXCEPT !.pc = "type", !.doing = "command"])
    /\ UNCHANGED <<settings, journal, sessions, stateful, told>>

-----------------------------------------------------------------------------
(* exec_command_in_shell_session.                                           *)

Typed(c) == CASE calls[c].doing = "replay"   -> Item("replay", Head(calls[c].todo))
              [] calls[c].doing = "command"  -> Item("command", calls[c].n)
              [] calls[c].doing = "snapshot" -> Item("snapshot", calls[c].n)

Target(c)  == sessions[calls[c].session]
Unknown(c) == At(c, "type") /\ (~ Target(c).listed \/ ~ (Target(c).ready \/ Target(c).writer))
Broken(c)  == At(c, "type") /\ Target(c).listed /\ Target(c).ready /\ ~ Target(c).writer

(* The shell is ready: subscribe, then type.                                *)
Type(c) ==
    /\ At(c, "type") /\ Target(c).listed /\ Target(c).ready /\ Target(c).writer
    /\ sessions' = [sessions EXCEPT ![calls[c].session].typed =
                      IF Target(c).alive THEN @ \o LinesOf(Typed(c)) ELSE @]
    /\ Set(c, [calls[c] EXCEPT !.pc = "listen", !.cwd = FALSE])
    /\ UNCHANGED <<settings, effective, current, owner, journal, stateful, told>>

(* The channel closes, with the session or because the listener lags; or    *)
(* the deadline passes, since a slow command has the shell or there is      *)
(* nothing to hear.                                                         *)
Closed(c)  == ~ Target(c).listed \/ ("lag" \in Faults /\ Target(c).busy # {})
Overdue_Quiet(c) == \E i \in Target(c).busy : i.kind \in Slow
Overdue(c) == Silent(Target(c)) \/ \E i \in Target(c).busy : i.kind \in Slow

GiveUp(c) ==
    /\ At(c, "listen") /\ (Closed(c) \/ Overdue(c))
    /\ Set(c, [calls[c] EXCEPT !.pc = "over",
                 !.status = IF calls[c].doing = "command" THEN "Unfinished" ELSE @])
    /\ UNCHANGED <<settings, effective, current, owner, journal, sessions, stateful, told>>

-----------------------------------------------------------------------------
(* What follows an exec.                                                    *)

ReplayOver(c) ==
    /\ At(c, "over") /\ calls[c].doing = "replay"
    /\ Set(c, [calls[c] EXCEPT !.pc = "restore", !.todo = Tail(@)])
    /\ UNCHANGED <<settings, effective, current, owner, journal, sessions, stateful, told>>

(* sync_continuity_state_from_session follows the command, whose status it  *)
(* does not ask for ...                                                     *)
CommandOver(c) ==
    /\ At(c, "over") /\ calls[c].doing = "command"
    /\ Set(c, [calls[c] EXCEPT !.pc = "type", !.doing = "snapshot"])
    /\ UNCHANGED <<settings, effective, current, owner, journal, sessions, stateful, told>>

(* ... and stores the snapshot, if the shell said where it is, with the     *)
(* journal it had and the command.                                          *)
Recorded_Always(c) == <<calls[c].n>>
Recorded(c) == IF calls[c].n \in stateful THEN <<calls[c].n>> ELSE <<>>

Journal_New(c) == Recorded(c)
Journal(c)     == journal \o Recorded(c)

Sync(c) ==
    /\ At(c, "over") /\ calls[c].doing = "snapshot" /\ calls[c].cwd
    /\ journal' = Journal(c)
    /\ Return(c, calls[c].status)
    /\ UNCHANGED <<settings, effective, current, owner, sessions, stateful>>

SyncFails(c) == calls[c].doing = "snapshot" /\
    (Unknown(c) \/ Broken(c) \/ (At(c, "over") /\ ~ calls[c].cwd))
Unfinished(c) == calls[c].status = "Unfinished"  \* Timeout or Killed

(* A session that may still be running the command is given up.             *)
Retire_Keeps(c) ==
    /\ SyncFails(c) /\ Unfinished(c)
    /\ Return(c, calls[c].status)
    /\ UNCHANGED <<settings, effective, current, owner, journal, sessions, stateful>>

Retire(c) ==
    /\ SyncFails(c) /\ Unfinished(c)
    /\ sessions' = Terminated(calls[c].session)
    /\ Set(c, [calls[c] EXCEPT !.pc = "forget"])
    /\ UNCHANGED <<settings, effective, current, owner, journal, stateful, told>>

Forget(c) ==
    /\ At(c, "forget") /\ owner = {}
    /\ current' = IF current = calls[c].session THEN 0 ELSE current
    /\ Return(c, calls[c].status)
    /\ UNCHANGED <<settings, effective, owner, journal, sessions, stateful>>

SyncError(c) ==
    /\ SyncFails(c) /\ ~ Unfinished(c)
    /\ Return(c, "Err")
    /\ UNCHANGED <<settings, effective, current, owner, journal, sessions, stateful>>

(* A session that cannot be typed into is replaced, once.                   *)
Retry_Leaks(c) ==
    /\ Broken(c) /\ calls[c].doing = "command" /\ ~ calls[c].retried
    /\ Set(c, [calls[c] EXCEPT !.pc = "restart", !.retried = TRUE])
    /\ UNCHANGED <<settings, effective, current, owner, journal, sessions, stateful, told>>

Retry(c) ==
    /\ Broken(c) /\ calls[c].doing = "command" /\ ~ calls[c].retried
    /\ sessions' = Terminated(calls[c].session)
    /\ Set(c, [calls[c] EXCEPT !.pc = "restart", !.retried = TRUE])
    /\ UNCHANGED <<settings, effective, current, owner, journal, stateful, told>>

Restart(c) ==
    /\ At(c, "restart") /\ owner = {}
    /\ current' = 0
    /\ Set(c, [calls[c] EXCEPT !.pc = "look"])
    /\ UNCHANGED <<settings, effective, owner, journal, sessions, stateful, told>>

Refused(c) ==
    /\ calls[c].doing = "command"
    /\ Unknown(c) \/ (Broken(c) /\ calls[c].retried)
    /\ Return(c, "Failure")
    /\ UNCHANGED <<settings, effective, current, owner, journal, sessions, stateful>>

-----------------------------------------------------------------------------
User ==
    \/ AddWritableRoot \/ \E m \in SafetyModes : SetMode(m)
    \/ \E u \in DOMAIN updates : UpdateConfig(u) \/ UpdatePolicy(u)

Pty(s) == RunNext(s) \/ FinishLine(s) \/ ReadyAnyway(s) \/ Read(s)

Step(c) ==
    \/ Refresh(c) \/ Look(c) \/ Reuse(c) \/ SpawnSession(c) \/ SpawnFails(c)
    \/ Replay(c) \/ Restored(c) \/ Type(c) \/ GiveUp(c)
    \/ ReplayOver(c) \/ CommandOver(c) \/ Sync(c)
    \/ Retire(c) \/ Forget(c) \/ SyncError(c)
    \/ Retry(c) \/ Restart(c) \/ Refused(c)

Next ==
    \/ User
    \/ \E s \in DOMAIN sessions :
          Pty(s) \/ Exits(s) \/ RuntimeEnds(s)
    \/ \E c \in Callers : Step(c) \/ \E keep \in Keeps : Call(c, keep)

Spec == Init /\ [][Next]_vars

(* The caller is polled, the shell runs what is typed into it and its       *)
(* output is read.                                                          *)
FairSpec ==
    /\ Spec
    /\ \A c \in Callers : WF_vars(Step(c))
    /\ \A s \in 1..MaxSessions : WF_vars(s \in DOMAIN sessions /\ Pty(s))

-----------------------------------------------------------------------------
TypeOK ==
    /\ mode \in SafetyModes /\ current \in 0..Len(sessions)
    /\ owner \subseteq Callers
    /\ \A i \in DOMAIN journal : journal[i] \in stateful
    /\ \A c \in Callers :
          /\ calls[c].session \in 0..Len(sessions)
          /\ calls[c].doing \in {"replay", "command", "snapshot"}
          /\ calls[c].status \in {"none", "Completed", "Unfinished"}

(***************************************************************************)
(* A command never runs in a session whose sandbox was built for a mode    *)
(* that the user left before the command was called, unless a write of     *)
(* that mode, by a call or an update that had read it, was still under way. *)
(***************************************************************************)
ModeInForce == \A c \in Callers :
    At(c, "listen") => Target(c).policy.mode \in calls[c].modes

(***************************************************************************)
(* Once its call has returned, no command is still at work, or waiting to  *)
(* be, in a session that other commands will be typed into.                *)
(***************************************************************************)
AtWork(t) == t.busy \cup {t.typed[i] : i \in DOMAIN t.typed}

NothingLeftRunning == \A s \in DOMAIN sessions : sessions[s].listed =>
    \A i \in AtWork(sessions[s]) :
       i.kind = "command" => \E c \in Callers : calls[c].n = i.n

(* Between calls there is at most one shell, the current one.               *)
NoShellLeaks == Calm =>
    \A s \in DOMAIN sessions : sessions[s].listed => s = current

(***************************************************************************)
(* What a replay_state command did is never lost to the commands that      *)
(* follow: it is in the journal when its completion is reported, and a     *)
(* session handed out has done all that is in the journal, whichever       *)
(* sessions have come and gone in between.                                 *)
(***************************************************************************)
InJournal(n) == \E i \in DOMAIN journal : journal[i] = n
StateKept ==
    /\ \A n \in DOMAIN told :
          told[n].status = "Completed" /\ n \in stateful => InJournal(n)
    /\ current # 0 /\ owner = {} /\ sessions[current].alive =>
          \A i \in DOMAIN journal : journal[i] \in sessions[current].state

(* Every call returns.                                                      *)
CallsReturn == \A c \in Callers : []<> At(c, "idle")

(* A command reported as completed got the exit code that is its own.       *)
ExitCodeIsOwn == \A n \in DOMAIN told :
    told[n].status = "Completed" => told[n].code = {Item("command", n)}
=============================================================================
