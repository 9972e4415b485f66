# TLA+ specifications of colossal-code

This directory specifies and verifies the parts of colossal-code (the `cocode`
terminal agent and its model server) whose correctness depends on the order in
which concurrent tasks act: the **spec orchestrator**, the **agent** and the
**sub-agents** of `agent_core`, the **readers of model streams**, the
**persistent shell** behind `exec_command`, the **turns of the conversation** in
the terminal application, and the **model manager** of `mistralrs-server` with
its LRU scheduler. TLC checks small instances; TLAPS proves the main safety
properties, and two refinements, for every value of the constants.

Paths below are relative to the repository. `orchestrator.rs`, `agent.rs`,
`lib.rs`, `exec_command.rs`, `shell_session.rs`, `step_execution.rs` are in
`src/crates/agent_core/src/`, `manager.rs` and `session.rs` in
`src/crates/sessionizer/src/`; `core` is
`src/crates/mistralrs-server/crates/mistralrs-server-core/src/lib.rs`,
`scheduler` is `…/mistralrs-server-scheduler/src/lib.rs`, and `app/` is
`src/src/app/`.

## 1. Inventory of the system

| Component | State | Operations | Talks to | What is hard about it |
|---|---|---|---|---|
| Spec orchestrator (`orchestrator.rs`) | a stack of (sheet, index, prefix), `pending_resume`, `cancel_prefix`, last summary and verification; shared: pause flag, current prefix, current cancel handle, command channel | `run`; `OrchestratorControl::{pause, resume, abort, rerun_verifiers, inject_split, cancel_step, resume_step}` | the operator's task through shared flags and a channel; one sub-agent per step through a cancel channel | commands race with a running step; a walk whose order must survive splits, retries, cancellations and injections |
| Step execution (`step_execution.rs`) | one sub-agent, one cancel receiver, a blocking thread | `execute_step_with_events_and_cancel`, the summarizer, the verifier | orchestrator, agent | a `select!` between the agent's messages and a cancel signal; clones of one agent that share some of its state |
| Agent core (`lib.rs`, `agent.rs`, `conversation.rs`, `tool_dispatch.rs`) | conversation, cancel flag, pending approval, tools | `process_message`, `request_cancel`, `handle_approval_response`, `clear_conversation`, `inject_summary_context`, tool calls | LLM backend, shell, TUI | the conversation is taken out while a generation works; one flag and one slot serve all generations |
| LLM backends (`llm_backend/`) | the bytes not yet taken apart, the tool calls being put together | `process_sse_stream`, `process_anthropic_sse`, `process_responses_sse` | the network, the agent through a channel | responses are cut anywhere and end anywhere, in three protocols |
| Shell session continuity (`shell_session.rs`, `exec_command.rs`) | the session in use, the policy it was spawned under, the pending policy, the journal of commands to replay | `execute_replay_state`, `get_or_create_shell_session`, `sync_continuity_state_from_session`, `add_writable_root` | session manager | stale ids and policies; half-done replay; commands that still run when they have timed out |
| Session manager (`manager.rs`, `session.rs`, `osc133.rs`) | maps of sessions and their metadata, each under a lock; terminal output broadcast in chunks | create, exec, write, snapshot, restore, terminate, clean up | shell processes | marks in the output tell when a command is over; shells, tasks and runtimes die |
| LRU scheduler (`scheduler`) | access order and sizes under one lock; a concurrent pinned set; a keep-alive lookup function | `register_activity`, `on_model_loaded`, `on_model_unloaded`, `advise_evict`, `can_load_model` | the manager | advice and effect are two steps |
| Model manager (`core`, `engine.rs`, `streams.rs`) | metadata, pinned set, keep-alive deadlines, request counters, the engine's models | `generate`, `chat`, `embeddings` and their streams, `load_model`, `unload_model`, pull jobs | scheduler, engine, HTTP handlers | all state is in maps and atomics that are each safe alone; every request interleaves with every other |
| TUI application (`app/`) | flags of the turn under way, queue, pending interruption, compaction, prompts, transcript | `submit_message`, Esc, `drain_agent_rx`, `process_pending_actions`, `spawn_agent_runtime`, `/spec …` | agent through two channels; orchestrator | everything hangs on one `Done` per turn; Esc, errors, compaction and the queue each have their own flags |
| Model server API and configuration | settings | routes | manager | none of its own |
| Protocol and A2A types, OS sandboxes, chunker, Markdown renderer, semantic search, `edtui`, vendored engine | | | | data types, system calls, sequential text work, third-party code |

What makes each of them correct:

* **Orchestrator** – no step of a plan is lost, none is walked twice at once; a
  child spec runs before the rest of its parent; an abort ends the run and a
  pause holds it, at whatever moment it comes; a cancel handle never outlives
  its step.
* **Step execution** – a step reported as completed was worked on to its end; a
  sub-agent knows its own step and nothing of another's; every call returns.
* **Agent and application** – app and agent agree whose turn it is; a
  cancellation stops a generation; an answer to a permission prompt reaches the
  command that asked; nothing said is forgotten; the spinner does not spin over
  nothing, nor for ever.
* **Backends** – what is shown and which calls are run do not depend on how the
  network cut the response, and a truncated response is not taken for a whole
  one.
* **Shell** – a command's exit code is its own; nothing is left running in a
  shell that is typed into again; a replaced shell has the state of the old one
  and the sandbox of the present mode; no shell leaks.
* **Model manager and scheduler** – the metadata agrees with the engine, a
  pinned model is never evicted, the request limits hold and are given back in
  full, a request always ends.

`PROJECT.json` lists every component with its status, and every hazard found
at its line, with the properties that cover it or the reason why none does.

## 2. Modules

| Module | What it is |
|---|---|
| `Orchestrator` | `Orchestrator::run` and `OrchestratorControl`; at its end the run as an implementation of `Walk` |
| `Walk` | abstract: what a run promises of the order of its steps |
| `MCOrchestrator` | plans and commands for TLC |
| `OrchestratorProofs` | theorems about `Orchestrator`, the refinement of `Walk` included |
| `Agent` | the agent: `process_message`, cancellation, permission; no `Next` of its own |
| `SubAgents` | extends `Agent`: the sub-agents of an orchestration |
| `SubAgentsProofs` | theorems about `SubAgents` |
| `Chat` | extends `Agent`: the application, its channels and its ticks |
| `Turns` | abstract: what the chat promises a patient user |
| `MCChat` | keys for TLC; `Chat` as an implementation of `Turns` |
| `ChatProofs` | theorems about `Chat` with a patient user, the refinement included |
| `SpinnerProofs` | theorems about `Chat` with any user and any failure |
| `Stream`, `MCStream` | one streamed response: server, network, reader, agent; an instance of it |
| `StreamProofs` | theorems about `Stream` |
| `Shell` | the persistent POSIX shell, its replacement and replay |
| `ShellProofs` | theorems about `Shell` |
| `LruScheduler` | the scheduler: state and operations; no `Next` of its own |
| `ModelManager` | extends `LruScheduler`: the manager's requests |
| `MCModelManager` | handlers, models and symmetry for TLC |
| `ModelManagerProofs`, `RequestGuardProofs` | theorems about `ModelManager` |

How they meet: `Orchestrator` sees a step as its outcome; `SubAgents` is what
happens inside one. `SubAgents` and `Chat` put the same `Agent` to work. In
`Agent` a stream is an ending at any time; `Stream` is what a stream brings and
what the inner loop of `run_generation` makes of it. A command of `Agent` is
answered and done; `Shell` is what it does.

A definition whose name ends in `_Something` repeats its neighbour with one
plausible slip (a dropped reset, an off-by-one, a check ignored). No action uses
it. Substituting it for its neighbour must make the named property fail; that
each does is what shows the property says something about the code.

### 2.1 Orchestrator

*State.* A spec sheet is its prefix and its length: `"1.2"` is `<<1, 2>>`. A
stack entry `(SpecSheet, usize, String)` is `[prefix, len, idx]`, `idx` counting
from 1. `cur` is the entry `run` has popped, `pc` the point of `run` it is at;
`site` tells the three calls of `process_commands` apart, since what follows
them differs. `Option`s are sets of at most one element. The shared variables
are those the two tasks share through `Arc`s: `commands`, `paused`,
`sharedPrefix`, `sharedCancel`, `signal`.

*Grain.* The operator's task and the run task share no common lock, so each
access to something shared is a step. `abort()` is two steps (signal, then
send), `cancel_step()` three (compare the prefix, signal, send), `pause()` and
`resume()` two (store, send). On the run's side, publishing and clearing the
prefix and the handle around a sub-agent are two steps each
(`CancelBeforeStep` withdraws both in one: nobody ever receives from that
channel); `process_commands` drains the channel
in one step and handles one command per step. Code between two shared accesses
is part of the step before it.

*Actions and code.*

| Action | Code |
|---|---|
| `Call`, `MatchPrefix`, `SignalCancel`, `SendCommand` | the methods of `OrchestratorControl` |
| `Pop`, `Complete`, `Drain`, `Handle…`, `Handled`, `StayPaused`, `SkipFinished` | head of the loop, `process_commands`, `wait_while_paused` |
| `StartStep`, `PublishPrefix`, `PublishCancel`, `CancelBeforeStep`, `Execute`, `SubAgent…`, `ClearCancel`, `ClearPrefix` | the middle of the loop's body, and `execute_step_with_events_and_cancel` |
| `CancelAfterStep`, `SplitStep`, `FailStep`, `CompleteStep`, `RetryStep`, `RetrySummary`, `RejectStep`, `SettleErrs` | the rest of the loop's body, `verify_and_feedback` included |

`PROJECT.json` gives the lines of each.

*History variables* (`opened`, `cut`, `overwritten`, `aborting`, `lateStarts`,
`pausing`, `pausedStarts`) are read by no guard; they let invariants speak of
what happened before.

*Abstractions.*
- A step is its position: the sheets' own `index` strings are taken to be
  1, 2, 3 …, as the planner numbers them.
- The calls that may leave `run` through `?` are one outcome, `"Error"`, at two
  places: in the sub-agent, with the cancel handle still published
  (`SubAgentErrs`), and after it, where its task is read and judged
  (`SettleErrs`). `update_spec_status` always returns `Ok`.
- A task's content is its state and the length of its child spec, if any.
- The verifier's answer is chosen freely among the verdicts it may give; a step
  whose sheet asks for no verification is always `"Verified"`.
- `AgentEvent`s, summaries and prompts are left out, except that `pc` tells
  which terminal event was emitted. The `aborted` flag is not kept: `run` never
  reads it.
- `cancel_step` and `resume_step` are API of the library that the present TUI
  does not call; the TUI's `/spec` commands are the other five.

*Refinement.* `Todo` reads the stack, with the entry in hand, as the set of the
steps left, each its own position; `Walked` instantiates `Walk` with it. In `Walk`
the next step is the one nested deepest and first of its spec (`Foremost`): a set
of positions needs no other order. It is settled and its child spec added
(`Settle`), is split and taken again after the children (`Split`), or is dropped
together with the rest of its spec (`Drop`), which is what a verifier's rejection
and a `cancel_step` come to, the entry being shelved for a resume; a run
completes when nothing is left. The operator of that run may pause, resume,
abort, cancel and have verifiers run again, but neither injects a split nor
resumes a step: both put a spec back whose steps `Walk` has done with.

### 2.2 Agent and SubAgents

*State.* `gens` are the `process_message` calls in the order of their start,
each with its prompt, its program counter, the builder it holds (`mem`), the
commands it may still ask for and the answer its approval receiver has.
`conversation` is `Agent::conversation`, a set of at most one builder;
`cancelRequested` and `pendingApproval` are the flag and the slot; `out` is the
channel to whoever called.

*Grain.* A step ends where another task can see the difference: at the reset of
the flag and the taking of the conversation (`Begin`, one step, since nobody
else looks in between that could tell), at each await, and at the cancellation
points of `check_cancel!`. `Poll` and `CancelSeen` are the two outcomes of such a
point, `Tick` and `Chunk` the arms of the `select!` that go round the inner loop.

| Action | Code |
|---|---|
| `Begin`, `Request`, `RequestFails` | `process_message`, head of `run_generation` |
| `Poll`, `CancelSeen`, `Tick`, `Chunk`, `StreamEnds`, `StreamErrors` | its inner loop |
| `RunTool`, `AskUser`, `AnswerTaken` | `execute_tool_call`, the permission dialogue of `exec_command.rs` |
| `Finish` | the end of `run_generation` and of `process_message` |
| `RequestCancel`, `Respond`, `SetConversation` | `request_cancel`, `handle_approval_response`, `clear_conversation`, `inject_summary_context` |
| `Start`, `Signal`, `Hear`, `HearNothing`, `HearSignal`, `Join` (`SubAgents`) | `execute_step_with_events_and_cancel`, `with_working_directory`, `with_tools`, the senders of cancel signals |

*Abstractions.* A conversation is the set of prompts the model was told. Of the
chunks of a turn one is told of, the one the app acts on. The text said so far,
which a cancelled generation sends once more before its `Done`, is left out here
and modelled in `Stream`. In `SubAgents`, `rerun_last_verifier` (another
verifier, started by the orchestrator between two steps) is left out, as are
progress events and the texts of the task. `cancelled` and `late` are history.

### 2.3 Chat

*State.* `app` holds the fields of `App` that decide about turns; `outcome` is
`AgentStreamOutcome`; `ui` tells whether the tick is draining the agent's
messages or handling keys; `inbox` is the channel to the agent's thread and
`tasks` what that thread has spawned: `ApprovalResponse` with `spawn_local`,
which keeps their order, `ClearContext` and `InjectContext` on the
multi-threaded runtime, which does not.

| Action | Code |
|---|---|
| `Type`, `Choose`, `AnswerPrompt`, `Esc` | `submit_message` (no popup, queue popup, approval prompt), the Esc handler |
| `Drain…` | the arms of `drain_agent_rx`, one message at a time |
| `Pending` | `process_pending_actions`: interrupting message, stop to summarize, summarize, time-out of the synchronisation, continuation, queued message, compaction, each an operator, in the code's order |
| `NextTick` | the end of key handling |
| `Receive`, `Synchronise`, `DeliverAnswer`, `Work` | the loop of `spawn_agent_runtime` and the tasks it spawns |

*Abstractions.* A text is typed at most once. `find_latest_compaction_summary`
takes the last thing the agent said: the summary if that turn ended whole, else
whatever was said before, or nothing. Token counts are a choice: after a chunk
or a `Done` the context may be low. Left out: the transcript and all drawing,
the sandbox prompt, `/review` (a message like any other), editing a queued
message, model reloads, and an orchestration in progress, which silences the
main agent. `astray` is history.

*Refinement.* `MCChat` instantiates `Turns` with the prompts under way (in the
inbox, at work, or ended with their `Done` unread) and the prompts known (in the
conversation, in a builder, or in a summary on its way). In `Turns` a prompt is
asked when it is the user's turn, heard, and then answered.

### 2.4 Stream

*State.* `server` is how much of `answer` has been written; `wire`, `buffer`,
`queue` what is between the server and the agent; `reader` the locals of
`process_*_sse` (`tool_state`, `current_tool_index`); `agent` those of the inner
loop of `run_generation`; `shown` and `ran` what the user sees and which calls
are run. On the wire the body of an event is one unit and each byte of the blank
line behind it another, so chunks may end within the blank line; the text of
an answer is cut anywhere by the server.

| Action | Code |
|---|---|
| `SayText`, `BeginCall`, `GivePiece`, `GiveWhole`, `WholeCall`, `Finish`, `Stop` | external: the providers' protocols |
| `Receive`, `ReadText`, `Read…Call`, `ReadEnd`, `ReadError`, `BodyEnds`, `Abandon` | `process_sse_stream`, `process_anthropic_sse`, `process_responses_sse` and their helpers |
| `TakeText`, `TakeCalls`, `TakeDone`, `TakeError`, `Cancel` | the inner loop of `run_generation`, `analyze_thinking_start` |

*Abstractions.* The server sends the text before the calls, as the protocols
do. Ids, models, usage, keep-alive comments, and the splitting of long chunks
into pieces of 100 characters are left out. How long the reader reads on when
nobody listens any more is left open (`Abandon`). Of `content_block_stop` the
reset of the current index is left out: no argument follows it. `Hold` is 11 in
the code, one less than the length of `</reasoning>`, the longest closing tag;
the instance holds back 2 of a tag of 3 characters. `StreamAssumption` says that
a closing tag is at most `Hold + 1` long; a longer one would break
`ShownAsWritten`.

### 2.5 Shell

*State.* `mode`, `pending`, `effective` are the mode and the two policies;
`current` the session in use, `owner` who holds the lock on it, `journal` the
`replay_commands`; `sessions` every shell ever spawned: its policy, whether the
manager lists it, whether the task that writes to its terminal lives, whether
the shell does, whether it is ready, what has been typed, is at work and is
unread on the screen, and which stateful commands it has done; `calls` the
locals of `execute_replay_state`.

| Action | Code |
|---|---|
| `Call`, `Refresh`, `Look`, `Reuse`, `SpawnSession`, `SpawnFails`, `Replay`, `Restored` | `execute_tool_call` (reads the configuration, then writes the policy of it), `execute_replay_state`, `get_or_create_shell_session`, `restore_shell_session_from_snapshot` |
| `Type`, `GiveUp` | `exec_command_in_shell_session` |
| `ReplayOver`, `CommandOver`, `Sync`, `Retire`, `Forget`, `SyncError`, `Retry`, `Restart`, `Refused` | what `execute_replay_state` does with each result |
| `RunNext`, `FinishLine`, `Read`, `ReadyAnyway`, `Exits`, `RuntimeEnds` | the shell at the other end, and the tasks that serve it: the reader's broadcast, the probe's task, the forwarder of a call, `apply_osc133_events` |
| `SetMode`, `UpdateConfig`, `UpdatePolicy`, `AddWritableRoot` | the mode key (`apply_safety_config_immediately`), the task of `update_safety_config` it spawns, `add_writable_root` |

*Lines and marks.* What a shell reads is lines. bash is given a command as it is
(`manager.rs:192`), and prints a D before every prompt (`session.rs:1347`), hence
one for each line of the command (`Long`: those of several, which stand here for
two); any other shell is given the command in braces, one line, with a D of its
own at the end. A call ends at the first D it hears, and the last D of that chunk
gives the code (`Codes`). `Bash` and `Long` are constants: the runs that pass have
bash and commands of one line, `ShellLines` a command of two.

*Readiness.* The probe is a line typed 100 ms after the shell was spawned. Its
task waits for the marker and then for a B. But the terminal echoes what is typed,
marker included, so it is the next prompt after that which makes a session ready
(`Read`): the probe's, if the shell's first prompt came within the 100 ms, else
that first one (`"boot"` in `Slow`), and the probe's own D is left to the first
command. When nothing comes for three seconds, or the writer is gone, the session
is ready all the same (`ReadyAnyway`).

*The mode.* A mode key writes configuration and policy at once if their locks are
free (`"lock"` in `Faults`: they may not be), and spawns a task that writes both
again, one after the other. A call reads the configuration (`Call`) and writes the
policy that follows from it when it has the second lock (`Refresh`). A write may
therefore come late and undo a newer one; `UnderWay` is the set of the modes that
such a write may still bring back.

*Abstractions.* Commands are numbered by the call that runs them. The working
directory and the environment are restored before the journal, in the same way,
and are left out; so are output texts and the approval dialogue. Of the OSC 133
marks D and the snapshot's directory are kept: A and B follow a D at once and end
nothing after it. A listener hears a chunk when it is read, since its own channel
only delays, or not at all, when the forwarder drops the chunk (`"drop"`,
`manager.rs:1853`) or the channel closes (`"lag"`). That a dropped piece may end
*between* a D and the A behind it, and the call then hear an A alone and report
code 0, is not modelled: a chunk is dropped with all its marks. `Settled` is an
assumption about time: when a call begins and no other is under way, the shells
have done what is not slow and their output has been read, since a language
model's request lies in between. Without it a late chunk of one command could be
heard by the next.

### 2.6 LruScheduler and ModelManager

*State.* `order` and `schedPinned` are the scheduler's; `alive` is the set of
models whose deadline, *as the scheduler's lookup sees it*, lies ahead. That
lookup closes over a clone of the keep-alive map made at startup, and cloning a
`DashMap` copies its entries: requests renew deadlines in a map the scheduler
does not see. Hence deadlines only pass (`Expire`), and the manager's own map,
which nothing else reads, is not kept. `loaded` and `marked` are fields of
`ModelMetadata`, `pinned` is the manager's set, `engine` the models the engine
holds, `active` and `total` the counters of `ActiveRequestGuard`, `registering`
how far the registration spawned at startup has got for a model, and `frame[h]`
the local variables and program counter of handler `h`. `twice` is history: the
models two handlers were adding to the engine at the same time.

*Grain.* A step ends where another handler can see the difference: between two
accesses of different shared objects and at every await. What the scheduler does
under its lock is one step. An entry of the `models` map that the code holds
across an await is `holds`; steps that need that entry are guarded by `Free`.
`touch`'s three updates are one step, because nothing reads the difference.

*Actions and code.* `TakeAdvice` … `AdviceTaken` are `apply_scheduler_advice`;
`CheckPinned` … `Forget` are `unload_model_internal`, reached both from an
eviction and from an `unload` request; `EnsureEngine` is
`ensure_engine_has_model`; `Admit` … `SetSchedulerPin` are `load_model`,
`refresh_loaded_metadata`, `finalize_model_load` and `on_model_loaded`; `Touch`
… `ReleaseTotal` are what `generate`, `chat` and `embeddings` share, streamed or
not; `CountModel`, `CountTotal`, `Rollback` are `ActiveRequestGuard::try_new`
and `Release…` its `Drop`.

*Abstractions.*
- The engine (vendored `mistral.rs`) is external and taken at its word: adding
  and removing either happens or returns an error; removing the last model is
  refused; adding checks and inserts in two steps, since building the pipeline
  in between takes seconds.
- Every model is registered with size 0, so the sum `can_load_model` adds up
  stays 0 and the check depends only on the model asked for: `Oversized`.
- Keep-alives differ per model, so which of several expired models goes first is
  left open in `AdviseEvict`.
- `Delayed` bounds which startup registrations may still be outstanding when
  requests arrive; the others are over at the start, in any order.

## 3. What TLC checks

| Run | Constants | Properties | Distinct states |
|---|---|---|---|
| `OrchWalk` | root of 2 steps, children of 0 or 2, depth 2, every outcome and verdict, `<<1>>` and `<<1,1>>` verified, one command, which neither injects nor resumes a step | `TypeOK`, `WorkAccounted`, `NoSpecTwice`, `RefinesWalk` | 837 708 |
| `OrchStop` | root of 2, children of 1, two calls among pause, resume, abort, cancel, resume of a step, inject; fairness | `HandlesIdle`, `AbortStopsRun`, `PauseHoldsRun`, `WorkAccounted`, `AbortEndsRun`, `WalkEnds` | 1 203 985 |
| `Steps` | 3 sub-agents, 1 command each, requests and streams fail, no permission asked; fairness | `TypeOK`, `CompletedRanWhole`, `OwnContext`, `JobsEnd` | 674 926 |
| `ChatTurns` | 3 messages; queue, interrupt, discard; 2 commands per message that ask, answers yes, no, stop | `TypeOK`, `OneTurn`, `CancelStops`, `AnswersReachTheirCommand`, `RefinesTurns` | 2 557 502 |
| `ChatBreaks` | 2 of a message, `/clear`, `/summarize`; Esc; requests and streams fail, the synchronisation may time out; fairness | `SpinnerMeansWork`, `SpinnerStops` | 336 924 |
| `Streams` | 3 backends, 3 answers, every fault, 3 events on the way | `TypeOK`, `ShownAsWritten`, `RunAsAsked`, `CutShortIsTold` | 2 845 936 |
| `ShellAlone` | 1 caller, 3 commands of one line, replayed or not, slow or not; shells exit, runtimes end, spawning fails, the locks of the mode are taken; 1 switch; fairness | `NothingLeftRunning`, `NoShellLeaks`, `StateKept`, `ExitCodeIsOwn`, `CallsReturn` | 1 217 524 |
| `ShellShared` | 2 callers, 2 commands, slow or not; listeners lag, chunks are dropped; 1 switch; fairness | `TypeOK`, `ModeInForce`, `CallsReturn` | 829 605 |
| `ServerShared` | 2 models, 1 may stay, 2 handlers, limits 1; infer and unload; symmetry | `TypeOK`, `LoadedIsResident`, `LimitsKept`, `GuardsReturned` | 914 012 |
| `ServerPinned` | the same; one model configured as pinned and registered late, the other too large to load again; infer, pin, unload; fairness | `ConfiguredStays`, `RequestsEnd` | 303 894 |
| `ChatLow` | 1 message, the context may run low at any time | `ContinueAfterSummary`: **violated** | |
| `ShellLines` | 1 caller, 2 commands, of which the first has two lines; bash; no faults | `ExitCodeIsOwn`: **violated** | |

Deadlock is checked in the runs of `Orchestrator`, `Chat` and `ModelManager`: an
orchestrator whose run has returned may stop (`Terminated`), the others never
do. In `SubAgents`, `Shell` and `Stream` the bounds are used up or the response
is over, and the system really stops; `JobsEnd` and `CallsReturn` say that it
does not stop in the middle.

*The properties in words.*

- `WorkAccounted`: each step of each spec ever pushed is settled, or its spec is
  on the stack, in hand or in `pending_resume` at or before it. Two exceptions
  are what the code does: the rest of a spec whose step a verifier *rejects* is
  dropped, and shelving a second step *overwrites* the first.
- `NoSpecTwice`: no spec is walked by two entries. Checked without
  `inject_split` and `resume_step`: an injected spec takes its
  prefix from the entry below the one in hand and may collide with one of the
  plan's, and a shelved spec is resumed on top of whatever is there.
- `RefinesWalk`: section 2.1. Among other things it says that children come
  before the rest of their parent and that `Completed` means nothing is left.
- `HandlesIdle`: while a cancel handle can be reached from another task, the
  published prefix is that of the step in hand; neither is published while
  commands are handled. It is also why `HandleCancelStep` never takes its
  `sharedCancel` branch.
- `AbortStopsRun`, `PauseHoldsRun`: after the call has returned at most one step
  starts, the one that had passed the command point. `PauseHoldsRun` stops
  counting when something is resumed.
- `AbortEndsRun`: an abort that has returned ends the run, from every wait.
- `WalkEnds`: if steps are not revised or split for ever and the run is in the
  end not paused for good, it ends.
- `CompletedRanWhole`: whatever the listening loop took first, a step is
  reported as completed only if its generation ended by itself.
- `OwnContext`: a sub-agent's builder holds its own prompt and no other.
- `JobsEnd`: every sub-agent's call returns. With `AskPermission` it would not:
  nobody answers a sub-agent's request for permission.
- `OneTurn`: a turn is a token that is a `UserInput` in the inbox, a live
  generation, or an unread `Done`; there is exactly one while
  `agent_processing` is set and none otherwise.
- `CancelStops`: a generation cancelled at work makes at most one more request,
  however many tool calls its response holds.
- `AnswersReachTheirCommand`: the sender that an answer finds in the slot is
  that of the command the prompt showed.
- `RefinesTurns`: section 2.3. A prompt once heard is never lost by queueing,
  interrupting, denying or stopping.
- `SpinnerMeansWork`, `SpinnerStops`: while the app shows a turn there is
  something that will end it, and it ends, through failed requests, failed
  streams, Esc, clearing and a compaction that fails.
- `ContinueAfterSummary`: when the prompt that takes up the work after a
  compaction is sent, the summary is the conversation: nothing sent before it is
  still to clear the conversation or to replace it. It is false, by a few steps
  (below), and proved of all behaviours without a `Crossing` (section 4).
- `ShownAsWritten`: thoughts and text are told apart without loss, repetition or
  confusion, whatever pieces the tags come in.
- `RunAsAsked`: when a stream has ended as the protocol says, all text was heard
  and the calls that are run are those asked for, in order, with their whole
  arguments.
- `CutShortIsTold`: an error, a broken connection, and with Anthropic an early
  end, reach the user as an error.
- `NothingLeftRunning`, `NoShellLeaks`: when a call has returned its command is
  not at work, nor waiting to be, in a shell that is typed into again; between
  calls there is no shell but the current one.
- `StateKept`: what a completed `replay_state` command did is in the journal,
  and the session handed out has done all that is in the journal.
- `ExitCodeIsOwn`: the D mark that gave a completed command its exit code was that
  of its last line.
- `ModeInForce`: a command is typed into a shell whose sandbox was built for a
  mode in force at some time since its call, or one that a call or an update had
  read by then and had still to write. Without that "or" it is false with two
  callers (section 5); with it, it says that a mode left and written off does not
  come back, whichever caller replaces, reuses or loses sessions.
- `CallsReturn`: every `exec_command` returns.
- `LoadedIsResident`: except for models that two handlers were adding at once,
  what the metadata calls loaded is in the engine, through every race of loads,
  unloads and evictions.
- `ConfiguredStays`: a model configured as pinned never leaves the engine,
  although the scheduler's pin may not be set yet: the manager's set protects it.
- `LimitsKept`, `GuardsReturned`: counted over the handlers that really have a
  request with the engine, the limits hold; when all are idle all counters are 0.
- `RequestsEnd`: every request that has begun ends.

*Why the bounds are enough.* Two steps per spec and two levels of specs are the
least in which a parent has work left after a child and a child after its first
step; length 0 is the empty child, which `run` skips. Two calls are a race of
two commands, or a cancellation and the resume or injection after it. Three
sub-agents are a worker, its summarizer and its verifier, or three workers after
one another. Three messages are one at work, one that interrupts and one that is
queued; two commands per message let an answer come after the next command has
asked. In `ChatBreaks` two inputs let something follow what failed. In `Streams`
the answers hold a thought with a false end in it, an answer that looks like a
thought, calls whose pieces come in turn, and a thought that does not end; three
events on the way let one chunk end within a separator and bring the next event
with it. Three shell commands are one that fails, one that meets what it left
and one after the repair; two callers with a command each, and one change of mode,
are what it takes for a write to be stale; with `MaxSessions` (which only bounds
the sessions
fairness speaks of) no run spawns more. Two handlers give every race in which a
check by one is made stale by the other, and an eviction makes one handler act
on two models. With limits of 1 every limit is reached; with two models and one
allowed, each inference evicts or tries to. For what is proved (section 4) the
bounds do not matter.

*What the runs leave out.* `ChatBreaks` has no low context: faults, Esc and
compaction by the app together are too many states for one run; `ChatLow` looks
for one thing only. `ShellShared` lacks the properties of `ShellAlone` that two
callers can break (section 5), `ShellAlone` the faults and the commands with which
one caller breaks them: several lines in bash, a lagging listener, and a replay, a
snapshot, a probe or a first prompt that is slow. With each of these alone
`NothingLeftRunning`, `StateKept` and `ExitCodeIsOwn` are all false, and TLC shows
it in the instance of `ShellAlone`, without its other faults, within 100 000
states; section 5 says how. Dropped chunks break none of the three there. Still
`ShellAlone` is without them: what they may do to an exit code depends on the marks A and B, which the
model leaves to the D before them (section 2.5).

*Fairness.* `Orchestrator`: weak fairness of the run loop and of a control call
already begun. The runtime polls a ready task again, a sub-agent's generation
ends, and a control call only locks briefly and sends to an unbounded channel.
The operator need not call anything, and no single outcome is fair. `Chat` and
`SubAgents`: the app ticks, the agent's thread receives, spawned tasks are polled
(weak), and a stream ends however many chunks come before (strong, on `Ends`:
backends bound their answers; it is stated for as many generations as the bounds
allow). Nothing is assumed of the user. `Shell`: a caller
is polled, a shell runs what is typed into it and its output is read (weak); the
tasks of the mode key are not assumed to run.
`ModelManager`: strong fairness per handler. A handler waiting for an entry that
others take and release again is enabled again and again; the entry's lock does
not starve it. The engine answering, and that building a model ends, are part of
the assumption.

*Violations.* Two runs check what the repository says of itself, and TLC finds it
false.

- `ChatLow`: `context_sync_pending` is "Waiting for context operation to complete"
  (`app_state.rs:270`), and the app that starts the operation "will wait for
  ContextInjected" (`agent_stream_handlers.rs:706`) before it lets the prompt to
  continue out. The operation is two messages, `ClearContext` and
  `InjectContext`, which the agent's thread hands to two tasks of a multi-threaded
  runtime. In the counterexample the context runs low once, `InjectContext` is
  done first, its `ContextInjected` clears the flag (`:609`), and the prompt is sent
  while `ClearContext` is still to wipe the summary.
- `ShellLines`: the marks of bash are to give "reliable, exit-code-accurate
  completion detection without wrapping every command" (`session.rs:1342`). In the
  counterexample a command of two lines is over at the D of its first one; the
  snapshot is typed behind the second, hears its D together with its own
  directory, and the command is reported as completed with the first line's code.

## 4. What is proved

TLAPS checks every proof from nothing. All theorems hold for all values of the
constants that satisfy the modules' named assumptions (`RunAssumption`,
`OperatorAssumption`, `SchedulerAssumption`, `ManagerAssumption`,
`AgentAssumption`, `SubAgentsAssumption`, `ChatAssumption`, `ShellAssumption`,
`StreamAssumption`): lengths, limits and bounds are natural numbers, commands,
keys and faults are among those the code has, the set of models is finite and not
empty, the opening tag has a character and no white space, the closing one fits
`Hold + 1`. Nothing bounds the plan, the depth, the number of calls, messages,
sub-agents, callers, sessions, models or handlers, nor an answer and its cuts.

`OrchestratorProofs`

- `TypeCorrect` (`[]TypeOK`): `TypeOK` is inductive; one lemma per part of the
  loop, over lemmas on what `Step`, `Push`, `Child`, `Open` return.
- `HandlesIdleCorrect`: the property says nothing between the publication of the
  prefix and that of the handle, nor between the two clearings. `HandleInv` adds
  which of the two is there at each of these points, and is inductive with
  `TypeOK`.
- `AbortStopsRunCorrect`, `PauseHoldsRunCorrect`: after the call returns, the
  command is in the channel or in the drained batch, or has been acted on, and
  no step can start after the next drain without handling it. `AbortInv` and
  `PauseInv` state where the command is at each `pc` and how many starts are
  left there; lemmas on `Append` and `Tail` say that it is not lost on the way.
  `PauseInv` must also live with a `Resume` that is still in the channel when
  `pause()` is called: handling it clears the flag, but the `Pause` is behind it
  in the same channel.
- `NoSpecTwiceCorrect`, assuming that no request injects or resumes a step: the
  prefixes on the stack, with that of the entry in hand, are a `Chain`, each
  longer than the one below and beginning with it.
- `WorkAccountedCorrect`, for any requests: inductive with `TypeOK` and
  `OneShelved` (at most one entry in `pending_resume`). Each step moves a
  position between the places `WorkAccounted` names: `Settled`, `Ahead` of an
  entry, `Waived`. That a place covers the positions from its index *to its
  length* is what the proof needs where two entries have one prefix, after an
  injection.
- `RefinesWalkCorrect`, under the assumption of `NoSpecTwiceCorrect`: `Nested`
  (the `Chain`, with each entry's prefix a step its parent has not passed) makes
  the step in hand `Foremost`; `WalkInv` says when the entry in hand has a step at
  all. Each action settles, splits or drops that step, ends the run, or leaves
  `Todo` alone.

`SubAgentsProofs` – `Inv == Shape /\ Counted /\ OneAtWork /\ Flagged /\ Fresh /\
OwnContext /\ CompletedRanWhole`. `CompletedRanWhole` is not inductive: what
decides the outcome is `job.requested`, and that a generation is stopped only if
it was requested is `Flagged`, which needs that one sub-agent works at a time
(`OneAtWork`) and starts with a flag of its own. `Fresh` does the same for the
conversation. `TypeCorrect`, `OwnContextCorrect` and `CompletedRanWholeCorrect`
follow.

`ChatProofs` – all four theorems assume `Patient`: no request fails, the context
does not run low, nobody presses Esc, and neither `/clear` nor `/summarize` is
typed. (Without it `OneTurn` is false: section 5.)

- `Inv` says that for some prompts `T` under way and `M` known the turn is at one
  of five places: `AtRest`, `OnItsWay` (in the inbox), `Waiting` (spawned),
  `Working`, `Reported` (its `Done` unread), each of which says what is in every
  channel, in the conversation and in `agent_processing`. `Calm`: what a `Done`
  has left for the tick to do waits for a turn that is over, and nothing is
  being compacted. `Fresh`: a text in the queue, in the popup or held back to
  interrupt has not been said. `Approval`: the prompt on screen, the answers in
  the two channels and the sender in the slot belong to one question, the last
  one asked, or to none. `Cancels`: where a cancelled generation may be, with the
  requests it has made.
- `OneTurnCorrect`, `CancelStopsCorrect`, `AnswersCorrect` follow from `Inv`;
  `RefinesTurnsCorrect` from it and two lemmas: `View` says that `T` and `M` are
  what `MCChat` hands to `Turns`, `Steps` that every step either takes a turn
  further or leaves `T` and `M` alone.

`SpinnerProofs` – two theorems hold for every user and every failure. `Inv ==
AgentTyped /\ AppTyped /\ Listens /\ (processing => Busy)`. `SpinnerMeansWork`
alone is not inductive: a `Done` that the app ignores, because
`agent_interrupted` is set, would take the last reason away and leave
`agent_processing` set. `Listens` says that the two flags are never set together,
nor `agent_interrupted` while the tick still has a queued or interrupting message
to send. Within a tick they may be: `Good` says what holds of the record that
`process_pending_actions` hands from each of its parts to the next, and one lemma
per part that it keeps `Good`. `TypeCorrect` and `SpinnerCorrect` follow.

`ContinueCorrect` is about the behaviours in which a `Crossing` never happens: a
`ContextInjected` is unread while a message or task that clears or replaces the
conversation is still to come. There are two ways into a `Crossing`, and the app
can tell neither from the ordinary case: the `InjectContext` has overtaken its
`ClearContext`, or the context was low again before the app had read of the first
summary. Three more assumptions: no `"timeout"` in `Faults` (after five seconds the
code goes on without the synchronisation), `Continue \notin Texts` and `"/clear"
\notin Texts` (a user who types the very prompt sends it at any time, and
one who clears the conversation starts a synchronisation that no `InjectContext`
ends). Its invariant is `Awaited`: while the conversation is still to be cleared
or replaced, both `context_sync_pending` and `context_inject_expected` are set, so
that neither a `ContextCleared` nor the tick lets the prompt out. Every step
keeps it but a `ContextInjected`, which clears both; without a `Crossing` nothing
is left to come then. Within a tick, `Waits` says of the record that each part
hands to the next that a prompt it sends finds `sync` cleared; one lemma per part.

`ShellProofs` – `Inv == Shape /\ InEffect /\ \A c : CallOK(…)`. `InEffect` ties the
policy in effect to the current session's. `CallOK` says that a call knows every
mode `UnderWay`, and, once it has written the policy, that of the pending one,
whoever has written it since; that the session it works in has a mode it knows;
and while it replays, the policy it read.
`TypeCorrect` and `ModeInForceCorrect` follow, for any callers. The others are about
one caller.

- `NoShellLeaksCorrect`, whatever is slow, fails, lags or is dropped, and however
  many lines commands have: `Sole` says at each `pc` of the call which sessions the
  manager lists: at most the current one, the one the call is in, or none.
- `NothingLeftRunningCorrect`, `StateKeptCorrect`, `ExitCodeIsOwnCorrect` assume
  `Prompt`: only commands may outlast their timeout, no listener lags, no chunk is
  dropped, and what bash is given is one line. But for the drops the assumption is
  as weak as it can be: without any part of it TLC finds each of the three
  violated (section 3). Sessions still die, runtimes end, spawns fail and commands
  run on. `Lone` adds three things to `Sole`: `Phase`, of which `Holds(f, t)` says what
  a call `f` finds in its session `t` at each point (nothing, its command alone in
  line, at work or ended, the remains of one it gave up, a snapshot behind
  those); `UpToDate`, the second half of `StateKept` without the lock; `Reports`,
  what was told. The lemmas `…Lasts` take each such content through what a terminal
  does on its own (`Moved`), `HoldsHeard` through a chunk that the call hears, and
  one lemma per step of the call does the rest.

`StreamProofs` – all theorems hold for every answer, every way server and network
cut it, and every fault.

- `Inv == Types /\ Sound(…) /\ Wired /\ Verdicts /\ AllTold /\ RunAsAsked`.
  `AllTold` is the core: there is a history `h` of what the server had told before
  the first unit of the line (buffer and wire) and after each (`Chain`), and a
  history `f` of the same for each message of the queue (`Course`). The last of
  `h` is what the server has written, the last of `f` what the reader has taken,
  the first of `f` what the agent knows: the text heard is so much of the answer,
  the calls have so many of their pieces. The server lengthens `h`, the network
  may shorten it, the reader takes its first turn and lengthens `f`, the agent
  drops the first of `f`; one lemma each (`ChainLonger`, `ChainShorter`,
  `ChainLater`, `CourseLonger`, `CourseLater`). Neither history is a variable:
  each step gives the next one.
- `Wired` says that the line is whole events with a blank line each, in turns,
  but for the last: a `\r\n` cut in two would otherwise make an event of a part.
  `Verdicts` says which endings of the server a `done` or an `error` in the queue
  can come from. `Complete`, that no piece of any call is missing, holds of an
  end event; that and `AllTold` make the calls in `done` those of the answer.
  `RunAsAskedCorrect`, `CutShortIsToldCorrect` and `TypeCorrect` follow.
- `ShownAsWrittenCorrect`: `Faithful`, with `Inv`, puts the text heard at one of
  three places, `Opening` (may still become the opening tag), `Inward` (in the
  thought), `Outward`, each of which ties the agent's locals and what was shown to
  the `Thoughts` and `Words` of all that was heard. A new chunk keeps it there or
  takes it on because what is decided of a text remains so as it grows
  (`DecidedIs`, `BeyondCat`), and because the closing tag found in what was held
  back and the chunk is the first one of the whole (`FoundCat`): here a closing
  tag longer than `Hold + 1` would break the proof, and the program. `AllTold`
  gives the one thing the agent cannot know, that no text follows a call.

`ModelManagerProofs` – one inductive invariant, `Inv == Shape /\ Residence /\ Pins`:

- `Shape`: the types of the variables the other parts mention.
- `Residence`: `LoadedIsResident` is not inductive, since nothing in it stops one
  handler from removing what another has just marked loaded. The code prevents
  this by the order of its steps (insert, then mark; unmark, then remove), which
  is to say that a handler alone answers for the model in between: `HeldInEngine`
  and `HeldAlone` say so of handlers at `finalize` and `remove`, `InsertOutside`
  and `InsertAlone` of those at `insert`.
- `Pins`: configured models are in all four sets; no handler past the first check
  of an unload has one as its target; a handler about to write the pinned set has
  a copy that says pinned.

`LoadedIsResidentCorrect` and `ConfiguredStaysCorrect` follow. Most actions
change none of what `Inv` mentions; the lemmas `Quiet…` treat them together.

`RequestGuardProofs` – `GuardInv`: each counter is the `Cardinality` of the set of
handlers that hold a place of it, and within its limit. `LimitsKeptCorrect` and
`GuardsReturnedCorrect` follow, assuming that finitely many handlers are at work;
and, with `Sched` from `ModelManagerProofs`, `TypeCorrect`. That no model has two
places in the scheduler's order, which `TypeOK` says as well, rests on what
`retain` returns: `Without` gives the `n`-th element kept as the one at the least
index up to which `n` are kept (`NthIs`), so that the lemma `WithoutIs` needs no
induction over the order.

*Only model-checked.* Liveness (`AbortEndsRun`, `WalkEnds`, `JobsEnd`,
`SpinnerStops`, `CallsReturn`, `RequestsEnd`) is out of the prover's reach.
Every invariant and action property that a passing run checks is stated by a
theorem, if for some of them (`ChatProofs`, the last three of `ShellProofs`) under the
assumptions given here.

## 5. Where code and comments part

What follows was met while modelling. The models do what the code does; the
properties of the passing runs are stated so that they hold of it.

*Orchestrator.* A cancelled step that was the last entry is dropped although
the event says it awaits resume (`orchestrator.rs:641`, `:77`). `ResumeStep`
is compared with the prefix of the step's spec, while the event reports the
step's own (`:518`, `:149`). `abort()` first cancels the step in hand (`:213`); if
that was the last, the run reports `Completed` (`:210`).

*Agent and application.* A cancellation before `Begin` is wiped by `reset_cancel`
(`agent.rs:20`): when the context runs low, the generation that the app stops may
go on beside that of the summary. Esc followed at once by a message
lets two generations share the conversation, and the `Done` of the first ends
the turn of the second. A request that fails loses the conversation, which is
held by the builder that is dropped (`agent.rs:60`). Of a compaction's
`ClearContext` and `InjectContext` either may be done first (run `ChatLow`); in the
other order the summary is lost. Two compactions may cross as well: if the context
is low again before the app has read the first one's `ContextInjected`, the second
summary is sent, and the late event lets the work be taken up with that one still
on its way. A message queued while a compaction is under way
stays in the queue until a later `Done`. Nobody answers a sub-agent's request
for permission.

*Streams.* The OpenAI and Responses readers take a connection that closes early
for the end: a call may then run with half its arguments. The agent also runs
the calls it has when an error follows them. A delta that holds both text and
calls loses its text, and a text that comes only in the last message is never
shown. A cancellation repeats the text said so far.

*Sub-agents.* `with_tools` ("Create a new agent with a custom tool list and
prompt.", `lib.rs:336`) clones the agent, which clones the `Arc` of the list, and
writes through it (`lib.rs:341`): the list given to one role is everybody's from
then on. When a worker's step has been summarized and verified, the next worker,
and the main agent, have the verifier's tools; if the summary fails, the
summarizer's. The variable `tools` of `SubAgents` shows it.

*Shell.* A command of several lines is over for bash's caller with its first one
(run `ShellLines`). If the second then outlasts the snapshot's timeout, the call
returns an error and the session is kept (`exec_command.rs:368`) with the rest
still running; the D it prints in the end completes what is typed next, and its
code is taken for that command's. A replayed command that times out is not
noticed by the restore (`manager.rs:2013`), and the first command may get its exit
code. A probe that is late leaves its mark to the first command, and so does one
whose session was made ready by the shell's first prompt: the comment "Consuming
them here prevents them from leaking into the first real command's broadcast
subscription" (`session.rs:1698`) does not reckon with the echo of the marker
(`ExitCodeIsOwn` with `Long = {}` and `Slow = {"boot"}` in `ShellLines.cfg` shows
it). A restore that fails leaks the session it has spawned
(`shell_session.rs:187`). A failed snapshot after a command that ended keeps the
session and loses the command from the journal. A chunk of output that holds
`read` and `bytes from pty` or is all digits is dropped with its marks
(`manager.rs:1853`): such a command times out although it has ended.

A call reads the configuration and writes the policy of it after an await
(`exec_command.rs:90`, `:94`): if the mode changes in between and another call has
written the new policy, the late write brings the mode left back for that call,
against "so the next tool call observes the new mode" (`lib.rs:670`). The writes of
`update_safety_config`, spawned per key press, may come in any order too. With two
callers a session may be replaced while another's command is being recorded, and
`Restart` forgets the current session whichever it is (`exec_command.rs:383`).
`add_writable_root` (`exec_command.rs:95`) writes into the pending policy, which the
next `execute_tool_call`, or a mode key that leaves the sandbox as it is, replaces
from the configuration before any command sees the root.

*Model manager.* Two loads of one model both pass the check and insert; an
unload in between leaves `loaded` set without a model (`core:1491`).
`finalize_model_load` writes the pinned set from a stale copy (`core:975`). The
scheduler reads deadlines from a copy made at startup (`core:749`). A victim
whose unload is refused is in no later advice until it is used again
(`scheduler:220`). Refreshing or loading sets the gauge of active requests to 0
(`core:936`).

## 6. What is not modelled

The map covers less than a tenth of the repository's implementation lines. Most
of the others have no interleaving to check: drawing and layout, the editor
widget, Markdown, configuration, routes, protocol types, system calls, the
vendored engine. The rest:

- *Session manager*: plain exec sessions (background commands among them),
  managed Nu, saved session files, the clean-up of timed-out sessions. Reading
  them showed hazards of the same kind: output is subscribed to after the
  process was spawned; the grace period after an exit ends at the first empty
  read; a foreground time-out leaves the process; `snapshot_shell_session` and
  `save_session_state` take two locks in opposite orders (`manager.rs:2034`,
  `:637`), and `cleanup_timed_out_sessions` locks one twice (`:613`). The agent
  calls neither of the last two.
- *Agent core*: the tools themselves, prompts, token counts, model switches.
- *Application*: the transcript, sessions on disk, the orchestration screens,
  which only call `OrchestratorControl`.
- *LLM backends*: building requests, answers that are not streams, the local
  backend. Of the Responses reader: `response.incomplete`, which it ignores
  (`responses.rs:471`), so that a response cut by a limit ends like one whose
  connection closes; and the answer in JSON instead of events (`:476`).
- *Model manager*: pull jobs (simulated in the code; `submit_pull_job` checks and
  inserts in two accesses, `core:1572`), log rings, metrics, the in-memory mock.
- *Vendored engine* below add, remove and look-up. Its `remove_model` calls
  `blocking_send`; on a thread of the async runtime that call panics with a write
  lock held. The model takes the engine at its word.
- *Pins changed at run time*: a request may pin a model, but none rewrites the pin
  that the configuration gave; what `core:975` does with a stale copy of a pin
  changed at the same time is in no property.
- Memory, and the order in which locks without an await in between are granted:
  the models are sequentially consistent.

## 7. Plan

1. `ExecSessions`: plain sessions of the session manager, with broadcast,
   grace period and termination; then managed Nu.
2. `PullJobs`, and the manager's logs.
