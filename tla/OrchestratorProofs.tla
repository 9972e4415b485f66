------------------------- MODULE OrchestratorProofs -------------------------
(* Theorems about Orchestrator, for every plan and every set of requests.  *)
EXTENDS Orchestrator, TLAPS

(* The type invariant is kept by every call of the operator.               *)
LEMMA OperatorTypeOK == TypeOK /\ (Operator \/ Calling) => TypeOK'
<1> USE OperatorAssumption
<1> SUFFICES ASSUME TypeOK, Operator \/ Calling PROVE TypeOK'
  OBVIOUS
<1>1. ASSUME NEW c \in Requests, Call(c) PROVE TypeOK'
  <2>1. c \in Command
    OBVIOUS
  <2>2. control' \in [at : {"idle", "match", "signal", "send"},
                      cmd : SUBSET Command]
    BY <1>1, <2>1 DEF Call
  <2>3. paused' \in BOOLEAN /\ pausing' \in BOOLEAN
    BY <1>1, Zenon DEF Call
  <2>4. calls' \in Nat
    BY <1>1 DEF Call, TypeOK
  <2> QED
    BY <1>1, <2>2, <2>3, <2>4 DEF Call, TypeOK, walkVars, loopVars, cancelVars,
       lastVars, handleVars, specHistory
<1>2. ASSUME NEW c \in control.cmd, MatchPrefix(c) PROVE TypeOK'
  <2>1. control' \in [at : {"idle", "match", "signal", "send"},
                      cmd : SUBSET Command]
    BY <1>2 DEF MatchPrefix, TypeOK
  <2> QED
    BY <1>2, <2>1 DEF MatchPrefix, TypeOK, walkVars, loopVars, cancelVars,
       lastVars, handleVars, specHistory, stopHistory
<1>3. ASSUME NEW c \in control.cmd, SignalCancel(c) PROVE TypeOK'
  <2>1. /\ control' \in [at : {"idle", "match", "signal", "send"},
                         cmd : SUBSET Command]
        /\ signal' \in SUBSET Command
    BY <1>3 DEF SignalCancel, TypeOK
  <2> QED
    BY <1>3, <2>1 DEF SignalCancel, TypeOK, walkVars, loopVars, cancelVars,
       lastVars, specHistory, stopHistory
<1>4. ASSUME NEW c \in control.cmd, SendCommand(c) PROVE TypeOK'
  <2>1. c \in Command
    BY DEF TypeOK
  <2>2. commands' \in Seq(Command)
    BY <1>4, <2>1 DEF SendCommand, TypeOK
  <2>3. control' \in [at : {"idle", "match", "signal", "send"},
                      cmd : SUBSET Command]
    BY <1>4 DEF SendCommand
  <2>4. /\ aborting' \in BOOLEAN /\ pausing' \in BOOLEAN
        /\ pausedStarts' \in 0..2
    BY <1>4 DEF SendCommand, TypeOK
  <2> QED
    BY <1>4, <2>2, <2>3, <2>4 DEF SendCommand, TypeOK, walkVars, loopVars,
       cancelVars, lastVars, handleVars, specHistory
<1> QED
  BY <1>1, <1>2, <1>3, <1>4 DEF Operator, Calling

-----------------------------------------------------------------------------
(* What the helpers of the run loop return.                                *)
LEMMA StepType == ASSUME NEW f \in Frame PROVE Step(f) \in Prefix
BY DEF Step, Frame, Prefix

LEMMA PushType ==
  ASSUME NEW f \in Frame, NEW s \in Seq(Frame) PROVE Push(f, s) \in Seq(Frame)
BY DEF Push

LEMMA ChildType ==
  ASSUME NEW p \in Prefix, NEW n \in Nat PROVE Child(p, n) \in Frame
BY DEF Child, Frame

LEMMA AdvanceType == ASSUME NEW f \in Frame PROVE Advance(f) \in Frame
BY DEF Advance, Frame

LEMMA FreshType ==
  ASSUME NEW p, NEW S \in SUBSET Prefix PROVE Fresh(p, S) \in SUBSET Prefix
BY DEF Fresh

LEMMA OpenType ==
  ASSUME TypeOK, NEW p \in Prefix, NEW n \in Nat, Open(p, n)
  PROVE  /\ opened' \in SUBSET [prefix : Prefix, len : Nat]
         /\ cut' \in SUBSET Prefix /\ overwritten' = overwritten
<1>1. opened' \in SUBSET [prefix : Prefix, len : Nat]
  BY DEF Open, TypeOK
<1>2. cut' \in SUBSET Prefix /\ overwritten' = overwritten
  BY DEF Open, TypeOK
<1> QED
  BY <1>1, <1>2

LEMMA ShelveType ==
  ASSUME TypeOK, Shelve
  PROVE  pending' \in SUBSET Frame /\ overwritten' \in SUBSET Prefix
<1>1. {f.prefix : f \in pending} \in SUBSET Prefix
  BY DEF TypeOK, Frame
<1> QED
  BY <1>1 DEF Shelve, TypeOK

(* The control part of the run loop keeps the type invariant: it moves     *)
(* entries and commands, and sets flags and handles.                       *)
LEMMA LoopTypeOK ==
  ASSUME TypeOK,
         \/ Pop \/ Complete \/ Drain \/ HandleCommand \/ Handled \/ StayPaused
         \/ SkipFinished \/ Execute
  PROVE  TypeOK'
<1> USE DEF TypeOK, Handling, walkVars, loopVars, cancelVars, lastVars,
    handleVars, controlVars, specHistory, stopHistory
<1>1. CASE Pop
  BY <1>1 DEF Pop
<1>2. CASE Complete
  BY <1>2 DEF Complete
<1>3. CASE Drain
  BY <1>3 DEF Drain
<1>4. CASE HandlePause
  <2>1. batch' \in Seq(Command)
    BY <1>4 DEF HandlePause
  <2> QED
    BY <1>4, <2>1 DEF HandlePause
<1>5. CASE HandleResume
  <2>1. batch' \in Seq(Command)
    BY <1>5 DEF HandleResume
  <2> QED
    BY <1>5, <2>1 DEF HandleResume
<1>6. CASE HandleAbort
  BY <1>6 DEF HandleAbort
<1>7. CASE HandleRerun
  BY <1>7 DEF HandleRerun
<1>8. CASE HandleInjectSplit
  <2> DEFINE c    == Head(batch)
             base == IF stack = <<>> THEN <<>> ELSE Head(stack).prefix
             p    == base \o c.prefix
  <2>1. c \in Command /\ batch' \in Seq(Command)
    BY <1>8 DEF HandleInjectSplit
  <2>2. base \in Prefix
    <3>1. CASE stack = <<>>
      BY <3>1 DEF Prefix
    <3>2. CASE stack # <<>>
      <4>1. Head(stack) \in Frame
        BY <3>2
      <4> QED
        BY <3>2, <4>1 DEF Frame
    <3> QED
      BY <3>1, <3>2
  <2>3. p \in Prefix /\ c.len \in Nat
    BY <2>1, <2>2 DEF Command, Prefix
  <2>4. stack' \in Seq(Frame)
    BY <1>8, <2>3, ChildType, PushType DEF HandleInjectSplit
  <2>5. done' \in SUBSET Prefix /\ failed' \in SUBSET Prefix
    BY <1>8, FreshType DEF HandleInjectSplit
  <2>6. /\ opened' \in SUBSET [prefix : Prefix, len : Nat]
        /\ cut' \in SUBSET Prefix /\ overwritten' = overwritten
    <3>1. Open(p, c.len)
      BY <1>8 DEF HandleInjectSplit
    <3> QED
      BY <2>3, <3>1, OpenType
  <2> QED
    BY <1>8, <2>1, <2>4, <2>5, <2>6 DEF HandleInjectSplit
<1>9. CASE HandleCancelStep
  <2>1. Head(batch) \in Command /\ batch' \in Seq(Command)
    BY <1>9 DEF HandleCancelStep
  <2>2. cancelPrefix' \in SUBSET Prefix /\ signal' \in SUBSET Command
    BY <1>9, <2>1 DEF HandleCancelStep, Command
  <2>3. sharedCancel' \in BOOLEAN
    BY <1>9, Zenon DEF HandleCancelStep
  <2> QED
    BY <1>9, <2>1, <2>2, <2>3 DEF HandleCancelStep
<1>10. CASE HandleResumeStep
  <2>1. batch' \in Seq(Command)
    BY <1>10 DEF HandleResumeStep
  <2> DEFINE match == {f \in pending : f.prefix = Head(batch).prefix}
  <2>2. /\ stack' \in Seq(Frame) /\ pending' \in SUBSET Frame
        /\ paused' \in BOOLEAN
    <3>1. CASE UNCHANGED <<stack, pending>> /\ paused' = FALSE
      BY <3>1
    <3>2. CASE PutBack
      BY <3>2 DEF PutBack
    <3>3. ASSUME NEW f \in match,
                 stack' = Push(f, stack), pending' = {}, paused' = FALSE
          PROVE  /\ stack' \in Seq(Frame) /\ pending' \in SUBSET Frame
                 /\ paused' \in BOOLEAN
      BY <3>3, PushType
    <3> QED
      BY <1>10, <3>1, <3>2, <3>3 DEF HandleResumeStep
  <2> QED
    BY <1>10, <2>1, <2>2 DEF HandleResumeStep
<1>11. CASE Handled
  BY <1>11 DEF Handled
<1>12. CASE StayPaused
  BY <1>12 DEF StayPaused
<1>13. CASE SkipFinished
  BY <1>13 DEF SkipFinished
<1>14. CASE Execute
  BY <1>14 DEF Execute
<1> QED
  BY <1>1, <1>2, <1>3, <1>4, <1>5, <1>6, <1>7, <1>8, <1>9, <1>10, <1>11,
     <1>12, <1>13, <1>14 DEF HandleCommand

(* So does the execution of a step, which publishes and clears the handles *)
LEMMA ExecuteTypeOK ==
  ASSUME TypeOK,
         \/ StartStep \/ PublishPrefix \/ PublishCancel \/ CancelBeforeStep
         \/ SubAgentEnds \/ SubAgentCancelled \/ SubAgentErrs
         \/ ClearCancel \/ ClearPrefix \/ CancelAfterStep
  PROVE  TypeOK'
<1> USE DEF TypeOK, walkVars, loopVars, cancelVars, lastVars, handleVars,
    controlVars, specHistory, stopHistory
<1>1. CASE StartStep
  <2>1. lateStarts' \in 0..2 /\ pausedStarts' \in 0..2
    BY <1>1 DEF StartStep, UpTo2
  <2>2. done' \in SUBSET Prefix /\ failed' \in SUBSET Prefix
    BY <1>1 DEF StartStep
  <2> QED
    BY <1>1, <2>1, <2>2 DEF StartStep
<1>2. CASE PublishPrefix
  <2>1. sharedPrefix' \in SUBSET Prefix
    BY <1>2, StepType DEF PublishPrefix
  <2> QED
    BY <1>2, <2>1 DEF PublishPrefix
<1>3. CASE PublishCancel
  BY <1>3 DEF PublishCancel
<1>4. CASE CancelBeforeStep
  <2>1. /\ pending' \in SUBSET Frame /\ overwritten' \in SUBSET Prefix
        /\ cancelPrefix' \in SUBSET Prefix /\ sharedPrefix' \in SUBSET Prefix
    BY <1>4, ShelveType DEF CancelBeforeStep, Withdraw
  <2> QED
    BY <1>4, <2>1 DEF CancelBeforeStep, Shelve, Withdraw
<1>5. CASE SubAgentEnds
  <2>1. task' \in [state : States, child : SUBSET Nat]
    <3>1. PICK state \in Outcomes \ {"Error"},
               child \in {{}} \cup {{n} : n \in ChildLens} :
            task' = [state |-> state, child |-> child]
      BY <1>5 DEF SubAgentEnds
    <3>2. state \in States
      BY RunAssumption DEF States
    <3>3. child \in SUBSET Nat
      BY RunAssumption
    <3> QED
      BY <3>1, <3>2, <3>3
  <2> QED
    BY <1>5, <2>1 DEF SubAgentEnds
<1>6. CASE SubAgentCancelled
  <2>1. task' \in [state : States, child : SUBSET Nat]
    BY <1>6 DEF SubAgentCancelled, States
  <2> QED
    BY <1>6, <2>1 DEF SubAgentCancelled
<1>7. CASE SubAgentErrs
  BY <1>7 DEF SubAgentErrs
<1>8. CASE ClearCancel
  BY <1>8 DEF ClearCancel
<1>9. CASE ClearPrefix
  BY <1>9 DEF ClearPrefix
<1>10. CASE CancelAfterStep
  <2>1. pending' \in SUBSET Frame /\ overwritten' \in SUBSET Prefix
    BY <1>10, ShelveType DEF CancelAfterStep
  <2>2. cancelPrefix' \in SUBSET Prefix
    BY <1>10 DEF CancelAfterStep
  <2> QED
    BY <1>10, <2>1, <2>2 DEF CancelAfterStep, Shelve
<1> QED
  BY <1>1, <1>2, <1>3, <1>4, <1>5, <1>6, <1>7, <1>8, <1>9, <1>10

(* And so does the decision on a step, which builds the next stack.        *)
LEMMA SettleTypeOK ==
  ASSUME TypeOK,
         \/ SplitStep \/ FailStep \/ CompleteStep \/ RetryStep
         \/ RetrySummary \/ RejectStep \/ SettleErrs
  PROVE  TypeOK'
<1> DEFINE p == Step(cur)
<1>0. p \in Prefix /\ Advance(cur) \in Frame
  BY StepType, AdvanceType DEF TypeOK
<1>a. task.child \in SUBSET Nat /\ cur \in Frame /\ stack \in Seq(Frame)
  BY DEF TypeOK
<1>b. ASSUME NEW n \in task.child, NEW below \in Seq(Frame)
      PROVE  ChildOnTop(n, below) \in Seq(Frame)
  BY <1>0, <1>a, <1>b, ChildType, PushType DEF ChildOnTop
<1>c. Rest \in Seq(Frame)
  BY <1>0, <1>a, PushType DEF Rest
<1> USE DEF TypeOK, walkVars, loopVars, cancelVars, lastVars, handleVars,
    controlVars, specHistory, stopHistory, Settling, Summarizing
<1>1. CASE SplitStep
  <2>1. PICK n \in task.child :
          stack' = ChildOnTop(n, Push(cur, stack)) /\ Open(p, n)
    BY <1>1 DEF SplitStep
  <2>2. stack' \in Seq(Frame)
    BY <1>a, <1>b, <2>1, PushType
  <2>3. /\ opened' \in SUBSET [prefix : Prefix, len : Nat]
        /\ cut' \in SUBSET Prefix /\ overwritten' = overwritten
    BY <1>0, <1>a, <2>1, OpenType
  <2>4. done' \in SUBSET Prefix /\ failed' \in SUBSET Prefix
    BY <1>1, FreshType DEF SplitStep
  <2> QED
    BY <1>1, <2>2, <2>3, <2>4 DEF SplitStep
<1>2. CASE FailStep
  <2>1. stack' \in Seq(Frame) /\ failed' \in SUBSET Prefix
    BY <1>0, <1>2, <1>a, PushType DEF FailStep
  <2> QED
    BY <1>2, <2>1 DEF FailStep
<1>3. CASE CompleteStep
  <2>1. lastVerification' \in SUBSET Prefix /\ lastSummary' \in SUBSET Prefix
    BY <1>0, <1>3 DEF CompleteStep, Judging
  <2>2. CASE stack' = Rest /\ done' = done \cup {p}
             /\ UNCHANGED <<failed, specHistory>>
    <3>1. stack' \in Seq(Frame) /\ done' \in SUBSET Prefix
      BY <1>0, <1>c, <2>2
    <3> QED
      BY <1>3, <2>1, <2>2, <3>1 DEF CompleteStep, Judging
  <2>3. ASSUME NEW n \in task.child, stack' = ChildOnTop(n, Rest),
               done' = Fresh(p, done) \cup {p}, failed' = Fresh(p, failed),
               Open(p, n)
        PROVE  TypeOK'
    <3>1. stack' \in Seq(Frame)
      BY <1>b, <1>c, <2>3
    <3>2. /\ opened' \in SUBSET [prefix : Prefix, len : Nat]
          /\ cut' \in SUBSET Prefix /\ overwritten' = overwritten
      BY <1>0, <1>a, <2>3, OpenType
    <3>3. done' \in SUBSET Prefix /\ failed' \in SUBSET Prefix
      BY <1>0, <2>3, FreshType
    <3> QED
      BY <1>3, <2>1, <3>1, <3>2, <3>3 DEF CompleteStep, Judging
  <2> QED
    BY <1>3, <2>2, <2>3 DEF CompleteStep
<1>4. CASE RetryStep
  <2>1. stack' \in Seq(Frame) /\ lastVerification' \in SUBSET Prefix
    BY <1>0, <1>4, <1>a, PushType DEF RetryStep, Judging
  <2> QED
    BY <1>4, <2>1 DEF RetryStep, Judging
<1>5. CASE RetrySummary
  <2>1. stack' \in Seq(Frame)
    BY <1>5, <1>a, PushType DEF RetrySummary
  <2> QED
    BY <1>5, <2>1 DEF RetrySummary
<1>6. CASE RejectStep
  <2>1. lastVerification' \in SUBSET Prefix /\ lastSummary' \in SUBSET Prefix
    BY <1>0, <1>6 DEF RejectStep, Judging
  <2>2. failed' \in SUBSET Prefix /\ cut' \in SUBSET Prefix
    BY <1>0, <1>6 DEF RejectStep, Frame
  <2> QED
    BY <1>6, <2>1, <2>2 DEF RejectStep, Judging
<1>7. CASE SettleErrs
  BY <1>7 DEF SettleErrs
<1> QED
  BY <1>1, <1>2, <1>3, <1>4, <1>5, <1>6, <1>7

(* Every variable has its type in every state of every run.                *)
THEOREM TypeCorrect == Spec => []TypeOK
<1>1. Init => TypeOK
  <2> SUFFICES ASSUME Init PROVE TypeOK
    OBVIOUS
  <2>1. <<>> \in Prefix
    BY DEF Prefix
  <2>2. Root \in Frame /\ [prefix |-> <<>>, len |-> RootLen]
                            \in [prefix : Prefix, len : Nat]
    BY <2>1, RunAssumption DEF Root, Frame
  <2>3. stack \in Seq(Frame) /\ cur \in Frame
    BY <2>2 DEF Init
  <2>4. task \in [state : States, child : SUBSET Nat]
    BY DEF Init, States
  <2>5. control \in [at : {"idle", "match", "signal", "send"},
                     cmd : SUBSET Command]
    BY DEF Init
  <2>6. opened \in SUBSET [prefix : Prefix, len : Nat]
    BY <2>2 DEF Init
  <2>7. batch \in Seq(Command) /\ commands \in Seq(Command)
    BY DEF Init
  <2>8. /\ pending = {} /\ cancelPrefix = {} /\ sharedPrefix = {}
        /\ lastSummary = {} /\ lastVerification = {} /\ done = {}
        /\ failed = {} /\ signal = {} /\ cut = {} /\ overwritten = {}
    BY DEF Init
  <2>9. /\ paused \in BOOLEAN /\ sharedCancel \in BOOLEAN
        /\ aborting \in BOOLEAN /\ pausing \in BOOLEAN
    BY Zenon DEF Init
  <2>10. /\ calls \in Nat /\ lateStarts \in 0..2 /\ pausedStarts \in 0..2
         /\ pc = "pop" /\ site = "top"
    BY DEF Init
  <2> QED
    BY <2>3, <2>4, <2>5, <2>6, <2>7, <2>8, <2>9, <2>10 DEF TypeOK
<1>2. TypeOK /\ [Next]_vars => TypeOK'
  <2> SUFFICES ASSUME TypeOK, [Next]_vars PROVE TypeOK'
    OBVIOUS
  <2>1. CASE Operator \/ Calling
    BY <2>1, OperatorTypeOK
  <2>2. CASE RunLoop
    BY <2>2, LoopTypeOK, ExecuteTypeOK, SettleTypeOK DEF RunLoop
  <2>3. CASE UNCHANGED vars
    BY <2>3 DEF TypeOK, vars, walkVars, loopVars, cancelVars, lastVars,
       handleVars, controlVars, specHistory, stopHistory
  <2> QED
    BY <2>1, <2>2, <2>3 DEF Next, Terminated
<1> QED
  BY <1>1, <1>2, PTL DEF Spec

-----------------------------------------------------------------------------
(* HandlesIdle says when the shared prefix and handle are published; it is  *)
(* inductive once the window of the prefix is told from the shorter one of  *)
(* the handle.                                                              *)
HandleInv ==
    /\ sharedCancel => pc \in {"armed", "run", "clear", "error"}
    /\ sharedCancel \/ pc \in {"publishCancel", "armed", "run", "clear"} =>
         sharedPrefix = {Step(cur)}
    /\ pc \in {"poll", "handle", "paused", "settle", "pop"} =>
         sharedPrefix = {}

(* A cancel handle another task can reach is that of the step in hand, and  *)
(* no command is handled while there is one.                                *)
THEOREM HandlesIdleCorrect == Spec => []HandlesIdle
<1> USE DEF walkVars, loopVars, cancelVars, lastVars, handleVars,
    controlVars, specHistory, stopHistory
<1>1. Init => HandleInv
  BY DEF Init, HandleInv
<1>2. HandleInv /\ [Next]_vars => HandleInv'
  <2> SUFFICES ASSUME HandleInv, [Next]_vars PROVE HandleInv'
    OBVIOUS
  <2> USE DEF HandleInv, Step, Handling, Settling
  <2>1. CASE Operator \/ Calling
    <3>1. UNCHANGED <<cur, pc, sharedPrefix, sharedCancel>>
      BY <2>1 DEF Operator, Calling, Call, MatchPrefix, SignalCancel,
         SendCommand
    <3> QED
      BY <3>1
  <2>2. CASE \/ Pop \/ Complete \/ Drain \/ Handled \/ StayPaused
             \/ SkipFinished \/ StartStep
    BY <2>2 DEF Pop, Complete, Drain, Handled, StayPaused, SkipFinished,
       StartStep
  <2>3. CASE HandleCommand
    <3>1. /\ pc = "handle" /\ pc' \in {"handle", "aborted"}
          /\ sharedPrefix' = sharedPrefix
          /\ sharedCancel' => sharedCancel
      <4>1. CASE HandleCancelStep
        BY <4>1, Zenon DEF HandleCancelStep
      <4>2. CASE HandleAbort
        BY <4>2 DEF HandleAbort
      <4>3. CASE HandlePause \/ HandleResume \/ HandleRerun
        BY <4>3 DEF HandlePause, HandleResume, HandleRerun
      <4>4. CASE HandleInjectSplit \/ HandleResumeStep
        BY <4>4 DEF HandleInjectSplit, HandleResumeStep
      <4> QED
        BY <2>3, <4>1, <4>2, <4>3, <4>4 DEF HandleCommand
    <3> QED
      BY <3>1
  <2>4. CASE PublishPrefix \/ PublishCancel
    BY <2>4 DEF PublishPrefix, PublishCancel
  <2>5. CASE CancelBeforeStep
    BY <2>5 DEF CancelBeforeStep, Shelve, Withdraw
  <2>6. CASE Execute \/ SubAgentEnds \/ SubAgentCancelled \/ SubAgentErrs
    BY <2>6 DEF Execute, SubAgentEnds, SubAgentCancelled, SubAgentErrs
  <2>7. CASE ClearCancel \/ ClearPrefix
    BY <2>7 DEF ClearCancel, ClearPrefix
  <2>8. CASE \/ CancelAfterStep \/ SplitStep \/ FailStep \/ CompleteStep
             \/ RetryStep \/ RetrySummary \/ RejectStep
    <3>1. /\ pc = "settle" /\ pc' = "pop"
          /\ UNCHANGED <<sharedPrefix, sharedCancel>>
      BY <2>8 DEF CancelAfterStep, Shelve, SplitStep, FailStep, CompleteStep,
         RetryStep, RetrySummary, RejectStep, Judging, Summarizing
    <3> QED
      BY <3>1
  <2>9. CASE SettleErrs
    BY <2>9 DEF SettleErrs
  <2>10. CASE UNCHANGED vars
    BY <2>10 DEF vars
  <2> QED
    BY <2>1, <2>2, <2>3, <2>4, <2>5, <2>6, <2>7, <2>8, <2>9,
       <2>10 DEF Next, RunLoop, Terminated
<1>3. HandleInv => HandlesIdle
  BY DEF HandleInv, HandlesIdle
<1> QED
  BY <1>1, <1>2, <1>3, PTL DEF Spec

-----------------------------------------------------------------------------
HasAbort(q) == \E i \in DOMAIN q : q[i].kind = "Abort"

(* The queue operations keep an Abort, except one that takes it.            *)
LEMMA AppendAbort ==
  ASSUME NEW q \in Seq(Command), NEW c \in Command
  PROVE  /\ HasAbort(q) => HasAbort(Append(q, c))
         /\ c.kind = "Abort" => HasAbort(Append(q, c))
<1>1. HasAbort(q) => HasAbort(Append(q, c))
  BY DEF HasAbort
<1>2. Append(q, c)[Len(q) + 1] = c /\ Len(q) + 1 \in DOMAIN Append(q, c)
  OBVIOUS
<1> QED
  BY <1>1, <1>2 DEF HasAbort

LEMMA TailAbort ==
  ASSUME NEW q \in Seq(Command), q # <<>>, Head(q).kind # "Abort", HasAbort(q)
  PROVE  HasAbort(Tail(q))
<1>1. PICK i \in DOMAIN q : q[i].kind = "Abort"
  BY DEF HasAbort
<1>2. i \in 1..Len(q) /\ i # 1
  BY <1>1
<1>3. i - 1 \in DOMAIN Tail(q) /\ Tail(q)[i - 1] = q[i]
  BY <1>2
<1> QED
  BY <1>1, <1>3 DEF HasAbort

(* abort() has returned: unless the run is over its Abort is still to be    *)
(* handled, and a step that slipped in leaves no way to another start       *)
(* except through the drain that finds it.                                  *)
AbortInv ==
    /\ aborting => Ended \/ HasAbort(commands) \/ HasAbort(batch)
    /\ pc \notin {"handle", "aborted"} => batch = <<>>
    /\ lateStarts > 0 => aborting
    /\ lateStarts <= 1
    /\ lateStarts = 1 => /\ pc \notin {"paused", "settle"}
                         /\ pc = "handle" => HasAbort(batch)

(* The calls of the operator put an Abort on the channel and take none.     *)
LEMMA OperatorAbort ==
  ASSUME TypeOK, AbortInv, Operator \/ Calling
  PROVE  AbortInv'
<1> USE OperatorAssumption DEF AbortInv, Ended, walkVars, loopVars,
    cancelVars, lastVars, handleVars, specHistory, stopHistory
<1>1. ASSUME NEW c \in Requests, Call(c) PROVE AbortInv'
  BY <1>1 DEF Call, HasAbort
<1>2. ASSUME NEW c \in control.cmd, MatchPrefix(c) \/ SignalCancel(c)
      PROVE  AbortInv'
  BY <1>2 DEF MatchPrefix, SignalCancel, HasAbort
<1>3. ASSUME NEW c \in control.cmd, SendCommand(c) PROVE AbortInv'
  <2>1. c \in Command /\ commands \in Seq(Command)
    BY DEF TypeOK
  <2>2. UNCHANGED <<pc, batch, lateStarts>>
    BY <1>3 DEF SendCommand
  <2>3. UNCHANGED HasAbort(batch)
    BY <2>2 DEF HasAbort
  <2>4. /\ Ended => Ended'
        /\ aborting => aborting'
    BY <1>3, <2>2 DEF SendCommand
  <2>5. aborting' => Ended' \/ HasAbort(commands') \/ HasAbort(batch')
    <3>1. CASE Ended
      BY <2>4, <3>1
    <3>2. CASE ~Ended
      <4>1. commands' = Append(commands, c)
        BY <1>3, <3>2 DEF SendCommand
      <4>2. aborting' => aborting \/ c.kind = "Abort"
        BY <1>3 DEF SendCommand
      <4> QED
        BY <2>1, <2>2, <3>2, <4>1, <4>2, AppendAbort
    <3> QED
      BY <3>1, <3>2
  <2> QED
    BY <2>2, <2>3, <2>4, <2>5
<1> QED
  BY <1>1, <1>2, <1>3 DEF Operator, Calling

(* process_commands handles a batch in order: it returns with the batch     *)
(* empty, or ends the run at the first Abort.                               *)
LEMMA HandleAbortInv ==
  ASSUME TypeOK, AbortInv, HandleCommand \/ Drain \/ Handled
  PROVE  AbortInv'
<1> USE DEF Ended, walkVars, loopVars, cancelVars, lastVars, handleVars,
    controlVars, specHistory, stopHistory
<1>1. CASE Drain
  <2>1. batch = <<>> /\ ~HasAbort(batch) /\ ~Ended
    BY <1>1 DEF Drain, AbortInv, HasAbort
  <2>2. batch' = commands /\ pc' = "handle" /\ UNCHANGED <<aborting, lateStarts>>
    BY <1>1 DEF Drain
  <2>3. aborting => HasAbort(batch')
    BY <2>1, <2>2 DEF AbortInv
  <2> QED
    BY <2>2, <2>3 DEF AbortInv, TypeOK
<1>2. CASE Handled
  <2>1. /\ pc = "handle" /\ batch = <<>> /\ ~HasAbort(batch)
        /\ UNCHANGED <<batch, commands, aborting, lateStarts>>
    BY <1>2 DEF Handled, HasAbort
  <2>2. lateStarts # 1
    BY <2>1 DEF AbortInv
  <2> QED
    BY <2>1, <2>2 DEF AbortInv, HasAbort
<1>3. CASE HandleAbort
  <2>1. /\ pc' = "aborted" /\ UNCHANGED <<aborting, lateStarts>>
    BY <1>3 DEF HandleAbort
  <2> QED
    BY <2>1 DEF AbortInv
<1>4. CASE \/ HandlePause \/ HandleResume \/ HandleRerun \/ HandleInjectSplit
           \/ HandleCancelStep \/ HandleResumeStep
  <2>1. /\ pc = "handle" /\ batch # <<>> /\ Head(batch).kind # "Abort"
        /\ batch' = Tail(batch)
        /\ UNCHANGED <<pc, commands, aborting, lateStarts>>
    BY <1>4 DEF Handling, HandlePause, HandleResume, HandleRerun,
       HandleInjectSplit, HandleCancelStep, HandleResumeStep
  <2>2. HasAbort(batch) => HasAbort(batch')
    BY <2>1, TailAbort DEF TypeOK
  <2>3. UNCHANGED HasAbort(commands)
    BY <2>1 DEF HasAbort
  <2> QED
    BY <2>1, <2>2, <2>3 DEF AbortInv
<1> QED
  BY <1>1, <1>2, <1>3, <1>4 DEF HandleCommand

(* The rest of the loop touches neither queue; from the start of a step it  *)
(* comes back to the pause flag only through a drain.                       *)
LEMMA LoopAbortInv ==
  ASSUME TypeOK, AbortInv,
         \/ Pop \/ Complete \/ StayPaused \/ SkipFinished \/ StartStep
         \/ PublishPrefix \/ PublishCancel \/ CancelBeforeStep \/ Execute
         \/ SubAgentEnds \/ SubAgentCancelled \/ SubAgentErrs \/ ClearCancel
         \/ ClearPrefix \/ CancelAfterStep \/ SplitStep \/ FailStep
         \/ CompleteStep \/ RetryStep \/ RetrySummary \/ RejectStep
         \/ SettleErrs
  PROVE  AbortInv'
<1> USE DEF Ended, walkVars, loopVars, cancelVars, lastVars, handleVars,
    controlVars, specHistory, stopHistory
<1>1. /\ ~Ended /\ pc \notin {"poll", "handle"}
      /\ pc' \notin {"handle", "aborted", "settle"}
      /\ UNCHANGED <<batch, commands, aborting>>
  <2>1. CASE \/ Pop \/ Complete \/ StayPaused \/ SkipFinished \/ StartStep
             \/ PublishPrefix \/ PublishCancel \/ CancelBeforeStep \/ Execute
             \/ SubAgentEnds \/ SubAgentCancelled \/ SubAgentErrs
             \/ ClearCancel \/ ClearPrefix
    BY <2>1 DEF Pop, Complete, StayPaused, SkipFinished, StartStep,
       PublishPrefix, PublishCancel, CancelBeforeStep, Shelve, Execute,
       SubAgentEnds, SubAgentCancelled, SubAgentErrs, ClearCancel, ClearPrefix
  <2>2. CASE \/ CancelAfterStep \/ SplitStep \/ FailStep \/ CompleteStep
             \/ RetryStep \/ RetrySummary \/ RejectStep \/ SettleErrs
    BY <2>2 DEF CancelAfterStep, Shelve, Settling, SplitStep, FailStep,
       CompleteStep, RetryStep, RetrySummary, RejectStep, SettleErrs, Judging,
       Summarizing
  <2> QED
    BY <2>1, <2>2
<1>2. batch' = batch /\ batch = <<>>
  BY <1>1 DEF AbortInv
<1>3. UNCHANGED <<HasAbort(commands), HasAbort(batch)>>
  BY <1>1 DEF HasAbort
<1>4. CASE StartStep
  <2>1. pc = "paused" /\ pc' = "publish" /\ lateStarts = 0
    BY <1>4 DEF StartStep, AbortInv, TypeOK
  <2>2. lateStarts' \in {0, 1} /\ (lateStarts' = 1 => aborting)
    BY <1>4, <2>1 DEF StartStep, UpTo2
  <2> QED
    BY <1>1, <1>2, <1>3, <2>1, <2>2 DEF AbortInv
<1>5. CASE ~StartStep
  <2>1. lateStarts' = lateStarts /\ pc' # "paused"
    <3>1. CASE \/ Pop \/ Complete \/ StayPaused \/ SkipFinished
               \/ PublishPrefix \/ PublishCancel \/ CancelBeforeStep \/ Execute
               \/ SubAgentEnds \/ SubAgentCancelled \/ SubAgentErrs
               \/ ClearCancel \/ ClearPrefix
      BY <3>1 DEF Pop, Complete, StayPaused, SkipFinished, PublishPrefix,
         PublishCancel, CancelBeforeStep, Shelve, Execute, SubAgentEnds,
         SubAgentCancelled, SubAgentErrs, ClearCancel, ClearPrefix
    <3>2. CASE \/ CancelAfterStep \/ SplitStep \/ FailStep \/ CompleteStep
               \/ RetryStep \/ RetrySummary \/ RejectStep \/ SettleErrs
      BY <3>2 DEF CancelAfterStep, Shelve, Settling, SplitStep, FailStep,
         CompleteStep, RetryStep, RetrySummary, RejectStep, SettleErrs,
         Judging, Summarizing
    <3> QED
      BY <1>5, <3>1, <3>2
  <2> QED
    BY <1>1, <1>2, <1>3, <2>1 DEF AbortInv
<1> QED
  BY <1>4, <1>5

(* After abort() has returned at most one step is started, however many     *)
(* calls the operator makes and whatever the plan.                          *)
THEOREM AbortStopsRunCorrect == Spec => []AbortStopsRun
<1>1. Init => AbortInv
  BY DEF Init, AbortInv
<1>2. TypeOK /\ AbortInv /\ [Next]_vars => AbortInv'
  <2> SUFFICES ASSUME TypeOK, AbortInv, [Next]_vars PROVE AbortInv'
    OBVIOUS
  <2>1. CASE Operator \/ Calling
    BY <2>1, OperatorAbort
  <2>2. CASE RunLoop
    BY <2>2, HandleAbortInv, LoopAbortInv DEF RunLoop
  <2>3. CASE UNCHANGED vars
    BY <2>3 DEF AbortInv, HasAbort, Ended, vars, loopVars, stopHistory
  <2> QED
    BY <2>1, <2>2, <2>3 DEF Next, Terminated
<1>3. AbortInv => AbortStopsRun
  BY DEF AbortInv, AbortStopsRun
<1> QED
  BY <1>1, <1>2, <1>3, TypeCorrect, PTL DEF Spec
-----------------------------------------------------------------------------
(* Of the commands in a queue, the last that stores the pause flag decides. *)
Lifts(c)     == c.kind \in {"Resume", "ResumeStep"}
NoLift(q)    == \A i \in DOMAIN q : ~Lifts(q[i])
PauseLast(q) == \E i \in DOMAIN q : /\ q[i].kind = "Pause"
                                    /\ \A j \in DOMAIN q : j > i => ~Lifts(q[j])

LEMMA AppendPause ==
  ASSUME NEW q \in Seq(Command), NEW c \in Command
  PROVE  /\ ~Lifts(c) /\ NoLift(q) => NoLift(Append(q, c))
         /\ ~Lifts(c) /\ PauseLast(q) => PauseLast(Append(q, c))
         /\ c.kind = "Pause" => PauseLast(Append(q, c))
<1> DEFINE r == Append(q, c)
<1>1. /\ Len(q) \in Nat /\ DOMAIN q = 1..Len(q)
      /\ DOMAIN r = 1..(Len(q) + 1) /\ r[Len(q) + 1] = c
      /\ \A i \in DOMAIN q : i \in DOMAIN r /\ r[i] = q[i]
  OBVIOUS
<1>2. \A i \in DOMAIN r : i \in DOMAIN q \/ i = Len(q) + 1
  BY <1>1
<1> HIDE DEF r
<1>3. ~Lifts(c) /\ NoLift(q) => NoLift(r)
  BY <1>1, <1>2 DEF NoLift
<1>4. ASSUME ~Lifts(c), PauseLast(q) PROVE PauseLast(r)
  <2>1. PICK i \in DOMAIN q : /\ q[i].kind = "Pause"
                              /\ \A j \in DOMAIN q : j > i => ~Lifts(q[j])
    BY <1>4 DEF PauseLast
  <2>2. i \in DOMAIN r /\ r[i].kind = "Pause"
    BY <1>1, <2>1
  <2>3. \A j \in DOMAIN r : j > i => ~Lifts(r[j])
    BY <1>1, <1>2, <1>4, <2>1
  <2> QED
    BY <2>2, <2>3 DEF PauseLast
<1>5. ASSUME c.kind = "Pause" PROVE PauseLast(r)
  <2>1. Len(q) + 1 \in DOMAIN r /\ r[Len(q) + 1].kind = "Pause"
    BY <1>1, <1>5
  <2>2. \A j \in DOMAIN r : ~(j > Len(q) + 1)
    BY <1>1
  <2> QED
    BY <2>1, <2>2 DEF PauseLast
<1> QED
  BY <1>3, <1>4, <1>5 DEF r

LEMMA TailPause ==
  ASSUME NEW q \in Seq(Command), q # <<>>
  PROVE  /\ NoLift(q) => NoLift(Tail(q)) /\ ~Lifts(Head(q))
         /\ PauseLast(q) => \/ PauseLast(Tail(q))
                            \/ Head(q).kind = "Pause" /\ NoLift(Tail(q))
<1> DEFINE r == Tail(q)
<1>1. /\ Len(q) \in Nat \ {0} /\ DOMAIN q = 1..Len(q)
      /\ DOMAIN r = 1..(Len(q) - 1) /\ Head(q) = q[1]
      /\ \A i \in DOMAIN r : r[i] = q[i + 1]
  OBVIOUS
<1>2. \A i \in DOMAIN r : i + 1 \in DOMAIN q /\ i + 1 > 1
  BY <1>1
<1> HIDE DEF r
<1>3. NoLift(q) => NoLift(r) /\ ~Lifts(Head(q))
  BY <1>1, <1>2 DEF NoLift
<1>4. ASSUME PauseLast(q)
      PROVE  PauseLast(r) \/ (Head(q).kind = "Pause" /\ NoLift(r))
  <2>1. PICK i \in DOMAIN q : /\ q[i].kind = "Pause"
                              /\ \A j \in DOMAIN q : j > i => ~Lifts(q[j])
    BY <1>4 DEF PauseLast
  <2>2. CASE i = 1
    <3>1. \A j \in DOMAIN r : ~Lifts(r[j])
      BY <1>1, <1>2, <2>1, <2>2
    <3> QED
      BY <1>1, <2>1, <2>2, <3>1 DEF NoLift
  <2>3. CASE i # 1
    <3>1. i - 1 \in DOMAIN r /\ (i - 1) + 1 = i
      BY <1>1, <2>1, <2>3
    <3>2. r[i - 1].kind = "Pause"
      BY <1>1, <2>1, <3>1
    <3>3. \A j \in DOMAIN r : j > i - 1 => ~Lifts(r[j])
      <4> TAKE j \in DOMAIN r
      <4> HAVE j > i - 1
      <4>1. j + 1 > i
        BY <1>1, <2>1, <3>1
      <4> QED
        BY <1>1, <1>2, <2>1, <4>1
    <3> QED
      BY <3>1, <3>2, <3>3 DEF PauseLast
  <2> QED
    BY <2>2, <2>3
<1> QED
  BY <1>3, <1>4 DEF r

(* The flag will be up once the drained batch is handled; or, at the        *)
(* latest, once what is in the channel is.                                  *)
PausedNext  == NoLift(commands) /\ (PauseLast(batch) \/ (NoLift(batch) /\ paused))
PausedAfter == PauseLast(commands) \/ PausedNext

(* pause() has returned and nothing was resumed since: a Resume that was    *)
(* still on its way is followed by the Pause, so the flag it takes down     *)
(* goes up again.  The one step that may start in between leaves no way to  *)
(* another except through the drain that finds the Pause.                   *)
PauseInv ==
    /\ \A c \in control.cmd : Lifts(c) => ~pausing
    /\ pausing => Ended \/ PausedAfter
    /\ pc \notin {"handle", "aborted"} => batch = <<>>
    /\ pausedStarts <= 1
    /\ pausing /\ pausedStarts = 1 /\ pc \in {"handle", "paused"} => PausedNext

LEMMA OperatorPause ==
  ASSUME TypeOK, PauseInv, Operator \/ Calling
  PROVE  PauseInv'
<1> USE OperatorAssumption DEF Ended, walkVars, loopVars, cancelVars,
    lastVars, handleVars, specHistory, stopHistory
<1>1. ASSUME NEW c \in Requests, Call(c) PROVE PauseInv'
  <2>1. /\ control'.cmd = {c}
        /\ UNCHANGED <<pc, batch, commands, pausedStarts>>
        /\ pausing' = (pausing /\ ~Lifts(c))
        /\ paused' = (c.kind = "Pause" \/ (paused /\ c.kind # "Resume"))
    BY <1>1, Zenon DEF Call, Lifts
  <2>2. pausing' => pausing /\ (paused => paused')
    BY <2>1, Zenon DEF Lifts
  <2>3. UNCHANGED <<PauseLast(commands), NoLift(commands), PauseLast(batch),
                    NoLift(batch)>>
    BY <2>1 DEF PauseLast, NoLift
  <2> QED
    BY <2>1, <2>2, <2>3 DEF PauseInv, PausedNext, PausedAfter
<1>2. ASSUME NEW c \in control.cmd, MatchPrefix(c) \/ SignalCancel(c)
      PROVE  PauseInv'
  <2>1. /\ control'.cmd = control.cmd
        /\ UNCHANGED <<pc, batch, commands, paused, pausing, pausedStarts>>
    BY <1>2 DEF MatchPrefix, SignalCancel, TypeOK
  <2>2. UNCHANGED <<PauseLast(commands), NoLift(commands), PauseLast(batch),
                    NoLift(batch)>>
    BY <2>1 DEF PauseLast, NoLift
  <2> QED
    BY <2>1, <2>2 DEF PauseInv, PausedNext, PausedAfter
<1>3. ASSUME NEW c \in control.cmd, SendCommand(c) PROVE PauseInv'
  <2>1. /\ control'.cmd = {} /\ UNCHANGED <<pc, batch, paused>>
        /\ commands' = IF Ended THEN commands ELSE Append(commands, c)
        /\ pausing' = (pausing \/ c.kind = "Pause")
        /\ pausedStarts' = IF c.kind = "Pause" THEN 0 ELSE pausedStarts
    BY <1>3, Zenon DEF SendCommand
  <2>2. UNCHANGED <<PauseLast(batch), NoLift(batch)>>
    BY <2>1 DEF PauseLast, NoLift
  <2>3. /\ pausing' => ~Lifts(c)
        /\ pausing' => pausing \/ c.kind = "Pause"
    BY <2>1 DEF PauseInv, Lifts
  <2>4. CASE Ended
    BY <2>1, <2>4 DEF PauseInv
  <2>5. CASE ~Ended
    <3>1. c \in Command /\ commands \in Seq(Command)
      BY DEF TypeOK
    <3>2. commands' = Append(commands, c)
      BY <2>1, <2>5
    <3>3. CASE c.kind = "Pause"
      <4>1. PauseLast(commands')
        BY <3>1, <3>2, <3>3, AppendPause
      <4> QED
        BY <2>1, <3>3, <4>1 DEF PauseInv, PausedAfter
    <3>4. CASE c.kind # "Pause"
      <4>1. /\ pausing' = pausing /\ pausedStarts' = pausedStarts
        BY <2>1, <3>4 DEF TypeOK
      <4>2. /\ pausing' /\ NoLift(commands) => NoLift(commands')
            /\ pausing' /\ PauseLast(commands) => PauseLast(commands')
        BY <2>3, <3>1, <3>2, AppendPause
      <4> QED
        BY <2>1, <2>2, <4>1, <4>2 DEF PauseInv, PausedNext, PausedAfter
    <3> QED
      BY <3>3, <3>4
  <2> QED
    BY <2>4, <2>5
<1> QED
  BY <1>1, <1>2, <1>3 DEF Operator, Calling

(* process_commands ends with the flag as the last command of the batch     *)
(* that stores it left it.                                                  *)
LEMMA HandlePauseInv ==
  ASSUME TypeOK, PauseInv, HandleCommand \/ Drain \/ Handled
  PROVE  PauseInv'
<1> USE DEF Ended, walkVars, loopVars, cancelVars, lastVars, handleVars,
    controlVars, specHistory, stopHistory
<1>1. CASE Drain
  <2>1. /\ batch = <<>> /\ ~Ended /\ batch' = commands /\ commands' = <<>>
        /\ pc' = "handle" /\ UNCHANGED <<control, paused, pausing, pausedStarts>>
    BY <1>1 DEF Drain, PauseInv
  <2>2. /\ ~PauseLast(batch) /\ NoLift(commands')
        /\ PauseLast(commands) = PauseLast(batch')
        /\ NoLift(commands) = NoLift(batch')
    BY <2>1 DEF PauseLast, NoLift
  <2>3. pausing => PausedNext'
    BY <2>1, <2>2 DEF PauseInv, PausedNext, PausedAfter
  <2> QED
    BY <2>1, <2>3 DEF PauseInv, PausedAfter
<1>2. CASE Handled
  <2>1. /\ pc = "handle" /\ batch = <<>>
        /\ UNCHANGED <<batch, commands, control, paused, pausing, pausedStarts>>
        /\ pc' \in {"settle", "paused"}
    BY <1>2 DEF Handled
  <2>2. UNCHANGED <<PauseLast(commands), NoLift(commands), PauseLast(batch),
                    NoLift(batch)>>
    BY <2>1 DEF PauseLast, NoLift
  <2> QED
    BY <2>1, <2>2 DEF PauseInv, PausedNext, PausedAfter
<1>3. CASE HandleAbort
  <2>1. pc' = "aborted" /\ UNCHANGED <<control, pausing, pausedStarts>>
    BY <1>3 DEF HandleAbort
  <2> QED
    BY <2>1 DEF PauseInv
<1>4. CASE \/ HandlePause \/ HandleResume \/ HandleRerun \/ HandleInjectSplit
           \/ HandleCancelStep \/ HandleResumeStep
  <2>1. /\ pc = "handle" /\ batch # <<>> /\ batch' = Tail(batch)
        /\ UNCHANGED <<pc, commands, control, pausing, pausedStarts>>
        /\ Head(batch).kind = "Pause" => paused'
        /\ ~Lifts(Head(batch)) /\ paused => paused'
    <3>1. /\ pc = "handle" /\ batch # <<>> /\ batch' = Tail(batch)
          /\ UNCHANGED <<pc, commands, control, pausing, pausedStarts>>
      BY <1>4 DEF Handling, HandlePause, HandleResume, HandleRerun,
         HandleInjectSplit, HandleCancelStep, HandleResumeStep
    <3>2. CASE HandlePause
      BY <3>1, <3>2 DEF HandlePause
    <3>3. CASE HandleResume \/ HandleResumeStep
      BY <3>1, <3>3 DEF HandleResume, HandleResumeStep, Handling, Lifts
    <3>4. CASE HandleRerun \/ HandleInjectSplit \/ HandleCancelStep
      <4>1. paused' = paused /\ Head(batch).kind # "Pause"
        BY <3>4 DEF HandleRerun, HandleInjectSplit, HandleCancelStep, Handling
      <4> QED
        BY <3>1, <4>1
    <3> QED
      BY <1>4, <3>2, <3>3, <3>4
  <2>2. UNCHANGED <<PauseLast(commands), NoLift(commands)>>
    BY <2>1 DEF PauseLast, NoLift
  <2>3. /\ NoLift(batch) => NoLift(batch') /\ ~Lifts(Head(batch))
        /\ PauseLast(batch) => \/ PauseLast(batch')
                               \/ Head(batch).kind = "Pause" /\ NoLift(batch')
    BY <2>1, TailPause DEF TypeOK
  <2>4. /\ PausedNext => PausedNext'
        /\ PausedAfter => PausedAfter'
    BY <2>1, <2>2, <2>3 DEF PausedNext, PausedAfter
  <2> QED
    BY <2>1, <2>4 DEF PauseInv
<1> QED
  BY <1>1, <1>2, <1>3, <1>4 DEF HandleCommand

(* The rest of the loop touches neither queue and takes no flag down.       *)
LEMMA LoopPauseInv ==
  ASSUME TypeOK, PauseInv,
         \/ Pop \/ Complete \/ StayPaused \/ SkipFinished \/ StartStep
         \/ PublishPrefix \/ PublishCancel \/ CancelBeforeStep \/ Execute
         \/ SubAgentEnds \/ SubAgentCancelled \/ SubAgentErrs \/ ClearCancel
         \/ ClearPrefix \/ CancelAfterStep \/ SplitStep \/ FailStep
         \/ CompleteStep \/ RetryStep \/ RetrySummary \/ RejectStep
         \/ SettleErrs
  PROVE  PauseInv'
<1> USE DEF Ended, walkVars, loopVars, cancelVars, lastVars, handleVars,
    controlVars, specHistory, stopHistory
<1>1. /\ ~Ended /\ pc # "handle"
      /\ pc' \notin {"handle", "aborted", "paused"}
      /\ UNCHANGED <<batch, commands, control, pausing>>
      /\ paused' = paused \/ paused' = TRUE
  <2>1. CASE \/ Pop \/ Complete \/ StayPaused \/ SkipFinished \/ StartStep
             \/ PublishPrefix \/ PublishCancel \/ CancelBeforeStep \/ Execute
             \/ SubAgentEnds \/ SubAgentCancelled \/ SubAgentErrs
             \/ ClearCancel \/ ClearPrefix
    BY <2>1 DEF Pop, Complete, StayPaused, SkipFinished, StartStep,
       PublishPrefix, PublishCancel, CancelBeforeStep, Shelve, Execute,
       SubAgentEnds, SubAgentCancelled, SubAgentErrs, ClearCancel, ClearPrefix
  <2>2. CASE \/ CancelAfterStep \/ SplitStep \/ FailStep \/ CompleteStep
             \/ RetryStep \/ RetrySummary \/ RejectStep \/ SettleErrs
    BY <2>2 DEF CancelAfterStep, Shelve, Settling, SplitStep, FailStep,
       CompleteStep, RetryStep, RetrySummary, RejectStep, SettleErrs, Judging,
       Summarizing
  <2> QED
    BY <2>1, <2>2
<1>2. batch = <<>>
  BY <1>1 DEF PauseInv
<1>3. UNCHANGED <<PauseLast(commands), NoLift(commands), PauseLast(batch),
                  NoLift(batch)>>
  BY <1>1 DEF PauseLast, NoLift
<1>4. PausedAfter => PausedAfter'
  BY <1>1, <1>3 DEF PausedNext, PausedAfter
<1>5. pausedStarts' <= 1
  <2>1. CASE StartStep
    <3>1. pc = "paused" /\ ~paused
          /\ pausedStarts' = IF pausing THEN UpTo2(pausedStarts)
                             ELSE pausedStarts
      BY <2>1, Zenon DEF StartStep
    <3>2. pausing => pausedStarts # 1
      BY <1>2, <3>1 DEF PauseInv, PausedNext, PauseLast
    <3> QED
      BY <3>1, <3>2 DEF PauseInv, TypeOK, UpTo2
  <2>2. CASE ~StartStep
    <3>1. pausedStarts' = pausedStarts
      <4>1. CASE \/ Pop \/ Complete \/ StayPaused \/ SkipFinished
                 \/ PublishPrefix \/ PublishCancel \/ CancelBeforeStep
                 \/ Execute \/ SubAgentEnds \/ SubAgentCancelled
                 \/ SubAgentErrs \/ ClearCancel \/ ClearPrefix
        BY <4>1 DEF Pop, Complete, StayPaused, SkipFinished, PublishPrefix,
           PublishCancel, CancelBeforeStep, Shelve, Execute, SubAgentEnds,
           SubAgentCancelled, SubAgentErrs, ClearCancel, ClearPrefix
      <4>2. CASE \/ CancelAfterStep \/ SplitStep \/ FailStep \/ CompleteStep
                 \/ RetryStep \/ RetrySummary \/ RejectStep \/ SettleErrs
        BY <4>2 DEF CancelAfterStep, Shelve, Settling, SplitStep, FailStep,
           CompleteStep, RetryStep, RetrySummary, RejectStep, SettleErrs,
           Judging, Summarizing
      <4> QED
        BY <2>2, <4>1, <4>2
    <3> QED
      BY <3>1 DEF PauseInv
  <2> QED
    BY <2>1, <2>2
<1> QED
  BY <1>1, <1>2, <1>4, <1>5 DEF PauseInv

(* After pause() has returned, and until something is resumed, at most one  *)
(* step is started, whatever commands are still on their way.               *)
THEOREM PauseHoldsRunCorrect == Spec => []PauseHoldsRun
<1>1. Init => PauseInv
  BY DEF Init, PauseInv
<1>2. TypeOK /\ PauseInv /\ [Next]_vars => PauseInv'
  <2> SUFFICES ASSUME TypeOK, PauseInv, [Next]_vars PROVE PauseInv'
    OBVIOUS
  <2>1. CASE Operator \/ Calling
    BY <2>1, OperatorPause
  <2>2. CASE RunLoop
    BY <2>2, HandlePauseInv, LoopPauseInv DEF RunLoop
  <2>3. CASE UNCHANGED vars
    BY <2>3 DEF PauseInv, PausedNext, PausedAfter, PauseLast, NoLift, Ended,
       vars, loopVars, controlVars, stopHistory
  <2> QED
    BY <2>1, <2>2, <2>3 DEF Next, Terminated
<1>3. PauseInv => PauseHoldsRun
  BY DEF PauseInv, PauseHoldsRun
<1> QED
  BY <1>1, <1>2, <1>3, TypeCorrect, PTL DEF Spec

-----------------------------------------------------------------------------
(* The walk is depth first: each entry of the stack is that of a spec which *)
(* the one above it is nested in, and so is the uppermost for the entry in  *)
(* hand.                                                                    *)
Chain(s)   == \A i, j \in DOMAIN s : i < j => Below(s[j].prefix, s[i].prefix)
Over(s, p) == \A i \in DOMAIN s : Below(s[i].prefix, p)
Nested     == Chain(stack) /\ (Busy => Over(stack, cur.prefix))

LEMMA FramePrefix ==
  /\ \A f \in Frame : f.prefix \in Prefix
  /\ \A s \in Seq(Frame) : \A i \in DOMAIN s : s[i].prefix \in Prefix
<1>1. \A f \in Frame : f.prefix \in Prefix
  BY DEF Frame
<1>2. ASSUME NEW s \in Seq(Frame), NEW i \in DOMAIN s
      PROVE  s[i].prefix \in Prefix
  <2>1. s[i] \in Frame
    OBVIOUS
  <2> QED
    BY <1>1, <2>1
<1> QED
  BY <1>1, <1>2

LEMMA BelowStep ==
  ASSUME NEW p \in Prefix, NEW f \in Frame, Below(p, f.prefix) \/ p = f.prefix
  PROVE  Below(p, Step(f))
<1> DEFINE q == f.prefix
           r == Step(f)
<1>1. /\ q \in Seq(Nat) /\ p \in Seq(Nat) /\ f.idx \in Nat
  BY DEF Frame, Prefix
<1>2. /\ r \in Seq(Nat) /\ Len(r) = Len(q) + 1
      /\ \A i \in 1..Len(q) : r[i] = q[i]
  BY <1>1 DEF Step
<1>3. Len(p) <= Len(q) /\ SubSeq(q, 1, Len(p)) = p
  BY <1>1 DEF Below
<1>4. \A i \in 1..Len(p) : q[i] = p[i]
  BY <1>1, <1>3
<1> HIDE DEF q, r
<1>5. SubSeq(r, 1, Len(p)) = p
  <2>1. /\ SubSeq(r, 1, Len(p)) \in Seq(Nat)
        /\ Len(SubSeq(r, 1, Len(p))) = Len(p)
        /\ \A i \in 1..Len(p) : SubSeq(r, 1, Len(p))[i] = r[i]
    BY <1>1, <1>2, <1>3
  <2>2. ASSUME NEW i \in 1..Len(p) PROVE SubSeq(r, 1, Len(p))[i] = p[i]
    <3>1. i \in 1..Len(q)
      BY <1>1, <1>3
    <3>2. q[i] = p[i]
      BY <1>4
    <3>3. r[i] = q[i]
      BY <1>2, <3>1
    <3> QED
      BY <2>1, <3>2, <3>3
  <2> QED
    BY <1>1, <2>1, <2>2
<1>6. Len(p) < Len(r)
  BY <1>1, <1>2, <1>3
<1> QED
  BY <1>5, <1>6 DEF Below, r

LEMMA PushChain ==
  ASSUME NEW s \in Seq(Frame), NEW f \in Frame, Chain(s), Over(s, f.prefix)
  PROVE  /\ Chain(Push(f, s))
         /\ \A p : Over(s, p) /\ Below(f.prefix, p) => Over(Push(f, s), p)
<1> DEFINE t == Push(f, s)
<1>1. /\ Len(s) \in Nat /\ DOMAIN s = 1..Len(s)
      /\ DOMAIN t = 1..(Len(s) + 1) /\ t[1] = f
      /\ \A i \in DOMAIN s : t[i + 1] = s[i]
  BY DEF Push
<1>2. \A i \in DOMAIN t : i = 1 \/ (i - 1 \in DOMAIN s /\ t[i] = s[i - 1])
  <2> TAKE i \in DOMAIN t
  <2>1. CASE i = 1
    BY <2>1
  <2>2. CASE i # 1
    <3>1. i - 1 \in DOMAIN s /\ (i - 1) + 1 = i
      BY <1>1, <2>2
    <3> QED
      BY <1>1, <3>1
  <2> QED
    BY <2>1, <2>2
<1> HIDE DEF t
<1>3. ASSUME NEW i \in DOMAIN t, NEW j \in DOMAIN t, i < j
      PROVE  Below(t[j].prefix, t[i].prefix)
  <2>1. j - 1 \in DOMAIN s /\ t[j] = s[j - 1]
    BY <1>1, <1>2, <1>3
  <2>2. CASE i = 1
    BY <1>1, <2>1, <2>2 DEF Over
  <2>3. CASE i # 1
    <3>1. i - 1 \in DOMAIN s /\ t[i] = s[i - 1] /\ i - 1 < j - 1
      BY <1>1, <1>2, <1>3, <2>3
    <3> QED
      BY <2>1, <3>1 DEF Chain
  <2> QED
    BY <2>2, <2>3
<1>4. ASSUME NEW p, Over(s, p), Below(f.prefix, p)
      PROVE  Over(t, p)
  BY <1>1, <1>2, <1>4 DEF Over
<1> QED
  BY <1>3, <1>4 DEF Chain, t

LEMMA TailChain ==
  ASSUME NEW s \in Seq(Frame), s # <<>>, Chain(s)
  PROVE  Chain(Tail(s)) /\ Over(Tail(s), Head(s).prefix)
<1> DEFINE t == Tail(s)
<1>1. /\ Len(s) \in Nat \ {0} /\ DOMAIN s = 1..Len(s)
      /\ DOMAIN t = 1..(Len(s) - 1) /\ Head(s) = s[1]
      /\ \A i \in DOMAIN t : t[i] = s[i + 1]
  OBVIOUS
<1>2. \A i \in DOMAIN t : i + 1 \in DOMAIN s /\ 1 < i + 1
  BY <1>1
<1>3. 1 \in DOMAIN s
  BY <1>1
<1> HIDE DEF t
<1>4. Over(t, Head(s).prefix)
  BY <1>1, <1>2, <1>3 DEF Chain, Over
<1>5. ASSUME NEW i \in DOMAIN t, NEW j \in DOMAIN t, i < j
      PROVE  Below(t[j].prefix, t[i].prefix)
  <2>1. i + 1 < j + 1
    BY <1>1, <1>5
  <2> QED
    BY <1>1, <1>2, <2>1 DEF Chain
<1> QED
  BY <1>4, <1>5 DEF Chain, t

(* Commands that put no entry on the stack.                                 *)
Plain(c)   == c.kind \notin {"InjectSplit", "ResumeStep"}
AllPlain(q) == \A i \in DOMAIN q : Plain(q[i])
PlainInv   == /\ \A c \in control.cmd : Plain(c)
              /\ AllPlain(commands) /\ AllPlain(batch)

LEMMA PlainOperator ==
  ASSUME TypeOK, PlainInv, \A c \in Requests : Plain(c), Operator \/ Calling
  PROVE  PlainInv'
<1> USE DEF loopVars
<1>1. ASSUME NEW c \in Requests, Call(c) PROVE PlainInv'
  BY <1>1 DEF Call, PlainInv, AllPlain
<1>2. ASSUME NEW c \in control.cmd, MatchPrefix(c) \/ SignalCancel(c)
      PROVE  PlainInv'
  <2>1. control'.cmd = control.cmd /\ UNCHANGED <<commands, batch>>
    BY <1>2 DEF MatchPrefix, SignalCancel, TypeOK
  <2> QED
    BY <2>1 DEF PlainInv, AllPlain
<1>3. ASSUME NEW c \in control.cmd, SendCommand(c) PROVE PlainInv'
  <2>1. /\ control'.cmd = {} /\ batch' = batch
        /\ commands' = commands \/ commands' = Append(commands, c)
    BY <1>3 DEF SendCommand
  <2>2. Plain(c) /\ c \in Command /\ commands \in Seq(Command)
    BY DEF PlainInv, TypeOK
  <2>3. AllPlain(Append(commands, c))
    BY <2>2 DEF PlainInv, AllPlain
  <2> QED
    BY <2>1, <2>3 DEF PlainInv, AllPlain
<1> QED
  BY <1>1, <1>2, <1>3 DEF Operator, Calling

LEMMA PlainLoop ==
  ASSUME TypeOK, PlainInv, RunLoop
  PROVE  PlainInv' /\ ~HandleInjectSplit /\ ~HandleResumeStep
<1> USE DEF loopVars, controlVars, cancelVars, lastVars, walkVars, handleVars,
    specHistory, stopHistory
<1>1. CASE Drain
  BY <1>1 DEF Drain, PlainInv, AllPlain, HandleInjectSplit, HandleResumeStep,
     Handling
<1>2. CASE HandleCommand
  <2>1. /\ batch \in Seq(Command) /\ batch # <<>> /\ batch' = Tail(batch)
        /\ UNCHANGED <<control, commands>>
    BY <1>2 DEF HandleCommand, HandlePause, HandleResume, HandleAbort,
       HandleRerun, HandleInjectSplit, HandleCancelStep, HandleResumeStep,
       Handling, TypeOK
  <2>2. Plain(Head(batch))
    BY <2>1 DEF PlainInv, AllPlain
  <2>3. AllPlain(Tail(batch))
    BY <2>1 DEF PlainInv, AllPlain
  <2> QED
    BY <2>1, <2>2, <2>3 DEF PlainInv, AllPlain, Plain, HandleInjectSplit,
       HandleResumeStep, Handling
<1>3. CASE ~Drain /\ ~HandleCommand
  <2>1. UNCHANGED <<control, commands, batch>>
    <3>1. CASE \/ Pop \/ Complete \/ Handled \/ StayPaused \/ SkipFinished
               \/ StartStep \/ PublishPrefix \/ PublishCancel
               \/ CancelBeforeStep \/ Execute \/ SubAgentEnds
               \/ SubAgentCancelled \/ SubAgentErrs \/ ClearCancel
               \/ ClearPrefix
      BY <3>1 DEF Pop, Complete, Handled, StayPaused, SkipFinished, StartStep,
         PublishPrefix, PublishCancel, CancelBeforeStep, Execute, SubAgentEnds,
         SubAgentCancelled, SubAgentErrs, ClearCancel, ClearPrefix
    <3>2. CASE \/ CancelAfterStep \/ SplitStep \/ FailStep \/ CompleteStep
               \/ RetryStep \/ RetrySummary \/ RejectStep \/ SettleErrs
      BY <3>2 DEF CancelAfterStep, SplitStep, FailStep, CompleteStep,
         RetryStep, RetrySummary, RejectStep, SettleErrs
    <3> QED
      BY <1>3, <3>1, <3>2 DEF RunLoop
  <2> QED
    BY <1>3, <2>1 DEF PlainInv, AllPlain, HandleCommand
<1> QED
  BY <1>1, <1>2, <1>3

(* What the run loop does with the stack: an entry is taken from it, or a   *)
(* settled step puts back its own entry, or a child's, over it.             *)
LEMMA NestedLoop ==
  ASSUME TypeOK, Nested, RunLoop, ~HandleInjectSplit, ~HandleResumeStep
  PROVE  Nested'
<1> USE DEF loopVars, controlVars, cancelVars, lastVars, walkVars, handleVars,
    specHistory, stopHistory
<1>0. /\ cur \in Frame /\ stack \in Seq(Frame) /\ cur.prefix \in Prefix
      /\ Advance(cur) \in Frame /\ Advance(cur).prefix = cur.prefix
  BY AdvanceType DEF TypeOK, Frame, Advance
<1>a. ASSUME NEW n \in task.child
      PROVE  /\ Child(Step(cur), n) \in Frame
             /\ Child(Step(cur), n).prefix = Step(cur)
  <2>1. Step(cur) \in Prefix /\ n \in Nat
    BY <1>0, StepType DEF TypeOK
  <2> QED
    BY <2>1, ChildType DEF Child
<1>1. CASE Pop
  <2>1. Chain(stack') /\ Over(stack', cur'.prefix)
    BY <1>0, <1>1, TailChain DEF Pop, Nested
  <2> QED
    BY <2>1 DEF Nested
<1>2. CASE \/ Complete \/ Drain \/ HandleCommand \/ Handled \/ StayPaused
           \/ SkipFinished \/ StartStep \/ PublishPrefix \/ PublishCancel
           \/ CancelBeforeStep \/ Execute \/ SubAgentEnds \/ SubAgentCancelled
           \/ SubAgentErrs \/ ClearCancel \/ ClearPrefix \/ CancelAfterStep
           \/ RejectStep \/ SettleErrs
  <2>1. UNCHANGED <<stack, cur>> /\ (Busy' => Busy)
    <3>1. CASE HandleCommand
      BY <3>1 DEF HandleCommand, HandlePause, HandleResume, HandleAbort,
         HandleRerun, HandleCancelStep, Handling, Busy
    <3>2. CASE \/ Complete \/ Drain \/ Handled \/ StayPaused \/ SkipFinished
               \/ StartStep \/ PublishPrefix \/ PublishCancel
      BY <3>2 DEF Complete, Drain, Handled, StayPaused, SkipFinished,
         StartStep, PublishPrefix, PublishCancel, Busy
    <3>3. CASE \/ CancelBeforeStep \/ Execute \/ SubAgentEnds
               \/ SubAgentCancelled \/ SubAgentErrs \/ ClearCancel
               \/ ClearPrefix
      BY <3>3 DEF CancelBeforeStep, Shelve, Execute, SubAgentEnds,
         SubAgentCancelled, SubAgentErrs, ClearCancel, ClearPrefix, Busy
    <3>4. CASE CancelAfterStep \/ RejectStep \/ SettleErrs
      BY <3>4 DEF CancelAfterStep, Shelve, RejectStep, Judging, Summarizing,
         Settling, SettleErrs, Busy
    <3> QED
      BY <1>2, <3>1, <3>2, <3>3, <3>4
  <2> QED
    BY <2>1 DEF Nested, Chain, Over
<1>3. CASE \/ SplitStep \/ FailStep \/ CompleteStep \/ RetryStep
           \/ RetrySummary
  <2>1. pc = "settle" /\ pc' = "pop"
    BY <1>3 DEF SplitStep, FailStep, CompleteStep, RetryStep, RetrySummary,
       Judging, Summarizing, Settling
  <2>2. Chain(stack) /\ Over(stack, cur.prefix)
    BY <2>1 DEF Nested, Busy
  <2>3. Over(stack, Step(cur))
    <3>1. \A i \in DOMAIN stack : stack[i].prefix \in Prefix
      BY <1>0, FramePrefix
    <3> QED
      BY <1>0, <2>2, <3>1, BelowStep DEF Over
  <2>4. Below(cur.prefix, Step(cur))
    BY <1>0, BelowStep
  <2>5. ASSUME NEW f \in Frame, f.prefix = cur.prefix
        PROVE  /\ Push(f, stack) \in Seq(Frame)
               /\ Chain(Push(f, stack)) /\ Over(Push(f, stack), Step(cur))
    <3>1. Push(f, stack) \in Seq(Frame)
      BY <1>0, PushType
    <3>2. Over(stack, f.prefix) /\ Below(f.prefix, Step(cur))
      BY <2>2, <2>4, <2>5
    <3> QED
      BY <1>0, <2>2, <2>3, <3>1, <3>2, PushChain
  <2>6. ASSUME NEW n \in task.child, NEW s \in Seq(Frame), Chain(s),
               Over(s, Step(cur))
        PROVE  Chain(ChildOnTop(n, s))
    BY <1>a, <2>6, PushChain DEF ChildOnTop
  <2>7. /\ Rest \in Seq(Frame) /\ Chain(Rest) /\ Over(Rest, Step(cur))
    BY <1>0, <2>2, <2>3, <2>5 DEF Rest
  <2>8. Chain(stack')
    <3>1. CASE SplitStep
      <4>1. PICK n \in task.child : stack' = ChildOnTop(n, Push(cur, stack))
        BY <3>1 DEF SplitStep
      <4> QED
        BY <1>0, <2>5, <2>6, <4>1
    <3>2. CASE FailStep \/ RetryStep \/ RetrySummary
      <4>1. stack' = Push(cur, stack) \/ stack' = Push(Advance(cur), stack)
        BY <3>2 DEF FailStep, RetryStep, RetrySummary
      <4> QED
        BY <1>0, <2>5, <4>1
    <3>3. CASE CompleteStep
      <4>1. \/ stack' = Rest
            \/ \E n \in task.child : stack' = ChildOnTop(n, Rest)
        BY <3>3 DEF CompleteStep
      <4> QED
        BY <2>6, <2>7, <4>1
    <3> QED
      BY <1>3, <3>1, <3>2, <3>3
  <2> QED
    BY <2>1, <2>8 DEF Nested, Busy
<1> QED
  BY <1>1, <1>2, <1>3 DEF RunLoop

(* Unless the operator injects a split or resumes a shelved step, no spec   *)
(* is ever walked by two entries.                                           *)
THEOREM NoSpecTwiceCorrect ==
  ASSUME \A c \in Requests : Plain(c)
  PROVE  Spec => []NoSpecTwice
<1>1. Init => PlainInv /\ Nested
  BY DEF Init, PlainInv, AllPlain, Nested, Chain, Busy
<1>2. TypeOK /\ PlainInv /\ Nested /\ [Next]_vars => PlainInv' /\ Nested'
  <2> SUFFICES ASSUME TypeOK, PlainInv, Nested, [Next]_vars
               PROVE  PlainInv' /\ Nested'
    OBVIOUS
  <2>1. CASE Operator \/ Calling
    <3>1. UNCHANGED <<stack, cur, pc>>
      BY <2>1 DEF Operator, Calling, Call, MatchPrefix, SignalCancel,
         SendCommand, walkVars
    <3> QED
      BY <2>1, <3>1, PlainOperator DEF Nested, Chain, Over, Busy
  <2>2. CASE RunLoop
    BY <2>2, PlainLoop, NestedLoop
  <2>3. CASE UNCHANGED vars
    BY <2>3 DEF vars, walkVars, loopVars, controlVars, PlainInv, AllPlain,
       Nested, Chain, Over, Busy
  <2> QED
    BY <2>1, <2>2, <2>3 DEF Next, Terminated
<1>3. TypeOK /\ Nested => NoSpecTwice
  <2> SUFFICES ASSUME TypeOK, Nested PROVE NoSpecTwice
    OBVIOUS
  <2>1. stack \in Seq(Frame) /\ DOMAIN stack = 1..Len(stack)
    BY DEF TypeOK
  <2>2. \A p \in Prefix : ~Below(p, p)
    BY DEF Below, Prefix
  <2>a. /\ cur.prefix \in Prefix
        /\ \A i \in DOMAIN stack : stack[i].prefix \in Prefix
    BY FramePrefix DEF TypeOK
  <2>3. ASSUME NEW i \in DOMAIN stack, NEW j \in DOMAIN stack,
               stack[i].prefix = stack[j].prefix
        PROVE  i = j
    <3>1. ~(i < j) /\ ~(j < i)
      BY <2>2, <2>3, <2>a DEF Nested, Chain
    <3> QED
      BY <2>1, <3>1
  <2> QED
    BY <2>2, <2>3, <2>a DEF NoSpecTwice, Nested, Over
<1> QED
  BY <1>1, <1>2, <1>3, TypeCorrect, PTL DEF Spec
-----------------------------------------------------------------------------
(* What the entries of a stack are after one is pushed or taken.            *)
LEMMA PushEntries ==
  ASSUME NEW f \in Frame, NEW s \in Seq(Frame)
  PROVE  Entries(Push(f, s)) = {f} \cup Entries(s)
<1> DEFINE t == Push(f, s)
<1>1. /\ Len(s) \in Nat /\ DOMAIN s = 1..Len(s)
      /\ DOMAIN t = 1..(Len(s) + 1) /\ t[1] = f
      /\ \A i \in DOMAIN s : t[i + 1] = s[i]
  BY DEF Push
<1> HIDE DEF t
<1>2. ASSUME NEW i \in DOMAIN t PROVE t[i] \in {f} \cup Entries(s)
  <2>1. CASE i = 1
    BY <1>1, <2>1
  <2>2. CASE i # 1
    <3>1. i - 1 \in DOMAIN s /\ (i - 1) + 1 = i
      BY <1>1, <2>2
    <3>2. t[i] = s[i - 1]
      BY <1>1, <3>1
    <3> QED
      BY <3>1, <3>2 DEF Entries
  <2> QED
    BY <2>1, <2>2
<1>3. ASSUME NEW i \in DOMAIN s PROVE s[i] \in Entries(t)
  <2>1. i + 1 \in DOMAIN t /\ t[i + 1] = s[i]
    BY <1>1
  <2> QED
    BY <2>1 DEF Entries
<1>4. f \in Entries(t)
  BY <1>1 DEF Entries
<1> QED
  BY <1>2, <1>3, <1>4 DEF Entries, t

LEMMA TailEntries ==
  ASSUME NEW s \in Seq(Frame), s # <<>>
  PROVE  /\ Entries(s) = {Head(s)} \cup Entries(Tail(s))
         /\ Head(s) \in Frame /\ Tail(s) \in Seq(Frame)
<1> DEFINE t == Tail(s)
<1>1. /\ Len(s) \in Nat \ {0} /\ DOMAIN s = 1..Len(s)
      /\ DOMAIN t = 1..(Len(s) - 1) /\ Head(s) = s[1]
      /\ \A i \in DOMAIN t : t[i] = s[i + 1]
      /\ Head(s) \in Frame /\ t \in Seq(Frame)
  OBVIOUS
<1> HIDE DEF t
<1>2. ASSUME NEW i \in DOMAIN s PROVE s[i] \in {Head(s)} \cup Entries(t)
  <2>1. CASE i = 1
    BY <1>1, <2>1
  <2>2. CASE i # 1
    <3>1. i - 1 \in DOMAIN t /\ (i - 1) + 1 = i
      BY <1>1, <2>2
    <3>2. t[i - 1] = s[i]
      BY <1>1, <3>1
    <3> QED
      BY <3>1, <3>2 DEF Entries
  <2> QED
    BY <2>1, <2>2
<1>3. ASSUME NEW i \in DOMAIN t PROVE t[i] \in Entries(s)
  <2>1. i + 1 \in DOMAIN s /\ t[i] = s[i + 1]
    BY <1>1
  <2> QED
    BY <2>1 DEF Entries
<1>4. Head(s) \in Entries(s)
  BY <1>1 DEF Entries
<1> QED
  BY <1>1, <1>2, <1>3, <1>4 DEF Entries, t

LEMMA EntriesType ==
  ASSUME TypeOK
  PROVE  /\ Entries(stack) \subseteq Frame /\ Live \subseteq Frame
         /\ cur \in Frame /\ stack \in Seq(Frame)
<1>1. Entries(stack) \subseteq Frame
  <2>1. \A i \in DOMAIN stack : stack[i] \in Frame
    BY DEF TypeOK
  <2> QED
    BY <2>1 DEF Entries
<1> QED
  BY <1>1 DEF TypeOK, Live, Held

-----------------------------------------------------------------------------
(* A step of a spec is settled, or is ahead of an entry of the walk.        *)
Ahead(p, i)   == \E f \in Live : f.prefix = p /\ f.idx <= i /\ i <= f.len
Settled(p, i) == Append(p, i) \in done \cup failed
Waived        == cut \cup overwritten

(* A step that leaves the plan alone keeps all work accounted for when it   *)
(* keeps each step of each spec so.                                         *)
LEMMA AccountKept ==
  ASSUME TypeOK, WorkAccounted, opened' = opened, Waived \subseteq Waived',
         \A p \in Prefix : \A i \in Nat :
            Settled(p, i) \/ Ahead(p, i) =>
               p \in Waived' \/ Settled(p, i)' \/ Ahead(p, i)'
  PROVE  WorkAccounted'
<1>1. ASSUME NEW o \in opened, o.prefix \notin Waived', NEW i \in 1..o.len
      PROVE  Settled(o.prefix, i)' \/ Ahead(o.prefix, i)'
  <2>1. o.prefix \in Prefix /\ i \in Nat
    BY DEF TypeOK
  <2>2. o.prefix \notin Waived
    BY <1>1
  <2>3. Settled(o.prefix, i) \/ Ahead(o.prefix, i)
    BY <2>2, Zenon DEF WorkAccounted, Waived, Settled, Ahead
  <2> QED
    BY <1>1, <2>1, <2>3
<1> QED
  BY <1>1, Zenon DEF WorkAccounted, Waived, Settled, Ahead

(* Nothing is settled anew or forgotten, and no entry leaves the walk.      *)
LEMMA AccountStays ==
  ASSUME TypeOK, WorkAccounted, opened' = opened, Waived \subseteq Waived',
         done \cup failed \subseteq done' \cup failed', Live \subseteq Live'
  PROVE  WorkAccounted'
<1>1. ASSUME NEW p, NEW i, Settled(p, i) \/ Ahead(p, i)
      PROVE  Settled(p, i)' \/ Ahead(p, i)'
  BY <1>1, Zenon DEF Settled, Ahead
<1> QED
  BY <1>1, AccountKept

LEMMA AppendBelow ==
  ASSUME NEW p \in Prefix, NEW q \in Prefix, NEW i \in Nat,
         Below(p, Append(q, i))
  PROVE  p = q \/ Below(p, q)
<1> DEFINE r == Append(q, i)
<1>1. /\ p \in Seq(Nat) /\ q \in Seq(Nat) /\ r \in Seq(Nat)
      /\ Len(r) = Len(q) + 1 /\ Len(q) \in Nat /\ Len(p) \in Nat
      /\ \A k \in 1..Len(q) : r[k] = q[k]
  BY DEF Prefix
<1>2. Len(p) < Len(r) /\ SubSeq(r, 1, Len(p)) = p
  BY DEF Below
<1> HIDE DEF r
<1>3. Len(p) <= Len(q)
  BY <1>1, <1>2
<1>4. ASSUME NEW k \in 1..Len(p) PROVE p[k] = q[k]
  <2>1. k \in 1..Len(q) /\ SubSeq(r, 1, Len(p))[k] = r[k]
    BY <1>1, <1>2, <1>3
  <2> QED
    BY <1>1, <1>2, <2>1
<1>5. SubSeq(q, 1, Len(p)) = p
  <2>1. /\ SubSeq(q, 1, Len(p)) \in Seq(Nat)
        /\ Len(SubSeq(q, 1, Len(p))) = Len(p)
        /\ \A k \in 1..Len(p) : SubSeq(q, 1, Len(p))[k] = q[k]
    BY <1>1, <1>3
  <2> QED
    BY <1>1, <1>4, <2>1
<1>6. CASE Len(p) = Len(q)
  <2>1. SubSeq(q, 1, Len(q)) = q
    BY <1>1
  <2>2. p = q
    BY <1>5, <1>6, <2>1
  <2> QED
    BY <2>2
<1>7. CASE Len(p) # Len(q)
  <2>1. Len(p) < Len(q)
    BY <1>1, <1>3, <1>7
  <2> QED
    BY <1>5, <2>1 DEF Below
<1> QED
  BY <1>6, <1>7

LEMMA AppendParts ==
  ASSUME NEW p \in Prefix, NEW i \in Nat
  PROVE  /\ Append(p, i) \in Prefix /\ Len(Append(p, i)) = Len(p) + 1
         /\ Append(p, i)[Len(p) + 1] = i
         /\ SubSeq(Append(p, i), 1, Len(p)) = p
<1> DEFINE r == Append(p, i)
<1>1. /\ p \in Seq(Nat) /\ r \in Seq(Nat) /\ Len(p) \in Nat
      /\ Len(r) = Len(p) + 1 /\ r[Len(p) + 1] = i
      /\ \A k \in 1..Len(p) : r[k] = p[k]
  BY DEF Prefix
<1> HIDE DEF r
<1>2. /\ SubSeq(r, 1, Len(p)) \in Seq(Nat)
      /\ Len(SubSeq(r, 1, Len(p))) = Len(p)
      /\ \A k \in 1..Len(p) : SubSeq(r, 1, Len(p))[k] = r[k]
  BY <1>1
<1>3. SubSeq(r, 1, Len(p)) = p
  BY <1>1, <1>2
<1> QED
  BY <1>1, <1>3 DEF r, Prefix

LEMMA AppendInjective ==
  ASSUME NEW p \in Prefix, NEW q \in Prefix, NEW i \in Nat, NEW j \in Nat,
         Append(p, i) = Append(q, j)
  PROVE  p = q /\ i = j
<1> DEFINE r == Append(p, i)
           t == Append(q, j)
<1>1. Len(r) = Len(p) + 1 /\ r[Len(p) + 1] = i /\ SubSeq(r, 1, Len(p)) = p
  BY AppendParts
<1>2. Len(t) = Len(q) + 1 /\ t[Len(q) + 1] = j /\ SubSeq(t, 1, Len(q)) = q
  BY AppendParts
<1>3. r = t /\ Len(p) \in Nat /\ Len(q) \in Nat
  BY DEF Prefix
<1> HIDE DEF r, t
<1>4. Len(p) + 1 = Len(q) + 1
  BY <1>1, <1>2, <1>3, Zenon
<1>5. Len(p) = Len(q)
  BY <1>3, <1>4
<1> QED
  BY <1>1, <1>2, <1>3, <1>5, Zenon

(* A child spec is pushed: its steps are all ahead, and what else is        *)
(* accounted for stays so.                                                  *)
LEMMA AccountOpens ==
  ASSUME TypeOK, WorkAccounted, NEW p \in Prefix, NEW n \in Nat, Open(p, n),
         Fresh(p, done) \cup Fresh(p, failed) \subseteq done' \cup failed',
         Child(p, n) \in Live',
         \A q \in Prefix : \A i \in Nat :
            Ahead(q, i) => Settled(q, i)' \/ Ahead(q, i)'
  PROVE  WorkAccounted'
<1>1. ASSUME NEW i \in 1..n PROVE Ahead(p, i)'
  BY DEF Ahead, Child
<1>2. ASSUME NEW o \in opened, o.prefix # p, ~Below(p, o.prefix),
             o.prefix \notin Waived', NEW i \in 1..o.len
      PROVE  Settled(o.prefix, i)' \/ Ahead(o.prefix, i)'
  <2>1. o.prefix \in Prefix /\ i \in Nat
    BY DEF TypeOK
  <2>2. o.prefix \notin Waived
    BY <1>2 DEF Open, Waived
  <2>3. Settled(o.prefix, i) \/ Ahead(o.prefix, i)
    BY <2>2, Zenon DEF WorkAccounted, Waived, Settled, Ahead
  <2>4. CASE Settled(o.prefix, i)
    <3>1. ~Below(p, Append(o.prefix, i))
      BY <1>2, <2>1, AppendBelow
    <3>2. Append(o.prefix, i) \in Fresh(p, done) \cup Fresh(p, failed)
      BY <2>4, <3>1 DEF Settled, Fresh
    <3> QED
      BY <3>2 DEF Settled
  <2> QED
    BY <2>1, <2>3, <2>4
<1>3. ASSUME NEW o \in opened'
      PROVE  \/ o = [prefix |-> p, len |-> n]
             \/ o \in opened /\ o.prefix # p /\ ~Below(p, o.prefix)
  BY DEF Open
<1>4. ASSUME NEW o \in opened', o.prefix \notin Waived', NEW i \in 1..o.len
      PROVE  Settled(o.prefix, i)' \/ Ahead(o.prefix, i)'
  BY <1>1, <1>2, <1>3, <1>4
<1> QED
  BY <1>4, Zenon DEF WorkAccounted, Waived, Settled, Ahead

(* At most one entry waits in pending_resume.                               *)
OneShelved == \A f, g \in pending : f = g

(* Steps of the run loop that touch neither the stack nor what is settled.  *)
LEMMA AccountIdle ==
  ASSUME TypeOK, OneShelved, WorkAccounted,
         \/ Complete \/ Drain \/ Handled \/ StayPaused \/ PublishPrefix
         \/ HandlePause \/ HandleResume \/ HandleAbort \/ HandleRerun
         \/ HandleCancelStep \/ PublishCancel \/ Execute \/ SubAgentEnds
         \/ SubAgentCancelled \/ SubAgentErrs \/ ClearCancel \/ ClearPrefix
         \/ SettleErrs
  PROVE  OneShelved' /\ WorkAccounted'
<1> USE DEF walkVars, loopVars, cancelVars, specHistory
<1>1. /\ UNCHANGED <<stack, cur, done, failed, pending, opened, cut,
                     overwritten>>
      /\ Busy <=> Busy'
  <2>1. CASE \/ Complete \/ Drain \/ Handled \/ StayPaused \/ PublishPrefix
             \/ HandlePause \/ HandleResume \/ HandleAbort \/ HandleRerun
             \/ HandleCancelStep
    BY <2>1 DEF Complete, Drain, Handled, StayPaused, PublishPrefix,
       HandlePause, HandleResume, HandleAbort, HandleRerun, HandleCancelStep,
       Handling, Busy
  <2>2. CASE \/ PublishCancel \/ Execute \/ SubAgentEnds \/ SubAgentCancelled
             \/ SubAgentErrs \/ ClearCancel \/ ClearPrefix \/ SettleErrs
    BY <2>2 DEF PublishCancel, Execute, SubAgentEnds, SubAgentCancelled,
       SubAgentErrs, ClearCancel, ClearPrefix, SettleErrs, Busy
  <2> QED
    BY <2>1, <2>2
<1>2. Live' = Live
  BY <1>1, Zenon DEF Live, Held
<1> QED
  BY <1>1, <1>2, AccountStays DEF OneShelved, Waived

(* The entry in hand goes to pending_resume, over the one kept there.       *)
LEMMA AccountShelves ==
  ASSUME TypeOK, WorkAccounted, Busy, Shelve, opened' = opened, cut' = cut,
         UNCHANGED <<stack, cur, done, failed>>
  PROVE  OneShelved' /\ WorkAccounted'
<1>1. OneShelved'
  BY DEF Shelve, OneShelved
<1>2. Waived \subseteq Waived'
  BY DEF Shelve, Waived
<1>3. ASSUME NEW q \in Prefix, NEW i \in Nat, Settled(q, i) \/ Ahead(q, i)
      PROVE  q \in Waived' \/ Settled(q, i)' \/ Ahead(q, i)'
  <2>1. CASE Settled(q, i)
    BY <2>1 DEF Settled
  <2>2. ASSUME NEW f \in Live, f.prefix = q, f.idx <= i, i <= f.len
        PROVE  q \in Waived' \/ Ahead(q, i)'
    <3>1. CASE f \in pending
      <4>1. q \in overwritten'
        BY <2>2, <3>1 DEF Shelve
      <4> QED
        BY <4>1 DEF Waived
    <3>2. CASE f \in Entries(stack) \/ f = cur
      <4>1. f \in Live'
        BY <3>2 DEF Live, Shelve
      <4> QED
        BY <2>2, <4>1 DEF Ahead
    <3> QED
      BY <2>2, <3>1, <3>2 DEF Live, Held
  <2> QED
    BY <1>3, <2>1, <2>2 DEF Ahead
<1> QED
  BY <1>1, <1>2, <1>3, AccountKept

(* The entry in hand is advanced past a step that is settled, or has none   *)
(* left.                                                                    *)
LEMMA AccountAdvances ==
  ASSUME TypeOK, WorkAccounted, Busy, opened' = opened, pending' = pending,
         UNCHANGED <<cut, overwritten>>, Entries(stack) \subseteq Entries(stack'),
         done \cup failed \subseteq done' \cup failed',
         \/ cur.idx > cur.len
         \/ /\ Step(cur) \in done' \cup failed'
            /\ cur.idx < cur.len => Advance(cur) \in Entries(stack')
  PROVE  WorkAccounted'
<1>0. cur \in Frame /\ cur.idx \in Nat /\ cur.len \in Nat
  BY DEF TypeOK, Frame
<1>1. ASSUME NEW q \in Prefix, NEW i \in Nat, Settled(q, i) \/ Ahead(q, i)
      PROVE  Settled(q, i)' \/ Ahead(q, i)'
  <2>1. CASE Settled(q, i)
    BY <2>1 DEF Settled
  <2>2. ASSUME NEW f \in Live, f.prefix = q, f.idx <= i, i <= f.len
        PROVE  Settled(q, i)' \/ Ahead(q, i)'
    <3>1. CASE f \in pending \cup Entries(stack)
      <4>1. f \in Live'
        BY <3>1 DEF Live
      <4> QED
        BY <2>2, <4>1 DEF Ahead
    <3>2. CASE f = cur
      <4>1. cur.idx <= cur.len
        BY <1>0, <2>2, <3>2
      <4>2. Step(cur) \in done' \cup failed'
        BY <1>0, <4>1
      <4>3. CASE i = cur.idx
        BY <2>2, <3>2, <4>2, <4>3 DEF Settled, Step
      <4>4. CASE i # cur.idx
        <5>1. cur.idx < cur.len /\ cur.idx + 1 <= i
          BY <1>0, <2>2, <3>2, <4>4
        <5>2. Advance(cur) \in Live'
          BY <1>0, <4>1, <5>1 DEF Live
        <5>3. /\ Advance(cur).prefix = q /\ Advance(cur).idx <= i
              /\ i <= Advance(cur).len
          BY <1>0, <2>2, <3>2, <5>1 DEF Advance, Frame
        <5> QED
          BY <5>2, <5>3 DEF Ahead
      <4> QED
        BY <4>3, <4>4
    <3> QED
      BY <2>2, <3>1, <3>2 DEF Live, Held
  <2> QED
    BY <1>1, <2>1, <2>2 DEF Ahead
<1> QED
  BY <1>1, AccountKept DEF Waived

(* A step is taken in hand, skipped, or begun again.                        *)
LEMMA AccountTakes ==
  ASSUME TypeOK, OneShelved, WorkAccounted,
         \/ Pop \/ SkipFinished \/ StartStep \/ CancelBeforeStep
         \/ CancelAfterStep \/ HandleResumeStep
  PROVE  OneShelved' /\ WorkAccounted'
<1> USE DEF walkVars, loopVars, cancelVars, specHistory
<1>0. cur \in Frame /\ stack \in Seq(Frame) /\ pending \subseteq Frame
  BY DEF TypeOK
<1>1. CASE Pop
  <2>1. UNCHANGED <<opened, cut, overwritten, done, failed, pending>>
    BY <1>1 DEF Pop
  <2>2. /\ ~Busy /\ Busy' /\ cur' = Head(stack)
        /\ Entries(stack) = {cur'} \cup Entries(stack')
    BY <1>0, <1>1, TailEntries DEF Pop, Busy
  <2>3. Live' = Live
    BY <2>1, <2>2 DEF Live, Held
  <2> QED
    BY <2>1, <2>3, AccountStays DEF OneShelved, Waived
<1>2. CASE SkipFinished
  <2>1. /\ UNCHANGED <<opened, cut, overwritten, done, failed, pending, stack>>
        /\ Busy /\ cur.idx > cur.len
    BY <1>2 DEF SkipFinished, Busy
  <2>2. WorkAccounted'
    BY <2>1, AccountAdvances
  <2> QED
    BY <2>1, <2>2 DEF OneShelved
<1>3. CASE StartStep
  <2>1. /\ UNCHANGED <<opened, cut, overwritten, pending, stack, cur>>
        /\ Busy /\ Busy' /\ cur.idx <= cur.len /\ cur.idx \in Nat
        /\ done' = done \ {Step(cur)} /\ failed' = failed \ {Step(cur)}
    BY <1>0, <1>3 DEF StartStep, Busy, Frame
  <2>2. Live' = Live /\ cur \in Live
    BY <2>1, Zenon DEF Live, Held
  <2>3. ASSUME NEW q \in Prefix, NEW i \in Nat, Settled(q, i) \/ Ahead(q, i)
        PROVE  Settled(q, i)' \/ Ahead(q, i)'
    <3>1. CASE Ahead(q, i)
      BY <2>2, <3>1, Zenon DEF Ahead
    <3>2. CASE Settled(q, i) /\ Append(q, i) # Step(cur)
      BY <2>1, <3>2 DEF Settled
    <3>3. CASE Append(q, i) = Step(cur)
      <4>1. q = cur.prefix /\ i = cur.idx
        BY <1>0, <3>3, AppendInjective DEF Step, Frame
      <4> QED
        BY <2>1, <2>2, <4>1 DEF Ahead
    <3> QED
      BY <2>3, <3>1, <3>2, <3>3
  <2>4. WorkAccounted'
    BY <2>1, <2>3, AccountKept DEF Waived
  <2> QED
    BY <2>1, <2>4 DEF OneShelved
<1>4. CASE CancelBeforeStep \/ CancelAfterStep
  <2>1. /\ UNCHANGED <<opened, cut, stack, cur, done, failed>>
        /\ Busy /\ Shelve
    BY <1>4 DEF CancelBeforeStep, CancelAfterStep, Busy
  <2> QED
    BY <2>1, AccountShelves
<1>5. CASE HandleResumeStep
  <2>1. /\ UNCHANGED <<opened, cut, overwritten, done, failed, cur, pc>>
    BY <1>5 DEF HandleResumeStep
  <2>2. CASE UNCHANGED <<stack, pending>>
    <3>1. Live' = Live
      BY <2>1, <2>2, Zenon DEF Live, Held, Busy
    <3> QED
      BY <2>1, <2>2, <3>1, AccountStays DEF OneShelved, Waived
  <2>3. ASSUME NEW f \in pending, stack' = Push(f, stack), pending' = {}
        PROVE  OneShelved' /\ WorkAccounted'
    <3>1. pending = {f} /\ f \in Frame
      BY <1>0 DEF OneShelved
    <3>2. Entries(stack') = {f} \cup Entries(stack)
      BY <1>0, <2>3, <3>1, PushEntries
    <3>3. Live' = Live
      BY <2>1, <2>3, <3>1, <3>2 DEF Live, Held, Busy
    <3> QED
      BY <2>1, <2>3, <3>3, AccountStays DEF OneShelved, Waived
  <2> QED
    BY <1>5, <2>2, <2>3 DEF HandleResumeStep, PutBack
<1> QED
  BY <1>1, <1>2, <1>3, <1>4, <1>5

(* A step is settled, with or without a child spec, or tried again.         *)
LEMMA AccountSettles ==
  ASSUME TypeOK, OneShelved, WorkAccounted,
         \/ HandleInjectSplit \/ SplitStep \/ FailStep \/ CompleteStep
         \/ RetryStep \/ RetrySummary \/ RejectStep
  PROVE  OneShelved' /\ WorkAccounted'
<1> DEFINE p == Step(cur)
<1> USE DEF walkVars, loopVars, cancelVars, specHistory
<1>0. /\ cur \in Frame /\ stack \in Seq(Frame) /\ pending \subseteq Frame
      /\ p \in Prefix /\ task.child \in SUBSET Nat /\ Advance(cur) \in Frame
      /\ cur.idx \in Nat /\ cur.len \in Nat
  BY StepType, AdvanceType DEF TypeOK, Frame
<1>a. ASSUME Settling PROVE Busy /\ ~Busy' /\ Live = Entries(stack) \cup pending \cup {cur}
  BY <1>a DEF Settling, Busy, Live, Held
<1>b. ASSUME NEW f \in Frame
      PROVE  Entries(Push(f, stack)) = {f} \cup Entries(stack)
  BY <1>0, PushEntries
<1>c. ASSUME NEW n \in task.child, NEW s \in Seq(Frame)
      PROVE  Entries(ChildOnTop(n, s)) = {Child(p, n)} \cup Entries(s)
  <2>1. Child(p, n) \in Frame
    BY <1>0, ChildType
  <2> QED
    BY <2>1, PushEntries DEF ChildOnTop
<1>d. /\ Rest \in Seq(Frame) /\ Entries(stack) \subseteq Entries(Rest)
      /\ cur.idx < cur.len => Advance(cur) \in Entries(Rest)
  BY <1>0, <1>b, PushType DEF Rest
<1>1. CASE HandleInjectSplit
  <2> DEFINE c    == Head(batch)
             base == IF stack = <<>> THEN <<>> ELSE Head(stack).prefix
             q    == base \o c.prefix
  <2>1. c \in Command
    BY <1>1 DEF HandleInjectSplit, Handling, TypeOK
  <2>2. base \in Prefix
    <3>1. CASE stack = <<>>
      BY <3>1 DEF Prefix
    <3>2. CASE stack # <<>>
      BY <1>0, <3>2, TailEntries, FramePrefix
    <3> QED
      BY <3>1, <3>2
  <2>3. q \in Prefix /\ c.len \in Nat
    BY <2>1, <2>2 DEF Command, Prefix
  <2>4. /\ stack' = Push(Child(q, c.len), stack) /\ Open(q, c.len)
        /\ done' = Fresh(q, done) /\ failed' = Fresh(q, failed)
        /\ pending' = pending /\ cur' = cur /\ pc' = pc
    BY <1>1 DEF HandleInjectSplit
  <2> HIDE DEF q
  <2>5. Entries(stack') = {Child(q, c.len)} \cup Entries(stack)
    BY <1>b, <2>3, <2>4, ChildType
  <2>6. Live \subseteq Live' /\ Child(q, c.len) \in Live'
    BY <2>4, <2>5 DEF Live, Held, Busy
  <2>7. \A r \in Prefix : \A i \in Nat : Ahead(r, i) => Ahead(r, i)'
    BY <2>6, Zenon DEF Ahead
  <2>8. WorkAccounted'
    BY <2>3, <2>4, <2>6, <2>7, AccountOpens
  <2> QED
    BY <2>4, <2>8 DEF OneShelved
<1>2. CASE SplitStep
  <2>1. PICK n \in task.child :
          stack' = ChildOnTop(n, Push(cur, stack)) /\ Open(p, n)
    BY <1>2 DEF SplitStep
  <2>2. /\ done' = Fresh(p, done) /\ failed' = Fresh(p, failed)
        /\ pending' = pending /\ Settling
    BY <1>2 DEF SplitStep
  <2>3. Entries(stack') = {Child(p, n), cur} \cup Entries(stack)
    BY <1>0, <1>b, <1>c, <2>1, PushType
  <2>4. Live \subseteq Live' /\ Child(p, n) \in Live'
    BY <1>a, <2>2, <2>3 DEF Live
  <2>5. \A r \in Prefix : \A i \in Nat : Ahead(r, i) => Ahead(r, i)'
    BY <2>4, Zenon DEF Ahead
  <2>6. WorkAccounted'
    BY <1>0, <2>1, <2>2, <2>4, <2>5, AccountOpens
  <2> QED
    BY <2>2, <2>6 DEF OneShelved
<1>3. CASE FailStep
  <2>1. /\ stack' = Push(Advance(cur), stack) /\ failed' = failed \cup {p}
        /\ UNCHANGED <<done, pending, opened, cut, overwritten>> /\ Settling
    BY <1>3 DEF FailStep
  <2>2. Entries(stack') = {Advance(cur)} \cup Entries(stack)
    BY <1>0, <1>b, <2>1
  <2>3. WorkAccounted'
    BY <1>a, <2>1, <2>2, AccountAdvances
  <2> QED
    BY <2>1, <2>3 DEF OneShelved
<1>4. CASE CompleteStep
  <2>1. Settling /\ pending' = pending
    BY <1>4 DEF CompleteStep, Judging, Summarizing
  <2>2. CASE stack' = Rest /\ done' = done \cup {p}
             /\ UNCHANGED <<failed, specHistory>>
    <3>1. WorkAccounted'
      BY <1>a, <1>d, <2>1, <2>2, AccountAdvances
    <3> QED
      BY <2>1, <3>1 DEF OneShelved
  <2>3. ASSUME NEW n \in task.child, stack' = ChildOnTop(n, Rest),
               done' = Fresh(p, done) \cup {p}, failed' = Fresh(p, failed),
               Open(p, n)
        PROVE  OneShelved' /\ WorkAccounted'
    <3>1. Entries(stack') = {Child(p, n)} \cup Entries(Rest)
      BY <1>c, <1>d, <2>3
    <3>2. Child(p, n) \in Live'
      BY <3>1 DEF Live
    <3>3. ASSUME NEW r \in Prefix, NEW i \in Nat, Ahead(r, i)
          PROVE  Settled(r, i)' \/ Ahead(r, i)'
      <4>1. PICK f \in Live : f.prefix = r /\ f.idx <= i /\ i <= f.len
        BY <3>3 DEF Ahead
      <4>2. CASE f # cur
        <5>1. f \in Live'
          BY <1>a, <1>d, <2>1, <3>1, <4>2 DEF Live
        <5> QED
          BY <4>1, <5>1 DEF Ahead
      <4>3. CASE f = cur /\ i = cur.idx
        BY <2>3, <4>1, <4>3 DEF Settled, Step
      <4>4. CASE f = cur /\ i # cur.idx
        <5>1. cur.idx < cur.len /\ cur.idx + 1 <= i
          BY <1>0, <4>1, <4>4
        <5>2. Advance(cur) \in Live'
          BY <1>d, <3>1, <5>1 DEF Live
        <5>3. /\ Advance(cur).prefix = r /\ Advance(cur).idx <= i
              /\ i <= Advance(cur).len
          BY <1>0, <4>1, <4>4, <5>1 DEF Advance, Frame
        <5> QED
          BY <5>2, <5>3 DEF Ahead
      <4> QED
        BY <4>2, <4>3, <4>4
    <3>4. WorkAccounted'
      BY <1>0, <2>3, <3>2, <3>3, AccountOpens
    <3> QED
      BY <2>1, <3>4 DEF OneShelved
  <2> QED
    BY <1>4, <2>2, <2>3 DEF CompleteStep
<1>5. CASE RetryStep \/ RetrySummary
  <2>1. /\ stack' = Push(cur, stack) /\ Settling
        /\ UNCHANGED <<done, failed, pending, opened, cut, overwritten>>
    BY <1>5 DEF RetryStep, RetrySummary, Judging, Summarizing
  <2>2. Live \subseteq Live'
    BY <1>0, <1>a, <1>b, <2>1 DEF Live
  <2> QED
    BY <2>1, <2>2, AccountStays DEF OneShelved, Waived
<1>6. CASE RejectStep
  <2>1. /\ UNCHANGED <<stack, done, pending, opened, overwritten>> /\ Settling
        /\ failed' = failed \cup {p} /\ cut' = cut \cup {cur.prefix}
    BY <1>6 DEF RejectStep, Judging, Summarizing
  <2>2. ASSUME NEW q \in Prefix, NEW i \in Nat, Settled(q, i) \/ Ahead(q, i)
        PROVE  q \in Waived' \/ Settled(q, i)' \/ Ahead(q, i)'
    <3>1. CASE Settled(q, i)
      BY <2>1, <3>1 DEF Settled
    <3>2. CASE Ahead(q, i)
      BY <1>a, <2>1, <3>2 DEF Ahead, Live, Waived
    <3> QED
      BY <2>2, <3>1, <3>2
  <2>3. WorkAccounted'
    BY <2>1, <2>2, AccountKept DEF Waived
  <2> QED
    BY <2>1, <2>3 DEF OneShelved
<1> QED
  BY <1>1, <1>2, <1>3, <1>4, <1>5, <1>6

(* No step of any spec is lost: it is settled or ahead of some entry, save  *)
(* what a verifier's rejection or an overwritten resume point waives.       *)
THEOREM WorkAccountedCorrect == Spec => []WorkAccounted
<1>1. Init => OneShelved /\ WorkAccounted
  <2> SUFFICES ASSUME Init PROVE OneShelved /\ WorkAccounted
    OBVIOUS
  <2>1. Root \in Live
    BY DEF Init, Live, Entries
  <2>2. \A o \in opened : o.prefix = Root.prefix /\ o.len = Root.len
    BY DEF Init, Root
  <2>3. \A i \in 1..RootLen : Root.idx <= i /\ i <= Root.len
    BY RunAssumption DEF Root
  <2>4. Root.len = RootLen
    BY DEF Root
  <2>5. WorkAccounted
    BY <2>1, <2>2, <2>3, <2>4, Zenon DEF WorkAccounted
  <2> QED
    BY <2>5 DEF Init, OneShelved
<1>2. /\ TypeOK /\ OneShelved /\ WorkAccounted /\ [Next]_vars
      => OneShelved' /\ WorkAccounted'
  <2> SUFFICES ASSUME TypeOK, OneShelved, WorkAccounted, [Next]_vars
               PROVE  OneShelved' /\ WorkAccounted'
    OBVIOUS
  <2>1. CASE Operator \/ Calling \/ UNCHANGED vars
    <3>1. UNCHANGED <<stack, cur, pc, done, failed, pending, opened, cut,
                      overwritten>>
      BY <2>1 DEF Operator, Calling, Call, MatchPrefix, SignalCancel,
         SendCommand, vars, walkVars, cancelVars, specHistory
    <3>2. Live' = Live
      BY <3>1, Zenon DEF Live, Held, Busy
    <3> QED
      BY <3>1, <3>2, AccountStays DEF OneShelved, Waived
  <2>2. CASE RunLoop
    BY <2>2, AccountIdle, AccountTakes, AccountSettles DEF RunLoop,
       HandleCommand
  <2> QED
    BY <2>1, <2>2 DEF Next, Terminated
<1> QED
  BY <1>1, <1>2, TypeCorrect, PTL DEF Spec
-----------------------------------------------------------------------------
(* The stack implements the walk of Walk.                                   *)

(* The entry in hand has a step from the moment it is started until it is   *)
(* settled, and a task's child spec has a length a child spec may have.     *)
InStep  == \/ pc \in {"publish", "publishCancel", "armed", "run", "clear",
                      "clearPrefix", "settle"}
           \/ pc \in {"poll", "handle"} /\ site = "step"
WalkInv == /\ InStep => cur.idx <= cur.len
           /\ task.child \subseteq ChildLens

LEMMA WalkInvLoop ==
  ASSUME TypeOK, WalkInv, RunLoop, ~HandleInjectSplit, ~HandleResumeStep
  PROVE  WalkInv'
<1> USE DEF WalkInv, InStep, loopVars, walkVars
<1>1. CASE \/ Pop \/ Complete \/ Drain \/ Handled \/ StayPaused \/ SkipFinished
           \/ StartStep \/ PublishPrefix \/ PublishCancel \/ CancelBeforeStep
           \/ Execute
  BY <1>1 DEF Pop, Complete, Drain, Handled, StayPaused, SkipFinished,
     StartStep, PublishPrefix, PublishCancel, CancelBeforeStep, Shelve, Execute
<1>2. CASE HandleCommand
  <2>1. UNCHANGED <<cur, site, task>> /\ (pc' = pc \/ pc' = "aborted")
    BY <1>2 DEF HandleCommand, HandlePause, HandleResume, HandleAbort,
       HandleRerun, HandleCancelStep
  <2> QED
    BY <2>1
<1>3. CASE SubAgentEnds
  <2>1. task'.child \subseteq ChildLens
    <3>1. PICK state \in Outcomes \ {"Error"},
               child \in {{}} \cup {{n} : n \in ChildLens} :
            task' = [state |-> state, child |-> child]
      BY <1>3 DEF SubAgentEnds
    <3> QED
      BY <3>1
  <2> QED
    BY <1>3, <2>1 DEF SubAgentEnds
<1>4. CASE SubAgentCancelled \/ SubAgentErrs \/ ClearCancel \/ ClearPrefix
  BY <1>4 DEF SubAgentCancelled, SubAgentErrs, ClearCancel, ClearPrefix
<1>5. CASE \/ CancelAfterStep \/ SplitStep \/ FailStep \/ CompleteStep
           \/ RetryStep \/ RetrySummary \/ RejectStep \/ SettleErrs
  BY <1>5 DEF CancelAfterStep, Shelve, SplitStep, FailStep, CompleteStep,
     RetryStep, RetrySummary, RejectStep, SettleErrs, Judging, Summarizing,
     Settling
<1> QED
  BY <1>1, <1>2, <1>3, <1>4, <1>5 DEF RunLoop

-----------------------------------------------------------------------------
(* What the entries of the stack have left.                                 *)
Others == UNION {Left(f) : f \in Entries(stack)}

LEMMA LeftOfPushed ==
  ASSUME NEW f \in Frame, NEW s \in Seq(Frame)
  PROVE  UNION {Left(g) : g \in Entries(Push(f, s))}
            = Left(f) \cup UNION {Left(g) : g \in Entries(s)}
BY PushEntries

LEMMA LeftOfChild ==
  ASSUME NEW p \in Prefix, NEW n \in Nat
  PROVE  Left(Child(p, n)) = Walked!Steps(p, n)
BY DEF Left, Child, Walked!Steps

LEMMA LeftAdvanced ==
  ASSUME NEW f \in Frame
  PROVE  /\ Left(Advance(f)) = Left(f) \ {Step(f)}
         /\ f.idx >= f.len => Left(Advance(f)) = {}
<1>1. /\ f.prefix \in Prefix /\ f.idx \in Nat /\ f.len \in Nat
      /\ Advance(f).prefix = f.prefix /\ Advance(f).idx = f.idx + 1
      /\ Advance(f).len = f.len
  BY DEF Frame, Advance
<1>2. ASSUME NEW i \in f.idx..f.len
      PROVE  Append(f.prefix, i) = Step(f) <=> i = f.idx
  BY <1>1, AppendInjective DEF Step
<1>3. \A i : i \in (f.idx + 1)..f.len <=> i \in f.idx..f.len /\ i # f.idx
  BY <1>1
<1>4. Left(Advance(f)) = Left(f) \ {Step(f)}
  BY <1>1, <1>2, <1>3 DEF Left
<1>5. ASSUME f.idx >= f.len PROVE (f.idx + 1)..f.len = {}
  BY <1>1, <1>5
<1> QED
  BY <1>1, <1>4, <1>5 DEF Left

(* The step in hand is the next of the walk, and its siblings are what the  *)
(* entry in hand has left.                                                  *)
LEMMA InHandForemost ==
  ASSUME TypeOK, Nested, Busy, cur.idx <= cur.len
  PROVE  /\ Todo = Left(cur) \cup Others
         /\ Step(cur) \in Left(cur) /\ Step(cur) \notin Others
         /\ Walked!Foremost(Step(cur))
         /\ \A t \in Todo : Walked!Sibling(Step(cur), t) <=> t \notin Others
<1> DEFINE p == cur.prefix
           s == Step(cur)
<1>1. /\ p \in Prefix /\ cur.idx \in Nat /\ cur.len \in Nat /\ Len(p) \in Nat
      /\ cur.idx \in cur.idx..cur.len
  BY DEF TypeOK, Frame, Prefix
<1>2. Todo = Left(cur) \cup Others
  BY DEF Todo, Held, Others
<1>3. s \in Left(cur)
  BY <1>1 DEF Left, Step
<1>4. Len(s) = Len(p) + 1 /\ s[Len(s)] = cur.idx /\ SubSeq(s, 1, Len(p)) = p
  BY <1>1, AppendParts DEF Step
<1>5. ASSUME NEW t \in Others PROVE Len(t) < Len(s) /\ Len(t) \in Nat
  <2>1. PICK f \in Entries(stack) : t \in Left(f)
    BY DEF Others
  <2>2. f \in Frame /\ Below(f.prefix, p)
    BY EntriesType DEF Nested, Over, Entries
  <2>3. PICK i \in f.idx..f.len : t = Append(f.prefix, i)
    BY <2>1 DEF Left
  <2>4. i \in Nat /\ f.prefix \in Prefix /\ Len(f.prefix) \in Nat
    BY <2>2 DEF Frame, Prefix
  <2>5. Len(t) = Len(f.prefix) + 1
    BY <2>3, <2>4, AppendParts
  <2> QED
    BY <1>1, <1>4, <2>2, <2>4, <2>5 DEF Below
<1>6. ASSUME NEW t \in Left(cur)
      PROVE  Walked!Sibling(s, t) /\ (t # s => s[Len(s)] < t[Len(t)])
  <2>1. PICK i \in cur.idx..cur.len : t = Append(p, i)
    BY DEF Left
  <2>2. i \in Nat /\ i >= cur.idx
    BY <1>1
  <2>3. Len(t) = Len(p) + 1 /\ t[Len(t)] = i /\ SubSeq(t, 1, Len(p)) = p
    BY <1>1, <2>1, <2>2, AppendParts
  <2>4. Len(s) - 1 = Len(p) /\ Len(t) - 1 = Len(p)
    BY <1>1, <1>4, <2>3
  <2>5. t # s => i # cur.idx
    BY <2>1 DEF Step
  <2>6. Walked!Sibling(s, t)
    BY <1>4, <2>3, <2>4 DEF Walked!Sibling
  <2>7. t # s => cur.idx < i
    BY <1>1, <2>2, <2>5
  <2> QED
    BY <1>4, <2>3, <2>6, <2>7
<1>7. s \notin Others
  BY <1>5
<1>8. \A t \in Others : ~Walked!Sibling(s, t)
  <2>1. \A t \in Others : Len(s) # Len(t)
    BY <1>1, <1>4, <1>5
  <2> QED
    BY <2>1 DEF Walked!Sibling
<1>9. Walked!Foremost(s)
  BY <1>2, <1>5, <1>6 DEF Walked!Foremost, Walked!Last
<1>10. \A t \in Todo : Walked!Sibling(s, t) <=> t \notin Others
  BY <1>2, <1>6, <1>8
<1> QED
  BY <1>2, <1>3, <1>7, <1>9, <1>10

-----------------------------------------------------------------------------
(* Steps of the run that leave the walk where it is.                        *)
LEMMA WalkRests ==
  ASSUME TypeOK, Nested,
         \/ Pop \/ Drain \/ HandlePause \/ HandleResume \/ HandleRerun
         \/ HandleCancelStep \/ Handled \/ StayPaused \/ SkipFinished
         \/ StartStep \/ PublishPrefix \/ PublishCancel \/ Execute
         \/ SubAgentEnds \/ SubAgentCancelled \/ ClearCancel \/ ClearPrefix
         \/ RetryStep \/ RetrySummary
  PROVE  Todo' = Todo /\ Outcome' = Outcome
<1> USE DEF walkVars, loopVars
<1>0. cur \in Frame /\ stack \in Seq(Frame)
  BY DEF TypeOK
<1>1. CASE Pop
  <2>1. /\ ~Busy /\ Busy' /\ cur' = Head(stack)
        /\ Entries(stack) = {cur'} \cup Entries(stack')
    BY <1>0, <1>1, TailEntries DEF Pop, Busy
  <2>2. Todo' = Todo
    BY <2>1 DEF Todo, Held
  <2> QED
    BY <1>1, <2>2 DEF Pop, Outcome
<1>2. CASE SkipFinished
  <2>1. stack' = stack /\ Busy /\ ~Busy' /\ cur.idx > cur.len
    BY <1>2 DEF SkipFinished, Busy
  <2>2. Left(cur) = {}
    <3>1. cur.idx..cur.len = {}
      BY <1>0, <2>1 DEF Frame
    <3> QED
      BY <3>1 DEF Left
  <2>3. Todo' = Todo
    BY <2>1, <2>2 DEF Todo, Held
  <2> QED
    BY <1>2, <2>3 DEF SkipFinished, Outcome
<1>3. CASE RetryStep \/ RetrySummary
  <2>1. /\ stack' = Push(cur, stack) /\ pc = "settle" /\ pc' = "pop"
    BY <1>3 DEF RetryStep, RetrySummary, Judging, Summarizing, Settling
  <2>2. Entries(stack') = {cur} \cup Entries(stack) /\ Busy /\ ~Busy'
    BY <1>0, <2>1, PushEntries DEF Busy
  <2>3. Todo' = Todo
    BY <2>2 DEF Todo, Held
  <2> QED
    BY <2>1, <2>3 DEF Outcome
<1>4. CASE \/ Drain \/ HandlePause \/ HandleResume \/ HandleRerun
           \/ HandleCancelStep \/ Handled \/ StayPaused
           \/ StartStep \/ PublishPrefix \/ PublishCancel \/ Execute
           \/ SubAgentEnds \/ SubAgentCancelled \/ ClearCancel \/ ClearPrefix
  <2>1. /\ UNCHANGED <<stack, cur>> /\ Busy /\ Busy'
        /\ pc \notin {"completed", "aborted", "error"}
        /\ pc' \notin {"completed", "aborted", "error"}
    <3>1. CASE \/ Drain \/ HandlePause \/ HandleResume \/ HandleRerun
               \/ HandleCancelStep \/ Handled \/ StayPaused
      BY <3>1 DEF Drain, HandlePause, HandleResume, HandleRerun,
         HandleCancelStep, Handling, Handled, StayPaused, Busy
    <3>2. CASE \/ StartStep \/ PublishPrefix \/ PublishCancel \/ Execute
               \/ SubAgentEnds \/ SubAgentCancelled \/ ClearCancel
               \/ ClearPrefix
      BY <3>2 DEF StartStep, PublishPrefix, PublishCancel, Execute,
         SubAgentEnds, SubAgentCancelled, ClearCancel, ClearPrefix, Busy
    <3> QED
      BY <1>4, <3>1, <3>2
  <2>2. Todo' = Todo
    BY <2>1 DEF Todo, Held
  <2> QED
    BY <2>1, <2>2 DEF Outcome
<1> QED
  BY <1>1, <1>2, <1>3, <1>4

(* Steps with which run returns.                                            *)
LEMMA WalkEnded ==
  ASSUME TypeOK, Complete \/ HandleAbort \/ SubAgentErrs \/ SettleErrs
  PROVE  Walked!Finish \/ Walked!GiveUp
<1> USE DEF walkVars, loopVars
<1>1. CASE Complete
  <2>1. UNCHANGED <<stack, cur>> /\ Entries(stack) = {} /\ ~Busy /\ ~Busy'
    BY <1>1 DEF Complete, Busy, Entries
  <2>2. Todo = {} /\ Todo' = Todo
    BY <2>1 DEF Todo, Held
  <2>3. Outcome = "running" /\ Outcome' = "completed"
    BY <1>1 DEF Complete, Outcome
  <2> QED
    BY <2>2, <2>3 DEF Walked!Finish
<1>2. CASE HandleAbort \/ SubAgentErrs \/ SettleErrs
  <2>1. /\ UNCHANGED <<stack, cur>> /\ pc \in {"handle", "run", "settle"}
        /\ pc' \in {"aborted", "error"}
    BY <1>2 DEF HandleAbort, Handling, SubAgentErrs, SettleErrs
  <2>2. Todo' = Todo
    BY <2>1 DEF Todo, Held, Busy
  <2>3. Outcome = "running" /\ Outcome' = "gave up"
    BY <2>1 DEF Outcome
  <2> QED
    BY <2>2, <2>3 DEF Walked!GiveUp
<1> QED
  BY <1>1, <1>2

(* Steps that are done with the step in hand, for now.                      *)
LEMMA WalkTakes ==
  ASSUME TypeOK, Nested, WalkInv,
         \/ CancelBeforeStep \/ CancelAfterStep \/ SplitStep \/ FailStep
         \/ CompleteStep \/ RejectStep
  PROVE  Walked!Take
<1> DEFINE s == Step(cur)
<1> USE DEF walkVars, loopVars
<1>0. /\ cur \in Frame /\ stack \in Seq(Frame) /\ s \in Prefix
      /\ Advance(cur) \in Frame /\ task.child \in SUBSET Nat
  BY StepType, AdvanceType DEF TypeOK
<1>1. /\ pc \in {"armed", "settle"} /\ pc' = "pop" /\ Busy /\ ~Busy'
      /\ cur.idx <= cur.len
  BY DEF CancelBeforeStep, CancelAfterStep, Shelve, SplitStep, FailStep,
     CompleteStep, RejectStep, Judging, Summarizing, Settling, WalkInv, InStep,
     Busy
<1>2. Outcome = "running" /\ Outcome' = Outcome
  BY <1>1 DEF Outcome
<1>3. /\ Todo = Left(cur) \cup Others
      /\ s \in Left(cur) /\ s \notin Others /\ Walked!Foremost(s)
      /\ \A t \in Todo : Walked!Sibling(s, t) <=> t \notin Others
  BY <1>1, InHandForemost
<1>4. Todo' = UNION {Left(f) : f \in Entries(stack')}
  BY <1>1 DEF Todo, Held
<1>5. SUFFICES Walked!Settle(s) \/ Walked!Split(s) \/ Walked!Drop(s)
  BY <1>2, <1>3 DEF Walked!Take
<1>6. UNION {Left(f) : f \in Entries(Push(cur, stack))} = Todo
  BY <1>0, <1>3, LeftOfPushed DEF Others
<1>7. /\ Push(Advance(cur), stack) \in Seq(Frame)
      /\ UNION {Left(f) : f \in Entries(Push(Advance(cur), stack))}
            = Todo \ {s}
  <2>1. UNION {Left(f) : f \in Entries(Push(Advance(cur), stack))}
           = Left(Advance(cur)) \cup Others
    BY <1>0, LeftOfPushed DEF Others
  <2>2. Left(Advance(cur)) = Left(cur) \ {s}
    BY <1>0, LeftAdvanced
  <2> QED
    BY <1>0, <1>3, <2>1, <2>2, PushType
<1>8. /\ Rest \in Seq(Frame)
      /\ UNION {Left(f) : f \in Entries(Rest)} = Todo \ {s}
  <2>1. CASE cur.idx < cur.len
    BY <1>7, <2>1 DEF Rest
  <2>2. CASE ~(cur.idx < cur.len)
    <3>1. cur.idx >= cur.len
      BY <1>0, <2>2 DEF Frame
    <3>2. Left(cur) \ {s} = {}
      BY <1>0, <3>1, LeftAdvanced
    <3> QED
      BY <1>0, <1>3, <2>2, <3>2 DEF Rest, Others
  <2> QED
    BY <2>1, <2>2
<1>9. ASSUME NEW n \in task.child, NEW r \in Seq(Frame)
      PROVE  /\ n \in ChildLens
             /\ UNION {Left(f) : f \in Entries(ChildOnTop(n, r))}
                   = Walked!Steps(s, n) \cup UNION {Left(f) : f \in Entries(r)}
  <2>1. n \in Nat /\ n \in ChildLens
    BY <1>0 DEF WalkInv
  <2>2. Child(s, n) \in Frame
    BY <1>0, <2>1, ChildType
  <2>3. Left(Child(s, n)) = Walked!Steps(s, n)
    BY <1>0, <2>1, LeftOfChild
  <2> QED
    BY <2>1, <2>2, <2>3, LeftOfPushed DEF ChildOnTop
<1>10. Walked!Steps(s, 0) = {}
  BY DEF Walked!Steps
<1>11. CASE CancelBeforeStep \/ CancelAfterStep \/ RejectStep
  <2>1. stack' = stack
    BY <1>11 DEF CancelBeforeStep, CancelAfterStep, RejectStep
  <2>2. Todo' = Others
    BY <1>4, <2>1 DEF Others
  <2>3. Todo' = {t \in Todo : ~Walked!Sibling(s, t)}
    BY <1>3, <2>2
  <2> QED
    BY <2>3 DEF Walked!Drop
<1>12. CASE SplitStep
  <2>1. PICK n \in task.child : stack' = ChildOnTop(n, Push(cur, stack))
    BY <1>12 DEF SplitStep
  <2>2. n \in ChildLens /\ Todo' = Todo \cup Walked!Steps(s, n)
    BY <1>0, <1>4, <1>6, <1>9, <2>1, PushType
  <2> QED
    BY <2>2 DEF Walked!Split
<1>13. CASE FailStep
  <2>1. Todo' = (Todo \ {s}) \cup Walked!Steps(s, 0)
    BY <1>4, <1>7, <1>10, <1>13 DEF FailStep
  <2> QED
    BY <2>1 DEF Walked!Settle
<1>14. CASE CompleteStep
  <2>1. CASE stack' = Rest
    <3>1. Todo' = (Todo \ {s}) \cup Walked!Steps(s, 0)
      BY <1>4, <1>8, <1>10, <2>1
    <3> QED
      BY <3>1 DEF Walked!Settle
  <2>2. ASSUME NEW n \in task.child, stack' = ChildOnTop(n, Rest)
        PROVE  Walked!Settle(s)
    <3>1. n \in ChildLens /\ Todo' = (Todo \ {s}) \cup Walked!Steps(s, n)
      BY <1>4, <1>8, <1>9, <2>2
    <3> QED
      BY <3>1 DEF Walked!Settle
  <2> QED
    BY <1>14, <2>1, <2>2 DEF CompleteStep
<1> QED
  BY <1>11, <1>12, <1>13, <1>14

(* The orchestrator implements the walk: whatever ways steps end in, and    *)
(* whenever the run is paused, resumed, cancelled or aborted, the step it   *)
(* settles is the next of the plan, child specs come before what is left of *)
(* their parent, and it completes only when no step is left.                *)
THEOREM RefinesWalkCorrect ==
  ASSUME \A c \in Requests : Plain(c)
  PROVE  Spec => RefinesWalk
<1> DEFINE Inv == PlainInv /\ Nested /\ WalkInv
<1>1. Init => Inv /\ Walked!Init
  <2> SUFFICES ASSUME Init PROVE Inv /\ Walked!Init
    OBVIOUS
  <2>1. Inv
    BY DEF Init, PlainInv, AllPlain, Nested, Chain, Busy, WalkInv, InStep
  <2>2. Entries(stack) = {Root} /\ Held = {} /\ Outcome = "running"
    BY DEF Init, Entries, Held, Busy, Outcome
  <2>3. Todo = Left(Root)
    BY <2>2 DEF Todo
  <2>4. Left(Root) = Walked!Steps(<<>>, RootLen)
    BY DEF Left, Root, Walked!Steps
  <2> QED
    BY <2>1, <2>2, <2>3, <2>4 DEF Walked!Init
<1>2. /\ TypeOK /\ Inv /\ [Next]_vars
      => Inv' /\ [Walked!Next]_<<Todo, Outcome>>
  <2> SUFFICES ASSUME TypeOK, Inv, [Next]_vars
               PROVE  Inv' /\ [Walked!Next]_<<Todo, Outcome>>
    OBVIOUS
  <2>1. CASE Operator \/ Calling \/ UNCHANGED vars
    <3>1. UNCHANGED <<stack, cur, pc, site, task>>
      BY <2>1 DEF Operator, Calling, Call, MatchPrefix, SignalCancel,
         SendCommand, vars, walkVars, loopVars
    <3>2. PlainInv'
      BY <2>1, PlainOperator DEF vars, controlVars, loopVars, PlainInv,
         AllPlain
    <3>3. Nested' /\ WalkInv' /\ Todo' = Todo /\ Outcome' = Outcome
      BY <3>1 DEF Nested, Chain, Over, Busy, WalkInv, InStep, Todo, Held,
         Outcome
    <3> QED
      BY <3>2, <3>3
  <2>2. CASE RunLoop
    <3>1. PlainInv' /\ ~HandleInjectSplit /\ ~HandleResumeStep
      BY <2>2, PlainLoop
    <3>2. Nested' /\ WalkInv'
      BY <2>2, <3>1, NestedLoop, WalkInvLoop
    <3>3. [Walked!Next]_<<Todo, Outcome>>
      BY <2>2, <3>1, WalkRests, WalkEnded, WalkTakes DEF RunLoop,
         HandleCommand, Walked!Next
    <3> QED
      BY <3>1, <3>2, <3>3
  <2> QED
    BY <2>1, <2>2 DEF Next, Terminated
<1> QED
  BY <1>1, <1>2, TypeCorrect, PTL DEF Spec, RefinesWalk, Walked!Spec
=============================================================================
