--------------------------- MODULE DebuggerProofs ---------------------------
(***************************************************************************)
(* The debug console with any number of connections, whatever breakpoints  *)
(* and watches do, and also when instructions cannot be decoded: what the  *)
(* tests of breakpoint_triggered and args in the handlers are good for,    *)
(* and what else has to happen before they are not.                        *)
(***************************************************************************)
EXTENDS Debugger, TLAPS

\* What the proofs need to know of the types.
HandlerType ==
    /\ client \in [Client -> {"idle", "release", "unstop", "wake", "write", "args?", "load", "show"}]
    /\ held \in [Client -> {"none", "null", "operands", "gone"}]
    /\ saw \in [Client -> {"none", "lasts", "continued", "undecoded"}]

\* args points at operands from the entry of at_breakpoint to its last store.
ArgsOfPause == args <=> pc \in {"paused", "leave"}

\* The flag is up from the test that raised it to the end of the pause, or to
\* the next if_breakpoint when the instruction could not be decoded.
TriggeredInPause ==
    /\ breakpoint_triggered => pc \in {"consume", "decode", "paused", "head", "reset", "returned"}
    /\ breakpoint_triggered /\ pc \in {"consume", "decode"} => reached
    /\ pc = "consume" => reached

\* A pause that a handler saw lasts no longer than the flag is up.
SeenWhileTriggered == \A c \in Client : saw[c] = "lasts" => breakpoint_triggered

\* A handler past its test has seen a pause.
TestedSaw ==
    \A c \in Client : client[c] \in {"release", "args?", "load", "show"} => saw[c] # "none"

\* Past the test of args the guest is in at_breakpoint, and past the load the
\* handler has its operands, as long as the pause lasts.
LoadsOperands ==
    \A c \in Client : saw[c] = "lasts" =>
        /\ client[c] \in {"load", "show"} => pc = "paused"
        /\ client[c] = "show" => held[c] = "operands"

DebugInv ==
    /\ HandlerType /\ ArgsOfPause /\ TriggeredInPause /\ SeenWhileTriggered
    /\ TestedSaw /\ LoadsOperands /\ PauseHolds

\* Nothing is paused and no request under way when the server starts.
LEMMA DebugInit == Init => DebugInv
BY DEF Init, DebugInv, HandlerType, ArgsOfPause, TriggeredInPause, SeenWhileTriggered,
       TestedSaw, LoadsOperands, PauseHolds

\* The part of the invariant that speaks of handlers holds where no pause is
\* seen to last.
LEMMA NoneLasts ==
    ASSUME HandlerType, TestedSaw, HandlerType', UNCHANGED client,
           \A c \in Client : saw'[c] # "lasts" /\ (saw'[c] = "none" => saw[c] = "none")
    PROVE  SeenWhileTriggered' /\ TestedSaw' /\ LoadsOperands'
BY DEF SeenWhileTriggered, TestedSaw, LoadsOperands

\* The steps of if_breakpoint keep the invariant.
LEMMA ConditionKeeps ==
    ASSUME DebugInv, ResetTriggered \/ TestFlags \/ TestLists PROVE DebugInv'
<1> USE DEF DebugInv
<1>1. CASE ResetTriggered
  <2> USE <1>1 DEF ResetTriggered
  <2>1. saw' = [c \in Client |-> IF saw[c] = "lasts" THEN "undecoded" ELSE saw[c]]
    BY DEF PauseOver
  <2>2. HandlerType'
    BY <2>1 DEF HandlerType
  <2>3. SeenWhileTriggered' /\ TestedSaw' /\ LoadsOperands'
    BY <2>1, <2>2, NoneLasts DEF HandlerType
  <2>4. ArgsOfPause' /\ TriggeredInPause' /\ PauseHolds'
    BY DEF ArgsOfPause, TriggeredInPause, PauseHolds
  <2> QED BY <2>2, <2>3, <2>4
<1>2. CASE TestFlags \/ TestLists
  <2>1. pc \in {"flags", "lists"} /\ UNCHANGED <<client, held, args, stale>>
    BY <1>2 DEF TestFlags, TestLists
  <2>2. ~breakpoint_triggered
    BY <2>1 DEF TriggeredInPause
  <2>3. \A c \in Client : saw[c] # "lasts"
    BY <2>2 DEF SeenWhileTriggered
  <2>4. \/ /\ breakpoint_triggered' = TRUE /\ reached' = TRUE /\ pc' \in {"consume", "decode"}
           /\ saw' = [c \in Client |-> IF saw[c] = "lasts" THEN "none" ELSE saw[c]]
        \/ pc' \in {"lists", "decode"} /\ UNCHANGED <<breakpoint_triggered, saw>>
    BY <1>2 DEF TestFlags, TestLists, Trigger, PauseOver
  <2>5. saw' = saw
    BY <2>3, <2>4 DEF HandlerType
  <2>6. HandlerType'
    BY <2>1, <2>5 DEF HandlerType
  <2>7. SeenWhileTriggered' /\ TestedSaw' /\ LoadsOperands'
    BY <2>1, <2>3, <2>5, <2>6, NoneLasts
  <2>8. ArgsOfPause' /\ TriggeredInPause' /\ PauseHolds'
    BY <2>1, <2>2, <2>4 DEF ArgsOfPause, TriggeredInPause, PauseHolds
  <2> QED BY <2>6, <2>7, <2>8
<1> QED BY <1>1, <1>2

\* So do the steps at which an instruction is decoded, paused at and left.
LEMMA PauseKeeps ==
    ASSUME DebugInv,
           CheckHalted \/ ConsumeStop \/ Decode \/ DecodeFails \/ AtBreakpoint \/ LeaveBreakpoint
    PROVE  DebugInv'
<1> USE DEF DebugInv
<1>1. UNCHANGED <<client, held, saw, stale, breakpoint_triggered>>
  BY DEF CheckHalted, ConsumeStop, Decode, DecodeFails, AtBreakpoint, LeaveBreakpoint,
         flagVars, histVars
<1>2. HandlerType' /\ SeenWhileTriggered' /\ TestedSaw' /\ PauseHolds'
  BY <1>1 DEF HandlerType, SeenWhileTriggered, TestedSaw, PauseHolds
<1>3. ArgsOfPause' /\ TriggeredInPause'
  <2> USE DEF ArgsOfPause, TriggeredInPause, flagVars, guestVars
  <2>1. CASE CheckHalted \/ ConsumeStop \/ DecodeFails
    BY <2>1, <1>1 DEF CheckHalted, ConsumeStop, DecodeFails
  <2>2. CASE Decode
    <3>1. /\ pc = "decode" /\ args' = (Int3DebugInterrupt \/ reached)
          /\ pc' = IF Int3DebugInterrupt \/ reached THEN "paused" ELSE "run"
      BY <2>2 DEF Decode
    <3>2. ArgsOfPause'
      BY <3>1, Zenon
    <3>3. breakpoint_triggered => pc' = "paused"
      BY <3>1
    <3>4. TriggeredInPause'
      BY <3>1, <3>3, <1>1
    <3> QED BY <3>2, <3>4
  <2>3. CASE AtBreakpoint \/ LeaveBreakpoint
    BY <2>3, <1>1 DEF AtBreakpoint, LeaveBreakpoint
  <2> QED BY <2>1, <2>2, <2>3
<1>4. breakpoint_triggered /\ pc = "paused" => pc' = "paused"
  BY DEF CheckHalted, ConsumeStop, Decode, DecodeFails, AtBreakpoint, LeaveBreakpoint
<1>5. LoadsOperands'
  BY <1>1, <1>4 DEF LoadsOperands, SeenWhileTriggered
<1> QED BY <1>2, <1>3, <1>5

\* So do the instructions: no pause lasts while one executes.
LEMMA ExecutionKeeps ==
    ASSUME DebugInv, ExecPlain \/ ExecInt3 \/ ExecGetInput \/ InputInterrupted \/ InputTyped
    PROVE  DebugInv'
<1> USE DEF DebugInv
<1>1. pc \in {"run", "waiting"} /\ pc' \in {"head", "waiting"}
  BY DEF ExecPlain, ExecInt3, ExecGetInput, InputInterrupted, InputTyped
<1>2. UNCHANGED <<client, saw, stale, args, breakpoint_triggered>>
  BY DEF ExecPlain, ExecInt3, ExecGetInput, InputInterrupted, InputTyped, flagVars, histVars
<1>3. held' \in [Client -> {"none", "null", "operands", "gone"}]
  <2>1. OperandsDie \/ UNCHANGED held
    BY DEF ExecPlain, ExecInt3, ExecGetInput, InputInterrupted, InputTyped
  <2> QED BY <2>1 DEF OperandsDie, HandlerType
<1>4. HandlerType'
  BY <1>2, <1>3 DEF HandlerType
<1>5. ~breakpoint_triggered
  BY <1>1 DEF TriggeredInPause
<1>6. SeenWhileTriggered' /\ TestedSaw' /\ LoadsOperands'
  BY <1>2, <1>4, <1>5, NoneLasts DEF SeenWhileTriggered
<1>7. ArgsOfPause' /\ TriggeredInPause' /\ PauseHolds'
  BY <1>1, <1>2, <1>5 DEF ArgsOfPause, TriggeredInPause, PauseHolds
<1> QED BY <1>4, <1>6, <1>7

\* So do a Continue and its store, which is the end of the pause for every
\* handler that saw it.
LEMMA ContinueKeeps ==
    ASSUME DebugInv, NEW c \in Client, ContinueBegins(c) \/ ContinueReleases(c) PROVE DebugInv'
<1> USE DEF DebugInv
<1>1. CASE ContinueBegins(c)
  <2>1. /\ breakpoint_triggered /\ client[c] = "idle"
        /\ client' = [client EXCEPT ![c] = "release"]
        /\ saw' = [saw EXCEPT ![c] = "lasts"]
        /\ UNCHANGED <<pc, reached, held, stale, args, breakpoint_triggered>>
    BY <1>1 DEF ContinueBegins, Begins, CpuElsewhere, guestVars, flagVars
  <2>2. HandlerType'
    BY <2>1 DEF HandlerType
  <2>3. SeenWhileTriggered' /\ TestedSaw' /\ LoadsOperands'
    BY <2>1 DEF HandlerType, SeenWhileTriggered, TestedSaw, LoadsOperands
  <2>4. ArgsOfPause' /\ TriggeredInPause' /\ PauseHolds'
    BY <2>1 DEF ArgsOfPause, TriggeredInPause, PauseHolds
  <2> QED BY <2>2, <2>3, <2>4
<1>2. CASE ContinueReleases(c)
  <2>1. /\ client[c] = "release" /\ client' = [client EXCEPT ![c] = "unstop"]
        /\ breakpoint_triggered' = FALSE
        /\ stale' = (stale \/ (breakpoint_triggered /\ saw[c] = "none"))
        /\ saw' = [d \in Client |-> IF saw[d] = "lasts" THEN "continued" ELSE saw[d]]
        /\ UNCHANGED <<pc, reached, held, args>>
    BY <1>2 DEF ContinueReleases, Goes, PauseOver, CpuElsewhere, guestVars
  <2>2. HandlerType'
    BY <2>1 DEF HandlerType
  <2>3. \A d \in Client : saw'[d] # "lasts" /\ (saw'[d] = "none" => saw[d] = "none")
    BY <2>1 DEF HandlerType
  <2>4. SeenWhileTriggered' /\ LoadsOperands'
    BY <2>3 DEF SeenWhileTriggered, LoadsOperands
  <2>5. TestedSaw'
    BY <2>1, <2>3 DEF HandlerType, TestedSaw
  <2>6. PauseHolds'
    BY <2>1 DEF TestedSaw, PauseHolds
  <2>7. ArgsOfPause' /\ TriggeredInPause'
    BY <2>1 DEF ArgsOfPause, TriggeredInPause
  <2> QED BY <2>2, <2>4, <2>5, <2>6, <2>7
<1> QED BY <1>1, <1>2

\* So do the three looks of a handler at what it shows.
LEMMA ContextKeeps ==
    ASSUME DebugInv, NEW c \in Client,
           ContextBegins(c) \/ ContextTestsArgs(c) \/ ContextLoadsArgs(c) \/ ContextShows(c)
    PROVE  DebugInv'
<1> USE DEF DebugInv
<1>1. UNCHANGED <<pc, reached, stale, args, breakpoint_triggered>>
  BY DEF ContextBegins, ContextTestsArgs, ContextLoadsArgs, ContextShows,
         CpuElsewhere, guestVars, flagVars, histVars
<1>2. ArgsOfPause' /\ TriggeredInPause' /\ PauseHolds'
  BY <1>1 DEF ArgsOfPause, TriggeredInPause, PauseHolds
<1>3. CASE ContextBegins(c)
  <2>1. /\ breakpoint_triggered /\ client' = [client EXCEPT ![c] = "args?"]
        /\ saw' = [saw EXCEPT ![c] = "lasts"] /\ UNCHANGED held
    BY <1>3 DEF ContextBegins, Begins
  <2> QED BY <1>1, <1>2, <2>1 DEF HandlerType, SeenWhileTriggered, TestedSaw, LoadsOperands
<1>4. CASE ContextTestsArgs(c)
  <2>1. /\ client[c] = "args?"
        /\ client' = [client EXCEPT ![c] = IF args THEN "load" ELSE "idle"]
        /\ UNCHANGED <<held, saw>>
    BY <1>4 DEF ContextTestsArgs, Goes, histVars
  <2>2. args /\ saw[c] = "lasts" => pc = "paused"
    BY DEF ArgsOfPause, SeenWhileTriggered, TriggeredInPause
  <2> QED BY <1>1, <1>2, <2>1, <2>2 DEF HandlerType, SeenWhileTriggered, TestedSaw, LoadsOperands
<1>5. CASE ContextLoadsArgs(c)
  <2>1. /\ client[c] = "load" /\ client' = [client EXCEPT ![c] = "show"]
        /\ held' = [held EXCEPT ![c] = IF args THEN "operands" ELSE "null"]
        /\ UNCHANGED saw
    BY <1>5 DEF ContextLoadsArgs, Goes, histVars
  <2>2. saw[c] = "lasts" => args
    BY <2>1 DEF ArgsOfPause, LoadsOperands
  <2> QED BY <1>1, <1>2, <2>1, <2>2 DEF HandlerType, SeenWhileTriggered, TestedSaw, LoadsOperands
<1>6. CASE ContextShows(c)
  <2>1. /\ client[c] = "show" /\ client' = [client EXCEPT ![c] = "idle"]
        /\ held' = [held EXCEPT ![c] = "none"]
        /\ UNCHANGED saw
    BY <1>6 DEF ContextShows, Goes, histVars
  <2> QED BY <1>1, <1>2, <2>1 DEF HandlerType, SeenWhileTriggered, TestedSaw, LoadsOperands
<1> QED BY <1>3, <1>4, <1>5, <1>6

\* So do the other requests, which touch neither the flag nor args.
LEMMA OthersKeep ==
    ASSUME DebugInv, NEW c \in Client,
           \/ ContinueUnstops(c) \/ BreakStops(c) \/ BreakWakes(c) \/ SetStepi(c)
           \/ SetBegins(c) \/ SetWrites(c) \/ SetBreakpoint(c) \/ Watcher(c)
           \/ \E a \in Address : DeleteBreakpoint(c, a)
    PROVE  DebugInv'
<1>1. UNCHANGED <<pc, reached, held, saw, stale, args, breakpoint_triggered>>
  BY DEF ContinueUnstops, BreakStops, BreakWakes, SetStepi, SetBegins, SetWrites, SetBreakpoint,
         Watcher, DeleteBreakpoint, CpuElsewhere, guestVars, flagVars, histVars
<1>2. UNCHANGED client \/ \E step \in {"idle", "wake", "write"} : client' = [client EXCEPT ![c] = step]
  BY DEF ContinueUnstops, BreakStops, BreakWakes, SetStepi, SetBegins, SetWrites, SetBreakpoint,
         Watcher, DeleteBreakpoint, Begins, Goes
<1> QED BY <1>1, <1>2 DEF DebugInv, HandlerType, ArgsOfPause, TriggeredInPause, SeenWhileTriggered,
                          TestedSaw, LoadsOperands, PauseHolds

\* Every step keeps the inductive invariant.
LEMMA DebugNext == DebugInv /\ [Next]_vars => DebugInv'
<1> SUFFICES ASSUME DebugInv, [Next]_vars PROVE DebugInv'
  OBVIOUS
<1>1. CASE UNCHANGED vars \/ PressEscape
  <2>1. UNCHANGED <<pc, reached, client, held, saw, stale, args, breakpoint_triggered>>
    BY <1>1 DEF vars, PressEscape, guestVars, flagVars, histVars
  <2> QED BY <2>1 DEF DebugInv, HandlerType, ArgsOfPause, TriggeredInPause, SeenWhileTriggered,
                      TestedSaw, LoadsOperands, PauseHolds
<1>2. CASE Cpu \/ InputTyped
  BY <1>2, ConditionKeeps, PauseKeeps, ExecutionKeeps DEF Cpu
<1>3. ASSUME NEW c \in Client, Request(c) \/ Handler(c) PROVE DebugInv'
  BY <1>3, ContinueKeeps, ContextKeeps, OthersKeep DEF Request, Handler
<1> QED BY <1>1, <1>2, <1>3 DEF Next

\* So it holds in every reachable state.
LEMMA DebugInvariance == Spec => []DebugInv
BY DebugInit, DebugNext, PTL DEF Spec

(***************************************************************************)
(* show_context reads operands that execute() keeps alive, with any number *)
(* of connections and any guest, unless the pause that its handler's test  *)
(* saw was ended by another connection or by an instruction that could not *)
(* be decoded.                                                             *)
(***************************************************************************)
THEOREM ContextStaysAlive == Spec => []ContextAlive
<1>1. DebugInv => ContextAlive
  BY DEF DebugInv, HandlerType, TestedSaw, LoadsOperands, ContextAlive
<1> QED BY <1>1, DebugInvariance, PTL

(***************************************************************************)
(* No Continue ends a pause without having seen one, with any number of    *)
(* connections and any guest; that it ends another than it saw takes a     *)
(* second connection or an instruction that could not be decoded.          *)
(***************************************************************************)
THEOREM PausesHold == Spec => []PauseHolds
<1>1. DebugInv => PauseHolds
  BY DEF DebugInv
<1> QED BY <1>1, DebugInvariance, PTL
=============================================================================
