--------------------------- MODULE Commands_proofs ---------------------------
(***************************************************************************)
(* Proofs about Commands, Lifecycle and Configuration, for every set of    *)
(* invocations and any number of signals.                                  *)
(***************************************************************************)
EXTENDS Commands, TLAPS

-----------------------------------------------------------------------------
(* What the validators are worth *)

\* A number below the modulus is its own remainder.
LEMMA SmallModulo == ASSUME NEW x \in Nat, NEW k \in Nat, x < k PROVE x % k = x
  BY SMT

\* A period of at least one unit that is within a time.Duration ticks.
LEMMA FittingTicks ==
    ASSUME NEW n \in Nat, n > 0, NEW unit \in Nat \ {0}, n * unit <= MaxInt
    PROVE  Ticks(n, unit)
  <1> DEFINE p == n * unit
             m == MaxInt + 1
  <1>1. p \in Nat /\ p > 0
    BY SMT
  <1>2. m \in Nat /\ p + m >= 0 /\ p + m < 2 * m
    BY <1>1, IntegersAssumption
  <1>3. (p + m) % (2 * m) = p + m
    <2> HIDE DEF p, m
    <2> QED
      BY <1>1, <1>2, SmallModulo
  <1>4. Duration(n, unit) = ((p + m) % (2 * m)) - m
    BY <1>1, IntegersAssumption DEF Duration
  <1>5. Duration(n, unit) = p
    <2> HIDE DEF p, m
    <2> QED
      BY <1>1, <1>2, <1>3, <1>4
  <1> QED
    BY <1>1, <1>5 DEF Ticks

\* Settings in range that the validators of replay and barrage accept make no
\* goroutine panic.
LEMMA InRangeNeverPanics ==
    ASSUME NEW cmd \in {"replay", "barrage"}, NEW c, InRange(cmd, c),
           c.delay > 0, c.workers >= 1, cmd = "barrage" => c.templateInterval >= 0
    PROVE  Ticking(cmd, c) /\ Employs(cmd, c)
  <1>1. Ticks(c.delay, Millisecond)
    BY FittingTicks, IntegersAssumption DEF InRange
  <1>2. cmd = "barrage" /\ c.templateInterval > 0 => Ticks(c.templateInterval, Second)
    BY FittingTicks, IntegersAssumption DEF InRange
  <1> QED
    BY <1>1, <1>2 DEF InRange, Ticking, Employs

\* The settings the validators of record, proxy, replay and barrage accept are
\* settings their pipelines can run, whatever values a file or the flags have put
\* there, if delays fit a time.Duration and the goroutines a WaitGroup.
THEOREM ValidIsRunnable ==
    ASSUME NEW cmd \in Validated, NEW c, NEW env, Valid(cmd, c, env), InRange(cmd, c)
    PROVE  Runnable(cmd, c)
  <1>1. cmd = "record" => Listens(c.ip, c.port)
    BY DEF Valid, ValidateRecord, Listens
  <1>2. ASSUME cmd = "proxy" PROVE Listens(c.ip, c.port) /\ Relays(c.targets)
    <2>1. ValidateProxy(c)
      BY <1>2 DEF Valid
    <2>2. Len(c.targets) \in 1..MaxTargets /\ MaxTargets \in Nat
      BY <2>1 DEF ValidateProxy, MaxTargets
    <2>3. c.targets # <<>> /\ Len(c.targets) <= MaxTargets
      BY <2>2
    <2> QED
      BY <2>1, <2>3 DEF ValidateProxy, Listens, Relays, Sends
  <1>3. ASSUME cmd \in {"replay", "barrage"}
        PROVE  Sends(c.server, c.port) /\ Ticking(cmd, c) /\ Employs(cmd, c)
    <2>1. /\ Sends(c.server, c.port) /\ c.delay > 0 /\ c.workers >= 1
          /\ cmd = "barrage" => c.templateInterval >= 0
      BY <1>3 DEF Valid, ValidateReplay, ValidateBarrage, Sends
    <2> QED
      BY <1>3, <2>1, InRangeNeverPanics
  <1>4. ASSUME cmd = "barrage"
        PROVE  ParseCIDR(c.srcRange) /\ ParseCIDR(c.dstRange) /\ (c.web => WebStarts(c))
    <2>1. /\ ValidateBarrage(c)
          /\ c.web => ValidateWebBinding(c)
      BY <1>4 DEF Valid
    <2>2. ValidateWebBinding(c) => WebStarts(c)
      BY DEF ValidateWebBinding, WebStarts, UseTLS
    <2> QED
      BY <2>1, <2>2 DEF ValidateBarrage
  <1>5. cmd \notin {"single", "ipfix"}
    BY DEF Validated
  <1> QED
    BY <1>1, <1>2, <1>3, <1>4, <1>5 DEF Runnable

-----------------------------------------------------------------------------
(* The inductive invariant *)

\* The handler is in force from its set-up until it stops itself, which it does
\* only after the context has ended; a signal kills only where none is in force.
HandlerInv ==
    /\ handler = "none" => ~notified
    /\ handler \in {"start", "select", "cancel"} => notified
    /\ handler \in {"stop", "gone"} => cancelled
    /\ killed /\ handler # "none" => cancelled

\* Execute's place and the pipeline's go together.
PlaceInv ==
    /\ place \in {"main", "parse", "load", "validate", "setup", "start"} => pipe = "off"
    /\ place = "run" => pipe = "running"
    /\ place \in {"return", "exit"} => pipe \in {"ok", "error"}

\* Until Execute's own Cancel, the context has ended only for a signal, and a
\* pipeline without a validator succeeds only with settings it can run.
SignalInv ==
    /\ sigChan > 0 \/ handler = "cancel" => signals > 0
    /\ cancelled /\ place \notin {"exit", "over"} => signals > 0
    /\ pipe = "ok" /\ signals = 0 => Runnable(command, cfg) \/ command \in Validated

\* Behind the validators the settings are valid and change no more; a handler is
\* set up once, at its place.
SettingsInv ==
    /\ place \in {"setup", "start"} \/ pipe # "off" => Valid(command, cfg, args.env)
    /\ place \in {"main", "parse", "load", "validate", "setup"} => handler = "none"

\* The inductive invariant.
IInv == TypeOK /\ HandlerInv /\ PlaceInv /\ SignalInv /\ SettingsInv


\* The program starts with no handler, no pipeline and no exit code.
LEMMA IInvInit == Init => IInv
  <1> SUFFICES ASSUME Init PROVE IInv
    OBVIOUS
  <1>1. TypeOK
    <2>1. 0 \in 0..SigCap /\ 0 \in 0..MaxSignals /\ -1 \in -1..2
      BY SignalAssumption DEF SigCap
    <2> QED
      BY <2>1 DEF Init, ManagerInit, TypeOK, LifecycleTypeOK
  <1>2. HandlerInv
    BY DEF Init, ManagerInit, HandlerInv
  <1>3. PlaceInv
    BY DEF Init, PlaceInv
  <1>4. SettingsInv
    BY DEF Init, ManagerInit, SettingsInv
  <1>5. SignalInv
    BY DEF Init, ManagerInit, SignalInv
  <1> QED
    BY <1>1, <1>2, <1>3, <1>4, <1>5 DEF IInv

\* Before its set-up step Execute leaves the manager alone, starts no pipeline, and
\* passes the validators only with settings they accept.
LEMMA BeforeSetupStep ==
    ASSUME IInv, UNCHANGED args, Dispatch \/ ParseFlags \/ Load \/ Validate
    PROVE  IInv'
  <1>1. /\ TypeOK /\ HandlerInv /\ PlaceInv /\ SignalInv /\ SettingsInv
        /\ UNCHANGED <<lifecycleVars, args, pipe, lost>>
    BY DEF IInv, Dispatch, ParseFlags, Load, Validate
  <1>2. pipe = "off" /\ handler = "none" /\ place \notin {"exit", "over"}
    BY <1>1 DEF PlaceInv, SettingsInv, Dispatch, ParseFlags, Load, Validate
  <1>3. \/ place' = "over" /\ exitCode' \in 0..2
        \/ place' \in {"parse", "load", "validate"} /\ UNCHANGED exitCode
        \/ /\ place' = "setup" /\ UNCHANGED <<exitCode, cfg>>
           /\ Valid(command, cfg, args.env)
    <2> USE DEF Goto, Exit
    <2>1. CASE Dispatch
      BY <2>1 DEF Dispatch
    <2>2. CASE ParseFlags
      BY <2>2 DEF ParseFlags
    <2>3. CASE Load
      <3> \/ Exit(1)
          \/ Goto("validate")
        BY <2>3 DEF Load
      <3> QED
        OBVIOUS
    <2>4. CASE Validate
      BY <2>4 DEF Validate
    <2> QED
      BY <2>1, <2>2, <2>3, <2>4
  <1>4. TypeOK'
    BY <1>1, <1>3 DEF TypeOK, LifecycleTypeOK, lifecycleVars, signalVars
  <1>5. HandlerInv'
    BY <1>1 DEF HandlerInv, lifecycleVars, signalVars
  <1>6. PlaceInv'
    BY <1>1, <1>2, <1>3 DEF PlaceInv
  <1>7. SignalInv'
    BY <1>1, <1>2, <1>3 DEF SignalInv, lifecycleVars, signalVars
  <1>8. SettingsInv'
    BY <1>1, <1>2, <1>3 DEF SettingsInv, command, lifecycleVars, signalVars
  <1> QED
    BY <1>4, <1>5, <1>6, <1>7, <1>8 DEF IInv

\* A managed command sets its handler up where there was none, in a process that no
\* signal has killed.
LEMMA SetupStep ==
    ASSUME IInv, ~killed, UNCHANGED args, Setup
    PROVE  IInv'
  <1>1. /\ TypeOK /\ HandlerInv /\ PlaceInv /\ SignalInv /\ SettingsInv
        /\ UNCHANGED <<args, cfg, pipe, lost, exitCode>> /\ place = "setup" /\ place' = "start"
        /\ \/ SetupSignalHandler
           \/ UNCHANGED lifecycleVars
    BY DEF IInv, Setup, Goto
  <1>2. TypeOK'
    BY <1>1 DEF TypeOK, LifecycleTypeOK, SetupSignalHandler, lifecycleVars, signalVars
  <1>3. HandlerInv'
    BY <1>1 DEF HandlerInv, SettingsInv, SetupSignalHandler, lifecycleVars, signalVars
  <1>4. PlaceInv'
    BY <1>1 DEF PlaceInv
  <1>5. SignalInv'
    BY <1>1 DEF SignalInv, PlaceInv, SetupSignalHandler, lifecycleVars, signalVars
  <1>6. SettingsInv'
    BY <1>1 DEF SettingsInv, command
  <1> QED
    BY <1>2, <1>3, <1>4, <1>5, <1>6 DEF IInv

\* A pipeline that returns without having been signalled had settings it can run.
LEMMA ReturnsRunnable ==
    ASSUME IInv, PipelineReturns
    PROVE  signals = 0 => Runnable(command, cfg) \/ command \in Validated
  <1> SUFFICES ASSUME signals = 0, command \notin Validated
               PROVE  Runnable(command, cfg)
    OBVIOUS
  <1>1. ~cancelled
    <2>1. LifecycleTypeOK /\ SignalInv
      BY DEF IInv, TypeOK
    <2> QED
      BY <2>1 DEF SignalInv, PipelineReturns, LifecycleTypeOK
  <1>2. command \in {"single", "ipfix"} => Opens(cfg) /\ Generates(cfg)
    BY <1>1 DEF PipelineReturns
  <1> QED
    BY <1>2 DEF Runnable, Validated

\* A pipeline step goes on in order, with the settings it started with; only the
\* deferred Cancel touches the manager.
LEMMA PipelineMoves ==
    ASSUME IInv, BarrageLoses \/ Start \/ PipelineReturns \/ PipelineFails \/ PipelinePanics
                 \/ Return \/ Leave
    PROVE  /\ UNCHANGED <<cfg, signalVars>> /\ lost' \in BOOLEAN /\ exitCode' \in -1..2
           /\ UNCHANGED cancelled \/ (cancelled' = TRUE /\ place' = "exit")
           /\ \/ place = "start" /\ place' = "run" /\ pipe' = "running"
              \/ place = "run" /\ place' = "run" /\ UNCHANGED pipe
              \/ place = "run" /\ place' = "return" /\ pipe' \in {"ok", "error"}
              \/ place = "run" /\ place' = "over" /\ pipe' = "panic"
              \/ place = "return" /\ place' = "exit" /\ UNCHANGED pipe
              \/ place = "exit" /\ place' = "over" /\ UNCHANGED pipe
           /\ pipe' # "ok" \/ UNCHANGED pipe \/ PipelineReturns
  <1> USE DEF Goto, Exit, lifecycleVars, signalVars
  <1>1. lost \in BOOLEAN /\ exitCode \in -1..2
    BY DEF IInv, TypeOK
  <1>2. CASE BarrageLoses
    BY <1>1, <1>2 DEF BarrageLoses
  <1>3. CASE Start
    BY <1>1, <1>3 DEF Start
  <1>4. CASE PipelineReturns
    BY <1>1, <1>4 DEF PipelineReturns
  <1>5. CASE PipelineFails
    BY <1>1, <1>5 DEF PipelineFails
  <1>6. CASE PipelinePanics
    BY <1>1, <1>6 DEF PipelinePanics
  <1>7. CASE Return
    BY <1>1, <1>7 DEF Return, ManagerCancel
  <1>8. CASE Leave
    BY <1>1, <1>8 DEF Leave
  <1> QED
    BY <1>2, <1>3, <1>4, <1>5, <1>6, <1>7, <1>8

\* The pipeline starts, loses a goroutine, returns, fails or panics, the deferred
\* Cancel runs, and the program exits.
LEMMA PipelineStep ==
    ASSUME IInv, UNCHANGED args,
           BarrageLoses \/ Start \/ PipelineReturns \/ PipelineFails \/ PipelinePanics
           \/ Return \/ Leave
    PROVE  IInv'
  <1>1. TypeOK /\ LifecycleTypeOK /\ HandlerInv /\ PlaceInv /\ SignalInv /\ SettingsInv
    BY DEF IInv, TypeOK
  <1>2. /\ UNCHANGED <<cfg, signalVars>> /\ lost' \in BOOLEAN /\ exitCode' \in -1..2
        /\ UNCHANGED cancelled \/ (cancelled' = TRUE /\ place' = "exit")
        /\ \/ place = "start" /\ place' = "run" /\ pipe' = "running"
           \/ place = "run" /\ place' = "run" /\ UNCHANGED pipe
           \/ place = "run" /\ place' = "return" /\ pipe' \in {"ok", "error"}
           \/ place = "run" /\ place' = "over" /\ pipe' = "panic"
           \/ place = "return" /\ place' = "exit" /\ UNCHANGED pipe
           \/ place = "exit" /\ place' = "over" /\ UNCHANGED pipe
    BY PipelineMoves
  <1>3. TypeOK'
    <2>1. LifecycleTypeOK'
      BY <1>1, <1>2 DEF LifecycleTypeOK, signalVars
    <2> QED
      BY <1>1, <1>2, <2>1 DEF TypeOK
  <1>4. HandlerInv'
    BY <1>1, <1>2 DEF HandlerInv, LifecycleTypeOK, signalVars
  <1>5. PlaceInv'
    BY <1>1, <1>2 DEF PlaceInv
  <1>6. SignalInv'
    <2>1. pipe' = "ok" /\ signals' = 0 => Runnable(command, cfg)' \/ command' \in Validated
      <3>1. UNCHANGED <<command, cfg, signals>> /\ (Runnable(command, cfg)' <=> Runnable(command, cfg))
        BY <1>2 DEF command, signalVars
      <3>2. CASE UNCHANGED pipe
        BY <1>1, <3>1, <3>2 DEF SignalInv
      <3>3. CASE PipelineReturns
        BY <3>1, <3>3, ReturnsRunnable
      <3> QED
        BY <3>2, <3>3, PipelineMoves
    <2> QED
      BY <1>1, <1>2, <2>1 DEF SignalInv, signalVars
  <1>7. SettingsInv'
    <2>1. Valid(command, cfg, args.env)
      BY <1>1, <1>2 DEF SettingsInv, PlaceInv
    <2> QED
      BY <1>1, <1>2, <2>1 DEF SettingsInv, command
  <1> QED
    BY <1>3, <1>4, <1>5, <1>6, <1>7 DEF IInv

\* The handler stops itself, and gives the signals back, only after it has cancelled
\* the context or found it cancelled; an early signal waits in sigChan.
LEMMA BesideStep ==
    ASSUME IInv, UNCHANGED <<args, execVars>>, HandlerStep \/ Signal
    PROVE  IInv'
  <1>1. TypeOK /\ HandlerInv /\ PlaceInv /\ SignalInv /\ SettingsInv /\ LifecycleTypeOK
    BY DEF IInv, TypeOK
  <1>2. LifecycleTypeOK'
    <2>1. CASE HandlerStep
      <3>1. HandlerSignal => sigChan' \in 0..SigCap
        BY <1>1 DEF LifecycleTypeOK, HandlerSignal, SigCap
      <3> QED
        BY <1>1, <2>1, <3>1
           DEF LifecycleTypeOK, HandlerStep, HandlerStart, HandlerSignal, HandlerCancel,
               HandlerContext, HandlerStop
    <2>2. CASE Signal
      <3>1. signals' \in 0..MaxSignals /\ (Enqueue => sigChan' \in 0..SigCap)
        BY <1>1, <2>2, SignalAssumption DEF LifecycleTypeOK, Signal, Enqueue, SigCap
      <3> QED
        BY <1>1, <2>2, <3>1 DEF LifecycleTypeOK, Signal
    <2> QED
      BY <2>1, <2>2
  <1>3. TypeOK'
    BY <1>1, <1>2 DEF TypeOK, execVars
  <1>4. HandlerInv'
    <2>1. CASE HandlerStep
      BY <1>1, <2>1
         DEF HandlerInv, HandlerStep, HandlerStart, HandlerSignal, HandlerCancel, HandlerContext,
             HandlerStop
    <2>2. CASE Signal
      BY <1>1, <2>2 DEF HandlerInv, Signal, LifecycleTypeOK
    <2> QED
      BY <2>1, <2>2
  <1>5. PlaceInv'
    BY <1>1 DEF PlaceInv, execVars
  <1>6. SettingsInv'
    <2>1. handler = "none" => handler' = "none"
      BY DEF HandlerStep, HandlerStart, HandlerSignal, HandlerCancel, HandlerContext, HandlerStop, Signal
    <2> QED
      BY <1>1, <2>1 DEF SettingsInv, command, execVars
  <1>7. SignalInv'
    <2>1. signals \in Nat /\ sigChan \in Nat
      BY <1>1, SignalAssumption DEF LifecycleTypeOK, SigCap
    <2>2. CASE HandlerStep
      BY <1>1, <2>1, <2>2
         DEF SignalInv, HandlerInv, HandlerStep, HandlerStart, HandlerSignal, HandlerCancel,
             HandlerContext, HandlerStop, execVars, command
    <2>3. CASE Signal
      <3>1. signals' > 0
        BY <2>1, <2>3 DEF Signal
      <3> QED
        BY <3>1 DEF SignalInv
    <2> QED
      BY <2>2, <2>3
  <1> QED
    BY <1>3, <1>4, <1>5, <1>6, <1>7 DEF IInv

\* Every step keeps the invariant, and so does doing nothing.
LEMMA IInvNext == IInv /\ [Next]_vars => IInv'
  <1> SUFFICES ASSUME IInv, [Next]_vars PROVE IInv'
    OBVIOUS
  <1>1. CASE UNCHANGED vars
    <2> USE <1>1 DEF vars, lifecycleVars, signalVars, execVars
    <2>1. TypeOK'
      BY DEF IInv, TypeOK, LifecycleTypeOK
    <2>2. HandlerInv'
      BY DEF IInv, HandlerInv
    <2>3. PlaceInv'
      BY DEF IInv, PlaceInv
    <2>4. SettingsInv'
      BY DEF IInv, SettingsInv, command
    <2>5. SignalInv'
      BY DEF IInv, SignalInv, command
    <2> QED
      BY <2>1, <2>2, <2>3, <2>4, <2>5 DEF IInv
  <1>2. CASE Next
    <2>1. \/ ~killed /\ UNCHANGED args /\ (Dispatch \/ ParseFlags \/ Load \/ Validate)
          \/ ~killed /\ UNCHANGED args /\ Setup
          \/ /\ UNCHANGED args
             /\ \/ BarrageLoses \/ Start \/ PipelineReturns \/ PipelineFails \/ PipelinePanics
                \/ Return \/ Leave
          \/ UNCHANGED <<args, execVars>> /\ (HandlerStep \/ Signal)
      BY <1>2 DEF Next, Execute, Beside, Running
    <2> QED
      BY <2>1, BeforeSetupStep, SetupStep, PipelineStep, BesideStep
  <1> QED
    BY <1>1, <1>2

-----------------------------------------------------------------------------
(* The theorems *)

\* The invariant holds in every run of the program.
THEOREM Invariance == Spec => []IInv
  <1> QED
    BY IInvInit, IInvNext, PTL DEF Spec

\* sigChan never holds more than its one slot, and the program exits with 0, 1 or 2.
THEOREM TypeCorrect == Spec => []TypeOK
  <1>1. IInv => TypeOK
    BY DEF IInv
  <1> QED
    BY <1>1, Invariance, PTL

\* No pipeline is started with settings in range that would make it panic or listen
\* and send where nobody asked it to: what runs has passed the validators and not
\* changed since.  The two commands without a validator report success only with
\* settings they could run, or after a signal.
THEOREM NothingInvalidStarts == Spec => []NothingStartsInvalid
  <1>1. IInv => NothingStartsInvalid
    BY ValidIsRunnable DEF IInv, SettingsInv, SignalInv, NothingStartsInvalid
  <1> QED
    BY <1>1, Invariance, PTL

\* However many signals arrive and whenever they do, once the handler is set up a
\* signal kills the process only after the context has been cancelled.
THEOREM FirstSignalOrderly == Spec => []FirstSignalIsOrderly
  <1>1. IInv => FirstSignalIsOrderly
    BY DEF IInv, HandlerInv, FirstSignalIsOrderly
  <1> QED
    BY <1>1, Invariance, PTL
=============================================================================
