------------------------------ MODULE Commands ------------------------------
(***************************************************************************)
(* One run of the program (main.go and cmd/): dispatch on the subcommand,  *)
(* flags, configuration file, validation, signal handler, the subcommand's *)
(* pipeline as one step that returns or fails, and the exit code.          *)
(*                                                                         *)
(* Lifecycle is the context and the signal handler, which run beside       *)
(* Execute; the pipelines have modules of their own.  `ipfix` has neither  *)
(* a context nor a handler: a signal kills it.                             *)
(***************************************************************************)
EXTENDS Lifecycle, Configuration

CONSTANT Invocations    \* what the program may be started with, see TypeOK

Pipelines == {"record", "replay", "proxy", "barrage", "single", "ipfix"}
Printers == {"help", "version"}

\* file is the configuration file: "none", "unreadable", "no target" (or not
\* exactly one, or not a map) or "target" with the values of raw.
ASSUME InvocationsAssumption ==
    \A i \in Invocations :
        /\ i.command \in Pipelines \cup Printers \cup {"none", "unknown"}
        /\ i.flags \in {"ok", "bad", "help"}
        /\ i.file \in {"none", "unreadable", "no target", "target"}
        /\ i.env \in BOOLEAN

VARIABLES
    args,           \* the invocation; nothing changes it
    cfg,            \* the settings; the flags until a file has replaced them
    place,          \* "main", "parse", "load", "validate", "setup", "start",
                    \* "run", "return", "exit" or "over"
    pipe,           \* the pipeline: "off", "running", "ok", "error" or "panic"
    lost,           \* a goroutine of the barrage has failed, which is only logged
    exitCode        \* -1 until the program exits by itself

execVars == <<cfg, place, pipe, lost, exitCode>>
vars == <<lifecycleVars, args, execVars>>

command == args.command
Running == place # "over" /\ ~killed

\* The commands with a lifecycle.Manager.
Managed == command # "ipfix"

\* The commands with a validator.
Validated == {"record", "replay", "proxy", "barrage"}

TypeOK ==
    /\ LifecycleTypeOK
    /\ args \in Invocations
    /\ place \in {"main", "parse", "load", "validate", "setup", "start",
                  "run", "return", "exit", "over"}
    /\ pipe \in {"off", "running", "ok", "error", "panic"}
    /\ lost \in BOOLEAN
    /\ exitCode \in -1..2

Init ==
    /\ ManagerInit
    /\ args \in Invocations
    /\ cfg = args.cfg
    /\ place = "main"
    /\ pipe = "off"
    /\ lost = FALSE
    /\ exitCode = -1

-----------------------------------------------------------------------------
(* Execute, and main around it *)

Goto(p) == place' = p /\ UNCHANGED exitCode
Exit(code) == place' = "over" /\ exitCode' = code

\* The switch of main.
Dispatch ==
    /\ place = "main"
    /\ \/ command = "none" /\ Exit(1)
       \/ command \in Printers /\ Exit(0)
       \/ command = "unknown" /\ Exit(2)
       \/ command \in Pipelines /\ Goto("parse")
    /\ UNCHANGED <<lifecycleVars, cfg, pipe, lost>>

\* flag.ExitOnError: Parse exits by itself and never returns an error.
ParseFlags ==
    /\ place = "parse"
    /\ \/ args.flags = "help" /\ Exit(0)
       \/ args.flags = "bad" /\ Exit(2)
       \/ args.flags = "ok" /\ Goto("load")
    /\ UNCHANGED <<lifecycleVars, cfg, pipe, lost>>

\* barrage's -config "supersedes all given args".
Load ==
    /\ place = "load"
    /\ \/ args.file = "none" /\ Goto("validate") /\ UNCHANGED cfg
       \/ args.file = "target" /\ LoadFails(args.raw) /\ Exit(1) /\ UNCHANGED cfg
       \/ /\ args.file = "target" /\ ~LoadFails(args.raw)
          /\ cfg' = LoadBarrageConfig(args.raw, args.cfg)
          /\ Goto("validate")
       \/ args.file \in {"unreadable", "no target"} /\ Exit(1) /\ UNCHANGED cfg
    /\ UNCHANGED <<lifecycleVars, pipe, lost>>

\* The validators, and resolveCredentials, which may fail.
Validate ==
    /\ place = "validate"
    /\ \/ ~Valid(command, cfg, args.env) /\ Exit(1)
       \/ Valid(command, cfg, args.env) /\ Goto("setup")
       \/ Valid(command, cfg, args.env) /\ command = "barrage" /\ cfg.web /\ Exit(1)
    /\ UNCHANGED <<lifecycleVars, cfg, pipe, lost>>

\* lifecycle.New() and SetupSignalHandler().
Setup ==
    /\ place = "setup"
    /\ Goto("start")
    /\ \/ Managed /\ SetupSignalHandler
       \/ ~Managed /\ UNCHANGED lifecycleVars
    /\ UNCHANGED <<cfg, pipe, lost>>

\* RunCtx or StartCtx is called.
Start ==
    /\ place = "start"
    /\ Goto("run")
    /\ pipe' = "running"
    /\ UNCHANGED <<lifecycleVars, cfg, lost>>

\* A worker or the web server of a barrage cannot listen, generate or send: it
\* logs that and leaves, and the others go on.
BarrageLoses ==
    /\ place = "run"
    /\ command = "barrage"
    /\ lost' = TRUE
    /\ UNCHANGED <<lifecycleVars, cfg, place, pipe, exitCode>>

\* The pipeline returns nil; three of them only once the context has ended, and
\* `single` without its flows then.  A worker of replay makes its ticker first, one
\* of a barrage only if its first sends have not failed.
PipelineReturns ==
    /\ place = "run"
    /\ command \in {"record", "proxy", "barrage"} => cancelled
    /\ command \in {"single", "ipfix"} =>
          Opens(cfg) /\ (Generates(cfg) \/ (command = "single" /\ cancelled))
    /\ Ticking(command, cfg) \/ (command = "barrage" /\ lost)
    /\ pipe' = "ok"
    /\ Goto("return")
    /\ UNCHANGED <<lifecycleVars, cfg, lost>>

\* The pipeline returns an error; barrage's has none to return.
PipelineFails ==
    /\ place = "run"
    /\ command # "barrage"
    /\ Ticking(command, cfg)
    /\ pipe' = "error"
    /\ Goto("return")
    /\ UNCHANGED <<lifecycleVars, cfg, lost>>

\* A goroutine panics, and the runtime exits.
PipelinePanics ==
    /\ place = "run"
    /\ Panics(command, cfg)
    /\ pipe' = "panic"
    /\ Exit(2)
    /\ UNCHANGED <<lifecycleVars, cfg, lost>>

\* The deferred mgr.Cancel(); single.Run calls os.Exit before its own would run.
Return ==
    /\ place = "return"
    /\ Goto("exit")
    /\ IF Managed /\ ~(command = "single" /\ pipe = "error")
       THEN ManagerCancel ELSE UNCHANGED lifecycleVars
    /\ UNCHANGED <<cfg, pipe, lost>>

\* os.Exit(1) for an error, otherwise main returns.
Leave ==
    /\ place = "exit"
    /\ Exit(IF pipe = "error" THEN 1 ELSE 0)
    /\ UNCHANGED <<lifecycleVars, cfg, pipe, lost>>

\* Execute's goroutine, the handler's and the environment; after os.Exit, main's
\* return or a fatal signal nothing runs any more.
Execute(step) == Running /\ step /\ UNCHANGED args
Beside(step) == Running /\ step /\ UNCHANGED <<args, execVars>>

Next ==
    \/ Execute(Dispatch) \/ Execute(ParseFlags) \/ Execute(Load) \/ Execute(Validate)
    \/ Execute(Setup) \/ Execute(Start)
    \/ Execute(BarrageLoses)
    \/ Execute(PipelineReturns) \/ Execute(PipelineFails) \/ Execute(PipelinePanics)
    \/ Execute(Return) \/ Execute(Leave)
    \/ Beside(HandlerStep) \/ Beside(Signal)

Spec == Init /\ [][Next]_vars

-----------------------------------------------------------------------------
(* Safety *)

\* What flags, file and validators let through, the pipeline can run: no ticker or
\* WaitGroup panics, no address or range is left unparsed, and RunWebServer's own
\* check refuses nothing -- as long as delays and workers are in the range that no
\* validator checks.  `single` and `ipfix`, which check nothing, do not report
\* success with settings they cannot run, unless a signal came first.
NothingStartsInvalid ==
    /\ pipe # "off" /\ command \in Validated /\ InRange(command, cfg) => Runnable(command, cfg)
    /\ pipe = "ok" /\ signals = 0 => Runnable(command, cfg) \/ command \in Validated

\* From the moment its handler is set up, a command is killed by a signal only if
\* its context has ended before: the first signal always shuts it down in order.
FirstSignalIsOrderly == killed /\ handler # "none" => cancelled

-----------------------------------------------------------------------------
(* What the documentation says, and the code does not do *)

\* The web server's address, "(IPv4 or IPv6)", can be listened on once the
\* barrage runs.
WebAddressUsable ==
    pipe # "off" /\ command = "barrage" /\ cfg.web => SplitHostPort(ListenAddrColons(cfg))
=============================================================================
