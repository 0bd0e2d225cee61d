-------------------------- MODULE BarrageCommand --------------------------
(***************************************************************************)
(* The process `flowgre barrage` (cmd/barrage.go, Execute, from the point  *)
(* where the settings have been validated): the signal handler of          *)
(* Lifecycle, the collector and the workers of Barrage, and the web server *)
(* of web/web.go, which joins the barrage's WaitGroup after StartCtx.      *)
(* All of them end by one context, and the process when Execute returns.   *)
(***************************************************************************)
EXTENDS Barrage

CONSTANT MaxSignals     \* bound: signals the environment sends

ASSUME SignalsAssumption == MaxSignals \in Nat

VARIABLES
    sigChan, handler, notified, signals, killed,    \* see Lifecycle
    place,          \* Execute: "setup", "start", "web", "run", "exit" or "over"
    webOn,          \* cfg.Web, a setting
    web,            \* RunWebServer: "none", "start", "select", "shutdown" or "done"
    listener        \* its ListenAndServe goroutine: "none", "start", "serving",
                    \* "failed" or "closed"

INSTANCE Lifecycle

handlerVars == <<sigChan, handler, notified, signals, killed>>
webVars == <<webOn, web, listener>>
commandVars == <<place, webVars>>
cvars == <<bvars, handlerVars, commandVars>>

\* What goroutines other than the handler and Execute leave alone.
barrageRest == <<wStats, statsChan, closed, collectorVars, wpc, mpc>>

WebCount == IF web \in {"none", "done"} THEN 0 ELSE 1
Running == place # "over" /\ ~killed
Started == Running /\ place \notin {"setup", "start"}

CTypeOK ==
    /\ TypeOK
    /\ wpc \in [Workers -> {"listen", "loop", "report", "done"}]
    /\ mpc \in {"wait", "stop", "returned"}
    /\ wg \in 0..(Cardinality(Workers) + 2)
    /\ LifecycleTypeOK
    /\ place \in {"setup", "start", "web", "run", "exit", "over"}
    /\ webOn \in BOOLEAN
    /\ web \in {"none", "start", "select", "shutdown", "done"}
    /\ listener \in {"none", "start", "serving", "failed", "closed"}

\* The manager exists.  BInit is what StartCtx leaves; until then nothing of it
\* takes a step.
CInit ==
    /\ BInit
    /\ ManagerInit
    /\ place = "setup"
    /\ webOn \in BOOLEAN
    /\ web = "none"
    /\ listener = "none"

-----------------------------------------------------------------------------
(* Execute *)

MainSetup ==
    /\ place = "setup"
    /\ SetupSignalHandler
    /\ place' = "start"
    /\ UNCHANGED <<barrageRest, wg, webVars>>

\* opts := barrage.StartCtx(...)
MainStart ==
    /\ place = "start"
    /\ place' = "web"
    /\ UNCHANGED <<bvars, handlerVars, webVars>>

\* Mutant of AddWeb: wg.Add(1) is left to the new goroutine.
AddWebLater == UNCHANGED wg

\* opts.Wg.Add(1), before the go statement.
AddWeb == wg' = wg + 1

\* if cfg.Web { opts.Wg.Add(1); go web.RunWebServer(...) }
MainWeb ==
    /\ place = "web"
    /\ \/ ~webOn /\ UNCHANGED <<wg, web>>
       \/ webOn /\ AddWeb /\ web' = "start"
    /\ place' = "run"
    /\ UNCHANGED <<cancelled, barrageRest, handlerVars, webOn, listener>>

\* opts.Wg.Wait() and opts.StopFn(); mgr.Wait() does not wait.
MainBarrage ==
    /\ place = "run"
    /\ MainWait \/ MainStop
    /\ UNCHANGED <<handlerVars, commandVars>>

\* The deferred mgr.Cancel().
MainCancel ==
    /\ place = "run"
    /\ mpc = "returned"
    /\ ManagerCancel
    /\ place' = "exit"
    /\ UNCHANGED <<barrageRest, wg, webVars>>

\* Execute and main return: exit code 0.
MainExit ==
    /\ place = "exit"
    /\ place' = "over"
    /\ UNCHANGED <<bvars, handlerVars, webVars>>

MainStep == MainSetup \/ MainStart \/ MainWeb \/ MainBarrage \/ MainCancel \/ MainExit

-----------------------------------------------------------------------------
(* RunWebServer.  Its refusal of an address without TLS is unreachable here: *)
(* ValidateWebBinding has refused the same addresses before.                 *)

webRest == <<barrageRest, handlerVars, place, webOn>>

\* Up to the go statement in front of the select.
WebStart ==
    /\ web = "start"
    /\ web' = "select"
    /\ listener' = "start"
    /\ UNCHANGED <<cancelled, wg, webRest>>

\* ListenAndServe: it fails, or serves until it fails; once Shutdown has been
\* called it returns ErrServerClosed.
WebListen ==
    /\ \/ listener = "start" /\ web # "done" /\ listener' = "serving"
       \/ listener \in {"start", "serving"} /\ web # "done" /\ listener' = "failed"
       \/ listener = "start" /\ web = "done" /\ listener' = "closed"
    /\ UNCHANGED <<cancelled, wg, web, webRest>>

\* case <-ctx.Done()
WebContext ==
    /\ web = "select"
    /\ cancelled
    /\ web' = "shutdown"
    /\ UNCHANGED <<cancelled, wg, listener, webRest>>

\* Mutant of WebError: a web server that cannot run ends the program.
WebErrorCancels ==
    /\ web = "select"
    /\ listener = "failed"
    /\ web' = "shutdown"
    /\ cancelled' = TRUE
    /\ UNCHANGED <<wg, listener, webRest>>

\* case err := <-serverErr, which is only logged.
WebError ==
    /\ web = "select"
    /\ listener = "failed"
    /\ web' = "shutdown"
    /\ UNCHANGED <<cancelled, wg, listener, webRest>>

\* Mutant of WebShutdown: the listener is left open.
WebLeavesOpen ==
    /\ web = "shutdown"
    /\ web' = "done"
    /\ wg' = wg - 1
    /\ UNCHANGED <<cancelled, listener, webRest>>

\* srv.Shutdown, at most five seconds, and the deferred wg.Done().
WebShutdown ==
    /\ web = "shutdown"
    /\ web' = "done"
    /\ listener' = IF listener = "serving" THEN "closed" ELSE listener
    /\ wg' = wg - 1
    /\ UNCHANGED <<cancelled, webRest>>

WebStep == WebStart \/ WebListen \/ WebContext \/ WebError \/ WebShutdown

-----------------------------------------------------------------------------
(* The process *)

Main == Running /\ MainStep
Handler == Running /\ HandlerStep /\ UNCHANGED <<barrageRest, wg, commandVars>>
Environment == Running /\ Signal /\ UNCHANGED <<barrageRest, wg, commandVars>>
Web == Running /\ WebStep

InBarrage(A) == Started /\ A /\ UNCHANGED <<handlerVars, commandVars>>

CNext ==
    \/ Main
    \/ Handler
    \/ Environment
    \/ Web
    \/ \E w \in Workers : InBarrage(WorkerStep(w))
    \/ InBarrage(CollectorRuns)
    \/ InBarrage(CollectorLeaves)

CSpec == CInit /\ [][CNext]_cvars

\* Every goroutine runs, and Shutdown ends by its timeout; the rest as in Barrage.
\* Nothing is assumed of signals or of the network the server listens on.
CFairness ==
    /\ WF_cvars(Main)
    /\ WF_cvars(Handler)
    /\ WF_cvars(Running /\ (WebStart \/ WebContext \/ WebError \/ WebShutdown))
    /\ \A w \in Workers :
          /\ WF_cvars(InBarrage(WorkerListen(w)))
          /\ SF_cvars(InBarrage(WorkerReport(w)))
          /\ SF_cvars(InBarrage(WorkerExit(w)))
    /\ WF_cvars(InBarrage(CollectorRuns))
    /\ SF_cvars(InBarrage(CollectorLeaves))

CFairSpec == CSpec /\ CFairness

-----------------------------------------------------------------------------
(* Safety *)

\* Execute goes on from Wg.Wait only when every worker, the collector and the
\* web server have left, and nothing listens any more: neither a send on the
\* closed statistics channel nor a request can follow.
EndsAfterEveryone ==
    mpc # "wait" => Live = {} /\ cpc = "done" /\ WebCount = 0 /\ listener # "serving"

\* Only a signal or Execute's own return ends the context: a web server that
\* cannot listen, or a worker that fails, stops nobody else.
CancelledForAReason == cancelled => signals > 0 \/ mpc = "returned"

B == INSTANCE Barrage WITH wg <- wg - WebCount

\* The command runs the barrage of module Barrage: signals and the web server add
\* no behaviour to its workers, its collector and its shutdown.
ImplementsBarrage == B!BSpec

-----------------------------------------------------------------------------
(* Liveness *)

\* A signal ends the process, unless a worker is caught in its report with the
\* collector gone; no signal is lost, and the web server never holds it up.
SignalEnds == (signals > 0) ~> (~Running \/ Stuck)
=============================================================================
