----------------------------- MODULE Lifecycle -----------------------------
(***************************************************************************)
(* lifecycle.Manager (lifecycle/lifecycle.go), which every command but     *)
(* `ipfix` creates: a context, and a goroutine that turns the first        *)
(* SIGINT or SIGTERM into its cancellation.  signal.Notify sends without   *)
(* blocking to a channel of capacity one, and after signal.Stop the        *)
(* default disposition is back: a signal then kills the process.           *)
(*                                                                         *)
(* The manager's own WaitGroup is left out: nothing is ever added to it,   *)
(* so Wait returns at once.                                                *)
(***************************************************************************)
EXTENDS Naturals

CONSTANT MaxSignals     \* bound: signals the environment sends
ASSUME SignalAssumption == MaxSignals \in Nat

VARIABLES
    cancelled,      \* ctx.Done() is closed
    sigChan,        \* signals waiting in sigChan
    handler,        \* the goroutine: "none", "start", "select", "cancel", "stop" or "gone"
    notified,       \* signal.Notify is in force
    signals,        \* signals sent so far (history and bound)
    killed          \* a signal found no handler and ended the process

signalVars == <<sigChan, handler, notified, signals, killed>>
lifecycleVars == <<cancelled, signalVars>>

SigCap == 1     \* make(chan os.Signal, 1)

LifecycleTypeOK ==
    /\ cancelled \in BOOLEAN /\ notified \in BOOLEAN /\ killed \in BOOLEAN
    /\ sigChan \in 0..SigCap
    /\ handler \in {"none", "start", "select", "cancel", "stop", "gone"}
    /\ signals \in 0..MaxSignals

\* lifecycle.New()
ManagerInit ==
    /\ cancelled = FALSE
    /\ sigChan = 0
    /\ handler = "none"
    /\ notified = FALSE
    /\ signals = 0
    /\ killed = FALSE

\* Notify, and the go statement: the goroutine has not run yet.
SetupSignalHandler ==
    /\ handler = "none"
    /\ handler' = "start"
    /\ notified' = TRUE
    /\ UNCHANGED <<cancelled, sigChan, signals, killed>>

\* Mutant of Enqueue: a channel without a buffer takes a signal only from a
\* sender that finds the goroutine in its select.
EnqueueUnbuffered == sigChan' = IF handler = "select" THEN SigCap ELSE sigChan

\* What the runtime does with a signal for sigChan: a full channel drops it.
Enqueue == sigChan' = IF sigChan < SigCap THEN sigChan + 1 ELSE sigChan

\* SIGINT or SIGTERM arrives (external).
Signal ==
    /\ signals < MaxSignals
    /\ signals' = signals + 1
    /\ \/ notified /\ Enqueue /\ UNCHANGED killed
       \/ ~notified /\ killed' = TRUE /\ UNCHANGED sigChan
    /\ UNCHANGED <<cancelled, handler, notified>>

\* The goroutine is scheduled and reaches its select.
HandlerStart ==
    /\ handler = "start"
    /\ handler' = "select"
    /\ UNCHANGED <<cancelled, sigChan, notified, signals, killed>>

\* Mutant of HandlerSignal: signal.Stop comes before the cancellation.
HandlerSignalStops ==
    /\ handler = "select"
    /\ sigChan > 0
    /\ sigChan' = sigChan - 1
    /\ handler' = "cancel"
    /\ notified' = FALSE
    /\ UNCHANGED <<cancelled, signals, killed>>

\* case <-sigChan
HandlerSignal ==
    /\ handler = "select"
    /\ sigChan > 0
    /\ sigChan' = sigChan - 1
    /\ handler' = "cancel"
    /\ UNCHANGED <<cancelled, notified, signals, killed>>

\* m.Cancel(); the send to cleanupDone finds its one slot free.
HandlerCancel ==
    /\ handler = "cancel"
    /\ cancelled' = TRUE
    /\ handler' = "stop"
    /\ UNCHANGED <<sigChan, notified, signals, killed>>

\* case <-m.ctx.Done()
HandlerContext ==
    /\ handler = "select"
    /\ cancelled
    /\ handler' = "stop"
    /\ UNCHANGED <<cancelled, sigChan, notified, signals, killed>>

\* The deferred close(cleanupDone) and signal.Stop(sigChan).
HandlerStop ==
    /\ handler = "stop"
    /\ handler' = "gone"
    /\ notified' = FALSE
    /\ UNCHANGED <<cancelled, sigChan, signals, killed>>

HandlerStep == HandlerStart \/ HandlerSignal \/ HandlerCancel \/ HandlerContext \/ HandlerStop

\* Manager.Cancel, as the commands defer it.
ManagerCancel ==
    /\ cancelled' = TRUE
    /\ UNCHANGED <<sigChan, handler, notified, signals, killed>>
=============================================================================
