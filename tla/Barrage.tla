------------------------------ MODULE Barrage ------------------------------
(***************************************************************************)
(* `flowgre barrage` (barrage/barrage.go): StartCtx starts the statistics  *)
(* collector and one goroutine per worker, all counted by one WaitGroup;   *)
(* RunCtx waits for the WaitGroup and then closes the statistics channel.  *)
(* A worker sends a packet on every tick, adds it to its own counters and  *)
(* sends a copy of them to StatsChan.  That send has no ctx.Done() case,   *)
(* while the collector, its only receiver, leaves when the context ends.   *)
(***************************************************************************)
EXTENDS StatsCollector

CONSTANT TemplateInterval   \* seconds between templates, 0 for never
ASSUME TemplateAssumption == TemplateInterval \in Nat

\* make(chan models.WorkerStat, config.Workers+buffer)
ASSUME BufferAssumption == ChanCap >= Cardinality(Workers)

VARIABLES
    wpc,        \* worker: "listen", "loop", "report", or "done"
    wg,         \* the WaitGroup's counter
    mpc         \* RunCtx: "wait", "stop" or "returned"

bvars == <<vars, wpc, wg, mpc>>

Live == {w \in Workers : wpc[w] # "done"}
CollectorCount == IF cpc = "done" THEN 0 ELSE 1

\* The counters, places and the WaitGroup keep their ranges; in particular the
\* WaitGroup never goes below zero, which would panic.
BTypeOK ==
    /\ TypeOK
    /\ wpc \in [Workers -> {"listen", "loop", "report", "done"}]
    /\ wg \in 0..(Cardinality(Workers) + 1)
    /\ mpc \in {"wait", "stop", "returned"}

\* The state StartCtx leaves: wg.Add(1), wg.Add(Workers), nobody ran yet.
BInit ==
    /\ Init
    /\ wpc = [w \in Workers |-> "listen"]
    /\ wg = Cardinality(Workers) + 1
    /\ mpc = "wait"

-----------------------------------------------------------------------------
(* worker *)

Goto(w, place) == wpc' = [wpc EXCEPT ![w] = place]

\* Mutant of WorkerDone: an early return that skips wg.Done().
LeavesWithoutDone(w) == Goto(w, "done") /\ UNCHANGED wg

\* return, with the deferred wg.Done().
WorkerDone(w) == Goto(w, "done") /\ wg' = wg - 1

\* Everything before the loop: pick a source port, bind it, send the template
\* and the options data.  Any of them may fail (two workers may pick the same
\* port); the packets sent here are not counted.
WorkerListen(w) ==
    /\ wpc[w] = "listen"
    /\ \/ Goto(w, "loop") /\ UNCHANGED wg
       \/ WorkerDone(w)
    /\ UNCHANGED <<vars, mpc>>

\* A packet went out: count it and go on to report it.
Sent(w, cycles, flows) ==
    /\ wStats' = Counted(w, cycles, flows)
    /\ Goto(w, "report")
    /\ UNCHANGED <<cancelled, statsChan, closed, collectorVars, wg, mpc>>

\* case <-dataLimiter.C, the packet is sent.
WorkerData(w) ==
    /\ wpc[w] = "loop"
    /\ wStats[w].flows < MaxFlows
    /\ \E n \in FlowCounts : Sent(w, 1, n)

\* case <-tmplChan, the packet is sent.
WorkerTemplate(w) ==
    /\ wpc[w] = "loop"
    /\ TemplateInterval > 0
    /\ wStats[w].flows < MaxFlows
    /\ Sent(w, 0, 1)

\* Either tick, and generating or sending the packet fails.
WorkerSendFails(w) ==
    /\ wpc[w] = "loop"
    /\ WorkerDone(w)
    /\ UNCHANGED <<vars, mpc>>

\* Mutant of WorkerReport: drop the report when the channel is full.
WorkerReportOrDrop(w) ==
    /\ wpc[w] = "report"
    /\ statsChan' = IF Room THEN Append(statsChan, Report(w)) ELSE statsChan
    /\ Goto(w, "loop")
    /\ UNCHANGED <<cancelled, wStats, closed, collectorVars, wg, mpc>>

\* cfg.statsChan <- wStats, which blocks while the channel is full.  (On a
\* closed channel it would panic; WaitGroupExact has the close wait for it.)
WorkerReport(w) ==
    /\ wpc[w] = "report"
    /\ Room
    /\ statsChan' = Append(statsChan, Report(w))
    /\ Goto(w, "loop")
    /\ UNCHANGED <<cancelled, wStats, closed, collectorVars, wg, mpc>>

\* Mutant of WorkerExit: the select has no ctx.Done() case.
WorkerIgnoresContext(w) == FALSE /\ WorkerSendFails(w)

\* case <-cfg.ctx.Done()
WorkerExit(w) ==
    /\ wpc[w] = "loop"
    /\ cancelled
    /\ WorkerDone(w)
    /\ UNCHANGED <<vars, mpc>>

-----------------------------------------------------------------------------
(* Collector.Run under the WaitGroup, RunCtx, and the caller *)

CollectorRuns ==
    /\ CollectorReceive \/ CollectorUpdate
    /\ UNCHANGED <<wpc, wg, mpc>>

\* The way out by ctx.Done(), with the deferred wg.Done(); the channel is not
\* closed while the collector runs (WaitGroupExact).
CollectorLeaves ==
    /\ CollectorExit
    /\ wg' = wg - 1
    /\ UNCHANGED <<wpc, mpc>>

\* opts.Wg.Wait()
MainWait == mpc = "wait" /\ wg = 0 /\ mpc' = "stop" /\ UNCHANGED <<vars, wpc, wg>>

\* opts.StopFn(), and RunCtx returns.
MainStop == mpc = "stop" /\ Stop /\ mpc' = "returned" /\ UNCHANGED <<wpc, wg>>

Cancel == CancelContext /\ UNCHANGED <<wpc, wg, mpc>>

WorkerStep(w) ==
    \/ WorkerListen(w)
    \/ WorkerData(w)
    \/ WorkerTemplate(w)
    \/ WorkerSendFails(w)
    \/ WorkerReport(w)
    \/ WorkerExit(w)

BNext ==
    \/ \E w \in Workers : WorkerStep(w)
    \/ CollectorRuns
    \/ CollectorLeaves
    \/ MainWait
    \/ MainStop
    \/ Cancel

BSpec == BInit /\ [][BNext]_bvars

\* Goroutines run; blocked senders of a channel are served in turn; a select
\* that finds ctx.Done ready again and again picks it eventually.  Nothing is
\* assumed of ticks: the network and the clock decide when a packet is sent.
BFairness ==
    /\ \A w \in Workers :
          /\ WF_bvars(WorkerListen(w))
          /\ SF_bvars(WorkerReport(w))
          /\ SF_bvars(WorkerExit(w))
    /\ WF_bvars(CollectorRuns)
    /\ SF_bvars(CollectorLeaves)
    /\ WF_bvars(MainWait) /\ WF_bvars(MainStop)

BFairSpec == BSpec /\ BFairness

-----------------------------------------------------------------------------
(* Safety *)

\* The WaitGroup counts exactly the goroutines still running, so Wait returns
\* neither early nor late.
WaitGroupExact == wg = Cardinality(Live) + CollectorCount

\* Nothing a worker reported is lost or overtaken in flight: wherever the
\* newest report is (channel, collector or map), it is what the worker has
\* counted, except for the one packet it is about to report.
ReportsCurrent ==
    \A w \in Workers : wpc[w] # "report" => Newest(w) = wStats[w]

-----------------------------------------------------------------------------
(* Liveness *)

\* The collector has left and a worker waits for room nobody will make.
Stuck == cpc = "done" /\ ~Room /\ \E w \in Workers : wpc[w] = "report"

\* After a cancellation RunCtx returns, unless a worker is caught in its
\* report with the collector gone; there is no third outcome.
ShutdownOrStuck == cancelled ~> (mpc = "returned" \/ Stuck)

\* What the doc comment of RunCtx promises: "Cancelling ctx stops all workers
\* cleanly."  It does not hold.
ShutdownCompletes == cancelled ~> (mpc = "returned")

\* While the context lives, whatever a worker has counted reaches the map.
EventuallyShown ==
    \A w \in Workers : \A n \in 1..MaxFlows :
        (wStats[w].flows = n) ~>
            (cancelled \/ (w \in DOMAIN statsMap /\ statsMap[w].flows >= n))
=============================================================================
