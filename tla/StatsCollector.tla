--------------------------- MODULE StatsCollector ---------------------------
(***************************************************************************)
(* The barrage statistics collector (stats/collector.go): one goroutine    *)
(* takes cumulative per-worker reports off StatsChan, replaces the         *)
(* worker's entry of StatsMap, recomputes StatsTotals from the map and     *)
(* appends a snapshot to a rolling History, all under one lock that the    *)
(* HTTP handlers take for reading.  It stops when StatsChan is closed or   *)
(* when its context ends, whichever its select picks.                      *)
(*                                                                         *)
(* A report is a worker's running total.  BytesSent is left out: it is     *)
(* added up exactly as FlowsSent is.  Barrage extends this module with the *)
(* workers; Spec below runs the collector with the simplest producers, as  *)
(* its unit tests do.                                                      *)
(***************************************************************************)
EXTENDS Naturals, Sequences, FiniteSetsExt

CONSTANTS
    Workers,        \* worker ids
    ChanCap,        \* capacity of StatsChan (config.Workers + 20 in the code)
    MaxHistory,     \* snapshots kept (300 in the code)
    FlowCounts,     \* flows a data packet may carry (5..24 in the code)
    MaxFlows        \* bound: a worker stops counting at this many flows

\* config.Workers is an int; ids are its goroutines.
ASSUME WorkersAssumption == IsFiniteSet(Workers)

ASSUME CapacityAssumption == ChanCap \in Nat \ {0} /\ MaxHistory \in Nat \ {0}
ASSUME FlowAssumption == FlowCounts \subseteq Nat \ {0} /\ MaxFlows \in Nat

VARIABLES
    cancelled,      \* the context has ended
    wStats,         \* each worker's own counters
    statsChan,      \* StatsChan
    closed,         \* StatsChan has been closed by Stop
    cpc,            \* collector: "select", "update" or "done"
    received,       \* the report taken and not yet applied
    statsMap,       \* StatsMap: worker -> counters, for workers that reported
    statsTotals,    \* StatsTotals
    history         \* History

collectorVars == <<cpc, received, statsMap, statsTotals, history>>
vars == <<cancelled, wStats, statsChan, closed, collectorVars>>

Counters == [cycles : Nat, flows : Nat]
Zero == [cycles |-> 0, flows |-> 0]
Reports == [worker : Workers, stat : Counters]
NoReport == [worker |-> "none", stat |-> Zero]

Leq(a, b) == a.cycles <= b.cycles /\ a.flows <= b.flows

\* StatsChan never exceeds its capacity and the history never MaxHistory.
TypeOK ==
    /\ cancelled \in BOOLEAN /\ closed \in BOOLEAN
    /\ wStats \in [Workers -> Counters]
    /\ statsChan \in Seq(Reports) /\ Len(statsChan) <= ChanCap
    /\ cpc \in {"select", "update", "done"}
    /\ received \in Reports \cup {NoReport}
    /\ DOMAIN statsMap \subseteq Workers
    /\ \A w \in DOMAIN statsMap : statsMap[w] \in Counters
    /\ statsTotals \in Counters
    /\ Len(history) <= MaxHistory

Init ==
    /\ cancelled = FALSE /\ closed = FALSE
    /\ wStats = [w \in Workers |-> Zero]
    /\ statsChan = <<>>
    /\ cpc = "select" /\ received = NoReport
    /\ statsMap = <<>> /\ statsTotals = Zero /\ history = <<>>

-----------------------------------------------------------------------------
(* Collector.Run *)

\* case stat, ok := <-sc.StatsChan with a stat.
CollectorReceive ==
    /\ cpc = "select"
    /\ statsChan # <<>>
    /\ received' = Head(statsChan)
    /\ statsChan' = Tail(statsChan)
    /\ cpc' = "update"
    /\ UNCHANGED <<cancelled, wStats, closed, statsMap, statsTotals, history>>

\* The totals are reset and added up again from the map, "to avoid double-counting
\* cumulative stats".
Totals(map) ==
    LET cyclesOf(w) == map[w].cycles
        flowsOf(w) == map[w].flows
    IN  [cycles |-> MapThenSumSet(cyclesOf, DOMAIN map),
         flows |-> MapThenSumSet(flowsOf, DOMAIN map)]

Snapshot(totals, map) == [totals |-> totals, workers |-> map]

\* Mutants of Trimmed: trim the wrong end; reuse the first slot.
TrimmedNewest(h) == IF Len(h) > MaxHistory THEN SubSeq(h, 1, MaxHistory) ELSE h
TrimmedInPlace(h) ==
    IF Len(h) > MaxHistory THEN <<h[Len(h)]>> \o SubSeq(h, 2, MaxHistory) ELSE h

\* sc.History[len(sc.History)-MaxHistory:] once the cap is exceeded.
Trimmed(h) == IF Len(h) > MaxHistory THEN SubSeq(h, Len(h) - MaxHistory + 1, Len(h)) ELSE h

\* The critical section under sc.mu, appendSnapshot included.
CollectorUpdate ==
    LET w == received.worker
        map == [x \in DOMAIN statsMap \cup {w} |->
                    IF x = w THEN received.stat ELSE statsMap[x]]
        totals == Totals(map)
    IN  /\ cpc = "update"
        /\ statsMap' = map
        /\ statsTotals' = totals
        /\ history' = Trimmed(Append(history, Snapshot(totals, map)))
        /\ received' = NoReport
        /\ cpc' = "select"
        /\ UNCHANGED <<cancelled, wStats, statsChan, closed>>

\* Mutant of CollectorClosed: leave on close with reports still buffered.
CollectorClosedAtOnce ==
    /\ cpc = "select" /\ closed
    /\ cpc' = "done"
    /\ UNCHANGED <<cancelled, wStats, statsChan, closed, received, statsMap, statsTotals, history>>

\* !ok: the channel is closed and drained.
CollectorClosed ==
    /\ cpc = "select"
    /\ closed
    /\ statsChan = <<>>
    /\ cpc' = "done"
    /\ UNCHANGED <<cancelled, wStats, statsChan, closed, received, statsMap, statsTotals, history>>

\* <-ctx.Done()
CollectorExit ==
    /\ cpc = "select"
    /\ cancelled
    /\ cpc' = "done"
    /\ UNCHANGED <<cancelled, wStats, statsChan, closed, received, statsMap, statsTotals, history>>

\* Collector.Stop: close(sc.StatsChan).
Stop ==
    /\ ~closed
    /\ closed' = TRUE
    /\ UNCHANGED <<cancelled, wStats, statsChan, collectorVars>>

CancelContext ==
    /\ ~cancelled
    /\ cancelled' = TRUE
    /\ UNCHANGED <<wStats, statsChan, closed, collectorVars>>

-----------------------------------------------------------------------------
(* A worker's counters after one more packet, and its report *)

Counted(w, cycles, flows) ==
    [wStats EXCEPT ![w] = [cycles |-> @.cycles + cycles, flows |-> @.flows + flows]]

Room == Len(statsChan) < ChanCap

Report(w) == [worker |-> w, stat |-> wStats[w]]

\* The producers of Spec: count one data packet and report it in one step.
Produce(w) ==
    /\ ~closed
    /\ Room
    /\ wStats[w].flows < MaxFlows
    /\ \E n \in FlowCounts : wStats' = Counted(w, 1, n)
    /\ statsChan' = Append(statsChan, [worker |-> w, stat |-> wStats'[w]])
    /\ UNCHANGED <<cancelled, closed, collectorVars>>

CollectorStep == CollectorReceive \/ CollectorUpdate \/ CollectorClosed

Next ==
    \/ CollectorStep
    \/ CollectorExit
    \/ Stop
    \/ CancelContext
    \/ \E w \in Workers : Produce(w)

Spec == Init /\ [][Next]_vars

\* The collector's goroutine runs; a select that finds ctx.Done ready again
\* and again picks it eventually (Go chooses uniformly among ready cases).
CollectorFairness == WF_vars(CollectorStep) /\ SF_vars(CollectorExit)

-----------------------------------------------------------------------------
(* Safety *)

\* Between two snapshots neither the totals nor a worker's counters run backwards,
\* and no worker leaves.
Advances(a, b) ==
    /\ Leq(a.totals, b.totals)
    /\ \A w \in DOMAIN a.workers :
          w \in DOMAIN b.workers /\ Leq(a.workers[w], b.workers[w])

\* Counters never run backwards along the history, and no worker leaves it.
HistoryMonotone == \A i \in 1..(Len(history) - 1) : Advances(history[i], history[i + 1])

\* The newest report of w on its way to the map, or else the map's entry.
Newest(w) ==
    LET inChan == {i \in DOMAIN statsChan : statsChan[i].worker = w}
    IN  IF inChan # {} THEN statsChan[Max(inChan)].stat
        ELSE IF cpc = "update" /\ received.worker = w THEN received.stat
        ELSE IF w \in DOMAIN statsMap THEN statsMap[w] ELSE Zero

\* Stop without a cancelled context loses nothing: the collector leaves only
\* after it has applied every report sent before the close.
StopDrains == cpc = "done" /\ ~cancelled => \A w \in Workers :
    wStats[w] # Zero => w \in DOMAIN statsMap /\ statsMap[w] = wStats[w]

=============================================================================
