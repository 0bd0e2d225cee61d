--------------------------- MODULE StatsHandlers ---------------------------
(***************************************************************************)
(* The HTTP handlers of stats/collector.go beside the running collector.   *)
(* Each copies what it shows under the read lock and writes the response   *)
(* after it has given the lock back, while reports keep arriving.          *)
(*                                                                         *)
(* One client polls the endpoints one after another, as the dashboard page *)
(* does.  A response is a sequence of snapshots: the live view is one      *)
(* snapshot, the history all of them.                                      *)
(***************************************************************************)
EXTENDS StatsCollector

VARIABLES
    request,        \* the request being answered: "none", "live" or "history"
    copy,           \* the handler's own copy
    reply           \* the last response written

responseVars == <<request, copy, reply>>
hvars == <<vars, responseVars>>

HandlersInit == Init /\ request = "none" /\ copy = <<>> /\ reply = <<>>

\* StatsMap and StatsTotals, under sc.mu.RLock().
CopyLive ==
    /\ request = "none"
    /\ request' = "live"
    /\ copy' = <<Snapshot(statsTotals, statsMap)>>
    /\ UNCHANGED <<vars, reply>>

StatsHandler == CopyLive
DashboardHandler == CopyLive

\* copy(historyCopy, sc.History), under sc.mu.RLock().
HistoryHandler ==
    /\ request = "none"
    /\ request' = "history"
    /\ copy' = history
    /\ UNCHANGED <<vars, reply>>

\* Mutant of Encode: the totals are read after the lock has been given back.
EncodeLate ==
    /\ request # "none"
    /\ reply' = IF request = "live" THEN <<Snapshot(statsTotals, copy[1].workers)>> ELSE copy
    /\ request' = "none"
    /\ copy' = <<>>
    /\ UNCHANGED vars

\* json's Encode or the template's Execute, without the lock.
Encode ==
    /\ request # "none"
    /\ reply' = copy
    /\ request' = "none"
    /\ copy' = <<>>
    /\ UNCHANGED vars

HandlersNext ==
    \/ Next /\ UNCHANGED responseVars
    \/ StatsHandler
    \/ DashboardHandler
    \/ HistoryHandler
    \/ Encode

HandlersSpec == HandlersInit /\ [][HandlersNext]_hvars

-----------------------------------------------------------------------------
(* Safety *)

\* Every snapshot shown adds up: its totals are the sum over its workers,
\* whatever the collector did between the copy and the response.
RepliesAddUp == \A i \in DOMAIN reply : reply[i].totals = Totals(reply[i].workers)

\* Nothing is shown by an empty response.
Latest(r) == IF r = <<>> THEN Snapshot(Zero, <<>>) ELSE r[Len(r)]

\* A client that polls both endpoints never sees the counters run backwards, neither
\* the totals nor those of a worker, and never sees a worker disappear: the newest
\* snapshot of the history and the live view never lag each other.
PollsNeverGoBack == [][Advances(Latest(reply), Latest(reply'))]_hvars
=============================================================================
