------------------------------- MODULE Replay -------------------------------
(***************************************************************************)
(* `flowgre replay` (replay/replay.go): dbReader iterates the recorded     *)
(* packets in key order and puts them on dataChan; a pool of workers takes *)
(* them off, sends each and then waits for its rate limiter.  Without      *)
(* --loop the reader makes one pass and closes dataChan, which ends the    *)
(* workers once they have drained it; with --loop it starts over.  All of  *)
(* them are goroutines of one errgroup.                                    *)
(*                                                                         *)
(* A record is its position in the database.                               *)
(***************************************************************************)
EXTENDS Errgroup, Naturals, Sequences, FiniteSets

CONSTANTS
    Workers,        \* labels of the workers (ValidateReplay: at least one)
    ChanCap,        \* capacity of dataChan (1024 in the code)
    MaxRecords,     \* bound: records in the database
    MaxPasses       \* bound: passes over the database in loop mode

ASSUME WorkersAssumption ==
    Workers \subseteq STRING /\ Workers # {} /\ "reader" \notin Workers /\ NoErr \notin Workers
ASSUME ChanCapAssumption == ChanCap \in Nat \ {0}
ASSUME BoundsAssumption == MaxRecords \in Nat /\ MaxPasses \in Nat \ {0}

VARIABLES
    loop, updateTS, \* --loop and --updatets, which nothing changes
    numRecords,     \* the database: records 1..numRecords
    unsupported,    \* a record whose version has no timestamp updater, or 0
    rpc,            \* reader: its place
    cursor,         \* reader: the record the iterator is at
    thisPass,       \* reader: recordsThisPass
    passes,         \* passes begun (history)
    dataChan, closed,
    wpc,            \* worker: its place
    sent            \* how often each record has been sent (history)

dbVars == <<loop, updateTS, numRecords, unsupported>>
readerVars == <<rpc, cursor, thisPass, passes>>
vars == <<groupVars, dbVars, readerVars, dataChan, closed, wpc, sent>>

Goroutines == {"reader"} \cup Workers
Records == 1..numRecords

\* dataChan never exceeds its capacity, the iterator never passes the end by
\* more than one, and no record is sent more often than there are passes.
TypeOK ==
    /\ alive \subseteq Goroutines
    /\ firstErr \in Goroutines \cup {NoErr}
    /\ cancelled \in BOOLEAN /\ parentDone \in BOOLEAN
    /\ loop \in BOOLEAN /\ updateTS \in BOOLEAN
    /\ numRecords \in 0..MaxRecords /\ unsupported \in 0..numRecords
    /\ rpc \in {"open", "top", "iterate", "send", "passEnd", "idle", "done"}
    /\ cursor \in 1..(numRecords + 1)
    /\ thisPass \in 0..numRecords
    /\ passes \in 0..MaxPasses
    /\ dataChan \in Seq(Records) /\ Len(dataChan) <= ChanCap
    /\ closed \in BOOLEAN
    /\ wpc \in [Workers -> {"bind", "select", "limit", "done"}]
    /\ sent \in [Records -> 0..MaxPasses]

Init ==
    /\ GroupInit(Goroutines)
    /\ loop \in BOOLEAN /\ updateTS \in BOOLEAN
    /\ numRecords \in 0..MaxRecords
    /\ unsupported \in 0..numRecords
    /\ rpc = "open" /\ cursor = 1 /\ thisPass = 0 /\ passes = 0
    /\ dataChan = <<>> /\ closed = FALSE
    /\ wpc = [w \in Workers |-> "bind"]
    /\ sent = [r \in Records |-> 0]

-----------------------------------------------------------------------------
(* dbReader *)

\* Mutant of DeferredClose: the channel is left open.
NoClose == UNCHANGED closed

\* if !loop { defer close(dataChan) }: done on every way out.
DeferredClose == closed' = (closed \/ ~loop)

ReaderReturns ==
    /\ rpc' = "done" /\ Return("reader") /\ DeferredClose
    /\ UNCHANGED <<cursor, thisPass, passes>>

ReaderFails ==
    /\ rpc' = "done" /\ Fail("reader") /\ DeferredClose
    /\ UNCHANGED <<cursor, thisPass, passes>>

ReaderGoesTo(place) == rpc' = place /\ UNCHANGED <<closed, groupVars>>

readerRest == <<dbVars, wpc, sent>>

\* badger.Open
ReaderOpen ==
    /\ rpc = "open"
    /\ \/ ReaderGoesTo("top") /\ UNCHANGED <<cursor, thisPass, passes>>
       \/ ReaderFails
    /\ UNCHANGED <<readerRest, dataChan>>

\* The head of the outer loop: leave if the context ended, else a new pass.
ReaderTop ==
    /\ rpc = "top"
    /\ \/ cancelled /\ ReaderReturns
       \/ /\ ~cancelled
          /\ passes < MaxPasses
          /\ ReaderGoesTo("iterate")
          /\ cursor' = 1 /\ thisPass' = 0 /\ passes' = passes + 1
    /\ UNCHANGED <<readerRest, dataChan>>

\* it.Valid(), the context check, and reading the value; an unsupported
\* record fails the pass when timestamps are to be updated.
ReaderIterate ==
    /\ rpc = "iterate"
    /\ \/ /\ cursor > numRecords \/ cancelled
          /\ ReaderGoesTo("passEnd") /\ UNCHANGED <<cursor, thisPass, passes>>
       \/ /\ cursor <= numRecords /\ ~cancelled
          /\ ~(updateTS /\ cursor = unsupported)
          /\ ReaderGoesTo("send") /\ UNCHANGED <<cursor, thisPass, passes>>
       \/ /\ cursor <= numRecords /\ ~cancelled
          /\ ReaderFails
    /\ UNCHANGED <<readerRest, dataChan>>

\* Mutant of ReaderSend: a full channel loses the record, as proxy's would.
ReaderSendOrDrop ==
    /\ rpc = "send"
    /\ dataChan' = IF Len(dataChan) < ChanCap THEN Append(dataChan, cursor) ELSE dataChan
    /\ ReaderGoesTo("iterate")
    /\ cursor' = cursor + 1 /\ thisPass' = thisPass + 1
    /\ UNCHANGED <<readerRest, passes>>

\* select { case dataChan <- value: ; case <-ctx.Done(): return nil }
ReaderSend ==
    /\ rpc = "send"
    /\ \/ /\ Len(dataChan) < ChanCap
          /\ dataChan' = Append(dataChan, cursor)
          /\ ReaderGoesTo("iterate")
          /\ cursor' = cursor + 1 /\ thisPass' = thisPass + 1
          /\ UNCHANGED passes
       \/ /\ cancelled
          /\ ReaderGoesTo("passEnd")
          /\ UNCHANGED <<cursor, thisPass, passes, dataChan>>
    /\ UNCHANGED readerRest

\* After db.View: one pass is enough, or loop, pausing if it was empty.
ReaderPassEnd ==
    /\ rpc = "passEnd"
    /\ \/ ~loop /\ ReaderReturns
       \/ /\ loop
          /\ ReaderGoesTo(IF thisPass = 0 THEN "idle" ELSE "top")
          /\ UNCHANGED <<cursor, thisPass, passes>>
    /\ UNCHANGED <<readerRest, dataChan>>

\* The 100 ms pause after an empty pass.
ReaderIdle ==
    /\ rpc = "idle"
    /\ \/ ReaderGoesTo("top") /\ UNCHANGED <<cursor, thisPass, passes>>
       \/ cancelled /\ ReaderReturns
    /\ UNCHANGED <<readerRest, dataChan>>

-----------------------------------------------------------------------------
(* worker *)

workerRest == <<dbVars, readerVars, closed>>

WorkerGoesTo(w, place) == wpc' = [wpc EXCEPT ![w] = place] /\ UNCHANGED groupVars
WorkerReturns(w) == wpc' = [wpc EXCEPT ![w] = "done"] /\ Return(w)

WorkerFails(w) == wpc' = [wpc EXCEPT ![w] = "done"] /\ Fail(w)

\* Pick and bind a source port.
WorkerBind(w) ==
    /\ wpc[w] = "bind"
    /\ WorkerGoesTo(w, "select") \/ WorkerFails(w)
    /\ UNCHANGED <<workerRest, dataChan, sent>>

\* Take a payload and send it.
WorkerSend(w) ==
    /\ wpc[w] = "select"
    /\ dataChan # <<>>
    /\ dataChan' = Tail(dataChan)
    /\ \/ /\ WorkerGoesTo(w, "limit")
          /\ sent' = [sent EXCEPT ![Head(dataChan)] = @ + 1]
       \/ WorkerFails(w) /\ UNCHANGED sent
    /\ UNCHANGED workerRest

\* Mutant of WorkerClosed: the close is obeyed before the channel is drained.
WorkerClosedAtOnce(w) ==
    /\ wpc[w] = "select" /\ closed
    /\ WorkerReturns(w)
    /\ UNCHANGED <<workerRest, dataChan, sent>>

\* !ok: the channel is closed and drained.
WorkerClosed(w) ==
    /\ wpc[w] = "select" /\ closed /\ dataChan = <<>>
    /\ WorkerReturns(w)
    /\ UNCHANGED <<workerRest, dataChan, sent>>

\* case <-limiter.C
WorkerTick(w) ==
    /\ wpc[w] = "limit"
    /\ WorkerGoesTo(w, "select")
    /\ UNCHANGED <<workerRest, dataChan, sent>>

\* Mutant of WorkerExit: the wait for the limiter has no ctx.Done() case, and
\* leaving is forgotten at the head of the loop.
WorkerExitOnlyLimited(w) ==
    /\ wpc[w] = "limit" /\ cancelled
    /\ WorkerReturns(w)
    /\ UNCHANGED <<workerRest, dataChan, sent>>

\* <-ctx.Done(), at the head of the loop or waiting for the limiter.
WorkerExit(w) ==
    /\ wpc[w] \in {"select", "limit"} /\ cancelled
    /\ WorkerReturns(w)
    /\ UNCHANGED <<workerRest, dataChan, sent>>

Cancel ==
    /\ alive # {}
    /\ ParentCancel
    /\ UNCHANGED <<dbVars, readerVars, dataChan, closed, wpc, sent>>

-----------------------------------------------------------------------------
ReaderNext ==
    \/ ReaderOpen \/ ReaderTop \/ ReaderIterate
    \/ ReaderSend \/ ReaderPassEnd \/ ReaderIdle

WorkerNext(w) ==
    WorkerBind(w) \/ WorkerSend(w) \/ WorkerClosed(w) \/ WorkerTick(w) \/ WorkerExit(w)

Next == ReaderNext \/ (\E w \in Workers : WorkerNext(w)) \/ Cancel

Spec == Init /\ [][Next]_vars

\* Goroutines run and tickers tick.
FairSpec == Spec /\ WF_vars(ReaderNext) /\ \A w \in Workers : WF_vars(WorkerNext(w))

-----------------------------------------------------------------------------
(* Safety *)

InChan(r) == Cardinality({i \in DOMAIN dataChan : dataChan[i] = r})

\* How often the reader has handed on record r.
HandedOn(r) == IF passes > 0 /\ cursor <= r THEN passes - 1 ELSE passes

\* Without --loop, a replay that returns nil and was not cancelled has sent
\* every record exactly once.
ReplayedExactlyOnce ==
    Returned /\ firstErr = NoErr /\ ~parentDone => \A r \in Records : sent[r] = 1

\* Nothing is repeated between the reader and the network: no record is sent more
\* often than the reader passed over it.  While the context lives nothing is lost
\* either: what was handed on is sent or waits in the channel.
EachRecordOncePerPass ==
    \A r \in Records :
        /\ sent[r] + InChan(r) <= passes
        /\ ~cancelled => sent[r] + InChan(r) = HandedOn(r)

-----------------------------------------------------------------------------
(* Liveness *)

\* "In non-loop mode, the function returns when all packets have been sent"; in
\* loop mode cancelling the context, or an error of any goroutine, ends the replay.
EndsUnlessLooping == (cancelled \/ ~loop) ~> Returned
=============================================================================
