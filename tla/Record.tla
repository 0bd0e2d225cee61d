------------------------------- MODULE Record -------------------------------
(***************************************************************************)
(* `flowgre record`: three goroutines of one errgroup,                     *)
(*   runNetIngest --parseChan--> runParseFlow --dataChan--> runDBIngest,   *)
(* store the valid flow packets they receive in a badger database under    *)
(* consecutive 32-bit keys.  Both channels are buffered and both sends     *)
(* block (unless the context ends), so the pipeline pushes back instead of *)
(* dropping.  The database outlives the process: a run may end or crash at *)
(* any step and the next one continues the key sequence.                   *)
(*                                                                         *)
(* A packet is its arrival number; flows says which packets are valid.     *)
(***************************************************************************)
EXTENDS UDPListener, Sequences

CONSTANTS
    ParseCap,   \* capacity of parseChan (1024 in the code)
    DataCap,    \* capacity of dataChan (1024 in the code)
    MaxKey      \* the largest key (2^32 - 1 in the code)

ASSUME CapAssumption == ParseCap \in Nat \ {0} /\ DataCap \in Nat \ {0}
ASSUME MaxKeyAssumption == MaxKey \in Nat \ {0}

VARIABLES
    parseChan, dataChan,
    ppc, pheld,     \* parser: its place, and the valid packet it is sending
    wpc, nextID,    \* writer: its place, and the key it will use next
    db,             \* the badger database: key -> packet
    base            \* packets that arrived before this run began (history)

vars == <<groupVars, listenerVars, netVars, parseChan, dataChan, ppc, pheld,
          wpc, nextID, db, base>>

Goroutines == {"listener", "parser", "writer"}

Room(chan, cap) == Len(chan) < cap
Stored == {db[k] : k \in DOMAIN db}
InChan(chan) == {chan[i] : i \in DOMAIN chan}

GroupTypeOK ==
    /\ alive \subseteq Goroutines
    /\ firstErr \in Goroutines \cup {NoErr}
    /\ cancelled \in BOOLEAN /\ parentDone \in BOOLEAN

PipeTypeOK ==
    /\ parseChan \in Seq(1..arrived) /\ Len(parseChan) <= ParseCap
    /\ dataChan \in Seq(1..arrived) /\ Len(dataChan) <= DataCap
    /\ ppc \in {"select", "send", "done"}
    /\ pheld \in 0..arrived /\ (pheld # NoPacket <=> ppc = "send")

StoreTypeOK ==
    /\ wpc \in {"open", "select", "done"} /\ nextID \in 1..MaxKey
    /\ DOMAIN db \subseteq 1..MaxKey
    /\ \A k \in DOMAIN db : db[k] \in 1..arrived
    /\ base \in 0..arrived

\* The channels never exceed their capacity, what they hold has arrived, and
\* nextRecordID stays inside the key space.
TypeOK == GroupTypeOK /\ ListenerTypeOK /\ PipeTypeOK /\ StoreTypeOK

\* The state of a process that has just called RunCtx.
SessionInit ==
    /\ GroupInit(Goroutines)
    /\ ListenerInit
    /\ parseChan = <<>> /\ dataChan = <<>>
    /\ ppc = "select" /\ pheld = NoPacket
    /\ wpc = "open" /\ nextID = 1

Init == SessionInit /\ NetInit /\ db = <<>> /\ base = 0

-----------------------------------------------------------------------------
(* runNetIngest *)

ListenerAlone ==
    UNCHANGED <<netVars, parseChan, dataChan, ppc, pheld, wpc, nextID, db, base>>

ListenerOnly == (ListenerStep \/ Wakeup) /\ ListenerAlone

ReceivePacket ==
    /\ Receive
    /\ UNCHANGED <<parseChan, dataChan, ppc, pheld, wpc, nextID, db, base>>

\* Mutant of Deliver: drop the packet when parseChan is full, as proxy does.
DeliverOrDrop ==
    /\ lpc = "deliver"
    /\ parseChan' = IF Room(parseChan, ParseCap) THEN Append(parseChan, lheld) ELSE parseChan
    /\ lpc' = "check" /\ lheld' = NoPacket
    /\ UNCHANGED <<deadline, wakeup, groupVars>>
    /\ UNCHANGED <<netVars, dataChan, ppc, pheld, wpc, nextID, db, base>>

\* select { case data <- payload: ; case <-ctx.Done(): return nil }
Deliver ==
    /\ lpc = "deliver"
    /\ \/ /\ Room(parseChan, ParseCap)
          /\ parseChan' = Append(parseChan, lheld)
          /\ lpc' = "check" /\ lheld' = NoPacket
          /\ UNCHANGED <<deadline, wakeup, groupVars>>
       \/ /\ cancelled
          /\ ListenerReturns
          /\ UNCHANGED parseChan
    /\ UNCHANGED <<netVars, dataChan, ppc, pheld, wpc, nextID, db, base>>

-----------------------------------------------------------------------------
(* runParseFlow *)

\* Take a payload and validate it: a valid one is sent on, any other skipped.
ParserTake ==
    /\ ppc = "select"
    /\ parseChan # <<>>
    /\ parseChan' = Tail(parseChan)
    /\ \/ Head(parseChan) \in flows /\ ppc' = "send" /\ pheld' = Head(parseChan)
       \/ Head(parseChan) \notin flows /\ UNCHANGED <<ppc, pheld>>
    /\ UNCHANGED <<groupVars, listenerVars, netVars, dataChan, wpc, nextID, db, base>>

\* Mutant of ParserSend: give up on a full dataChan.
ParserSendOrDrop ==
    /\ ppc = "send"
    /\ dataChan' = IF Room(dataChan, DataCap) THEN Append(dataChan, pheld) ELSE dataChan
    /\ ppc' = "select" /\ pheld' = NoPacket
    /\ UNCHANGED <<groupVars, listenerVars, netVars, parseChan, wpc, nextID, db, base>>

ParserSend ==
    /\ ppc = "send"
    /\ Room(dataChan, DataCap)
    /\ dataChan' = Append(dataChan, pheld)
    /\ ppc' = "select" /\ pheld' = NoPacket
    /\ UNCHANGED <<groupVars, listenerVars, netVars, parseChan, wpc, nextID, db, base>>

\* <-ctx.Done() in either select: the held packet is abandoned.
ParserExit ==
    /\ ppc \in {"select", "send"}
    /\ cancelled
    /\ Return("parser")
    /\ ppc' = "done" /\ pheld' = NoPacket
    /\ UNCHANGED <<listenerVars, netVars, parseChan, dataChan, wpc, nextID, db, base>>

-----------------------------------------------------------------------------
(* runDBIngest *)

LastKey(keys) == CHOOSE k \in keys : \A j \in keys : j <= k

\* Mutant of NextRecordID: resume at the last key.
NextRecordIDFromLast(keys) == IF keys = {} THEN 1 ELSE LastKey(keys)

\* nextRecordID: one past the last key of the database.
NextRecordID(keys) == IF keys = {} THEN 1 ELSE LastKey(keys) + 1

\* Exhausted when the database already holds the largest key.
KeysExhausted == MaxKey \in DOMAIN db

writerRest == <<listenerVars, netVars, parseChan, ppc, pheld, base>>

WriterFails == wpc' = "done" /\ Fail("writer") /\ UNCHANGED nextID

\* badger.Open and nextRecordID; either may fail, the latter also when no
\* key is left.
WriterOpen ==
    /\ wpc = "open"
    /\ \/ WriterFails
       \/ /\ ~KeysExhausted
          /\ nextID' = NextRecordID(DOMAIN db)
          /\ wpc' = "select"
          /\ UNCHANGED groupVars
    /\ UNCHANGED <<writerRest, dataChan, db>>

Put(key, packet) == [k \in DOMAIN db \cup {key} |-> IF k = key THEN packet ELSE db[k]]

\* Mutant of AfterWrite: stop on the largest key without an error.
AfterWriteSilent ==
    \/ nextID = MaxKey /\ wpc' = "done" /\ Return("writer") /\ UNCHANGED nextID
    \/ nextID < MaxKey /\ nextID' = nextID + 1 /\ UNCHANGED <<wpc, groupVars>>

\* After a write: no key is left, or move on to the next key.
AfterWrite ==
    \/ nextID = MaxKey /\ WriterFails
    \/ nextID < MaxKey /\ nextID' = nextID + 1 /\ UNCHANGED <<wpc, groupVars>>

\* Mutant of WriterStore: log a failed write and go on with the next key.
WriterStoreSwallows ==
    /\ wpc = "select"
    /\ dataChan # <<>>
    /\ dataChan' = Tail(dataChan)
    /\ db' = Put(nextID, Head(dataChan)) \/ UNCHANGED db
    /\ AfterWrite
    /\ UNCHANGED writerRest

\* db.Update with the next payload: it commits, or fails and ends the writer.
WriterStore ==
    /\ wpc = "select"
    /\ dataChan # <<>>
    /\ dataChan' = Tail(dataChan)
    /\ \/ db' = Put(nextID, Head(dataChan)) /\ AfterWrite
       \/ WriterFails /\ UNCHANGED db
    /\ UNCHANGED writerRest

\* <-ctx.Done(): return nil, or the error of the deferred db.Close.
WriterExit ==
    /\ wpc = "select"
    /\ cancelled
    /\ wpc' = "done"
    /\ Return("writer") \/ Fail("writer")
    /\ UNCHANGED <<writerRest, dataChan, nextID, db>>

-----------------------------------------------------------------------------
(* The environment *)

Cancel ==
    /\ alive # {}
    /\ ParentCancel
    /\ UNCHANGED <<listenerVars, netVars, parseChan, dataChan, ppc, pheld,
                   wpc, nextID, db, base>>

\* The process ends, or crashes at any step, and a new run starts on the
\* same database.  Committed records survive; the channels do not.
Restart ==
    /\ alive' = Goroutines /\ firstErr' = NoErr
    /\ cancelled' = FALSE /\ parentDone' = FALSE
    /\ lpc' = "bind" /\ deadline' = "future" /\ wakeup' = "unset" /\ lheld' = NoPacket
    /\ parseChan' = <<>> /\ dataChan' = <<>>
    /\ ppc' = "select" /\ pheld' = NoPacket
    /\ wpc' = "open" /\ nextID' = 1
    /\ base' = arrived
    /\ UNCHANGED <<netVars, db>>

ListenerNext == ListenerOnly \/ ReceivePacket \/ Deliver
ParserNext == ParserTake \/ ParserSend \/ ParserExit
WriterNext == WriterOpen \/ WriterStore \/ WriterExit

Next == ListenerNext \/ ParserNext \/ WriterNext \/ Cancel \/ Restart

Spec == Init /\ [][Next]_vars

\* The Go scheduler runs every goroutine that can move, the AfterFunc's too; a
\* select with two ready cases may take either, so nothing is assumed about
\* that choice.  Nothing is assumed about packets or errors of the socket: in
\* a read the listener can count on its deadline alone.
Fairness ==
    /\ WF_vars((ListenerProgress /\ ListenerAlone) \/ Deliver)
    /\ WF_vars(Wakeup /\ ListenerAlone)
    /\ WF_vars(ParserNext) /\ WF_vars(WriterNext)

FairSpec == Spec /\ Fairness

-----------------------------------------------------------------------------
(* Safety *)

\* The keys of the database are 1..n without a hole, over every cancellation,
\* crash and restart (record.go:95-122 resumes where the last run stopped).
KeysContiguous == \E n \in 0..MaxKey : DOMAIN db = 1..n

\* What is stored of a run is a gap-free prefix of the valid packets it
\* received: whatever is abandoned at cancellation or after a write error
\* arrived later than everything stored.
StoredIsPrefix ==
    \A p \in Stored : \A q \in flows : base < q /\ q < p => q \in Stored

\* No stage leaves while the others keep running on a live context, and the
\* context ends only for an error that eg.Wait reports or by the caller.
StopsForAReason ==
    /\ alive # Goroutines => cancelled
    /\ cancelled /\ firstErr = NoErr => parentDone

\* A record once written is never overwritten or lost, by later writes, by the
\* end of the key space or by a restart.
NeverOverwritten ==
    [][\A k \in DOMAIN db : k \in DOMAIN db' /\ db'[k] = db[k]]_vars

-----------------------------------------------------------------------------
(* The database implements the append-only log. *)

Log == INSTANCE RecordLog WITH log <- db, seen <- flows

\* The database runDBIngest writes is the append-only log of RecordLog: every
\* step, crashes included, appends the next record or leaves it alone.
ImplementsLog == Log!Spec

-----------------------------------------------------------------------------
(* Liveness *)

\* Once the context ends (signal, error of any stage) eg.Wait returns, unless
\* the process is restarted first.
ShutdownCompletes == cancelled ~> (Returned \/ ~cancelled)

\* A valid packet is eventually stored, unless the context ends or the
\* process is restarted before that.
EventuallyStored ==
    \A p \in 1..MaxPackets :
        (p \in flows) ~> (p \in Stored \/ cancelled \/ p <= base)
=============================================================================
