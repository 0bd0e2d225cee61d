------------------------------- MODULE Proxy -------------------------------
(***************************************************************************)
(* `flowgre proxy` (proxy/proxy.go): the goroutines of one errgroup        *)
(*   listener --proxyChan--> parser --dataChan--> replicator               *)
(*            --workerChan[t]--> worker t --UDP--> target t                *)
(* relay every valid flow packet to every target.  Each of the three sends *)
(* is a select with a default branch: a full channel drops the packet, so  *)
(* that a slow target delays neither the listener nor the other targets.   *)
(* The channels are never closed.                                          *)
(*                                                                         *)
(* A packet is its arrival number; flows says which packets are valid.     *)
(***************************************************************************)
EXTENDS UDPListener, Sequences

CONSTANTS
    Targets,    \* the targets argument, as a sequence of distinct labels
    BufCap      \* capacity of every channel (1024 in the code)

\* RunCtx refuses an empty list and more than maxTargets = 10 targets.
ASSUME TargetsAssumption ==
    /\ Targets \in Seq(STRING) /\ Len(Targets) \in 1..10
    /\ \A i, j \in DOMAIN Targets : Targets[i] = Targets[j] => i = j
    /\ \A i \in DOMAIN Targets :
          Targets[i] \notin {"listener", "parser", "replicator", "printer", NoErr}
ASSUME BufCapAssumption == BufCap \in Nat \ {0}

VARIABLES
    proxyChan, dataChan, workerChan,
    ppc, pheld,                 \* parser, and the valid packet it forwards
    validCount, invalidCount,   \* rStats, shared with the stats printer
    rpc, rheld, rnext,          \* replicator, its packet, the next target
    tpc, whold,                 \* the worker of each target, and the packet it sends
    sent                        \* what each target has been sent (history)

chans == <<proxyChan, dataChan, workerChan>>
parserVars == <<ppc, pheld, validCount, invalidCount>>
replVars == <<rpc, rheld, rnext>>
workerVars == <<tpc, whold, sent>>
vars == <<groupVars, listenerVars, netVars, chans, parserVars, replVars, workerVars>>

TargetSet == {Targets[i] : i \in DOMAIN Targets}
Goroutines == {"listener", "parser", "replicator", "printer"} \cup TargetSet

Room(chan) == Len(chan) < BufCap
InSeq(s) == {s[i] : i \in DOMAIN s}

ChanOK(chan) == chan \in Seq(1..arrived) /\ Len(chan) <= BufCap

\* The channels never exceed their capacity and hold packets that have arrived,
\* and the replicator's place in targets stays inside it.
TypeOK ==
    /\ alive \subseteq Goroutines
    /\ firstErr \in Goroutines \cup {NoErr}
    /\ cancelled \in BOOLEAN /\ parentDone \in BOOLEAN
    /\ ListenerTypeOK
    /\ ChanOK(proxyChan) /\ ChanOK(dataChan)
    /\ DOMAIN workerChan = TargetSet /\ \A t \in TargetSet : ChanOK(workerChan[t])
    /\ ppc \in {"select", "send", "done"}
    /\ pheld \in 0..arrived /\ (pheld # NoPacket <=> ppc = "send")
    /\ validCount \in 0..arrived /\ invalidCount \in 0..arrived
    /\ rpc \in {"select", "fanout", "done"}
    /\ rheld \in 0..arrived /\ (rheld # NoPacket <=> rpc = "fanout")
    /\ rnext \in 1..Len(Targets)
    /\ tpc \in [TargetSet -> {"bind", "select", "send", "done"}]
    /\ whold \in [TargetSet -> 0..arrived]
    /\ \A t \in TargetSet : whold[t] # NoPacket <=> tpc[t] = "send"
    /\ sent \in [TargetSet -> Seq(1..arrived)]

Init ==
    /\ GroupInit(Goroutines) /\ ListenerInit /\ NetInit
    /\ proxyChan = <<>> /\ dataChan = <<>>
    /\ workerChan = [t \in TargetSet |-> <<>>]
    /\ ppc = "select" /\ pheld = NoPacket
    /\ validCount = 0 /\ invalidCount = 0
    /\ rpc = "select" /\ rheld = NoPacket /\ rnext = 1
    /\ tpc = [t \in TargetSet |-> "bind"]
    /\ whold = [t \in TargetSet |-> NoPacket]
    /\ sent = [t \in TargetSet |-> <<>>]

-----------------------------------------------------------------------------
(* runProxyListener *)

ListenerAlone == UNCHANGED <<netVars, chans, parserVars, replVars, workerVars>>

ListenerOnly == (ListenerStep \/ Wakeup) /\ ListenerAlone

ReceivePacket ==
    /\ Receive
    /\ UNCHANGED <<chans, parserVars, replVars, workerVars>>

\* select { case proxyChan <- payload: ; case <-ctx.Done(): return nil;
\*          default: drop }
Deliver ==
    /\ lpc = "deliver"
    /\ \/ /\ Room(proxyChan)
          /\ proxyChan' = Append(proxyChan, lheld)
          /\ lpc' = "check" /\ lheld' = NoPacket
          /\ UNCHANGED <<deadline, wakeup, groupVars>>
       \/ cancelled /\ ListenerReturns /\ UNCHANGED proxyChan
       \/ /\ ~Room(proxyChan) /\ ~cancelled
          /\ lpc' = "check" /\ lheld' = NoPacket
          /\ UNCHANGED <<deadline, wakeup, groupVars, proxyChan>>
    /\ UNCHANGED <<netVars, dataChan, workerChan, parserVars, replVars, workerVars>>

-----------------------------------------------------------------------------
(* runParseNetflow *)

parserRest == <<listenerVars, netVars, workerChan, replVars, workerVars>>

\* Mutant of ParserTake: the valid counter is raised before the verdict.
ParserTakeCountsBoth ==
    /\ ppc = "select"
    /\ proxyChan # <<>>
    /\ proxyChan' = Tail(proxyChan)
    /\ validCount' = validCount + 1
    /\ \/ /\ Head(proxyChan) \in flows
          /\ ppc' = "send" /\ pheld' = Head(proxyChan)
          /\ UNCHANGED invalidCount
       \/ /\ Head(proxyChan) \notin flows
          /\ invalidCount' = invalidCount + 1
          /\ UNCHANGED <<ppc, pheld>>
    /\ UNCHANGED <<parserRest, dataChan, groupVars>>

\* Take a payload, validate it and count it.
ParserTake ==
    /\ ppc = "select"
    /\ proxyChan # <<>>
    /\ proxyChan' = Tail(proxyChan)
    /\ \/ /\ Head(proxyChan) \in flows
          /\ validCount' = validCount + 1
          /\ ppc' = "send" /\ pheld' = Head(proxyChan)
          /\ UNCHANGED invalidCount
       \/ /\ Head(proxyChan) \notin flows
          /\ invalidCount' = invalidCount + 1
          /\ UNCHANGED <<ppc, pheld, validCount>>
    /\ UNCHANGED <<parserRest, dataChan, groupVars>>

\* The forwarding select: send, or drop on a full dataChan.
ParserForward ==
    /\ ppc = "send"
    /\ \/ Room(dataChan) /\ dataChan' = Append(dataChan, pheld)
       \/ ~Room(dataChan) /\ ~cancelled /\ UNCHANGED dataChan
    /\ ppc' = "select" /\ pheld' = NoPacket
    /\ UNCHANGED <<parserRest, proxyChan, validCount, invalidCount, groupVars>>

\* <-ctx.Done() in either select.
ParserExit ==
    /\ ppc \in {"select", "send"}
    /\ cancelled
    /\ Return("parser")
    /\ ppc' = "done" /\ pheld' = NoPacket
    /\ UNCHANGED <<parserRest, proxyChan, dataChan, validCount, invalidCount>>

-----------------------------------------------------------------------------
(* runReplicator *)

replRest == <<listenerVars, netVars, proxyChan, parserVars, workerVars>>

ReplTake ==
    /\ rpc = "select"
    /\ dataChan # <<>>
    /\ dataChan' = Tail(dataChan)
    /\ rpc' = "fanout" /\ rheld' = Head(dataChan) /\ rnext' = 1
    /\ UNCHANGED <<replRest, workerChan, groupVars>>

\* Mutant of NextTarget: stop after the first.
FirstTargetOnly == rpc' = "select" /\ rheld' = NoPacket /\ rnext' = 1

\* for _, target := range targets: on to the next target, or done.
NextTarget ==
    \/ rnext < Len(Targets) /\ rnext' = rnext + 1 /\ UNCHANGED <<rpc, rheld>>
    \/ rnext = Len(Targets) /\ rpc' = "select" /\ rheld' = NoPacket /\ rnext' = 1

\* Mutant of ReplSend: the packet stays with the target that took it.
ReplSendTwice ==
    LET t == Targets[rnext] IN
    /\ rpc = "fanout"
    /\ Room(workerChan[t])
    /\ workerChan' = [workerChan EXCEPT ![t] = Append(@, rheld)]
    /\ NextTarget \/ UNCHANGED replVars
    /\ UNCHANGED <<replRest, dataChan, groupVars>>

ReplSend ==
    LET t == Targets[rnext] IN
    /\ rpc = "fanout"
    /\ Room(workerChan[t])
    /\ workerChan' = [workerChan EXCEPT ![t] = Append(@, rheld)]
    /\ NextTarget
    /\ UNCHANGED <<replRest, dataChan, groupVars>>

\* Mutant of ReplDrop: no default branch, the replicator waits for room.
ReplWaits == FALSE /\ NextTarget

\* default: the target's channel is full and it misses this packet.
ReplDrop ==
    /\ rpc = "fanout"
    /\ ~Room(workerChan[Targets[rnext]])
    /\ ~cancelled
    /\ NextTarget
    /\ UNCHANGED <<replRest, dataChan, workerChan, groupVars>>

\* <-ctx.Done(), also in the middle of the targets.
ReplExit ==
    /\ rpc \in {"select", "fanout"}
    /\ cancelled
    /\ Return("replicator")
    /\ rpc' = "done" /\ rheld' = NoPacket /\ rnext' = 1
    /\ UNCHANGED <<replRest, dataChan, workerChan>>

-----------------------------------------------------------------------------
(* runWorker, one per target, and runStatsPrinter *)

workerRest == <<listenerVars, netVars, proxyChan, dataChan, parserVars, replVars>>

\* Mutant of WorkerFails: log the error and return nil, as the unused wrapper
\* worker does.
WorkerFailsSilently(t) ==
    tpc' = [tpc EXCEPT ![t] = "done"] /\ whold' = [whold EXCEPT ![t] = NoPacket] /\ Return(t)

WorkerFails(t) ==
    tpc' = [tpc EXCEPT ![t] = "done"] /\ whold' = [whold EXCEPT ![t] = NoPacket] /\ Fail(t)

\* Pick and bind a source port; another worker may hold the same one.
WorkerBind(t) ==
    /\ tpc[t] = "bind"
    /\ \/ tpc' = [tpc EXCEPT ![t] = "select"] /\ UNCHANGED <<whold, groupVars>>
       \/ WorkerFails(t)
    /\ UNCHANGED <<workerRest, workerChan, sent>>

\* case payload := <-workerChan: the worker goes into SendPacket with it.
WorkerTake(t) ==
    /\ tpc[t] = "select"
    /\ workerChan[t] # <<>>
    /\ workerChan' = [workerChan EXCEPT ![t] = Tail(@)]
    /\ tpc' = [tpc EXCEPT ![t] = "send"]
    /\ whold' = [whold EXCEPT ![t] = Head(workerChan[t])]
    /\ UNCHANGED <<workerRest, sent, groupVars>>

\* SendPacket returns: the packet is sent, or its error ends the whole proxy.
\* WriteTo has no deadline, and nothing here looks at the context.
WorkerSend(t) ==
    /\ tpc[t] = "send"
    /\ \/ /\ sent' = [sent EXCEPT ![t] = Append(@, whold[t])]
          /\ tpc' = [tpc EXCEPT ![t] = "select"]
          /\ whold' = [whold EXCEPT ![t] = NoPacket]
          /\ UNCHANGED groupVars
       \/ WorkerFails(t) /\ UNCHANGED sent
    /\ UNCHANGED <<workerRest, workerChan>>

\* <-ctx.Done() in the worker's select.
WorkerExit(t) ==
    /\ tpc[t] = "select"
    /\ cancelled
    /\ tpc' = [tpc EXCEPT ![t] = "done"]
    /\ Return(t)
    /\ UNCHANGED <<workerRest, workerChan, whold, sent>>

\* The printer only reads the counters; it ends with the context.
PrinterExit ==
    /\ "printer" \in alive
    /\ cancelled
    /\ Return("printer")
    /\ UNCHANGED <<workerRest, workerChan, workerVars>>

Cancel ==
    /\ alive # {}
    /\ ParentCancel
    /\ UNCHANGED <<listenerVars, netVars, chans, parserVars, replVars, workerVars>>

-----------------------------------------------------------------------------
ListenerNext == ListenerOnly \/ ReceivePacket \/ Deliver
ParserNext == ParserTake \/ ParserForward \/ ParserExit
ReplNext == ReplTake \/ ReplSend \/ ReplDrop \/ ReplExit
WorkerNext(t) == WorkerBind(t) \/ WorkerTake(t) \/ WorkerSend(t) \/ WorkerExit(t)

Next ==
    \/ ListenerNext
    \/ ParserNext
    \/ ReplNext
    \/ \E t \in TargetSet : WorkerNext(t)
    \/ PrinterExit
    \/ Cancel

Spec == Init /\ [][Next]_vars

\* Every goroutine that can move does, as in Record, but a worker may stay inside
\* SendPacket for ever, and need not take what is in its channel: what follows holds
\* with targets whose sockets accept nothing, whatever waits behind them.
Fairness ==
    /\ WF_vars((ListenerProgress /\ ListenerAlone) \/ Deliver)
    /\ WF_vars(Wakeup /\ ListenerAlone)
    /\ WF_vars(ParserNext) /\ WF_vars(ReplNext)
    /\ \A t \in TargetSet : WF_vars(WorkerBind(t)) /\ WF_vars(WorkerExit(t))
    /\ WF_vars(PrinterExit)

FairSpec == Spec /\ Fairness

-----------------------------------------------------------------------------
(* Safety *)

\* What has been sent to t or is on its way to t.
OnTheWay(t) ==
    InSeq(sent[t]) \cup {whold[t]} \cup InSeq(workerChan[t]) \cup InSeq(dataChan)
        \cup InSeq(proxyChan) \cup {pheld, lheld}
        \cup (IF rpc = "fanout" /\ \E i \in rnext..Len(Targets) : Targets[i] = t
              THEN {rheld} ELSE {})

\* A burst that fits the buffers is relayed in full: while the context lives
\* every valid packet has been sent to each target or is on its way there.
BurstRelayed ==
    ~cancelled /\ arrived <= BufCap => \A t \in TargetSet : flows \subseteq OnTheWay(t)

\* The packet t's worker is sending, as a number.
InHand(t) == IF tpc[t] = "send" THEN 1 ELSE 0

\* The counters the printer shows: every packet sent to a target was counted
\* as valid before, and no packet is counted twice.
CountsConsistent ==
    /\ validCount + invalidCount + Len(proxyChan) <= arrived
    /\ \A t \in TargetSet : Len(sent[t]) + Len(workerChan[t]) + InHand(t) <= validCount

\* No stage leaves while the others keep running on a live context, and the
\* context ends only for an error that RunCtx reports or by the caller.
StopsForAReason ==
    /\ alive # Goroutines => cancelled
    /\ cancelled /\ firstErr = NoErr => parentDone

Relay == INSTANCE LossyRelay WITH seen <- flows, out <- sent

\* What each target is sent is the abstract lossy relay: runReplicator's channels
\* keep the targets independent, and nothing is invented, repeated or reordered.
ImplementsRelay == Relay!Spec

-----------------------------------------------------------------------------
(* Liveness *)

\* Neither a stalled target nor a full channel ever holds up the listener, the
\* parser or the replicator: each hand-off ends without any worker's help.
NeverHeldUp ==
    /\ (lpc = "deliver") ~> (lpc # "deliver")
    /\ (ppc = "send") ~> (ppc # "send")
    /\ (rpc = "fanout") ~> (rpc # "fanout")

\* Once the context ends, by the caller or by the error of any goroutine, nothing
\* holds up eg.Wait, and with it RunCtx, but workers whose SendPacket does not
\* return: every other goroutine, those at a full or an empty channel and the
\* listener in its read included, has left for good.
OnlySendsHoldShutdown ==
    cancelled ~> [](alive \subseteq {t \in TargetSet : tpc[t] = "send"})
=============================================================================
