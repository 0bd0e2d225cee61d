---------------------------- MODULE Proxy_proofs ----------------------------
(***************************************************************************)
(* Proofs about Proxy, for every list of targets, channel capacity and     *)
(* number of packets.                                                      *)
(***************************************************************************)
EXTENDS Proxy, TLAPS

USE BufCapAssumption, MaxPacketsAssumption

\* The targets have distinct labels, which no other goroutine and no error has.
LEMMA TargetsFacts ==
    /\ Len(Targets) \in Nat /\ 1 \in 1..Len(Targets) /\ DOMAIN Targets = 1..Len(Targets)
    /\ \A i, j \in 1..Len(Targets) : Targets[i] = Targets[j] => i = j
    /\ TargetSet \subseteq Goroutines /\ NoErr \notin Goroutines
    /\ \A t \in TargetSet : t \notin {"listener", "parser", "replicator", "printer"}
  <1>1. /\ Len(Targets) \in 1..10 /\ DOMAIN Targets = 1..Len(Targets)
        /\ \A i, j \in DOMAIN Targets : Targets[i] = Targets[j] => i = j
    BY TargetsAssumption
  <1>2. 1 \in 1..Len(Targets) /\ Len(Targets) \in Nat
    BY <1>1
  <1>3. \A t \in TargetSet : t \notin {"listener", "parser", "replicator", "printer", NoErr}
    BY TargetsAssumption DEF TargetSet
  <1>4. NoErr \notin Goroutines
    BY <1>3 DEF Goroutines, NoErr
  <1> QED
    BY <1>1, <1>2, <1>3, <1>4 DEF Goroutines

-----------------------------------------------------------------------------
(* Channels *)

\* A sequence of packets that have arrived stays one when more arrive.
LEMMA SeqWiden ==
    ASSUME NEW m \in Nat, NEW n \in Nat, m <= n, NEW s \in Seq(1..m)
    PROVE  s \in Seq(1..n)
  <1>1. s \in [1..Len(s) -> 1..m] /\ Len(s) \in Nat
    OBVIOUS
  <1>2. s \in [1..Len(s) -> 1..n]
    BY <1>1
  <1> QED
    BY <1>2

\* Sending into a channel with room, and receiving from it.
LEMMA SendReceive ==
    ASSUME arrived \in Nat, NEW c, ChanOK(c)
    PROVE  /\ Len(c) \in Nat
           /\ \A e \in 1..arrived : Room(c) =>
                ChanOK(Append(c, e)) /\ Len(Append(c, e)) = Len(c) + 1
           /\ c # <<>> =>
                /\ Head(c) \in 1..arrived /\ Len(c) > 0
                /\ ChanOK(Tail(c)) /\ Len(Tail(c)) = Len(c) - 1
  BY DEF Room, ChanOK

\* Packets in arrival order, in a sequence and from one set to another.
Increasing(s) == \A i, j \in DOMAIN s : i < j => s[i] < s[j]
Below(S, T) == \A x \in S : \A y \in T : x < y

-----------------------------------------------------------------------------
(* Types and counts *)

\* The goroutines and the errgroup.
GroupTypeOK ==
    /\ alive \subseteq Goroutines
    /\ firstErr \in Goroutines \cup {NoErr}
    /\ cancelled \in BOOLEAN /\ parentDone \in BOOLEAN

\* Listener and parser with their channels.
FrontTypeOK ==
    /\ ListenerTypeOK
    /\ ChanOK(proxyChan) /\ ChanOK(dataChan)
    /\ ppc \in {"select", "send", "done"}
    /\ pheld \in 0..arrived /\ (pheld # NoPacket <=> ppc = "send")

\* The two counters.
CountTypeOK == validCount \in 0..arrived /\ invalidCount \in 0..arrived

\* The replicator.
ReplTypeOK ==
    /\ rpc \in {"select", "fanout", "done"}
    /\ rheld \in 0..arrived /\ (rheld # NoPacket <=> rpc = "fanout")
    /\ rnext \in 1..Len(Targets)

\* The targets' workers with their channels.
WorkerTypeOK ==
    /\ DOMAIN workerChan = TargetSet /\ \A t \in TargetSet : ChanOK(workerChan[t])
    /\ tpc \in [TargetSet -> {"bind", "select", "send", "done"}]
    /\ whold \in [TargetSet -> 0..arrived]
    /\ \A t \in TargetSet : whold[t] # NoPacket <=> tpc[t] = "send"
    /\ sent \in [TargetSet -> Seq(1..arrived)]

\* The type invariant, one conjunct per part of the pipeline.
LEMMA TypeParts ==
    TypeOK <=> GroupTypeOK /\ FrontTypeOK /\ CountTypeOK /\ ReplTypeOK /\ WorkerTypeOK
  BY DEF TypeOK, GroupTypeOK, FrontTypeOK, CountTypeOK, ReplTypeOK, WorkerTypeOK

\* The same of the state after a step.
LEMMA TypePartsNext ==
    GroupTypeOK' /\ FrontTypeOK' /\ CountTypeOK' /\ ReplTypeOK' /\ WorkerTypeOK' => TypeOK'
  BY DEF TypeOK, GroupTypeOK, FrontTypeOK, CountTypeOK, ReplTypeOK, WorkerTypeOK

\* What the worker of target t has taken off its channel, the packet it is
\* sending included.
Taken(t) == IF tpc[t] = "send" THEN Append(sent[t], whold[t]) ELSE sent[t]

\* It is a sequence of packets.
LEMMA TakenType ==
    ASSUME TypeOK, NEW t \in TargetSet
    PROVE  /\ sent[t] \in Seq(1..arrived) /\ Taken(t) \in Seq(1..arrived)
           /\ Len(sent[t]) \in Nat /\ Len(Taken(t)) = Len(sent[t]) + InHand(t)
           /\ tpc[t] = "send" => whold[t] \in 1..arrived
  <1>1. /\ sent[t] \in Seq(1..arrived) /\ whold[t] \in 0..arrived /\ arrived \in Nat
        /\ tpc[t] = "send" => whold[t] # NoPacket
    BY DEF TypeOK, ListenerTypeOK
  <1>2. tpc[t] = "send" => whold[t] \in 1..arrived
    BY <1>1 DEF NoPacket
  <1>3. \A e \in 1..arrived :
          Append(sent[t], e) \in Seq(1..arrived) /\ Len(Append(sent[t], e)) = Len(sent[t]) + 1
    BY <1>1
  <1>4. CASE tpc[t] = "send"
    BY <1>1, <1>2, <1>3, <1>4 DEF Taken, InHand
  <1>5. CASE tpc[t] # "send"
    BY <1>1, <1>5 DEF Taken, InHand
  <1> QED
    BY <1>4, <1>5

\* A step of t's worker concerns no other target.  It keeps what the worker has
\* taken, takes one packet more off its channel, or loses the one it is sending.
LEMMA WorkerMoves ==
    ASSUME TypeOK, NEW t \in TargetSet, WorkerNext(t)
    PROVE  /\ UNCHANGED workerRest
           /\ \A x \in TargetSet : x # t => Taken(x)' = Taken(x) /\ workerChan'[x] = workerChan[x]
           /\ \/ workerChan'[t] = workerChan[t] /\ Taken(t)' = Taken(t)
              \/ /\ workerChan[t] # <<>> /\ workerChan'[t] = Tail(workerChan[t])
                 /\ tpc'[t] = "send" /\ sent'[t] = sent[t] /\ whold'[t] = Head(workerChan[t])
                 /\ Taken(t) = sent[t] /\ Taken(t)' = Append(Taken(t), Head(workerChan[t]))
              \/ /\ workerChan'[t] = workerChan[t] /\ cancelled'
                 /\ whold[t] \in 1..arrived /\ sent[t] \in Seq(1..arrived)
                 /\ Taken(t)' = sent[t] /\ Taken(t) = Append(sent[t], whold[t])
  <1>1. /\ DOMAIN workerChan = TargetSet /\ tpc \in [TargetSet -> {"bind", "select", "send", "done"}]
        /\ whold \in [TargetSet -> 0..arrived] /\ sent \in [TargetSet -> Seq(1..arrived)]
    BY DEF TypeOK
  <1>2. CASE WorkerBind(t) \/ WorkerExit(t)
    BY <1>1, <1>2 DEF WorkerBind, WorkerExit, WorkerFails, Taken
  <1>3. CASE WorkerTake(t)
    BY <1>1, <1>3 DEF WorkerTake, Taken
  <1>4. CASE WorkerSend(t)
    BY <1>1, <1>4, TakenType DEF WorkerSend, WorkerFails, Fail, Taken
  <1> QED
    BY <1>2, <1>3, <1>4 DEF WorkerNext

\* The replicator still has its packet to offer to target t.
OwedTo(t) == rpc = "fanout" /\ \E i \in rnext..Len(Targets) : Targets[i] = t

\* The packets in the hands of replicator, listener and parser, as numbers.
Owed(t) == IF OwedTo(t) THEN 1 ELSE 0
Read == IF lheld = NoPacket THEN 0 ELSE 1
Forwarding == IF ppc = "send" THEN 1 ELSE 0

\* Every packet is counted once on its way: against the arrivals up to the
\* parser, and for each target against the valid ones from there on.
FrontCount == validCount + invalidCount + Len(proxyChan) + Read <= arrived

\* The valid packets on their way to target t are at most those counted.
TargetCount(t) ==
    Len(Taken(t)) + Len(workerChan[t]) + Owed(t) + Len(dataChan) + Forwarding <= validCount

\* The inductive invariant.
IInv == TypeOK /\ FrontCount /\ \A t \in TargetSet : TargetCount(t)

\* The numbers the counts add are natural numbers.
LEMMA CountsAreNatural ==
    ASSUME TypeOK
    PROVE  /\ Len(proxyChan) \in Nat /\ Len(dataChan) \in Nat
           /\ arrived \in Nat /\ validCount \in Nat /\ invalidCount \in Nat
           /\ Read \in 0..1 /\ Forwarding \in 0..1
           /\ \A t \in TargetSet :
                /\ Len(Taken(t)) \in Nat /\ Len(workerChan[t]) \in Nat /\ Owed(t) \in 0..1
  <1>1. arrived \in Nat /\ validCount \in Nat /\ invalidCount \in Nat
    BY DEF TypeOK, ListenerTypeOK
  <1>2. ASSUME NEW t \in TargetSet PROVE Len(Taken(t)) \in Nat /\ Len(workerChan[t]) \in Nat
    BY TakenType DEF TypeOK, ChanOK
  <1> QED
    BY <1>1, <1>2 DEF TypeOK, ChanOK, Read, Forwarding, Owed

\* After the replicator's step to the next target it owes its packet to the
\* same targets but the one it is done with.
LEMMA NextOwed ==
    ASSUME TypeOK, rpc = "fanout", NextTarget
    PROVE  /\ OwedTo(Targets[rnext]) /\ Targets[rnext] \in TargetSet
           /\ \A t \in TargetSet : OwedTo(t)' <=> OwedTo(t) /\ t # Targets[rnext]
  <1>1. rnext \in 1..Len(Targets) /\ Len(Targets) \in Nat
    BY TargetsFacts DEF TypeOK
  <1>2. \A i, j \in 1..Len(Targets) : Targets[i] = Targets[j] => i = j
    BY TargetsFacts
  <1>3. OwedTo(Targets[rnext]) /\ Targets[rnext] \in TargetSet
    BY <1>1, TargetsFacts DEF OwedTo, TargetSet
  <1>4. CASE rnext < Len(Targets) /\ rnext' = rnext + 1 /\ UNCHANGED <<rpc, rheld>>
    <2> SUFFICES ASSUME NEW t \in TargetSet
                 PROVE OwedTo(t)' <=> OwedTo(t) /\ t # Targets[rnext]
      BY <1>3
    <2>1. \A i \in rnext..Len(Targets) : i = rnext \/ i \in (rnext + 1)..Len(Targets)
      BY <1>1
    <2>2. \A i \in (rnext + 1)..Len(Targets) :
            i \in rnext..Len(Targets) /\ i \in 1..Len(Targets) /\ i # rnext
      BY <1>1
    <2>3. (\E i \in (rnext + 1)..Len(Targets) : Targets[i] = t)
            <=> (\E i \in rnext..Len(Targets) : Targets[i] = t) /\ t # Targets[rnext]
      BY <1>1, <1>2, <2>1, <2>2
    <2> QED
      BY <1>4, <2>3 DEF OwedTo
  <1>5. CASE rnext = Len(Targets) /\ rpc' = "select" /\ rheld' = NoPacket /\ rnext' = 1
    <2> SUFFICES ASSUME NEW t \in TargetSet
                 PROVE OwedTo(t)' <=> OwedTo(t) /\ t # Targets[rnext]
      BY <1>3
    <2>1. \A i \in rnext..Len(Targets) : i = rnext
      BY <1>1, <1>5
    <2> QED
      BY <1>5, <2>1 DEF OwedTo
  <1> QED
    BY <1>3, <1>4, <1>5 DEF NextTarget

\* The errgroup's operations keep its state well typed.
LEMMA GroupStep ==
    ASSUME GroupTypeOK,
           \/ \E g \in Goroutines : Return(g) \/ Fail(g)
           \/ ParentCancel
           \/ UNCHANGED groupVars
    PROVE  GroupTypeOK'
  BY DEF GroupTypeOK, Return, Fail, ParentCancel, groupVars

\* Everything but a receive leaves the arrivals alone, and what else is unchanged
\* stays well typed and counted.
LEMMA SameArrivals ==
    ASSUME TypeOK, UNCHANGED netVars
    PROVE  /\ UNCHANGED parserVars => CountTypeOK'
           /\ UNCHANGED replVars => ReplTypeOK'
           /\ UNCHANGED <<workerChan, workerVars>> => WorkerTypeOK'
           /\ UNCHANGED <<listenerVars, proxyChan, dataChan, parserVars>> => FrontTypeOK'
  BY DEF TypeOK, netVars, parserVars, replVars, workerVars, listenerVars, CountTypeOK,
         ReplTypeOK, WorkerTypeOK, FrontTypeOK, ListenerTypeOK, ChanOK

-----------------------------------------------------------------------------
(* Every step keeps the types and the counts. *)

\* A step that leaves every channel, counter and hand-off alone changes no
\* count; a listener or replicator that lets go of its packet lowers one.
LEMMA SameCounts ==
    ASSUME IInv, UNCHANGED <<arrived, validCount, invalidCount, proxyChan>>
    PROVE  /\ Read' <= Read => FrontCount'
           /\ \A t \in TargetSet :
                (/\ UNCHANGED <<workerVars, workerChan, dataChan, ppc>>
                 /\ Owed(t)' <= Owed(t)) => TargetCount(t)'
  <1>1. FrontCount /\ \A t \in TargetSet : TargetCount(t)
    BY DEF IInv
  <1>2. ASSUME Read' <= Read PROVE FrontCount'
    <2>1. Read' \in 0..1
      BY DEF Read
    <2> QED
      BY <1>1, <1>2, <2>1, CountsAreNatural DEF IInv, FrontCount
  <1>3. ASSUME NEW t \in TargetSet, UNCHANGED <<workerVars, workerChan, dataChan, ppc>>, Owed(t)' <= Owed(t)
        PROVE TargetCount(t)'
    <2>1. Owed(t)' \in 0..1 /\ Forwarding' = Forwarding
      BY <1>3 DEF Owed, Forwarding
    <2>2. TargetCount(t)
      BY <1>1
    <2>3. /\ Len(Taken(t))' = Len(Taken(t)) /\ Len(workerChan[t])' = Len(workerChan[t])
          /\ Len(dataChan)' = Len(dataChan) /\ validCount' = validCount
      BY <1>3 DEF Taken, workerVars
    <2>4. /\ Len(Taken(t)) \in Nat /\ Len(workerChan[t]) \in Nat /\ Owed(t) \in 0..1
          /\ Len(dataChan) \in Nat /\ Forwarding \in 0..1 /\ validCount \in Nat
      BY CountsAreNatural DEF IInv
    <2>5. Len(Taken(t)) + Len(workerChan[t]) + Owed(t) + Len(dataChan) + Forwarding <= validCount
      BY <2>2 DEF TargetCount
    <2>6. Owed(t)' <= Owed(t)
      BY <1>3
    <2>7. Len(Taken(t))' + Len(workerChan[t])' + Owed(t)' + Len(dataChan)' + Forwarding'
            <= validCount'
      <3>1. \A a, b, d, v \in Nat : \A c, e, f \in 0..1 :
              a + b + c + d + e <= v /\ f <= c => a + b + f + d + e <= v
        OBVIOUS
      <3>2. Len(Taken(t)) + Len(workerChan[t]) + Owed(t)' + Len(dataChan) + Forwarding <= validCount
        BY <2>1, <2>4, <2>5, <2>6, <3>1
      <3> QED
        BY <2>1, <2>3, <3>2
    <2> QED
      BY <2>7 DEF TargetCount
  <1> QED
    BY <1>2, <1>3

\* The targets' counts when nothing behind the parser moves.
LEMMA SameBack ==
    ASSUME UNCHANGED <<replVars, dataChan, workerChan, workerVars, ppc, validCount>>,
           \A t \in TargetSet : TargetCount(t)
    PROVE  \A t \in TargetSet : TargetCount(t)'
  BY DEF TargetCount, Owed, OwedTo, Forwarding, Taken, replVars, workerVars

\* Binding, checking, arming, waking and failing reads.
LEMMA ListenerOnlyStep == IInv /\ ListenerOnly => IInv'
  <1> SUFFICES ASSUME IInv, ListenerOnly PROVE IInv'
    OBVIOUS
  <1> "listener" \in Goroutines
    BY DEF Goroutines
  <1>1. /\ TypeOK /\ GroupTypeOK /\ FrontTypeOK
        /\ FrontCount /\ \A t \in TargetSet : TargetCount(t)
    BY TypeParts DEF IInv
  <1>2. UNCHANGED <<netVars, chans, parserVars, replVars, workerVars>>
    BY DEF ListenerOnly, ListenerAlone
  <1>3. ListenerTypeOK' /\ GroupTypeOK' /\ (lheld' = lheld \/ lheld' = NoPacket)
    <2> USE <1>1, <1>2 DEF FrontTypeOK, ListenerTypeOK, netVars, NoPacket
    <2>1. CASE Wakeup
      BY <2>1, GroupStep DEF Wakeup
    <2>2. CASE ListenerBind
      BY <2>2, GroupStep DEF ListenerBind, ListenerFails
    <2>3. CASE ListenerCheck
      BY <2>3, GroupStep DEF ListenerCheck, ListenerReturns
    <2>4. CASE ListenerArm
      BY <2>4, GroupStep DEF ListenerArm
    <2>5. CASE ReadWoken \/ ReadTimeout
      BY <2>5, GroupStep DEF ReadWoken, ReadTimeout, AfterTimeout, ListenerReturns
    <2>6. CASE ReadError
      BY <2>6, GroupStep DEF ReadError, ListenerReturns, ListenerFails
    <2> QED
      BY <2>1, <2>2, <2>3, <2>4, <2>5, <2>6 DEF ListenerOnly, ListenerStep, ListenerProgress
  <1>4. FrontTypeOK'
    BY <1>1, <1>2, <1>3 DEF FrontTypeOK, ChanOK, netVars, chans, parserVars
  <1>5. TypeOK'
    BY <1>1, <1>2, <1>3, <1>4, SameArrivals, TypePartsNext DEF chans
  <1>6. FrontCount'
    <2>1. Read' <= Read
      BY <1>3 DEF Read
    <2> QED
      BY <1>2, <2>1, SameCounts DEF netVars, chans, parserVars
  <1>7. \A t \in TargetSet : TargetCount(t)'
    BY <1>1, <1>2, SameBack DEF chans, parserVars
  <1> QED
    BY <1>5, <1>6, <1>7 DEF IInv

\* A packet arrives: one arrival more, and the listener holds one more.
LEMMA ReceiveStep == IInv /\ ReceivePacket => IInv'
  <1> SUFFICES ASSUME IInv, ReceivePacket PROVE IInv'
    OBVIOUS
  <1>1. /\ TypeOK /\ GroupTypeOK /\ FrontTypeOK /\ CountTypeOK /\ ReplTypeOK /\ WorkerTypeOK
        /\ FrontCount /\ \A t \in TargetSet : TargetCount(t)
    BY TypeParts DEF IInv
  <1>2. UNCHANGED <<groupVars, chans, parserVars, replVars, workerVars>> /\ Receive
    BY DEF ReceivePacket, Receive
  <1>3. arrived \in Nat /\ arrived' = arrived + 1 /\ arrived' \in 0..MaxPackets /\ arrived <= arrived'
    BY <1>1, <1>2 DEF FrontTypeOK, ListenerTypeOK, Receive
  <1>4. GroupTypeOK'
    BY <1>1, <1>2, GroupStep
  <1>5. FrontTypeOK'
    <2>1. ListenerTypeOK'
      BY <1>1, <1>2, <1>3 DEF FrontTypeOK, ListenerTypeOK, Receive, NoPacket
    <2>2. ChanOK(proxyChan)' /\ ChanOK(dataChan)'
      BY <1>1, <1>2, <1>3, SeqWiden DEF FrontTypeOK, ChanOK, chans
    <2> QED
      BY <1>1, <1>2, <1>3, <2>1, <2>2 DEF FrontTypeOK, parserVars, NoPacket
  <1>6. CountTypeOK' /\ ReplTypeOK'
    BY <1>1, <1>2, <1>3 DEF CountTypeOK, ReplTypeOK, parserVars, replVars, NoPacket
  <1>7. WorkerTypeOK'
    <2>1. ASSUME NEW t \in TargetSet PROVE ChanOK(workerChan[t])' /\ sent[t] \in Seq(1..arrived')
      BY <1>1, <1>2, <1>3, SeqWiden DEF WorkerTypeOK, ChanOK, chans
    <2>2. whold' = whold /\ tpc' = tpc /\ whold \in [TargetSet -> 0..arrived']
      BY <1>1, <1>2, <1>3 DEF WorkerTypeOK, workerVars
    <2> QED
      BY <1>1, <1>2, <2>1, <2>2 DEF WorkerTypeOK, chans, workerVars
  <1>8. FrontCount'
    <2>1. Read = 0 /\ Read' = 1
      BY <1>1, <1>2, <1>3 DEF FrontTypeOK, ListenerTypeOK, Receive, Read, NoPacket
    <2> QED
      BY <1>1, <1>2, <1>3, <2>1, CountsAreNatural DEF FrontCount, chans, parserVars
  <1>9. \A t \in TargetSet : TargetCount(t)'
    BY <1>1, <1>2, SameBack DEF chans, parserVars
  <1> QED
    BY <1>4, <1>5, <1>6, <1>7, <1>8, <1>9, TypePartsNext DEF IInv

\* The listener hands its packet on, drops it or leaves.
LEMMA DeliverStep == IInv /\ Deliver => IInv'
  <1> SUFFICES ASSUME IInv, Deliver PROVE IInv'
    OBVIOUS
  <1> "listener" \in Goroutines
    BY DEF Goroutines
  <1>1. /\ TypeOK /\ GroupTypeOK /\ FrontTypeOK
        /\ FrontCount /\ \A t \in TargetSet : TargetCount(t)
    BY TypeParts DEF IInv
  <1>2. /\ UNCHANGED <<netVars, dataChan, workerChan, parserVars, replVars, workerVars>>
        /\ lheld \in 1..arrived /\ arrived \in Nat /\ lheld' = NoPacket /\ lheld # NoPacket
    BY <1>1 DEF Deliver, ListenerReturns, FrontTypeOK, ListenerTypeOK, NoPacket
  <1>3. GroupTypeOK'
    BY <1>1, GroupStep DEF Deliver, ListenerReturns
  <1>4. ListenerTypeOK'
    BY <1>1, <1>2 DEF FrontTypeOK, ListenerTypeOK, Deliver, ListenerReturns, netVars, NoPacket
  <1>5. /\ ChanOK(proxyChan') /\ Len(proxyChan) \in Nat
        /\ proxyChan' = proxyChan \/ Len(proxyChan') = Len(proxyChan) + 1
    BY <1>1, <1>2, SendReceive DEF Deliver, FrontTypeOK
  <1>6. FrontTypeOK'
    BY <1>1, <1>2, <1>4, <1>5 DEF FrontTypeOK, ChanOK, netVars, parserVars
  <1>7. TypeOK'
    BY <1>1, <1>2, <1>3, <1>6, SameArrivals, TypePartsNext
  <1>8. FrontCount'
    <2>1. Read = 1 /\ Read' = 0
      BY <1>2 DEF Read
    <2>2. validCount' = validCount /\ invalidCount' = invalidCount /\ arrived' = arrived
      BY <1>2 DEF netVars, parserVars
    <2>3. Len(proxyChan') = Len(proxyChan) \/ Len(proxyChan') = Len(proxyChan) + 1
      BY <1>5
    <2> QED
      BY <1>1, <2>1, <2>2, <2>3, CountsAreNatural DEF FrontCount
  <1>9. \A t \in TargetSet : TargetCount(t)'
    BY <1>1, <1>2, SameBack DEF parserVars
  <1> QED
    BY <1>7, <1>8, <1>9 DEF IInv

\* The parser moves one packet from the front count to every target's count, or
\* out of the front.
LEMMA ParserTakeStep == IInv /\ ParserTake => IInv'
  <1> SUFFICES ASSUME IInv, ParserTake PROVE IInv'
    OBVIOUS
  <1>1. /\ TypeOK /\ GroupTypeOK /\ FrontTypeOK /\ CountTypeOK
        /\ FrontCount /\ \A t \in TargetSet : TargetCount(t)
    BY TypeParts DEF IInv
  <1>2. /\ UNCHANGED <<groupVars, listenerVars, netVars, dataChan, workerChan, replVars, workerVars>>
        /\ proxyChan' = Tail(proxyChan) /\ ppc = "select" /\ proxyChan # <<>>
    BY DEF ParserTake, parserRest
  <1>3. /\ arrived \in Nat /\ Head(proxyChan) \in 1..arrived /\ ChanOK(Tail(proxyChan))
        /\ Len(proxyChan') = Len(proxyChan) - 1 /\ Len(proxyChan) \in Nat
    BY <1>1, <1>2, SendReceive, CountsAreNatural DEF FrontTypeOK
  <1>4. \/ /\ validCount' = validCount + 1 /\ invalidCount' = invalidCount
           /\ ppc' = "send" /\ pheld' = Head(proxyChan)
        \/ /\ invalidCount' = invalidCount + 1 /\ validCount' = validCount
           /\ ppc' = ppc /\ pheld' = pheld
    BY DEF ParserTake
  <1>5. GroupTypeOK'
    BY <1>1, <1>2, GroupStep
  <1>6. FrontTypeOK'
    BY <1>1, <1>2, <1>3, <1>4 DEF FrontTypeOK, ListenerTypeOK, ChanOK, listenerVars, netVars, NoPacket
  <1>7. FrontCount'
    <2>1. Read' = Read /\ arrived' = arrived
      BY <1>2 DEF Read, listenerVars, netVars
    <2> QED
      BY <1>1, <1>3, <1>4, <2>1, CountsAreNatural DEF FrontCount
  <1>8. CountTypeOK'
    <2>1. /\ Read' \in 0..1 /\ Len(proxyChan') \in Nat /\ arrived' = arrived
          /\ validCount' \in Nat /\ invalidCount' \in Nat
      BY <1>2, <1>3, <1>4, CountsAreNatural, <1>1 DEF Read, netVars, SendReceive, ChanOK
    <2>2. \A a, b, c, d, n \in Nat : a + b + c + d <= n => a \in 0..n /\ b \in 0..n
      OBVIOUS
    <2>3. validCount' + invalidCount' + Len(proxyChan') + Read' <= arrived' /\ arrived' \in Nat
      BY <1>3, <1>7, <2>1 DEF FrontCount
    <2>4. Read' \in Nat
      BY <2>1
    <2> QED
      BY <2>1, <2>2, <2>3, <2>4 DEF CountTypeOK
  <1>9. TypeOK'
    BY <1>1, <1>2, <1>5, <1>6, <1>8, SameArrivals, TypePartsNext
  <1>10. ASSUME NEW t \in TargetSet PROVE TargetCount(t)'
    <2>1. /\ Len(Taken(t))' = Len(Taken(t)) /\ Len(workerChan[t])' = Len(workerChan[t])
          /\ Owed(t)' = Owed(t) /\ Len(dataChan)' = Len(dataChan)
      BY <1>2 DEF Taken, workerVars, replVars, Owed, OwedTo
    <2>2. Forwarding = 0 /\ (validCount' = validCount + Forwarding')
      BY <1>1, <1>2, <1>4 DEF Forwarding, CountTypeOK
    <2>3. Forwarding' \in 0..1
      BY DEF Forwarding
    <2>4. Len(Taken(t)) + Len(workerChan[t]) + Owed(t) + Len(dataChan) + Forwarding <= validCount
      BY <1>1 DEF TargetCount
    <2>5. \A a, b, d, v \in Nat : \A c, e, f \in 0..1 :
            a + b + c + d + 0 <= v => a + b + c + d + f <= v + f
      OBVIOUS
    <2>6. /\ Len(Taken(t)) \in Nat /\ Len(workerChan[t]) \in Nat /\ Owed(t) \in 0..1
          /\ Len(dataChan) \in Nat /\ validCount \in Nat
      BY <1>1, CountsAreNatural
    <2>7. Len(Taken(t)) + Len(workerChan[t]) + Owed(t) + Len(dataChan) + Forwarding'
            <= validCount + Forwarding'
      BY <2>2, <2>3, <2>4, <2>5, <2>6
    <2> QED
      BY <2>1, <2>2, <2>7 DEF TargetCount
  <1> QED
    BY <1>7, <1>9, <1>10 DEF IInv

\* Forwarding moves a packet inside every target's count; a drop and leaving
\* lower it.
LEMMA ParserSendStep == IInv /\ (ParserForward \/ ParserExit) => IInv'
  <1> SUFFICES ASSUME IInv, ParserForward \/ ParserExit PROVE IInv'
    OBVIOUS
  <1> "parser" \in Goroutines
    BY DEF Goroutines
  <1>1. /\ TypeOK /\ GroupTypeOK /\ FrontTypeOK /\ CountTypeOK
        /\ FrontCount /\ \A t \in TargetSet : TargetCount(t)
    BY TypeParts DEF IInv
  <1>2. /\ UNCHANGED <<listenerVars, netVars, proxyChan, workerChan, validCount, invalidCount,
                       replVars, workerVars>>
        /\ ppc' \in {"select", "done"} /\ pheld' = NoPacket
    BY DEF ParserForward, ParserExit, parserRest
  <1>3. GroupTypeOK'
    BY <1>1, GroupStep DEF ParserForward, ParserExit
  <1>4. /\ ChanOK(dataChan') /\ Len(dataChan) \in Nat /\ arrived \in Nat
        /\ \/ ppc = "send" /\ Len(dataChan') = Len(dataChan) + 1
           \/ dataChan' = dataChan
    <2>1. arrived \in Nat /\ ChanOK(dataChan) /\ (ppc = "send" => pheld \in 1..arrived)
      BY <1>1, CountsAreNatural DEF FrontTypeOK, NoPacket
    <2> QED
      BY <2>1, SendReceive DEF ParserForward, ParserExit
  <1>5. FrontTypeOK'
    BY <1>1, <1>2, <1>4 DEF FrontTypeOK, ListenerTypeOK, ChanOK, listenerVars, netVars, NoPacket
  <1>6. CountTypeOK'
    BY <1>1, <1>2 DEF CountTypeOK, netVars
  <1>7. TypeOK'
    BY <1>1, <1>2, <1>3, <1>5, <1>6, SameArrivals, TypePartsNext
  <1>8. FrontCount'
    BY <1>1, <1>2 DEF FrontCount, Read, listenerVars, netVars
  <1>9. ASSUME NEW t \in TargetSet PROVE TargetCount(t)'
    <2>1. /\ Len(Taken(t))' = Len(Taken(t)) /\ Len(workerChan[t])' = Len(workerChan[t])
          /\ Owed(t)' = Owed(t) /\ validCount' = validCount
      BY <1>2 DEF Taken, workerVars, replVars, Owed, OwedTo
    <2>2. Forwarding' = 0 /\ Len(dataChan') <= Len(dataChan) + Forwarding /\ Len(dataChan') \in Nat
      BY <1>2, <1>4 DEF Forwarding
    <2>3. Len(Taken(t)) + Len(workerChan[t]) + Owed(t) + Len(dataChan) + Forwarding <= validCount
      BY <1>1 DEF TargetCount
    <2>4. \A a, b, d, g, v \in Nat : \A c, e \in 0..1 :
            a + b + c + d + e <= v /\ g <= d + e => a + b + c + g + 0 <= v
      OBVIOUS
    <2>5. /\ Len(Taken(t)) \in Nat /\ Len(workerChan[t]) \in Nat /\ Owed(t) \in 0..1
          /\ Len(dataChan) \in Nat /\ validCount \in Nat /\ Forwarding \in 0..1
      BY <1>1, CountsAreNatural
    <2>6. Len(Taken(t)) + Len(workerChan[t]) + Owed(t) + Len(dataChan') + 0 <= validCount
      BY <2>2, <2>3, <2>4, <2>5
    <2> QED
      BY <2>1, <2>2, <2>6 DEF TargetCount
  <1> QED
    BY <1>7, <1>8, <1>9 DEF IInv

\* Taking a packet moves it from dataChan to what every target is owed.
LEMMA ReplTakeStep == IInv /\ ReplTake => IInv'
  <1> SUFFICES ASSUME IInv, ReplTake PROVE IInv'
    OBVIOUS
  <1>1. /\ TypeOK /\ GroupTypeOK /\ FrontTypeOK /\ CountTypeOK
        /\ FrontCount /\ \A t \in TargetSet : TargetCount(t)
    BY TypeParts DEF IInv
  <1>2. /\ UNCHANGED <<groupVars, listenerVars, netVars, proxyChan, parserVars, workerChan,
                       workerVars>>
        /\ dataChan' = Tail(dataChan) /\ rpc = "select" /\ dataChan # <<>>
        /\ rpc' = "fanout" /\ rheld' = Head(dataChan) /\ rnext' = 1
    BY DEF ReplTake, replRest
  <1>3. /\ arrived \in Nat /\ Head(dataChan) \in 1..arrived /\ ChanOK(Tail(dataChan))
        /\ Len(dataChan') = Len(dataChan) - 1 /\ Len(dataChan) \in Nat
    BY <1>1, <1>2, SendReceive, CountsAreNatural DEF FrontTypeOK
  <1>4. GroupTypeOK'
    BY <1>1, <1>2, GroupStep
  <1>5. FrontTypeOK'
    BY <1>1, <1>2, <1>3 DEF FrontTypeOK, ListenerTypeOK, ChanOK, listenerVars, netVars, parserVars
  <1>6. ReplTypeOK'
    <2>1. 1 \in 1..Len(Targets)
      BY TargetsFacts
    <2>2. arrived' = arrived
      BY <1>2 DEF netVars
    <2> QED
      BY <1>2, <1>3, <2>1, <2>2 DEF ReplTypeOK, NoPacket
  <1>7. TypeOK'
    BY <1>1, <1>2, <1>4, <1>5, <1>6, SameArrivals, TypePartsNext
  <1>8. FrontCount'
    BY <1>1, <1>2 DEF FrontCount, Read, listenerVars, netVars, parserVars
  <1>9. ASSUME NEW t \in TargetSet PROVE TargetCount(t)'
    <2>1. /\ Len(Taken(t))' = Len(Taken(t)) /\ Len(workerChan[t])' = Len(workerChan[t])
          /\ Forwarding' = Forwarding /\ validCount' = validCount
      BY <1>2 DEF Taken, workerVars, parserVars, Forwarding
    <2>2. Owed(t) = 0 /\ Owed(t)' \in 0..1
      BY <1>2 DEF Owed, OwedTo
    <2>3. Len(Taken(t)) + Len(workerChan[t]) + Owed(t) + Len(dataChan) + Forwarding <= validCount
      BY <1>1 DEF TargetCount
    <2>5. /\ Len(Taken(t)) \in Nat /\ Len(workerChan[t]) \in Nat /\ Len(dataChan') \in Nat
          /\ Len(dataChan) \in Nat /\ validCount \in Nat /\ Forwarding \in 0..1
      BY <1>1, <1>2, <1>3, CountsAreNatural, SendReceive
    <2>6. Len(Taken(t)) + Len(workerChan[t]) + Owed(t)' + Len(dataChan') + Forwarding <= validCount
      <3>1. Len(Taken(t)) + Len(workerChan[t]) + 0 + Len(dataChan) + Forwarding <= validCount
        BY <2>2, <2>3
      <3>2. Len(dataChan') = Len(dataChan) - 1
        BY <1>3
      <3>3. Len(dataChan) \in Nat /\ Len(dataChan) - 1 \in Nat /\ Owed(t)' \in 0..1
        BY <2>2, <2>5, <3>2
      <3>4. Len(Taken(t)) + Len(workerChan[t]) + Owed(t)' + (Len(dataChan) - 1) + Forwarding
              <= validCount
        <4>1. \A a, b, d, v \in Nat : \A c, e \in 0..1 :
                a + b + 0 + d + e <= v => a + b + c + (d - 1) + e <= v
          OBVIOUS
        <4> QED
          BY <2>5, <3>1, <3>3, <4>1, Zenon
      <3> QED
        BY <3>2, <3>4
    <2> QED
      BY <2>1, <2>6 DEF TargetCount
  <1> QED
    BY <1>7, <1>8, <1>9 DEF IInv

\* Offering the packet to the next target settles what that target is owed,
\* whether it gets it or not; leaving settles it for all.
LEMMA ReplOfferStep == IInv /\ (ReplSend \/ ReplDrop \/ ReplExit) => IInv'
  <1> SUFFICES ASSUME IInv, ReplSend \/ ReplDrop \/ ReplExit PROVE IInv'
    OBVIOUS
  <1> "replicator" \in Goroutines
    BY DEF Goroutines
  <1> DEFINE u == Targets[rnext]
  <1>1. /\ TypeOK /\ GroupTypeOK /\ FrontTypeOK /\ CountTypeOK /\ ReplTypeOK /\ WorkerTypeOK
        /\ FrontCount /\ \A t \in TargetSet : TargetCount(t)
    BY TypeParts DEF IInv
  <1>2. /\ UNCHANGED <<listenerVars, netVars, proxyChan, parserVars, workerVars, dataChan>>
        /\ (rpc = "fanout" /\ NextTarget) \/ (rpc' = "done" /\ rheld' = NoPacket /\ rnext' = 1)
    BY DEF ReplSend, ReplDrop, ReplExit, replRest
  <1>3. /\ arrived \in Nat /\ (rpc = "fanout" => rheld \in 1..arrived)
        /\ rnext \in 1..Len(Targets) /\ Len(Targets) \in Nat /\ 1 \in 1..Len(Targets)
    BY <1>1, CountsAreNatural, TargetsFacts DEF ReplTypeOK, NoPacket
  <1>4. GroupTypeOK'
    BY <1>1, GroupStep DEF ReplSend, ReplDrop, ReplExit
  <1>5. ReplTypeOK'
    <2>1. arrived' = arrived
      BY <1>2 DEF netVars
    <2>2. CASE rpc = "fanout" /\ NextTarget
      <3>1. rnext' \in 1..Len(Targets)
        BY <1>3, <2>2 DEF NextTarget
      <3>2. \/ rpc' = "fanout" /\ rheld' = rheld
            \/ rpc' = "select" /\ rheld' = NoPacket
        BY <2>2 DEF NextTarget
      <3> QED
        BY <1>3, <2>1, <2>2, <3>1, <3>2 DEF ReplTypeOK, NoPacket
    <2>3. CASE rpc' = "done" /\ rheld' = NoPacket /\ rnext' = 1
      BY <1>3, <2>1, <2>3 DEF ReplTypeOK, NoPacket
    <2> QED
      BY <1>2, <2>2, <2>3
  <1>6. \/ workerChan' = workerChan
        \/ /\ ReplSend /\ rpc = "fanout" /\ u \in TargetSet
           /\ workerChan' = [workerChan EXCEPT ![u] = Append(workerChan[u], rheld)]
           /\ ChanOK(Append(workerChan[u], rheld))
           /\ Len(Append(workerChan[u], rheld)) = Len(workerChan[u]) + 1
    <2>1. CASE ReplSend
      <3>1. /\ rpc = "fanout" /\ u \in TargetSet /\ Room(workerChan[u])
            /\ workerChan' = [workerChan EXCEPT ![u] = Append(workerChan[u], rheld)]
        BY <1>1, <2>1, NextOwed DEF ReplSend
      <3>2. ChanOK(workerChan[u])
        BY <1>1, <3>1 DEF WorkerTypeOK
      <3> QED
        BY <1>3, <2>1, <3>1, <3>2, SendReceive
    <2> QED
      BY <2>1 DEF ReplDrop, ReplExit
  <1> HIDE DEF u
  <1>7. WorkerTypeOK'
    <2>1. \A t \in TargetSet : ChanOK(workerChan'[t])
      BY <1>1, <1>6 DEF WorkerTypeOK
    <2> QED
      BY <1>1, <1>2, <1>6, <2>1 DEF WorkerTypeOK, ChanOK, netVars, workerVars
  <1>8. TypeOK'
    BY <1>1, <1>2, <1>4, <1>5, <1>7, SameArrivals, TypePartsNext
  <1>9. FrontCount'
    BY <1>1, <1>2 DEF FrontCount, Read, listenerVars, netVars, parserVars
  <1>10. ASSUME NEW t \in TargetSet PROVE TargetCount(t)'
    <2>1. /\ Len(Taken(t))' = Len(Taken(t)) /\ Len(dataChan)' = Len(dataChan)
          /\ Forwarding' = Forwarding /\ validCount' = validCount
      BY <1>2 DEF Taken, workerVars, parserVars, Forwarding
    <2>2. Len(Taken(t)) + Len(workerChan[t]) + Owed(t) + Len(dataChan) + Forwarding <= validCount
      BY <1>1 DEF TargetCount
    <2>3. /\ Len(Taken(t)) \in Nat /\ Len(workerChan[t]) \in Nat /\ Len(dataChan) \in Nat
          /\ validCount \in Nat /\ Owed(t) \in 0..1 /\ Forwarding \in 0..1 /\ Owed(t)' \in 0..1
      BY <1>1, CountsAreNatural DEF Owed
    <2>4. Len(workerChan'[t]) \in Nat /\ Len(workerChan'[t]) + Owed(t)' <= Len(workerChan[t]) + Owed(t)
      <3>1. CASE t = u /\ rpc = "fanout" /\ NextTarget
        <4>1. Owed(t) = 1 /\ Owed(t)' = 0
          BY <1>1, <3>1, NextOwed DEF Owed, u
        <4>2. Len(workerChan'[t]) = Len(workerChan[t]) \/ Len(workerChan'[t]) = Len(workerChan[t]) + 1
          BY <1>1, <1>6, <3>1 DEF WorkerTypeOK
        <4> QED
          BY <2>3, <4>1, <4>2
      <3>2. CASE t # u /\ rpc = "fanout" /\ NextTarget
        <4>1. Owed(t)' = Owed(t)
          BY <1>1, <3>2, NextOwed DEF Owed, u
        <4>2. Len(workerChan'[t]) = Len(workerChan[t])
          BY <1>1, <1>6, <3>2 DEF WorkerTypeOK
        <4> QED
          BY <2>3, <4>1, <4>2
      <3>3. CASE rpc' = "done"
        <4>1. Owed(t)' = 0 /\ workerChan' = workerChan
          BY <1>6, <3>3 DEF Owed, OwedTo, ReplSend, NextTarget
        <4> QED
          BY <2>3, <4>1
      <3> QED
        BY <1>2, <3>1, <3>2, <3>3
    <2>5. \A a, b, g, d, v \in Nat : \A c, e, f \in 0..1 :
            a + b + c + d + e <= v /\ g + f <= b + c => a + g + f + d + e <= v
      OBVIOUS
    <2>6. Len(Taken(t)) + Len(workerChan'[t]) + Owed(t)' + Len(dataChan) + Forwarding <= validCount
      BY <2>2, <2>3, <2>4, <2>5, Zenon
    <2> QED
      BY <2>1, <2>6 DEF TargetCount
  <1> QED
    BY <1>8, <1>9, <1>10 DEF IInv

\* A worker sends what it takes off its channel, or loses it as it fails.
LEMMA WorkerStep ==
    ASSUME IInv, NEW t \in TargetSet, WorkerNext(t)
    PROVE  IInv'
  <1>1. /\ TypeOK /\ GroupTypeOK /\ FrontTypeOK /\ CountTypeOK /\ WorkerTypeOK
        /\ FrontCount /\ \A x \in TargetSet : TargetCount(x)
    BY TypeParts DEF IInv
  <1>2. UNCHANGED <<listenerVars, netVars, proxyChan, dataChan, parserVars, replVars>>
    BY <1>1, WorkerMoves DEF workerRest
  <1>3. t \in Goroutines
    BY TargetsFacts
  <1>4. GroupTypeOK'
    BY <1>1, <1>3, GroupStep
       DEF WorkerNext, WorkerBind, WorkerTake, WorkerSend, WorkerExit, WorkerFails
  <1>5. tpc' \in [TargetSet -> {"bind", "select", "send", "done"}]
    <2>1. tpc \in [TargetSet -> {"bind", "select", "send", "done"}]
      BY <1>1 DEF WorkerTypeOK
    <2>2. \E p \in {"bind", "select", "send", "done"} : tpc' = [tpc EXCEPT ![t] = p]
      BY <2>1 DEF WorkerNext, WorkerBind, WorkerTake, WorkerSend, WorkerExit, WorkerFails
    <2> QED
      BY <2>1, <2>2
  <1>6. /\ arrived \in Nat /\ arrived' = arrived /\ whold \in [TargetSet -> 0..arrived]
        /\ \A x \in TargetSet : ChanOK(workerChan[x]) /\ sent[x] \in Seq(1..arrived)
        /\ \A x \in TargetSet : whold[x] # NoPacket <=> tpc[x] = "send"
    BY <1>1, <1>2, CountsAreNatural DEF WorkerTypeOK, netVars
  <1>7. workerChan[t] # <<>> =>
          /\ Head(workerChan[t]) \in 1..arrived /\ ChanOK(Tail(workerChan[t]))
          /\ Len(Tail(workerChan[t])) = Len(workerChan[t]) - 1
    BY <1>6, SendReceive
  <1>8. tpc[t] = "send" => Append(sent[t], whold[t]) \in Seq(1..arrived)
    BY <1>1, TakenType
  <1>9. WorkerTypeOK'
    <2>1. \A x \in TargetSet : ChanOK(workerChan'[x])
      BY <1>1, <1>6, <1>7, WorkerMoves
    <2>2. sent' \in [TargetSet -> Seq(1..arrived)]
      BY <1>1, <1>6, <1>8
         DEF WorkerTypeOK, WorkerNext, WorkerBind, WorkerTake, WorkerSend, WorkerExit
    <2>3. DOMAIN workerChan' = TargetSet
      BY <1>1 DEF WorkerTypeOK, WorkerNext, WorkerBind, WorkerTake, WorkerSend, WorkerExit
    <2>4. /\ whold' \in [TargetSet -> 0..arrived]
          /\ \A x \in TargetSet : whold'[x] # NoPacket <=> tpc'[x] = "send"
      <3>1. /\ tpc \in [TargetSet -> {"bind", "select", "send", "done"}]
            /\ DOMAIN whold = TargetSet
        BY <1>1 DEF WorkerTypeOK
      <3>2. PICK p \in {"bind", "select", "send", "done"}, w \in 0..arrived :
              /\ tpc' = [tpc EXCEPT ![t] = p] /\ whold' = [whold EXCEPT ![t] = w]
              /\ w # NoPacket <=> p = "send"
        <4>1. CASE WorkerBind(t)
          BY <1>6, <3>1, <4>1 DEF WorkerBind, WorkerFails, NoPacket
        <4>2. CASE WorkerTake(t)
          <5>1. /\ tpc' = [tpc EXCEPT ![t] = "send"]
                /\ whold' = [whold EXCEPT ![t] = Head(workerChan[t])] /\ workerChan[t] # <<>>
            BY <4>2 DEF WorkerTake
          <5>2. Head(workerChan[t]) \in 0..arrived /\ Head(workerChan[t]) # NoPacket
            BY <1>6, <1>7, <5>1 DEF NoPacket
          <5> QED
            BY <5>1, <5>2
        <4>3. CASE WorkerSend(t)
          BY <1>6, <3>1, <4>3 DEF WorkerSend, WorkerFails, NoPacket
        <4>4. CASE WorkerExit(t)
          BY <1>6, <3>1, <4>4 DEF WorkerExit
        <4> QED
          BY <4>1, <4>2, <4>3, <4>4 DEF WorkerNext
      <3> QED
        BY <1>6, <3>1, <3>2
    <2> QED
      BY <1>5, <1>6, <2>1, <2>2, <2>3, <2>4 DEF WorkerTypeOK, ChanOK
  <1>10. TypeOK'
    BY <1>1, <1>2, <1>4, <1>9, SameArrivals, TypePartsNext
  <1>11. FrontCount'
    BY <1>1, <1>2 DEF FrontCount, Read, listenerVars, netVars, parserVars
  <1>12. ASSUME NEW x \in TargetSet PROVE TargetCount(x)'
    <2>1. /\ Owed(x)' = Owed(x) /\ Len(dataChan)' = Len(dataChan)
          /\ Forwarding' = Forwarding /\ validCount' = validCount
      BY <1>2 DEF replVars, parserVars, Owed, OwedTo, Forwarding
    <2>2. Len(Taken(x)) + Len(workerChan[x]) + Owed(x) + Len(dataChan) + Forwarding <= validCount
      BY <1>1 DEF TargetCount
    <2>3. /\ Len(Taken(x)) \in Nat /\ Len(workerChan[x]) \in Nat /\ Len(dataChan) \in Nat
          /\ validCount \in Nat /\ Owed(x) \in 0..1 /\ Forwarding \in 0..1
      BY <1>1, CountsAreNatural
    <2>4. \/ Len(Taken(x)') = Len(Taken(x)) /\ Len(workerChan'[x]) = Len(workerChan[x])
          \/ Len(Taken(x)') = Len(Taken(x)) + 1 /\ Len(workerChan'[x]) = Len(workerChan[x]) - 1
          \/ Len(Taken(x)) = Len(Taken(x)') + 1 /\ Len(workerChan'[x]) = Len(workerChan[x])
      <3>1. CASE x # t
        BY <1>1, <3>1, WorkerMoves
      <3>2. CASE x = t
        <4>1. Taken(t) \in Seq(1..arrived)
          BY <1>1, TakenType
        <4>2. \A s \in Seq(1..arrived) : \A e \in 1..arrived : Len(Append(s, e)) = Len(s) + 1
          OBVIOUS
        <4>3. CASE workerChan'[t] = workerChan[t] /\ Taken(t)' = Taken(t)
          BY <3>2, <4>3
        <4>4. CASE /\ workerChan[t] # <<>> /\ workerChan'[t] = Tail(workerChan[t])
                   /\ Taken(t)' = Append(Taken(t), Head(workerChan[t]))
          <5>1. Len(Taken(t)') = Len(Taken(t)) + 1
            BY <1>7, <4>1, <4>2, <4>4
          <5> QED
            BY <1>7, <3>2, <4>4, <5>1
        <4>5. CASE /\ workerChan'[t] = workerChan[t]
                   /\ whold[t] \in 1..arrived /\ sent[t] \in Seq(1..arrived)
                   /\ Taken(t)' = sent[t] /\ Taken(t) = Append(sent[t], whold[t])
          <5>1. Len(Taken(t)) = Len(Taken(t)') + 1
            BY <4>2, <4>5
          <5> QED
            BY <3>2, <4>5, <5>1
        <4> QED
          BY <1>1, <4>3, <4>4, <4>5, WorkerMoves, Zenon
      <3> QED
        BY <3>1, <3>2
    <2>5. /\ Len(Taken(x)') \in Nat /\ Len(workerChan'[x]) \in Nat
          /\ Len(Taken(x)') + Len(workerChan'[x]) <= Len(Taken(x)) + Len(workerChan[x])
      <3>1. Len(Taken(x)') \in Nat /\ Len(workerChan'[x]) \in Nat
        BY <1>9 DEF WorkerTypeOK, ChanOK, Taken
      <3>2. \A a, b, g, h \in Nat :
              (g = a /\ h = b) \/ (g = a + 1 /\ h = b - 1) \/ (a = g + 1 /\ h = b)
                => g + h <= a + b
        OBVIOUS
      <3> QED
        BY <2>3, <2>4, <3>1, <3>2, Zenon
    <2>6. \A a, b, g, h, d, v \in Nat : \A c, e \in 0..1 :
            a + b + c + d + e <= v /\ g + h <= a + b => g + h + c + d + e <= v
      OBVIOUS
    <2>7. Len(Taken(x)') + Len(workerChan'[x]) + Owed(x) + Len(dataChan) + Forwarding <= validCount
      BY <2>2, <2>3, <2>5, <2>6, Zenon
    <2> QED
      BY <2>1, <2>7 DEF TargetCount
  <1> QED
    BY <1>10, <1>11, <1>12 DEF IInv

\* The printer leaves, the caller cancels, or nothing happens.
LEMMA GroupOnlyStep ==
    ASSUME IInv, PrinterExit \/ Cancel \/ UNCHANGED vars
    PROVE  IInv'
  <1> "printer" \in Goroutines
    BY DEF Goroutines
  <1>1. /\ TypeOK /\ GroupTypeOK /\ FrontCount /\ \A t \in TargetSet : TargetCount(t)
    BY TypeParts DEF IInv
  <1>2. UNCHANGED <<listenerVars, netVars, chans, parserVars, replVars, workerVars>>
    BY DEF PrinterExit, Cancel, vars, workerRest, workerVars, chans
  <1>3. GroupTypeOK'
    BY <1>1, GroupStep DEF PrinterExit, Cancel, vars
  <1>4. TypeOK'
    BY <1>1, <1>2, <1>3, SameArrivals, TypePartsNext DEF chans
  <1>5. FrontCount'
    BY <1>1, <1>2 DEF FrontCount, Read, listenerVars, netVars, parserVars, chans
  <1>6. \A t \in TargetSet : TargetCount(t)'
    BY <1>1, <1>2, SameBack DEF chans, parserVars
  <1> QED
    BY <1>4, <1>5, <1>6 DEF IInv

\* The proxy starts with everything empty.
LEMMA IInvInit == Init => IInv
  <1> SUFFICES ASSUME Init PROVE IInv
    OBVIOUS
  <1> USE DEF Init, GroupInit, ListenerInit, NetInit, NoPacket
  <1>1. TypeOK
    <2>1. ListenerTypeOK
      BY DEF ListenerTypeOK
    <2>2. ChanOK(<<>>)
      BY DEF ChanOK
    <2>3. rnext \in 1..Len(Targets)
      BY TargetsFacts
    <2>4. GroupTypeOK
      BY DEF GroupTypeOK
    <2>5. FrontTypeOK
      BY <2>1, <2>2 DEF FrontTypeOK
    <2>6. CountTypeOK /\ ReplTypeOK
      BY <2>3 DEF CountTypeOK, ReplTypeOK
    <2>7. WorkerTypeOK
      BY <2>2 DEF WorkerTypeOK
    <2> QED
      BY <2>4, <2>5, <2>6, <2>7, TypeParts
  <1>2. FrontCount
    BY DEF FrontCount, Read
  <1>3. \A t \in TargetSet : TargetCount(t)
    BY DEF TargetCount, Taken, Owed, OwedTo, Forwarding
  <1> QED
    BY <1>1, <1>2, <1>3 DEF IInv

\* One case per goroutine.
LEMMA IInvStep == IInv /\ [Next]_vars => IInv'
  <1> SUFFICES ASSUME IInv, [Next]_vars PROVE IInv'
    OBVIOUS
  <1>1. CASE ListenerNext
    BY <1>1, ListenerOnlyStep, ReceiveStep, DeliverStep DEF ListenerNext
  <1>2. CASE ParserNext
    BY <1>2, ParserTakeStep, ParserSendStep DEF ParserNext
  <1>3. CASE ReplNext
    BY <1>3, ReplTakeStep, ReplOfferStep DEF ReplNext
  <1>4. CASE \E t \in TargetSet : WorkerNext(t)
    BY <1>4, WorkerStep
  <1>5. CASE PrinterExit \/ Cancel \/ UNCHANGED vars
    BY <1>5, GroupOnlyStep
  <1> QED
    BY <1>1, <1>2, <1>3, <1>4, <1>5 DEF Next

\* Types and counts hold in every state of every run of the proxy.
THEOREM Invariance == Spec => []IInv
  BY IInvInit, IInvStep, PTL DEF Spec

\* Every variable of the proxy keeps its type; the channels keep their bound
\* (Proxy.TypeOK).
THEOREM TypeCorrect == Spec => []TypeOK
  BY Invariance, PTL DEF IInv

\* No packet is counted twice and none is sent that was not counted as valid
\* (Proxy.CountsConsistent).
THEOREM CountsAreConsistent == Spec => []CountsConsistent
  <1>1. IInv => CountsConsistent
    <2> SUFFICES ASSUME IInv PROVE CountsConsistent
      OBVIOUS
    <2>1. validCount + invalidCount + Len(proxyChan) <= arrived
      <3>1. \A a, b, c, n \in Nat : \A d \in 0..1 : a + b + c + d <= n => a + b + c <= n
        OBVIOUS
      <3> QED
        BY <3>1, CountsAreNatural, Zenon DEF IInv, FrontCount
    <2>2. ASSUME NEW t \in TargetSet
          PROVE  Len(sent[t]) + Len(workerChan[t]) + InHand(t) <= validCount
      <3>1. \A a, b, d, v \in Nat : \A c, e \in 0..1 : a + b + c + d + e <= v => a + b <= v
        OBVIOUS
      <3>2. Len(Taken(t)) + Len(workerChan[t]) <= validCount
        BY <2>2, <3>1, CountsAreNatural, Zenon DEF IInv, TargetCount
      <3>3. Len(sent[t]) \in Nat /\ Len(Taken(t)) = Len(sent[t]) + InHand(t)
        BY TakenType DEF IInv
      <3>4. Len(workerChan[t]) \in Nat /\ validCount \in Nat /\ InHand(t) \in 0..1
        BY CountsAreNatural DEF IInv, InHand
      <3> QED
        <4>1. \A a, b, c, d, v \in Nat : b + c <= v /\ b = a + d => a + c + d <= v
          OBVIOUS
        <4>2. InHand(t) \in Nat /\ Len(Taken(t)) \in Nat
          BY <2>2, <3>4, CountsAreNatural DEF IInv
        <4> QED
          BY <3>2, <3>3, <3>4, <4>1, <4>2, Zenon
    <2> QED
      BY <2>1, <2>2 DEF CountsConsistent
  <1> QED
    BY <1>1, Invariance, PTL

-----------------------------------------------------------------------------
(* The context ends for a reason. *)

\* No goroutine leaves the others on a live context, and the context ends only
\* for an error RunCtx reports or by the caller (Proxy.StopsForAReason): every
\* return of nil is behind a ctx.Done(), every other way out is a Fail.
LEMMA StopsStep == StopsForAReason /\ [Next]_vars => StopsForAReason'
  <1> SUFFICES ASSUME StopsForAReason, [Next]_vars PROVE StopsForAReason'
    OBVIOUS
  <1> USE DEF StopsForAReason
  <1>1. ASSUME NEW g \in Goroutines, Fail(g) PROVE StopsForAReason'
    BY <1>1, TargetsFacts DEF Fail
  <1>2. ASSUME NEW g \in Goroutines, Return(g), cancelled PROVE StopsForAReason'
    BY <1>2 DEF Return
  <1>3. ASSUME ParentCancel PROVE StopsForAReason'
    BY <1>3 DEF ParentCancel
  <1>4. ASSUME UNCHANGED groupVars PROVE StopsForAReason'
    BY <1>4 DEF groupVars
  <1> HIDE DEF StopsForAReason
  <1> /\ "listener" \in Goroutines /\ "parser" \in Goroutines
      /\ "replicator" \in Goroutines /\ "printer" \in Goroutines
    BY DEF Goroutines
  <1>5. CASE ListenerNext
    <2>1. CASE ListenerOnly
      BY <2>1, <1>1, <1>2, <1>4
         DEF ListenerOnly, ListenerStep, ListenerProgress, Wakeup, ListenerBind,
             ListenerCheck, ListenerArm, ReadWoken, ReadTimeout, AfterTimeout,
             ReadError, ListenerReturns, ListenerFails
    <2>2. CASE ReceivePacket \/ Deliver
      BY <2>2, <1>2, <1>4 DEF ReceivePacket, Receive, Deliver, ListenerReturns
    <2> QED
      BY <1>5, <2>1, <2>2 DEF ListenerNext
  <1>6. CASE ParserNext
    BY <1>6, <1>2, <1>4 DEF ParserNext, ParserTake, ParserForward, ParserExit
  <1>7. CASE ReplNext
    BY <1>7, <1>2, <1>4 DEF ReplNext, ReplTake, ReplSend, ReplDrop, ReplExit
  <1>8. ASSUME NEW t \in TargetSet, WorkerNext(t)
        PROVE StopsForAReason'
    <2>1. t \in Goroutines
      BY TargetsFacts
    <2> QED
      BY <1>8, <2>1, <1>1, <1>2, <1>4
         DEF WorkerNext, WorkerBind, WorkerTake, WorkerSend, WorkerExit, WorkerFails
  <1>9. CASE PrinterExit \/ Cancel \/ UNCHANGED vars
    BY <1>9, <1>2, <1>3, <1>4 DEF PrinterExit, Cancel, vars
  <1> QED
    BY <1>5, <1>6, <1>7, <1>8, <1>9 DEF Next

\* No stage stops on a live context, and the context ends for a reason
\* (Proxy.StopsForAReason).
THEOREM StopsOnlyForAReason == Spec => []StopsForAReason
  <1>1. Init => StopsForAReason
    BY DEF Init, GroupInit, StopsForAReason
  <1> QED
    BY <1>1, StopsStep, PTL DEF Spec

-----------------------------------------------------------------------------
(* The packets of a channel *)

\* What is in a channel after a send and after a receive.
LEMMA ChannelSets ==
    ASSUME NEW S, NEW s \in Seq(S)
    PROVE  /\ \A e \in S : InSeq(Append(s, e)) = InSeq(s) \cup {e}
           /\ s # <<>> => Head(s) \in S /\ InSeq(s) = InSeq(Tail(s)) \cup {Head(s)}
  <1>1. ASSUME NEW e \in S PROVE InSeq(Append(s, e)) = InSeq(s) \cup {e}
    <2> DEFINE a == Append(s, e)
    <2>1. /\ DOMAIN a = 1..(Len(s) + 1) /\ a[Len(s) + 1] = e /\ DOMAIN s = 1..Len(s)
          /\ \A i \in 1..Len(s) : a[i] = s[i] /\ i \in 1..(Len(s) + 1)
          /\ \A i \in 1..(Len(s) + 1) : i \in 1..Len(s) \/ i = Len(s) + 1
          /\ Len(s) + 1 \in 1..(Len(s) + 1)
      OBVIOUS
    <2> HIDE DEF a
    <2>2. InSeq(a) = InSeq(s) \cup {e}
      BY <2>1 DEF InSeq
    <2> QED
      BY <2>2 DEF a
  <1>2. ASSUME s # <<>> PROVE Head(s) \in S /\ InSeq(s) = InSeq(Tail(s)) \cup {Head(s)}
    <2> DEFINE t == Tail(s)
    <2>1. /\ Head(s) = s[1] /\ 1 \in 1..Len(s) /\ DOMAIN t = 1..(Len(s) - 1) /\ DOMAIN s = 1..Len(s)
          /\ \A i \in 1..(Len(s) - 1) : t[i] = s[i + 1] /\ i + 1 \in 1..Len(s)
      BY <1>2
    <2>2. \A i \in 1..Len(s) : i = 1 \/ (i - 1 \in 1..(Len(s) - 1) /\ (i - 1) + 1 = i)
      OBVIOUS
    <2>3. Head(s) \in S
      BY <1>2
    <2> HIDE DEF t
    <2>4. \A i \in 1..Len(s) : i = 1 \/ s[i] \in InSeq(t)
      <3> SUFFICES ASSUME NEW i \in 1..Len(s), i # 1 PROVE s[i] \in InSeq(t)
        OBVIOUS
      <3>1. i - 1 \in DOMAIN t /\ t[i - 1] = s[i]
        BY <2>1, <2>2
      <3> QED
        BY <3>1 DEF InSeq
    <2>5. \A i \in DOMAIN t : t[i] \in InSeq(s)
      BY <2>1 DEF InSeq
    <2>6. InSeq(s) = InSeq(t) \cup {s[1]}
      BY <2>1, <2>4, <2>5 DEF InSeq
    <2> QED
      BY <2>1, <2>3, <2>6 DEF t
  <1> QED
    BY <1>1, <1>2

\* What is in a channel after a send.
LEMMA SentSet ==
    ASSUME NEW s \in Seq(1..arrived), NEW e \in 1..arrived
    PROVE  InSeq(Append(s, e)) = InSeq(s) \cup {e}
  <1> DEFINE S == 1..arrived
  <1>1. s \in Seq(S) /\ e \in S
    OBVIOUS
  <1> HIDE DEF S
  <1> QED
    BY <1>1, ChannelSets

-----------------------------------------------------------------------------
(* A burst that fits the buffers is relayed in full. *)

\* While the context lives and no more packets have arrived than a buffer holds,
\* every valid packet is somewhere on the way to each target.
Complete == ~cancelled /\ arrived <= BufCap => \A t \in TargetSet : flows \subseteq OnTheWay(t)

\* The packets on their way to t, by where they are.
Way(t) ==
    InSeq(Taken(t)) \cup InSeq(workerChan[t]) \cup InSeq(dataChan)
        \cup InSeq(proxyChan) \cup {pheld, lheld}
        \cup (IF OwedTo(t) THEN {rheld} ELSE {})

\* They are those of OnTheWay, where a worker that sends nothing holds NoPacket.
LEMMA WayParts ==
    TypeOK => \A t \in TargetSet : flows \subseteq OnTheWay(t) <=> flows \subseteq Way(t)
  <1> SUFFICES ASSUME TypeOK, NEW t \in TargetSet
               PROVE  flows \subseteq OnTheWay(t) <=> flows \subseteq Way(t)
    OBVIOUS
  <1>1. NoPacket \notin flows /\ (tpc[t] # "send" => whold[t] = NoPacket)
    BY DEF TypeOK, ListenerTypeOK, NoPacket
  <1>2. tpc[t] = "send" => InSeq(Taken(t)) = InSeq(sent[t]) \cup {whold[t]}
    BY TakenType, SentSet DEF Taken
  <1>3. tpc[t] # "send" => Taken(t) = sent[t]
    BY DEF Taken
  <1> QED
    BY <1>1, <1>2, <1>3 DEF OnTheWay, Way, OwedTo

\* The same of the state after a step.
LEMMA WayPartsNext ==
    ASSUME NEW t \in TargetSet
  PROVE  (TypeOK => (flows \subseteq OnTheWay(t) <=> flows \subseteq Way(t)))'
  <1>1. TypeOK => (flows \subseteq OnTheWay(t) <=> flows \subseteq Way(t))
    BY WayParts
  <1> QED
    BY <1>1, PTL

\* No channel is full before the last packet of a burst has passed it.
LEMMA RoomForAll ==
    ASSUME IInv, arrived <= BufCap
    PROVE  /\ lheld # NoPacket => Room(proxyChan)
           /\ ppc = "send" => Room(dataChan)
           /\ \A t \in TargetSet : OwedTo(t) => Room(workerChan[t])
  <1>1. BufCap \in Nat
    BY BufCapAssumption
  <1>2. ASSUME lheld # NoPacket PROVE Room(proxyChan)
    <2>1. \A a, b, c, n, m \in Nat : a + b + c + 1 <= n /\ n <= m => c < m
      OBVIOUS
    <2>2. validCount + invalidCount + Len(proxyChan) + 1 <= arrived
      BY <1>2 DEF IInv, FrontCount, Read
    <2> QED
      BY <1>1, <2>1, <2>2, CountsAreNatural, Zenon DEF IInv, Room
  <1>3. validCount <= BufCap
    <2>1. \A a, b, c, n, m \in Nat : \A d \in 0..1 : a + b + c + d <= n /\ n <= m => a <= m
      OBVIOUS
    <2> QED
      BY <1>1, <2>1, CountsAreNatural, Zenon DEF IInv, FrontCount
  <1>4. ASSUME ppc = "send" PROVE Room(dataChan)
    <2>1. PICK t : t \in TargetSet
      BY TargetsFacts DEF TargetSet
    <2>2. Len(Taken(t)) + Len(workerChan[t]) + Owed(t) + Len(dataChan) + 1 <= validCount
      BY <1>4, <2>1 DEF IInv, TargetCount, Forwarding
    <2>3. \A a, b, d, v, m \in Nat : \A c \in 0..1 : a + b + c + d + 1 <= v /\ v <= m => d < m
      OBVIOUS
    <2> QED
      BY <1>1, <1>3, <2>1, <2>2, <2>3, CountsAreNatural, Zenon DEF IInv, Room
  <1>5. ASSUME NEW t \in TargetSet, OwedTo(t) PROVE Room(workerChan[t])
    <2>1. Len(Taken(t)) + Len(workerChan[t]) + 1 + Len(dataChan) + Forwarding <= validCount
      BY <1>5 DEF IInv, TargetCount, Owed
    <2>2. \A a, b, d, v, m \in Nat : \A c \in 0..1 : a + b + 1 + d + c <= v /\ v <= m => b < m
      OBVIOUS
    <2> QED
      BY <1>1, <1>3, <2>1, <2>2, CountsAreNatural, Zenon DEF IInv, Room
  <1> QED
    BY <1>2, <1>4, <1>5

\* The context never comes back, and while it lives no goroutine leaves.
LEMMA CancelStays ==
    ASSUME [Next]_vars, ~cancelled'
    PROVE  ~cancelled /\ UNCHANGED <<alive, cancelled>>
  <1> USE DEF Return, Fail, ParentCancel, groupVars
  <1>1. CASE ListenerNext
    BY <1>1 DEF ListenerNext, ListenerOnly, ListenerStep, ListenerProgress, Wakeup, ListenerBind,
             ListenerCheck, ListenerArm, ReadWoken, ReadTimeout, AfterTimeout,
             ReadError, ListenerReturns, ListenerFails, ReceivePacket, Receive, Deliver
  <1>2. CASE ParserNext
    BY <1>2 DEF ParserNext, ParserTake, ParserForward, ParserExit
  <1>3. CASE ReplNext
    BY <1>3 DEF ReplNext, ReplTake, ReplSend, ReplDrop, ReplExit
  <1>4. CASE \E t \in TargetSet : WorkerNext(t)
    BY <1>4 DEF WorkerNext, WorkerBind, WorkerTake, WorkerSend, WorkerExit, WorkerFails
  <1>5. CASE PrinterExit \/ Cancel \/ UNCHANGED vars
    BY <1>5 DEF PrinterExit, Cancel, vars
  <1> QED
    BY <1>1, <1>2, <1>3, <1>4, <1>5 DEF Next

\* A step takes no packet off the way to a target but by sending it there.
LEMMA CompleteStep == IInv /\ Complete /\ [Next]_vars => Complete'
  <1> SUFFICES ASSUME IInv, Complete, [Next]_vars, ~cancelled', arrived' <= BufCap,
                      NEW t \in TargetSet
               PROVE  (flows \subseteq OnTheWay(t))'
    BY DEF Complete
  <1>0. TypeOK'
    BY IInvStep DEF IInv
  <1>1. ~cancelled /\ TypeOK
    BY CancelStays DEF IInv
  <1>2. /\ arrived \in Nat /\ flows \subseteq 1..arrived /\ NoPacket \notin flows
        /\ proxyChan \in Seq(1..arrived) /\ dataChan \in Seq(1..arrived)
        /\ \A x \in TargetSet : workerChan[x] \in Seq(1..arrived)
    BY <1>1 DEF TypeOK, ListenerTypeOK, ChanOK, NoPacket
  <1>3. (arrived' = arrived + 1 \/ arrived' = arrived) => arrived <= BufCap
    <2>1. \A a, b \in Nat : a + 1 <= b => a <= b
      OBVIOUS
    <2> QED
      BY <1>2, <2>1, BufCapAssumption
  <1>4. ASSUME arrived <= BufCap PROVE flows \subseteq OnTheWay(t)
    BY <1>1, <1>4 DEF Complete
  <1>5. /\ flows \subseteq OnTheWay(t) <=> flows \subseteq Way(t)
        /\ (flows \subseteq OnTheWay(t))' <=> (flows \subseteq Way(t))'
    BY <1>0, <1>1, WayParts, WayPartsNext, Zenon
  <1>6. CASE ReceivePacket
    <2>1. /\ UNCHANGED <<chans, parserVars, replVars, workerVars>> /\ lpc = "read"
          /\ arrived' = arrived + 1 /\ lheld' = arrived + 1
          /\ flows' \subseteq flows \cup {arrived + 1}
      BY <1>6 DEF ReceivePacket, Receive
    <2>2. lheld = NoPacket
      BY <1>1, <2>1 DEF TypeOK, ListenerTypeOK
    <2>3. flows \subseteq Way(t)
      BY <1>3, <1>4, <1>5, <2>1
    <2> QED
      BY <1>2, <1>5, <2>1, <2>2, <2>3 DEF Way, Taken, chans, parserVars, replVars, workerVars, OwedTo
  <1>7. CASE UNCHANGED netVars
    <2>1. flows' = flows /\ arrived' = arrived /\ flows \subseteq Way(t) /\ arrived <= BufCap
      BY <1>3, <1>4, <1>5, <1>7 DEF netVars
    <2>2. CASE ListenerOnly
      <3>1. /\ UNCHANGED <<chans, parserVars, replVars, workerVars>>
            /\ lheld' = lheld \/ lheld = NoPacket
        BY <1>1, <2>2
           DEF ListenerOnly, ListenerAlone, ListenerStep, ListenerProgress, Wakeup, ListenerBind,
               ListenerCheck, ListenerArm, ReadWoken, ReadTimeout, AfterTimeout,
               ReadError, ListenerReturns, ListenerFails, TypeOK, ListenerTypeOK
      <3> QED
        BY <1>2, <1>5, <2>1, <3>1 DEF Way, Taken, chans, parserVars, replVars, workerVars, OwedTo
    <2>3. CASE Deliver
      <3>1. UNCHANGED <<dataChan, workerChan, parserVars, replVars, workerVars>>
        BY <2>3 DEF Deliver
      <3>2. lheld \in 1..arrived /\ Room(proxyChan)
        BY <1>1, <2>1, <2>3, RoomForAll DEF Deliver, TypeOK, ListenerTypeOK, NoPacket
      <3>3. proxyChan' = Append(proxyChan, lheld)
        BY <1>1, <2>3, <3>2 DEF Deliver
      <3>4. InSeq(proxyChan') = InSeq(proxyChan) \cup {lheld}
        BY <1>2, <3>2, <3>3, SentSet
      <3> QED
        BY <1>2, <1>5, <2>1, <3>1, <3>4 DEF Way, Taken, parserVars, replVars, workerVars, OwedTo
    <2>4. CASE ParserTake
      <3>1. /\ UNCHANGED <<dataChan, workerChan, replVars, workerVars, lheld>>
            /\ proxyChan # <<>> /\ proxyChan' = Tail(proxyChan) /\ ppc = "select"
            /\ pheld' = Head(proxyChan) \/ (Head(proxyChan) \notin flows /\ pheld' = pheld)
        BY <2>4 DEF ParserTake, parserRest, listenerVars
      <3>2. pheld = NoPacket
        BY <1>1, <3>1 DEF TypeOK
      <3>3. InSeq(proxyChan) = InSeq(proxyChan') \cup {Head(proxyChan)}
        BY <1>2, <3>1, ChannelSets
      <3> QED
        BY <1>2, <1>5, <2>1, <3>1, <3>2, <3>3 DEF Way, Taken, replVars, workerVars, OwedTo
    <2>5. CASE ParserForward
      <3>1. /\ UNCHANGED <<proxyChan, workerChan, replVars, workerVars, lheld>>
            /\ ppc = "send"
        BY <2>5 DEF ParserForward, parserRest, listenerVars
      <3>2. pheld \in 1..arrived /\ Room(dataChan)
        BY <1>1, <2>1, <3>1, RoomForAll DEF TypeOK, NoPacket
      <3>3. dataChan' = Append(dataChan, pheld)
        BY <2>5, <3>2 DEF ParserForward
      <3>4. InSeq(dataChan') = InSeq(dataChan) \cup {pheld}
        BY <1>2, <3>2, <3>3, SentSet
      <3> QED
        BY <1>2, <1>5, <2>1, <3>1, <3>4 DEF Way, Taken, replVars, workerVars, OwedTo
    <2>6. CASE ReplTake
      <3>1. /\ UNCHANGED <<proxyChan, workerChan, parserVars, workerVars, lheld>>
            /\ rpc = "select" /\ dataChan # <<>> /\ dataChan' = Tail(dataChan)
            /\ rpc' = "fanout" /\ rheld' = Head(dataChan) /\ rnext' = 1
        BY <2>6 DEF ReplTake, replRest, listenerVars
      <3>2. OwedTo(t)'
        BY <3>1, TargetsFacts DEF OwedTo, TargetSet
      <3>3. ~OwedTo(t)
        BY <3>1 DEF OwedTo
      <3>4. InSeq(dataChan) = InSeq(dataChan') \cup {Head(dataChan)}
        BY <1>2, <3>1, ChannelSets
      <3> QED
        BY <1>5, <2>1, <3>1, <3>2, <3>3, <3>4 DEF Way, Taken, parserVars, workerVars
    <2>7. CASE ReplSend \/ ReplDrop
      <3>1. /\ UNCHANGED <<proxyChan, dataChan, parserVars, workerVars, lheld>>
            /\ rpc = "fanout" /\ NextTarget
        BY <2>7 DEF ReplSend, ReplDrop, replRest, listenerVars
      <3>2. /\ Targets[rnext] \in TargetSet /\ OwedTo(Targets[rnext])
            /\ OwedTo(t)' <=> OwedTo(t) /\ t # Targets[rnext]
        BY <1>1, <3>1, NextOwed
      <3>3. /\ workerChan' = [workerChan EXCEPT ![Targets[rnext]] =
                                 Append(workerChan[Targets[rnext]], rheld)]
            /\ rheld \in 1..arrived
        BY <1>1, <2>1, <2>7, <3>1, <3>2, RoomForAll DEF ReplSend, ReplDrop, TypeOK, NoPacket
      <3>4. CASE t = Targets[rnext]
        <4>1. workerChan'[t] = Append(workerChan[t], rheld)
          BY <1>1, <3>3, <3>4 DEF TypeOK
        <4>2. InSeq(workerChan'[t]) = InSeq(workerChan[t]) \cup {rheld}
          BY <1>2, <3>3, <4>1, SentSet
        <4> QED
          BY <1>5, <2>1, <3>1, <4>2 DEF Way, Taken, parserVars, workerVars
      <3>5. CASE t # Targets[rnext]
        <4>1. workerChan'[t] = workerChan[t]
          BY <1>1, <3>3, <3>5 DEF TypeOK
        <4>2. OwedTo(t)' <=> OwedTo(t)
          BY <3>2, <3>5
        <4>3. OwedTo(t)' => rheld' = rheld
          BY <3>1 DEF OwedTo, NextTarget
        <4> QED
          BY <1>5, <2>1, <3>1, <4>1, <4>2, <4>3 DEF Way, Taken, parserVars, workerVars
      <3> QED
        BY <3>4, <3>5
    <2>8. ASSUME NEW x \in TargetSet, WorkerNext(x) PROVE (flows \subseteq Way(t))'
      <3>1. UNCHANGED <<proxyChan, dataChan, parserVars, replVars, lheld>>
        BY <1>1, <2>8, WorkerMoves DEF workerRest, listenerVars
      <3>2. InSeq(workerChan'[t]) \cup InSeq(Taken(t)') = InSeq(workerChan[t]) \cup InSeq(Taken(t))
        <4>1. CASE x = t /\ workerChan[t] # <<>> /\ workerChan'[t] = Tail(workerChan[t])
                    /\ Taken(t)' = Append(Taken(t), Head(workerChan[t]))
          <5>1. /\ InSeq(workerChan[t]) = InSeq(workerChan'[t]) \cup {Head(workerChan[t])}
                /\ Head(workerChan[t]) \in 1..arrived
            BY <1>2, <4>1, ChannelSets
          <5>2. InSeq(Taken(t)') = InSeq(Taken(t)) \cup {Head(workerChan[t])}
            BY <1>1, <4>1, <5>1, TakenType, SentSet
          <5> QED
            BY <5>1, <5>2
        <4>2. CASE workerChan'[t] = workerChan[t] /\ Taken(t)' = Taken(t)
          BY <4>2
        <4> QED
          BY <1>1, <2>8, <4>1, <4>2, WorkerMoves
      <3> QED
        BY <2>1, <3>1, <3>2 DEF Way, parserVars, replVars, OwedTo
    <2>9. CASE Cancel \/ UNCHANGED vars
      <3>1. Way(t)' = Way(t)
        BY <2>9 DEF Cancel, vars, listenerVars, chans, parserVars, replVars, workerVars, OwedTo, Way,
                    Taken
      <3> QED
        BY <1>5, <2>1, <3>1
    <2>10. ~(ParserExit \/ ReplExit \/ PrinterExit)
      BY <1>1 DEF ParserExit, ReplExit, PrinterExit
    <2>11. CASE ReceivePacket
      BY <1>6, <2>11
    <2> QED
      BY <1>5, <2>2, <2>3, <2>4, <2>5, <2>6, <2>7, <2>8, <2>9, <2>10, <2>11
         DEF Next, ListenerNext, ParserNext, ReplNext
  <1>8. ReceivePacket \/ UNCHANGED netVars
    BY DEF Next, ListenerNext, ListenerOnly, ListenerAlone, Deliver, ParserNext, ParserTake,
           ParserForward, ParserExit, parserRest, ReplNext, ReplTake, ReplSend, ReplDrop, ReplExit,
           replRest, WorkerNext, WorkerBind, WorkerTake, WorkerSend, WorkerExit, workerRest,
           PrinterExit, Cancel, vars
  <1> QED
    BY <1>6, <1>7, <1>8

\* A burst that fits the buffers reaches every target, wherever its packets
\* are and however the goroutines take turns (Proxy.BurstRelayed).
THEOREM BurstIsRelayed == Spec => []BurstRelayed
  <1>1. Init => Complete
    BY DEF Init, NetInit, Complete
  <1>2. Complete => BurstRelayed
    BY DEF Complete, BurstRelayed
  <1> QED
    BY <1>1, <1>2, Invariance, CompleteStep, PTL DEF Spec

-----------------------------------------------------------------------------
(* The order of the packets *)

\* A channel whose packets came in order, after a send and after a receive.
LEMMA OrderedChannel ==
    ASSUME arrived \in Nat, NEW s \in Seq(1..arrived), Increasing(s)
    PROVE  /\ \A e \in 1..arrived : Below(InSeq(s), {e}) => Increasing(Append(s, e))
           /\ s # <<>> =>
                /\ Increasing(Tail(s))
                /\ Below({Head(s)}, InSeq(Tail(s)))
  <1>0. Len(s) \in Nat /\ DOMAIN s = 1..Len(s) /\ \A i \in 1..Len(s) : s[i] \in 1..arrived
    OBVIOUS
  <1>1. ASSUME NEW e \in 1..arrived, Below(InSeq(s), {e}) PROVE Increasing(Append(s, e))
    <2> DEFINE a == Append(s, e)
    <2>1. /\ DOMAIN a = 1..(Len(s) + 1) /\ a[Len(s) + 1] = e
          /\ \A i \in 1..Len(s) : a[i] = s[i]
          /\ \A i \in 1..(Len(s) + 1) : i \in 1..Len(s) \/ i = Len(s) + 1
      BY <1>0
    <2> HIDE DEF a
    <2>2. Increasing(a)
      BY <1>0, <1>1, <2>1 DEF InSeq, Below, Increasing
    <2> QED
      BY <2>2 DEF a
  <1>2. ASSUME s # <<>> PROVE Increasing(Tail(s)) /\ Below({Head(s)}, InSeq(Tail(s)))
    <2> DEFINE t == Tail(s)
    <2>1. /\ Head(s) = s[1] /\ Len(s) >= 1 /\ DOMAIN t = 1..(Len(s) - 1)
          /\ \A i \in 1..(Len(s) - 1) : t[i] = s[i + 1] /\ i + 1 \in 1..Len(s)
      BY <1>0, <1>2
    <2> HIDE DEF t
    <2>2. \A i, j \in 1..Len(s) : i < j => s[i] < s[j]
      BY <1>0 DEF Increasing
    <2>3. ASSUME NEW i \in DOMAIN t PROVE s[1] < t[i]
      <3>1. i + 1 \in 1..Len(s) /\ 1 \in 1..Len(s) /\ 1 < i + 1 /\ t[i] = s[i + 1]
        BY <1>0, <2>1
      <3> QED
        BY <2>2, <3>1
    <2>4. Increasing(t)
      <3> SUFFICES ASSUME NEW i \in DOMAIN t, NEW j \in DOMAIN t, i < j PROVE t[i] < t[j]
        BY DEF Increasing
      <3>1. i + 1 \in 1..Len(s) /\ j + 1 \in 1..Len(s) /\ i + 1 < j + 1
        BY <1>0, <2>1
      <3>2. s[i + 1] < s[j + 1]
        BY <2>2, <3>1
      <3> QED
        BY <2>1, <3>2
    <2>5. Below({s[1]}, InSeq(t))
      BY <2>3 DEF InSeq, Below
    <2> QED
      BY <2>1, <2>4, <2>5 DEF t
  <1> QED
    BY <1>1, <1>2

\* The packets in front of the replicator, from its channel to the socket.
InData == InSeq(dataChan)
InParser == {pheld} \ {NoPacket}
InProxy == InSeq(proxyChan)
InListener == {lheld} \ {NoPacket}
Upstream == InData \cup InParser \cup InProxy \cup InListener

\* In front of the replicator packets are in arrival order, and only valid ones
\* come past the parser.
FrontOrdered ==
    /\ Increasing(proxyChan) /\ Increasing(dataChan)
    /\ Below(InData, InParser \cup InProxy \cup InListener)
    /\ Below(InParser, InProxy \cup InListener)
    /\ Below(InProxy, InListener)
    /\ InData \cup InParser \subseteq flows
    /\ rpc = "fanout" => rheld \in flows /\ Below({rheld}, Upstream)

\* The packet the replicator has still to offer to target t.
PendingFor(t) == IF OwedTo(t) THEN {rheld} ELSE {}

\* The packet a worker is sending is valid and comes after those it has sent.
SendsInOrder(t) ==
    tpc[t] = "send" => whold[t] \in flows /\ Below(InSeq(sent[t]), {whold[t]})

\* Behind it each target has a pipeline of its own, in arrival order too.
TargetOrdered(t) ==
    /\ Increasing(workerChan[t])
    /\ Below(InSeq(Taken(t)), InSeq(workerChan[t]))
    /\ Below(InSeq(Taken(t)) \cup InSeq(workerChan[t]), PendingFor(t) \cup Upstream)
    /\ InSeq(workerChan[t]) \subseteq flows
    /\ SendsInOrder(t)

\* The inductive invariant of the order.
OInv == IInv /\ FrontOrdered /\ \A t \in TargetSet : TargetOrdered(t)

\* What the order needs to know of the types.
LEMMA OrderTypes ==
    ASSUME TypeOK
    PROVE  /\ arrived \in Nat /\ flows \subseteq 1..arrived
           /\ proxyChan \in Seq(1..arrived) /\ dataChan \in Seq(1..arrived)
           /\ Upstream \subseteq 1..arrived
           /\ \A t \in TargetSet :
                /\ workerChan[t] \in Seq(1..arrived) /\ Taken(t) \in Seq(1..arrived)
                /\ InSeq(workerChan[t]) \subseteq 1..arrived /\ InSeq(Taken(t)) \subseteq 1..arrived
           /\ rpc = "fanout" => rheld \in 1..arrived
  <1>1. ASSUME NEW c \in Seq(1..arrived) PROVE InSeq(c) \subseteq 1..arrived
    <2> DEFINE S == 1..arrived
    <2>1. c \in Seq(S)
      OBVIOUS
    <2> HIDE DEF S
    <2>2. \A i \in DOMAIN c : c[i] \in S
      BY <2>1
    <2>3. InSeq(c) \subseteq S
      BY <2>2 DEF InSeq
    <2> QED
      BY <2>3 DEF S
  <1>2. /\ arrived \in Nat /\ flows \subseteq 1..arrived
        /\ proxyChan \in Seq(1..arrived) /\ dataChan \in Seq(1..arrived)
        /\ pheld \in 0..arrived /\ lheld \in 0..arrived
        /\ \A t \in TargetSet : workerChan[t] \in Seq(1..arrived) /\ Taken(t) \in Seq(1..arrived)
        /\ rpc = "fanout" => rheld \in 1..arrived
    BY TakenType DEF TypeOK, ListenerTypeOK, ChanOK, NoPacket
  <1>3. Upstream \subseteq 1..arrived
    <2>1. InParser \subseteq 1..arrived /\ InListener \subseteq 1..arrived
      BY <1>2 DEF InParser, InListener, NoPacket
    <2> QED
      BY <1>1, <1>2, <2>1 DEF Upstream, InData, InProxy
  <1> QED
    BY <1>1, <1>2, <1>3

\* A step in front of the replicator's targets keeps their order if it adds
\* nothing in front of them.
LEMMA TargetsKeepOrder ==
    ASSUME \A t \in TargetSet : TargetOrdered(t), UNCHANGED <<workerChan, workerVars>>,
           flows \subseteq flows', Upstream' \subseteq Upstream,
           \A t \in TargetSet : PendingFor(t)' \subseteq PendingFor(t) \cup Upstream
    PROVE  \A t \in TargetSet : TargetOrdered(t)'
  <1> SUFFICES ASSUME NEW t \in TargetSet PROVE TargetOrdered(t)'
    OBVIOUS
  <1>1. TargetOrdered(t) /\ PendingFor(t)' \subseteq PendingFor(t) \cup Upstream
    OBVIOUS
  <1>0. UNCHANGED <<workerChan, tpc, whold, sent>> /\ Taken(t)' = Taken(t)
    BY DEF workerVars, Taken
  <1>2. /\ Increasing(workerChan[t]) /\ Below(InSeq(Taken(t)), InSeq(workerChan[t]))
        /\ InSeq(workerChan[t]) \subseteq flows
        /\ Below(InSeq(Taken(t)) \cup InSeq(workerChan[t]), PendingFor(t) \cup Upstream)
    BY <1>1 DEF TargetOrdered
  <1>3. Below(InSeq(Taken(t)) \cup InSeq(workerChan[t]), PendingFor(t)' \cup Upstream')
    BY <1>1, <1>2 DEF Below
  <1>4. InSeq(workerChan[t]) \subseteq flows'
    BY <1>2
  <1>5. SendsInOrder(t)'
    BY <1>0, <1>1 DEF TargetOrdered, SendsInOrder
  <1> QED
    BY <1>0, <1>2, <1>3, <1>4, <1>5 DEF TargetOrdered

\* A packet arrives behind all others.
LEMMA ReceiveOrder == OInv /\ ReceivePacket => OInv'
  <1> SUFFICES ASSUME OInv, ReceivePacket PROVE OInv'
    OBVIOUS
  <1>0. /\ IInv' /\ TypeOK /\ FrontOrdered /\ \A t \in TargetSet : TargetOrdered(t)
    BY ReceiveStep DEF OInv, IInv
  <1>1. /\ UNCHANGED <<chans, parserVars, replVars, workerVars>>
        /\ lheld' = arrived + 1 /\ lpc = "read" /\ flows \subseteq flows'
    BY DEF ReceivePacket, Receive
  <1>2. arrived \in Nat /\ InListener = {} /\ InListener' = {arrived + 1}
    BY <1>0, <1>1, OrderTypes DEF InListener, TypeOK, ListenerTypeOK, NoPacket
  <1>3. /\ InData' = InData /\ InParser' = InParser /\ InProxy' = InProxy
        /\ Upstream' = Upstream \cup {arrived + 1}
    BY <1>1, <1>2 DEF InData, InParser, InProxy, Upstream, chans, parserVars
  <1>4. \A x \in 1..arrived : x < arrived + 1
    BY <1>2
  <1>5. \A x \in Upstream : x < arrived + 1
    BY <1>0, <1>4, OrderTypes
  <1>6. FrontOrdered'
    <2>1. Increasing(proxyChan') /\ Increasing(dataChan')
      BY <1>0, <1>1 DEF FrontOrdered, chans
    <2>2. /\ Below(InData, InParser \cup InProxy \cup {arrived + 1})
          /\ Below(InParser, InProxy \cup {arrived + 1})
          /\ Below(InProxy, {arrived + 1})
      BY <1>0, <1>2, <1>5 DEF FrontOrdered, Below, Upstream
    <2>3. rpc = "fanout" => rheld \in flows /\ Below({rheld}, Upstream')
      BY <1>0, <1>3, <1>4, OrderTypes DEF FrontOrdered, Below
    <2> QED
      BY <1>0, <1>1, <1>2, <1>3, <2>1, <2>2, <2>3 DEF FrontOrdered, replVars
  <1>7. ASSUME NEW t \in TargetSet PROVE TargetOrdered(t)'
    <2>1. /\ TargetOrdered(t) /\ UNCHANGED <<workerChan, tpc, whold, sent, rheld, rpc, rnext>>
          /\ Taken(t)' = Taken(t)
      BY <1>0, <1>1 DEF Taken, chans, workerVars, replVars
    <2>5. SendsInOrder(t)'
      BY <1>1, <2>1 DEF TargetOrdered, SendsInOrder
    <2>2. PendingFor(t)' = PendingFor(t)
      BY <2>1 DEF PendingFor, OwedTo
    <2>3. \A x \in InSeq(Taken(t)) \cup InSeq(workerChan[t]) : x < arrived + 1
      BY <1>0, <1>4, OrderTypes
    <2>4. Below(InSeq(Taken(t)) \cup InSeq(workerChan[t]), PendingFor(t) \cup (Upstream \cup {arrived + 1}))
      BY <2>1, <2>3 DEF TargetOrdered, Below
    <2> QED
      BY <1>1, <1>3, <2>1, <2>2, <2>4, <2>5 DEF TargetOrdered
  <1> QED
    BY <1>0, <1>6, <1>7 DEF OInv

\* The listener hands its packet on, drops it or leaves with it.
LEMMA DeliverOrder == OInv /\ Deliver => OInv'
  <1> SUFFICES ASSUME OInv, Deliver PROVE OInv'
    OBVIOUS
  <1>0. IInv' /\ TypeOK /\ FrontOrdered /\ \A t \in TargetSet : TargetOrdered(t)
    BY DeliverStep DEF OInv, IInv
  <1>1. /\ UNCHANGED <<flows, dataChan, workerChan, pheld, rpc, rheld, rnext, workerVars>>
        /\ lheld' = NoPacket /\ lheld \in 1..arrived
    BY <1>0 DEF Deliver, ListenerReturns, netVars, parserVars, replVars, workerVars, TypeOK,
                ListenerTypeOK, NoPacket
  <1>2. InListener = {lheld} /\ InListener' = {} /\ InData' = InData /\ InParser' = InParser
    BY <1>1 DEF InListener, InData, InParser, NoPacket
  <1>3. /\ InProxy' \subseteq InProxy \cup {lheld}
        /\ Increasing(proxyChan')
    <2>1. CASE proxyChan' = proxyChan
      BY <1>0, <2>1 DEF InProxy, FrontOrdered
    <2>2. CASE proxyChan' = Append(proxyChan, lheld)
      <3>1. Below(InSeq(proxyChan), {lheld}) /\ Increasing(proxyChan)
        BY <1>0, <1>2 DEF FrontOrdered, InProxy
      <3>2. proxyChan \in Seq(1..arrived) /\ arrived \in Nat
        BY <1>0, OrderTypes
      <3>3. Increasing(Append(proxyChan, lheld))
        BY <1>1, <3>1, <3>2, OrderedChannel
      <3>4. InSeq(Append(proxyChan, lheld)) = InSeq(proxyChan) \cup {lheld}
        BY <1>1, <3>2, SentSet
      <3> QED
        BY <2>2, <3>3, <3>4 DEF InProxy
    <2> QED
      BY <2>1, <2>2 DEF Deliver
  <1>4. Upstream' \subseteq Upstream
    BY <1>2, <1>3 DEF Upstream
  <1>5. FrontOrdered'
    BY <1>0, <1>1, <1>2, <1>3, <1>4 DEF FrontOrdered, Below
  <1>6. \A t \in TargetSet : TargetOrdered(t)'
    BY <1>0, <1>1, <1>4, TargetsKeepOrder DEF PendingFor, OwedTo
  <1> QED
    BY <1>0, <1>5, <1>6 DEF OInv

\* The parser takes the oldest packet and keeps it if it is valid.
LEMMA ParserTakeOrder == OInv /\ ParserTake => OInv'
  <1> SUFFICES ASSUME OInv, ParserTake PROVE OInv'
    OBVIOUS
  <1> DEFINE h == Head(proxyChan)
  <1>0. IInv' /\ TypeOK /\ FrontOrdered /\ \A t \in TargetSet : TargetOrdered(t)
    BY ParserTakeStep DEF OInv, IInv
  <1>1. /\ UNCHANGED <<flows, lheld, dataChan, workerChan, rpc, rheld, rnext, workerVars>>
        /\ proxyChan # <<>> /\ proxyChan' = Tail(proxyChan) /\ ppc = "select"
        /\ (h \in flows /\ pheld' = h) \/ pheld' = pheld
    BY DEF ParserTake, parserRest, listenerVars, netVars, replVars, workerVars
  <1>2. /\ h \in 1..arrived /\ InSeq(proxyChan) = InSeq(proxyChan') \cup {h}
        /\ Increasing(proxyChan') /\ Below({h}, InSeq(proxyChan'))
    <2>1. proxyChan \in Seq(1..arrived) /\ arrived \in Nat /\ Increasing(proxyChan)
      BY <1>0, OrderTypes DEF FrontOrdered
    <2>2. h \in 1..arrived /\ InSeq(proxyChan) = InSeq(Tail(proxyChan)) \cup {h}
      BY <1>1, <2>1, ChannelSets
    <2>3. Increasing(Tail(proxyChan)) /\ Below({h}, InSeq(Tail(proxyChan)))
      BY <1>1, <2>1, OrderedChannel
    <2> QED
      BY <1>1, <2>2, <2>3
  <1> HIDE DEF h
  <1>3. /\ InListener' = InListener /\ InData' = InData /\ InParser = {}
        /\ InProxy = InProxy' \cup {h}
        /\ (h \in flows /\ InParser' = {h}) \/ InParser' = {}
    BY <1>0, <1>1, <1>2 DEF InListener, InData, InParser, InProxy, TypeOK, NoPacket
  <1>4. Upstream' \subseteq Upstream
    BY <1>3 DEF Upstream
  <1>5. Below({h}, InProxy')
    BY <1>2 DEF InProxy
  <1>6. FrontOrdered'
    BY <1>0, <1>1, <1>2, <1>3, <1>4, <1>5 DEF FrontOrdered, Below
  <1>7. \A t \in TargetSet : TargetOrdered(t)'
    BY <1>0, <1>1, <1>4, TargetsKeepOrder DEF PendingFor, OwedTo
  <1> QED
    BY <1>0, <1>6, <1>7 DEF OInv

\* The parser sends its packet on, drops it or leaves with it.
LEMMA ParserSendOrder == OInv /\ (ParserForward \/ ParserExit) => OInv'
  <1> SUFFICES ASSUME OInv, ParserForward \/ ParserExit PROVE OInv'
    OBVIOUS
  <1>0. IInv' /\ TypeOK /\ FrontOrdered /\ \A t \in TargetSet : TargetOrdered(t)
    BY ParserSendStep DEF OInv, IInv
  <1>1. /\ UNCHANGED <<flows, lheld, proxyChan, workerChan, rpc, rheld, rnext, workerVars>>
        /\ pheld' = NoPacket
        /\ \/ dataChan' = dataChan
           \/ ppc = "send" /\ dataChan' = Append(dataChan, pheld)
    BY DEF ParserForward, ParserExit, parserRest, listenerVars, netVars, replVars, workerVars
  <1>2. InListener' = InListener /\ InProxy' = InProxy /\ InParser' = {}
    BY <1>1 DEF InListener, InProxy, InParser
  <1>3. InData' \subseteq InData \cup InParser /\ Increasing(dataChan')
    <2>1. CASE dataChan' = dataChan
      BY <1>0, <2>1 DEF InData, FrontOrdered
    <2>2. CASE ppc = "send" /\ dataChan' = Append(dataChan, pheld)
      <3>1. pheld \in 1..arrived /\ InParser = {pheld}
        BY <1>0, <2>2 DEF TypeOK, InParser, NoPacket
      <3>2. Below(InSeq(dataChan), {pheld}) /\ Increasing(dataChan)
        BY <1>0, <3>1 DEF FrontOrdered, InData, Below
      <3>3. dataChan \in Seq(1..arrived) /\ arrived \in Nat
        BY <1>0, OrderTypes
      <3>4. Increasing(Append(dataChan, pheld))
        BY <3>1, <3>2, <3>3, OrderedChannel
      <3>5. InSeq(Append(dataChan, pheld)) = InSeq(dataChan) \cup {pheld}
        BY <3>1, <3>3, SentSet
      <3> QED
        BY <2>2, <3>1, <3>4, <3>5 DEF InData
    <2> QED
      BY <1>1, <2>1, <2>2
  <1>4. Upstream' \subseteq Upstream
    BY <1>2, <1>3 DEF Upstream
  <1>5. FrontOrdered'
    BY <1>0, <1>1, <1>2, <1>3, <1>4 DEF FrontOrdered, Below
  <1>6. \A t \in TargetSet : TargetOrdered(t)'
    BY <1>0, <1>1, <1>4, TargetsKeepOrder DEF PendingFor, OwedTo
  <1> QED
    BY <1>0, <1>5, <1>6 DEF OInv

\* The replicator takes the oldest packet and owes it to every target.
LEMMA ReplTakeOrder == OInv /\ ReplTake => OInv'
  <1> SUFFICES ASSUME OInv, ReplTake PROVE OInv'
    OBVIOUS
  <1> DEFINE h == Head(dataChan)
  <1>0. IInv' /\ TypeOK /\ FrontOrdered /\ \A t \in TargetSet : TargetOrdered(t)
    BY ReplTakeStep DEF OInv, IInv
  <1>1. /\ UNCHANGED <<flows, lheld, pheld, proxyChan, workerChan, workerVars>>
        /\ dataChan # <<>> /\ dataChan' = Tail(dataChan) /\ rheld' = h
    BY DEF ReplTake, replRest, listenerVars, netVars, parserVars, workerVars
  <1>2. /\ h \in 1..arrived /\ InSeq(dataChan) = InSeq(dataChan') \cup {h}
        /\ Increasing(dataChan') /\ Below({h}, InSeq(dataChan'))
    <2>1. dataChan \in Seq(1..arrived) /\ arrived \in Nat /\ Increasing(dataChan)
      BY <1>0, OrderTypes DEF FrontOrdered
    <2>2. h \in 1..arrived /\ InSeq(dataChan) = InSeq(Tail(dataChan)) \cup {h}
      BY <1>1, <2>1, ChannelSets
    <2>3. Increasing(Tail(dataChan)) /\ Below({h}, InSeq(Tail(dataChan)))
      BY <1>1, <2>1, OrderedChannel
    <2> QED
      BY <1>1, <2>2, <2>3
  <1> HIDE DEF h
  <1>3. /\ InListener' = InListener /\ InProxy' = InProxy /\ InParser' = InParser
        /\ InData = InData' \cup {h} /\ Below({h}, InData')
    BY <1>1, <1>2 DEF InListener, InData, InParser, InProxy
  <1>4. Upstream' \subseteq Upstream /\ h \in Upstream
    BY <1>3 DEF Upstream
  <1>5. Below({h}, Upstream') /\ h \in flows
    BY <1>0, <1>3 DEF FrontOrdered, Below, Upstream
  <1>6. FrontOrdered'
    BY <1>0, <1>1, <1>2, <1>3, <1>5 DEF FrontOrdered, Below
  <1>7. \A t \in TargetSet : TargetOrdered(t)'
    BY <1>0, <1>1, <1>4, TargetsKeepOrder DEF PendingFor
  <1> QED
    BY <1>0, <1>6, <1>7 DEF OInv

\* A target gets the packet it was owed behind all it got before.
LEMMA ReplOfferOrder == OInv /\ (ReplSend \/ ReplDrop \/ ReplExit) => OInv'
  <1> SUFFICES ASSUME OInv, ReplSend \/ ReplDrop \/ ReplExit PROVE OInv'
    OBVIOUS
  <1>0. IInv' /\ TypeOK /\ FrontOrdered /\ \A t \in TargetSet : TargetOrdered(t)
    BY ReplOfferStep DEF OInv, IInv
  <1>9. PICK u \in TargetSet : u = Targets[rnext]
    BY <1>0, TargetsFacts DEF TypeOK, TargetSet
  <1>1. UNCHANGED <<flows, lheld, pheld, proxyChan, dataChan, workerVars>>
    BY DEF ReplSend, ReplDrop, ReplExit, replRest, listenerVars, netVars, parserVars, workerVars
  <1>2. rpc' = "fanout" => rheld' = rheld /\ rpc = "fanout"
    BY DEF ReplSend, ReplDrop, ReplExit, NextTarget
  <1>3. \A t \in TargetSet : OwedTo(t)' => OwedTo(t) /\ (ReplSend => t # u)
    BY <1>0, <1>9, NextOwed DEF ReplSend, ReplDrop, ReplExit, OwedTo
  <1>4. /\ InListener' = InListener /\ InProxy' = InProxy /\ InParser' = InParser
        /\ InData' = InData /\ Upstream' = Upstream
    BY <1>1 DEF InListener, InData, InParser, InProxy, Upstream
  <1>5. FrontOrdered'
    BY <1>0, <1>1, <1>2, <1>4 DEF FrontOrdered
  <1>6. \A t \in TargetSet : PendingFor(t)' \subseteq PendingFor(t)
    BY <1>2, <1>3 DEF PendingFor, OwedTo
  <1>7. CASE workerChan' = workerChan
    <2>1. \A t \in TargetSet : TargetOrdered(t)'
      BY <1>0, <1>1, <1>4, <1>6, <1>7, TargetsKeepOrder
    <2> QED
      BY <1>0, <1>5, <2>1 DEF OInv
  <1>8. CASE ReplSend
    <2>1. /\ u \in TargetSet /\ OwedTo(u) /\ rpc = "fanout"
          /\ workerChan' = [workerChan EXCEPT ![u] = Append(workerChan[u], rheld)]
      BY <1>0, <1>8, <1>9, NextOwed DEF ReplSend
    <2>2. /\ workerChan[u] \in Seq(1..arrived) /\ rheld \in 1..arrived /\ arrived \in Nat
          /\ rheld \in flows /\ Below({rheld}, Upstream)
      BY <1>0, <2>1, OrderTypes DEF FrontOrdered
    <2>3. ASSUME NEW t \in TargetSet, t # u PROVE TargetOrdered(t)'
      <3>1. workerChan'[t] = workerChan[t]
        BY <1>0, <2>1, <2>3 DEF TypeOK
      <3>0. Taken(t)' = Taken(t) /\ (SendsInOrder(t) => SendsInOrder(t)')
        BY <1>1 DEF Taken, SendsInOrder, workerVars
      <3>2. TargetOrdered(t) /\ PendingFor(t)' \subseteq PendingFor(t)
        BY <1>0, <1>6
      <3> QED
        BY <1>1, <1>4, <3>0, <3>1, <3>2 DEF TargetOrdered, Below
    <2>4. TargetOrdered(u)'
      <3>0. Taken(u)' = Taken(u) /\ (SendsInOrder(u) => SendsInOrder(u)')
        BY <1>1 DEF Taken, SendsInOrder, workerVars
      <3>1. TargetOrdered(u) /\ PendingFor(u) = {rheld} /\ PendingFor(u)' = {}
        BY <1>0, <1>3, <1>8, <2>1 DEF PendingFor
      <3>2. workerChan'[u] = Append(workerChan[u], rheld)
        BY <1>0, <2>1 DEF TypeOK
      <3>3. /\ Increasing(workerChan[u]) /\ InSeq(workerChan[u]) \subseteq flows
            /\ Below(InSeq(Taken(u)), InSeq(workerChan[u]))
            /\ Below(InSeq(Taken(u)) \cup InSeq(workerChan[u]), {rheld} \cup Upstream)
        BY <3>1 DEF TargetOrdered
      <3>4. Below(InSeq(workerChan[u]), {rheld})
        BY <3>3 DEF Below
      <3>5. Increasing(Append(workerChan[u], rheld))
        BY <2>2, <3>3, <3>4, OrderedChannel
      <3>6. InSeq(Append(workerChan[u], rheld)) = InSeq(workerChan[u]) \cup {rheld}
        BY <2>2, SentSet
      <3>7. /\ Below(InSeq(Taken(u)), InSeq(workerChan[u]) \cup {rheld})
            /\ Below(InSeq(Taken(u)) \cup (InSeq(workerChan[u]) \cup {rheld}), {} \cup Upstream)
        BY <2>2, <3>3 DEF Below
      <3>8. InSeq(workerChan[u]) \cup {rheld} \subseteq flows
        BY <2>2, <3>3
      <3> QED
        BY <1>1, <1>4, <3>0, <3>1, <3>2, <3>5, <3>6, <3>7, <3>8 DEF TargetOrdered
    <2> QED
      BY <1>0, <1>5, <2>3, <2>4 DEF OInv
  <1> QED
    BY <1>7, <1>8 DEF ReplDrop, ReplExit

\* A worker sends its packets in the order of its channel.
LEMMA WorkerOrder ==
    ASSUME OInv, NEW t \in TargetSet, WorkerNext(t)
    PROVE  OInv'
  <1> DEFINE h == Head(workerChan[t])
  <1>0. IInv' /\ TypeOK /\ FrontOrdered /\ \A x \in TargetSet : TargetOrdered(x)
    BY WorkerStep DEF OInv, IInv
  <1>1. UNCHANGED <<flows, lheld, pheld, proxyChan, dataChan, rpc, rheld, rnext>>
    BY <1>0, WorkerMoves DEF workerRest, listenerVars, netVars, parserVars, replVars
  <1>2. /\ Upstream' = Upstream /\ InListener' = InListener /\ InProxy' = InProxy
        /\ InParser' = InParser /\ InData' = InData
        /\ \A x \in TargetSet : PendingFor(x)' = PendingFor(x)
    BY <1>1 DEF InListener, InData, InParser, InProxy, Upstream, PendingFor, OwedTo
  <1>3. FrontOrdered'
    BY <1>0, <1>1, <1>2 DEF FrontOrdered
  <1>4. \A x \in TargetSet : x # t => TargetOrdered(x)'
    <2> SUFFICES ASSUME NEW x \in TargetSet, x # t PROVE TargetOrdered(x)'
      OBVIOUS
    <2>1. Taken(x)' = Taken(x) /\ workerChan'[x] = workerChan[x]
      BY <1>0, WorkerMoves
    <2>2. tpc'[x] = tpc[x] /\ whold'[x] = whold[x] /\ sent'[x] = sent[x]
      BY <1>0 DEF TypeOK, WorkerNext, WorkerBind, WorkerTake, WorkerSend, WorkerExit, WorkerFails
    <2>3. TargetOrdered(x)
      BY <1>0
    <2>4. SendsInOrder(x)'
      BY <1>1, <2>2, <2>3 DEF TargetOrdered, SendsInOrder
    <2> QED
      BY <1>1, <1>2, <2>1, <2>3, <2>4 DEF TargetOrdered
  <1>5. /\ workerChan[t] \in Seq(1..arrived) /\ Taken(t) \in Seq(1..arrived) /\ arrived \in Nat
        /\ TargetOrdered(t)
    BY <1>0, OrderTypes
  <1>6. CASE WorkerTake(t)
    <2>1. /\ workerChan[t] # <<>> /\ workerChan'[t] = Tail(workerChan[t])
          /\ tpc'[t] = "send" /\ sent'[t] = sent[t] /\ whold'[t] = h
          /\ Taken(t) = sent[t] /\ Taken(t)' = Append(Taken(t), h)
      BY <1>0, <1>6 DEF TypeOK, WorkerTake, Taken
    <2>2. h \in 1..arrived /\ InSeq(workerChan[t]) = InSeq(Tail(workerChan[t])) \cup {h}
      BY <1>5, <2>1, ChannelSets
    <2>3. Increasing(Tail(workerChan[t])) /\ Below({h}, InSeq(Tail(workerChan[t])))
      <3>1. Increasing(workerChan[t])
        BY <1>5 DEF TargetOrdered
      <3> QED
        BY <1>5, <2>1, <3>1, OrderedChannel
    <2> HIDE DEF h
    <2>4. InSeq(Taken(t)') = InSeq(Taken(t)) \cup {h}
      BY <1>5, <2>1, <2>2, SentSet
    <2>5. SendsInOrder(t)'
      BY <1>1, <1>5, <2>1, <2>2 DEF TargetOrdered, SendsInOrder, Below
    <2> QED
      <3>1. TargetOrdered(t)'
        BY <1>1, <1>2, <1>5, <2>1, <2>2, <2>3, <2>4, <2>5 DEF TargetOrdered, Below
      <3> QED
        BY <1>0, <1>3, <1>4, <3>1 DEF OInv
  <1>7. CASE WorkerBind(t) \/ WorkerSend(t) \/ WorkerExit(t)
    <2>1. workerChan'[t] = workerChan[t] /\ tpc'[t] # "send"
      BY <1>0, <1>7 DEF TypeOK, WorkerBind, WorkerSend, WorkerExit, WorkerFails
    <2>2. InSeq(Taken(t)') \subseteq InSeq(Taken(t))
      <3>1. Taken(t)' = Taken(t) \/ (Taken(t)' = sent[t] /\ tpc[t] = "send")
        BY <1>0, <1>7
           DEF TypeOK, WorkerBind, WorkerSend, WorkerExit, WorkerFails, Taken
      <3>2. ASSUME tpc[t] = "send" PROVE InSeq(Taken(t)) = InSeq(sent[t]) \cup {whold[t]}
        BY <1>0, <3>2, TakenType, SentSet DEF Taken
      <3> QED
        BY <3>1, <3>2
    <2>3. SendsInOrder(t)'
      BY <2>1 DEF SendsInOrder
    <2> QED
      <3>1. TargetOrdered(t)'
        BY <1>1, <1>2, <1>5, <2>1, <2>2, <2>3 DEF TargetOrdered, Below
      <3> QED
        BY <1>0, <1>3, <1>4, <3>1 DEF OInv
  <1> QED
    BY <1>6, <1>7 DEF WorkerNext

\* A step that moves no packet keeps the order.
LEMMA QuietOrder ==
    ASSUME OInv, IInv', UNCHANGED <<netVars, chans, pheld, lheld, replVars, workerVars>>
    PROVE  OInv'
  <1>1. /\ Upstream' = Upstream /\ InListener' = InListener /\ InProxy' = InProxy
        /\ InParser' = InParser /\ InData' = InData
        /\ UNCHANGED <<flows, workerChan, proxyChan, dataChan, rpc, rheld, workerVars>>
        /\ \A x \in TargetSet : PendingFor(x)' = PendingFor(x)
    BY DEF InListener, InData, InParser, InProxy, Upstream, PendingFor, OwedTo, chans, replVars, netVars
  <1>2. FrontOrdered'
    BY <1>1 DEF OInv, FrontOrdered
  <1>3. \A x \in TargetSet : TargetOrdered(x)'
    BY <1>1 DEF OInv, TargetOrdered, SendsInOrder, Taken, workerVars
  <1> QED
    BY <1>2, <1>3 DEF OInv

\* The order holds when the proxy starts.
LEMMA OInvInit == Init => OInv
  <1> SUFFICES ASSUME Init PROVE OInv
    OBVIOUS
  <1> USE DEF Init, NetInit, ListenerInit
  <1>1. Increasing(<<>>) /\ InSeq(<<>>) = {}
    BY DEF Increasing, InSeq
  <1>2. /\ Upstream = {} /\ InData = {} /\ InParser = {} /\ InProxy = {} /\ InListener = {}
        /\ \A t \in TargetSet :
             workerChan[t] = <<>> /\ tpc[t] = "bind" /\ sent[t] = <<>> /\ Taken(t) = <<>>
    BY <1>1 DEF Upstream, InData, InParser, InProxy, InListener, Taken
  <1>3. FrontOrdered
    BY <1>1, <1>2 DEF FrontOrdered, Below
  <1>4. \A t \in TargetSet : TargetOrdered(t)
    BY <1>1, <1>2 DEF TargetOrdered, SendsInOrder, Below
  <1> QED
    BY <1>3, <1>4, IInvInit DEF OInv

\* The order is kept by every step, one case per goroutine.
LEMMA OInvStep == OInv /\ [Next]_vars => OInv'
  <1> SUFFICES ASSUME OInv, [Next]_vars PROVE OInv'
    OBVIOUS
  <1>0. IInv' /\ TypeOK
    BY IInvStep DEF OInv, IInv
  <1>1. CASE ListenerOnly
    <2>1. /\ UNCHANGED <<netVars, chans, parserVars, replVars, workerVars>>
          /\ lheld' = lheld \/ (lheld' = NoPacket /\ lpc # "deliver")
      BY <1>1
         DEF ListenerOnly, ListenerAlone, ListenerStep, ListenerProgress, Wakeup, ListenerBind,
             ListenerCheck, ListenerArm, ReadWoken, ReadTimeout, AfterTimeout,
             ReadError, ListenerReturns, ListenerFails
    <2>2. lheld' = lheld
      BY <1>0, <2>1 DEF TypeOK, ListenerTypeOK
    <2> QED
      BY <1>0, <2>1, <2>2, QuietOrder DEF parserVars, workerVars
  <1>2. CASE PrinterExit \/ Cancel \/ UNCHANGED vars
    <2>1. UNCHANGED <<netVars, chans, pheld, lheld, replVars, workerVars>>
      BY <1>2 DEF PrinterExit, Cancel, vars, workerRest, listenerVars, chans, parserVars
    <2> QED
      BY <1>0, <2>1, QuietOrder
  <1>3. CASE ReceivePacket \/ Deliver
    BY <1>3, ReceiveOrder, DeliverOrder
  <1>4. CASE ParserNext
    BY <1>4, ParserTakeOrder, ParserSendOrder DEF ParserNext
  <1>5. CASE ReplNext
    BY <1>5, ReplTakeOrder, ReplOfferOrder DEF ReplNext
  <1>6. CASE \E t \in TargetSet : WorkerNext(t)
    BY <1>6, WorkerOrder
  <1> QED
    BY <1>1, <1>2, <1>3, <1>4, <1>5, <1>6 DEF Next, ListenerNext

\* The packets keep their order in every state of every run of the proxy.
THEOREM OrderInvariance == Spec => []OInv
  BY OInvInit, OInvStep, PTL DEF Spec

-----------------------------------------------------------------------------
(* The proxy is the lossy relay. *)

\* Every step is an arrival, a packet relayed to one target, or neither.
LEMMA StepRelays == OInv /\ [Next]_vars => [Relay!Next]_(Relay!vars)
  <1> SUFFICES ASSUME OInv, [Next]_vars, ~UNCHANGED <<flows, sent>> PROVE Relay!Next
    BY DEF Relay!vars
  <1>0. TypeOK /\ \A t \in TargetSet : TargetOrdered(t)
    BY DEF OInv, IInv
  <1>1. CASE ReceivePacket
    <2>1. flows' = flows \cup {arrived + 1} /\ sent' = sent
      BY <1>1 DEF ReceivePacket, Receive, workerVars
    <2>2. \A q \in flows : q < arrived + 1
      BY <1>0, OrderTypes
    <2>3. Relay!Arrive
      BY <2>1, <2>2 DEF Relay!Arrive
    <2> QED
      BY <2>3 DEF Relay!Next
  <1>2. ASSUME NEW t \in TargetSet, WorkerSend(t) PROVE Relay!Next
    <2>1. /\ tpc[t] = "send" /\ flows' = flows
          /\ sent' = [sent EXCEPT ![t] = Append(sent[t], whold[t])]
      BY <1>2 DEF WorkerSend, workerRest, netVars
    <2>2. whold[t] \in flows /\ \A x \in InSeq(sent[t]) : x < whold[t]
      BY <1>0, <2>1 DEF TargetOrdered, SendsInOrder, Below
    <2>3. \A i \in DOMAIN sent[t] : sent[t][i] < whold[t]
      BY <2>2 DEF InSeq
    <2>4. Relay!Relay(t, whold[t])
      BY <2>1, <2>2, <2>3 DEF Relay!Relay
    <2> QED
      BY <2>2, <2>4 DEF Relay!Next
  <1>3. CASE ~ReceivePacket /\ \A t \in TargetSet : ~WorkerSend(t)
    BY <1>3 DEF Next, ListenerNext, ListenerOnly, ListenerAlone, Deliver, ParserNext, ParserTake,
           ParserForward, ParserExit, parserRest, ReplNext, ReplTake, ReplSend, ReplDrop, ReplExit,
           replRest, WorkerNext, WorkerBind, WorkerTake, WorkerExit, workerRest, PrinterExit, Cancel,
           vars, netVars, workerVars
  <1> QED
    BY <1>1, <1>2, <1>3

\* The proxy implements the lossy relay: each target is sent valid packets only,
\* each at most once and in arrival order (Proxy.ImplementsRelay).
THEOREM ProxyImplementsRelay == Spec => ImplementsRelay
  <1>1. Init => Relay!Init
    BY DEF Init, NetInit, Relay!Init
  <1> QED
    BY <1>1, OrderInvariance, StepRelays, PTL DEF Spec, ImplementsRelay, Relay!Spec
=============================================================================
