--------------------------- MODULE Record_proofs ---------------------------
(***************************************************************************)
(* Proofs about Record, for every capacity, key space and number of        *)
(* packets.                                                                *)
(***************************************************************************)
EXTENDS Record, TLAPS

USE CapAssumption, MaxKeyAssumption, MaxPacketsAssumption

\* A sequence of packets that have arrived stays one when more arrive.
LEMMA SeqWiden ==
    ASSUME NEW m \in Nat, NEW n \in Nat, m <= n, NEW s \in Seq(1..m)
    PROVE  s \in Seq(1..n)
  <1>1. s \in [1..Len(s) -> 1..m] /\ Len(s) \in Nat
    OBVIOUS
  <1>2. s \in [1..Len(s) -> 1..n]
    BY <1>1
  <1> QED
    BY <1>2

\* Sending into a buffered channel with room, and receiving from it.
LEMMA SendReceive ==
    ASSUME NEW S, NEW s \in Seq(S), NEW cap \in Nat, Len(s) <= cap
    PROVE  /\ \A e \in S : Room(s, cap) =>
                /\ Append(s, e) \in Seq(S)
                /\ Len(Append(s, e)) <= cap
           /\ s # <<>> =>
                /\ Head(s) \in S
                /\ Tail(s) \in Seq(S)
                /\ Len(Tail(s)) <= cap
  BY DEF Room

\* The keys 1..n have n as their last.
LEMMA LastKeyOfInterval ==
    ASSUME NEW n \in Nat \ {0}
    PROVE  LastKey(1..n) = n
  <1>1. n \in 1..n /\ \A j \in 1..n : j <= n
    OBVIOUS
  <1>2. \A k \in 1..n : (\A j \in 1..n : j <= k) => k = n
    BY <1>1
  <1> QED
    BY <1>1, <1>2 DEF LastKey

\* A process that has just called RunCtx for the first time is well typed.
LEMMA InitTypeOK == Init => TypeOK
  <1> SUFFICES ASSUME Init PROVE TypeOK
    OBVIOUS
  <1> USE DEF Init, SessionInit, NetInit, NoPacket
  <1>1. GroupTypeOK
    BY DEF GroupInit, GroupTypeOK
  <1>2. ListenerTypeOK
    BY DEF ListenerInit, ListenerTypeOK
  <1>3. PipeTypeOK
    BY DEF PipeTypeOK
  <1>4. StoreTypeOK
    BY DEF StoreTypeOK
  <1> QED
    BY <1>1, <1>2, <1>3, <1>4 DEF TypeOK

\* The errgroup's operations keep its state well typed.
LEMMA GroupStep ==
    ASSUME GroupTypeOK,
           \/ \E g \in Goroutines : Return(g) \/ Fail(g)
           \/ ParentCancel
           \/ UNCHANGED groupVars
    PROVE  GroupTypeOK'
  BY DEF GroupTypeOK, Return, Fail, ParentCancel, groupVars

\* The writer, if it runs, will write the first free key.
WriterAtEnd == wpc = "select" => DOMAIN db = 1..(nextID - 1)

\* The inductive invariant.
IInv == TypeOK /\ KeysContiguous /\ WriterAtEnd

\* Binding, checking, arming, waking and failing reads keep the types.
LEMMA ListenerOnlyType == TypeOK /\ ListenerOnly => TypeOK'
  <1> SUFFICES ASSUME TypeOK, ListenerOnly PROVE TypeOK'
    OBVIOUS
  <1> "listener" \in Goroutines
    BY DEF Goroutines
  <1>1. PipeTypeOK' /\ StoreTypeOK'
    BY DEF TypeOK, ListenerOnly, ListenerAlone, PipeTypeOK, StoreTypeOK, netVars
  <1> USE DEF TypeOK, ListenerTypeOK, netVars, listenerVars, ListenerOnly, ListenerAlone, NoPacket
  <1>2. CASE Wakeup
    BY <1>1, <1>2, GroupStep DEF Wakeup
  <1>3. CASE ListenerBind
    BY <1>1, <1>3, GroupStep DEF ListenerBind, ListenerFails
  <1>4. CASE ListenerCheck
    BY <1>1, <1>4, GroupStep DEF ListenerCheck, ListenerReturns
  <1>5. CASE ListenerArm
    BY <1>1, <1>5, GroupStep DEF ListenerArm
  <1>6. CASE ReadWoken \/ ReadTimeout
    BY <1>1, <1>6, GroupStep DEF ReadWoken, ReadTimeout, AfterTimeout, ListenerReturns
  <1>7. CASE ReadError
    BY <1>1, <1>7, GroupStep DEF ReadError, ListenerReturns, ListenerFails
  <1> QED
    BY <1>2, <1>3, <1>4, <1>5, <1>6, <1>7 DEF ListenerStep, ListenerProgress

\* A packet that arrives widens 1..arrived and keeps everything in it.
LEMMA ReceiveType == TypeOK /\ ReceivePacket => TypeOK'
  <1> SUFFICES ASSUME TypeOK, ReceivePacket PROVE TypeOK'
    OBVIOUS
  <1> USE DEF ReceivePacket, Receive, TypeOK
  <1>1. arrived \in Nat /\ arrived' = arrived + 1 /\ arrived' \in 0..MaxPackets
    BY DEF ListenerTypeOK
  <1>2. GroupTypeOK'
    BY GroupStep
  <1>3. ListenerTypeOK'
    BY <1>1 DEF ListenerTypeOK
  <1>4. PipeTypeOK'
    <2>1. parseChan' \in Seq(1..arrived') /\ dataChan' \in Seq(1..arrived')
      BY <1>1, SeqWiden DEF PipeTypeOK
    <2> QED
      BY <1>1, <2>1 DEF PipeTypeOK
  <1>5. StoreTypeOK'
    BY <1>1 DEF StoreTypeOK
  <1> QED
    BY <1>2, <1>3, <1>4, <1>5

\* Handing a packet to parseChan, or leaving, keeps the types.
LEMMA DeliverType == TypeOK /\ Deliver => TypeOK'
  <1> SUFFICES ASSUME TypeOK, Deliver PROVE TypeOK'
    OBVIOUS
  <1> "listener" \in Goroutines
    BY DEF Goroutines
  <1> USE DEF Deliver, TypeOK, netVars, ListenerReturns, NoPacket
  <1>1. GroupTypeOK'
    BY GroupStep
  <1>2. ListenerTypeOK'
    BY DEF ListenerTypeOK
  <1>3. PipeTypeOK'
    <2>1. lheld \in 1..arrived
      BY DEF ListenerTypeOK
    <2> QED
      BY <2>1, SendReceive DEF PipeTypeOK
  <1>4. StoreTypeOK'
    BY DEF StoreTypeOK
  <1> QED
    BY <1>1, <1>2, <1>3, <1>4

\* Validating, forwarding and leaving keep the types.
LEMMA ParserType == TypeOK /\ ParserNext => TypeOK'
  <1> SUFFICES ASSUME TypeOK, ParserNext PROVE TypeOK'
    OBVIOUS
  <1> "parser" \in Goroutines
    BY DEF Goroutines
  <1> USE DEF ParserNext, ParserTake, ParserSend, ParserExit, TypeOK, netVars,
              listenerVars, NoPacket
  <1>1. GroupTypeOK'
    BY GroupStep
  <1>2. ListenerTypeOK'
    BY DEF ListenerTypeOK
  <1>3. PipeTypeOK'
    <2> USE DEF PipeTypeOK, ListenerTypeOK
    <2>1. CASE ParserTake
      BY <2>1, SendReceive
    <2>2. CASE ParserSend
      <3>1. pheld \in 1..arrived
        BY <2>2
      <3> QED
        BY <2>2, <3>1, SendReceive
    <2>3. CASE ParserExit
      BY <2>3
    <2> QED
      BY <2>1, <2>2, <2>3
  <1>4. StoreTypeOK'
    BY DEF StoreTypeOK
  <1> QED
    BY <1>1, <1>2, <1>3, <1>4

\* Everything but the writer leaves the database and the writer alone.
LEMMA OthersKeepStore ==
    ListenerNext \/ ParserNext \/ Cancel \/ UNCHANGED vars
        => UNCHANGED <<db, wpc, nextID>>
  BY DEF ListenerNext, ListenerOnly, ListenerAlone, ReceivePacket, Deliver, ParserNext,
         ParserTake, ParserSend, ParserExit, Cancel, vars

\* Opening the database resumes one past its last key (nextRecordID).
LEMMA WriterOpenStep == IInv /\ WriterOpen => IInv'
  <1> SUFFICES ASSUME IInv, WriterOpen PROVE IInv'
    OBVIOUS
  <1> "writer" \in Goroutines
    BY DEF Goroutines
  <1> USE DEF IInv, TypeOK, WriterOpen, WriterFails, writerRest, netVars, listenerVars
  <1>1. PICK n \in 0..MaxKey : DOMAIN db = 1..n
    BY DEF KeysContiguous
  <1>2. CASE WriterFails
    BY <1>2, GroupStep DEF ListenerTypeOK, PipeTypeOK, StoreTypeOK, KeysContiguous, WriterAtEnd
  <1>3. CASE ~KeysExhausted /\ nextID' = NextRecordID(DOMAIN db) /\ wpc' = "select"
             /\ UNCHANGED groupVars
    <2>1. n < MaxKey
      BY <1>1, <1>3 DEF KeysExhausted
    <2>2. nextID' = n + 1
      <3>1. CASE n = 0
        BY <1>1, <1>3, <3>1 DEF NextRecordID
      <3>2. CASE n # 0
        BY <1>1, <1>3, <3>2, LastKeyOfInterval DEF NextRecordID
      <3> QED
        BY <3>1, <3>2
    <2>3. StoreTypeOK'
      BY <1>3, <2>1, <2>2 DEF StoreTypeOK
    <2>4. WriterAtEnd' /\ KeysContiguous'
      BY <1>1, <2>2 DEF WriterAtEnd, KeysContiguous
    <2> QED
      BY <1>3, <2>3, <2>4, GroupStep DEF ListenerTypeOK, PipeTypeOK
  <1> QED
    BY <1>2, <1>3

\* Storing extends the keys by exactly the next one; a failed write ends
\* the writer and the last key is followed by none.
LEMMA WriterStoreStep == IInv /\ WriterStore => IInv'
  <1> SUFFICES ASSUME IInv, WriterStore PROVE IInv'
    OBVIOUS
  <1> "writer" \in Goroutines
    BY DEF Goroutines
  <1> USE DEF IInv, TypeOK, WriterStore, WriterFails, writerRest, netVars, listenerVars
  <1>1. DOMAIN db = 1..(nextID - 1) /\ nextID \in 1..MaxKey
    BY DEF WriterAtEnd, StoreTypeOK
  <1>2. ListenerTypeOK'
    BY DEF ListenerTypeOK
  <1>3. GroupTypeOK'
    BY GroupStep DEF AfterWrite
  <1>4. PipeTypeOK' /\ Head(dataChan) \in 1..arrived
    BY SendReceive DEF PipeTypeOK
  <1>5. CASE db' = Put(nextID, Head(dataChan)) /\ AfterWrite
    <2>1. DOMAIN db' = 1..nextID
      BY <1>1, <1>5 DEF Put
    <2>2. StoreTypeOK'
      BY <1>4, <1>5, <2>1 DEF StoreTypeOK, Put, AfterWrite
    <2>3. WriterAtEnd' /\ KeysContiguous'
      BY <1>1, <1>5, <2>1 DEF WriterAtEnd, KeysContiguous, AfterWrite
    <2> QED
      BY <1>2, <1>3, <1>4, <2>2, <2>3
  <1>6. CASE WriterFails /\ UNCHANGED db
    BY <1>2, <1>3, <1>4, <1>6 DEF StoreTypeOK, WriterAtEnd, KeysContiguous
  <1> QED
    BY <1>5, <1>6

\* Leaving touches neither the database nor the next key.
LEMMA WriterExitStep == IInv /\ WriterExit => IInv'
  <1> SUFFICES ASSUME IInv, WriterExit PROVE IInv'
    OBVIOUS
  <1> "writer" \in Goroutines
    BY DEF Goroutines
  <1> USE DEF IInv, TypeOK, WriterExit, writerRest, netVars, listenerVars
  <1> QED
    BY GroupStep DEF ListenerTypeOK, PipeTypeOK, StoreTypeOK, KeysContiguous, WriterAtEnd

\* A crash or a new run keeps the database and forgets the writer's key.
LEMMA RestartStep == IInv /\ Restart => IInv'
  <1> SUFFICES ASSUME IInv, Restart PROVE IInv'
    OBVIOUS
  <1> USE DEF IInv, TypeOK, Restart, netVars, NoPacket
  <1>1. GroupTypeOK'
    BY DEF GroupTypeOK
  <1>2. ListenerTypeOK'
    BY DEF ListenerTypeOK
  <1>3. PipeTypeOK'
    BY DEF PipeTypeOK, ListenerTypeOK
  <1>4. StoreTypeOK'
    BY DEF StoreTypeOK, ListenerTypeOK
  <1> QED
    BY <1>1, <1>2, <1>3, <1>4 DEF KeysContiguous, WriterAtEnd

\* The inductive invariant holds initially.
LEMMA IInvInit == Init => IInv
  BY InitTypeOK DEF IInv, Init, SessionInit, KeysContiguous, WriterAtEnd

\* The inductive invariant is preserved by every step, one case per goroutine.
LEMMA IInvStep == IInv /\ [Next]_vars => IInv'
  <1> SUFFICES ASSUME IInv, [Next]_vars PROVE IInv'
    OBVIOUS
  <1>1. CASE ListenerNext \/ ParserNext \/ Cancel \/ UNCHANGED vars
    <2>1. TypeOK'
      <3>1. CASE ListenerNext
        BY <3>1, ListenerOnlyType, ReceiveType, DeliverType DEF ListenerNext, IInv
      <3>2. CASE ParserNext
        BY <3>2, ParserType DEF IInv
      <3>3. CASE Cancel
        BY <3>3, GroupStep DEF Cancel, IInv, TypeOK, ListenerTypeOK, PipeTypeOK,
                               StoreTypeOK, netVars, listenerVars
      <3>4. CASE UNCHANGED vars
        BY <3>4, GroupStep DEF vars, IInv, TypeOK, ListenerTypeOK, PipeTypeOK,
                               StoreTypeOK, netVars, listenerVars
      <3> QED
        BY <1>1, <3>1, <3>2, <3>3, <3>4
    <2>2. KeysContiguous' /\ WriterAtEnd'
      BY <1>1, OthersKeepStore DEF IInv, KeysContiguous, WriterAtEnd
    <2> QED
      BY <2>1, <2>2 DEF IInv
  <1>2. CASE WriterNext
    BY <1>2, WriterOpenStep, WriterStoreStep, WriterExitStep DEF WriterNext
  <1>3. CASE Restart
    BY <1>3, RestartStep
  <1> QED
    BY <1>1, <1>2, <1>3 DEF Next

\* The inductive invariant holds in every state of every run of the recorder.
THEOREM Invariance == Spec => []IInv
  BY IInvInit, IInvStep, PTL DEF Spec

\* Every variable of the recorder keeps its type (Record.TypeOK).
THEOREM TypeCorrect == Spec => []TypeOK
  BY Invariance, PTL DEF IInv

\* The database's keys are 1..n whatever is cancelled, fails, crashes or is
\* restarted (Record.KeysContiguous).
THEOREM KeysAreContiguous == Spec => []KeysContiguous
  BY Invariance, PTL DEF IInv

\* No committed record is overwritten or lost (Record.NeverOverwritten).
THEOREM RecordsAreNeverOverwritten == Spec => NeverOverwritten
  <1> DEFINE Kept == \A k \in DOMAIN db : k \in DOMAIN db' /\ db'[k] = db[k]
  <1>1. IInv /\ [Next]_vars => [Kept]_vars
    <2> SUFFICES ASSUME IInv, [Next]_vars PROVE Kept
      OBVIOUS
    <2>1. CASE WriterStore
      <3>1. nextID \notin DOMAIN db
        BY <2>1 DEF WriterStore, IInv, WriterAtEnd, TypeOK, StoreTypeOK
      <3> QED
        BY <2>1, <3>1 DEF WriterStore, Put
    <2>2. CASE ~WriterStore
      BY <2>2, OthersKeepStore DEF Next, WriterNext, WriterOpen, WriterExit, Restart
    <2> QED
      BY <2>1, <2>2
  <1> QED
    BY <1>1, Invariance, PTL DEF Spec, NeverOverwritten

\* No stage leaves the others running on a live context, and the context ends
\* only for a reported error or by the caller (Record.StopsForAReason): every
\* return of nil is behind a ctx.Done(), every other way out is a Fail.
THEOREM StopsOnlyForAReason == Spec => []StopsForAReason
  <1>1. Init => StopsForAReason
    BY DEF Init, SessionInit, GroupInit, StopsForAReason
  <1>2. StopsForAReason /\ [Next]_vars => StopsForAReason'
    <2> SUFFICES ASSUME StopsForAReason, [Next]_vars PROVE StopsForAReason'
      OBVIOUS
    <2> USE DEF StopsForAReason
    <2>1. ASSUME NEW g \in Goroutines, Fail(g) PROVE StopsForAReason'
      BY <2>1 DEF Fail, Goroutines, NoErr
    <2>2. ASSUME NEW g \in Goroutines, Return(g), cancelled PROVE StopsForAReason'
      BY <2>2 DEF Return
    <2>3. ASSUME ParentCancel PROVE StopsForAReason'
      BY <2>3 DEF ParentCancel
    <2>4. ASSUME UNCHANGED groupVars PROVE StopsForAReason'
      BY <2>4 DEF groupVars
    <2> HIDE DEF StopsForAReason
    <2> "listener" \in Goroutines /\ "parser" \in Goroutines /\ "writer" \in Goroutines
      BY DEF Goroutines
    <2>5. CASE ListenerNext
      <3>1. CASE ListenerOnly
        BY <3>1, <2>1, <2>2, <2>4
           DEF ListenerOnly, ListenerStep, ListenerProgress, Wakeup, ListenerBind,
               ListenerCheck, ListenerArm, ReadWoken, ReadTimeout, AfterTimeout,
               ReadError, ListenerReturns, ListenerFails
      <3>2. CASE ReceivePacket \/ Deliver
        BY <3>2, <2>2, <2>4 DEF ReceivePacket, Receive, Deliver, ListenerReturns
      <3> QED
        BY <2>5, <3>1, <3>2 DEF ListenerNext
    <2>6. CASE ParserNext
      BY <2>6, <2>2, <2>4 DEF ParserNext, ParserTake, ParserSend, ParserExit, groupVars
    <2>7. CASE WriterNext
      BY <2>7, <2>1, <2>2, <2>4
         DEF WriterNext, WriterOpen, WriterStore, WriterExit, WriterFails, AfterWrite
    <2>8. CASE Cancel
      BY <2>8, <2>3 DEF Cancel
    <2>9. CASE Restart
      BY <2>9 DEF Restart, StopsForAReason
    <2>10. CASE UNCHANGED vars
      BY <2>10, <2>4 DEF vars
    <2> QED
      BY <2>5, <2>6, <2>7, <2>8, <2>9, <2>10 DEF Next
  <1> QED
    BY <1>1, <1>2, PTL DEF Spec


-----------------------------------------------------------------------------
(* The order of the packets in the pipeline *)

\* The packets in each part of the pipeline, from the database to the socket.
InData == InChan(dataChan)
InParser == {pheld} \ {NoPacket}
InParse == InChan(parseChan)
InListener == {lheld} \ {NoPacket}

\* Packets in arrival order, in a sequence and from one set to another.
Increasing(s) == \A i, j \in DOMAIN s : i < j => s[i] < s[j]
Below(S, T) == \A x \in S : \A y \in T : x < y

\* Packets are stored, or nearer to the database, in the order they arrived,
\* and only valid ones come past the parser.
Ordered ==
    /\ Increasing(parseChan) /\ Increasing(dataChan)
    /\ Below(Stored, InData \cup InParser \cup InParse \cup InListener)
    /\ Below(InData, InParser \cup InParse \cup InListener)
    /\ Below(InParser, InParse \cup InListener)
    /\ Below(InParse, InListener)
    /\ Stored \cup InData \cup InParser \subseteq flows

\* S holds every valid packet of this run that arrived before one of S.
Prefix(S) == \A p \in S : \A q \in flows : base < q /\ q < p => q \in S

\* What has reached a stage of the pipeline, and what is behind it, has no gaps
\* as long as the stages behind it run.
Gapless ==
    /\ Prefix(Stored)
    /\ wpc # "done" => Prefix(Stored \cup InData)
    /\ wpc # "done" /\ ppc # "done" =>
          /\ Prefix(Stored \cup InData \cup InParser)
          /\ Prefix(Stored \cup InData \cup InParser \cup InParse)
    /\ wpc # "done" /\ ppc # "done" /\ lpc # "done" =>
          \A q \in flows : base < q =>
              q \in Stored \cup InData \cup InParser \cup InParse \cup InListener

\* The inductive invariant of the order.
OInv == IInv /\ Ordered /\ Gapless

\* Every packet in the pipeline has arrived.
LEMMA AllArrived ==
    ASSUME TypeOK
    PROVE  /\ Stored \cup InData \cup InParser \cup InParse \cup InListener \subseteq 1..arrived
           /\ flows \subseteq 1..arrived /\ arrived \in Nat /\ base \in 0..arrived
  <1>1. Stored \subseteq 1..arrived /\ base \in 0..arrived
    BY DEF TypeOK, StoreTypeOK, Stored
  <1>2. InData \subseteq 1..arrived /\ InParse \subseteq 1..arrived
    <2>1. ASSUME NEW c \in Seq(1..arrived) PROVE InChan(c) \subseteq 1..arrived
      <3>1. arrived \in Nat /\ \A i \in DOMAIN c : c[i] \in 1..arrived
        BY DEF TypeOK, ListenerTypeOK
      <3> QED
        BY <3>1 DEF InChan
    <2> QED
      BY <2>1 DEF TypeOK, PipeTypeOK, InData, InParse
  <1>3. InParser \subseteq 1..arrived /\ InListener \subseteq 1..arrived
    BY DEF TypeOK, PipeTypeOK, ListenerTypeOK, InParser, InListener, NoPacket
  <1> QED
    BY <1>1, <1>2, <1>3 DEF TypeOK, ListenerTypeOK

\* The packets of a channel after a send or a receive.
LEMMA ChannelSets ==
    ASSUME NEW n \in Nat, NEW s \in Seq(1..n), Increasing(s)
    PROVE  /\ \A e \in 1..n :
                /\ InChan(Append(s, e)) = InChan(s) \cup {e}
                /\ Below(InChan(s), {e}) => Increasing(Append(s, e))
           /\ s # <<>> =>
                /\ Head(s) \in InChan(s)
                /\ InChan(Tail(s)) = InChan(s) \ {Head(s)}
                /\ Below({Head(s)}, InChan(Tail(s)))
                /\ Increasing(Tail(s))
  <1>0. Len(s) \in Nat /\ DOMAIN s = 1..Len(s) /\ \A i \in 1..Len(s) : s[i] \in 1..n
    OBVIOUS
  <1>1. ASSUME NEW e \in 1..n
        PROVE  /\ InChan(Append(s, e)) = InChan(s) \cup {e}
               /\ Below(InChan(s), {e}) => Increasing(Append(s, e))
    <2> DEFINE a == Append(s, e)
    <2>1. /\ DOMAIN a = 1..(Len(s) + 1) /\ a[Len(s) + 1] = e
          /\ \A i \in 1..Len(s) : a[i] = s[i]
          /\ \A i \in 1..(Len(s) + 1) : i \in 1..Len(s) \/ i = Len(s) + 1
      BY <1>0
    <2> HIDE DEF a
    <2>2. InChan(a) = InChan(s) \cup {e}
      BY <1>0, <2>1 DEF InChan
    <2>3. Below(InChan(s), {e}) => Increasing(a)
      BY <1>0, <2>1 DEF InChan, Below, Increasing
    <2> QED
      BY <2>2, <2>3 DEF a
  <1>2. ASSUME s # <<>>
        PROVE  /\ Head(s) \in InChan(s)
               /\ InChan(Tail(s)) = InChan(s) \ {Head(s)}
               /\ Below({Head(s)}, InChan(Tail(s)))
               /\ Increasing(Tail(s))
    <2> DEFINE t == Tail(s)
    <2>1. /\ Head(s) = s[1] /\ Len(s) >= 1 /\ DOMAIN t = 1..(Len(s) - 1)
          /\ \A i \in 1..(Len(s) - 1) : t[i] = s[i + 1] /\ i + 1 \in 1..Len(s)
      BY <1>0, <1>2
    <2> HIDE DEF t
    <2>2. /\ \A i, j \in 1..Len(s) : i < j => s[i] < s[j]
          /\ \A i \in 1..Len(s) : s[i] \in Nat
      <3>1. \A i, j \in DOMAIN s : i < j => s[i] < s[j]
        BY DEF Increasing
      <3>2. \A i \in 1..Len(s) : s[i] \in Nat
        <4> SUFFICES ASSUME NEW i \in 1..Len(s) PROVE s[i] \in Nat
          OBVIOUS
        <4>1. s[i] \in 1..n
          BY <1>0
        <4> QED
          BY <4>1
      <3>3. DOMAIN s = 1..Len(s)
        BY <1>0
      <3> HIDE <1>0
      <3> QED
        BY <3>1, <3>2, <3>3
    <2>3. InChan(t) = InChan(s) \ {s[1]} /\ Below({s[1]}, InChan(t))
      <3>1. ASSUME NEW i \in DOMAIN t PROVE t[i] \in InChan(s) /\ t[i] # s[1] /\ s[1] < t[i]
        <4>1. i + 1 \in 1..Len(s) /\ 1 \in 1..Len(s) /\ 1 < i + 1 /\ t[i] = s[i + 1]
          BY <1>0, <2>1, <3>1
        <4>2. s[1] < s[i + 1] /\ s[1] \in Nat /\ s[i + 1] \in Nat
          BY <2>2, <4>1
        <4>3. s[i + 1] \in InChan(s)
          BY <1>0, <4>1 DEF InChan
        <4> QED
          BY <4>1, <4>2, <4>3
      <3>2. ASSUME NEW j \in 1..Len(s), s[j] # s[1] PROVE s[j] \in InChan(t)
        <4>1. j - 1 \in 1..(Len(s) - 1) /\ (j - 1) + 1 = j
          BY <1>0, <2>1, <3>2
        <4>2. t[j - 1] = s[j] /\ j - 1 \in DOMAIN t
          BY <2>1, <4>1
        <4> QED
          BY <4>2 DEF InChan
      <3>3. \A x \in InChan(t) : x \in InChan(s) /\ x # s[1] /\ s[1] < x
        BY <3>1 DEF InChan
      <3>4. \A x \in InChan(s) : x # s[1] => x \in InChan(t)
        BY <1>0, <3>2 DEF InChan
      <3> QED
        BY <3>3, <3>4 DEF Below
    <2>5. Increasing(t)
      <3> SUFFICES ASSUME NEW i \in DOMAIN t, NEW j \in DOMAIN t, i < j PROVE t[i] < t[j]
        BY DEF Increasing
      <3>1. i + 1 \in 1..Len(s) /\ j + 1 \in 1..Len(s) /\ i + 1 < j + 1
        BY <1>0, <2>1
      <3>2. s[i + 1] < s[j + 1]
        BY <2>2, <3>1
      <3> QED
        BY <2>1, <3>2
    <2>6. s[1] \in InChan(s)
      BY <1>0, <2>1 DEF InChan
    <2> QED
      BY <2>1, <2>3, <2>5, <2>6 DEF t
  <1> QED
    BY <1>1, <1>2


\* Steps that move no packet; a stage may leave.
LEMMA QuietStep ==
    ASSUME Ordered, Gapless, UNCHANGED <<parseChan, dataChan, flows, base>>,
           Stored' = Stored, InParser' = InParser, InListener' = InListener,
           wpc = "done" => wpc' = "done", ppc = "done" => ppc' = "done",
           lpc = "done" => lpc' = "done"
    PROVE  Ordered' /\ Gapless'
  <1>1. InData' = InData /\ InParse' = InParse
    BY DEF InData, InParse
  <1>2. Ordered'
    BY <1>1 DEF Ordered
  <1>3. Prefix(Stored)' /\ Stored' = Stored
    BY DEF Gapless, Prefix
  <1>4. Gapless'
    BY <1>1 DEF Gapless, Prefix
  <1> QED
    BY <1>2, <1>4

\* A packet arrives behind all others.
LEMMA ReceiveOrder == OInv /\ ReceivePacket => Ordered' /\ Gapless'
  <1> SUFFICES ASSUME OInv, ReceivePacket PROVE Ordered' /\ Gapless'
    OBVIOUS
  <1>0. /\ Ordered /\ Gapless /\ TypeOK
        /\ Stored \cup InData \cup InParser \cup InParse \subseteq 1..arrived
        /\ flows \subseteq 1..arrived /\ arrived \in Nat /\ base \in 0..arrived
    BY AllArrived DEF OInv, IInv
  <1>1. /\ lheld' = arrived + 1 /\ lpc' = "deliver" /\ lpc = "read"
        /\ flows' = flows \/ flows' = flows \cup {arrived + 1}
        /\ UNCHANGED <<parseChan, dataChan, ppc, pheld, wpc, db, base>>
    BY DEF ReceivePacket, Receive
  <1>2. lheld = NoPacket /\ InListener = {} /\ InListener' = {arrived + 1}
    BY <1>0, <1>1 DEF TypeOK, ListenerTypeOK, InListener, NoPacket
  <1>3. InData' = InData /\ InParser' = InParser /\ InParse' = InParse /\ Stored' = Stored
    BY <1>1 DEF InData, InParser, InParse, Stored
  <1>4. \A x \in 1..arrived : x < arrived + 1
    BY <1>0
  <1>5. Ordered'
    BY <1>0, <1>1, <1>2, <1>3, <1>4 DEF Ordered, Below
  <1>6. \A p \in 1..arrived : \A q \in flows' : q < p => q \in flows
    BY <1>0, <1>1
  <1>7. \A q \in flows' : q \in flows \/ q = arrived + 1
    BY <1>1
  <1>8. /\ Prefix(Stored)'
        /\ wpc # "done" => Prefix(Stored \cup InData)'
    BY <1>0, <1>1, <1>3, <1>6 DEF Gapless, Prefix
  <1>9. wpc # "done" /\ ppc # "done" =>
          /\ Prefix(Stored \cup InData \cup InParser)'
          /\ Prefix(Stored \cup InData \cup InParser \cup InParse)'
    BY <1>0, <1>1, <1>3, <1>6 DEF Gapless, Prefix
  <1>10. wpc # "done" /\ ppc # "done" =>
          \A q \in flows' : base < q =>
            q \in Stored \cup InData \cup InParser \cup InParse \cup {arrived + 1}
    BY <1>0, <1>1, <1>2, <1>7 DEF Gapless
  <1>11. Gapless'
    BY <1>1, <1>2, <1>3, <1>8, <1>9, <1>10 DEF Gapless
  <1> QED
    BY <1>5, <1>11

\* The listener hands its packet on, or leaves with it.
LEMMA DeliverOrder == OInv /\ Deliver => Ordered' /\ Gapless'
  <1> SUFFICES ASSUME OInv, Deliver PROVE Ordered' /\ Gapless'
    OBVIOUS
  <1>0. /\ Ordered /\ Gapless /\ TypeOK
        /\ lheld \in 1..arrived /\ InListener = {lheld} /\ arrived \in Nat
        /\ parseChan \in Seq(1..arrived)
    BY DEF OInv, IInv, Deliver, TypeOK, ListenerTypeOK, PipeTypeOK, InListener, NoPacket
  <1>1. InListener' = {} /\ lpc # "done" /\ UNCHANGED <<flows, base, dataChan, ppc, pheld, wpc, db>>
    BY DEF Deliver, InListener, ListenerReturns, netVars
  <1>2. InData' = InData /\ InParser' = InParser /\ Stored' = Stored
    BY <1>1 DEF InData, InParser, Stored
  <1>3. CASE parseChan' = Append(parseChan, lheld) /\ lpc' = "check"
    <2>1. InParse' = InParse \cup {lheld} /\ Increasing(parseChan')
      BY <1>0, <1>3, ChannelSets DEF InParse, Ordered
    <2>2. Ordered'
      BY <1>0, <1>1, <1>2, <2>1 DEF Ordered, Below
    <2>3. Gapless'
      BY <1>0, <1>1, <1>2, <1>3, <2>1 DEF Gapless, Prefix
    <2> QED
      BY <2>2, <2>3
  <1>4. CASE parseChan' = parseChan /\ lpc' = "done"
    <2>1. InParse' = InParse
      BY <1>4 DEF InParse
    <2>2. Ordered'
      BY <1>0, <1>1, <1>2, <1>4, <2>1 DEF Ordered, Below
    <2>3. Gapless'
      BY <1>0, <1>1, <1>2, <1>4, <2>1 DEF Gapless, Prefix
    <2> QED
      BY <2>2, <2>3
  <1> QED
    BY <1>3, <1>4 DEF Deliver, ListenerReturns

\* The parser takes the oldest packet, keeps it if it is valid, sends it on, or
\* leaves.
LEMMA ParserOrder == OInv /\ ParserNext => Ordered' /\ Gapless'
  <1> SUFFICES ASSUME OInv, ParserNext PROVE Ordered' /\ Gapless'
    OBVIOUS
  <1>0. /\ Ordered /\ Gapless /\ TypeOK /\ arrived \in Nat
        /\ parseChan \in Seq(1..arrived) /\ dataChan \in Seq(1..arrived)
        /\ pheld \in 0..arrived /\ (pheld # NoPacket <=> ppc = "send")
    BY DEF OInv, IInv, TypeOK, ListenerTypeOK, PipeTypeOK
  <1>1. UNCHANGED <<flows, base, db, wpc, lpc, lheld>> /\ ppc # "done"
    BY DEF ParserNext, ParserTake, ParserSend, ParserExit, netVars, listenerVars
  <1>2. Stored' = Stored /\ InListener' = InListener
    BY <1>1 DEF Stored, InListener
  <1>3. CASE ParserTake
    <2> DEFINE h == Head(parseChan)
    <2>1. /\ ppc = "select" /\ InParser = {} /\ parseChan # <<>>
          /\ parseChan' = Tail(parseChan) /\ dataChan' = dataChan /\ InData' = InData
      BY <1>0, <1>3 DEF ParserTake, InParser, InData
    <2>2. /\ h \in InParse /\ InParse' = InParse \ {h} /\ Below({h}, InParse')
          /\ Increasing(parseChan') /\ h \in 1..arrived
      <3>1. Increasing(parseChan)
        BY <1>0 DEF Ordered
      <3>2. /\ h \in InChan(parseChan) /\ InChan(Tail(parseChan)) = InChan(parseChan) \ {h}
            /\ Below({h}, InChan(Tail(parseChan))) /\ Increasing(Tail(parseChan))
        BY <1>0, <2>1, <3>1, ChannelSets
      <3>3. h \in 1..arrived
        BY <1>0, <2>1
      <3> HIDE DEF h
      <3> QED
        BY <2>1, <3>2, <3>3 DEF InParse
    <2>3. CASE h \in flows /\ ppc' = "send" /\ pheld' = h
      <3>1. InParser' = {h}
        BY <2>2, <2>3 DEF InParser, NoPacket
      <3> HIDE DEF h
      <3>2. Ordered'
        BY <1>0, <1>1, <1>2, <2>1, <2>2, <2>3, <3>1 DEF Ordered, Below
      <3>3. \A q \in InParse : q # h => h < q
        BY <2>2 DEF Below
      <3>4. \A q \in InParse \cup InListener : q \in 1..arrived
        BY <1>0, AllArrived
      <3>5. Gapless'
        BY <1>0, <1>1, <1>2, <2>1, <2>2, <2>3, <3>1, <3>3, <3>4 DEF Gapless, Prefix
      <3> QED
        BY <3>2, <3>5
    <2>4. CASE h \notin flows /\ UNCHANGED <<ppc, pheld>>
      <3>1. InParser' = {}
        BY <2>1, <2>4 DEF InParser
      <3> HIDE DEF h
      <3>2. Ordered'
        BY <1>0, <1>1, <1>2, <2>1, <2>2, <3>1 DEF Ordered, Below
      <3>3. Gapless'
        BY <1>0, <1>1, <1>2, <2>1, <2>2, <2>4, <3>1 DEF Gapless, Prefix
      <3> QED
        BY <3>2, <3>3
    <2> QED
      BY <1>3, <2>3, <2>4 DEF ParserTake
  <1>4. CASE ParserSend
    <2>1. /\ InParser = {pheld} /\ InParser' = {} /\ parseChan' = parseChan
          /\ InParse' = InParse /\ dataChan' = Append(dataChan, pheld) /\ ppc' = "select"
          /\ pheld \in 1..arrived
      BY <1>0, <1>4 DEF ParserSend, InParser, InParse, NoPacket
    <2>2. Below(InData, {pheld})
      BY <1>0, <2>1 DEF Ordered, Below
    <2>3. InData' = InData \cup {pheld} /\ Increasing(dataChan')
      BY <1>0, <2>1, <2>2, ChannelSets DEF InData, Ordered
    <2>4. Ordered'
      BY <1>0, <1>1, <1>2, <2>1, <2>3 DEF Ordered, Below
    <2>5. Gapless'
      BY <1>0, <1>1, <1>2, <2>1, <2>3 DEF Gapless, Prefix
    <2> QED
      BY <2>4, <2>5
  <1>5. CASE ParserExit
    <2>1. /\ InParser' = {} /\ UNCHANGED <<parseChan, dataChan>> /\ ppc' = "done"
          /\ InParse' = InParse /\ InData' = InData
      BY <1>5 DEF ParserExit, InParser, InParse, InData
    <2>2. Ordered'
      BY <1>0, <1>1, <1>2, <2>1 DEF Ordered, Below
    <2>3. Gapless'
      BY <1>0, <1>1, <1>2, <2>1 DEF Gapless, Prefix
    <2> QED
      BY <2>2, <2>3
  <1> QED
    BY <1>3, <1>4, <1>5 DEF ParserNext

\* The writer stores the oldest packet behind what it has stored, or leaves.
LEMMA WriterOrder == OInv /\ WriterNext => Ordered' /\ Gapless'
  <1> SUFFICES ASSUME OInv, WriterNext PROVE Ordered' /\ Gapless'
    OBVIOUS
  <1>0. /\ Ordered /\ Gapless /\ TypeOK /\ arrived \in Nat
        /\ dataChan \in Seq(1..arrived) /\ wpc # "done"
    BY DEF OInv, IInv, TypeOK, ListenerTypeOK, PipeTypeOK, WriterNext, WriterOpen, WriterStore,
           WriterExit
  <1>1. UNCHANGED <<flows, base, ppc, pheld, lpc, lheld, parseChan>>
    BY DEF WriterNext, WriterOpen, WriterStore, WriterExit, writerRest, netVars, listenerVars
  <1>2. InParser' = InParser /\ InListener' = InListener /\ InParse' = InParse
    BY <1>1 DEF InParser, InListener, InParse
  <1>3. CASE WriterOpen \/ WriterExit
    <2>1. UNCHANGED <<db, dataChan>>
      BY <1>3 DEF WriterOpen, WriterExit
    <2>2. Stored' = Stored
      BY <2>1 DEF Stored
    <2> QED
      BY <1>0, <1>1, <1>2, <2>1, <2>2, QuietStep
  <1>4. CASE WriterStore
    <2> DEFINE h == Head(dataChan)
    <2>1. dataChan # <<>> /\ dataChan' = Tail(dataChan) /\ wpc = "select"
      BY <1>4 DEF WriterStore
    <2>2. /\ h \in InData /\ InData' = InData \ {h} /\ Below({h}, InData')
          /\ Increasing(dataChan') /\ h \in 1..arrived
      <3>1. Increasing(dataChan)
        BY <1>0 DEF Ordered
      <3>2. /\ h \in InChan(dataChan) /\ InChan(Tail(dataChan)) = InChan(dataChan) \ {h}
            /\ Below({h}, InChan(Tail(dataChan))) /\ Increasing(Tail(dataChan))
        BY <1>0, <2>1, <3>1, ChannelSets
      <3>3. h \in 1..arrived
        BY <1>0, <2>1
      <3> HIDE DEF h
      <3> QED
        BY <2>1, <3>2, <3>3 DEF InData
    <2>3. /\ \A q \in InData : q # h => h < q /\ q \in 1..arrived
          /\ \A q \in Stored : q < h
      BY <1>0, <2>2, AllArrived DEF Below, Ordered
    <2>4. CASE db' = Put(nextID, h)
      <3>1. nextID \notin DOMAIN db
        BY <2>1 DEF OInv, IInv, WriterAtEnd, TypeOK, StoreTypeOK
      <3> HIDE DEF h
      <3>2. Stored' = Stored \cup {h}
        BY <2>4, <3>1 DEF Stored, Put
      <3>3. Ordered'
        BY <1>0, <1>1, <1>2, <2>2, <3>2 DEF Ordered, Below
      <3>4. \A p \in Stored \cup {h} : \A q \in flows :
              base < q /\ q < p => q \in Stored \cup {h}
        <4>1. \A q \in flows : base < q /\ q < h => q \in Stored \cup InData
          BY <1>0, <2>2 DEF Gapless, Prefix
        <4>2. \A q \in InData : q < h => FALSE
          BY <2>2, <2>3, <1>0
        <4>3. \A p \in Stored : \A q \in flows : base < q /\ q < p => q \in Stored
          BY <1>0 DEF Gapless, Prefix
        <4> QED
          BY <4>1, <4>2, <4>3
      <3>5. Prefix(Stored)'
        BY <1>1, <3>2, <3>4 DEF Prefix
      <3>6. (Stored \cup InData)' = Stored \cup InData
        BY <2>2, <3>2
      <3>7. Gapless'
        BY <1>0, <1>1, <1>2, <3>5, <3>6 DEF Gapless, Prefix
      <3> QED
        BY <3>3, <3>7
    <2>5. CASE UNCHANGED db /\ WriterFails
      <3>1. Stored' = Stored /\ wpc' = "done"
        BY <2>5 DEF Stored, WriterFails
      <3> HIDE DEF h
      <3>2. Ordered'
        BY <1>0, <1>1, <1>2, <2>2, <3>1 DEF Ordered, Below
      <3>3. Gapless'
        BY <1>0, <1>1, <3>1 DEF Gapless, Prefix
      <3> QED
        BY <3>2, <3>3
    <2> QED
      BY <1>4, <2>4, <2>5 DEF WriterStore
  <1> QED
    BY <1>3, <1>4 DEF WriterNext

\* A crash empties the pipeline; what is stored arrived before the new run.
LEMMA RestartOrder == OInv /\ Restart => Ordered' /\ Gapless'
  <1> SUFFICES ASSUME OInv, Restart PROVE Ordered' /\ Gapless'
    OBVIOUS
  <1>0. Ordered /\ Stored \subseteq 1..arrived /\ flows \subseteq 1..arrived /\ arrived \in Nat
    BY AllArrived DEF OInv, IInv
  <1>1. /\ UNCHANGED <<flows, db>> /\ base' = arrived
        /\ parseChan' = <<>> /\ dataChan' = <<>> /\ pheld' = NoPacket /\ lheld' = NoPacket
    BY DEF Restart, netVars
  <1>2. /\ Stored' = Stored /\ InData' = {} /\ InParse' = {} /\ InParser' = {}
        /\ InListener' = {}
    BY <1>1 DEF Stored, InData, InParse, InParser, InListener, InChan
  <1>3. Ordered'
    BY <1>0, <1>1, <1>2 DEF Ordered, Below, Increasing
  <1>4. \A q \in flows' : ~(base' < q)
    BY <1>0, <1>1
  <1>5. Gapless'
    BY <1>4 DEF Gapless, Prefix
  <1> QED
    BY <1>3, <1>5

\* The pipeline starts empty.
LEMMA OInvInit == Init => OInv
  <1> SUFFICES ASSUME Init PROVE OInv
    OBVIOUS
  <1> USE DEF Init, SessionInit, NetInit, ListenerInit
  <1>1. /\ Stored = {} /\ InData = {} /\ InParse = {} /\ InParser = {} /\ InListener = {}
        /\ flows = {}
    BY DEF Stored, InData, InParse, InParser, InListener, InChan
  <1>2. Increasing(parseChan) /\ Increasing(dataChan)
    BY DEF Increasing
  <1>3. Ordered /\ Gapless
    BY <1>1, <1>2 DEF Ordered, Gapless, Below, Prefix
  <1> QED
    BY <1>3, IInvInit DEF OInv

\* Every step keeps the order.
LEMMA OInvStep == OInv /\ [Next]_vars => OInv'
  <1> SUFFICES ASSUME OInv, [Next]_vars PROVE OInv'
    OBVIOUS
  <1>0. IInv' /\ IInv /\ Ordered /\ Gapless /\ TypeOK
    BY IInvStep DEF OInv, IInv
  <1>1. CASE ListenerOnly
    <2>1. UNCHANGED <<parseChan, dataChan, flows, base, db, pheld, ppc, wpc>>
      BY <1>1 DEF ListenerOnly, ListenerAlone, netVars
    <2>2. lpc # "done" /\ (lheld' = lheld \/ (lheld' = NoPacket /\ lpc # "deliver"))
      BY <1>1 DEF ListenerOnly, ListenerStep, ListenerProgress, Wakeup, ListenerBind,
                  ListenerCheck, ListenerArm, ReadWoken, ReadTimeout, AfterTimeout,
                  ReadError, ListenerReturns, ListenerFails
    <2>3. lheld' = lheld
      BY <1>0, <2>2 DEF TypeOK, ListenerTypeOK
    <2>4. Stored' = Stored /\ InParser' = InParser /\ InListener' = InListener
      BY <2>1, <2>3 DEF Stored, InParser, InListener
    <2> QED
      BY <1>0, <2>1, <2>2, <2>4, QuietStep DEF OInv
  <1>2. CASE Cancel \/ UNCHANGED vars
    <2>1. UNCHANGED <<parseChan, dataChan, flows, base, db, pheld, ppc, wpc, lpc, lheld>>
      BY <1>2 DEF Cancel, vars, listenerVars, netVars
    <2>2. Stored' = Stored /\ InParser' = InParser /\ InListener' = InListener
      BY <2>1 DEF Stored, InParser, InListener
    <2> QED
      BY <1>0, <2>1, <2>2, QuietStep DEF OInv
  <1>3. CASE ReceivePacket
    BY <1>0, <1>3, ReceiveOrder DEF OInv
  <1>4. CASE Deliver
    BY <1>0, <1>4, DeliverOrder DEF OInv
  <1>5. CASE ParserNext
    BY <1>0, <1>5, ParserOrder DEF OInv
  <1>6. CASE WriterNext
    BY <1>0, <1>6, WriterOrder DEF OInv
  <1>7. CASE Restart
    BY <1>0, <1>7, RestartOrder DEF OInv
  <1> QED
    BY <1>1, <1>2, <1>3, <1>4, <1>5, <1>6, <1>7 DEF Next, ListenerNext

\* Order and gaplessness hold in every state of every run of the recorder.
THEOREM OrderInvariance == Spec => []OInv
  BY OInvInit, OInvStep, PTL DEF Spec

\* What is stored of a run is a gap-free prefix of its valid packets
\* (Record.StoredIsPrefix).
THEOREM StoredIsAPrefix == Spec => []StoredIsPrefix
  <1>1. OInv => StoredIsPrefix
    BY DEF OInv, Gapless, Prefix, StoredIsPrefix
  <1> QED
    BY <1>1, OrderInvariance, PTL


-----------------------------------------------------------------------------
(* The database is the append-only log of RecordLog. *)

\* The database is a sequence, so that writing the next key appends to it.
LInv == OInv /\ db \in Seq(Nat)

\* Writing the next key appends the oldest packet of dataChan to the database.
LEMMA StoreAppends ==
    ASSUME LInv, WriterStore, db' = Put(nextID, Head(dataChan))
    PROVE  /\ db' = Append(db, Head(dataChan))
           /\ Len(db) < MaxKey
           /\ Head(dataChan) \in Nat
  <1> DEFINE h == Head(dataChan)
  <1>1. h \in Nat
    BY DEF LInv, OInv, IInv, TypeOK, PipeTypeOK, ListenerTypeOK, WriterStore
  <1>2. DOMAIN db = 1..(nextID - 1) /\ nextID \in 1..MaxKey /\ db \in Seq(Nat)
    BY DEF LInv, OInv, IInv, WriterAtEnd, WriterStore, TypeOK, StoreTypeOK
  <1>3. Len(db) = nextID - 1
    BY <1>2
  <1> HIDE DEF h
  <1>4. db' = [k \in 1..nextID |-> IF k = nextID THEN h ELSE db[k]]
    <2>1. (1..(nextID - 1)) \cup {nextID} = 1..nextID
      BY <1>2
    <2> QED
      BY <1>2, <2>1 DEF Put, h
  <1>5. Append(db, h) = [k \in 1..nextID |-> IF k = nextID THEN h ELSE db[k]]
    <2> DEFINE a == Append(db, h)
    <2>1. a \in Seq(Nat) /\ Len(a) = nextID /\ DOMAIN a = 1..nextID
      BY <1>1, <1>2, <1>3
    <2>2. ASSUME NEW k \in 1..nextID PROVE a[k] = IF k = nextID THEN h ELSE db[k]
      BY <1>1, <1>2, <1>3
    <2> HIDE DEF a
    <2>3. a \in [1..nextID -> Nat]
      BY <2>1
    <2>4. a = [k \in 1..nextID |-> IF k = nextID THEN h ELSE db[k]]
      BY <2>2, <2>3
    <2> QED
      BY <2>4 DEF a
  <1> QED
    BY <1>1, <1>2, <1>3, <1>4, <1>5 DEF h

\* The database stays a sequence.
LEMMA LInvStep == LInv /\ [Next]_vars => LInv'
  <1> SUFFICES ASSUME LInv, [Next]_vars PROVE LInv'
    OBVIOUS
  <1>1. OInv' /\ db \in Seq(Nat)
    BY OInvStep DEF LInv
  <1>2. CASE WriterStore
    <2>1. CASE db' = Put(nextID, Head(dataChan))
      <3>1. db' = Append(db, Head(dataChan)) /\ Head(dataChan) \in Nat
        BY <1>2, <2>1, StoreAppends
      <3> QED
        BY <1>1, <3>1 DEF LInv
    <2>2. CASE UNCHANGED db
      BY <1>1, <2>2 DEF LInv
    <2> QED
      BY <1>2, <2>1, <2>2 DEF WriterStore
  <1>3. CASE ~WriterStore
    <2>1. db' = db
      BY <1>3, OthersKeepStore DEF Next, WriterNext, WriterOpen, WriterExit, Restart
    <2> QED
      BY <1>1, <2>1 DEF LInv
  <1> QED
    BY <1>2, <1>3

\* Every step of the recorder is a step of the log or leaves it alone.
LEMMA StepLogs == LInv /\ [Next]_vars => [Log!Next]_(Log!vars)
  <1> SUFFICES ASSUME LInv, [Next]_vars, ~UNCHANGED <<db, flows>> PROVE Log!Next
    BY DEF Log!vars
  <1>1. CASE ReceivePacket
    <2>1. flows' = flows \cup {arrived + 1} /\ db' = db
      BY <1>1 DEF ReceivePacket, Receive
    <2>2. \A q \in flows : q < arrived + 1
      BY AllArrived DEF LInv, OInv, IInv
    <2>3. Log!Arrive
      BY <2>1, <2>2 DEF Log!Arrive
    <2> QED
      BY <2>3 DEF Log!Next
  <1>2. CASE WriterStore
    <2> DEFINE h == Head(dataChan)
    <2>1. flows' = flows /\ db' = Put(nextID, h)
      BY <1>2 DEF WriterStore, writerRest, netVars
    <2>2. db' = Append(db, h) /\ Len(db) < MaxKey
      BY <1>2, <2>1, StoreAppends
    <2>3. h \in InData
      BY <1>2 DEF LInv, OInv, IInv, TypeOK, PipeTypeOK, WriterStore, InData, InChan
    <2> HIDE DEF h
    <2>4. h \in flows /\ \A p \in Stored : p < h
      BY <2>3 DEF LInv, OInv, Ordered, Below
    <2>5. \A k \in DOMAIN db : db[k] < h
      BY <2>4 DEF Stored
    <2>6. Log!Store(h)
      BY <2>1, <2>2, <2>4, <2>5 DEF Log!Store
    <2> QED
      BY <2>4, <2>6 DEF Log!Next
  <1>3. CASE ~ReceivePacket /\ ~WriterStore
    BY <1>3 DEF Next, ListenerNext, ListenerOnly, ListenerAlone, Deliver, ParserNext, ParserTake,
                ParserSend, ParserExit, WriterNext, WriterOpen, WriterExit, writerRest, Cancel,
                Restart, vars, netVars
  <1> QED
    BY <1>1, <1>2, <1>3

\* The recorder implements the append-only log of valid packets in arrival
\* order, whatever is cancelled, fails or crashes (Record.ImplementsLog).
THEOREM RecordImplementsLog == Spec => ImplementsLog
  <1>1. Init => LInv /\ Log!Init
    <2> SUFFICES ASSUME Init PROVE LInv /\ Log!Init
      OBVIOUS
    <2>1. db = <<>> /\ flows = {}
      BY DEF Init, NetInit
    <2> QED
      BY <2>1, OInvInit DEF LInv, Log!Init
  <1> QED
    BY <1>1, LInvStep, StepLogs, PTL DEF Spec, ImplementsLog, Log!Spec
=============================================================================
