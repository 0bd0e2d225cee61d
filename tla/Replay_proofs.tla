---------------------------- MODULE Replay_proofs ----------------------------
(***************************************************************************)
(* Proofs about Replay, for every set of workers, channel capacity and     *)
(* number of records and passes.                                           *)
(***************************************************************************)
EXTENDS Replay, FiniteSetTheorems, TLAPS

USE ChanCapAssumption, BoundsAssumption

\* The workers are goroutines, and none is the reader or the absence of an error.
LEMMA WorkersFacts ==
    /\ "reader" \notin Workers /\ "reader" \in Goroutines /\ Workers \subseteq Goroutines
    /\ NoErr \notin Goroutines /\ Workers # {}
  <1>1. NoErr # "reader"
    BY DEF NoErr
  <1> QED
    BY <1>1, WorkersAssumption DEF Goroutines

-----------------------------------------------------------------------------
(* How often a record is in the channel *)

\* Where the record r is in the channel s, and whether e is r.
Places(s, r) == {i \in DOMAIN s : s[i] = r}
One(r, e) == IF r = e THEN 1 ELSE 0

\* The places of a record in a channel are finitely many.
LEMMA FinitePlaces ==
    ASSUME NEW S, NEW s \in Seq(S), NEW r
    PROVE  IsFiniteSet(Places(s, r)) /\ Cardinality(Places(s, r)) \in Nat
  <1>1. DOMAIN s = 1..Len(s) /\ Len(s) \in Nat
    OBVIOUS
  <1>2. IsFiniteSet(1..Len(s))
    BY <1>1, FS_Interval
  <1>3. Places(s, r) \in SUBSET (1..Len(s))
    BY <1>1 DEF Places
  <1> QED
    BY <1>2, <1>3, FS_Subset, FS_CardinalityType

\* A send adds one place for the record sent.
LEMMA PlacesAppend ==
    ASSUME NEW S, NEW s \in Seq(S), NEW e \in S, NEW r
    PROVE  Cardinality(Places(Append(s, e), r)) = Cardinality(Places(s, r)) + One(r, e)
  <1> DEFINE a == Append(s, e)
  <1>1. /\ DOMAIN a = 1..(Len(s) + 1) /\ a[Len(s) + 1] = e /\ DOMAIN s = 1..Len(s)
        /\ \A i \in 1..Len(s) : a[i] = s[i] /\ i \in 1..(Len(s) + 1) /\ i # Len(s) + 1
        /\ \A i \in 1..(Len(s) + 1) : i \in 1..Len(s) \/ i = Len(s) + 1
        /\ Len(s) + 1 \in 1..(Len(s) + 1)
    OBVIOUS
  <1>2. IsFiniteSet(Places(s, r)) /\ Cardinality(Places(s, r)) \in Nat
    BY FinitePlaces
  <1> HIDE DEF a
  <1>3. Len(s) + 1 \notin Places(s, r)
    BY <1>1 DEF Places
  <1>4. CASE r = e
    <2>1. Places(a, r) = Places(s, r) \cup {Len(s) + 1}
      BY <1>1, <1>4 DEF Places
    <2>2. Cardinality(Places(a, r)) = Cardinality(Places(s, r)) + 1
      BY <1>2, <1>3, <2>1, FS_AddElement
    <2> QED
      BY <1>4, <2>2 DEF One, a
  <1>5. CASE r # e
    <2>1. Places(a, r) = Places(s, r)
      BY <1>1, <1>5 DEF Places
    <2> QED
      BY <1>2, <1>5, <2>1 DEF One, a
  <1> QED
    BY <1>4, <1>5

\* A receive takes one place from the record received.
LEMMA PlacesTail ==
    ASSUME NEW S, NEW s \in Seq(S), s # <<>>, NEW r
    PROVE  Cardinality(Places(s, r)) = Cardinality(Places(Tail(s), r)) + One(r, Head(s))
  <1> DEFINE t == Tail(s)
             P == Places(s, r) \ {1}
             Q == Places(t, r)
             f == [i \in Q |-> i + 1]
  <1>1. /\ Head(s) = s[1] /\ 1 \in 1..Len(s) /\ DOMAIN t = 1..(Len(s) - 1) /\ DOMAIN s = 1..Len(s)
        /\ \A i \in 1..(Len(s) - 1) : t[i] = s[i + 1] /\ i + 1 \in 1..Len(s) /\ i + 1 # 1
        /\ \A i \in 1..Len(s) : i # 1 => i - 1 \in 1..(Len(s) - 1) /\ (i - 1) + 1 = i
        /\ Len(s) \in Nat
    OBVIOUS
  <1>2. IsFiniteSet(Places(s, r)) /\ Cardinality(Places(s, r)) \in Nat
    BY FinitePlaces
  <1>3. t \in Seq(S)
    OBVIOUS
  <1>4. IsFiniteSet(Q) /\ Cardinality(Q) \in Nat
    BY <1>3, FinitePlaces
  <1> HIDE DEF t
  <1>5. Cardinality(P) = Cardinality(Q)
    <2>1. \A i \in Q : i \in 1..(Len(s) - 1) /\ i \in Nat /\ i + 1 \in P
      BY <1>1 DEF Places
    <2>2. \A j \in P : j - 1 \in Q /\ (j - 1) + 1 = j
      BY <1>1 DEF Places
    <2> HIDE DEF P, Q
    <2>3. f \in [Q -> P]
      BY <2>1
    <2>4. \A i, j \in Q : f[i] = f[j] => i = j
      BY <2>1
    <2>5. \A j \in P : \E i \in Q : f[i] = j
      BY <2>2
    <2> HIDE DEF f
    <2>6. f \in Bijection(Q, P)
      BY <2>3, <2>4, <2>5 DEF Bijection, Injection, Surjection, IsInjective
    <2>7. ExistsBijection(Q, P)
      BY <2>6 DEF ExistsBijection
    <2> QED
      BY <1>4, <2>7, FS_Bijection
  <1>6. CASE r = s[1]
    <2>1. 1 \in Places(s, r)
      BY <1>1, <1>6 DEF Places
    <2>2. Cardinality(P) = Cardinality(Places(s, r)) - 1
      BY <1>2, <2>1, FS_RemoveElement
    <2> HIDE DEF P, Q
    <2>3. Cardinality(Places(s, r)) = Cardinality(Q) + 1
      BY <1>2, <1>5, <2>2
    <2> QED
      BY <1>1, <1>6, <2>3 DEF One, Q, t
  <1>7. CASE r # s[1]
    <2>1. P = Places(s, r)
      BY <1>7 DEF Places
    <2> HIDE DEF P, Q
    <2>2. Cardinality(Places(s, r)) = Cardinality(Q) + 0
      BY <1>4, <1>5, <2>1
    <2> QED
      BY <1>1, <1>7, <2>2 DEF One, Q, t
  <1> QED
    BY <1>6, <1>7

-----------------------------------------------------------------------------
(* The inductive invariant *)

\* Where the reader is in its passes: between two of them, on a live context, it
\* is past the last record, and without --loop there is only one.
ReaderInv ==
    /\ thisPass = cursor - 1
    /\ rpc = "open" => passes = 0
    /\ rpc \in {"iterate", "send", "passEnd", "idle"} => passes > 0
    /\ rpc = "send" => cursor <= numRecords
    /\ rpc \in {"top", "passEnd", "idle", "done"} /\ ~cancelled /\ passes > 0
          => cursor = numRecords + 1
    /\ rpc = "done" /\ ~cancelled => passes > 0 /\ ~loop
    /\ ~loop => passes <= 1 /\ rpc # "idle" /\ (rpc = "top" => passes = 0)
    /\ closed => rpc = "done"
    /\ rpc = "done" /\ ~loop => closed

\* Who is alive, why the context ended, and what a worker waits for before it
\* leaves a replay that nobody stopped.
GroupInv ==
    /\ "reader" \in alive <=> rpc # "done"
    /\ \A w \in Workers : w \in alive <=> wpc[w] # "done"
    /\ cancelled /\ firstErr = NoErr => parentDone
    /\ \A w \in Workers : wpc[w] = "done" /\ ~cancelled => closed /\ dataChan = <<>>

\* What the reader has handed on is sent or in the channel, and on a live context
\* nothing of it is lost.
CountInv ==
    \A r \in Records :
        /\ sent[r] + InChan(r) <= HandedOn(r)
        /\ ~cancelled => sent[r] + InChan(r) = HandedOn(r)

\* The inductive invariant.
IInv == TypeOK /\ ReaderInv /\ GroupInv /\ CountInv

\* The counts are natural numbers, and no more is handed on than there were passes.
LEMMA CountsAreNatural ==
    ASSUME TypeOK, NEW r \in Records
    PROVE  /\ sent[r] \in Nat /\ InChan(r) \in Nat
           /\ HandedOn(r) \in Nat /\ HandedOn(r) <= passes /\ passes \in 0..MaxPasses
           /\ dataChan \in Seq(Records)
  <1>1. sent[r] \in Nat /\ dataChan \in Seq(Records) /\ passes \in 0..MaxPasses
    BY DEF TypeOK
  <1>2. InChan(r) = Cardinality(Places(dataChan, r))
    BY DEF InChan, Places
  <1>3. Cardinality(Places(dataChan, r)) \in Nat
    BY <1>1, FinitePlaces
  <1>4. HandedOn(r) \in Nat /\ HandedOn(r) <= passes
    BY <1>1 DEF HandedOn
  <1> QED
    BY <1>1, <1>2, <1>3, <1>4

\* The errgroup's types and reasons survive each of its operations.
LEMMA GroupStep ==
    ASSUME TypeOK, NEW g \in Goroutines, Return(g) \/ Fail(g) \/ ParentCancel \/ UNCHANGED groupVars
    PROVE  /\ alive' \subseteq Goroutines /\ firstErr' \in Goroutines \cup {NoErr}
           /\ cancelled' \in BOOLEAN /\ parentDone' \in BOOLEAN
  BY DEF TypeOK, Return, Fail, ParentCancel, groupVars

\* Steps that move no record and take no pass.
LEMMA SameCounts ==
    ASSUME IInv, UNCHANGED <<numRecords, dataChan, sent, passes, cursor>>,
           cancelled => cancelled'
    PROVE  CountInv'
  BY DEF IInv, CountInv, Records, InChan, HandedOn

\* The reader opens, looks at a record, ends its pass, pauses or leaves.
LEMMA ReaderQuietStep ==
    ASSUME IInv, ReaderOpen \/ ReaderIterate \/ ReaderPassEnd \/ ReaderIdle
    PROVE  IInv'
  <1>1. /\ UNCHANGED <<dbVars, wpc, sent, dataChan, cursor, thisPass, passes>>
        /\ TypeOK /\ ReaderInv /\ GroupInv /\ "reader" \in Goroutines /\ "reader" \notin Workers
        /\ NoErr # "reader"
    BY WorkersFacts
       DEF IInv, ReaderOpen, ReaderIterate, ReaderPassEnd, ReaderIdle, readerRest, ReaderReturns,
           ReaderFails
  <1>2. /\ rpc' \in {"top", "iterate", "send", "passEnd", "idle", "done"}
        /\ \/ rpc' # "done" /\ UNCHANGED <<closed, groupVars>>
           \/ rpc' = "done" /\ (Return("reader") \/ Fail("reader")) /\ closed' = (closed \/ ~loop)
    BY DEF ReaderOpen, ReaderIterate, ReaderPassEnd, ReaderIdle, ReaderGoesTo, ReaderReturns,
           ReaderFails, DeferredClose
  <1>3. closed' \in BOOLEAN
    BY <1>1, <1>2 DEF TypeOK
  <1>4. TypeOK'
    <2>1. /\ alive' \subseteq Goroutines /\ firstErr' \in Goroutines \cup {NoErr}
          /\ cancelled' \in BOOLEAN /\ parentDone' \in BOOLEAN
      BY <1>1, <1>2, GroupStep
    <2> QED
      BY <1>1, <1>2, <1>3, <2>1 DEF TypeOK, dbVars, Records
  <1>5. /\ UNCHANGED <<loop, numRecords, cursor, thisPass, passes>>
        /\ passes \in Nat /\ cursor \in 1..(numRecords + 1) /\ numRecords \in Nat
        /\ rpc \in {"open", "iterate", "passEnd", "idle"} /\ ~closed
    BY <1>1 DEF dbVars, TypeOK, ReaderInv, ReaderOpen, ReaderIterate, ReaderPassEnd, ReaderIdle
  <1>6. /\ cancelled => cancelled'
        /\ rpc' = "done" => "reader" \notin alive'
        /\ rpc' # "done" => alive' = alive
        /\ \A w \in Workers : w \in alive' <=> w \in alive
        /\ ~cancelled' => UNCHANGED <<cancelled, firstErr, parentDone>>
        /\ cancelled' /\ firstErr' = NoErr => cancelled /\ firstErr = NoErr /\ parentDone' = parentDone
    BY <1>1, <1>2 DEF Return, Fail, groupVars
  <1>7. GroupInv'
    <2>1. /\ "reader" \in alive <=> rpc # "done"
          /\ \A w \in Workers : w \in alive <=> wpc[w] # "done"
          /\ cancelled /\ firstErr = NoErr => parentDone
          /\ \A w \in Workers : wpc[w] = "done" /\ ~cancelled => closed /\ dataChan = <<>>
      BY <1>1 DEF GroupInv
    <2>2. ("reader" \in alive)' <=> rpc' # "done"
      BY <1>5, <1>6, <2>1
    <2>3. \A w \in Workers : w \in alive' <=> wpc'[w] # "done"
      BY <1>1, <1>6, <2>1
    <2>4. \A w \in Workers : wpc'[w] = "done" => cancelled'
      BY <1>1, <1>5, <1>6, <2>1
    <2>5. cancelled' /\ firstErr' = NoErr => parentDone'
      BY <1>6, <2>1
    <2> QED
      BY <2>2, <2>3, <2>4, <2>5 DEF GroupInv
  <1>10. ReaderInv'
    <2>1. ASSUME rpc' # "done" PROVE ~closed'
      BY <1>2, <1>5, <2>1
    <2>2. ASSUME rpc' = "done" PROVE ~loop' => closed'
      BY <1>2, <1>5, <2>2
    <2>3. CASE ReaderOpen
      <3>1. /\ passes = 0 /\ thisPass = cursor - 1 /\ (rpc' = "top" \/ (rpc' = "done" /\ cancelled'))
        BY <1>1, <2>3 DEF ReaderInv, ReaderOpen, ReaderGoesTo, ReaderFails, Fail
      <3> QED
        BY <1>5, <2>1, <2>2, <3>1 DEF ReaderInv
    <2>4. CASE ReaderIterate
      <3>1. /\ passes > 0 /\ thisPass = cursor - 1 /\ (~loop => passes <= 1)
            /\ \/ rpc' = "passEnd" /\ (cursor > numRecords \/ cancelled')
               \/ rpc' = "send" /\ cursor <= numRecords
               \/ rpc' = "done" /\ cancelled'
        BY <1>1, <2>4 DEF ReaderInv, ReaderIterate, ReaderGoesTo, ReaderFails, Fail, groupVars
      <3>2. cursor > numRecords => cursor = numRecords + 1
        BY <1>5
      <3> QED
        BY <1>5, <2>1, <2>2, <3>1, <3>2 DEF ReaderInv
    <2>5. CASE ReaderPassEnd
      <3>1. /\ passes > 0 /\ thisPass = cursor - 1 /\ (~loop => passes <= 1)
            /\ ~cancelled' => cursor = numRecords + 1
            /\ (rpc' = "done" /\ ~loop) \/ (rpc' \in {"top", "idle"} /\ loop)
        BY <1>1, <1>6, <2>5 DEF ReaderInv, ReaderPassEnd, ReaderGoesTo, ReaderReturns
      <3> QED
        BY <1>5, <2>1, <2>2, <3>1 DEF ReaderInv
    <2>6. CASE ReaderIdle
      <3>1. /\ passes > 0 /\ thisPass = cursor - 1 /\ loop
            /\ ~cancelled' => cursor = numRecords + 1
            /\ (rpc' = "done" /\ cancelled') \/ rpc' = "top"
        BY <1>1, <1>6, <2>6 DEF ReaderInv, ReaderIdle, ReaderGoesTo, ReaderReturns
      <3> QED
        BY <1>5, <2>1, <2>2, <3>1 DEF ReaderInv
    <2> QED
      BY <2>3, <2>4, <2>5, <2>6
  <1>9. CountInv'
    BY <1>1, <1>6, SameCounts DEF dbVars
  <1> QED
    BY <1>4, <1>7, <1>9, <1>10 DEF IInv

\* A new pass starts only where the last one ended, and never after the context.
LEMMA ReaderTopStep == IInv /\ ReaderTop => IInv'
  <1> SUFFICES ASSUME IInv, ReaderTop PROVE IInv'
    OBVIOUS
  <1>1. /\ UNCHANGED <<dbVars, wpc, sent, dataChan>> /\ rpc = "top"
        /\ TypeOK /\ ReaderInv /\ GroupInv /\ CountInv
        /\ "reader" \in Goroutines /\ "reader" \notin Workers
    BY WorkersFacts DEF IInv, ReaderTop, readerRest
  <1>2. CASE cancelled /\ ReaderReturns
    <2> USE <1>1, <1>2 DEF ReaderReturns, DeferredClose, Return
    <2>1. closed' \in BOOLEAN
      BY DEF TypeOK
    <2>2. TypeOK'
      BY <2>1 DEF TypeOK, dbVars, Records
    <2>3. ReaderInv'
      BY DEF ReaderInv, TypeOK, dbVars
    <2>4. GroupInv'
      BY DEF GroupInv
    <2>5. CountInv'
      BY SameCounts DEF dbVars
    <2> QED
      BY <2>2, <2>3, <2>4, <2>5 DEF IInv
  <1>3. CASE /\ ~cancelled /\ passes < MaxPasses /\ ReaderGoesTo("iterate")
             /\ cursor' = 1 /\ thisPass' = 0 /\ passes' = passes + 1
    <2> USE <1>1, <1>3 DEF ReaderGoesTo, groupVars
    <2>1. passes' \in 0..MaxPasses /\ passes \in Nat /\ numRecords \in Nat /\ MaxPasses \in Nat
      BY DEF TypeOK
    <2>2. TypeOK'
      BY <2>1 DEF TypeOK, dbVars, Records
    <2>3. ReaderInv'
      BY <2>1 DEF ReaderInv, dbVars
    <2>4. GroupInv'
      BY DEF GroupInv
    <2>5. CountInv'
      <3> SUFFICES ASSUME NEW r \in Records PROVE sent[r] + InChan(r) = HandedOn(r)'
        BY CountsAreNatural, <2>2 DEF CountInv, Records, dbVars, InChan
      <3>1. sent[r] + InChan(r) = HandedOn(r)
        BY DEF CountInv
      <3>2. HandedOn(r)' = passes
        BY <2>1 DEF HandedOn, Records
      <3>3. passes > 0 => cursor = numRecords + 1
        BY DEF ReaderInv
      <3>4. HandedOn(r) = passes
        BY <2>1, <3>3 DEF HandedOn, Records
      <3> QED
        BY <3>1, <3>2, <3>4
    <2> QED
      BY <2>2, <2>3, <2>4, <2>5 DEF IInv
  <1> QED
    BY <1>2, <1>3 DEF ReaderTop

\* What the channel gains is what the reader has handed on.
LEMMA ReaderSendStep == IInv /\ ReaderSend => IInv'
  <1> SUFFICES ASSUME IInv, ReaderSend PROVE IInv'
    OBVIOUS
  <1>1. /\ UNCHANGED <<dbVars, wpc, sent, closed, groupVars, passes>> /\ rpc = "send"
        /\ TypeOK /\ ReaderInv /\ GroupInv /\ CountInv
    BY DEF IInv, ReaderSend, readerRest, ReaderGoesTo
  <1>2. /\ cursor \in 1..numRecords /\ numRecords \in Nat /\ passes \in Nat /\ passes > 0
        /\ thisPass = cursor - 1 /\ (~loop => passes <= 1) /\ ~closed
        /\ dataChan \in Seq(Records) /\ cursor \in Records
    BY <1>1 DEF TypeOK, ReaderInv, Records
  <1>3. CASE cancelled /\ ReaderGoesTo("passEnd") /\ UNCHANGED <<cursor, thisPass, passes, dataChan>>
    <2>1. TypeOK'
      BY <1>1, <1>3 DEF TypeOK, dbVars, Records, ReaderGoesTo, groupVars
    <2>2. ReaderInv'
      BY <1>1, <1>2, <1>3 DEF ReaderInv, dbVars, ReaderGoesTo, groupVars
    <2>3. GroupInv'
      BY <1>1, <1>3 DEF GroupInv, ReaderGoesTo, groupVars
    <2>4. CountInv'
      BY <1>1, <1>3, SameCounts DEF dbVars, groupVars
    <2> QED
      BY <2>1, <2>2, <2>3, <2>4 DEF IInv
  <1>4. CASE /\ Len(dataChan) < ChanCap /\ dataChan' = Append(dataChan, cursor)
             /\ ReaderGoesTo("iterate") /\ cursor' = cursor + 1 /\ thisPass' = thisPass + 1
    <2>1. /\ dataChan' \in Seq(Records) /\ Len(dataChan') <= ChanCap /\ dataChan' # <<>>
          /\ cursor' \in 1..(numRecords + 1) /\ thisPass' \in 0..numRecords /\ thisPass' = cursor' - 1
      BY <1>2, <1>4
    <2>2. TypeOK'
      BY <1>1, <1>4, <2>1 DEF TypeOK, dbVars, Records, ReaderGoesTo, groupVars
    <2>3. ReaderInv'
      BY <1>1, <1>2, <1>4, <2>1 DEF ReaderInv, dbVars, ReaderGoesTo, groupVars
    <2>4. GroupInv'
      BY <1>1, <1>2, <1>4 DEF GroupInv, ReaderGoesTo, groupVars
    <2>5. \A r \in Records : InChan(r)' = InChan(r) + One(r, cursor)
      BY <1>2, <1>4, PlacesAppend DEF InChan, Places
    <2>6. \A r \in Records : HandedOn(r)' = HandedOn(r) + One(r, cursor)
      BY <1>1, <1>2, <1>4 DEF HandedOn, One, Records
    <2>7. \A r \in Records :
             One(r, cursor) \in Nat /\ sent[r] \in Nat /\ InChan(r) \in Nat /\ HandedOn(r) \in Nat
      BY <1>1, CountsAreNatural DEF One
    <2>8. CountInv'
      <3> SUFFICES ASSUME NEW r \in Records
                   PROVE  /\ sent[r] + InChan(r)' <= HandedOn(r)'
                          /\ ~cancelled => sent[r] + InChan(r)' = HandedOn(r)'
        BY <1>1 DEF CountInv, Records, dbVars, groupVars
      <3>1. /\ sent[r] + InChan(r) <= HandedOn(r)
            /\ ~cancelled => sent[r] + InChan(r) = HandedOn(r)
        BY <1>1 DEF CountInv
      <3>2. \A s, n, h, o \in Nat :
               /\ s + n <= h => s + (n + o) <= h + o
               /\ s + n = h => s + (n + o) = h + o
        OBVIOUS
      <3> QED
        BY <2>5, <2>6, <2>7, <3>1, <3>2
    <2> QED
      BY <2>2, <2>3, <2>4, <2>8 DEF IInv
  <1> QED
    BY <1>3, <1>4 DEF ReaderSend

-----------------------------------------------------------------------------
(* The workers and the caller *)

\* A worker binds, waits for its limiter or leaves: no record moves, and a worker
\* leaves a replay that nobody stopped only once there is nothing left to send.
LEMMA WorkerQuietStep ==
    ASSUME IInv, NEW w \in Workers,
           WorkerBind(w) \/ WorkerClosed(w) \/ WorkerTick(w) \/ WorkerExit(w)
    PROVE  IInv'
  <1>1. /\ UNCHANGED <<dbVars, readerVars, closed, dataChan, sent>>
        /\ TypeOK /\ ReaderInv /\ GroupInv /\ w \in Goroutines /\ w # "reader" /\ w # NoErr
    BY WorkersFacts
       DEF IInv, WorkerBind, WorkerClosed, WorkerTick, WorkerExit, workerRest
  <1>2. \E place \in {"select", "limit", "done"} :
           /\ wpc' = [wpc EXCEPT ![w] = place]
           /\ \/ place # "done" /\ UNCHANGED groupVars
              \/ /\ place = "done"
                 /\ Fail(w) \/ (Return(w) /\ (cancelled \/ (closed /\ dataChan = <<>>)))
    BY DEF WorkerBind, WorkerClosed, WorkerTick, WorkerExit, WorkerGoesTo, WorkerReturns, WorkerFails
  <1>3. PICK place \in {"select", "limit", "done"} :
           /\ wpc' = [wpc EXCEPT ![w] = place]
           /\ \/ place # "done" /\ UNCHANGED groupVars
              \/ /\ place = "done"
                 /\ Fail(w) \/ (Return(w) /\ (cancelled \/ (closed /\ dataChan = <<>>)))
    BY <1>2
  <1>4. /\ wpc' \in [Workers -> {"bind", "select", "limit", "done"}] /\ wpc'[w] = place
        /\ \A v \in Workers : v # w => wpc'[v] = wpc[v]
        /\ wpc[w] # "done"
    BY <1>1, <1>3 DEF TypeOK, WorkerBind, WorkerClosed, WorkerTick, WorkerExit
  <1>5. TypeOK'
    <2>1. /\ alive' \subseteq Goroutines /\ firstErr' \in Goroutines \cup {NoErr}
          /\ cancelled' \in BOOLEAN /\ parentDone' \in BOOLEAN
      BY <1>1, <1>3, GroupStep
    <2> QED
      BY <1>1, <1>4, <2>1 DEF TypeOK, dbVars, readerVars, Records
  <1>6. /\ cancelled => cancelled'
        /\ "reader" \in alive' <=> "reader" \in alive
        /\ \A v \in Workers : v # w => (v \in alive' <=> v \in alive)
        /\ place = "done" => w \notin alive'
        /\ place # "done" => alive' = alive
        /\ cancelled' /\ firstErr' = NoErr => cancelled /\ firstErr = NoErr /\ parentDone' = parentDone
        /\ place = "done" => cancelled' \/ (closed /\ dataChan = <<>>)
    BY <1>1, <1>3 DEF Fail, Return, groupVars
  <1>7. GroupInv'
    <2>1. /\ "reader" \in alive <=> rpc # "done"
          /\ \A v \in Workers : v \in alive <=> wpc[v] # "done"
          /\ cancelled /\ firstErr = NoErr => parentDone
          /\ \A v \in Workers : wpc[v] = "done" /\ ~cancelled => closed /\ dataChan = <<>>
      BY <1>1 DEF GroupInv
    <2>2. ("reader" \in alive)' <=> rpc' # "done"
      BY <1>1, <1>6, <2>1 DEF readerVars
    <2>3. \A v \in Workers : v \in alive' <=> wpc'[v] # "done"
      BY <1>4, <1>6, <2>1
    <2>4. \A v \in Workers : wpc'[v] = "done" /\ ~cancelled' => closed' /\ dataChan' = <<>>
      BY <1>1, <1>4, <1>6, <2>1
    <2>5. cancelled' /\ firstErr' = NoErr => parentDone'
      BY <1>6, <2>1
    <2> QED
      BY <2>2, <2>3, <2>4, <2>5 DEF GroupInv
  <1>8. ReaderInv'
    BY <1>1, <1>6 DEF ReaderInv, dbVars, readerVars
  <1>9. CountInv'
    BY <1>1, <1>6, SameCounts DEF dbVars, readerVars
  <1> QED
    BY <1>5, <1>7, <1>8, <1>9 DEF IInv

\* What a worker takes from the channel it has sent, or it failed and the replay
\* ends.
LEMMA WorkerSendStep ==
    ASSUME IInv, NEW w \in Workers, WorkerSend(w)
    PROVE  IInv'
  <1> DEFINE h == Head(dataChan)
  <1>1. /\ UNCHANGED <<dbVars, readerVars, closed>> /\ wpc[w] = "select"
        /\ TypeOK /\ ReaderInv /\ GroupInv /\ CountInv /\ w \in Goroutines /\ w # "reader" /\ w # NoErr
        /\ dataChan # <<>> /\ dataChan' = Tail(dataChan)
    BY WorkersFacts DEF IInv, WorkerSend, workerRest
  <1>2. /\ dataChan \in Seq(Records) /\ Len(dataChan) <= ChanCap /\ sent \in [Records -> 0..MaxPasses]
        /\ wpc \in [Workers -> {"bind", "select", "limit", "done"}]
    BY <1>1 DEF TypeOK
  <1>3. h \in Records /\ dataChan' \in Seq(Records) /\ Len(dataChan') <= ChanCap
    BY <1>1, <1>2
  <1>4. \A r \in Records : InChan(r) = InChan(r)' + One(r, h)
    BY <1>1, <1>2, PlacesTail DEF InChan, Places
  <1>5. \A r \in Records : InChan(r)' \in Nat /\ One(r, h) \in {0, 1}
    <2>1. \A r \in Records : Cardinality(Places(dataChan', r)) \in Nat
      BY <1>3, FinitePlaces
    <2> QED
      BY <2>1 DEF InChan, Places, One
  <1>6. \A r \in Records :
           /\ sent[r] \in Nat /\ HandedOn(r) \in Nat /\ HandedOn(r) <= passes /\ passes \in 0..MaxPasses
           /\ HandedOn(r)' = HandedOn(r)
    BY <1>1, CountsAreNatural DEF HandedOn, readerVars
  <1>7. CASE WorkerGoesTo(w, "limit") /\ sent' = [sent EXCEPT ![h] = @ + 1]
    <2>1. \A r \in Records : sent'[r] = sent[r] + One(r, h)
      BY <1>2, <1>3, <1>7 DEF One
    <2>2. CountInv'
      <3> SUFFICES ASSUME NEW r \in Records
                   PROVE  /\ sent'[r] + InChan(r)' <= HandedOn(r)
                          /\ ~cancelled => sent'[r] + InChan(r)' = HandedOn(r)
        BY <1>1, <1>6, <1>7 DEF CountInv, Records, dbVars, groupVars, WorkerGoesTo
      <3>1. /\ sent[r] + InChan(r) <= HandedOn(r)
            /\ ~cancelled => sent[r] + InChan(r) = HandedOn(r)
        BY <1>1 DEF CountInv
      <3>2. \A s, n \in Nat : \A o \in {0, 1} : s + (n + o) = (s + o) + n
        OBVIOUS
      <3>3. sent[r] + InChan(r) = sent'[r] + InChan(r)'
        BY <1>4, <1>5, <1>6, <2>1, <3>2
      <3> QED
        BY <3>1, <3>3
    <2>3. sent' \in [Records -> 0..MaxPasses]
      <3>1. sent' \in [Records -> Nat]
        BY <1>2, <1>3, <1>7
      <3>2. ASSUME NEW r \in Records PROVE sent'[r] <= MaxPasses
        <4>1. sent'[r] + InChan(r)' <= HandedOn(r)
          BY <1>1, <1>6, <2>2 DEF CountInv, Records, dbVars
        <4>2. \A s, n, q, p, m \in Nat : s + n <= q /\ q <= p /\ p <= m => s <= m
          OBVIOUS
        <4>3. sent'[r] \in Nat /\ passes \in Nat /\ passes <= MaxPasses /\ MaxPasses \in Nat
          BY <1>6, <3>1
        <4> QED
          BY <1>5, <1>6, <4>1, <4>2, <4>3
      <3> QED
        BY <3>1, <3>2
    <2>4. TypeOK'
      BY <1>1, <1>2, <1>3, <1>7, <2>3 DEF TypeOK, dbVars, readerVars, Records, WorkerGoesTo, groupVars
    <2>5. GroupInv'
      BY <1>1, <1>2, <1>7 DEF GroupInv, readerVars, WorkerGoesTo, groupVars
    <2>6. ReaderInv'
      BY <1>1, <1>7 DEF ReaderInv, dbVars, readerVars, WorkerGoesTo, groupVars
    <2> QED
      BY <2>2, <2>4, <2>5, <2>6 DEF IInv
  <1>8. CASE WorkerFails(w) /\ UNCHANGED sent
    <2>1. CountInv'
      <3> SUFFICES ASSUME NEW r \in Records
                   PROVE  sent[r] + InChan(r)' <= HandedOn(r)
        BY <1>1, <1>6, <1>8 DEF CountInv, Records, dbVars, WorkerFails, Fail
      <3>1. sent[r] + InChan(r) <= HandedOn(r)
        BY <1>1 DEF CountInv
      <3>2. \A s, n, q \in Nat : \A o \in {0, 1} : s + (n + o) <= q => s + n <= q
        OBVIOUS
      <3> QED
        BY <1>4, <1>5, <1>6, <3>1, <3>2
    <2>2. TypeOK'
      <3>1. /\ alive' \subseteq Goroutines /\ firstErr' \in Goroutines \cup {NoErr}
            /\ cancelled' \in BOOLEAN /\ parentDone' \in BOOLEAN
        BY <1>1, <1>8, GroupStep DEF WorkerFails
      <3> QED
        BY <1>1, <1>2, <1>3, <1>8, <3>1 DEF TypeOK, dbVars, readerVars, Records, WorkerFails
    <2>3. GroupInv'
      BY <1>1, <1>2, <1>8 DEF GroupInv, readerVars, WorkerFails, Fail
    <2>4. ReaderInv'
      BY <1>1, <1>8 DEF ReaderInv, dbVars, readerVars, WorkerFails, Fail
    <2> QED
      BY <2>1, <2>2, <2>3, <2>4 DEF IInv
  <1> QED
    BY <1>7, <1>8 DEF WorkerSend

\* The caller's cancellation moves nothing.
LEMMA CancelStep == IInv /\ Cancel => IInv'
  <1> SUFFICES ASSUME IInv, Cancel PROVE IInv'
    OBVIOUS
  <1>1. /\ UNCHANGED <<dbVars, readerVars, dataChan, closed, wpc, sent>>
        /\ UNCHANGED <<alive, firstErr>> /\ cancelled' = TRUE /\ parentDone' = TRUE
        /\ TypeOK /\ ReaderInv /\ GroupInv
    BY DEF IInv, Cancel, ParentCancel
  <1>2. TypeOK'
    BY <1>1 DEF TypeOK, dbVars, readerVars, Records
  <1>3. ReaderInv'
    BY <1>1 DEF ReaderInv, dbVars, readerVars
  <1>4. GroupInv'
    BY <1>1 DEF GroupInv, readerVars
  <1>5. CountInv'
    BY <1>1, SameCounts DEF dbVars, readerVars
  <1> QED
    BY <1>2, <1>3, <1>4, <1>5 DEF IInv

\* Nothing is handed on, sent or waiting at the start.
LEMMA IInvInit == Init => IInv
  <1> SUFFICES ASSUME Init PROVE IInv
    OBVIOUS
  <1>1. /\ numRecords \in Nat /\ numRecords <= MaxRecords /\ unsupported \in 0..numRecords
        /\ cursor = 1 /\ passes = 0 /\ dataChan = <<>> /\ thisPass = 0 /\ rpc = "open"
        /\ sent = [r \in Records |-> 0] /\ wpc = [w \in Workers |-> "bind"] /\ ~closed
        /\ alive = Goroutines /\ firstErr = NoErr /\ ~cancelled /\ ~parentDone
    BY DEF Init, GroupInit
  <1>2. TypeOK
    <2>1. dataChan \in Seq(Records) /\ Len(dataChan) = 0
      BY <1>1
    <2>2. wpc \in [Workers -> {"bind", "select", "limit", "done"}]
      BY <1>1
    <2>3. sent \in [Records -> 0..MaxPasses] /\ passes \in 0..MaxPasses
      BY <1>1
    <2>4. /\ numRecords \in 0..MaxRecords /\ cursor \in 1..(numRecords + 1)
          /\ thisPass \in 0..numRecords /\ Len(dataChan) <= ChanCap
      BY <1>1, <2>1
    <2>5. alive \subseteq Goroutines /\ firstErr \in Goroutines \cup {NoErr}
      BY <1>1
    <2> QED
      BY <1>1, <2>1, <2>2, <2>3, <2>4, <2>5 DEF TypeOK, Init, GroupInit
  <1>3. ReaderInv
    BY <1>1 DEF ReaderInv
  <1>4. GroupInv
    BY <1>1, WorkersFacts DEF GroupInv
  <1>5. CountInv
    <2>1. \A r \in Records : Places(dataChan, r) = {}
      BY <1>1 DEF Places
    <2>2. \A r \in Records : InChan(r) = 0
      BY <2>1, FS_EmptySet DEF InChan, Places
    <2> QED
      BY <1>1, <2>2 DEF CountInv, HandedOn
  <1> QED
    BY <1>2, <1>3, <1>4, <1>5 DEF IInv

\* Every step keeps the invariant, and so does doing nothing.
LEMMA IInvNext == IInv /\ [Next]_vars => IInv'
  <1> SUFFICES ASSUME IInv, [Next]_vars PROVE IInv'
    OBVIOUS
  <1>1. CASE ReaderNext
    BY <1>1, ReaderQuietStep, ReaderTopStep, ReaderSendStep DEF ReaderNext
  <1>2. ASSUME NEW w \in Workers, WorkerNext(w) PROVE IInv'
    BY <1>2, WorkerQuietStep, WorkerSendStep DEF WorkerNext
  <1>3. CASE Cancel
    BY <1>3, CancelStep
  <1>4. CASE UNCHANGED vars
    <2> USE <1>4 DEF vars, dbVars, readerVars, groupVars
    <2>1. TypeOK'
      BY DEF IInv, TypeOK, Records
    <2>2. ReaderInv'
      BY DEF IInv, ReaderInv
    <2>3. GroupInv'
      BY DEF IInv, GroupInv
    <2>4. CountInv'
      BY SameCounts
    <2> QED
      BY <2>1, <2>2, <2>3, <2>4 DEF IInv
  <1> QED
    BY <1>1, <1>2, <1>3, <1>4 DEF Next

-----------------------------------------------------------------------------
(* The theorems *)

\* The invariant holds in every behaviour of the replay.
THEOREM Invariance == Spec => []IInv
  <1> QED
    BY IInvInit, IInvNext, PTL DEF Spec

\* dataChan never exceeds its capacity, the iterator never passes the end of the
\* database by more than one, and no record is sent more often than there are passes.
THEOREM TypeCorrect == Spec => []TypeOK
  <1>1. IInv => TypeOK
    BY DEF IInv
  <1> QED
    BY <1>1, Invariance, PTL

\* Between the reader, the channel and the workers no record is repeated, and while
\* nobody has stopped the replay none is lost.
THEOREM EachRecordOnce == Spec => []EachRecordOncePerPass
  <1>1. IInv => EachRecordOncePerPass
    <2> SUFFICES ASSUME IInv, NEW r \in Records
                 PROVE  /\ sent[r] + InChan(r) <= passes
                        /\ ~cancelled => sent[r] + InChan(r) = HandedOn(r)
      BY DEF EachRecordOncePerPass
    <2>1. /\ sent[r] \in Nat /\ InChan(r) \in Nat
          /\ HandedOn(r) \in Nat /\ HandedOn(r) <= passes /\ passes \in Nat
      BY CountsAreNatural DEF IInv
    <2>2. /\ sent[r] + InChan(r) <= HandedOn(r)
          /\ ~cancelled => sent[r] + InChan(r) = HandedOn(r)
      BY DEF IInv, CountInv
    <2>3. sent[r] + InChan(r) \in Nat
      BY <2>1
    <2> QED
      BY <2>1, <2>2, <2>3
  <1> QED
    BY <1>1, Invariance, PTL

\* Without --loop, a replay that returns nil and was not cancelled has sent every
\* record of the database exactly once: the close of dataChan reaches a worker only
\* behind the last record.
THEOREM ReplayedOnce == Spec => []ReplayedExactlyOnce
  <1>1. IInv => ReplayedExactlyOnce
    <2> SUFFICES ASSUME IInv, Returned, firstErr = NoErr, ~parentDone, NEW r \in Records
                 PROVE  sent[r] = 1
      BY DEF ReplayedExactlyOnce
    <2>1. TypeOK /\ ReaderInv /\ GroupInv /\ CountInv /\ alive = {}
      BY DEF IInv, Returned
    <2>2. rpc = "done" /\ ~cancelled
      BY <2>1 DEF GroupInv
    <2>3. ~loop /\ passes = 1 /\ cursor = numRecords + 1
      BY <2>1, <2>2 DEF ReaderInv, TypeOK
    <2>4. dataChan = <<>>
      <3>1. PICK w \in Workers : TRUE
        BY WorkersFacts
      <3> QED
        BY <2>1, <2>2, <3>1 DEF GroupInv
    <2>5. Places(dataChan, r) = {}
      BY <2>4 DEF Places
    <2>6. InChan(r) = 0
      BY <2>5, FS_EmptySet DEF InChan, Places
    <2>7. HandedOn(r) = 1
      BY <2>1, <2>3 DEF HandedOn, Records, TypeOK
    <2>8. sent[r] + InChan(r) = HandedOn(r) /\ sent[r] \in Nat
      BY <2>1, <2>2, CountsAreNatural DEF CountInv
    <2> QED
      BY <2>6, <2>7, <2>8
  <1> QED
    BY <1>1, Invariance, PTL
=============================================================================
