---------------------- MODULE NetFlowValidator_proofs ----------------------
(***************************************************************************)
(* Proofs about NetFlowValidator, for every payload length, whatever words *)
(* the packet holds, and every capacity of the count field.                *)
(***************************************************************************)
EXTENDS NetFlowValidator, WellFoundedInduction, TLAPS

USE LengthsAssumption, WordsAssumption, FieldLengthsAssumption, MaxFlowCountAssumption
USE DEF HeaderSize

-----------------------------------------------------------------------------
(* The walk *)

\* Where the walk is, and that it has read nothing beyond: the records and the
\* field specifiers announced so far end at or before setEnd, inside the payload.
Cursor ==
    /\ rd.to <= len
    /\ pc = "header" => rd.to = 0
    /\ pc = "set" => offset <= len /\ rd.to <= offset
    /\ pc \in {"record", "field"} =>
          /\ setID \in {TemplateSet, OptionsSet}
          /\ setOffset + remaining = setEnd /\ setEnd <= len
    /\ pc = "record" => rd.to <= setOffset
    /\ pc = "field" =>
          /\ tmplID \in Words /\ tmplID >= 256
          /\ setOffset <= fieldAt /\ rd.to <= fieldAt /\ fieldAt + 4 * fields <= setEnd

\* The inductive invariant of the walk.
Walk == PlacesOK /\ Cursor

\* The walk starts before the header, with nothing read.
LEMMA WalkInit == Init => Walk
  BY DEF Init, Walk, PlacesOK, Cursor

\* A verdict leaves the walk where it is.
LEMMA VerdictWalks ==
    ASSUME Walk, NEW v \in {"valid", "invalid"}, Verdict(v), flowCount' \in 0..MaxFlowCount,
           rd' \in [from : Nat, to : Nat], rd'.to <= len
    PROVE  Walk'
  BY DEF Verdict, setVars, recordVars, fieldVars, Walk, PlacesOK, Cursor

\* The header: a wrong version ends the walk, else it stands at 20.
LEMMA HeaderWalks == Walk /\ ReadHeader => Walk'
  <1> SUFFICES ASSUME Walk, ReadHeader PROVE Walk'
    OBVIOUS
  <1>0. /\ pc = "header" /\ flowCount' \in 0..MaxFlowCount
        /\ rd' \in [from : Nat, to : Nat] /\ rd'.to <= len
    BY DEF ReadHeader, Reads, Walk, PlacesOK, Cursor
  <1>1. CASE Reject
    BY <1>0, <1>1, VerdictWalks DEF Reject
  <1>2. CASE ~Reject
    <2>0. /\ HeaderSize <= len /\ rd' = [from |-> 0, to |-> HeaderSize]
          /\ pc' = "set" /\ offset' = HeaderSize
          /\ UNCHANGED <<len, setID, setEnd, setCount, recordVars, fieldVars, verdict>>
      BY <1>2 DEF ReadHeader, Reads
    <2> QED
      BY <1>0, <2>0 DEF recordVars, fieldVars, Walk, PlacesOK, Cursor
  <1> QED
    BY <1>1, <1>2

\* Leaving a FlowSet puts the walk at its end.
LEMMA EndSetWalks ==
    ASSUME Walk, NEW end \in Nat, EndSet(end), pc # "done", end <= len,
           setID' \in Words \cup {0}, setEnd' \in Nat,
           UNCHANGED <<headVars, recordVars, fieldVars, verdict>>,
           rd' \in [from : Nat, to : Nat], rd'.to <= end
    PROVE  Walk'
  BY DEF EndSet, headVars, recordVars, fieldVars, Walk, PlacesOK, Cursor

\* The head of the loop over FlowSets.
LEMMA SetWalks == Walk /\ SetStep => Walk'
  <1> SUFFICES ASSUME Walk, SetStep PROVE Walk'
    OBVIOUS
  <1>0. /\ pc = "set" /\ offset \in Nat /\ len \in Nat /\ flowCount \in 0..MaxFlowCount
        /\ rd \in [from : Nat, to : Nat] /\ rd.to <= len
    BY DEF SetStep, SetsDone, SetHeaderCut, ReadSet, Walk, PlacesOK, Cursor
  <1>1. CASE SetsDone
    BY <1>0, <1>1 DEF SetsDone, headVars, setVars, recordVars, fieldVars, Walk, PlacesOK, Cursor
  <1>2. CASE SetHeaderCut
    BY <1>0, <1>2, VerdictWalks DEF SetHeaderCut, Reject
  <1>3. CASE ReadSet
    <2>1. /\ rd' = [from |-> offset, to |-> offset + 4] /\ rd'.to <= len
          /\ rd' \in [from : Nat, to : Nat] /\ flowCount' = flowCount
      BY <1>0, <1>3 DEF ReadSet, Reads
    <2>2. CASE Reject
      BY <1>0, <2>1, <2>2, VerdictWalks DEF Reject
    <2>3. ASSUME NEW id \in Words, NEW length \in Words, SetFits(length),
                 DataSet(id, length - 4)
          PROVE  Walk'
      <3>1. CASE Reject
        BY <2>2, <3>1
      <3>2. CASE ~Reject
        <4>1. /\ EndSet(offset + length) /\ setID' = id /\ setEnd' = offset + length
              /\ UNCHANGED <<len, recordVars, fieldVars, verdict>>
              /\ length >= 4 /\ offset + length <= len /\ offset + length \in Nat
          BY <1>0, <2>3, <3>2 DEF DataSet, SetFits
        <4> QED
          BY <1>0, <2>1, <4>1, EndSetWalks DEF headVars
      <3> QED
        BY <3>1, <3>2
    <2>4. ASSUME NEW id \in {TemplateSet, OptionsSet} \cap Words, NEW length \in Words, SetFits(length),
                 pc' = "record", setID' = id, setEnd' = offset + length,
                 setOffset' = offset + 4, remaining' = length - 4, parsed' = 0,
                 UNCHANGED <<len, offset, setCount, fieldVars, verdict>>
          PROVE  Walk'
      BY <1>0, <2>1, <2>4 DEF SetFits, fieldVars, Walk, PlacesOK, Cursor
    <2> QED
      BY <1>3, <2>2, <2>3, <2>4 DEF ReadSet
  <1> QED
    BY <1>1, <1>2, <1>3 DEF SetStep

\* The loop over template records: FieldsInside keeps every specifier that a
\* record announces in front of the FlowSet's end.
LEMMA RecordWalks == Walk /\ RecordStep => Walk'
  <1> SUFFICES ASSUME Walk, RecordStep PROVE Walk'
    OBVIOUS
  <1>0. /\ pc = "record" /\ setOffset \in Nat /\ remaining \in Nat /\ len \in Nat
        /\ setEnd \in Nat /\ setOffset + remaining = setEnd /\ setEnd <= len
        /\ rd \in [from : Nat, to : Nat] /\ rd.to <= setOffset
        /\ flowCount \in 0..MaxFlowCount /\ flowCount' = flowCount
        /\ RecordHeader \in {4, 6}
    BY DEF RecordStep, EndRecords, ReadTemplate, ReadOptionsTemplate, RecordHeader,
           Walk, PlacesOK, Cursor
  <1>1. ASSUME Reject, rd' \in [from : Nat, to : Nat], rd'.to <= len PROVE Walk'
    BY <1>0, <1>1, VerdictWalks DEF Reject
  <1>2. ASSUME NEW id \in Words, id >= 256, NEW count \in Nat, StartFields(id, count),
               FieldsInside(4 * count), rd'.to <= setOffset + RecordHeader,
               rd' \in [from : Nat, to : Nat]
        PROVE  Walk'
    BY <1>0, <1>2 DEF StartFields, FieldsInside, setVars, recordVars, Walk, PlacesOK, Cursor
  <1>3. CASE EndRecords
    <2>1. rd' \in [from : Nat, to : Nat] /\ rd'.to <= setEnd
      BY <1>0, <1>3 DEF EndRecords, Reads
    <2>2. CASE Reject
      BY <1>0, <1>1, <2>1, <2>2
    <2>3. CASE ~Reject
      <3>1. /\ EndSet(setEnd)
            /\ UNCHANGED <<len, setID, setEnd, recordVars, fieldVars, verdict>>
        BY <1>3, <2>3 DEF EndRecords
      <3>2. setID \in Words \cup {0}
        BY DEF Walk, PlacesOK
      <3> QED
        BY <1>0, <2>1, <3>1, <3>2, EndSetWalks DEF headVars
    <2> QED
      BY <2>2, <2>3
  <1>4. CASE ReadTemplate
    <2>1. RecordHeader = 4 /\ rd' = [from |-> setOffset, to |-> setOffset + 4] /\ 4 <= remaining
      BY <1>4 DEF ReadTemplate, Reads, RecordHeader
    <2>2. CASE Reject
      BY <1>0, <1>1, <2>1, <2>2
    <2>3. CASE ~Reject
      <3>1. PICK id \in Words, count \in Words :
              id >= 256 /\ FieldsInside(4 * count) /\ StartFields(id, count)
        BY <1>4, <2>3 DEF ReadTemplate
      <3> QED
        BY <1>0, <1>2, <2>1, <3>1
    <2> QED
      BY <2>2, <2>3
  <1>5. CASE ReadOptionsTemplate
    <2>1. /\ RecordHeader = 6 /\ rd' = [from |-> setOffset, to |-> setOffset + 6]
          /\ 6 <= remaining
      BY <1>5 DEF ReadOptionsTemplate, Reads, RecordHeader, TemplateSet, OptionsSet
    <2>2. CASE Reject
      BY <1>0, <1>1, <2>1, <2>2
    <2>3. CASE ~Reject
      <3>1. PICK id \in Words, scopeLen \in Words, optLen \in Words :
              /\ id >= 256 /\ scopeLen % 4 = 0 /\ optLen % 4 = 0 /\ FieldsInside(scopeLen + optLen)
              /\ StartFields(id, (scopeLen + optLen) \div 4)
        BY <1>5, <2>3 DEF ReadOptionsTemplate
      <3>2. PICK count \in Nat : count = (scopeLen + optLen) \div 4 /\ 4 * count = scopeLen + optLen
        BY <3>1
      <3> QED
        BY <1>0, <1>2, <2>1, <3>1, <3>2
    <2> QED
      BY <2>2, <2>3
  <1> QED
    BY <1>3, <1>4, <1>5 DEF RecordStep

\* The loop over field specifiers ends where its record does.
LEMMA FieldWalks == Walk /\ FieldStep => Walk'
  <1> SUFFICES ASSUME Walk, FieldStep PROVE Walk'
    OBVIOUS
  <1>0. /\ pc = "field" /\ fieldAt \in Nat /\ fields \in Nat /\ setOffset \in Nat
        /\ remaining \in Nat /\ recordSize \in Nat /\ len \in Nat /\ setEnd \in Nat
        /\ setOffset + remaining = setEnd /\ setEnd <= len
        /\ setOffset <= fieldAt /\ fieldAt + 4 * fields <= setEnd
        /\ rd.to <= fieldAt /\ flowCount \in 0..MaxFlowCount
    BY DEF FieldStep, ReadField, EndFields, Walk, PlacesOK, Cursor
  <1>1. CASE EndFields
    BY <1>0, <1>1 DEF EndFields, NextRecord, headVars, setVars, fieldVars, Walk, PlacesOK, Cursor
  <1>2. CASE ReadField
    <2>1. /\ fields > 0 /\ rd' = [from |-> fieldAt + 2, to |-> fieldAt + 4]
          /\ flowCount' = flowCount /\ rd'.to <= len
      BY <1>0, <1>2 DEF ReadField, Reads
    <2>2. CASE Reject
      BY <1>0, <2>1, <2>2, VerdictWalks DEF Reject
    <2>3. CASE ~Reject
      <3>1. PICK fLength \in FieldLengths :
              /\ recordSize' = recordSize + fLength
              /\ fieldAt' = fieldAt + 4 /\ fields' = fields - 1
              /\ UNCHANGED <<len, pc, setVars, recordVars, tmplID, verdict>>
        BY <1>2, <2>3 DEF ReadField
      <3> QED
        BY <1>0, <2>1, <3>1 DEF setVars, recordVars, Walk, PlacesOK, Cursor
    <2> QED
      BY <2>2, <2>3
  <1> QED
    BY <1>1, <1>2 DEF FieldStep

\* Counting reads nothing.
LEMMA CountWalks == Walk /\ CountStep => Walk'
  <1> SUFFICES ASSUME Walk, CountStep PROVE Walk'
    OBVIOUS
  <1>0. /\ flowCount' = flowCount /\ rd' = rd /\ flowCount \in 0..MaxFlowCount
        /\ rd \in [from : Nat, to : Nat] /\ rd.to <= len /\ pc = "deferred"
    BY DEF CountStep, Resolve, Conclude, Walk, PlacesOK, Cursor
  <1>1. CASE \E v \in {"valid", "invalid"} : Verdict(v)
    BY <1>0, <1>1, VerdictWalks
  <1>2. CASE UNCHANGED <<len, pc, setVars, recordVars, fieldVars, verdict>>
    BY <1>0, <1>2 DEF setVars, recordVars, fieldVars, Walk, PlacesOK, Cursor
  <1> QED
    BY <1>1, <1>2 DEF CountStep, Resolve, Conclude, Reject

\* Every step keeps the walk inside the payload.
LEMMA WalkStep == Walk /\ [Next]_vars => Walk'
  <1>1. Walk /\ UNCHANGED vars => Walk'
    BY DEF vars, headVars, setVars, recordVars, fieldVars, Walk, PlacesOK, Cursor
  <1> QED
    BY <1>1, HeaderWalks, SetWalks, RecordWalks, FieldWalks, CountWalks DEF Next

\* The invariant of the walk holds on every packet.
THEOREM Walking == Spec => []Walk
  BY WalkInit, WalkStep, PTL DEF Spec

\* The validator never reads past the end of the payload
\* (NetFlowValidator.ReadsInside), whatever the packet claims.
THEOREM NeverReadsOutside == Spec => []ReadsInside
  BY Walking, PTL DEF Walk, Cursor, ReadsInside

\* No byte is interpreted twice (NetFlowValidator.ReadsForward): every read
\* starts where the cursor is, and the cursor is past every earlier read.
THEOREM NothingIsReadTwice == Spec => ReadsForward
  <1> DEFINE Forward == rd' # rd => rd'.from >= rd.to
  <1>1. Walk /\ [Next]_vars => [Forward]_vars
    <2> SUFFICES ASSUME Walk, Next PROVE Forward
      OBVIOUS
    <2> USE DEF Walk, PlacesOK, Cursor, Reads
    <2>1. CASE ReadHeader
      BY <2>1 DEF ReadHeader
    <2>2. CASE SetStep
      BY <2>2 DEF SetStep, SetsDone, SetHeaderCut, ReadSet
    <2>3. CASE RecordStep
      BY <2>3 DEF RecordStep, EndRecords, ReadTemplate, ReadOptionsTemplate
    <2>4. CASE FieldStep
      BY <2>4 DEF FieldStep, EndFields, ReadField
    <2>5. CASE CountStep
      BY <2>5 DEF CountStep, Resolve, Conclude
    <2> QED
      BY <2>1, <2>2, <2>3, <2>4, <2>5 DEF Next
  <1> QED
    BY <1>1, Walking, PTL DEF Spec, ReadsForward

-----------------------------------------------------------------------------
(* The counts *)

\* A set that grows by one number has extremes if it was empty or had them.
LEMMA OneMore ==
    ASSUME NEW T \in SUBSET Int, NEW b \in Int,
           \/ T = {}
           \/ (\E x \in T : \A y \in T : x <= y) /\ (\E x \in T : \A y \in T : y <= x)
    PROVE  /\ \E x \in T \cup {b} : \A y \in T \cup {b} : x <= y
           /\ \E x \in T \cup {b} : \A y \in T \cup {b} : y <= x
  <1>1. CASE T = {}
    BY <1>1
  <1>2. CASE T # {}
    <2>1. PICK least \in T, greatest \in T : \A y \in T : least <= y /\ y <= greatest
      BY <1>2
    <2>2. \E x \in T \cup {b} : \A y \in T \cup {b} : x <= y
      <3>1. CASE least <= b
        BY <2>1, <3>1
      <3>2. CASE b <= least
        BY <2>1, <3>2
      <3> QED
        BY <2>1, <3>1, <3>2
    <2>3. \E x \in T \cup {b} : \A y \in T \cup {b} : y <= x
      <3>1. CASE b <= greatest
        BY <2>1, <3>1
      <3>2. CASE greatest <= b
        BY <2>1, <3>2
      <3> QED
        BY <2>1, <3>1, <3>2
    <2> QED
      BY <2>2, <2>3
  <1> QED
    BY <1>1, <1>2

\* A set of naturals with at most four members has a least and a greatest one.
LEMMA Extremes ==
    ASSUME NEW f, \A p \in 0..3 : f[p] \in Nat, NEW P \in SUBSET (0..3), P # {}
    PROVE  LET S == {f[p] : p \in P}
           IN  /\ \E x \in S : \A y \in S : x <= y
               /\ \E x \in S : \A y \in S : y <= x
  <1> DEFINE S == {f[p] : p \in P}
             Upto(n) == {f[p] : p \in P \cap 0..n}
             Ordered(T) == \/ T = {}
                           \/ /\ \E x \in T : \A y \in T : x <= y
                              /\ \E x \in T : \A y \in T : y <= x
  <1>1. Ordered(Upto(0))
    BY DEF Upto
  <1>2. ASSUME NEW n \in 0..2, Ordered(Upto(n)) PROVE Ordered(Upto(n + 1))
    <2>1. Upto(n) \in SUBSET Int
      OBVIOUS
    <2>2. CASE n + 1 \in P
      <3>1. Upto(n + 1) = Upto(n) \cup {f[n + 1]}
        BY <2>2
      <3>2. f[n + 1] \in Int
        OBVIOUS
      <3> HIDE DEF Upto
      <3> QED
        BY <1>2, <2>1, <3>1, <3>2, OneMore
    <2>3. CASE n + 1 \notin P
      <3>1. Upto(n + 1) = Upto(n)
        BY <2>3
      <3> QED
        BY <1>2, <3>1
    <2> QED
      BY <2>2, <2>3
  <1>3. S = Upto(3) /\ S # {}
    OBVIOUS
  <1>4. Ordered(Upto(3))
    <2> HIDE DEF Ordered
    <2>1. Ordered(Upto(0 + 1))
      BY <1>1, <1>2
    <2>2. Ordered(Upto(1 + 1))
      BY <2>1, <1>2
    <2>3. Ordered(Upto(2 + 1))
      BY <2>2, <1>2
    <2> QED
      BY <2>3
  <1> QED
    BY <1>3, <1>4

\* countDataRecordsRange returns a range of naturals when there is a layout.
LEMMA CountRange ==
    ASSUME NEW bytes \in Nat, NEW size \in Nat \ {0}, Layouts(bytes, size) # {}
    PROVE  /\ Min(Layouts(bytes, size)) \in Nat /\ Max(Layouts(bytes, size)) \in Nat
           /\ Min(Layouts(bytes, size)) <= Max(Layouts(bytes, size))
           /\ Layouts(bytes, size) \subseteq Nat
           /\ Min(Layouts(bytes, size)) \in Layouts(bytes, size)
           /\ Max(Layouts(bytes, size)) \in Layouts(bytes, size)
           /\ \A y \in Layouts(bytes, size) :
                 Min(Layouts(bytes, size)) <= y /\ y <= Max(Layouts(bytes, size))
  <1> DEFINE f == [p \in 0..3 |-> IF bytes - p > 0 THEN (bytes - p) \div size ELSE 0]
             P == {p \in 0..3 : bytes - p > 0 /\ (bytes - p) % size = 0}
             L == Layouts(bytes, size)
  <1>1. \A p \in 0..3 : f[p] \in Nat
    OBVIOUS
  <1>2. L = {f[p] : p \in P} /\ P \in SUBSET (0..3) /\ P # {}
    BY DEF Layouts
  <1>3. L \subseteq Nat
    BY <1>1, <1>2
  <1> HIDE DEF f, P, L
  <1>4. (\E x \in L : \A y \in L : x <= y) /\ (\E x \in L : \A y \in L : y <= x)
    BY <1>1, <1>2, Extremes
  <1>5. /\ Min(L) \in L /\ \A y \in L : Min(L) <= y
        /\ Max(L) \in L /\ \A y \in L : Max(L) >= y
    BY <1>3, <1>4 DEF Min, Max
  <1> QED
    BY <1>3, <1>5 DEF L

\* A layout is a number of records, at least one, that leaves zero to three bytes.
LEMMA LayoutMeaning ==
    ASSUME NEW bytes \in Nat, NEW size \in Nat \ {0}, NEW n \in Nat
    PROVE  n \in Layouts(bytes, size) <=> n > 0 /\ \E pad \in 0..3 : n * size + pad = bytes
  <1>1. ASSUME n \in Layouts(bytes, size)
        PROVE  n > 0 /\ \E pad \in 0..3 : n * size + pad = bytes
    <2>1. PICK pad \in 0..3 : /\ bytes - pad > 0 /\ (bytes - pad) % size = 0
                             /\ n = (bytes - pad) \div size
      BY <1>1 DEF Layouts
    <2>2. bytes - pad = size * n
      BY <2>1
    <2> QED
      BY <2>1, <2>2
  <1>2. ASSUME n > 0, NEW pad \in 0..3, n * size + pad = bytes
        PROVE  n \in Layouts(bytes, size)
    <2>1. bytes - pad = n * size /\ n * size > 0
      BY <1>2
    <2>2. (n * size) % size = 0 /\ (n * size) \div size = n
      OBVIOUS
    <2> QED
      BY <1>2, <2>1, <2>2 DEF Layouts
  <1> QED
    BY <1>1, <1>2

\* The range countDataRecordsRange returns has no gaps: every count in it is a
\* layout of the Data FlowSet, so summing ends of ranges loses nothing.
THEOREM RangeHasNoGaps ==
    ASSUME NEW bytes \in Nat, NEW size \in Nat \ {0}, Layouts(bytes, size) # {}
    PROVE  Layouts(bytes, size) = Min(Layouts(bytes, size))..Max(Layouts(bytes, size))
  <1> DEFINE L == Layouts(bytes, size)
             lo == Min(L)
             hi == Max(L)
  <1>1. /\ L \subseteq Nat
        /\ lo \in L /\ \A y \in L : lo <= y
        /\ hi \in L /\ \A y \in L : y <= hi
    BY CountRange
  <1> HIDE DEF lo, hi, L
  <1>2. \A k \in Nat : k \in L <=> k > 0 /\ \E pad \in 0..3 : k * size + pad = bytes
    BY LayoutMeaning DEF L
  <1>3. ASSUME NEW n \in lo..hi PROVE n \in L
    <2>1. lo \in Nat /\ hi \in Nat /\ lo > 0 /\ n \in Nat /\ n > 0 /\ lo <= n /\ n <= hi
      BY <1>1, <1>2
    <2>2. PICK p \in 0..3 : lo * size + p = bytes
      BY <1>1, <1>2
    <2>3. PICK q \in 0..3 : hi * size + q = bytes
      BY <1>1, <1>2
    <2>4. lo * size <= n * size /\ n * size <= hi * size
      BY <2>1
    <2>5. \E pad \in 0..3 : n * size + pad = bytes
      <3> DEFINE below == lo * size
                 here == n * size
                 above == hi * size
      <3>1. below \in Nat /\ here \in Nat /\ above \in Nat
        BY <2>1
      <3>2. below + p = bytes /\ above + q = bytes /\ below <= here /\ here <= above
        BY <2>2, <2>3, <2>4
      <3> HIDE DEF below, here, above
      <3>3. bytes - here \in 0..3 /\ here + (bytes - here) = bytes
        BY <3>1, <3>2
      <3> QED
        BY <3>3 DEF here
    <2> QED
      BY <1>2, <2>1, <2>5
  <1>4. L = lo..hi
    <2>1. ASSUME NEW n \in L PROVE n \in lo..hi
      <3>1. n \in Nat /\ lo \in Nat /\ hi \in Nat /\ lo <= n /\ n <= hi
        BY <1>1
      <3> QED
        BY <3>1
    <2> QED
      BY <1>3, <2>1
  <1> QED
    BY <1>4 DEF L, lo, hi

-----------------------------------------------------------------------------
(* The totals *)

\* A verdict leaves the counts alone.
LEMMA VerdictCounts == ASSUME CountsOK, NEW v, Verdict(v) PROVE CountsOK'
  BY DEF Verdict, countVars, CountsOK

\* A FlowSet whose record size is known raises both totals by its range.
LEMMA CountRecordsCounts ==
    ASSUME CountsOK, NEW bytes \in Nat, NEW id, SizeKnown(id),
           Layouts(bytes, sizes[id]) # {}, CountRecords(bytes, sizes[id])
    PROVE  /\ minRecords' \in Nat /\ maxRecords' \in Nat
           /\ minRecords' <= maxRecords' \/ unresolved
  <1>1. sizes[id] \in Nat \ {0}
    BY DEF CountsOK, SizeKnown
  <1> DEFINE lo == Min(Layouts(bytes, sizes[id]))
             hi == Max(Layouts(bytes, sizes[id]))
  <1>2. lo \in Nat /\ hi \in Nat /\ lo <= hi
    BY <1>1, CountRange
  <1>3. minRecords' = minRecords + lo /\ maxRecords' = maxRecords + hi
    BY DEF CountRecords
  <1> HIDE DEF lo, hi
  <1> QED
    BY <1>2, <1>3 DEF CountsOK

\* A Data FlowSet is counted or put off.
LEMMA DataSetCounts ==
    ASSUME CountsOK, NEW id \in Words, NEW bytes \in Int, DataSet(id, bytes)
    PROVE  CountsOK'
  <1>1. CASE Reject
    BY <1>1, VerdictCounts DEF Reject
  <1>2. CASE ~Reject
    <2> DEFINE Sight == [kind : {"template", "data"}, id : Words, size : Nat]
               Info == [id : Words, bytes : Nat \ {0}]
               sight == [kind |-> "data", id |-> id, size |-> bytes]
               info == [id |-> id, bytes |-> bytes]
    <2>1. bytes \in Nat \ {0} /\ sight \in Sight /\ info \in Info
      BY <1>2 DEF DataSet
    <2>2. seen' = Append(seen, sight) /\ UNCHANGED <<sizes, unresolved>>
      BY <1>2 DEF DataSet
    <2>3. seen' \in Seq(Sight)
      <3>1. seen \in Seq(Sight)
        BY DEF CountsOK
      <3> HIDE DEF Sight, sight
      <3> QED
        BY <2>1, <2>2, <3>1
    <2>4. CASE SizeKnown(id) /\ Layouts(bytes, sizes[id]) # {} /\ CountRecords(bytes, sizes[id])
               /\ UNCHANGED deferred
      <3>1. /\ minRecords' \in Nat /\ maxRecords' \in Nat
            /\ minRecords' <= maxRecords' \/ unresolved
        BY <2>1, <2>4, CountRecordsCounts
      <3> QED
        BY <2>2, <2>3, <2>4, <3>1 DEF CountsOK
    <2>5. CASE deferred' = Append(deferred, info) /\ UNCHANGED <<minRecords, maxRecords>>
      <3>1. deferred' \in Seq(Info)
        <4>1. deferred \in Seq(Info)
          BY DEF CountsOK
        <4> HIDE DEF Info, info
        <4> QED
          BY <2>1, <2>5, <4>1
      <3> QED
        BY <2>2, <2>3, <2>5, <3>1 DEF CountsOK
    <2> QED
      BY <1>2, <2>4, <2>5 DEF DataSet
  <1> QED
    BY <1>1, <1>2

\* The steps of the walk over templates learn their sizes and count them.
LEMMA TemplateCounts == Walk /\ CountsOK /\ (RecordStep \/ FieldStep) => CountsOK'
  <1> SUFFICES ASSUME Walk, CountsOK, RecordStep \/ FieldStep PROVE CountsOK'
    OBVIOUS
  <1>1. CASE Reject
    BY <1>1, VerdictCounts DEF Reject
  <1>2. CASE EndRecords /\ ~Reject
    BY <1>2 DEF EndRecords, Walk, PlacesOK, CountsOK
  <1>3. CASE UNCHANGED <<sizes, countVars, seen>>
    BY <1>3 DEF countVars, CountsOK
  <1>4. CASE EndFields
    <2> DEFINE Sight == [kind : {"template", "data"}, id : Words, size : Nat]
               sight == [kind |-> "template", id |-> tmplID, size |-> recordSize]
    <2>1. pc = "field" /\ tmplID \in Words /\ tmplID >= 256 /\ recordSize \in Nat
      BY <1>4 DEF EndFields, Walk, PlacesOK, Cursor
    <2>2. seen' \in Seq(Sight)
      <3>1. seen \in Seq(Sight) /\ sight \in Sight /\ seen' = Append(seen, sight)
        BY <1>4, <2>1 DEF EndFields, CountsOK
      <3> HIDE DEF Sight, sight
      <3> QED
        BY <3>1
    <2>3. /\ DOMAIN sizes' \subseteq {id \in Words : id >= 256}
          /\ \A id \in DOMAIN sizes' : sizes'[id] \in Nat
      BY <1>4, <2>1 DEF EndFields, Learn, CountsOK
    <2> QED
      BY <1>4, <2>2, <2>3 DEF EndFields, countVars, CountsOK
  <1> QED
    BY <1>1, <1>2, <1>3, <1>4
    DEF RecordStep, FieldStep, ReadTemplate, ReadOptionsTemplate, StartFields, ReadField

\* Putting the deferred FlowSets right keeps the totals a range.
LEMMA DeferredCounts == CountsOK /\ CountStep => CountsOK'
  <1> SUFFICES ASSUME CountsOK, CountStep PROVE CountsOK'
    OBVIOUS
  <1>1. CASE \E v \in {"valid", "invalid"} : Verdict(v)
    BY <1>1, VerdictCounts
  <1>2. CASE Resolve /\ ~Reject
    <2> DEFINE Info == [id : Words, bytes : Nat \ {0}]
               info == Head(deferred)
    <2>1. /\ deferred \in Seq(Info) /\ deferred # <<>> /\ deferred' = Tail(deferred)
          /\ UNCHANGED <<sizes, seen>>
      BY <1>2 DEF Resolve, CountsOK
    <2>2. info \in Info /\ deferred' \in Seq(Info)
      <3> HIDE DEF Info
      <3> QED
        BY <2>1
    <2>3. CASE Unresolved
      BY <2>1, <2>2, <2>3 DEF Unresolved, CountsOK
    <2>4. CASE /\ SizeKnown(info.id) /\ Layouts(info.bytes, sizes[info.id]) # {}
               /\ CountRecords(info.bytes, sizes[info.id]) /\ UNCHANGED unresolved
      <3>1. /\ minRecords' \in Nat /\ maxRecords' \in Nat
            /\ minRecords' <= maxRecords' \/ unresolved
        BY <2>2, <2>4, CountRecordsCounts
      <3> QED
        BY <2>1, <2>2, <2>4, <3>1 DEF CountsOK
    <2> QED
      BY <1>2, <2>3, <2>4 DEF Resolve
  <1> QED
    BY <1>1, <1>2 DEF CountStep, Conclude, Reject

\* The validator's state is well typed on every packet
\* (NetFlowValidator.TypeOK), and its totals are a range of counts.
THEOREM TypeCorrect == Spec => []TypeOK
  <1>1. Init => CountsOK
    <2> SUFFICES ASSUME Init PROVE CountsOK
      OBVIOUS
    <2>1. DOMAIN sizes = {}
      BY DEF Init
    <2>2. /\ deferred \in Seq([id : Words, bytes : Nat \ {0}])
          /\ seen \in Seq([kind : {"template", "data"}, id : Words, size : Nat])
      BY DEF Init
    <2>3. minRecords = 0 /\ maxRecords = 0 /\ unresolved = FALSE
      BY DEF Init
    <2>4. minRecords \in Nat /\ maxRecords \in Nat /\ minRecords <= maxRecords
      BY <2>3
    <2>5. unresolved \in BOOLEAN
      BY <2>3
    <2> QED
      BY <2>1, <2>2, <2>4, <2>5 DEF CountsOK
  <1>2. Walk /\ CountsOK /\ [Next]_vars => CountsOK'
    <2> SUFFICES ASSUME Walk, CountsOK, [Next]_vars PROVE CountsOK'
      OBVIOUS
    <2>1. CASE UNCHANGED vars
      BY <2>1 DEF vars, countVars, CountsOK
    <2>2. CASE ReadHeader
      <3>1. CASE Reject
        BY <3>1, VerdictCounts DEF Reject
      <3> QED
        BY <2>2, <3>1 DEF ReadHeader, countVars, CountsOK
    <2>3. CASE SetStep
      <3>1. CASE Reject
        BY <3>1, VerdictCounts DEF Reject
      <3>2. CASE UNCHANGED <<sizes, countVars, seen>>
        BY <3>2 DEF countVars, CountsOK
      <3>3. CASE \E id, length \in Words : DataSet(id, length - 4)
        BY <3>3, DataSetCounts
      <3> QED
        BY <2>3, <3>1, <3>2, <3>3 DEF SetStep, SetsDone, SetHeaderCut, ReadSet
    <2> QED
      BY <2>1, <2>2, <2>3, TemplateCounts, DeferredCounts DEF Next
  <1> QED
    BY <1>1, <1>2, Walking, PTL DEF Spec, Walk, TypeOK

-----------------------------------------------------------------------------
(* What a packet holds, in terms of the things seen in it *)

\* A set of natural numbers has a least one.
LEMMA LeastNatural ==
    ASSUME NEW T \in SUBSET Nat, T # {}
    PROVE  \E x \in T : \A y \in T : x <= y
  <1>1. PICK x \in T : \A y \in T : ~(<<y, x>> \in OpToRel(<, Nat))
    BY NatLessThanWellFounded, WFMin
  <1>2. ASSUME NEW y \in T PROVE x <= y
    <2>1. x \in Nat /\ y \in Nat
      OBVIOUS
    <2>2. ~(y < x)
      <3>1. ~(<<y, x>> \in OpToRel(<, Nat))
        BY <1>1
      <3> QED
        BY <2>1, <3>1 DEF OpToRel
    <2> QED
      BY <2>1, <2>2
  <1> QED
    BY <1>2

\* Induction over the natural numbers, for a set of them.
LEMMA SetInduction ==
    ASSUME NEW G \in SUBSET Nat, 0 \in G, \A n \in G : n + 1 \in G
    PROVE  G = Nat
  <1> SUFFICES ASSUME Nat \ G # {} PROVE FALSE
    OBVIOUS
  <1>1. PICK x \in Nat \ G : \A y \in Nat \ G : x <= y
    BY LeastNatural
  <1>2. x # 0 /\ x - 1 \in Nat
    BY <1>1
  <1>3. x - 1 \in G
    BY <1>1, <1>2
  <1> QED
    BY <1>1, <1>2, <1>3

\* The things seen in a packet.
Sight == [kind : {"template", "data"}, id : Words, size : Nat]

\* LastSize for the ID id in the sequence s.
LastFor(s, id, n) ==
    LET before == {j \in 1..n : s[j].kind = "template" /\ s[j].id = id}
    IN IF before = {} THEN 0 ELSE s[Max(before)].size

\* RecordSize in the sequence s.
SizeOf(s, i) ==
    IF LastFor(s, s[i].id, i) > 0 THEN LastFor(s, s[i].id, i) ELSE LastFor(s, s[i].id, Len(s))

\* Holds for one thing seen, given the record size that applies to it.
FitsIn(e, size, n) ==
    \/ e.kind = "template" /\ n = 1
    \/ e.kind = "data" /\ size = 0
    \/ /\ e.kind = "data" /\ size > 0
       /\ \E pad \in 0..3 : n * size + pad = e.size

\* Explained for the sequence s and the header's count limit.
ExplainedFor(s, limit) ==
    \E upto \in [0..Len(s) -> 0..limit] :
        /\ upto[0] = 0 /\ upto[Len(s)] = limit
        /\ \A i \in 1..Len(s) :
              upto[i] > upto[i-1] /\ FitsIn(s[i], SizeOf(s, i), upto[i] - upto[i-1])

\* The counts from lo to hi, and as far as limit no others, fit.
Weighs(e, size, lo, hi, limit) ==
    /\ lo \in Nat \ {0} /\ hi \in Nat /\ lo <= hi
    /\ \A n \in 1..limit : FitsIn(e, size, n) <=> n \in lo..hi

\* low and high add up, thing by thing, the ranges that the things seen have;
\* the Data FlowSets in waits have none yet.
Adds(s, limit, waits, low, high) ==
    /\ low \in [0..Len(s) -> Nat] /\ high \in [0..Len(s) -> Nat]
    /\ low[0] = 0 /\ high[0] = 0
    /\ \A i \in waits : low[i] = low[i-1] /\ high[i] = high[i-1]
    /\ \A i \in 1..Len(s) \ waits :
          Weighs(s[i], SizeOf(s, i), low[i] - low[i-1], high[i] - high[i-1], limit)

\* A set of positions has a last one.
LEMMA LastPosition ==
    ASSUME NEW n \in Nat, NEW B \in SUBSET (1..n), B # {}
    PROVE  Max(B) \in B /\ \A y \in B : y <= Max(B)
  <1> DEFINE Below == {n - j : j \in B}
  <1>0. \A j \in B : j \in Int /\ 1 <= j /\ j <= n
    OBVIOUS
  <1>1. Below \in SUBSET Nat /\ Below # {}
    <2>1. \A j \in B : n - j \in Nat
      BY <1>0
    <2> QED
      BY <2>1
  <1>2. PICK m \in Below : \A k \in Below : m <= k
    <2> HIDE DEF Below
    <2> QED
      BY <1>1, LeastNatural
  <1>3. PICK x \in B : m = n - x
    BY <1>2
  <1>4. ASSUME NEW y \in B PROVE x >= y
    <2>1. n - y \in Below
      OBVIOUS
    <2>2. m <= n - y
      BY <1>2, <2>1
    <2>3. x \in Int /\ y \in Int
      BY <1>0
    <2> QED
      BY <1>3, <2>2, <2>3
  <1>5. Max(B) \in B /\ \A y \in B : Max(B) >= y
    BY <1>3, <1>4 DEF Max
  <1>6. Max(B) \in Int /\ \A y \in B : y \in Int
    BY <1>0, <1>5
  <1> QED
    BY <1>5, <1>6

\* One more thing seen changes nothing for the positions before it.
LEMMA LastAppend ==
    ASSUME NEW s \in Seq(Sight), NEW e \in Sight, NEW id, NEW n \in 0..Len(s)
    PROVE  LastFor(Append(s, e), id, n) = LastFor(s, id, n)
  <1> DEFINE t == Append(s, e)
             B == {j \in 1..n : s[j].kind = "template" /\ s[j].id = id}
             C == {j \in 1..n : t[j].kind = "template" /\ t[j].id = id}
  <1>1. \A j \in 1..n : t[j] = s[j]
    OBVIOUS
  <1>2. B = C
    BY <1>1
  <1>3. CASE B = {}
    BY <1>2, <1>3 DEF LastFor
  <1>4. CASE B # {}
    <2>2. Max(B) \in 1..n
      <3> HIDE DEF B
      <3>1. B \in SUBSET (1..n) /\ n \in Nat
        BY DEF B
      <3> QED
        BY <1>4, <3>1, LastPosition
    <2> QED
      BY <1>1, <1>2, <1>4, <2>2 DEF LastFor
  <1> QED
    BY <1>3, <1>4

\* The last template so far is the one just seen, or it stays.
LEMMA LastAtEnd ==
    ASSUME NEW s \in Seq(Sight), NEW e \in Sight, NEW id
    PROVE  LastFor(Append(s, e), id, Len(s) + 1)
              = IF e.kind = "template" /\ e.id = id THEN e.size ELSE LastFor(s, id, Len(s))
  <1> DEFINE t == Append(s, e)
             n == Len(s)
             B == {j \in 1..n : t[j].kind = "template" /\ t[j].id = id}
             C == {j \in 1..(n + 1) : t[j].kind = "template" /\ t[j].id = id}
  <1>1. t[n + 1] = e /\ n \in Nat
    OBVIOUS
  <1>2. CASE e.kind = "template" /\ e.id = id
    <2>1. n + 1 \in C /\ \A y \in C : n + 1 >= y
      BY <1>1, <1>2
    <2>2. Max(C) = n + 1
      <3>1. C \in SUBSET (1..(n + 1)) /\ n + 1 \in Nat /\ C # {}
        BY <2>1
      <3>2. Max(C) \in C /\ \A y \in C : y <= Max(C)
        <4> HIDE DEF C, n
        <4> QED
          BY <3>1, LastPosition
      <3>3. PICK m : m = Max(C)
        OBVIOUS
      <3>4. m \in 1..(n + 1) /\ n + 1 <= m
        BY <2>1, <3>2, <3>3
      <3>5. m = n + 1
        BY <1>1, <3>4
      <3> HIDE DEF C
      <3> QED
        BY <3>3, <3>5
    <2> QED
      BY <1>1, <1>2, <2>1, <2>2 DEF LastFor
  <1>3. CASE ~(e.kind = "template" /\ e.id = id)
    <2>1. C = B
      <3>1. n + 1 \notin C
        BY <1>1, <1>3
      <3> QED
        BY <1>1, <3>1
    <2>2. LastFor(t, id, n + 1) = LastFor(t, id, n)
      BY <2>1 DEF LastFor
    <2> QED
      BY <1>1, <1>3, <2>2, LastAppend
  <1> QED
    BY <1>2, <1>3

\* Record sizes are numbers.
LEMMA LastIsSize ==
    ASSUME NEW s \in Seq(Sight), NEW id, NEW n \in 0..Len(s)
    PROVE  LastFor(s, id, n) \in Nat
  <1> DEFINE B == {j \in 1..n : s[j].kind = "template" /\ s[j].id = id}
  <1>1. CASE B = {}
    BY <1>1 DEF LastFor
  <1>2. CASE B # {}
    <2>6. Max(B) \in 1..Len(s)
      <3>1. B \in SUBSET (1..n) /\ n \in Nat
        OBVIOUS
      <3>2. Max(B) \in 1..n
        <4> HIDE DEF B
        <4> QED
          BY <1>2, <3>1, LastPosition
      <3> HIDE DEF B
      <3> QED
        BY <3>2
    <2>7. s[Max(B)] \in Sight
      <3> HIDE DEF B
      <3> QED
        BY <2>6
    <2> QED
      BY <1>2, <2>7 DEF LastFor, Sight
  <1> QED
    BY <1>1, <1>2

-----------------------------------------------------------------------------
(* The ranges of the things seen *)

\* A template counts as one record.
LEMMA TemplateWeighs ==
    ASSUME NEW e, e.kind = "template", NEW size, NEW limit \in Nat
    PROVE  Weighs(e, size, 1, 1, limit)
  <1>1. \A n \in 1..limit : FitsIn(e, size, n) <=> n = 1
    BY DEF FitsIn
  <1> QED
    BY <1>1 DEF Weighs

\* Without a template, any number of records may be there.
LEMMA UnresolvedWeighs ==
    ASSUME NEW e, e.kind = "data", NEW limit \in Nat
    PROVE  Weighs(e, 0, 1, limit + 1, limit)
  <1>1. \A n \in 1..limit : FitsIn(e, 0, n)
    BY DEF FitsIn
  <1> QED
    BY <1>1 DEF Weighs

\* The counts of a Data FlowSet whose record size is known are its layouts.
LEMMA FitsAreLayouts ==
    ASSUME NEW e, e.kind = "data", e.size \in Nat, NEW size \in Nat \ {0}, NEW n \in Nat \ {0}
    PROVE  FitsIn(e, size, n) <=> n \in Layouts(e.size, size)
  <1>1. n \in Layouts(e.size, size) <=> n > 0 /\ \E pad \in 0..3 : n * size + pad = e.size
    BY LayoutMeaning
  <1> QED
    BY <1>1 DEF FitsIn

\* countDataRecordsRange gives the range of a Data FlowSet.
LEMMA KnownWeighs ==
    ASSUME NEW e, e.kind = "data", e.size \in Nat, NEW size \in Nat \ {0}, NEW limit \in Nat,
           Layouts(e.size, size) # {}
    PROVE  Weighs(e, size, Min(Layouts(e.size, size)), Max(Layouts(e.size, size)), limit)
  <1>1. PICK lo, hi, L : /\ lo = Min(Layouts(e.size, size)) /\ hi = Max(Layouts(e.size, size))
                         /\ L = Layouts(e.size, size)
    OBVIOUS
  <1>2. /\ lo \in Nat /\ hi \in Nat /\ lo <= hi /\ lo \in L
    BY <1>1, CountRange
  <1>3. lo > 0
    BY <1>1, <1>2, LayoutMeaning
  <1>4. L = lo..hi
    BY <1>1, RangeHasNoGaps
  <1>5. \A n \in 1..limit : FitsIn(e, size, n) <=> n \in L
    BY <1>1, FitsAreLayouts
  <1>6. Weighs(e, size, lo, hi, limit)
    BY <1>2, <1>3, <1>4, <1>5 DEF Weighs
  <1> QED
    BY <1>1, <1>6

\* A range that exists starts at one record.
LEMMA WeighsType ==
    ASSUME NEW e, NEW size, NEW limit, NEW lo, NEW hi, Weighs(e, size, lo, hi, limit)
    PROVE  lo \in Nat /\ hi \in Nat /\ 0 < lo /\ lo <= hi
  BY DEF Weighs

\* The counts f up to n things, and one more thing of d records.
Extend(f, n, d) == [j \in 0..(n + 1) |-> IF j <= n THEN f[j] ELSE f[n] + d]

\* The counts f up to n things, with d records more from the u-th thing on.
Raise(f, n, u, d) == [j \in 0..n |-> f[j] + (IF j >= u THEN d ELSE 0)]

\* One more thing seen adds its range at the end. It must not change the record
\* size of anything before it, except of what waits for one.
LEMMA AddsAppend ==
    ASSUME NEW s \in Seq(Sight), NEW e \in Sight, NEW t, t = Append(s, e), NEW n, n = Len(s),
           NEW limit, NEW waits \in SUBSET (1..n), NEW low, NEW high, Adds(s, limit, waits, low, high),
           NEW lo \in Nat, NEW hi \in Nat,
           NEW lw, lw = Extend(low, n, lo), NEW hg, hg = Extend(high, n, hi),
           NEW late \in SUBSET {n + 1},
           late # {} => lo = 0 /\ hi = 0,
           late = {} => Weighs(e, SizeOf(t, n + 1), lo, hi, limit),
           \A i \in 1..n \ waits : s[i].kind = "template" \/ LastFor(s, s[i].id, i) > 0
    PROVE  Adds(t, limit, waits \cup late, lw, hg)
  <1>2. n \in Nat /\ Len(t) = n + 1 /\ t[n + 1] = e /\ \A i \in 1..n : t[i] = s[i]
    OBVIOUS
  <1>5. /\ low \in [0..n -> Nat] /\ high \in [0..n -> Nat] /\ low[0] = 0 /\ high[0] = 0
        /\ \A i \in waits : low[i] = low[i-1] /\ high[i] = high[i-1]
        /\ \A i \in 1..n \ waits :
              Weighs(s[i], SizeOf(s, i), low[i] - low[i-1], high[i] - high[i-1], limit)
    BY DEF Adds
  <1>3. /\ lw = [j \in 0..(n + 1) |-> IF j <= n THEN low[j] ELSE low[n] + lo]
        /\ hg = [j \in 0..(n + 1) |-> IF j <= n THEN high[j] ELSE high[n] + hi]
    BY DEF Extend
  <1>6. \A i \in 1..n : lw[i] = low[i] /\ lw[i-1] = low[i-1] /\ hg[i] = high[i] /\ hg[i-1] = high[i-1]
    BY <1>2, <1>3
  <1>7. /\ lw[0] = 0 /\ hg[0] = 0
        /\ lw[n+1] = low[n] + lo /\ hg[n+1] = high[n] + hi /\ lw[n] = low[n] /\ hg[n] = high[n]
        /\ low[n] \in Nat /\ high[n] \in Nat
    BY <1>2, <1>3, <1>5
  <1>8. lw \in [0..(n + 1) -> Nat] /\ hg \in [0..(n + 1) -> Nat]
    <2>1. ASSUME NEW j \in 0..(n + 1)
          PROVE  /\ (IF j <= n THEN low[j] ELSE low[n] + lo) \in Nat
                 /\ (IF j <= n THEN high[j] ELSE high[n] + hi) \in Nat
      <3>1. CASE j <= n
        <4>1. j \in 0..n
          BY <1>2, <3>1
        <4> QED
          BY <1>5, <3>1, <4>1
      <3>2. CASE ~(j <= n)
        BY <1>2, <1>7, <3>2
      <3> QED
        BY <3>1, <3>2
    <2> QED
      BY <1>3, <2>1
  <1>9. ASSUME NEW i \in waits \cup late PROVE lw[i] = lw[i-1] /\ hg[i] = hg[i-1]
    <2>1. CASE i \in waits
      BY <1>5, <1>6, <2>1
    <2>2. CASE i \in late
      <3>1. i = n + 1 /\ i - 1 = n /\ lo = 0 /\ hi = 0
        BY <1>2, <2>2
      <3> QED
        BY <1>7, <3>1
    <2> QED
      BY <2>1, <2>2
  <1>10. ASSUME NEW i \in 1..Len(t) \ (waits \cup late)
         PROVE  Weighs(t[i], SizeOf(t, i), lw[i] - lw[i-1], hg[i] - hg[i-1], limit)
    <2>1. CASE i \in 1..n
      <3>1. i \in 1..n \ waits /\ t[i] = s[i]
        BY <1>2, <2>1
      <3>2. Weighs(s[i], SizeOf(s, i), lw[i] - lw[i-1], hg[i] - hg[i-1], limit)
        BY <1>5, <1>6, <3>1
      <3>3. LastFor(t, s[i].id, i) = LastFor(s, s[i].id, i)
        <4>1. i \in 0..Len(s)
          BY <1>2, <2>1
        <4> QED
          BY <4>1, LastAppend
      <3>4. CASE LastFor(s, s[i].id, i) > 0
        <4>1. SizeOf(t, i) = SizeOf(s, i)
          BY <3>1, <3>3, <3>4 DEF SizeOf
        <4> QED
          BY <3>1, <3>2, <4>1
      <3>5. CASE s[i].kind = "template"
        <4>1. \A k : FitsIn(s[i], SizeOf(t, i), k) <=> FitsIn(s[i], SizeOf(s, i), k)
          BY <3>5 DEF FitsIn
        <4> QED
          BY <3>1, <3>2, <4>1 DEF Weighs
      <3> QED
        BY <3>1, <3>4, <3>5
    <2>2. CASE i = n + 1
      <3>1. late = {} /\ i - 1 = n
        BY <1>2, <2>2
      <3>2. lw[i] - lw[i-1] = lo /\ hg[i] - hg[i-1] = hi
        BY <1>7, <2>2, <3>1
      <3> QED
        BY <1>2, <2>2, <3>1, <3>2
    <2> QED
      BY <1>2, <2>1, <2>2
  <1> QED
    BY <1>2, <1>7, <1>8, <1>9, <1>10 DEF Adds

\* One more thing that waits for its template adds nothing yet.
LEMMA AddsLater ==
    ASSUME NEW s \in Seq(Sight), NEW e \in Sight, NEW t, t = Append(s, e), NEW n, n = Len(s),
           NEW limit, NEW waits \in SUBSET (1..n), NEW low, NEW high, Adds(s, limit, waits, low, high),
           NEW lw, lw = Extend(low, n, 0), NEW hg, hg = Extend(high, n, 0),
           \A i \in 1..n \ waits : s[i].kind = "template" \/ LastFor(s, s[i].id, i) > 0
    PROVE  Adds(t, limit, waits \cup {n + 1}, lw, hg)
  <1>1. PICK late, zero : late = {n + 1} /\ zero = 0
    OBVIOUS
  <1>2. /\ late \in SUBSET {n + 1} /\ zero \in Nat /\ (late # {} => zero = 0 /\ zero = 0)
        /\ late = {} => Weighs(e, SizeOf(t, n + 1), zero, zero, limit)
        /\ lw = Extend(low, n, zero) /\ hg = Extend(high, n, zero)
    BY <1>1
  <1>3. Adds(t, limit, waits \cup late, lw, hg)
    BY <1>2, AddsAppend, ZenonT(60)
  <1> QED
    BY <1>1, <1>3

\* A Data FlowSet that waited gets its range: everything from there on rises.
LEMMA AddsSettle ==
    ASSUME NEW s \in Seq(Sight), NEW limit, NEW waits \in SUBSET (1..Len(s)), NEW low, NEW high,
           Adds(s, limit, waits, low, high), NEW u \in waits, NEW lo, NEW hi,
           Weighs(s[u], SizeOf(s, u), lo, hi, limit)
    PROVE  Adds(s, limit, waits \ {u}, Raise(low, Len(s), u, lo), Raise(high, Len(s), u, hi))
  <1>1. PICK n : n = Len(s) /\ n \in Nat
    OBVIOUS
  <1>2. PICK lw : lw = [j \in 0..n |-> low[j] + (IF j >= u THEN lo ELSE 0)]
    OBVIOUS
  <1>3. PICK hg : hg = [j \in 0..n |-> high[j] + (IF j >= u THEN hi ELSE 0)]
    OBVIOUS
  <1>4. lo \in Nat /\ hi \in Nat
    BY WeighsType
  <1>5. /\ low \in [0..n -> Nat] /\ high \in [0..n -> Nat] /\ low[0] = 0 /\ high[0] = 0
        /\ \A i \in waits : low[i] = low[i-1] /\ high[i] = high[i-1]
        /\ \A i \in 1..n \ waits :
              Weighs(s[i], SizeOf(s, i), low[i] - low[i-1], high[i] - high[i-1], limit)
    BY <1>1 DEF Adds
  <1>6. u \in 1..n
    BY <1>1
  <1>7. ASSUME NEW i \in 1..n, i # u
        PROVE  lw[i] - lw[i-1] = low[i] - low[i-1] /\ hg[i] - hg[i-1] = high[i] - high[i-1]
    <2>1. i \in 0..n /\ i - 1 \in 0..n /\ (i >= u <=> i - 1 >= u)
      BY <1>1, <1>6, <1>7
    <2>2. low[i] \in Nat /\ low[i-1] \in Nat /\ high[i] \in Nat /\ high[i-1] \in Nat
      BY <1>5, <2>1
    <2> QED
      BY <1>2, <1>3, <1>4, <2>1, <2>2
  <1>8. /\ lw[u] - lw[u-1] = lo /\ hg[u] - hg[u-1] = hi
    <2>1. u \in 0..n /\ u - 1 \in 0..n /\ u >= u /\ ~(u - 1 >= u)
      BY <1>1, <1>6
    <2>2. low[u] \in Nat /\ high[u] \in Nat /\ low[u] = low[u-1] /\ high[u] = high[u-1]
      BY <1>5, <2>1
    <2> QED
      BY <1>2, <1>3, <1>4, <2>1, <2>2
  <1>9. lw \in [0..n -> Nat] /\ hg \in [0..n -> Nat]
    BY <1>2, <1>3, <1>4, <1>5
  <1>10. lw[0] = 0 /\ hg[0] = 0
    BY <1>1, <1>2, <1>3, <1>5, <1>6
  <1>11. ASSUME NEW i \in waits \ {u} PROVE lw[i] = lw[i-1] /\ hg[i] = hg[i-1]
    <2>1. i \in 1..n /\ i \in 0..n /\ i - 1 \in 0..n
      BY <1>1
    <2>2. /\ lw[i] \in Nat /\ lw[i-1] \in Nat /\ hg[i] \in Nat /\ hg[i-1] \in Nat
          /\ low[i] \in Nat /\ high[i] \in Nat /\ low[i] = low[i-1] /\ high[i] = high[i-1]
      BY <1>5, <1>9, <2>1
    <2> QED
      BY <1>7, <2>1, <2>2
  <1>12. ASSUME NEW i \in 1..n \ (waits \ {u})
         PROVE  Weighs(s[i], SizeOf(s, i), lw[i] - lw[i-1], hg[i] - hg[i-1], limit)
    <2>1. CASE i = u
      BY <1>8, <2>1
    <2>2. CASE i # u
      BY <1>5, <1>7, <2>2
    <2> QED
      BY <2>1, <2>2
  <1>13. Adds(s, limit, waits \ {u}, lw, hg)
    BY <1>1, <1>9, <1>10, <1>11, <1>12 DEF Adds
  <1> QED
    BY <1>1, <1>2, <1>3, <1>13 DEF Raise

\* Partial counts that explain the header's count lie between low and high.
LEMMA ExplainedWithin ==
    ASSUME NEW s \in Seq(Sight), NEW limit \in Nat, NEW low, NEW high,
           Adds(s, limit, {}, low, high), ExplainedFor(s, limit)
    PROVE  low[Len(s)] <= limit /\ limit <= high[Len(s)]
  <1>1. PICK n : n = Len(s) /\ n \in Nat
    OBVIOUS
  <1>2. PICK upto \in [0..n -> 0..limit] :
          /\ upto[0] = 0 /\ upto[n] = limit
          /\ \A i \in 1..n :
                upto[i] > upto[i-1] /\ FitsIn(s[i], SizeOf(s, i), upto[i] - upto[i-1])
    BY <1>1 DEF ExplainedFor
  <1>3. /\ low \in [0..n -> Nat] /\ high \in [0..n -> Nat] /\ low[0] = 0 /\ high[0] = 0
        /\ \A i \in 1..n :
              Weighs(s[i], SizeOf(s, i), low[i] - low[i-1], high[i] - high[i-1], limit)
    BY <1>1 DEF Adds
  <1> DEFINE G == {i \in Nat : i <= n => low[i] <= upto[i] /\ upto[i] <= high[i]}
  <1>4. 0 \in G
    BY <1>1, <1>2, <1>3
  <1>5. ASSUME NEW j \in G PROVE j + 1 \in G
    <2>1. CASE j + 1 <= n
      <3>1. PICK i : i = j + 1
        OBVIOUS
      <3>2. i \in 1..n /\ i - 1 = j /\ i \in 0..n /\ j \in 0..n /\ j \in Nat
        BY <1>1, <2>1, <3>1
      <3>3. upto[i] \in 0..limit /\ upto[j] \in 0..limit /\ upto[i] > upto[j]
        BY <1>2, <3>2
      <3>4. upto[i] - upto[j] \in 1..limit
        BY <3>3
      <3>5. Weighs(s[i], SizeOf(s, i), low[i] - low[j], high[i] - high[j], limit)
        BY <1>3, <3>2
      <3>6. FitsIn(s[i], SizeOf(s, i), upto[i] - upto[j])
        BY <1>2, <3>2
      <3>7. upto[i] - upto[j] \in (low[i] - low[j])..(high[i] - high[j])
        BY <3>4, <3>5, <3>6 DEF Weighs
      <3>8. low[j] <= upto[j] /\ upto[j] <= high[j]
        BY <3>2
      <3>9. low[i] \in Nat /\ low[j] \in Nat /\ high[i] \in Nat /\ high[j] \in Nat
        BY <1>3, <3>2
      <3>10. low[i] <= upto[i] /\ upto[i] <= high[i]
        BY <3>3, <3>7, <3>8, <3>9
      <3> QED
        BY <3>1, <3>2, <3>10
    <2> QED
      BY <1>1, <2>1
  <1>6. G = Nat
    <2> HIDE DEF G
    <2>1. G \in SUBSET Nat
      BY DEF G
    <2> QED
      BY <1>4, <1>5, <2>1, SetInduction
  <1> QED
    BY <1>1, <1>2, <1>6

\* low rises with every thing seen.
LEMMA LowRises ==
    ASSUME NEW s \in Seq(Sight), NEW limit, NEW low, NEW high,
           Adds(s, limit, {}, low, high), NEW i \in 0..Len(s)
    PROVE  low[i] <= low[Len(s)]
  <1>1. PICK n : n = Len(s) /\ n \in Nat
    OBVIOUS
  <1>2. /\ low \in [0..n -> Nat]
        /\ \A j \in 1..n :
              Weighs(s[j], SizeOf(s, j), low[j] - low[j-1], high[j] - high[j-1], limit)
    BY <1>1 DEF Adds
  <1> DEFINE G == {d \in Nat : d <= n => low[n - d] <= low[n]}
  <1>3. 0 \in G
    BY <1>1, <1>2
  <1>4. ASSUME NEW d \in G PROVE d + 1 \in G
    <2>1. CASE d + 1 <= n
      <3>1. PICK j : j = n - d
        OBVIOUS
      <3>2. j \in 1..n /\ n - (d + 1) = j - 1 /\ j \in 0..n /\ j - 1 \in 0..n
        BY <1>1, <2>1, <3>1
      <3>3. low[j] - low[j-1] > 0
        BY <1>2, <3>2, WeighsType
      <3>4. low[j] <= low[n]
        BY <1>1, <2>1, <3>1
      <3>5. low[j-1] \in Nat /\ low[j] \in Nat /\ low[n] \in Nat
        <4>1. n \in 0..n
          BY <1>1
        <4> QED
          BY <1>2, <3>2, <4>1
      <3>6. low[j-1] <= low[n]
        BY <3>3, <3>4, <3>5
      <3> QED
        BY <3>2, <3>6
    <2> QED
      BY <1>1, <2>1
  <1>5. G = Nat
    <2> HIDE DEF G
    <2>1. G \in SUBSET Nat
      BY DEF G
    <2> QED
      BY <1>3, <1>4, <2>1, SetInduction
  <1>6. PICK d : d = n - i /\ d \in Nat /\ d <= n /\ n - d = i
    BY <1>1
  <1>7. d \in G
    <2> HIDE DEF G
    <2> QED
      BY <1>5, <1>6
  <1> QED
    BY <1>1, <1>6, <1>7

\* Every count between low and high is explained: take as many records from the
\* first things as they may hold, and leave each later one its least.
LEMMA WithinExplained ==
    ASSUME NEW s \in Seq(Sight), NEW limit \in Nat, NEW low, NEW high,
           Adds(s, limit, {}, low, high), low[Len(s)] <= limit, limit <= high[Len(s)]
    PROVE  ExplainedFor(s, limit)
  <1>1. PICK n : n = Len(s) /\ n \in Nat
    OBVIOUS
  <1>2. /\ low \in [0..n -> Nat] /\ high \in [0..n -> Nat] /\ low[0] = 0 /\ high[0] = 0
        /\ \A i \in 1..n :
              Weighs(s[i], SizeOf(s, i), low[i] - low[i-1], high[i] - high[i-1], limit)
    BY <1>1 DEF Adds
  <1>3. PICK spare : spare \in Nat /\ limit = low[n] + spare
    <2>1. low[n] \in Nat /\ low[n] <= limit
      BY <1>1, <1>2
    <2>2. limit - low[n] \in Nat /\ limit = low[n] + (limit - low[n])
      BY <2>1
    <2> QED
      BY <2>2
  <1>4. PICK upto : upto = [i \in 0..n |-> IF high[i] <= low[i] + spare THEN high[i] ELSE low[i] + spare]
    OBVIOUS
  <1>5. ASSUME NEW i \in 0..n
        PROVE  /\ low[i] \in Nat /\ high[i] \in Nat /\ low[i] <= low[n] /\ low[n] \in Nat
               /\ upto[i] = IF high[i] <= low[i] + spare THEN high[i] ELSE low[i] + spare
    <2>1. low[i] <= low[n]
      BY <1>1, LowRises
    <2>2. low[i] \in Nat /\ high[i] \in Nat /\ low[n] \in Nat
      <3>1. n \in 0..n
        BY <1>1
      <3> QED
        BY <1>2, <3>1
    <2>3. upto[i] = IF high[i] <= low[i] + spare THEN high[i] ELSE low[i] + spare
      BY <1>4
    <2> QED
      BY <2>1, <2>2, <2>3
  <1>6. upto \in [0..n -> 0..limit]
    <2>1. ASSUME NEW i \in 0..n PROVE upto[i] \in 0..limit
      BY <1>3, <1>5
    <2> QED
      BY <1>4, <2>1
  <1>7. upto[0] = 0
    <2>1. 0 \in 0..n
      BY <1>1
    <2> QED
      BY <1>2, <1>3, <1>5, <2>1
  <1>8. upto[n] = limit
    <2>1. n \in 0..n /\ limit <= high[n]
      BY <1>1
    <2> QED
      BY <1>3, <1>5, <2>1
  <1>9. ASSUME NEW i \in 1..n
        PROVE  upto[i] > upto[i-1] /\ FitsIn(s[i], SizeOf(s, i), upto[i] - upto[i-1])
    <2>1. i \in 0..n /\ i - 1 \in 0..n
      BY <1>1
    <2>2. PICK lo, hi : /\ lo = low[i] - low[i-1] /\ hi = high[i] - high[i-1]
                        /\ Weighs(s[i], SizeOf(s, i), lo, hi, limit)
      BY <1>2
    <2>3. lo \in Nat /\ hi \in Nat /\ 0 < lo /\ lo <= hi
      BY <2>2, WeighsType
    <2>4. PICK a, b : a = low[i-1] /\ b = high[i-1]
      OBVIOUS
    <2>5. /\ a \in Nat /\ b \in Nat /\ low[i] = a + lo /\ high[i] = b + hi
      <3>1. low[i] \in Nat /\ high[i] \in Nat /\ low[i-1] \in Nat /\ high[i-1] \in Nat
        BY <1>5, <2>1
      <3> QED
        BY <2>2, <2>4, <3>1
    <2>6. /\ upto[i-1] = IF b <= a + spare THEN b ELSE a + spare
          /\ upto[i] = IF b + hi <= a + lo + spare THEN b + hi ELSE a + lo + spare
      BY <1>5, <2>1, <2>4, <2>5
    <2>7. upto[i] - upto[i-1] \in lo..hi /\ upto[i] > upto[i-1]
      BY <1>3, <2>3, <2>5, <2>6
    <2>8. upto[i] - upto[i-1] \in 1..limit
      <3>1. upto[i] \in 0..limit /\ upto[i-1] \in 0..limit
        BY <1>6, <2>1
      <3> QED
        BY <2>7, <3>1
    <2> QED
      BY <2>2, <2>7, <2>8 DEF Weighs
  <1> QED
    BY <1>1, <1>6, <1>7, <1>8, <1>9 DEF ExplainedFor

\* A Data FlowSet that no number of records fills leaves nothing to explain.
LEMMA NothingFits ==
    ASSUME NEW s \in Seq(Sight), NEW limit \in Nat, NEW i \in 1..Len(s),
           s[i].kind = "data", s[i].size \in Nat, SizeOf(s, i) \in Nat \ {0},
           Layouts(s[i].size, SizeOf(s, i)) = {}
    PROVE  ~ExplainedFor(s, limit)
  <1> SUFFICES ASSUME ExplainedFor(s, limit) PROVE FALSE
    OBVIOUS
  <1>1. PICK upto \in [0..Len(s) -> 0..limit] :
          \A j \in 1..Len(s) :
              upto[j] > upto[j-1] /\ FitsIn(s[j], SizeOf(s, j), upto[j] - upto[j-1])
    BY DEF ExplainedFor
  <1>2. upto[i] \in 0..limit /\ upto[i-1] \in 0..limit
    <2>1. i \in 0..Len(s) /\ i - 1 \in 0..Len(s)
      OBVIOUS
    <2> QED
      BY <2>1
  <1>3. upto[i] - upto[i-1] \in Nat \ {0}
    BY <1>1, <1>2
  <1> QED
    BY <1>1, <1>3, FitsAreLayouts

-----------------------------------------------------------------------------
(* The ledger behind the totals *)

\* Templates of the Template FlowSet being read: not yet in the totals.
InProgress == IF pc \in {"record", "field"} THEN parsed ELSE 0

\* The k-th deferred Data FlowSet is the one seen at pos[k], and no template for
\* it came before.
Queue(pos) ==
    /\ pos \in [1..Len(deferred) -> 1..Len(seen)]
    /\ \A j, k \in 1..Len(deferred) : pos[j] = pos[k] => j = k
    /\ \A k \in 1..Len(deferred) :
          /\ seen[pos[k]].kind = "data" /\ seen[pos[k]].id = deferred[k].id
          /\ seen[pos[k]].size = deferred[k].bytes
          /\ LastFor(seen, deferred[k].id, pos[k]) = 0

\* The positions of the FlowSets that wait for a template.
Waits(pos) == {pos[k] : k \in 1..Len(deferred)}

\* The totals are the sums of the ranges of the things seen, without those that
\* wait. During the walk the record size of the others is the last one before
\* them, which nothing that follows can change.
Ledger(low, high, pos) ==
    /\ Queue(pos)
    /\ Adds(seen, flowCount, Waits(pos), low, high)
    /\ low[Len(seen)] = minRecords + InProgress
    /\ ~unresolved => high[Len(seen)] = maxRecords + InProgress
    /\ unresolved => high[Len(seen)] > flowCount
    /\ pc # "deferred" =>
          /\ ~unresolved
          /\ \A i \in 1..Len(seen) \ Waits(pos) :
                seen[i].kind = "template" \/ LastFor(seen, seen[i].id, i) > 0

\* The totals can be accounted for.
HasLedger == \E low, high, pos : Ledger(low, high, pos)

\* templateRecordSizes holds the last size of every template seen.
Learned ==
    \A id \in Words :
        LastFor(seen, id, Len(seen)) = IF id \in DOMAIN sizes THEN sizes[id] ELSE 0

\* setCount is zero exactly as long as no FlowSet has shown anything.
SomethingSeen ==
    (setCount > 0 \/ (pc \in {"record", "field"} /\ parsed > 0)) <=> seen # <<>>

\* A walk that is cut short has not reached the end of the payload.
NotThereYet ==
    /\ pc = "header" => offset = 0 /\ seen = <<>>
    /\ pc \in {"record", "field"} => offset < len

\* The inductive invariant behind the verdict.
Accounts ==
    /\ NotThereYet
    /\ pc # "done" => HasLedger /\ Learned /\ SomethingSeen
    /\ AcceptedIffExplained

\* The state AcceptedIffExplained speaks of, in terms of the sequence seen.
LEMMA ExplainedIsFor ==
    seen \in Seq(Sight) => (Explained <=> ExplainedFor(seen, flowCount))
  <1>1. \A i, n : LastSize(i, n) = LastFor(seen, seen[i].id, n)
    BY DEF LastSize, LastFor
  <1>2. \A i : RecordSize(i) = SizeOf(seen, i)
    BY <1>1 DEF RecordSize, SizeOf
  <1>3. \A i, n : Holds(i, n) <=> FitsIn(seen[i], SizeOf(seen, i), n)
    BY <1>2 DEF Holds, FitsIn
  <1>4. seen \in Seq(Sight) => DOMAIN seen = 1..Len(seen)
    OBVIOUS
  <1> QED
    BY <1>3, <1>4 DEF Explained, ExplainedFor

\* Nothing seen, nothing counted.
LEMMA LedgerInit == Init => Accounts
  <1> SUFFICES ASSUME Init PROVE Accounts
    OBVIOUS
  <1>1. /\ pc = "header" /\ seen = <<>> /\ deferred = <<>> /\ minRecords = 0 /\ maxRecords = 0
        /\ unresolved = FALSE /\ setCount = 0 /\ offset = 0 /\ parsed = 0 /\ DOMAIN sizes = {}
        /\ flowCount = 0
    BY DEF Init
  <1>2. HasLedger
    <2> DEFINE none == [i \in 0..0 |-> 0]
               pos == [k \in 1..0 |-> 1]
    <2>1. Len(seen) = 0 /\ Len(deferred) = 0
      BY <1>1
    <2>2. Waits(pos) = {} /\ Queue(pos)
      BY <2>1 DEF Waits, Queue
    <2>3. none[0] = 0 /\ none \in [0..0 -> Nat]
      OBVIOUS
    <2>4. Adds(seen, flowCount, Waits(pos), none, none)
      BY <2>1, <2>2, <2>3 DEF Adds
    <2>5. Ledger(none, none, pos)
      BY <1>1, <2>1, <2>2, <2>3, <2>4 DEF Ledger, InProgress
    <2> QED
      BY <2>5 DEF HasLedger
  <1>3. Learned
    <2>1. \A id : LastFor(seen, id, Len(seen)) = 0
      BY <1>1 DEF LastFor
    <2> QED
      BY <1>1, <2>1 DEF Learned
  <1> QED
    BY <1>1, <1>2, <1>3 DEF Accounts, NotThereYet, SomethingSeen, AcceptedIffExplained

\* Steps that see nothing new and resolve nothing keep the ledger; at the end of
\* a Template FlowSet its templates move from InProgress to the totals.
LEMMA LedgerFrame ==
    ASSUME HasLedger, UNCHANGED <<seen, flowCount, deferred, unresolved>>,
           minRecords' + InProgress' = minRecords + InProgress,
           maxRecords' + InProgress' = maxRecords + InProgress,
           pc' # "deferred" => pc # "deferred"
    PROVE  HasLedger'
  <1>1. PICK low, high, pos : Ledger(low, high, pos)
    BY DEF HasLedger
  <1>2. /\ Queue(pos)' /\ Waits(pos)' = Waits(pos)
    BY <1>1 DEF Ledger, Queue, Waits
  <1>3. Ledger(low, high, pos)'
    BY <1>1, <1>2 DEF Ledger
  <1> QED
    BY <1>3 DEF HasLedger

\* The header's count is read before anything is seen.
LEMMA LedgerHeader ==
    ASSUME HasLedger, seen = <<>>, UNCHANGED <<seen, deferred, unresolved, minRecords, maxRecords>>,
           InProgress' = InProgress, pc # "deferred"
    PROVE  HasLedger'
  <1>1. PICK low, high, pos : Ledger(low, high, pos)
    BY DEF HasLedger
  <1>2. /\ Queue(pos)' /\ Waits(pos)' = Waits(pos)
    BY <1>1 DEF Ledger, Queue, Waits
  <1>3. Adds(seen, flowCount', Waits(pos), low, high)
    BY <1>1 DEF Ledger, Adds
  <1>4. Ledger(low, high, pos)'
    BY <1>1, <1>2, <1>3 DEF Ledger
  <1> QED
    BY <1>4 DEF HasLedger

\* A step of the walk sees e: its range, from lo to hi, is added to the totals,
\* or it joins the queue.
Enters(e, lo, hi) ==
    /\ seen' = Append(seen, e) /\ pc # "deferred" /\ UNCHANGED <<flowCount, unresolved>>
    /\ InProgress \in Nat /\ InProgress' \in Nat /\ minRecords' \in Nat /\ maxRecords' \in Nat
    /\ minRecords' + InProgress' = minRecords + InProgress + lo
    /\ maxRecords' + InProgress' = maxRecords + InProgress + hi
    /\ \/ /\ deferred' = deferred
          /\ e.kind = "template" \/ LastFor(seen, e.id, Len(seen)) > 0
          /\ Weighs(e, SizeOf(seen', Len(seen) + 1), lo, hi, flowCount)
       \/ /\ deferred' = Append(deferred, [id |-> e.id, bytes |-> e.size])
          /\ e.kind = "data" /\ LastFor(seen, e.id, Len(seen)) = 0
          /\ lo = 0 /\ hi = 0

\* A template, or a Data FlowSet whose record size is known, adds its range to
\* the ledger; another Data FlowSet joins the queue.
LEMMA LedgerAppend ==
    ASSUME HasLedger, CountsOK, NEW e \in Sight, NEW lo \in Nat, NEW hi \in Nat, Enters(e, lo, hi)
    PROVE  HasLedger'
  <1>1. PICK low, high, pos : Ledger(low, high, pos)
    BY DEF HasLedger
  <1>2. PICK n : n = Len(seen) /\ n \in Nat
    BY DEF CountsOK
  <1>3. PICK d : d = Len(deferred) /\ d \in Nat
    BY DEF CountsOK
  <1>4. /\ seen \in Seq(Sight) /\ Len(seen') = n + 1 /\ seen'[n + 1] = e
        /\ seen' = Append(seen, e) /\ flowCount' = flowCount /\ unresolved' = unresolved
        /\ \A i \in 1..n : seen'[i] = seen[i]
    <2>1. seen \in Seq(Sight)
      BY DEF CountsOK, Sight
    <2>2. /\ seen' = Append(seen, e) /\ flowCount' = flowCount /\ unresolved' = unresolved
      BY DEF Enters
    <2> QED
      BY <1>2, <2>1, <2>2
  <1>5. /\ pos \in [1..d -> 1..n] /\ \A j, k \in 1..d : pos[j] = pos[k] => j = k
        /\ \A k \in 1..d :
              /\ seen[pos[k]].kind = "data" /\ seen[pos[k]].id = deferred[k].id
              /\ seen[pos[k]].size = deferred[k].bytes
              /\ LastFor(seen, deferred[k].id, pos[k]) = 0
    BY <1>1, <1>2, <1>3 DEF Ledger, Queue
  <1>6. /\ Adds(seen, flowCount, Waits(pos), low, high)
        /\ low[n] = minRecords + InProgress /\ high[n] = maxRecords + InProgress
        /\ ~unresolved
        /\ \A i \in 1..n \ Waits(pos) : seen[i].kind = "template" \/ LastFor(seen, seen[i].id, i) > 0
    BY <1>1, <1>2 DEF Ledger, Enters
  <1>7. PICK lw : lw = Extend(low, n, lo)
    OBVIOUS
  <1>8. PICK hg : hg = Extend(high, n, hi)
    OBVIOUS
  <1>9. low[n] \in Nat /\ high[n] \in Nat
    <2>1. n \in 0..n
      BY <1>2
    <2> QED
      BY <1>2, <1>6, <2>1 DEF Adds
  <1>10. lw[n + 1] = minRecords' + InProgress' /\ hg[n + 1] = maxRecords' + InProgress'
    <2>1. n + 1 \in 0..(n + 1) /\ ~(n + 1 <= n)
      BY <1>2
    <2>2. minRecords \in Nat /\ maxRecords \in Nat
      BY DEF CountsOK
    <2>3. /\ InProgress \in Nat /\ InProgress' \in Nat /\ minRecords' \in Nat /\ maxRecords' \in Nat
          /\ minRecords' + InProgress' = minRecords + InProgress + lo
          /\ maxRecords' + InProgress' = maxRecords + InProgress + hi
      BY DEF Enters
    <2>4. lw[n + 1] = low[n] + lo /\ hg[n + 1] = high[n] + hi
      BY <1>7, <1>8, <2>1 DEF Extend
    <2> QED
      BY <1>6, <2>2, <2>3, <2>4
  <1>17. \A k \in 1..d : pos[k] \in 1..n
    BY <1>5
  <1>11. Waits(pos) \in SUBSET (1..n)
    BY <1>3, <1>17 DEF Waits
  <1>12. \A i \in 1..n, id \in Words : LastFor(seen', id, i) = LastFor(seen, id, i)
    <2>1. ASSUME NEW i \in 1..n, NEW id \in Words PROVE LastFor(seen', id, i) = LastFor(seen, id, i)
      <3>1. i \in 0..Len(seen)
        BY <1>2
      <3> QED
        BY <1>4, <3>1, LastAppend
    <2> QED
      BY <2>1
  <1>13. \A i \in 1..n : seen[i].id \in Words /\ seen[i].kind \in {"template", "data"}
    <2>1. ASSUME NEW i \in 1..n PROVE seen[i] \in Sight
      BY <1>2, <1>4
    <2>2. \A x \in Sight : x.id \in Words /\ x.kind \in {"template", "data"}
      BY DEF Sight
    <2> QED
      BY <2>1, <2>2
  <1>14. e.id \in Words
    BY DEF Sight
  <1>15. CASE /\ deferred' = deferred
              /\ e.kind = "template" \/ LastFor(seen, e.id, n) > 0
              /\ Weighs(e, SizeOf(seen', n + 1), lo, hi, flowCount)
    <2>1. Waits(pos)' = Waits(pos)
      BY <1>15 DEF Waits
    <2>2. Queue(pos)'
      <3>1. \A k \in 1..d : pos[k] \in 1..n /\ deferred[k].id \in Words
        BY <1>3, <1>5, <1>13
      <3>2. pos \in [1..d -> 1..(n + 1)]
        <4>1. 1..n \subseteq 1..(n + 1)
          BY <1>2
        <4> QED
          BY <1>5, <1>17, <4>1
      <3>3. \A k \in 1..d :
              /\ seen'[pos[k]].kind = "data" /\ seen'[pos[k]].id = deferred[k].id
              /\ seen'[pos[k]].size = deferred[k].bytes
              /\ LastFor(seen', deferred[k].id, pos[k]) = 0
        BY <1>4, <1>5, <1>12, <3>1
      <3> QED
        BY <1>3, <1>4, <1>5, <1>15, <3>2, <3>3 DEF Queue
    <2>3. Adds(seen', flowCount, Waits(pos), lw, hg)
      <3>1. PICK all, late : late = {} /\ all = Waits(pos) \cup late
        OBVIOUS
      <3>2. late \in SUBSET {n + 1} /\ all = Waits(pos)
        BY <3>1
      <3>3. Adds(seen', flowCount, Waits(pos) \cup late, lw, hg)
        BY <1>2, <1>4, <1>6, <1>7, <1>8, <1>11, <1>15, <3>1, <3>2, AddsAppend
      <3> QED
        BY <3>1, <3>2, <3>3
    <2>4. \A i \in 1..(n + 1) \ Waits(pos) :
            seen'[i].kind = "template" \/ LastFor(seen', seen'[i].id, i) > 0
      <3>1. ASSUME NEW i \in 1..n \ Waits(pos)
            PROVE  seen'[i].kind = "template" \/ LastFor(seen', seen'[i].id, i) > 0
        BY <1>4, <1>6, <1>12, <1>13
      <3>2. seen'[n + 1].kind = "template" \/ LastFor(seen', seen'[n + 1].id, n + 1) > 0
        <4>1. PICK id : id = e.id
          OBVIOUS
        <4>2. LastFor(seen', id, n + 1)
                 = IF e.kind = "template" /\ e.id = id THEN e.size ELSE LastFor(seen, id, n)
          BY <1>2, <1>4, LastAtEnd
        <4>3. CASE e.kind = "template"
          BY <1>4, <4>3
        <4>4. CASE e.kind # "template"
          BY <1>4, <1>15, <4>1, <4>2, <4>4
        <4> QED
          BY <4>3, <4>4
      <3> QED
        BY <1>2, <3>1, <3>2
    <2>5. Ledger(lw, hg, pos)'
      BY <1>4, <1>6, <1>10, <2>1, <2>2, <2>3, <2>4 DEF Ledger
    <2> QED
      BY <2>5 DEF HasLedger
  <1>16. CASE /\ deferred' = Append(deferred, [id |-> e.id, bytes |-> e.size])
              /\ e.kind = "data" /\ LastFor(seen, e.id, n) = 0
              /\ lo = 0 /\ hi = 0
    <2>1. PICK ps : ps = [k \in 1..(d + 1) |-> IF k <= d THEN pos[k] ELSE n + 1]
      OBVIOUS
    <2>2. /\ Len(deferred') = d + 1 /\ deferred'[d + 1] = [id |-> e.id, bytes |-> e.size]
          /\ \A k \in 1..d : deferred'[k] = deferred[k]
      <3>1. deferred \in Seq([id : Words, bytes : Nat \ {0}])
        BY DEF CountsOK
      <3> QED
        BY <1>3, <1>16, <3>1
    <2>3. /\ ps[d + 1] = n + 1 /\ \A k \in 1..d : ps[k] = pos[k]
      BY <1>3, <2>1
    <2>4. \A k \in 1..(d + 1) : k \in 1..d \/ k = d + 1
      BY <1>3
    <2>5. Waits(ps)' = Waits(pos) \cup {n + 1}
      <3>1. Waits(ps)' = {ps[k] : k \in 1..(d + 1)}
        BY <2>2 DEF Waits
      <3>2. Waits(pos) = {pos[k] : k \in 1..d}
        BY <1>3 DEF Waits
      <3>3. d + 1 \in 1..(d + 1) /\ \A k \in 1..d : k \in 1..(d + 1)
        BY <1>3
      <3> QED
        BY <2>3, <2>4, <3>1, <3>2, <3>3
    <2>6. LastFor(seen', e.id, n + 1) = 0
      <3>1. PICK id : id = e.id
        OBVIOUS
      <3>2. LastFor(seen', id, n + 1)
               = IF e.kind = "template" /\ e.id = id THEN e.size ELSE LastFor(seen, id, n)
        BY <1>2, <1>4, LastAtEnd
      <3> QED
        BY <1>16, <3>1, <3>2
    <2>7. Queue(ps)'
      <3>1. ps \in [1..(d + 1) -> 1..(n + 1)]
        <4>1. \A k \in 1..(d + 1) : (IF k <= d THEN pos[k] ELSE n + 1) \in 1..(n + 1)
          <5>1. \A k \in 1..d : pos[k] \in 1..n
            BY <1>5
          <5> QED
            BY <1>2, <1>3, <5>1
        <4> QED
          BY <2>1, <4>1
      <3>2. \A j, k \in 1..(d + 1) : ps[j] = ps[k] => j = k
        <4>1. \A k \in 1..d : pos[k] # n + 1
          <5>1. \A k \in 1..d : pos[k] \in 1..n
            BY <1>5
          <5> QED
            BY <1>2, <5>1
        <4> QED
          BY <1>5, <2>3, <2>4, <4>1
      <3>3. ASSUME NEW k \in 1..(d + 1)
            PROVE  /\ seen'[ps[k]].kind = "data" /\ seen'[ps[k]].id = deferred'[k].id
                   /\ seen'[ps[k]].size = deferred'[k].bytes
                   /\ LastFor(seen', deferred'[k].id, ps[k]) = 0
        <4>1. CASE k \in 1..d
          <5>1. pos[k] \in 1..n /\ deferred[k].id \in Words
            BY <1>5, <1>13, <4>1
          <5>2. ps[k] = pos[k] /\ deferred'[k] = deferred[k] /\ seen'[pos[k]] = seen[pos[k]]
            BY <1>4, <2>2, <2>3, <4>1, <5>1
          <5>3. LastFor(seen', deferred[k].id, pos[k]) = LastFor(seen, deferred[k].id, pos[k])
            BY <1>12, <5>1
          <5> QED
            BY <1>5, <4>1, <5>2, <5>3
        <4>2. CASE k = d + 1
          BY <1>4, <1>16, <2>2, <2>3, <2>6, <4>2
        <4> QED
          BY <2>4, <4>1, <4>2
      <3> QED
        BY <1>4, <2>2, <3>1, <3>2, <3>3 DEF Queue
    <2>8. Adds(seen', flowCount, Waits(ps)', lw, hg)
      <3>1. lw = Extend(low, n, 0) /\ hg = Extend(high, n, 0)
        BY <1>7, <1>8, <1>16
      <3>2. Adds(seen', flowCount, Waits(pos) \cup {n + 1}, lw, hg)
        BY <1>2, <1>4, <1>6, <1>11, <3>1, AddsLater
      <3> QED
        BY <2>5, <3>2
    <2>9. \A i \in 1..(n + 1) \ Waits(ps)' :
            seen'[i].kind = "template" \/ LastFor(seen', seen'[i].id, i) > 0
      <3>1. ASSUME NEW i \in 1..(n + 1), i \notin Waits(ps)'
            PROVE  seen'[i].kind = "template" \/ LastFor(seen', seen'[i].id, i) > 0
        <4>1. i \in 1..n \ Waits(pos)
          BY <1>2, <2>5, <3>1
        <4> QED
          BY <1>4, <1>6, <1>12, <1>13, <4>1
      <3> QED
        BY <3>1
    <2>10. Ledger(lw, hg, ps)'
      BY <1>4, <1>6, <1>10, <2>7, <2>8, <2>9 DEF Ledger
    <2> QED
      BY <2>10 DEF HasLedger
  <1> QED
    BY <1>2, <1>15, <1>16 DEF Enters

\* A turn of the loop over deferredData adds a range to the totals; without a
\* template the range has no end the header's count could reach.
Settles(lo, hi) ==
    /\ pc = "deferred" /\ pc' = "deferred" /\ deferred # <<>> /\ deferred' = Tail(deferred)
    /\ UNCHANGED <<seen, flowCount>>
    /\ minRecords' = minRecords + lo
    /\ \/ unresolved' = unresolved /\ maxRecords' = maxRecords + hi
       \/ unresolved' = TRUE /\ hi > flowCount
    /\ \A e \in Sight : e.kind = "data" /\ e.size = Head(deferred).bytes =>
          Weighs(e, LastFor(seen, Head(deferred).id, Len(seen)), lo, hi, flowCount)

\* What waits is a Data FlowSet whose record size is the last one in the packet.
LEMMA WaitingSize ==
    ASSUME NEW pos, Queue(pos), CountsOK, NEW k \in 1..Len(deferred)
    PROVE  /\ pos[k] \in 1..Len(seen) /\ seen[pos[k]] \in Sight
           /\ seen[pos[k]].kind = "data" /\ seen[pos[k]].size = deferred[k].bytes
           /\ SizeOf(seen, pos[k]) = LastFor(seen, deferred[k].id, Len(seen))
  <1>1. pos[k] \in 1..Len(seen)
    BY DEF Queue
  <1>2. seen \in Seq(Sight)
    BY DEF CountsOK, Sight
  <1>3. seen[pos[k]] \in Sight
    BY <1>1, <1>2
  <1>4. /\ seen[pos[k]].kind = "data" /\ seen[pos[k]].id = deferred[k].id
        /\ seen[pos[k]].size = deferred[k].bytes /\ LastFor(seen, deferred[k].id, pos[k]) = 0
    BY DEF Queue
  <1>5. SizeOf(seen, pos[k]) = LastFor(seen, deferred[k].id, Len(seen))
    BY <1>4 DEF SizeOf
  <1> QED
    BY <1>1, <1>3, <1>4, <1>5

\* The ledger after a turn of that loop.
LEMMA LedgerSettle ==
    ASSUME HasLedger, CountsOK, minRecords' \in Nat, maxRecords' \in Nat, flowCount \in Nat,
           NEW lo, NEW hi, Settles(lo, hi)
    PROVE  HasLedger'
  <1>1. PICK low, high, pos : Ledger(low, high, pos)
    BY DEF HasLedger
  <1>2. PICK n : n = Len(seen) /\ n \in Nat
    BY DEF CountsOK
  <1>3. PICK d : d = Len(deferred) /\ d \in Nat
    BY DEF CountsOK
  <1>4. /\ d > 0 /\ Len(deferred') = d - 1 /\ Head(deferred) = deferred[1]
        /\ \A k \in 1..(d - 1) : deferred'[k] = deferred[k + 1]
    <2>1. deferred \in Seq([id : Words, bytes : Nat \ {0}])
      BY DEF CountsOK
    <2>2. deferred # <<>> /\ deferred' = Tail(deferred)
      BY DEF Settles
    <2> QED
      BY <1>3, <2>1, <2>2
  <1>5. /\ Queue(pos) /\ pos \in [1..d -> 1..n] /\ \A j, k \in 1..d : pos[j] = pos[k] => j = k
        /\ \A k \in 1..d :
              /\ seen[pos[k]].kind = "data" /\ seen[pos[k]].id = deferred[k].id
              /\ seen[pos[k]].size = deferred[k].bytes
              /\ LastFor(seen, deferred[k].id, pos[k]) = 0
    BY <1>1, <1>2, <1>3 DEF Ledger, Queue
  <1>6. /\ pc = "deferred" /\ pc' = "deferred" /\ seen' = seen /\ flowCount' = flowCount
        /\ minRecords' = minRecords + lo
        /\ \/ unresolved' = unresolved /\ maxRecords' = maxRecords + hi
           \/ unresolved' = TRUE /\ hi > flowCount
    BY DEF Settles
  <1>7. PICK u : u = pos[1]
    OBVIOUS
  <1>8. 1 \in 1..d
    BY <1>3, <1>4
  <1>9. u \in 1..n /\ u \in Waits(pos) /\ Waits(pos) \in SUBSET (1..n)
    <2>1. \A k \in 1..d : pos[k] \in 1..n
      BY <1>5
    <2> QED
      BY <1>3, <1>7, <1>8, <2>1 DEF Waits
  <1>10. Weighs(seen[u], SizeOf(seen, u), lo, hi, flowCount)
    <2>1. /\ seen[u] \in Sight /\ seen[u].kind = "data" /\ seen[u].size = deferred[1].bytes
          /\ SizeOf(seen, u) = LastFor(seen, deferred[1].id, Len(seen))
      BY <1>3, <1>5, <1>7, <1>8, WaitingSize
    <2> QED
      BY <1>4, <2>1 DEF Settles
  <1>11. PICK ps : ps = [k \in 1..(d - 1) |-> pos[k + 1]]
    OBVIOUS
  <1>12. \A k \in 1..(d - 1) : k + 1 \in 1..d /\ k + 1 # 1 /\ ps[k] = pos[k + 1]
    BY <1>3, <1>11
  <1>13. Waits(ps)' = Waits(pos) \ {u}
    <2>1. Waits(ps)' = {ps[k] : k \in 1..(d - 1)}
      BY <1>4 DEF Waits
    <2>2. Waits(pos) = {pos[k] : k \in 1..d}
      BY <1>3 DEF Waits
    <2>3. \A k \in 1..d : k = 1 \/ (k - 1 \in 1..(d - 1) /\ (k - 1) + 1 = k)
      BY <1>3
    <2>4. ASSUME NEW x \in Waits(ps)' PROVE x \in Waits(pos) \ {u}
      <3>1. PICK k \in 1..(d - 1) : x = ps[k]
        BY <2>1
      <3>2. x = pos[k + 1] /\ k + 1 \in 1..d /\ k + 1 # 1
        BY <1>12, <3>1
      <3> QED
        BY <1>5, <1>7, <1>8, <2>2, <3>2
    <2>5. ASSUME NEW x \in Waits(pos) \ {u} PROVE x \in Waits(ps)'
      <3>1. PICK k \in 1..d : x = pos[k]
        BY <2>2
      <3>2. k # 1
        BY <1>7, <3>1
      <3>3. PICK j \in 1..(d - 1) : j + 1 = k
        BY <2>3, <3>2
      <3>4. x = ps[j]
        BY <1>12, <3>1, <3>3
      <3> QED
        BY <2>1, <3>4
    <2> QED
      BY <2>4, <2>5
  <1>14. Queue(ps)'
    <2>1. ps \in [1..(d - 1) -> 1..n]
      <3>1. \A k \in 1..(d - 1) : pos[k + 1] \in 1..n
        BY <1>5, <1>12
      <3> QED
        BY <1>11, <3>1
    <2>2. \A j, k \in 1..(d - 1) : ps[j] = ps[k] => j = k
      <3>1. ASSUME NEW j \in 1..(d - 1), NEW k \in 1..(d - 1), ps[j] = ps[k] PROVE j = k
        <4>1. j + 1 = k + 1
          BY <1>5, <1>12, <3>1
        <4> QED
          BY <4>1
      <3> QED
        BY <3>1
    <2>3. ASSUME NEW k \in 1..(d - 1)
          PROVE  /\ seen[ps[k]].kind = "data" /\ seen[ps[k]].id = deferred'[k].id
                 /\ seen[ps[k]].size = deferred'[k].bytes
                 /\ LastFor(seen, deferred'[k].id, ps[k]) = 0
      <3>1. ps[k] = pos[k + 1] /\ deferred'[k] = deferred[k + 1] /\ k + 1 \in 1..d
        BY <1>4, <1>12
      <3> QED
        BY <1>5, <3>1
    <2> QED
      BY <1>2, <1>4, <1>6, <2>1, <2>2, <2>3 DEF Queue
  <1>15. PICK lw, hg : lw = Raise(low, n, u, lo) /\ hg = Raise(high, n, u, hi)
    OBVIOUS
  <1>16. Adds(seen', flowCount', Waits(ps)', lw, hg)
    <2>1. Adds(seen, flowCount, Waits(pos), low, high) /\ seen \in Seq(Sight)
      BY <1>1 DEF Ledger, CountsOK, Sight
    <2>2. Adds(seen, flowCount, Waits(pos) \ {u}, Raise(low, Len(seen), u, lo), Raise(high, Len(seen), u, hi))
      BY <1>2, <1>9, <1>10, <2>1, AddsSettle
    <2> QED
      BY <1>2, <1>6, <1>13, <1>15, <2>2
  <1>17. /\ low[n] = minRecords /\ (~unresolved => high[n] = maxRecords)
         /\ (unresolved => high[n] > flowCount)
    BY <1>1, <1>2, <1>6, CountsOK DEF Ledger, InProgress, CountsOK
  <1>18. low[n] \in Nat /\ high[n] \in Nat
    <2>1. n \in 0..n
      BY <1>2
    <2> QED
      BY <1>1, <1>2, <2>1 DEF Ledger, Adds
  <1>19. lo \in Nat /\ hi \in Nat
    BY <1>10, WeighsType
  <1>20. lw[n] = low[n] + lo /\ hg[n] = high[n] + hi
    <2>1. n \in 0..n /\ n >= u
      BY <1>2, <1>9
    <2> QED
      BY <1>15, <2>1 DEF Raise
  <1>21. /\ lw[n] = minRecords' /\ (~unresolved' => hg[n] = maxRecords')
         /\ (unresolved' => hg[n] > flowCount)
    BY <1>6, <1>17, <1>18, <1>19, <1>20
  <1>24. InProgress' = 0 /\ minRecords' + 0 = minRecords' /\ maxRecords' + 0 = maxRecords'
    <2>1. InProgress' = 0
      BY <1>6, Zenon DEF InProgress
    <2>2. \A m \in Nat : m + 0 = m
      OBVIOUS
    <2> QED
      BY <2>1, <2>2
  <1>23. Ledger(lw, hg, ps)'
    BY <1>2, <1>6, <1>14, <1>16, <1>21, <1>24 DEF Ledger
  <1> QED
    BY <1>23 DEF HasLedger

-----------------------------------------------------------------------------
(* Every step keeps the accounts *)

\* A walk cut short says nothing about the header's count.
LEMMA CutShort ==
    ASSUME Reject, offset \in Int, len \in Int, offset < HeaderSize \/ offset < len
    PROVE  Accounts'
  <1>1. pc' = "done" /\ offset' = offset /\ len' = len
    BY DEF Reject, Verdict, setVars
  <1>2. AcceptedIffExplained'
    BY <1>1 DEF AcceptedIffExplained
  <1>3. NotThereYet'
    BY <1>1 DEF NotThereYet
  <1> QED
    BY <1>1, <1>2, <1>3 DEF Accounts

\* Before the verdict the accounts are the ledger, the sizes and the counter.
LEMMA StillWalking ==
    ASSUME pc' # "done", NotThereYet', HasLedger', Learned', SomethingSeen'
    PROVE  Accounts'
  BY DEF Accounts, AcceptedIffExplained

\* What templateRecordSizes says of an ID is what the packet said last.
LEMMA KnownSize ==
    ASSUME Learned, CountsOK, NEW id \in Words
    PROVE  /\ SizeKnown(id) => /\ LastFor(seen, id, Len(seen)) = sizes[id]
                               /\ sizes[id] \in Nat \ {0}
           /\ ~SizeKnown(id) => LastFor(seen, id, Len(seen)) = 0
  BY DEF Learned, CountsOK, SizeKnown

\* The header.
LEMMA HeaderAccounts ==
    ASSUME Walk, CountsOK, Accounts, ReadHeader
    PROVE  Accounts'
  <1>1. /\ pc = "header" /\ offset = 0 /\ seen = <<>> /\ len \in Int
        /\ HasLedger /\ Learned /\ SomethingSeen
    BY DEF ReadHeader, Accounts, NotThereYet, Walk, PlacesOK
  <1>2. CASE Reject
    <2>1. offset < HeaderSize
      BY <1>1
    <2> QED
      BY <1>1, <1>2, <2>1, CutShort
  <1>3. CASE ~Reject
    <2>1. /\ pc' = "set" /\ UNCHANGED <<setCount, sizes, countVars, seen>>
      BY <1>3 DEF ReadHeader
    <2>2. UNCHANGED <<deferred, minRecords, maxRecords, unresolved>>
      BY <2>1 DEF countVars
    <2>3. InProgress = 0 /\ InProgress' = 0
      BY <1>1, <2>1, Zenon DEF InProgress
    <2>4. HasLedger'
      BY <1>1, <2>1, <2>2, <2>3, LedgerHeader
    <2>5. Learned'
      BY <1>1, <2>1 DEF Learned
    <2>6. NotThereYet' /\ SomethingSeen'
      BY <1>1, <2>1 DEF NotThereYet, SomethingSeen
    <2> QED
      BY <2>1, <2>4, <2>5, <2>6, StillWalking
  <1> QED
    BY <1>2, <1>3

\* A Data FlowSet is weighed with the template before it, or waits.
LEMMA DataEnters ==
    ASSUME Walk, CountsOK, CountsOK', Accounts, pc = "set", flowCount' = flowCount,
           NEW id \in Words, NEW bytes \in Int, DataSet(id, bytes), ~Reject
    PROVE  Accounts'
  <1> DEFINE e == [kind |-> "data", id |-> id, size |-> bytes]
  <1>1. /\ bytes \in Nat \ {0} /\ seen' = Append(seen, e) /\ pc' = "set"
        /\ setCount' = setCount + 1 /\ sizes' = sizes /\ unresolved' = unresolved
    BY DEF DataSet, EndSet
  <1>2. HasLedger /\ Learned /\ SomethingSeen
    BY DEF Accounts
  <1>3. e \in Sight /\ e.kind = "data" /\ e.id = id /\ e.size = bytes
    BY <1>1 DEF Sight
  <1>4. seen \in Seq(Sight) /\ setCount \in Nat /\ flowCount \in Nat
    BY DEF CountsOK, Sight, Walk, PlacesOK
  <1>5. InProgress = 0 /\ InProgress' = 0
    BY <1>1, Zenon DEF InProgress
  <1>60. Len(seen) \in Nat
    BY <1>4
  <1> HIDE DEF e
  <1>6. PICK n, f, t : n = Len(seen) /\ n \in Nat /\ f = e /\ t = seen'
    BY <1>60, Zenon
  <1>7. \A i \in Words : LastFor(t, i, n + 1) = LastFor(seen, i, n)
    <2>1. \A i : LastFor(t, i, n + 1)
                   = IF f.kind = "template" /\ f.id = i THEN f.size ELSE LastFor(seen, i, n)
      BY <1>1, <1>3, <1>4, <1>6, LastAtEnd
    <2> QED
      BY <1>3, <1>6, <2>1
  <1>8. Len(t) = n + 1 /\ t[n + 1] = f /\ t # <<>>
    BY <1>1, <1>4, <1>6
  <1>9. Learned'
    BY <1>1, <1>2, <1>6, <1>7, <1>8 DEF Learned
  <1>10. NotThereYet' /\ SomethingSeen'
    <2>1. seen' # <<>> /\ setCount' > 0
      BY <1>1, <1>4, <1>6, <1>8
    <2> QED
      BY <1>1, <2>1 DEF NotThereYet, SomethingSeen
  <1>11. /\ minRecords \in Nat /\ maxRecords \in Nat /\ minRecords' \in Nat /\ maxRecords' \in Nat
    BY DEF CountsOK
  <1>12. HasLedger'
    <2>1. CASE /\ SizeKnown(id) /\ Layouts(bytes, sizes[id]) # {}
               /\ CountRecords(bytes, sizes[id]) /\ deferred' = deferred
      <3>1. PICK lo, hi, size : /\ lo = Min(Layouts(bytes, sizes[id])) /\ hi = Max(Layouts(bytes, sizes[id]))
                                /\ size = sizes[id]
        OBVIOUS
      <3>2. size \in Nat \ {0} /\ LastFor(seen, id, n) = size /\ size > 0
        BY <1>2, <1>6, <2>1, <3>1, KnownSize
      <3>3. Weighs(f, size, lo, hi, flowCount)
        BY <1>1, <1>3, <1>4, <1>6, <2>1, <3>1, <3>2, KnownWeighs
      <3>4. SizeOf(t, n + 1) = size
        BY <1>3, <1>6, <1>7, <1>8, <3>2 DEF SizeOf
      <3>5. lo \in Nat /\ hi \in Nat
        BY <3>3, WeighsType
      <3>6. minRecords' = minRecords + lo /\ maxRecords' = maxRecords + hi
        BY <2>1, <3>1 DEF CountRecords
      <3>7. /\ minRecords' + 0 = minRecords + 0 + lo /\ maxRecords' + 0 = maxRecords + 0 + hi
        BY <1>11, <3>5, <3>6
      <3>8. Enters(f, lo, hi)
        BY <1>1, <1>3, <1>5, <1>6, <1>11, <2>1, <3>2, <3>3, <3>4, <3>7 DEF Enters
      <3> QED
        BY <1>2, <1>3, <1>6, <3>5, <3>8, LedgerAppend
    <2>2. CASE /\ ~SizeKnown(id) /\ deferred' = Append(deferred, [id |-> id, bytes |-> bytes])
               /\ UNCHANGED <<minRecords, maxRecords>>
      <3>1. PICK zero : zero = 0
        OBVIOUS
      <3>2. LastFor(seen, id, n) = 0
        BY <1>2, <1>6, <2>2, KnownSize
      <3>3. /\ minRecords' + 0 = minRecords + 0 + zero /\ maxRecords' + 0 = maxRecords + 0 + zero
        BY <1>11, <2>2, <3>1
      <3>4. Enters(f, zero, zero)
        BY <1>1, <1>3, <1>5, <1>6, <1>11, <2>2, <3>1, <3>2, <3>3 DEF Enters
      <3> QED
        BY <1>2, <1>3, <1>6, <3>1, <3>4, LedgerAppend
    <2> QED
      BY <2>1, <2>2 DEF DataSet
  <1> QED
    BY <1>1, <1>9, <1>10, <1>12, StillWalking

\* The head of the loop over FlowSets.
LEMMA SetAccounts ==
    ASSUME Walk, CountsOK, CountsOK', Accounts, SetStep
    PROVE  Accounts'
  <1>1. pc = "set" /\ offset \in Nat /\ len \in Nat /\ HasLedger /\ Learned /\ SomethingSeen
    BY DEF SetStep, SetsDone, SetHeaderCut, ReadSet, Walk, PlacesOK, Accounts
  <1>2. minRecords \in Nat /\ maxRecords \in Nat
    BY DEF CountsOK
  <1>3. InProgress = 0
    BY <1>1, Zenon DEF InProgress
  <1>4. CASE SetsDone
    <2>1. /\ pc' = "deferred"
          /\ UNCHANGED <<flowCount, setCount, parsed, sizes, deferred, minRecords, maxRecords, unresolved, seen>>
      BY <1>4 DEF SetsDone, headVars, setVars, recordVars, countVars
    <2>2. InProgress' = 0
      BY <2>1, Zenon DEF InProgress
    <2>3. HasLedger'
      BY <1>1, <1>3, <2>1, <2>2, LedgerFrame
    <2>4. NotThereYet' /\ Learned' /\ SomethingSeen'
      BY <1>1, <2>1 DEF NotThereYet, Learned, SomethingSeen
    <2> QED
      BY <2>1, <2>3, <2>4, StillWalking
  <1>5. CASE Reject /\ offset < len
    BY <1>1, <1>5, CutShort
  <1>6. CASE ReadSet /\ ~Reject
    <2>1. flowCount' = flowCount /\ offset < len
      BY <1>1, <1>6 DEF ReadSet
    <2>2. ASSUME NEW id \in Words, NEW length \in Words, DataSet(id, length - 4)
          PROVE  Accounts'
      <3>1. PICK bytes \in Int : bytes = length - 4
        OBVIOUS
      <3> QED
        BY <1>1, <1>6, <2>1, <2>2, <3>1, DataEnters
    <2>3. CASE /\ pc' = "record" /\ parsed' = 0
               /\ UNCHANGED <<len, offset, setCount, fieldVars, sizes, countVars, verdict, seen>>
      <3>1. UNCHANGED <<deferred, minRecords, maxRecords, unresolved, seen, flowCount>>
        BY <2>1, <2>3 DEF countVars
      <3>2. InProgress' = 0
        BY <2>3, Zenon DEF InProgress
      <3>3. HasLedger'
        BY <1>1, <1>3, <2>3, <3>1, <3>2, LedgerFrame
      <3>4. NotThereYet' /\ Learned' /\ SomethingSeen'
        BY <1>1, <2>1, <2>3 DEF NotThereYet, Learned, SomethingSeen
      <3> QED
        BY <2>3, <3>3, <3>4, StillWalking
    <2> QED
      BY <1>6, <2>2, <2>3 DEF ReadSet
  <1> QED
    BY <1>1, <1>4, <1>5, <1>6 DEF SetStep, SetHeaderCut, ReadSet

\* The loop over template records: at the end of the FlowSet they are counted.
LEMMA RecordAccounts ==
    ASSUME Walk, CountsOK, CountsOK', Accounts, RecordStep
    PROVE  Accounts'
  <1>1. /\ pc = "record" /\ offset \in Nat /\ len \in Nat /\ offset < len /\ parsed \in Nat
        /\ setCount \in Nat /\ flowCount' = flowCount /\ HasLedger /\ Learned /\ SomethingSeen
    BY DEF RecordStep, EndRecords, ReadTemplate, ReadOptionsTemplate, Walk, PlacesOK, Accounts,
           NotThereYet
  <1>2. minRecords \in Nat /\ maxRecords \in Nat
    BY DEF CountsOK
  <1>3. InProgress = parsed
    BY <1>1, Zenon DEF InProgress
  <1>4. CASE Reject
    BY <1>1, <1>4, CutShort
  <1>5. CASE EndRecords /\ ~Reject
    <2>1. /\ parsed > 0 /\ pc' = "set" /\ setCount' = setCount + 1
          /\ minRecords' = minRecords + parsed /\ maxRecords' = maxRecords + parsed
          /\ UNCHANGED <<sizes, deferred, unresolved, seen>>
      BY <1>5 DEF EndRecords, EndSet
    <2>2. InProgress' = 0
      BY <2>1, Zenon DEF InProgress
    <2>3. /\ minRecords' + InProgress' = minRecords + InProgress
          /\ maxRecords' + InProgress' = maxRecords + InProgress
      BY <1>1, <1>2, <1>3, <2>1, <2>2
    <2>4. HasLedger'
      BY <1>1, <2>1, <2>3, LedgerFrame
    <2>5. NotThereYet' /\ Learned' /\ SomethingSeen'
      BY <1>1, <2>1 DEF NotThereYet, Learned, SomethingSeen
    <2> QED
      BY <2>1, <2>4, <2>5, StillWalking
  <1>6. CASE \E id, count : StartFields(id, count)
    <2>1. /\ pc' = "field"
          /\ UNCHANGED <<len, offset, setCount, parsed, sizes, deferred, minRecords, maxRecords, unresolved, seen>>
      BY <1>6 DEF StartFields, setVars, recordVars, countVars
    <2>2. InProgress' = InProgress
      BY <1>1, <2>1, Zenon DEF InProgress
    <2>3. HasLedger'
      BY <1>1, <2>1, <2>2, LedgerFrame
    <2>4. NotThereYet' /\ Learned' /\ SomethingSeen'
      BY <1>1, <2>1 DEF NotThereYet, Learned, SomethingSeen
    <2> QED
      BY <2>1, <2>3, <2>4, StillWalking
  <1> QED
    BY <1>4, <1>5, <1>6 DEF RecordStep, ReadTemplate, ReadOptionsTemplate

\* A template is learned, and waits to be counted.
LEMMA FieldAccounts ==
    ASSUME Walk, CountsOK, CountsOK', Accounts, FieldStep
    PROVE  Accounts'
  <1>1. /\ pc = "field" /\ offset \in Nat /\ len \in Nat /\ offset < len /\ parsed \in Nat
        /\ setCount \in Nat /\ flowCount' = flowCount /\ HasLedger /\ Learned /\ SomethingSeen
        /\ tmplID \in Words /\ recordSize \in Nat /\ flowCount \in Nat
    BY DEF FieldStep, ReadField, EndFields, headVars, Walk, PlacesOK, Cursor, Accounts, NotThereYet
  <1>2. minRecords \in Nat /\ maxRecords \in Nat /\ seen \in Seq(Sight)
    BY DEF CountsOK, Sight
  <1>3. InProgress = parsed
    BY <1>1, Zenon DEF InProgress
  <1>4. CASE Reject
    BY <1>1, <1>4, CutShort
  <1>5. CASE ReadField /\ ~Reject
    <2>1. /\ pc' = "field"
          /\ UNCHANGED <<len, offset, setCount, parsed, sizes, deferred, minRecords, maxRecords, unresolved, seen>>
      BY <1>1, <1>5 DEF ReadField, setVars, recordVars, countVars
    <2>2. InProgress' = InProgress
      BY <1>1, <2>1, Zenon DEF InProgress
    <2>3. HasLedger'
      BY <1>1, <2>1, <2>2, LedgerFrame
    <2>4. NotThereYet' /\ Learned' /\ SomethingSeen'
      BY <1>1, <2>1 DEF NotThereYet, Learned, SomethingSeen
    <2> QED
      BY <2>1, <2>3, <2>4, StillWalking
  <1>6. CASE EndFields
    <2> DEFINE e == [kind |-> "template", id |-> tmplID, size |-> recordSize]
    <2>1. /\ pc' = "record" /\ seen' = Append(seen, e) /\ parsed' = parsed + 1
          /\ UNCHANGED <<len, offset, setCount, deferred, minRecords, maxRecords, unresolved>>
          /\ sizes' = [i \in DOMAIN sizes \cup {tmplID} |-> IF i = tmplID THEN recordSize ELSE sizes[i]]
      BY <1>6 DEF EndFields, Learn, NextRecord, headVars, setVars, countVars
    <2>2. e \in Sight /\ e.kind = "template" /\ e.id = tmplID /\ e.size = recordSize
      BY <1>1 DEF Sight
    <2>3. Len(seen) \in Nat
      BY <1>2
    <2> HIDE DEF e
    <2>4. PICK n, f, t, one : n = Len(seen) /\ n \in Nat /\ f = e /\ t = seen' /\ one = 1
      BY <2>3, Zenon
    <2>5. Len(t) = n + 1 /\ t[n + 1] = f /\ t # <<>>
      BY <1>2, <2>1, <2>2, <2>4
    <2>6. Learned'
      <3>1. \A i : LastFor(t, i, n + 1)
                     = IF f.kind = "template" /\ f.id = i THEN f.size ELSE LastFor(seen, i, n)
        BY <1>2, <2>1, <2>2, <2>4, LastAtEnd
      <3>2. ASSUME NEW i \in Words
            PROVE  LastFor(t, i, n + 1) = IF i \in DOMAIN sizes' THEN sizes'[i] ELSE 0
        <4>1. CASE i = tmplID
          BY <2>1, <2>2, <2>4, <3>1, <4>1
        <4>2. CASE i # tmplID
          <5>1. LastFor(t, i, n + 1) = IF i \in DOMAIN sizes THEN sizes[i] ELSE 0
            BY <1>1, <2>2, <2>4, <3>1, <4>2 DEF Learned
          <5>2. (i \in DOMAIN sizes' <=> i \in DOMAIN sizes) /\ (i \in DOMAIN sizes => sizes'[i] = sizes[i])
            BY <2>1, <4>2
          <5> QED
            BY <5>1, <5>2
        <4> QED
          BY <4>1, <4>2
      <3> QED
        BY <2>4, <2>5, <3>2 DEF Learned
    <2>7. InProgress' = parsed + 1
      BY <2>1, Zenon DEF InProgress
    <2>8. Weighs(f, SizeOf(t, n + 1), one, one, flowCount)
      BY <1>1, <2>2, <2>4, TemplateWeighs
    <2>9. one \in Nat /\ f \in Sight
      BY <2>2, <2>4
    <2>10. Enters(f, one, one)
      <3>1. /\ InProgress \in Nat /\ InProgress' \in Nat /\ minRecords' \in Nat /\ maxRecords' \in Nat
            /\ minRecords' + InProgress' = minRecords + InProgress + one
            /\ maxRecords' + InProgress' = maxRecords + InProgress + one
        BY <1>1, <1>2, <1>3, <2>1, <2>4, <2>7
      <3> QED
        BY <1>1, <2>1, <2>2, <2>4, <2>8, <3>1 DEF Enters
    <2>11. HasLedger'
      BY <1>1, <2>9, <2>10, LedgerAppend
    <2>12. NotThereYet' /\ SomethingSeen'
      BY <1>1, <2>1, <2>4, <2>5 DEF NotThereYet, SomethingSeen
    <2> QED
      BY <2>1, <2>6, <2>11, <2>12, StillWalking
  <1> QED
    BY <1>4, <1>5, <1>6 DEF FieldStep

\* The loop over deferredData. A FlowSet that its template cannot fill refutes
\* the packet, as nothing explains it.
LEMMA ResolveAccounts ==
    ASSUME Walk, CountsOK, CountsOK', Accounts, Resolve
    PROVE  Accounts'
  <1>1. /\ pc = "deferred" /\ deferred # <<>> /\ flowCount' = flowCount /\ flowCount \in Nat
        /\ HasLedger /\ Learned /\ SomethingSeen
    BY DEF Resolve, Walk, PlacesOK, Accounts
  <1>2. /\ deferred \in Seq([id : Words, bytes : Nat \ {0}]) /\ seen \in Seq(Sight)
        /\ maxRecords \in Nat /\ minRecords' \in Nat /\ maxRecords' \in Nat
    BY DEF CountsOK, Sight
  <1>3. PICK info : info = Head(deferred) /\ info = deferred[1] /\ 1 \in 1..Len(deferred)
    <2>1. Head(deferred) = deferred[1] /\ 1 \in 1..Len(deferred)
      BY <1>1, <1>2
    <2> QED
      BY <2>1
  <1>4. info.id \in Words /\ info.bytes \in Nat \ {0}
    <2> DEFINE Info == [id : Words, bytes : Nat \ {0}]
    <2>1. deferred \in Seq(Info)
      BY <1>2
    <2>2. info \in Info
      <3> HIDE DEF Info
      <3> QED
        BY <1>3, <2>1
    <2> QED
      BY <2>2
  <1>5. CASE Reject
    <2>1. /\ SizeKnown(info.id) /\ Layouts(info.bytes, sizes[info.id]) = {}
      <3>1. CASE deferred' = Tail(deferred)
        <4>1. deferred' = deferred
          BY <1>5 DEF Reject, Verdict, countVars
        <4>2. Tail(deferred) # deferred
          <5>1. Len(Tail(deferred)) = Len(deferred) - 1 /\ Len(deferred) \in Nat
            BY <1>1, <1>2
          <5>2. Len(Tail(deferred)) # Len(deferred)
            BY <5>1
          <5> QED
            BY <5>2
        <4> QED
          BY <3>1, <4>1, <4>2
      <3> QED
        BY <1>3, <3>1 DEF Resolve
    <2>2. LastFor(seen, info.id, Len(seen)) = sizes[info.id] /\ sizes[info.id] \in Nat \ {0}
      BY <1>1, <1>4, <2>1, KnownSize
    <2>3. PICK pos : Queue(pos)
      BY <1>1 DEF HasLedger, Ledger
    <2>4. PICK u : u = pos[1]
      OBVIOUS
    <2>5. /\ u \in 1..Len(seen) /\ seen[u].kind = "data" /\ seen[u].size = info.bytes
          /\ SizeOf(seen, u) = LastFor(seen, info.id, Len(seen))
      BY <1>3, <2>3, <2>4, WaitingSize
    <2>6. ~ExplainedFor(seen, flowCount)
      BY <1>1, <1>2, <1>4, <2>1, <2>2, <2>5, NothingFits
    <2>7. pc' = "done" /\ verdict' = "invalid" /\ seen' = seen
      BY <1>5 DEF Reject, Verdict
    <2>8. ~Explained'
      <3>1. seen' \in Seq(Sight) /\ ~ExplainedFor(seen', flowCount')
        BY <1>1, <1>2, <2>6, <2>7
      <3>2. (seen \in Seq(Sight) => (Explained <=> ExplainedFor(seen, flowCount)))'
        BY ExplainedIsFor, PTL
      <3> QED
        BY <3>1, <3>2
    <2> QED
      BY <2>7, <2>8 DEF Accounts, AcceptedIffExplained, NotThereYet
  <1>6. CASE ~Reject
    <2>1. /\ pc' = "deferred" /\ deferred' = Tail(deferred) /\ seen' = seen
          /\ UNCHANGED <<len, offset, setCount, parsed, sizes>>
      BY <1>1, <1>6 DEF Resolve, setVars, recordVars
    <2>2. PICK last : last = LastFor(seen, info.id, Len(seen))
      OBVIOUS
    <2>3. HasLedger'
      <3>1. CASE ~SizeKnown(info.id) /\ Unresolved
        <4>1. PICK lo, hi : lo = 1 /\ hi = flowCount + 1
          OBVIOUS
        <4>2. last = 0
          BY <1>1, <1>4, <2>2, <3>1, KnownSize
        <4>3. \A e \in Sight : e.kind = "data" /\ e.size = info.bytes => Weighs(e, last, lo, hi, flowCount)
          BY <1>1, <4>1, <4>2, UnresolvedWeighs
        <4>4. minRecords' = minRecords + lo /\ unresolved' = TRUE /\ hi > flowCount
          BY <1>1, <3>1, <4>1 DEF Unresolved
        <4>5. Settles(lo, hi)
          BY <1>1, <1>3, <2>1, <2>2, <4>3, <4>4 DEF Settles
        <4> QED
          BY <1>1, <1>2, <4>5, LedgerSettle
      <3>2. CASE /\ SizeKnown(info.id) /\ Layouts(info.bytes, sizes[info.id]) # {}
                 /\ CountRecords(info.bytes, sizes[info.id]) /\ UNCHANGED unresolved
        <4>1. PICK lo, hi, size : /\ size = sizes[info.id]
                                  /\ lo = Min(Layouts(info.bytes, sizes[info.id]))
                                  /\ hi = Max(Layouts(info.bytes, sizes[info.id]))
          OBVIOUS
        <4>2. last = size /\ size \in Nat \ {0}
          BY <1>1, <1>4, <2>2, <3>2, <4>1, KnownSize
        <4>3. ASSUME NEW e \in Sight, e.kind = "data", e.size = info.bytes
              PROVE  Weighs(e, last, lo, hi, flowCount)
          BY <1>1, <1>4, <3>2, <4>1, <4>2, <4>3, KnownWeighs
        <4>4. minRecords' = minRecords + lo /\ maxRecords' = maxRecords + hi
          BY <3>2, <4>1 DEF CountRecords
        <4>5. Settles(lo, hi)
          BY <1>1, <1>3, <2>1, <2>2, <3>2, <4>3, <4>4 DEF Settles
        <4> QED
          BY <1>1, <1>2, <4>5, LedgerSettle
      <3> QED
        BY <1>3, <1>6, <3>1, <3>2 DEF Resolve
    <2>4. NotThereYet' /\ Learned' /\ SomethingSeen'
      BY <1>1, <2>1 DEF NotThereYet, Learned, SomethingSeen
    <2> QED
      BY <2>1, <2>3, <2>4, StillWalking
  <1> QED
    BY <1>5, <1>6

\* The verdict compares the header's count with the totals, which now are those
\* of everything seen.
LEMMA ConcludeAccounts ==
    ASSUME Walk, CountsOK, Accounts, Conclude
    PROVE  Accounts'
  <1>1. /\ pc = "deferred" /\ deferred = <<>> /\ flowCount' = flowCount /\ flowCount \in 0..MaxFlowCount
        /\ HasLedger /\ SomethingSeen /\ setCount \in Nat
    BY DEF Conclude, Walk, PlacesOK, Accounts
  <1>2. seen \in Seq(Sight) /\ minRecords \in Nat /\ maxRecords \in Nat /\ unresolved \in BOOLEAN
    BY DEF CountsOK, Sight
  <1>3. PICK low, high, pos : Ledger(low, high, pos)
    BY <1>1 DEF HasLedger
  <1>4. Waits(pos) = {}
    BY <1>1 DEF Waits
  <1>5. Adds(seen, flowCount, {}, low, high)
    BY <1>3, <1>4 DEF Ledger
  <1>6. PICK n : n = Len(seen) /\ n \in Nat /\ (n = 0 <=> seen = <<>>)
    BY <1>2
  <1>7. InProgress = 0
    BY <1>1, Zenon DEF InProgress
  <1>8. /\ low[n] = minRecords /\ (~unresolved => high[n] = maxRecords)
        /\ (unresolved => high[n] > flowCount)
    BY <1>2, <1>3, <1>6, <1>7 DEF Ledger
  <1>9. flowCount \in Nat /\ flowCount <= MaxFlowCount /\ MaxFlowCount \in Nat
    BY <1>1
  <1>10. high[n] \in Nat
    <2>1. n \in 0..n
      BY <1>6
    <2> QED
      BY <1>5, <1>6, <2>1 DEF Adds
  <1>11. ExplainedFor(seen, flowCount) <=> low[n] <= flowCount /\ flowCount <= high[n]
    BY <1>2, <1>5, <1>6, <1>9, ExplainedWithin, WithinExplained
  <1>12. n > 0 => low[n] > 0
    <2> SUFFICES ASSUME n > 0 PROVE low[n] > 0
      OBVIOUS
    <2>1. n \in 1..n /\ n \in 0..n /\ n - 1 \in 0..n
      BY <1>6
    <2>2. low[n] - low[n-1] > 0
      <3>1. PICK lo, hi : lo = low[n] - low[n-1] /\ Weighs(seen[n], SizeOf(seen, n), lo, hi, flowCount)
        BY <1>5, <1>6, <2>1 DEF Adds
      <3> QED
        BY <3>1, WeighsType
    <2>3. low[n] \in Nat /\ low[n-1] \in Nat
      BY <1>5, <1>6, <2>1 DEF Adds
    <2> QED
      BY <2>2, <2>3
  <1>13. setCount > 0 <=> seen # <<>>
    BY <1>1 DEF SomethingSeen
  <1>14. CountFits <=> seen # <<>> /\ ExplainedFor(seen, flowCount)
    <2>1. minRecords <= flowCount => minRecords <= MaxFlowCount
      BY <1>2, <1>9
    <2>2. n > 0 /\ minRecords <= flowCount => flowCount > 0
      BY <1>2, <1>8, <1>9, <1>12
    <2>3. (unresolved \/ flowCount <= maxRecords) <=> flowCount <= high[n]
      BY <1>2, <1>8, <1>9, <1>10
    <2>4. n > 0 <=> seen # <<>>
      BY <1>6
    <2> QED
      BY <1>8, <1>11, <1>13, <2>1, <2>2, <2>3, <2>4 DEF CountFits
  <1>15. /\ pc' = "done" /\ seen' = seen /\ verdict' = IF CountFits THEN "valid" ELSE "invalid"
    BY DEF Conclude, Verdict
  <1>16. Explained' <=> ExplainedFor(seen, flowCount)
    <2>1. seen' \in Seq(Sight) /\ (ExplainedFor(seen', flowCount') <=> ExplainedFor(seen, flowCount))
      BY <1>1, <1>2, <1>15
    <2>2. (seen \in Seq(Sight) => (Explained <=> ExplainedFor(seen, flowCount)))'
      BY ExplainedIsFor, PTL
    <2> QED
      BY <2>1, <2>2
  <1>17. verdict' = "valid" <=> CountFits
    BY <1>15
  <1>18. AcceptedIffExplained'
    BY <1>14, <1>15, <1>16, <1>17 DEF AcceptedIffExplained
  <1> QED
    BY <1>15, <1>18 DEF Accounts, NotThereYet

\* The accounts are right on every packet.
THEOREM Accounting == Spec => []Accounts
  <1>1. Walk /\ TypeOK /\ TypeOK' /\ Accounts /\ [Next]_vars => Accounts'
    <2> SUFFICES ASSUME Walk, CountsOK, CountsOK', Accounts, [Next]_vars PROVE Accounts'
      BY DEF TypeOK
    <2>1. CASE UNCHANGED vars
      <3>1. /\ UNCHANGED <<pc, len, offset, setCount, parsed, sizes, verdict>>
            /\ UNCHANGED <<seen, flowCount, deferred, unresolved, minRecords, maxRecords>>
        BY <2>1 DEF vars, headVars, setVars, recordVars, countVars
      <3>2. CASE pc # "done"
        <4>1. InProgress' = InProgress
          BY <3>1, Zenon DEF InProgress
        <4>2. HasLedger /\ Learned /\ SomethingSeen /\ NotThereYet
          BY <3>2 DEF Accounts
        <4>3. HasLedger'
          BY <3>1, <4>1, <4>2, LedgerFrame
        <4>4. NotThereYet' /\ Learned' /\ SomethingSeen'
          BY <3>1, <4>2 DEF NotThereYet, Learned, SomethingSeen
        <4> QED
          BY <3>1, <3>2, <4>3, <4>4, StillWalking
      <3>3. CASE pc = "done"
        <4>1. /\ (seen \in Seq(Sight) => (Explained <=> ExplainedFor(seen, flowCount)))'
              /\ seen \in Seq(Sight) => (Explained <=> ExplainedFor(seen, flowCount))
          BY ExplainedIsFor, PTL
        <4>2. seen \in Seq(Sight) /\ AcceptedIffExplained
          BY DEF CountsOK, Sight, Accounts
        <4>3. AcceptedIffExplained'
          BY <3>1, <4>1, <4>2 DEF AcceptedIffExplained
        <4> QED
          BY <3>1, <3>3, <4>3 DEF Accounts, NotThereYet
      <3> QED
        BY <3>2, <3>3
    <2>2. CASE CountStep
      BY <2>2, ResolveAccounts, ConcludeAccounts DEF CountStep
    <2> QED
      BY <2>1, <2>2, HeaderAccounts, SetAccounts, RecordAccounts, FieldAccounts DEF Next
  <1> QED
    BY <1>1, LedgerInit, Walking, TypeCorrect, PTL DEF Spec

\* A well formed packet is accepted exactly when some choice of paddings, and of
\* counts where no template is known, explains its header
\* (NetFlowValidator.AcceptedIffExplained).
THEOREM AcceptedExactly == Spec => []AcceptedIffExplained
  BY Accounting, PTL DEF Accounts
=============================================================================
