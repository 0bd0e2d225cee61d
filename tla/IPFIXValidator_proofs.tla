----------------------- MODULE IPFIXValidator_proofs -----------------------
(***************************************************************************)
(* Proofs about IPFIXValidator, for every payload length and whatever      *)
(* 16-bit words the packet holds.                                          *)
(***************************************************************************)
EXTENDS IPFIXValidator, TLAPS

USE LengthsAssumption, WordsAssumption
USE DEF HeaderSize

\* Where the walk is, and that it has read nothing beyond: the current record
\* and the rest of its Set end at setEnd, inside the payload.
Cursor ==
    /\ rd.to <= len
    /\ pc = "header" => rd.to = 0
    /\ pc \in {"set", "record", "field"} => HeaderSize <= offset
    /\ pc = "set" => offset <= len /\ rd.to <= offset
    /\ pc \in {"record", "field"} =>
          /\ setOffset + remaining = setEnd /\ setEnd <= len
          /\ offset + 4 <= setEnd
          /\ HasRecords(setID)
    /\ pc = "record" => rd.to <= setOffset
    /\ pc = "field" => consumed <= remaining /\ rd.to <= setOffset + consumed

\* The Sets walked so far end where the current one begins.
Walked ==
    /\ SetsTile
    /\ pc = "header" => sets = <<>>
    /\ pc # "header" /\ verdict # "invalid" => offset = WalkedTo
    /\ verdict = "valid" => offset = len

\* The inductive invariant.
IInv == TypeOK /\ Cursor /\ Walked

\* A step that ends no Set keeps the walked ones tiled.
LEMMA SameSets == UNCHANGED sets /\ SetsTile => SetsTile' /\ WalkedTo' = WalkedTo
  <1> SUFFICES ASSUME sets' = sets, SetsTile PROVE SetsTile' /\ WalkedTo' = WalkedTo
    OBVIOUS
  <1>1. SetsTile'
    BY DEF SetsTile, HasRecords, SetIDTemplate, SetIDOptionsTemplate
  <1>2. WalkedTo' = WalkedTo
    BY DEF WalkedTo
  <1> QED
    BY <1>1, <1>2

\* Before the first read nothing has been read or walked.
LEMMA IInvInit == Init => IInv
  BY DEF Init, IInv, TypeOK, Cursor, Walked, SetsTile

\* A verdict leaves the walk where it is.
LEMMA VerdictStep ==
    ASSUME IInv, pc # "done", NEW v \in {"valid", "invalid"}, Verdict(v), rd' \in [from : Nat, to : Nat],
           rd'.to <= len, v = "valid" => offset = len /\ pc # "header"
    PROVE  IInv'
  <1> USE DEF Verdict, setVars, recordVars, fieldVars
  <1>1. TypeOK'
    BY DEF IInv, TypeOK
  <1>2. Cursor'
    BY DEF IInv, TypeOK, Cursor
  <1>3. Walked'
    <2>1. verdict = "none" /\ Walked
      BY DEF IInv, TypeOK
    <2> QED
      BY <2>1, SameSets DEF Walked
  <1> QED
    BY <1>1, <1>2, <1>3 DEF IInv

\* Ending a Set appends it to the tiles and puts the walk at its end.
LEMMA EndSetStep ==
    ASSUME IInv, pc \in {"set", "record"},
           NEW id \in Words, NEW end \in Nat, NEW records \in Nat, NEW rest \in Nat,
           EndSet(id, end, records, rest),
           offset + 4 <= end, end <= len,
           HasRecords(id) => records > 0 /\ rest < 4,
           setID' \in Words, setEnd' \in Nat, UNCHANGED recordVars,
           rd' \in [from : Nat, to : Nat], rd'.to <= end
    PROVE  IInv'
  <1> DEFINE tile == [id |-> id, from |-> offset, to |-> end, records |-> records, rest |-> rest]
  <1> USE DEF EndSet, recordVars, fieldVars, setVars
  <1>1. /\ sets \in Seq([id : Words, from : Nat, to : Nat, records : Nat, rest : Nat])
        /\ sets' = Append(sets, tile)
        /\ tile \in [id : Words, from : Nat, to : Nat, records : Nat, rest : Nat]
    BY DEF IInv, TypeOK
  <1>2. TypeOK'
    BY <1>1 DEF IInv, TypeOK
  <1>3. Cursor'
    BY DEF IInv, TypeOK, Cursor, Walked
  <1>4. /\ Len(sets') = Len(sets) + 1 /\ Len(sets) \in Nat
        /\ sets'[Len(sets) + 1] = tile
        /\ \A i \in 1..Len(sets) : sets'[i] = sets[i]
        /\ DOMAIN sets = 1..Len(sets) /\ DOMAIN sets' = 1..(Len(sets) + 1)
        /\ sets' # <<>>
    <2> DEFINE S == [id : Words, from : Nat, to : Nat, records : Nat, rest : Nat]
    <2> HIDE DEF S, tile
    <2>1. sets \in Seq(S) /\ tile \in S /\ sets' = Append(sets, tile)
      BY <1>1 DEF S, tile
    <2> QED
      BY <2>1
  <1>5. WalkedTo' = end
    <2> sets' # <<>>
      BY <1>4
    <2> QED
      BY <1>4 DEF WalkedTo
  <1>6. offset = IF Len(sets) = 0 THEN HeaderSize ELSE sets[Len(sets)].to
    BY <1>1, <1>4 DEF IInv, TypeOK, Walked, WalkedTo
  <1>7. SetsTile'
    <2> SUFFICES ASSUME NEW i \in 1..(Len(sets) + 1)
                 PROVE  /\ sets'[i].from = IF i = 1 THEN HeaderSize ELSE sets'[i - 1].to
                        /\ sets'[i].from + 4 <= sets'[i].to
                        /\ HasRecords(sets'[i].id) => sets'[i].records > 0 /\ sets'[i].rest < 4
      BY <1>4 DEF SetsTile, HasRecords
    <2>1. CASE i = Len(sets) + 1
      <3>1. Len(sets) = 0 \/ (Len(sets) \in 1..Len(sets) /\ i - 1 = Len(sets) /\ i # 1)
        BY <2>1, <1>4
      <3>2. CASE Len(sets) = 0
        BY <3>2, <2>1, <1>4, <1>6
      <3>3. CASE Len(sets) \in 1..Len(sets) /\ i - 1 = Len(sets) /\ i # 1
        BY <3>3, <2>1, <1>4, <1>6
      <3> QED
        BY <3>1, <3>2, <3>3
    <2>2. CASE i \in 1..Len(sets)
      <3>1. i = 1 \/ i - 1 \in 1..Len(sets)
        BY <2>2
      <3> QED
        BY <2>2, <3>1, <1>4 DEF IInv, Walked, SetsTile
    <2> QED
      BY <2>1, <2>2, <1>4
  <1>8. Walked'
    BY <1>4, <1>5, <1>7 DEF IInv, TypeOK, Walked
  <1> QED
    BY <1>2, <1>3, <1>8 DEF IInv

\* The header: a wrong version or length ends the walk, else it stands at 16.
LEMMA HeaderStep == IInv /\ ReadHeader => IInv'
  <1> SUFFICES ASSUME IInv, ReadHeader PROVE IInv'
    OBVIOUS
  <1> rd' \in [from : Nat, to : Nat] /\ rd'.to <= len
    BY DEF ReadHeader, Reads, IInv, TypeOK, Cursor
  <1>0. pc = "header"
    BY DEF ReadHeader
  <1>1. CASE Reject
    BY <1>0, <1>1, VerdictStep DEF Reject
  <1>2. CASE ~Reject
    <2> USE <1>0, <1>2 DEF recordVars, fieldVars
    <2>0. /\ HeaderSize <= len /\ rd' = [from |-> 0, to |-> 4]
          /\ pc' = "set" /\ offset' = HeaderSize
          /\ UNCHANGED <<len, setID, setEnd, recordVars, fieldVars, verdict, sets>>
      BY DEF ReadHeader, Reads
    <2> USE <2>0
    <2>1. TypeOK'
      BY DEF IInv, TypeOK
    <2>2. Cursor'
      BY DEF IInv, TypeOK, Cursor
    <2>3. Walked'
      BY DEF IInv, TypeOK, Walked, SetsTile, WalkedTo, HasRecords
    <2> QED
      BY <2>1, <2>2, <2>3 DEF IInv
  <1> QED
    BY <1>1, <1>2

\* The head of the loop over Sets.
LEMMA SetStepKeeps == IInv /\ SetStep => IInv'
  <1> SUFFICES ASSUME IInv, SetStep PROVE IInv'
    OBVIOUS
  <1>1. CASE SetsDone
    <2> offset = len
      BY <1>1 DEF SetsDone, IInv, TypeOK, Cursor
    <2> QED
      BY <1>1, VerdictStep DEF SetsDone, IInv, TypeOK, Cursor
  <1>2. CASE SetHeaderCut
    BY <1>2, VerdictStep DEF SetHeaderCut, Reject, IInv, TypeOK, Cursor
  <1>3. CASE ReadSet
    <2>1. /\ rd' = [from |-> offset, to |-> offset + 4] /\ rd'.to <= len
          /\ rd' \in [from : Nat, to : Nat] /\ offset \in Nat /\ len \in Nat
          /\ pc = "set"
      BY <1>3 DEF ReadSet, Reads, IInv, TypeOK
    <2>2. CASE Reject
      BY <2>1, <2>2, VerdictStep DEF Reject
    <2>3. ASSUME NEW id \in Words, NEW length \in Words, SetFits(length), ~HasRecords(id),
                 EndSet(id, offset + length, 0, length - 4),
                 setID' = id, setEnd' = offset + length, UNCHANGED recordVars
          PROVE  IInv'
      BY <2>1, <2>3, EndSetStep DEF SetFits
    <2>4. ASSUME NEW id \in Words, NEW length \in Words, HasRecords(id), SetFits(length),
                 pc' = "record", setID' = id, setEnd' = offset + length,
                 setOffset' = offset + 4, remaining' = length - 4, parsed' = 0,
                 UNCHANGED <<len, offset, fieldVars, verdict, sets>>
          PROVE  IInv'
      <3> USE <2>1, <2>4 DEF SetFits, fieldVars
      <3>1. TypeOK'
        BY DEF IInv, TypeOK
      <3>2. Cursor'
        BY DEF IInv, TypeOK, Cursor, HasRecords
      <3>3. Walked'
        BY DEF IInv, TypeOK, Walked, SetsTile, WalkedTo, HasRecords
      <3> QED
        BY <3>1, <3>2, <3>3 DEF IInv
    <2> QED
      BY <1>3, <2>2, <2>3, <2>4 DEF ReadSet
  <1> QED
    BY <1>1, <1>2, <1>3 DEF SetStep

\* The loop over records: the end of a record stays inside its Set.
LEMMA RecordStepKeeps == IInv /\ RecordStep => IInv'
  <1> SUFFICES ASSUME IInv, RecordStep PROVE IInv'
    OBVIOUS
  <1>0. /\ pc = "record" /\ offset \in Nat /\ setOffset \in Nat /\ remaining \in Nat
        /\ len \in Nat /\ setOffset + remaining <= len /\ rd.to <= setOffset
        /\ parsed \in Nat /\ rd \in [from : Nat, to : Nat]
    BY DEF RecordStep, EndRecords, ReadTemplate, ReadOptionsTemplate, IInv, TypeOK, Cursor
  <1>1. ASSUME Reject, rd' \in [from : Nat, to : Nat], rd'.to <= len PROVE IInv'
    BY <1>0, <1>1, VerdictStep DEF Reject
  <1>2. ASSUME EndRecord(4), remaining >= 4, rd' = [from |-> setOffset, to |-> setOffset + 4],
               UNCHANGED <<len, setVars, fieldVars, verdict, sets>>
        PROVE  IInv'
    <2> USE <1>0, <1>2 DEF EndRecord, setVars, fieldVars
    <2>1. TypeOK'
      BY DEF IInv, TypeOK
    <2>2. Cursor'
      BY DEF IInv, TypeOK, Cursor, HasRecords
    <2>3. Walked'
      BY SameSets DEF IInv, TypeOK, Walked
    <2> QED
      BY <2>1, <2>2, <2>3 DEF IInv
  <1>3. ASSUME NEW header \in {4, 6}, NEW count \in Words, StartFields(header, count),
               header <= remaining, rd' = [from |-> setOffset, to |-> setOffset + header]
        PROVE  IInv'
    <2> USE <1>0, <1>3 DEF StartFields, setVars, recordVars
    <2>1. TypeOK'
      BY DEF IInv, TypeOK
    <2>2. Cursor'
      BY DEF IInv, TypeOK, Cursor, HasRecords
    <2>3. Walked'
      BY SameSets DEF IInv, TypeOK, Walked
    <2> QED
      BY <2>1, <2>2, <2>3 DEF IInv
  <1>4. CASE EndRecords
    <2>1. CASE Reject
      BY <1>0, <1>1, <1>4, <2>1 DEF EndRecords, IInv, TypeOK, Cursor
    <2>2. CASE parsed > 0 /\ EndSet(setID, setEnd, parsed, remaining)
                 /\ UNCHANGED <<setID, setEnd, recordVars>>
      <3>1. /\ setID \in Words /\ setEnd \in Nat /\ offset + 4 <= setEnd /\ setEnd <= len
            /\ rd.to <= setEnd /\ HasRecords(setID)
        BY <1>0 DEF IInv, TypeOK, Cursor, HasRecords, SetIDTemplate, SetIDOptionsTemplate
      <3> QED
        BY <1>0, <1>4, <2>2, <3>1, EndSetStep DEF EndRecords
    <2> QED
      BY <1>4, <2>1, <2>2 DEF EndRecords, RecordsEnd
  <1>5. CASE ReadTemplate
    BY <1>0, <1>1, <1>2, <1>3, <1>5 DEF ReadTemplate, Reads
  <1>6. CASE ReadOptionsTemplate
    <2> USE <1>0, <1>6 DEF Reads
    <2>1. CASE Reject
      BY <1>1, <2>1 DEF ReadOptionsTemplate, ScopeInside
    <2>2. CASE ~Reject
      BY <1>2, <1>3, <2>2 DEF ReadOptionsTemplate, ScopeInside
    <2> QED
      BY <2>1, <2>2
  <1> QED
    BY <1>4, <1>5, <1>6 DEF RecordStep

\* The loop over field specifiers: consumed never passes the end of the Set.
LEMMA FieldStepKeeps == IInv /\ FieldStep => IInv'
  <1> SUFFICES ASSUME IInv, FieldStep PROVE IInv'
    OBVIOUS
  <1>0. /\ pc = "field" /\ setOffset \in Nat /\ remaining \in Nat /\ consumed \in Nat
        /\ len \in Nat /\ setOffset + remaining <= len /\ consumed <= remaining
        /\ rd.to <= setOffset + consumed /\ rd \in [from : Nat, to : Nat]
    BY DEF FieldStep, EndFields, FieldCut, ReadField, IInv, TypeOK, Cursor
  <1>1. ASSUME Reject, rd' \in [from : Nat, to : Nat], rd'.to <= len PROVE IInv'
    BY <1>0, <1>1, VerdictStep DEF Reject
  <1>2. CASE EndFields
    <2> USE <1>0, <1>2 DEF EndFields, EndRecord, setVars, fieldVars
    <2>1. TypeOK'
      BY DEF IInv, TypeOK
    <2>2. Cursor'
      BY DEF IInv, TypeOK, Cursor, HasRecords
    <2>3. Walked'
      BY SameSets DEF IInv, TypeOK, Walked
    <2> QED
      BY <2>1, <2>2, <2>3 DEF IInv
  <1>3. CASE FieldCut
    BY <1>0, <1>1, <1>3 DEF FieldCut
  <1>4. CASE ReadField
    <2> rd' = [from |-> setOffset + consumed, to |-> setOffset + consumed + 2]
      BY <1>4 DEF ReadField, Reads
    <2>1. CASE Reject
      BY <1>0, <1>1, <1>4, <2>1 DEF ReadField
    <2>2. CASE ~Reject
      <3>0. PICK size \in {4, 8} :
              /\ consumed + size <= remaining /\ consumed' = consumed + size
              /\ fields > 0 /\ fields' = fields - 1
              /\ UNCHANGED <<len, pc, setVars, recordVars, verdict, sets>>
        BY <1>4, <2>2 DEF ReadField, FieldInside, SpecifierSize
      <3> USE <1>0, <3>0 DEF setVars, recordVars
      <3>1. TypeOK'
        BY DEF IInv, TypeOK
      <3>2. Cursor'
        BY DEF IInv, TypeOK, Cursor, HasRecords
      <3>3. Walked'
        BY SameSets DEF IInv, TypeOK, Walked
      <3> QED
        BY <3>1, <3>2, <3>3 DEF IInv
    <2> QED
      BY <2>1, <2>2
  <1> QED
    BY <1>2, <1>3, <1>4 DEF FieldStep

\* The inductive invariant is preserved by every step of the walk.
LEMMA IInvStep == IInv /\ [Next]_vars => IInv'
  <1>1. IInv /\ UNCHANGED vars => IInv'
    <2> SUFFICES ASSUME IInv, UNCHANGED vars PROVE IInv'
      OBVIOUS
    <2> USE DEF vars, setVars, recordVars, fieldVars
    <2>1. TypeOK'
      BY DEF IInv, TypeOK
    <2>2. Cursor'
      BY DEF IInv, Cursor, HasRecords
    <2>3. Walked'
      BY SameSets DEF IInv, Walked
    <2> QED
      BY <2>1, <2>2, <2>3 DEF IInv
  <1> QED
    BY <1>1, HeaderStep, SetStepKeeps, RecordStepKeeps, FieldStepKeeps DEF Next

\* The inductive invariant holds throughout the walk over any packet.
THEOREM Invariance == Spec => []IInv
  BY IInvInit, IInvStep, PTL DEF Spec

\* The validator never reads past the end of the payload
\* (IPFIXValidator.ReadsInside), so no packet can make IsValidIPFIX panic.
THEOREM NeverReadsOutside == Spec => []ReadsInside
  BY Invariance, PTL DEF IInv, Cursor, ReadsInside

\* The Sets walked lie end to end, and those with templates hold a record
\* (IPFIXValidator.SetsTile).
THEOREM SetsAreTiled == Spec => []SetsTile
  BY Invariance, PTL DEF IInv, Walked

\* A message declared valid is covered by its header and its Sets
\* (IPFIXValidator.AcceptedIsCovered).
THEOREM ValidMessagesAreCovered == Spec => []AcceptedIsCovered
  <1>1. IInv => AcceptedIsCovered
    BY DEF IInv, TypeOK, Walked, AcceptedIsCovered
  <1> QED
    BY <1>1, Invariance, PTL

\* No byte is interpreted twice (IPFIXValidator.ReadsForward): every read
\* starts where the cursor is, and the cursor is past every earlier read.
THEOREM NothingIsReadTwice == Spec => ReadsForward
  <1> DEFINE Forward == rd' # rd => rd'.from >= rd.to
  <1>1. IInv /\ [Next]_vars => [Forward]_vars
    <2> SUFFICES ASSUME IInv, Next PROVE Forward
      OBVIOUS
    <2> USE DEF IInv, TypeOK, Cursor, Reads
    <2>1. CASE ReadHeader
      BY <2>1 DEF ReadHeader
    <2>2. CASE SetStep
      BY <2>2 DEF SetStep, SetsDone, SetHeaderCut, ReadSet
    <2>3. CASE RecordStep
      BY <2>3 DEF RecordStep, EndRecords, ReadTemplate, ReadOptionsTemplate
    <2>4. CASE FieldStep
      BY <2>4 DEF FieldStep, EndFields, FieldCut, ReadField
    <2> QED
      BY <2>1, <2>2, <2>3, <2>4 DEF Next
  <1> QED
    BY <1>1, Invariance, PTL DEF Spec, ReadsForward
=============================================================================
