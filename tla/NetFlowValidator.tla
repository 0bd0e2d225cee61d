-------------------------- MODULE NetFlowValidator --------------------------
(***************************************************************************)
(* IsValidNetFlow (netflow/netflow.go), which record and proxy run on      *)
(* every packet before IsValidIPFIX: a walk over the FlowSets of a packet  *)
(* that learns record sizes from the templates it meets, counts the        *)
(* records of the Data FlowSets with them, and compares the total with the *)
(* header's FlowCount.                                                     *)
(*                                                                         *)
(* As in IPFIXValidator, a read of the packet chooses the words it finds.  *)
(***************************************************************************)
EXTENDS Integers, Sequences, FiniteSets, FiniteSetsExt

CONSTANTS
    Lengths,        \* payload lengths the network may deliver
    Words,          \* values a 16-bit word of a packet may have (0..65535)
    FieldLengths,   \* those a field length may have
    MaxFlowCount    \* math.MaxUint16

ASSUME LengthsAssumption == Lengths \subseteq Nat
ASSUME WordsAssumption == Words \subseteq Nat
ASSUME FieldLengthsAssumption == FieldLengths \subseteq Nat
ASSUME MaxFlowCountAssumption == MaxFlowCount \in Nat

VARIABLES
    len,            \* len(payload)
    flowCount,      \* header.FlowCount
    pc,             \* "header", "set", "record", "field", "deferred" or "done"
    offset,         \* where the current FlowSet begins
    setID, setEnd,  \* the current FlowSet
    setOffset,      \* where the current record begins
    remaining,      \* bytes from there to the end of the FlowSet
    parsed,         \* recordsParsed
    tmplID,         \* the template record being read
    fieldAt,        \* its next field specifier
    fields,         \* its field specifiers still to come
    recordSize,     \* sum of the field lengths so far
    sizes,          \* templateRecordSizes
    deferred,       \* deferredData: Data FlowSets without a known size
    minRecords, maxRecords, \* totalMinRecords, totalMaxRecords
    unresolved,     \* hasUnresolvedData
    setCount,
    verdict,        \* "none", "valid" or "invalid"
    rd,             \* the bytes read last: from (inclusive) to (exclusive)
    seen            \* templates and Data FlowSets met, in order (history)

headVars == <<len, flowCount>>
setVars == <<offset, setID, setEnd, setCount>>
recordVars == <<setOffset, remaining, parsed>>
fieldVars == <<tmplID, fieldAt, fields, recordSize>>
countVars == <<deferred, minRecords, maxRecords, unresolved>>
vars == <<headVars, pc, setVars, recordVars, fieldVars, sizes, countVars, verdict, rd, seen>>

Version == 9
HeaderSize == 20
TemplateSet == 0
OptionsSet == 1

\* Places stay in range, and a verdict is given exactly at the end.
PlacesOK ==
    /\ len \in Lengths /\ flowCount \in 0..MaxFlowCount
    /\ pc \in {"header", "set", "record", "field", "deferred", "done"}
    /\ offset \in Nat /\ setID \in Words \cup {0} /\ setEnd \in Nat /\ setCount \in Nat
    /\ setOffset \in Nat /\ remaining \in Nat /\ parsed \in Nat
    /\ tmplID \in Words \cup {0} /\ fieldAt \in Nat /\ fields \in Nat /\ recordSize \in Nat
    /\ verdict \in {"none", "valid", "invalid"} /\ (verdict = "none" <=> pc # "done")
    /\ rd \in [from : Nat, to : Nat]

\* The map holds sizes of templates, and the range of counts is one.
CountsOK ==
    /\ DOMAIN sizes \subseteq {id \in Words : id >= 256}
    /\ \A id \in DOMAIN sizes : sizes[id] \in Nat
    /\ deferred \in Seq([id : Words, bytes : Nat \ {0}])
    /\ minRecords \in Nat /\ maxRecords \in Nat /\ unresolved \in BOOLEAN
    /\ minRecords <= maxRecords \/ unresolved
    /\ seen \in Seq([kind : {"template", "data"}, id : Words, size : Nat])

\* Places, counters and the map of template sizes stay in range.
TypeOK == PlacesOK /\ CountsOK

Init ==
    /\ len \in Lengths /\ flowCount = 0
    /\ pc = "header" /\ verdict = "none"
    /\ offset = 0 /\ setID = 0 /\ setEnd = 0 /\ setCount = 0
    /\ setOffset = 0 /\ remaining = 0 /\ parsed = 0
    /\ tmplID = 0 /\ fieldAt = 0 /\ fields = 0 /\ recordSize = 0
    /\ sizes = [id \in {} |-> 0]
    /\ deferred = <<>> /\ minRecords = 0 /\ maxRecords = 0 /\ unresolved = FALSE
    /\ rd = [from |-> 0, to |-> 0]
    /\ seen = <<>>

Reads(from, to) == rd' = [from |-> from, to |-> to]

Verdict(v) ==
    /\ pc' = "done" /\ verdict' = v
    /\ UNCHANGED <<len, setVars, recordVars, fieldVars, sizes, countVars, seen>>

Reject == Verdict("invalid")

\* The fixed header; binary.Read takes all of its 20 bytes.
ReadHeader ==
    /\ pc = "header"
    /\ \/ len < HeaderSize /\ Reject /\ UNCHANGED <<flowCount, rd>>
       \/ /\ len >= HeaderSize
          /\ Reads(0, HeaderSize)
          /\ flowCount' \in 0..MaxFlowCount
          /\ \E version \in Words :
               \/ version # Version /\ Reject
               \/ /\ version = Version
                  /\ pc' = "set" /\ offset' = HeaderSize
                  /\ UNCHANGED <<len, setID, setEnd, setCount, recordVars, fieldVars,
                                 sizes, countVars, verdict, seen>>

-----------------------------------------------------------------------------
(* Counting the records of a Data FlowSet *)

\* The record counts that fill bytes up to zero to three bytes of padding.
Layouts(bytes, size) ==
    {(bytes - pad) \div size : pad \in {p \in 0..3 : bytes - p > 0 /\ (bytes - p) % size = 0}}

\* countDataRecordsRange, added to both totals.
CountRecords(bytes, size) ==
    /\ minRecords' = minRecords + Min(Layouts(bytes, size))
    /\ maxRecords' = maxRecords + Max(Layouts(bytes, size))

\* "rs, ok := templateRecordSizes[id]; ok && rs > 0"
SizeKnown(id) == id \in DOMAIN sizes /\ sizes[id] > 0

-----------------------------------------------------------------------------
(* for offset < limit *)

ReservedSet(id) == id \in 2..255

SetFits(length) == length >= 4 /\ offset + length <= len

\* setCount++ and offset = setEnd.
EndSet(end) == pc' = "set" /\ offset' = end /\ setCount' = setCount + 1

SetsDone ==
    /\ pc = "set" /\ offset >= len
    /\ pc' = "deferred"
    /\ UNCHANGED <<headVars, setVars, recordVars, fieldVars, sizes, countVars, verdict, rd, seen>>

SetHeaderCut ==
    /\ pc = "set" /\ offset < len /\ offset + 4 > len
    /\ Reject /\ UNCHANGED <<flowCount, rd>>

\* A Data FlowSet is counted, or put off until its template is known.
DataSet(id, bytes) ==
    \/ bytes < 1 /\ Reject
    \/ bytes >= 1 /\ SizeKnown(id) /\ Layouts(bytes, sizes[id]) = {} /\ Reject
    \/ /\ bytes >= 1
       /\ seen' = Append(seen, [kind |-> "data", id |-> id, size |-> bytes])
       /\ EndSet(offset + 4 + bytes)
       /\ setID' = id /\ setEnd' = offset + 4 + bytes
       /\ UNCHANGED <<len, recordVars, fieldVars, sizes, unresolved, verdict>>
       /\ \/ /\ SizeKnown(id) /\ Layouts(bytes, sizes[id]) # {}
             /\ CountRecords(bytes, sizes[id])
             /\ UNCHANGED deferred
          \/ /\ ~SizeKnown(id)
             /\ deferred' = Append(deferred, [id |-> id, bytes |-> bytes])
             /\ UNCHANGED <<minRecords, maxRecords>>

ReadSet ==
    /\ pc = "set" /\ offset + 4 <= len
    /\ Reads(offset, offset + 4) /\ UNCHANGED flowCount
    /\ \E id, length \in Words :
         \/ (ReservedSet(id) \/ ~SetFits(length)) /\ Reject
         \/ ~ReservedSet(id) /\ SetFits(length) /\ id >= 256 /\ DataSet(id, length - 4)
         \/ /\ id \in {TemplateSet, OptionsSet} /\ SetFits(length)
            /\ pc' = "record"
            /\ setID' = id /\ setEnd' = offset + length
            /\ setOffset' = offset + 4 /\ remaining' = length - 4 /\ parsed' = 0
            /\ UNCHANGED <<len, offset, setCount, fieldVars, sizes, countVars, verdict, seen>>

-----------------------------------------------------------------------------
(* Template records; the code's checks against limit never fire inside a set *)

RecordHeader == IF setID = TemplateSet THEN 4 ELSE 6

\* The end of a Template FlowSet: its records count, its padding is zero.
EndRecords ==
    /\ pc = "record" /\ remaining < RecordHeader
    /\ UNCHANGED flowCount
    /\ \/ parsed = 0 /\ Reject /\ UNCHANGED rd
       \/ parsed > 0 /\ remaining > 0 /\ Reads(setOffset, setEnd) /\ Reject
       \/ /\ parsed > 0
          /\ IF remaining > 0 THEN Reads(setOffset, setEnd) ELSE UNCHANGED rd
          /\ minRecords' = minRecords + parsed /\ maxRecords' = maxRecords + parsed
          /\ EndSet(setEnd)
          /\ UNCHANGED <<len, setID, setEnd, recordVars, fieldVars, sizes,
                         deferred, unresolved, verdict, seen>>

\* The field specifiers, four bytes each, follow the record's header.
StartFields(id, count) ==
    /\ pc' = "field" /\ tmplID' = id
    /\ fieldAt' = setOffset + RecordHeader /\ fields' = count /\ recordSize' = 0
    /\ UNCHANGED <<len, setVars, recordVars, sizes, countVars, verdict, seen>>

\* Mutant of FieldsInside: the record's own header is not counted.
FieldsInsideLoosely(bytes) == bytes <= remaining

\* The record ends inside its FlowSet.
FieldsInside(bytes) == RecordHeader + bytes <= remaining

\* Template ID, Field Count.
ReadTemplate ==
    /\ pc = "record" /\ setID = TemplateSet /\ remaining >= RecordHeader
    /\ Reads(setOffset, setOffset + 4) /\ UNCHANGED flowCount
    /\ \E id, fieldCount \in Words :
         \/ (id < 256 \/ ~FieldsInside(4 * fieldCount)) /\ Reject
         \/ id >= 256 /\ FieldsInside(4 * fieldCount) /\ StartFields(id, fieldCount)

\* Template ID, Option Scope Length, Option Length: both in bytes.
ReadOptionsTemplate ==
    /\ pc = "record" /\ setID = OptionsSet /\ remaining >= RecordHeader
    /\ Reads(setOffset, setOffset + 6) /\ UNCHANGED flowCount
    /\ \E id, scopeLen, optLen \in Words :
         LET fits == /\ id >= 256 /\ scopeLen % 4 = 0 /\ optLen % 4 = 0
                     /\ FieldsInside(scopeLen + optLen)
         IN \/ ~fits /\ Reject
            \/ fits /\ StartFields(id, (scopeLen + optLen) \div 4)

\* The length of one field; the scope fields come first, in the same form.
ReadField ==
    /\ pc = "field" /\ fields > 0
    /\ Reads(fieldAt + 2, fieldAt + 4) /\ UNCHANGED flowCount
    /\ \E fLength \in FieldLengths :
         \/ fLength = 0 /\ Reject
         \/ /\ fLength > 0
            /\ recordSize' = recordSize + fLength
            /\ fieldAt' = fieldAt + 4 /\ fields' = fields - 1
            /\ UNCHANGED <<len, pc, setVars, recordVars, tmplID, sizes, countVars, verdict, seen>>

\* Mutant of Learn: the first definition of a template wins.
LearnFirst(id, size) ==
    sizes' = [i \in DOMAIN sizes \cup {id} |-> IF i \in DOMAIN sizes THEN sizes[i] ELSE size]

\* templateRecordSizes[id] = size
Learn(id, size) ==
    sizes' = [i \in DOMAIN sizes \cup {id} |-> IF i = id THEN size ELSE sizes[i]]

\* Mutant of NextRecord: "setOffset +=" is forgotten.
NextRecordStays ==
    setOffset' = setOffset /\ remaining' = remaining - (fieldAt - setOffset) /\ parsed' = parsed + 1

NextRecord ==
    setOffset' = fieldAt /\ remaining' = remaining - (fieldAt - setOffset) /\ parsed' = parsed + 1

EndFields ==
    /\ pc = "field" /\ fields = 0
    /\ pc' = "record"
    /\ Learn(tmplID, recordSize) /\ NextRecord
    /\ seen' = Append(seen, [kind |-> "template", id |-> tmplID, size |-> recordSize])
    /\ UNCHANGED <<headVars, setVars, fieldVars, countVars, verdict, rd>>

-----------------------------------------------------------------------------
(* After the walk *)

\* The template is not in this packet: at least one record.
Unresolved ==
    unresolved' = TRUE /\ minRecords' = minRecords + 1 /\ UNCHANGED maxRecords

\* One turn of the loop over deferredData.
Resolve ==
    /\ pc = "deferred" /\ deferred # <<>>
    /\ UNCHANGED <<flowCount, rd>>
    /\ LET info == Head(deferred)
       IN \/ SizeKnown(info.id) /\ Layouts(info.bytes, sizes[info.id]) = {} /\ Reject
          \/ /\ deferred' = Tail(deferred)
             /\ \/ ~SizeKnown(info.id) /\ Unresolved
                \/ /\ SizeKnown(info.id) /\ Layouts(info.bytes, sizes[info.id]) # {}
                   /\ CountRecords(info.bytes, sizes[info.id])
                   /\ UNCHANGED unresolved
             /\ UNCHANGED <<len, pc, setVars, recordVars, fieldVars, sizes, verdict, seen>>

\* The header's count lies in the range; without a template it has no upper end.
CountFits ==
    /\ setCount > 0 /\ flowCount > 0 /\ minRecords <= MaxFlowCount
    /\ minRecords <= flowCount
    /\ unresolved \/ flowCount <= maxRecords

Conclude ==
    /\ pc = "deferred" /\ deferred = <<>>
    /\ Verdict(IF CountFits THEN "valid" ELSE "invalid")
    /\ UNCHANGED <<flowCount, rd>>

-----------------------------------------------------------------------------
SetStep == SetsDone \/ SetHeaderCut \/ ReadSet
RecordStep == EndRecords \/ ReadTemplate \/ ReadOptionsTemplate
FieldStep == ReadField \/ EndFields
CountStep == Resolve \/ Conclude

Next == ReadHeader \/ SetStep \/ RecordStep \/ FieldStep \/ CountStep

Spec == Init /\ [][Next]_vars

-----------------------------------------------------------------------------
(* Safety *)

\* No read passes the end of the payload, whatever lengths and counts the
\* packet claims: in Go it would panic and end the recorder or the proxy.
ReadsInside == rd.to <= len

\* The walk only moves forward: no byte is interpreted as part of two
\* FlowSets, records or specifiers that overlap.
ReadsForward == [][rd' # rd => rd'.from >= rd.to]_vars

\* The size of the last template for seen[i].id among the first n seen, or 0.
LastSize(i, n) ==
    LET before == {j \in 1..n : seen[j].kind = "template" /\ seen[j].id = seen[i].id}
    IN IF before = {} THEN 0 ELSE seen[Max(before)].size

\* A Data FlowSet has the records of the template before it, if there is one
\* with fields, and otherwise of the last one in the packet.
RecordSize(i) == IF LastSize(i, i) > 0 THEN LastSize(i, i) ELSE LastSize(i, Len(seen))

\* n records and at most three bytes of padding make up the i-th thing seen.
Holds(i, n) ==
    \/ seen[i].kind = "template" /\ n = 1
    \/ seen[i].kind = "data" /\ RecordSize(i) = 0
    \/ /\ seen[i].kind = "data" /\ RecordSize(i) > 0
       /\ \E pad \in 0..3 : n * RecordSize(i) + pad = seen[i].size

\* Some reading of the packet holds exactly as many records as the header says:
\* upto[i] of them in the first i things seen.
Explained ==
    \E upto \in [0..Len(seen) -> 0..flowCount] :
        /\ upto[0] = 0 /\ upto[Len(seen)] = flowCount
        /\ \A i \in DOMAIN seen : upto[i] > upto[i-1] /\ Holds(i, upto[i] - upto[i-1])

\* A packet whose FlowSets are well formed is accepted exactly when some choice
\* of paddings explains the header's count: the range the code keeps has no
\* gaps, and late, repeated and missing templates are counted the right way.
AcceptedIffExplained ==
    pc = "done" /\ offset >= HeaderSize /\ offset = len =>
        (verdict = "valid" <=> seen # <<>> /\ Explained)
=============================================================================
