--------------------------- MODULE IPFIXValidator ---------------------------
(***************************************************************************)
(* IsValidIPFIX (ipfix/ipfix.go), which record and proxy run on every      *)
(* packet the network sends them: a walk over the Sets of a message and    *)
(* over the records and field specifiers of its Template Sets, steered by  *)
(* lengths and counts found in the packet itself.                          *)
(*                                                                         *)
(* The packet is not built beforehand: each read of a 16-bit word chooses  *)
(* its value.  That is faithful as long as no byte is read twice, which    *)
(* ReadsForward says.  One step per turn of a loop.                        *)
(***************************************************************************)
EXTENDS Naturals, Sequences

CONSTANTS
    Lengths,    \* payload lengths the network may deliver
    Words       \* values a 16-bit word of a packet may have (0..65535)

ASSUME LengthsAssumption == Lengths \subseteq Nat
ASSUME WordsAssumption == Words \subseteq Nat

VARIABLES
    len,            \* len(payload)
    pc,             \* "header", "set", "record", "field" or "done"
    offset,         \* where the current Set begins
    setID, setEnd,  \* the current Set
    setOffset,      \* where the current record begins
    remaining,      \* bytes from there to the end of the Set
    parsed,         \* recordsParsed
    consumed,       \* bytes of the current record already validated
    fields,         \* field specifiers of the current record still to come
    verdict,        \* "none", "valid" or "invalid"
    rd,             \* the bytes read last: from (inclusive) to (exclusive)
    sets            \* the Sets walked to their end (history)

setVars == <<offset, setID, setEnd>>
recordVars == <<setOffset, remaining, parsed>>
fieldVars == <<consumed, fields>>
vars == <<len, pc, setVars, recordVars, fieldVars, verdict, rd, sets>>

Version == 10
SetIDTemplate == 2
SetIDOptionsTemplate == 3
HeaderSize == 16

\* Places and counters stay in range; a verdict is given exactly at the end.
TypeOK ==
    /\ len \in Lengths
    /\ pc \in {"header", "set", "record", "field", "done"}
    /\ offset \in Nat /\ setID \in Words \cup {0} /\ setEnd \in Nat
    /\ setOffset \in Nat /\ remaining \in Nat /\ parsed \in Nat
    /\ consumed \in Nat /\ fields \in Nat
    /\ verdict \in {"none", "valid", "invalid"} /\ (verdict = "none" <=> pc # "done")
    /\ rd \in [from : Nat, to : Nat]
    /\ sets \in Seq([id : Words, from : Nat, to : Nat, records : Nat, rest : Nat])

Init ==
    /\ len \in Lengths
    /\ pc = "header" /\ verdict = "none"
    /\ offset = 0 /\ setID = 0 /\ setEnd = 0
    /\ setOffset = 0 /\ remaining = 0 /\ parsed = 0
    /\ consumed = 0 /\ fields = 0
    /\ rd = [from |-> 0, to |-> 0]
    /\ sets = <<>>

Reads(from, to) == rd' = [from |-> from, to |-> to]

Verdict(v) ==
    /\ pc' = "done" /\ verdict' = v
    /\ UNCHANGED <<len, setVars, recordVars, fieldVars, sets>>

Reject == Verdict("invalid")

-----------------------------------------------------------------------------
(* The message header *)

\* The declared length is at least a header and exactly the payload's.
HeaderFits(messageLength) == messageLength >= HeaderSize /\ messageLength = len

ReadHeader ==
    /\ pc = "header"
    /\ \/ len < HeaderSize /\ Reject /\ UNCHANGED rd
       \/ /\ len >= HeaderSize
          /\ Reads(0, 4)
          /\ \E version, messageLength \in Words :
               \/ /\ version # Version \/ ~HeaderFits(messageLength)
                  /\ Reject
               \/ /\ version = Version /\ HeaderFits(messageLength)
                  /\ pc' = "set" /\ offset' = HeaderSize
                  /\ UNCHANGED <<len, setID, setEnd, recordVars, fieldVars, verdict, sets>>

-----------------------------------------------------------------------------
(* for offset < limit *)

\* Sets 0, 1 and 4..255 are reserved or unassigned.
KnownSet(id) == id \in {SetIDTemplate, SetIDOptionsTemplate} \/ id >= 256

HasRecords(id) == id \in {SetIDTemplate, SetIDOptionsTemplate}

\* Mutant of SetFits: the end is not checked.
SetFitsMinimum(length) == length >= 4

SetFits(length) == length >= 4 /\ offset + length <= len

\* Mutant of EndSet: an opaque Set is left by a "continue" that skips the advance.
EndSetSkipped(id, end, records, rest) ==
    pc' = "set" /\ UNCHANGED <<len, offset, fieldVars, verdict, sets>>

\* setCount++ and offset = setEnd, for a Set of which rest bytes were not
\* interpreted.
EndSet(id, end, records, rest) ==
    /\ pc' = "set" /\ offset' = end
    /\ sets' = Append(sets, [id |-> id, from |-> offset, to |-> end,
                             records |-> records, rest |-> rest])
    /\ UNCHANGED <<len, fieldVars, verdict>>

SetsDone == pc = "set" /\ offset >= len /\ Verdict("valid") /\ UNCHANGED rd

SetHeaderCut ==
    /\ pc = "set" /\ offset < len /\ offset + 4 > len
    /\ Reject /\ UNCHANGED rd

\* A Set header: Data Sets are opaque, the others are walked.
ReadSet ==
    /\ pc = "set" /\ offset + 4 <= len
    /\ Reads(offset, offset + 4)
    /\ \E id, length \in Words :
         \/ ~(KnownSet(id) /\ SetFits(length)) /\ Reject
         \/ /\ KnownSet(id) /\ SetFits(length) /\ ~HasRecords(id)
            /\ EndSet(id, offset + length, 0, length - 4)
            /\ setID' = id /\ setEnd' = offset + length
            /\ UNCHANGED recordVars
         \/ /\ HasRecords(id) /\ SetFits(length)
            /\ pc' = "record"
            /\ setID' = id /\ setEnd' = offset + length
            /\ setOffset' = offset + 4 /\ remaining' = length - 4 /\ parsed' = 0
            /\ UNCHANGED <<len, offset, fieldVars, verdict, sets>>

-----------------------------------------------------------------------------
(* for remaining >= 4: validateTemplateRecord, validateOptionsTemplateRecord *)

\* Fewer than four bytes are left: padding, provided there was a record.
RecordsEnd ==
    \/ parsed = 0 /\ Reject
    \/ parsed > 0 /\ EndSet(setID, setEnd, parsed, remaining) /\ UNCHANGED <<setID, setEnd, recordVars>>

EndRecords == pc = "record" /\ remaining < 4 /\ RecordsEnd /\ UNCHANGED rd

\* Mutant of EndRecord: "setOffset += consumed" is forgotten.
EndRecordStays(size) ==
    /\ pc' = "record"
    /\ setOffset' = setOffset /\ remaining' = remaining - size
    /\ parsed' = parsed + 1

\* The caller's "setOffset += consumed; remaining -= consumed".
EndRecord(size) ==
    /\ pc' = "record"
    /\ setOffset' = setOffset + size /\ remaining' = remaining - size
    /\ parsed' = parsed + 1

\* The field specifiers of a record start after its header.
StartFields(header, count) ==
    /\ pc' = "field" /\ consumed' = header /\ fields' = count
    /\ UNCHANGED <<len, setVars, recordVars, verdict, sets>>

\* Template ID and Field Count; no fields is a withdrawal.
ReadTemplate ==
    /\ pc = "record" /\ setID = SetIDTemplate /\ remaining >= 4
    /\ Reads(setOffset, setOffset + 4)
    /\ \E templateID, fieldCount \in Words :
         \/ templateID < 256 /\ Reject
         \/ templateID >= 256 /\ fieldCount = 0 /\ EndRecord(4)
            /\ UNCHANGED <<len, setVars, fieldVars, verdict, sets>>
         \/ templateID >= 256 /\ fieldCount > 0 /\ StartFields(4, fieldCount)

\* Mutant of ScopeInside: the six bytes of the record header are not checked.
ScopeUnchecked == TRUE

\* There is room for the Scope Field Count.
ScopeInside == remaining >= 6

\* The same with a Scope Field Count between 1 and Field Count.
ReadOptionsTemplate ==
    /\ pc = "record" /\ setID = SetIDOptionsTemplate /\ remaining >= 4
    /\ \E templateID, fieldCount \in Words :
         \/ /\ templateID < 256 \/ (fieldCount > 0 /\ ~ScopeInside)
            /\ Reads(setOffset, setOffset + 4) /\ Reject
         \/ /\ templateID >= 256 /\ fieldCount = 0
            /\ Reads(setOffset, setOffset + 4) /\ EndRecord(4)
            /\ UNCHANGED <<len, setVars, fieldVars, verdict, sets>>
         \/ /\ templateID >= 256 /\ fieldCount > 0 /\ ScopeInside
            /\ Reads(setOffset, setOffset + 6)
            /\ \E scope \in Words :
                 \/ scope \notin 1..fieldCount /\ Reject
                 \/ scope \in 1..fieldCount /\ StartFields(6, fieldCount)

-----------------------------------------------------------------------------
(* for i < fieldCount *)

EndFields ==
    /\ pc = "field" /\ fields = 0
    /\ EndRecord(consumed)
    /\ UNCHANGED <<len, setVars, fieldVars, verdict, rd, sets>>

\* Mutant of FieldInside: only the first four bytes of a specifier are checked.
FieldStarts(size) == consumed + 4 <= remaining

\* The specifier, enterprise number included, ends inside the Set.
FieldInside(size) == consumed + size <= remaining

FieldCut ==
    /\ pc = "field" /\ fields > 0 /\ consumed + 4 > remaining
    /\ Reject /\ UNCHANGED rd

\* The high bit of the first word (w & 0x8000) announces an enterprise number.
\* fieldSpecifierSize's own bound check never fires behind FieldCut.
SpecifierSize(w) == IF w >= 32768 THEN 8 ELSE 4

ReadField ==
    /\ pc = "field" /\ fields > 0 /\ consumed + 4 <= remaining
    /\ Reads(setOffset + consumed, setOffset + consumed + 2)
    /\ \E w \in Words :
         \/ ~FieldInside(SpecifierSize(w)) /\ Reject
         \/ /\ FieldInside(SpecifierSize(w))
            /\ consumed' = consumed + SpecifierSize(w) /\ fields' = fields - 1
            /\ UNCHANGED <<len, pc, setVars, recordVars, verdict, sets>>

-----------------------------------------------------------------------------
SetStep == SetsDone \/ SetHeaderCut \/ ReadSet
RecordStep == EndRecords \/ ReadTemplate \/ ReadOptionsTemplate
FieldStep == EndFields \/ FieldCut \/ ReadField

Next == ReadHeader \/ SetStep \/ RecordStep \/ FieldStep

Spec == Init /\ [][Next]_vars

\* The validator is one sequential function: it takes its next step.
FairSpec == Spec /\ WF_vars(Next)

-----------------------------------------------------------------------------
(* Safety *)

\* No read passes the end of the payload, whatever lengths and counts the
\* packet claims: in Go it would panic and end the recorder or the proxy.
ReadsInside == rd.to <= len

\* The walk only moves forward: no byte is interpreted twice, as part of two
\* Sets, records or specifiers that overlap.
ReadsForward == [][rd' # rd => rd'.from >= rd.to]_vars

\* The Sets walked so far lie end to end after the header, each inside the
\* message; a Template Set holds a record and at most three bytes of padding.
SetsTile ==
    \A i \in DOMAIN sets :
        /\ sets[i].from = IF i = 1 THEN HeaderSize ELSE sets[i - 1].to
        /\ sets[i].from + 4 <= sets[i].to
        /\ HasRecords(sets[i].id) => sets[i].records > 0 /\ sets[i].rest < 4

\* Where the walked part of the message ends.
WalkedTo == IF sets = <<>> THEN HeaderSize ELSE sets[Len(sets)].to

\* A message declared valid is covered by its header and its Sets, which lie end
\* to end, to the byte.
AcceptedIsCovered == verdict = "valid" => SetsTile /\ len = WalkedTo

-----------------------------------------------------------------------------
(* Liveness *)

\* The walk ends on every packet: no length or count makes it stand still.
Terminates == <>(pc = "done")
=============================================================================
