----------------------------- MODULE FlowLayout -----------------------------
(***************************************************************************)
(* What the generators write (netflow/template.go, dataflowset.go,         *)
(* packet.go and the profiles; ipfix/ipfix.go): templates, which announce  *)
(* the fields of a record, and Data Sets, whose records are Go structs     *)
(* serialized field by field.  The two are written down separately in the  *)
(* code and have to agree; so have the lengths computed when a set is made *)
(* and the bytes ToBytes writes later.                                     *)
(*                                                                         *)
(* A field is a pair of what it carries and its bytes; what the addresses, *)
(* ports and counters of a record are is left out.                         *)
(***************************************************************************)
EXTENDS Naturals, Sequences, FiniteSetsExt

MaxLength == 65535  \* the largest uint16

TemplateID == 256
OptionsTemplateID == 257

Profiles == {"ipfix", "generic", "minimal", "extended"}

-----------------------------------------------------------------------------
(* TemplateFields of each profile *)

GenericTemplate == <<
    <<"inBytes", 4>>, <<"outBytes", 4>>, <<"inPkts", 4>>, <<"outPkts", 4>>,
    <<"ipv4Src", 4>>, <<"ipv4Dst", 4>>, <<"ipv6Src", 16>>, <<"ipv6Dst", 16>>,
    <<"srcMask", 1>>, <<"dstMask", 1>>, <<"srcPort", 2>>, <<"dstPort", 2>>,
    <<"protocol", 1>>, <<"tcpFlags", 1>>, <<"first", 4>>, <<"last", 4>>,
    <<"engineType", 1>>, <<"engineID", 1>> >>

MinimalTemplate == <<
    <<"inBytes", 4>>, <<"inPkts", 4>>, <<"ipv4Src", 4>>, <<"ipv4Dst", 4>>,
    <<"srcPort", 2>>, <<"dstPort", 2>>, <<"protocol", 1>> >>

ExtendedTemplate == <<
    <<"inBytes", 4>>, <<"inPkts", 4>>, <<"ipv4Src", 4>>, <<"ipv4Dst", 4>>,
    <<"srcPort", 2>>, <<"dstPort", 2>>, <<"protocol", 1>>, <<"srcMac", 6>>, <<"dstMac", 6>>,
    <<"srcVlan", 2>>, <<"dstVlan", 2>>, <<"minTtl", 1>>, <<"maxTtl", 1>>,
    <<"first", 4>>, <<"last", 4>> >>

IPFIXTemplate == <<
    <<"inBytes", 4>>, <<"outBytes", 4>>, <<"inPkts", 4>>, <<"outPkts", 4>>,
    <<"ipv4Src", 4>>, <<"ipv4Dst", 4>>, <<"ipv6Src", 16>>, <<"ipv6Dst", 16>>,
    <<"srcMask", 1>>, <<"dstMask", 1>>, <<"srcPort", 2>>, <<"dstPort", 2>>,
    <<"protocol", 1>>, <<"tcpFlags", 1>>, <<"startMillis", 8>>, <<"endMillis", 8>>,
    <<"direction", 1>>, <<"tos", 1>>, <<"endReason", 1>> >>

TemplateFields == [p \in Profiles |->
    CASE p = "generic" -> GenericTemplate
      [] p = "minimal" -> MinimalTemplate
      [] p = "extended" -> ExtendedTemplate
      [] p = "ipfix" -> IPFIXTemplate]

OptionsTemplate == << <<"domain", 4>> >>

-----------------------------------------------------------------------------
(* The structs that are serialized, as Generate fills them: every field of  *)
(* both address families is present, those of the other family are zero.    *)

GenericRecord == <<
    <<"inBytes", 4>>, <<"outBytes", 4>>, <<"inPkts", 4>>, <<"outPkts", 4>>,
    <<"ipv4Src", 4>>, <<"ipv4Dst", 4>>, <<"ipv6Src", 16>>, <<"ipv6Dst", 16>>,
    <<"srcMask", 1>>, <<"dstMask", 1>>, <<"srcPort", 2>>, <<"dstPort", 2>>,
    <<"protocol", 1>>, <<"tcpFlags", 1>>, <<"first", 4>>, <<"last", 4>>,
    <<"engineType", 1>>, <<"engineID", 1>> >>

MinimalRecord == <<
    <<"inBytes", 4>>, <<"inPkts", 4>>, <<"ipv4Src", 4>>, <<"ipv4Dst", 4>>,
    <<"srcPort", 2>>, <<"dstPort", 2>>, <<"protocol", 1>> >>

ExtendedRecord == <<
    <<"inBytes", 4>>, <<"inPkts", 4>>, <<"ipv4Src", 4>>, <<"ipv4Dst", 4>>,
    <<"srcPort", 2>>, <<"dstPort", 2>>, <<"protocol", 1>>, <<"srcMac", 6>>, <<"dstMac", 6>>,
    <<"srcVlan", 2>>, <<"dstVlan", 2>>, <<"minTtl", 1>>, <<"maxTtl", 1>>,
    <<"first", 4>>, <<"last", 4>> >>

IPFIXRecord == <<
    <<"inBytes", 4>>, <<"outBytes", 4>>, <<"inPkts", 4>>, <<"outPkts", 4>>,
    <<"ipv4Src", 4>>, <<"ipv4Dst", 4>>, <<"ipv6Src", 16>>, <<"ipv6Dst", 16>>,
    <<"srcMask", 1>>, <<"dstMask", 1>>, <<"srcPort", 2>>, <<"dstPort", 2>>,
    <<"protocol", 1>>, <<"tcpFlags", 1>>, <<"startMillis", 8>>, <<"endMillis", 8>>,
    <<"direction", 1>>, <<"tos", 1>>, <<"endReason", 1>> >>

\* generateFlow: the record of each profile.
RecordFields == [p \in Profiles |->
    CASE p = "generic" -> GenericRecord
      [] p = "minimal" -> MinimalRecord
      [] p = "extended" -> ExtendedRecord
      [] p = "ipfix" -> IPFIXRecord]

OptionsRecord == << <<"domain", 4>> >>

-----------------------------------------------------------------------------
(* Sets *)

\* Bytes of a record with these fields.
SizeOf(layout) == MapThenSumSet(LAMBDA i : layout[i][2], DOMAIN layout)

RecordSize == [p \in Profiles |-> SizeOf(RecordFields[p])]

\* Zero bytes to the next multiple of four.
Padding(bytes) == (4 - (bytes % 4)) % 4

\* A set of the given content behind its four-byte header: the Length put into
\* that header and the bytes that ToBytes will write.
Set(kind, id, layout, records, content) ==
    LET raw == 4 + content IN
    [kind |-> kind, id |-> id, layout |-> layout, records |-> records,
     length |-> raw + Padding(raw), written |-> raw + Padding(raw)]

\* One template record: ID and field count, then a specifier for each field.
TemplateSet(p) ==
    Set("template", TemplateID, TemplateFields[p], 1, 4 + 4 * Len(TemplateFields[p]))

\* The same with a count of scope fields.
OptionsTemplateSet ==
    Set("template", OptionsTemplateID, OptionsTemplate, 1, 6 + 4 * Len(OptionsTemplate))

OptionsDataSet ==
    Set("data", OptionsTemplateID, OptionsRecord, 1, SizeOf(OptionsRecord))

\* Mutants of DataSet: size() with a value receiver, which computes the padding
\* and forgets it; an IPFIX length without the padding.
DataSetUnpadded(p, n) ==
    [Set("data", TemplateID, RecordFields[p], n, n * RecordSize[p])
        EXCEPT !.written = 4 + n * RecordSize[p]]
DataSetShortLength(p, n) ==
    [Set("data", TemplateID, RecordFields[p], n, n * RecordSize[p])
        EXCEPT !.length = 4 + n * RecordSize[p]]

\* DataFlowSet.Generate, n records of the profile.
DataSet(p, n) == Set("data", TemplateID, RecordFields[p], n, n * RecordSize[p])

\* Bytes of the sets of a message.
TotalLength(sets) == MapThenSumSet(LAMBDA i : sets[i].length, DOMAIN sets)
TotalWritten(sets) == MapThenSumSet(LAMBDA i : sets[i].written, DOMAIN sets)
=============================================================================
