------------------------------ MODULE Exporter ------------------------------
(***************************************************************************)
(* The streams of packets flowgre sends itself: one per barrage worker     *)
(* (barrage/barrage.go, generator.go), that of `flowgre single`            *)
(* (single/single.go) and of `flowgre ipfix` (cmd/ipfix_single.go), and    *)
(* that of a program which calls the packages netflow and ipfix directly.  *)
(*                                                                         *)
(* Making a packet takes its sequence number from a counter; sending it is *)
(* a later step.  An IPFIX number counts the data records before the       *)
(* message, a NetFlow number counts the packets.                           *)
(***************************************************************************)
EXTENDS FlowLayout

CONSTANTS
    Senders,        \* the barrage's workers
    Modulus,        \* 2^32, where sequence numbers wrap
    BarrageCounts,  \* flows per packet of a worker, of RandomNum(5, 25)
    APICounts,      \* flows a direct caller may ask for
    Count,          \* packets `single` and `ipfix` are told to send
    MaxMessages     \* packets per sender (bounds the model)

ASSUME ModulusAssumption == Modulus \in Nat \ {0}
ASSUME CountsAssumption == BarrageCounts \subseteq 5..24 /\ APICounts \subseteq Nat
ASSUME CountAssumption == Count \in Nat /\ MaxMessages \in Nat
ASSUME SendersAssumption == Senders # {}

VARIABLES
    command,    \* "barrage", "single", "ipfix", or "api" for a direct caller
    profile,    \* the flow profile, which is "ipfix" for that protocol
    spc,        \* sender: "template", "options", "loop" or "done"
    counter,    \* IPFIXSequence.counter, or Session.flowSequence
    pending,    \* the packet made and not yet sent: a sequence of one or none
    stream      \* the packets sent

vars == <<command, profile, spc, counter, pending, stream>>

IsIPFIX == profile = "ipfix"
HeaderSize == IF IsIPFIX THEN 16 ELSE 20
First == CHOOSE w \in Senders : TRUE

\* What the sets of a packet may be.
AllCounts == BarrageCounts \cup APICounts \cup {10}
Contents ==
    {<<OptionsDataSet>>}
    \cup {<<TemplateSet(p)>> : p \in Profiles}
    \cup {<<TemplateSet(p), OptionsTemplateSet>> : p \in Profiles}
    \cup {<<DataSet(p, n)>> : p \in Profiles, n \in AllCounts}
    \cup {<<TemplateSet(p), DataSet(p, n)>> : p \in Profiles, n \in AllCounts}

Packets == [seq : 0..(Modulus - 1), flowCount : Nat, sets : Contents, data : Nat]

\* Numbers stay in the ring, and at most one packet of a sender waits.
TypeOK ==
    /\ command \in {"barrage", "single", "ipfix", "api"} /\ profile \in Profiles
    /\ spc \in [Senders -> {"template", "options", "loop", "done"}]
    /\ counter \in [Senders -> 0..(Modulus - 1)]
    /\ pending \in [Senders -> Seq(Packets)]
    /\ \A w \in Senders : Len(pending[w]) <= 1
    /\ stream \in [Senders -> Seq(Packets)]

\* Only a barrage has more than one sender; a direct caller is in a loop of its own.
Init ==
    /\ command \in {"barrage", "single", "ipfix", "api"}
    /\ profile \in Profiles
    /\ command = "single" => profile = "generic"
    /\ command = "ipfix" => IsIPFIX
    /\ spc = [w \in Senders |->
                IF command # "barrage" /\ w # First THEN "done"
                ELSE IF command = "api" THEN "loop" ELSE "template"]
    /\ counter = [w \in Senders |-> 0]
    /\ pending = [w \in Senders |-> <<>>]
    /\ stream = [w \in Senders |-> <<>>]

-----------------------------------------------------------------------------
(* Sequence numbers *)

\* Mutant of ForWorker: every worker keeps the generator it was given.
SharedGenerator(w) == First

\* The counter of a sender: ForWorker gives each worker a sequence of its own,
\* and each makes a session of its own.
ForWorker(w) == w

\* By how much a packet with n data records advances the counter.
Advance(n) == IF IsIPFIX THEN n ELSE 1

\* IPFIXSequence.Reserve(n), modulo 2^32, whose number is that before the records; with
\* n = 0 it is Current.
Reserve(c, n) == counter' = [counter EXCEPT ![c] = (@ + n) % Modulus]

\* Session.NextSeq, whose number is that after the increment.
NextSeq(c) == counter' = [counter EXCEPT ![c] = (@ + 1) % Modulus]

\* A packet: its sequence number, the FlowCount of a NetFlow header, its sets,
\* and the data records among them.
Message(seq, flowCount, sets, n) ==
    [seq |-> seq, flowCount |-> flowCount % 65536, sets |-> sets, data |-> n]

\* Give the sets a header, which takes a number.
Make(w, sets, flowCount, n) ==
    LET c == ForWorker(w)
        seq == IF IsIPFIX THEN counter[c] ELSE counter'[c]
    IN
    /\ IF IsIPFIX THEN Reserve(c, n) ELSE NextSeq(c)
    /\ pending' = [pending EXCEPT ![w] = <<Message(seq, flowCount, sets, n)>>]
    /\ UNCHANGED <<command, profile, spc, stream>>

-----------------------------------------------------------------------------
(* Making packets *)

Idle(w, place) ==
    /\ spc[w] = place /\ pending[w] = <<>>
    /\ Len(stream[w]) < MaxMessages

DataMessages(w) == Cardinality({i \in DOMAIN stream[w] : stream[w][i].data > 0})

FlowCounts ==
    CASE command = "barrage" -> BarrageCounts
      [] command = "api" -> APICounts
      [] OTHER -> {10}

TemplateSets ==
    IF IsIPFIX THEN <<TemplateSet(profile), OptionsTemplateSet>> ELSE <<TemplateSet(profile)>>

\* The first packet of a command, and a worker's retransmissions.
MakeTemplate(w) ==
    /\ \/ Idle(w, "template")
       \/ Idle(w, "loop") /\ command \in {"barrage", "api"}
    /\ Make(w, TemplateSets, 1, 0)

\* GenerateOptionsData, which only workers and direct callers use.
MakeOptions(w) ==
    /\ \/ Idle(w, "options")
       \/ Idle(w, "loop") /\ command = "api" /\ IsIPFIX
    /\ Make(w, <<OptionsDataSet>>, 1, 1)

\* DataFlowSet.Generate refuses a set too long for its own Length field, and
\* IPFIX a message too long for that of its header.
Fits(sets) ==
    /\ \A i \in DOMAIN sets : sets[i].length <= MaxLength
    /\ IsIPFIX => HeaderSize + TotalLength(sets) <= MaxLength

\* A set that does not fit, an address range or the random source fails it before
\* any number was taken: a command ends, a caller goes on.
GenerateFails(w) ==
    /\ spc' = IF command = "api" THEN spc ELSE [spc EXCEPT ![w] = "done"]
    /\ UNCHANGED <<command, profile, counter, pending, stream>>

\* Mutant of MakeData: the number is taken before the size is checked.
MakeDataReservingFirst(w) ==
    /\ Idle(w, "loop")
    /\ \E n \in FlowCounts :
          LET sets == <<DataSet(profile, n)>> IN
          IF Fits(sets) THEN Make(w, sets, n, n)
          ELSE Reserve(ForWorker(w), n) /\ UNCHANGED <<command, profile, spc, pending, stream>>

\* GenerateDataNetflow, GenerateDataIPFIX
MakeData(w) ==
    /\ Idle(w, "loop")
    /\ command \in {"single", "ipfix"} => DataMessages(w) < Count
    /\ \/ \E n \in FlowCounts :
             LET sets == <<DataSet(profile, n)>> IN
             Fits(sets) /\ Make(w, sets, n, n)
       \/ GenerateFails(w)

\* Mutant of MakeCombined: only the Data Set is checked for its size.
MakeCombinedUnchecked(w) ==
    /\ command = "api" /\ Idle(w, "loop")
    /\ \E n \in FlowCounts :
          /\ DataSet(profile, n).length <= MaxLength
          /\ Make(w, <<TemplateSet(profile), DataSet(profile, n)>>, n + 1, n)

\* GenerateNetflow, GenerateIPFIX: template and data in one packet.
MakeCombined(w) ==
    /\ command = "api" /\ Idle(w, "loop")
    /\ \/ \E n \in FlowCounts :
             LET sets == <<TemplateSet(profile), DataSet(profile, n)>> IN
             Fits(sets) /\ Make(w, sets, n + 1, n)
       \/ GenerateFails(w)

-----------------------------------------------------------------------------
(* Sending them *)

AfterSend(w) ==
    IF spc[w] = "template" /\ command = "barrage" /\ IsIPFIX THEN "options" ELSE "loop"

\* ToBytes and SendPacket.
Send(w) ==
    /\ pending[w] # <<>>
    /\ stream' = [stream EXCEPT ![w] = Append(@, Head(pending[w]))]
    /\ pending' = [pending EXCEPT ![w] = <<>>]
    /\ spc' = [spc EXCEPT ![w] = AfterSend(w)]
    /\ UNCHANGED <<command, profile, counter>>

\* The socket refuses a packet: the worker or the command ends.
SendFails(w) ==
    /\ pending[w] # <<>> /\ command # "api"
    /\ pending' = [pending EXCEPT ![w] = <<>>]
    /\ spc' = [spc EXCEPT ![w] = "done"]
    /\ UNCHANGED <<command, profile, counter, stream>>

\* The context ends a worker or `single`, at any time; a count ends the others.
Leave(w) ==
    /\ spc[w] = "loop" /\ pending[w] = <<>>
    /\ \/ command \in {"barrage", "single"}
       \/ command = "ipfix" /\ DataMessages(w) = Count
    /\ spc' = [spc EXCEPT ![w] = "done"]
    /\ UNCHANGED <<command, profile, counter, pending, stream>>

Next ==
    \E w \in Senders :
        \/ MakeTemplate(w)
        \/ MakeOptions(w)
        \/ MakeData(w)
        \/ MakeCombined(w)
        \/ Send(w)
        \/ SendFails(w)
        \/ Leave(w)

Spec == Init /\ [][Next]_vars

-----------------------------------------------------------------------------
(* Properties *)

FirstSeq == IF IsIPFIX THEN 0 ELSE 1 % Modulus

\* A collector that follows one stream sees no gap and no repetition: each
\* packet carries the number its predecessor calls for, across the wrap,
\* whatever other workers do, and whatever calls failed in between.
Numbered ==
    \A w \in Senders : \A i \in DOMAIN stream[w] :
        stream[w][i].seq =
            IF i = 1 THEN FirstSeq
            ELSE (stream[w][i-1].seq + Advance(stream[w][i-1].data)) % Modulus

\* The templates a collector knows after the first k packets of a stream.
Known(s, k) ==
    {t \in UNION {{s[i].sets[j] : j \in DOMAIN s[i].sets} : i \in 1..k} : t.kind = "template"}

\* The collector reads the same records that were written: it knows the
\* template, whose fields are those of the records, in order, and the Length
\* leaves room for exactly these records and less than one more.
ReadsBack(set, templates) ==
    /\ \E t \in templates : t.id = set.id
    /\ \A t \in templates : t.id = set.id =>
          /\ t.layout = set.layout
          /\ (set.length - 4) \div SizeOf(t.layout) = set.records

\* The header fits: a NetFlow one counts the records of either kind, that of
\* IPFIX the bytes, which ToBytes takes from its buffer and must find room for.
HeaderTrue(m) ==
    IF IsIPFIX THEN HeaderSize + TotalWritten(m.sets) <= MaxLength
    ELSE m.flowCount = MapThenSumSet(LAMBDA i : m.sets[i].records, DOMAIN m.sets)

\* Every packet can be read: its header is true, its sets are as long as they
\* say and aligned, so the next one is found, and the records of a command's
\* stream read back by the templates sent before them.
Readable ==
    \A w \in Senders : \A k \in DOMAIN stream[w] :
        /\ HeaderTrue(stream[w][k])
        /\ \A j \in DOMAIN stream[w][k].sets :
              LET set == stream[w][k].sets[j] IN
              /\ set.length = set.written /\ set.length % 4 = 0 /\ set.length <= MaxLength
              /\ command # "api" /\ set.kind = "data" =>
                    ReadsBack(set, Known(stream[w], k))
=============================================================================
