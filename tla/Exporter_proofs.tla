--------------------------- MODULE Exporter_proofs ---------------------------
(***************************************************************************)
(* Proofs about Exporter, for any number of senders, any modulus and any   *)
(* sizes of packets.                                                       *)
(***************************************************************************)
EXTENDS Exporter, Integers, FiniteSetTheorems, WellFoundedInduction, TLAPS

\* The number the next packet made must carry, according to the counter.
Expected(w) == IF IsIPFIX THEN counter[w] ELSE (counter[w] + 1) % Modulus

\* The number that must follow packet m.
After(m) == (m.seq + Advance(m.data)) % Modulus

\* The number that must follow the packets sent.
NextNumber(w) == IF Len(stream[w]) = 0 THEN FirstSeq ELSE After(stream[w][Len(stream[w])])

\* Each packet of a stream carries the number its predecessor calls for.
Chained(w) ==
    \A i \in DOMAIN stream[w] :
        stream[w][i].seq = IF i = 1 THEN FirstSeq ELSE After(stream[w][i-1])

\* A packet that waits to be sent is the next one of the stream, and the
\* counter is ready for the one after it.
WaitingIsNext(w) ==
    Len(pending[w]) # 0 =>
        /\ spc[w] # "done"
        /\ Head(pending[w]).seq = NextNumber(w)
        /\ Expected(w) = After(Head(pending[w]))

\* With nothing waiting, the counter is ready for the next packet, unless the
\* sender has ended, perhaps with a packet it could not send.
CounterIsNext(w) == Len(pending[w]) = 0 /\ spc[w] # "done" => Expected(w) = NextNumber(w)

\* The numbering of every stream.
NumberInv == \A w \in Senders : Chained(w) /\ WaitingIsNext(w) /\ CounterIsNext(w)

\* The inductive invariant of the numbers.
IInv == TypeOK /\ NumberInv

-----------------------------------------------------------------------------

\* A sum in the ring of sequence numbers stays in it.
LEMMA RingClosed ==
    ASSUME NEW x \in Nat
    PROVE  x % Modulus \in 0..(Modulus - 1)
  BY ModulusAssumption

\* The flows of a packet are a number, among those Contents allows.
LEMMA FlowCountsAreNumbers ==
    /\ FlowCounts \subseteq Nat
    /\ FlowCounts \subseteq AllCounts
  BY CountsAssumption DEF FlowCounts, AllCounts

\* The contents of every packet the generators make.
LEMMA ContentsMade ==
    ASSUME NEW p \in Profiles, NEW n \in AllCounts
    PROVE  /\ <<TemplateSet(p)>> \in Contents
           /\ <<TemplateSet(p), OptionsTemplateSet>> \in Contents
           /\ <<OptionsDataSet>> \in Contents
           /\ <<DataSet(p, n)>> \in Contents
           /\ <<TemplateSet(p), DataSet(p, n)>> \in Contents
  BY DEF Contents

\* Making a packet for an idle sender keeps the numbering.
LEMMA MakeKeeps ==
    ASSUME IInv, NEW w \in Senders, NEW sets \in Contents, NEW flowCount \in Nat, NEW n \in Nat,
           spc[w] # "done", pending[w] = <<>>, Make(w, sets, flowCount, n)
    PROVE  IInv'
  <1> USE ModulusAssumption
  <1>0. PICK m : m = Message(IF IsIPFIX THEN counter[w] ELSE counter'[w], flowCount, sets, n)
    OBVIOUS
  <1>1. /\ command' = command /\ profile' = profile /\ spc' = spc /\ stream' = stream
        /\ pending' = [pending EXCEPT ![w] = <<m>>]
        /\ counter' = [counter EXCEPT ![w] = (@ + Advance(n)) % Modulus]
    BY <1>0 DEF Make, ForWorker, Reserve, NextSeq, Advance
  <1>2. Advance(n) \in Nat
    BY DEF Advance
  <1>3. /\ counter[w] \in 0..(Modulus - 1)
        /\ counter'[w] = (counter[w] + Advance(n)) % Modulus
        /\ counter'[w] \in 0..(Modulus - 1)
    <2>1. counter[w] \in 0..(Modulus - 1)
      BY DEF IInv, TypeOK
    <2>2. counter'[w] = (counter[w] + Advance(n)) % Modulus
      BY <1>1 DEF IInv, TypeOK
    <2>3. counter[w] + Advance(n) \in Nat
      BY <2>1, <1>2
    <2> QED BY <2>1, <2>2, <2>3, RingClosed
  <1>4. m \in Packets
    <2>1. flowCount % 65536 \in Nat
      OBVIOUS
    <2>2. (IF IsIPFIX THEN counter[w] ELSE counter'[w]) \in 0..(Modulus - 1)
      BY <1>3
    <2> QED BY <1>0, <2>1, <2>2 DEF Packets, Message
  <1>5. TypeOK'
    <2>1. <<m>> \in Seq(Packets) /\ Len(<<m>>) = 1
      BY <1>4
    <2>2. counter' \in [Senders -> 0..(Modulus - 1)]
      BY <1>1, <1>3 DEF IInv, TypeOK
    <2>3. pending' \in [Senders -> Seq(Packets)]
      BY <1>1, <2>1 DEF IInv, TypeOK
    <2>4. \A v \in Senders : Len(pending'[v]) <= 1
      BY <1>1, <2>1 DEF IInv, TypeOK
    <2> QED BY <1>1, <2>2, <2>3, <2>4 DEF IInv, TypeOK
  <1>6. /\ m.seq = Expected(w)
        /\ Expected(w)' = After(m)
    <2>1. m.seq = (IF IsIPFIX THEN counter[w] ELSE counter'[w]) /\ m.data = n
      BY <1>0 DEF Message
    <2>2. IsIPFIX' = IsIPFIX
      BY <1>1 DEF IsIPFIX
    <2>3. CASE IsIPFIX
      BY <2>1, <2>2, <2>3, <1>3 DEF Expected, After, Advance
    <2>4. CASE ~IsIPFIX
      BY <2>1, <2>2, <2>4, <1>3 DEF Expected, After, Advance
    <2> QED BY <2>3, <2>4
  <1>7. ASSUME NEW v \in Senders
        PROVE  (Chained(v) /\ WaitingIsNext(v) /\ CounterIsNext(v))'
    <2>1. IsIPFIX' = IsIPFIX /\ FirstSeq' = FirstSeq
      BY <1>1 DEF IsIPFIX, FirstSeq
    <2>2. \A k : After(k)' = After(k)
      BY <1>1, <2>1 DEF After, Advance
    <2>3. Chained(v) /\ WaitingIsNext(v) /\ CounterIsNext(v)
      BY DEF IInv, NumberInv
    <2>4. Chained(v)' /\ NextNumber(v)' = NextNumber(v)
      BY <1>1, <2>1, <2>2, <2>3 DEF Chained, NextNumber, After, Advance
    <2>5. CASE v = w
      <3>1. pending'[v] = <<m>> /\ Len(<<m>>) = 1 /\ Head(<<m>>) = m
        BY <1>1, <2>5 DEF IInv, TypeOK
      <3>2. m.seq = NextNumber(w)
        BY <1>6, <2>3, <2>5 DEF CounterIsNext
      <3>3. Expected(v)' = After(m)'
        BY <1>6, <2>2, <2>5
      <3>4. WaitingIsNext(v)'
        BY <1>1, <2>4, <2>5, <3>1, <3>2, <3>3 DEF WaitingIsNext
      <3>5. CounterIsNext(v)'
        BY <3>1 DEF CounterIsNext
      <3> QED BY <2>4, <3>4, <3>5
    <2>6. CASE v # w
      <3>1. pending'[v] = pending[v] /\ counter'[v] = counter[v]
        BY <1>1, <2>6 DEF IInv, TypeOK
      <3>2. Expected(v)' = Expected(v)
        BY <2>1, <3>1 DEF Expected
      <3> QED BY <1>1, <2>2, <2>3, <2>4, <3>1, <3>2 DEF WaitingIsNext, CounterIsNext
    <2> QED BY <2>5, <2>6
  <1> QED BY <1>5, <1>7 DEF IInv, NumberInv

\* An idle sender has ended nothing and has nothing waiting.
LEMMA IdleSender ==
    ASSUME NEW w, NEW place \in {"template", "options", "loop"}, Idle(w, place)
    PROVE  spc[w] # "done" /\ pending[w] = <<>>
  BY DEF Idle

\* A sender that ends with nothing waiting, or goes on after an error, leaves
\* every number where it was.
LEMMA LeaveKeeps ==
    ASSUME IInv, NEW w \in Senders, pending[w] = <<>>,
           spc' = [spc EXCEPT ![w] = "done"] \/ spc' = spc,
           UNCHANGED <<command, profile, counter, pending, stream>>
    PROVE  IInv'
  <1>1. TypeOK'
    BY DEF IInv, TypeOK
  <1>2. ASSUME NEW v \in Senders
        PROVE  (Chained(v) /\ WaitingIsNext(v) /\ CounterIsNext(v))'
    <2>1. Chained(v) /\ WaitingIsNext(v) /\ CounterIsNext(v)
      BY DEF IInv, NumberInv
    <2>2. /\ Chained(v)' = Chained(v) /\ NextNumber(v)' = NextNumber(v)
          /\ Expected(v)' = Expected(v)
          /\ Head(pending[v]).seq' = Head(pending[v]).seq
          /\ After(Head(pending[v]))' = After(Head(pending[v]))
      BY DEF Chained, NextNumber, Expected, After, Advance, FirstSeq, IsIPFIX
    <2>3. spc'[v] = spc[v] \/ (v = w /\ spc'[v] = "done")
      BY DEF IInv, TypeOK
    <2>4. Len(pending[w]) = 0
      OBVIOUS
    <2> QED BY <2>1, <2>2, <2>3, <2>4 DEF WaitingIsNext, CounterIsNext
  <1> QED BY <1>1, <1>2 DEF IInv, NumberInv

\* Sending appends the packet that was the next one.
LEMMA SendKeeps ==
    ASSUME IInv, NEW w \in Senders, Send(w)
    PROVE  IInv'
  <1>1. /\ command' = command /\ profile' = profile /\ counter' = counter
        /\ pending' = [pending EXCEPT ![w] = <<>>]
        /\ stream' = [stream EXCEPT ![w] = Append(@, Head(pending[w]))]
        /\ spc' = [spc EXCEPT ![w] = AfterSend(w)]
        /\ AfterSend(w) \in {"options", "loop"}
    BY DEF Send, AfterSend
  <1>2. /\ pending[w] \in Seq(Packets) /\ Len(pending[w]) # 0
        /\ Head(pending[w]) \in Packets /\ stream[w] \in Seq(Packets)
    BY DEF Send, IInv, TypeOK
  <1>3. TypeOK'
    <2>1. Append(stream[w], Head(pending[w])) \in Seq(Packets)
      BY <1>2
    <2>2. <<>> \in Seq(Packets) /\ Len(<<>>) <= 1
      OBVIOUS
    <2> QED BY <1>1, <2>1, <2>2 DEF IInv, TypeOK
  <1>4. ASSUME NEW v \in Senders
        PROVE  (Chained(v) /\ WaitingIsNext(v) /\ CounterIsNext(v))'
    <2>1. Chained(v) /\ WaitingIsNext(v) /\ CounterIsNext(v)
      BY DEF IInv, NumberInv
    <2>2. /\ IsIPFIX' = IsIPFIX /\ FirstSeq' = FirstSeq /\ Expected(v)' = Expected(v)
          /\ \A k : After(k)' = After(k)
      BY <1>1 DEF IsIPFIX, FirstSeq, Expected, After, Advance
    <2>3. CASE v # w
      <3>1. pending'[v] = pending[v] /\ stream'[v] = stream[v] /\ spc'[v] = spc[v]
        BY <1>1, <2>3 DEF IInv, TypeOK
      <3>2. Chained(v)' /\ NextNumber(v)' = NextNumber(v)
        BY <2>1, <2>2, <3>1 DEF Chained, NextNumber, After, Advance
      <3> QED BY <2>1, <2>2, <3>1, <3>2 DEF WaitingIsNext, CounterIsNext
    <2>4. CASE v = w
      <3> DEFINE m == Head(pending[w])
                 s == stream[w]
      <3>1. m.seq = NextNumber(w) /\ Expected(w) = After(m)
        BY <1>2, <2>1, <2>4 DEF WaitingIsNext
      <3>2. /\ stream'[w] = Append(s, m) /\ Len(s) \in Nat
            /\ Len(stream'[w]) = Len(s) + 1 /\ DOMAIN stream'[w] = 1..(Len(s) + 1)
            /\ stream'[w][Len(s) + 1] = m /\ DOMAIN s = 1..Len(s)
            /\ \A i \in 1..Len(s) : stream'[w][i] = s[i]
        BY <1>1, <1>2 DEF IInv, TypeOK
      <3>3. Chained(v)'
        <4> SUFFICES ASSUME NEW i \in 1..(Len(s) + 1)
                     PROVE  stream'[w][i].seq =
                              IF i = 1 THEN FirstSeq ELSE After(stream'[w][i-1])
          BY <2>2, <2>4, <3>2 DEF Chained
        <4>1. CASE i <= Len(s)
          BY <2>1, <2>4, <3>2, <4>1 DEF Chained
        <4>2. CASE i = Len(s) + 1
          BY <3>1, <3>2, <4>2 DEF NextNumber
        <4> QED BY <3>2, <4>1, <4>2
      <3>4. NextNumber(v)' = After(m)
        BY <2>2, <2>4, <3>2 DEF NextNumber
      <3>5. pending'[v] = <<>> /\ Len(<<>>) = 0
        BY <1>1, <2>4 DEF IInv, TypeOK
      <3> QED BY <2>2, <2>4, <3>1, <3>3, <3>4, <3>5 DEF WaitingIsNext, CounterIsNext
    <2> QED BY <2>3, <2>4
  <1> QED BY <1>3, <1>4 DEF IInv, NumberInv

\* A packet that could not be sent is gone with its number, and so is its sender.
LEMMA SendFailsKeeps ==
    ASSUME IInv, NEW w \in Senders, SendFails(w)
    PROVE  IInv'
  <1>1. /\ UNCHANGED <<command, profile, counter, stream>>
        /\ pending' = [pending EXCEPT ![w] = <<>>]
        /\ spc' = [spc EXCEPT ![w] = "done"]
    BY DEF SendFails
  <1>2. TypeOK'
    <2>1. <<>> \in Seq(Packets) /\ Len(<<>>) <= 1
      OBVIOUS
    <2> QED BY <1>1, <2>1 DEF IInv, TypeOK
  <1>3. ASSUME NEW v \in Senders
        PROVE  (Chained(v) /\ WaitingIsNext(v) /\ CounterIsNext(v))'
    <2>1. Chained(v) /\ WaitingIsNext(v) /\ CounterIsNext(v)
      BY DEF IInv, NumberInv
    <2>2. /\ Chained(v)' = Chained(v) /\ NextNumber(v)' = NextNumber(v)
          /\ Expected(v)' = Expected(v) /\ \A k : After(k)' = After(k)
      BY <1>1 DEF Chained, NextNumber, Expected, After, Advance, FirstSeq, IsIPFIX
    <2>3. CASE v # w
      <3>1. pending'[v] = pending[v] /\ spc'[v] = spc[v]
        BY <1>1, <2>3 DEF IInv, TypeOK
      <3> QED BY <2>1, <2>2, <3>1 DEF WaitingIsNext, CounterIsNext
    <2>4. CASE v = w
      <3>1. pending'[v] = <<>> /\ spc'[v] = "done" /\ Len(<<>>) = 0
        BY <1>1, <2>4 DEF IInv, TypeOK
      <3> QED BY <2>1, <2>2, <3>1 DEF WaitingIsNext, CounterIsNext
    <2> QED BY <2>3, <2>4
  <1> QED BY <1>2, <1>3 DEF IInv, NumberInv

-----------------------------------------------------------------------------

\* No packet has been sent yet, and the counters are zero.
LEMMA InitEstablishes == Init => IInv
  <1> SUFFICES ASSUME Init PROVE IInv
    OBVIOUS
  <1>1. TypeOK
    <2>1. <<>> \in Seq(Packets) /\ Len(<<>>) <= 1
      OBVIOUS
    <2> QED BY <2>1, ModulusAssumption DEF Init, TypeOK
  <1>2. ASSUME NEW v \in Senders
        PROVE  Chained(v) /\ WaitingIsNext(v) /\ CounterIsNext(v)
    <2>1. counter[v] = 0 /\ pending[v] = <<>> /\ stream[v] = <<>> /\ Len(<<>>) = 0
      BY DEF Init
    <2>2. Expected(v) = NextNumber(v)
      BY <2>1 DEF Expected, NextNumber, FirstSeq
    <2> QED BY <2>1, <2>2 DEF Chained, WaitingIsNext, CounterIsNext
  <1> QED BY <1>1, <1>2 DEF IInv, NumberInv

\* Every step keeps the numbers.
LEMMA NextPreserves == IInv /\ [Next]_vars => IInv'
  <1> SUFFICES ASSUME IInv, [Next]_vars PROVE IInv'
    OBVIOUS
  <1>p. profile \in Profiles
    BY DEF IInv, TypeOK
  <1>1. CASE UNCHANGED vars
    BY <1>1 DEF vars, IInv, TypeOK, NumberInv, Chained, WaitingIsNext, CounterIsNext,
                NextNumber, Expected, After, Advance, FirstSeq, IsIPFIX
  <1>2. ASSUME NEW w \in Senders, MakeTemplate(w)
        PROVE  IInv'
    <2>1. spc[w] # "done" /\ pending[w] = <<>> /\ Make(w, TemplateSets, 1, 0)
      BY <1>2, IdleSender DEF MakeTemplate
    <2>2. TemplateSets \in Contents
      BY <1>p DEF TemplateSets, Contents
    <2> QED BY <2>1, <2>2, MakeKeeps
  <1>3. ASSUME NEW w \in Senders, MakeOptions(w)
        PROVE  IInv'
    <2>1. spc[w] # "done" /\ pending[w] = <<>> /\ Make(w, <<OptionsDataSet>>, 1, 1)
      BY <1>3, IdleSender DEF MakeOptions
    <2>2. <<OptionsDataSet>> \in Contents
      BY DEF Contents
    <2> QED BY <2>1, <2>2, MakeKeeps
  <1>4. ASSUME NEW w \in Senders, MakeData(w)
        PROVE  IInv'
    <2>1. spc[w] # "done" /\ pending[w] = <<>>
      BY <1>4, IdleSender DEF MakeData
    <2>2. CASE GenerateFails(w)
      BY <2>1, <2>2, LeaveKeeps DEF GenerateFails
    <2>3. ASSUME NEW n \in FlowCounts, Make(w, <<DataSet(profile, n)>>, n, n)
          PROVE  IInv'
      <3>1. n \in Nat /\ <<DataSet(profile, n)>> \in Contents
        BY <1>p, FlowCountsAreNumbers, ContentsMade
      <3> QED BY <2>1, <2>3, <3>1, MakeKeeps
    <2> QED BY <1>4, <2>2, <2>3 DEF MakeData
  <1>5. ASSUME NEW w \in Senders, MakeCombined(w)
        PROVE  IInv'
    <2>1. spc[w] # "done" /\ pending[w] = <<>>
      BY <1>5, IdleSender DEF MakeCombined
    <2>2. CASE GenerateFails(w)
      BY <2>1, <2>2, LeaveKeeps DEF GenerateFails
    <2>3. ASSUME NEW n \in FlowCounts,
                 Make(w, <<TemplateSet(profile), DataSet(profile, n)>>, n + 1, n)
          PROVE  IInv'
      <3>1. n \in Nat /\ n \in AllCounts
        BY FlowCountsAreNumbers
      <3>2. n + 1 \in Nat
        BY <3>1
      <3>3. <<TemplateSet(profile), DataSet(profile, n)>> \in Contents
        BY <1>p, <3>1, ContentsMade
      <3> QED BY <2>1, <2>3, <3>1, <3>2, <3>3, MakeKeeps
    <2> QED BY <1>5, <2>2, <2>3 DEF MakeCombined
  <1>6. ASSUME NEW w \in Senders, Leave(w)
        PROVE  IInv'
    BY <1>6, LeaveKeeps DEF Leave
  <1> QED BY <1>1, <1>2, <1>3, <1>4, <1>5, <1>6, SendKeeps, SendFailsKeeps DEF Next

\* The invariant of the numbers holds on every run.
LEMMA Invariance == Spec => []IInv
  BY InitEstablishes, NextPreserves, PTL DEF Spec

\* Sequence numbers stay below 2^32, a sender has at most one packet in hand,
\* and every packet is one of those the generators make.
THEOREM TypeCorrect == Spec => []TypeOK
  <1>1. IInv => TypeOK
    BY DEF IInv
  <1> QED BY <1>1, Invariance, PTL

\* No stream has a gap or a repetition in its sequence numbers (generator.go,
\* ForWorker; ipfix.go, Reserve; session.go, NextSeq).
THEOREM StreamsAreNumbered == Spec => []Numbered
  <1>1. IInv => Numbered
    BY DEF IInv, NumberInv, Chained, Numbered, After
  <1> QED BY <1>1, Invariance, PTL

-----------------------------------------------------------------------------
(* Sums over the fields of a layout and the sets of a packet *)

\* A set of natural numbers has a least one.
LEMMA LeastNatural ==
    ASSUME NEW T \in SUBSET Nat, T # {}
    PROVE  \E x \in T : \A y \in T : x <= y
  <1>1. PICK x \in T : \A y \in T : ~(<<y, x>> \in OpToRel(<, Nat))
    BY NatLessThanWellFounded, WFMin
  <1>2. ASSUME NEW y \in T PROVE x <= y
    <2>1. x \in Nat /\ y \in Nat
      OBVIOUS
    <2>2. ~(y < x)
      <3>1. ~(<<y, x>> \in OpToRel(<, Nat))
        BY <1>1
      <3> QED
        BY <2>1, <3>1 DEF OpToRel
    <2> QED
      BY <2>1, <2>2
  <1> QED
    BY <1>2

\* Induction over the natural numbers, for a set of them.
LEMMA SetInduction ==
    ASSUME NEW G \in SUBSET Nat, 0 \in G, \A n \in G : n + 1 \in G
    PROVE  G = Nat
  <1> SUFFICES ASSUME Nat \ G # {} PROVE FALSE
    OBVIOUS
  <1>1. PICK x \in Nat \ G : \A y \in Nat \ G : x <= y
    BY LeastNatural
  <1>2. x # 0 /\ x - 1 \in Nat
    BY <1>1
  <1>3. x - 1 \in G
    BY <1>1, <1>2
  <1> QED
    BY <1>1, <1>2, <1>3

\* MapThenSumSet over the component c of the elements of map, in the form of the
\* recursive function that defines it: f is that function on the sets of D.
Choice(s) == CHOOSE x \in s : TRUE
PlusRest(map, c, f, s) == IF s = {} THEN 0 ELSE map[Choice(s)][c] + f[s \ {Choice(s)}]
Adds(map, c, D, f) == f = [s \in D |-> PlusRest(map, c, f, s)]
SumFcn(map, c, S) == CHOOSE f : Adds(map, c, SUBSET S, f)
FieldSum(map, c, S) == SumFcn(map, c, S)[S]

\* What is chosen from a set is in it.
LEMMA Chosen == \A s : s # {} => Choice(s) \in s
  BY DEF Choice

\* A finite set loses one element.
LEMMA Smaller ==
  ASSUME NEW s, IsFiniteSet(s), s # {}, NEW x \in s
  PROVE  /\ IsFiniteSet(s \ {x}) /\ Cardinality(s \ {x}) = Cardinality(s) - 1
         /\ Cardinality(s) \in Nat \ {0}
  BY FS_RemoveElement, FS_CardinalityType, FS_EmptySet

\* The recursion has a solution: on small sets first, then on larger ones.
LEMMA SumExists ==
  ASSUME NEW map, NEW c, NEW S, IsFiniteSet(S)
  PROVE  Adds(map, c, SUBSET S, SumFcn(map, c, S))
  <1> DEFINE Small(n) == {s \in SUBSET S : Cardinality(s) <= n}
             G == {n \in Nat : \E f : Adds(map, c, Small(n), f)}
  <1>0. \A s \in SUBSET S : IsFiniteSet(s) /\ Cardinality(s) \in Nat
    BY FS_Subset, FS_CardinalityType
  <1>1. 0 \in G
    <2>1. Small(0) = {{}}
      <3>1. \A s \in Small(0) : Cardinality(s) = 0
        BY <1>0
      <3> QED BY <1>0, <3>1, FS_EmptySet
    <2>2. Adds(map, c, {{}}, [s \in {{}} |-> 0])
      BY DEF Adds, PlusRest
    <2> QED BY <2>1, <2>2
  <1>2. ASSUME NEW n \in G PROVE n + 1 \in G
    <2>1. PICK f : Adds(map, c, Small(n), f)
      OBVIOUS
    <2> DEFINE g == [s \in Small(n + 1) |-> PlusRest(map, c, f, s)]
    <2>2. Small(n) \subseteq Small(n + 1)
      BY <1>0
    <2>3. \A s \in Small(n) : g[s] = f[s]
      BY <2>1, <2>2 DEF Adds
    <2>4. ASSUME NEW s \in Small(n + 1) PROVE PlusRest(map, c, f, s) = PlusRest(map, c, g, s)
      <3>1. CASE s = {}
        BY <3>1 DEF PlusRest
      <3>2. CASE s # {}
        <4> DEFINE r == s \ {Choice(s)}
        <4>1. Choice(s) \in s
          BY <3>2, Chosen
        <4>2. Cardinality(r) = Cardinality(s) - 1
          BY <4>1, <1>0, Smaller
        <4>3. r \in Small(n)
          BY <4>2, <1>0
        <4>4. g[r] = f[r]
          BY <4>3, <2>3
        <4> QED BY <4>4 DEF PlusRest
      <3> QED BY <3>1, <3>2
    <2>5. g = [s \in Small(n + 1) |-> PlusRest(map, c, g, s)]
      BY <2>4
    <2>6. Adds(map, c, Small(n + 1), g)
      BY <2>5 DEF Adds
    <2> HIDE DEF g, Small
    <2> QED BY <2>6
  <1>3. Cardinality(S) \in G
    BY <1>0, <1>1, <1>2, SetInduction
  <1>4. Small(Cardinality(S)) = SUBSET S
    BY <1>0, FS_Subset
  <1>5. \E f : Adds(map, c, SUBSET S, f)
    BY <1>3, <1>4
  <1> QED BY <1>5 DEF SumFcn

\* The sum over a subset does not depend on the set it is taken from.
LEMMA SumRestricts ==
  ASSUME NEW map, NEW c, NEW S, IsFiniteSet(S), NEW T \in SUBSET S
  PROVE  SumFcn(map, c, S)[T] = FieldSum(map, c, T)
  <1> DEFINE F == SumFcn(map, c, S)
             H == SumFcn(map, c, T)
             G == {n \in Nat : \A s \in SUBSET T : Cardinality(s) <= n => F[s] = H[s]}
  <1>0. \A s \in SUBSET S : IsFiniteSet(s) /\ Cardinality(s) \in Nat
    BY FS_Subset, FS_CardinalityType
  <1>1. \A s \in SUBSET T : F[s] = PlusRest(map, c, F, s) /\ H[s] = PlusRest(map, c, H, s)
    <2>1. Adds(map, c, SUBSET S, F) /\ Adds(map, c, SUBSET T, H)
      BY <1>0, SumExists
    <2> HIDE DEF F, H
    <2> QED BY <2>1 DEF Adds
  <1> HIDE DEF F, H
  <1>2. 0 \in G
    <2> SUFFICES ASSUME NEW s \in SUBSET T, Cardinality(s) <= 0 PROVE F[s] = H[s]
      OBVIOUS
    <2>1. s = {}
      BY <1>0, FS_EmptySet
    <2> QED BY <2>1, <1>1 DEF PlusRest
  <1>3. ASSUME NEW n \in G PROVE n + 1 \in G
    <2> SUFFICES ASSUME NEW s \in SUBSET T, Cardinality(s) <= n + 1 PROVE F[s] = H[s]
      OBVIOUS
    <2>1. CASE s = {}
      BY <2>1, <1>1 DEF PlusRest
    <2>2. CASE s # {}
      <3> DEFINE r == s \ {Choice(s)}
      <3>1. Choice(s) \in s
        BY <2>2, Chosen
      <3>2. Cardinality(r) = Cardinality(s) - 1
        BY <3>1, <1>0, Smaller
      <3>3. F[r] = H[r]
        BY <3>2, <1>0
      <3> QED BY <2>2, <3>3, <1>1 DEF PlusRest
    <2> QED BY <2>1, <2>2
  <1>4. Cardinality(T) \in G
    BY <1>0, <1>2, <1>3, SetInduction
  <1> QED BY <1>4, <1>0 DEF FieldSum, F, H

\* One turn of the recursion.
LEMMA SumStep ==
  ASSUME NEW map, NEW c, NEW S, IsFiniteSet(S)
  PROVE  /\ S = {} => FieldSum(map, c, S) = 0
         /\ S # {} => FieldSum(map, c, S) = map[Choice(S)][c] + FieldSum(map, c, S \ {Choice(S)})
  <1> DEFINE F == SumFcn(map, c, S)
  <1>1. F[S] = PlusRest(map, c, F, S)
    <2>1. Adds(map, c, SUBSET S, F)
      BY SumExists
    <2> HIDE DEF F
    <2> QED BY <2>1 DEF Adds
  <1>2. F[S \ {Choice(S)}] = FieldSum(map, c, S \ {Choice(S)})
    BY SumRestricts
  <1> QED BY <1>1, <1>2 DEF FieldSum, PlusRest

\* A sum of positive numbers is at least as large as their number.
LEMMA SumAtLeast ==
  ASSUME NEW map, NEW c, NEW S, IsFiniteSet(S), \A x \in S : map[x][c] \in Nat \ {0}
  PROVE  FieldSum(map, c, S) \in Nat /\ FieldSum(map, c, S) >= Cardinality(S)
  <1> DEFINE Good(s) == FieldSum(map, c, s) \in Nat /\ FieldSum(map, c, s) >= Cardinality(s)
             G == {n \in Nat : \A s \in SUBSET S : Cardinality(s) <= n => Good(s)}
  <1>1. \A s \in SUBSET S : IsFiniteSet(s) /\ Cardinality(s) \in Nat
    BY FS_Subset, FS_CardinalityType
  <1>2. Good({})
    <2>1. FieldSum(map, c, {}) = 0 /\ Cardinality({}) = 0
      BY SumStep, FS_EmptySet
    <2> QED
      BY <2>1
  <1>3. 0 \in G
    BY <1>1, <1>2, FS_EmptySet
  <1>4. ASSUME NEW n \in G PROVE n + 1 \in G
    <2> SUFFICES ASSUME NEW s \in SUBSET S, Cardinality(s) <= n + 1, s # {} PROVE Good(s)
      BY <1>2
    <2> DEFINE x == Choice(s)
               r == s \ {x}
    <2>1. x \in s
      BY Chosen
    <2>2. Cardinality(r) = Cardinality(s) - 1
      BY <1>1, <2>1, Smaller
    <2>3. Good(r)
      BY <1>1, <2>2
    <2>4. FieldSum(map, c, s) = map[x][c] + FieldSum(map, c, r)
      BY <1>1, SumStep
    <2>5. map[x][c] \in Nat \ {0}
      BY <2>1
    <2> HIDE DEF x, r, G
    <2> QED
      BY <1>1, <2>2, <2>3, <2>4, <2>5
  <1>5. G = Nat
    <2>1. G \in SUBSET Nat
      OBVIOUS
    <2> HIDE DEF G
    <2> QED
      BY <1>3, <1>4, <2>1, SetInduction
  <1>6. Cardinality(S) \in Nat /\ S \in SUBSET S
    BY <1>1
  <1> QED
    BY <1>5, <1>6

\* The sum over one or two elements.
LEMMA SumOfFew ==
  ASSUME NEW map, NEW c
  PROVE  /\ map[1][c] \in Int => FieldSum(map, c, {1}) = map[1][c]
         /\ map[1][c] \in Int /\ map[2][c] \in Int =>
               FieldSum(map, c, {1, 2}) = map[1][c] + map[2][c]
  <1>1. FieldSum(map, c, {}) = 0
    BY SumStep, FS_EmptySet
  <1>2. \A x : map[x][c] \in Int => FieldSum(map, c, {x}) = map[x][c]
    <2> SUFFICES ASSUME NEW x, map[x][c] \in Int PROVE FieldSum(map, c, {x}) = map[x][c]
      OBVIOUS
    <2>1. Choice({x}) = x /\ {x} \ {x} = {} /\ {x} # {} /\ IsFiniteSet({x})
      BY Chosen, FS_Singleton
    <2>2. FieldSum(map, c, {x}) = map[x][c] + 0
      BY <1>1, <2>1, SumStep
    <2> QED
      BY <2>2
  <1>3. ASSUME map[1][c] \in Int, map[2][c] \in Int
        PROVE  FieldSum(map, c, {1, 2}) = map[1][c] + map[2][c]
    <2> DEFINE x == Choice({1, 2})
    <2>1. x \in {1, 2} /\ {1, 2} # {}
      BY Chosen
    <2>2. IsFiniteSet({1, 2})
      <3>1. 1..2 = {1, 2} /\ 1 \in Int /\ 2 \in Int
        OBVIOUS
      <3>2. IsFiniteSet(1..2)
        BY <3>1, FS_Interval, Zenon
      <3> QED
        BY <3>1, <3>2, Zenon
    <2>3. FieldSum(map, c, {1, 2}) = map[x][c] + FieldSum(map, c, {1, 2} \ {x})
      BY <2>1, <2>2, SumStep
    <2>4. {1, 2} \ {1} = {2} /\ {1, 2} \ {2} = {1}
      OBVIOUS
    <2> HIDE DEF x
    <2>5. CASE x = 1
      BY <1>2, <1>3, <2>3, <2>4, <2>5
    <2>6. CASE x = 2
      BY <1>2, <1>3, <2>3, <2>4, <2>6
    <2> QED
      BY <2>1, <2>5, <2>6
  <1> QED
    BY <1>2, <1>3

\* The sums of the model are sums of this form.
LEMMA SumsAreFieldSums ==
  /\ \A layout : SizeOf(layout) = FieldSum(layout, 2, DOMAIN layout)
  /\ \A sets : TotalLength(sets) = FieldSum(sets, "length", DOMAIN sets)
  /\ \A sets : TotalWritten(sets) = FieldSum(sets, "written", DOMAIN sets)
  /\ \A sets : MapThenSumSet(LAMBDA i : sets[i].records, DOMAIN sets)
                 = FieldSum(sets, "records", DOMAIN sets)
  BY DEF SizeOf, TotalLength, TotalWritten, MapThenSumSet, MapThenFoldSet,
         FieldSum, SumFcn, Adds, PlusRest, Choice


-----------------------------------------------------------------------------
(* What is in a set *)

\* A set says the length that is written, which is aligned and has at most three
\* bytes of padding.
LEMMA SetFacts ==
  ASSUME NEW kind, NEW id, NEW layout, NEW records, NEW content \in Nat
  PROVE  LET set == Set(kind, id, layout, records, content)
         IN  /\ set.kind = kind /\ set.id = id /\ set.layout = layout /\ set.records = records
             /\ set.length = set.written /\ set.length \in Nat /\ set.length % 4 = 0
             /\ \E pad \in 0..3 : set.length = 4 + content + pad
  <1> DEFINE raw == 4 + content
  <1>1. /\ (raw + Padding(raw)) % 4 = 0 /\ Padding(raw) \in 0..3
        /\ raw + Padding(raw) \in Nat
    BY DEF Padding
  <1> QED
    BY <1>1 DEF Set

\* The struct of every profile has the fields that its template announces, in
\* their order, and the same holds of the options.
LEMMA LayoutsAgree ==
  /\ \A p \in Profiles : RecordFields[p] = TemplateFields[p]
  /\ OptionsRecord = OptionsTemplate
  BY DEF Profiles, RecordFields, TemplateFields, GenericRecord, GenericTemplate, MinimalRecord,
         MinimalTemplate, ExtendedRecord, ExtendedTemplate, IPFIXRecord, IPFIXTemplate,
         OptionsRecord, OptionsTemplate

\* The fields of a record are not empty, and there are seven of them or more.
LEMMA LayoutsHaveFields ==
  ASSUME NEW p \in Profiles
  PROVE  \E n \in 7..19 : /\ DOMAIN RecordFields[p] = 1..n /\ Len(TemplateFields[p]) = n
                          /\ \A i \in 1..n : RecordFields[p][i][2] \in Nat \ {0}
  <1>1. CASE p = "generic"
    <2>1. RecordFields[p] = GenericRecord /\ TemplateFields[p] = GenericTemplate
      BY <1>1 DEF RecordFields, TemplateFields
    <2>2. DOMAIN GenericRecord = 1..18 /\ Len(GenericTemplate) = 18
      BY DEF GenericRecord, GenericTemplate
    <2>3. \A i \in 1..18 : GenericRecord[i][2] \in Nat \ {0}
      BY DEF GenericRecord
    <2> QED
      BY <2>1, <2>2, <2>3
  <1>2. CASE p = "minimal"
    <2>1. RecordFields[p] = MinimalRecord /\ TemplateFields[p] = MinimalTemplate
      BY <1>2 DEF RecordFields, TemplateFields
    <2>2. DOMAIN MinimalRecord = 1..7 /\ Len(MinimalTemplate) = 7
      BY DEF MinimalRecord, MinimalTemplate
    <2>3. \A i \in 1..7 : MinimalRecord[i][2] \in Nat \ {0}
      BY DEF MinimalRecord
    <2> QED
      BY <2>1, <2>2, <2>3
  <1>3. CASE p = "extended"
    <2>1. RecordFields[p] = ExtendedRecord /\ TemplateFields[p] = ExtendedTemplate
      BY <1>3 DEF RecordFields, TemplateFields
    <2>2. DOMAIN ExtendedRecord = 1..15 /\ Len(ExtendedTemplate) = 15
      BY DEF ExtendedRecord, ExtendedTemplate
    <2>3. \A i \in 1..15 : ExtendedRecord[i][2] \in Nat \ {0}
      BY DEF ExtendedRecord
    <2> QED
      BY <2>1, <2>2, <2>3
  <1>4. CASE p = "ipfix"
    <2>1. RecordFields[p] = IPFIXRecord /\ TemplateFields[p] = IPFIXTemplate
      BY <1>4 DEF RecordFields, TemplateFields
    <2>2. DOMAIN IPFIXRecord = 1..19 /\ Len(IPFIXTemplate) = 19
      BY DEF IPFIXRecord, IPFIXTemplate
    <2>3. \A i \in 1..19 : IPFIXRecord[i][2] \in Nat \ {0}
      BY DEF IPFIXRecord
    <2> QED
      BY <2>1, <2>2, <2>3
  <1> QED
    BY <1>1, <1>2, <1>3, <1>4 DEF Profiles

\* A record is longer than the padding of a set can be.
LEMMA RecordsOutweighPadding ==
  ASSUME NEW p \in Profiles
  PROVE  RecordSize[p] \in Nat /\ RecordSize[p] >= 7 /\ RecordSize[p] = SizeOf(RecordFields[p])
  <1>1. PICK n \in 7..19 : /\ DOMAIN RecordFields[p] = 1..n
                           /\ \A i \in 1..n : RecordFields[p][i][2] \in Nat \ {0}
    BY LayoutsHaveFields
  <1>2. IsFiniteSet(1..n) /\ Cardinality(1..n) = n
    <2>1. 1 \in Int /\ n \in Int /\ ~(1 > n) /\ n - 1 + 1 = n
      OBVIOUS
    <2>2. IsFiniteSet(1..n) /\ Cardinality(1..n) = IF 1 > n THEN 0 ELSE n - 1 + 1
      BY <2>1, FS_Interval, Zenon
    <2> QED
      BY <2>1, <2>2
  <1>3. /\ FieldSum(RecordFields[p], 2, 1..n) \in Nat
        /\ FieldSum(RecordFields[p], 2, 1..n) >= n
    BY <1>1, <1>2, SumAtLeast
  <1>4. SizeOf(RecordFields[p]) = FieldSum(RecordFields[p], 2, 1..n)
    BY <1>1, SumsAreFieldSums
  <1> QED
    BY <1>3, <1>4 DEF RecordSize


\* The options record is the observation domain.
LEMMA OptionsSize == SizeOf(OptionsRecord) = 4
  <1>1. DOMAIN OptionsRecord = {1} /\ OptionsRecord[1][2] = 4
    BY DEF OptionsRecord
  <1>2. SizeOf(OptionsRecord) = FieldSum(OptionsRecord, 2, {1})
    BY <1>1, SumsAreFieldSums
  <1> QED
    BY <1>1, <1>2, SumOfFew

\* n records and less than one more divide into n.
LEMMA RecordsDivide ==
  ASSUME NEW n \in Nat, NEW size \in Nat, size >= 7, NEW pad \in 0..3
  PROVE  (n * size + pad) \div size = n /\ n <= n * size /\ n * size \in Nat
  <1>1. n * size \in Nat /\ n <= n * size
    OBVIOUS
  <1>2. (n * size + pad) \div size = n
    OBVIOUS
  <1> QED
    BY <1>1, <1>2

\* The Length of a Data Set tells how many records it has, and a set that fits has
\* fewer than 65535 of them.
LEMMA DataSetFacts ==
  ASSUME NEW p \in Profiles, NEW n \in Nat
  PROVE  /\ DataSet(p, n).kind = "data" /\ DataSet(p, n).id = TemplateID
         /\ DataSet(p, n).layout = RecordFields[p] /\ DataSet(p, n).records = n
         /\ DataSet(p, n).length = DataSet(p, n).written /\ DataSet(p, n).length \in Nat
         /\ DataSet(p, n).length % 4 = 0
         /\ (DataSet(p, n).length - 4) \div SizeOf(RecordFields[p]) = n
         /\ DataSet(p, n).length <= MaxLength => n < 65535
  <1> DEFINE size == RecordSize[p]
  <1>1. size \in Nat /\ size >= 7 /\ size = SizeOf(RecordFields[p])
    BY RecordsOutweighPadding
  <1> HIDE DEF size
  <1>2. n * size \in Nat /\ n <= n * size
    BY <1>1, RecordsDivide
  <1>3. DataSet(p, n) = Set("data", TemplateID, RecordFields[p], n, n * size)
    BY DEF DataSet, size
  <1>4. /\ DataSet(p, n).kind = "data" /\ DataSet(p, n).id = TemplateID
        /\ DataSet(p, n).layout = RecordFields[p] /\ DataSet(p, n).records = n
        /\ DataSet(p, n).length = DataSet(p, n).written /\ DataSet(p, n).length \in Nat
        /\ DataSet(p, n).length % 4 = 0
        /\ \E pad \in 0..3 : DataSet(p, n).length = 4 + n * size + pad
    <2>1. PICK content \in Nat : content = n * size
      BY <1>2
    <2>2. DataSet(p, n) = Set("data", TemplateID, RecordFields[p], n, content)
      BY <1>3, <2>1
    <2>3. PICK set : set = Set("data", TemplateID, RecordFields[p], n, content)
      OBVIOUS
    <2>4. /\ set.kind = "data" /\ set.id = TemplateID
          /\ set.layout = RecordFields[p] /\ set.records = n
          /\ set.length = set.written /\ set.length \in Nat
          /\ set.length % 4 = 0 /\ \E pad \in 0..3 : set.length = 4 + content + pad
      BY <2>3, SetFacts
    <2> QED
      BY <2>1, <2>2, <2>3, <2>4
  <1>5. PICK pad \in 0..3 : DataSet(p, n).length = 4 + n * size + pad
    BY <1>4
  <1>6. DataSet(p, n).length - 4 = n * size + pad
    BY <1>2, <1>5
  <1>7. (n * size + pad) \div size = n
    BY <1>1, RecordsDivide
  <1>8. DataSet(p, n).length <= MaxLength => n < 65535
    <2>1. \A a \in Nat : n <= a /\ 4 + a + pad <= 65535 => n < 65535
      OBVIOUS
    <2> QED
      BY <1>2, <1>5, <2>1 DEF MaxLength
  <1> QED
    BY <1>1, <1>4, <1>6, <1>7, <1>8

\* The other sets have one record each and are short.
LEMMA OtherSetFacts ==
  ASSUME NEW p \in Profiles, NEW set \in {TemplateSet(p), OptionsTemplateSet, OptionsDataSet}
  PROVE  /\ set.records = 1 /\ set.length = set.written /\ set.length \in Nat
         /\ set.length % 4 = 0 /\ set.length <= 100
  <1>1. PICK n \in 7..19 : Len(TemplateFields[p]) = n
    BY LayoutsHaveFields
  <1>2. CASE set = TemplateSet(p)
    <2>1. 4 + 4 * n \in Nat /\ \A pad \in 0..3 : 4 + (4 + 4 * n) + pad <= 100
      OBVIOUS
    <2>2. set = Set("template", TemplateID, TemplateFields[p], 1, 4 + 4 * n)
      BY <1>1, <1>2 DEF TemplateSet
    <2> QED
      BY <2>1, <2>2, SetFacts
  <1>3. CASE set = OptionsTemplateSet
    <2>1. set = Set("template", OptionsTemplateID, OptionsTemplate, 1, 10)
      BY <1>3 DEF OptionsTemplateSet, OptionsTemplate
    <2>2. \A pad \in 0..3 : 4 + 10 + pad <= 100
      OBVIOUS
    <2> QED
      BY <2>1, <2>2, SetFacts
  <1>4. CASE set = OptionsDataSet
    <2>1. SizeOf(OptionsRecord) = 4
      BY OptionsSize
    <2>2. set = Set("data", OptionsTemplateID, OptionsRecord, 1, 4)
      BY <1>4, <2>1 DEF OptionsDataSet
    <2>3. \A pad \in 0..3 : 4 + 4 + pad <= 100
      OBVIOUS
    <2> QED
      BY <2>2, <2>3, SetFacts
  <1> QED
    BY <1>2, <1>3, <1>4


-----------------------------------------------------------------------------
(* Which packets a stream consists of *)

\* Packet m is one of those the generators make: templates, the options, records, or
\* records behind their template.
Made(m) ==
    \/ m.sets = TemplateSets /\ m.flowCount = 1
    \/ IsIPFIX /\ m.sets = <<OptionsDataSet>>
    \/ \E n \in FlowCounts :
          /\ m.sets = <<DataSet(profile, n)>> /\ m.flowCount = n % 65536
          /\ Fits(m.sets)
    \/ \E n \in FlowCounts :
          /\ command = "api"
          /\ m.sets = <<TemplateSet(profile), DataSet(profile, n)>> /\ m.flowCount = (n + 1) % 65536
          /\ Fits(m.sets)

\* Everything sent or waiting is such a packet.
MadeInv ==
    \A w \in Senders :
        /\ \A k \in DOMAIN stream[w] : Made(stream[w][k])
        /\ pending[w] # <<>> => Made(Head(pending[w]))

\* The stream of a command begins with its templates, and only IPFIX has options.
TemplatesFirst ==
    \A w \in Senders :
        /\ spc[w] = "options" => IsIPFIX
        /\ command # "api" =>
              /\ stream[w] # <<>> => stream[w][1].sets = TemplateSets
              /\ stream[w] = <<>> => spc[w] \in {"template", "done"}
              /\ stream[w] = <<>> /\ pending[w] # <<>> => Head(pending[w]).sets = TemplateSets

\* The inductive invariant of the contents.
ContentInv == MadeInv /\ TemplatesFirst


\* Which packets may be made is fixed with the command and the profile.
LEMMA SameMade ==
  ASSUME UNCHANGED <<command, profile>>
  PROVE  /\ \A m : Made(m)' <=> Made(m)
         /\ TemplateSets' = TemplateSets /\ IsIPFIX' = IsIPFIX
  <1>1. IsIPFIX' = IsIPFIX /\ TemplateSets' = TemplateSets /\ FlowCounts' = FlowCounts
    BY DEF IsIPFIX, TemplateSets, FlowCounts
  <1>2. \A sets : Fits(sets)' <=> Fits(sets)
    BY <1>1 DEF Fits, HeaderSize
  <1> QED
    BY <1>1, <1>2 DEF Made

\* A packet that is made is one of those.
LEMMA MakeContent ==
  ASSUME TypeOK, ContentInv, NEW w \in Senders, NEW sets, NEW flowCount, NEW n,
         pending[w] = <<>>, Make(w, sets, flowCount, n),
         \A m : m.sets = sets /\ m.flowCount = flowCount % 65536 => Made(m),
         command # "api" /\ stream[w] = <<>> => sets = TemplateSets
  PROVE  ContentInv'
  <1>1. PICK m : m = Message(IF IsIPFIX THEN counter[w] ELSE counter'[w], flowCount, sets, n)
    OBVIOUS
  <1>2. /\ UNCHANGED <<command, profile, spc, stream>>
        /\ pending' = [pending EXCEPT ![w] = <<m>>]
    BY <1>1 DEF Make, ForWorker
  <1>3. m.sets = sets /\ Made(m) /\ <<m>> # <<>> /\ Head(<<m>>) = m
    BY <1>1 DEF Message
  <1>4. /\ \A k : Made(k)' <=> Made(k)
        /\ TemplateSets' = TemplateSets /\ IsIPFIX' = IsIPFIX
    BY <1>2, SameMade
  <1>5. ASSUME NEW v \in Senders
        PROVE  \/ v = w /\ pending'[v] = <<m>>
               \/ v # w /\ pending'[v] = pending[v]
    BY <1>2 DEF TypeOK
  <1>6. MadeInv'
    BY <1>2, <1>3, <1>4, <1>5 DEF ContentInv, MadeInv
  <1>7. TemplatesFirst'
    BY <1>2, <1>3, <1>4, <1>5 DEF ContentInv, TemplatesFirst
  <1> QED
    BY <1>6, <1>7 DEF ContentInv

\* Sending a packet puts it behind those sent, and the first behind nothing.
LEMMA SendContent ==
  ASSUME TypeOK, ContentInv, NEW w \in Senders, Send(w)
  PROVE  ContentInv'
  <1> DEFINE m == Head(pending[w])
             s == stream[w]
  <1>1. /\ UNCHANGED <<command, profile>>
        /\ pending' = [pending EXCEPT ![w] = <<>>]
        /\ stream' = [stream EXCEPT ![w] = Append(s, m)]
        /\ spc' = [spc EXCEPT ![w] = AfterSend(w)]
        /\ pending[w] # <<>>
    BY DEF Send
  <1>2. /\ \A k : Made(k)' <=> Made(k)
        /\ TemplateSets' = TemplateSets /\ IsIPFIX' = IsIPFIX
    BY <1>1, SameMade
  <1>3. s \in Seq(Packets) /\ m \in Packets
    BY <1>1 DEF TypeOK
  <1>4. /\ Append(s, m) # <<>> /\ Len(s) \in Nat
        /\ DOMAIN Append(s, m) = 1..(Len(s) + 1) /\ DOMAIN s = 1..Len(s)
        /\ Append(s, m)[Len(s) + 1] = m
        /\ \A k \in 1..Len(s) : Append(s, m)[k] = s[k]
        /\ s = <<>> => Append(s, m)[1] = m
        /\ s # <<>> => Append(s, m)[1] = s[1]
    <2>1. s # <<>> => 1 \in 1..Len(s)
      BY <1>3
    <2>2. s = <<>> => Len(s) + 1 = 1
      OBVIOUS
    <2> HIDE DEF s, m
    <2>3. /\ Append(s, m) # <<>> /\ Len(s) \in Nat
          /\ DOMAIN Append(s, m) = 1..(Len(s) + 1) /\ DOMAIN s = 1..Len(s)
          /\ Append(s, m)[Len(s) + 1] = m
          /\ \A k \in 1..Len(s) : Append(s, m)[k] = s[k]
      BY <1>3
    <2> QED
      BY <2>1, <2>2, <2>3
  <1>5. ASSUME NEW v \in Senders
        PROVE  \/ /\ v = w /\ pending'[v] = <<>> /\ stream'[v] = Append(s, m)
                  /\ spc'[v] = AfterSend(w)
               \/ v # w /\ pending'[v] = pending[v] /\ stream'[v] = stream[v] /\ spc'[v] = spc[v]
    BY <1>1 DEF TypeOK
  <1>6. Made(m) /\ \A k \in 1..Len(s) : Made(s[k])
    BY <1>1, <1>4 DEF ContentInv, MadeInv
  <1>7. /\ command # "api" /\ s # <<>> => s[1].sets = TemplateSets
        /\ command # "api" /\ s = <<>> => m.sets = TemplateSets
    BY <1>1 DEF ContentInv, TemplatesFirst
  <1>8. AfterSend(w) = "options" => IsIPFIX
    BY DEF AfterSend
  <1>9. \A k \in DOMAIN Append(s, m) : Made(Append(s, m)[k])
    <2> SUFFICES ASSUME NEW k \in 1..(Len(s) + 1) PROVE Made(Append(s, m)[k])
      BY <1>4
    <2>1. k \in 1..Len(s) \/ k = Len(s) + 1
      BY <1>4
    <2> HIDE DEF s, m
    <2> QED
      BY <1>4, <1>6, <2>1
  <1> HIDE DEF s, m
  <1>10. MadeInv'
    BY <1>2, <1>5, <1>9 DEF ContentInv, MadeInv
  <1>11. TemplatesFirst'
    BY <1>1, <1>2, <1>4, <1>5, <1>7, <1>8 DEF ContentInv, TemplatesFirst
  <1> QED
    BY <1>10, <1>11 DEF ContentInv

\* Losing a packet, leaving and going on after a failure make none.
LEMMA LeaveContent ==
  ASSUME TypeOK, ContentInv, NEW w \in Senders,
         spc' = [spc EXCEPT ![w] = "done"] \/ spc' = spc,
         pending' = [pending EXCEPT ![w] = <<>>] \/ pending' = pending,
         UNCHANGED <<command, profile, stream>>
  PROVE  ContentInv'
  <1>1. /\ \A k : Made(k)' <=> Made(k)
        /\ TemplateSets' = TemplateSets /\ IsIPFIX' = IsIPFIX
    BY SameMade
  <1>2. ASSUME NEW v \in Senders
        PROVE  /\ pending'[v] = pending[v] \/ pending'[v] = <<>>
               /\ spc'[v] = spc[v] \/ spc'[v] = "done"
    BY DEF TypeOK
  <1>3. MadeInv'
    BY <1>1, <1>2 DEF ContentInv, MadeInv
  <1>4. TemplatesFirst'
    BY <1>1, <1>2 DEF ContentInv, TemplatesFirst
  <1> QED
    BY <1>3, <1>4 DEF ContentInv


\* Streams begin empty.
LEMMA InitContent == Init => ContentInv
  <1> SUFFICES ASSUME Init, NEW w \in Senders
               PROVE  /\ stream[w] = <<>> /\ pending[w] = <<>> /\ DOMAIN <<>> = {}
                      /\ spc[w] # "options"
                      /\ command # "api" => spc[w] \in {"template", "done"}
    BY DEF ContentInv, MadeInv, TemplatesFirst
  <1> QED
    BY DEF Init

\* Each step of a sender keeps to these packets.
LEMMA NextContent == TypeOK /\ ContentInv /\ [Next]_vars => ContentInv'
  <1> SUFFICES ASSUME TypeOK, ContentInv, [Next]_vars PROVE ContentInv'
    OBVIOUS
  <1>1. CASE UNCHANGED vars
    <2>1. \A k : Made(k)' <=> Made(k)
      BY <1>1, SameMade DEF vars
    <2>2. TemplateSets' = TemplateSets /\ IsIPFIX' = IsIPFIX
      BY <1>1, SameMade DEF vars
    <2> QED
      BY <1>1, <2>1, <2>2 DEF vars, ContentInv, MadeInv, TemplatesFirst
  <1>2. ASSUME NEW w \in Senders, MakeTemplate(w)
        PROVE  ContentInv'
    <2>1. pending[w] = <<>> /\ Make(w, TemplateSets, 1, 0)
      BY <1>2 DEF MakeTemplate, Idle
    <2>2. \A m : m.sets = TemplateSets /\ m.flowCount = 1 % 65536 => Made(m)
      BY DEF Made
    <2> QED
      BY <2>1, <2>2, MakeContent
  <1>3. ASSUME NEW w \in Senders, MakeOptions(w)
        PROVE  ContentInv'
    <2>1. /\ pending[w] = <<>> /\ Make(w, <<OptionsDataSet>>, 1, 1)
          /\ spc[w] = "options" \/ (spc[w] = "loop" /\ IsIPFIX)
      BY <1>3 DEF MakeOptions, Idle
    <2>2. /\ IsIPFIX
          /\ command # "api" => stream[w] # <<>>
      BY <2>1 DEF ContentInv, TemplatesFirst
    <2>3. \A m : m.sets = <<OptionsDataSet>> => Made(m)
      BY <2>2 DEF Made
    <2> QED
      BY <2>1, <2>2, <2>3, MakeContent
  <1>4. ASSUME NEW w \in Senders, Idle(w, "loop")
        PROVE  /\ pending[w] = <<>> /\ (command # "api" => stream[w] # <<>>)
               /\ GenerateFails(w) => ContentInv'
    <2>1. pending[w] = <<>> /\ spc[w] = "loop"
      BY <1>4 DEF Idle
    <2>2. command # "api" => stream[w] # <<>>
      BY <2>1 DEF ContentInv, TemplatesFirst
    <2>3. ASSUME GenerateFails(w) PROVE ContentInv'
      BY <2>3, LeaveContent DEF GenerateFails
    <2> QED
      BY <2>1, <2>2, <2>3
  <1>5. ASSUME NEW w \in Senders, MakeData(w)
        PROVE  ContentInv'
    <2>1. ASSUME NEW n \in FlowCounts, Fits(<<DataSet(profile, n)>>),
                 Make(w, <<DataSet(profile, n)>>, n, n)
          PROVE  ContentInv'
      <3>1. \A m : m.sets = <<DataSet(profile, n)>> /\ m.flowCount = n % 65536 => Made(m)
        BY <2>1 DEF Made
      <3> QED
        BY <1>4, <1>5, <2>1, <3>1, MakeContent DEF MakeData
    <2> QED
      BY <1>4, <1>5, <2>1 DEF MakeData
  <1>6. ASSUME NEW w \in Senders, MakeCombined(w)
        PROVE  ContentInv'
    <2>1. ASSUME NEW n \in FlowCounts, Fits(<<TemplateSet(profile), DataSet(profile, n)>>),
                 Make(w, <<TemplateSet(profile), DataSet(profile, n)>>, n + 1, n)
          PROVE  ContentInv'
      <3>1. command = "api"
        BY <1>6 DEF MakeCombined
      <3>2. \A m : /\ m.sets = <<TemplateSet(profile), DataSet(profile, n)>>
                   /\ m.flowCount = (n + 1) % 65536
                   => Made(m)
        BY <2>1, <3>1 DEF Made
      <3> QED
        BY <1>4, <1>6, <2>1, <3>1, <3>2, MakeContent DEF MakeCombined
    <2> QED
      BY <1>4, <1>6, <2>1 DEF MakeCombined
  <1>7. ASSUME NEW w \in Senders, SendFails(w) \/ Leave(w)
        PROVE  ContentInv'
    BY <1>7, LeaveContent DEF SendFails, Leave
  <1> QED
    BY <1>1, <1>2, <1>3, <1>5, <1>6, <1>7, SendContent DEF Next

\* The sets of a packet that was made.
LEMMA SetsMade ==
  ASSUME NEW m, Made(m), NEW j \in DOMAIN m.sets
  PROVE  \/ m.sets[j] = TemplateSet(profile)
         \/ IsIPFIX /\ m.sets[j] \in {OptionsTemplateSet, OptionsDataSet}
         \/ \E n \in FlowCounts :
               /\ m.sets[j] = DataSet(profile, n)
               /\ DataSet(profile, n).length <= MaxLength
  <1>1. CASE m.sets = TemplateSets
    <2>1. \/ j = 1 /\ m.sets[j] = TemplateSet(profile)
          \/ IsIPFIX /\ j = 2 /\ m.sets[j] = OptionsTemplateSet
      BY <1>1 DEF TemplateSets
    <2> QED
      BY <2>1
  <1>2. CASE IsIPFIX /\ m.sets = <<OptionsDataSet>>
    BY <1>2
  <1>3. ASSUME NEW n \in FlowCounts, m.sets = <<DataSet(profile, n)>>, Fits(m.sets)
        PROVE  m.sets[j] = DataSet(profile, n) /\ DataSet(profile, n).length <= MaxLength
    <2>1. j = 1 /\ m.sets[j] = DataSet(profile, n)
      BY <1>3
    <2> QED
      BY <1>3, <2>1 DEF Fits
  <1>4. ASSUME NEW n \in FlowCounts, m.sets = <<TemplateSet(profile), DataSet(profile, n)>>,
               Fits(m.sets)
        PROVE  \/ m.sets[j] = TemplateSet(profile)
               \/ m.sets[j] = DataSet(profile, n) /\ DataSet(profile, n).length <= MaxLength
    <2>1. \/ j = 1 /\ m.sets[j] = TemplateSet(profile)
          \/ j = 2 /\ m.sets[j] = DataSet(profile, n)
      BY <1>4
    <2> QED
      BY <1>4, <2>1 DEF Fits
  <1> QED
    BY <1>1, <1>2, <1>3, <1>4 DEF Made


\* The records of the sets of a packet, which a NetFlow header counts.
Records(sets) == FieldSum(sets, "records", DOMAIN sets)

\* What a header has to say, in these terms.
LEMMA HeaderMeaning ==
  ASSUME NEW m
  PROVE  HeaderTrue(m) <=> IF IsIPFIX THEN HeaderSize + TotalWritten(m.sets) <= MaxLength
                           ELSE m.flowCount = Records(m.sets)
  <1>1. MapThenSumSet(LAMBDA i : m.sets[i].records, DOMAIN m.sets) = Records(m.sets)
    BY DEF Records, MapThenSumSet, MapThenFoldSet, FieldSum, SumFcn, Adds, PlusRest, Choice
  <1> QED
    BY <1>1 DEF HeaderTrue

\* The totals of a packet of one or two sets.
LEMMA TotalsOfFew ==
  ASSUME NEW a, NEW b,
         a.length \in Nat, a.written \in Nat, a.records \in Nat,
         b.length \in Nat, b.written \in Nat, b.records \in Nat
  PROVE  /\ TotalLength(<<a>>) = a.length /\ TotalWritten(<<a>>) = a.written
         /\ Records(<<a>>) = a.records
         /\ TotalLength(<<a, b>>) = a.length + b.length
         /\ TotalWritten(<<a, b>>) = a.written + b.written
         /\ Records(<<a, b>>) = a.records + b.records
  <1>1. /\ DOMAIN <<a>> = {1} /\ <<a>>[1] = a
        /\ DOMAIN <<a, b>> = {1, 2} /\ <<a, b>>[1] = a /\ <<a, b>>[2] = b
    OBVIOUS
  <1>2. ASSUME NEW c, a[c] \in Int, b[c] \in Int
        PROVE  /\ FieldSum(<<a>>, c, {1}) = a[c]
               /\ FieldSum(<<a, b>>, c, {1, 2}) = a[c] + b[c]
    <2>1. PICK one : one = <<a>>
      OBVIOUS
    <2>2. PICK two : two = <<a, b>>
      OBVIOUS
    <2>3. one[1] = a /\ two[1] = a /\ two[2] = b
      BY <1>1, <2>1, <2>2
    <2>4. FieldSum(one, c, {1}) = a[c] /\ FieldSum(two, c, {1, 2}) = a[c] + b[c]
      BY <1>2, <2>3, SumOfFew
    <2> QED
      BY <2>1, <2>2, <2>4
  <1>3. /\ a["length"] \in Int /\ a["written"] \in Int /\ a["records"] \in Int
        /\ b["length"] \in Int /\ b["written"] \in Int /\ b["records"] \in Int
    OBVIOUS
  <1>4. TotalLength(<<a>>) = a.length /\ TotalLength(<<a, b>>) = a.length + b.length
    BY <1>1, <1>2, <1>3, SumsAreFieldSums
  <1>5. TotalWritten(<<a>>) = a.written /\ TotalWritten(<<a, b>>) = a.written + b.written
    BY <1>1, <1>2, <1>3, SumsAreFieldSums
  <1>6. Records(<<a>>) = a.records /\ Records(<<a, b>>) = a.records + b.records
    BY <1>1, <1>2, <1>3 DEF Records
  <1> QED
    BY <1>4, <1>5, <1>6

\* The header of a packet that was made counts what is in it.
LEMMA MadeHeaderTrue ==
  ASSUME TypeOK, NEW m, Made(m)
  PROVE  HeaderTrue(m)
  <1> DEFINE t == TemplateSet(profile)
  <1>1. /\ t.records = 1 /\ t.length = t.written /\ t.length \in Nat /\ t.length <= 100
        /\ OptionsTemplateSet.records = 1 /\ OptionsTemplateSet.length = OptionsTemplateSet.written
        /\ OptionsTemplateSet.length \in Nat /\ OptionsTemplateSet.length <= 100
        /\ OptionsDataSet.records = 1 /\ OptionsDataSet.length = OptionsDataSet.written
        /\ OptionsDataSet.length \in Nat /\ OptionsDataSet.length <= 100
    BY OtherSetFacts DEF TypeOK
  <1>2. ASSUME NEW n \in FlowCounts
        PROVE  /\ n \in Nat /\ DataSet(profile, n).records = n
               /\ DataSet(profile, n).length = DataSet(profile, n).written
               /\ DataSet(profile, n).length \in Nat
               /\ DataSet(profile, n).length <= MaxLength => n < 65535
    BY <1>2, DataSetFacts, FlowCountsAreNumbers DEF TypeOK
  <1>3. 1 \in Nat
    OBVIOUS
  <1> HIDE DEF t
  <1>4. CASE m.sets = TemplateSets /\ m.flowCount = 1
    <2>1. CASE IsIPFIX
      <3>1. m.sets = <<t, OptionsTemplateSet>>
        BY <1>4, <2>1 DEF TemplateSets, t
      <3>2. TotalWritten(m.sets) = t.written + OptionsTemplateSet.written
        BY <1>1, <1>3, <3>1, TotalsOfFew
      <3> QED
        BY <1>1, <2>1, <3>2, HeaderMeaning DEF HeaderSize, MaxLength
    <2>2. CASE ~IsIPFIX
      <3>1. m.sets = <<t>>
        BY <1>4, <2>2 DEF TemplateSets, t
      <3>2. Records(<<t>>) = 1
        BY <1>1, <1>3, TotalsOfFew
      <3> QED
        BY <1>4, <2>2, <3>1, <3>2, HeaderMeaning
    <2> QED
      BY <2>1, <2>2
  <1>5. CASE IsIPFIX /\ m.sets = <<OptionsDataSet>>
    <2>1. TotalWritten(m.sets) = OptionsDataSet.written
      BY <1>1, <1>3, <1>5, TotalsOfFew
    <2> QED
      BY <1>1, <1>5, <2>1, HeaderMeaning DEF HeaderSize, MaxLength
  <1>6. ASSUME NEW n \in FlowCounts, m.sets = <<DataSet(profile, n)>>, m.flowCount = n % 65536,
               Fits(m.sets)
        PROVE  HeaderTrue(m)
    <2>0. PICK d : d = DataSet(profile, n)
      OBVIOUS
    <2>1. /\ n \in Nat /\ d.records = n /\ d.length = d.written /\ d.length \in Nat
          /\ d.length <= MaxLength => n < 65535
      BY <1>2, <2>0
    <2>2. d.length <= MaxLength
      <3>1. 1 \in DOMAIN m.sets /\ m.sets[1] = d
        BY <1>6, <2>0
      <3> QED
        BY <1>6, <3>1 DEF Fits
    <2>3. m.sets = <<d>>
      BY <1>6, <2>0
    <2>4. TotalLength(<<d>>) = d.length /\ TotalWritten(<<d>>) = d.written /\ Records(<<d>>) = n
      <3>1. d.length \in Nat /\ d.written \in Nat /\ d.records \in Nat
        BY <2>1
      <3>2. /\ TotalLength(<<d>>) = d.length /\ TotalWritten(<<d>>) = d.written
            /\ Records(<<d>>) = d.records
        BY <3>1, TotalsOfFew, Zenon
      <3> QED
        BY <2>1, <3>2
    <2>5. CASE IsIPFIX
      BY <1>6, <2>1, <2>3, <2>4, <2>5, HeaderMeaning DEF Fits
    <2>6. CASE ~IsIPFIX
      <3>1. n % 65536 = n
        BY <2>1, <2>2
      <3> QED
        BY <1>6, <2>3, <2>4, <2>6, <3>1, HeaderMeaning
    <2> QED
      BY <2>5, <2>6
  <1>7. ASSUME NEW n \in FlowCounts, m.sets = <<t, DataSet(profile, n)>>,
               m.flowCount = (n + 1) % 65536, Fits(m.sets)
        PROVE  HeaderTrue(m)
    <2>0. PICK d : d = DataSet(profile, n)
      OBVIOUS
    <2>1. /\ n \in Nat /\ d.records = n /\ d.length = d.written /\ d.length \in Nat
          /\ d.length <= MaxLength => n < 65535
      BY <1>2, <2>0
    <2>2. d.length <= MaxLength
      <3>1. 2 \in DOMAIN m.sets /\ m.sets[2] = d
        BY <1>7, <2>0
      <3> QED
        BY <1>7, <3>1 DEF Fits
    <2>3. m.sets = <<t, d>>
      BY <1>7, <2>0
    <2>4. /\ TotalLength(<<t, d>>) = t.length + d.length
          /\ TotalWritten(<<t, d>>) = t.written + d.written
          /\ Records(<<t, d>>) = 1 + n
      <3>1. d.length \in Nat /\ d.written \in Nat /\ d.records \in Nat
        BY <2>1
      <3>2. t.length \in Nat /\ t.written \in Nat /\ t.records \in Nat
        BY <1>1
      <3>3. /\ TotalLength(<<t, d>>) = t.length + d.length
            /\ TotalWritten(<<t, d>>) = t.written + d.written
            /\ Records(<<t, d>>) = t.records + d.records
        BY <3>1, <3>2, TotalsOfFew, Zenon
      <3>4. t.records + d.records = 1 + n
        BY <1>1, <2>1
      <3> QED
        BY <3>3, <3>4
    <2>5. CASE IsIPFIX
      BY <1>1, <1>7, <2>1, <2>3, <2>4, <2>5, HeaderMeaning DEF Fits
    <2>6. CASE ~IsIPFIX
      <3>1. (n + 1) % 65536 = 1 + n
        BY <2>1, <2>2
      <3> QED
        BY <1>7, <2>3, <2>4, <2>6, <3>1, HeaderMeaning
    <2> QED
      BY <2>5, <2>6
  <1> QED
    BY <1>4, <1>5, <1>6, <1>7 DEF Made, t


\* Records read back by the templates a collector knows: those of the profile, and
\* for IPFIX those of the options, both of which came first.
LEMMA MadeReadsBack ==
  ASSUME TypeOK, ContentInv, command # "api",
         NEW w \in Senders, NEW k \in DOMAIN stream[w], NEW j \in DOMAIN stream[w][k].sets,
         stream[w][k].sets[j].kind = "data"
  PROVE  ReadsBack(stream[w][k].sets[j], Known(stream[w], k))
  <1> DEFINE s == stream[w]
             set == s[k].sets[j]
             t == TemplateSet(profile)
  <1>1. s \in Seq(Packets) /\ DOMAIN s = 1..Len(s) /\ Len(s) \in Nat /\ k \in 1..Len(s) /\ s # <<>>
    BY DEF TypeOK
  <1>2. /\ t.kind = "template" /\ t.id = TemplateID /\ t.layout = RecordFields[profile]
        /\ OptionsTemplateSet.kind = "template" /\ OptionsTemplateSet.id = OptionsTemplateID
        /\ OptionsTemplateSet.layout = OptionsRecord
        /\ OptionsDataSet.kind = "data" /\ OptionsDataSet.id = OptionsTemplateID
        /\ OptionsDataSet.layout = OptionsRecord
    BY LayoutsAgree DEF TypeOK, TemplateSet, OptionsTemplateSet, OptionsDataSet, Set
  <1>3. /\ t \in Known(s, k)
        /\ IsIPFIX => OptionsTemplateSet \in Known(s, k)
    <2>1. s[1].sets = TemplateSets /\ 1 \in 1..k
      BY <1>1 DEF ContentInv, TemplatesFirst
    <2>2. /\ 1 \in DOMAIN TemplateSets /\ TemplateSets[1] = t
          /\ IsIPFIX => 2 \in DOMAIN TemplateSets /\ TemplateSets[2] = OptionsTemplateSet
      BY DEF TemplateSets
    <2> HIDE DEF t
    <2> QED
      BY <1>2, <2>1, <2>2 DEF Known
  <1>4. ASSUME NEW u \in Known(s, k)
        PROVE  u = t \/ u = OptionsTemplateSet
    <2>1. u.kind = "template"
      BY DEF Known
    <2>2. PICK i \in 1..k : u \in {s[i].sets[l] : l \in DOMAIN s[i].sets}
      BY DEF Known
    <2>3. PICK l \in DOMAIN s[i].sets : u = s[i].sets[l]
      BY <2>2
    <2>4. i \in DOMAIN s
      BY <1>1
    <2>5. Made(s[i])
      BY <2>4 DEF ContentInv, MadeInv
    <2>6. \/ u = t \/ u \in {OptionsTemplateSet, OptionsDataSet}
          \/ \E n \in FlowCounts : u = DataSet(profile, n)
      BY <2>3, <2>5, SetsMade
    <2>7. \A n \in FlowCounts : DataSet(profile, n).kind = "data"
      BY DataSetFacts, FlowCountsAreNumbers DEF TypeOK
    <2> QED
      BY <1>2, <2>1, <2>6, <2>7
  <1>5. Made(s[k])
    BY DEF ContentInv, MadeInv
  <1>6. \/ set = t
        \/ IsIPFIX /\ set \in {OptionsTemplateSet, OptionsDataSet}
        \/ \E n \in FlowCounts : set = DataSet(profile, n)
    BY <1>5, SetsMade
  <1>7. set.kind = "data"
    OBVIOUS
  <1>8. TemplateID # OptionsTemplateID
    BY DEF TemplateID, OptionsTemplateID
  <1> HIDE DEF set, t, s
  <1>9. CASE IsIPFIX /\ set = OptionsDataSet
    <2>1. \A u \in Known(s, k) : u.id = set.id => u = OptionsTemplateSet
      BY <1>2, <1>4, <1>8, <1>9
    <2>2. (set.length - 4) \div SizeOf(OptionsRecord) = set.records
      <3>1. Padding(8) = 0
        BY DEF Padding
      <3>2. OptionsDataSet.length = 8 /\ OptionsDataSet.records = 1
        BY <3>1, OptionsSize DEF OptionsDataSet, Set
      <3>3. (8 - 4) \div 4 = 1
        OBVIOUS
      <3> QED
        BY <1>9, <3>2, <3>3, OptionsSize
    <2> QED
      BY <1>2, <1>3, <1>9, <2>1, <2>2 DEF ReadsBack, s, set
  <1>10. ASSUME NEW n \in FlowCounts, set = DataSet(profile, n)
         PROVE  ReadsBack(set, Known(s, k))
    <2>1. /\ set.id = TemplateID /\ set.layout = RecordFields[profile] /\ set.records = n
          /\ (set.length - 4) \div SizeOf(RecordFields[profile]) = n
      <3>1. profile \in Profiles /\ n \in Nat
        BY FlowCountsAreNumbers DEF TypeOK
      <3>2. PICK d : d = DataSet(profile, n)
        OBVIOUS
      <3>3. /\ d.id = TemplateID /\ d.layout = RecordFields[profile] /\ d.records = n
            /\ (d.length - 4) \div SizeOf(RecordFields[profile]) = n
        BY <3>1, <3>2, DataSetFacts
      <3>4. set = d
        BY <1>10, <3>2
      <3> QED
        BY <3>3, <3>4
    <2>2. \A u \in Known(s, k) : u.id = set.id => u = t
      BY <1>2, <1>4, <1>8, <2>1
    <2> QED
      BY <1>2, <1>3, <2>1, <2>2 DEF ReadsBack
  <1> QED
    BY <1>2, <1>6, <1>7, <1>9, <1>10 DEF s, set

\* Every packet sent can be read, whatever the numbers of flows asked for: its header
\* is true, its sets are as long as they say, and a collector that follows the stream
\* of a command gets the records back (Exporter.Readable).
THEOREM EveryPacketReadable == Spec => []Readable
  <1>1. TypeOK /\ ContentInv => Readable
    <2> SUFFICES ASSUME TypeOK, ContentInv, NEW w \in Senders, NEW k \in DOMAIN stream[w]
                 PROVE  /\ HeaderTrue(stream[w][k])
                        /\ \A j \in DOMAIN stream[w][k].sets :
                              LET set == stream[w][k].sets[j] IN
                              /\ set.length = set.written /\ set.length % 4 = 0
                              /\ set.length <= MaxLength
                              /\ command # "api" /\ set.kind = "data" =>
                                    ReadsBack(set, Known(stream[w], k))
      BY DEF Readable
    <2>1. Made(stream[w][k])
      BY DEF ContentInv, MadeInv
    <2>2. HeaderTrue(stream[w][k])
      BY <2>1, MadeHeaderTrue
    <2>3. ASSUME NEW j \in DOMAIN stream[w][k].sets
          PROVE  /\ stream[w][k].sets[j].length = stream[w][k].sets[j].written
                 /\ stream[w][k].sets[j].length % 4 = 0
                 /\ stream[w][k].sets[j].length <= MaxLength
      <3> DEFINE set == stream[w][k].sets[j]
      <3>1. \/ set \in {TemplateSet(profile), OptionsTemplateSet, OptionsDataSet}
            \/ \E n \in FlowCounts : set = DataSet(profile, n) /\ set.length <= MaxLength
        BY <2>1, SetsMade
      <3> HIDE DEF set
      <3>2. CASE set \in {TemplateSet(profile), OptionsTemplateSet, OptionsDataSet}
        <4>1. /\ set.length = set.written /\ set.length \in Nat /\ set.length % 4 = 0
              /\ set.length <= 100
          BY <3>2, OtherSetFacts DEF TypeOK
        <4> QED
          BY <4>1 DEF MaxLength, set
      <3>3. ASSUME NEW n \in FlowCounts, set = DataSet(profile, n), set.length <= MaxLength
            PROVE  set.length = set.written /\ set.length % 4 = 0
        BY <3>3, DataSetFacts, FlowCountsAreNumbers DEF TypeOK
      <3> QED
        BY <3>1, <3>2, <3>3 DEF set
    <2> QED
      BY <2>2, <2>3, MadeReadsBack
  <1>2. TypeOK /\ ContentInv /\ [Next]_vars => ContentInv'
    BY NextContent
  <1>3. Spec => []ContentInv
    BY <1>2, InitContent, TypeCorrect, PTL DEF Spec
  <1> QED
    BY <1>1, <1>3, TypeCorrect, PTL
=============================================================================
