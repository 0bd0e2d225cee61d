------------------------- MODULE MCNetFlowValidator -------------------------
(* Model-checking instance of NetFlowValidator.                             *)
EXTENDS NetFlowValidator

\* Payloads too short for a header, and around the ends of packets with Data
\* FlowSets before, between and after templates.
MCLengths == {0, 19, 20, 22} \cup 24..27 \cup 31..36 \cup {40, 42}

\* Lengths of sets, small counts, the version, and one value of each class of
\* IDs, with two templates.
MCWords == 0..12 \cup {14, 16, 255, 256, 257}

\* None, and those that fill a FlowSet with padding in one or several ways.
MCFieldLengths == {0, 1, 2, 5}
=============================================================================
