-------------------------- MODULE MCIPFIXValidator --------------------------
(* Model-checking instance of IPFIXValidator.                               *)
EXTENDS IPFIXValidator

\* Payloads around every boundary of a message with room for two Sets.
MCLengths == {0, 15} \cup 16..34

\* Every length and small count, the version, and one value of each class of
\* the other words: Set and Template IDs, and an enterprise bit.
MCWords == 0..16 \cup MCLengths \cup {255, 256, 32768}
=============================================================================
