----------------------------- MODULE LossyRelay -----------------------------
(***************************************************************************)
(* What `flowgre proxy` promises each of its targets: a relay that may     *)
(* lose packets but never invents, duplicates or reorders one, and in      *)
(* which the targets do not affect each other.  Proxy implements it.       *)
(***************************************************************************)
EXTENDS Naturals, Sequences

CONSTANT TargetSet
VARIABLES
    seen,   \* every valid packet that has arrived, by arrival number
    out     \* what each target has been sent, in order

vars == <<seen, out>>

Init == seen = {} /\ out = [t \in TargetSet |-> <<>>]

\* A packet arrives: its number is larger than every earlier one.
Arrive ==
    /\ \E p \in seen' : seen' = seen \cup {p} /\ \A q \in seen : q < p
    /\ UNCHANGED out

\* Target t is sent a packet that is newer than all it was sent before.
Relay(t, p) ==
    /\ p \in seen
    /\ \A i \in DOMAIN out[t] : out[t][i] < p
    /\ out' = [out EXCEPT ![t] = Append(@, p)]
    /\ UNCHANGED seen

Next == Arrive \/ \E t \in TargetSet, p \in seen : Relay(t, p)

Spec == Init /\ [][Next]_vars
=============================================================================
