----------------------------- MODULE RecordLog -----------------------------
(***************************************************************************)
(* What `flowgre record` promises of its database, whatever its pipeline   *)
(* does: an append-only log of valid flow packets in the order they came   *)
(* off the wire, which no restart rewrites and which holds at most MaxKey  *)
(* records.  Record implements it.                                         *)
(***************************************************************************)
EXTENDS Naturals, Sequences

CONSTANT MaxKey
VARIABLES
    log,    \* the stored packets, by key
    seen    \* every valid packet that has arrived, by arrival number

vars == <<log, seen>>

Init == log = <<>> /\ seen = {}

\* A packet arrives: its number is larger than every earlier one.
Arrive ==
    /\ \E p \in seen' : seen' = seen \cup {p} /\ \A q \in seen : q < p
    /\ UNCHANGED log

\* A packet that arrived is stored behind everything stored before it.
Store(p) ==
    /\ p \in seen
    /\ Len(log) < MaxKey
    /\ \A k \in DOMAIN log : log[k] < p
    /\ log' = Append(log, p)
    /\ UNCHANGED seen

Next == Arrive \/ \E p \in seen : Store(p)

Spec == Init /\ [][Next]_vars
=============================================================================
