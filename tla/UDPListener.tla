---------------------------- MODULE UDPListener ----------------------------
(***************************************************************************)
(* The UDP receive loop that record and proxy share, line for line up to   *)
(* the statement that hands the packet on: bind, register an AfterFunc     *)
(* that moves the read deadline to now when the context ends, then         *)
(*   check ctx -> SetReadDeadline(now + 5s) -> ReadFromUDP -> deliver.     *)
(* The AfterFunc runs on a goroutine of its own, so its SetReadDeadline    *)
(* can land between the check and the loop's own SetReadDeadline, which    *)
(* then overwrites it: the wake-up is lost and only the five-second        *)
(* deadline (or a packet) ends the read.                                   *)
(*                                                                         *)
(* Packets are numbered 1, 2, ... in the order ReadFromUDP returns them.   *)
(***************************************************************************)
EXTENDS Errgroup, Naturals

CONSTANT MaxPackets         \* bound: packets the network delivers
ASSUME MaxPacketsAssumption == MaxPackets \in Nat

VARIABLES
    lpc,        \* where the loop is
    deadline,   \* the socket's read deadline: "future" or "past"
    wakeup,     \* the AfterFunc: "unset", "armed" or "fired"
    lheld,      \* the packet read and not yet handed on, or NoPacket
    arrived,    \* number of packets read so far
    flows       \* which of them are valid NetFlow v9 or IPFIX packets

listenerVars == <<lpc, deadline, wakeup, lheld>>
netVars == <<arrived, flows>>

NoPacket == 0

\* A packet is held exactly while it is being handed on, and it has arrived.
ListenerTypeOK ==
    /\ lpc \in {"bind", "check", "arm", "read", "deliver", "done"}
    /\ deadline \in {"future", "past"}
    /\ wakeup \in {"unset", "armed", "fired"}
    /\ arrived \in 0..MaxPackets
    /\ lheld \in 0..arrived /\ (lheld # NoPacket <=> lpc = "deliver")
    /\ flows \subseteq 1..arrived

ListenerInit ==
    /\ lpc = "bind"
    /\ deadline = "future"
    /\ wakeup = "unset"
    /\ lheld = NoPacket

NetInit == arrived = 0 /\ flows = {}

ListenerReturns ==
    /\ lpc' = "done"
    /\ lheld' = NoPacket
    /\ Return("listener")
    /\ UNCHANGED <<deadline, wakeup>>

ListenerFails ==
    /\ lpc' = "done"
    /\ Fail("listener")
    /\ UNCHANGED <<deadline, wakeup, lheld>>

\* net.ListenUDP succeeds and the AfterFunc is registered, or it fails.
ListenerBind ==
    /\ lpc = "bind"
    /\ \/ /\ lpc' = "check"
          /\ wakeup' = "armed"
          /\ UNCHANGED <<deadline, lheld, groupVars>>
       \/ ListenerFails

\* The AfterFunc's goroutine: conn.SetReadDeadline(time.Now()).
Wakeup ==
    /\ wakeup = "armed"
    /\ cancelled
    /\ lpc # "done"
    /\ wakeup' = "fired"
    /\ deadline' = "past"
    /\ UNCHANGED <<lpc, lheld, groupVars>>

\* select { case <-ctx.Done(): return nil; default: ... }
ListenerCheck ==
    /\ lpc = "check"
    /\ \/ cancelled /\ ListenerReturns
       \/ /\ ~cancelled
          /\ lpc' = "arm"
          /\ UNCHANGED <<deadline, wakeup, lheld, groupVars>>

\* conn.SetReadDeadline(time.Now().Add(5 * time.Second))
ListenerArm ==
    /\ lpc = "arm"
    /\ deadline' = "future"
    /\ lpc' = "read"
    /\ UNCHANGED <<wakeup, lheld, groupVars>>

\* The read returned a timeout: leave if the context ended, else loop.
AfterTimeout ==
    \/ cancelled /\ ListenerReturns
    \/ /\ ~cancelled
       /\ lpc' = "check"
       /\ UNCHANGED <<deadline, wakeup, lheld, groupVars>>

\* The AfterFunc moved the deadline while the loop was reading.
ReadWoken == lpc = "read" /\ deadline = "past" /\ AfterTimeout

\* Mutant of ReadTimeout: the loop reads without a deadline of its own and
\* counts on the AfterFunc alone.
ReadWithoutDeadline == FALSE /\ AfterTimeout

\* Five seconds passed without a packet.
ReadTimeout == lpc = "read" /\ deadline = "future" /\ AfterTimeout

\* Any other socket error ends the listener, with nil if the context ended.
ReadError ==
    /\ lpc = "read"
    /\ \/ cancelled /\ ListenerReturns
       \/ ~cancelled /\ ListenerFails

\* ReadFromUDP returns the next packet; the network decides what it is.
Receive ==
    /\ lpc = "read"
    /\ arrived < MaxPackets
    /\ arrived' = arrived + 1
    /\ flows' \in {flows, flows \cup {arrived + 1}}
    /\ lheld' = arrived + 1
    /\ lpc' = "deliver"
    /\ UNCHANGED <<deadline, wakeup, groupVars>>

\* The steps the loop takes by itself: neither a packet nor an error of the
\* socket is needed for them.
ListenerProgress ==
    \/ ListenerBind
    \/ ListenerCheck
    \/ ListenerArm
    \/ ReadWoken
    \/ ReadTimeout

\* The steps of the loop that read no packet and deliver none.
ListenerStep == ListenerProgress \/ ReadError
=============================================================================
