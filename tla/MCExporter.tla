----------------------------- MODULE MCExporter -----------------------------
(* Model-checking instance of Exporter.                                     *)
EXTENDS Exporter

CONSTANTS w1, w2

MCSenders == {w1, w2}

\* Two sizes of a worker's packet, different modulo 4 and not zero.
MCBarrageCounts == {5, 23}

\* No record and one; on both sides of the largest set of each profile (789 for
\* ipfix, 885 generic, 1394 extended, 3120 minimal) and of the largest IPFIX
\* message with a template (788).
MCAPICounts == {0, 1, 788, 789, 790, 885, 886, 1394, 1395, 3120, 3121}
=============================================================================
