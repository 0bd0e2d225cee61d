------------------------------ MODULE MCProxy ------------------------------
(* Model-checking instance of Proxy: a value that a .cfg cannot write.      *)
EXTENDS Proxy

MCTargets == <<"t1", "t2">>
=============================================================================
