---------------------------- MODULE MCRuntimeConfig ----------------------------
(* RuntimeConfig for TLC, with the defaults of Kconfig. *)
EXTENDS RuntimeConfig

TwoStages == <<"rest1", "rest2">>

KconfigSample == [s \in {"rest1", "rest2"} |-> IF s = "rest1" THEN 40 ELSE 100]

KconfigDownshift == [s \in {"rest1", "rest2"} |-> IF s = "rest1" THEN 5000 ELSE 17000]
=============================================================================
