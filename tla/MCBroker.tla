------------------------------ MODULE MCBroker ------------------------------
(* An instance of Broker for TLC: two callers that share one broker object *)
(* and two faults.                                                         *)
EXTENDS Broker, TLC

CONSTANTS w1, w2
=============================================================================
