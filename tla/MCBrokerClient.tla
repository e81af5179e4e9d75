-------------------------- MODULE MCBrokerClient ---------------------------
(* BrokerClient on small instances. *)
EXTENDS BrokerClient

\* Each outage costs a connection, the first one and an early publish one more.
Dials == 1 .. MaxOutages + 2
=============================================================================
