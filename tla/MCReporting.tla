---------------------------- MODULE MCReporting ----------------------------
(* A small instance of Reporting for TLC. *)
EXTENDS Reporting

CONSTANTS a, b

\* A TCP session and a packet with the same bytes, and a Telnet sample.
MCInfo ==
    [tcp1 |-> [kind |-> "tcp", payload |-> a],
     udp1 |-> [kind |-> "udp", payload |-> a],
     get1 |-> [kind |-> "sample", payload |-> b]]

\* Both sinks, the collector alone with a private source, and no producer.
MCSetups ==
    {[producer |-> TRUE, hpfeeds |-> TRUE, http |-> TRUE,
      private |-> {}],
     [producer |-> TRUE, hpfeeds |-> FALSE, http |-> TRUE,
      private |-> {"udp1"}],
     [producer |-> FALSE, hpfeeds |-> FALSE, http |-> FALSE,
      private |-> {}]}
=============================================================================
