--------------------------- MODULE MCSpicyWorker ----------------------------
(* A small instance of SpicyWorker for TLC. *)
EXTENDS SpicyWorker

MCParsers == {"p1", "p2", "p3"}
TwoCleaners == {"c1", "c2"}
=============================================================================
