----------------------------- MODULE MCProxyTCP -----------------------------
(* Small instances of ProxyTCP for TLC. *)
EXTENDS ProxyTCP

\* A session that captures at most one byte per direction.  Every behaviour
\* without an idle timeout is also one with it, so for safety one suffices.
CaptureSessions ==
    [producer : {TRUE}, idleTimeout : {TRUE}, payloadSize : {1}]

\* The client sends enough to be read in several chunks and exceed the cap.
CaptureBytes == [client |-> 2, target |-> 1]

\* For termination the sample does not matter, the idle timeout does.
EndingSessions ==
    [producer : {FALSE}, idleTimeout : BOOLEAN, payloadSize : {1}]

\* One direction can block in a Write, the other only in a Read.
EndingBytes == [client |-> 1, target |-> 0]
=============================================================================
