------------------------------- MODULE Relay -------------------------------
(***************************************************************************)
(* What the TCP forwarder promises, without goroutines, buffers or         *)
(* sockets: two byte streams are relayed in opposite directions.  Each     *)
(* direction delivers a growing part of what its sender sent, counts it,   *)
(* breaks off once, and is given a verdict.  When both have one, a single  *)
(* report is made, and nothing it says changes afterwards.                 *)
(*                                                                         *)
(* ProxyTCP is shown to implement this specification (ImplementsRelay).    *)
(* A direction is named by its sender; a byte is its position.             *)
(***************************************************************************)
EXTENDS Integers, Sequences

Ends == {"client", "target"}

\* The end that receives what d sends.
Receiver(d) == IF d = "client" THEN "target" ELSE "client"

VARIABLES
    cap,        \* bytes of each direction the report may hold
    started,    \* both ends are connected
    sent,       \* bytes each end has sent
    fin,        \* ends that have finished sending
    reset,      \* ends that have reset their connection
    delivered,  \* bytes of each direction that reached the receiver
    counted,    \* bytes of each direction the relay accounts for
    broken,     \* directions in which nothing is relayed any more
    verdict,    \* how each direction ended
    report      \* the reports made

relayVars == <<cap, started, sent, fin, reset, delivered, counted, broken,
               verdict, report>>
endsFrame == <<cap, started, delivered, counted, broken, verdict, report>>

Init ==
    /\ cap \in Nat
    /\ started = FALSE
    /\ sent = [d \in Ends |-> 0]
    /\ fin = [d \in Ends |-> FALSE]
    /\ reset = [d \in Ends |-> FALSE]
    /\ delivered = [d \in Ends |-> 0]
    /\ counted = [d \in Ends |-> 0]
    /\ broken = [d \in Ends |-> FALSE]
    /\ verdict = [d \in Ends |-> "none"]
    /\ report = <<>>

-----------------------------------------------------------------------------
Sends(d) ==
    /\ ~fin[d] /\ ~reset[d]
    /\ sent' = [sent EXCEPT ![d] = @ + 1]
    /\ UNCHANGED <<endsFrame, fin, reset>>

Finishes(d) ==
    /\ ~fin[d] /\ ~reset[d]
    /\ fin' = [fin EXCEPT ![d] = TRUE]
    /\ UNCHANGED <<endsFrame, sent, reset>>

Resets(d) ==
    /\ ~reset[d]
    /\ reset' = [reset EXCEPT ![d] = TRUE]
    /\ UNCHANGED <<endsFrame, sent, fin>>

Connect ==
    /\ ~started /\ report = <<>>
    /\ started' = TRUE
    /\ UNCHANGED <<cap, sent, fin, reset, delivered, counted, broken,
                   verdict, report>>

\* The next bytes of a direction arrive, and are counted as they do.
Deliver(d) ==
    /\ started /\ ~broken[d] /\ ~reset[Receiver(d)]
    /\ \E n \in 1..(sent[d] - delivered[d]) :
        /\ delivered' = [delivered EXCEPT ![d] = @ + n]
        /\ counted' = [counted EXCEPT ![d] = @ + n]
    /\ UNCHANGED <<cap, started, sent, fin, reset, broken, verdict, report>>

\* A direction ends; the last bytes to get through may go uncounted.
Break(d) ==
    /\ started /\ ~broken[d]
    /\ \E n \in 0..(sent[d] - delivered[d]) :
        delivered' = [delivered EXCEPT ![d] = @ + n]
    /\ broken' = [broken EXCEPT ![d] = TRUE]
    /\ UNCHANGED <<cap, started, sent, fin, reset, counted, verdict, report>>

\* "complete" promises that everything its sender ever sent was delivered
\* and counted; "failed" is an end only a reset explains.
Judge(d) ==
    /\ broken[d] /\ verdict[d] = "none"
    /\ \E v \in {"complete", "cut", "failed"} :
        /\ v = "complete" => /\ fin[d]
                             /\ delivered[d] = sent[d]
                             /\ counted[d] = sent[d]
        /\ v = "failed" => \E e \in Ends : reset[e]
        /\ verdict' = [verdict EXCEPT ![d] = v]
    /\ UNCHANGED <<cap, started, sent, fin, reset, delivered, counted,
                   broken, report>>

\* What the report holds of direction d: the first bytes the cap allows, the
\* count, and whether there was more.
Entry(d) ==
    LET n == IF counted[d] <= cap THEN counted[d] ELSE cap IN
    IF n = 0
    THEN <<>>
    ELSE <<[dir |-> d, payload |-> [i \in 1..n |-> i], bytes |-> counted[d],
            truncated |-> counted[d] > n]>>

\* The only report: after a failed start, or once both verdicts are in.
MakeReport ==
    /\ report = <<>>
    /\ started => \A d \in Ends : verdict[d] # "none"
    /\ \E d \in Ends : report' = <<Entry(d) \o Entry(Receiver(d))>>
    /\ UNCHANGED <<cap, started, sent, fin, reset, delivered, counted,
                   broken, verdict>>

Next ==
    \/ \E d \in Ends : \/ Sends(d) \/ Finishes(d) \/ Resets(d)
                       \/ Deliver(d) \/ Break(d) \/ Judge(d)
    \/ Connect
    \/ MakeReport

Spec == Init /\ [][Next]_relayVars
=============================================================================
