------------------------------ MODULE ProxyTCP ------------------------------
(***************************************************************************)
(* One session of the TCP forwarder, protocols/tcp/proxy_tcp.go:           *)
(* HandleProxyTCP dials the upstream of the matched rule, starts one pipe  *)
(* goroutine per direction and a watcher that closes both sockets when the *)
(* context is cancelled, waits for both pipes, and then unwinds its        *)
(* deferred calls: stop the watcher, close the target, produce the event,  *)
(* close the client.                                                       *)
(*                                                                         *)
(* A connection is named by the process at its far end.  The direction of  *)
(* a pipe is named by its source connection, so pipe "client" copies       *)
(* client -> target.  A byte is its position in the stream its sender      *)
(* wrote.  Both sockets are *net.TCPConn in this program (Accept and       *)
(* DialContext "tcp"), so CloseRead and CloseWrite always exist and Write  *)
(* never returns a short count without an error: the fallbacks for other   *)
(* net.Conn implementations are dead code here.                            *)
(***************************************************************************)
EXTENDS Integers, Sequences, FiniteSets

CONSTANTS
    Sessions,   \* the session configurations a handler may run with
    MaxBytes    \* bound: bytes each peer sends during the session

ASSUME SessionsAssumption ==
    Sessions \subseteq [producer : BOOLEAN, idleTimeout : BOOLEAN,
                        payloadSize : Int]

Conns == {"client", "target"}

ASSUME MaxBytesAssumption == MaxBytes \in [Conns -> Nat]

\* The connection a pipe writes to, given the one it reads from.
Dst(c) == IF c = "client" THEN "target" ELSE "client"

\* Errors a pipe can end with.  "nil" also stands for io.EOF, which io.Copy
\* turns into nil.
Errors == {"nil", "closed", "timeout", "reset", "notconn", "pipe"}

\* expectedPipeError: what logResult files under Debug rather than Error.
expectedPipeError(err) == err \in {"nil", "closed", "timeout", "notconn"}

VARIABLES
    session,    \* the session struct
    hasTarget,  \* md.Rule and its ProxyTarget are present
    cancelled,  \* ctx.Done() is closed
    hpc,        \* control state of HandleProxyTCP
    fd,         \* each socket: "none" before the dial, "open", "closed"
    readShut,   \* CloseRead succeeded on the socket
    writeShut,  \* CloseWrite succeeded on the socket
    sent,       \* bytes the far end has sent on the connection
    fin,        \* the far end has finished sending
    rst,        \* the far end has reset the connection
    ppc,        \* control state of each pipe goroutine
    nread,      \* bytes the pipe has read from its source
    chunk,      \* size of the io.Copy buffer's content, not yet written
    fwd,        \* bytes the destination socket has accepted
    written,    \* writer.written
    payload,    \* writer.payload
    perr,       \* the pipe's err
    done,       \* the buffered channel of pipeResults
    results,    \* what pipeBothWays has received
    wpc,        \* control state of the cancel watcher
    stop,       \* the watcher's done channel is closed
    events      \* what was handed to ProduceTCP

sockVars == <<fd, readShut, writeShut>>
peerVars == <<sent, fin, rst>>
copyVars == <<nread, chunk, fwd, written, payload>>
pipeVars == <<ppc, perr, copyVars>>
handlerVars == <<hpc, results, events, stop>>
inputVars == <<session, hasTarget>>
vars == <<inputVars, cancelled, handlerVars, sockVars, peerVars, pipeVars,
          done, wpc>>

\* What the steps of each actor leave alone.
peerFrame == <<inputVars, cancelled, handlerVars, sockVars, pipeVars, done,
               wpc>>
copyFrame == <<inputVars, cancelled, handlerVars, sockVars, peerVars, done,
               wpc>>
shutFrame == <<inputVars, cancelled, handlerVars, fd, peerVars, copyVars,
               done, wpc>>
watcherFrame == <<inputVars, cancelled, handlerVars, readShut, writeShut,
                  peerVars, pipeVars, done>>
handlerFrame == <<inputVars, cancelled, readShut, writeShut, peerVars, perr,
                  copyVars>>

-----------------------------------------------------------------------------
(* Captured samples. *)

Least(m, n) == IF m <= n THEN m ELSE n

\* The n bytes that follow position k of a stream.
Bytes(k, n) == [i \in 1..n |-> k + i]

\* Mutant: the last chunk is not trimmed to the room that remains.
storePayload_Untrimmed(s, sample, p) ==
    IF ~s.producer \/ s.payloadSize <= 0 \/ Len(sample) >= s.payloadSize
    THEN sample
    ELSE sample \o p

\* writer.storePayload: append the written bytes while the sample is short.
storePayload(s, sample, p) ==
    IF ~s.producer \/ s.payloadSize <= 0 \/ Len(sample) >= s.payloadSize
    THEN sample
    ELSE sample \o SubSeq(p, 1, Least(Len(p), s.payloadSize - Len(sample)))

\* writer.event, as the sequence of zero or one capture entries it yields.
event(c) ==
    IF ~session.producer \/ payload[c] = <<>>
    THEN <<>>
    ELSE <<[dir |-> c, payload |-> payload[c], bytes |-> written[c],
            truncated |-> written[c] > Len(payload[c])]>>

\* Mutant: only the first pipe to finish is reported.
eventsFromResults_First(rs) == IF rs = <<>> THEN <<>> ELSE rs[1].event

\* eventsFromResults, over the two results pipeBothWays returns.
eventsFromResults(rs) ==
    IF rs = <<>> THEN <<>> ELSE rs[1].event \o rs[2].event

-----------------------------------------------------------------------------
Init ==
    /\ session \in Sessions
    /\ hasTarget \in BOOLEAN
    /\ cancelled = FALSE
    /\ hpc = "enter"
    /\ fd = [c \in Conns |-> IF c = "client" THEN "open" ELSE "none"]
    /\ readShut = [c \in Conns |-> FALSE]
    /\ writeShut = [c \in Conns |-> FALSE]
    /\ sent = [c \in Conns |-> 0]
    /\ fin = [c \in Conns |-> FALSE]
    /\ rst = [c \in Conns |-> FALSE]
    /\ ppc = [c \in Conns |-> "off"]
    /\ nread = [c \in Conns |-> 0]
    /\ chunk = [c \in Conns |-> 0]
    /\ fwd = [c \in Conns |-> 0]
    /\ written = [c \in Conns |-> 0]
    /\ payload = [c \in Conns |-> <<>>]
    /\ perr = [c \in Conns |-> "nil"]
    /\ done = <<>>
    /\ results = <<>>
    /\ wpc = "off"
    /\ stop = FALSE
    /\ events = <<>>

-----------------------------------------------------------------------------
(* The far ends and the context. *)

\* Bytes sent after the pipe stopped reading are never seen: not modelled.
PeerSend(c) ==
    /\ fd[c] = "open" /\ ~fin[c] /\ ~rst[c]
    /\ sent[c] < MaxBytes[c]
    /\ ppc[c] \in {"off", "read", "write", "blocked"}
    /\ sent' = [sent EXCEPT ![c] = @ + 1]
    /\ UNCHANGED <<peerFrame, fin, rst>>

PeerFin(c) ==
    /\ fd[c] = "open" /\ ~fin[c] /\ ~rst[c]
    /\ fin' = [fin EXCEPT ![c] = TRUE]
    /\ UNCHANGED <<peerFrame, sent, rst>>

PeerReset(c) ==
    /\ fd[c] = "open" /\ ~rst[c]
    /\ rst' = [rst EXCEPT ![c] = TRUE]
    /\ UNCHANGED <<peerFrame, sent, fin>>

\* The far end's receive window fills up under a Write, or opens again.
PeerStall(c) ==
    /\ \/ ppc[Dst(c)] = "write" /\ ppc' = [ppc EXCEPT ![Dst(c)] = "blocked"]
       \/ ppc[Dst(c)] = "blocked" /\ ppc' = [ppc EXCEPT ![Dst(c)] = "write"]
    /\ UNCHANGED <<copyFrame, perr, copyVars>>

\* Glutton.Shutdown calls g.cancel().
Cancel ==
    /\ ~cancelled
    /\ cancelled' = TRUE
    /\ UNCHANGED <<inputVars, handlerVars, sockVars, peerVars, pipeVars,
                   done, wpc>>

-----------------------------------------------------------------------------
(* A pipe goroutine: io.Copy(writer, reader), finishWriteSide(dst),        *)
(* finishReadSide(src), and the send on done.                              *)

\* io.Copy returns with err.
copyEnds(c, err) ==
    /\ ppc' = [ppc EXCEPT ![c] = "finishWrite"]
    /\ perr' = [perr EXCEPT ![c] = err]
    /\ chunk' = [chunk EXCEPT ![c] = 0]

\* reader.Read returns n > 0 bytes.
ReadData(c) ==
    /\ ppc[c] = "read" /\ fd[c] = "open" /\ ~readShut[c]
    /\ \E n \in 1..(sent[c] - nread[c]) :
        /\ nread' = [nread EXCEPT ![c] = @ + n]
        /\ chunk' = [chunk EXCEPT ![c] = n]
    /\ ppc' = [ppc EXCEPT ![c] = "write"]
    /\ UNCHANGED <<copyFrame, fwd, written, payload, perr>>

\* reader.Read fails with err: io.Copy ends.
readFails(c, err) ==
    /\ ppc[c] = "read"
    /\ copyEnds(c, err)
    /\ UNCHANGED <<copyFrame, nread, fwd, written, payload>>

\* The far end has finished and everything it sent was read (or the read
\* side was shut): io.EOF, which io.Copy turns into nil.
atEOF(c) ==
    /\ fd[c] = "open" /\ ~rst[c]
    /\ (fin[c] /\ nread[c] = sent[c]) \/ readShut[c]

\* Mutant: reader.Read wraps io.EOF like any other error.
ReadEOF_Wrapped(c) == atEOF(c) /\ readFails(c, "EOF")

ReadEOF(c) == atEOF(c) /\ readFails(c, "nil")

\* The socket was closed under the Read, or the far end reset it.
ReadBroken(c) ==
    \/ fd[c] = "closed" /\ readFails(c, "closed")
    \/ fd[c] = "open" /\ rst[c] /\ readFails(c, "reset")

\* Mutant: the read deadline is never set.
ReadTimesOut_NoDeadline(c) == FALSE

\* The idle deadline, renewed before every Read, passes.
ReadTimesOut(c) ==
    /\ fd[c] = "open" /\ ~rst[c] /\ ~fin[c] /\ ~readShut[c]
    /\ nread[c] = sent[c]
    /\ session.idleTimeout
    /\ readFails(c, "timeout")

\* writer.Write hands the whole chunk to the destination: only then are the
\* bytes counted and sampled.
WriteAll(c) ==
    LET d == Dst(c) IN
    /\ ppc[c] = "write"
    /\ fd[d] = "open" /\ ~rst[d] /\ ~writeShut[d]
    /\ fwd' = [fwd EXCEPT ![c] = @ + chunk[c]]
    /\ written' = [written EXCEPT ![c] = @ + chunk[c]]
    /\ payload' = [payload EXCEPT ![c] =
           storePayload(session, @, Bytes(nread[c] - chunk[c], chunk[c]))]
    /\ chunk' = [chunk EXCEPT ![c] = 0]
    /\ ppc' = [ppc EXCEPT ![c] = "read"]
    /\ UNCHANGED <<copyFrame, nread, perr>>

\* writer.Write fails: after n of the chunk's bytes reached the destination
\* it returns before it counts or samples them, so counted is 0.
writeFails(c, counted) ==
    LET d == Dst(c) IN
    /\ ppc[c] \in {"write", "blocked"}
    /\ \E n \in 0..(chunk[c] - 1) : fwd' = [fwd EXCEPT ![c] = @ + n]
    /\ written' = [written EXCEPT ![c] = @ + counted]
    /\ \/ fd[d] = "closed" /\ copyEnds(c, "closed")
       \/ fd[d] = "open" /\ rst[d] /\ copyEnds(c, "reset")
       \/ fd[d] = "open" /\ ~rst[d] /\ writeShut[d] /\ copyEnds(c, "pipe")
       \/ /\ fd[d] = "open" /\ ~rst[d] /\ ~writeShut[d]
          /\ ppc[c] = "blocked"
          /\ session.idleTimeout
          /\ copyEnds(c, "timeout")
    /\ UNCHANGED <<copyFrame, nread, payload>>

\* Mutant: the whole chunk is counted before the error is looked at.
WriteFails_Counted(c) == writeFails(c, chunk[c])

WriteFails(c) == writeFails(c, 0)

\* Shutting down one side of socket s: a closed socket is ignored, a dead
\* connection reports ENOTCONN (kept only as a first error), any other is
\* shut.  Both directions being over may already have killed the connection.
shutdownSide(c, s, side, shut) ==
    \/ /\ fd[s] = "closed"
       /\ UNCHANGED <<side, perr>>
    \/ /\ fd[s] = "open"
       /\ rst[s] \/ (fin[s] /\ writeShut[s])
       /\ perr' = [perr EXCEPT ![c] = IF @ = "nil" THEN "notconn" ELSE @]
       /\ UNCHANGED side
    \/ /\ fd[s] = "open" /\ ~rst[s]
       /\ shut
       /\ UNCHANGED perr

\* finishWriteSide on socket s, at the end of pipe c.
finishWrite(c, s) ==
    /\ ppc[c] = "finishWrite"
    /\ shutdownSide(c, s, writeShut,
                    writeShut' = [writeShut EXCEPT ![s] = TRUE])
    /\ ppc' = [ppc EXCEPT ![c] = "finishRead"]
    /\ UNCHANGED <<shutFrame, readShut>>

\* Mutant: the write side of the source is shut.
FinishWriteSide_Src(c) == finishWrite(c, c)

FinishWriteSide(c) == finishWrite(c, Dst(c))

\* finishReadSide on socket s, at the end of pipe c.
finishRead(c, s) ==
    /\ ppc[c] = "finishRead"
    /\ shutdownSide(c, s, readShut, readShut' = [readShut EXCEPT ![s] = TRUE])
    /\ ppc' = [ppc EXCEPT ![c] = "report"]
    /\ UNCHANGED <<shutFrame, writeShut>>

\* Mutant: the read side of the destination is shut.
FinishReadSide_Dst(c) == finishRead(c, Dst(c))

FinishReadSide(c) == finishRead(c, c)

\* done <- pipeResult{...}; the channel holds two results, so this never
\* blocks.
Report(c) ==
    /\ ppc[c] = "report"
    /\ Len(done) < 2
    /\ done' = Append(done, [dir |-> c, bytes |-> written[c],
                             event |-> event(c), err |-> perr[c]])
    /\ ppc' = [ppc EXCEPT ![c] = "exited"]
    /\ UNCHANGED <<handlerFrame, fd, wpc, handlerVars>>

PipeStep(c) ==
    \/ ReadData(c) \/ ReadEOF(c) \/ ReadBroken(c) \/ ReadTimesOut(c)
    \/ WriteAll(c) \/ WriteFails(c)
    \/ FinishWriteSide(c) \/ FinishReadSide(c)
    \/ Report(c)

-----------------------------------------------------------------------------
(* The watcher goroutine of stopProxyOnCancel. *)

closeConn(c) == fd' = [fd EXCEPT ![c] = "closed"]

\* Mutant: the watcher closes the client only.
WatcherCancel_ClientOnly ==
    /\ wpc = "select" /\ cancelled
    /\ closeConn("client")
    /\ wpc' = "exited"
    /\ UNCHANGED watcherFrame

\* select: both channels may be ready, either case may be taken.
WatcherCancel ==
    /\ wpc = "select" /\ cancelled
    /\ closeConn("client")
    /\ wpc' = "closeTarget"
    /\ UNCHANGED watcherFrame

WatcherCloseTarget ==
    /\ wpc = "closeTarget"
    /\ closeConn("target")
    /\ wpc' = "exited"
    /\ UNCHANGED watcherFrame

WatcherStopped ==
    /\ wpc = "select" /\ stop
    /\ wpc' = "exited"
    /\ UNCHANGED <<watcherFrame, fd>>

WatcherStep == WatcherCancel \/ WatcherCloseTarget \/ WatcherStopped

-----------------------------------------------------------------------------
(* HandleProxyTCP itself. *)

\* The early returns for missing rule metadata only close the client.
Enter ==
    /\ hpc = "enter"
    /\ hpc' = IF hasTarget THEN "dial" ELSE "closeClient"
    /\ UNCHANGED <<handlerFrame, results, events, stop, fd, ppc, done, wpc>>

\* DialContext succeeds; the watcher and both pipes are started.
DialSucceeds ==
    /\ hpc = "dial"
    /\ fd' = [fd EXCEPT !["target"] = "open"]
    /\ wpc' = "select"
    /\ ppc' = [c \in Conns |-> "read"]
    /\ hpc' = "receive"
    /\ UNCHANGED <<handlerFrame, results, events, stop, done>>

dialFails(next) ==
    /\ hpc = "dial"
    /\ hpc' = next
    /\ UNCHANGED <<handlerFrame, results, events, stop, fd, ppc, done, wpc>>

\* Mutant: the event is deferred only once the dial has succeeded.
DialFails_NoEvent == dialFails("closeClient")

\* DialContext fails: refused, timed out or cancelled.
DialFails == dialFails("produce")

\* pipeBothWays takes the next result and returns after the second.
ReceiveResult ==
    /\ hpc = "receive" /\ done # <<>>
    /\ results' = Append(results, Head(done))
    /\ done' = Tail(done)
    /\ hpc' = IF Len(results') = 2 THEN "stopWatcher" ELSE "receive"
    /\ UNCHANGED <<handlerFrame, events, stop, fd, ppc, wpc>>

stopWatcher(closed) ==
    /\ hpc = "stopWatcher"
    /\ stop' = closed
    /\ hpc' = "closeTarget"
    /\ UNCHANGED <<handlerFrame, results, events, fd, ppc, done, wpc>>

\* Mutant: stopCancelWatcher is not deferred.
StopWatcher_Forgotten == stopWatcher(FALSE)

StopWatcher == stopWatcher(TRUE)

closeTarget(from, next) ==
    /\ hpc = from
    /\ closeConn("target")
    /\ hpc' = next
    /\ UNCHANGED <<handlerFrame, results, events, stop, ppc, done, wpc>>

\* Mutant: the target may be closed while pipeBothWays still waits.
CloseTarget_Early ==
    closeTarget("closeTarget", "produce") \/ closeTarget("receive", "receive")

CloseTarget == closeTarget("closeTarget", "produce")

\* ProduceTCP; an error of the producer is only logged.
Produce ==
    /\ hpc = "produce"
    /\ events' = Append(events, IF session.producer
                                THEN eventsFromResults(results) ELSE <<>>)
    /\ hpc' = "closeClient"
    /\ UNCHANGED <<handlerFrame, results, stop, fd, ppc, done, wpc>>

CloseClient ==
    /\ hpc = "closeClient"
    /\ closeConn("client")
    /\ hpc' = "returned"
    /\ UNCHANGED <<handlerFrame, results, events, stop, ppc, done, wpc>>

HandlerStep ==
    \/ Enter \/ DialSucceeds \/ DialFails \/ ReceiveResult
    \/ StopWatcher \/ CloseTarget \/ Produce \/ CloseClient

-----------------------------------------------------------------------------
PeerStep(c) == PeerSend(c) \/ PeerFin(c) \/ PeerReset(c) \/ PeerStall(c)

\* The session is over and every goroutine it started has ended.
Ended ==
    /\ hpc = "returned"
    /\ wpc \in {"off", "exited"}
    /\ cancelled
    /\ UNCHANGED vars

Next ==
    \/ \E c \in Conns : PeerStep(c) \/ PipeStep(c)
    \/ WatcherStep
    \/ HandlerStep
    \/ Cancel
    \/ Ended

\* The Go scheduler runs every goroutine that can run.  Nothing is assumed
\* of the far ends, nor that anyone ever cancels.
Fairness ==
    /\ WF_vars(HandlerStep)
    /\ WF_vars(WatcherStep)
    /\ \A c \in Conns : WF_vars(PipeStep(c))

Spec == Init /\ [][Next]_vars /\ Fairness

-----------------------------------------------------------------------------
(* Properties. *)

PipeStates == {"off", "read", "write", "blocked", "finishWrite",
               "finishRead", "report", "exited"}
HandlerStates == {"enter", "dial", "receive", "stopWatcher", "closeTarget",
                  "produce", "closeClient", "returned"}
Captures == [dir : Conns, payload : Seq(Nat), bytes : Nat,
             truncated : BOOLEAN]
Results == [dir : Conns, bytes : Nat, event : Seq(Captures), err : Errors]

\* Every variable has its type: the counters of the writer are natural
\* numbers and channels hold pipeResults.
TypeOK ==
    /\ session \in Sessions
    /\ hasTarget \in BOOLEAN
    /\ cancelled \in BOOLEAN
    /\ hpc \in HandlerStates
    /\ fd \in [Conns -> {"none", "open", "closed"}]
    /\ readShut \in [Conns -> BOOLEAN]
    /\ writeShut \in [Conns -> BOOLEAN]
    /\ sent \in [Conns -> Nat]
    /\ fin \in [Conns -> BOOLEAN]
    /\ rst \in [Conns -> BOOLEAN]
    /\ ppc \in [Conns -> PipeStates]
    /\ nread \in [Conns -> Nat]
    /\ chunk \in [Conns -> Nat]
    /\ fwd \in [Conns -> Nat]
    /\ written \in [Conns -> Nat]
    /\ payload \in [Conns -> Seq(Nat)]
    /\ perr \in [Conns -> Errors]
    /\ done \in Seq(Results)
    /\ results \in Seq(Results)
    /\ wpc \in {"off", "select", "closeTarget", "exited"}
    /\ stop \in BOOLEAN
    /\ events \in Seq(Seq(Captures))

\* What the captured sample of a direction must be: the longest prefix of
\* the counted bytes that max_tcp_payload allows, nothing if not capturing.
SampleSize(c) ==
    IF session.producer /\ session.payloadSize > 0
    THEN Least(written[c], session.payloadSize)
    ELSE 0

\* However io.Copy cuts the stream into chunks, the sample is the first
\* bytes of the stream, in order, none skipped or repeated, up to the cap.
CaptureIsPrefix ==
    \A c \in Conns : payload[c] = Bytes(0, SampleSize(c))

\* A writer never reports more than reached the destination, nothing reaches
\* it that was not read, and while io.Copy runs nothing read is lost.
CountsAgree ==
    \A c \in Conns :
        /\ written[c] <= fwd[c] /\ fwd[c] <= nread[c] /\ nread[c] <= sent[c]
        /\ ppc[c] \in {"read", "write", "blocked"} =>
               written[c] = nread[c] - chunk[c]

\* How logResult files the result of a pipe, once the pipe has reported it.
verdictOf(c) ==
    CASE ppc[c] # "exited" -> "none"
      [] ppc[c] = "exited" /\ perr[c] = "nil" -> "complete"
      [] ppc[c] = "exited" /\ ~expectedPipeError(perr[c]) -> "failed"
      [] OTHER -> "cut"

\* The forwarder as a Relay: what reached a socket is delivered, what the
\* writer counts is counted, and a direction is broken once io.Copy returned.
R == INSTANCE Relay WITH
    cap <- IF session.producer /\ session.payloadSize > 0
           THEN session.payloadSize ELSE 0,
    started <- ppc["client"] # "off",
    reset <- rst,
    delivered <- fwd,
    counted <- written,
    broken <- [c \in Conns |-> ppc[c] \in {"finishWrite", "finishRead",
                                           "report", "exited"}],
    verdict <- [c \in Conns |-> verdictOf(c)],
    report <- events

\* The forwarder implements its abstract specification.  A pipe whose result
\* has no error delivered and counted all its source ever sent: closing one
\* half never cuts the other one short.  A pipe is logged as failed only if
\* a far end reset.  The one event holds the final sample and count of both
\* directions, and nothing is delivered after it.
ImplementsRelay == R!Spec

\* Unless the context is cancelled, no socket is closed while a pipe still
\* uses it: ending one direction only half-closes.
OpenUntilBothDone ==
    (~cancelled /\ \E c \in Conns : fd[c] = "closed") =>
        \A c \in Conns : ppc[c] \in {"off", "exited"}

\* When the handler has returned, both sockets are closed, no pipe goroutine
\* is left, no result is unread, and every session that had a target to dial
\* has produced its event, the failed dials included.
ReturnReleasesAll ==
    hpc = "returned" =>
        /\ fd["client"] = "closed" /\ fd["target"] # "open"
        /\ \A c \in Conns : ppc[c] \in {"off", "exited"}
        /\ done = <<>>
        /\ Len(events) = IF hasTarget THEN 1 ELSE 0

\* With an idle timeout, a session whose far ends fall silent, stall or
\* disappear still ends.
IdleSessionEnds == session.idleTimeout ~> (hpc = "returned")

\* Cancelling the context ends the session, even with no idle timeout and
\* with both pipes blocked in a Read or a Write.
CancelEndsSession == cancelled ~> (hpc = "returned")

\* The watcher goroutine does not outlive the session for ever.
WatcherExits == (hpc = "returned") ~> (wpc \in {"off", "exited"})
=============================================================================
