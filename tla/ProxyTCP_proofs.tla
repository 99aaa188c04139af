-------------------------- MODULE ProxyTCP_proofs ---------------------------
(***************************************************************************)
(* Proofs about a session of the TCP forwarder, for every configuration,   *)
(* every cap on the samples and any number of bytes: its invariants, that  *)
(* it implements Relay, and that it neither waits in vain nor goes round.  *)
(***************************************************************************)
EXTENDS ProxyTCP, SequenceTheorems, TLAPS

\* The counters of each direction.  Until a copy ends, what was read is
\* either counted or still in the buffer; a write that fails breaks the
\* equality and ends the copy, so only the order of the counters remains.
CountInv ==
    \A c \in Conns :
        /\ written[c] <= fwd[c] /\ fwd[c] <= nread[c] /\ nread[c] <= sent[c]
        /\ chunk[c] <= nread[c]
        /\ ppc[c] \in {"off", "read"} => chunk[c] = 0
        /\ ppc[c] \in {"off", "read", "write", "blocked"} =>
               written[c] = nread[c] - chunk[c] /\ fwd[c] = written[c]

Exited(c) == IF ppc[c] = "exited" THEN 1 ELSE 0

\* What each control state of the handler says of the pipes, the results on
\* their way, the target socket and the event.
ControlInv ==
    /\ hpc \in {"enter", "dial"} =>
           results = <<>> /\ done = <<>> /\ \A c \in Conns : ppc[c] = "off"
    /\ hpc = "receive" =>
           /\ \A c \in Conns : ppc[c] # "off"
           /\ Len(results) <= 1
           /\ Len(results) + Len(done) = Exited("client") + Exited("target")
    /\ hpc \in {"stopWatcher", "closeTarget"} =>
           /\ Len(results) = 2 /\ done = <<>>
           /\ \A c \in Conns : ppc[c] = "exited"
    /\ hpc = "produce" => results = <<>> \/ Len(results) = 2
    /\ hpc \in {"produce", "closeClient", "returned"} =>
           done = <<>> /\ \A c \in Conns : ppc[c] \in {"off", "exited"}
    /\ hpc \in {"dial", "receive", "stopWatcher", "closeTarget", "produce"} =>
           hasTarget
    /\ hpc \notin {"closeClient", "returned"} => events = <<>>
    /\ hpc \in {"closeClient", "returned"} =>
           Len(events) = IF hasTarget THEN 1 ELSE 0

\* Sockets: only the watcher, and only once the context is cancelled, closes
\* one before the handler unwinds.
SocketInv ==
    /\ hpc \notin {"receive", "stopWatcher", "closeTarget"} =>
           fd["target"] # "open"
    /\ hpc = "returned" => fd["client"] = "closed"
    /\ wpc = "closeTarget" => cancelled
    /\ (hpc \in {"enter", "dial", "receive", "stopWatcher", "closeTarget"}
         /\ ~cancelled) => \A c \in Conns : fd[c] # "closed"

IInv == TypeOK /\ CountInv /\ ControlInv /\ SocketInv

\* The frames of the actors, which say what a step leaves unchanged.
USE DEF inputVars, handlerVars, sockVars, peerVars, copyVars, pipeVars

-----------------------------------------------------------------------------
\* storePayload returns a sequence of stream positions.
LEMMA StorePayloadType ==
    ASSUME NEW s \in Sessions, NEW sample \in Seq(Nat), NEW p \in Seq(Nat)
    PROVE  storePayload(s, sample, p) \in Seq(Nat)
<1>1. s.payloadSize \in Int /\ s.producer \in BOOLEAN
    BY SessionsAssumption
<1>2. CASE ~s.producer \/ s.payloadSize <= 0 \/ Len(sample) >= s.payloadSize
    BY <1>2 DEF storePayload
<1>3. CASE ~(~s.producer \/ s.payloadSize <= 0 \/ Len(sample) >= s.payloadSize)
  <2>. DEFINE n == Least(Len(p), s.payloadSize - Len(sample))
  <2>1. n \in 0..Len(p)
    BY <1>1, <1>3 DEF Least
  <2>2. SubSeq(p, 1, n) \in Seq(Nat)
    BY <2>1
  <2>. QED
    BY <1>3, <2>2 DEF storePayload
<1>. QED
    BY <1>2, <1>3

LEMMA BytesType ==
    ASSUME NEW k \in Nat, NEW n \in Nat
    PROVE  Bytes(k, n) \in Seq(Nat) /\ Len(Bytes(k, n)) = n
BY DEF Bytes

\* The entries of an event are captures.
LEMMA EventType ==
    ASSUME TypeOK, NEW c \in Conns
    PROVE  event(c) \in Seq(Captures)
<1>1. payload[c] \in Seq(Nat) /\ written[c] \in Nat
    BY DEF TypeOK
<1>2. [dir |-> c, payload |-> payload[c], bytes |-> written[c],
       truncated |-> written[c] > Len(payload[c])] \in Captures
    BY <1>1 DEF Captures
<1>. QED
    BY <1>2 DEF event

-----------------------------------------------------------------------------
\* The initial state.
LEMMA InitIInv == Init => IInv
<1>. SUFFICES ASSUME Init PROVE IInv
    OBVIOUS
<1>1. /\ fd \in [Conns -> {"none", "open", "closed"}]
      /\ sent \in [Conns -> Nat] /\ nread \in [Conns -> Nat]
      /\ chunk \in [Conns -> Nat] /\ fwd \in [Conns -> Nat]
      /\ written \in [Conns -> Nat]
    BY DEF Init
<1>2. /\ readShut \in [Conns -> BOOLEAN] /\ writeShut \in [Conns -> BOOLEAN]
      /\ fin \in [Conns -> BOOLEAN] /\ rst \in [Conns -> BOOLEAN]
      /\ cancelled \in BOOLEAN /\ stop \in BOOLEAN
    BY DEF Init
<1>3. /\ ppc \in [Conns -> PipeStates] /\ perr \in [Conns -> Errors]
      /\ wpc \in {"off", "select", "closeTarget", "exited"}
      /\ hpc \in HandlerStates
    BY DEF Init, PipeStates, Errors, HandlerStates
<1>4. /\ payload \in [Conns -> Seq(Nat)]
      /\ done \in Seq(Results) /\ results \in Seq(Results)
      /\ events \in Seq(Seq(Captures))
    BY DEF Init
<1>5. session \in Sessions /\ hasTarget \in BOOLEAN
    BY DEF Init
<1>6. TypeOK
    BY <1>1, <1>2, <1>3, <1>4, <1>5 DEF TypeOK
<1>7. CountInv
    BY DEF Init, CountInv
<1>8. ControlInv
    BY DEF Init, ControlInv
<1>9. SocketInv
    BY DEF Init, SocketInv, Conns
<1>. QED
    BY <1>6, <1>7, <1>8, <1>9 DEF IInv

\* A pipe that runs finds the handler waiting for results.
LEMMA PipeWhileReceive ==
    ASSUME IInv, NEW c \in Conns, ppc[c] \notin {"off", "exited"}
    PROVE  hpc = "receive"
BY DEF IInv, TypeOK, ControlInv, HandlerStates

\* The far ends only send, finish, reset and stall.
LEMMA PeerIInv ==
    ASSUME IInv, NEW c \in Conns, PeerStep(c)
    PROVE  IInv'
<1>. USE DEF peerFrame, copyFrame
<1>1. CASE PeerSend(c)
  <2>1. TypeOK'
    BY <1>1 DEF PeerSend, IInv, TypeOK
  <2>2. CountInv'
    BY <1>1 DEF PeerSend, IInv, TypeOK, CountInv
  <2>3. ControlInv'
    BY <1>1 DEF PeerSend, IInv, ControlInv, Exited
  <2>4. SocketInv'
    BY <1>1 DEF PeerSend, IInv, SocketInv
  <2>. QED
    BY <2>1, <2>2, <2>3, <2>4 DEF IInv
<1>2. CASE PeerFin(c) \/ PeerReset(c)
  <2>1. TypeOK'
    BY <1>2 DEF PeerFin, PeerReset, IInv, TypeOK
  <2>2. CountInv'
    BY <1>2 DEF PeerFin, PeerReset, IInv, CountInv
  <2>3. ControlInv'
    BY <1>2 DEF PeerFin, PeerReset, IInv, ControlInv, Exited
  <2>4. SocketInv'
    BY <1>2 DEF PeerFin, PeerReset, IInv, SocketInv
  <2>. QED
    BY <2>1, <2>2, <2>3, <2>4 DEF IInv
<1>3. CASE PeerStall(c)
  <2>1. PICK d \in Conns : \/ /\ ppc[d] = "write"
                              /\ ppc' = [ppc EXCEPT ![d] = "blocked"]
                           \/ /\ ppc[d] = "blocked"
                              /\ ppc' = [ppc EXCEPT ![d] = "write"]
    BY <1>3 DEF PeerStall, Dst, Conns
  <2>2. UNCHANGED <<copyFrame, perr, copyVars>>
    BY <1>3 DEF PeerStall
  <2>3. TypeOK'
    BY <2>1, <2>2 DEF IInv, TypeOK, PipeStates
  <2>4. CountInv'
    BY <2>1, <2>2 DEF IInv, TypeOK, CountInv
  <2>5. ControlInv'
    <3>1. hpc = "receive"
        BY <2>1, PipeWhileReceive
    <3>2. /\ \A e \in Conns : ppc'[e] # "off"
          /\ Exited("client")' = Exited("client")
          /\ Exited("target")' = Exited("target")
        BY <2>1, <3>1 DEF IInv, TypeOK, ControlInv, Exited, Conns
    <3>. QED
        BY <2>2, <3>1, <3>2 DEF IInv, ControlInv
  <2>6. SocketInv'
    BY <2>2 DEF IInv, SocketInv
  <2>. QED
    BY <2>3, <2>4, <2>5, <2>6 DEF IInv
<1>. QED
    BY <1>1, <1>2, <1>3 DEF PeerStep

\* A pipe step other than Report keeps the number of exited pipes.
LEMMA PipeControl ==
    ASSUME IInv, NEW c \in Conns, ppc[c] \notin {"off", "exited"},
           NEW st \in PipeStates \ {"off", "exited"},
           ppc' = [ppc EXCEPT ![c] = st],
           UNCHANGED <<hasTarget, hpc, results, events, done>>
    PROVE  ControlInv'
<1>1. hpc = "receive"
    BY PipeWhileReceive
<1>2. /\ \A e \in Conns : ppc'[e] # "off"
      /\ Exited("client")' = Exited("client")
      /\ Exited("target")' = Exited("target")
    BY <1>1 DEF IInv, TypeOK, ControlInv, Exited, Conns
<1>. QED
    BY <1>1, <1>2 DEF IInv, ControlInv

\* io.Copy reads: data, or an error that ends the copy.
LEMMA ReadIInv ==
    ASSUME IInv, NEW c \in Conns,
           ReadData(c) \/ \E err \in Errors : readFails(c, err)
    PROVE  IInv'
<1>. USE DEF copyFrame
<1>1. CASE ReadData(c)
  <2>1. PICK n \in 1..(sent[c] - nread[c]) :
            /\ nread' = [nread EXCEPT ![c] = @ + n]
            /\ chunk' = [chunk EXCEPT ![c] = n]
    BY <1>1 DEF ReadData
  <2>2. /\ ppc[c] = "read" /\ ppc' = [ppc EXCEPT ![c] = "write"]
        /\ UNCHANGED <<copyFrame, fwd, written, payload, perr>>
    BY <1>1 DEF ReadData
  <2>3. n \in Nat /\ n <= sent[c] - nread[c]
    BY <2>1 DEF IInv, TypeOK
  <2>4. nread' \in [Conns -> Nat] /\ chunk' \in [Conns -> Nat]
    BY <2>1, <2>3 DEF IInv, TypeOK
  <2>5. TypeOK'
    BY <2>2, <2>4 DEF IInv, TypeOK, PipeStates
  <2>6. CountInv'
    BY <2>1, <2>2, <2>3 DEF IInv, TypeOK, CountInv
  <2>7. ControlInv'
    BY <2>2, PipeControl DEF PipeStates
  <2>8. SocketInv'
    BY <2>2 DEF IInv, SocketInv
  <2>. QED
    BY <2>5, <2>6, <2>7, <2>8 DEF IInv
<1>2. CASE \E err \in Errors : readFails(c, err)
  <2>1. PICK err \in Errors : readFails(c, err)
    BY <1>2
  <2>2. /\ ppc[c] = "read" /\ ppc' = [ppc EXCEPT ![c] = "finishWrite"]
        /\ perr' = [perr EXCEPT ![c] = err]
        /\ chunk' = [chunk EXCEPT ![c] = 0]
        /\ UNCHANGED <<copyFrame, nread, fwd, written, payload>>
    BY <2>1 DEF readFails, copyEnds
  <2>3. TypeOK'
    BY <2>2 DEF IInv, TypeOK, PipeStates
  <2>4. CountInv'
    BY <2>2 DEF IInv, TypeOK, CountInv
  <2>5. ControlInv'
    BY <2>2, PipeControl DEF PipeStates
  <2>6. SocketInv'
    BY <2>2 DEF IInv, SocketInv
  <2>. QED
    BY <2>3, <2>4, <2>5, <2>6 DEF IInv
<1>. QED
    BY <1>1, <1>2

\* writer.Write: all of the chunk, or an error after a part of it.
LEMMA WriteIInv ==
    ASSUME IInv, NEW c \in Conns, WriteAll(c) \/ WriteFails(c)
    PROVE  IInv'
<1>. USE DEF copyFrame
<1>1. CASE WriteAll(c)
  <2>1. /\ ppc[c] = "write" /\ ppc' = [ppc EXCEPT ![c] = "read"]
        /\ fwd' = [fwd EXCEPT ![c] = @ + chunk[c]]
        /\ written' = [written EXCEPT ![c] = @ + chunk[c]]
        /\ chunk' = [chunk EXCEPT ![c] = 0]
        /\ UNCHANGED <<copyFrame, nread, perr>>
    BY <1>1 DEF WriteAll
  <2>2. payload' = [payload EXCEPT ![c] =
            storePayload(session, @, Bytes(nread[c] - chunk[c], chunk[c]))]
    BY <1>1 DEF WriteAll
  <2>3. payload' \in [Conns -> Seq(Nat)]
    <3>1. session \in Sessions /\ payload[c] \in Seq(Nat)
        BY DEF IInv, TypeOK
    <3>2. nread[c] - chunk[c] \in Nat /\ chunk[c] \in Nat
        BY DEF IInv, TypeOK, CountInv
    <3>3. Bytes(nread[c] - chunk[c], chunk[c]) \in Seq(Nat)
        BY <3>2, BytesType
    <3>4. storePayload(session, payload[c],
                       Bytes(nread[c] - chunk[c], chunk[c])) \in Seq(Nat)
        BY <3>1, <3>3, StorePayloadType
    <3>. QED
        BY <2>2, <3>4 DEF IInv, TypeOK
  <2>4. /\ fwd' \in [Conns -> Nat] /\ written' \in [Conns -> Nat]
        /\ chunk' \in [Conns -> Nat] /\ ppc' \in [Conns -> PipeStates]
    BY <2>1 DEF IInv, TypeOK, PipeStates
  <2>5. TypeOK'
    BY <2>1, <2>3, <2>4 DEF IInv, TypeOK
  <2>6. CountInv'
    BY <2>1 DEF IInv, TypeOK, CountInv
  <2>7. ControlInv'
    BY <2>1, PipeControl DEF PipeStates
  <2>8. SocketInv'
    BY <2>1 DEF IInv, SocketInv
  <2>. QED
    BY <2>5, <2>6, <2>7, <2>8 DEF IInv
<1>2. CASE WriteFails(c)
  <2>1. PICK n \in 0..(chunk[c] - 1), err \in Errors :
            /\ fwd' = [fwd EXCEPT ![c] = @ + n]
            /\ copyEnds(c, err)
    BY <1>2 DEF WriteFails, writeFails, Errors
  <2>2. /\ ppc[c] \in {"write", "blocked"}
        /\ ppc' = [ppc EXCEPT ![c] = "finishWrite"]
        /\ perr' = [perr EXCEPT ![c] = err]
        /\ chunk' = [chunk EXCEPT ![c] = 0]
        /\ written' = [written EXCEPT ![c] = @ + 0]
        /\ UNCHANGED <<copyFrame, nread, payload>>
    BY <1>2, <2>1 DEF WriteFails, writeFails, copyEnds
  <2>3. n \in Nat /\ n <= chunk[c]
    BY <2>1 DEF IInv, TypeOK
  <2>4. written' = written
    BY <2>2 DEF IInv, TypeOK
  <2>5. /\ fwd' \in [Conns -> Nat] /\ perr' \in [Conns -> Errors]
        /\ chunk' \in [Conns -> Nat] /\ ppc' \in [Conns -> PipeStates]
    BY <2>1, <2>2, <2>3 DEF IInv, TypeOK, PipeStates
  <2>6. TypeOK'
    BY <2>2, <2>4, <2>5 DEF IInv, TypeOK
  <2>7. CountInv'
    BY <2>1, <2>2, <2>3, <2>4 DEF IInv, TypeOK, CountInv
  <2>8. ControlInv'
    BY <2>2, PipeControl DEF PipeStates
  <2>9. SocketInv'
    BY <2>2 DEF IInv, SocketInv
  <2>. QED
    BY <2>6, <2>7, <2>8, <2>9 DEF IInv
<1>. QED
    BY <1>1, <1>2

\* Shutting down one side of a socket touches that flag and the error only.
LEMMA FinishIInv ==
    ASSUME IInv, NEW c \in Conns, FinishWriteSide(c) \/ FinishReadSide(c)
    PROVE  IInv'
<1>. USE DEF shutFrame
<1>1. Dst(c) \in Conns
    BY DEF Dst, Conns
<1>2. /\ ppc[c] \in {"finishWrite", "finishRead"}
      /\ UNCHANGED shutFrame
    BY DEF FinishWriteSide, FinishReadSide, finishWrite, finishRead
<1>3. PICK s \in {"finishRead", "report"} : ppc' = [ppc EXCEPT ![c] = s]
    BY DEF FinishWriteSide, FinishReadSide, finishWrite, finishRead
<1>4. perr' = perr \/ perr' = [perr EXCEPT ![c] = IF @ = "nil" THEN "notconn"
                                                  ELSE @]
    BY DEF FinishWriteSide, FinishReadSide, finishWrite, finishRead,
           shutdownSide
<1>5. perr' \in [Conns -> Errors]
    BY <1>4 DEF IInv, TypeOK, Errors
<1>6. readShut' = readShut \/ readShut' = [readShut EXCEPT ![c] = TRUE]
    BY DEF FinishWriteSide, FinishReadSide, finishWrite, finishRead,
           shutdownSide
<1>7. writeShut' = writeShut
        \/ writeShut' = [writeShut EXCEPT ![Dst(c)] = TRUE]
    BY DEF FinishWriteSide, FinishReadSide, finishWrite, finishRead,
           shutdownSide
<1>8. readShut' \in [Conns -> BOOLEAN] /\ writeShut' \in [Conns -> BOOLEAN]
    BY <1>1, <1>6, <1>7 DEF IInv, TypeOK
<1>9. TypeOK'
    BY <1>2, <1>3, <1>5, <1>8 DEF IInv, TypeOK, PipeStates
<1>10. CountInv'
    BY <1>2, <1>3 DEF IInv, TypeOK, CountInv
<1>11. ControlInv'
    BY <1>2, <1>3, PipeControl DEF PipeStates
<1>12. SocketInv'
    BY <1>2 DEF IInv, SocketInv
<1>. QED
    BY <1>9, <1>10, <1>11, <1>12 DEF IInv

\* The result of a pipe is sent once, as the pipe exits.
LEMMA ReportIInv ==
    ASSUME IInv, NEW c \in Conns, Report(c)
    PROVE  IInv'
<1>. USE DEF handlerFrame
<1>. DEFINE r == [dir |-> c, bytes |-> written[c], event |-> event(c),
                  err |-> perr[c]]
<1>1. /\ ppc[c] = "report" /\ ppc' = [ppc EXCEPT ![c] = "exited"]
      /\ done' = Append(done, r)
      /\ UNCHANGED <<handlerFrame, fd, wpc, handlerVars>>
    BY DEF Report
<1>2. r \in Results
    BY EventType DEF IInv, TypeOK, Results
<1>3. done' \in Seq(Results) /\ Len(done') = Len(done) + 1
    BY <1>1, <1>2 DEF IInv, TypeOK
<1>4. TypeOK'
    BY <1>1, <1>3 DEF IInv, TypeOK, PipeStates
<1>5. CountInv'
    BY <1>1 DEF IInv, TypeOK, CountInv
<1>6. ControlInv'
  <2>1. hpc = "receive"
    BY <1>1, PipeWhileReceive
  <2>2. /\ \A e \in Conns : ppc'[e] # "off"
        /\ Exited("client")' + Exited("target")'
               = Exited("client") + Exited("target") + 1
    BY <1>1, <2>1 DEF IInv, TypeOK, ControlInv, Exited, Conns
  <2>3. Len(results) + Len(done') = Exited("client")' + Exited("target")'
    BY <1>3, <2>1, <2>2 DEF IInv, TypeOK, ControlInv, Exited
  <2>. QED
    BY <1>1, <2>1, <2>2, <2>3 DEF IInv, ControlInv
<1>7. SocketInv'
    BY <1>1 DEF IInv, SocketInv
<1>. QED
    BY <1>4, <1>5, <1>6, <1>7 DEF IInv

LEMMA PipeIInv ==
    ASSUME IInv, NEW c \in Conns, PipeStep(c)
    PROVE  IInv'
<1>1. CASE ReadData(c)
    BY <1>1, ReadIInv
<1>2. CASE ReadEOF(c) \/ ReadBroken(c) \/ ReadTimesOut(c)
  <2>1. \E err \in Errors : readFails(c, err)
    BY <1>2 DEF ReadEOF, ReadBroken, ReadTimesOut, Errors
  <2>. QED
    BY <2>1, ReadIInv
<1>3. CASE WriteAll(c) \/ WriteFails(c)
    BY <1>3, WriteIInv
<1>4. CASE FinishWriteSide(c) \/ FinishReadSide(c)
    BY <1>4, FinishIInv
<1>5. CASE Report(c)
    BY <1>5, ReportIInv
<1>. QED
    BY <1>1, <1>2, <1>3, <1>4, <1>5 DEF PipeStep

\* The watcher closes sockets, and only after a cancellation.
LEMMA WatcherIInv ==
    ASSUME IInv, WatcherStep
    PROVE  IInv'
<1>. USE DEF watcherFrame
<1>1. UNCHANGED watcherFrame
    BY DEF WatcherStep, WatcherCancel, WatcherCloseTarget, WatcherStopped
<1>2. fd' = fd \/ (cancelled /\ \E c \in Conns : closeConn(c))
    BY DEF WatcherStep, WatcherCancel, WatcherCloseTarget, WatcherStopped,
           IInv, SocketInv, Conns
<1>3. wpc' = "exited" \/ (wpc' = "closeTarget" /\ cancelled)
    BY DEF WatcherStep, WatcherCancel, WatcherCloseTarget, WatcherStopped
<1>4. TypeOK'
    BY <1>1, <1>2, <1>3 DEF IInv, TypeOK, closeConn
<1>5. CountInv'
    BY <1>1 DEF IInv, CountInv
<1>6. ControlInv'
    BY <1>1 DEF IInv, ControlInv, Exited
<1>7. SocketInv'
    BY <1>1, <1>2, <1>3 DEF IInv, TypeOK, SocketInv, closeConn, Conns
<1>. QED
    BY <1>4, <1>5, <1>6, <1>7 DEF IInv

\* The events of no result, or of two, are captures.
LEMMA EventsType ==
    ASSUME NEW rs \in Seq(Results), rs = <<>> \/ Len(rs) = 2
    PROVE  eventsFromResults(rs) \in Seq(Captures)
<1>1. CASE rs = <<>>
    BY <1>1 DEF eventsFromResults
<1>2. CASE rs # <<>>
  <2>1. rs[1] \in Results /\ rs[2] \in Results
    BY <1>2
  <2>2. rs[1].event \in Seq(Captures) /\ rs[2].event \in Seq(Captures)
    BY <2>1 DEF Results
  <2>. QED
    BY <1>2, <2>2 DEF eventsFromResults
<1>. QED
    BY <1>1, <1>2

\* The handler, one step per statement that changes state.
LEMMA HandlerIInv ==
    ASSUME IInv, HandlerStep
    PROVE  IInv'
<1>. USE DEF handlerFrame
<1>1. CASE Enter
  <2>1. TypeOK'
    BY <1>1 DEF Enter, IInv, TypeOK, HandlerStates
  <2>2. CountInv'
    BY <1>1 DEF Enter, IInv, CountInv
  <2>3. ControlInv'
    BY <1>1 DEF Enter, IInv, TypeOK, ControlInv
  <2>4. SocketInv'
    BY <1>1 DEF Enter, IInv, SocketInv
  <2>. QED
    BY <2>1, <2>2, <2>3, <2>4 DEF IInv
<1>2. CASE DialSucceeds
  <2>1. TypeOK'
    BY <1>2 DEF DialSucceeds, IInv, TypeOK, HandlerStates, PipeStates
  <2>2. CountInv'
    BY <1>2 DEF DialSucceeds, IInv, TypeOK, ControlInv, CountInv
  <2>3. ControlInv'
    BY <1>2 DEF DialSucceeds, IInv, ControlInv, Exited, Conns
  <2>4. SocketInv'
    BY <1>2 DEF DialSucceeds, IInv, TypeOK, SocketInv
  <2>. QED
    BY <2>1, <2>2, <2>3, <2>4 DEF IInv
<1>3. CASE DialFails
  <2>1. TypeOK'
    BY <1>3 DEF DialFails, dialFails, IInv, TypeOK, HandlerStates
  <2>2. CountInv'
    BY <1>3 DEF DialFails, dialFails, IInv, CountInv
  <2>3. ControlInv'
    BY <1>3 DEF DialFails, dialFails, IInv, ControlInv
  <2>4. SocketInv'
    BY <1>3 DEF DialFails, dialFails, IInv, SocketInv
  <2>. QED
    BY <2>1, <2>2, <2>3, <2>4 DEF IInv
<1>4. CASE ReceiveResult
  <2>1. /\ hpc = "receive" /\ done # <<>>
        /\ results' = Append(results, Head(done)) /\ done' = Tail(done)
        /\ hpc' = IF Len(results') = 2 THEN "stopWatcher" ELSE "receive"
        /\ UNCHANGED <<handlerFrame, events, stop, fd, ppc, wpc>>
    BY <1>4 DEF ReceiveResult
  <2>2. /\ results' \in Seq(Results) /\ done' \in Seq(Results)
        /\ Len(results') = Len(results) + 1 /\ Len(done') = Len(done) - 1
    BY <2>1 DEF IInv, TypeOK
  <2>3. TypeOK'
    BY <2>1, <2>2 DEF IInv, TypeOK, HandlerStates
  <2>4. CountInv'
    BY <2>1 DEF IInv, CountInv
  <2>5. ControlInv'
    <3>1. /\ Len(results) \in Nat /\ Len(done) \in Nat
          /\ Len(results) <= 1
          /\ Len(results') + Len(done') = Exited("client") + Exited("target")
          /\ Exited("client")' = Exited("client")
          /\ Exited("target")' = Exited("target")
        BY <2>1, <2>2 DEF IInv, TypeOK, ControlInv, Exited
    <3>2. CASE Len(results') = 2
      <4>1. /\ Exited("client") = 1 /\ Exited("target") = 1
            /\ Len(done') = 0
        <5>1. Len(done') \in Nat
            BY <2>2
        <5>2. Exited("client") \in {0, 1} /\ Exited("target") \in {0, 1}
            BY DEF Exited
        <5>. QED
            BY <3>1, <3>2, <5>1, <5>2
      <4>2. done' = <<>> /\ \A c \in Conns : ppc[c] = "exited"
        BY <2>2, <4>1 DEF Exited, Conns
      <4>. QED
        BY <2>1, <3>2, <4>2 DEF IInv, ControlInv
    <3>3. CASE Len(results') # 2
      <4>1. hpc' = "receive" /\ Len(results') <= 1
        BY <2>1, <2>2, <3>1, <3>3
      <4>. QED
        BY <2>1, <3>1, <4>1 DEF IInv, ControlInv
    <3>. QED
        BY <3>2, <3>3
  <2>6. SocketInv'
    BY <2>1 DEF IInv, SocketInv
  <2>. QED
    BY <2>3, <2>4, <2>5, <2>6 DEF IInv
<1>5. CASE StopWatcher
  <2>1. TypeOK'
    BY <1>5 DEF StopWatcher, stopWatcher, IInv, TypeOK, HandlerStates
  <2>2. CountInv'
    BY <1>5 DEF StopWatcher, stopWatcher, IInv, CountInv
  <2>3. ControlInv'
    BY <1>5 DEF StopWatcher, stopWatcher, IInv, ControlInv
  <2>4. SocketInv'
    BY <1>5 DEF StopWatcher, stopWatcher, IInv, SocketInv
  <2>. QED
    BY <2>1, <2>2, <2>3, <2>4 DEF IInv
<1>6. CASE CloseTarget
  <2>1. TypeOK'
    BY <1>6 DEF CloseTarget, closeTarget, closeConn, IInv, TypeOK,
                HandlerStates
  <2>2. CountInv'
    BY <1>6 DEF CloseTarget, closeTarget, IInv, CountInv
  <2>3. ControlInv'
    BY <1>6 DEF CloseTarget, closeTarget, IInv, ControlInv
  <2>4. SocketInv'
    BY <1>6 DEF CloseTarget, closeTarget, closeConn, IInv, TypeOK, SocketInv,
                Conns
  <2>. QED
    BY <2>1, <2>2, <2>3, <2>4 DEF IInv
<1>7. CASE Produce
  <2>1. /\ hpc = "produce" /\ hpc' = "closeClient"
        /\ events' = Append(events, IF session.producer
                                    THEN eventsFromResults(results) ELSE <<>>)
        /\ UNCHANGED <<handlerFrame, results, stop, fd, ppc, done, wpc>>
    BY <1>7 DEF Produce
  <2>2. eventsFromResults(results) \in Seq(Captures)
    BY <2>1, EventsType DEF IInv, TypeOK, ControlInv
  <2>3. events = <<>> /\ hasTarget
    BY <2>1 DEF IInv, ControlInv
  <2>4. events' \in Seq(Seq(Captures)) /\ Len(events') = 1
    BY <2>1, <2>2, <2>3
  <2>5. TypeOK'
    BY <2>1, <2>4 DEF IInv, TypeOK, HandlerStates
  <2>6. CountInv'
    BY <2>1 DEF IInv, CountInv
  <2>7. ControlInv'
    BY <2>1, <2>3, <2>4 DEF IInv, ControlInv
  <2>8. SocketInv'
    BY <2>1 DEF IInv, SocketInv
  <2>. QED
    BY <2>5, <2>6, <2>7, <2>8 DEF IInv
<1>8. CASE CloseClient
  <2>1. TypeOK'
    BY <1>8 DEF CloseClient, closeConn, IInv, TypeOK, HandlerStates
  <2>2. CountInv'
    BY <1>8 DEF CloseClient, IInv, CountInv
  <2>3. ControlInv'
    BY <1>8 DEF CloseClient, IInv, ControlInv
  <2>4. SocketInv'
    BY <1>8 DEF CloseClient, closeConn, IInv, TypeOK, SocketInv, Conns
  <2>. QED
    BY <2>1, <2>2, <2>3, <2>4 DEF IInv
<1>. QED
    BY <1>1, <1>2, <1>3, <1>4, <1>5, <1>6, <1>7, <1>8 DEF HandlerStep

-----------------------------------------------------------------------------
\* Every step of the specification preserves the invariant.
LEMMA StepIInv == IInv /\ [Next]_vars => IInv'
<1>. SUFFICES ASSUME IInv, [Next]_vars PROVE IInv'
    OBVIOUS
<1>1. CASE \E c \in Conns : PeerStep(c) \/ PipeStep(c)
    BY <1>1, PeerIInv, PipeIInv
<1>2. CASE WatcherStep
    BY <1>2, WatcherIInv
<1>3. CASE HandlerStep
    BY <1>3, HandlerIInv
<1>4. CASE Cancel
  <2>1. TypeOK'
    BY <1>4 DEF Cancel, IInv, TypeOK
  <2>2. CountInv'
    BY <1>4 DEF Cancel, IInv, CountInv
  <2>3. ControlInv'
    BY <1>4 DEF Cancel, IInv, ControlInv, Exited
  <2>4. SocketInv'
    BY <1>4 DEF Cancel, IInv, SocketInv
  <2>. QED
    BY <2>1, <2>2, <2>3, <2>4 DEF IInv
<1>5. CASE UNCHANGED vars
  <2>1. TypeOK'
    BY <1>5 DEF vars, IInv, TypeOK
  <2>2. CountInv'
    BY <1>5 DEF vars, IInv, CountInv
  <2>3. ControlInv'
    BY <1>5 DEF vars, IInv, ControlInv, Exited
  <2>4. SocketInv'
    BY <1>5 DEF vars, IInv, SocketInv
  <2>. QED
    BY <2>1, <2>2, <2>3, <2>4 DEF IInv
<1>. QED
    BY <1>1, <1>2, <1>3, <1>4, <1>5 DEF Next, Ended

\* The conjunction of the named parts is an invariant of a session.
THEOREM SessionInvariance == Spec => []IInv
<1>1. Init => IInv
    BY InitIInv
<1>2. IInv /\ [Next]_vars => IInv'
    BY StepIInv
<1>. QED
    BY <1>1, <1>2, PTL DEF Spec

\* Type correctness: samples stay sequences of stream positions and the
\* channel carries well-formed pipeResults.
THEOREM SessionTypeCorrect == Spec => []TypeOK
<1>1. IInv => TypeOK
    BY DEF IInv
<1>. QED
    BY <1>1, SessionInvariance, PTL

\* writer.written never exceeds what the destination accepted, for any
\* number of bytes and any split into chunks and partial writes.
THEOREM SessionCounts == Spec => []CountsAgree
<1>1. IInv => CountsAgree
    BY DEF IInv, CountInv, CountsAgree
<1>. QED
    BY <1>1, SessionInvariance, PTL

\* Ending one direction never closes a socket that the other still uses.
THEOREM SessionStaysOpen == Spec => []OpenUntilBothDone
<1>1. IInv => OpenUntilBothDone
    BY PipeWhileReceive DEF IInv, SocketInv, OpenUntilBothDone
<1>. QED
    BY <1>1, SessionInvariance, PTL

\* HandleProxyTCP leaves no socket, pipe or result behind and has produced
\* exactly one event if it had a target.
THEOREM SessionReleases == Spec => []ReturnReleasesAll
<1>1. IInv => ReturnReleasesAll
    BY DEF IInv, ControlInv, SocketInv, ReturnReleasesAll
<1>. QED
    BY <1>1, SessionInvariance, PTL
-----------------------------------------------------------------------------
\* The first k positions followed by the next m are the first k + m.
LEMMA PrefixExtends ==
    ASSUME NEW k \in Nat, NEW m \in Nat,
           NEW a \in Seq(Nat), Len(a) = k, \A i \in 1..k : a[i] = i,
           NEW b \in Seq(Nat), Len(b) = m, \A i \in 1..m : b[i] = k + i
    PROVE  a \o b = Bytes(0, k + m)
<1>1. a \o b \in Seq(Nat) /\ Len(a \o b) = k + m
    OBVIOUS
<1>2. ASSUME NEW i \in 1..(k + m) PROVE (a \o b)[i] = i
  <2>1. CASE i <= k
    BY <2>1
  <2>2. CASE i > k
    <3>1. (a \o b)[i] = b[i - k]
        BY <2>2
    <3>2. i - k \in 1..m
        BY <2>2
    <3>. QED
        BY <3>1, <3>2
  <2>. QED
    BY <2>1, <2>2
<1>3. /\ Bytes(0, k + m) \in Seq(Nat) /\ Len(Bytes(0, k + m)) = k + m
      /\ \A i \in 1..(k + m) : Bytes(0, k + m)[i] = i
    BY BytesType DEF Bytes
<1>. QED
    BY <1>1, <1>2, <1>3, SeqEqual

\* Appending the next n positions to the first k gives the first k + n, cut
\* at the cap: storePayload extends the prefix and never passes the cap.
LEMMA StorePayloadExtends ==
    ASSUME NEW s \in Sessions, NEW k \in Nat, NEW n \in Nat,
           s.producer, s.payloadSize > 0
    PROVE  storePayload(s, Bytes(0, Least(k, s.payloadSize)), Bytes(k, n))
               = Bytes(0, Least(k + n, s.payloadSize))
<1>. DEFINE size == s.payloadSize
            sample == Bytes(0, Least(k, size))
            p == Bytes(k, n)
<1>1. size \in Nat /\ s.producer \in BOOLEAN
    BY SessionsAssumption
<1>2. /\ Least(k, size) \in Nat /\ sample \in Seq(Nat)
      /\ Len(sample) = Least(k, size) /\ p \in Seq(Nat) /\ Len(p) = n
    BY <1>1, BytesType DEF Least
<1>3. CASE k >= size
  <2>1. Least(k, size) = size /\ Least(k + n, size) = size
    BY <1>1, <1>3 DEF Least
  <2>. QED
    BY <1>1, <1>2, <2>1 DEF storePayload
<1>4. CASE k < size
  <2>. DEFINE m == Least(n, size - k)
  <2>1. /\ Least(k, size) = k /\ m \in Nat /\ m <= n
        /\ Least(k + n, size) = k + m
    BY <1>1, <1>4 DEF Least
  <2>2. storePayload(s, sample, p) = sample \o SubSeq(p, 1, m)
    <3>1. Len(sample) = k /\ Len(p) = n
        BY <1>2, <2>1
    <3>2. Least(Len(p), size - Len(sample)) = m
        BY <3>1
    <3>3. ~(~s.producer \/ size <= 0 \/ Len(sample) >= size)
        BY <1>1, <1>4, <3>1
    <3>. HIDE DEF sample, p, m
    <3>. QED
        BY <3>2, <3>3 DEF storePayload
  <2>. DEFINE t == SubSeq(p, 1, m)
  <2>3. t \in Seq(Nat) /\ Len(t) = m /\ \A i \in 1..m : t[i] = k + i
    BY <1>2, <2>1 DEF Bytes
  <2>4. /\ sample \in Seq(Nat) /\ Len(sample) = k
        /\ \A i \in 1..k : sample[i] = i
    BY <1>2, <2>1 DEF Bytes
  <2>5. sample \o t = Bytes(0, k + m)
    BY <2>1, <2>3, <2>4, PrefixExtends
  <2>. QED
    BY <2>1, <2>2, <2>5
<1>. QED
    BY <1>1, <1>3, <1>4

\* Only a completed Write touches a sample or a count.
LEMMA SampleFrame ==
    ASSUME IInv, [Next]_vars
    PROVE  \/ UNCHANGED <<session, payload, written>>
           \/ \E c \in Conns : WriteAll(c)
<1>. USE DEF peerFrame, copyFrame, shutFrame, watcherFrame, handlerFrame
<1>1. ASSUME NEW c \in Conns, PeerStep(c)
      PROVE  UNCHANGED <<session, payload, written>>
    BY <1>1 DEF PeerStep, PeerSend, PeerFin, PeerReset, PeerStall
<1>2. ASSUME NEW c \in Conns, PipeStep(c), ~WriteAll(c)
      PROVE  UNCHANGED <<session, payload, written>>
  <2>1. CASE ReadData(c)
    BY <2>1 DEF ReadData
  <2>2. CASE ReadEOF(c) \/ ReadBroken(c) \/ ReadTimesOut(c)
    BY <2>2 DEF ReadEOF, ReadBroken, ReadTimesOut, readFails
  <2>3. CASE WriteFails(c)
    <3>1. /\ written' = [written EXCEPT ![c] = @ + 0]
          /\ UNCHANGED <<session, payload>>
        BY <2>3 DEF WriteFails, writeFails
    <3>. QED
        BY <3>1 DEF IInv, TypeOK
  <2>4. CASE FinishWriteSide(c) \/ FinishReadSide(c)
    BY <2>4 DEF FinishWriteSide, FinishReadSide, finishWrite, finishRead
  <2>5. CASE Report(c)
    BY <2>5 DEF Report
  <2>. QED
    BY <1>2, <2>1, <2>2, <2>3, <2>4, <2>5 DEF PipeStep
<1>3. CASE WatcherStep
    BY <1>3 DEF WatcherStep, WatcherCancel, WatcherCloseTarget, WatcherStopped
<1>4. CASE HandlerStep
    BY <1>4 DEF HandlerStep, Enter, DialSucceeds, DialFails, dialFails,
                ReceiveResult, StopWatcher, stopWatcher, CloseTarget,
                closeTarget, Produce, CloseClient
<1>5. CASE Cancel \/ UNCHANGED vars
    BY <1>5 DEF Cancel, vars
<1>. QED
    BY <1>1, <1>2, <1>3, <1>4, <1>5 DEF Next, Ended

\* One completed Write extends the sample of its direction as it should.
LEMMA WriteSample ==
    ASSUME IInv, CaptureIsPrefix, NEW c \in Conns, WriteAll(c)
    PROVE  CaptureIsPrefix'
<1>. DEFINE k == written[c]
            n == chunk[c]
<1>1. /\ session' = session /\ session \in Sessions
      /\ k \in Nat /\ n \in Nat /\ nread[c] - n = k
    BY DEF WriteAll, copyFrame, IInv, TypeOK, CountInv
<1>2. /\ written' = [written EXCEPT ![c] = k + n]
      /\ payload' = [payload EXCEPT ![c] =
                         storePayload(session, payload[c], Bytes(k, n))]
    BY <1>1 DEF WriteAll
<1>3. ASSUME NEW d \in Conns, d # c
      PROVE  payload'[d] = Bytes(0, SampleSize(d)')
    BY <1>1, <1>2, <1>3 DEF CaptureIsPrefix, SampleSize, IInv, TypeOK
<1>4. payload'[c] = Bytes(0, SampleSize(c)')
  <2>1. /\ payload'[c] = storePayload(session, payload[c], Bytes(k, n))
        /\ written'[c] = k + n
    BY <1>2 DEF IInv, TypeOK
  <2>2. payload[c] = Bytes(0, SampleSize(c))
    BY DEF CaptureIsPrefix
  <2>3. session.producer \in BOOLEAN /\ session.payloadSize \in Int
    BY <1>1, SessionsAssumption
  <2>4. CASE session.producer /\ session.payloadSize > 0
    <3>1. /\ SampleSize(c) = Least(k, session.payloadSize)
          /\ SampleSize(c)' = Least(k + n, session.payloadSize)
        BY <1>1, <2>1, <2>4 DEF SampleSize
    <3>. QED
        BY <1>1, <2>1, <2>2, <2>4, <3>1, StorePayloadExtends
  <2>5. CASE ~(session.producer /\ session.payloadSize > 0)
    <3>1. SampleSize(c) = 0 /\ SampleSize(c)' = 0
        BY <1>1, <2>5 DEF SampleSize
    <3>2. storePayload(session, payload[c], Bytes(k, n)) = payload[c]
        BY <2>3, <2>5 DEF storePayload
    <3>. QED
        BY <2>1, <2>2, <3>1, <3>2
  <2>. QED
    BY <2>4, <2>5
<1>. QED
    BY <1>3, <1>4 DEF CaptureIsPrefix

\* However many bytes flow and however they are cut into chunks, the sample
\* of a direction is the prefix of its stream that the cap allows.
THEOREM SessionCapture == Spec => []CaptureIsPrefix
<1>1. Init => CaptureIsPrefix
  <2>. SUFFICES ASSUME Init, NEW c \in Conns
                PROVE  payload[c] = Bytes(0, SampleSize(c))
    BY DEF CaptureIsPrefix
  <2>1. session.payloadSize \in Int
    BY SessionsAssumption DEF Init
  <2>2. SampleSize(c) = 0
    BY <2>1 DEF Init, SampleSize, Least
  <2>3. Bytes(0, 0) = <<>>
    BY DEF Bytes
  <2>. QED
    BY <2>2, <2>3 DEF Init
<1>2. IInv /\ CaptureIsPrefix /\ [Next]_vars => CaptureIsPrefix'
  <2>. SUFFICES ASSUME IInv, CaptureIsPrefix, [Next]_vars
                PROVE  CaptureIsPrefix'
    OBVIOUS
  <2>1. CASE UNCHANGED <<session, payload, written>>
    BY <2>1 DEF CaptureIsPrefix, SampleSize
  <2>. QED
    BY <2>1, SampleFrame, WriteSample
<1>. QED
    BY <1>1, <1>2, SessionInvariance, PTL DEF Spec

-----------------------------------------------------------------------------
(***************************************************************************)
(* The refinement: a session of the TCP forwarder implements Relay, for    *)
(* every session configuration and any number of bytes.  What pipes,       *)
(* sockets, channels and the handler do is, step by step, a step of Relay  *)
(* or none.                                                                *)
(***************************************************************************)


\* io.Copy has returned.
CopyOver == {"finishWrite", "finishRead", "report", "exited"}

\* A pipe that was never started has moved nothing, and one that is in
\* writer.Write has something to write.
ProgressInv(c) ==
    /\ ppc[c] = "off" => written[c] = 0
    /\ ppc[c] \in {"write", "blocked"} => chunk[c] > 0

\* A socket is half-closed only by the pipe that has finished with that half:
\* no other pipe ever meets the end of a stream that is not its sender's.
ShutInv(c) ==
    /\ readShut[c] => ppc[c] \in {"report", "exited"}
    /\ writeShut[Dst(c)] => ppc[c] \in {"finishRead", "report", "exited"}

\* A copy that ended without an error met the end of its source's stream and
\* had delivered and counted all of it.
CompleteInv(c) ==
    (ppc[c] \in CopyOver /\ perr[c] = "nil") =>
        /\ fin[c]
        /\ fwd[c] = sent[c] /\ written[c] = sent[c]

\* An error that logResult does not expect is due to a reset.
FailedInv(c) ==
    (ppc[c] \in CopyOver /\ ~expectedPipeError(perr[c])) =>
        \E e \in Conns : rst[e]

PipeInv(c) == ProgressInv(c) /\ ShutInv(c) /\ CompleteInv(c) /\ FailedInv(c)

\* The pipeResults that have been sent, received ones first.
Sent == results \o done

\* Each result is the final account of a pipe that has exited, and no pipe
\* has sent two.
ResultInv ==
    /\ \A i \in 1..Len(Sent) :
        /\ Sent[i].dir \in Conns
        /\ ppc[Sent[i].dir] = "exited"
        /\ Sent[i].event = event(Sent[i].dir)
    /\ \A i, j \in 1..Len(Sent) : i # j => Sent[i].dir # Sent[j].dir

\* The two pipes are started together, and when the handler unwinds it has
\* both results or neither pipe was started.
StartInv ==
    /\ ppc["client"] = "off" <=> ppc["target"] = "off"
    /\ hpc = "produce" =>
        IF results = <<>> THEN \A c \in Conns : ppc[c] = "off"
                          ELSE \A c \in Conns : ppc[c] = "exited"

RefInv == (\A c \in Conns : PipeInv(c)) /\ ResultInv /\ StartInv

\* What each actor leaves unchanged.
USE DEF inputVars, handlerVars, sockVars, peerVars, copyVars, pipeVars,
        peerFrame, copyFrame, shutFrame, watcherFrame, handlerFrame

-----------------------------------------------------------------------------
(* The invariant the refinement needs. *)

\* The invariant of a pipe only looks at the pipe's own variables, at what
\* its sender did and at the half sockets that pipe alone shuts.
LEMMA PipeFrame ==
    ASSUME NEW d \in Conns, PipeInv(d),
           /\ ppc'[d] = ppc[d] /\ perr'[d] = perr[d] /\ chunk'[d] = chunk[d]
           /\ fwd'[d] = fwd[d] /\ written'[d] = written[d]
           /\ sent'[d] = sent[d],
           fin[d] => fin'[d], \A e \in Conns : rst[e] => rst'[e],
           readShut'[d] = readShut[d], writeShut'[Dst(d)] = writeShut[Dst(d)]
    PROVE  PipeInv(d)'
<1>1. ProgressInv(d)'
    BY DEF PipeInv, ProgressInv
<1>2. ShutInv(d)'
    BY DEF PipeInv, ShutInv
<1>3. CompleteInv(d)'
    BY DEF PipeInv, CompleteInv
<1>4. FailedInv(d)'
    BY DEF PipeInv, FailedInv, expectedPipeError
<1>. QED
    BY <1>1, <1>2, <1>3, <1>4 DEF PipeInv

\* The results stay final as long as no exited pipe changes its account.
LEMMA ResultFrame ==
    ASSUME ResultInv, Sent' = Sent, session' = session,
           \A d \in Conns : ppc[d] = "exited" =>
               /\ ppc'[d] = "exited"
               /\ payload'[d] = payload[d] /\ written'[d] = written[d]
    PROVE  ResultInv'
<1>1. ASSUME NEW i \in 1..Len(Sent)
      PROVE  /\ Sent[i].dir \in Conns
             /\ ppc'[Sent[i].dir] = "exited"
             /\ Sent[i].event = event(Sent[i].dir)'
  <2>. DEFINE d == Sent[i].dir
  <2>1. d \in Conns /\ ppc[d] = "exited" /\ Sent[i].event = event(d)
    BY DEF ResultInv
  <2>2. /\ ppc'[d] = "exited"
        /\ payload'[d] = payload[d] /\ written'[d] = written[d]
    BY <2>1
  <2>3. event(d)' = event(d)
    BY <2>2 DEF event
  <2>. QED
    BY <2>1, <2>2, <2>3
<1>2. \A i, j \in 1..Len(Sent) : i # j => Sent[i].dir # Sent[j].dir
    BY DEF ResultInv
<1>. QED
    BY <1>1, <1>2 DEF ResultInv

LEMMA DstConns == \A c \in Conns : Dst(c) \in Conns /\ Dst(c) # c /\ Dst(Dst(c)) = c
BY DEF Dst, Conns

\* A step of one pipe before it exits keeps what the handler relies on.
LEMMA PipeStart ==
    ASSUME IInv, StartInv, NEW c \in Conns, ppc[c] \notin {"off", "exited"},
           NEW st \in PipeStates \ {"off"}, ppc' = [ppc EXCEPT ![c] = st],
           UNCHANGED <<hpc, results>>
    PROVE  StartInv'
<1>1. hpc = "receive"
    BY PipeWhileReceive
<1>. QED
    BY <1>1 DEF StartInv, IInv, TypeOK, Conns

\* Nothing is delivered before the session starts and no result exists.
LEMMA InitRefInv == Init => RefInv
<1>. SUFFICES ASSUME Init PROVE RefInv
    OBVIOUS
<1>1. ASSUME NEW c \in Conns PROVE PipeInv(c)
  <2>1. ppc[c] = "off" /\ written[c] = 0 /\ readShut[c] = FALSE
        /\ writeShut[Dst(c)] = FALSE
    BY DstConns DEF Init
  <2>. QED
    BY <2>1 DEF PipeInv, ProgressInv, ShutInv, CompleteInv, FailedInv,
                CopyOver
<1>2. ResultInv
  <2>1. Len(Sent) = 0
    BY DEF Init, Sent
  <2>. QED
    BY <2>1 DEF ResultInv
<1>3. StartInv
    BY DEF Init, StartInv, Conns
<1>. QED
    BY <1>1, <1>2, <1>3 DEF RefInv

\* A far end may send more only while its pipe still reads; the rest of what
\* it does can only make the invariant easier.
LEMMA PeerRefInv ==
    ASSUME IInv, RefInv, NEW c \in Conns, PeerStep(c)
    PROVE  RefInv'
<1>1. CASE PeerSend(c) \/ PeerFin(c) \/ PeerReset(c)
  <2>1. /\ UNCHANGED <<inputVars, handlerVars, sockVars, pipeVars, done>>
    BY <1>1 DEF PeerSend, PeerFin, PeerReset
  <2>2. ASSUME NEW d \in Conns PROVE PipeInv(d)'
    <3>1. CASE PeerSend(c) /\ d = c
      <4>1. ppc[d] \notin CopyOver
        BY <3>1 DEF PeerSend, CopyOver
      <4>. QED
        BY <2>1, <4>1 DEF RefInv, PipeInv, ProgressInv, ShutInv, CompleteInv,
                          FailedInv
    <3>2. CASE ~(PeerSend(c) /\ d = c)
      <4>1. sent'[d] = sent[d]
        BY <1>1, <3>2 DEF PeerSend, PeerFin, PeerReset, IInv, TypeOK
      <4>2. (fin[d] => fin'[d]) /\ \A e \in Conns : rst[e] => rst'[e]
        BY <1>1 DEF PeerSend, PeerFin, PeerReset, IInv, TypeOK
      <4>. QED
        BY <2>1, <4>1, <4>2, PipeFrame DEF RefInv
    <3>. QED
        BY <3>1, <3>2
  <2>3. ResultInv'
    BY <2>1, ResultFrame DEF RefInv, Sent
  <2>4. StartInv'
    BY <2>1 DEF RefInv, StartInv
  <2>. QED
    BY <2>2, <2>3, <2>4 DEF RefInv
<1>2. CASE PeerStall(c)
  <2>1. PICK d \in Conns, st \in {"write", "blocked"} :
            /\ ppc[d] \in {"write", "blocked"}
            /\ ppc' = [ppc EXCEPT ![d] = st]
    BY <1>2, DstConns DEF PeerStall
  <2>2. UNCHANGED <<copyFrame, perr, copyVars>>
    BY <1>2 DEF PeerStall
  <2>3. ASSUME NEW e \in Conns PROVE PipeInv(e)'
    <3>1. CASE e = d
      <4>1. ppc[e] \in {"write", "blocked"} /\ ppc'[e] \in {"write", "blocked"}
        BY <2>1, <3>1 DEF IInv, TypeOK
      <4>. QED
        BY <2>2, <4>1 DEF RefInv, PipeInv, ProgressInv, ShutInv, CompleteInv,
                          FailedInv, CopyOver
    <3>2. CASE e # d
      BY <2>1, <2>2, <3>2, PipeFrame DEF RefInv, IInv, TypeOK
    <3>. QED
        BY <3>1, <3>2
  <2>4. ResultInv'
    BY <2>1, <2>2, ResultFrame DEF RefInv, Sent, IInv, TypeOK
  <2>5. StartInv'
    BY <2>1, <2>2, PipeStart DEF RefInv, PipeStates
  <2>. QED
    BY <2>3, <2>4, <2>5 DEF RefInv
<1>. QED
    BY <1>1, <1>2 DEF PeerStep

\* What a pipe does before it exits keeps the results and the start: what
\* remains is its own invariant, and that it leaves the other pipe's alone.
LEMMA PipeRest ==
    ASSUME IInv, RefInv, NEW c \in Conns, ppc[c] \notin {"off", "exited"},
           NEW st \in PipeStates \ {"off", "exited"},
           ppc' = [ppc EXCEPT ![c] = st],
           UNCHANGED <<session, hpc, results, done, sent, fin, rst>>,
           PipeInv(c)',
           \A d \in Conns \ {c} :
               /\ perr'[d] = perr[d] /\ chunk'[d] = chunk[d]
               /\ fwd'[d] = fwd[d] /\ written'[d] = written[d]
               /\ payload'[d] = payload[d] /\ readShut'[d] = readShut[d]
               /\ writeShut'[Dst(d)] = writeShut[Dst(d)]
    PROVE  RefInv'
<1>1. ASSUME NEW d \in Conns \ {c} PROVE PipeInv(d)'
    BY PipeFrame DEF RefInv, IInv, TypeOK
<1>2. ResultInv'
    BY ResultFrame DEF RefInv, Sent, IInv, TypeOK
<1>3. StartInv'
    BY PipeStart DEF RefInv
<1>. QED
    BY <1>1, <1>2, <1>3 DEF RefInv

\* A Read that fails: without an error only at the end of what the source
\* sent, because nobody has shut the read side of a socket that is read.
LEMMA ReadRefInv ==
    ASSUME IInv, RefInv, NEW c \in Conns,
           \/ ReadData(c) \/ ReadEOF(c) \/ ReadBroken(c) \/ ReadTimesOut(c)
    PROVE  RefInv'
<1>1. CASE ReadData(c)
  <2>1. PICK n \in 1..(sent[c] - nread[c]) :
            /\ nread' = [nread EXCEPT ![c] = @ + n]
            /\ chunk' = [chunk EXCEPT ![c] = n]
    BY <1>1 DEF ReadData
  <2>2. /\ ppc[c] = "read" /\ ppc' = [ppc EXCEPT ![c] = "write"]
        /\ UNCHANGED <<copyFrame, fwd, written, payload, perr>>
    BY <1>1 DEF ReadData
  <2>3. chunk'[c] > 0 /\ ppc'[c] = "write"
    BY <2>1, <2>2 DEF IInv, TypeOK
  <2>4. PipeInv(c)'
    BY <2>2, <2>3 DEF RefInv, PipeInv, ProgressInv, ShutInv, CompleteInv,
                      FailedInv, CopyOver
  <2>. QED
    BY <2>1, <2>2, <2>4, PipeRest DEF PipeStates, IInv, TypeOK
<1>2. CASE ReadEOF(c) \/ ReadBroken(c) \/ ReadTimesOut(c)
  <2>1. PICK err \in Errors :
            /\ readFails(c, err)
            /\ err = "nil" => atEOF(c)
            /\ ~expectedPipeError(err) => rst[c]
    BY <1>2 DEF ReadEOF, ReadBroken, ReadTimesOut, Errors, expectedPipeError
  <2>2. /\ ppc[c] = "read" /\ ppc' = [ppc EXCEPT ![c] = "finishWrite"]
        /\ perr' = [perr EXCEPT ![c] = err]
        /\ chunk' = [chunk EXCEPT ![c] = 0]
        /\ UNCHANGED <<copyFrame, nread, fwd, written, payload>>
    BY <2>1 DEF readFails, copyEnds
  <2>3. ppc'[c] = "finishWrite" /\ perr'[c] = err
    BY <2>2 DEF IInv, TypeOK
  <2>4. ~readShut[c] /\ ~writeShut[Dst(c)]
    BY <2>2 DEF RefInv, PipeInv, ShutInv
  <2>5. CompleteInv(c)'
    <3>1. fwd[c] = nread[c] /\ written[c] = nread[c]
        BY <2>2 DEF IInv, TypeOK, CountInv
    <3>2. err = "nil" => fin[c] /\ nread[c] = sent[c]
        BY <2>1, <2>4 DEF atEOF
    <3>. QED
        BY <2>2, <2>3, <3>1, <3>2 DEF CompleteInv
  <2>6. FailedInv(c)'
    BY <2>1, <2>2, <2>3 DEF FailedInv
  <2>7. ProgressInv(c)' /\ ShutInv(c)'
    BY <2>2, <2>3, <2>4 DEF ProgressInv, ShutInv
  <2>8. PipeInv(c)'
    BY <2>5, <2>6, <2>7 DEF PipeInv
  <2>. QED
    BY <2>2, <2>8, PipeRest DEF PipeStates, IInv, TypeOK
<1>. QED
    BY <1>1, <1>2

\* A Write that fails always leaves an error, and an unexpected one only
\* after a reset: nobody else shuts the write side of its destination.
LEMMA WriteRefInv ==
    ASSUME IInv, RefInv, NEW c \in Conns, WriteAll(c) \/ WriteFails(c)
    PROVE  RefInv'
<1>0. ppc[c] \in {"write", "blocked"} => ~readShut[c] /\ ~writeShut[Dst(c)]
    BY DEF RefInv, PipeInv, ShutInv
<1>1. CASE WriteAll(c)
  <2>1. /\ ppc[c] = "write" /\ ppc' = [ppc EXCEPT ![c] = "read"]
        /\ fwd' = [fwd EXCEPT ![c] = @ + chunk[c]]
        /\ written' = [written EXCEPT ![c] = @ + chunk[c]]
        /\ chunk' = [chunk EXCEPT ![c] = 0]
        /\ UNCHANGED <<copyFrame, nread, perr>>
    BY <1>1 DEF WriteAll
  <2>2. \A d \in Conns \ {c} : payload'[d] = payload[d]
    BY <1>1 DEF WriteAll, IInv, TypeOK
  <2>3. ppc'[c] = "read"
    BY <2>1 DEF IInv, TypeOK
  <2>4. PipeInv(c)'
    BY <1>0, <2>1, <2>3 DEF PipeInv, ProgressInv, ShutInv, CompleteInv,
                            FailedInv, CopyOver
  <2>. QED
    BY <2>1, <2>2, <2>4, PipeRest DEF PipeStates, IInv, TypeOK
<1>2. CASE WriteFails(c)
  <2>1. PICK n \in 0..(chunk[c] - 1) : fwd' = [fwd EXCEPT ![c] = @ + n]
    BY <1>2 DEF WriteFails, writeFails
  <2>2. /\ ppc[c] \in {"write", "blocked"}
        /\ written' = [written EXCEPT ![c] = @ + 0]
        /\ UNCHANGED <<copyFrame, nread, payload>>
    BY <1>2 DEF WriteFails, writeFails
  <2>3. PICK err \in Errors \ {"nil"} :
            /\ copyEnds(c, err)
            /\ ~expectedPipeError(err) => rst[Dst(c)]
    BY <1>0, <1>2, <2>2
    DEF WriteFails, writeFails, Errors, expectedPipeError
  <2>4. /\ ppc' = [ppc EXCEPT ![c] = "finishWrite"]
        /\ perr' = [perr EXCEPT ![c] = err]
        /\ chunk' = [chunk EXCEPT ![c] = 0]
    BY <2>3 DEF copyEnds
  <2>5. ppc'[c] = "finishWrite" /\ perr'[c] = err
    BY <2>4 DEF IInv, TypeOK
  <2>6. FailedInv(c)'
    BY <2>2, <2>3, <2>5, DstConns DEF FailedInv
  <2>7. ProgressInv(c)' /\ ShutInv(c)' /\ CompleteInv(c)'
    BY <1>0, <2>2, <2>5 DEF ProgressInv, ShutInv, CompleteInv
  <2>8. PipeInv(c)'
    BY <2>6, <2>7 DEF PipeInv
  <2>. QED
    BY <2>1, <2>2, <2>4, <2>8, PipeRest DEF PipeStates, IInv, TypeOK
<1>. QED
    BY <1>1, <1>2

\* finishWriteSide and finishReadSide shut the halves that belong to the
\* pipe, and turn no error into one that logResult would not expect.
LEMMA FinishRefInv ==
    ASSUME IInv, RefInv, NEW c \in Conns,
           FinishWriteSide(c) \/ FinishReadSide(c)
    PROVE  RefInv'
<1>1. UNCHANGED shutFrame
    BY DEF FinishWriteSide, FinishReadSide, finishWrite, finishRead
<1>2. perr' = perr \/ perr' = [perr EXCEPT ![c] = IF @ = "nil" THEN "notconn"
                                                  ELSE @]
    BY DEF FinishWriteSide, FinishReadSide, finishWrite, finishRead,
           shutdownSide
<1>3. CASE FinishWriteSide(c)
  <2>1. /\ ppc[c] = "finishWrite" /\ ppc' = [ppc EXCEPT ![c] = "finishRead"]
        /\ UNCHANGED readShut
        /\ \/ UNCHANGED writeShut
           \/ writeShut' = [writeShut EXCEPT ![Dst(c)] = TRUE]
    BY <1>3 DEF FinishWriteSide, finishWrite, shutdownSide
  <2>2. ppc'[c] = "finishRead" /\ (perr'[c] = perr[c] \/ perr'[c] = "notconn")
    BY <1>2, <2>1 DEF IInv, TypeOK
  <2>3. PipeInv(c)'
    BY <1>1, <2>1, <2>2
    DEF RefInv, PipeInv, ProgressInv, ShutInv, CompleteInv, FailedInv,
        CopyOver, expectedPipeError
  <2>4. \A d \in Conns \ {c} : writeShut'[Dst(d)] = writeShut[Dst(d)]
    BY <2>1, DstConns DEF IInv, TypeOK
  <2>. QED
    BY <1>1, <1>2, <2>1, <2>3, <2>4, PipeRest DEF PipeStates, IInv, TypeOK
<1>4. CASE FinishReadSide(c)
  <2>1. /\ ppc[c] = "finishRead" /\ ppc' = [ppc EXCEPT ![c] = "report"]
        /\ UNCHANGED writeShut
        /\ \/ UNCHANGED readShut
           \/ readShut' = [readShut EXCEPT ![c] = TRUE]
    BY <1>4 DEF FinishReadSide, finishRead, shutdownSide
  <2>2. ppc'[c] = "report" /\ (perr'[c] = perr[c] \/ perr'[c] = "notconn")
    BY <1>2, <2>1 DEF IInv, TypeOK
  <2>3. PipeInv(c)'
    BY <1>1, <2>1, <2>2
    DEF RefInv, PipeInv, ProgressInv, ShutInv, CompleteInv, FailedInv,
        CopyOver, expectedPipeError
  <2>. QED
    BY <1>1, <1>2, <2>1, <2>3, PipeRest DEF PipeStates, IInv, TypeOK
<1>. QED
    BY <1>3, <1>4

\* The pipe that exits adds its account to the results, as the only one of
\* its direction: a pipe whose result is there has exited already.
LEMMA ReportRefInv ==
    ASSUME IInv, RefInv, NEW c \in Conns, Report(c)
    PROVE  RefInv'
<1>. DEFINE r == [dir |-> c, bytes |-> written[c], event |-> event(c),
                  err |-> perr[c]]
<1>1. /\ ppc[c] = "report" /\ ppc' = [ppc EXCEPT ![c] = "exited"]
      /\ done' = Append(done, r)
      /\ UNCHANGED <<handlerFrame, fd, wpc, handlerVars>>
    BY DEF Report
<1>2. ASSUME NEW d \in Conns PROVE PipeInv(d)'
  <2>1. CASE d = c
    <3>1. ppc'[d] = "exited"
        BY <1>1, <2>1 DEF IInv, TypeOK
    <3>. QED
        BY <1>1, <2>1, <3>1
        DEF RefInv, PipeInv, ProgressInv, ShutInv, CompleteInv, FailedInv,
            CopyOver
  <2>2. CASE d # c
    BY <1>1, <2>2, PipeFrame DEF RefInv, IInv, TypeOK
  <2>. QED
    BY <2>1, <2>2
<1>3. ResultInv'
  <2>1. results \in Seq(Results) /\ done \in Seq(Results) /\ r \in Results
    BY EventType DEF IInv, TypeOK, Results
  <2>2. /\ Sent \in Seq(Results) /\ Sent' = Append(Sent, r)
    <3>. HIDE DEF r
    <3>. QED
        BY <1>1, <2>1 DEF Sent
  <2>3. r.dir = c /\ r.event = event(c)
    OBVIOUS
  <2>4. /\ Len(Sent') = Len(Sent) + 1 /\ Sent'[Len(Sent) + 1] = r
        /\ Len(Sent) \in Nat /\ \A i \in 1..Len(Sent) : Sent'[i] = Sent[i]
    <3>. HIDE DEF r
    <3>. QED
        BY <2>1, <2>2
  <2>. HIDE DEF r
  <2>5. ASSUME NEW i \in 1..Len(Sent)
        PROVE  \E d \in Conns \ {c} : /\ Sent'[i].dir = d
                                      /\ ppc'[d] = "exited"
                                      /\ Sent'[i].event = event(d)
    <3>1. Sent[i].dir \in Conns /\ ppc[Sent[i].dir] = "exited"
          /\ Sent[i].event = event(Sent[i].dir)
        BY DEF RefInv, ResultInv
    <3>2. PICK d \in Conns : d = Sent[i].dir
        BY <3>1
    <3>3. d # c /\ ppc'[d] = "exited"
        BY <1>1, <3>1, <3>2 DEF IInv, TypeOK
    <3>4. Sent'[i].dir = d /\ Sent'[i].event = event(d)
        BY <2>4, <3>1, <3>2
    <3>. QED
        BY <3>3, <3>4
  <2>6. ASSUME NEW i \in 1..Len(Sent')
        PROVE  \E d \in Conns : /\ Sent'[i].dir = d /\ ppc'[d] = "exited"
                                /\ Sent'[i].event = event(d)
    <3>1. CASE i \in 1..Len(Sent)
        BY <2>5, <3>1
    <3>2. CASE i = Len(Sent) + 1
      <4>1. ppc'[c] = "exited"
        BY <1>1 DEF IInv, TypeOK
      <4>. QED
        BY <2>3, <2>4, <3>2, <4>1
    <3>. QED
        BY <2>4, <3>1, <3>2
  <2>7. ASSUME NEW i \in 1..Len(Sent') 
        PROVE  (Sent[i].dir \in Conns /\ ppc[Sent[i].dir] = "exited"
                /\ Sent[i].event = event(Sent[i].dir))'
    <3>1. PICK d \in Conns : /\ Sent'[i].dir = d /\ ppc'[d] = "exited"
                             /\ Sent'[i].event = event(d)
        BY <2>6
    <3>2. event(Sent[i].dir)' = event(d)
        BY <1>1, <3>1 DEF event
    <3>. QED
        BY <3>1, <3>2
  <2>8. ASSUME NEW i \in 1..Len(Sent'), NEW j \in 1..Len(Sent'), i # j
        PROVE  Sent'[i].dir # Sent'[j].dir
    <3>1. CASE i \in 1..Len(Sent) /\ j \in 1..Len(Sent)
        BY <2>4, <2>8, <3>1 DEF RefInv, ResultInv
    <3>2. CASE i = Len(Sent) + 1 /\ j \in 1..Len(Sent)
        BY <2>3, <2>4, <2>5, <3>2
    <3>3. CASE i \in 1..Len(Sent) /\ j = Len(Sent) + 1
        BY <2>3, <2>4, <2>5, <3>3
    <3>. QED
        BY <2>4, <2>8, <3>1, <3>2, <3>3
  <2>. QED
    BY <2>7, <2>8 DEF ResultInv
<1>4. StartInv'
    BY <1>1, PipeStart DEF RefInv, PipeStates
<1>. QED
    BY <1>2, <1>3, <1>4 DEF RefInv

LEMMA PipeRefInv ==
    ASSUME IInv, RefInv, NEW c \in Conns, PipeStep(c)
    PROVE  RefInv'
BY ReadRefInv, WriteRefInv, FinishRefInv, ReportRefInv DEF PipeStep

\* Taking the first result from the channel moves it, and no other.
LEMMA ReceiveSent ==
    ASSUME NEW S, NEW a \in Seq(S), NEW b \in Seq(S), b # <<>>
    PROVE  Append(a, Head(b)) \o Tail(b) = a \o b
<1>1. /\ Head(b) \in S /\ Tail(b) \in Seq(S) /\ Len(Tail(b)) = Len(b) - 1
      /\ Append(a, Head(b)) \in Seq(S) /\ Len(b) \in Nat \ {0}
    OBVIOUS
<1>. DEFINE x == Append(a, Head(b)) \o Tail(b)
            y == a \o b
<1>2. x \in Seq(S) /\ y \in Seq(S) /\ Len(x) = Len(y)
    BY <1>1
<1>3. ASSUME NEW i \in 1..Len(x) PROVE x[i] = y[i]
  <2>1. CASE i <= Len(a)
    BY <1>1, <2>1
  <2>2. CASE i = Len(a) + 1
    BY <1>1, <2>2
  <2>3. CASE i > Len(a) + 1
    <3>1. i - (Len(a) + 1) \in 1..Len(Tail(b))
        BY <1>1, <2>3
    <3>2. x[i] = Tail(b)[i - (Len(a) + 1)]
        BY <1>1, <2>3, <3>1
    <3>3. Tail(b)[i - (Len(a) + 1)] = b[i - Len(a)]
        BY <1>1, <3>1
    <3>4. y[i] = b[i - Len(a)]
        BY <1>1, <2>3
    <3>. QED
        BY <3>2, <3>3, <3>4
  <2>. QED
    BY <2>1, <2>2, <2>3
<1>. HIDE DEF x, y
<1>4. x = y
    BY <1>2, <1>3, SeqEqual
<1>. QED
    BY <1>4 DEF x, y

\* The handler: it starts both pipes at once, and it moves on from the
\* channel only with both results.
LEMMA HandlerRefInv ==
    ASSUME IInv, RefInv, HandlerStep
    PROVE  RefInv'
<1>1. CASE DialSucceeds
  <2>1. /\ hpc = "dial" /\ hpc' = "receive"
        /\ ppc' = [c \in Conns |-> "read"]
        /\ UNCHANGED <<handlerFrame, results, events, stop, done>>
    BY <1>1 DEF DialSucceeds
  <2>2. \A c \in Conns : ppc[c] = "off"
    BY <2>1 DEF IInv, ControlInv
  <2>3. ASSUME NEW c \in Conns PROVE PipeInv(c)'
    <3>1. ppc'[c] = "read" /\ ~readShut[c] /\ ~writeShut[Dst(c)]
        BY <2>1, <2>2 DEF RefInv, PipeInv, ShutInv
    <3>. QED
        BY <2>1, <3>1 DEF PipeInv, ProgressInv, ShutInv, CompleteInv,
                          FailedInv, CopyOver
  <2>4. ResultInv'
    BY <2>1, <2>2, ResultFrame DEF RefInv, Sent
  <2>5. StartInv'
    BY <2>1 DEF StartInv, Conns
  <2>. QED
    BY <2>3, <2>4, <2>5 DEF RefInv
<1>2. CASE ~DialSucceeds
  <2>1. UNCHANGED <<handlerFrame, ppc>>
    BY <1>2 DEF HandlerStep, Enter, DialFails, dialFails, ReceiveResult,
                StopWatcher, stopWatcher, CloseTarget, closeTarget, Produce,
                CloseClient
  <2>2. Sent' = Sent
    <3>1. CASE ReceiveResult
      BY <3>1, ReceiveSent DEF ReceiveResult, Sent, IInv, TypeOK
    <3>2. CASE ~ReceiveResult
      BY <1>2, <3>2
      DEF HandlerStep, Enter, DialFails, dialFails, StopWatcher, stopWatcher,
          CloseTarget, closeTarget, Produce, CloseClient, Sent
    <3>. QED
        BY <3>1, <3>2
  <2>3. ASSUME NEW c \in Conns PROVE PipeInv(c)'
    BY <2>1, PipeFrame DEF RefInv
  <2>4. ResultInv'
    BY <2>1, <2>2, ResultFrame DEF RefInv
  <2>5. StartInv'
    <3>1. CASE DialFails
      BY <2>1, <3>1
      DEF DialFails, dialFails, RefInv, StartInv, IInv, ControlInv
    <3>2. CASE CloseTarget
      <4>1. results' = results /\ Len(results) = 2
            /\ \A c \in Conns : ppc[c] = "exited"
        BY <3>2 DEF CloseTarget, closeTarget, IInv, ControlInv
      <4>2. results # <<>>
        BY <4>1
      <4>. QED
        BY <2>1, <4>1, <4>2 DEF RefInv, StartInv
    <3>3. CASE Enter \/ ReceiveResult \/ StopWatcher \/ Produce \/ CloseClient
      <4>1. hpc' # "produce"
        BY <3>3 DEF Enter, ReceiveResult, StopWatcher, stopWatcher, Produce,
                    CloseClient
      <4>. QED
        BY <2>1, <4>1 DEF RefInv, StartInv
    <3>. QED
        BY <1>2, <3>1, <3>2, <3>3 DEF HandlerStep
  <2>. QED
    BY <2>3, <2>4, <2>5 DEF RefInv
<1>. QED
    BY <1>1, <1>2

\* Every step preserves the invariant.
LEMMA StepRefInv == IInv /\ RefInv /\ [Next]_vars => RefInv'
<1>. SUFFICES ASSUME IInv, RefInv, [Next]_vars PROVE RefInv'
    OBVIOUS
<1>1. CASE WatcherStep \/ Cancel \/ UNCHANGED vars
  <2>1. UNCHANGED <<inputVars, handlerVars, readShut, writeShut, peerVars,
                    pipeVars, done>>
    BY <1>1 DEF WatcherStep, WatcherCancel, WatcherCloseTarget,
                WatcherStopped, Cancel, vars
  <2>2. ASSUME NEW c \in Conns PROVE PipeInv(c)'
    BY <2>1, PipeFrame DEF RefInv
  <2>3. ResultInv'
    BY <2>1, ResultFrame DEF RefInv, Sent
  <2>4. StartInv'
    BY <2>1 DEF RefInv, StartInv
  <2>. QED
    BY <2>2, <2>3, <2>4 DEF RefInv
<1>. QED
    BY <1>1, PeerRefInv, PipeRefInv, HandlerRefInv DEF Next, Ended

\* The invariant the refinement rests on holds in every reachable state.
THEOREM RefInvariance == Spec => []RefInv
BY InitRefInv, StepRefInv, SessionInvariance, PTL DEF Spec
-----------------------------------------------------------------------------
(* The refinement, step by step. *)

\* The part of the refinement mapping that is computed from control states.
Broken == [c \in Conns |-> ppc[c] \in CopyOver]
Verdict == [c \in Conns |-> verdictOf(c)]
Cap == IF session.producer /\ session.payloadSize > 0
       THEN session.payloadSize ELSE 0

\* The initial states map to initial states.
LEMMA InitRefines == Init => R!Init
<1>. SUFFICES ASSUME Init PROVE R!Init
    OBVIOUS
<1>1. session.payloadSize \in Int /\ session.producer \in BOOLEAN
    BY SessionsAssumption DEF Init
<1>2. Cap \in Nat
    BY <1>1 DEF Cap
<1>3. ppc["client"] = "off"
    BY DEF Init, Conns
<1>4. Broken = [d \in Conns |-> FALSE]
  <2>1. ASSUME NEW d \in Conns PROVE (ppc[d] \in CopyOver) = FALSE
    BY DEF Init, CopyOver
  <2>. QED
    BY <2>1 DEF Broken
<1>5. Verdict = [d \in Conns |-> "none"]
    BY DEF Init, Verdict, verdictOf
<1>6. R!Ends = Conns
    BY DEF R!Ends, Conns
<1>7. (ppc["client"] # "off") = FALSE
    BY <1>3
<1>. QED
    BY <1>2, <1>4, <1>5, <1>6, <1>7
    DEF Init, R!Init, Broken, Verdict, Cap, CopyOver

\* Steps that Relay does not see.
LEMMA StutterRefines ==
    ASSUME UNCHANGED <<session, sent, fin, rst, fwd, written, events>>,
           ppc'["client"] = "off" <=> ppc["client"] = "off",
           Broken' = Broken, Verdict' = Verdict
    PROVE  UNCHANGED R!relayVars
BY DEF R!relayVars, Broken, Verdict, CopyOver

\* A step of pipe c that neither ends the copy nor reports is invisible if
\* no count changes.
LEMMA PipeStutter ==
    ASSUME IInv, NEW c \in Conns, NEW st \in PipeStates,
           ppc' = [ppc EXCEPT ![c] = st],
           ppc[c] \notin {"off", "exited"}, st \notin {"off", "exited"},
           ppc[c] \in CopyOver <=> st \in CopyOver,
           \A d \in Conns \ {c} : perr'[d] = perr[d]
    PROVE  /\ Broken' = Broken /\ Verdict' = Verdict
           /\ ppc'["client"] = "off" <=> ppc["client"] = "off"
<1>1. ppc'[c] = st /\ \A d \in Conns \ {c} : ppc'[d] = ppc[d]
    BY DEF IInv, TypeOK
<1>2. ASSUME NEW d \in Conns
      PROVE  (ppc'[d] \in CopyOver) = (ppc[d] \in CopyOver)
    BY <1>1
<1>3. ASSUME NEW d \in Conns PROVE verdictOf(d)' = verdictOf(d)
    BY <1>1 DEF verdictOf
<1>4. Broken' = Broken
    BY <1>2 DEF Broken
<1>5. Verdict' = Verdict
    BY <1>3 DEF Verdict
<1>6. ppc'["client"] = "off" <=> ppc["client"] = "off"
    BY <1>1 DEF Conns
<1>. QED
    BY <1>4, <1>5, <1>6

\* The far ends do what the ends of Relay may do.
LEMMA PeerRefines ==
    ASSUME IInv, NEW c \in Conns, PeerStep(c)
    PROVE  R!Next \/ UNCHANGED R!relayVars
<1>1. CASE PeerSend(c)
  <2>1. R!Sends(c)
    BY <1>1 DEF PeerSend, R!Sends, R!endsFrame, verdictOf
  <2>. QED
    BY <2>1 DEF R!Next, R!Ends, Conns
<1>2. CASE PeerFin(c)
  <2>1. R!Finishes(c)
    BY <1>2 DEF PeerFin, R!Finishes, R!endsFrame, verdictOf
  <2>. QED
    BY <2>1 DEF R!Next, R!Ends, Conns
<1>3. CASE PeerReset(c)
  <2>1. R!Resets(c)
    BY <1>3 DEF PeerReset, R!Resets, R!endsFrame, verdictOf
  <2>. QED
    BY <2>1 DEF R!Next, R!Ends, Conns
<1>4. CASE PeerStall(c)
  <2>1. PICK d \in Conns, st \in {"write", "blocked"} :
            /\ ppc[d] \in {"write", "blocked"}
            /\ ppc' = [ppc EXCEPT ![d] = st]
    BY <1>4, DstConns DEF PeerStall
  <2>2. UNCHANGED <<copyFrame, perr, copyVars>>
    BY <1>4 DEF PeerStall
  <2>3. /\ Broken' = Broken /\ Verdict' = Verdict
        /\ ppc'["client"] = "off" <=> ppc["client"] = "off"
    BY <2>1, <2>2, PipeStutter DEF PipeStates, CopyOver
  <2>. QED
    BY <2>2, <2>3, StutterRefines
<1>. QED
    BY <1>1, <1>2, <1>3, <1>4 DEF PeerStep

\* The copy of pipe c ends: Relay breaks the direction off, with the n bytes
\* that got through and are not counted.
LEMMA BreakRefines ==
    ASSUME IInv, NEW c \in Conns, NEW n \in Nat, n <= sent[c] - fwd[c],
           ppc[c] \in {"read", "write", "blocked"},
           ppc' = [ppc EXCEPT ![c] = "finishWrite"],
           fwd' = [fwd EXCEPT ![c] = @ + n],
           \A d \in Conns \ {c} : perr'[d] = perr[d],
           UNCHANGED <<session, sent, fin, rst, written, events>>
    PROVE  R!Break(c)
<1>1. ppc'[c] = "finishWrite" /\ \A d \in Conns \ {c} : ppc'[d] = ppc[d]
    BY DEF IInv, TypeOK
<1>2. /\ ppc["client"] # "off" /\ ppc'["client"] # "off"
  <2>1. hpc = "receive"
    BY PipeWhileReceive
  <2>2. ppc["client"] # "off"
    BY <2>1 DEF IInv, ControlInv, Conns
  <2>. QED
    BY <1>1, <2>2 DEF Conns
<1>3. Verdict' = Verdict
  <2>1. ASSUME NEW d \in Conns PROVE verdictOf(d)' = verdictOf(d)
    BY <1>1 DEF verdictOf
  <2>. QED
    BY <2>1 DEF Verdict
<1>4. Broken' = [Broken EXCEPT ![c] = TRUE] /\ ~Broken[c]
  <2>1. ASSUME NEW d \in Conns \ {c}
        PROVE  (ppc'[d] \in CopyOver) = (ppc[d] \in CopyOver)
    BY <1>1
  <2>2. (ppc'[c] \in CopyOver) = TRUE /\ ppc[c] \notin CopyOver
    BY <1>1 DEF CopyOver
  <2>. QED
    BY <2>1, <2>2 DEF Broken
<1>5. n \in 0..(sent[c] - fwd[c])
    BY DEF IInv, TypeOK, CountInv
<1>. QED
    BY <1>2, <1>3, <1>4, <1>5 DEF R!Break, Broken, Verdict, CopyOver

\* io.Copy: a Read is invisible, a Write delivers, an error breaks off.
LEMMA CopyRefines ==
    ASSUME IInv, RefInv, NEW c \in Conns,
           \/ ReadData(c) \/ ReadEOF(c) \/ ReadBroken(c) \/ ReadTimesOut(c)
           \/ WriteAll(c) \/ WriteFails(c)
    PROVE  R!Next \/ UNCHANGED R!relayVars
<1>1. CASE ReadData(c)
  <2>1. /\ ppc[c] = "read" /\ ppc' = [ppc EXCEPT ![c] = "write"]
        /\ UNCHANGED <<copyFrame, fwd, written, payload, perr>>
    BY <1>1 DEF ReadData
  <2>2. /\ Broken' = Broken /\ Verdict' = Verdict
        /\ ppc'["client"] = "off" <=> ppc["client"] = "off"
    BY <2>1, PipeStutter DEF PipeStates, CopyOver
  <2>. QED
    BY <2>1, <2>2, StutterRefines
<1>2. CASE ReadEOF(c) \/ ReadBroken(c) \/ ReadTimesOut(c)
  <2>1. PICK err : readFails(c, err)
    BY <1>2 DEF ReadEOF, ReadBroken, ReadTimesOut
  <2>2. /\ ppc[c] = "read" /\ ppc' = [ppc EXCEPT ![c] = "finishWrite"]
        /\ perr' = [perr EXCEPT ![c] = err]
        /\ UNCHANGED <<copyFrame, nread, fwd, written, payload>>
    BY <2>1 DEF readFails, copyEnds
  <2>3. fwd' = [fwd EXCEPT ![c] = @ + 0] /\ 0 <= sent[c] - fwd[c]
    BY <2>2 DEF IInv, TypeOK, CountInv
  <2>4. \A d \in Conns \ {c} : perr'[d] = perr[d]
    BY <2>2 DEF IInv, TypeOK
  <2>5. R!Break(c)
    BY <2>2, <2>3, <2>4, BreakRefines
  <2>. QED
    BY <2>5 DEF R!Next, R!Ends, Conns
<1>3. CASE WriteAll(c)
  <2>1. /\ ppc[c] = "write" /\ ppc' = [ppc EXCEPT ![c] = "read"]
        /\ ~rst[Dst(c)]
        /\ fwd' = [fwd EXCEPT ![c] = @ + chunk[c]]
        /\ written' = [written EXCEPT ![c] = @ + chunk[c]]
        /\ UNCHANGED <<copyFrame, nread, perr>>
    BY <1>3 DEF WriteAll
  <2>2. /\ Broken' = Broken /\ Verdict' = Verdict
        /\ ppc'["client"] = "off" <=> ppc["client"] = "off"
    BY <2>1, PipeStutter DEF PipeStates, CopyOver
  <2>3. ppc["client"] # "off"
    <3>1. hpc = "receive"
        BY <2>1, PipeWhileReceive
    <3>. QED
        BY <3>1 DEF IInv, ControlInv, Conns
  <2>4. chunk[c] \in 1..(sent[c] - fwd[c])
    BY <2>1 DEF IInv, TypeOK, CountInv, RefInv, PipeInv, ProgressInv
  <2>5. ~Broken[c]
    BY <2>1 DEF Broken, CopyOver
  <2>6. R!Receiver(c) = Dst(c)
    BY DEF R!Receiver, Dst
  <2>7. R!Deliver(c)
    BY <2>1, <2>2, <2>3, <2>4, <2>5, <2>6
    DEF R!Deliver, Broken, Verdict, CopyOver
  <2>. QED
    BY <2>7 DEF R!Next, R!Ends, Conns
<1>4. CASE WriteFails(c)
  <2>1. PICK n \in 0..(chunk[c] - 1), err \in Errors :
            /\ fwd' = [fwd EXCEPT ![c] = @ + n]
            /\ copyEnds(c, err)
    BY <1>4 DEF WriteFails, writeFails, Errors
  <2>2. /\ ppc[c] \in {"write", "blocked"}
        /\ written' = [written EXCEPT ![c] = @ + 0]
        /\ UNCHANGED <<copyFrame, nread, payload>>
    BY <1>4 DEF WriteFails, writeFails
  <2>3. written' = written
    BY <2>2 DEF IInv, TypeOK
  <2>4. /\ ppc' = [ppc EXCEPT ![c] = "finishWrite"]
        /\ \A d \in Conns \ {c} : perr'[d] = perr[d]
    BY <2>1 DEF copyEnds, IInv, TypeOK
  <2>5. n \in Nat /\ n <= sent[c] - fwd[c]
    BY <2>1, <2>2 DEF IInv, TypeOK, CountInv
  <2>6. R!Break(c)
    BY <2>1, <2>2, <2>3, <2>4, <2>5, BreakRefines
  <2>. QED
    BY <2>6 DEF R!Next, R!Ends, Conns
<1>. QED
    BY <1>1, <1>2, <1>3, <1>4

\* The pipe reports: its error decides the verdict, and what Relay demands
\* of that verdict is what the invariant says of the error.
LEMMA ReportRefines ==
    ASSUME IInv, RefInv, NEW c \in Conns, Report(c)
    PROVE  R!Judge(c)
<1>1. /\ ppc[c] = "report" /\ ppc' = [ppc EXCEPT ![c] = "exited"]
      /\ UNCHANGED <<handlerFrame, fd, wpc, handlerVars>>
    BY DEF Report
<1>2. ppc'[c] = "exited" /\ \A d \in Conns \ {c} : ppc'[d] = ppc[d]
    BY <1>1 DEF IInv, TypeOK
<1>3. Broken' = Broken /\ Broken[c]
  <2>1. ASSUME NEW d \in Conns
        PROVE  (ppc'[d] \in CopyOver) = (ppc[d] \in CopyOver)
    BY <1>1, <1>2 DEF CopyOver
  <2>2. ppc[c] \in CopyOver
    BY <1>1 DEF CopyOver
  <2>. QED
    BY <2>1, <2>2 DEF Broken
<1>4. (ppc'["client"] # "off") = (ppc["client"] # "off")
    BY <1>1, <1>2 DEF Conns
<1>. DEFINE v == IF perr[c] = "nil" THEN "complete"
                 ELSE IF ~expectedPipeError(perr[c]) THEN "failed" ELSE "cut"
<1>5. Verdict' = [Verdict EXCEPT ![c] = v] /\ Verdict[c] = "none"
  <2>1. ASSUME NEW d \in Conns \ {c} PROVE verdictOf(d)' = verdictOf(d)
    BY <1>1, <1>2 DEF verdictOf
  <2>2. verdictOf(c)' = v /\ verdictOf(c) = "none"
    BY <1>1, <1>2 DEF verdictOf, expectedPipeError
  <2>. HIDE DEF v
  <2>. QED
    BY <2>1, <2>2 DEF Verdict
<1>6. v = "complete" => fin[c] /\ fwd[c] = sent[c] /\ written[c] = sent[c]
    BY <1>1 DEF RefInv, PipeInv, CompleteInv, CopyOver
<1>7. v = "failed" => \E e \in Conns : rst[e]
    BY <1>1 DEF RefInv, PipeInv, FailedInv, CopyOver
<1>8. v \in {"complete", "cut", "failed"} /\ R!Ends = Conns
    BY DEF R!Ends, Conns
<1>. HIDE DEF v
<1>. QED
    BY <1>1, <1>3, <1>4, <1>5, <1>6, <1>7, <1>8
    DEF R!Judge, Broken, Verdict, CopyOver

\* The rest of a pipe: half-closing is invisible.
LEMMA PipeRefines ==
    ASSUME IInv, RefInv, NEW c \in Conns, PipeStep(c)
    PROVE  R!Next \/ UNCHANGED R!relayVars
<1>1. CASE FinishWriteSide(c) \/ FinishReadSide(c)
  <2>1. PICK st \in {"finishRead", "report"} :
            /\ ppc[c] \in {"finishWrite", "finishRead"}
            /\ ppc' = [ppc EXCEPT ![c] = st]
            /\ UNCHANGED shutFrame
    BY <1>1 DEF FinishWriteSide, FinishReadSide, finishWrite, finishRead
  <2>2. \A d \in Conns \ {c} : perr'[d] = perr[d]
    BY <1>1 DEF FinishWriteSide, FinishReadSide, finishWrite, finishRead,
                shutdownSide, IInv, TypeOK
  <2>3. /\ Broken' = Broken /\ Verdict' = Verdict
        /\ ppc'["client"] = "off" <=> ppc["client"] = "off"
    BY <2>1, <2>2, PipeStutter DEF PipeStates, CopyOver
  <2>. QED
    BY <2>1, <2>3, StutterRefines
<1>2. CASE Report(c)
    BY <1>2, ReportRefines DEF R!Next, R!Ends, Conns
<1>. QED
    BY <1>1, <1>2, CopyRefines DEF PipeStep

\* What a pipe reports of its direction is what Relay's report holds of it:
\* the sample is the prefix the cap allows, the count is final.
LEMMA EventIsEntry ==
    ASSUME IInv, CaptureIsPrefix, NEW c \in Conns
    PROVE  event(c) = R!Entry(c)
<1>1. /\ session.payloadSize \in Int /\ session.producer \in BOOLEAN
      /\ written[c] \in Nat
    BY SessionsAssumption DEF IInv, TypeOK
<1>. DEFINE n == IF written[c] <= Cap THEN written[c] ELSE Cap
<1>2. n = SampleSize(c) /\ n \in Nat
    BY <1>1 DEF SampleSize, Cap, Least
<1>3. payload[c] = [i \in 1..n |-> i] /\ Len(payload[c]) = n
  <2>1. payload[c] = Bytes(0, n)
    BY <1>2 DEF CaptureIsPrefix
  <2>2. Bytes(0, n) = [i \in 1..n |-> i]
    BY <1>2 DEF Bytes
  <2>. QED
    BY <1>2, <2>1, <2>2, BytesType
<1>4. ~session.producer => n = 0
    BY <1>1 DEF Cap
<1>5. payload[c] = <<>> <=> n = 0
    BY <1>2, <1>3
<1>6. R!Entry(c) = IF n = 0 THEN <<>>
                   ELSE <<[dir |-> c, payload |-> [i \in 1..n |-> i],
                           bytes |-> written[c], truncated |-> written[c] > n]>>
    BY DEF R!Entry, Cap
<1>. HIDE DEF n
<1>7. CASE n = 0
    BY <1>5, <1>6, <1>7 DEF event
<1>8. CASE n # 0
    BY <1>1, <1>3, <1>4, <1>5, <1>6, <1>8 DEF event
<1>. QED
    BY <1>7, <1>8

\* ProduceTCP is Relay's report.
LEMMA ProduceRefines ==
    ASSUME IInv, RefInv, CaptureIsPrefix, Produce
    PROVE  R!MakeReport
<1>1. /\ hpc = "produce"
      /\ events' = Append(events, IF session.producer
                                  THEN eventsFromResults(results) ELSE <<>>)
      /\ UNCHANGED <<handlerFrame, ppc>>
    BY DEF Produce
<1>2. events = <<>> /\ done = <<>>
    BY <1>1 DEF IInv, ControlInv
<1>3. R!Ends = Conns /\ \A d \in Conns : R!Receiver(d) = Dst(d)
    BY DEF R!Ends, R!Receiver, Conns, Dst
<1>4. Broken' = Broken /\ Verdict' = Verdict
    BY <1>1 DEF Broken, Verdict, verdictOf
<1>5. ppc["client"] # "off" => \A d \in Conns : Verdict[d] # "none"
  <2>1. ASSUME ppc["client"] # "off", NEW d \in Conns PROVE ppc[d] = "exited"
    BY <1>1, <2>1 DEF RefInv, StartInv, Conns
  <2>2. ASSUME NEW d \in Conns, ppc[d] = "exited"
        PROVE  verdictOf(d) # "none"
    BY <2>2 DEF verdictOf
  <2>. QED
    BY <2>1, <2>2 DEF Verdict
<1>6. \E d \in Conns : events' = <<R!Entry(d) \o R!Entry(Dst(d))>>
  <2>1. \A d \in Conns : event(d) = R!Entry(d)
    BY EventIsEntry
  <2>2. CASE results = <<>>
    <3>1. \A d \in Conns : written[d] = 0
        BY <1>1, <2>2 DEF RefInv, StartInv, PipeInv, ProgressInv
    <3>2. ASSUME NEW d \in Conns PROVE R!Entry(d) = <<>>
      <4>1. session.payloadSize \in Int /\ session.producer \in BOOLEAN
        BY SessionsAssumption DEF IInv, TypeOK
      <4>2. 0 <= Cap
        BY <4>1 DEF Cap
      <4>. QED
        BY <3>1, <4>2 DEF R!Entry, Cap
    <3>3. events' = <<<<>>>>
        BY <1>1, <1>2, <2>2 DEF eventsFromResults
    <3>4. "client" \in Conns
        BY DEF Conns
    <3>. QED
        BY <3>2, <3>3, <3>4, DstConns
  <2>3. CASE results # <<>>
    <3>1. Len(results) = 2 /\ results \in Seq(Results)
        BY <1>1, <2>3 DEF IInv, TypeOK, ControlInv
    <3>2. Sent = results
        BY <1>2, <3>1 DEF Sent
    <3>3. /\ \A i \in {1, 2} : /\ results[i].dir \in Conns
                               /\ results[i].event = event(results[i].dir)
          /\ results[1].dir # results[2].dir
      <4>1. 1 \in 1..Len(Sent) /\ 2 \in 1..Len(Sent)
        BY <3>1, <3>2
      <4>2. /\ Sent[1].dir \in Conns /\ Sent[1].event = event(Sent[1].dir)
            /\ Sent[2].dir \in Conns /\ Sent[2].event = event(Sent[2].dir)
        BY <4>1 DEF RefInv, ResultInv
      <4>3. Sent[1].dir # Sent[2].dir
        BY <4>1 DEF RefInv, ResultInv
      <4>. QED
        BY <3>2, <4>2, <4>3
    <3>4. PICK d \in Conns : d = results[1].dir
        BY <3>3
    <3>5. results[2].dir = Dst(d)
        BY <3>3, <3>4 DEF Dst, Conns
    <3>6. results[1].event = R!Entry(d) /\ results[2].event = R!Entry(Dst(d))
        BY <2>1, <3>3, <3>4, <3>5
    <3>7. eventsFromResults(results) = R!Entry(d) \o R!Entry(Dst(d))
        BY <2>3, <3>6 DEF eventsFromResults
    <3>8. CASE session.producer
      <4>1. eventsFromResults(results) \in Seq(Captures)
        BY <3>1, EventsType
      <4>2. events' = <<eventsFromResults(results)>>
        BY <1>1, <1>2, <3>8, <4>1
      <4>. QED
        BY <3>7, <4>2
    <3>9. CASE ~session.producer
      <4>1. R!Entry(d) = <<>> /\ R!Entry(Dst(d)) = <<>>
        <5>1. event(d) = <<>> /\ event(Dst(d)) = <<>>
            BY <3>9 DEF event
        <5>. QED
            BY <2>1, <5>1, DstConns
      <4>2. events' = <<<<>>>>
        BY <1>1, <1>2, <3>9
      <4>. QED
        BY <4>1, <4>2
    <3>. QED
        BY <3>8, <3>9
  <2>. QED
    BY <2>2, <2>3
<1>. QED
    BY <1>1, <1>2, <1>3, <1>4, <1>5, <1>6
    DEF R!MakeReport, Broken, Verdict, CopyOver

\* The handler: starting the pipes is Relay's Connect, and apart from the
\* report the rest is invisible.
LEMMA HandlerRefines ==
    ASSUME IInv, RefInv, CaptureIsPrefix, HandlerStep
    PROVE  R!Next \/ UNCHANGED R!relayVars
<1>1. CASE DialSucceeds
  <2>1. /\ hpc = "dial" /\ ppc' = [c \in Conns |-> "read"]
        /\ UNCHANGED <<handlerFrame, events>>
    BY <1>1 DEF DialSucceeds
  <2>2. events = <<>> /\ \A c \in Conns : ppc[c] = "off"
    BY <2>1 DEF IInv, ControlInv
  <2>3. ppc["client"] = "off" /\ ppc'["client"] = "read"
    BY <2>1, <2>2 DEF Conns
  <2>4. Broken' = Broken
    <3>1. ASSUME NEW d \in Conns
          PROVE  (ppc'[d] \in CopyOver) = (ppc[d] \in CopyOver)
        BY <2>1, <2>2 DEF CopyOver
    <3>. QED
        BY <3>1 DEF Broken
  <2>5. Verdict' = Verdict
    <3>1. ASSUME NEW d \in Conns PROVE verdictOf(d)' = verdictOf(d)
        BY <2>1, <2>2 DEF verdictOf
    <3>. QED
        BY <3>1 DEF Verdict
  <2>6. R!Connect
    BY <2>1, <2>2, <2>3, <2>4, <2>5
    DEF R!Connect, Broken, Verdict, CopyOver
  <2>. QED
    BY <2>6 DEF R!Next
<1>2. CASE Produce
    BY <1>2, ProduceRefines DEF R!Next
<1>3. CASE ~DialSucceeds /\ ~Produce
  <2>1. UNCHANGED <<handlerFrame, ppc, events>>
    BY <1>3 DEF HandlerStep, Enter, DialFails, dialFails, ReceiveResult,
                StopWatcher, stopWatcher, CloseTarget, closeTarget,
                CloseClient
  <2>2. Broken' = Broken /\ Verdict' = Verdict
    BY <2>1 DEF Broken, Verdict, verdictOf
  <2>. QED
    BY <2>1, <2>2, StutterRefines
<1>. QED
    BY <1>1, <1>2, <1>3

\* Every step of the forwarder is a step of Relay, or none.
LEMMA StepRefines ==
    IInv /\ RefInv /\ CaptureIsPrefix /\ [Next]_vars => [R!Next]_(R!relayVars)
<1>. SUFFICES ASSUME IInv, RefInv, CaptureIsPrefix, [Next]_vars
              PROVE  R!Next \/ UNCHANGED R!relayVars
    OBVIOUS
<1>1. CASE WatcherStep \/ Cancel \/ UNCHANGED vars
  <2>1. UNCHANGED <<inputVars, events, peerVars, pipeVars>>
    BY <1>1 DEF WatcherStep, WatcherCancel, WatcherCloseTarget,
                WatcherStopped, Cancel, vars
  <2>2. Broken' = Broken /\ Verdict' = Verdict
    BY <2>1 DEF Broken, Verdict, verdictOf
  <2>. QED
    BY <2>1, <2>2, StutterRefines
<1>. QED
    BY <1>1, PeerRefines, PipeRefines, HandlerRefines DEF Next, Ended

\* proxy_tcp.go implements Relay: whatever the far ends, the deadlines and a
\* cancellation do, bytes are delivered in order, an error-free pipe has
\* delivered and counted everything its source sent, an unexpected error
\* means a reset, and one report with the final samples and counts of both
\* directions comes after both pipes.
THEOREM SessionImplementsRelay == Spec => ImplementsRelay
<1>1. Init => R!Init
    BY InitRefines
<1>2. IInv /\ RefInv /\ CaptureIsPrefix /\ [Next]_vars
          => [R!Next]_(R!relayVars)
    BY StepRefines
<1>. QED
    BY <1>1, <1>2, SessionInvariance, RefInvariance, SessionCapture, PTL
    DEF Spec, ImplementsRelay, R!Spec

-----------------------------------------------------------------------------
(* Nobody waits for what cannot come.                                      *)
(*                                                                         *)
(* That a session ends needs fairness and is left to TLC.  What it rests   *)
(* on is an invariant: whoever waits, for room in the channel, for a       *)
(* result, for a socket or for its stop signal, waits for someone who can  *)
(* still give it.                                                          *)

\* The watcher is told to stop after the results are in and not before, and
\* leaves earlier only once it has closed both sockets.
WatchInv ==
    /\ hpc \in {"enter", "dial"} => wpc = "off"
    /\ hpc \in {"enter", "dial", "receive", "stopWatcher"} => ~stop
    /\ hpc = "receive" => wpc # "off"
    /\ hpc = "closeTarget" => stop
    /\ hpc \in {"produce", "closeClient", "returned"} => wpc = "off" \/ stop
    /\ wpc = "closeTarget" => fd["client"] = "closed"
    /\ hpc = "receive" /\ wpc = "exited" => \A c \in Conns : fd[c] = "closed"

\* A pipe with a result finds room for it; a handler that waits for results
\* has one there or a pipe that still runs, and as long as it waits a
\* cancellation is still listened for, being carried out, or has closed both
\* sockets under the pipes; a watcher left when the handler unwinds is told.
WaitsForSomething ==
    /\ \A c \in Conns : ppc[c] = "report" => Len(done) < 2
    /\ hpc = "receive" =>
           /\ done # <<>> \/ \E c \in Conns : ppc[c] \notin {"off", "exited"}
           /\ \/ wpc \in {"select", "closeTarget"}
              \/ \A c \in Conns : fd[c] = "closed"
    /\ hpc \in {"closeTarget", "produce", "closeClient", "returned"} =>
           wpc # "select" \/ stop

LEMMA WatchStep == IInv /\ WatchInv /\ [Next]_vars => WatchInv'
<1>. SUFFICES ASSUME IInv, WatchInv, [Next]_vars PROVE WatchInv'
    OBVIOUS
<1>a. /\ hpc \in HandlerStates /\ wpc \in {"off", "select", "closeTarget", "exited"}
      /\ fd \in [Conns -> {"none", "open", "closed"}] /\ stop \in BOOLEAN
    BY DEF IInv, TypeOK
<1>b. Conns = {"client", "target"}
    BY DEF Conns
<1>1. CASE \/ \E c \in Conns : PeerStep(c) \/ PipeStep(c)
           \/ Cancel \/ UNCHANGED vars
  <2>1. UNCHANGED <<hpc, wpc, stop, fd>>
    <3>1. ASSUME NEW c \in Conns, PeerStep(c) PROVE UNCHANGED <<hpc, wpc, stop, fd>>
        BY <3>1 DEF PeerStep, PeerSend, PeerFin, PeerReset, PeerStall, peerFrame, copyFrame
    <3>2. ASSUME NEW c \in Conns, PipeStep(c) PROVE UNCHANGED <<hpc, wpc, stop, fd>>
        BY <3>2 DEF PipeStep, ReadData, ReadEOF, ReadBroken, ReadTimesOut, readFails,
                    WriteAll, WriteFails, writeFails, FinishWriteSide, finishWrite,
                    FinishReadSide, finishRead, Report, copyFrame, shutFrame, handlerFrame
    <3>. QED
        BY <1>1, <3>1, <3>2 DEF Cancel, vars
  <2>. QED
    BY <2>1 DEF WatchInv
<1>2. CASE WatcherStep
  <2>1. UNCHANGED <<hpc, stop>>
    BY <1>2 DEF WatcherStep, WatcherCancel, WatcherCloseTarget, WatcherStopped, watcherFrame
  <2>2. CASE WatcherCancel
    BY <1>a, <1>b, <2>1, <2>2 DEF WatcherCancel, closeConn, WatchInv
  <2>3. CASE WatcherCloseTarget
    BY <1>a, <1>b, <2>1, <2>3 DEF WatcherCloseTarget, closeConn, WatchInv
  <2>4. CASE WatcherStopped
    BY <1>a, <1>b, <2>1, <2>4 DEF WatcherStopped, WatchInv
  <2>. QED
    BY <1>2, <2>2, <2>3, <2>4 DEF WatcherStep
<1>3. CASE HandlerStep
  <2>1. CASE Enter \/ DialFails \/ Produce
    BY <1>a, <2>1 DEF Enter, DialFails, dialFails, Produce, WatchInv, HandlerStates
  <2>2. CASE DialSucceeds
    BY <1>a, <1>b, <2>2 DEF DialSucceeds, WatchInv
  <2>3. CASE ReceiveResult
    BY <1>a, <2>3 DEF ReceiveResult, WatchInv
  <2>4. CASE StopWatcher
    BY <1>a, <2>4 DEF StopWatcher, stopWatcher, WatchInv
  <2>5. CASE CloseTarget
    BY <1>a, <1>b, <2>5 DEF CloseTarget, closeTarget, closeConn, WatchInv
  <2>6. CASE CloseClient
    BY <1>a, <1>b, <2>6 DEF CloseClient, closeConn, WatchInv
  <2>. QED
    BY <1>3, <2>1, <2>2, <2>3, <2>4, <2>5, <2>6 DEF HandlerStep
<1>. QED
    BY <1>1, <1>2, <1>3 DEF Next, Ended

\* No session of the forwarder comes to a stop with everyone waiting for
\* everyone: the two places of the channel are enough for both pipes, the
\* second <-done of pipeBothWays always has a sender, a cancellation reaches
\* the pipes for as long as the handler waits for them, and the watcher does
\* not miss its stop signal.
THEOREM SessionNeverWaitsInVain == Spec => []WaitsForSomething
<1>1. Init => WatchInv
    BY DEF Init, WatchInv
<1>2. IInv /\ WatchInv /\ [Next]_vars => WatchInv'
    BY WatchStep
<1>3. ASSUME IInv, WatchInv PROVE WaitsForSomething
  <2>0. "client" \in Conns /\ "target" \in Conns /\ Conns = {"client", "target"}
    BY DEF Conns
  <2>a. Len(results) \in Nat /\ Len(done) \in Nat
    BY <1>3 DEF IInv, TypeOK
  <2>1. ASSUME hpc = "receive"
        PROVE  /\ Len(results) <= 1 /\ \A c \in Conns : ppc[c] # "off"
               /\ Len(results) + Len(done) = Exited("client") + Exited("target")
    BY <1>3, <2>1 DEF IInv, ControlInv
  <2>2. ASSUME NEW c \in Conns, ppc[c] = "report" PROVE Len(done) < 2
    <3>1. hpc = "receive"
        BY <1>3, <2>2, PipeWhileReceive
    <3>2. Exited("client") + Exited("target") <= 1
        BY <2>0, <2>2 DEF Exited
    <3>. QED
        BY <2>a, <2>1, <3>1, <3>2 DEF Exited
  <2>3. ASSUME hpc = "receive"
        PROVE  done # <<>> \/ \E c \in Conns : ppc[c] \notin {"off", "exited"}
    <3>. SUFFICES ASSUME \A c \in Conns : ppc[c] \in {"off", "exited"}
                  PROVE  done # <<>>
        OBVIOUS
    <3>1. ppc["client"] = "exited" /\ ppc["target"] = "exited"
        BY <2>0, <2>1, <2>3
    <3>2. Len(results) + Len(done) = 2 /\ Len(results) <= 1
        BY <2>1, <2>3, <3>1 DEF Exited
    <3>3. Len(done) # 0
        BY <2>a, <3>2
    <3>. QED
        BY <3>3
  <2>4. ASSUME hpc = "receive"
        PROVE  wpc \in {"select", "closeTarget"} \/ \A c \in Conns : fd[c] = "closed"
    BY <1>3, <2>4 DEF IInv, TypeOK, WatchInv
  <2>5. hpc \in {"closeTarget", "produce", "closeClient", "returned"} =>
            wpc # "select" \/ stop
    BY <1>3 DEF WatchInv
  <2>. QED
    BY <2>2, <2>3, <2>4, <2>5 DEF WaitsForSomething
<1>. QED
    BY <1>1, <1>2, <1>3, SessionInvariance, PTL DEF Spec

-----------------------------------------------------------------------------
(* Sessions run out. *)

\* What a pipe still has to do: bytes to be read, a chunk to be written, the
\* shutdowns and the report.
PipeRank(p) ==
    CASE p = "off" -> 6
      [] p = "read" -> 4
      [] p \in {"write", "blocked"} -> 5
      [] p = "finishWrite" -> 3
      [] p = "finishRead" -> 2
      [] p = "report" -> 1
      [] OTHER -> 0
PipeWork(c) == 2 * (MaxBytes[c] - nread[c]) + PipeRank(ppc[c])

WatcherWork ==
    CASE wpc = "off" -> 3 [] wpc = "select" -> 2 [] wpc = "closeTarget" -> 1
      [] OTHER -> 0

HandlerWork ==
    CASE hpc = "enter" -> 9
      [] hpc = "dial" -> 8
      [] hpc = "receive" -> 7 - Len(results)
      [] hpc = "stopWatcher" -> 4
      [] hpc = "closeTarget" -> 3
      [] hpc = "produce" -> 2
      [] hpc = "closeClient" -> 1
      [] OTHER -> 0

SessionWork ==
    PipeWork("client") + PipeWork("target") + WatcherWork + HandlerWork

\* A step of one of the four goroutines of a session.
GoroutineStep == HandlerStep \/ WatcherStep \/ \E c \in Conns : PipeStep(c)

\* Each of them takes from the work, and neither the far ends, however often
\* they stall and go on, nor a cancellation add to it.
SessionShrinks ==
    [][/\ SessionWork \in Nat /\ SessionWork' \in Nat
       /\ SessionWork' <= SessionWork
       /\ GoroutineStep => SessionWork' < SessionWork]_vars

\* A far end never sends more than it may.
LEMMA SentStep ==
    ASSUME IInv, \A c \in Conns : sent[c] <= MaxBytes[c], [Next]_vars
    PROVE  \A c \in Conns : sent'[c] <= MaxBytes[c]
<1>1. sent \in [Conns -> Nat] /\ MaxBytes \in [Conns -> Nat]
    BY MaxBytesAssumption DEF IInv, TypeOK
<1>2. ASSUME NEW c \in Conns, PeerSend(c) PROVE \A d \in Conns : sent'[d] <= MaxBytes[d]
    BY <1>1, <1>2 DEF PeerSend
<1>3. ASSUME ~\E c \in Conns : PeerSend(c) PROVE UNCHANGED sent
  <2>1. ASSUME NEW c \in Conns, PeerStep(c) PROVE UNCHANGED sent
    BY <1>3, <2>1 DEF PeerStep, PeerFin, PeerReset, PeerStall, copyFrame
  <2>2. ASSUME NEW c \in Conns, PipeStep(c) PROVE UNCHANGED sent
    BY <2>2 DEF PipeStep, ReadData, ReadEOF, ReadBroken, ReadTimesOut, readFails,
                WriteAll, WriteFails, writeFails, FinishWriteSide, finishWrite,
                FinishReadSide, finishRead, Report, copyFrame, shutFrame, handlerFrame
  <2>3. ASSUME WatcherStep \/ HandlerStep \/ Cancel \/ UNCHANGED vars PROVE UNCHANGED sent
    BY <2>3 DEF WatcherStep, WatcherCancel, WatcherCloseTarget, WatcherStopped,
                watcherFrame, HandlerStep, Enter, DialSucceeds, DialFails, dialFails,
                ReceiveResult, StopWatcher, stopWatcher, CloseTarget, closeTarget,
                Produce, CloseClient, handlerFrame, Cancel, vars
  <2>. QED
    BY <2>1, <2>2, <2>3 DEF Next, Ended
<1>. QED
    BY <1>2, <1>3

\* What a pipe's step takes from its work.
LEMMA PipeLess ==
    ASSUME IInv, NEW c \in Conns, PipeStep(c)
    PROVE  \/ /\ nread'[c] = nread[c] /\ PipeRank(ppc'[c]) < PipeRank(ppc[c])
           \/ /\ nread'[c] \in Nat /\ nread'[c] > nread[c]
              /\ PipeRank(ppc[c]) = 4 /\ PipeRank(ppc'[c]) = 5
<1>1. /\ nread \in [Conns -> Nat] /\ sent \in [Conns -> Nat]
      /\ ppc \in [Conns -> PipeStates]
    BY DEF IInv, TypeOK
<1>2. CASE ReadData(c)
  <2>1. PICK n \in 1..(sent[c] - nread[c]) : nread' = [nread EXCEPT ![c] = @ + n]
    BY <1>2 DEF ReadData
  <2>2. n \in Nat /\ n > 0 /\ nread[c] \in Nat /\ nread'[c] = nread[c] + n
    BY <1>1, <2>1
  <2>3. nread'[c] \in Nat /\ nread'[c] > nread[c]
    BY <2>2
  <2>4. ppc[c] = "read" /\ ppc'[c] = "write"
    BY <1>1, <1>2 DEF ReadData
  <2>5. PipeRank("read") = 4 /\ PipeRank("write") = 5
    BY DEF PipeRank
  <2>. QED
    BY <2>3, <2>4, <2>5
<1>3. CASE ~ReadData(c)
  <2>1. nread' = nread
    BY <1>3 DEF PipeStep, ReadEOF, ReadBroken, ReadTimesOut, readFails, WriteAll,
                WriteFails, writeFails, FinishWriteSide, finishWrite, FinishReadSide,
                finishRead, Report, copyFrame, shutFrame, handlerFrame
  <2>2. \/ ppc[c] = "read" /\ ppc'[c] = "finishWrite"
        \/ ppc[c] = "write" /\ ppc'[c] = "read"
        \/ ppc[c] \in {"write", "blocked"} /\ ppc'[c] = "finishWrite"
        \/ ppc[c] = "finishWrite" /\ ppc'[c] = "finishRead"
        \/ ppc[c] = "finishRead" /\ ppc'[c] = "report"
        \/ ppc[c] = "report" /\ ppc'[c] = "exited"
    <3>1. ASSUME NEW p, ppc' = [ppc EXCEPT ![c] = p] PROVE ppc'[c] = p
        BY <1>1, <3>1
    <3>2. CASE ReadEOF(c) \/ ReadBroken(c) \/ ReadTimesOut(c)
        BY <3>1, <3>2 DEF ReadEOF, ReadBroken, ReadTimesOut, readFails, copyEnds
    <3>3. CASE WriteAll(c) \/ WriteFails(c)
        BY <3>1, <3>3 DEF WriteAll, WriteFails, writeFails, copyEnds
    <3>4. CASE FinishWriteSide(c) \/ FinishReadSide(c) \/ Report(c)
        BY <3>1, <3>4 DEF FinishWriteSide, finishWrite, FinishReadSide, finishRead, Report
    <3>. QED
        BY <1>3, <3>2, <3>3, <3>4 DEF PipeStep
  <2>3. PipeRank(ppc'[c]) < PipeRank(ppc[c])
    BY <2>2 DEF PipeRank
  <2>. QED
    BY <2>1, <2>3
<1>. QED
    BY <1>2, <1>3

\* A pipe leaves the other one, the watcher and the handler as they are.
LEMMA PipeAlone ==
    ASSUME IInv, NEW c \in Conns, PipeStep(c), NEW d \in Conns, d # c
    PROVE  nread'[d] = nread[d] /\ ppc'[d] = ppc[d] /\ UNCHANGED <<wpc, hpc, results>>
<1>1. nread \in [Conns -> Nat] /\ ppc \in [Conns -> PipeStates]
    BY DEF IInv, TypeOK
<1>2. UNCHANGED <<wpc, hpc, results>>
    BY DEF PipeStep, ReadData, ReadEOF, ReadBroken, ReadTimesOut, readFails,
           WriteAll, WriteFails, writeFails, FinishWriteSide, finishWrite,
           FinishReadSide, finishRead, Report, copyFrame, shutFrame, handlerFrame
<1>3. UNCHANGED nread \/ \E n \in Nat : nread' = [nread EXCEPT ![c] = n]
  <2>1. CASE ReadData(c)
    <3>1. PICK n \in 1..(sent[c] - nread[c]) : nread' = [nread EXCEPT ![c] = @ + n]
        BY <2>1 DEF ReadData
    <3>2. nread[c] + n \in Nat
        BY <1>1, <3>1 DEF IInv, TypeOK
    <3>. QED
        BY <1>1, <3>1, <3>2
  <2>2. CASE ~ReadData(c)
    BY <2>2 DEF PipeStep, ReadEOF, ReadBroken, ReadTimesOut, readFails, WriteAll,
                WriteFails, writeFails, FinishWriteSide, finishWrite, FinishReadSide,
                finishRead, Report, copyFrame, shutFrame, handlerFrame
  <2>. QED
    BY <2>1, <2>2
<1>4. \E p \in PipeStates : ppc' = [ppc EXCEPT ![c] = p]
    BY DEF PipeStep, ReadData, ReadEOF, ReadBroken, ReadTimesOut, readFails, copyEnds,
           WriteAll, WriteFails, writeFails, FinishWriteSide, finishWrite,
           FinishReadSide, finishRead, Report, PipeStates
<1>5. nread'[d] = nread[d]
    BY <1>1, <1>3
<1>6. ppc'[d] = ppc[d]
    BY <1>1, <1>4
<1>. QED
    BY <1>2, <1>5, <1>6

\* The arithmetic of the sum.
LEMMA SumNat ==
    ASSUME NEW m \in Nat, NEW k \in Nat, NEW n \in Nat, NEW l \in Nat, k <= m, l <= n,
           NEW r \in Nat, NEW s \in Nat, NEW w \in Nat, NEW h \in Nat
    PROVE  (2 * (m - k) + r) + (2 * (n - l) + s) + w + h \in Nat
OBVIOUS

LEMMA SumLess ==
    ASSUME NEW m \in Nat, NEW n \in Nat,
           NEW k \in Nat, NEW l \in Nat, NEW r \in Nat, NEW s \in Nat, NEW w \in Nat,
           NEW h \in Nat,
           NEW k1 \in Nat, NEW l1 \in Nat, NEW r1 \in Nat, NEW s1 \in Nat, NEW w1 \in Nat,
           NEW h1 \in Nat,
           \/ /\ l1 = l /\ s1 = s /\ w1 = w /\ h1 = h
              /\ (k1 = k /\ r1 < r) \/ (k1 > k /\ r = 4 /\ r1 = 5)
           \/ /\ k1 = k /\ r1 = r /\ w1 = w /\ h1 = h
              /\ (l1 = l /\ s1 < s) \/ (l1 > l /\ s = 4 /\ s1 = 5)
           \/ k1 = k /\ l1 = l /\ r1 <= r /\ s1 <= s /\ w1 <= w /\ h1 < h
           \/ k1 = k /\ l1 = l /\ r1 = r /\ s1 = s /\ w1 < w /\ h1 = h
    PROVE  (2 * (m - k1) + r1) + (2 * (n - l1) + s1) + w1 + h1
               < (2 * (m - k) + r) + (2 * (n - l) + s) + w + h
OBVIOUS

\* The handler goes forward: starting the goroutines and each result bring it
\* closer to its return.
LEMMA HandlerLess ==
    ASSUME IInv, WatchInv, HandlerStep
    PROVE  /\ HandlerWork' < HandlerWork /\ WatcherWork' <= WatcherWork
           /\ nread' = nread
           /\ \A c \in Conns : PipeRank(ppc'[c]) <= PipeRank(ppc[c])
<1>1. /\ results \in Seq(Results) /\ Len(results) \in Nat
      /\ wpc \in {"off", "select", "closeTarget", "exited"}
      /\ ppc \in [Conns -> PipeStates]
    BY DEF IInv, TypeOK
<1>2. nread' = nread
    BY DEF HandlerStep, Enter, DialSucceeds, DialFails, dialFails, ReceiveResult,
           StopWatcher, stopWatcher, CloseTarget, closeTarget, Produce, CloseClient,
           handlerFrame
<1>3. HandlerWork' < HandlerWork
  <2>1. CASE ReceiveResult
    <3>1. /\ hpc = "receive" /\ results' = Append(results, Head(done))
          /\ hpc' = IF Len(results') = 2 THEN "stopWatcher" ELSE "receive"
        BY <2>1 DEF ReceiveResult
    <3>2. Len(results) <= 1
        BY <3>1 DEF IInv, ControlInv
    <3>3. Len(results') = Len(results) + 1
        BY <1>1, <3>1
    <3>4. HandlerWork = 7 - Len(results)
        BY <3>1 DEF HandlerWork
    <3>5. CASE Len(results') = 2
      <4>1. HandlerWork' = 4
        BY <3>1, <3>5 DEF HandlerWork
      <4>. QED
        BY <1>1, <3>2, <3>4, <4>1
    <3>6. CASE Len(results') # 2
      <4>1. HandlerWork' = 7 - Len(results')
        BY <3>1, <3>6 DEF HandlerWork
      <4>. QED
        BY <1>1, <3>3, <3>4, <4>1
    <3>. QED
        BY <3>5, <3>6
  <2>2. CASE DialSucceeds
    <3>1. hpc = "dial" /\ hpc' = "receive" /\ results' = results /\ results = <<>>
        BY <2>2 DEF DialSucceeds, IInv, ControlInv
    <3>2. Len(results') = 0
        BY <3>1
    <3>3. HandlerWork = 8 /\ HandlerWork' = 7 - Len(results')
        BY <3>1 DEF HandlerWork
    <3>. QED
        BY <3>2, <3>3
  <2>3. CASE ~ReceiveResult /\ ~DialSucceeds
    <3>1. \/ hpc = "enter" /\ hpc' \in {"dial", "closeClient"}
          \/ hpc = "dial" /\ hpc' = "produce"
          \/ hpc = "stopWatcher" /\ hpc' = "closeTarget"
          \/ hpc = "closeTarget" /\ hpc' = "produce"
          \/ hpc = "produce" /\ hpc' = "closeClient"
          \/ hpc = "closeClient" /\ hpc' = "returned"
        BY <2>3 DEF HandlerStep, Enter, DialFails, dialFails, StopWatcher, stopWatcher,
                    CloseTarget, closeTarget, Produce, CloseClient
    <3>. QED
        BY <3>1 DEF HandlerWork
  <2>. QED
    BY <2>1, <2>2, <2>3
<1>4. WatcherWork' <= WatcherWork /\ \A c \in Conns : PipeRank(ppc'[c]) <= PipeRank(ppc[c])
  <2>1. CASE DialSucceeds
    <3>1. wpc = "off" /\ wpc' = "select"
        BY <2>1 DEF DialSucceeds, WatchInv
    <3>2. \A c \in Conns : ppc[c] = "off" /\ ppc'[c] = "read"
        BY <2>1 DEF DialSucceeds, IInv, ControlInv
    <3>3. WatcherWork' <= WatcherWork
        BY <3>1 DEF WatcherWork
    <3>4. \A c \in Conns : PipeRank(ppc[c]) = 6 /\ PipeRank(ppc'[c]) = 4
        BY <3>2 DEF PipeRank
    <3>5. \A c \in Conns : PipeRank(ppc'[c]) <= PipeRank(ppc[c])
        BY <3>4
    <3>. QED
        BY <3>3, <3>5
  <2>2. CASE ~DialSucceeds
    <3>1. wpc' = wpc /\ ppc' = ppc
        BY <2>2 DEF HandlerStep, Enter, DialFails, dialFails, ReceiveResult, StopWatcher,
                    stopWatcher, CloseTarget, closeTarget, Produce, CloseClient
    <3>2. WatcherWork' = WatcherWork /\ WatcherWork \in Nat
        BY <3>1 DEF WatcherWork
    <3>3. \A p \in PipeStates : PipeRank(p) \in Nat
        BY DEF PipeRank
    <3>4. WatcherWork' <= WatcherWork
        <4>. DEFINE v == WatcherWork
                    v1 == WatcherWork'
        <4>1. v1 = v /\ v \in Nat
            BY <3>2
        <4>. HIDE DEF v, v1
        <4>2. v1 <= v
            BY <4>1
        <4>. QED
            BY <4>2 DEF v, v1
    <3>5. ASSUME NEW c \in Conns PROVE PipeRank(ppc'[c]) <= PipeRank(ppc[c])
        <4>. DEFINE v == PipeRank(ppc[c])
        <4>1. v \in Nat /\ PipeRank(ppc'[c]) = v
            BY <1>1, <3>1, <3>3
        <4>. HIDE DEF v
        <4>2. v <= v
            BY <4>1
        <4>. QED
            BY <4>1, <4>2 DEF v
    <3>. QED
        BY <3>4, <3>5
  <2>. QED
    BY <2>1, <2>2
<1>. QED
    BY <1>2, <1>3, <1>4

\* Handler, watcher and pipes of a session of any length, with far ends that
\* stall and go on as often as they like: the session takes only so many
\* steps.  No pipe copies without reading, the handler never goes back, and
\* what the far ends and a cancellation do makes the session no longer.
THEOREM SessionRunsOut == Spec => SessionShrinks
<1>. DEFINE SentInv == \A c \in Conns : sent[c] <= MaxBytes[c]
            K == /\ SessionWork \in Nat /\ SessionWork' \in Nat
                 /\ SessionWork' <= SessionWork
                 /\ GoroutineStep => SessionWork' < SessionWork
<1>1. Init => SentInv /\ WatchInv
    BY MaxBytesAssumption DEF Init, WatchInv
<1>2. IInv /\ SentInv /\ [Next]_vars => SentInv'
    BY SentStep
<1>3. IInv /\ WatchInv /\ [Next]_vars => WatchInv'
    BY WatchStep
<1>4. IInv /\ SentInv /\ WatchInv /\ IInv' /\ SentInv' /\ [Next]_vars => [K]_vars
  <2>. SUFFICES ASSUME IInv, SentInv, WatchInv, IInv', SentInv', Next, ~UNCHANGED vars
                PROVE  K
    OBVIOUS
  <2>0. /\ "client" \in Conns /\ "target" \in Conns /\ Conns = {"client", "target"}
        /\ MaxBytes \in [Conns -> Nat]
    BY MaxBytesAssumption DEF Conns
  <2>. DEFINE m == MaxBytes["client"]
              n == MaxBytes["target"]
              k == nread["client"]
              l == nread["target"]
              r == PipeRank(ppc["client"])
              s == PipeRank(ppc["target"])
              w == WatcherWork
              h == HandlerWork
              k1 == nread'["client"]
              l1 == nread'["target"]
              r1 == PipeRank(ppc'["client"])
              s1 == PipeRank(ppc'["target"])
              w1 == WatcherWork'
              h1 == HandlerWork'
              sum == (2 * (m - k) + r) + (2 * (n - l) + s) + w + h
              sum1 == (2 * (m - k1) + r1) + (2 * (n - l1) + s1) + w1 + h1
  <2>1. SessionWork = sum /\ SessionWork' = sum1
    BY DEF SessionWork, PipeWork
  <2>a. \A p : PipeRank(p) \in Nat
    BY DEF PipeRank
  <2>2. m \in Nat /\ n \in Nat /\ r \in Nat /\ s \in Nat /\ r1 \in Nat /\ s1 \in Nat
    BY <2>0, <2>a
  <2>3. k \in Nat /\ l \in Nat /\ k <= m /\ l <= n
    <3>1. \A c \in Conns : nread[c] \in Nat /\ sent[c] \in Nat /\ nread[c] <= sent[c]
                           /\ sent[c] <= MaxBytes[c] /\ MaxBytes[c] \in Nat
        BY <2>0 DEF IInv, TypeOK, CountInv
    <3>2. \A c \in Conns : nread[c] \in Nat /\ nread[c] <= MaxBytes[c]
        BY <3>1
    <3>. QED
        BY <2>0, <3>2
  <2>4. k1 \in Nat /\ l1 \in Nat /\ k1 <= m /\ l1 <= n
    <3>1. ASSUME NEW c \in Conns
          PROVE  nread'[c] \in Nat /\ sent'[c] \in Nat /\ nread'[c] <= sent'[c]
                 /\ sent'[c] <= MaxBytes[c] /\ MaxBytes[c] \in Nat
        BY <2>0 DEF IInv, TypeOK, CountInv
    <3>2. ASSUME NEW c \in Conns PROVE nread'[c] \in Nat /\ nread'[c] <= MaxBytes[c]
        BY <3>1
    <3>. QED
        BY <2>0, <3>2
  <2>5. w \in Nat /\ w1 \in Nat
    BY DEF WatcherWork
  <2>6. h \in Nat
    <3>1. Len(results) \in Nat /\ (hpc = "receive" => Len(results) <= 1)
        BY DEF IInv, TypeOK, ControlInv
    <3>. QED
        BY <3>1 DEF HandlerWork
  <2>7. h1 \in Nat
    <3>1. results' \in Seq(Results) /\ (hpc' = "receive" => Len(results') <= 1)
        BY DEF IInv, TypeOK, ControlInv
    <3>2. CASE hpc' = "receive"
      <4>. DEFINE x == Len(results')
      <4>1. x \in Nat /\ x <= 1 /\ h1 = 7 - x
        BY <3>1, <3>2 DEF HandlerWork
      <4>. HIDE DEF x, h1
      <4>. QED
        BY <4>1
    <3>3. CASE hpc' # "receive"
        BY <3>3 DEF HandlerWork
    <3>. QED
        BY <3>2, <3>3
  <2>8. sum \in Nat
    <3>. HIDE DEF m, n, k, l, r, s, w, h
    <3>. QED
        BY <2>2, <2>3, <2>5, <2>6, SumNat
  <2>9. sum1 \in Nat
    <3>. HIDE DEF m, n, k1, l1, r1, s1, w1, h1
    <3>. QED
        BY <2>2, <2>4, <2>5, <2>7, SumNat
  <2>10. CASE GoroutineStep
    <3>1. \/ /\ l1 = l /\ s1 = s /\ w1 = w /\ h1 = h
             /\ (k1 = k /\ r1 < r) \/ (k1 > k /\ r = 4 /\ r1 = 5)
          \/ /\ k1 = k /\ r1 = r /\ w1 = w /\ h1 = h
             /\ (l1 = l /\ s1 < s) \/ (l1 > l /\ s = 4 /\ s1 = 5)
          \/ k1 = k /\ l1 = l /\ r1 <= r /\ s1 <= s /\ w1 <= w /\ h1 < h
          \/ k1 = k /\ l1 = l /\ r1 = r /\ s1 = s /\ w1 < w /\ h1 = h
      <4>1. CASE HandlerStep
        BY <2>0, <4>1, HandlerLess
      <4>2. CASE WatcherStep
        <5>1. UNCHANGED <<nread, ppc, hpc, results>>
            BY <4>2 DEF WatcherStep, WatcherCancel, WatcherCloseTarget, WatcherStopped,
                        watcherFrame
        <5>2. \/ wpc = "select" /\ wpc' \in {"closeTarget", "exited"}
              \/ wpc = "closeTarget" /\ wpc' = "exited"
            BY <4>2 DEF WatcherStep, WatcherCancel, WatcherCloseTarget, WatcherStopped
        <5>3. w1 < w
            BY <5>2 DEF WatcherWork
        <5>4. h1 = h
            BY <5>1 DEF HandlerWork
        <5>. QED
            BY <5>1, <5>3, <5>4
      <4>3. ASSUME NEW c \in Conns, PipeStep(c)
            PROVE  UNCHANGED <<wpc, hpc, results>> /\ w1 = w /\ h1 = h
        <5>1. \E d \in Conns : d # c
            BY <2>0
        <5>2. UNCHANGED <<wpc, hpc, results>>
            BY <4>3, <5>1, PipeAlone
        <5>. QED
            BY <5>2 DEF WatcherWork, HandlerWork
      <4>4. CASE PipeStep("client")
        <5>1. l1 = l /\ s1 = s
            BY <2>0, <4>4, PipeAlone
        <5>2. (k1 = k /\ r1 < r) \/ (k1 > k /\ r = 4 /\ r1 = 5)
            BY <2>0, <4>4, PipeLess
        <5>. QED
            BY <2>0, <4>3, <4>4, <5>1, <5>2
      <4>5. CASE PipeStep("target")
        <5>1. k1 = k /\ r1 = r
            BY <2>0, <4>5, PipeAlone
        <5>2. (l1 = l /\ s1 < s) \/ (l1 > l /\ s = 4 /\ s1 = 5)
            BY <2>0, <4>5, PipeLess
        <5>. QED
            BY <2>0, <4>3, <4>5, <5>1, <5>2
      <4>. QED
        BY <2>0, <2>10, <4>1, <4>2, <4>4, <4>5 DEF GoroutineStep
    <3>2. sum1 < sum
      <4>. HIDE DEF m, n, k, l, r, s, w, h, k1, l1, r1, s1, w1, h1
      <4>. QED
        BY <2>2, <2>3, <2>4, <2>5, <2>6, <2>7, <3>1, SumLess
    <3>. HIDE DEF sum, sum1
    <3>3. sum1 <= sum
        BY <2>8, <2>9, <3>2
    <3>. QED
        BY <2>1, <2>8, <2>9, <3>2, <3>3
  <2>11. CASE ~GoroutineStep
    <3>1. UNCHANGED <<nread, wpc, hpc, results>>
          /\ \A c \in Conns : PipeRank(ppc'[c]) = PipeRank(ppc[c])
      <4>1. CASE Cancel
        BY <4>1 DEF Cancel
      <4>2. ASSUME NEW c \in Conns, PeerStep(c)
            PROVE  UNCHANGED <<nread, wpc, hpc, results>>
                   /\ \A d \in Conns : PipeRank(ppc'[d]) = PipeRank(ppc[d])
        <5>1. UNCHANGED <<nread, wpc, hpc, results>>
            BY <4>2 DEF PeerStep, PeerSend, PeerFin, PeerReset, PeerStall, peerFrame,
                        copyFrame
        <5>2. CASE PeerStall(c)
          <6>1. ppc \in [Conns -> PipeStates] /\ Dst(c) \in Conns
            BY DstConns DEF IInv, TypeOK
          <6>2. \A d \in Conns :
                    \/ ppc'[d] = ppc[d]
                    \/ ppc[d] \in {"write", "blocked"} /\ ppc'[d] \in {"write", "blocked"}
            BY <5>2, <6>1 DEF PeerStall
          <6>3. PipeRank("write") = PipeRank("blocked")
            BY DEF PipeRank
          <6>4. \A d \in Conns : PipeRank(ppc'[d]) = PipeRank(ppc[d])
            BY <6>2, <6>3
          <6>. QED
            BY <5>1, <6>4
        <5>3. CASE ~PeerStall(c)
            BY <4>2, <5>1, <5>3 DEF PeerStep, PeerSend, PeerFin, PeerReset, peerFrame
        <5>. QED
            BY <5>2, <5>3
      <4>. QED
        BY <2>11, <4>1, <4>2 DEF Next, GoroutineStep, Ended
    <3>2. r1 = r /\ s1 = s /\ k1 = k /\ l1 = l /\ w1 = w /\ h1 = h
        BY <2>0, <3>1 DEF WatcherWork, HandlerWork
    <3>3. sum1 = sum
        BY <3>2
    <3>. HIDE DEF sum, sum1
    <3>4. sum1 <= sum
        BY <2>8, <3>3
    <3>. QED
        BY <2>1, <2>8, <2>9, <2>11, <3>4
  <2>. QED
    BY <2>10, <2>11
<1>. HIDE DEF SentInv, K
<1>5. Spec => [][K]_vars
    BY <1>1, <1>2, <1>3, <1>4, SessionInvariance, PTL DEF Spec
<1>. QED
    BY <1>5 DEF K, SessionShrinks
=============================================================================
