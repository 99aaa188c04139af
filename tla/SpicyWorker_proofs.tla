------------------------- MODULE SpicyWorker_proofs -------------------------
(***************************************************************************)
(* For any number of goroutines that call Parse and Cleanup: the types of  *)
(* SpicyWorker, that every C result is freed exactly once, and that nobody *)
(* waits for an answer which cannot come.                                  *)
(***************************************************************************)
EXTENDS SpicyWorker, TLAPS

\* Before the worker has answered there is no result, and exactly one
\* goroutine is there to take the answer.
AnswerAwaited(c) ==
    worker = c => /\ mem[c] = "none" /\ reply[c] = 0
                  /\ (ppc[c] = "await") # (c \in drainer)

\* No reply without a result; nothing exists before the command is sent; the
\* drain goroutine is left behind by a Parse that has returned.
CallOrder(c) ==
    /\ mem[c] = "none" => reply[c] = 0
    /\ ppc[c] \in {"idle", "send"} =>
        mem[c] = "none" /\ c \notin drainer /\ worker # c
    /\ c \in drainer => ppc[c] = "returned"

\* The part of ResultHasOwner that is about c.
Owned(c) ==
    /\ mem[c] = "allocated" => /\ reply[c] = 1
                               /\ (ppc[c] = "await") # (c \in drainer)
    /\ mem[c] = "freed" => /\ reply[c] = 0 /\ worker # c
                           /\ ppc[c] = "returned" /\ c \notin drainer

ParserInv(c) == AnswerAwaited(c) /\ CallOrder(c) /\ Owned(c)

\* The reply channel of a caller is made for one command: it is empty until
\* the worker has answered that command, which has been sent by then.
RoomInv(c) ==
    /\ worker = c => reply[c] = 0 /\ ppc[c] \notin {"idle", "send"}
    /\ ppc[c] \in {"idle", "send"} => reply[c] = 0

\* The inductive invariant.
WInv ==
    /\ WTypeOK
    /\ \A c \in Parsers : ParserInv(c)
    /\ \A c \in Callers : RoomInv(c)

\* The worker is off and nobody has called: nothing exists.
LEMMA WInitInv == WInit => WInv
  <1> SUFFICES ASSUME WInit PROVE WInv
    OBVIOUS
  <1>1. WTypeOK
    <2>1. reply \in [Callers -> 0..ReplyCap] /\ drainer \subseteq Parsers
      BY DEF WInit, ReplyCap
    <2>2. registered \in BOOLEAN
      BY DEF WInit
    <2>3. /\ ppc \in [Callers -> {"idle", "send", "await", "returned"}]
          /\ worker \in Unoccupied \cup Callers
          /\ mem \in [Parsers -> {"none", "allocated", "freed"}]
      BY DEF WInit, Unoccupied
    <2> QED
      BY <2>1, <2>2, <2>3 DEF WTypeOK
  <1>2. ASSUME NEW c \in Parsers PROVE ParserInv(c)
    <2>1. c \in Callers /\ c # "off"
      BY NamesAssumption DEF Callers, Unoccupied
    <2>2. ppc[c] = "idle" /\ mem[c] = "none" /\ reply[c] = 0
      BY <2>1 DEF WInit
    <2> QED
      BY <2>1, <2>2
      DEF WInit, ParserInv, AnswerAwaited, CallOrder, Owned
  <1>3. ASSUME NEW c \in Callers PROVE RoomInv(c)
    <2>1. c # "off"
      BY NamesAssumption DEF Unoccupied
    <2> QED
      BY <2>1 DEF WInit, RoomInv
  <1> QED
    BY <1>1, <1>2, <1>3 DEF WInv

\* A step keeps the types: a reply is only put into a channel with room, and
\* only taken from one that holds a message.
LEMMA WTypeStep == WInv /\ [WNext]_wVars => WTypeOK'
  <1> SUFFICES ASSUME WInv, [WNext]_wVars PROVE WTypeOK'
    OBVIOUS
  <1>0. WTypeOK
    BY DEF WInv
  <1>1. ASSUME NEW c \in Callers, Call(c) PROVE WTypeOK'
    BY <1>0, <1>1 DEF Call, WTypeOK
  <1>2. ASSUME NEW c \in Callers, Send(c) PROVE WTypeOK'
    BY <1>0, <1>2 DEF Send, WTypeOK
  <1>3. ASSUME NEW c \in Callers, Receive(c) PROVE WTypeOK'
    BY <1>0, <1>3 DEF Receive, WTypeOK, ReplyCap
  <1>4. ASSUME NEW c \in Callers, TimeOut(c) PROVE WTypeOK'
    BY <1>0, <1>4 DEF TimeOut, WTypeOK
  <1>5. ASSUME NEW c \in Callers, Drain(c) PROVE WTypeOK'
    BY <1>0, <1>5 DEF Drain, WTypeOK, ReplyCap
  <1>6. CASE WorkerParsed
    BY <1>0, <1>6 DEF WorkerParsed, WTypeOK, ReplyCap, Callers, Unoccupied
  <1>7. CASE WorkerShutdown
    BY <1>0, <1>7 DEF WorkerShutdown, WTypeOK, ReplyCap, Callers, Unoccupied
  <1>8. CASE WorkerStalls
    BY <1>0, <1>8 DEF WorkerStalls, WTypeOK, Unoccupied
  <1>9. CASE Initialize
    BY <1>0, <1>9 DEF Initialize, WTypeOK, Unoccupied
  <1>10. CASE UNCHANGED wVars
    BY <1>0, <1>10 DEF wVars, WTypeOK
  <1> QED
    BY <1>1, <1>2, <1>3, <1>4, <1>5, <1>6, <1>7, <1>8, <1>9, <1>10
    DEF WNext, CallerStep, WorkerStep

\* Every action keeps the invariant of every parser p, whether p is the
\* goroutine that takes the step or another.
LEMMA ParserStep ==
    ASSUME NEW p \in Parsers, WInv, [WNext]_wVars
    PROVE  ParserInv(p)'
  <1>0. WTypeOK /\ ParserInv(p) /\ p \in Callers /\ p \notin Unoccupied
    BY NamesAssumption DEF WInv, Callers
  <1> USE DEF ParserInv, AnswerAwaited, CallOrder, Owned
  <1>1. ASSUME NEW c \in Callers, Call(c) PROVE ParserInv(p)'
    <2>1. CASE c = p
      BY <1>0, <1>1, <2>1 DEF Call, WTypeOK
    <2>2. CASE c # p
      BY <1>0, <1>1, <2>2 DEF Call, WTypeOK
    <2> QED BY <2>1, <2>2
  <1>2. ASSUME NEW c \in Callers, Send(c) PROVE ParserInv(p)'
    <2>1. CASE c = p
      BY <1>0, <1>2, <2>1 DEF Send, WTypeOK
    <2>2. CASE c # p
      BY <1>0, <1>2, <2>2 DEF Send, WTypeOK
    <2> QED BY <2>1, <2>2
  <1>3. ASSUME NEW c \in Callers, Receive(c) PROVE ParserInv(p)'
    <2>1. CASE c = p
      <3>1. mem[p] = "allocated" /\ reply[p] = 1
        BY <1>0, <1>3, <2>1 DEF Receive, WTypeOK, ReplyCap
      <3> QED
        BY <1>0, <1>3, <2>1, <3>1 DEF Receive, WTypeOK, ReplyCap
    <2>2. CASE c # p
      BY <1>0, <1>3, <2>2 DEF Receive, WTypeOK
    <2> QED BY <2>1, <2>2
  <1>4. ASSUME NEW c \in Callers, TimeOut(c) PROVE ParserInv(p)'
    <2>1. CASE c = p
      BY <1>0, <1>4, <2>1 DEF TimeOut, WTypeOK
    <2>2. CASE c # p
      BY <1>0, <1>4, <2>2 DEF TimeOut, WTypeOK
    <2> QED BY <2>1, <2>2
  <1>5. ASSUME NEW c \in Callers, Drain(c) PROVE ParserInv(p)'
    <2>1. CASE c = p
      <3>1. mem[p] = "allocated" /\ reply[p] = 1 /\ ppc[p] = "returned"
        BY <1>0, <1>5, <2>1 DEF Drain, WTypeOK, ReplyCap
      <3> QED
        BY <1>0, <1>5, <2>1, <3>1 DEF Drain, WTypeOK, ReplyCap
    <2>2. CASE c # p
      BY <1>0, <1>5, <2>2 DEF Drain, WTypeOK
    <2> QED BY <2>1, <2>2
  <1>6. CASE WorkerParsed
    <2>1. CASE worker = p
      BY <1>0, <1>6, <2>1 DEF WorkerParsed, WTypeOK, ReplyCap, Unoccupied
    <2>2. CASE worker # p
      BY <1>0, <1>6, <2>2
      DEF WorkerParsed, WTypeOK, ReplyCap, Unoccupied, Callers
    <2> QED BY <2>1, <2>2
  <1>7. CASE WorkerShutdown
    <2>1. worker # p
      BY <1>7, CallersAssumption DEF WorkerShutdown
    <2> QED
      BY <1>0, <1>7, <2>1
      DEF WorkerShutdown, WTypeOK, ReplyCap, Unoccupied, Callers
  <1>8. CASE WorkerStalls
    BY <1>0, <1>8 DEF WorkerStalls, WTypeOK, Unoccupied
  <1>9. CASE Initialize
    BY <1>0, <1>9 DEF Initialize, WTypeOK, Unoccupied
  <1>10. CASE UNCHANGED wVars
    BY <1>0, <1>10 DEF wVars
  <1> QED
    BY <1>1, <1>2, <1>3, <1>4, <1>5, <1>6, <1>7, <1>8, <1>9, <1>10
    DEF WNext, CallerStep, WorkerStep

\* Every action keeps the reply channel of every caller p empty until the
\* worker answers p.
LEMMA RoomStep ==
    ASSUME NEW p \in Callers, WInv, [WNext]_wVars
    PROVE  RoomInv(p)'
  <1>0. WTypeOK /\ RoomInv(p) /\ p \notin Unoccupied
    BY NamesAssumption DEF WInv
  <1> USE DEF RoomInv
  <1>1. ASSUME NEW c \in Callers, Call(c) PROVE RoomInv(p)'
    BY <1>0, <1>1 DEF Call, WTypeOK
  <1>2. ASSUME NEW c \in Callers, Send(c) PROVE RoomInv(p)'
    BY <1>0, <1>2 DEF Send, WTypeOK
  <1>3. ASSUME NEW c \in Callers, Receive(c) PROVE RoomInv(p)'
    BY <1>0, <1>3 DEF Receive, WTypeOK
  <1>4. ASSUME NEW c \in Callers, TimeOut(c) PROVE RoomInv(p)'
    BY <1>0, <1>4 DEF TimeOut, WTypeOK
  <1>5. ASSUME NEW c \in Callers, Drain(c) PROVE RoomInv(p)'
    <2>1. ppc[c] = "returned" /\ worker # c
      BY <1>5 DEF Drain, WInv, WTypeOK, ParserInv, AnswerAwaited, CallOrder
    <2> QED
      BY <1>0, <1>5, <2>1 DEF Drain, WTypeOK
  <1>6. CASE WorkerParsed
    BY <1>0, <1>6 DEF WorkerParsed, WTypeOK, Unoccupied
  <1>7. CASE WorkerShutdown
    BY <1>0, <1>7 DEF WorkerShutdown, WTypeOK, Unoccupied
  <1>8. CASE WorkerStalls
    BY <1>0, <1>8 DEF WorkerStalls, Unoccupied
  <1>9. CASE Initialize
    BY <1>0, <1>9 DEF Initialize, Unoccupied
  <1>10. CASE UNCHANGED wVars
    BY <1>0, <1>10 DEF wVars
  <1> QED
    BY <1>1, <1>2, <1>3, <1>4, <1>5, <1>6, <1>7, <1>8, <1>9, <1>10
    DEF WNext, CallerStep, WorkerStep

\* The invariant holds in every reachable state.
THEOREM WInvariance == WSpec => []WInv
  <1>1. WInv /\ [WNext]_wVars => WInv'
    BY WTypeStep, ParserStep, RoomStep DEF WInv, Callers
  <1> QED
    BY <1>1, WInitInv, PTL DEF WSpec

\* Every reachable state is well typed: in particular no reply channel ever
\* holds more than its one message.
THEOREM WorkerTypeCorrect == WSpec => []WTypeOK
  <1>1. WInv => WTypeOK
    BY DEF WInv
  <1> QED
    BY <1>1, WInvariance, PTL

\* parser.go: whether the reply or the timeout wins, the C result is freed
\* exactly once, by Parse or by the goroutine it left behind.
THEOREM ResultFreedOnce == WSpec => []ResultHasOwner
  <1>1. WInv => ResultHasOwner
    BY DEF WInv, ParserInv, Owned, ResultHasOwner
  <1> QED
    BY <1>1, WInvariance, PTL

\* When the worker is done with a command, the reply channel has room.
ReplyHasRoom == worker \in Callers => reply[worker] < ReplyCap

\* parser.go: a reply channel of capacity one is enough for the worker never
\* to block in a reply, whether or not anybody is still waiting for it.
THEOREM WorkerNeverBlocks == WSpec => []ReplyHasRoom
  <1>1. WInv => ReplyHasRoom
    BY DEF WInv, RoomInv, ReplyHasRoom, ReplyCap
  <1> QED
    BY <1>1, WInvariance, PTL

-----------------------------------------------------------------------------
(* Nobody waits for an answer that cannot come. *)

\* Goroutine c, or the one it left behind, waits on its reply channel.
Waits(c) == ppc[c] = "await" \/ c \in drainer

\* What c waits for is there, or the worker is at c's command and has yet to
\* answer it.  Only a parser that never returns leaves somebody waiting for
\* nothing, and only callers of Parse, who have the timeout.
AnswerComes(c) ==
    Waits(c) => \/ reply[c] = 1 \/ worker = c
                \/ c \in Parsers /\ worker = "stalled"

AnswersCome == \A c \in Callers : AnswerComes(c)

LEMMA AnswerStep ==
    ASSUME NEW p \in Callers, WInv, WInv', AnswerComes(p), [WNext]_wVars
    PROVE  AnswerComes(p)'
  <1>0. /\ WTypeOK /\ WTypeOK' /\ RoomInv(p) /\ p \notin Unoccupied
        /\ p \in drainer => ppc[p] = "returned"
    BY NamesAssumption DEF WInv, WTypeOK, ParserInv, CallOrder
  <1> USE DEF AnswerComes, Waits
  <1>1. ASSUME NEW c \in Callers, Call(c) PROVE AnswerComes(p)'
    BY <1>0, <1>1 DEF Call, WTypeOK
  <1>2. ASSUME NEW c \in Callers, Send(c) PROVE AnswerComes(p)'
    BY <1>0, <1>2 DEF Send, WTypeOK, Unoccupied
  <1>3. ASSUME NEW c \in Callers, Receive(c) PROVE AnswerComes(p)'
    BY <1>0, <1>3 DEF Receive, WTypeOK
  <1>4. ASSUME NEW c \in Callers, TimeOut(c) PROVE AnswerComes(p)'
    BY <1>0, <1>4 DEF TimeOut, WTypeOK
  <1>5. ASSUME NEW c \in Callers, Drain(c) PROVE AnswerComes(p)'
    BY <1>0, <1>5 DEF Drain, WTypeOK
  <1>6. CASE WorkerParsed
    <2>1. CASE worker = p
      <3>1. reply[p] = 0 /\ reply' = [reply EXCEPT ![p] = reply[p] + 1]
        BY <1>0, <1>6, <2>1 DEF WorkerParsed, RoomInv
      <3>2. reply'[p] = 1
        BY <1>0, <3>1 DEF WTypeOK
      <3> QED
        BY <3>2
    <2>2. CASE worker # p
      <3>1. reply'[p] = reply[p] /\ ppc' = ppc /\ drainer' = drainer
        BY <1>0, <1>6, <2>2 DEF WorkerParsed, WTypeOK
      <3>2. worker # "stalled"
        BY <1>6, NamesAssumption DEF WorkerParsed, Callers, Unoccupied
      <3> QED
        BY <2>2, <3>1, <3>2
    <2> QED BY <2>1, <2>2
  <1>7. CASE WorkerShutdown
    <2>1. CASE worker = p
      <3>1. reply[p] = 0 /\ reply' = [reply EXCEPT ![p] = reply[p] + 1]
        BY <1>0, <1>7, <2>1 DEF WorkerShutdown, RoomInv
      <3>2. reply'[p] = 1
        BY <1>0, <3>1 DEF WTypeOK
      <3> QED
        BY <3>2
    <2>2. CASE worker # p
      <3>1. reply'[p] = reply[p] /\ ppc' = ppc /\ drainer' = drainer
        BY <1>0, <1>7, <2>2 DEF WorkerShutdown, WTypeOK
      <3>2. worker # "stalled"
        BY <1>7, NamesAssumption DEF WorkerShutdown, Callers, Unoccupied
      <3> QED
        BY <2>2, <3>1, <3>2
    <2> QED BY <2>1, <2>2
  <1>8. CASE WorkerStalls
    BY <1>0, <1>8 DEF WorkerStalls, WTypeOK, Unoccupied
  <1>9. CASE Initialize
    BY <1>0, <1>9 DEF Initialize, Unoccupied
  <1>10. CASE UNCHANGED wVars
    BY <1>10 DEF wVars
  <1> QED
    BY <1>1, <1>2, <1>3, <1>4, <1>5, <1>6, <1>7, <1>8, <1>9, <1>10
    DEF WNext, CallerStep, WorkerStep

\* parser.go: a command that reached the worker is answered before it takes
\* another or ends, so a Cleanup that got through can return, and a drain
\* goroutine stays for ever only when a C++ parser does.
THEOREM WaitersAreAnswered == WSpec => []AnswersCome
  <1>1. WInit => AnswersCome
    BY DEF WInit, AnswersCome, AnswerComes, Waits
  <1>2. WInv /\ WInv' /\ AnswersCome /\ [WNext]_wVars => AnswersCome'
    BY AnswerStep DEF AnswersCome
  <1> QED
    BY <1>1, <1>2, WInvariance, PTL DEF WSpec
=============================================================================
