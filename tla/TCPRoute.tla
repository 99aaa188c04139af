------------------------------ MODULE TCPRoute ------------------------------
(***************************************************************************)
(* One connection of a rule whose target is "tcp" or "http".  The          *)
(* catch-all "tcp" handler of protocols/protocols.go peeks at a few bytes, *)
(* lets Spicy classify them and hands the connection to the Spicy HTTP,    *)
(* RDP or MongoDB handler, or falls back to HandleTCP.  "http" is the Go   *)
(* HTTP handler.  HandleTCP and both HTTP handlers are modelled to their   *)
(* end, RDP and MongoDB in Handlers.                                       *)
(*                                                                         *)
(* Peek wraps the connection it is given in a bufio.Reader, so the second  *)
(* Peek, and the reader the Spicy HTTP handler makes, read through the     *)
(* first one's buffer.  A byte is its position in the stream; "outer" and  *)
(* "inner" are the contents of the two buffers.                            *)
(***************************************************************************)
EXTENDS Integers, Sequences, FiniteSets, HTTP

CONSTANTS
    PeekShort,  \* length of the first Peek (4)
    PeekLong,   \* length of the second Peek (16)
    BufSize,    \* size of a bufio.Reader (4096)
    ReadSize,   \* HandleTCP's read buffer (1024)
    MaxPayload, \* max_tcp_payload (4096)
    HeadLen,    \* bytes of an HTTP request before its body
    MaxHTTPBody, \* maxHTTPBody of the Spicy handler (1 MiB)
    MaxAlloc,   \* the longest slice make can allocate
    MaxSent,    \* bound: bytes the client sends
    MaxBatch    \* bound: messages of a JSON-RPC request

ASSUME SizesAssumption ==
    /\ {PeekShort, PeekLong, ReadSize, BufSize, HeadLen} \subseteq Nat \ {0}
    /\ {MaxPayload, MaxHTTPBody, MaxAlloc, MaxSent, MaxBatch} \subseteq Nat
    /\ MaxHTTPBody <= MaxAlloc
    /\ PeekShort <= PeekLong /\ PeekLong <= BufSize

VARIABLES
    spicy,      \* spicy.enabled
    stuck,      \* the Spicy worker takes no more commands
    sent,       \* bytes the client has sent
    fin,        \* the client has finished sending
    taken,      \* bytes taken from the kernel
    outer,      \* content of the first Peek's buffer
    inner,      \* content of the second Peek's or the HTTP reader's buffer
    pc,         \* control state of the handler
    handler,    \* who the connection was handed to
    data,       \* what the handler has read: data of HandleTCP, raw of HTTP
    clen,       \* Content-Length of the request, 0 if there is none
    chunked,    \* the request has a body in chunks
    panicked,   \* a panic of the handler is ending the process
    event,      \* the event the handler produced, <<>> before
    asked,      \* the JSON-RPC messages of the request
    reply,      \* the HTTP reply: which one, and its JSON-RPC answers
    relay       \* a goroutine handles a connection that HTTP dialled

rVars == <<spicy, stuck, sent, fin, taken, outer, inner, pc, handler, data,
           clen, chunked, panicked, event, asked, reply, relay>>
clientVars == <<spicy, stuck, sent, fin>>
httpVars == <<clen, chunked, panicked, asked, reply, relay>>

Positions(from, to) == [i \in 1..(to - from) |-> from + i]

RInit ==
    /\ spicy \in BOOLEAN
    /\ stuck = FALSE
    /\ sent = 0
    /\ fin = FALSE
    /\ taken = 0
    /\ outer = <<>>
    /\ inner = <<>>
    /\ \/ handler = "none" /\ pc = "peekShort"
       \/ handler = "goHTTP" /\ pc = "head"
    /\ data = <<>>
    /\ clen = 0
    /\ chunked = FALSE /\ panicked = FALSE
    /\ event = <<>>
    /\ asked = <<>>
    /\ reply = [kind |-> "none", answers |-> <<>>]
    /\ relay = FALSE

ClientSend ==
    /\ ~fin /\ sent < MaxSent
    /\ pc \notin {"handed", "closed"}
    /\ sent' = sent + 1
    /\ UNCHANGED <<spicy, stuck, fin, taken, outer, inner, pc, handler, data,
                   event, httpVars>>

ClientFin ==
    /\ ~fin /\ pc \notin {"handed", "closed"}
    /\ fin' = TRUE
    /\ UNCHANGED <<spicy, stuck, sent, taken, outer, inner, pc, handler, data,
                   event, httpVars>>

\* The worker gets stuck in the parser of any connection's bytes, or ends.
WorkerStuck ==
    /\ spicy /\ ~stuck /\ pc \notin {"handed", "closed"}
    /\ stuck' = TRUE
    /\ UNCHANGED <<spicy, sent, fin, taken, outer, inner, pc, handler, data,
                   event, httpVars>>

-----------------------------------------------------------------------------
(* bufio.Reader over the socket. *)

Least(m, n) == IF m <= n THEN m ELSE n

\* Who needs the first buffer to read from the socket: a Peek that does not
\* yet see enough, or a Read that finds the buffer empty.
wantsOuter ==
    \/ pc = "peekShort" /\ Len(outer) < PeekShort
    \/ pc = "peekLong" /\ Len(inner) < PeekLong /\ outer = <<>>
    \/ pc = "read" /\ outer = <<>>
    \/ pc \in {"head", "body"} /\ outer = <<>> /\ inner = <<>>

\* One read of the socket into the first buffer returns some of the bytes
\* that are there.
FillOuter ==
    /\ wantsOuter
    /\ \E n \in 1..Least(sent - taken, BufSize - Len(outer)) :
        /\ outer' = outer \o Positions(taken, taken + n)
        /\ taken' = taken + n
    /\ UNCHANGED <<clientVars, inner, pc, handler, data, event, httpVars>>

\* The second buffer reads from the first: the bytes move.
FillInner ==
    /\ outer # <<>>
    /\ \/ pc = "peekLong" /\ Len(inner) < PeekLong
       \/ pc \in {"head", "body"} /\ handler = "http" /\ inner = <<>>
    /\ LET n == Least(Len(outer), BufSize - Len(inner)) IN
        /\ inner' = inner \o SubSeq(outer, 1, n)
        /\ outer' = SubSeq(outer, n + 1, Len(outer))
    /\ UNCHANGED <<clientVars, taken, pc, handler, data, event, httpVars>>

-----------------------------------------------------------------------------
(* The "tcp" closure. *)

handTo(h) ==
    /\ handler' = h
    /\ pc' = CASE h = "tcp" -> "read" [] h = "http" -> "head"
               [] OTHER -> "handed"

\* Mutant: the read deadline of Peek is never set.
PeekFails_NoDeadline ==
    /\ wantsOuter /\ pc \in {"peekShort", "peekLong"}
    /\ taken = sent /\ fin
    /\ pc' = "closed"
    /\ UNCHANGED <<clientVars, taken, outer, inner, handler, data, event, httpVars>>

\* Peek gets too few bytes before its deadline of 200 ms or the end of the
\* stream: the connection is closed and nothing is recorded.
PeekFails ==
    /\ wantsOuter /\ pc \in {"peekShort", "peekLong"}
    /\ taken = sent
    /\ pc' = "closed"
    /\ UNCHANGED <<clientVars, taken, outer, inner, handler, data, event, httpVars>>

\* Parse goes on once the worker has taken its command, the one wait that no
\* deadline ends; its reply, an error or parseTimeout follows.
ParseTaken == ~stuck

\* The first Peek succeeds.  Without Spicy: HandleTCP.  With it, the parser's
\* verdict on the bytes decides.
PeekedShort ==
    /\ pc = "peekShort" /\ Len(outer) >= PeekShort
    /\ spicy => ParseTaken
    /\ IF spicy
       THEN \/ \E h \in {"http", "rdp"} : handTo(h)
            \/ pc' = "peekLong" /\ UNCHANGED handler
       ELSE handTo("tcp")
    /\ UNCHANGED <<clientVars, taken, outer, inner, data, event, httpVars>>

\* The second Peek succeeds.  MongoDB gets the inner connection; the fallback
\* gets the outer one: the inner name is out of scope there.
PeekedLong ==
    /\ pc = "peekLong" /\ Len(inner) >= PeekLong
    /\ ParseTaken
    /\ \E h \in {"mongodb", "tcp"} : handTo(h)
    /\ UNCHANGED <<clientVars, taken, outer, inner, data, event, httpVars>>

\* Mutant: MongoDB is handed the outer connection as well.
readsInner_Never(h) == FALSE

\* Whether the handler reads through the second buffer.
readsInner(h) == h \in {"http", "mongodb"}

-----------------------------------------------------------------------------
(* HandleTCP. *)

\* Mutant: only a short read ends the loop.
readLoopEnds_NoMax(n, length) == n < ReadSize

\* The loop ends after a short read or once the length exceeds the maximum.
readLoopEnds(n, length) == n < ReadSize \/ length > MaxPayload

HandlerRead ==
    /\ pc = "read" /\ outer # <<>>
    /\ LET n == Least(ReadSize, Len(outer)) IN
        /\ data' = data \o SubSeq(outer, 1, n)
        /\ outer' = SubSeq(outer, n + 1, Len(outer))
        /\ pc' = IF readLoopEnds(n, Len(data) + n) THEN "finish" ELSE "read"
    /\ UNCHANGED <<clientVars, taken, inner, handler, event, httpVars>>

\* End of stream, or the connection timeout.
HandlerReadFails ==
    /\ pc = "read" /\ outer = <<>> /\ taken = sent
    /\ pc' = "finish"
    /\ UNCHANGED <<clientVars, taken, outer, inner, handler, data, event, httpVars>>

\* The random bytes of sendRandom: none of the client's.
randomBytes == <<0>>

\* server.events at the end: sendRandom, if it got its bytes, noted them before
\* the deferred function notes what was read, if anything was.
tcpEntries(noted) ==
    (IF noted THEN <<[direction |-> "write", payload |-> randomBytes]>>
              ELSE <<>>)
    \o (IF data = <<>> THEN <<>>
        ELSE <<[direction |-> "read",
                payload |-> SubSeq(data, 1, Len(data) % ReadSize)]>>)

\* The event and the file of the deferred function.  The event's payload is
\* that of the first entry.
tcpEvent(noted) ==
    LET entries == tcpEntries(noted) IN
    [name |-> "tcp", stored |-> data, decoded |-> entries,
     payload |-> IF entries = <<>> THEN <<>> ELSE entries[1].payload]

\* sendRandom, whose error is only logged, and the deferred store, event and
\* close.
HandlerFinish ==
    /\ pc = "finish"
    /\ \E noted \in BOOLEAN : event' = <<tcpEvent(noted)>>
    /\ pc' = "closed"
    /\ UNCHANGED <<clientVars, taken, outer, inner, handler, data, httpVars>>

-----------------------------------------------------------------------------
(* HandleHTTP: tcp.HandleHTTP ("goHTTP") and spicyHandlers.HandleHTTP      *)
(* ("http").                                                               *)

\* n bytes of the request go from the handler's reader to what it has read.
httpTake(n) ==
    IF readsInner(handler)
    THEN /\ data' = data \o SubSeq(inner, 1, n)
         /\ inner' = SubSeq(inner, n + 1, Len(inner))
         /\ UNCHANGED outer
    ELSE /\ data' = data \o SubSeq(outer, 1, n)
         /\ outer' = SubSeq(outer, n + 1, Len(outer))
         /\ UNCHANGED inner

available == Len(IF readsInner(handler) THEN inner ELSE outer)

\* Lines are read until the empty one.
HTTPReadHead ==
    /\ pc = "head" /\ available > 0 /\ Len(data) < HeadLen
    /\ httpTake(Least(available, HeadLen - Len(data)))
    /\ UNCHANGED <<clientVars, taken, pc, handler, event, httpVars>>

\* What each handler does with the length announced in the head.  A body in
\* chunks has none (the Go handler then ignores a Content-Length, the Spicy
\* handler does not know of chunks) and is not read.
afterHead(n) ==
    CASE n = 0 -> "produce"
      [] handler = "http" /\ n > MaxHTTPBody -> "closed"
      [] handler = "goHTTP" /\ n > MaxAlloc -> "closed"
      [] OTHER -> "body"

\* The head is there.  http.ReadRequest may refuse it, the Spicy handler a
\* Content-Length above its maximum, and the Go handler's make panics if it
\* is beyond all bounds: the connection is closed, unreported.
HTTPHead ==
    /\ pc = "head" /\ Len(data) = HeadLen
    /\ \/ /\ handler = "goHTTP" /\ pc' = "closed"
          /\ UNCHANGED <<clen, chunked, panicked>>
       \/ \E n \in 0..(MaxAlloc + 1) :
            /\ clen' = n
            /\ chunked' \in BOOLEAN
            /\ chunked' /\ handler = "goHTTP" => n = 0
            /\ pc' = afterHead(n)
            /\ panicked' = (handler = "goHTTP" /\ n > MaxAlloc)
    /\ UNCHANGED <<clientVars, taken, outer, inner, handler, data, event,
                   asked, reply, relay>>

\* Mutant: what the reader holds is taken for the rest of the body.
HTTPReadBody_Short ==
    /\ pc = "body" /\ available > 0
    /\ httpTake(Least(available, HeadLen + clen - Len(data)))
    /\ pc' = "produce"
    /\ UNCHANGED <<clientVars, taken, handler, event, httpVars>>

\* The body is read through the same reader, up to the Content-Length.
HTTPReadBody ==
    /\ pc = "body" /\ available > 0
    /\ httpTake(Least(available, HeadLen + clen - Len(data)))
    /\ pc' = IF Len(data') = HeadLen + clen THEN "produce" ELSE "body"
    /\ UNCHANGED <<clientVars, taken, handler, event, httpVars>>

\* The stream or the time ends first: neither handler reports the request.
\* The deadline is the one of tcpListen, or still that of Peek, and may have
\* passed before the read.
HTTPReadFails ==
    /\ wantsOuter /\ pc \in {"head", "body"}
    /\ pc' = "closed"
    /\ UNCHANGED <<clientVars, taken, outer, inner, handler, data, event,
                   httpVars>>

\* The Go handler reports the body, the Spicy handler the whole request,
\* under another name if Spicy cannot parse it or takes too long.
HTTPProduce ==
    /\ pc = "produce"
    /\ handler = "http" => ParseTaken
    /\ \E parsed \in BOOLEAN :
        /\ handler = "goHTTP" => parsed
        /\ event' = <<[name |-> IF parsed THEN "http" ELSE "spicy-http-failed",
                       stored |-> <<>>, decoded |-> <<>>,
                       payload |-> IF handler = "goHTTP"
                                   THEN SubSeq(data, HeadLen + 1, Len(data))
                                   ELSE data]>>
        /\ pc' = IF parsed THEN "respond" ELSE "closed"
    /\ UNCHANGED <<clientVars, taken, outer, inner, handler, data, httpVars>>

\* The reply, whose write may fail, and the deferred close.  The Spicy
\* handler's answer to eth_blockNumber is always the same.
HTTPRespond ==
    /\ pc = "respond"
    /\ \E req \in Requests :
        LET kind == IF handler = "goHTTP" THEN goReply(req)
                    ELSE spicyReply(req)
        IN
        /\ req.eth \/ req.words => clen > 0
        /\ relay' = startsRelay(handler = "http", req)
        /\ IF kind = "ethereum" /\ handler = "goHTTP"
           THEN \E n \in 0..MaxBatch : asked' \in [1..n -> Elements]
           ELSE UNCHANGED asked
        /\ \/ reply' = [kind |-> kind, answers |-> handleEthereumRPC(asked')]
           \/ UNCHANGED reply
    /\ pc' = "closed"
    /\ UNCHANGED <<clientVars, taken, outer, inner, handler, data, clen,
                   chunked, panicked, event>>

RouteStep ==
    \/ FillOuter \/ FillInner
    \/ PeekFails \/ PeekedShort \/ PeekedLong
    \/ HandlerRead \/ HandlerReadFails \/ HandlerFinish
    \/ HTTPReadHead \/ HTTPHead \/ HTTPReadBody \/ HTTPReadFails
    \/ HTTPProduce \/ HTTPRespond

\* The handler is in Parse and the worker will never take its command.
ParseBlocked ==
    /\ spicy /\ stuck
    /\ \/ pc = "peekShort" /\ Len(outer) >= PeekShort
       \/ pc = "peekLong" /\ Len(inner) >= PeekLong
       \/ pc = "produce" /\ handler = "http"

\* The connection is closed, or the other handler's from now on, or its
\* goroutine waits for ever.
RouteOver ==
    /\ pc \in {"handed", "closed"} \/ ParseBlocked
    /\ UNCHANGED rVars

RNext == ClientSend \/ ClientFin \/ WorkerStuck \/ RouteStep \/ RouteOver

\* The goroutine runs when it can: a deadline ends every wait of its own.
RSpec == RInit /\ [][RNext]_rVars /\ WF_rVars(RouteStep)

-----------------------------------------------------------------------------
(* Properties. *)

PCs == {"peekShort", "peekLong", "read", "finish", "head", "body", "produce",
        "respond", "handed", "closed"}

\* Buffers hold positions of the stream and never more than their size, and
\* however fast the client sends, HandleTCP keeps at most one read more than
\* max_tcp_payload in memory.
RTypeOK ==
    /\ {spicy, stuck, fin, chunked, panicked, relay} \subseteq BOOLEAN
    /\ sent \in 0..MaxSent /\ taken \in 0..sent
    /\ pc \in PCs
    /\ handler \in {"none", "goHTTP", "http", "rdp", "mongodb", "tcp"}
    /\ \A b \in {outer, inner} : b \in Seq(1..taken) /\ Len(b) <= BufSize
    /\ data \in Seq(1..taken)
    /\ handler = "tcp" => Len(data) <= MaxPayload + ReadSize
    /\ clen \in 0..(MaxAlloc + 1)

\* What the current handler has read and can still read.
Stream ==
    data \o (IF readsInner(handler) THEN inner ELSE <<>>)
         \o outer \o Positions(taken, sent)

\* A specialised handler, and the fallback when Spicy is off, gets the whole
\* stream from its first byte on, in order: peeking took nothing away.
StreamIntact ==
    (handler \notin {"none", "tcp"} \/ (handler = "tcp" /\ ~spicy)) =>
        Stream = Positions(0, sent)

\* No client keeps the handler goroutine for ever by falling silent, and a
\* connection that reached HandleTCP ends with its event made.  The one wait
\* without a deadline is Parse's for a Spicy worker that another connection's
\* bytes, or a Cleanup, took away.
RouteEnds ==
    <>(\/ pc = "handed"
       \/ pc = "closed" /\ (handler = "tcp" => event # <<>>)
       \/ ParseBlocked)

\* An HTTP request is reported only once its head and the bytes its
\* Content-Length announces were read, before it is answered or anything is
\* dialled for it, and the event has exactly these bytes (for the Go handler
\* without the head): none lost to a peek or to a reader, none of a pipelined
\* second request.  One that was read that far is not dropped, unless its
\* Parse waits for ever.  What it does not say is that these bytes are the
\* whole request: a body in chunks is not among them.
HTTPRecorded ==
    handler \in {"http", "goHTTP"} =>
        LET all == Len(data) = HeadLen + clen
            from == IF handler = "goHTTP" THEN HeadLen ELSE 0
        IN
        /\ event # <<>> => all /\ event[1].payload = Positions(from, Len(data))
        /\ pc = "closed" /\ all /\ clen > 0 => event # <<>>
        /\ reply.kind # "none" \/ relay => event # <<>> /\ event[1].name = "http"

\* The messages of the request that name a known method.
Known == {i \in DOMAIN asked : asked[i].method \in Methods}

\* handleEthereumRPC answers a batch with one result per message of a known
\* method, in their order and with their IDs: a message it does not know, and
\* null, get none, not even the previous message's.
EthereumAnswers ==
    reply.kind = "ethereum" =>
        /\ Len(reply.answers) = Cardinality(Known)
        /\ \A i \in Known :
               reply.answers[Cardinality({j \in Known : j <= i})] =
                   [id |-> asked[i].id, result |-> asked[i].method]

\* README.md: "captures it generically so the payload is preserved even when
\* the protocol is unknown".
GenericSeesStream == handler = "tcp" => Stream = Positions(0, sent)
=============================================================================
