-------------------------- MODULE TCPRoute_proofs ---------------------------
(***************************************************************************)
(* For any sizes of peeks, buffers and reads, and any segmentation of the  *)
(* client's stream: no byte is lost, repeated or reordered on its way      *)
(* through the two buffered readers to the handler, the generic handler's  *)
(* memory is bounded, HTTP requests are reported as announced, each known  *)
(* message of a batch is answered, and no loop turns for nothing.          *)
(*                                                                         *)
(* Bytes are positions, so what a buffer holds is a run of consecutive     *)
(* positions; the inductive invariant says where each run begins and ends. *)
(***************************************************************************)
EXTENDS TCPRoute, SequenceTheorems, FiniteSetTheorems, WellFoundedInduction, TLAPS

\* The t bytes taken are three runs, cut at d and e: what was read (ds), the
\* content of the second buffer (is) and that of the first (os).  The fallback
\* reads past the second buffer, everyone else through it.
Runs(h, ds, is, os, d, e, t) ==
    /\ d <= e /\ e <= t
    /\ os = Positions(e, t)
    /\ IF h = "tcp" THEN is = Positions(0, d) /\ ds = Positions(d, e)
       ELSE ds = Positions(0, d) /\ is = Positions(d, e)

RunInv == \E d, e \in Nat : Runs(handler, data, inner, outer, d, e, taken)

\* Types, and room in the buffers.
SizeInv ==
    /\ spicy \in BOOLEAN /\ stuck \in BOOLEAN /\ fin \in BOOLEAN
    /\ chunked \in BOOLEAN /\ panicked \in BOOLEAN /\ relay \in BOOLEAN
    /\ sent \in 0..MaxSent /\ taken \in 0..sent
    /\ pc \in PCs
    /\ handler \in {"none", "goHTTP", "http", "rdp", "mongodb", "tcp"}
    /\ Len(outer) <= BufSize /\ Len(inner) <= BufSize
    /\ pc = "read" => Len(data) <= MaxPayload
    /\ handler = "tcp" => Len(data) <= MaxPayload + ReadSize
    /\ clen \in 0..(MaxAlloc + 1)

\* Nothing has been read of an HTTP request, nor made of it.
Untouched == clen = 0 /\ event = <<>> /\ reply.kind = "none" /\ relay = FALSE

\* Which handler is in charge in which state, and when the second buffer is
\* still unused.
ControlInv ==
    /\ pc \in {"peekShort", "peekLong"} => handler = "none" /\ data = <<>> /\ Untouched
    /\ pc = "peekShort" => inner = <<>>
    /\ pc = "peekLong" \/ stuck => spicy
    /\ pc \in {"read", "finish"} => handler = "tcp"
    /\ pc \in {"head", "body", "produce", "respond"} => handler \in {"http", "goHTTP"}
    /\ handler \in {"goHTTP", "rdp"} \/ (handler = "tcp" /\ ~spicy) => inner = <<>>

\* How much of the request an HTTP handler has read in each state.
HTTPInv ==
    handler \in {"http", "goHTTP"} =>
        /\ pc \in {"head", "body", "produce"} =>
               event = <<>> /\ reply.kind = "none" /\ relay = FALSE
        /\ pc = "head" => Len(data) <= HeadLen /\ clen = 0
        /\ pc = "body" => HeadLen <= Len(data) /\ Len(data) < HeadLen + clen
        /\ pc = "produce" => Len(data) = HeadLen + clen
        /\ pc = "respond" => event # <<>> /\ event[1].name = "http"

RInv == RunInv /\ SizeInv /\ ControlInv /\ HTTPInv /\ HTTPRecorded

-----------------------------------------------------------------------------
(* Runs of positions. *)

LEMMA RunShape ==
    ASSUME NEW a \in Nat, NEW b \in Nat, a <= b
    PROVE  /\ Positions(a, b) \in Seq(1..b)
           /\ Len(Positions(a, b)) = b - a
           /\ DOMAIN Positions(a, b) = 1..(b - a)
           /\ \A j \in 1..(b - a) : Positions(a, b)[j] = a + j
           /\ Positions(a, b) = <<>> <=> a = b
<1>1. b - a \in Nat
    OBVIOUS
<1>2. Positions(a, b) \in [1..(b - a) -> 1..b]
    BY DEF Positions
<1>3. Positions(a, b) \in Seq(1..b)
    BY <1>1, <1>2, SeqDef
<1>4. /\ DOMAIN Positions(a, b) = 1..(b - a)
      /\ \A j \in 1..(b - a) : Positions(a, b)[j] = a + j
    BY DEF Positions
<1>5. Len(Positions(a, b)) = b - a
    BY <1>1, <1>3, <1>4, LenProperties
<1>6. Positions(a, b) = <<>> <=> a = b
    BY <1>3, <1>5, EmptySeq
<1> QED
    BY <1>3, <1>4, <1>5, <1>6

\* A sequence of the length and the elements of a run is that run.
LEMMA RunIs ==
    ASSUME NEW a \in Nat, NEW b \in Nat, a <= b, NEW S, NEW s \in Seq(S),
           Len(s) = b - a, \A j \in 1..(b - a) : s[j] = a + j
    PROVE  s = Positions(a, b)
<1>1. DOMAIN s = 1..(b - a)
    BY LenProperties
<1>2. s = [j \in 1..(b - a) |-> s[j]]
    BY <1>1
<1> QED
    BY <1>2 DEF Positions

\* Two runs that meet are one.
LEMMA RunConcat ==
    ASSUME NEW a \in Nat, NEW b \in Nat, NEW c \in Nat, a <= b, b <= c
    PROVE  Positions(a, b) \o Positions(b, c) = Positions(a, c)
<1> DEFINE p == Positions(a, b)
           q == Positions(b, c)
<1>1. /\ p \in Seq(Nat) /\ q \in Seq(Nat) /\ Len(p) = b - a /\ Len(q) = c - b
      /\ \A j \in 1..(b - a) : p[j] = a + j
      /\ \A j \in 1..(c - b) : q[j] = b + j
    <2>1. \A n \in Nat : Seq(1..n) \subseteq Seq(Nat)
        OBVIOUS
    <2> QED
        BY <2>1, RunShape
<1> HIDE DEF p, q
<1>2. /\ p \o q \in Seq(Nat) /\ Len(p \o q) = c - a
      /\ \A j \in 1..(c - a) : (p \o q)[j] = IF j <= b - a THEN p[j] ELSE q[j - (b - a)]
    <2>1. Len(p) + Len(q) = c - a
        BY <1>1
    <2>2. /\ p \o q \in Seq(Nat)
          /\ Len(p \o q) = Len(p) + Len(q)
          /\ \A j \in 1..(Len(p) + Len(q)) :
                 (p \o q)[j] = IF j <= Len(p) THEN p[j] ELSE q[j - Len(p)]
        BY <1>1, ConcatProperties
    <2> QED
        BY <1>1, <2>1, <2>2
<1>3. \A j \in 1..(c - a) : (p \o q)[j] = a + j
    <2> SUFFICES ASSUME NEW j \in 1..(c - a) PROVE (p \o q)[j] = a + j
        OBVIOUS
    <2>1. CASE j <= b - a
        BY <1>1, <1>2, <2>1
    <2>2. CASE ~(j <= b - a)
        <3>1. j - (b - a) \in 1..(c - b)
            BY <2>2
        <3>2. q[j - (b - a)] = b + (j - (b - a))
            BY <1>1, <3>1
        <3> QED
            BY <1>2, <2>2, <3>2
    <2> QED
        BY <2>1, <2>2
<1>4. a <= c
    OBVIOUS
<1>5. p \o q = Positions(a, c)
    BY <1>2, <1>3, <1>4, RunIs
<1> QED
    BY <1>5 DEF p, q

\* A read of n bytes returns the first ones and leaves the rest.
First(s, n) == SubSeq(s, 1, n)
Rest(s, n) == SubSeq(s, n + 1, Len(s))

\* Reading the first bytes of a run cuts it.
LEMMA RunCut ==
    ASSUME NEW a \in Nat, NEW b \in Nat, NEW c \in Nat, a <= c, c <= b,
           NEW n \in Nat, n = c - a
    PROVE  /\ First(Positions(a, b), n) = Positions(a, c)
           /\ Rest(Positions(a, b), n) = Positions(c, b)
<1> DEFINE p == Positions(a, b)
<1>1. /\ p \in Seq(1..b) /\ Len(p) = b - a
      /\ \A j \in 1..(b - a) : p[j] = a + j
    BY RunShape
<1> HIDE DEF p
<1>2. \A j \in 1..(b - a) : p[j] \in Nat
    BY <1>1
<1>3. /\ SubSeq(p, 1, n) \in Seq(Nat)
      /\ Len(SubSeq(p, 1, n)) = IF 1 <= n THEN n - 1 + 1 ELSE 0
      /\ \A j \in 1..(n - 1 + 1) : SubSeq(p, 1, n)[j] = p[1 + j - 1]
    <2>1. 1 \in Int /\ n \in Int /\ \A j \in 1..n : p[j] \in Nat
        BY <1>2
    <2> QED
        BY <2>1, SubSeqProperties
<1>4. SubSeq(p, 1, n) = Positions(a, c)
    <2>1. Len(SubSeq(p, 1, n)) = c - a
        BY <1>3
    <2>2. \A j \in 1..(c - a) : SubSeq(p, 1, n)[j] = a + j
        BY <1>1, <1>3
    <2> QED
        BY <1>3, <2>1, <2>2, RunIs
<1> DEFINE l == Len(p)
<1>5. l = b - a /\ l \in Int
    BY <1>1
<1> HIDE DEF l
<1>6. /\ SubSeq(p, n + 1, l) \in Seq(Nat)
      /\ Len(SubSeq(p, n + 1, l)) = IF n + 1 <= l THEN l - (n + 1) + 1 ELSE 0
      /\ \A j \in 1..(l - (n + 1) + 1) : SubSeq(p, n + 1, l)[j] = p[(n + 1) + j - 1]
    <2>1. n + 1 \in Int /\ l \in Int /\ \A j \in (n + 1)..l : p[j] \in Nat
        BY <1>2, <1>5
    <2> QED
        BY <2>1, SubSeqProperties
<1>7. SubSeq(p, n + 1, l) = Positions(c, b)
    <2>1. Len(SubSeq(p, n + 1, l)) = b - c
        BY <1>5, <1>6
    <2>2. \A j \in 1..(b - c) : SubSeq(p, n + 1, l)[j] = c + j
        BY <1>1, <1>5, <1>6
    <2> QED
        BY <1>6, <2>1, <2>2, RunIs
<1> QED
    BY <1>4, <1>7 DEF p, l, First, Rest

-----------------------------------------------------------------------------
(* Where the runs go. *)

\* Lengths and types of what holds the runs.
LEMMA RunFacts ==
    ASSUME NEW h, NEW ds, NEW is, NEW os, NEW d \in Nat, NEW e \in Nat, NEW t \in Nat,
           Runs(h, ds, is, os, d, e, t)
    PROVE  /\ d <= e /\ e <= t
           /\ ds \in Seq(1..t) /\ is \in Seq(1..t) /\ os \in Seq(1..t)
           /\ Len(os) = t - e /\ (os = <<>> <=> e = t)
           /\ h = "tcp" => /\ Len(is) = d /\ (is = <<>> <=> d = 0)
                           /\ Len(ds) = e - d /\ (ds = <<>> <=> d = e)
           /\ h # "tcp" => /\ Len(ds) = d /\ (ds = <<>> <=> d = 0)
                           /\ Len(is) = e - d /\ (is = <<>> <=> d = e)
<1>1. \A b \in Nat : b <= t => Seq(1..b) \subseteq Seq(1..t)
    OBVIOUS
<1>2. d <= e /\ e <= t /\ 0 <= d /\ 0 \in Nat /\ d - 0 = d /\ os = Positions(e, t)
    BY DEF Runs
<1>3. /\ Positions(e, t) \in Seq(1..t) /\ Len(Positions(e, t)) = t - e
      /\ Positions(e, t) = <<>> <=> e = t
    BY <1>2, RunShape
<1>4. /\ Positions(d, e) \in Seq(1..e) /\ Len(Positions(d, e)) = e - d
      /\ Positions(d, e) = <<>> <=> d = e
    BY <1>2, RunShape
<1>5. /\ Positions(0, d) \in Seq(1..d) /\ Len(Positions(0, d)) = d - 0
      /\ Positions(0, d) = <<>> <=> 0 = d
    BY <1>2, RunShape
<1>6. Positions(d, e) \in Seq(1..t) /\ Positions(0, d) \in Seq(1..t)
    BY <1>1, <1>2, <1>4, <1>5
<1> QED
    BY <1>2, <1>3, <1>4, <1>5, <1>6 DEF Runs

\* The socket is read into the first buffer.
LEMMA RunsFill ==
    ASSUME NEW h, NEW ds, NEW is, NEW os, NEW d \in Nat, NEW e \in Nat, NEW t \in Nat,
           Runs(h, ds, is, os, d, e, t), NEW u \in Nat, t <= u
    PROVE  Runs(h, ds, is, os \o Positions(t, u), d, e, u)
<1>1. os = Positions(e, t) /\ e <= t
    BY DEF Runs
<1>2. os \o Positions(t, u) = Positions(e, u)
    BY <1>1, RunConcat
<1> QED
    BY <1>1, <1>2 DEF Runs

\* Bytes move from the first buffer to the second, before anyone falls back.
LEMMA RunsMove ==
    ASSUME NEW h, NEW ds, NEW is, NEW os, NEW d \in Nat, NEW e \in Nat, NEW t \in Nat,
           Runs(h, ds, is, os, d, e, t), h # "tcp",
           NEW c \in Nat, e <= c, c <= t, NEW n \in Nat, n = c - e
    PROVE  Runs(h, ds, is \o First(os, n), Rest(os, n), d, c, t)
<1>1. /\ os = Positions(e, t) /\ is = Positions(d, e) /\ ds = Positions(0, d)
      /\ d <= e /\ d <= c
    BY DEF Runs
<1>a. /\ First(Positions(e, t), n) = Positions(e, c)
      /\ Rest(Positions(e, t), n) = Positions(c, t)
    BY RunCut
<1>2. /\ First(os, n) = Positions(e, c)
      /\ Rest(os, n) = Positions(c, t)
    BY <1>1, <1>a, Zenon
<1>b. Positions(d, e) \o Positions(e, c) = Positions(d, c)
    BY <1>1, RunConcat, Zenon
<1>3. is \o First(os, n) = Positions(d, c)
    BY <1>1, <1>2, <1>b, Zenon
<1> QED
    BY <1>1, <1>2, <1>3 DEF Runs

\* The fallback reads from the first buffer.
LEMMA RunsReadTCP ==
    ASSUME NEW ds, NEW is, NEW os, NEW d \in Nat, NEW e \in Nat, NEW t \in Nat,
           Runs("tcp", ds, is, os, d, e, t),
           NEW c \in Nat, e <= c, c <= t, NEW n \in Nat, n = c - e
    PROVE  Runs("tcp", ds \o First(os, n), is, Rest(os, n), d, c, t)
<1>1. /\ os = Positions(e, t) /\ ds = Positions(d, e) /\ is = Positions(0, d)
      /\ d <= e /\ d <= c
    BY DEF Runs
<1>a. /\ First(Positions(e, t), n) = Positions(e, c)
      /\ Rest(Positions(e, t), n) = Positions(c, t)
    BY RunCut
<1>2. /\ First(os, n) = Positions(e, c)
      /\ Rest(os, n) = Positions(c, t)
    BY <1>1, <1>a, Zenon
<1>b. Positions(d, e) \o Positions(e, c) = Positions(d, c)
    BY <1>1, RunConcat, Zenon
<1>3. ds \o First(os, n) = Positions(d, c)
    BY <1>1, <1>2, <1>b, Zenon
<1> QED
    BY <1>1, <1>2, <1>3 DEF Runs

\* So does a handler that has no second buffer before it.
LEMMA RunsReadOuter ==
    ASSUME NEW h, NEW ds, NEW is, NEW os, NEW d \in Nat, NEW t \in Nat,
           Runs(h, ds, is, os, d, d, t), h # "tcp",
           NEW c \in Nat, d <= c, c <= t, NEW n \in Nat, n = c - d
    PROVE  Runs(h, ds \o First(os, n), is, Rest(os, n), c, c, t)
<1>1. /\ os = Positions(d, t) /\ ds = Positions(0, d) /\ is = Positions(d, d)
      /\ 0 <= d /\ 0 \in Nat
    BY DEF Runs
<1>a. /\ First(Positions(d, t), n) = Positions(d, c)
      /\ Rest(Positions(d, t), n) = Positions(c, t)
    BY RunCut
<1>2. /\ First(os, n) = Positions(d, c)
      /\ Rest(os, n) = Positions(c, t)
    BY <1>1, <1>a, Zenon
<1>b. Positions(0, d) \o Positions(d, c) = Positions(0, c)
    BY <1>1, RunConcat, Zenon
<1>3. ds \o First(os, n) = Positions(0, c)
    BY <1>1, <1>2, <1>b, Zenon
<1>4. Positions(d, d) = <<>> /\ Positions(c, c) = <<>>
    BY RunShape
<1> QED
    BY <1>1, <1>2, <1>3, <1>4 DEF Runs

\* The Spicy HTTP handler reads from the second buffer.
LEMMA RunsReadInner ==
    ASSUME NEW h, NEW ds, NEW is, NEW os, NEW d \in Nat, NEW e \in Nat, NEW t \in Nat,
           Runs(h, ds, is, os, d, e, t), h # "tcp",
           NEW c \in Nat, d <= c, c <= e, NEW n \in Nat, n = c - d
    PROVE  Runs(h, ds \o First(is, n), Rest(is, n), os, c, e, t)
<1>1. /\ os = Positions(e, t) /\ ds = Positions(0, d) /\ is = Positions(d, e)
      /\ 0 <= d /\ 0 \in Nat /\ e <= t
    BY DEF Runs
<1>a. /\ First(Positions(d, e), n) = Positions(d, c)
      /\ Rest(Positions(d, e), n) = Positions(c, e)
    BY RunCut
<1>2. /\ First(is, n) = Positions(d, c)
      /\ Rest(is, n) = Positions(c, e)
    BY <1>1, <1>a, Zenon
<1>b. Positions(0, d) \o Positions(d, c) = Positions(0, c)
    BY <1>1, RunConcat, Zenon
<1>3. ds \o First(is, n) = Positions(0, c)
    BY <1>1, <1>2, <1>b, Zenon
<1> QED
    BY <1>1, <1>2, <1>3 DEF Runs

\* Before anything is read it does not matter who will read.
LEMMA RunsHand ==
    ASSUME NEW h, NEW g, NEW ds, NEW is, NEW os, NEW e \in Nat, NEW t \in Nat,
           Runs(h, ds, is, os, 0, e, t), h # "tcp"
    PROVE  Runs(g, ds, is, os, IF g = "tcp" THEN e ELSE 0, e, t)
<1>1. /\ ds = Positions(0, 0) /\ is = Positions(0, e) /\ os = Positions(e, t)
      /\ 0 <= e /\ e <= t /\ 0 \in Nat
    BY DEF Runs
<1>2. Positions(0, 0) = <<>> /\ Positions(e, e) = <<>>
    BY <1>1, RunShape
<1>3. CASE g = "tcp"
    BY <1>1, <1>2, <1>3 DEF Runs
<1>4. CASE g # "tcp"
    BY <1>1, <1>4 DEF Runs
<1> QED
    BY <1>3, <1>4

-----------------------------------------------------------------------------
(* The initial state, the client, and the buffers. *)

LEMMA Sizes ==
    /\ PeekShort \in Nat /\ PeekLong \in Nat /\ BufSize \in Nat
    /\ ReadSize \in Nat /\ ReadSize > 0 /\ HeadLen \in Nat /\ HeadLen > 0
    /\ MaxPayload \in Nat /\ MaxHTTPBody \in Nat /\ MaxSent \in Nat
    /\ MaxAlloc \in Nat
BY SizesAssumption

LEMMA InitRInv == RInit => RInv
<1> SUFFICES ASSUME RInit PROVE RInv
    OBVIOUS
<1>1. Positions(0, 0) = <<>>
    BY RunShape
<1>2. Runs(handler, data, inner, outer, 0, 0, taken)
    BY <1>1 DEF RInit, Runs
<1>3. RunInv
    BY <1>2 DEF RunInv
<1>4. Len(<<>>) = 0
    OBVIOUS
<1>5. SizeInv
    <2>1. pc \in PCs /\ handler \in {"none", "goHTTP", "http", "rdp", "mongodb", "tcp"}
        BY DEF RInit, PCs
    <2>2. sent \in 0..MaxSent /\ taken \in 0..sent /\ clen \in 0..(MaxAlloc + 1)
        BY Sizes DEF RInit
    <2>3. /\ Len(outer) <= BufSize /\ Len(inner) <= BufSize
          /\ Len(data) <= MaxPayload /\ Len(data) <= MaxPayload + ReadSize
        BY <1>4, Sizes DEF RInit
    <2> QED
        BY <2>1, <2>2, <2>3 DEF RInit, SizeInv
<1>6. reply.kind = "none"
    BY DEF RInit
<1>7. ControlInv
    BY <1>6 DEF RInit, ControlInv, Untouched
<1>a. HTTPInv
    <2>1. Len(data) <= HeadLen
        BY <1>4, Sizes DEF RInit
    <2> QED
        BY <1>6, <2>1 DEF RInit, HTTPInv
<1>8. HTTPRecorded
    BY <1>6 DEF RInit, HTTPRecorded
<1> QED
    BY <1>3, <1>5, <1>7, <1>a, <1>8 DEF RInv

\* The client only adds to what can be taken.
LEMMA ClientRInv ==
    ASSUME RInv, ClientSend \/ ClientFin \/ WorkerStuck
    PROVE  RInv'
<1>1. /\ UNCHANGED <<spicy, taken, outer, inner, pc, handler, data, event>>
      /\ UNCHANGED <<clen, chunked, panicked, asked, reply, relay>>
    BY DEF ClientSend, ClientFin, WorkerStuck, httpVars
<1>2. fin' \in BOOLEAN /\ stuck' \in BOOLEAN /\ (stuck' => spicy)
  <2>1. fin \in BOOLEAN /\ stuck \in BOOLEAN /\ (stuck => spicy)
    BY DEF RInv, SizeInv, ControlInv
  <2>2. \/ stuck' = stuck /\ fin' \in {fin, TRUE}
        \/ spicy /\ stuck' = TRUE /\ fin' = fin
    <3>1. CASE ClientSend
        BY <3>1 DEF ClientSend
    <3>2. CASE ClientFin
        BY <3>2 DEF ClientFin
    <3>3. CASE WorkerStuck
        BY <3>3 DEF WorkerStuck
    <3>. QED
        BY <3>1, <3>2, <3>3
  <2>3. CASE stuck' = stuck /\ fin' \in {fin, TRUE}
    BY <2>1, <2>3, Zenon
  <2>4. CASE spicy /\ stuck' = TRUE /\ fin' = fin
    BY <2>1, <2>4, Zenon
  <2>. QED
    BY <2>2, <2>3, <2>4
<1>a. sent' = sent \/ (sent' = sent + 1 /\ sent < MaxSent)
    BY DEF ClientSend, ClientFin, WorkerStuck
<1>b. sent \in 0..MaxSent /\ taken \in 0..sent
    BY DEF RInv, SizeInv
<1>c. sent' \in 0..MaxSent /\ taken' \in 0..sent'
    BY <1>1, <1>a, <1>b, Sizes
<1>3. SizeInv'
    BY <1>1, <1>2, <1>c DEF RInv, SizeInv
<1>4. (RunInv /\ ControlInv /\ HTTPInv /\ HTTPRecorded)'
    BY <1>1, <1>2 DEF RInv, RunInv, ControlInv, HTTPInv, HTTPRecorded, Untouched
<1> QED
    BY <1>3, <1>4 DEF RInv

\* Reading the socket adds to the last run.
LEMMA FillOuterRInv ==
    ASSUME RInv, FillOuter
    PROVE  RInv'
<1>1. /\ UNCHANGED <<spicy, stuck, sent, fin, inner, pc, handler, data, event>>
      /\ UNCHANGED <<clen, chunked, panicked, asked, reply, relay>>
    BY DEF FillOuter, clientVars, httpVars
<1>2. PICK d \in Nat, e \in Nat : Runs(handler, data, inner, outer, d, e, taken)
    BY DEF RInv, RunInv
<1>3. /\ taken \in Nat /\ sent \in Nat /\ taken <= sent /\ BufSize \in Nat
      /\ Len(outer) <= BufSize
    BY Sizes DEF RInv, SizeInv
<1>4. Len(outer) = taken - e /\ e <= taken
    BY <1>2, <1>3, RunFacts
<1>5. PICK n \in 1..Least(sent - taken, BufSize - Len(outer)) :
        /\ outer' = outer \o Positions(taken, taken + n)
        /\ taken' = taken + n
    BY DEF FillOuter
<1>6. n \in Nat /\ taken' \in Nat /\ taken <= taken' /\ taken' <= sent
      /\ n <= BufSize - Len(outer)
    <2>1. sent - taken \in Int /\ BufSize - Len(outer) \in Int
        BY <1>3, <1>4
    <2> QED
        BY <1>3, <1>5, <2>1 DEF Least
<1>7. Runs(handler, data, inner, outer', d, e, taken')
    BY <1>2, <1>3, <1>5, <1>6, RunsFill
<1>8. RunInv'
    BY <1>1, <1>7 DEF RunInv
<1>9. Len(outer') <= BufSize
    <2>1. Len(outer') = taken' - e
        BY <1>6, <1>7, RunFacts
    <2> QED
        BY <1>3, <1>4, <1>5, <1>6, <2>1
<1>10. SizeInv'
    BY <1>1, <1>3, <1>6, <1>9 DEF RInv, SizeInv
<1>11. (ControlInv /\ HTTPInv /\ HTTPRecorded)'
    BY <1>1 DEF RInv, ControlInv, HTTPInv, HTTPRecorded, Untouched
<1> QED
    BY <1>8, <1>10, <1>11 DEF RInv

\* Moving bytes to the second buffer moves the cut between the two.
LEMMA FillInnerRInv ==
    ASSUME RInv, FillInner
    PROVE  RInv'
<1> DEFINE n == Least(Len(outer), BufSize - Len(inner))
<1>1. /\ UNCHANGED <<spicy, stuck, sent, fin, taken, pc, handler, data, event>>
      /\ UNCHANGED <<clen, chunked, panicked, asked, reply, relay>>
    BY DEF FillInner, clientVars, httpVars
<1>2. handler # "tcp" /\ handler \notin {"goHTTP", "rdp"} /\ pc # "peekShort"
    BY DEF FillInner, RInv, ControlInv
<1>3. PICK d \in Nat, e \in Nat : Runs(handler, data, inner, outer, d, e, taken)
    BY DEF RInv, RunInv
<1>4. /\ taken \in Nat /\ BufSize \in Nat /\ Len(inner) <= BufSize
      /\ Len(outer) <= BufSize
    BY Sizes DEF RInv, SizeInv
<1>5. /\ Len(outer) = taken - e /\ Len(inner) = e - d /\ d <= e /\ e <= taken
    BY <1>2, <1>3, <1>4, RunFacts
<1>6. n \in Nat /\ n <= taken - e /\ n <= BufSize - (e - d)
    <2>1. Len(outer) \in Int /\ BufSize - Len(inner) \in Int
        BY <1>4, <1>5
    <2> QED
        BY <1>4, <1>5, <2>1 DEF Least
<1>7. inner' = inner \o First(outer, n) /\ outer' = Rest(outer, n)
    BY DEF FillInner, First, Rest
<1> HIDE DEF n
<1> DEFINE c == e + n
<1>8. c \in Nat /\ e <= c /\ c <= taken /\ n = c - e /\ c - d <= BufSize
    BY <1>4, <1>5, <1>6
<1> HIDE DEF c
<1>9. Runs(handler, data, inner', outer', d, c, taken)
    BY <1>2, <1>3, <1>4, <1>6, <1>7, <1>8, RunsMove
<1>10. RunInv'
    BY <1>1, <1>8, <1>9 DEF RunInv
<1>11. Len(inner') <= BufSize /\ Len(outer') <= BufSize
    <2>1. Len(inner') = c - d /\ Len(outer') = taken - c
        BY <1>2, <1>4, <1>8, <1>9, RunFacts
    <2> QED
        BY <1>4, <1>5, <1>8, <2>1
<1>12. SizeInv'
    BY <1>1, <1>11 DEF RInv, SizeInv
<1>13. (ControlInv /\ HTTPInv /\ HTTPRecorded)'
    BY <1>1, <1>2 DEF RInv, ControlInv, HTTPInv, HTTPRecorded, Untouched
<1> QED
    BY <1>10, <1>12, <1>13 DEF RInv

-----------------------------------------------------------------------------
(* The "tcp" closure and HandleTCP. *)

\* Peeking that fails or goes on leaves the runs alone.
LEMMA PeekStaysRInv ==
    ASSUME RInv, pc \in {"peekShort", "peekLong"},
           pc' = "closed" \/ (pc' = "peekLong" /\ spicy),
           UNCHANGED <<clientVars, taken, outer, inner, handler, data, event, httpVars>>
    PROVE  RInv'
<1>1. /\ UNCHANGED <<spicy, stuck, sent, fin, taken, outer, inner, handler, data, event>>
      /\ UNCHANGED <<clen, chunked, panicked, asked, reply, relay>>
    BY DEF clientVars, httpVars
<1>2. handler = "none"
    BY DEF RInv, ControlInv
<1>3. RunInv'
    BY <1>1 DEF RInv, RunInv
<1>4. SizeInv'
    BY <1>1 DEF RInv, SizeInv, PCs
<1>5. (ControlInv /\ HTTPInv /\ HTTPRecorded)'
    BY <1>1, <1>2 DEF RInv, ControlInv, HTTPInv, HTTPRecorded, Untouched
<1> QED
    BY <1>3, <1>4, <1>5 DEF RInv

\* A handler takes over before anything was read.
LEMMA HandRInv ==
    ASSUME RInv, NEW h \in {"http", "rdp", "mongodb", "tcp"}, handTo(h),
           \/ pc = "peekShort" /\ h # "mongodb" /\ (h = "tcp" => ~spicy)
           \/ pc = "peekLong" /\ h \in {"mongodb", "tcp"},
           UNCHANGED <<clientVars, taken, outer, inner, data, event, httpVars>>
    PROVE  RInv'
<1>1. /\ UNCHANGED <<spicy, stuck, sent, fin, taken, outer, inner, data, event>>
      /\ UNCHANGED <<clen, chunked, panicked, asked, reply, relay>>
    BY DEF clientVars, httpVars
<1>2. handler = "none" /\ data = <<>> /\ Untouched
    BY DEF RInv, ControlInv
<1>3. /\ handler' = h
      /\ pc' = IF h = "tcp" THEN "read" ELSE IF h = "http" THEN "head" ELSE "handed"
    BY DEF handTo
<1>4. RunInv'
    <2>1. PICK d \in Nat, e \in Nat : Runs(handler, data, inner, outer, d, e, taken)
        BY DEF RInv, RunInv
    <2>2. taken \in Nat
        BY DEF RInv, SizeInv
    <2>3. d = 0
        BY <1>2, <2>1, <2>2, RunFacts
    <2>4. Runs(h, data, inner, outer, IF h = "tcp" THEN e ELSE 0, e, taken)
        BY <1>2, <2>1, <2>2, <2>3, RunsHand
    <2> QED
        BY <1>1, <1>3, <2>4 DEF RunInv
<1>5. SizeInv'
    <2>1. pc' \in PCs /\ handler' \in {"none", "goHTTP", "http", "rdp", "mongodb", "tcp"}
        BY <1>3 DEF PCs
    <2>2. Len(data') <= MaxPayload /\ Len(data') <= MaxPayload + ReadSize
        <3>1. Len(data') = 0
            BY <1>1, <1>2
        <3> QED
            BY <3>1, Sizes
    <2> QED
        BY <1>1, <2>1, <2>2 DEF RInv, SizeInv
<1>6. ControlInv'
    BY <1>1, <1>3 DEF RInv, ControlInv
<1>7. HTTPInv'
    <2>1. Len(data') <= HeadLen
        <3>1. Len(data') = 0
            BY <1>1, <1>2
        <3> QED
            BY <3>1, Sizes
    <2> QED
        BY <1>1, <1>2, <1>3, <2>1 DEF HTTPInv, Untouched
<1>8. HTTPRecorded'
    BY <1>1, <1>2, <1>3 DEF HTTPRecorded, Untouched
<1> QED
    BY <1>4, <1>5, <1>6, <1>7, <1>8 DEF RInv

\* HandleTCP's loop: a read of at most ReadSize bytes, and another one only
\* while the length is within the maximum.
LEMMA HandlerReadRInv ==
    ASSUME RInv, HandlerRead
    PROVE  RInv'
<1> DEFINE n == Least(ReadSize, Len(outer))
<1>1. /\ UNCHANGED <<spicy, stuck, sent, fin, taken, inner, handler, event>>
      /\ UNCHANGED <<clen, chunked, panicked, asked, reply, relay>>
    BY DEF HandlerRead, clientVars, httpVars
<1>2. /\ pc = "read" /\ handler = "tcp"
      /\ pc' = IF readLoopEnds(n, Len(data) + n) THEN "finish" ELSE "read"
      /\ data' = data \o First(outer, n) /\ outer' = Rest(outer, n)
    BY DEF HandlerRead, RInv, ControlInv, First, Rest
<1>3. PICK d \in Nat, e \in Nat : Runs("tcp", data, inner, outer, d, e, taken)
    BY <1>2 DEF RInv, RunInv
<1>4. taken \in Nat /\ Len(data) <= MaxPayload /\ Len(outer) <= BufSize
    BY <1>2 DEF RInv, SizeInv
<1>5. Len(outer) = taken - e /\ Len(data) = e - d /\ d <= e /\ e <= taken
    BY <1>3, <1>4, RunFacts
<1>6. n \in Nat /\ n <= taken - e /\ n <= ReadSize
    BY <1>4, <1>5, Sizes DEF Least
<1> HIDE DEF n
<1> DEFINE c == e + n
<1>7. c \in Nat /\ e <= c /\ c <= taken /\ n = c - e
    BY <1>4, <1>6
<1> HIDE DEF c
<1>8. Runs("tcp", data', inner, outer', d, c, taken)
    BY <1>2, <1>3, <1>4, <1>6, <1>7, RunsReadTCP
<1>9. RunInv'
    BY <1>1, <1>2, <1>7, <1>8 DEF RunInv
<1>10. Len(data') = c - d /\ Len(outer') = taken - c
    BY <1>4, <1>7, <1>8, RunFacts
<1>11. Len(data') <= MaxPayload + ReadSize /\ Len(outer') <= BufSize
    BY <1>4, <1>5, <1>6, <1>7, <1>10, Sizes
<1>12. pc' = "read" => Len(data') <= MaxPayload
    <2>1. Len(data') = Len(data) + n
        BY <1>5, <1>7, <1>10
    <2> QED
        BY <1>2, <1>5, <1>6, <2>1, Sizes DEF readLoopEnds
<1>13. SizeInv'
    <2>1. pc' \in PCs
        BY <1>2 DEF PCs
    <2> QED
        BY <1>1, <1>11, <1>12, <2>1 DEF RInv, SizeInv
<1>14. (ControlInv /\ HTTPInv /\ HTTPRecorded)'
    BY <1>1, <1>2 DEF RInv, ControlInv, HTTPInv, HTTPRecorded
<1> QED
    BY <1>9, <1>13, <1>14 DEF RInv

\* The end of HandleTCP.
LEMMA HandlerEndRInv ==
    ASSUME RInv, HandlerReadFails \/ HandlerFinish
    PROVE  RInv'
<1>1. /\ UNCHANGED <<spicy, stuck, sent, fin, taken, outer, inner, handler, data>>
      /\ UNCHANGED <<clen, chunked, panicked, asked, reply, relay>>
    BY DEF HandlerReadFails, HandlerFinish, clientVars, httpVars
<1>2. pc \in {"read", "finish"} /\ handler = "tcp" /\ pc' \in {"finish", "closed"}
    BY DEF HandlerReadFails, HandlerFinish, RInv, ControlInv
<1>3. RunInv'
    BY <1>1 DEF RInv, RunInv
<1>4. SizeInv'
    BY <1>1, <1>2 DEF RInv, SizeInv, PCs
<1>5. (ControlInv /\ HTTPInv /\ HTTPRecorded)'
    BY <1>1, <1>2 DEF RInv, ControlInv, HTTPInv, HTTPRecorded
<1> QED
    BY <1>3, <1>4, <1>5 DEF RInv

-----------------------------------------------------------------------------
(* The HTTP handlers. *)

\* Whichever buffer the handler reads from, taking n bytes of it makes what it
\* has read n bytes longer and leaves the runs in place.
LEMMA HTTPTakeRuns ==
    ASSUME RInv, handler \in {"http", "goHTTP"}, NEW n \in Nat, n <= available,
           httpTake(n), UNCHANGED <<taken, handler>>
    PROVE  /\ RunInv'
           /\ Len(data) \in Nat /\ Len(data') = Len(data) + n
           /\ Len(outer') <= BufSize /\ Len(inner') <= BufSize
           /\ handler = "goHTTP" => inner' = <<>>
<1>1. PICK d \in Nat, e \in Nat : Runs(handler, data, inner, outer, d, e, taken)
    BY DEF RInv, RunInv
<1>2. taken \in Nat /\ BufSize \in Nat /\ Len(outer) <= BufSize /\ Len(inner) <= BufSize
    BY Sizes DEF RInv, SizeInv
<1>3. /\ d <= e /\ e <= taken /\ Len(outer) = taken - e
      /\ Len(data) = d /\ Len(inner) = e - d /\ (inner = <<>> <=> d = e)
    BY <1>1, <1>2, RunFacts
<1> DEFINE c == d + n
<1>4. c \in Nat /\ d <= c /\ n = c - d
    OBVIOUS
<1>5. CASE handler = "http"
    <2>1. /\ data' = data \o First(inner, n) /\ inner' = Rest(inner, n)
          /\ outer' = outer /\ n <= Len(inner)
        BY <1>5 DEF httpTake, available, readsInner, First, Rest
    <2>2. c <= e
        BY <1>3, <2>1
    <2> HIDE DEF c
    <2>3. Runs(handler, data', inner', outer', c, e, taken)
        BY <1>1, <1>2, <1>4, <1>5, <2>1, <2>2, RunsReadInner
    <2>4. RunInv'
        BY <1>4, <2>3 DEF RunInv
    <2>5. Len(data') = c /\ Len(inner') = e - c
        BY <1>2, <1>4, <1>5, <2>3, RunFacts
    <2> QED
        BY <1>2, <1>3, <1>4, <1>5, <2>1, <2>4, <2>5
<1>6. CASE handler = "goHTTP"
    <2>1. /\ data' = data \o First(outer, n) /\ outer' = Rest(outer, n)
          /\ inner' = inner /\ n <= Len(outer)
        BY <1>6 DEF httpTake, available, readsInner, First, Rest
    <2>a. inner = <<>>
        BY <1>6 DEF RInv, ControlInv
    <2>2. inner = <<>> /\ d = e
        BY <1>3, <2>a
    <2>3. c <= taken
        BY <1>2, <1>3, <2>1, <2>2
    <2> HIDE DEF c
    <2>4. Runs(handler, data', inner', outer', c, c, taken)
        BY <1>1, <1>2, <1>4, <1>6, <2>1, <2>2, <2>3, RunsReadOuter
    <2>5. RunInv'
        BY <1>4, <2>4 DEF RunInv
    <2>6. Len(data') = c /\ Len(outer') = taken - c
        BY <1>2, <1>4, <1>6, <2>4, RunFacts
    <2> QED
        BY <1>2, <1>3, <1>4, <2>1, <2>2, <2>5, <2>6
<1> QED
    BY <1>5, <1>6

\* The lengths are numbers.
LEMMA HTTPLengths ==
    ASSUME RInv
    PROVE  Len(data) \in Nat /\ available \in Nat
<1>1. PICK d \in Nat, e \in Nat : Runs(handler, data, inner, outer, d, e, taken)
    BY DEF RInv, RunInv
<1>2. taken \in Nat
    BY DEF RInv, SizeInv
<1>3. data \in Seq(1..taken) /\ inner \in Seq(1..taken) /\ outer \in Seq(1..taken)
    BY <1>1, <1>2, RunFacts
<1> QED
    BY <1>3 DEF available

\* The head is read up to its length, and no further.
LEMMA HTTPReadHeadRInv ==
    ASSUME RInv, HTTPReadHead
    PROVE  RInv'
<1> DEFINE n == Least(available, HeadLen - Len(data))
<1>1. /\ UNCHANGED <<spicy, stuck, sent, fin, taken, pc, handler, event>>
      /\ UNCHANGED <<clen, chunked, panicked, asked, reply, relay>>
    BY DEF HTTPReadHead, clientVars, httpVars
<1>2. /\ pc = "head" /\ handler \in {"http", "goHTTP"} /\ httpTake(n)
      /\ available > 0 /\ Len(data) < HeadLen
    BY DEF HTTPReadHead, RInv, ControlInv
<1>3. Len(data) \in Nat /\ available \in Nat
    BY <1>2, HTTPLengths
<1>4. n \in Nat /\ n <= available /\ n <= HeadLen - Len(data)
    BY <1>2, <1>3, Sizes DEF Least
<1> HIDE DEF n
<1>5. /\ RunInv'
      /\ Len(data') = Len(data) + n
      /\ Len(outer') <= BufSize /\ Len(inner') <= BufSize
      /\ handler = "goHTTP" => inner' = <<>>
    BY <1>1, <1>2, <1>4, HTTPTakeRuns
<1>6. Len(data') <= HeadLen
    BY <1>3, <1>4, <1>5, Sizes
<1>7. SizeInv'
    BY <1>1, <1>2, <1>5 DEF RInv, SizeInv
<1>8. ControlInv'
    BY <1>1, <1>2, <1>5 DEF RInv, ControlInv
<1>9. HTTPInv'
    BY <1>1, <1>2, <1>6 DEF RInv, HTTPInv
<1>10. HTTPRecorded'
    BY <1>1, <1>2 DEF RInv, HTTPInv, HTTPRecorded
<1> QED
    BY <1>5, <1>7, <1>8, <1>9, <1>10 DEF RInv

\* The body is read up to the Content-Length.
LEMMA HTTPReadBodyRInv ==
    ASSUME RInv, HTTPReadBody
    PROVE  RInv'
<1> DEFINE n == Least(available, HeadLen + clen - Len(data))
<1>1. /\ UNCHANGED <<spicy, stuck, sent, fin, taken, handler, event>>
      /\ UNCHANGED <<clen, chunked, panicked, asked, reply, relay>>
    BY DEF HTTPReadBody, clientVars, httpVars
<1>2. /\ pc = "body" /\ handler \in {"http", "goHTTP"} /\ httpTake(n)
      /\ available > 0
      /\ pc' = IF Len(data') = HeadLen + clen THEN "produce" ELSE "body"
    BY DEF HTTPReadBody, RInv, ControlInv
<1>3. Len(data) \in Nat /\ available \in Nat
    BY <1>2, HTTPLengths
<1>a. HeadLen <= Len(data) /\ Len(data) < HeadLen + clen /\ clen \in Nat
    BY <1>2, Sizes DEF RInv, HTTPInv, SizeInv
<1>4. n \in Nat /\ n <= available /\ n <= HeadLen + clen - Len(data)
    BY <1>2, <1>3, <1>a, Sizes DEF Least
<1> HIDE DEF n
<1>5. /\ RunInv'
      /\ Len(data') = Len(data) + n
      /\ Len(outer') <= BufSize /\ Len(inner') <= BufSize
      /\ handler = "goHTTP" => inner' = <<>>
    BY <1>1, <1>2, <1>4, HTTPTakeRuns
<1>6. HeadLen <= Len(data') /\ Len(data') <= HeadLen + clen /\ Len(data') \in Nat
    BY <1>3, <1>4, <1>5, <1>a, Sizes
<1>b. pc' = "body" => Len(data') < HeadLen + clen
    BY <1>2, <1>6, <1>a, Sizes
<1>c. pc' = "produce" => Len(data') = HeadLen + clen
    BY <1>2
<1>d. pc' \in {"body", "produce"}
    BY <1>2
<1>7. SizeInv'
    BY <1>1, <1>2, <1>5, <1>d DEF RInv, SizeInv, PCs
<1>8. ControlInv'
    BY <1>1, <1>2, <1>5, <1>d DEF RInv, ControlInv
<1>9. HTTPInv'
    BY <1>1, <1>2, <1>6, <1>b, <1>c, <1>d DEF RInv, HTTPInv
<1>10. HTTPRecorded'
    BY <1>1, <1>2, <1>d DEF RInv, HTTPInv, HTTPRecorded
<1> QED
    BY <1>5, <1>7, <1>8, <1>9, <1>10 DEF RInv

\* After the head: a request without a body is complete, one that is too long
\* is dropped with its body unread.
LEMMA HTTPHeadRInv ==
    ASSUME RInv, HTTPHead
    PROVE  RInv'
<1>1. /\ UNCHANGED <<spicy, stuck, sent, fin, taken, outer, inner, handler, data, event>>
      /\ UNCHANGED <<asked, reply, relay>>
    BY DEF HTTPHead, clientVars
<1>2. /\ pc = "head" /\ Len(data) = HeadLen /\ handler \in {"http", "goHTTP"}
      /\ event = <<>> /\ reply.kind = "none" /\ relay = FALSE /\ clen = 0
    BY DEF HTTPHead, RInv, ControlInv, HTTPInv
<1>3. /\ clen' \in 0..(MaxAlloc + 1)
      /\ chunked' \in BOOLEAN /\ panicked' \in BOOLEAN
      /\ \/ pc' = "closed" /\ clen' = 0
         \/ pc' = "produce" /\ clen' = 0
         \/ pc' \in {"closed", "body"} /\ clen' # 0
    <2>1. CASE handler = "goHTTP" /\ pc' = "closed" /\ UNCHANGED <<clen, chunked, panicked>>
        <3>1. chunked \in BOOLEAN /\ panicked \in BOOLEAN
            BY DEF RInv, SizeInv
        <3> QED
            BY <1>2, <2>1, <3>1, Sizes
    <2>2. ASSUME NEW n \in 0..(MaxAlloc + 1), clen' = n, pc' = afterHead(n),
                 chunked' \in BOOLEAN, panicked' \in BOOLEAN
          PROVE  /\ clen' \in 0..(MaxAlloc + 1)
                 /\ chunked' \in BOOLEAN /\ panicked' \in BOOLEAN
                 /\ \/ pc' = "produce" /\ clen' = 0
                    \/ pc' \in {"closed", "body"} /\ clen' # 0
        <3>1. CASE n = 0
            <4>1. ~(n > MaxHTTPBody) /\ ~(n > MaxAlloc)
                BY <3>1, Sizes
            <4> QED
                BY <2>2, <3>1, <4>1 DEF afterHead
        <3>2. CASE n # 0
            BY <2>2, <3>2 DEF afterHead
        <3> QED
            BY <3>1, <3>2
    <2> QED
        BY <2>1, <2>2 DEF HTTPHead
<1>4. RunInv'
    BY <1>1 DEF RInv, RunInv
<1>5. SizeInv'
    <2>1. pc' \in PCs /\ pc' # "read"
        BY <1>3 DEF PCs
    <2> QED
        BY <1>1, <1>3, <2>1 DEF RInv, SizeInv
<1>6. ControlInv'
    <2>1. pc' \in {"closed", "produce", "body"}
        BY <1>3
    <2> QED
        BY <1>1, <1>2, <2>1 DEF RInv, ControlInv
<1>e. clen' \in Nat
    BY <1>3, Sizes
<1>a. clen' # 0 => Len(data) < HeadLen + clen' /\ Len(data) # HeadLen + clen'
    <2>1. \A m \in Nat : m # 0 => HeadLen < HeadLen + m /\ HeadLen # HeadLen + m
        BY Sizes
    <2> QED
        BY <1>2, <1>e, <2>1, Zenon
<1>b. clen' = 0 => Len(data) = HeadLen + clen'
    BY <1>2, <1>3, Sizes
<1>c. HeadLen <= Len(data)
    BY <1>2, Sizes
<1>7. HTTPInv'
    BY <1>1, <1>2, <1>3, <1>a, <1>b, <1>c DEF HTTPInv
<1>d. clen' > 0 => clen' # 0
    BY <1>3, Sizes
<1>8. HTTPRecorded'
    BY <1>1, <1>2, <1>a, <1>d DEF HTTPRecorded
<1> QED
    BY <1>4, <1>5, <1>6, <1>7, <1>8 DEF RInv

\* A request of which the stream or the time ends before its end is not
\* complete, unless it has no body.
LEMMA HTTPReadFailsRInv ==
    ASSUME RInv, HTTPReadFails
    PROVE  RInv'
<1>1. /\ UNCHANGED <<spicy, stuck, sent, fin, taken, outer, inner, handler, data, event>>
      /\ UNCHANGED <<clen, chunked, panicked, asked, reply, relay>>
    BY DEF HTTPReadFails, clientVars, httpVars
<1>2. /\ pc \in {"head", "body"} /\ handler \in {"http", "goHTTP"} /\ pc' = "closed"
      /\ event = <<>> /\ reply.kind = "none" /\ relay = FALSE
    BY DEF HTTPReadFails, RInv, ControlInv, HTTPInv
<1>3. RunInv'
    BY <1>1 DEF RInv, RunInv
<1>4. SizeInv'
    BY <1>1, <1>2 DEF RInv, SizeInv, PCs
<1>5. (ControlInv /\ HTTPInv)'
    BY <1>1, <1>2 DEF RInv, ControlInv, HTTPInv
<1>6. ~(Len(data) = HeadLen + clen /\ clen > 0)
    <2>1. CASE pc = "head"
        <3>1. clen = 0
            BY <1>2, <2>1 DEF RInv, HTTPInv
        <3> QED
            BY <3>1
    <2>2. CASE pc = "body"
        <3>1. Len(data) < HeadLen + clen /\ clen \in Nat
            BY <1>2, <2>2, Sizes DEF RInv, HTTPInv, SizeInv
        <3> QED
            BY <3>1, Sizes
    <2> QED
        BY <1>2, <2>1, <2>2
<1>7. HTTPRecorded'
    BY <1>1, <1>2, <1>6 DEF HTTPRecorded
<1> QED
    BY <1>3, <1>4, <1>5, <1>7 DEF RInv

\* The request is reported once all of it is there: what was read is the run
\* from the first byte on.
LEMMA HTTPProduceRInv ==
    ASSUME RInv, HTTPProduce
    PROVE  RInv'
<1>1. /\ UNCHANGED <<spicy, stuck, sent, fin, taken, outer, inner, handler, data>>
      /\ UNCHANGED <<clen, chunked, panicked, asked, reply, relay>>
    BY DEF HTTPProduce, clientVars, httpVars
<1>2. /\ pc = "produce" /\ handler \in {"http", "goHTTP"}
      /\ reply.kind = "none" /\ relay = FALSE /\ Len(data) = HeadLen + clen
    BY DEF HTTPProduce, RInv, ControlInv, HTTPInv
<1>3. PICK parsed \in BOOLEAN :
        /\ event' = <<[name |-> IF parsed THEN "http" ELSE "spicy-http-failed",
                       stored |-> <<>>, decoded |-> <<>>,
                       payload |-> IF handler = "goHTTP"
                                   THEN SubSeq(data, HeadLen + 1, Len(data))
                                   ELSE data]>>
        /\ pc' = IF parsed THEN "respond" ELSE "closed"
    BY DEF HTTPProduce
<1>4. /\ event' # <<>>
      /\ event'[1].name = IF parsed THEN "http" ELSE "spicy-http-failed"
      /\ event'[1].payload = IF handler = "goHTTP" THEN Rest(data, HeadLen) ELSE data
    BY <1>3 DEF Rest
<1>5. PICK d \in Nat, e \in Nat : Runs(handler, data, inner, outer, d, e, taken)
    BY DEF RInv, RunInv
<1>6. data = Positions(0, d) /\ Len(data) = d
    <2>1. taken \in Nat
        BY DEF RInv, SizeInv
    <2>2. Len(data) = d
        BY <1>2, <1>5, <2>1, RunFacts
    <2> QED
        BY <1>2, <1>5, <2>2 DEF Runs
<1>7. event'[1].payload = Positions(IF handler = "goHTTP" THEN HeadLen ELSE 0, Len(data))
    <2>1. HeadLen \in Nat /\ HeadLen <= d /\ 0 \in Nat /\ 0 <= HeadLen /\ HeadLen = HeadLen - 0
        <3>1. clen \in Nat
            BY Sizes DEF RInv, SizeInv
        <3> QED
            BY <1>2, <1>6, <3>1, Sizes
    <2>2. Rest(Positions(0, d), HeadLen) = Positions(HeadLen, d)
        BY <2>1, RunCut
    <2> QED
        BY <1>4, <1>6, <2>2, Zenon
<1>8. pc' \in {"respond", "closed"} /\ (pc' = "respond" => event'[1].name = "http")
    BY <1>3, <1>4
<1>9. RunInv'
    BY <1>1 DEF RInv, RunInv
<1>10. SizeInv'
    BY <1>1, <1>8 DEF RInv, SizeInv, PCs
<1>11. ControlInv'
    BY <1>1, <1>2, <1>8 DEF RInv, ControlInv
<1>12. HTTPInv'
    BY <1>1, <1>2, <1>4, <1>8 DEF HTTPInv
<1>13. HTTPRecorded'
    BY <1>1, <1>2, <1>4, <1>7 DEF HTTPRecorded
<1> QED
    BY <1>9, <1>10, <1>11, <1>12, <1>13 DEF RInv

\* Replying and dialling come after the event of a parsed request.
LEMMA HTTPRespondRInv ==
    ASSUME RInv, HTTPRespond
    PROVE  RInv'
<1>1. /\ UNCHANGED <<spicy, stuck, sent, fin, taken, outer, inner, handler, data, clen>>
      /\ UNCHANGED <<chunked, panicked, event>>
    BY DEF HTTPRespond, clientVars
<1>2. /\ pc = "respond" /\ pc' = "closed" /\ handler \in {"http", "goHTTP"}
      /\ event # <<>> /\ event[1].name = "http"
    BY DEF HTTPRespond, RInv, ControlInv, HTTPInv
<1>3. relay' \in BOOLEAN
    BY DEF HTTPRespond, startsRelay
<1>4. RunInv'
    BY <1>1 DEF RInv, RunInv
<1>5. SizeInv'
    BY <1>1, <1>2, <1>3 DEF RInv, SizeInv, PCs
<1>6. (ControlInv /\ HTTPInv)'
    BY <1>1, <1>2 DEF RInv, ControlInv, HTTPInv
<1>7. HTTPRecorded'
    BY <1>1, <1>2 DEF RInv, HTTPRecorded
<1> QED
    BY <1>4, <1>5, <1>6, <1>7 DEF RInv

-----------------------------------------------------------------------------
(* The theorems. *)

LEMMA RNextInv ==
    ASSUME RInv, [RNext]_rVars
    PROVE  RInv'
<1>1. CASE ClientSend \/ ClientFin \/ WorkerStuck
    BY <1>1, ClientRInv
<1>2. CASE FillOuter
    BY <1>2, FillOuterRInv
<1>3. CASE FillInner
    BY <1>3, FillInnerRInv
<1>4. CASE PeekFails
    BY <1>4, PeekStaysRInv DEF PeekFails
<1>5. CASE PeekedShort
    <2>1. /\ pc = "peekShort"
          /\ UNCHANGED <<clientVars, taken, outer, inner, data, event, httpVars>>
        BY <1>5 DEF PeekedShort
    <2>2. \/ spicy /\ \E h \in {"http", "rdp"} : handTo(h)
          \/ spicy /\ pc' = "peekLong" /\ UNCHANGED handler
          \/ ~spicy /\ handTo("tcp")
        BY <1>5 DEF PeekedShort
    <2>3. CASE spicy /\ \E h \in {"http", "rdp"} : handTo(h)
        BY <2>1, <2>3, HandRInv
    <2>4. CASE spicy /\ pc' = "peekLong" /\ UNCHANGED handler
        BY <2>1, <2>4, PeekStaysRInv
    <2>5. CASE ~spicy /\ handTo("tcp")
        BY <2>1, <2>5, HandRInv
    <2> QED
        BY <2>2, <2>3, <2>4, <2>5
<1>6. CASE PeekedLong
    BY <1>6, HandRInv DEF PeekedLong
<1>7. CASE HandlerRead
    BY <1>7, HandlerReadRInv
<1>8. CASE HandlerReadFails \/ HandlerFinish
    BY <1>8, HandlerEndRInv
<1>9. CASE HTTPReadHead
    BY <1>9, HTTPReadHeadRInv
<1>10. CASE HTTPHead
    BY <1>10, HTTPHeadRInv
<1>11. CASE HTTPReadBody
    BY <1>11, HTTPReadBodyRInv
<1>12. CASE HTTPReadFails
    BY <1>12, HTTPReadFailsRInv
<1>13. CASE HTTPProduce
    BY <1>13, HTTPProduceRInv
<1>14. CASE HTTPRespond
    BY <1>14, HTTPRespondRInv
<1>15. CASE UNCHANGED rVars
    <2>1. /\ UNCHANGED <<spicy, stuck, sent, fin, taken, outer, inner, pc, handler, data>>
          /\ UNCHANGED <<clen, chunked, panicked, event, asked, reply, relay>>
        BY <1>15 DEF rVars
    <2>2. (RunInv /\ SizeInv)'
        BY <2>1 DEF RInv, RunInv, SizeInv
    <2>3. (ControlInv /\ HTTPInv /\ HTTPRecorded)'
        BY <2>1 DEF RInv, ControlInv, HTTPInv, HTTPRecorded, Untouched
    <2> QED
        BY <2>2, <2>3 DEF RInv
<1> QED
    BY <1>1, <1>2, <1>3, <1>4, <1>5, <1>6, <1>7, <1>8, <1>9, <1>10, <1>11, <1>12,
       <1>13, <1>14, <1>15 DEF RNext, RouteStep, RouteOver

\* On every connection of a "tcp" or "http" rule, at every step: the buffers and
\* what was read are runs of the stream that meet, and each state of the handler
\* knows how much of a request was read and what was made of it.
THEOREM RInvariance == RSpec => []RInv
BY InitRInv, RNextInv, PTL DEF RSpec

\* The buffers hold bytes of the stream and no more than their size, and
\* HandleTCP keeps at most one read more than max_tcp_payload in memory, for all
\* sizes and however much the client sends.
THEOREM RouteTypeCorrect == RSpec => []RTypeOK
<1>1. RInv => RTypeOK
    <2> SUFFICES ASSUME RInv PROVE RTypeOK
        OBVIOUS
    <2>1. PICK d \in Nat, e \in Nat : Runs(handler, data, inner, outer, d, e, taken)
        BY DEF RInv, RunInv
    <2>2. taken \in Nat
        BY DEF RInv, SizeInv
    <2>3. data \in Seq(1..taken) /\ inner \in Seq(1..taken) /\ outer \in Seq(1..taken)
        BY <2>1, <2>2, RunFacts
    <2> QED
        BY <2>3 DEF RInv, SizeInv, RTypeOK
<1> QED
    BY <1>1, RInvariance, PTL

\* Peeking takes nothing away: a specialised handler, and HandleTCP when Spicy
\* is off, has read or can still read every byte of the stream, once and in
\* order.
THEOREM RouteStreamIntact == RSpec => []StreamIntact
<1>1. RInv => StreamIntact
    <2> SUFFICES ASSUME RInv,
                        handler \notin {"none", "tcp"} \/ (handler = "tcp" /\ ~spicy)
                 PROVE  Stream = Positions(0, sent)
        BY DEF StreamIntact
    <2>1. PICK d \in Nat, e \in Nat : Runs(handler, data, inner, outer, d, e, taken)
        BY DEF RInv, RunInv
    <2>2. taken \in Nat /\ sent \in Nat /\ taken <= sent
        BY Sizes DEF RInv, SizeInv
    <2>3. d <= e /\ e <= taken /\ 0 <= d /\ 0 <= e /\ 0 <= taken /\ 0 \in Nat
        BY <2>1, <2>2 DEF Runs
    <2>4. outer = Positions(e, taken)
        BY <2>1 DEF Runs
    <2>5. data \o (IF readsInner(handler) THEN inner ELSE <<>>) = Positions(0, e)
        <3>1. CASE readsInner(handler)
            <4>1. data = Positions(0, d) /\ inner = Positions(d, e)
                BY <2>1, <3>1 DEF Runs, readsInner
            <4>2. Positions(0, d) \o Positions(d, e) = Positions(0, e)
                BY <2>3, RunConcat, Zenon
            <4> QED
                BY <3>1, <4>1, <4>2, Zenon
        <3>2. CASE ~readsInner(handler)
            <4>1. handler \in {"goHTTP", "rdp"} \/ (handler = "tcp" /\ ~spicy)
                BY <3>2 DEF RInv, SizeInv, readsInner
            <4>2. inner = <<>>
                BY <4>1 DEF RInv, ControlInv
            <4>3. data = Positions(0, e)
                <5>1. handler = "tcp" => d = 0
                    BY <2>1, <2>2, <4>2, RunFacts
                <5>2. handler # "tcp" => d = e
                    BY <2>1, <2>2, <4>2, RunFacts
                <5> QED
                    BY <2>1, <5>1, <5>2 DEF Runs
            <4>4. data \in Seq(1..taken)
                BY <2>1, <2>2, RunFacts
            <4>5. data \o <<>> = data
                BY <4>4
            <4> QED
                BY <3>2, <4>3, <4>5
        <3> QED
            BY <3>1, <3>2
    <2>6. Positions(0, e) \o Positions(e, taken) = Positions(0, taken)
        BY <2>2, <2>3, RunConcat, Zenon
    <2>7. Positions(0, taken) \o Positions(taken, sent) = Positions(0, sent)
        BY <2>2, <2>3, RunConcat, Zenon
    <2> QED
        BY <2>4, <2>5, <2>6, <2>7, Zenon DEF Stream
<1> QED
    BY <1>1, RInvariance, PTL

\* Both HTTP handlers report a request only with exactly the bytes of its head
\* and of its Content-Length (the Go handler without the head), drop none whose
\* announced body was read to its end, and reply or dial only after a report,
\* whatever these lengths and however the stream is cut.  Of a body in chunks
\* nothing is claimed: the handlers do not read it.
THEOREM HTTPReportedAsAnnounced == RSpec => []HTTPRecorded
BY RInvariance, PTL DEF RInv

-----------------------------------------------------------------------------
(* Batches of JSON-RPC messages.                                           *)
(*                                                                         *)
(* handleEthereumRPC is a loop, hence a recursive function, and what it    *)
(* returns for a batch of any length needs induction.  The induction is    *)
(* over sets of numbers, from the well-foundedness of <.                   *)

LEMMA LeastElement ==
    ASSUME NEW T, T \subseteq Nat, T # {}
    PROVE  \E x \in T : \A y \in T : ~ (y < x)
<1> DEFINE R == OpToRel(<, Nat)
<1>1. IsWellFoundedOn(R, Nat)
    BY NatLessThanWellFounded, Zenon
<1>2. R = {ss \in Nat \X Nat : ss[1] < ss[2]}
    BY DEF OpToRel
<1> HIDE DEF R
<1>3. PICK x \in T : \A y \in T : ~ (<<y, x>> \in R)
    BY <1>1, WFMin
<1>4. \A y \in T : <<y, x>> \in R <=> y < x
    BY <1>2
<1> QED
    BY <1>3, <1>4

\* A set that has zero and with every number the next one has all.
LEMMA SetInduction ==
    ASSUME NEW T, 0 \in T, \A n \in Nat : n \in T => n + 1 \in T
    PROVE  \A n \in Nat : n \in T
<1> SUFFICES ASSUME NEW n \in Nat, n \notin T PROVE FALSE
    OBVIOUS
<1> DEFINE U == {k \in Nat : k \notin T}
<1>1. PICK x \in U : \A y \in U : ~ (y < x)
    BY LeastElement
<1>2. x \in Nat /\ x # 0 /\ x - 1 \in Nat /\ x - 1 < x
    BY <1>1
<1>3. x - 1 \in T
    BY <1>1, <1>2
<1>4. (x - 1) + 1 = x
    BY <1>2
<1> QED
    BY <1>1, <1>2, <1>3, <1>4

Messages == [id : 0..1, method : Methods \cup {"other", ""}]
Answers == [id : 0..1, result : Methods \cup {""}]
Loops == [response : Answers, responses : Seq(Answers)]

\* The variables of the loop before its first turn, and after each one.
beforeLoop == [response |-> [id |-> 0, result |-> ""], responses |-> <<>>]

LoopOf(g, ms, n) ==
    g = [i \in 0..n |-> IF i = 0 THEN beforeLoop ELSE answerMessage(g[i - 1], ms[i])]

\* The messages up to the k-th that name a known method, and that rs has their
\* results and no others, in order.
KnownTo(ms, k) == {i \in 1..k : ms[i].method \in Methods}

Answered(ms, k, rs) ==
    LET known == KnownTo(ms, k) IN
    /\ Len(rs) = Cardinality(known)
    /\ \A i \in known : rs[Cardinality({j \in known : j <= i})] = result(ms[i])

LEMMA TurnType ==
    /\ beforeLoop \in Loops
    /\ \A acc \in Loops, m \in Messages : answerMessage(acc, m) \in Loops
<1>1. beforeLoop \in Loops
    BY DEF beforeLoop, Loops, Answers
<1>2. ASSUME NEW acc \in Loops, NEW m \in Messages PROVE answerMessage(acc, m) \in Loops
    <2>1. m.method \in Methods => result(m) \in Answers
        BY DEF Messages, Answers, result
    <2>2. acc.responses \in Seq(Answers)
        BY DEF Loops
    <2>3. m.method \in Methods => Append(acc.responses, result(m)) \in Seq(Answers)
        BY <2>1, <2>2
    <2> QED
        BY <2>1, <2>3 DEF answerMessage, Loops
<1> QED
    BY <1>1, <1>2

\* The loop over any number of messages has a run.
LEMMA LoopExists ==
    ASSUME NEW ms \in Seq(Messages)
    PROVE  \E g : LoopOf(g, ms, Len(ms))
<1> DEFINE T == {k \in Nat : k <= Len(ms) => \E g \in [0..k -> Loops] : LoopOf(g, ms, k)}
<1>0. Len(ms) \in Nat /\ \A i \in 1..Len(ms) : ms[i] \in Messages
    BY LenProperties
<1>1. 0 \in T
    <2> DEFINE g == [i \in 0..0 |-> beforeLoop]
    <2>1. g \in [0..0 -> Loops]
        BY TurnType
    <2>2. \A i \in 0..0 : i = 0
        OBVIOUS
    <2>3. LoopOf(g, ms, 0)
        BY <2>2 DEF LoopOf
    <2> QED
        BY <2>1, <2>3
<1>2. ASSUME NEW k \in Nat, k \in T PROVE k + 1 \in T
    <2> SUFFICES ASSUME k + 1 <= Len(ms)
                 PROVE  \E h \in [0..(k + 1) -> Loops] : LoopOf(h, ms, k + 1)
        OBVIOUS
    <2>1. PICK g \in [0..k -> Loops] : LoopOf(g, ms, k)
        BY <1>0, <1>2
    <2>2. /\ g[0] = beforeLoop
          /\ \A i \in 1..k : g[i] = answerMessage(g[i - 1], ms[i])
        BY <2>1 DEF LoopOf
    <2> DEFINE x == answerMessage(g[k], ms[k + 1])
               h == [i \in 0..(k + 1) |-> IF i <= k THEN g[i] ELSE x]
    <2>3. x \in Loops
        <3>1. g[k] \in Loops /\ ms[k + 1] \in Messages
            BY <1>0
        <3> QED
            BY <3>1, TurnType
    <2> HIDE DEF x
    <2>4. h \in [0..(k + 1) -> Loops]
        BY <2>3
    <2>5. \A i \in 0..k : h[i] = g[i]
        OBVIOUS
    <2>6. h[k + 1] = x
        OBVIOUS
    <2>7. ASSUME NEW i \in 0..(k + 1)
          PROVE  h[i] = IF i = 0 THEN beforeLoop ELSE answerMessage(h[i - 1], ms[i])
        <3> HIDE DEF h
        <3>1. CASE i = 0
            BY <2>2, <2>5, <3>1
        <3>2. CASE i \in 1..k
            <4>1. i \in 0..k /\ i - 1 \in 0..k /\ i # 0
                BY <3>2
            <4> QED
                BY <2>2, <2>5, <3>2, <4>1
        <3>3. CASE i = k + 1
            <4>1. i - 1 = k /\ k \in 0..k /\ i # 0
                BY <3>3
            <4> QED
                BY <2>5, <2>6, <3>3, <4>1 DEF x
        <3> QED
            BY <3>1, <3>2, <3>3
    <2>8. DOMAIN h = 0..(k + 1) /\ h = [i \in 0..(k + 1) |-> h[i]]
        OBVIOUS
    <2> HIDE DEF h
    <2>9. LoopOf(h, ms, k + 1)
        BY <2>7, <2>8 DEF LoopOf
    <2> QED
        BY <2>4, <2>9
<1> HIDE DEF T
<1>3. Len(ms) \in T
    BY <1>0, <1>1, <1>2, SetInduction
<1> QED
    BY <1>0, <1>3 DEF T

\* handleEthereumRPC is such a run.
LEMMA HandleIsLoop ==
    ASSUME NEW es, parseMessage(es) \in Seq(Messages)
    PROVE  \E g : /\ LoopOf(g, parseMessage(es), Len(parseMessage(es)))
                  /\ handleEthereumRPC(es) = g[Len(parseMessage(es))].responses
<1> DEFINE ms == parseMessage(es)
           n == Len(ms)
           D(f) == [i \in 0..n |-> IF i = 0 THEN beforeLoop ELSE answerMessage(f[i - 1], ms[i])]
           F == CHOOSE f : f = D(f)
<1>1. PICK g : g = D(g)
    BY LoopExists DEF LoopOf
<1>2. F = D(F)
    <2> HIDE DEF D
    <2> QED
        BY <1>1, Zenon
<1>3. handleEthereumRPC(es) = F[n].responses
    BY Zenon DEF handleEthereumRPC, beforeLoop
<1> HIDE DEF F
<1> QED
    BY <1>2, <1>3, Zenon DEF LoopOf

\* One more message is known or not.
LEMMA KnownNext ==
    ASSUME NEW ms, NEW k \in Nat
    PROVE  /\ KnownTo(ms, 0) = {} /\ KnownTo(ms, k) \subseteq 1..k
           /\ IsFiniteSet(KnownTo(ms, k)) /\ Cardinality(KnownTo(ms, k)) \in Nat
           /\ k + 1 \notin KnownTo(ms, k)
           /\ KnownTo(ms, k + 1) = IF ms[k + 1].method \in Methods
                                   THEN KnownTo(ms, k) \cup {k + 1} ELSE KnownTo(ms, k)
<1>1. KnownTo(ms, 0) = {} /\ KnownTo(ms, k) \in SUBSET (1..k)
    BY DEF KnownTo
<1>2. IsFiniteSet(1..k)
    BY FS_Interval
<1>3. IsFiniteSet(KnownTo(ms, k))
    BY <1>1, <1>2, FS_Subset
<1>4. Cardinality(KnownTo(ms, k)) \in Nat
    BY <1>3, FS_CardinalityType
<1>5. k + 1 \notin 1..k /\ 1..(k + 1) = 1..k \cup {k + 1}
    OBVIOUS
<1>6. KnownTo(ms, k + 1) = IF ms[k + 1].method \in Methods
                           THEN KnownTo(ms, k) \cup {k + 1} ELSE KnownTo(ms, k)
    BY <1>5 DEF KnownTo
<1> QED
    BY <1>1, <1>3, <1>4, <1>5, <1>6

\* A turn of the loop answers the next message if it is known.
LEMMA AnsweredNext ==
    ASSUME NEW ms, NEW k \in Nat, NEW acc \in Loops, ms[k + 1] \in Messages,
           Answered(ms, k, acc.responses)
    PROVE  Answered(ms, k + 1, answerMessage(acc, ms[k + 1]).responses)
<1> DEFINE m == ms[k + 1]
           rs == acc.responses
           K == KnownTo(ms, k)
           L == KnownTo(ms, k + 1)
           s == Append(rs, result(m))
<1>1. rs \in Seq(Answers) /\ Len(rs) \in Nat
    BY LenProperties DEF Loops
<1>2. /\ K \subseteq 1..k /\ IsFiniteSet(K) /\ Cardinality(K) \in Nat /\ k + 1 \notin K
      /\ L = IF m.method \in Methods THEN K \cup {k + 1} ELSE K
    BY KnownNext
<1>3. Len(rs) = Cardinality(K) /\ \A i \in K : rs[Cardinality({j \in K : j <= i})] = result(ms[i])
    BY DEF Answered
<1>4. CASE m.method \notin Methods
    <2>1. L = K /\ answerMessage(acc, m).responses = rs
        BY <1>2, <1>4 DEF answerMessage
    <2> HIDE DEF L, K, rs, m
    <2>2. Answered(ms, k + 1, rs)
        <3>1. KnownTo(ms, k + 1) = K
            BY <2>1 DEF L
        <3> QED
            BY <1>3, <3>1 DEF Answered
    <2> QED
        BY <2>1, <2>2 DEF m
<1>5. CASE m.method \in Methods
    <2>1. L = K \cup {k + 1} /\ answerMessage(acc, m).responses = s
        BY <1>2, <1>5 DEF answerMessage
    <2>2. result(m) \in Answers
        BY <1>5 DEF Messages, Answers, result
    <2>3. /\ Len(s) = Len(rs) + 1 /\ s[Len(rs) + 1] = result(m)
          /\ \A i \in 1..Len(rs) : s[i] = rs[i]
        BY <1>1, <2>2, AppendProperties
    <2> HIDE DEF L, K, rs, s
    <2>4. Cardinality(L) = Cardinality(K) + 1
        BY <1>2, <2>1, FS_AddElement
    <2>5. ASSUME NEW i \in L PROVE s[Cardinality({j \in L : j <= i})] = result(ms[i])
        <3>1. CASE i \in K
            <4> DEFINE J == {j \in K : j <= i}
            <4>1. {j \in L : j <= i} = J
                <5>1. i \in 1..k /\ ~(k + 1 <= i)
                    BY <1>2, <3>1
                <5> QED
                    BY <2>1, <5>1
            <4>2. J \in SUBSET K /\ i \in J
                BY <1>2, <3>1
            <4> HIDE DEF J
            <4>3. IsFiniteSet(J) /\ Cardinality(J) <= Cardinality(K)
                BY <1>2, <4>2, FS_Subset
            <4>4. Cardinality(J) \in Nat /\ Cardinality(J) # 0
                BY <4>2, <4>3, FS_CardinalityType, FS_EmptySet
            <4>5. Cardinality(J) \in 1..Len(rs)
                BY <1>2, <1>3, <4>3, <4>4
            <4>6. rs[Cardinality(J)] = result(ms[i])
                BY <1>3, <3>1 DEF J
            <4> QED
                BY <2>3, <4>1, <4>5, <4>6
        <3>2. CASE i = k + 1
            <4>1. \A j \in L : j <= i
                BY <1>2, <2>1, <3>2
            <4>2. {j \in L : j <= i} = L
                BY <4>1
            <4> QED
                BY <1>3, <2>3, <2>4, <3>2, <4>2
        <3> QED
            BY <2>1, <3>1, <3>2
    <2>6. Len(s) = Cardinality(L)
        BY <1>3, <2>3, <2>4
    <2>7. Answered(ms, k + 1, s)
        BY <2>5, <2>6 DEF Answered, L
    <2> QED
        BY <2>1, <2>7
<1> QED
    BY <1>4, <1>5

\* Whatever the batch, each known message is answered in its turn.
LEMMA BatchAnswered ==
    ASSUME NEW es, parseMessage(es) \in Seq(Messages)
    PROVE  Answered(parseMessage(es), Len(parseMessage(es)), handleEthereumRPC(es))
<1> DEFINE ms == parseMessage(es)
           n == Len(ms)
<1>0. n \in Nat /\ \A i \in 1..n : ms[i] \in Messages
    BY LenProperties
<1>1. PICK g : LoopOf(g, ms, n) /\ handleEthereumRPC(es) = g[n].responses
    BY HandleIsLoop
<1> HIDE DEF ms
<1>2. /\ g[0] = beforeLoop
      /\ \A k \in Nat : k + 1 <= n => g[k + 1] = answerMessage(g[k], ms[k + 1])
    <2>1. \A i \in 0..n : g[i] = IF i = 0 THEN beforeLoop ELSE answerMessage(g[i - 1], ms[i])
        BY <1>1 DEF LoopOf
    <2>2. 0 \in 0..n
        BY <1>0
    <2>3. ASSUME NEW k \in Nat, k + 1 <= n PROVE g[k + 1] = answerMessage(g[k], ms[k + 1])
        <3>1. k + 1 \in 0..n /\ k + 1 # 0 /\ (k + 1) - 1 = k
            BY <1>0, <2>3
        <3> QED
            BY <2>1, <3>1
    <2> QED
        BY <2>1, <2>2, <2>3
<1> DEFINE T == {k \in Nat : k <= n => g[k] \in Loops /\ Answered(ms, k, g[k].responses)}
<1>3. 0 \in T
    <2>1. beforeLoop \in Loops /\ beforeLoop.responses = <<>>
        BY TurnType DEF beforeLoop
    <2>2. KnownTo(ms, 0) = {} /\ Cardinality({}) = 0
        BY KnownNext, FS_EmptySet
    <2>3. Answered(ms, 0, <<>>)
        BY <2>2 DEF Answered
    <2> QED
        BY <1>2, <2>1, <2>3
<1>4. ASSUME NEW k \in Nat, k \in T PROVE k + 1 \in T
    <2> SUFFICES ASSUME k + 1 <= n
                 PROVE  g[k + 1] \in Loops /\ Answered(ms, k + 1, g[k + 1].responses)
        OBVIOUS
    <2>1. g[k] \in Loops /\ Answered(ms, k, g[k].responses) /\ ms[k + 1] \in Messages
        BY <1>0, <1>4
    <2>2. g[k + 1] = answerMessage(g[k], ms[k + 1])
        BY <1>2
    <2>3. g[k + 1] \in Loops
        BY <2>1, <2>2, TurnType
    <2>4. Answered(ms, k + 1, answerMessage(g[k], ms[k + 1]).responses)
        BY <2>1, AnsweredNext
    <2> QED
        BY <2>2, <2>3, <2>4
<1> HIDE DEF T
<1>5. n \in T
    BY <1>0, <1>3, <1>4, SetInduction
<1>6. Answered(ms, n, g[n].responses)
    BY <1>0, <1>5 DEF T
<1> QED
    BY <1>1, <1>6 DEF ms

\* A reply is made once, for the messages that were asked then.
EthInv ==
    /\ asked \in Seq(Elements)
    /\ pc # "closed" => reply.kind = "none"
    /\ EthereumAnswers

\* What the batch answers, in terms of the request.
LEMMA RequestAnswered ==
    ASSUME NEW es \in Seq(Elements)
    PROVE  LET known == {i \in DOMAIN es : es[i].method \in Methods} IN
           /\ Len(handleEthereumRPC(es)) = Cardinality(known)
           /\ \A i \in known :
                  handleEthereumRPC(es)[Cardinality({j \in known : j <= i})] =
                      [id |-> es[i].id, result |-> es[i].method]
<1> DEFINE ms == parseMessage(es)
           n == Len(es)
<1>1. n \in Nat /\ DOMAIN es = 1..n /\ \A i \in 1..n : es[i] \in Elements
    BY LenProperties
<1>2. \A e \in Elements : /\ decoded(e) \in Messages
                          /\ decoded(e).method \in Methods <=> e.method \in Methods
                          /\ e.method \in Methods =>
                                result(decoded(e)) = [id |-> e.id, result |-> e.method]
    <2> SUFFICES ASSUME NEW e \in Elements
                 PROVE  /\ decoded(e) \in Messages
                        /\ decoded(e).method \in Methods <=> e.method \in Methods
                        /\ e.method \in Methods =>
                              result(decoded(e)) = [id |-> e.id, result |-> e.method]
        OBVIOUS
    <2>1. CASE e \in [object : {TRUE}, id : 0..1, method : Methods \cup {"other"}]
        <3>1. e.object = TRUE /\ e.id \in 0..1 /\ e.method \in Methods \cup {"other", ""}
            BY <2>1
        <3>2. decoded(e).id = e.id /\ decoded(e).method = e.method
            BY <3>1 DEF decoded
        <3>3. decoded(e) \in Messages
            BY <3>1 DEF decoded, Messages
        <3>4. result(decoded(e)) = [id |-> e.id, result |-> e.method]
            BY <3>2 DEF result
        <3> QED
            BY <3>2, <3>3, <3>4
    <2>2. CASE e \in [object : {FALSE}, id : {0}, method : {""}]
        <3>1. ~e.object /\ e.id = 0 /\ e.method = ""
            <4>1. e.object \in {FALSE} /\ e.id \in {0} /\ e.method \in {""}
                BY <2>2, Zenon
            <4> QED
                BY <4>1, Zenon
        <3>2. "" \notin Methods
            BY DEF Methods
        <3>3. decoded(e).method = ""
            BY <3>1 DEF decoded
        <3>4. decoded(e) \in Messages
            <4>1. 0 \in 0..1
                OBVIOUS
            <4> QED
                BY <3>1, <4>1 DEF decoded, Messages
        <3> QED
            BY <3>1, <3>2, <3>3, <3>4
    <2> QED
        BY <2>1, <2>2 DEF Elements
<1>3. DOMAIN ms = 1..n /\ \A i \in 1..n : ms[i] = decoded(es[i])
    BY <1>1 DEF parseMessage
<1>4. ms \in [1..n -> Messages]
    <2>1. ms = [i \in 1..n |-> decoded(es[i])]
        BY <1>1 DEF parseMessage
    <2> QED
        BY <1>1, <1>2, <2>1
<1> HIDE DEF ms
<1>5. ms \in Seq(Messages) /\ Len(ms) = n
    BY <1>1, <1>3, <1>4, SeqDef, LenProperties
<1>6. Answered(ms, n, handleEthereumRPC(es))
    BY <1>5, BatchAnswered DEF ms
<1>7. KnownTo(ms, n) = {i \in DOMAIN es : es[i].method \in Methods}
    BY <1>1, <1>2, <1>3 DEF KnownTo
<1>8. \A i \in KnownTo(ms, n) : result(ms[i]) = [id |-> es[i].id, result |-> es[i].method]
    BY <1>1, <1>2, <1>3, <1>7
<1> QED
    BY <1>6, <1>7, <1>8 DEF Answered

\* For a batch of any length, handleEthereumRPC answers every message that names
\* a known method, in order, with its ID and its own result, and no other.
THEOREM BatchesAnswered == RSpec => []EthereumAnswers
<1>1. RInit => EthInv
    BY DEF RInit, EthInv, EthereumAnswers
<1>2. EthInv /\ [RNext]_rVars => EthInv'
    <2> SUFFICES ASSUME EthInv, [RNext]_rVars PROVE EthInv'
        OBVIOUS
    <2>1. CASE HTTPRespond
        <3>1. pc' = "closed" /\ reply.kind = "none"
            BY <2>1 DEF HTTPRespond, EthInv
        <3>2. asked' \in Seq(Elements)
            <4>1. asked' = asked \/ \E n \in 0..MaxBatch : asked' \in [1..n -> Elements]
                BY <2>1 DEF HTTPRespond
            <4>2. \A n \in 0..MaxBatch : [1..n -> Elements] \subseteq Seq(Elements)
                BY Sizes, SeqDef
            <4> QED
                BY <4>1, <4>2 DEF EthInv
        <3>3. CASE reply' = reply
            BY <3>1, <3>2, <3>3 DEF EthInv, EthereumAnswers
        <3>4. CASE reply' # reply
            <4>1. reply'.answers = handleEthereumRPC(asked')
                BY <2>1, <3>4 DEF HTTPRespond
            <4>2. EthereumAnswers'
                BY <3>2, <4>1, RequestAnswered DEF EthereumAnswers, Known
            <4> QED
                BY <3>1, <3>2, <4>2 DEF EthInv
        <3> QED
            BY <3>3, <3>4
    <2>2. CASE ~HTTPRespond
        <3>1. UNCHANGED <<asked, reply>> /\ (pc = "closed" => pc' = "closed")
            BY <2>2 DEF RNext, RouteStep, RouteOver, ClientSend, ClientFin, WorkerStuck, FillOuter, FillInner,
                        PeekFails, PeekedShort, PeekedLong, HandlerRead, HandlerReadFails,
                        HandlerFinish, HTTPReadHead, HTTPHead, HTTPReadBody, HTTPReadFails,
                        HTTPProduce, httpVars, rVars
        <3> QED
            BY <3>1 DEF EthInv, EthereumAnswers, Known
    <2> QED
        BY <2>1, <2>2
<1>3. EthInv => EthereumAnswers
    BY DEF EthInv
<1> QED
    BY <1>1, <1>2, <1>3, PTL DEF RSpec

-----------------------------------------------------------------------------
(* Routes run out.                                                         *)
(*                                                                         *)
(* That a route ends needs fairness and is left to TLC; what it rests on   *)
(* does not.                                                               *)

RouteRank ==
    CASE pc = "peekShort" -> 6
      [] pc = "peekLong" -> 5
      [] pc \in {"read", "head"} -> 4
      [] pc = "body" -> 3
      [] pc = "produce" -> 2
      [] pc \in {"respond", "finish"} -> 1
      [] OTHER -> 0

\* What a route still has to do: a byte is moved from the socket to the first
\* buffer, to the second and to what the handler has read.
RouteWork == 3 * (MaxSent - taken) + 2 * Len(outer) + Len(inner) + RouteRank

\* Each step of the goroutine takes from its work, and the client cannot add
\* to it: no turn of a loop, be it Peek's, HandleTCP's or that of the HTTP
\* body, leaves everything where it was.
RouteShrinks ==
    [][/\ RouteWork \in Nat /\ RouteWork' \in Nat /\ RouteWork' <= RouteWork
       /\ RouteStep => RouteWork' < RouteWork]_rVars

\* The guard of some step holds: a fill has room for what it reads, a loop
\* over the request has something left to read, and the worker takes what
\* Parse has for it.
RouteCanStep ==
    \/ pc = "peekShort" /\ Len(outer) < PeekShort /\ Len(outer) < BufSize
    \/ pc = "peekShort" /\ Len(outer) >= PeekShort /\ (spicy => ParseTaken)
    \/ pc = "peekLong" /\ Len(inner) < PeekLong /\ Len(inner) < BufSize
    \/ pc = "peekLong" /\ Len(inner) >= PeekLong /\ ParseTaken
    \/ pc \in {"read", "finish", "respond"}
    \/ pc = "head" /\ Len(data) <= HeadLen
    \/ pc = "body" /\ Len(data) < HeadLen + clen
    \/ pc = "produce" /\ (handler = "http" => ParseTaken)

\* Waiting in Parse for a stuck worker is the only way to stop.
RouteNeverStuck ==
    /\ taken <= sent
    /\ pc \in {"handed", "closed"} \/ RouteCanStep \/ ParseBlocked

\* Positions are numbers.
LEMMA SeqOfNats ==
    ASSUME NEW b \in Nat, NEW s \in Seq(1..b)
    PROVE  s \in Seq(Nat)
<1>1. Len(s) \in Nat /\ s \in [1..Len(s) -> 1..b]
    BY LenProperties
<1>2. s \in [1..Len(s) -> Nat]
    BY <1>1
<1> QED
    BY <1>1, <1>2, SeqDef

LEMMA BufferTypes ==
    ASSUME RInv
    PROVE  /\ taken \in Nat /\ sent \in Nat /\ taken <= sent /\ taken <= MaxSent
           /\ outer \in Seq(Nat) /\ inner \in Seq(Nat) /\ data \in Seq(Nat)
           /\ Len(outer) \in 0..BufSize /\ Len(inner) \in 0..BufSize
<1>1. PICK d \in Nat, e \in Nat : Runs(handler, data, inner, outer, d, e, taken)
    BY DEF RInv, RunInv
<1>2. /\ taken \in Nat /\ sent \in Nat /\ taken <= sent /\ taken <= MaxSent
      /\ Len(outer) <= BufSize /\ Len(inner) <= BufSize
    BY Sizes DEF RInv, SizeInv
<1>3. data \in Seq(1..taken) /\ inner \in Seq(1..taken) /\ outer \in Seq(1..taken)
    BY <1>1, <1>2, RunFacts
<1>5. outer \in Seq(Nat) /\ inner \in Seq(Nat) /\ data \in Seq(Nat)
    BY <1>2, <1>3, SeqOfNats
<1>6. Len(outer) \in Nat /\ Len(inner) \in Nat
    BY <1>5
<1> QED
    BY <1>2, <1>5, <1>6, Sizes

\* n bytes go from one buffer to the end of another.
LEMMA CutLengths ==
    ASSUME NEW s \in Seq(Nat), NEW q \in Seq(Nat), NEW n \in Nat, n <= Len(s)
    PROVE  /\ Len(SubSeq(s, n + 1, Len(s))) = Len(s) - n
           /\ Len(q \o SubSeq(s, 1, n)) = Len(q) + n
<1>1. Len(s) \in Nat /\ Len(q) \in Nat
    OBVIOUS
<1>2. Len(SubSeq(s, n + 1, Len(s))) = Len(s) - n
    BY <1>1
<1> DEFINE f == SubSeq(s, 1, n)
<1>3. f \in Seq(Nat) /\ Len(f) = n
    BY <1>1
<1> HIDE DEF f
<1>4. Len(q \o f) = Len(q) + n
    BY <1>3, ConcatProperties
<1> QED
    BY <1>2, <1>4 DEF f

\* The least of two positive numbers.
LEMMA LeastPositive ==
    ASSUME NEW m \in Nat, NEW n \in Nat, m > 0, n > 0
    PROVE  Least(m, n) \in Nat /\ Least(m, n) > 0 /\ Least(m, n) <= m /\ Least(m, n) <= n
BY DEF Least

\* What a step moves.
FromSocket(n) ==
    /\ taken' = taken + n /\ Len(outer') = Len(outer) + n /\ UNCHANGED <<inner, pc>>
Between(n) ==
    /\ Len(outer') = Len(outer) - n /\ Len(inner') = Len(inner) + n
    /\ UNCHANGED <<taken, pc>>
ToHandler(n) ==
    /\ \/ Len(outer') = Len(outer) - n /\ UNCHANGED inner
       \/ Len(inner') = Len(inner) - n /\ UNCHANGED outer
    /\ UNCHANGED taken
    /\ \/ pc' = pc
       \/ pc = "read" /\ pc' = "finish"
       \/ pc = "body" /\ pc' = "produce"
Onward == UNCHANGED <<taken, outer, inner>> /\ RouteRank' < RouteRank

LEMMA FillMoves ==
    ASSUME RInv, FillOuter \/ FillInner
    PROVE  \E n \in Nat : n > 0 /\ (FromSocket(n) \/ Between(n))
<1>1. /\ taken \in Nat /\ sent \in Nat /\ taken <= sent
      /\ outer \in Seq(Nat) /\ inner \in Seq(Nat) /\ BufSize \in Nat
      /\ Len(outer) \in Nat /\ Len(inner) \in Nat
      /\ Len(outer) <= BufSize /\ Len(inner) <= BufSize
    BY BufferTypes, Sizes
<1>2. CASE FillOuter
    <2>1. PICK n \in 1..Least(sent - taken, BufSize - Len(outer)) :
            /\ outer' = outer \o Positions(taken, taken + n)
            /\ taken' = taken + n
        BY <1>2 DEF FillOuter
    <2>2. n \in Nat /\ n > 0
        BY <1>1, <2>1 DEF Least
    <2> DEFINE b == taken + n
    <2>a. b \in Nat /\ taken <= b /\ b - taken = n
        BY <1>1, <2>2
    <2> HIDE DEF b
    <2>3. Positions(taken, b) \in Seq(1..b) /\ Len(Positions(taken, b)) = n
        BY <1>1, <2>a, RunShape
    <2>4. Positions(taken, b) \in Seq(Nat)
        BY <2>a, <2>3, SeqOfNats
    <2>5. Len(outer') = Len(outer) + n
        <3>1. Len(outer \o Positions(taken, b)) = Len(outer) + n
            BY <1>1, <2>3, <2>4, ConcatProperties
        <3> QED
            BY <2>1, <3>1 DEF b
    <2>6. UNCHANGED <<inner, pc>>
        BY <1>2 DEF FillOuter
    <2> QED
        BY <2>1, <2>2, <2>5, <2>6 DEF FromSocket
<1>3. CASE FillInner
    <2> DEFINE n == Least(Len(outer), BufSize - Len(inner))
    <2>1. /\ inner' = inner \o SubSeq(outer, 1, n)
          /\ outer' = SubSeq(outer, n + 1, Len(outer))
          /\ UNCHANGED <<taken, pc>> /\ outer # <<>>
        BY <1>3 DEF FillInner
    <2>2. PeekLong <= BufSize /\ PeekLong \in Nat /\ BufSize > 0
        BY SizesAssumption
    <2>3. Len(inner) < PeekLong \/ inner = <<>>
        BY <1>3 DEF FillInner
    <2>4. BufSize - Len(inner) \in Nat /\ BufSize - Len(inner) > 0
        <3>1. CASE Len(inner) < PeekLong
            BY <1>1, <2>2, <3>1
        <3>2. CASE inner = <<>>
            <4>1. Len(inner) = 0
                BY <3>2
            <4> QED
                BY <1>1, <2>2, <4>1
        <3> QED
            BY <2>3, <3>1, <3>2
    <2>5. Len(outer) > 0
        BY <1>1, <2>1
    <2>6. n \in Nat /\ n > 0 /\ n <= Len(outer)
        BY <1>1, <2>4, <2>5, LeastPositive
    <2> HIDE DEF n
    <2>7. Len(outer') = Len(outer) - n /\ Len(inner') = Len(inner) + n
        BY <1>1, <2>1, <2>6, CutLengths
    <2> QED
        BY <2>1, <2>6, <2>7 DEF Between
<1> QED
    BY <1>2, <1>3

LEMMA ReadMoves ==
    ASSUME RInv, HandlerRead \/ HTTPReadHead \/ HTTPReadBody
    PROVE  \E n \in Nat : n > 0 /\ ToHandler(n)
<1>1. /\ outer \in Seq(Nat) /\ inner \in Seq(Nat) /\ data \in Seq(Nat)
      /\ Len(outer) \in Nat /\ Len(data) \in Nat /\ available \in Nat
    BY BufferTypes, HTTPLengths
<1>2. CASE HandlerRead
    <2> DEFINE n == Least(ReadSize, Len(outer))
    <2>1. /\ outer' = SubSeq(outer, n + 1, Len(outer)) /\ UNCHANGED <<taken, inner>>
          /\ pc = "read" /\ pc' \in {"read", "finish"} /\ outer # <<>>
        BY <1>2 DEF HandlerRead
    <2>2. Len(outer) > 0
        BY <1>1, <2>1
    <2>3. n \in Nat /\ n > 0 /\ n <= Len(outer)
        BY <1>1, <2>2, Sizes, LeastPositive
    <2> HIDE DEF n
    <2>4. Len(outer') = Len(outer) - n
        BY <1>1, <2>1, <2>3, CutLengths
    <2> QED
        BY <2>1, <2>3, <2>4 DEF ToHandler
<1>3. ASSUME NEW n \in Nat, n > 0, n <= available, httpTake(n), UNCHANGED taken,
             pc' = pc \/ (pc = "body" /\ pc' = "produce")
      PROVE  ToHandler(n)
    <2>1. CASE readsInner(handler)
        <3>1. inner' = SubSeq(inner, n + 1, Len(inner)) /\ UNCHANGED outer
              /\ n <= Len(inner)
            BY <1>3, <2>1 DEF httpTake, available
        <3>2. Len(inner') = Len(inner) - n
            BY <1>1, <3>1, CutLengths
        <3> QED
            BY <1>3, <3>1, <3>2 DEF ToHandler
    <2>2. CASE ~readsInner(handler)
        <3>1. outer' = SubSeq(outer, n + 1, Len(outer)) /\ UNCHANGED inner
              /\ n <= Len(outer)
            BY <1>3, <2>2 DEF httpTake, available
        <3>2. Len(outer') = Len(outer) - n
            BY <1>1, <3>1, CutLengths
        <3> QED
            BY <1>3, <3>1, <3>2 DEF ToHandler
    <2> QED
        BY <2>1, <2>2
<1>4. CASE HTTPReadHead
    <2> DEFINE n == Least(available, HeadLen - Len(data))
    <2>1. /\ httpTake(n) /\ UNCHANGED <<taken, pc>>
          /\ available > 0 /\ Len(data) < HeadLen
        BY <1>4 DEF HTTPReadHead
    <2>2. HeadLen - Len(data) \in Nat /\ HeadLen - Len(data) > 0
        BY <1>1, <2>1, Sizes
    <2>3. n \in Nat /\ n > 0 /\ n <= available
        BY <1>1, <2>1, <2>2, LeastPositive
    <2> HIDE DEF n
    <2> QED
        BY <1>3, <2>1, <2>3
<1>5. CASE HTTPReadBody
    <2> DEFINE n == Least(available, HeadLen + clen - Len(data))
    <2>1. /\ httpTake(n) /\ UNCHANGED taken /\ pc = "body"
          /\ pc' \in {"produce", "body"} /\ available > 0
        BY <1>5 DEF HTTPReadBody
    <2>2. Len(data) < HeadLen + clen /\ clen \in Nat
        BY <2>1, Sizes DEF RInv, ControlInv, HTTPInv, SizeInv
    <2>3. HeadLen + clen - Len(data) \in Nat /\ HeadLen + clen - Len(data) > 0
        BY <1>1, <2>2, Sizes
    <2>4. n \in Nat /\ n > 0 /\ n <= available
        BY <1>1, <2>1, <2>3, LeastPositive
    <2> HIDE DEF n
    <2> QED
        BY <1>3, <2>1, <2>4
<1> QED
    BY <1>2, <1>4, <1>5

LEMMA OtherMoves ==
    ASSUME RInv, RouteStep,
           ~(FillOuter \/ FillInner \/ HandlerRead \/ HTTPReadHead \/ HTTPReadBody)
    PROVE  Onward
<1>1. UNCHANGED <<taken, outer, inner>>
    BY DEF RouteStep, PeekFails, PeekedShort, PeekedLong, HandlerReadFails, HandlerFinish,
           HTTPHead, HTTPReadFails, HTTPProduce, HTTPRespond
<1>2. \/ pc = "peekShort" /\ pc' \in {"peekLong", "read", "head", "handed", "closed"}
      \/ pc = "peekLong" /\ pc' \in {"read", "handed", "closed"}
      \/ pc = "read" /\ pc' = "finish"
      \/ pc = "head" /\ pc' \in {"body", "produce", "closed"}
      \/ pc = "body" /\ pc' = "closed"
      \/ pc = "produce" /\ pc' \in {"respond", "closed"}
      \/ pc \in {"finish", "respond"} /\ pc' = "closed"
    <2>1. CASE PeekFails \/ HTTPReadFails
        BY <2>1 DEF PeekFails, HTTPReadFails
    <2>2. CASE PeekedShort \/ PeekedLong
        BY <2>2 DEF PeekedShort, PeekedLong, handTo
    <2>3. CASE HandlerReadFails \/ HandlerFinish \/ HTTPProduce \/ HTTPRespond
        BY <2>3 DEF HandlerReadFails, HandlerFinish, HTTPProduce, HTTPRespond
    <2>4. CASE HTTPHead
        <3>1. pc' \in {"body", "produce", "closed"}
            <4>1. ASSUME NEW n \in 0..(MaxAlloc + 1), pc' = afterHead(n)
                  PROVE  pc' \in {"body", "produce", "closed"}
                BY <4>1 DEF afterHead
            <4> QED
                BY <2>4, <4>1 DEF HTTPHead
        <3> QED
            BY <2>4, <3>1 DEF HTTPHead
    <2> QED
        BY <2>1, <2>2, <2>3, <2>4 DEF RouteStep
<1>3. RouteRank' < RouteRank
    BY <1>2 DEF RouteRank
<1> QED
    BY <1>1, <1>3 DEF Onward

\* The arithmetic of a step: m is MaxSent, t the bytes taken, o and i those in
\* the buffers and r the rank, before and after.
LEMMA MoveLess ==
    ASSUME NEW m \in Nat, NEW t \in Nat, NEW t1 \in Nat, NEW o \in Nat, NEW o1 \in Nat,
           NEW i \in Nat, NEW i1 \in Nat, NEW r \in Nat, NEW r1 \in Nat, NEW n \in Nat,
           \/ n > 0 /\ t1 = t + n /\ o1 = o + n /\ i1 = i /\ r1 = r
           \/ n > 0 /\ t1 = t /\ o1 = o - n /\ i1 = i + n /\ r1 = r
           \/ n > 0 /\ t1 = t /\ o1 = o - n /\ i1 = i /\ r1 <= r
           \/ n > 0 /\ t1 = t /\ o1 = o /\ i1 = i - n /\ r1 <= r
           \/ t1 = t /\ o1 = o /\ i1 = i /\ r1 < r
    PROVE  3 * (m - t1) + 2 * o1 + i1 + r1 < 3 * (m - t) + 2 * o + i + r
OBVIOUS

LEMMA WorkNat ==
    ASSUME NEW m \in Nat, NEW t \in Nat, NEW o \in Nat, NEW i \in Nat, NEW r \in Nat, t <= m
    PROVE  3 * (m - t) + 2 * o + i + r \in Nat
OBVIOUS

\* Buffers of any size and a stream of any length and segmentation: a route
\* takes only so many steps.  Each read of the socket, each move between the
\* buffers, each turn of HandleTCP's loop and of the loops over an HTTP request
\* moves at least one byte, and the client cannot make a route longer.
THEOREM RouteRunsOut == RSpec => RouteShrinks
<1>1. RInv /\ RInv' /\ [RNext]_rVars =>
          [/\ RouteWork \in Nat /\ RouteWork' \in Nat /\ RouteWork' <= RouteWork
           /\ RouteStep => RouteWork' < RouteWork]_rVars
    <2> SUFFICES ASSUME RInv, RInv', RNext, ~UNCHANGED rVars
                 PROVE  /\ RouteWork \in Nat /\ RouteWork' \in Nat
                        /\ RouteWork' <= RouteWork
                        /\ RouteStep => RouteWork' < RouteWork
        OBVIOUS
    <2> DEFINE t == taken
               t1 == taken'
               o == Len(outer)
               o1 == Len(outer')
               i == Len(inner)
               i1 == Len(inner')
               r == RouteRank
               r1 == RouteRank'
               w == 3 * (MaxSent - t) + 2 * o + i + r
               w1 == 3 * (MaxSent - t1) + 2 * o1 + i1 + r1
    <2>1. t \in Nat /\ t <= MaxSent /\ o \in Nat /\ i \in Nat
        BY BufferTypes
    <2>2. t1 \in Nat /\ t1 <= MaxSent /\ o1 \in Nat /\ i1 \in Nat
        <3>1. PICK d \in Nat, e \in Nat :
                Runs(handler', data', inner', outer', d, e, taken')
            BY DEF RInv, RunInv
        <3>2. taken' \in Nat /\ taken' <= MaxSent
            <4>1. sent' \in 0..MaxSent /\ taken' \in 0..sent'
                BY DEF RInv, SizeInv
            <4> QED
                BY <4>1, Sizes
        <3>3. inner' \in Seq(1..taken') /\ outer' \in Seq(1..taken')
            BY <3>1, <3>2, RunFacts
        <3> QED
            BY <3>2, <3>3
    <2>3. r \in Nat /\ r1 \in Nat /\ MaxSent \in Nat
        BY Sizes DEF RouteRank
    <2>4. RouteWork = w /\ RouteWork' = w1
        BY DEF RouteWork
    <2>5. w \in Nat
        <3> HIDE DEF t, o, i, r
        <3> QED
            BY <2>1, <2>3, WorkNat
    <2>6. w1 \in Nat
        <3> HIDE DEF t1, o1, i1, r1
        <3> QED
            BY <2>2, <2>3, WorkNat
    <2>7. CASE RouteStep
        <3>1. \E n \in Nat :
                \/ n > 0 /\ t1 = t + n /\ o1 = o + n /\ i1 = i /\ r1 = r
                \/ n > 0 /\ t1 = t /\ o1 = o - n /\ i1 = i + n /\ r1 = r
                \/ n > 0 /\ t1 = t /\ o1 = o - n /\ i1 = i /\ r1 <= r
                \/ n > 0 /\ t1 = t /\ o1 = o /\ i1 = i - n /\ r1 <= r
                \/ t1 = t /\ o1 = o /\ i1 = i /\ r1 < r
            <4>1. CASE FillOuter \/ FillInner
                <5>1. PICK n \in Nat : n > 0 /\ (FromSocket(n) \/ Between(n))
                    BY <4>1, FillMoves
                <5>2. r1 = r
                    BY <5>1 DEF FromSocket, Between, RouteRank
                <5> QED
                    BY <5>1, <5>2 DEF FromSocket, Between
            <4>2. CASE HandlerRead \/ HTTPReadHead \/ HTTPReadBody
                <5>1. PICK n \in Nat : n > 0 /\ ToHandler(n)
                    BY <4>2, ReadMoves
                <5>2. r1 <= r
                    <6>1. CASE pc' = pc
                        <7>1. r1 = r
                            BY <6>1 DEF RouteRank
                        <7> HIDE DEF r, r1
                        <7> QED
                            BY <2>3, <7>1
                    <6>2. CASE pc = "read" /\ pc' = "finish"
                        BY <6>2 DEF RouteRank
                    <6>3. CASE pc = "body" /\ pc' = "produce"
                        BY <6>3 DEF RouteRank
                    <6> QED
                        BY <5>1, <6>1, <6>2, <6>3 DEF ToHandler
                <5> QED
                    BY <5>1, <5>2 DEF ToHandler
            <4>3. CASE ~(FillOuter \/ FillInner \/ HandlerRead \/ HTTPReadHead
                           \/ HTTPReadBody)
                <5>1. Onward
                    BY <2>7, <4>3, OtherMoves
                <5> QED
                    BY <5>1 DEF Onward
            <4> QED
                BY <4>1, <4>2, <4>3
        <3>2. w1 < w
            <4> HIDE DEF t, t1, o, o1, i, i1, r, r1
            <4> QED
                BY <2>1, <2>2, <2>3, <3>1, MoveLess
        <3> HIDE DEF w, w1
        <3>3. w1 <= w
            BY <2>5, <2>6, <3>2
        <3> QED
            BY <2>4, <2>5, <2>6, <3>2, <3>3
    <2>8. CASE ~RouteStep
        <3>1. ClientSend \/ ClientFin \/ WorkerStuck
            BY <2>8 DEF RNext, RouteOver
        <3>2. UNCHANGED <<taken, outer, inner, pc>>
            BY <3>1 DEF ClientSend, ClientFin, WorkerStuck
        <3>3. RouteWork' = RouteWork
            BY <3>2 DEF RouteWork, RouteRank
        <3> HIDE DEF w, w1
        <3>4. RouteWork' <= RouteWork
            BY <2>4, <2>5, <3>3
        <3> QED
            BY <2>4, <2>5, <2>6, <2>8, <3>4
    <2> QED
        BY <2>7, <2>8
<1> QED
    BY <1>1, RInvariance, PTL DEF RSpec, RouteShrinks

\* Until it is closed or handed on, a connection has a step that its goroutine
\* can take, unless that is in Parse and the Spicy worker is stuck: no Peek
\* waits for more than its buffer can hold, and no loop over an HTTP request
\* goes on when all it announced was read.
THEOREM RouteNotStuck == RSpec => []RouteNeverStuck
<1>1. ASSUME RInv PROVE RouteNeverStuck
    <2>1. /\ taken <= sent /\ pc \in PCs
          /\ Len(outer) \in Nat /\ Len(inner) \in Nat
        BY <1>1, BufferTypes, Sizes DEF RInv, SizeInv
    <2>2. PeekShort <= BufSize /\ PeekLong <= BufSize /\ PeekShort \in Nat
          /\ PeekLong \in Nat /\ BufSize \in Nat
        BY SizesAssumption
    <2>3. /\ \/ Len(outer) < PeekShort /\ Len(outer) < BufSize
             \/ Len(outer) >= PeekShort
          /\ \/ Len(inner) < PeekLong /\ Len(inner) < BufSize
             \/ Len(inner) >= PeekLong
        BY <2>1, <2>2
    <2>6. stuck \in BOOLEAN /\ spicy \in BOOLEAN /\ (stuck => spicy)
        BY <1>1 DEF RInv, SizeInv, ControlInv
    <2>4. pc = "head" => Len(data) <= HeadLen
        BY <1>1 DEF RInv, ControlInv, HTTPInv
    <2>5. pc = "body" => Len(data) < HeadLen + clen
        BY <1>1 DEF RInv, ControlInv, HTTPInv
    <2> QED
        BY <2>1, <2>3, <2>4, <2>5, <2>6
           DEF RouteNeverStuck, RouteCanStep, ParseBlocked, ParseTaken, PCs
<1> QED
    BY <1>1, RInvariance, PTL
=============================================================================
