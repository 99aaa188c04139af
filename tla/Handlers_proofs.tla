-------------------------- MODULE Handlers_proofs ---------------------------
(***************************************************************************)
(* For any size of the read buffer, any limits and however the client's    *)
(* messages are cut: every handler reports its session once on every way   *)
(* out, its record agrees with the dialogue, and the message read last is  *)
(* reported as it was read.                                                *)
(*                                                                         *)
(* Each part of the invariant is about the handlers that its property is   *)
(* about, and is shown to be preserved on its own, given the types.        *)
(***************************************************************************)
EXTENDS Handlers, SequenceTheorems, FiniteSetTheorems, TLAPS

\* What each control state says of the counters, and who uses which stage.
ControlInv ==
    /\ pc = "write" => owed >= 1
    /\ handler # "smtp" => held = 0
    /\ stage = "data" => handler = "smtp" /\ dataLeft >= 1
    /\ handler = "telnet" => stage \in {"user", "pass", "shell"}
    /\ handler = "smtp" => stage \in {"command", "data"}

TypeInv == HTypeOK /\ events \in Seq(Entries) /\ ControlInv

\* An entry that is a slice of the read buffer fits in it; the others are
\* copies.
Sound(e) ==
    IF handler \in Buffered
    THEN e.units = <<>> \/ (e.aliases /\ Len(e.units) <= BufUnits)
    ELSE ~e.aliases

\* What was read last is at the front of the buffer.
FrontInv ==
    handler \in Buffered =>
        /\ Len(got) <= BufUnits
        /\ \A k \in 1..Len(got) : got[k] = cells[k]

BufferInv == FrontInv /\ \A i \in DOMAIN events : Sound(events[i])

Encodings == [dir : {"read", "write"}, units : Seq(Nat), payload : Seq(Nat)]
Reports == [payload : Seq(Nat), decoded : Seq(Encodings)]

ReportInv == reports \in Seq(Reports)

\* ADB and Jabber read once: before that nothing was taken and afterwards the
\* first unit is at hand.
OnceInv ==
    /\ ReportedOnce
    /\ handler \in {"adb", "jabber"} =>
           /\ pc \notin {"end", "ended"} => reports = <<>> /\ ~panicked
           /\ pc \in {"greet", "read", "write"} => taken = 0
           /\ pc = "message" =>
                  IF handler = "adb" THEN got = <<1>> ELSE cells[1] = 1

\* RepliesRecorded by control state: one reply ahead while it is written.
ReplyInv ==
    /\ handler \in NotesFirst =>
           LET extra == Cardinality(Replied) - wrote IN
           /\ pc \in {"greet", "read", "message"} => extra = 0
           /\ pc = "write" => extra = 1 /\ owed = 1
           /\ pc \in {"end", "ended"} => extra \in 0..1
    /\ handler \in NotesAfter => Cardinality(Replied) = wrote

\* The line of SMTP's stream up to which everything was dealt with.
Position == taken - held - (IF pc = "message" THEN 1 ELSE 0)

\* Lines of the stream up to p, in order.
InOrder(rs, p) ==
    /\ \A i, j \in DOMAIN rs : i < j => rs[i].payload[1] < rs[j].payload[1]
    /\ \A i \in DOMAIN rs : rs[i].payload[1] \in 1..p

\* The last n of them are the n lines up to p.
Block(rs, p, n) ==
    /\ n <= Len(rs)
    /\ \A k \in 1..n : rs[Len(rs) - n + k].payload[1] = p - n + k

\* Lines are produced up to that position, and those of a DATA block without
\* a gap.
DataInv ==
    handler = "smtp" =>
        /\ pc = "message" => got = <<taken - held>>
        /\ InOrder(reports, Position)
        /\ stage = "data" => Block(reports, Position, MaxDataRead + 1 - dataLeft)

\* The entries of one direction: Said and Replied.
With(es, d) == {i \in DOMAIN es : es[i].dir = d}

\* What was said is numbered from one.
Numbered(es) ==
    \A i \in With(es, "read") :
        es[i].units[1] = Cardinality({j \in With(es, "read") : j <= i})

\* What was said is in order, and none of it later than t.
Ascending(es, t) ==
    /\ \A i, j \in With(es, "read") : i < j => es[i].units[1] < es[j].units[1]
    /\ \A i \in With(es, "read") : es[i].units[1] \in 1..t

\* MongoDB's last message is noted once it is answered; Telnet and FTP note
\* lines as they read them, so that no entry is later than what was taken.
TranscriptInv ==
    /\ handler = "mongodb" =>
           LET said == Cardinality(With(events, "read")) IN
           /\ Numbered(events) /\ taken - said \in 0..1
           /\ pc \in {"greet", "read", "write"} => said = taken
           /\ pc = "message" => said = taken - 1 /\ got = <<taken>>
    /\ handler \in {"telnet", "ftp"} => Ascending(events, taken)

HInv ==
    /\ TypeInv /\ BufferInv /\ ReportInv
    /\ OnceInv /\ ReplyInv /\ DataInv /\ TranscriptInv

-----------------------------------------------------------------------------
(* What the actions do. *)

LEMMA Bounds ==
    /\ BufUnits \in Nat /\ BufUnits >= 1 /\ MaxReplies \in Nat /\ MaxReplies >= 1
    /\ MaxDataRead \in Nat /\ MaxSent \in Nat
BY HandlerBounds

\* The handler is chosen once.
LEMMA HandlerStays == [HNext]_hVars => UNCHANGED handler
BY DEF HNext, ClientSend, ClientLeaves, SessionStep, Greet, Read, ReadFails, Message,
       WriteOK, WriteFails, Return, SessionOver, hVars

\* After some replies the handler reads again or returns.
LEMMA AnswerType ==
    ASSUME NEW n \in 0..(MaxReplies + 1), NEW w \in {"read", "end"}, answer(n, w)
    PROVE  /\ owed' \in 0..(MaxReplies + 1) /\ next' \in {"read", "end"}
           /\ pc' \in {"read", "write", "end"} /\ (pc' = "write" => owed' >= 1)
<1>1. n = 0 \/ n >= 1
    OBVIOUS
<1> QED
    BY <1>1 DEF answer

\* What may come of a message, for each handler.
LEMMA MessageAnswers ==
    ASSUME TypeInv, Message
    PROVE  \E n \in 0..(MaxReplies + 1), w \in {"read", "end"} : answer(n, w)
<1>1. {0, 1, 2} \subseteq 0..(MaxReplies + 1) /\ 1..MaxReplies \subseteq 0..(MaxReplies + 1)
    BY Bounds
<1>2. CASE handler \in {"sip", "rdp", "bittorrent", "smb", "ftp"}
    BY <1>1, <1>2 DEF Message, HandleSIP, HandleRDP, HandleBittorrent, HandleSMB,
                      HandleFTP, giveUp
<1>3. CASE handler \in {"mongodb", "adb", "jabber", "iscsi"}
    BY <1>1, <1>3 DEF Message, HandleMongoDB, HandleADB, HandleJabber, HandleISCSI, giveUp
<1>4. CASE handler \in {"rfb", "mqtt", "memcache"}
    BY <1>1, <1>4 DEF Message, HandleRFB, HandleMQTT, HandleMemcache
<1>5. CASE handler = "telnet"
    <2>1. stage \in {"user", "pass", "shell"}
        BY <1>5 DEF TypeInv, ControlInv
    <2>2. HandleTelnet
        BY <1>5 DEF Message
    <2> QED
        BY <1>1, <2>1, <2>2 DEF HandleTelnet
<1>6. CASE handler = "smtp"
    BY <1>1, <1>6 DEF Message, HandleSMTP, SMTPCommand, SMTPDataLine
<1> QED
    BY <1>2, <1>3, <1>4, <1>5, <1>6
       DEF TypeInv, HTypeOK, Names, Buffered, LineReaders, MessageReaders

\* Handlers that note a message after they have parsed it.
Noting == {"sip", "rdp", "bittorrent", "smb", "mongodb", "iscsi"}

LEMMA MessageNotes ==
    ASSUME Message
    PROVE  \/ UNCHANGED events
           \/ handler \in Noting /\ \E r \in 0..1 : note(r)
<1>1. CASE handler \in {"sip", "rdp", "bittorrent", "smb", "ftp"}
    BY <1>1 DEF Message, HandleSIP, HandleRDP, HandleBittorrent, HandleSMB,
                HandleFTP, giveUp, Noting
<1>2. CASE handler \in {"mongodb", "adb", "jabber", "iscsi"}
    BY <1>2 DEF Message, HandleMongoDB, HandleADB, HandleJabber, HandleISCSI, giveUp, Noting
<1>3. CASE handler \in {"rfb", "mqtt", "memcache", "telnet", "smtp"}
    BY <1>3 DEF Message, HandleRFB, HandleMQTT, HandleMemcache, HandleTelnet, HandleSMTP
<1> QED
    BY <1>1, <1>2, <1>3 DEF Message

\* The reply that is noted together with the message.
replyEntry ==
    entry("write", IF handler = "bittorrent" THEN got ELSE <<>>, handler = "bittorrent")

LEMMA NoteAppends ==
    ASSUME NEW X, events \in Seq(X), readEntry \in X, replyEntry \in X,
           NEW r \in 0..1, note(r)
    PROVE  events' = IF handler \in NotesFirst /\ r = 1
                     THEN Append(Append(events, readEntry), replyEntry)
                     ELSE Append(events, readEntry)
<1> DEFINE n == IF handler \in NotesFirst THEN r ELSE 0
           tail == [i \in 1..n |-> replyEntry]
           s == Append(events, readEntry)
<1>1. events' = s \o tail
    BY DEF note, replyEntry
<1>2. s \in Seq(X)
    OBVIOUS
<1>3. CASE n = 0
    <2>1. tail = <<>>
        BY <1>3
    <2>2. s \o <<>> = s
        BY <1>2
    <2> QED
        BY <1>1, <1>3, <2>1, <2>2
<1>4. CASE n = 1
    <2>1. tail = <<replyEntry>>
        BY <1>4
    <2>2. s \o <<replyEntry>> = Append(s, replyEntry)
        BY <1>2
    <2> QED
        BY <1>1, <1>4, <2>1, <2>2
<1> QED
    BY <1>3, <1>4

\* A run of units.
LEMMA UnitsType ==
    ASSUME NEW a \in Nat, NEW n \in Nat, NEW b \in Nat, b = a + n
    PROVE  /\ Units(a, b) \in Seq(1..b) /\ Len(Units(a, b)) = n
           /\ \A k \in 1..n : Units(a, b)[k] = a + k
<1>1. b - a = n
    OBVIOUS
<1>2. Units(a, b) = [i \in 1..n |-> a + i]
    BY <1>1 DEF Units
<1>3. Units(a, b) \in [1..n -> 1..b]
    BY <1>2
<1>4. Units(a, b) \in Seq(1..b)
    BY <1>3, SeqDef
<1>5. DOMAIN Units(a, b) = 1..n
    BY <1>2
<1> QED
    BY <1>2, <1>4, <1>5, LenProperties

\* n units of Least(BufUnits, sent - taken) or of sent - taken.
LEMMA SomeUnits ==
    ASSUME TypeInv
    PROVE  /\ taken \in Nat /\ sent \in Nat /\ taken <= sent
           /\ \A n \in 1..(sent - taken) : n \in Nat /\ n >= 1 /\ taken + n <= sent
           /\ \A n \in 1..Least(BufUnits, sent - taken) :
                  n \in 1..(sent - taken) /\ n <= BufUnits
<1>1. taken \in Nat /\ sent \in Nat /\ taken <= sent
    BY Bounds DEF TypeInv, HTypeOK
<1> QED
    BY <1>1, Bounds DEF Least

\* A read adds to what was taken; the line readers note the line at once.
LEMMA ReadEffect ==
    ASSUME TypeInv, Read
    PROVE  /\ taken' \in Nat /\ taken <= taken' /\ taken' <= sent
           /\ held' \in 0..taken' /\ (handler # "smtp" => held' = held)
           /\ cells' \in [1..BufUnits -> 0..taken']
           /\ got' \in Seq(1..taken')
           /\ \/ events' = events
              \/ /\ handler \in {"ftp", "telnet"}
                 /\ events' = Append(events, entry("read", got', FALSE))
<1>1. /\ taken \in Nat /\ sent \in Nat /\ taken <= sent /\ held \in 0..taken
      /\ cells \in [1..BufUnits -> 0..taken]
    BY SomeUnits DEF TypeInv, HTypeOK
<1>a. \A m \in Nat : taken <= m => cells \in [1..BufUnits -> 0..m]
    BY <1>1, Bounds
<1>2. CASE ReadBuffer
    <2>1. PICK n \in 1..Least(BufUnits, sent - taken) :
            /\ got' = Units(taken, taken + n)
            /\ taken' = taken + n
            /\ cells' = [i \in 1..BufUnits |-> IF i <= n THEN taken + i ELSE cells[i]]
        BY <1>2 DEF ReadBuffer
    <2>2. n \in Nat /\ taken + n <= sent /\ n <= BufUnits
        BY SomeUnits
    <2>3. taken' \in Nat /\ taken <= taken' /\ taken' <= sent
        BY <1>1, <2>1, <2>2
    <2>4. got' \in Seq(1..taken')
        BY <1>1, <2>1, <2>2, <2>3, UnitsType
    <2>5. cells' \in [1..BufUnits -> 0..taken']
        <3>1. \A i \in 1..BufUnits : i <= n => taken + i \in 0..taken'
            BY <1>1, <2>1, <2>2, Bounds
        <3> QED
            BY <1>a, <2>1, <2>3, <3>1
    <2> QED
        BY <1>1, <1>2, <2>3, <2>4, <2>5 DEF ReadBuffer
<1>3. CASE ReadMessage
    <2>1. taken' = taken + 1 /\ sent > taken /\ got' = <<taken + 1>>
        BY <1>3 DEF ReadMessage
    <2>2. taken' \in Nat /\ taken <= taken' /\ taken' <= sent /\ taken + 1 \in 1..taken'
        BY <1>1, <2>1
    <2>3. got' \in Seq(1..taken')
        BY <2>1, <2>2
    <2> QED
        BY <1>1, <1>3, <1>a, <2>2, <2>3 DEF ReadMessage
<1>4. CASE ReadLineAndDrop
    <2>1. PICK n \in 1..(sent - taken) : taken' = taken + n
        BY <1>4 DEF ReadLineAndDrop
    <2>2. n \in Nat /\ taken + n <= sent /\ n >= 1
        BY SomeUnits
    <2>3. taken' \in Nat /\ taken <= taken' /\ taken' <= sent /\ taken + 1 \in 1..taken'
        BY <1>1, <2>1, <2>2
    <2>4. got' \in Seq(1..taken')
        BY <1>4, <2>3 DEF ReadLineAndDrop
    <2>5. /\ held' = held /\ cells' = cells
          /\ \/ events' = events
             \/ /\ handler \in {"ftp", "telnet"}
                /\ events' = Append(events, entry("read", got', FALSE))
        BY <1>4 DEF ReadLineAndDrop
    <2>6. held' \in 0..taken' /\ cells' \in [1..BufUnits -> 0..taken']
        BY <1>1, <1>a, <2>3, <2>5
    <2> QED
        BY <2>3, <2>4, <2>5, <2>6
<1>5. CASE ReadLine
    <2>1. PICK n \in IF held > 0 THEN {0} ELSE 1..(sent - taken) :
            taken' = taken + n /\ held' = held + n - 1
        BY <1>5 DEF ReadLine
    <2>2. n \in Nat /\ taken + n <= sent /\ held + n >= 1
        BY <1>1, SomeUnits
    <2>3. taken' \in Nat /\ taken <= taken' /\ taken' <= sent /\ held' \in 0..taken'
        BY <1>1, <2>1, <2>2
    <2>4. taken - held + 1 \in 1..taken'
        BY <1>1, <2>1, <2>2
    <2>5. got' \in Seq(1..taken')
        BY <1>5, <2>4 DEF ReadLine
    <2> QED
        BY <1>5, <1>a, <2>3, <2>5 DEF ReadLine
<1> QED
    BY <1>2, <1>3, <1>4, <1>5 DEF Read

-----------------------------------------------------------------------------
(* Types. *)

LEMMA InitType == HInit => TypeInv
<1> SUFFICES ASSUME HInit PROVE TypeInv
    OBVIOUS
<1>1. /\ sent \in 0..MaxSent /\ taken \in 0..sent /\ held \in 0..taken
      /\ cells \in [1..BufUnits -> 0..taken]
      /\ dataLeft \in 0..(MaxDataRead + 1) /\ owed \in 0..(MaxReplies + 1)
      /\ wrote \in Nat
    BY Bounds DEF HInit
<1>2. got \in Seq(1..taken) /\ events \in Seq(Entries)
    BY DEF HInit
<1>3. \A i \in DOMAIN events : events[i] \in Entries
    BY <1>2
<1>4. stage \in {"user", "pass", "shell", "command", "data"}
    BY DEF HInit
<1>5. HTypeOK
    BY <1>1, <1>2, <1>3, <1>4 DEF HInit, HTypeOK
<1>6. ControlInv
    BY DEF HInit, ControlInv
<1> QED
    BY <1>2, <1>5, <1>6 DEF TypeInv

\* Entries of before are entries of after.
LEMMA EntriesGrow ==
    ASSUME taken \in Nat, taken' \in Nat, taken <= taken'
    PROVE  Entries \subseteq Entries' /\ Seq(Entries) \subseteq Seq(Entries')
<1>1. 0..taken \subseteq 0..taken'
    OBVIOUS
<1>2. Seq(0..taken) \subseteq Seq(0..taken')
    BY <1>1
<1>3. Entries \subseteq Entries'
    BY <1>2 DEF Entries
<1> QED
    BY <1>3

\* The entries that are made are typed.
LEMMA EntryTypes ==
    ASSUME TypeInv
    PROVE  /\ readEntry \in Entries /\ replyEntry \in Entries
           /\ entry("write", cells, TRUE) \in Entries
           /\ entry("write", <<>>, FALSE) \in Entries
<1>1. /\ taken \in Nat /\ got \in Seq(1..taken)
      /\ cells \in [1..BufUnits -> 0..taken]
    BY SomeUnits DEF TypeInv, HTypeOK
<1>2. 1..taken \subseteq 0..taken
    BY <1>1
<1>3. got \in Seq(0..taken)
    BY <1>1, <1>2
<1>4. cells \in Seq(0..taken) /\ <<>> \in Seq(0..taken)
    BY <1>1, Bounds, SeqDef
<1>5. ASSUME NEW d \in {"read", "write"}, NEW u \in Seq(0..taken), NEW a \in BOOLEAN
      PROVE  entry(d, u, a) \in Entries
    BY DEF entry, Entries
<1>6. (handler \in Buffered) \in BOOLEAN /\ (handler = "bittorrent") \in BOOLEAN
    OBVIOUS
<1>7. readEntry \in Entries
    BY <1>3, <1>5, <1>6, Zenon DEF readEntry
<1>8. (IF handler = "bittorrent" THEN got ELSE <<>>) \in Seq(0..taken)
    BY <1>3, <1>4
<1>9. replyEntry \in Entries
    BY <1>5, <1>6, <1>8, Zenon DEF replyEntry
<1> QED
    BY <1>4, <1>5, <1>7, <1>9

\* Only Telnet, RFB and SMTP have stages, and only SMTP counts lines.
LEMMA MessageStage ==
    ASSUME TypeInv, Message
    PROVE  /\ stage' \in {"user", "pass", "shell", "command", "data"}
           /\ dataLeft' \in 0..(MaxDataRead + 1) /\ panicked' \in BOOLEAN
           /\ stage' = "data" => handler = "smtp" /\ dataLeft' >= 1
           /\ handler = "telnet" => stage' \in {"user", "pass", "shell"}
           /\ handler = "smtp" => stage' \in {"command", "data"}
<1>1. /\ stage \in {"user", "pass", "shell", "command", "data"}
      /\ dataLeft \in 0..(MaxDataRead + 1) /\ panicked \in BOOLEAN
    BY DEF TypeInv, HTypeOK
<1>2. CASE handler \in {"sip", "rdp", "bittorrent", "smb", "ftp", "mqtt", "memcache",
                        "iscsi", "jabber", "mongodb", "adb"}
    <2>1. UNCHANGED <<stage, dataLeft>>
        BY <1>2 DEF Message
    <2>2. panicked' \in BOOLEAN
        BY <1>1, <1>2 DEF Message, HandleMongoDB, HandleADB
    <2> QED
        BY <1>1, <1>2, <2>1, <2>2 DEF TypeInv, ControlInv
<1>3. CASE handler \in {"telnet", "rfb"}
    <2>1. UNCHANGED <<dataLeft, panicked>>
        BY <1>3 DEF Message
    <2>2. handler = "telnet" => stage \in {"user", "pass", "shell"} /\ HandleTelnet
        BY <1>3 DEF Message, TypeInv, ControlInv
    <2>3. handler = "telnet" => stage' \in {"user", "pass", "shell"}
        BY <2>2 DEF HandleTelnet
    <2>4. handler = "rfb" => stage' = "pass" \/ stage' = stage
        BY <1>3 DEF Message, HandleRFB
    <2> QED
        BY <1>1, <1>3, <2>1, <2>3, <2>4 DEF TypeInv, ControlInv
<1>4. CASE handler = "smtp"
    <2>1. panicked' = panicked /\ (SMTPCommand \/ SMTPDataLine)
        BY <1>4 DEF Message, HandleSMTP
    <2>2. CASE SMTPCommand
        <3>1. stage = "command" /\ (\/ stage' = stage /\ dataLeft' = dataLeft
                                    \/ stage' = "data" /\ dataLeft' = MaxDataRead + 1)
            BY <2>2 DEF SMTPCommand
        <3>2. MaxDataRead + 1 \in 0..(MaxDataRead + 1) /\ MaxDataRead + 1 >= 1
            BY Bounds
        <3> QED
            BY <1>1, <1>4, <2>1, <3>1, <3>2
    <2>3. CASE SMTPDataLine
        <3>1. /\ stage = "data" /\ dataLeft' = dataLeft - 1
              /\ stage' = "command" \/ (stage' = "data" /\ dataLeft > 1)
            BY <2>3 DEF SMTPDataLine
        <3>2. dataLeft >= 1
            BY <3>1 DEF TypeInv, ControlInv
        <3>3. dataLeft' \in 0..(MaxDataRead + 1) /\ (dataLeft > 1 => dataLeft' >= 1)
            BY <1>1, <3>1, <3>2, Bounds
        <3> QED
            BY <1>1, <1>4, <2>1, <3>1, <3>3
    <2> QED
        BY <2>1, <2>2, <2>3
<1> QED
    BY <1>2, <1>3, <1>4 DEF Message

\* The events of a message are typed.
LEMMA MessageEvents ==
    ASSUME TypeInv, Message
    PROVE  events' \in Seq(Entries)
<1>1. events \in Seq(Entries) /\ readEntry \in Entries /\ replyEntry \in Entries
    BY EntryTypes DEF TypeInv
<1>2. CASE UNCHANGED events
    BY <1>1, <1>2
<1>3. CASE \E r \in 0..1 : note(r)
    <2>1. \/ events' = Append(Append(events, readEntry), replyEntry)
          \/ events' = Append(events, readEntry)
        BY <1>1, <1>3, NoteAppends
    <2> QED
        BY <1>1, <2>1
<1> QED
    BY <1>2, <1>3, MessageNotes

LEMMA TypeStep == TypeInv /\ [HNext]_hVars => TypeInv'
<1> SUFFICES ASSUME TypeInv, [HNext]_hVars PROVE TypeInv'
    OBVIOUS
<1>0. handler' = handler /\ handler \in Names
    BY HandlerStays DEF TypeInv, HTypeOK
<1>a. taken \in Nat /\ sent \in Nat /\ taken <= sent
    BY SomeUnits
<1>1. CASE ClientSend \/ ClientLeaves
    <2>1. sent' \in 0..MaxSent /\ taken \in 0..sent' /\ peer' \in {"open", "fin", "reset"}
        BY <1>1, <1>a, Bounds DEF ClientSend, ClientLeaves, TypeInv, HTypeOK
    <2>2. /\ UNCHANGED <<handler, taken, held, cells, got, stage, dataLeft, pc, owed>>
          /\ UNCHANGED <<next, events, wrote, reports, conn, panicked>>
        BY <1>1 DEF ClientSend, ClientLeaves, readVars
    <2>3. Entries' = Entries
        BY <2>2 DEF Entries
    <2>4. ControlInv'
        BY <2>2 DEF TypeInv, ControlInv
    <2>5. HTypeOK'
        BY <2>1, <2>2, <2>3 DEF TypeInv, HTypeOK
    <2> QED
        BY <2>2, <2>3, <2>4, <2>5 DEF TypeInv
<1>2. CASE Greet
    <2> DEFINE n == IF handler = "telnet" THEN 2
                    ELSE IF handler \in {"ftp", "smtp", "rfb", "jabber"} THEN 1 ELSE 0
    <2>1. answer(n, "read")
        BY <1>2 DEF Greet
    <2>2. n \in 0..(MaxReplies + 1)
        BY Bounds
    <2> HIDE DEF n
    <2>3. /\ owed' \in 0..(MaxReplies + 1) /\ next' \in {"read", "end"}
          /\ pc' \in {"read", "write", "end"} /\ (pc' = "write" => owed' >= 1)
        BY <2>1, <2>2, AnswerType
    <2>4. /\ UNCHANGED <<handler, peer, sent, taken, held, cells, got, stage, dataLeft>>
          /\ UNCHANGED <<events, wrote, reports, conn, panicked>>
        BY <1>2 DEF Greet, clientVars, readVars
    <2>5. Entries' = Entries
        BY <2>4 DEF Entries
    <2>6. ControlInv'
        BY <2>3, <2>4 DEF TypeInv, ControlInv
    <2>7. HTypeOK'
        BY <2>3, <2>4, <2>5 DEF TypeInv, HTypeOK
    <2> QED
        BY <2>4, <2>5, <2>6, <2>7 DEF TypeInv
<1>3. CASE Read
    <2>1. /\ taken' \in Nat /\ taken <= taken' /\ taken' <= sent
          /\ held' \in 0..taken' /\ (handler # "smtp" => held' = held)
          /\ cells' \in [1..BufUnits -> 0..taken'] /\ got' \in Seq(1..taken')
          /\ \/ events' = events
             \/ events' = Append(events, entry("read", got', FALSE))
        BY <1>3, ReadEffect
    <2>2. /\ UNCHANGED <<handler, peer, sent, stage, dataLeft, owed, next>>
          /\ UNCHANGED <<wrote, reports, conn, panicked>> /\ pc' = "message"
        BY <1>3 DEF Read, clientVars
    <2>3. Seq(Entries) \subseteq Seq(Entries')
        BY <1>a, <2>1, EntriesGrow
    <2>4. entry("read", got', FALSE) \in Entries'
        <3>1. 1..taken' \subseteq 0..taken'
            BY <2>1
        <3>2. got' \in Seq(0..taken')
            BY <2>1, <3>1
        <3> QED
            BY <3>2 DEF entry, Entries
    <2>5. events' \in Seq(Entries')
        <3> DEFINE E == Entries'
                   e == entry("read", got', FALSE)
        <3>1. events \in Seq(E) /\ e \in E
            BY <2>3, <2>4 DEF TypeInv
        <3>2. events' = events \/ events' = Append(events, e)
            BY <2>1
        <3> HIDE DEF E, e
        <3>3. events' \in Seq(E)
            BY <3>1, <3>2
        <3> QED
            BY <3>3 DEF E
    <2>6. \A i \in DOMAIN events' : events'[i] \in Entries'
        BY <2>5
    <2>7. taken' \in 0..sent'
        BY <2>1, <2>2
    <2>8. ControlInv'
        BY <2>1, <2>2 DEF TypeInv, ControlInv
    <2>9. HTypeOK'
        BY <2>1, <2>2, <2>6, <2>7 DEF TypeInv, HTypeOK
    <2> QED
        BY <2>5, <2>8, <2>9 DEF TypeInv
<1>4. CASE ReadFails
    <2>1. \E n \in 0..1, w \in {"read", "end"} : answer(n, w)
        BY <1>4 DEF ReadFails
    <2>2. 0..1 \subseteq 0..(MaxReplies + 1)
        BY Bounds
    <2>3. /\ owed' \in 0..(MaxReplies + 1) /\ next' \in {"read", "end"}
          /\ pc' \in {"read", "write", "end"} /\ (pc' = "write" => owed' >= 1)
        BY <2>1, <2>2, AnswerType
    <2>4. /\ UNCHANGED <<handler, peer, sent, taken, held, cells, got, dataLeft>>
          /\ UNCHANGED <<events, wrote, reports, conn, panicked>>
          /\ stage' = IF stage = "data" THEN "command" ELSE stage
        BY <1>4 DEF ReadFails, clientVars, readVars
    <2>5. Entries' = Entries
        BY <2>4 DEF Entries
    <2>6. ControlInv'
        BY <2>3, <2>4 DEF TypeInv, ControlInv
    <2>7. HTypeOK'
        BY <2>3, <2>4, <2>5 DEF TypeInv, HTypeOK
    <2> QED
        BY <2>4, <2>5, <2>6, <2>7 DEF TypeInv
<1>5. CASE Message
    <2>1. /\ owed' \in 0..(MaxReplies + 1) /\ next' \in {"read", "end"}
          /\ pc' \in {"read", "write", "end"} /\ (pc' = "write" => owed' >= 1)
        BY <1>5, MessageAnswers, AnswerType
    <2>2. /\ stage' \in {"user", "pass", "shell", "command", "data"}
          /\ dataLeft' \in 0..(MaxDataRead + 1) /\ panicked' \in BOOLEAN
          /\ stage' = "data" => handler = "smtp" /\ dataLeft' >= 1
          /\ handler = "telnet" => stage' \in {"user", "pass", "shell"}
          /\ handler = "smtp" => stage' \in {"command", "data"}
        BY <1>5, MessageStage
    <2>3. UNCHANGED <<handler, peer, sent, taken, held, cells, got, wrote, conn>>
        BY <1>5 DEF Message, clientVars, readVars
    <2>4. Entries' = Entries
        BY <2>3 DEF Entries
    <2>5. events' \in Seq(Entries')
        BY <1>5, <2>4, MessageEvents
    <2>6. \A i \in DOMAIN events' : events'[i] \in Entries'
        BY <2>5
    <2>7. ControlInv'
        BY <2>1, <2>2, <2>3 DEF TypeInv, ControlInv
    <2>8. HTypeOK'
        BY <2>1, <2>2, <2>3, <2>6 DEF TypeInv, HTypeOK
    <2> QED
        BY <2>5, <2>7, <2>8 DEF TypeInv
<1>6. CASE WriteOK \/ WriteFails
    <2>1. /\ UNCHANGED <<handler, peer, sent, taken, held, cells, got, stage, dataLeft>>
          /\ UNCHANGED <<next, conn, panicked>>
        BY <1>6 DEF WriteOK, WriteFails, clientVars, readVars
    <2>2. owed \in 0..(MaxReplies + 1) /\ owed >= 1 /\ next \in {"read", "end"} /\ wrote \in Nat
        BY <1>6 DEF WriteOK, WriteFails, TypeInv, HTypeOK, ControlInv
    <2>3. \/ owed' = owed - 1 /\ pc' = IF owed = 1 THEN next ELSE "write"
          \/ owed' = 0 /\ pc' = "end"
        BY <1>6 DEF WriteOK, WriteFails
    <2>4. /\ owed' \in 0..(MaxReplies + 1) /\ pc' \in {"read", "write", "end"}
          /\ pc' = "write" => owed' >= 1
        <3>1. CASE owed' = owed - 1 /\ pc' = IF owed = 1 THEN next ELSE "write"
            <4>1. owed' \in 0..(MaxReplies + 1) /\ (owed # 1 => owed' >= 1)
                BY <2>2, <3>1, Bounds
            <4> QED
                BY <2>2, <3>1, <4>1
        <3>2. CASE owed' = 0 /\ pc' = "end"
            BY <3>2, Bounds
        <3> QED
            BY <2>3, <3>1, <3>2
    <2>5. wrote' \in Nat
        <3>1. wrote' = wrote \/ wrote' = wrote + 1
            BY <1>6 DEF WriteOK, WriteFails
        <3> QED
            BY <2>2, <3>1
    <2>6. Entries' = Entries
        BY <2>1 DEF Entries
    <2>7. events' \in Seq(Entries')
        <3>1. \/ events' = events \/ events' = Append(events, entry("write", cells, TRUE))
              \/ events' = Append(events, entry("write", <<>>, FALSE))
            BY <1>6 DEF WriteOK, WriteFails
        <3>2. events \in Seq(Entries)
            BY DEF TypeInv
        <3>3. /\ entry("write", cells, TRUE) \in Entries
              /\ entry("write", <<>>, FALSE) \in Entries
            BY EntryTypes
        <3>4. ASSUME NEW e \in Entries PROVE Append(events, e) \in Seq(Entries)
            BY <3>2
        <3>5. events' \in Seq(Entries)
            BY <3>1, <3>2, <3>3, <3>4, Zenon
        <3> QED
            BY <2>6, <3>5
    <2>8. \A i \in DOMAIN events' : events'[i] \in Entries'
        BY <2>7
    <2>9. ControlInv'
        BY <2>1, <2>4 DEF TypeInv, ControlInv
    <2>10. HTypeOK'
        BY <2>1, <2>2, <2>4, <2>5, <2>8 DEF TypeInv, HTypeOK
    <2> QED
        BY <2>7, <2>9, <2>10 DEF TypeInv
<1>7. CASE Return
    <2>1. /\ UNCHANGED <<handler, peer, sent, taken, held, cells, got, stage, dataLeft>>
          /\ UNCHANGED <<owed, next, events, wrote, panicked>> /\ pc' = "ended"
          /\ conn' \in {"open", "closed"}
        BY <1>7 DEF Return, clientVars, readVars, TypeInv, HTypeOK
    <2>2. Entries' = Entries
        BY <2>1 DEF Entries
    <2> QED
        BY <2>1, <2>2 DEF TypeInv, HTypeOK, ControlInv
<1>8. CASE UNCHANGED hVars
    <2>1. /\ UNCHANGED <<handler, peer, sent, taken, held, cells, got, stage, dataLeft, pc>>
          /\ UNCHANGED <<owed, next, events, wrote, reports, conn, panicked>>
        BY <1>8 DEF hVars
    <2>2. Entries' = Entries
        BY <2>1 DEF Entries
    <2> QED
        BY <2>1, <2>2 DEF TypeInv, HTypeOK, ControlInv
<1> QED
    BY <1>1, <1>2, <1>3, <1>4, <1>5, <1>6, <1>7, <1>8 DEF HNext, SessionStep, SessionOver

-----------------------------------------------------------------------------
(* The read buffer. *)

LEMMA Extended ==
    ASSUME NEW X, NEW s \in Seq(X), NEW x \in X
    PROVE  /\ Append(s, x) \in Seq(X)
           /\ Len(s) \in Nat /\ Len(Append(s, x)) = Len(s) + 1
           /\ DOMAIN s = 1..Len(s) /\ DOMAIN Append(s, x) = 1..(Len(s) + 1)
           /\ \A i \in DOMAIN s : Append(s, x)[i] = s[i]
           /\ Append(s, x)[Len(s) + 1] = x
           /\ \A i \in DOMAIN Append(s, x) : i \in DOMAIN s \/ i = Len(s) + 1
BY AppendProperties, LenProperties

\* Appending a sound entry leaves the record sound.
LEMMA SoundAppend ==
    ASSUME NEW es \in Seq(Entries), \A i \in DOMAIN es : Sound(es[i]),
           NEW e \in Entries, Sound(e)
    PROVE  \A i \in DOMAIN Append(es, e) : Sound(Append(es, e)[i])
<1> SUFFICES ASSUME NEW i \in DOMAIN Append(es, e) PROVE Sound(Append(es, e)[i])
    OBVIOUS
<1>1. CASE i \in DOMAIN es
    <2>1. Append(es, e)[i] = es[i]
        BY <1>1, Extended
    <2> QED
        BY <1>1, <2>1
<1>2. CASE i = Len(es) + 1
    <2>1. Append(es, e)[i] = e
        BY <1>2, Extended
    <2> QED
        BY <2>1
<1> QED
    BY <1>1, <1>2, Extended

LEMMA InitBuffer == HInit => BufferInv
BY Bounds DEF HInit, BufferInv, FrontInv

\* A read overwrites the front of the buffer.
LEMMA ReadBufferInv ==
    ASSUME TypeInv, BufferInv, Read
    PROVE  BufferInv'
<1>1. handler' = handler /\ pc' = "message" /\ events \in Seq(Entries)
    BY DEF Read, TypeInv
<1>2. CASE ReadBuffer
    <2>1. PICK n \in 1..Least(BufUnits, sent - taken) :
            /\ got' = Units(taken, taken + n)
            /\ cells' = [i \in 1..BufUnits |-> IF i <= n THEN taken + i ELSE cells[i]]
        BY <1>2 DEF ReadBuffer
    <2>2. /\ n \in Nat /\ n <= BufUnits /\ taken \in Nat /\ taken + n \in Nat
          /\ cells \in [1..BufUnits -> 0..taken] /\ BufUnits \in Nat
        BY SomeUnits, Bounds DEF TypeInv, HTypeOK
    <2>3. Len(got') = n /\ \A k \in 1..n : got'[k] = taken + k
        <3>1. /\ Len(Units(taken, taken + n)) = n
              /\ \A k \in 1..n : Units(taken, taken + n)[k] = taken + k
            BY <2>2, UnitsType
        <3> QED
            BY <2>1, <3>1
    <2>4. \A k \in 1..n : got'[k] = cells'[k]
        BY <2>1, <2>2, <2>3
    <2>6. events' = events
        BY <1>2 DEF ReadBuffer
    <2>7. (\A i \in DOMAIN events : Sound(events[i]))'
        BY <1>1, <2>6 DEF BufferInv, Sound
    <2>8. FrontInv'
        BY <2>2, <2>3, <2>4 DEF FrontInv
    <2> QED
        BY <2>7, <2>8 DEF BufferInv
<1>3. CASE ~ReadBuffer
    <2>1. handler \notin Buffered
        BY <1>3 DEF Read, ReadMessage, ReadLineAndDrop, ReadLine, Buffered, MessageReaders
    <2>2. \/ events' = events
          \/ events' = Append(events, entry("read", got', FALSE))
        BY ReadEffect
    <2>3. \A i \in DOMAIN events : ~events[i].aliases
        BY <2>1 DEF BufferInv, Sound
    <2>4. ~entry("read", got', FALSE).aliases
        BY DEF entry
    <2>5. \A i \in DOMAIN events' : ~events'[i].aliases
        <3> DEFINE e == entry("read", got', FALSE)
                   X == Entries \cup {e}
        <3>0. Entries \subseteq X /\ e \in X
            OBVIOUS
        <3> HIDE DEF e, X
        <3>1. events \in Seq(X)
            BY <1>1, <3>0
        <3>2. \A i \in DOMAIN Append(events, e) :
                  \/ i \in DOMAIN events /\ Append(events, e)[i] = events[i]
                  \/ Append(events, e)[i] = e
            BY <3>0, <3>1, Extended
        <3> QED
            BY <2>2, <2>3, <2>4, <3>2 DEF e
    <2> QED
        BY <1>1, <2>1, <2>5 DEF BufferInv, FrontInv, Sound
<1> QED
    BY <1>2, <1>3

\* What is noted of a message or a reply is sound.
LEMMA NotedSound ==
    ASSUME TypeInv, BufferInv
    PROVE  /\ pc = "message" => Sound(readEntry) /\ Sound(replyEntry)
           /\ handler = "iscsi" => Sound(entry("write", cells, TRUE))
           /\ Sound(entry("write", <<>>, FALSE))
<1>1. handler = "bittorrent" => handler \in Buffered
    BY DEF Buffered
<1>2. ASSUME NEW u, NEW a \in BOOLEAN
      PROVE  entry("read", u, a).units = u /\ entry("read", u, a).aliases = a
             /\ entry("write", u, a).units = u /\ entry("write", u, a).aliases = a
    BY DEF entry
<1>3. Sound(entry("write", <<>>, FALSE))
    BY <1>2 DEF Sound
<1>4. ASSUME pc = "message" PROVE Sound(readEntry)
    <2>1. readEntry.units = got /\ readEntry.aliases = (handler \in Buffered)
        BY DEF readEntry, entry
    <2>2. CASE handler \in Buffered
        BY <1>4, <2>1, <2>2 DEF Sound, BufferInv, FrontInv
    <2>3. CASE handler \notin Buffered
        BY <2>1, <2>3 DEF Sound
    <2> QED
        BY <2>2, <2>3
<1>5. ASSUME pc = "message" PROVE Sound(replyEntry)
    <2>1. /\ replyEntry.units = IF handler = "bittorrent" THEN got ELSE <<>>
          /\ replyEntry.aliases = (handler = "bittorrent")
        BY DEF replyEntry, entry
    <2>2. CASE handler = "bittorrent"
        BY <1>1, <1>5, <2>1, <2>2 DEF Sound, BufferInv, FrontInv
    <2>3. CASE handler # "bittorrent"
        BY <2>1, <2>3 DEF Sound
    <2> QED
        BY <2>2, <2>3
<1>6. ASSUME handler = "iscsi" PROVE Sound(entry("write", cells, TRUE))
    <2>1. cells \in [1..BufUnits -> 0..taken] /\ BufUnits \in Nat /\ taken \in Nat
        BY Bounds, SomeUnits DEF TypeInv, HTypeOK
    <2>2. cells \in Seq(0..taken) /\ DOMAIN cells = 1..BufUnits
        BY <2>1, SeqDef
    <2>3. Len(cells) = BufUnits
        BY <2>1, <2>2, LenProperties
    <2>5. handler \in Buffered
        BY <1>6 DEF Buffered
    <2> DEFINE e == entry("write", cells, TRUE)
    <2>6. e.units = cells /\ e.aliases
        BY DEF entry
    <2> HIDE DEF e
    <2>7. Len(e.units) <= BufUnits
        BY <2>1, <2>3, <2>6
    <2>8. Sound(e)
        BY <2>5, <2>6, <2>7 DEF Sound
    <2> QED
        BY <2>8 DEF e
<1> QED
    BY <1>3, <1>4, <1>5, <1>6

LEMMA BufferStep ==
    ASSUME TypeInv, BufferInv, [HNext]_hVars
    PROVE  BufferInv'
<1>0. events \in Seq(Entries) /\ \A i \in DOMAIN events : Sound(events[i])
    BY DEF TypeInv, BufferInv
<1>1. CASE Read
    BY <1>1, ReadBufferInv
<1>2. CASE Message
    <2>1. UNCHANGED <<handler, cells, got>> /\ pc = "message"
        BY <1>2 DEF Message, readVars
    <2>3. \A i \in DOMAIN events' : Sound(events'[i])
        <3>1. /\ readEntry \in Entries /\ replyEntry \in Entries
              /\ Sound(readEntry) /\ Sound(replyEntry)
            BY <2>1, EntryTypes, NotedSound
        <3>2. CASE UNCHANGED events
            BY <1>0, <3>2
        <3>3. CASE \E r \in 0..1 : note(r)
            <4> DEFINE s == Append(events, readEntry)
            <4>1. s \in Seq(Entries) /\ \A i \in DOMAIN s : Sound(s[i])
                BY <1>0, <3>1, SoundAppend
            <4>2. events' = s \/ events' = Append(s, replyEntry)
                BY <1>0, <3>1, <3>3, NoteAppends
            <4> HIDE DEF s
            <4>3. \A i \in DOMAIN Append(s, replyEntry) : Sound(Append(s, replyEntry)[i])
                BY <3>1, <4>1, SoundAppend
            <4> QED
                BY <4>1, <4>2, <4>3
        <3> QED
            BY <1>2, <3>2, <3>3, MessageNotes
    <2> QED
        BY <2>1, <2>3 DEF BufferInv, FrontInv, Sound
<1>3. CASE WriteOK \/ WriteFails
    <2>1. UNCHANGED <<handler, cells, got>>
        BY <1>3 DEF WriteOK, WriteFails, readVars
    <2>3. \A i \in DOMAIN events' : Sound(events'[i])
        <3>1. \/ events' = events
              \/ handler = "iscsi" /\ events' = Append(events, entry("write", cells, TRUE))
              \/ events' = Append(events, entry("write", <<>>, FALSE))
            BY <1>3 DEF WriteOK, WriteFails
        <3>2. CASE events' = events
            BY <1>0, <3>2
        <3>3. CASE handler = "iscsi" /\ events' = Append(events, entry("write", cells, TRUE))
            <4> DEFINE e == entry("write", cells, TRUE)
            <4>1. e \in Entries /\ Sound(e) /\ events' = Append(events, e)
                BY <3>3, EntryTypes, NotedSound
            <4> HIDE DEF e
            <4> QED
                BY <1>0, <4>1, SoundAppend
        <3>4. CASE events' = Append(events, entry("write", <<>>, FALSE))
            <4> DEFINE e == entry("write", <<>>, FALSE)
            <4>1. e \in Entries /\ Sound(e) /\ events' = Append(events, e)
                BY <3>4, EntryTypes, NotedSound
            <4> HIDE DEF e
            <4> QED
                BY <1>0, <4>1, SoundAppend
        <3> QED
            BY <3>1, <3>2, <3>3, <3>4
    <2> QED
        BY <2>1, <2>3 DEF BufferInv, FrontInv, Sound
<1>4. CASE \/ Greet \/ ReadFails \/ ClientSend \/ ClientLeaves \/ Return
           \/ UNCHANGED hVars
    <2>1. UNCHANGED <<handler, cells, events, got>>
        BY <1>4 DEF Greet, ReadFails, ClientSend, ClientLeaves, Return, hVars, readVars
    <2> QED
        BY <2>1 DEF BufferInv, FrontInv, Sound
<1> QED
    BY <1>1, <1>2, <1>3, <1>4 DEF HNext, SessionStep, SessionOver

-----------------------------------------------------------------------------
(* Reports. *)

\* What ReportsLastRead says of one decoded entry.
Exact(d) ==
    (handler \notin Buffered \/ d.units = got) => d.payload = d.units

\* And of the entries of one report.
AllExact(r) == \A j \in DOMAIN r.decoded : Exact(r.decoded[j])

LEMMA CellsSeq ==
    ASSUME TypeInv
    PROVE  /\ cells \in Seq(Nat) /\ Len(cells) = BufUnits /\ got \in Seq(Nat)
           /\ taken \in Nat /\ BufUnits \in Nat
           /\ \A k \in 1..BufUnits : cells[k] \in 0..taken
<1>1. /\ cells \in [1..BufUnits -> 0..taken] /\ BufUnits \in Nat /\ taken \in Nat
      /\ got \in Seq(1..taken)
    BY Bounds, SomeUnits DEF TypeInv, HTypeOK
<1>2. cells \in [1..BufUnits -> Nat] /\ 1..taken \subseteq Nat
    BY <1>1
<1>3. cells \in Seq(Nat) /\ DOMAIN cells = 1..BufUnits
    BY <1>1, <1>2, SeqDef
<1>4. got \in Seq(Nat)
    BY <1>1, <1>2
<1>5. Len(cells) = BufUnits
    BY <1>1, <1>3, LenProperties
<1> QED
    BY <1>1, <1>3, <1>4, <1>5

\* The first n cells of the buffer.
LEMMA FrontOfCells ==
    ASSUME TypeInv, NEW n \in Nat, n <= BufUnits
    PROVE  /\ SubSeq(cells, 1, n) \in Seq(Nat)
           /\ Len(SubSeq(cells, 1, n)) = n
           /\ \A k \in 1..n : SubSeq(cells, 1, n)[k] = cells[k]
<1>1. BufUnits \in Nat /\ taken \in Nat /\ \A k \in 1..BufUnits : cells[k] \in 0..taken
    BY CellsSeq
<1>2. 1 \in Int /\ n \in Int /\ \A j \in 1..n : cells[j] \in Nat
    BY <1>1
<1>3. /\ SubSeq(cells, 1, n) \in Seq(Nat)
      /\ Len(SubSeq(cells, 1, n)) = IF 1 <= n THEN n - 1 + 1 ELSE 0
      /\ \A j \in 1..(n - 1 + 1) : SubSeq(cells, 1, n)[j] = cells[1 + j - 1]
    BY <1>2, SubSeqProperties
<1> QED
    BY <1>3

\* They are what was read last, as many as that has units.
LEMMA FrontIsLastRead ==
    ASSUME TypeInv, FrontInv, handler \in Buffered
    PROVE  SubSeq(cells, 1, Len(got)) = got
<1> DEFINE n == Len(got)
           p == SubSeq(cells, 1, n)
<1>1. got \in Seq(Nat) /\ n \in Nat /\ n <= BufUnits
    BY CellsSeq, LenProperties DEF FrontInv
<1>2. p \in Seq(Nat) /\ Len(p) = n /\ \A k \in 1..n : p[k] = cells[k]
    BY <1>1, FrontOfCells
<1>3. \A k \in 1..n : p[k] = got[k]
    BY <1>2 DEF FrontInv
<1> HIDE DEF p
<1>4. p = got
    BY <1>1, <1>2, <1>3, SeqEqual
<1> QED
    BY <1>4 DEF p

\* Encoding a sound entry.
LEMMA EncodedSound ==
    ASSUME TypeInv, FrontInv, NEW e \in Entries, Sound(e)
    PROVE  encoded(e) \in Encodings /\ Exact(encoded(e))
<1>1. taken \in Nat /\ BufUnits \in Nat
    BY CellsSeq
<1>2. e.units \in Seq(0..taken) /\ e.dir \in {"read", "write"} /\ e.aliases \in BOOLEAN
    BY DEF Entries
<1>3. e.units \in Seq(Nat) /\ Len(e.units) \in Nat
    <2>1. \A m \in Nat : Seq(0..m) \subseteq Seq(Nat)
        OBVIOUS
    <2>2. e.units \in Seq(Nat)
        BY <1>1, <1>2, <2>1, Zenon
    <2> QED
        BY <2>2
<1> DEFINE p == SubSeq(cells, 1, Len(e.units))
<1>4. /\ encoded(e).dir = e.dir /\ encoded(e).units = e.units
      /\ encoded(e).payload = IF e.aliases THEN p ELSE e.units
      /\ encoded(e) = [dir |-> e.dir, units |-> e.units, payload |-> encoded(e).payload]
    BY DEF encoded
<1>5. encoded(e).payload \in Seq(Nat)
    <2>1. CASE ~e.aliases
        BY <1>3, <1>4, <2>1
    <2>2. CASE e.aliases
        <3>1. Len(e.units) <= BufUnits
            <4>1. CASE e.units = <<>>
                BY <1>1, <4>1
            <4>2. CASE e.units # <<>>
                BY <2>2, <4>2 DEF Sound
            <4> QED
                BY <4>1, <4>2
        <3>2. p \in Seq(Nat)
            BY <1>3, <3>1, FrontOfCells
        <3> QED
            BY <1>4, <2>2, <3>2
    <2> QED
        BY <1>2, <2>1, <2>2
<1>6. encoded(e) \in Encodings
    BY <1>2, <1>3, <1>4, <1>5 DEF Encodings
<1>7. Exact(encoded(e))
    <2>1. CASE ~e.aliases
        BY <1>4, <2>1 DEF Exact
    <2>2. CASE e.aliases /\ e.units = got
        <3>1. handler \in Buffered
            BY <2>2 DEF Sound
        <3>2. p = got
            BY <2>2, <3>1, FrontIsLastRead
        <3> QED
            BY <1>4, <2>2, <3>2 DEF Exact
    <2>3. CASE e.aliases /\ e.units # got
        <3>1. handler \in Buffered
            BY <2>3 DEF Sound
        <3> QED
            BY <1>4, <2>3, <3>1 DEF Exact
    <2> QED
        BY <1>2, <2>1, <2>2, <2>3
<1> QED
    BY <1>6, <1>7

\* A report of sound entries.
LEMMA ReportSound ==
    ASSUME TypeInv, FrontInv, NEW p \in Seq(Nat), NEW es \in Seq(Entries),
           \A i \in DOMAIN es : Sound(es[i])
    PROVE  /\ report(p, es) \in Reports /\ AllExact(report(p, es))
           /\ report(p, es).payload = p
<1> DEFINE ds == [i \in DOMAIN es |-> encoded(es[i])]
<1>1. report(p, es) = [payload |-> p, decoded |-> ds]
    BY DEF report
<1>2. \A i \in DOMAIN es : ds[i] \in Encodings /\ Exact(ds[i])
    BY EncodedSound
<1>3. Len(es) \in Nat /\ DOMAIN es = 1..Len(es)
    BY LenProperties
<1>4. ds \in [1..Len(es) -> Encodings]
    BY <1>2, <1>3
<1> HIDE DEF ds
<1>5. ds \in Seq(Encodings)
    BY <1>3, <1>4, SeqDef
<1>6. DOMAIN ds = DOMAIN es
    BY <1>3, <1>4
<1> QED
    BY <1>1, <1>2, <1>5, <1>6 DEF Reports, AllExact

\* What is handed to ProduceTCP as payload is a sequence of units.
LEMMA PayloadSeq ==
    ASSUME TypeInv, BufferInv
    PROVE  FirstOrEmpty(events) \in Seq(Nat)
<1>1. CASE events = <<>>
    BY <1>1 DEF FirstOrEmpty
<1>2. CASE events # <<>>
    <2>1. 1 \in DOMAIN events /\ events \in Seq(Entries)
        BY <1>2, EmptySeq DEF TypeInv
    <2>2. events[1] \in Entries /\ Sound(events[1])
        BY <2>1 DEF BufferInv
    <2>3. encoded(events[1]) \in Encodings
        BY <2>2, EncodedSound DEF BufferInv
    <2> QED
        BY <1>2, <2>3 DEF FirstOrEmpty, Encodings
<1> QED
    BY <1>1, <1>2

\* Reports are only added, with sound entries.
LEMMA ReportsGrow ==
    ASSUME TypeInv, BufferInv, BufferInv', TypeInv', [HNext]_hVars
    PROVE  \/ reports' = reports
           \/ \E p \in Seq(Nat), es \in Seq(Entries) :
                 /\ \A i \in DOMAIN es : Sound(es[i])
                 /\ handler \in WholeBuffer => p = cells
                 /\ reports' = Append(reports, report(p, es))
<1>0. /\ events \in Seq(Entries) /\ \A i \in DOMAIN events : Sound(events[i])
      /\ <<>> \in Seq(Entries) /\ \A i \in DOMAIN <<>> : Sound(<<>>[i])
      /\ cells \in Seq(Nat) /\ got \in Seq(Nat)
    BY CellsSeq DEF TypeInv, BufferInv
<1>1. CASE Message
    <2>2. \/ reports' = reports
          \/ handler \notin WholeBuffer /\ reports' = Append(reports, report(got, <<>>))
          \/ reports' = Append(reports, report(cells, <<>>))
          \/ reports' = Append(reports, report(cells, events))
        BY <1>1 DEF Message, HandleADB, HandleJabber, HandleMQTT, HandleMemcache,
                    HandleISCSI, HandleSMTP, SMTPCommand, SMTPDataLine, WholeBuffer
    <2> QED
        BY <1>0, <2>2
<1>2. CASE WriteOK \/ WriteFails
    <2>1. UNCHANGED <<handler, taken, cells>>
        BY <1>2 DEF WriteOK, WriteFails, readVars
    <2>2. \/ reports' = reports
          \/ reports' = Append(reports, report(cells, events))
          \/ reports' = Append(reports, report(cells, events'))
        BY <1>2 DEF WriteOK, WriteFails, exchangeReport
    <2>3. Entries' = Entries
        BY <2>1 DEF Entries
    <2>4. events' \in Seq(Entries) /\ \A i \in DOMAIN events' : Sound(events'[i])
        BY <2>1, <2>3 DEF TypeInv, BufferInv, Sound
    <2> QED
        BY <1>0, <2>1, <2>2, <2>4
<1>3. CASE Return
    <2>1. \/ reports' = reports
          \/ /\ handler \notin WholeBuffer
             /\ reports' = Append(reports, report(FirstOrEmpty(events), events))
        BY <1>3 DEF Return, Deferring, WholeBuffer
    <2> QED
        BY <1>0, <2>1, PayloadSeq
<1>4. CASE ~(Message \/ WriteOK \/ WriteFails \/ Return)
    BY <1>4 DEF HNext, SessionStep, SessionOver, ClientSend, ClientLeaves, Greet, Read,
                ReadFails, hVars
<1> QED
    BY <1>1, <1>2, <1>3, <1>4

LEMMA ReportStep ==
    ASSUME TypeInv, BufferInv, ReportInv, BufferInv', TypeInv', [HNext]_hVars
    PROVE  ReportInv'
<1>1. CASE reports' = reports
    BY <1>1 DEF ReportInv
<1>2. ASSUME NEW p \in Seq(Nat), NEW es \in Seq(Entries),
             \A i \in DOMAIN es : Sound(es[i]),
             reports' = Append(reports, report(p, es))
      PROVE  ReportInv'
    <2>1. report(p, es) \in Reports
        BY <1>2, ReportSound DEF BufferInv
    <2> QED
        BY <1>2, <2>1 DEF ReportInv
<1> QED
    BY <1>1, <1>2, ReportsGrow

LEMMA InitReports == HInit => ReportInv
BY DEF HInit, ReportInv

-----------------------------------------------------------------------------
(* One report per session. *)

LEMMA InitOnce == HInit => OnceInv
BY Bounds DEF HInit, OnceInv, ReportedOnce

\* What a message does to the handlers that produce when they return, and to
\* the two that read once.
LEMMA MessageReports ==
    ASSUME Message
    PROVE  /\ handler \in Deferring => reports' = reports
           /\ handler \in {"adb", "jabber"} =>
                  /\ pc' = "end"
                  /\ \/ reports' = reports
                     \/ /\ panicked' = panicked
                        /\ reports' = Append(reports,
                               report(IF handler = "adb" THEN got ELSE cells, <<>>))
<1>1. CASE handler = "adb"
    BY <1>1 DEF Message, HandleADB, giveUp, answer, Deferring
<1>2. CASE handler = "jabber"
    BY <1>2 DEF Message, HandleJabber, giveUp, answer, Deferring
<1>3. CASE handler \in Deferring
    BY <1>3 DEF Message, Deferring
<1> QED
    BY <1>1, <1>2, <1>3

LEMMA OnceStep ==
    ASSUME TypeInv, OnceInv, ReportInv, [HNext]_hVars
    PROVE  OnceInv'
<1>0. handler' = handler /\ handler \in Names
    BY HandlerStays DEF TypeInv, HTypeOK
<1>a. taken \in Nat /\ BufUnits \in Nat /\ reports \in Seq(Reports)
    BY CellsSeq DEF ReportInv
<1>b. Deferring \cap {"adb", "jabber"} = {}
    BY DEF Deferring
<1>1. CASE ClientSend \/ ClientLeaves \/ UNCHANGED hVars
    <2>1. UNCHANGED <<handler, pc, taken, reports, events, cells, got, panicked>>
        BY <1>1 DEF ClientSend, ClientLeaves, hVars, readVars
    <2> QED
        BY <2>1 DEF OnceInv, ReportedOnce
<1>2. CASE Greet \/ ReadFails
    <2>1. /\ UNCHANGED <<handler, taken, reports, events, cells, got, panicked>>
          /\ pc \in {"greet", "read"} /\ pc' \in {"read", "write", "end"}
        BY <1>2 DEF Greet, ReadFails, readVars, answer
    <2> QED
        BY <2>1 DEF OnceInv, ReportedOnce
<1>3. CASE Read
    <2>1. /\ UNCHANGED <<handler, reports, panicked>> /\ pc = "read" /\ pc' = "message"
        BY <1>3 DEF Read
    <2>2. ReportedOnce'
        BY <1>b, <2>1 DEF OnceInv, ReportedOnce
    <2>3. handler \in {"adb", "jabber"} =>
              IF handler = "adb" THEN got' = <<1>> ELSE cells'[1] = 1
        <3>1. CASE handler = "adb"
            <4>1. taken = 0 /\ ReadMessage
                BY <1>3, <2>1, <3>1 DEF OnceInv, Read, ReadBuffer, ReadLineAndDrop, ReadLine,
                                        Buffered
            <4> QED
                BY <3>1, <4>1 DEF ReadMessage
        <3>2. CASE handler = "jabber"
            <4>1. taken = 0 /\ ReadBuffer
                BY <1>3, <2>1, <3>2 DEF OnceInv, Read, ReadMessage, ReadLineAndDrop, ReadLine,
                                        MessageReaders
            <4>2. PICK n \in 1..Least(BufUnits, sent - taken) :
                    cells' = [i \in 1..BufUnits |-> IF i <= n THEN taken + i ELSE cells[i]]
                BY <4>1 DEF ReadBuffer
            <4>3. n \in Nat /\ 1 <= n /\ 1 \in 1..BufUnits
                BY SomeUnits, Bounds
            <4> QED
                BY <3>2, <4>1, <4>2, <4>3
        <3> QED
            BY <3>1, <3>2
    <2> QED
        BY <2>1, <2>2, <2>3 DEF OnceInv
<1>4. CASE Message
    <2>1. pc = "message" /\ pc' # "ended" /\ UNCHANGED <<handler, cells, got>>
        BY <1>4, MessageAnswers, AnswerType DEF Message, readVars
    <2>2. CASE handler \in Deferring
        BY <1>4, <1>b, <2>1, <2>2, MessageReports DEF OnceInv, ReportedOnce
    <2>3. CASE handler \in {"adb", "jabber"}
        <3>1. pc' = "end" /\ reports = <<>> /\ ~panicked
            BY <1>4, <2>1, <2>3, MessageReports DEF OnceInv
        <3> DEFINE p == IF handler = "adb" THEN got ELSE cells
        <3>2. p[1] = 1
            BY <2>1, <2>3 DEF OnceInv
        <3>3. \/ reports' = <<>>
              \/ panicked' = panicked /\ reports' = <<report(p, <<>>)>>
            BY <1>4, <2>3, <3>1, MessageReports
        <3> HIDE DEF p
        <3>4. report(p, <<>>).payload = p
            BY DEF report
        <3>5. reports' # <<>> => /\ Len(reports') = 1 /\ reports'[1].payload[1] = 1
                                 /\ ~panicked'
            BY <3>1, <3>2, <3>3, <3>4
        <3> QED
            BY <1>b, <2>1, <2>3, <3>1, <3>5 DEF OnceInv, ReportedOnce
    <2>4. CASE handler \notin Deferring \cup {"adb", "jabber"}
        BY <2>1, <2>4 DEF OnceInv, ReportedOnce
    <2> QED
        BY <2>2, <2>3, <2>4
<1>5. CASE WriteOK \/ WriteFails
    <2>1. /\ pc = "write" /\ pc' \in {"read", "write", "end"}
          /\ UNCHANGED <<handler, taken, panicked>>
        BY <1>5 DEF WriteOK, WriteFails, readVars, TypeInv, HTypeOK
    <2>2. handler \in Deferring \cup {"adb", "jabber"} => reports' = reports
        BY <1>5 DEF WriteOK, WriteFails, exchangeReport, Deferring
    <2> QED
        BY <1>b, <2>1, <2>2 DEF OnceInv, ReportedOnce
<1>6. CASE Return
    <2>1. /\ pc = "end" /\ pc' = "ended" /\ UNCHANGED <<handler, events, panicked>>
          /\ handler \notin Deferring => reports' = reports
          /\ handler \in Deferring =>
                 reports' = Append(reports, report(FirstOrEmpty(events), events))
        BY <1>6 DEF Return
    <2>2. CASE handler \in Deferring
        <3>1. reports = <<>>
            BY <2>1, <2>2 DEF OnceInv, ReportedOnce
        <3> DEFINE r == report(FirstOrEmpty(events), events)
        <3>2. reports' = <<r>>
            BY <2>1, <2>2, <3>1
        <3>3. Len(r.decoded) = Len(events)
            <4>1. r.decoded = [i \in DOMAIN events |-> encoded(events[i])]
                BY DEF report
            <4>2. events \in Seq(Entries) /\ Len(events) \in Nat /\ DOMAIN events = 1..Len(events)
                BY LenProperties DEF TypeInv
            <4> HIDE DEF r
            <4>3. r.decoded \in [1..Len(events) -> {encoded(events[i]) : i \in DOMAIN events}]
                BY <4>1, <4>2
            <4> QED
                BY <4>2, <4>3, SeqDef, LenProperties
        <3> HIDE DEF r
        <3>4. Len(reports') = 1 /\ reports'[1] = r
            BY <3>2
        <3> QED
            BY <1>b, <2>1, <2>2, <3>3, <3>4 DEF OnceInv, ReportedOnce
    <2>3. CASE handler \notin Deferring
        BY <2>1, <2>3 DEF OnceInv, ReportedOnce
    <2> QED
        BY <2>2, <2>3
<1> QED
    BY <1>1, <1>2, <1>3, <1>4, <1>5, <1>6 DEF HNext, SessionStep, SessionOver

-----------------------------------------------------------------------------
(* The record has the replies that were written. *)

\* Their number when an entry is added.
LEMMA WithAppend ==
    ASSUME NEW X, NEW es \in Seq(X), NEW e \in X, NEW d
    PROVE  /\ IsFiniteSet(With(es, d)) /\ Cardinality(With(es, d)) \in Nat
           /\ With(Append(es, e), d) =
                  IF e.dir = d THEN With(es, d) \cup {Len(es) + 1} ELSE With(es, d)
           /\ Cardinality(With(Append(es, e), d)) =
                  Cardinality(With(es, d)) + (IF e.dir = d THEN 1 ELSE 0)
<1> DEFINE S == With(es, d)
           n == Len(es)
           T == With(Append(es, e), d)
<1>1. n \in Nat /\ DOMAIN es = 1..n /\ DOMAIN Append(es, e) = 1..(n + 1)
    BY Extended
<1>2. (\A i \in DOMAIN es : Append(es, e)[i] = es[i]) /\ Append(es, e)[n + 1] = e
    BY Extended
<1>3. \A i : i \in 1..(n + 1) <=> i \in 1..n \/ i = n + 1
    BY <1>1
<1>4. n + 1 \notin 1..n
    BY <1>1
<1>5. T = IF e.dir = d THEN S \cup {n + 1} ELSE S
    BY <1>1, <1>2, <1>3, <1>4 DEF With
<1>6. S \in SUBSET (1..n)
    BY <1>1 DEF With
<1>7. IsFiniteSet(1..n)
    BY <1>1, FS_Interval
<1>8. IsFiniteSet(S) /\ n + 1 \notin S
    BY <1>4, <1>6, <1>7, FS_Subset
<1>9. Cardinality(S) \in Nat
    BY <1>8, FS_CardinalityType
<1> HIDE DEF S, T, n
<1>10. Cardinality(S \cup {n + 1}) = Cardinality(S) + 1
    BY <1>8, FS_AddElement
<1>11. Cardinality(T) = Cardinality(S) + (IF e.dir = d THEN 1 ELSE 0)
    BY <1>5, <1>9, <1>10
<1> QED
    BY <1>5, <1>8, <1>9, <1>11 DEF S, T, n

\* The directions of the entries that are made.
LEMMA Directions ==
    /\ readEntry.dir = "read" /\ replyEntry.dir = "write"
    /\ \A u, a : entry("write", u, a).dir = "write" /\ entry("read", u, a).dir = "read"
BY DEF readEntry, replyEntry, entry

\* A handler that notes first notes as many replies as it will write.
LEMMA MessageReplies ==
    ASSUME Message, handler \in NotesFirst
    PROVE  \E n \in 0..1, w \in {"read", "end"} :
               answer(n, w) /\ (note(n) \/ (n = 0 /\ UNCHANGED events))
<1>1. 0 \in 0..1 /\ 1 \in 0..1
    OBVIOUS
<1> QED
    BY <1>1 DEF Message, HandleSIP, HandleRDP, HandleBittorrent, giveUp, NotesFirst

LEMMA InitReply == HInit => ReplyInv
<1> SUFFICES ASSUME HInit PROVE ReplyInv
    OBVIOUS
<1>1. Replied = {}
    BY DEF HInit, Replied
<1>2. Cardinality(Replied) = 0
    BY <1>1, FS_EmptySet
<1> QED
    BY <1>2 DEF HInit, ReplyInv

\* Reads and messages that are not answered first add no reply.
LEMMA SaidOnly ==
    ASSUME NEW X, NEW es \in Seq(X), NEW e \in X, e.dir = "read"
    PROVE  With(Append(es, e), "write") = With(es, "write")
BY WithAppend

LEMMA ReplyStep ==
    ASSUME TypeInv, ReplyInv, [HNext]_hVars
    PROVE  ReplyInv'
<1> DEFINE n == Cardinality(Replied)
           m == Cardinality(Replied')
<1>0. handler' = handler /\ NotesFirst \cap NotesAfter = {}
    BY HandlerStays DEF NotesFirst, NotesAfter
<1>a. /\ events \in Seq(Entries) /\ wrote \in Nat /\ owed \in Nat
      /\ pc \in {"greet", "read", "message", "write", "end", "ended"}
      /\ next \in {"read", "end"}
    BY Bounds DEF TypeInv, HTypeOK
<1>b. Replied = With(events, "write") /\ Replied' = With(events', "write")
    BY DEF Replied, With
<1>c. /\ readEntry \in Entries /\ replyEntry \in Entries
      /\ entry("write", cells, TRUE) \in Entries /\ entry("write", <<>>, FALSE) \in Entries
    BY EntryTypes
<1>d. n \in Nat
    BY <1>a, <1>b, <1>c, WithAppend
<1>e. ReplyInv <=>
        /\ handler \in NotesFirst =>
              /\ pc \in {"greet", "read", "message"} => n - wrote = 0
              /\ pc = "write" => n - wrote = 1 /\ owed = 1
              /\ pc \in {"end", "ended"} => n - wrote \in 0..1
        /\ handler \in NotesAfter => n = wrote
    BY DEF ReplyInv
<1>f. ReplyInv' <=>
        /\ handler \in NotesFirst =>
              /\ pc' \in {"greet", "read", "message"} => m - wrote' = 0
              /\ pc' = "write" => m - wrote' = 1 /\ owed' = 1
              /\ pc' \in {"end", "ended"} => m - wrote' \in 0..1
        /\ handler \in NotesAfter => m = wrote'
    BY <1>0 DEF ReplyInv
<1>g. (Replied' = Replied => m = n) /\ (events' = events => Replied' = Replied)
    BY <1>b
<1> HIDE DEF n, m
<1>1. CASE ClientSend \/ ClientLeaves \/ UNCHANGED hVars
    <2>1. UNCHANGED <<pc, owed, wrote, events>>
        BY <1>1 DEF ClientSend, ClientLeaves, hVars
    <2> QED
        BY <1>e, <1>f, <1>g, <2>1
<1>2. CASE Greet
    <2>1. UNCHANGED <<wrote, events>> /\ pc = "greet"
        BY <1>2 DEF Greet
    <2>2. handler \in NotesFirst => pc' = "read"
        BY <1>2 DEF Greet, NotesFirst, answer
    <2> QED
        BY <1>d, <1>e, <1>f, <1>g, <2>1, <2>2
<1>3. CASE ReadFails
    <2>1. UNCHANGED <<wrote, events>> /\ pc = "read"
        BY <1>3 DEF ReadFails
    <2>2. handler \in NotesFirst => pc' = "end"
        <3>1. handler \in NotesFirst => stage # "data"
            BY DEF TypeInv, ControlInv, NotesFirst
        <3> QED
            BY <1>3, <3>1 DEF ReadFails, answer
    <2> QED
        BY <1>d, <1>e, <1>f, <1>g, <2>1, <2>2
<1>4. CASE Read
    <2>1. UNCHANGED wrote /\ pc = "read" /\ pc' = "message"
        BY <1>4 DEF Read
    <2>2. Replied' = Replied
        <3> DEFINE e == entry("read", got', FALSE)
                   X == Entries'
        <3>1. events' = events \/ events' = Append(events, e)
            BY <1>4, ReadEffect
        <3>2. e.dir = "read"
            BY Directions
        <3>3. taken' \in Nat /\ taken \in Nat /\ taken <= taken' /\ got' \in Seq(1..taken')
            BY <1>4, ReadEffect, SomeUnits
        <3>4. events \in Seq(X)
            BY <1>a, <3>3, EntriesGrow
        <3>5. e \in X
            <4>1. 1..taken' \subseteq 0..taken'
                BY <3>3
            <4>2. got' \in Seq(0..taken')
                BY <3>3, <4>1
            <4> QED
                BY <4>2 DEF entry, Entries
        <3> HIDE DEF e, X
        <3>6. With(Append(events, e), "write") = With(events, "write")
            BY <3>2, <3>4, <3>5, SaidOnly
        <3> QED
            BY <1>b, <3>1, <3>6
    <2> QED
        BY <1>d, <1>e, <1>f, <1>g, <2>1, <2>2
<1>5. CASE Message
    <2>1. UNCHANGED wrote /\ pc = "message"
        BY <1>5 DEF Message
    <2>2. With(Append(events, readEntry), "write") = With(events, "write")
        BY <1>a, <1>c, Directions, SaidOnly
    <2>3. CASE handler \in NotesFirst
        <3>1. PICK r \in 0..1, w \in {"read", "end"} :
                answer(r, w) /\ (note(r) \/ (r = 0 /\ UNCHANGED events))
            BY <1>5, <2>3, MessageReplies
        <3>2. CASE r = 0
            <4>1. pc' \in {"read", "end"}
                BY <3>1, <3>2 DEF answer
            <4>2. events' = events \/ events' = Append(events, readEntry)
                BY <1>a, <1>c, <3>1, <3>2, NoteAppends
            <4>3. Replied' = Replied
                BY <1>b, <2>2, <4>2
            <4> QED
                BY <1>0, <1>d, <1>e, <1>f, <1>g, <2>1, <2>3, <4>1, <4>3
        <3>3. CASE r = 1
            <4>1. pc' = "write" /\ owed' = 1
                BY <3>1, <3>3 DEF answer
            <4> DEFINE s == Append(events, readEntry)
            <4>2. events' = Append(s, replyEntry)
                BY <1>a, <1>c, <2>3, <3>1, <3>3, NoteAppends
            <4>3. s \in Seq(Entries)
                BY <1>a, <1>c
            <4> HIDE DEF s
            <4>4. Cardinality(With(Append(s, replyEntry), "write")) =
                      Cardinality(With(s, "write")) + 1
                BY <1>c, <4>3, Directions, WithAppend
            <4>5. m = n + 1
                BY <1>b, <2>2, <4>2, <4>4 DEF s, n, m
            <4> QED
                BY <1>0, <1>a, <1>d, <1>e, <1>f, <2>1, <2>3, <4>1, <4>5
        <3> QED
            BY <3>2, <3>3
    <2>4. CASE handler \notin NotesFirst
        <3>1. events' = events \/ events' = Append(events, readEntry)
            BY <1>5, <1>a, <1>c, <2>4, MessageNotes, NoteAppends
        <3>2. Replied' = Replied
            BY <1>b, <2>2, <3>1
        <3> QED
            BY <1>e, <1>f, <1>g, <2>1, <2>4, <3>2
    <2> QED
        BY <2>3, <2>4
<1>6. CASE WriteOK
    <2>1. /\ wrote' = wrote + 1 /\ pc = "write"
          /\ pc' = IF owed = 1 THEN next ELSE "write"
        BY <1>6 DEF WriteOK
    <2>2. CASE handler \in NotesFirst
        <3>1. events' = events
            BY <1>0, <1>6, <2>2 DEF WriteOK
        <3>2. owed = 1 /\ n - wrote = 1
            BY <1>e, <2>1, <2>2
        <3> QED
            BY <1>0, <1>a, <1>d, <1>f, <1>g, <2>1, <2>2, <3>1, <3>2
    <2>3. CASE handler \in NotesAfter
        <3> DEFINE e == IF handler = "iscsi" THEN entry("write", cells, TRUE)
                        ELSE entry("write", <<>>, FALSE)
        <3>1. events' = Append(events, e) /\ e \in Entries /\ e.dir = "write"
            BY <1>6, <1>c, <2>3, Directions DEF WriteOK
        <3> HIDE DEF e
        <3>2. m = n + 1
            BY <1>a, <1>b, <3>1, WithAppend DEF n, m
        <3> QED
            BY <1>0, <1>e, <1>f, <2>1, <2>3, <3>2
    <2>4. CASE handler \notin NotesFirst \cup NotesAfter
        BY <1>f, <2>4
    <2> QED
        BY <2>2, <2>3, <2>4
<1>7. CASE WriteFails
    <2>1. UNCHANGED <<wrote, events>> /\ pc = "write"
        BY <1>7 DEF WriteFails
    <2>2. handler \in NotesFirst => pc' = "end"
        BY <1>7 DEF WriteFails, NotesFirst
    <2> QED
        BY <1>a, <1>d, <1>e, <1>f, <1>g, <2>1, <2>2
<1>8. CASE Return
    <2>1. UNCHANGED <<wrote, events>> /\ pc = "end" /\ pc' = "ended"
        BY <1>8 DEF Return
    <2> QED
        BY <1>e, <1>f, <1>g, <2>1
<1> QED
    BY <1>1, <1>2, <1>3, <1>4, <1>5, <1>6, <1>7, <1>8 DEF HNext, SessionStep, SessionOver

\* ReplyInv is more than the property.
LEMMA ReplyGoal == TypeInv /\ ReplyInv => RepliesRecorded
<1> SUFFICES ASSUME TypeInv, ReplyInv PROVE RepliesRecorded
    OBVIOUS
<1>1. events \in Seq(Entries) /\ readEntry \in Entries /\ wrote \in Nat
    BY EntryTypes DEF TypeInv, HTypeOK
<1>2. Replied = With(events, "write")
    BY DEF Replied, With
<1>3. Cardinality(Replied) \in Nat
    BY <1>1, <1>2, WithAppend
<1>4. pc \in {"greet", "read", "message", "write", "end", "ended"}
    BY DEF TypeInv, HTypeOK
<1>5. NotesFirst \cap NotesAfter = {}
    BY DEF NotesFirst, NotesAfter
<1> QED
    BY <1>1, <1>3, <1>4, <1>5 DEF ReplyInv, RepliesRecorded

-----------------------------------------------------------------------------
(* SMTP's lines. *)

LEMMA NextLine ==
    ASSUME NEW X, NEW rs \in Seq(X), NEW r \in X, NEW p \in Nat, r.payload[1] = p + 1,
           InOrder(rs, p)
    PROVE  /\ InOrder(Append(rs, r), p + 1)
           /\ \A n \in Nat : Block(rs, p, n) => Block(Append(rs, r), p + 1, n + 1)
<1> DEFINE s == Append(rs, r)
           l == Len(rs)
<1>1. /\ l \in Nat /\ Len(s) = l + 1 /\ DOMAIN rs = 1..l /\ DOMAIN s = 1..(l + 1)
      /\ \A i \in 1..l : s[i] = rs[i]
      /\ s[l + 1] = r
    BY Extended
<1> HIDE DEF s, l
<1>2. \A i \in 1..l : s[i].payload[1] \in 1..p
    BY <1>1 DEF InOrder
<1>3. \A i, j \in 1..l : i < j => s[i].payload[1] < s[j].payload[1]
    BY <1>1 DEF InOrder
<1>4. \A i \in 1..(l + 1) : i \in 1..l \/ i = l + 1
    BY <1>1
<1>5. \A i \in DOMAIN s : s[i].payload[1] \in 1..(p + 1)
    BY <1>1, <1>2, <1>4
<1>6. ASSUME NEW i \in DOMAIN s, NEW j \in DOMAIN s, i < j
      PROVE  s[i].payload[1] < s[j].payload[1]
    <2>1. i \in 1..l
        BY <1>1, <1>6
    <2>2. CASE j \in 1..l
        BY <1>3, <1>6, <2>1, <2>2
    <2>3. CASE j = l + 1
        BY <1>1, <1>2, <2>1, <2>3
    <2> QED
        BY <1>1, <1>4, <2>2, <2>3
<1>7. ASSUME NEW n \in Nat, Block(rs, p, n)
      PROVE  Block(s, p + 1, n + 1)
    <2>1. n <= l /\ \A k \in 1..n : rs[l - n + k].payload[1] = p - n + k
        BY <1>7 DEF Block, l
    <2>2. ASSUME NEW k \in 1..(n + 1)
          PROVE  s[(l + 1) - (n + 1) + k].payload[1] = (p + 1) - (n + 1) + k
        <3>1. (l + 1) - (n + 1) + k = l - n + k /\ (p + 1) - (n + 1) + k = p - n + k
            BY <1>1
        <3>2. CASE k \in 1..n
            <4>1. l - n + k \in 1..l
                BY <1>1, <2>1, <3>2
            <4>2. s[l - n + k] = rs[l - n + k]
                BY <1>1, <4>1
            <4> QED
                BY <2>1, <3>1, <3>2, <4>2
        <3>3. CASE k = n + 1
            <4>1. l - n + k = l + 1 /\ p - n + k = p + 1
                BY <1>1, <3>3
            <4> QED
                BY <1>1, <3>1, <4>1
        <3> QED
            BY <3>2, <3>3
    <2>3. n + 1 <= l + 1
        BY <1>1, <2>1
    <2> QED
        BY <1>1, <2>2, <2>3 DEF Block
<1> QED
    BY <1>5, <1>6, <1>7 DEF s, InOrder

\* A command takes a line and produces none.
LEMMA SkippedLine ==
    ASSUME NEW rs, NEW p \in Nat, InOrder(rs, p) PROVE InOrder(rs, p + 1)
<1>1. 1..p \subseteq 1..(p + 1)
    OBVIOUS
<1> QED
    BY <1>1 DEF InOrder

\* DataInv is more than the property.
LEMMA DataGoal ==
    ASSUME TypeInv, ReportInv, DataInv PROVE DataLinesInOrder
<1> SUFFICES ASSUME handler = "smtp"
             PROVE  /\ \A i, j \in DOMAIN Produced : i < j => Produced[i] < Produced[j]
                    /\ stage = "data" =>
                          \A k \in 1..(MaxDataRead + 1 - dataLeft) :
                              Produced[Len(reports) - (MaxDataRead + 1 - dataLeft) + k] =
                                  Position - (MaxDataRead + 1 - dataLeft) + k
    BY DEF DataLinesInOrder, Position
<1> DEFINE n == MaxDataRead + 1 - dataLeft
           l == Len(reports)
<1>1. n \in Nat
    BY Bounds DEF TypeInv, HTypeOK
<1>2. l \in Nat /\ DOMAIN reports = 1..l
    BY LenProperties DEF ReportInv
<1>3. DOMAIN Produced = 1..l /\ \A i \in 1..l : Produced[i] = reports[i].payload[1]
    BY <1>2 DEF Produced
<1>4. \A i, j \in DOMAIN Produced : i < j => Produced[i] < Produced[j]
    BY <1>2, <1>3 DEF DataInv, InOrder
<1>5. stage = "data" =>
          n <= l /\ \A k \in 1..n : reports[l - n + k].payload[1] = Position - n + k
    BY DEF DataInv, Block
<1> HIDE DEF n, l
<1>6. n <= l => \A k \in 1..n : l - n + k \in 1..l
    BY <1>1, <1>2
<1>7. stage = "data" => \A k \in 1..n : Produced[l - n + k] = Position - n + k
    BY <1>3, <1>5, <1>6
<1> QED
    BY <1>4, <1>7 DEF n, l

LEMMA InitData == HInit => DataInv
BY DEF HInit, DataInv, InOrder

LEMMA DataStep ==
    ASSUME TypeInv, ReportInv, DataInv, TypeInv', ReportInv', [HNext]_hVars
    PROVE  DataInv'
<1> SUFFICES ASSUME handler = "smtp", handler' = "smtp"
             PROVE  DataInv'
    BY HandlerStays DEF DataInv
<1>a. /\ taken \in Nat /\ held \in 0..taken /\ dataLeft \in 0..(MaxDataRead + 1)
      /\ taken - held \in Nat /\ MaxDataRead + 1 - dataLeft \in Nat
      /\ MaxDataRead \in Nat /\ next # "message"
    BY SomeUnits, Bounds DEF TypeInv, HTypeOK
<1>b. /\ pc = "message" => Position = taken - held - 1
      /\ pc # "message" => Position = taken - held
      /\ pc' = "message" => Position' = taken' - held' - 1
      /\ pc' # "message" => Position' = taken' - held'
    <2>1. taken - held \in Int /\ taken' - held' \in Int
        BY DEF TypeInv, HTypeOK
    <2> QED
        BY <2>1 DEF Position
<1>c. ASSUME UNCHANGED <<taken, held, reports, dataLeft, got>>,
             pc' = "message" <=> pc = "message", stage' = stage \/ stage' # "data"
      PROVE  DataInv'
    <2>1. Position' = Position
        BY <1>c DEF Position
    <2> QED
        BY <1>c, <2>1 DEF DataInv
<1>1. CASE ClientSend \/ ClientLeaves \/ UNCHANGED hVars
    BY <1>1, <1>c DEF ClientSend, ClientLeaves, hVars, readVars
<1>2. CASE Greet
    BY <1>2, <1>c DEF Greet, readVars, answer
<1>3. CASE ReadFails
    BY <1>3, <1>c DEF ReadFails, readVars, answer
<1>4. CASE Read
    <2>1. UNCHANGED <<stage, dataLeft, reports>> /\ pc = "read" /\ pc' = "message"
        BY <1>4 DEF Read
    <2>2. ReadLine
        BY <1>4 DEF Read, ReadBuffer, ReadMessage, ReadLineAndDrop, Buffered, MessageReaders
    <2>3. PICK n \in IF held > 0 THEN {0} ELSE 1..(sent - taken) :
            taken' = taken + n /\ held' = held + n - 1
        BY <2>2 DEF ReadLine
    <2>4. n \in Nat
        BY SomeUnits
    <2>5. taken' - held' = taken - held + 1
        BY <1>a, <2>3, <2>4
    <2>6. got' = <<taken' - held'>>
        BY <2>2, <2>5 DEF ReadLine
    <2>7. Position' = Position
        BY <1>a, <1>b, <2>1, <2>5
    <2> QED
        BY <2>1, <2>6, <2>7 DEF DataInv
<1>5. CASE Message
    <2>1. UNCHANGED <<taken, held, got>> /\ pc = "message" /\ (SMTPCommand \/ SMTPDataLine)
        BY <1>5 DEF Message, HandleSMTP, readVars
    <2>2. pc' # "message" /\ Position = taken - held - 1 /\ Position' = taken - held
        BY <1>5, <1>b, <2>1, MessageAnswers, AnswerType
    <2>3. got = <<taken - held>> /\ InOrder(reports, Position)
        BY <2>1 DEF DataInv
    <2>4. Position \in Nat /\ Position' = Position + 1 /\ got[1] = Position + 1
        <3>1. got[1] = taken - held /\ Len(got) = 1
            BY <2>3
        <3>2. got \in Seq(1..taken)
            BY DEF TypeInv, HTypeOK
        <3>3. got[1] \in 1..taken
            <4>1. 1 \in 1..Len(got)
                BY <3>1
            <4> QED
                BY <3>2, <4>1, ElementOfSeq
        <3> QED
            BY <1>a, <2>2, <3>1, <3>3
    <2>5. CASE SMTPCommand
        <3>1. /\ reports' = reports /\ stage = "command"
              /\ stage' = "data" => dataLeft' = MaxDataRead + 1
            BY <2>5 DEF SMTPCommand
        <3>2. InOrder(reports, Position + 1)
            BY <2>3, <2>4, SkippedLine
        <3>3. Block(reports, Position', 0)
            BY LenProperties DEF Block, ReportInv
        <3>4. MaxDataRead + 1 - (MaxDataRead + 1) = 0
            BY <1>a
        <3> QED
            BY <2>2, <2>4, <3>1, <3>2, <3>3, <3>4 DEF DataInv
    <2>6. CASE SMTPDataLine
        <3> DEFINE r == report(got, <<>>)
                   n == MaxDataRead + 1 - dataLeft
        <3>1. stage = "data" /\ reports' = Append(reports, r) /\ dataLeft' = dataLeft - 1
            BY <2>6 DEF SMTPDataLine
        <3>2. r.payload[1] = Position + 1
            BY <2>4 DEF report
        <3>3. r \in Reports
            <4>1. got \in Seq(Nat) /\ <<>> \in Seq(Entries) /\ DOMAIN <<>> = {}
                BY CellsSeq
            <4>2. FrontInv
                BY DEF FrontInv, Buffered
            <4> QED
                BY <4>1, <4>2, ReportSound
        <3>4. reports \in Seq(Reports)
            BY DEF ReportInv
        <3>5. Block(reports, Position, n) /\ n \in Nat
            BY <1>a, <3>1 DEF DataInv
        <3>6. MaxDataRead + 1 - dataLeft' = n + 1
            BY <1>a, <3>1
        <3> HIDE DEF r, n
        <3>7. InOrder(reports', Position') /\ Block(reports', Position', n + 1)
            BY <2>3, <2>4, <3>1, <3>2, <3>3, <3>4, <3>5, NextLine
        <3> QED
            BY <2>2, <3>6, <3>7 DEF DataInv
    <2> QED
        BY <2>1, <2>5, <2>6
<1>6. CASE WriteOK \/ WriteFails
    <2>1. pc = "write" /\ pc' # "message" /\ UNCHANGED <<taken, held, got, stage, dataLeft>>
        BY <1>6, <1>a DEF WriteOK, WriteFails, readVars
    <2>2. reports' = reports
        BY <1>6 DEF WriteOK, WriteFails, exchangeReport
    <2> QED
        BY <1>c, <2>1, <2>2
<1>7. CASE Return
    BY <1>7, <1>c DEF Return, readVars, Deferring
<1> QED
    BY <1>1, <1>2, <1>3, <1>4, <1>5, <1>6, <1>7 DEF HNext, SessionStep, SessionOver

-----------------------------------------------------------------------------
(* The order of what the client said. *)

LEMMA NumberedAppend ==
    ASSUME NEW X, NEW es \in Seq(X), NEW e \in X, Numbered(es),
           e.dir = "read" => e.units[1] = Cardinality(With(es, "read")) + 1
    PROVE  Numbered(Append(es, e))
<1> DEFINE s == Append(es, e)
           l == Len(es)
           S == With(es, "read")
           T == With(s, "read")
<1>1. /\ l \in Nat /\ DOMAIN es = 1..l /\ \A i \in 1..l : s[i] = es[i]
      /\ s[l + 1] = e
    BY Extended
<1>2. /\ T = IF e.dir = "read" THEN S \cup {l + 1} ELSE S
      /\ Cardinality(T) = Cardinality(S) + (IF e.dir = "read" THEN 1 ELSE 0)
      /\ Cardinality(S) \in Nat
    BY WithAppend
<1>3. S \subseteq 1..l
    BY <1>1 DEF With
<1> HIDE DEF s, l, S, T
<1> SUFFICES ASSUME NEW i \in T PROVE s[i].units[1] = Cardinality({j \in T : j <= i})
    BY DEF Numbered, s, T
<1>4. CASE i \in S
    <2>1. {j \in T : j <= i} = {j \in S : j <= i}
        <3>1. i \in 1..l /\ ~(l + 1 <= i)
            BY <1>1, <1>3, <1>4
        <3> QED
            BY <1>2, <3>1
    <2>2. es[i].units[1] = Cardinality({j \in S : j <= i})
        BY <1>4 DEF Numbered, S
    <2> QED
        BY <1>1, <1>3, <1>4, <2>1, <2>2
<1>5. CASE i \notin S
    <2>1. e.dir = "read" /\ i = l + 1
        BY <1>2, <1>5
    <2>2. \A j \in T : j <= i
        BY <1>1, <1>2, <1>3, <2>1
    <2>3. {j \in T : j <= i} = T
        BY <2>2
    <2>4. Cardinality(T) = e.units[1]
        BY <1>2, <2>1 DEF S
    <2> QED
        BY <1>1, <2>1, <2>3, <2>4
<1> QED
    BY <1>4, <1>5

LEMMA AscendingAppend ==
    ASSUME NEW X, NEW es \in Seq(X), NEW e \in X, NEW t \in Nat, NEW u \in Nat, t <= u,
           Ascending(es, t), e.dir = "read" => e.units[1] \in (t + 1)..u
    PROVE  Ascending(Append(es, e), u)
<1> DEFINE s == Append(es, e)
           l == Len(es)
           S == With(es, "read")
           T == With(s, "read")
<1>1. /\ l \in Nat /\ DOMAIN es = 1..l /\ \A i \in 1..l : s[i] = es[i]
      /\ s[l + 1] = e
    BY Extended
<1>2. T = IF e.dir = "read" THEN S \cup {l + 1} ELSE S
    BY WithAppend
<1>3. S \subseteq 1..l
    BY <1>1 DEF With
<1>4. /\ \A i, j \in S : i < j => es[i].units[1] < es[j].units[1]
      /\ \A i \in S : es[i].units[1] \in 1..t
    BY DEF Ascending
<1> HIDE DEF s, l, S, T
<1>5. \A i \in T : \/ i \in S /\ i \in 1..l /\ s[i] = es[i]
                   \/ i = l + 1 /\ s[i] = e /\ e.dir = "read"
    BY <1>1, <1>2, <1>3
<1>6. ASSUME NEW i \in T PROVE s[i].units[1] \in 1..u
    <2>1. CASE i \in S /\ s[i] = es[i]
        BY <1>4, <2>1
    <2>2. CASE s[i] = e /\ e.dir = "read"
        BY <2>2
    <2> QED
        BY <1>5, <2>1, <2>2
<1>7. ASSUME NEW i \in T, NEW j \in T, i < j PROVE s[i].units[1] < s[j].units[1]
    <2>1. i \in S /\ i \in 1..l /\ s[i] = es[i]
        <3>1. j <= l + 1 /\ j \in Nat
            BY <1>1, <1>5
        <3>2. i # l + 1
            BY <1>1, <1>7, <3>1
        <3> QED
            BY <1>5, <3>2
    <2>2. CASE j \in S /\ s[j] = es[j]
        BY <1>4, <1>7, <2>1, <2>2
    <2>3. CASE s[j] = e /\ e.dir = "read"
        <3>1. es[i].units[1] \in 1..t /\ e.units[1] \in (t + 1)..u
            BY <1>4, <2>1, <2>3
        <3> QED
            BY <2>1, <2>3, <3>1
    <2> QED
        BY <1>5, <2>2, <2>3
<1> QED
    BY <1>6, <1>7 DEF Ascending, s, T

LEMMA InitTranscript == HInit => TranscriptInv
<1> SUFFICES ASSUME HInit PROVE TranscriptInv
    OBVIOUS
<1>1. events = <<>> /\ With(events, "read") = {} /\ taken = 0 /\ pc = "greet"
    BY DEF HInit, With
<1>2. Cardinality(With(events, "read")) = 0
    BY <1>1, FS_EmptySet
<1> QED
    BY <1>1, <1>2 DEF TranscriptInv, Numbered, Ascending

\* TranscriptInv is more than the property.
LEMMA TranscriptGoal == TranscriptInv => TranscriptOrdered
BY DEF TranscriptInv, TranscriptOrdered, Numbered, Ascending, With, Said

\* MongoDB's record.
LEMMA MongoStep ==
    ASSUME TypeInv, TypeInv', TranscriptInv, [HNext]_hVars, handler = "mongodb"
    PROVE  TranscriptInv'
<1> DEFINE n == Cardinality(With(events, "read"))
           m == Cardinality(With(events', "read"))
<1>0. handler' = handler
    BY HandlerStays
<1>a. /\ events \in Seq(Entries) /\ taken \in Nat /\ readEntry \in Entries
      /\ entry("write", <<>>, FALSE) \in Entries /\ next \in {"read", "end"}
      /\ stage # "data" /\ pc \in {"greet", "read", "message", "write", "end", "ended"}
    BY SomeUnits, EntryTypes DEF TypeInv, HTypeOK, ControlInv
<1>b. /\ Numbered(events) /\ taken - n \in 0..1
      /\ pc \in {"greet", "read", "write"} => n = taken
      /\ pc = "message" => n = taken - 1 /\ got = <<taken>>
    BY DEF TranscriptInv
<1>c. TranscriptInv' <=>
        /\ Numbered(events') /\ taken' - m \in 0..1
        /\ pc' \in {"greet", "read", "write"} => m = taken'
        /\ pc' = "message" => m = taken' - 1 /\ got' = <<taken'>>
    BY <1>0 DEF TranscriptInv, Numbered, With
<1>d. n \in Nat
    BY <1>a, WithAppend
<1>e. events' = events => m = n
    OBVIOUS
<1> HIDE DEF n, m
<1>1. CASE ClientSend \/ ClientLeaves \/ UNCHANGED hVars
    <2>1. UNCHANGED <<pc, taken, events, got>>
        BY <1>1 DEF ClientSend, ClientLeaves, hVars, readVars
    <2> QED
        BY <1>b, <1>c, <1>e, <2>1
<1>2. CASE Greet \/ ReadFails \/ WriteFails \/ Return
    <2>1. /\ UNCHANGED <<taken, events, got>>
          /\ pc' \in {"read", "write"} => pc \in {"greet", "read", "write"}
          /\ pc' \notin {"greet", "message"}
        BY <1>2, <1>a DEF Greet, ReadFails, WriteFails, Return, readVars, answer
    <2> QED
        BY <1>b, <1>c, <1>e, <2>1
<1>3. CASE Read
    <2>1. pc = "read" /\ pc' = "message" /\ ReadMessage
        BY <1>3 DEF Read, ReadBuffer, ReadLineAndDrop, ReadLine, Buffered
    <2>2. taken' = taken + 1 /\ got' = <<taken + 1>> /\ events' = events
        BY <2>1 DEF ReadMessage
    <2> QED
        BY <1>a, <1>b, <1>c, <1>d, <1>e, <2>1, <2>2
<1>4. CASE Message
    <2>1. pc = "message" /\ UNCHANGED <<taken, got>> /\ HandleMongoDB
        BY <1>4 DEF Message, readVars
    <2>2. CASE giveUp
        <3>1. pc' = "end" /\ events' = events
            BY <2>2 DEF giveUp, answer
        <3> QED
            BY <1>b, <1>c, <1>e, <2>1, <3>1
    <2>3. CASE note(0) /\ answer(1, "read")
        <3>1. pc' = "write"
            BY <2>3 DEF answer
        <3>2. events' = Append(events, readEntry)
            <4>1. replyEntry \in Entries /\ 0 \in 0..1 /\ handler \notin NotesFirst
                BY EntryTypes DEF NotesFirst
            <4> QED
                BY <1>a, <2>3, <4>1, NoteAppends
        <3>3. readEntry.dir = "read" /\ readEntry.units[1] = taken
            BY <1>b, <2>1 DEF readEntry, entry
        <3>4. n + 1 = taken
            BY <1>a, <1>b, <1>d, <2>1
        <3>5. Numbered(events')
            BY <1>a, <1>b, <3>2, <3>3, <3>4, NumberedAppend DEF n
        <3>6. m = n + 1
            BY <1>a, <3>2, <3>3, WithAppend DEF n, m
        <3> QED
            BY <1>a, <1>c, <2>1, <3>1, <3>4, <3>5, <3>6
    <2> QED
        BY <2>1, <2>2, <2>3 DEF HandleMongoDB
<1>5. CASE WriteOK
    <2> DEFINE e == entry("write", <<>>, FALSE)
    <2>1. /\ pc = "write" /\ UNCHANGED <<taken, got>> /\ events' = Append(events, e)
          /\ pc' \in {"read", "write", "end"}
        BY <1>5, <1>a DEF WriteOK, NotesAfter, readVars
    <2>2. e.dir = "write" /\ e \in Entries
        BY <1>a, Directions
    <2> HIDE DEF e
    <2>3. Numbered(events')
        BY <1>a, <1>b, <2>1, <2>2, NumberedAppend
    <2>4. m = n
        BY <1>a, <1>d, <2>1, <2>2, WithAppend DEF n, m
    <2> QED
        BY <1>a, <1>b, <1>c, <2>1, <2>3, <2>4
<1> QED
    BY <1>1, <1>2, <1>3, <1>4, <1>5 DEF HNext, SessionStep, SessionOver

\* The records of Telnet and FTP.
LEMMA LineStep ==
    ASSUME TypeInv, TypeInv', TranscriptInv, [HNext]_hVars, handler \in {"telnet", "ftp"}
    PROVE  TranscriptInv'
<1>0. handler' = handler
    BY HandlerStays
<1>a. /\ events \in Seq(Entries) /\ taken \in Nat /\ Ascending(events, taken)
      /\ entry("write", <<>>, FALSE) \in Entries
    BY SomeUnits, EntryTypes DEF TypeInv, TranscriptInv
<1>b. TranscriptInv' <=> Ascending(events', taken')
    BY <1>0 DEF TranscriptInv, Ascending, With
<1>1. CASE Read
    <2> DEFINE e == entry("read", got', FALSE)
               X == Entries'
    <2>1. ReadLineAndDrop
        BY <1>1 DEF Read, ReadBuffer, ReadMessage, ReadLine, Buffered, MessageReaders
    <2>2. PICK k \in 1..(sent - taken) : taken' = taken + k
        BY <2>1 DEF ReadLineAndDrop
    <2>3. k \in Nat /\ k >= 1
        BY SomeUnits
    <2>4. got' = <<taken + 1>> /\ events' = Append(events, e)
        BY <2>1 DEF ReadLineAndDrop
    <2>5. e.dir = "read" /\ e.units[1] = taken + 1
        BY <2>4 DEF entry
    <2>6. taken' \in Nat /\ taken <= taken' /\ taken + 1 \in (taken + 1)..taken'
        BY <1>a, <2>2, <2>3
    <2>7. events \in Seq(X)
        BY <1>a, <2>6, EntriesGrow
    <2>8. e \in X
        <3>1. taken + 1 \in 0..taken'
            BY <1>a, <2>6
        <3>2. got' \in Seq(0..taken')
            BY <2>4, <3>1
        <3> QED
            BY <3>2 DEF entry, Entries
    <2> HIDE DEF e, X
    <2>9. Ascending(Append(events, e), taken')
        BY <1>a, <2>5, <2>6, <2>7, <2>8, AscendingAppend
    <2> QED
        BY <1>b, <2>4, <2>9
<1>2. CASE WriteOK
    <2> DEFINE e == entry("write", <<>>, FALSE)
    <2>1. taken' = taken /\ (events' = events \/ events' = Append(events, e))
        BY <1>2 DEF WriteOK, readVars
    <2>2. e.dir = "write" /\ e \in Entries
        BY <1>a, Directions
    <2> HIDE DEF e
    <2>3. Ascending(Append(events, e), taken)
        BY <1>a, <2>2, AscendingAppend
    <2> QED
        BY <1>a, <1>b, <2>1, <2>3
<1>3. CASE Message
    <2>1. handler \notin Noting /\ taken' = taken
        BY <1>3 DEF Noting, Message, readVars
    <2> QED
        BY <1>3, <1>a, <1>b, <2>1, MessageNotes
<1>4. CASE ~(Read \/ WriteOK \/ Message)
    <2>1. UNCHANGED <<taken, events>>
        BY <1>4 DEF HNext, SessionStep, SessionOver, ClientSend, ClientLeaves, Greet,
                    ReadFails, WriteFails, Return, hVars, readVars
    <2> QED
        BY <1>a, <1>b, <2>1
<1> QED
    BY <1>1, <1>2, <1>3, <1>4

LEMMA TranscriptStep ==
    ASSUME TypeInv, TypeInv', TranscriptInv, [HNext]_hVars PROVE TranscriptInv'
<1>1. CASE handler \notin {"mongodb", "telnet", "ftp"}
    BY <1>1, HandlerStays DEF TranscriptInv
<1> QED
    BY <1>1, MongoStep, LineStep

-----------------------------------------------------------------------------
(* What holds in every session. *)

\* The parts together are inductive.
THEOREM HInvariance == HSpec => []HInv
<1>1. HInit => HInv
    BY InitType, InitBuffer, InitReports, InitOnce, InitReply, InitData, InitTranscript
       DEF HInv
<1>2. HInv /\ [HNext]_hVars => HInv'
    <2> SUFFICES ASSUME HInv, [HNext]_hVars PROVE HInv'
        OBVIOUS
    <2>1. TypeInv'
        BY TypeStep DEF HInv
    <2>2. BufferInv'
        BY <2>1, BufferStep DEF HInv
    <2>3. ReportInv'
        BY <2>1, <2>2, ReportStep DEF HInv
    <2>4. OnceInv' /\ ReplyInv'
        BY OnceStep, ReplyStep DEF HInv
    <2>5. DataInv' /\ TranscriptInv'
        BY <2>1, <2>3, DataStep, TranscriptStep DEF HInv
    <2> QED
        BY <2>1, <2>2, <2>3, <2>4, <2>5 DEF HInv
<1> QED
    BY <1>1, <1>2, PTL DEF HSpec

\* Whatever the client sends and however it is cut into reads, the counters
\* stay in their bounds, SMTP's line count and Telnet's replies included, and
\* no entry of server.events names a unit that was not yet taken.
THEOREM HandlersTypeCorrect == HSpec => []HTypeOK
<1>1. HInv => HTypeOK
    BY DEF HInv, TypeInv
<1> QED
    BY <1>1, HInvariance, PTL

\* Every way out of a handler that produces in its deferred function leads
\* through one call of ProduceTCP with all the entries; ADB and Jabber produce
\* at most once, what begins with the client's first message.
THEOREM SessionReportedOnce == HSpec => []ReportedOnce
<1>1. HInv => ReportedOnce
    BY DEF HInv, OnceInv
<1> QED
    BY <1>1, HInvariance, PTL

\* The record of a session agrees with the dialogue: as many replies as were
\* written but for one whose write failed, SMTP's DATA lines each once and
\* without a gap, MongoDB's messages and Telnet's and FTP's lines in order.
THEOREM RecordAgrees == HSpec => []RecordFaithful
<1>1. HInv => RecordFaithful
    BY ReplyGoal, DataGoal, TranscriptGoal DEF HInv, RecordFaithful
<1> QED
    BY <1>1, HInvariance, PTL

\* ProduceTCP is called before the next Read: for any size of the buffer, the
\* message read last is reported as it was read, in its own entry and at the
\* front of a payload that is the whole buffer; copies are exact at any time.
THEOREM LastReadReported == HSpec => ReportsLastRead
<1> DEFINE Last(rs) == rs[Len(rs)]
<1>1. ASSUME HInv, HInv', [HNext]_hVars, reports' # reports
      PROVE  /\ handler \in WholeBuffer =>
                    SubSeq(Last(reports').payload, 1, Len(got)) = got
             /\ AllExact(Last(reports'))
    <2>1. PICK p \in Seq(Nat), es \in Seq(Entries) :
             /\ \A i \in DOMAIN es : Sound(es[i])
             /\ handler \in WholeBuffer => p = cells
             /\ reports' = Append(reports, report(p, es))
        BY <1>1, ReportsGrow DEF HInv
    <2> DEFINE r == report(p, es)
    <2>2. r \in Reports /\ AllExact(r) /\ r.payload = p
        BY <1>1, <2>1, ReportSound DEF HInv, BufferInv
    <2> HIDE DEF r
    <2>3. reports \in Seq(Reports) /\ reports' = Append(reports, r)
        BY <1>1, <2>1 DEF HInv, ReportInv, r
    <2>4. Last(reports') = r
        BY <2>2, <2>3
    <2>5. handler \in WholeBuffer => SubSeq(cells, 1, Len(got)) = got
        BY <1>1, FrontIsLastRead DEF HInv, BufferInv, WholeBuffer, Buffered
    <2> QED
        BY <2>1, <2>2, <2>4, <2>5
<1>2. HInv /\ HInv' /\ [HNext]_hVars =>
        [reports' # reports =>
            LET r == reports'[Len(reports')] IN
            /\ handler \in WholeBuffer => SubSeq(r.payload, 1, Len(got)) = got
            /\ \A j \in DOMAIN r.decoded :
                  (handler \notin Buffered \/ r.decoded[j].units = got) =>
                      r.decoded[j].payload = r.decoded[j].units]_hVars
    BY <1>1 DEF AllExact, Exact
<1> QED
    BY <1>2, HInvariance, PTL DEF HSpec, ReportsLastRead

-----------------------------------------------------------------------------
(* Sessions run out.                                                       *)
(*                                                                         *)
(* That a session ends needs fairness and is left to TLC.  What it rests   *)
(* on does not: some step of the goroutine can always be taken, and each   *)
(* one uses up something of which there is only so much.                   *)

\* What a session still has to do: units and lines to be read, a DATA loop to
\* be left, replies to be written.
Rank ==
    CASE pc = "greet" -> 5
      [] pc = "read" -> 2
      [] pc = "message" -> MaxReplies + 6
      [] pc = "write" -> owed + 2
      [] pc = "end" -> 1
      [] OTHER -> 0

Work ==
    (MaxSent - taken + held) * (MaxReplies + 5)
        + (IF stage = "data" THEN 2 ELSE 0) + Rank

\* Each step of the handler takes from its work, and the client cannot add to
\* it: no loop goes round without a read.
WorkShrinks ==
    [][/\ Work \in Nat /\ Work' \in Nat /\ Work' <= Work
       /\ SessionStep => Work' < Work]_hVars

\* The guard of some step holds: a message is one its handler has a case for,
\* and a read either finds something or fails.
CanStep ==
    \/ pc \in {"greet", "write", "end"}
    \/ /\ pc = "read"
       /\ IF held > 0 THEN handler = "smtp" ELSE taken <= sent
    \/ /\ pc = "message"
       /\ handler \in {"rdp", "smb"} => Len(got) \in 0..BufUnits
       /\ handler = "telnet" => stage \in {"user", "pass", "shell"}
       /\ handler = "smtp" => stage \in {"command", "data"}

NeverStuck == pc = "ended" \/ CanStep

\* One unit less is at least one factor less.
LEMMA Scaled ==
    ASSUME NEW r \in Nat, NEW s \in Nat, NEW c \in Nat
    PROVE  r * c \in Nat /\ (s < r => s * c + c <= r * c)
<1>1. r * c \in Nat /\ s * c \in Nat
    OBVIOUS
<1>2. ASSUME s < r PROVE s * c + c <= r * c
    <2> DEFINE d == r - s - 1
    <2>1. d \in Nat /\ r = s + 1 + d
        BY <1>2
    <2>2. (s + 1 + d) * c = s * c + c + d * c /\ d * c \in Nat
        BY <2>1
    <2> HIDE DEF d
    <2>3. r * c = s * c + c + d * c
        BY <2>1, <2>2
    <2> QED
        BY <1>1, <2>2, <2>3
<1> QED
    BY <1>1, <1>2

\* The parts of the work: what is left of the stream, the DATA loop, the rest.
Left == MaxSent - taken + held
Loop == IF stage = "data" THEN 2 ELSE 0

LEMMA StillLeft ==
    ASSUME NEW m \in Nat, NEW t \in Nat, NEW h \in Nat, t <= m
    PROVE  m - t + h \in Nat
OBVIOUS

LEMMA WorkTypes ==
    ASSUME TypeInv
    PROVE  /\ Left \in Nat /\ Loop \in 0..2 /\ Rank \in Nat
           /\ Work = Left * (MaxReplies + 5) + Loop + Rank /\ Work \in Nat
<1>1. Left \in Nat /\ Loop \in 0..2
    BY Bounds DEF TypeInv, HTypeOK, Left, Loop
<1>2. owed \in Nat /\ MaxReplies \in Nat
    BY Bounds DEF TypeInv, HTypeOK
<1>3. Rank \in Nat
    BY <1>2 DEF Rank
<1>4. Left * (MaxReplies + 5) \in Nat
    BY <1>1, <1>2, Scaled
<1>5. Work = Left * (MaxReplies + 5) + Loop + Rank
    BY DEF Work, Left, Loop
<1> QED
    BY <1>1, <1>3, <1>4, <1>5

LEMMA WorkTypesNext ==
    ASSUME TypeInv'
    PROVE  /\ Left' \in Nat /\ Loop' \in 0..2 /\ Rank' \in Nat
           /\ Work' = Left' * (MaxReplies + 5) + Loop' + Rank' /\ Work' \in Nat
<1>1. /\ sent' \in 0..MaxSent /\ taken' \in 0..sent' /\ held' \in 0..taken'
      /\ owed' \in 0..(MaxReplies + 1)
    BY DEF TypeInv, HTypeOK
<1>2. /\ MaxSent \in Nat /\ taken' \in Nat /\ held' \in Nat /\ taken' <= MaxSent
      /\ owed' \in Nat /\ MaxReplies \in Nat
    BY <1>1, Bounds
<1>3. Left' \in Nat
    <2>1. Left' = MaxSent - taken' + held'
        BY DEF Left
    <2>2. MaxSent - taken' + held' \in Nat
        BY <1>2, StillLeft
    <2> QED
        BY <2>1, <2>2
<1>4. Loop' \in 0..2
    BY DEF Loop
<1>5. Rank' \in Nat
    BY <1>2 DEF Rank
<1> DEFINE l == Left'
           k == Loop'
           r == Rank'
           C == MaxReplies + 5
<1>6. C \in Nat
    BY <1>2
<1>7. Work' = l * C + k + r
    BY DEF Work, Left, Loop
<1>8. l \in Nat /\ k \in Nat /\ r \in Nat
    BY <1>3, <1>4, <1>5
<1> HIDE DEF l, k, r, C
<1>9. l * C \in Nat
    BY <1>6, <1>8, Scaled
<1>10. l * C + k + r \in Nat
    BY <1>8, <1>9
<1> USE DEF l, k, r, C
<1> QED
    BY <1>3, <1>4, <1>5, <1>7, <1>10

\* The work that n replies leave.
LEMMA AnswerRank ==
    ASSUME NEW n \in Nat, NEW w \in {"read", "end"}, answer(n, w)
    PROVE  Rank' \in Nat /\ Rank' <= n + 2 /\ (w = "end" /\ n = 0 => Rank' = 1)
<1>1. CASE n = 0
    <2>1. pc' = w
        BY <1>1 DEF answer
    <2> QED
        BY <1>1, <2>1 DEF Rank
<1>2. CASE n # 0
    <2>1. pc' = "write" /\ owed' = n
        BY <1>2 DEF answer
    <2> QED
        BY <1>2, <2>1 DEF Rank
<1> QED
    BY <1>1, <1>2

\* The arithmetic of a step, on numbers.
LEMMA LessLeft ==
    ASSUME NEW p \in Nat, NEW q \in Nat, NEW k \in Nat, NEW k1 \in Nat,
           NEW r \in Nat, NEW r1 \in Nat, q = p, k1 + r1 < k + r
    PROVE  q + k1 + r1 < p + k + r
OBVIOUS

\* A read takes a unit from the socket or from SMTP's bufio.Reader.
LEMMA ReadTakes ==
    ASSUME TypeInv, Read
    PROVE  Left' < Left
<1>1. /\ taken \in Nat /\ held \in Nat /\ MaxSent \in Nat
      /\ \A n \in 1..(sent - taken) : n \in Nat /\ n >= 1
      /\ \A n \in 1..Least(BufUnits, sent - taken) : n \in Nat /\ n >= 1
    BY SomeUnits, Bounds DEF TypeInv, HTypeOK
<1>2. CASE ReadBuffer
    <2>1. held' = held /\ \E n \in Nat : n >= 1 /\ taken' = taken + n
        BY <1>1, <1>2 DEF ReadBuffer
    <2> QED
        BY <1>1, <2>1 DEF Left
<1>3. CASE ReadMessage
    BY <1>1, <1>3 DEF ReadMessage, Left
<1>4. CASE ReadLineAndDrop
    <2>1. held' = held /\ \E n \in Nat : n >= 1 /\ taken' = taken + n
        BY <1>1, <1>4 DEF ReadLineAndDrop
    <2> QED
        BY <1>1, <2>1 DEF Left
<1>5. CASE ReadLine
    <2>1. \E n \in Nat : taken' = taken + n /\ held' = held + n - 1
        BY <1>1, <1>5 DEF ReadLine
    <2> QED
        BY <1>1, <2>1 DEF Left
<1> QED
    BY <1>2, <1>3, <1>4, <1>5 DEF Read

LEMMA WorkStep ==
    ASSUME TypeInv, TypeInv', SessionStep
    PROVE  Work' < Work
<1> DEFINE C == MaxReplies + 5
           P == Left * C
           Q == Left' * C
<1>1. Left \in Nat /\ Loop \in 0..2 /\ Rank \in Nat
    BY WorkTypes
<1>2. Left' \in Nat /\ Loop' \in 0..2 /\ Rank' \in Nat
    BY WorkTypesNext
<1>a. Work = P + Loop + Rank /\ Work' = Q + Loop' + Rank'
    BY WorkTypes, WorkTypesNext
<1>3. P \in Nat /\ Q \in Nat /\ C \in Nat /\ (Left' < Left => Q + C <= P)
    <2> DEFINE l == Left
               m == Left'
    <2>1. l \in Nat /\ m \in Nat /\ C \in Nat
        BY <1>1, <1>2, Bounds
    <2> HIDE DEF l, m, C
    <2>2. l * C \in Nat /\ m * C \in Nat /\ (m < l => m * C + C <= l * C)
        BY <2>1, Scaled
    <2> USE DEF l, m
    <2> QED
        BY <2>1, <2>2
<1>4. MaxReplies \in Nat /\ MaxReplies >= 1 /\ owed \in Nat /\ owed' \in Nat
    BY Bounds DEF TypeInv, HTypeOK
<1>5. CASE Read
    <2>1. Left' < Left
        BY <1>5, ReadTakes
    <2>2. Loop' = Loop
        BY <1>5 DEF Read, Loop
    <2>3. Rank = 2 /\ Rank' = MaxReplies + 6
        BY <1>5 DEF Read, Rank
    <2>4. Q + (MaxReplies + 5) <= P
        BY <1>3, <2>1
    <2> HIDE DEF P, Q
    <2> QED
        BY <1>a, <1>1, <1>2, <1>3, <1>4, <2>2, <2>3, <2>4
<1>6. CASE ~Read
    <2>1. Left' = Left
        BY <1>6 DEF SessionStep, Greet, ReadFails, Message, WriteOK, WriteFails, Return,
                    readVars, Left
    <2>2. Q = P
        BY <2>1
    <2> DEFINE k == Loop
               k1 == Loop'
               r == Rank
               r1 == Rank'
    <2>t. k \in 0..2 /\ k1 \in 0..2 /\ r \in Nat /\ r1 \in Nat
        BY <1>1, <1>2
    <2>3. k1 + r1 < k + r
        <3>1. CASE Greet
            <4> DEFINE n == CASE handler = "telnet" -> 2
                              [] handler \in {"ftp", "smtp", "rfb", "jabber"} -> 1
                              [] OTHER -> 0
            <4>1. n \in 0..2
                OBVIOUS
            <4>2. answer(n, "read")
                BY <3>1 DEF Greet
            <4> HIDE DEF n
            <4>3. r1 <= 4
                BY <1>2, <4>1, <4>2, AnswerRank
            <4>4. k1 = k /\ r = 5
                BY <3>1 DEF Greet, Loop, Rank
            <4> HIDE DEF k, k1, r, r1
            <4> QED
                BY <2>t, <4>3, <4>4
        <3>2. CASE ReadFails
            <4>1. r = 2
                BY <3>2 DEF ReadFails, Rank
            <4>2. CASE stage = "data"
                <5>1. answer(1, "read") /\ stage' = "command"
                    BY <3>2, <4>2 DEF ReadFails
                <5>2. r1 <= 3 /\ k1 = 0 /\ k = 2
                    BY <4>2, <5>1, AnswerRank DEF Loop
                <5> HIDE DEF k, k1, r, r1
                <5> QED
                    BY <2>t, <4>1, <5>2
            <4>3. CASE stage # "data"
                <5>1. answer(0, "end") /\ stage' = stage
                    BY <3>2, <4>3 DEF ReadFails
                <5>2. r1 = 1 /\ k1 = k
                    BY <5>1, AnswerRank DEF Loop
                <5> HIDE DEF k, k1, r, r1
                <5> QED
                    BY <2>t, <4>1, <5>2
            <4> QED
                BY <4>2, <4>3
        <3>3. CASE Message
            <4>1. PICK n \in 0..(MaxReplies + 1), w \in {"read", "end"} : answer(n, w)
                BY <3>3, MessageAnswers
            <4>2. r1 <= n + 2
                BY <4>1, AnswerRank, <1>4
            <4>3. r = MaxReplies + 6
                BY <3>3 DEF Message, Rank
            <4> HIDE DEF k, k1, r, r1
            <4> QED
                BY <2>t, <1>4, <4>2, <4>3
        <3>4. CASE WriteOK \/ WriteFails
            <4>1. k1 = k /\ r = owed + 2 /\ owed >= 1
                BY <3>4 DEF WriteOK, WriteFails, Loop, Rank, TypeInv, ControlInv
            <4>2. next \in {"read", "end"}
                BY DEF TypeInv, HTypeOK
            <4>3. \/ pc' \in {"read", "end"}
                  \/ pc' = "write" /\ owed' = owed - 1
                BY <3>4, <4>2 DEF WriteOK, WriteFails
            <4>4. r1 <= 2 \/ r1 = owed - 1 + 2
                BY <4>3 DEF Rank
            <4> HIDE DEF k, k1, r, r1
            <4> QED
                BY <2>t, <1>4, <4>1, <4>4
        <3>5. CASE Return
            <4>1. k1 = k /\ r = 1 /\ r1 = 0
                BY <3>5 DEF Return, Loop, Rank
            <4> HIDE DEF k, k1, r, r1
            <4> QED
                BY <2>t, <4>1
        <3> QED
            BY <1>6, <3>1, <3>2, <3>3, <3>4, <3>5 DEF SessionStep
    <2>4. Work = P + k + r /\ Work' = Q + k1 + r1
        BY <1>a
    <2> HIDE DEF P, Q, k, k1, r, r1
    <2>5. Q + k1 + r1 < P + k + r
        BY <1>3, <2>t, <2>2, <2>3, LessLeft
    <2> QED
        BY <2>4, <2>5
<1> QED
    BY <1>5, <1>6

\* However the client cuts what it sends, a handler takes only so many steps:
\* each read, message, reply and return leaves it less to do, and what the
\* client does never leaves it more.  Only its own step can be what is missing
\* to the end of a session.
THEOREM SessionRunsOut == HSpec => WorkShrinks
<1>1. HInv => TypeInv
    BY DEF HInv
<1>2. TypeInv /\ TypeInv' /\ [HNext]_hVars =>
          [/\ Work \in Nat /\ Work' \in Nat /\ Work' <= Work
           /\ SessionStep => Work' < Work]_hVars
    <2> SUFFICES ASSUME TypeInv, TypeInv', HNext, ~UNCHANGED hVars
                 PROVE  /\ Work \in Nat /\ Work' \in Nat /\ Work' <= Work
                        /\ SessionStep => Work' < Work
        OBVIOUS
    <2>1. Work \in Nat
        BY WorkTypes
    <2>2. Work' \in Nat
        BY WorkTypesNext
    <2>3. CASE SessionStep
        BY <2>1, <2>2, <2>3, WorkStep
    <2>4. CASE ~SessionStep
        <3>1. ClientSend \/ ClientLeaves
            BY <2>4 DEF HNext, SessionOver
        <3>2. UNCHANGED <<taken, held, stage, pc, owed>>
            BY <3>1 DEF ClientSend, ClientLeaves, readVars
        <3>3. Work' = Work
            BY <3>2 DEF Work, Rank
        <3> QED
            BY <2>1, <2>2, <2>4, <3>3
    <2> QED
        BY <2>3, <2>4
<1> QED
    BY <1>1, <1>2, HInvariance, PTL DEF HSpec, WorkShrinks

\* Until it has returned, a handler always has a step to take: no stage of
\* Telnet or SMTP is without a case, no message longer than the read buffer,
\* and nothing is held back by a reader that nobody asks for it.
THEOREM SessionNeverStuck == HSpec => []NeverStuck
<1>1. ASSUME HInv PROVE NeverStuck
    <2>1. /\ TypeInv /\ taken <= sent /\ got \in Seq(1..taken) /\ BufUnits \in Nat
          /\ pc \in {"greet", "read", "message", "write", "end", "ended"}
        BY <1>1, SomeUnits, Bounds DEF HInv, TypeInv, HTypeOK
    <2>2. CASE pc = "read"
        <3>1. held \in Nat /\ (handler # "smtp" => held = 0)
            BY <2>1, SomeUnits DEF TypeInv, HTypeOK, ControlInv
        <3> QED
            BY <2>1, <2>2, <3>1 DEF NeverStuck, CanStep
    <2>3. CASE pc = "message"
        <3>1. Len(got) \in Nat
            BY <2>1, LenProperties
        <3>2. handler \in {"rdp", "smb"} => Len(got) \in 0..BufUnits
            BY <1>1, <2>1, <2>3, <3>1 DEF HInv, BufferInv, FrontInv, Buffered
        <3>3. /\ handler = "telnet" => stage \in {"user", "pass", "shell"}
              /\ handler = "smtp" => stage \in {"command", "data"}
            BY <2>1 DEF TypeInv, ControlInv
        <3> QED
            BY <2>3, <3>2, <3>3 DEF NeverStuck, CanStep
    <2> QED
        BY <2>1, <2>2, <2>3 DEF NeverStuck, CanStep
<1> QED
    BY <1>1, HInvariance, PTL
=============================================================================
