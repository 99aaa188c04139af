------------------------------ MODULE Handlers ------------------------------
(***************************************************************************)
(* The TCP handlers of protocols/tcp other than HTTP and the forwarder,    *)
(* one connection at a time: each reads what the client sends, may answer, *)
(* and keeps or produces a record of it, until a read, a parse or a write  *)
(* fails, or after one message.                                            *)
(*                                                                         *)
(* A unit is what the client sends at once, named by its position: a       *)
(* message, or a line for the line readers.  One Read may return several.  *)
(* Parsers are verdicts chosen freely, replies are counted, not spelled    *)
(* out.  A handler shares no state with other goroutines, so each step     *)
(* goes from one blocking call to the next.                                *)
(***************************************************************************)
EXTENDS Integers, Sequences, FiniteSets

CONSTANTS
    BufUnits,       \* units that fill a handler's read buffer
    MaxDataRead,    \* SMTP's maxDataRead (500)
    MaxSent,        \* bound: units the client sends
    MaxReplies      \* bound: replies of Telnet to one line

ASSUME HandlerBounds ==
    /\ {BufUnits, MaxReplies} \subseteq Nat \ {0}
    /\ {MaxDataRead, MaxSent} \subseteq Nat

\* Handlers that Read into one buffer, made before their loop; the payload
\* they record is a slice of it, not a copy.
Buffered == {"sip", "rdp", "bittorrent", "smb", "iscsi", "mqtt", "memcache",
             "jabber"}

\* Handlers that make a bufio.Reader for every line, or one for the session.
LineReaders == {"ftp", "telnet", "smtp", "rfb"}

\* Handlers that read exactly one message, into a slice of its own.
MessageReaders == {"mongodb", "adb"}

Names == Buffered \cup LineReaders \cup MessageReaders

VARIABLES
    handler,    \* the handler of this connection
    peer,       \* the client: "open", "fin", "reset"
    sent,       \* units the client has sent
    taken,      \* units taken from the socket
    held,       \* units in SMTP's bufio.Reader, not yet returned
    cells,      \* content of the read buffer, 0 for bytes never written
    got,        \* the units the last read returned
    stage,      \* Telnet: "user", "pass", "shell"; SMTP: "command", "data";
                \* RFB: "user" for the version, then "pass"
    dataLeft,   \* SMTP: lines of DATA that may still be read
    pc,         \* "greet", "read", "message", "write", "end", "ended"
    owed,       \* replies still to be written in this exchange
    next,       \* pc after the last of them
    events,     \* server.events
    wrote,      \* replies that went out
    reports,    \* what was handed to ProduceTCP
    conn,       \* our end of the connection: "open", "closed"
    panicked    \* a goroutine panic is ending the process

hVars == <<handler, peer, sent, taken, held, cells, got, stage, dataLeft, pc,
           owed, next, events, wrote, reports, conn, panicked>>
clientVars == <<peer, sent>>
readVars == <<taken, held, cells, got>>

Units(from, to) == [i \in 1..(to - from) |-> from + i]
Least(m, n) == IF m <= n THEN m ELSE n

HInit ==
    /\ handler \in Names
    /\ peer = "open"
    /\ sent = 0 /\ taken = 0 /\ held = 0
    /\ cells = [i \in 1..BufUnits |-> 0]
    /\ got = <<>>
    /\ stage = IF handler \in {"telnet", "rfb"} THEN "user" ELSE "command"
    /\ dataLeft = 0
    /\ pc = "greet"
    /\ owed = 0 /\ next = "read"
    /\ events = <<>>
    /\ wrote = 0
    /\ reports = <<>>
    /\ conn = "open"
    /\ panicked = FALSE

-----------------------------------------------------------------------------
(* The client. *)

ClientSend ==
    /\ peer = "open" /\ sent < MaxSent
    /\ sent' = sent + 1
    /\ UNCHANGED <<handler, peer, readVars, stage, dataLeft, pc, owed, next,
                   events, wrote, reports, conn, panicked>>

ClientLeaves ==
    /\ peer = "open"
    /\ peer' \in {"fin", "reset"}
    /\ UNCHANGED <<handler, sent, readVars, stage, dataLeft, pc, owed, next,
                   events, wrote, reports, conn, panicked>>

-----------------------------------------------------------------------------
(* Records. *)

\* server.events: a payload is a slice of the buffer or bytes of its own.
entry(dir, units, aliases) ==
    [dir |-> dir, units |-> units, aliases |-> aliases]

\* What the entry says when it is encoded, now that the buffer may hold
\* something else.
encoded(e) ==
    [dir |-> e.dir, units |-> e.units,
     payload |-> IF e.aliases THEN SubSeq(cells, 1, Len(e.units)) ELSE e.units]

\* One call of ProduceTCP with these entries as decoded data.
report(payload, es) ==
    [payload |-> payload, decoded |-> [i \in DOMAIN es |-> encoded(es[i])]]

readEntry == entry("read", got, handler \in Buffered)

\* Handlers that note a reply before they write it, and those that do after.
NotesFirst == {"sip", "rdp", "bittorrent"}
NotesAfter == {"smb", "mongodb", "telnet", "iscsi"}

\* Handlers that produce one event, with everything, when they return.
Deferring == {"sip", "rdp", "bittorrent", "smb", "mongodb", "ftp", "telnet"}

-----------------------------------------------------------------------------
(* Reading. *)

\* Mutant: a read goes behind what the buffer already holds.
ReadBuffer_Behind ==
    /\ handler \in Buffered
    /\ \E n \in 1..Least(BufUnits, sent - taken) :
        /\ got' = Units(taken, taken + n)
        /\ taken' = taken + n
        /\ cells' = [i \in 1..BufUnits |->
               IF i > BufUnits - n THEN taken + i - (BufUnits - n) ELSE cells[i]]
    /\ UNCHANGED <<held, events>>

\* n units go from the socket to the handler.  Jabber's buffer is that of its
\* bufio.Reader, and the line it returns the first of them.
ReadBuffer ==
    /\ handler \in Buffered
    /\ \E n \in 1..Least(BufUnits, sent - taken) :
        /\ got' = Units(taken, taken + n)
        /\ taken' = taken + n
        /\ cells' = [i \in 1..BufUnits |->
                        IF i <= n THEN taken + i ELSE cells[i]]
    /\ UNCHANGED <<held, events>>

\* Mutant: a bufio.Reader made for the message takes what follows as well.
ReadMessage_Drops ==
    /\ handler \in MessageReaders
    /\ \E n \in 1..(sent - taken) : taken' = taken + n
    /\ got' = <<taken + 1>>
    /\ UNCHANGED <<held, cells, events>>

\* mongoDBServer.read and the two ReadFulls of HandleADB: one message.
ReadMessage ==
    /\ handler \in MessageReaders
    /\ sent > taken
    /\ got' = <<taken + 1>>
    /\ taken' = taken + 1
    /\ UNCHANGED <<held, cells, events>>

\* read of FTP and Telnet and readRFB: a new bufio.Reader takes what is there,
\* returns its first line, and is dropped with the rest.  RFB only logs it.
ReadLineAndDrop ==
    /\ handler \in {"ftp", "telnet", "rfb"}
    /\ \E n \in 1..(sent - taken) : taken' = taken + n
    /\ got' = <<taken + 1>>
    /\ events' = IF handler = "rfb" THEN events
                 ELSE Append(events, entry("read", got', FALSE))
    /\ UNCHANGED <<held, cells>>

\* Mutant: SMTP makes a new reader for every line, too.
ReadLine_Drops ==
    /\ handler = "smtp"
    /\ \E n \in 1..(sent - taken) :
        /\ taken' = taken + n
        /\ held' = 0
        /\ got' = <<taken + 1>>
    /\ UNCHANGED <<cells, events>>

\* Client.read of SMTP: lines left in the bufio.Reader come first.
ReadLine ==
    /\ handler = "smtp"
    /\ \E n \in IF held > 0 THEN {0} ELSE 1..(sent - taken) :
        /\ taken' = taken + n
        /\ held' = held + n - 1
    /\ got' = <<taken - held + 1>>
    /\ UNCHANGED <<cells, events>>

\* The top of every loop: UpdateConnectionTimeout and a read that succeeds.
Read ==
    /\ pc = "read"
    /\ ReadBuffer \/ ReadMessage \/ ReadLineAndDrop \/ ReadLine
    /\ pc' = "message"
    /\ UNCHANGED <<handler, clientVars, stage, dataLeft, owed, next, wrote,
                   reports, conn, panicked>>

\* n replies, then the loop or wherever the handler goes from there.
answer(n, where) ==
    /\ owed' = n
    /\ next' = where
    /\ pc' = IF n = 0 THEN where ELSE "write"

\* Mutant: a failed read in the DATA loop is tried again.
ReadFails_Again ==
    /\ pc = "read" /\ held = 0
    /\ taken = sent \/ peer = "reset"
    /\ IF stage = "data" THEN UNCHANGED <<pc, owed, next>> ELSE answer(0, "end")
    /\ UNCHANGED <<handler, clientVars, readVars, stage, dataLeft, events,
                   wrote, reports, conn, panicked>>

\* A read ends with the stream, a reset or the deadline, and so does the
\* handler; in SMTP's DATA loop it only ends that loop, which is answered.
ReadFails ==
    /\ pc = "read" /\ held = 0
    /\ taken = sent \/ peer = "reset"
    /\ IF stage = "data" THEN answer(1, "read") ELSE answer(0, "end")
    /\ stage' = IF stage = "data" THEN "command" ELSE stage
    /\ UNCHANGED <<handler, clientVars, readVars, dataLeft, events, wrote,
                   reports, conn, panicked>>

-----------------------------------------------------------------------------
(* What each handler does with a message. *)

\* Give up: the deferred function runs.
giveUp == answer(0, "end") /\ UNCHANGED events

\* Note the message, and its reply if there is one and it is noted first.
note(replies) ==
    events' = Append(events, readEntry) \o
        [i \in 1..(IF handler \in NotesFirst THEN replies ELSE 0) |->
            entry("write", IF handler = "bittorrent" THEN got ELSE <<>>,
                  handler = "bittorrent")]

\* A parse error returns; only OPTIONS is answered.
HandleSIP ==
    \/ giveUp
    \/ \E n \in 0..1 : note(n) /\ answer(n, "read")

\* A read that fills the buffer is ignored.  After the message is noted,
\* ConnectionConfirm may still fail.
HandleRDP ==
    \/ Len(got) < BufUnits /\ giveUp
    \/ Len(got) < BufUnits /\ note(0) /\ answer(0, "end")
    \/ Len(got) < BufUnits /\ note(1) /\ answer(1, "read")
    \/ Len(got) = BufUnits /\ answer(0, "read") /\ UNCHANGED events

\* A message that parses is echoed.
HandleBittorrent ==
    \/ giveUp
    \/ note(1) /\ answer(1, "read")

\* A read that fills the buffer is ignored; some commands are answered, and
\* making the answer may fail.  (What is noted is the slice after the header.)
HandleSMB ==
    \/ Len(got) < BufUnits /\ giveUp
    \/ /\ Len(got) < BufUnits
       /\ note(0)
       /\ answer(0, "end") \/ \E n \in 0..1 : answer(n, "read")
    \/ Len(got) = BufUnits /\ answer(0, "read") /\ UNCHANGED events

\* A bad length ends the loop, one below the header's own size panics, and
\* every other message is answered.
HandleMongoDB ==
    \/ giveUp /\ UNCHANGED panicked
    \/ giveUp /\ panicked' = TRUE
    \/ note(0) /\ answer(1, "read") /\ UNCHANGED panicked

\* "err != nil || err != io.EOF" holds for every err: one read is all.
HandleFTP == giveUp

\* User name and password prompts, then a prompt after the replies to every
\* line.
HandleTelnet ==
    /\ CASE stage = "user" -> stage' = "pass" /\ answer(1, "read")
         [] stage = "pass" -> stage' = "shell" /\ answer(1, "read")
         [] stage = "shell" -> /\ stage' = "shell"
                               /\ \E n \in 1..MaxReplies : answer(n, "read")
    /\ UNCHANGED events

\* The version is answered with the security type and the pixel format; what
\* the client says next ends the session.
HandleRFB ==
    /\ IF stage = "user" THEN stage' = "pass" /\ answer(2, "read")
       ELSE UNCHANGED stage /\ answer(0, "end")
    /\ UNCHANGED events

\* A length that is no number ends the session, a negative one panics, and a
\* message that is complete is produced.
HandleADB ==
    \/ giveUp /\ UNCHANGED <<reports, panicked>>
    \/ giveUp /\ panicked' = TRUE /\ UNCHANGED reports
    \/ /\ giveUp
       /\ reports' = Append(reports, report(got, <<>>))
       /\ UNCHANGED panicked

\* What follows the line in the reader's buffer is produced with it, if the
\* line parses.
HandleJabber ==
    /\ giveUp
    /\ \/ UNCHANGED reports
       \/ reports' = Append(reports, report(cells, <<>>))

\* Every message is produced at once, as the whole buffer, then answered.
HandleMQTT ==
    /\ reports' = Append(reports, report(cells, <<>>))
    /\ answer(1, "read")
    /\ UNCHANGED events

\* The same; only "get" is answered.
HandleMemcache ==
    /\ reports' = Append(reports, report(cells, <<>>))
    /\ \E n \in 0..1 : answer(n, "read")
    /\ UNCHANGED events

\* handleISCSIMessage produces when it returns, with all entries so far: here
\* for a message that does not parse, otherwise after the reply.
HandleISCSI ==
    \/ giveUp /\ reports' = Append(reports, report(cells, events))
    \/ note(0) /\ answer(1, "read") /\ UNCHANGED reports

\* A command is answered: DATA starts the data loop, QUIT ends the session.
SMTPCommand ==
    /\ stage = "command"
    /\ \/ answer(1, "read") /\ UNCHANGED <<stage, dataLeft>>
       \/ /\ answer(1, "read")
          /\ stage' = "data" /\ dataLeft' = MaxDataRead + 1
       \/ answer(1, "end") /\ UNCHANGED <<stage, dataLeft>>
    /\ UNCHANGED reports

\* Mutant: the data loop counts its lines from the wrong end.
SMTPDataLine_NoLimit ==
    /\ stage = "data"
    /\ reports' = Append(reports, report(got, <<>>))
    /\ dataLeft' = dataLeft - 1
    /\ \/ stage' = "command" /\ answer(1, "read")
       \/ stage' = "data" /\ answer(0, "read")

\* A line of DATA is produced; a single dot, or the last line that may be
\* read, ends the loop.
SMTPDataLine ==
    /\ stage = "data"
    /\ reports' = Append(reports, report(got, <<>>))
    /\ dataLeft' = dataLeft - 1
    /\ \/ stage' = "command" /\ answer(1, "read")
       \/ dataLeft > 1 /\ stage' = "data" /\ answer(0, "read")

HandleSMTP == (SMTPCommand \/ SMTPDataLine) /\ UNCHANGED events

Message ==
    /\ pc = "message"
    /\ \/ /\ \/ handler = "sip" /\ HandleSIP
             \/ handler = "rdp" /\ HandleRDP
             \/ handler = "bittorrent" /\ HandleBittorrent
             \/ handler = "smb" /\ HandleSMB
             \/ handler = "ftp" /\ HandleFTP
          /\ UNCHANGED <<stage, dataLeft, reports, panicked>>
       \/ /\ handler = "mongodb" /\ HandleMongoDB
          /\ UNCHANGED <<stage, dataLeft, reports>>
       \/ handler = "adb" /\ HandleADB /\ UNCHANGED <<stage, dataLeft>>
       \/ /\ \/ handler = "telnet" /\ HandleTelnet
             \/ handler = "rfb" /\ HandleRFB
          /\ UNCHANGED <<dataLeft, reports, panicked>>
       \/ /\ \/ handler = "mqtt" /\ HandleMQTT
             \/ handler = "memcache" /\ HandleMemcache
             \/ handler = "iscsi" /\ HandleISCSI
             \/ handler = "jabber" /\ HandleJabber
          /\ UNCHANGED <<stage, dataLeft, panicked>>
       \/ /\ handler = "smtp" /\ HandleSMTP
          /\ UNCHANGED panicked
    /\ UNCHANGED <<handler, clientVars, readVars, wrote, conn>>

-----------------------------------------------------------------------------
(* Writing. *)

\* The greeting comes before the loop: two writes of Telnet, one of FTP, SMTP,
\* RFB and Jabber.
Greet ==
    /\ pc = "greet"
    /\ answer(CASE handler = "telnet" -> 2
                [] handler \in {"ftp", "smtp", "rfb", "jabber"} -> 1
                [] OTHER -> 0, "read")
    /\ UNCHANGED <<handler, clientVars, readVars, stage, dataLeft, events,
                   wrote, reports, conn, panicked>>

\* iSCSI produces once the exchange is over, whether its write succeeded.
exchangeReport(es) ==
    reports' = IF handler = "iscsi"
               THEN Append(reports, report(cells, es)) ELSE reports

\* Mutant: every handler notes its replies once they are written.
WriteOK_NotesAll ==
    /\ pc = "write"
    /\ wrote' = wrote + 1
    /\ owed' = owed - 1
    /\ pc' = IF owed = 1 THEN next ELSE "write"
    /\ events' = Append(events, entry("write", <<>>, FALSE))
    /\ exchangeReport(events')
    /\ UNCHANGED <<handler, clientVars, readVars, stage, dataLeft, next, conn,
                   panicked>>

\* A reply goes out; iSCSI's entry for it is the whole buffer.
WriteOK ==
    /\ pc = "write"
    /\ wrote' = wrote + 1
    /\ owed' = owed - 1
    /\ pc' = IF owed = 1 THEN next ELSE "write"
    /\ events' = IF handler \notin NotesAfter THEN events
                 ELSE Append(events, IF handler = "iscsi"
                                     THEN entry("write", cells, TRUE)
                                     ELSE entry("write", <<>>, FALSE))
    /\ exchangeReport(events')
    /\ UNCHANGED <<handler, clientVars, readVars, stage, dataLeft, next, conn,
                   panicked>>

\* A write fails and the handler returns; SMTP does not look at the error.
WriteFails ==
    /\ pc = "write"
    /\ IF handler = "smtp"
       THEN /\ owed' = owed - 1
            /\ pc' = IF owed = 1 THEN next ELSE "write"
       ELSE /\ owed' = 0
            /\ pc' = "end"
    /\ exchangeReport(events)
    /\ UNCHANGED <<handler, clientVars, readVars, stage, dataLeft, next,
                   events, wrote, conn, panicked>>

\* helpers.FirstOrEmpty(server.events).Payload
FirstOrEmpty(es) == IF es = <<>> THEN <<>> ELSE encoded(es[1]).payload

\* Mutant: a session without entries is not worth an event.
Return_OnlyIfEvents ==
    /\ pc = "end"
    /\ reports' = IF handler \in Deferring /\ events # <<>>
                  THEN Append(reports, report(FirstOrEmpty(events), events))
                  ELSE reports
    /\ conn' = IF handler = "memcache" THEN conn ELSE "closed"
    /\ pc' = "ended"
    /\ UNCHANGED <<handler, clientVars, readVars, stage, dataLeft, owed, next,
                   events, wrote, panicked>>

\* The deferred function, also while a panic unwinds: produce, then close.
\* HandleMemcache has none.
Return ==
    /\ pc = "end"
    /\ reports' = IF handler \in Deferring
                  THEN Append(reports, report(FirstOrEmpty(events), events))
                  ELSE reports
    /\ conn' = IF handler = "memcache" THEN conn ELSE "closed"
    /\ pc' = "ended"
    /\ UNCHANGED <<handler, clientVars, readVars, stage, dataLeft, owed, next,
                   events, wrote, panicked>>

SessionStep ==
    Greet \/ Read \/ ReadFails \/ Message \/ WriteOK \/ WriteFails \/ Return

\* The session is over.
SessionOver == pc = "ended" /\ UNCHANGED hVars

HNext == ClientSend \/ ClientLeaves \/ SessionStep \/ SessionOver

\* The goroutine runs when it can; tcpListen armed a deadline before it
\* started and every loop renews it, so no read or write waits for ever.
HSpec == HInit /\ [][HNext]_hVars /\ WF_hVars(SessionStep)

-----------------------------------------------------------------------------
(* Properties. *)

Entries == [dir : {"read", "write"}, units : Seq(0..taken), aliases : BOOLEAN]

\* Control states, counters and entries have their types.
HTypeOK ==
    /\ handler \in Names
    /\ peer \in {"open", "fin", "reset"}
    /\ sent \in 0..MaxSent /\ taken \in 0..sent /\ held \in 0..taken
    /\ cells \in [1..BufUnits -> 0..taken]
    /\ got \in Seq(1..taken)
    /\ stage \in {"user", "pass", "shell", "command", "data"}
    /\ dataLeft \in 0..(MaxDataRead + 1)
    /\ pc \in {"greet", "read", "message", "write", "end", "ended"}
    /\ next \in {"read", "end"}
    /\ owed \in 0..(MaxReplies + 1) /\ wrote \in Nat
    /\ \A i \in DOMAIN events : events[i] \in Entries
    /\ conn \in {"open", "closed"} /\ panicked \in BOOLEAN

\* A handler that produces when it returns does so exactly once, with every
\* entry it noted, on every path out: failed reads, parses and writes, and a
\* panic.  ADB and Jabber produce at most once, and only what they were sent.
ReportedOnce ==
    /\ handler \in Deferring =>
           IF pc = "ended"
           THEN /\ Len(reports) = 1
                /\ Len(reports[1].decoded) = Len(events)
           ELSE reports = <<>>
    /\ handler \in {"adb", "jabber"} /\ reports # <<>> =>
           Len(reports) = 1 /\ reports[1].payload[1] = 1 /\ ~panicked

\* The entries of the record for what the client said, and for the replies.
Said == {i \in DOMAIN events : events[i].dir = "read"}
Replied == {i \in DOMAIN events : events[i].dir = "write"}

\* Part 1: the record never has fewer replies than the client was sent.  It
\* has one more only where the reply is noted first, and then only while that
\* reply is being written or because writing it failed and ended the session.
RepliesRecorded ==
    handler \in NotesFirst \cup NotesAfter =>
        LET extra == Cardinality(Replied) - wrote IN
        \/ extra = 0
        \/ /\ extra = 1 /\ handler \in NotesFirst
           /\ pc \in {"write", "end", "ended"}

\* The first units of the payloads, in the order they were produced.
Produced == [i \in DOMAIN reports |-> reports[i].payload[1]]

\* Part 2: SMTP produces each line of a DATA block once and in order, and
\* within one block leaves none out, however the lines were cut into segments.
DataLinesInOrder ==
    handler = "smtp" =>
        /\ \A i, j \in DOMAIN Produced : i < j => Produced[i] < Produced[j]
        /\ stage = "data" =>
               LET n == MaxDataRead + 1 - dataLeft
                   last == taken - held - (IF pc = "message" THEN 1 ELSE 0)
               IN \A k \in 1..n : Produced[Len(reports) - n + k] = last - n + k

\* Part 3: MongoDB's record is the client's messages from the first on, none
\* missing; only the last one taken may be absent.  Telnet's and FTP's records
\* have the lines they have in the order they were sent.
TranscriptOrdered ==
    /\ handler = "mongodb" =>
           /\ \A i \in Said :
                  events[i].units[1] = Cardinality({j \in Said : j <= i})
           /\ taken - Cardinality(Said) \in 0..1
    /\ handler \in {"telnet", "ftp"} =>
           \A i, j \in Said :
               i < j => events[i].units[1] < events[j].units[1]

\* The record of a session agrees with the dialogue: as many replies as were
\* written (of handlers that note them; FTP's greeting is not), SMTP's DATA
\* lines, MongoDB's messages and Telnet's and FTP's lines in the order sent.
\* What the payloads of buffered handlers hold is ReportsLastRead's matter.
RecordFaithful == RepliesRecorded /\ DataLinesInOrder /\ TranscriptOrdered

\* A client that stops sending, or vanishes at any point of the dialogue,
\* does not keep the handler, not even from inside SMTP's DATA loop, and a
\* handler that has ended keeps no connection.  Of HandleMemcache, which has
\* no Close, only the first is claimed.
SessionEnds ==
    /\ <>(pc = "ended")
    /\ [](pc = "ended" /\ handler # "memcache" => conn = "closed")

\* Handlers that produce the read buffer itself, whole.
WholeBuffer == {"mqtt", "memcache", "iscsi", "jabber"}

\* The message that was read last is in the report as it was read, although
\* its bytes are in a buffer that earlier messages, ignored ones included,
\* were read into: at the front of a payload that is the whole buffer, and in
\* its own entry.  Entries that are copies are exact whenever they were made.
\* Nothing is claimed of the aliased entries of earlier messages.
ReportsLastRead ==
    [][reports' # reports =>
          LET r == reports'[Len(reports')] IN
          /\ handler \in WholeBuffer => SubSeq(r.payload, 1, Len(got)) = got
          /\ \A j \in DOMAIN r.decoded :
                (handler \notin Buffered \/ r.decoded[j].units = got) =>
                    r.decoded[j].payload = r.decoded[j].units]_hVars
=============================================================================
