----------------------------- MODULE Reporting -----------------------------
(***************************************************************************)
(* What happens to what was captured: helpers.Store writes a payload to a  *)
(* file named by its hash, then ProduceTCP or ProduceUDP hands an event to *)
(* hpfeeds and to the HTTP collector.  Every handler goroutine does this   *)
(* by itself; they share the directory, the one hpfeeds channel, and (UDP) *)
(* the receive buffer their payload is a slice of.                         *)
(*                                                                         *)
(* A flow is one such goroutine.  Kinds: "tcp" is HandleTCP's deferred     *)
(* function, "udp" is HandleUDP, "sample" is Telnet's getSample, which     *)
(* only stores.  A payload stands for its own hash and is written in       *)
(* Chunks pieces; file contents are recorded piece by piece.  Any way the  *)
(* process may end in the middle (a signal included) is Kill.              *)
(***************************************************************************)
EXTENDS Integers, FiniteSets

CONSTANTS
    Payloads,   \* contents a flow may capture
    Mixed,      \* any other content, as of two UDP packets in one slice
    Flows,      \* handler goroutines, each runs once
    Info,       \* what each flow captures, and how
    Setups,     \* whether a Producer exists, its setup, private sources
    MaxKills    \* bound: how often the process is killed and restarted

Kinds == {"tcp", "udp", "sample"}

ASSUME MixedAssumption == Mixed \notin Payloads
ASSUME InfoAssumption ==
    Info \in [Flows -> [kind : Kinds, payload : Payloads]]
ASSUME SetupsAssumption ==
    Setups \subseteq [producer : BOOLEAN, hpfeeds : BOOLEAN, http : BOOLEAN,
                      private : SUBSET Flows]
ASSUME KillsAssumption == MaxKills \in Nat

Chunks == 1..2
Contents == Payloads \cup {Mixed}

\* "missing" is a piece not written yet, or a hole left by a truncation.
ASSUME ContentsAssumption == Contents \cap {"missing", "absent"} = {}

Files == [Chunks -> Contents \cup {"missing", "absent"}]
Absent == [c \in Chunks |-> "absent"]

VARIABLES
    setup,      \* the configuration in force, and who connects
    kills, up,  \* how often the process was killed; it is running
    phase,      \* control state of each flow
    view,       \* what a flow's data slice holds now
    name,       \* the hash Store computed
    next,       \* the piece Store writes next
    files,      \* the payload directories
    pub,        \* hpfeeds publisher: "ready", "busy" or "stuck"
    hpf, http,  \* events of the flow each sink has received
    refused,    \* flows for which logHTTP returned an error
    hashed,     \* history: hashes Store has returned
    spoiled     \* history: files whose Store was disturbed

flowVars == <<view, name, next>>
sinkVars == <<pub, hpf, http, refused>>
history == <<hashed, spoiled>>
rpVars == <<setup, kills, up, phase, flowVars, files, sinkVars, history>>

RpInit ==
    /\ setup \in Setups
    /\ kills = 0 /\ up = TRUE
    /\ phase = [f \in Flows |-> "idle"]
    /\ view = [f \in Flows |-> Info[f].payload]
    /\ name = [f \in Flows |-> Info[f].payload]
    /\ next = [f \in Flows |-> 1]
    /\ files = [p \in Contents |-> Absent]
    /\ pub = "ready"
    /\ hpf = [f \in Flows |-> 0]
    /\ http = [f \in Flows |-> 0]
    /\ refused = {}
    /\ hashed = {} /\ spoiled = {}

goto(f, p) == phase' = [phase EXCEPT ![f] = p]

\* Flows that will create or write the file of p, having found none.
Storing(p) == {f \in Flows : phase[f] \in {"create", "write"} /\ name[f] = p}

Over == {"idle", "ended", "gone"}

Packets == {f \in Flows : Info[f].kind = "udp"}

\* UDP flows whose Store is still to read their slice of udpListen's buffer.
\* (Dispatch is about what ProduceUDP reads from it later.)
Exposed ==
    {f \in Packets : phase[f] \in {"stat", "create", "write"}}

disturb(gs) ==
    spoiled' = spoiled \cup {name[g] : g \in {h \in gs : h \in Storing(name[h])}}

-----------------------------------------------------------------------------
(* Where the payload comes from. *)

\* HandleTCP is done reading; with no byte read there is nothing to store.
Captured(f) ==
    /\ phase[f] = "idle" /\ Info[f].kind = "tcp"
    /\ goto(f, "stat") \/ goto(f, "produce")
    /\ UNCHANGED <<setup, kills, up, flowVars, files, sinkVars, history>>

\* udpListen reads a packet into the buffer that the slices of earlier ones
\* point into: they show the new packet, or parts of both while it is being
\* copied and where the lengths differ.
overwrite(gs) ==
    /\ \E v \in [gs -> {Mixed} \cup {Info[f].payload : f \in Packets}] :
        view' = [f \in Flows |-> IF f \in gs THEN v[f] ELSE view[f]]
    /\ disturb(gs)

\* The packet of flow f is read and its handler started.
UDPReceived(f) ==
    /\ phase[f] = "idle" /\ Info[f].kind = "udp"
    /\ overwrite(Exposed)
    /\ goto(f, "stat")
    /\ UNCHANGED <<setup, kills, up, name, next, files, sinkVars, hashed>>

\* Any other packet is read.
UDPOvertaken ==
    /\ Exposed # {}
    /\ overwrite(Exposed)
    /\ UNCHANGED <<setup, kills, up, phase, name, next, files, sinkVars, hashed>>

\* getSample's GET has a timeout; every failure just ends it.
GetSample(f) ==
    /\ \/ phase[f] = "idle" /\ Info[f].kind = "sample" /\ goto(f, "fetch")
       \/ phase[f] = "fetch" /\ (goto(f, "stat") \/ goto(f, "ended"))
    /\ UNCHANGED <<setup, kills, up, flowVars, files, sinkVars, history>>

-----------------------------------------------------------------------------
(* helpers.Store. *)

\* Mutant: a stored sample is reported like a payload.
afterStore_Reported(f) == "produce"

afterStore(f) == IF Info[f].kind = "sample" THEN "ended" ELSE "produce"

\* Store returns; its variables are gone and nothing below looks at the data.
leaveStore(f) ==
    /\ goto(f, afterStore(f))
    /\ view' = [view EXCEPT ![f] = Info[f].payload]
    /\ name' = [name EXCEPT ![f] = Info[f].payload]
    /\ next' = [next EXCEPT ![f] = 1]

\* Mutant: the file is not looked for.
StoreStat_NoCheck(f) ==
    /\ phase[f] = "stat"
    /\ name' = [name EXCEPT ![f] = view[f]]
    /\ goto(f, "create")
    /\ UNCHANGED <<setup, kills, up, view, next, files, sinkVars, history>>

\* Hash the data and look for the file: one that is there, whatever it
\* holds, ends the Store with an empty hash, as every error does.
StoreStat(f) ==
    /\ phase[f] = "stat"
    /\ \/ /\ files[view[f]] = Absent
          /\ name' = [name EXCEPT ![f] = view[f]]
          /\ goto(f, "create")
          /\ UNCHANGED <<view, next>>
       \/ /\ files[view[f]] # Absent
          /\ leaveStore(f)
    /\ UNCHANGED <<setup, kills, up, files, sinkVars, history>>

\* os.Create truncates what another Store may have written meanwhile.
StoreCreate(f) ==
    /\ phase[f] = "create"
    /\ files' = [files EXCEPT ![name[f]] = [c \in Chunks |-> "missing"]]
    /\ goto(f, "write")
    /\ UNCHANGED <<setup, kills, up, flowVars, sinkVars, history>>

\* A piece is written at its own offset; the last one completes the Store.
storeWrite(f, last) ==
    /\ phase[f] = "write"
    /\ files' = [files EXCEPT ![name[f]][next[f]] = view[f]]
    /\ IF next[f] = last
       THEN /\ leaveStore(f)
            /\ hashed' = hashed \cup {name[f]}
       ELSE /\ next' = [next EXCEPT ![f] = @ + 1]
            /\ UNCHANGED <<phase, view, name, hashed>>
    /\ UNCHANGED <<setup, kills, up, sinkVars, spoiled>>

\* Mutant: a short write counts as a complete one.
StoreWrite_Short(f) == storeWrite(f, 1)

StoreWrite(f) == storeWrite(f, Cardinality(Chunks))

\* MkdirAll, Create or Write fails; what was written stays.
StoreFails(f) ==
    /\ phase[f] \in {"stat", "create", "write"}
    /\ leaveStore(f)
    /\ spoiled' = IF phase[f] = "write" THEN spoiled \cup {name[f]}
                                        ELSE spoiled
    /\ UNCHANGED <<setup, kills, up, files, sinkVars, hashed>>

-----------------------------------------------------------------------------
(* ProduceTCP, ProduceUDP and the Producer. *)

\* The next call of LogTCP and LogUDP once one has returned nil.  When they
\* return, an error is logged and the handler closes its connection: "ended".
afterHPFeeds == IF setup.http THEN "http" ELSE "ended"

\* With a Producer the payload is sanitized and the event built.  The
\* scanner lookup asks DNS, and neither its error nor its name matters here.
MakeEvent(f) ==
    /\ phase[f] = "produce"
    /\ goto(f, CASE ~setup.producer -> "ended"
                 [] setup.producer /\ setup.hpfeeds -> "hpfeeds"
                 [] OTHER -> afterHPFeeds)
    /\ UNCHANGED <<setup, kills, up, flowVars, files, sinkVars, history>>

\* gob cannot encode an interface value of a type nobody registered, which
\* every non-nil Decoded is.
encodable(f) == Info[f].kind = "udp"

\* An encoding error ends LogTCP: the other sink is not tried.
EncodeFails(f) ==
    /\ phase[f] = "hpfeeds" /\ ~encodable(f)
    /\ goto(f, "ended")
    /\ UNCHANGED <<setup, kills, up, flowVars, files, sinkVars, history>>

\* The send on the unbuffered channel: it waits for the publisher.
LogHPFeeds(f) ==
    /\ phase[f] = "hpfeeds" /\ encodable(f)
    /\ pub = "ready"
    /\ pub' = "busy"
    /\ hpf' = [hpf EXCEPT ![f] = @ + 1]
    /\ goto(f, afterHPFeeds)
    /\ UNCHANGED <<setup, kills, up, flowVars, files, http, refused, history>>

\* The hpfeeds client sends to its broker, and may get stuck in that.
PublisherStep ==
    /\ pub = "busy"
    /\ pub' \in {"ready", "stuck"}
    /\ UNCHANGED <<setup, kills, up, phase, flowVars, files, hpf, http, refused,
                   history>>

\* Events of private sources are not posted.
SkipHTTP(f) ==
    /\ phase[f] = "http" /\ f \in setup.private
    /\ goto(f, "ended")
    /\ UNCHANGED <<setup, kills, up, flowVars, files, sinkVars, history>>

\* The collector answers the POST, with any status.
HTTPAnswered(f) ==
    /\ phase[f] = "http" /\ f \notin setup.private
    /\ http' = [http EXCEPT ![f] = @ + 1]
    /\ goto(f, "ended")
    /\ UNCHANGED <<setup, kills, up, flowVars, files, pub, hpf, refused, history>>

\* The POST fails or the client's timeout passes, before or after the
\* collector has got the event.
httpFails(f, then) ==
    /\ phase[f] = "http" /\ f \notin setup.private
    /\ \E n \in 0..1 : http' = [http EXCEPT ![f] = @ + n]
    /\ refused' = refused \cup {f}
    /\ goto(f, then)
    /\ UNCHANGED <<setup, kills, up, flowVars, files, pub, hpf, history>>

\* Mutant: a failed POST is sent again.
HTTPFails_Retry(f) ==
    httpFails(f, IF f \in refused THEN "ended" ELSE "http")

\* Mutant: the client has no timeout, and only the collector can end a POST.
HTTPFails_NoTimeout(f) == FALSE

HTTPFails(f) == httpFails(f, "ended")

-----------------------------------------------------------------------------
Store(f) == StoreStat(f) \/ StoreCreate(f) \/ StoreWrite(f) \/ StoreFails(f)

Log(f) ==
    MakeEvent(f) \/ EncodeFails(f) \/ LogHPFeeds(f) \/ SkipHTTP(f)
    \/ HTTPFails(f)

Arrive(f) == Captured(f) \/ UDPReceived(f) \/ GetSample(f)

\* The process ends at any point; only the files survive.
Kill ==
    /\ up /\ kills < MaxKills
    /\ up' = FALSE
    /\ kills' = kills + 1
    /\ phase' = [f \in Flows |-> IF phase[f] \in Over THEN phase[f]
                                                      ELSE "gone"]
    /\ view' = [f \in Flows |-> Info[f].payload]
    /\ name' = [f \in Flows |-> Info[f].payload]
    /\ next' = [f \in Flows |-> 1]
    /\ pub' = "ready"
    /\ disturb(Flows)
    /\ UNCHANGED <<setup, files, hpf, http, refused, hashed>>

Restart ==
    /\ ~up
    /\ up' = TRUE
    /\ UNCHANGED <<setup, kills, phase, flowVars, files, sinkVars, history>>

RpNext ==
    \/ /\ up
       /\ \/ \E f \in Flows : \/ Arrive(f) \/ Store(f)
                              \/ Log(f) \/ HTTPAnswered(f)
          \/ UDPOvertaken
          \/ PublisherStep
    \/ Kill
    \/ Restart

\* Goroutines run and timeouts pass.  Nothing is assumed of the collector,
\* and of the publisher only that it does not dither: it goes on or is stuck.
RpFairness ==
    /\ \A f \in Flows :
        /\ WF_rpVars(up /\ (Store(f) \/ Log(f)))
        /\ WF_rpVars(up /\ phase[f] = "fetch" /\ GetSample(f))
    /\ WF_rpVars(up /\ PublisherStep)

RpSpec == RpInit /\ [][RpNext]_rpVars /\ RpFairness

-----------------------------------------------------------------------------
(* Properties. *)

Phases == Over \cup {"fetch", "stat", "create", "write", "produce",
                     "hpfeeds", "http"}

\* Control states are those of the code, and no sink gets an event of a flow
\* that only stores.
RpTypeOK ==
    /\ kills \in 0..MaxKills /\ up \in BOOLEAN
    /\ phase \in [Flows -> Phases]
    /\ view \in [Flows -> Contents] /\ name \in [Flows -> Contents]
    /\ next \in [Flows -> Chunks]
    /\ files \in [Contents -> Files]
    /\ pub \in {"ready", "busy", "stuck"}
    /\ hpf \in [Flows -> Nat] /\ http \in [Flows -> Nat]
    /\ \A f \in Flows : Info[f].kind = "sample" => hpf[f] + http[f] = 0
    /\ refused \subseteq Flows
    /\ hashed \subseteq Contents /\ spoiled \subseteq Contents

Complete(p) == files[p] = [c \in Chunks |-> p]

\* However the Stores of one payload race (the later Create truncates what
\* the earlier one wrote), once none is under way the file holds exactly the
\* bytes its name is the hash of and some Store has returned that hash; only
\* a kill, a disk error or an overwritten UDP buffer during the Store can
\* leave anything else.
StoredIntact ==
    \A p \in Contents \ spoiled :
        (Storing(p) = {} /\ (files[p] # Absent \/ p \in hashed)) =>
            Complete(p) /\ p \in hashed

Settled(p) == Complete(p) /\ Storing(p) = {}

\* A payload that is stored and that nobody is storing is never opened for
\* writing again, by any later flow with the same bytes, across every kill
\* and restart.
SettledStays == [][\A p \in Contents : Settled(p) => Settled(p)']_rpVars

\* Events of flows that report: what LogTCP and LogUDP owe each sink, failed
\* POSTs and private sources apart, once the flow has run to its end.
Delivered(f) ==
    (phase[f] = "ended" /\ Info[f].kind # "sample" /\ setup.producer) =>
        /\ hpf[f] = IF setup.hpfeeds THEN 1 ELSE 0
        /\ (setup.http /\ f \notin setup.private /\ f \notin refused) =>
               http[f] = 1

\* No sink ever gets an event twice, however sinks fail and the process is
\* killed and restarted.  With the collector alone, and for every event that
\* hpfeeds can encode, no sink misses one either.  (EventsReachSinks is the
\* same without the exception.)
DeliveredOnce ==
    \A f \in Flows :
        /\ hpf[f] <= 1 /\ http[f] <= 1
        /\ (setup.hpfeeds => encodable(f)) => Delivered(f)

\* docs/logging.md of the two sinks: "marshals each event as JSON and POSTs
\* it", "publishes gob-encoded `producer.Event` values".
EventsReachSinks == \A f \in Flows : Delivered(f)

\* Every flow ends (its connection is closed) whatever the disk and the
\* collector do.  Only a publisher that is stuck holds flows, and only those
\* that are sending to it.
FlowsEnd ==
    \A f \in Flows :
        (phase[f] # "idle") ~> \/ phase[f] \in {"ended", "gone"}
                               \/ phase[f] = "hpfeeds" /\ pub = "stuck"
=============================================================================
