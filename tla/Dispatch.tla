------------------------------ MODULE Dispatch ------------------------------
(***************************************************************************)
(* The two listener loops of glutton.go, tcpListen and udpListen, on top   *)
(* of the connection table they share.  Each takes a flow, finds its rule, *)
(* registers its source endpoint and starts a handler goroutine with the   *)
(* Metadata the table returned.                                            *)
(*                                                                         *)
(* A handler is reduced to what it does with that Metadata and, for UDP,   *)
(* with the slice it was given: the events it produces and, for proxy_tcp, *)
(* the upstream it dials.  A payload is the number of the packet it came   *)
(* in.  Handlers run for as long as the process does: it ends when a       *)
(* goroutine panics, and when udpListen returns, which is what Start and   *)
(* main wait for.                                                          *)
(***************************************************************************)
EXTENDS ConnTable, Sequences

CONSTANTS
    Sources,        \* source endpoints; those outside Keys are not IPv4
    RuleList,       \* the rules of rules.yaml, in order
    TCPHandlers,    \* keys of tcpProtocolHandlers
    UDPHandlers,    \* keys of udpProtocolHandlers
    MaxFlows        \* bound: connections accepted and packets read

VARIABLES
    cancelled,      \* g.ctx is done
    up,             \* the process is running
    lpc,            \* control state of tcpListen
    conns,          \* TCP connections accepted so far
    upc,            \* control state of udpListen
    buffer,         \* udpListen's one read buffer
    packets,        \* UDP packets read so far, with their handler goroutines
    events          \* what was handed to the producer

listenVars == <<cancelled, up, lpc, conns, upc, buffer, packets, events>>
dVars == <<ctVars, listenVars>>

ASSUME SourcesAssumption == Keys \subseteq Sources
ASSUME RuleListAssumption == RuleList \in Seq(Rules)

-----------------------------------------------------------------------------
(* Rules. *)

\* The rules synthesized when none matches.
fallbackRule(network) ==
    [match |-> {}, type |-> "",
     target |-> IF network = "tcp" THEN "default" ELSE "udp"]

ASSUME FallbackAssumption == {fallbackRule("tcp"), fallbackRule("udp")} \subseteq Rules

\* Rules.Match: the first rule whose expression matches the flow.
Matches(network, port) ==
    {i \in DOMAIN RuleList : <<network, port>> \in RuleList[i].match}

applyRules(network, port) ==
    LET m == Matches(network, port) IN
    IF m = {} THEN fallbackRule(network)
    ELSE RuleList[CHOOSE i \in m : \A j \in m : i <= j]

\* A proxy_tcp rule has a ProxyTarget: parsed when the rules are loaded.
isProxy(rule) == rule # NoRule /\ rule.type = "proxy_tcp"

\* The key tcpListen looks up.
handlerName(rule) == IF isProxy(rule) THEN rule.type ELSE rule.target

-----------------------------------------------------------------------------
DInit ==
    /\ CTInit
    /\ cancelled = FALSE
    /\ up = TRUE
    /\ lpc = "select"
    /\ conns = <<>>
    /\ upc = "select"
    /\ buffer = 0
    /\ packets = <<>>
    /\ events = {}

\* The event a handler produces for a flow: makeEventTCP and makeEventUDP
\* take the port and the rule from the Metadata.
makeEvent(network, i, md, payload, dialled) ==
    [network |-> network, flow |-> i, dstPort |-> md.targetPort,
     rule |-> md.rule, payload |-> payload, dialled |-> dialled]

-----------------------------------------------------------------------------
(* tcpListen. *)

\* The top of the loop: the context is looked at between two Accepts only.
TCPSelect ==
    /\ lpc = "select"
    /\ lpc' = IF cancelled THEN "closed" ELSE "accept"
    /\ UNCHANGED <<ctVars, cancelled, up, conns, upc, buffer, packets, events>>

TCPAcceptFails ==
    /\ lpc = "accept"
    /\ lpc' = "select"
    /\ UNCHANGED <<ctVars, cancelled, up, conns, upc, buffer, packets, events>>

\* Accept and applyRulesOnConn.  A source that is not IPv4 makes the rule
\* matching fail: the loop goes on and the connection stays open.
TCPAccept ==
    /\ lpc = "accept"
    /\ Len(conns) + Len(packets) < MaxFlows
    /\ \E s \in Sources, p \in Ports :
        /\ conns' = Append(conns,
               [src |-> s, port |-> p, rule |-> applyRules("tcp", p),
                md |-> zeroMetadata, at |-> 0, state |-> "open"])
        /\ lpc' = IF s \in Keys THEN "register" ELSE "select"
    /\ UNCHANGED <<ctVars, cancelled, up, upc, buffer, packets, events>>

\* Mutant: the port of a known endpoint is refreshed, its rule is not.
registered_Port(k, dstPort) == [table'[k] EXCEPT !.targetPort = dstPort]

\* The Metadata Register returns: the entry, new or old, as a copy.
registered(k, dstPort) == table'[k]

\* Mutant: the handler is looked up by the rule in the metadata.
chosenHandler_Metadata(matched, md) == handlerName(md.rule)

\* The rule just matched names the handler, not the one in the metadata.
chosenHandler(matched, md) == handlerName(matched)

\* RegisterConn, and the start of the handler chosen by name; with no such
\* handler the connection stays open.
TCPDispatch ==
    LET i == Len(conns) IN
    LET c == conns[i] IN
    /\ lpc = "register"
    /\ Register(c.src, c.rule, c.port)
    /\ LET md == registered(c.src, c.port)
           h == chosenHandler(c.rule, md) IN
       conns' = [conns EXCEPT
           ![i].md = md, ![i].at = now,
           ![i].state = IF h \in TCPHandlers THEN h ELSE "open"]
    /\ lpc' = "select"
    /\ UNCHANGED <<now, nextTick, pending, cancelled, up, upc, buffer,
                   packets, events>>

\* A handler may report what it was sent, any number of times: SMTP and MQTT
\* do so per message, RFB never.
ProduceTCP(i) ==
    LET c == conns[i] IN
    /\ c.state \notin {"open", "closed", "proxy_tcp"}
    /\ events' = events \cup {makeEvent("tcp", i, c.md, 0, "")}
    /\ UNCHANGED <<ctVars, cancelled, up, lpc, conns, upc, buffer, packets>>

\* A handler goroutine ends.  proxy_tcp has dialled the upstream of md.Rule
\* and reports it once, or returned without an event if there is none.
CloseTCP(i) ==
    LET c == conns[i] IN
    /\ c.state \notin {"open", "closed"}
    /\ conns' = [conns EXCEPT ![i].state = "closed"]
    /\ events' = events \cup
         (IF c.state = "proxy_tcp" /\ isProxy(c.md.rule)
          THEN {makeEvent("tcp", i, c.md, 0, c.md.rule.target)} ELSE {})
    /\ UNCHANGED <<ctVars, cancelled, up, lpc, upc, buffer, packets>>

\* A handler panics, which nothing recovers: the process ends.
PanicTCP(i) ==
    /\ conns[i].state \notin {"open", "closed", "proxy_tcp"}
    /\ up' = FALSE
    /\ UNCHANGED <<ctVars, cancelled, lpc, conns, upc, buffer, packets, events>>

HandleTCP(i) == ProduceTCP(i) \/ CloseTCP(i) \/ PanicTCP(i)

-----------------------------------------------------------------------------
(* udpListen. *)

UDPSelect ==
    /\ upc = "select"
    /\ upc' = IF cancelled THEN "closed" ELSE "read"
    /\ UNCHANGED <<ctVars, cancelled, up, lpc, conns, buffer, packets, events>>

\* Mutant: a timeout reads again without looking at the context.
UDPReadTimesOut_Retry ==
    /\ upc = "read"
    /\ UNCHANGED dVars

\* The read deadline of one second passes.
UDPReadTimesOut ==
    /\ upc = "read"
    /\ upc' = "select"
    /\ UNCHANGED <<ctVars, cancelled, up, lpc, conns, buffer, packets, events>>

\* Any other error is only logged; the nil source address is then
\* dereferenced and the panic ends the process.
UDPReadFails ==
    /\ upc = "read"
    /\ up' = FALSE
    /\ UNCHANGED <<ctVars, cancelled, lpc, conns, upc, buffer, packets, events>>

\* Mutant: a read of no bytes is taken for a packet.
UDPRead_Empty ==
    /\ upc = "read"
    /\ upc' = "register"
    /\ buffer' = buffer + 1
    /\ UNCHANGED <<ctVars, cancelled, up, lpc, conns, packets, events>>

\* ReadFromUDP fills the shared buffer; applyRules (whose failure leaves the
\* fallback rule).
UDPRead ==
    /\ upc = "read"
    /\ Len(conns) + Len(packets) < MaxFlows
    /\ buffer' = Len(packets) + 1
    /\ \E s \in Sources, p \in Ports :
        packets' = Append(packets,
            [src |-> s, port |-> p,
             rule |-> IF s \in Keys THEN applyRules("udp", p)
                      ELSE fallbackRule("udp"),
             md |-> zeroMetadata, at |-> 0, state |-> "read", stored |-> 0])
    /\ upc' = "register"
    /\ UNCHANGED <<ctVars, cancelled, up, lpc, conns, events>>

\* Register, whose failure leaves a zero Metadata, and the start of the
\* handler goroutine.
UDPDispatch ==
    LET i == Len(packets) IN
    LET p == packets[i] IN
    /\ upc = "register"
    /\ IF p.src \in Keys THEN Register(p.src, p.rule, p.port)
                         ELSE UNCHANGED table
    /\ packets' = [packets EXCEPT
           ![i].md = IF p.src \in Keys THEN registered(p.src, p.port)
                    ELSE zeroMetadata,
           ![i].at = now,
           ![i].state = IF p.rule.target \in UDPHandlers THEN "store"
                        ELSE "ignored"]
    /\ upc' = "select"
    /\ UNCHANGED <<now, nextTick, pending, cancelled, up, lpc, conns, buffer,
                   events>>

\* Mutant: HandleUDP gives up if it cannot store the payload.
StoreUDP_Required(i) ==
    /\ packets[i].state = "store"
    /\ packets' = [packets EXCEPT ![i].stored = buffer,
                                  ![i].state = "ignored"]
    /\ UNCHANGED <<ctVars, cancelled, up, lpc, conns, upc, buffer, events>>

\* HandleUDP stores, then produces: each reads the slice, which aliases the
\* buffer udpListen reads the next packet into.
StoreUDP(i) ==
    /\ packets[i].state = "store"
    /\ packets' = [packets EXCEPT ![i].stored = buffer,
                                  ![i].state = "produce"]
    /\ UNCHANGED <<ctVars, cancelled, up, lpc, conns, upc, buffer, events>>

ProduceUDP(i) ==
    /\ packets[i].state = "produce"
    /\ packets' = [packets EXCEPT ![i].state = "done"]
    /\ events' = events \cup {makeEvent("udp", i, packets[i].md, buffer, "")}
    /\ UNCHANGED <<ctVars, cancelled, up, lpc, conns, upc, buffer>>

HandleUDP(i) == StoreUDP(i) \/ ProduceUDP(i)

-----------------------------------------------------------------------------
DCancel ==
    /\ ~cancelled
    /\ cancelled' = TRUE
    /\ UNCHANGED <<ctVars, up, lpc, conns, upc, buffer, packets, events>>

\* udpListen has returned: so do Start and main, whatever still runs.
ProcessEnds ==
    /\ upc = "closed"
    /\ up' = FALSE
    /\ UNCHANGED <<ctVars, cancelled, lpc, conns, upc, buffer, packets, events>>

tcpListen == TCPSelect \/ TCPAcceptFails \/ TCPAccept \/ TCPDispatch
udpListen == UDPSelect \/ UDPReadTimesOut \/ UDPRead \/ UDPDispatch

DNext ==
    /\ up
    /\ \/ CTStep /\ UNCHANGED listenVars
       \/ tcpListen
       \/ udpListen
       \/ UDPReadFails
       \/ \E i \in DOMAIN conns : HandleTCP(i)
       \/ \E i \in DOMAIN packets : HandleUDP(i)
       \/ DCancel
       \/ ProcessEnds

\* Goroutines that can run do run, and a UDP read returns within its
\* deadline.  Nothing is assumed of Accept, of TCP handlers, nor of who sends
\* what.
DFairness ==
    /\ WF_dVars(up /\ udpListen)
    /\ \A i \in 1..MaxFlows :
           WF_dVars(up /\ i \in DOMAIN packets /\ HandleUDP(i))

DSpec == DInit /\ [][DNext]_dVars /\ DFairness

-----------------------------------------------------------------------------
(* Properties. *)

ConnStates == {"open", "closed"} \cup TCPHandlers
PacketStates == {"read", "store", "produce", "done", "ignored"}
flowType(states) ==
    [src : Sources, port : Ports, rule : Rules, at : Nat,
     md : Metadata \cup {zeroMetadata}, state : states]

\* Listener states, flows and events have their types: in particular no
\* event names a flow that was not taken.
DTypeOK ==
    /\ CTTypeOK
    /\ cancelled \in BOOLEAN /\ up \in BOOLEAN
    /\ lpc \in {"select", "accept", "register", "closed"}
    /\ upc \in {"select", "read", "register", "closed"}
    /\ \A i \in DOMAIN conns : conns[i] \in flowType(ConnStates)
    /\ buffer = Len(packets)
    /\ \A i \in DOMAIN packets : packets[i].state \in PacketStates
    /\ \A e \in events : e.flow \in IF e.network = "tcp" THEN DOMAIN conns
                                    ELSE DOMAIN packets

\* All flows, TCP and UDP, that reached the table.
Flows == {conns[i] : i \in DOMAIN conns} \cup
         {packets[i] : i \in DOMAIN packets}

\* The Metadata a handler is given, on either listener, is that of a flow
\* from the same source endpoint which registered at most MaxAge ago: key
\* reuse is the only way to get a stale one, and only for so long.
MetadataFromRecentFlow ==
    \A f \in Flows : f.md # zeroMetadata =>
        \E g \in Flows :
            /\ g.src = f.src
            /\ f.md = [added |-> g.at, rule |-> g.rule,
                       targetPort |-> g.port]
            /\ f.at - g.at \in 0..MaxAge

\* Only a connection whose own first matching rule names proxy_tcp is forwarded
\* to an upstream, whatever metadata it was given.  (A rule names it by its
\* type or, which the loader does not refuse, a conn_handler rule by its target.)
OnlyProxyRulesForward ==
    \A e \in events :
        e.dialled # "" => handlerName(conns[e.flow].rule) = "proxy_tcp"

\* While the process lives, every UDP packet given to a handler is reported,
\* even one whose source could not be registered, whatever arrives after it.
\* The process may end first: at a panic, or when main returns after a
\* cancellation, which does not wait for handlers.
PacketsReported ==
    \A i \in 1..MaxFlows :
        (i \in DOMAIN packets /\ packets[i].state = "store")
        ~> (~up \/ \E e \in events : e.network = "udp" /\ e.flow = i)

\* Cancelling the context ends the UDP loop, whether or not packets arrive:
\* what Start waits for.
CancelStopsUDP == cancelled ~> (~up \/ upc = "closed")

\* docs/configuration.md of proxy_tcp rules: "forwards a matched TCP
\* connection to an upstream `host:port`".
ProxyDialsOwnUpstream ==
    \A i \in DOMAIN conns :
        (isProxy(conns[i].rule) /\ conns[i].state = "closed") =>
            \E e \in events : /\ e.network = "tcp" /\ e.flow = i
                              /\ e.dialled = conns[i].rule.target
=============================================================================
