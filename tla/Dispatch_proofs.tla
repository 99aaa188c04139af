-------------------------- MODULE Dispatch_proofs ---------------------------
(***************************************************************************)
(* The two listeners use the table as ConnTable says (so what is proved of *)
(* the table on its own holds under them), and for any rules, handlers,    *)
(* sources and number of flows: what metadata a handler can be given, who  *)
(* is forwarded to an upstream, and that a packet its handler is through   *)
(* with, or a forwarded connection, is reported once.                      *)
(***************************************************************************)
EXTENDS Dispatch, ConnTable_proofs, WellFoundedInduction

ConnType == flowType(ConnStates)
PacketType ==
    [src : Sources, port : Ports, rule : Rules, at : Nat,
     md : Metadata \cup {zeroMetadata}, state : PacketStates, stored : Nat]

\* Types of the listeners' state.
ListInv ==
    /\ cancelled \in BOOLEAN /\ up \in BOOLEAN
    /\ lpc \in {"select", "accept", "register", "closed"}
    /\ upc \in {"select", "read", "register", "closed"}
    /\ conns \in Seq(ConnType)
    /\ packets \in Seq(PacketType)
    /\ buffer = Len(packets)

\* A listener about to register has taken a flow that has no metadata yet.
LoopInv ==
    /\ lpc = "register" => /\ conns # <<>>
                           /\ conns[Len(conns)].src \in Keys
                           /\ conns[Len(conns)].md = zeroMetadata
    /\ upc = "register" => /\ packets # <<>>
                           /\ packets[Len(packets)].md = zeroMetadata

\* Who runs the forwarder was sent there by his own rule.
ForwardInv ==
    \A i \in DOMAIN conns :
        conns[i].state = "proxy_tcp" => handlerName(conns[i].rule) = "proxy_tcp"

\* Flow g registered endpoint k and thereby made the entry md.
Made(g, k, md) ==
    /\ g.md # zeroMetadata
    /\ g.src = k
    /\ md = [added |-> g.at, rule |-> g.rule, targetPort |-> g.port]

\* One of the connections cs or of the packets ps did.
Owned(cs, ps, k, md) ==
    \/ \E i \in DOMAIN cs : Made(cs[i], k, md)
    \/ \E i \in DOMAIN ps : Made(ps[i], k, md)

\* The metadata flow f was given by time t was made by a flow of the same
\* endpoint, and was not too old when it was given.
Given(cs, ps, t, f) ==
    /\ f.at <= t
    /\ f.md # zeroMetadata => /\ Owned(cs, ps, f.src, f.md)
                              /\ f.at - f.md.added \in 0..MaxAge

\* MetadataFromRecentFlow speaks of metadata already given; what will be given
\* next is in the table.
OwnerInv ==
    /\ \A k \in Keys : present(k) => Owned(conns, packets, k, table[k])
    /\ \A i \in DOMAIN conns : Given(conns, packets, now, conns[i])
    /\ \A i \in DOMAIN packets : Given(conns, packets, now, packets[i])

\* An event names a flow of its protocol; only the forwarder dials.
Reported(cs, ps, e) ==
    \/ /\ e.network = "tcp" /\ e.flow \in DOMAIN cs
       /\ e.dialled # "" => handlerName(cs[e.flow].rule) = "proxy_tcp"
    \/ /\ e.network = "udp" /\ e.flow \in DOMAIN ps
       /\ e.dialled = ""

EventInv == \A e \in events : Reported(conns, packets, e)

\* The inductive invariant.
DInv ==
    /\ CTInv
    /\ ListInv
    /\ LoopInv
    /\ ForwardInv
    /\ OwnerInv
    /\ EventInv

-----------------------------------------------------------------------------
(* The rules. *)

\* A set of indices has a least one.
LEMMA LeastIndex ==
    ASSUME NEW S \in SUBSET Nat, S # {}
    PROVE  \E i \in S : \A j \in S : i <= j
<1> DEFINE Less == {ij \in Nat \X Nat : ij[1] < ij[2]}
<1>1. IsWellFoundedOn(Less, Nat)
    BY NatLessThanWellFounded DEF OpToRel
<1>2. PICK i \in S : \A j \in S : ~(<<j, i>> \in Less)
    BY <1>1, WFMin, Zenon
<1>3. \A j \in S : ~(j < i)
    <2> SUFFICES ASSUME NEW j \in S, j < i PROVE FALSE
        OBVIOUS
    <2>1. <<j, i>> \in Nat \X Nat /\ <<j, i>>[1] < <<j, i>>[2]
        BY Z3
    <2>2. <<j, i>> \in Less
        BY <2>1, Zenon
    <2> QED
        BY <1>2, <2>2, Zenon
<1> HIDE DEF Less
<1>4. \A j \in S : i <= j
    BY <1>3
<1> QED
    BY <1>4

\* Rules.Match always decides: the first matching rule, or the synthesized
\* one.
LEMMA RuleFound ==
    ASSUME NEW network \in {"tcp", "udp"}, NEW port
    PROVE  applyRules(network, port) \in Rules
<1> DEFINE m == Matches(network, port)
<1>1. m \subseteq DOMAIN RuleList /\ DOMAIN RuleList \subseteq Nat
    BY RuleListAssumption DEF Matches
<1>2. CASE m = {}
    BY <1>2, FallbackAssumption DEF applyRules
<1>3. CASE m # {}
    <2> DEFINE first == CHOOSE i \in m : \A j \in m : i <= j
    <2>1. first \in m
        BY <1>1, <1>3, LeastIndex
    <2> HIDE DEF first
    <2>2. RuleList[first] \in Rules
        BY <1>1, <2>1, RuleListAssumption
    <2> QED
        BY <1>3, <2>2 DEF applyRules, first
<1> QED
    BY <1>2, <1>3

-----------------------------------------------------------------------------
(* What every step leaves of the flows. *)

\* A flow keeps its endpoint, port and rule, and its metadata once it has one.
Kept(f, g) ==
    /\ g.src = f.src /\ g.port = f.port /\ g.rule = f.rule
    /\ f.md # zeroMetadata => g.at = f.at /\ g.md = f.md

FlowsKept(fs, gs) ==
    \A i \in DOMAIN fs : i \in DOMAIN gs /\ Kept(fs[i], gs[i])

\* So an entry stays the work of the flow that made it.
LEMMA OwnedStays ==
    ASSUME NEW cs, NEW ds, NEW ps, NEW qs, FlowsKept(cs, ds), FlowsKept(ps, qs),
           NEW k, NEW md, Owned(cs, ps, k, md)
    PROVE  Owned(ds, qs, k, md)
<1>1. CASE \E i \in DOMAIN cs : Made(cs[i], k, md)
    BY <1>1 DEF FlowsKept, Kept, Owned, Made
<1>2. CASE \E i \in DOMAIN ps : Made(ps[i], k, md)
    BY <1>2 DEF FlowsKept, Kept, Owned, Made
<1> QED
    BY <1>1, <1>2 DEF Owned

\* What was given stays as recent as it was.
LEMMA GivenStays ==
    ASSUME NEW cs, NEW ds, NEW ps, NEW qs, FlowsKept(cs, ds), FlowsKept(ps, qs),
           NEW t \in Nat, NEW u \in Nat, t <= u,
           NEW f, NEW g, f.at \in Nat, Given(cs, ps, t, f),
           g.src = f.src, g.md = f.md, g.at = f.at
    PROVE  Given(ds, qs, u, g)
<1>1. g.at <= u
    BY DEF Given
<1>2. ASSUME g.md # zeroMetadata
      PROVE  Owned(ds, qs, g.src, g.md) /\ g.at - g.md.added \in 0..MaxAge
    BY <1>2, OwnedStays DEF Given
<1> QED
    BY <1>1, <1>2 DEF Given

\* An event stays about the flow it names.
LEMMA EventStays ==
    ASSUME NEW cs, NEW ds, NEW ps, NEW qs, FlowsKept(cs, ds), FlowsKept(ps, qs),
           NEW e, Reported(cs, ps, e)
    PROVE  Reported(ds, qs, e)
<1>1. CASE /\ e.network = "tcp" /\ e.flow \in DOMAIN cs
           /\ e.dialled # "" => handlerName(cs[e.flow].rule) = "proxy_tcp"
    BY <1>1 DEF Reported, FlowsKept, Kept
<1>2. CASE e.network = "udp" /\ e.flow \in DOMAIN ps /\ e.dialled = ""
    BY <1>2 DEF Reported, FlowsKept
<1> QED
    BY <1>1, <1>2 DEF Reported

\* The fields of a flow.
LEMMA ConnFields ==
    ASSUME ListInv, NEW i \in DOMAIN conns
    PROVE  /\ conns[i] \in ConnType
           /\ conns[i].at \in Nat
           /\ conns[i].rule \in Rules /\ conns[i].port \in Ports
<1>1. conns[i] \in ConnType
    BY DEF ListInv
<1> QED
    BY <1>1 DEF ConnType, flowType

LEMMA PacketFields ==
    ASSUME ListInv, NEW i \in DOMAIN packets
    PROVE  /\ packets[i] \in PacketType
           /\ packets[i].at \in Nat
           /\ packets[i].rule \in Rules /\ packets[i].port \in Ports
<1>1. packets[i] \in PacketType
    BY DEF ListInv
<1> QED
    BY <1>1 DEF PacketType

-----------------------------------------------------------------------------
(* The initial state, the table's own steps and those that only move a *)
(* listener's control. *)

LEMMA InitDInv == DInit => DInv
<1> SUFFICES ASSUME DInit PROVE DInv
    OBVIOUS
<1>1. CTInv
    BY CTInitInv DEF DInit
<1>2. conns = <<>> /\ packets = <<>>
    BY DEF DInit
<1>a. ListInv
    <2>1. conns \in Seq(ConnType) /\ packets \in Seq(PacketType) /\ Len(packets) = 0
        BY <1>2
    <2> QED
        BY <2>1 DEF DInit, ListInv
<1>b. LoopInv /\ ForwardInv
    BY <1>2 DEF DInit, LoopInv, ForwardInv
<1>3. OwnerInv
    BY DEF DInit, CTInit, OwnerInv, present
<1>4. EventInv
    BY DEF DInit, EventInv
<1> QED
    BY <1>1, <1>a, <1>b, <1>3, <1>4 DEF DInv

\* Flows keep their metadata in a step that touches neither sequence.
LEMMA SameFlows ==
    ASSUME DInv, CTInv', UNCHANGED <<conns, packets, buffer, events>>, now <= now',
           \A k \in Keys : present(k)' => present(k) /\ table'[k] = table[k]
    PROVE  ForwardInv' /\ OwnerInv' /\ EventInv'
<1>1. FlowsKept(conns, conns) /\ FlowsKept(packets, packets)
    BY DEF FlowsKept, Kept
<1>2. now \in Nat /\ now' \in Nat
    BY DEF DInv, CTInv, CTTypeOK
<1>3. \A k \in Keys : present(k)' => Owned(conns', packets', k, table'[k])
    BY DEF DInv, OwnerInv
<1>4. \A i \in DOMAIN conns : Given(conns', packets', now', conns'[i])
    <2> SUFFICES ASSUME NEW i \in DOMAIN conns
                 PROVE  Given(conns, packets, now', conns[i])
        OBVIOUS
    <2>1. conns[i].at \in Nat /\ Given(conns, packets, now, conns[i])
        BY ConnFields DEF DInv, OwnerInv
    <2> QED
        BY <1>1, <1>2, <2>1, GivenStays
<1>5. \A i \in DOMAIN packets : Given(conns', packets', now', packets'[i])
    <2> SUFFICES ASSUME NEW i \in DOMAIN packets
                 PROVE  Given(conns, packets, now', packets[i])
        OBVIOUS
    <2>1. packets[i].at \in Nat /\ Given(conns, packets, now, packets[i])
        BY PacketFields DEF DInv, OwnerInv
    <2> QED
        BY <1>1, <1>2, <2>1, GivenStays
<1>6. OwnerInv'
    BY <1>3, <1>4, <1>5 DEF OwnerInv
<1>7. ForwardInv' /\ EventInv'
    BY DEF DInv, ForwardInv, EventInv
<1> QED
    BY <1>6, <1>7

\* A step that touches neither the flows nor the listeners' place keeps the
\* listeners' part of the invariant.
LEMMA SameListeners ==
    ASSUME DInv, CTInv', UNCHANGED listenVars, now <= now',
           \A k \in Keys : present(k)' => present(k) /\ table'[k] = table[k]
    PROVE  DInv'
<1> UNCHANGED <<cancelled, up, lpc, conns, upc, buffer, packets, events>>
    BY DEF listenVars
<1>1. ListInv' /\ LoopInv'
    BY DEF DInv, ListInv, LoopInv
<1> QED
    BY <1>1, SameFlows DEF DInv

\* The ticker, the flush and the clock.
LEMMA TableStepDInv ==
    ASSUME DInv, CTStep, UNCHANGED listenVars
    PROVE  DInv'
<1>1. CTInv'
    BY CTNextInv DEF DInv, CTNext
<1>2. now \in Nat
    BY DEF DInv, CTInv, CTTypeOK
<1>3. now <= now'
    BY <1>2 DEF CTStep, Tick, Flush, Advance
<1>4. \A k \in Keys : present(k)' => present(k) /\ table'[k] = table[k]
    BY DEF CTStep, Tick, Flush, Advance, FlushOlderThan, present
<1> QED
    BY <1>1, <1>3, <1>4, SameListeners

\* The steps of a listener that take no flow, the cancellation, and the ends
\* of the process.
LEMMA ControlDInv ==
    ASSUME DInv,
           \/ TCPSelect \/ TCPAcceptFails \/ UDPSelect \/ UDPReadTimesOut
           \/ UDPReadFails \/ DCancel \/ ProcessEnds
           \/ \E i \in DOMAIN conns : PanicTCP(i)
    PROVE  DInv'
<1> UNCHANGED <<ctVars, conns, packets, buffer, events>>
    BY DEF TCPSelect, TCPAcceptFails, UDPSelect, UDPReadTimesOut, UDPReadFails, DCancel,
           ProcessEnds, PanicTCP
<1> UNCHANGED <<now, table, nextTick, pending>>
    BY DEF ctVars
<1>1. CTInv'
    BY CTNextInv DEF DInv
<1>2. now <= now' /\ \A k \in Keys : present(k)' => present(k) /\ table'[k] = table[k]
    BY DEF DInv, CTInv, CTTypeOK, present
<1>3. /\ cancelled' \in BOOLEAN /\ up' \in BOOLEAN
      /\ lpc' \in {"select", "accept", "closed", lpc}
      /\ upc' \in {"select", "read", "closed", upc}
    BY DEF TCPSelect, TCPAcceptFails, UDPSelect, UDPReadTimesOut, UDPReadFails, DCancel,
           ProcessEnds, PanicTCP, DInv, ListInv
<1>4. ListInv'
    BY <1>3 DEF DInv, ListInv
<1>5. LoopInv'
    BY <1>3 DEF DInv, LoopInv
<1> QED
    BY <1>1, <1>2, <1>4, <1>5, SameFlows DEF DInv

-----------------------------------------------------------------------------
(* A flow is taken. *)

\* A flow just taken has no metadata yet.
LEMMA NewFlowGiven ==
    ASSUME NEW cs, NEW ps, NEW t \in Nat, NEW f, f.at = 0, f.md = zeroMetadata
    PROVE  Given(cs, ps, t, f)
BY DEF Given

\* Appending keeps what was there.
LEMMA AppendKeeps ==
    ASSUME NEW S, NEW fs \in Seq(S), NEW f \in S
    PROVE  /\ Append(fs, f) \in Seq(S)
           /\ Len(Append(fs, f)) = Len(fs) + 1
           /\ Append(fs, f) # <<>>
           /\ Append(fs, f)[Len(fs) + 1] = f
           /\ \A i \in DOMAIN fs : Append(fs, f)[i] = fs[i]
           /\ DOMAIN fs = 1..Len(fs)
           /\ DOMAIN Append(fs, f) = 1..(Len(fs) + 1)
           /\ FlowsKept(fs, Append(fs, f))
<1>1. /\ Append(fs, f) \in Seq(S)
      /\ Len(Append(fs, f)) = Len(fs) + 1
      /\ Append(fs, f)[Len(fs) + 1] = f
      /\ \A i \in DOMAIN fs : Append(fs, f)[i] = fs[i]
      /\ DOMAIN fs = 1..Len(fs) /\ Len(fs) \in Nat
      /\ DOMAIN Append(fs, f) = 1..(Len(fs) + 1)
    OBVIOUS
<1>2. Append(fs, f) # <<>>
    BY <1>1
<1>3. \A i \in DOMAIN fs : i \in DOMAIN Append(fs, f) /\ Kept(fs[i], Append(fs, f)[i])
    BY <1>1 DEF Kept
<1> QED
    BY <1>1, <1>2, <1>3 DEF FlowsKept

\* f, taken before the step, goes on as g; or g is taken in the step.
Carried(f, g) == g.src = f.src /\ g.md = f.md /\ g.at = f.at
Fresh(g) == g.md = zeroMetadata /\ g.at = 0

\* Steps that give nobody metadata.
LEMMA FlowStep ==
    ASSUME DInv, ListInv', UNCHANGED ctVars,
           FlowsKept(conns, conns'), FlowsKept(packets, packets'),
           Len(packets) <= Len(packets'),
           \A i \in DOMAIN conns' : \/ i \in DOMAIN conns /\ Carried(conns[i], conns'[i])
                                    \/ Fresh(conns'[i]),
           \A i \in DOMAIN packets' :
               \/ i \in DOMAIN packets /\ Carried(packets[i], packets'[i])
               \/ Fresh(packets'[i]),
           \A e \in events' : e \in events \/ Reported(conns', packets', e)
    PROVE  CTInv' /\ OwnerInv' /\ EventInv'
<1> UNCHANGED <<now, table, nextTick, pending>>
    BY DEF ctVars
<1>1. CTInv' /\ now \in Nat
    BY CTNextInv DEF DInv, CTInv, CTTypeOK
<1>2. \A k \in Keys : present(k)' => Owned(conns', packets', k, table'[k])
    BY OwnedStays DEF DInv, OwnerInv, present
<1>3. \A i \in DOMAIN conns' : Given(conns', packets', now', conns'[i])
    <2> SUFFICES ASSUME NEW i \in DOMAIN conns'
                 PROVE  Given(conns', packets', now, conns'[i])
        OBVIOUS
    <2>1. CASE Fresh(conns'[i])
        BY <1>1, <2>1, NewFlowGiven DEF Fresh
    <2>2. CASE i \in DOMAIN conns /\ Carried(conns[i], conns'[i])
        <3>1. conns[i].at \in Nat /\ Given(conns, packets, now, conns[i])
            BY <2>2, ConnFields DEF DInv, OwnerInv
        <3> QED
            BY <1>1, <2>2, <3>1, GivenStays DEF Carried
    <2> QED
        BY <2>1, <2>2
<1>4. \A i \in DOMAIN packets' : Given(conns', packets', now', packets'[i])
    <2> SUFFICES ASSUME NEW i \in DOMAIN packets'
                 PROVE  Given(conns', packets', now, packets'[i])
        OBVIOUS
    <2>1. CASE Fresh(packets'[i])
        BY <1>1, <2>1, NewFlowGiven DEF Fresh
    <2>2. CASE i \in DOMAIN packets /\ Carried(packets[i], packets'[i])
        <3>1. packets[i].at \in Nat /\ Given(conns, packets, now, packets[i])
            BY <2>2, PacketFields DEF DInv, OwnerInv
        <3> QED
            BY <1>1, <2>2, <3>1, GivenStays DEF Carried
    <2> QED
        BY <2>1, <2>2
<1>5. EventInv'
    <2> SUFFICES ASSUME NEW e \in events' PROVE Reported(conns', packets', e)
        BY DEF EventInv
    <2>1. CASE e \in events
        <3>1. Reported(conns, packets, e)
            BY <2>1 DEF DInv, EventInv
        <3> QED
            BY <3>1, EventStays
    <2> QED
        BY <2>1
<1> QED
    BY <1>1, <1>2, <1>3, <1>4, <1>5 DEF OwnerInv

\* Accept and applyRulesOnConn.
LEMMA AcceptDInv ==
    ASSUME DInv, TCPAccept
    PROVE  DInv'
<1>1. PICK s \in Sources, p \in Ports :
        /\ conns' = Append(conns,
               [src |-> s, port |-> p, rule |-> applyRules("tcp", p),
                md |-> zeroMetadata, at |-> 0, state |-> "open"])
        /\ lpc' = IF s \in Keys THEN "register" ELSE "select"
    BY DEF TCPAccept
<1> DEFINE f == [src |-> s, port |-> p, rule |-> applyRules("tcp", p),
                 md |-> zeroMetadata, at |-> 0, state |-> "open"]
<1>2. UNCHANGED <<ctVars, cancelled, up, upc, buffer, packets, events>>
    BY DEF TCPAccept
<1>3. f \in ConnType
    BY RuleFound DEF ConnType, flowType, ConnStates
<1>4. f.src = s /\ f.md = zeroMetadata /\ f.at = 0 /\ f.state = "open"
    OBVIOUS
<1> HIDE DEF f
<1>5. conns \in Seq(ConnType) /\ conns' = Append(conns, f)
    BY <1>1 DEF DInv, ListInv, f
<1>6. /\ conns' \in Seq(ConnType)
      /\ Len(conns') = Len(conns) + 1
      /\ conns' # <<>>
      /\ conns'[Len(conns')] = f
      /\ \A i \in DOMAIN conns : conns'[i] = conns[i]
      /\ \A i \in DOMAIN conns' : i \in DOMAIN conns \/ conns'[i] = f
      /\ FlowsKept(conns, conns')
    <2>1. Len(conns) \in Nat
        BY <1>5
    <2> QED
        BY <1>3, <1>5, <2>1, AppendKeeps
<1>7. ListInv'
    BY <1>1, <1>2, <1>6 DEF DInv, ListInv
<1>8. LoopInv'
    BY <1>1, <1>2, <1>4, <1>6 DEF DInv, LoopInv
<1>9. ForwardInv'
    BY <1>4, <1>6 DEF DInv, ForwardInv
<1>10. CTInv' /\ OwnerInv' /\ EventInv'
    <2>1. FlowsKept(packets, packets')
        BY <1>2 DEF FlowsKept, Kept
    <2>2. Len(packets) <= Len(packets')
        BY <1>2 DEF DInv, ListInv
    <2>3. \A i \in DOMAIN conns' : \/ i \in DOMAIN conns /\ Carried(conns[i], conns'[i])
                                   \/ Fresh(conns'[i])
        BY <1>4, <1>6 DEF Carried, Fresh
    <2>4. \A i \in DOMAIN packets' :
             i \in DOMAIN packets /\ Carried(packets[i], packets'[i])
        BY <1>2 DEF Carried
    <2> QED
        BY <1>2, <1>6, <1>7, <2>1, <2>2, <2>3, <2>4, FlowStep
<1> QED
    BY <1>7, <1>8, <1>9, <1>10 DEF DInv

\* ReadFromUDP and applyRules.
LEMMA ReadDInv ==
    ASSUME DInv, UDPRead
    PROVE  DInv'
<1>1. PICK s \in Sources, p \in Ports :
        packets' = Append(packets,
            [src |-> s, port |-> p,
             rule |-> IF s \in Keys THEN applyRules("udp", p)
                      ELSE fallbackRule("udp"),
             md |-> zeroMetadata, at |-> 0, state |-> "read", stored |-> 0])
    BY DEF UDPRead
<1> DEFINE f == [src |-> s, port |-> p,
                 rule |-> IF s \in Keys THEN applyRules("udp", p)
                          ELSE fallbackRule("udp"),
                 md |-> zeroMetadata, at |-> 0, state |-> "read", stored |-> 0]
<1>2. /\ UNCHANGED <<ctVars, cancelled, up, lpc, conns, events>>
      /\ upc' = "register" /\ buffer' = Len(packets) + 1
    BY DEF UDPRead
<1>3. f \in PacketType
    BY RuleFound, FallbackAssumption DEF PacketType, PacketStates
<1>4. f.md = zeroMetadata /\ f.at = 0
    OBVIOUS
<1> HIDE DEF f
<1>5. packets \in Seq(PacketType) /\ packets' = Append(packets, f)
    BY <1>1 DEF DInv, ListInv, f
<1>6. /\ packets' \in Seq(PacketType)
      /\ Len(packets') = Len(packets) + 1 /\ Len(packets) <= Len(packets')
      /\ packets' # <<>>
      /\ packets'[Len(packets')] = f
      /\ \A i \in DOMAIN packets : packets'[i] = packets[i]
      /\ \A i \in DOMAIN packets' : i \in DOMAIN packets \/ packets'[i] = f
      /\ FlowsKept(packets, packets')
    <2>1. Len(packets) \in Nat
        BY <1>5
    <2> QED
        BY <1>3, <1>5, <2>1, AppendKeeps
<1>7. ListInv'
    BY <1>2, <1>6 DEF DInv, ListInv
<1>8. LoopInv'
    BY <1>2, <1>4, <1>6 DEF DInv, LoopInv
<1>9. ForwardInv'
    BY <1>2 DEF DInv, ForwardInv
<1>10. CTInv' /\ OwnerInv' /\ EventInv'
    <2>1. FlowsKept(conns, conns')
        BY <1>2 DEF FlowsKept, Kept
    <2>3. \A i \in DOMAIN packets' :
             \/ i \in DOMAIN packets /\ Carried(packets[i], packets'[i])
             \/ Fresh(packets'[i])
        BY <1>4, <1>6 DEF Carried, Fresh
    <2>4. \A i \in DOMAIN conns' : i \in DOMAIN conns /\ Carried(conns[i], conns'[i])
        BY <1>2 DEF Carried
    <2> QED
        BY <1>2, <1>6, <1>7, <2>1, <2>3, <2>4, FlowStep
<1> QED
    BY <1>7, <1>8, <1>9, <1>10 DEF DInv

-----------------------------------------------------------------------------
(* Handler goroutines. *)

\* A handler that ends changes the state of its own connection only.
LEMMA CloseTCPDInv ==
    ASSUME DInv, NEW i \in DOMAIN conns, CloseTCP(i)
    PROVE  DInv'
<1>1. /\ UNCHANGED <<ctVars, cancelled, up, lpc, upc, buffer, packets>>
      /\ conns' = [conns EXCEPT ![i].state = "closed"]
    BY DEF CloseTCP
<1>2. conns \in Seq(ConnType) /\ conns[i] \in ConnType
    BY ConnFields DEF DInv, ListInv
<1> DEFINE g == [conns[i] EXCEPT !.state = "closed"]
<1>3. /\ g \in ConnType /\ g.state = "closed"
      /\ g.src = conns[i].src /\ g.port = conns[i].port /\ g.rule = conns[i].rule
      /\ g.at = conns[i].at /\ g.md = conns[i].md
    BY <1>2 DEF ConnType, flowType, ConnStates
<1>4. conns' = [conns EXCEPT ![i] = g]
    BY <1>1
<1> HIDE DEF g
<1>5. /\ conns' \in Seq(ConnType)
      /\ DOMAIN conns' = DOMAIN conns /\ Len(conns') = Len(conns)
      /\ conns'[i] = g
      /\ \A j \in DOMAIN conns : j # i => conns'[j] = conns[j]
    BY <1>2, <1>3, <1>4
<1>6. ListInv'
    BY <1>1, <1>5 DEF DInv, ListInv
<1>7. LoopInv'
    <2>1. conns # <<>> => conns' # <<>> /\ Len(conns) \in DOMAIN conns
        BY <1>2, <1>5
    <2>2. \A j \in DOMAIN conns : conns'[j].src = conns[j].src /\ conns'[j].md = conns[j].md
        BY <1>3, <1>5
    <2> QED
        BY <1>1, <1>5, <2>1, <2>2 DEF DInv, LoopInv
<1>8. ForwardInv'
    BY <1>3, <1>5 DEF DInv, ForwardInv
<1>9. FlowsKept(conns, conns') /\ FlowsKept(packets, packets')
    BY <1>1, <1>3, <1>5 DEF FlowsKept, Kept
<1>10. \A e \in events' : e \in events \/ Reported(conns', packets', e)
    <2> SUFFICES ASSUME NEW e \in events', e \notin events
                 PROVE  Reported(conns', packets', e)
        OBVIOUS
    <2> DEFINE c == conns[i]
    <2>1. /\ e = makeEvent("tcp", i, c.md, 0, c.md.rule.target)
          /\ c.state = "proxy_tcp"
        BY DEF CloseTCP
    <2>2. e.network = "tcp" /\ e.flow = i
        BY <2>1 DEF makeEvent
    <2>3. handlerName(conns'[i].rule) = "proxy_tcp"
        BY <2>1, <1>3, <1>5 DEF DInv, ForwardInv
    <2> QED
        BY <2>2, <2>3, <1>5 DEF Reported
<1>11. CTInv' /\ OwnerInv' /\ EventInv'
    <2>1. Len(packets) <= Len(packets')
        BY <1>1 DEF DInv, ListInv
    <2>2. \A j \in DOMAIN conns' : j \in DOMAIN conns /\ Carried(conns[j], conns'[j])
        BY <1>3, <1>5 DEF Carried
    <2>3. \A j \in DOMAIN packets' :
             j \in DOMAIN packets /\ Carried(packets[j], packets'[j])
        BY <1>1 DEF Carried
    <2> QED
        BY <1>1, <1>6, <1>9, <1>10, <2>1, <2>2, <2>3, FlowStep
<1> QED
    BY <1>6, <1>7, <1>8, <1>11 DEF DInv

\* A handler that reports changes nothing else, and its event dials nobody.
LEMMA ProduceTCPDInv ==
    ASSUME DInv, NEW i \in DOMAIN conns, ProduceTCP(i)
    PROVE  DInv'
<1>1. /\ UNCHANGED <<ctVars, cancelled, up, lpc, conns, upc, buffer, packets>>
      /\ events' = events \cup {makeEvent("tcp", i, conns[i].md, 0, "")}
    BY DEF ProduceTCP
<1>2. ListInv' /\ LoopInv' /\ ForwardInv'
    BY <1>1 DEF DInv, ListInv, LoopInv, ForwardInv
<1>3. FlowsKept(conns, conns') /\ FlowsKept(packets, packets')
    BY <1>1 DEF FlowsKept, Kept
<1>4. \A e \in events' : e \in events \/ Reported(conns', packets', e)
    <2> SUFFICES ASSUME NEW e, e = makeEvent("tcp", i, conns[i].md, 0, "")
                 PROVE  Reported(conns', packets', e)
        BY <1>1
    <2>1. e.network = "tcp" /\ e.flow = i /\ e.dialled = ""
        BY DEF makeEvent
    <2> QED
        BY <1>1, <2>1 DEF Reported
<1>5. CTInv' /\ OwnerInv' /\ EventInv'
    <2>0. Len(packets) \in Nat
        <3>1. packets \in Seq(PacketType)
            BY DEF DInv, ListInv
        <3> QED
            BY <3>1
    <2>1. Len(packets) <= Len(packets')
        <3>1. packets' = packets
            BY <1>1
        <3> QED
            BY <2>0, <3>1
    <2>2. \A j \in DOMAIN conns' : j \in DOMAIN conns /\ Carried(conns[j], conns'[j])
        BY <1>1 DEF Carried
    <2>3. \A j \in DOMAIN packets' :
             j \in DOMAIN packets /\ Carried(packets[j], packets'[j])
        BY <1>1 DEF Carried
    <2> QED
        BY <1>1, <1>2, <1>3, <1>4, <2>1, <2>2, <2>3, FlowStep
<1> QED
    BY <1>2, <1>5 DEF DInv

\* The two steps of HandleUDP.
LEMMA HandleUDPDInv ==
    ASSUME DInv, NEW i \in DOMAIN packets, HandleUDP(i)
    PROVE  DInv'
<1>1. UNCHANGED <<ctVars, cancelled, up, lpc, conns, upc, buffer>>
    BY DEF HandleUDP, StoreUDP, ProduceUDP
<1>2. /\ packets \in Seq(PacketType) /\ packets[i] \in PacketType
      /\ buffer = Len(packets) /\ Len(packets) \in Nat /\ DOMAIN packets = 1..Len(packets)
    BY PacketFields DEF DInv, ListInv
<1>3. PICK g \in PacketType :
        /\ packets' = [packets EXCEPT ![i] = g]
        /\ g.src = packets[i].src /\ g.port = packets[i].port
        /\ g.rule = packets[i].rule
        /\ g.at = packets[i].at /\ g.md = packets[i].md
    <2>1. CASE StoreUDP(i)
        <3> DEFINE g == [packets[i] EXCEPT !.stored = buffer, !.state = "produce"]
        <3>1. /\ g \in PacketType
              /\ g.src = packets[i].src /\ g.port = packets[i].port
              /\ g.rule = packets[i].rule
              /\ g.at = packets[i].at /\ g.md = packets[i].md
            BY <1>2 DEF PacketType, PacketStates
        <3>2. packets' = [packets EXCEPT ![i] = g]
            BY <1>2, <2>1 DEF StoreUDP, PacketType
        <3> QED
            BY <3>1, <3>2
    <2>2. CASE ProduceUDP(i)
        <3> DEFINE g == [packets[i] EXCEPT !.state = "done"]
        <3>1. /\ g \in PacketType
              /\ g.src = packets[i].src /\ g.port = packets[i].port
              /\ g.rule = packets[i].rule
              /\ g.at = packets[i].at /\ g.md = packets[i].md
            BY <1>2 DEF PacketType, PacketStates
        <3>2. packets' = [packets EXCEPT ![i] = g]
            BY <2>2 DEF ProduceUDP
        <3> QED
            BY <3>1, <3>2
    <2> QED
        BY <2>1, <2>2 DEF HandleUDP
<1>4. /\ packets' \in Seq(PacketType)
      /\ DOMAIN packets' = DOMAIN packets /\ Len(packets') = Len(packets)
      /\ packets'[i] = g
      /\ \A j \in DOMAIN packets : j # i => packets'[j] = packets[j]
    BY <1>2, <1>3
<1>5. ListInv'
    BY <1>1, <1>4 DEF DInv, ListInv
<1>6. LoopInv'
    <2>1. packets # <<>> => packets' # <<>> /\ Len(packets) \in DOMAIN packets
        BY <1>2, <1>4
    <2>2. \A j \in DOMAIN packets : packets'[j].md = packets[j].md
        BY <1>3, <1>4
    <2> QED
        BY <1>1, <1>4, <2>1, <2>2 DEF DInv, LoopInv
<1>7. ForwardInv'
    BY <1>1 DEF DInv, ForwardInv
<1>8. FlowsKept(conns, conns') /\ FlowsKept(packets, packets')
    BY <1>1, <1>3, <1>4 DEF FlowsKept, Kept
<1>9. \A e \in events' : e \in events \/ Reported(conns', packets', e)
    <2> SUFFICES ASSUME NEW e \in events', e \notin events
                 PROVE  Reported(conns', packets', e)
        OBVIOUS
    <2>1. e = makeEvent("udp", i, packets[i].md, buffer, "")
        BY DEF HandleUDP, StoreUDP, ProduceUDP
    <2>2. e.network = "udp" /\ e.flow = i /\ e.dialled = ""
        BY <2>1 DEF makeEvent
    <2> QED
        BY <2>2, <1>4 DEF Reported
<1>10. CTInv' /\ OwnerInv' /\ EventInv'
    <2>1. Len(packets) <= Len(packets')
        BY <1>2, <1>4
    <2>2. \A j \in DOMAIN conns' : j \in DOMAIN conns /\ Carried(conns[j], conns'[j])
        BY <1>1 DEF Carried
    <2>3. \A j \in DOMAIN packets' :
             j \in DOMAIN packets /\ Carried(packets[j], packets'[j])
        BY <1>3, <1>4 DEF Carried
    <2> QED
        BY <1>1, <1>5, <1>8, <1>9, <2>1, <2>2, <2>3, FlowStep
<1> QED
    BY <1>5, <1>6, <1>7, <1>10 DEF DInv

-----------------------------------------------------------------------------
(* A flow is registered and given its metadata. *)

\* What Register returns to a listener: a new entry, or one that an earlier
\* flow of the endpoint made and that is not too old.
LEMMA RegisterGives ==
    ASSUME DInv, NEW k \in Keys, NEW rule \in Rules, NEW p \in Ports,
           Register(k, rule, p), UNCHANGED <<now, nextTick, pending>>
    PROVE  /\ CTInv'
           /\ table'[k] \in Metadata
           /\ now - table'[k].added \in 0..MaxAge
           /\ \/ table'[k] = [added |-> now, rule |-> rule, targetPort |-> p]
              \/ Owned(conns, packets, k, table'[k])
           /\ \A j \in Keys \ {k} : present(j)' => present(j) /\ table'[j] = table[j]
<1> CTInv /\ CTTypeOK /\ now \in Nat
    BY DEF DInv, CTInv, CTTypeOK
<1>1. CTInv'
    BY RegisterInv DEF RegisterAny
<1>2. CTTypeOK'
    BY <1>1 DEF CTInv
<1>3. [added |-> now, rule |-> rule, targetPort |-> p] \in Metadata
    BY DEF Metadata
<1>4. \/ table'[k] = table[k] /\ present(k)
      \/ table'[k] = [added |-> now, rule |-> rule, targetPort |-> p]
    BY DEF Register, CTTypeOK
<1>5. table'[k] \in Metadata
    BY <1>3, <1>4 DEF CTTypeOK, present
<1>6. table'[k].added \in Nat /\ present(k)'
    BY <1>5, MetadataIsPresent DEF present
<1>a. EntryAgeBounded'
    BY <1>1, InvBoundsAge, PTL
<1>7. now - table'[k].added <= MaxAge
    BY <1>6, <1>a DEF EntryAgeBounded, MaxAge
<1>8. ASSUME table'[k] = table[k], present(k)
      PROVE  Owned(conns, packets, k, table'[k]) /\ table'[k].added <= now
    <2>1. Owned(conns, packets, k, table[k])
        BY <1>8 DEF DInv, OwnerInv
    <2>2. ASSUME NEW i \in DOMAIN conns, Made(conns[i], k, table[k])
          PROVE  table[k].added <= now
        BY <2>2 DEF Made, DInv, OwnerInv, Given
    <2>3. ASSUME NEW i \in DOMAIN packets, Made(packets[i], k, table[k])
          PROVE  table[k].added <= now
        BY <2>3 DEF Made, DInv, OwnerInv, Given
    <2> QED
        BY <1>8, <2>1, <2>2, <2>3 DEF Owned
<1>9. table'[k].added <= now
    BY <1>4, <1>8
<1>10. now - table'[k].added \in 0..MaxAge
    <2>1. MaxAge \in Nat
        BY TimesAssumption DEF MaxAge
    <2> QED
        BY <1>6, <1>7, <1>9, <2>1
<1>11. \A j \in Keys \ {k} : present(j)' => present(j) /\ table'[j] = table[j]
    BY RegisterEffect DEF present
<1> QED
    BY <1>1, <1>4, <1>5, <1>8, <1>10, <1>11

\* OwnerInv after a registration, on either listener: g is the flow that has
\* just registered.
LEMMA OwnerAfterRegister ==
    ASSUME DInv, NEW k \in Keys, NEW rule \in Rules, NEW p \in Ports,
           Register(k, rule, p), UNCHANGED <<now, nextTick, pending>>,
           FlowsKept(conns, conns'), FlowsKept(packets, packets'),
           NEW g, g.src = k, g.rule = rule, g.port = p, g.at = now, g.md = table'[k],
           \/ \E i \in DOMAIN conns' : conns'[i] = g
           \/ \E i \in DOMAIN packets' : packets'[i] = g,
           \A i \in DOMAIN conns' : \/ i \in DOMAIN conns /\ Carried(conns[i], conns'[i])
                                    \/ conns'[i] = g,
           \A i \in DOMAIN packets' :
               \/ i \in DOMAIN packets /\ Carried(packets[i], packets'[i])
               \/ packets'[i] = g
    PROVE  OwnerInv'
<1> now \in Nat /\ now <= now /\ ListInv
    BY DEF DInv, CTInv, CTTypeOK
<1>1. /\ table'[k] # zeroMetadata
      /\ now - table'[k].added \in 0..MaxAge
      /\ \/ table'[k] = [added |-> now, rule |-> rule, targetPort |-> p]
         \/ Owned(conns, packets, k, table'[k])
      /\ \A j \in Keys \ {k} : present(j)' => present(j) /\ table'[j] = table[j]
    BY RegisterGives, MetadataIsPresent
<1>2. Owned(conns', packets', k, table'[k])
    <2>1. CASE table'[k] = [added |-> now, rule |-> rule, targetPort |-> p]
        BY <1>1, <2>1 DEF Owned, Made
    <2>2. CASE Owned(conns, packets, k, table'[k])
        BY <2>2, OwnedStays
    <2> QED
        BY <1>1, <2>1, <2>2
<1>3. ASSUME NEW j \in Keys, present(j)'
      PROVE  Owned(conns', packets', j, table'[j])
    <2>1. CASE j = k
        BY <1>2, <2>1
    <2>2. CASE j # k
        <3>1. Owned(conns, packets, j, table'[j])
            BY <1>1, <1>3, <2>2 DEF DInv, OwnerInv
        <3> QED
            BY <3>1, OwnedStays
    <2> QED
        BY <2>1, <2>2
<1>4. Given(conns', packets', now, g)
    BY <1>1, <1>2 DEF Given
<1>5. ASSUME NEW i \in DOMAIN conns'
      PROVE  Given(conns', packets', now, conns'[i])
    <2>1. CASE i \in DOMAIN conns /\ Carried(conns[i], conns'[i])
        <3>1. conns[i].at \in Nat /\ Given(conns, packets, now, conns[i])
            BY <2>1, ConnFields DEF DInv, OwnerInv
        <3> QED
            BY <2>1, <3>1, GivenStays DEF Carried
    <2> QED
        BY <1>4, <2>1
<1>6. ASSUME NEW i \in DOMAIN packets'
      PROVE  Given(conns', packets', now, packets'[i])
    <2>1. CASE i \in DOMAIN packets /\ Carried(packets[i], packets'[i])
        <3>1. packets[i].at \in Nat /\ Given(conns, packets, now, packets[i])
            BY <2>1, PacketFields DEF DInv, OwnerInv
        <3> QED
            BY <2>1, <3>1, GivenStays DEF Carried
    <2> QED
        BY <1>4, <2>1
<1> QED
    BY <1>3, <1>5, <1>6 DEF OwnerInv

\* RegisterConn and the start of the handler the matched rule names.
LEMMA TCPDispatchDInv ==
    ASSUME DInv, TCPDispatch
    PROVE  DInv' /\ RegisterAny
<1> DEFINE n == Len(conns)
           c == conns[n]
           h == chosenHandler(c.rule, table'[c.src])
           s == IF h \in TCPHandlers THEN h ELSE "open"
           g == [c EXCEPT !.md = table'[c.src], !.at = now, !.state = s]
<1>1. /\ lpc = "register" /\ lpc' = "select"
      /\ Register(c.src, c.rule, c.port)
      /\ conns' = [conns EXCEPT ![n].md = table'[c.src], ![n].at = now, ![n].state = s]
      /\ UNCHANGED <<now, nextTick, pending, cancelled, up, upc, buffer, packets, events>>
    BY DEF TCPDispatch, registered
<1>2. conns \in Seq(ConnType) /\ conns # <<>> /\ c.src \in Keys /\ c.md = zeroMetadata
    BY <1>1 DEF DInv, ListInv, LoopInv
<1>3. n \in DOMAIN conns
    BY <1>2
<1>4. c \in ConnType /\ c.rule \in Rules /\ c.port \in Ports
    BY <1>3, ConnFields DEF DInv
<1>5. CTInv' /\ table'[c.src] \in Metadata
    BY <1>1, <1>2, <1>4, RegisterGives
<1>6. /\ g \in ConnType
      /\ g.src = c.src /\ g.port = c.port /\ g.rule = c.rule
      /\ g.at = now /\ g.md = table'[c.src] /\ g.state = s
    <2>1. s \in ConnStates /\ now \in Nat
        BY DEF ConnStates, DInv, CTInv, CTTypeOK
    <2> HIDE DEF s
    <2> QED
        BY <1>4, <1>5, <2>1 DEF ConnType, flowType
<1>7. conns' = [conns EXCEPT ![n] = g]
    <2> HIDE DEF s
    <2> QED
        BY <1>1, <1>3, <1>4 DEF ConnType, flowType
<1>8. s = "proxy_tcp" => handlerName(c.rule) = "proxy_tcp"
    BY DEF chosenHandler
<1> HIDE DEF g, s, h
<1>9. /\ conns' \in Seq(ConnType)
      /\ DOMAIN conns' = DOMAIN conns /\ conns'[n] = g
      /\ \A j \in DOMAIN conns : j # n => conns'[j] = conns[j]
    BY <1>2, <1>3, <1>6, <1>7
<1>10. ListInv' /\ LoopInv'
    BY <1>1, <1>9 DEF DInv, ListInv, LoopInv
<1>11. ForwardInv'
    BY <1>6, <1>8, <1>9 DEF DInv, ForwardInv
<1>12. FlowsKept(conns, conns') /\ FlowsKept(packets, packets')
    BY <1>1, <1>2, <1>6, <1>9 DEF FlowsKept, Kept
<1>13. OwnerInv'
    <2>1. \A i \in DOMAIN conns' : \/ i \in DOMAIN conns /\ Carried(conns[i], conns'[i])
                                   \/ conns'[i] = g
        BY <1>9 DEF Carried
    <2>2. \A i \in DOMAIN packets' :
             i \in DOMAIN packets /\ Carried(packets[i], packets'[i])
        BY <1>1 DEF Carried
    <2>3. \E i \in DOMAIN conns' : conns'[i] = g
        BY <1>3, <1>9
    <2>4. Register(c.src, c.rule, c.port) /\ UNCHANGED <<now, nextTick, pending>>
        BY <1>1
    <2> HIDE DEF c
    <2> QED
        BY <1>2, <1>4, <1>6, <1>12, <2>1, <2>2, <2>3, <2>4, OwnerAfterRegister
<1>14. EventInv'
    <2> SUFFICES ASSUME NEW e \in events PROVE Reported(conns', packets, e)
        BY <1>1 DEF EventInv
    <2>1. Reported(conns, packets, e) /\ FlowsKept(packets, packets)
        BY <1>1, <1>12 DEF DInv, EventInv
    <2> QED
        BY <1>12, <2>1, EventStays
<1>15. RegisterAny
    BY <1>1, <1>2, <1>4 DEF RegisterAny
<1> QED
    BY <1>5, <1>10, <1>11, <1>13, <1>14, <1>15 DEF DInv

\* Register, or its failure, and the start of the UDP handler.
LEMMA UDPDispatchDInv ==
    ASSUME DInv, UDPDispatch
    PROVE  DInv' /\ (RegisterAny \/ UNCHANGED ctVars)
<1> DEFINE n == Len(packets)
           c == packets[n]
           s == IF c.rule.target \in UDPHandlers THEN "store" ELSE "ignored"
           m == IF c.src \in Keys THEN table'[c.src] ELSE zeroMetadata
           g == [c EXCEPT !.md = m, !.at = now, !.state = s]
<1>1. /\ upc = "register" /\ upc' = "select"
      /\ IF c.src \in Keys THEN Register(c.src, c.rule, c.port) ELSE UNCHANGED table
      /\ packets' = [packets EXCEPT ![n].md = m, ![n].at = now, ![n].state = s]
      /\ UNCHANGED <<now, nextTick, pending, cancelled, up, lpc, conns, buffer, events>>
    BY DEF UDPDispatch, registered
<1>2. /\ packets \in Seq(PacketType) /\ packets # <<>> /\ c.md = zeroMetadata
      /\ now \in Nat /\ CTInv
    BY <1>1 DEF DInv, ListInv, LoopInv, CTInv, CTTypeOK
<1>3. n \in DOMAIN packets /\ n \in Nat /\ DOMAIN packets = 1..n
    BY <1>2
<1>4. c \in PacketType /\ c.rule \in Rules /\ c.port \in Ports
    BY <1>3, PacketFields DEF DInv
<1>6. /\ CTInv' /\ m \in Metadata \cup {zeroMetadata}
      /\ RegisterAny \/ UNCHANGED ctVars
    <2>1. CASE c.src \in Keys
        BY <1>1, <1>2, <1>4, <2>1, RegisterGives DEF RegisterAny
    <2>2. CASE c.src \notin Keys
        <3>1. UNCHANGED ctVars
            BY <1>1, <2>2 DEF ctVars
        <3> QED
            BY <1>2, <2>2, <3>1, CTNextInv
    <2> QED
        BY <2>1, <2>2
<1>7. s \in PacketStates
    BY DEF PacketStates
<1> HIDE DEF s, m
<1>8. /\ g \in PacketType
      /\ g.src = c.src /\ g.port = c.port /\ g.rule = c.rule
      /\ g.at = now /\ g.md = m
    BY <1>2, <1>4, <1>6, <1>7 DEF PacketType
<1>9. packets' = [packets EXCEPT ![n] = g]
    BY <1>1, <1>3, <1>4 DEF PacketType
<1> HIDE DEF g
<1>10. /\ packets' \in Seq(PacketType)
       /\ DOMAIN packets' = DOMAIN packets /\ Len(packets') = n /\ packets'[n] = g
       /\ \A j \in DOMAIN packets : j # n => packets'[j] = packets[j]
    BY <1>2, <1>3, <1>8, <1>9
<1>11. ListInv' /\ LoopInv'
    BY <1>1, <1>10 DEF DInv, ListInv, LoopInv
<1>12. ForwardInv'
    BY <1>1 DEF DInv, ForwardInv
<1>13. FlowsKept(conns, conns') /\ FlowsKept(packets, packets')
    BY <1>1, <1>2, <1>8, <1>10 DEF FlowsKept, Kept
<1>14. OwnerInv'
    <2>1. \A i \in DOMAIN packets' :
             \/ i \in DOMAIN packets /\ Carried(packets[i], packets'[i])
             \/ packets'[i] = g
        BY <1>10 DEF Carried
    <2>2. \A i \in DOMAIN conns' : i \in DOMAIN conns /\ Carried(conns[i], conns'[i])
        BY <1>1 DEF Carried
    <2>3. CASE c.src \in Keys
        <3>1. m = table'[c.src]
            BY <2>3 DEF m
        <3>2. \E i \in DOMAIN packets' : packets'[i] = g
            BY <1>3, <1>10
        <3>3. Register(c.src, c.rule, c.port) /\ UNCHANGED <<now, nextTick, pending>>
            BY <1>1, <2>3
        <3> HIDE DEF c
        <3> QED
            BY <1>4, <1>8, <1>13, <2>1, <2>2, <2>3, <3>1, <3>2, <3>3,
               OwnerAfterRegister
    <2>4. CASE c.src \notin Keys
        <3>1. UNCHANGED <<now, table>> /\ m = zeroMetadata
            BY <1>1, <2>4 DEF m
        <3>2. \A k \in Keys : present(k)' => Owned(conns', packets', k, table'[k])
            BY <1>13, <3>1, OwnedStays DEF DInv, OwnerInv, present
        <3>3. ASSUME NEW i \in DOMAIN conns'
              PROVE  Given(conns', packets', now', conns'[i])
            <4>1. /\ i \in DOMAIN conns /\ Carried(conns[i], conns'[i])
                  /\ conns[i].at \in Nat /\ Given(conns, packets, now, conns[i])
                BY <2>2, ConnFields DEF DInv, OwnerInv
            <4> QED
                BY <1>2, <1>13, <3>1, <4>1, GivenStays DEF Carried
        <3>4. ASSUME NEW i \in DOMAIN packets'
              PROVE  Given(conns', packets', now', packets'[i])
            <4>1. CASE packets'[i] = g
                BY <1>2, <1>8, <3>1, <4>1 DEF Given
            <4>2. CASE i \in DOMAIN packets /\ Carried(packets[i], packets'[i])
                <5>1. packets[i].at \in Nat /\ Given(conns, packets, now, packets[i])
                    BY <4>2, PacketFields DEF DInv, OwnerInv
                <5> QED
                    BY <1>2, <1>13, <3>1, <4>2, <5>1, GivenStays DEF Carried
            <4> QED
                BY <2>1, <4>1, <4>2
        <3> QED
            BY <3>2, <3>3, <3>4 DEF OwnerInv
    <2> QED
        BY <2>3, <2>4
<1>15. EventInv'
    <2> SUFFICES ASSUME NEW e \in events PROVE Reported(conns', packets', e)
        BY <1>1 DEF EventInv
    <2>1. Reported(conns, packets, e)
        BY DEF DInv, EventInv
    <2> QED
        BY <1>3, <1>10, <1>13, <2>1, EventStays
<1> QED
    BY <1>6, <1>11, <1>12, <1>14, <1>15 DEF DInv

-----------------------------------------------------------------------------
(* The theorems. *)

\* Whatever the listeners and handlers do is to the table a step of its own,
\* a registration, or nothing.
LEMMA DNextInv ==
    ASSUME DInv, [DNext]_dVars
    PROVE  DInv' /\ [CTNext]_ctVars
<1>1. CASE CTStep /\ UNCHANGED listenVars
    BY <1>1, TableStepDInv DEF CTNext
<1>2. CASE \/ TCPSelect \/ TCPAcceptFails \/ UDPSelect \/ UDPReadTimesOut
           \/ UDPReadFails \/ DCancel \/ ProcessEnds
           \/ \E i \in DOMAIN conns : PanicTCP(i)
    <2>1. UNCHANGED ctVars
        BY <1>2
        DEF TCPSelect, TCPAcceptFails, UDPSelect, UDPReadTimesOut, UDPReadFails, DCancel,
            ProcessEnds, PanicTCP
    <2> QED
        BY <1>2, <2>1, ControlDInv
<1>3. CASE TCPAccept
    BY <1>3, AcceptDInv DEF TCPAccept
<1>4. CASE TCPDispatch
    BY <1>4, TCPDispatchDInv DEF CTNext
<1>5. CASE UDPRead
    BY <1>5, ReadDInv DEF UDPRead
<1>6. CASE UDPDispatch
    BY <1>6, UDPDispatchDInv DEF CTNext
<1>7. CASE \E i \in DOMAIN conns : ProduceTCP(i) \/ CloseTCP(i)
    BY <1>7, ProduceTCPDInv, CloseTCPDInv DEF ProduceTCP, CloseTCP
<1>8. CASE \E i \in DOMAIN packets : HandleUDP(i)
    BY <1>8, HandleUDPDInv DEF HandleUDP, StoreUDP, ProduceUDP
<1>9. CASE UNCHANGED dVars
    <2>1. UNCHANGED ctVars /\ UNCHANGED listenVars
        BY <1>9 DEF dVars
    <2>2. CTInv' /\ now <= now' /\ UNCHANGED table
        BY <2>1, CTNextInv DEF DInv, CTInv, CTTypeOK, ctVars
    <2> QED
        BY <2>1, <2>2, SameListeners DEF present
<1> QED
    BY <1>1, <1>2, <1>3, <1>4, <1>5, <1>6, <1>7, <1>8, <1>9
    DEF DNext, tcpListen, udpListen, HandleTCP

\* DInv holds in every state, for any rules, handlers and number of flows.
THEOREM DInvariance == DSpec => []DInv
BY InitDInv, DNextInv, PTL DEF DSpec

\* The listeners use the connection table only as ConnTable's specification
\* allows: what holds of the table on its own holds under them.
THEOREM ListenersUseTable == DSpec => CTSpec
<1>1. DInit => CTInit
    BY DEF DInit
<1> QED
    BY <1>1, DInvariance, DNextInv, PTL DEF DSpec, CTSpec

\* So in the running sensor no entry gets older than MaxAge.
THEOREM ListenersEntryAge == DSpec => []EntryAgeBounded
BY ListenersUseTable, EntryAge, PTL

\* And no entry changes while it is there, nor is dropped before its time.
THEOREM ListenersEntriesStable == DSpec => EntryStable
BY ListenersUseTable, EntriesStable, PTL

\* The listeners' state, the flows and the events have their types.
THEOREM DispatchTypeCorrect == DSpec => []DTypeOK
<1>1. DInv => DTypeOK
    <2> SUFFICES ASSUME DInv PROVE DTypeOK
        OBVIOUS
    <2>1. CTTypeOK /\ ListInv
        BY DEF DInv, CTInv
    <2>2. \A i \in DOMAIN conns : conns[i] \in flowType(ConnStates)
        BY <2>1, ConnFields DEF ConnType
    <2>3. \A i \in DOMAIN packets : packets[i].state \in PacketStates
        BY <2>1, PacketFields DEF PacketType
    <2>4. \A e \in events : e.flow \in IF e.network = "tcp" THEN DOMAIN conns
                                       ELSE DOMAIN packets
        BY DEF DInv, EventInv, Reported
    <2> QED
        BY <2>1, <2>2, <2>3, <2>4 DEF DTypeOK, ListInv
<1> QED
    BY <1>1, DInvariance, PTL

\* connection.go, Register: the metadata a handler is given was made by a flow
\* of the same source endpoint at most MaxAge ago.
THEOREM MetadataRecent == DSpec => []MetadataFromRecentFlow
<1>1. DInv => MetadataFromRecentFlow
    <2> SUFFICES ASSUME DInv, NEW f \in Flows, f.md # zeroMetadata
                 PROVE  \E g \in Flows :
                            /\ g.src = f.src
                            /\ f.md = [added |-> g.at, rule |-> g.rule,
                                       targetPort |-> g.port]
                            /\ f.at - g.at \in 0..MaxAge
        BY DEF MetadataFromRecentFlow
    <2>1. Given(conns, packets, now, f)
        BY DEF DInv, OwnerInv, Flows
    <2>2. Owned(conns, packets, f.src, f.md) /\ f.at - f.md.added \in 0..MaxAge
        BY <2>1 DEF Given
    <2>3. PICK g \in Flows : Made(g, f.src, f.md)
        BY <2>2 DEF Owned, Flows
    <2>4. f.md.added = g.at
        BY <2>3 DEF Made
    <2> QED
        BY <2>2, <2>3, <2>4 DEF Made
<1> QED
    BY <1>1, DInvariance, PTL

\* tcpListen chooses the handler by the rule just matched: nobody else is
\* forwarded, whatever the table returns.
THEOREM OwnRuleForwards == DSpec => []OnlyProxyRulesForward
<1>1. DInv => OnlyProxyRulesForward
    BY DEF DInv, EventInv, Reported, OnlyProxyRulesForward
<1> QED
    BY <1>1, DInvariance, PTL

-----------------------------------------------------------------------------
(* Reported once.                                                          *)
(*                                                                         *)
(* PacketsReported needs fairness and is left to TLC.  What no scheduling  *)
(* can spoil is its safety half, and that of the forwarder's one event.    *)

\* The event of a UDP handler and that of the forwarder are made once, as the
\* handler ends.  (Other TCP handlers report as often as they like.)
Final(e) == e.network = "udp" \/ e.dialled # ""

\* A flow has at most one final event, and none before its handler is through;
\* a handler that is through with a packet has reported it; a connection no
\* handler was started for has no event.
FlowsReportedOnce ==
    /\ \A d, e \in events :
        Final(d) /\ Final(e) /\ d.network = e.network /\ d.flow = e.flow => d = e
    /\ \A e \in events :
        IF e.network = "tcp"
        THEN /\ conns[e.flow].state # "open"
             /\ e.dialled # "" => conns[e.flow].state = "closed"
        ELSE packets[e.flow].state = "done"
    /\ \A i \in DOMAIN packets :
        packets[i].state = "done" =>
            \E e \in events : e.network = "udp" /\ e.flow = i

\* The flow a listener is about to register has no handler yet, so handing it
\* over does not make anybody run twice.
HandoverInv ==
    /\ lpc = "register" => conns[Len(conns)].state = "open"
    /\ upc = "register" => packets[Len(packets)].state = "read"

\* A step that reports nothing and takes back no handler's end.
LEMMA ReportsKept ==
    ASSUME EventInv, FlowsReportedOnce, UNCHANGED events,
           \A i \in DOMAIN conns :
               /\ conns[i].state = "closed" => conns'[i].state = "closed"
               /\ conns[i].state # "open" => conns'[i].state # "open",
           \A i \in DOMAIN packets :
               packets[i].state = "done" => packets'[i].state = "done",
           \A i \in DOMAIN packets' :
               packets'[i].state = "done" =>
                   i \in DOMAIN packets /\ packets[i].state = "done"
    PROVE  FlowsReportedOnce'
<1>1. ASSUME NEW e \in events
      PROVE  IF e.network = "tcp"
             THEN /\ conns'[e.flow].state # "open"
                  /\ e.dialled # "" => conns'[e.flow].state = "closed"
             ELSE packets'[e.flow].state = "done"
    <2>1. \/ e.network = "tcp" /\ e.flow \in DOMAIN conns
          \/ e.network = "udp" /\ e.flow \in DOMAIN packets
        BY DEF EventInv, Reported
    <2> QED
        BY <2>1 DEF FlowsReportedOnce
<1> QED
    BY <1>1 DEF FlowsReportedOnce

\* A step that ends the handler of flow i and reports it, or (TCP) does not.
LEMMA ReportsOne ==
    ASSUME EventInv, FlowsReportedOnce, NEW i, NEW net \in {"tcp", "udp"},
           NEW E, events' = events \cup E,
           \A d, e \in E : d = e,
           \A e \in E : e.network = net /\ e.flow = i,
           \A e \in events : Final(e) => ~(e.network = net /\ e.flow = i),
           net = "tcp" => packets' = packets /\ conns'[i].state = "closed",
           net = "udp" => /\ conns' = conns /\ E # {}
                          /\ packets'[i].state = "done",
           \A j \in DOMAIN conns \ {i} : conns'[j] = conns[j],
           \A j \in DOMAIN packets \ {i} : packets'[j] = packets[j],
           DOMAIN packets' = DOMAIN packets
    PROVE  FlowsReportedOnce'
<1>1. ASSUME NEW d \in events', NEW e \in events',
             Final(d), Final(e), d.network = e.network, d.flow = e.flow
      PROVE  d = e
    BY <1>1 DEF FlowsReportedOnce
<1>2. ASSUME NEW e \in events'
      PROVE  IF e.network = "tcp"
             THEN /\ conns'[e.flow].state # "open"
                  /\ e.dialled # "" => conns'[e.flow].state = "closed"
             ELSE packets'[e.flow].state = "done"
    <2>1. CASE e \in E
        BY <2>1
    <2>2. CASE e \in events
        <3>1. \/ e.network = "tcp" /\ e.flow \in DOMAIN conns
              \/ e.network = "udp" /\ e.flow \in DOMAIN packets
            BY <2>2 DEF EventInv, Reported
        <3>2. IF e.network = "tcp"
              THEN /\ conns[e.flow].state # "open"
                   /\ e.dialled # "" => conns[e.flow].state = "closed"
              ELSE packets[e.flow].state = "done"
            BY <2>2 DEF FlowsReportedOnce
        <3> QED
            BY <2>2, <3>1, <3>2
    <2> QED
        BY <1>2, <2>1, <2>2
<1>3. ASSUME NEW j \in DOMAIN packets, packets'[j].state = "done"
      PROVE  \E e \in events' : e.network = "udp" /\ e.flow = j
    <2>1. CASE net = "udp" /\ j = i
        BY <2>1
    <2>2. CASE ~(net = "udp" /\ j = i)
        <3>1. packets[j].state = "done"
            BY <1>3, <2>2
        <3> QED
            BY <3>1 DEF FlowsReportedOnce
    <2> QED
        BY <2>1, <2>2
<1> QED
    BY <1>1, <1>2, <1>3 DEF FlowsReportedOnce

LEMMA EventNames ==
    ASSUME NEW net, NEW n, NEW md, NEW payload, NEW dialled, NEW e,
           e = makeEvent(net, n, md, payload, dialled)
    PROVE  e.network = net /\ e.flow = n
BY DEF makeEvent

LEMMA ReportedStep ==
    ASSUME DInv, FlowsReportedOnce, HandoverInv, [DNext]_dVars
    PROVE  FlowsReportedOnce' /\ HandoverInv'
<1>0. /\ EventInv /\ conns \in Seq(ConnType) /\ packets \in Seq(PacketType)
      /\ Len(conns) \in Nat /\ Len(packets) \in Nat
      /\ DOMAIN conns = 1..Len(conns) /\ DOMAIN packets = 1..Len(packets)
      /\ \A i \in DOMAIN conns : conns[i] \in ConnType
      /\ \A i \in DOMAIN packets : packets[i] \in PacketType
    BY DEF DInv, ListInv
<1>1. CASE \/ CTStep /\ UNCHANGED listenVars
           \/ TCPSelect \/ TCPAcceptFails \/ UDPSelect \/ UDPReadTimesOut
           \/ UDPReadFails \/ DCancel \/ ProcessEnds
           \/ \E i \in DOMAIN conns : PanicTCP(i)
           \/ UNCHANGED dVars
    <2>1. UNCHANGED <<conns, packets, events>>
        BY <1>1 DEF listenVars, dVars, TCPSelect, TCPAcceptFails, UDPSelect,
                    UDPReadTimesOut, UDPReadFails, DCancel, ProcessEnds, PanicTCP
    <2>2. /\ lpc' = "register" => lpc = "register"
          /\ upc' = "register" => upc = "register"
        BY <1>1 DEF listenVars, dVars, TCPSelect, TCPAcceptFails, UDPSelect,
                    UDPReadTimesOut, UDPReadFails, DCancel, ProcessEnds, PanicTCP
    <2>3. FlowsReportedOnce'
        BY <1>0, <2>1, ReportsKept
    <2>4. HandoverInv'
        BY <2>1, <2>2 DEF HandoverInv
    <2> QED
        BY <2>3, <2>4
<1>2. CASE TCPAccept
    <2>1. PICK s \in Sources, p \in Ports :
            conns' = Append(conns,
               [src |-> s, port |-> p, rule |-> applyRules("tcp", p),
                md |-> zeroMetadata, at |-> 0, state |-> "open"])
        BY <1>2 DEF TCPAccept
    <2> DEFINE f == [src |-> s, port |-> p, rule |-> applyRules("tcp", p),
                     md |-> zeroMetadata, at |-> 0, state |-> "open"]
    <2>2. f \in ConnType /\ f.state = "open" /\ conns' = Append(conns, f)
        BY <2>1, RuleFound DEF ConnType, flowType, ConnStates
    <2> HIDE DEF f
    <2>3. /\ Len(conns') = Len(conns) + 1 /\ conns'[Len(conns')] = f
          /\ \A i \in DOMAIN conns : conns'[i] = conns[i]
        BY <1>0, <2>2, AppendKeeps
    <2>4. UNCHANGED <<upc, packets, events>>
        BY <1>2 DEF TCPAccept
    <2>5. FlowsReportedOnce'
        BY <1>0, <2>3, <2>4, ReportsKept
    <2>6. HandoverInv'
        BY <2>2, <2>3, <2>4 DEF HandoverInv
    <2> QED
        BY <2>5, <2>6
<1>3. CASE UDPRead
    <2>1. PICK s \in Sources, p \in Ports :
            packets' = Append(packets,
                [src |-> s, port |-> p,
                 rule |-> IF s \in Keys THEN applyRules("udp", p)
                          ELSE fallbackRule("udp"),
                 md |-> zeroMetadata, at |-> 0, state |-> "read", stored |-> 0])
        BY <1>3 DEF UDPRead
    <2> DEFINE f == [src |-> s, port |-> p,
                     rule |-> IF s \in Keys THEN applyRules("udp", p)
                              ELSE fallbackRule("udp"),
                     md |-> zeroMetadata, at |-> 0, state |-> "read", stored |-> 0]
    <2>2. f \in PacketType /\ f.state = "read" /\ packets' = Append(packets, f)
        BY <2>1, RuleFound, FallbackAssumption DEF PacketType, PacketStates
    <2> HIDE DEF f
    <2>3. /\ Len(packets') = Len(packets) + 1 /\ packets'[Len(packets')] = f
          /\ DOMAIN packets' = 1..(Len(packets) + 1)
          /\ \A i \in DOMAIN packets : packets'[i] = packets[i]
        BY <1>0, <2>2, AppendKeeps
    <2>4. \A i \in DOMAIN packets' : i \in DOMAIN packets \/ packets'[i] = f
        BY <1>0, <2>3
    <2>5. UNCHANGED <<lpc, conns, events>>
        BY <1>3 DEF UDPRead
    <2>6. FlowsReportedOnce'
        BY <1>0, <2>2, <2>3, <2>4, <2>5, ReportsKept
    <2>7. HandoverInv'
        BY <2>2, <2>3, <2>5 DEF HandoverInv
    <2> QED
        BY <2>6, <2>7
<1>4. CASE TCPDispatch
    <2>1. /\ lpc = "register" /\ lpc' = "select"
          /\ UNCHANGED <<upc, packets, events>>
        BY <1>4 DEF TCPDispatch
    <2>2. conns[Len(conns)].state = "open"
        BY <2>1 DEF HandoverInv
    <2>3. \A j \in DOMAIN conns : j # Len(conns) => conns'[j] = conns[j]
        BY <1>0, <1>4 DEF TCPDispatch
    <2>4. FlowsReportedOnce'
        BY <1>0, <2>1, <2>2, <2>3, ReportsKept
    <2>5. HandoverInv'
        BY <2>1 DEF HandoverInv
    <2> QED
        BY <2>4, <2>5
<1>5. CASE UDPDispatch
    <2>1. /\ upc = "register" /\ upc' = "select"
          /\ UNCHANGED <<lpc, conns, events>>
        BY <1>5 DEF UDPDispatch
    <2>2. packets[Len(packets)].state = "read" /\ packets # <<>>
        BY <2>1 DEF HandoverInv, DInv, LoopInv
    <2>3. Len(packets) \in DOMAIN packets
        BY <1>0, <2>2
    <2> DEFINE n == Len(packets)
               m == IF packets[n].src \in Keys
                    THEN registered(packets[n].src, packets[n].port)
                    ELSE zeroMetadata
               s == IF packets[n].rule.target \in UDPHandlers THEN "store"
                    ELSE "ignored"
    <2>4. packets' = [packets EXCEPT ![n].md = m, ![n].at = now, ![n].state = s]
        BY <1>5 DEF UDPDispatch
    <2>5. s # "done"
        OBVIOUS
    <2> HIDE DEF m, s
    <2>6. /\ \A j \in DOMAIN packets : j # n => packets'[j] = packets[j]
          /\ DOMAIN packets' = DOMAIN packets
        BY <1>0, <2>4
    <2>7. packets'[n].state = s
        BY <1>0, <2>3, <2>4 DEF PacketType
    <2>8. FlowsReportedOnce'
        BY <1>0, <2>1, <2>2, <2>5, <2>6, <2>7, ReportsKept
    <2>9. HandoverInv'
        BY <2>1 DEF HandoverInv
    <2> QED
        BY <2>8, <2>9
<1>6. ASSUME NEW i \in DOMAIN conns, CloseTCP(i)
      PROVE  FlowsReportedOnce' /\ HandoverInv'
    <2>1. /\ conns[i].state \notin {"open", "closed"}
          /\ conns' = [conns EXCEPT ![i].state = "closed"]
          /\ UNCHANGED <<lpc, upc, packets>>
        BY <1>6 DEF CloseTCP
    <2>2. /\ conns'[i].state = "closed" /\ DOMAIN conns' = DOMAIN conns
          /\ Len(conns') = Len(conns)
          /\ \A j \in DOMAIN conns \ {i} : conns'[j] = conns[j]
        BY <1>0, <2>1 DEF ConnType, flowType
    <2> DEFINE E == IF conns[i].state = "proxy_tcp" /\ isProxy(conns[i].md.rule)
                    THEN {makeEvent("tcp", i, conns[i].md, 0, conns[i].md.rule.target)}
                    ELSE {}
    <2>3. events' = events \cup E
        BY <1>6 DEF CloseTCP
    <2>4. \A e \in E : e.network = "tcp" /\ e.flow = i
        <3> SUFFICES ASSUME NEW e \in E PROVE e.network = "tcp" /\ e.flow = i
            OBVIOUS
        <3>1. PICK d : e = makeEvent("tcp", i, conns[i].md, 0, d)
            OBVIOUS
        <3> HIDE DEF E
        <3> QED
            BY <3>1, EventNames
    <2>5. \A d, e \in E : d = e
        OBVIOUS
    <2> HIDE DEF E
    <2>6. \A e \in events : Final(e) => ~(e.network = "tcp" /\ e.flow = i)
        BY <2>1 DEF FlowsReportedOnce, Final
    <2>7. FlowsReportedOnce'
        BY <1>0, <2>1, <2>2, <2>3, <2>4, <2>5, <2>6, ReportsOne
    <2>8. lpc = "register" => Len(conns) # i
        BY <2>1 DEF HandoverInv
    <2>9. lpc = "register" => Len(conns) \in DOMAIN conns
        BY <1>0 DEF DInv, LoopInv
    <2>10. HandoverInv'
        BY <2>1, <2>2, <2>8, <2>9 DEF HandoverInv
    <2> QED
        BY <2>7, <2>10
<1>7. ASSUME NEW i \in DOMAIN packets, StoreUDP(i)
      PROVE  FlowsReportedOnce' /\ HandoverInv'
    <2>1. /\ packets[i].state = "store"
          /\ packets' = [packets EXCEPT ![i].stored = buffer,
                                        ![i].state = "produce"]
          /\ UNCHANGED <<lpc, upc, conns, events>>
        BY <1>7 DEF StoreUDP
    <2>2. /\ packets'[i].state = "produce" /\ DOMAIN packets' = DOMAIN packets
          /\ Len(packets') = Len(packets)
          /\ \A j \in DOMAIN packets \ {i} : packets'[j] = packets[j]
        BY <1>0, <2>1 DEF PacketType
    <2>3. FlowsReportedOnce'
        BY <1>0, <2>1, <2>2, ReportsKept
    <2>4. upc = "register" => Len(packets) # i /\ Len(packets) \in DOMAIN packets
        BY <1>0, <2>1 DEF HandoverInv, DInv, LoopInv
    <2>5. HandoverInv'
        BY <2>1, <2>2, <2>4 DEF HandoverInv
    <2> QED
        BY <2>3, <2>5
<1>8. ASSUME NEW i \in DOMAIN packets, ProduceUDP(i)
      PROVE  FlowsReportedOnce' /\ HandoverInv'
    <2>1. /\ packets[i].state = "produce"
          /\ packets' = [packets EXCEPT ![i].state = "done"]
          /\ UNCHANGED <<lpc, upc, conns>>
        BY <1>8 DEF ProduceUDP
    <2>2. /\ packets'[i].state = "done" /\ DOMAIN packets' = DOMAIN packets
          /\ Len(packets') = Len(packets)
          /\ \A j \in DOMAIN packets \ {i} : packets'[j] = packets[j]
        BY <1>0, <2>1 DEF PacketType
    <2> DEFINE E == {makeEvent("udp", i, packets[i].md, buffer, "")}
    <2>3. events' = events \cup E
        BY <1>8 DEF ProduceUDP
    <2>4. \A e \in E : e.network = "udp" /\ e.flow = i
        <3> SUFFICES ASSUME NEW e \in E PROVE e.network = "udp" /\ e.flow = i
            OBVIOUS
        <3>1. PICK d : e = makeEvent("udp", i, packets[i].md, buffer, d)
            OBVIOUS
        <3> HIDE DEF E
        <3> QED
            BY <3>1, EventNames
    <2>5. E # {} /\ \A d, e \in E : d = e
        OBVIOUS
    <2> HIDE DEF E
    <2>6. \A e \in events : Final(e) => ~(e.network = "udp" /\ e.flow = i)
        BY <2>1 DEF FlowsReportedOnce
    <2>7. FlowsReportedOnce'
        BY <1>0, <2>1, <2>2, <2>3, <2>4, <2>5, <2>6, ReportsOne
    <2>8. upc = "register" => Len(packets) # i /\ Len(packets) \in DOMAIN packets
        BY <1>0, <2>1 DEF HandoverInv, DInv, LoopInv
    <2>9. HandoverInv'
        BY <2>1, <2>2, <2>8 DEF HandoverInv
    <2> QED
        BY <2>7, <2>9
<1>9. ASSUME NEW i \in DOMAIN conns, ProduceTCP(i)
      PROVE  FlowsReportedOnce' /\ HandoverInv'
    <2>1. /\ conns[i].state # "open"
          /\ UNCHANGED <<lpc, upc, conns, packets>>
        BY <1>9 DEF ProduceTCP
    <2>2. PICK f : /\ f = makeEvent("tcp", i, conns[i].md, 0, "")
                   /\ events' = events \cup {f}
        BY <1>9 DEF ProduceTCP
    <2>3. f.network = "tcp" /\ f.flow = i /\ f.dialled = ""
        BY <2>2 DEF makeEvent
    <2>4. ~Final(f)
        BY <2>3 DEF Final
    <2>5. \A d, e \in events' :
            Final(d) /\ Final(e) /\ d.network = e.network /\ d.flow = e.flow => d = e
        BY <2>2, <2>4 DEF FlowsReportedOnce
    <2>6. ASSUME NEW e \in events'
          PROVE  IF e.network = "tcp"
                 THEN /\ conns[e.flow].state # "open"
                      /\ e.dialled # "" => conns[e.flow].state = "closed"
                 ELSE packets[e.flow].state = "done"
        <3>1. CASE e = f
            BY <2>1, <2>3, <3>1
        <3>2. CASE e \in events
            BY <3>2 DEF FlowsReportedOnce
        <3> QED
            BY <2>2, <3>1, <3>2
    <2>7. \A j \in DOMAIN packets :
            packets[j].state = "done" =>
                \E e \in events' : e.network = "udp" /\ e.flow = j
        BY <2>2 DEF FlowsReportedOnce
    <2>8. FlowsReportedOnce'
        <3> HIDE DEF Final
        <3> QED
            BY <2>1, <2>5, <2>6, <2>7 DEF FlowsReportedOnce
    <2> QED
        BY <2>1, <2>8 DEF HandoverInv
<1> QED
    BY <1>1, <1>2, <1>3, <1>4, <1>5, <1>6, <1>7, <1>8, <1>9
    DEF DNext, tcpListen, udpListen, HandleTCP, HandleUDP

\* glutton.go, udp.go and proxy_tcp.go: for any number of connections and
\* packets, a UDP handler reports its packet exactly once, as it ends, the
\* forwarder reports a connection it dialled for at most once, and no event is
\* of a connection that was left without a handler.
THEOREM FinalReportsOnce == DSpec => []FlowsReportedOnce
<1>1. DInit => FlowsReportedOnce /\ HandoverInv
    BY DEF DInit, FlowsReportedOnce, HandoverInv
<1>2. DInv /\ FlowsReportedOnce /\ HandoverInv /\ [DNext]_dVars =>
          FlowsReportedOnce' /\ HandoverInv'
    BY ReportedStep
<1> QED
    BY <1>1, <1>2, DInvariance, PTL DEF DSpec
=============================================================================
