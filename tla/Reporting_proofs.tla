-------------------------- MODULE Reporting_proofs --------------------------
(***************************************************************************)
(* For any number of flows, payloads, configurations and kills: the types  *)
(* of Reporting, what the payload directory holds however Stores race, and *)
(* how often an event reaches a sink; and that a flow never goes back.     *)
(***************************************************************************)
EXTENDS Reporting, FiniteSetTheorems, TLAPS

\* Flow g has created the file of p and is writing it.
Writes(g, p) == phase[g] = "write" /\ name[g] = p

\* The file of p, as long as no Store of p was disturbed.  It is there once
\* somebody writes it and stays; a piece is p's own or is missing, and what is
\* missing some writer has still to write; a file with no writer left has been
\* completed, which returned the hash.
FileInv(p) ==
    IF files[p] = Absent
    THEN p \notin hashed /\ \A g \in Flows : ~Writes(g, p)
    ELSE /\ \A k \in Chunks : \/ files[p][k] = p
                              \/ /\ files[p][k] = "missing"
                                 /\ \E g \in Flows : Writes(g, p) /\ next[g] <= k
         /\ p \in hashed \/ \E g \in Flows : Writes(g, p)

\* The bytes a flow stores are still the ones it hashed.
ViewInv(p) == \A g \in Storing(p) : view[g] = p

\* Only a flow that writes has begun with the pieces.
NextInv == \A f \in Flows : phase[f] # "write" => next[f] = 1

StoreInv ==
    /\ \A p \in Contents \ spoiled : FileInv(p) /\ ViewInv(p)
    /\ NextInv

\* Nothing was given to a sink before its call.
Unsent(f) == hpf[f] = 0 /\ http[f] = 0 /\ f \notin refused

\* How far the event of flow f has got, by control state.
EventInv(f) ==
    /\ phase[f] \in {"idle", "fetch", "stat", "create", "write", "produce",
                     "hpfeeds"} => Unsent(f)
    /\ phase[f] = "hpfeeds" => setup.producer /\ setup.hpfeeds
    /\ phase[f] = "http" =>
        /\ http[f] = 0 /\ f \notin refused
        /\ hpf[f] = IF setup.hpfeeds THEN 1 ELSE 0
        /\ setup.hpfeeds => encodable(f)
    /\ phase[f] = "fetch" => Info[f].kind = "sample"
    /\ phase[f] \in {"produce", "hpfeeds", "http"} => Info[f].kind # "sample"

\* What f gave to each sink once it has ended, encoding errors included.
Handed(f) ==
    /\ hpf[f] <= 1 /\ http[f] <= 1
    /\ (phase[f] = "ended" /\ Info[f].kind # "sample" /\ setup.producer) =>
        /\ hpf[f] = IF setup.hpfeeds /\ encodable(f) THEN 1 ELSE 0
        /\ (/\ setup.http /\ f \notin setup.private /\ f \notin refused
            /\ setup.hpfeeds => encodable(f)) => http[f] = 1

FlowInv == \A f \in Flows : EventInv(f) /\ Handed(f)

\* The inductive invariant.
RpInv == RpTypeOK /\ setup \in Setups /\ StoreInv /\ FlowInv

\* What a handler leaves alone.
USE DEF flowVars, sinkVars, history

-----------------------------------------------------------------------------
(* Helpers. *)

LEMMA TwoChunks == Chunks = {1, 2} /\ Cardinality(Chunks) = 2
  <1>1. Chunks = {1, 2}
    BY DEF Chunks
  <1>2. 1 \in Int /\ 2 \in Int
    OBVIOUS
  <1>3. Cardinality(1..2) = IF 1 > 2 THEN 0 ELSE 2 - 1 + 1
    BY <1>2, FS_Interval, Zenon
  <1> QED
    BY <1>1, <1>3 DEF Chunks

LEMMA InfoType ==
    ASSUME NEW f \in Flows
    PROVE  Info[f].kind \in Kinds /\ Info[f].payload \in Contents
  BY InfoAssumption DEF Contents

\* A flow that leaves Store writes nothing any more, and leaves the others
\* alone.
LEMMA LeaveFrame ==
    ASSUME RpTypeOK, NEW f \in Flows, leaveStore(f)
    PROVE  /\ phase'[f] = IF Info[f].kind = "sample" THEN "ended"
                                                    ELSE "produce"
           /\ next'[f] = 1
           /\ phase' \in [Flows -> Phases] /\ next' \in [Flows -> Chunks]
           /\ view' \in [Flows -> Contents] /\ name' \in [Flows -> Contents]
           /\ \A g \in Flows \ {f} : /\ phase'[g] = phase[g]
                                     /\ view'[g] = view[g]
                                     /\ name'[g] = name[g]
                                     /\ next'[g] = next[g]
  <1>1. Info[f].payload \in Contents /\ 1 \in Chunks
    BY InfoType, TwoChunks
  <1>2. afterStore(f) \in Phases
    BY DEF afterStore, Phases, Over
  <1> QED
    BY <1>1, <1>2 DEF leaveStore, goto, RpTypeOK, afterStore

\* A packet that is read into the buffer replaces views by contents.
LEMMA OverwriteType ==
    ASSUME RpTypeOK, overwrite(Exposed)
    PROVE  /\ view' \in [Flows -> Contents]
           /\ \A g \in Flows \ Exposed : view'[g] = view[g]
           /\ spoiled' \subseteq Contents /\ spoiled \subseteq spoiled'
           /\ \A g \in Exposed : g \in Storing(name[g]) => name[g] \in spoiled'
  <1>1. PICK v \in [Exposed -> {Mixed} \cup {Info[f].payload : f \in Packets}] :
            view' = [f \in Flows |-> IF f \in Exposed THEN v[f] ELSE view[f]]
    BY DEF overwrite
  <1>2. \A f \in Packets : Info[f].payload \in Contents
    BY InfoType DEF Packets
  <1>3. Mixed \in Contents
    BY DEF Contents
  <1>4. \A f \in Exposed : v[f] \in Contents
    BY <1>1, <1>2, <1>3
  <1>5. view' \in [Flows -> Contents]
    BY <1>1, <1>4 DEF RpTypeOK
  <1>6. Exposed \subseteq Flows
    BY DEF Exposed, Packets
  <1>7. spoiled' = spoiled \cup
            {name[g] : g \in {h \in Exposed : h \in Storing(name[h])}}
    BY DEF overwrite, disturb
  <1>8. spoiled' \subseteq Contents
    BY <1>6, <1>7 DEF RpTypeOK
  <1> QED
    BY <1>1, <1>5, <1>7, <1>8

-----------------------------------------------------------------------------
(* The payload directory. *)

\* Steps that touch neither the files nor a flow that is storing.
LEMMA QuietStore ==
    ASSUME StoreInv, UNCHANGED <<flowVars, files, history>>,
           \A g \in Flows : \/ phase'[g] = phase[g]
                            \/ {phase[g], phase'[g]} \cap {"create", "write"} = {}
    PROVE  StoreInv'
  <1>1. ASSUME NEW g \in Flows
        PROVE  /\ phase'[g] = "write" <=> phase[g] = "write"
               /\ phase'[g] = "create" <=> phase[g] = "create"
    OBVIOUS
  <1>2. \A p, g : g \in Flows => (Writes(g, p)' <=> Writes(g, p))
    BY <1>1 DEF Writes
  <1>3. ASSUME NEW p \in Contents \ spoiled PROVE FileInv(p)' /\ ViewInv(p)'
    <2>1. FileInv(p) /\ ViewInv(p)
      BY DEF StoreInv
    <2>2. FileInv(p)'
      BY <1>2, <2>1 DEF FileInv
    <2>3. ViewInv(p)'
      BY <1>1, <2>1 DEF ViewInv, Storing
    <2> QED BY <2>2, <2>3
  <1>4. NextInv'
    BY <1>1 DEF StoreInv, NextInv
  <1> QED
    BY <1>3, <1>4 DEF StoreInv

\* udpListen reads a packet: whoever is storing from the buffer is counted as
\* disturbed, and nobody else's bytes change.
LEMMA OverwriteStore ==
    ASSUME RpTypeOK, StoreInv, overwrite(Exposed),
           UNCHANGED <<name, next, files, hashed>>,
           \A g \in Flows : phase'[g] = phase[g]
                            \/ (phase[g] = "idle" /\ phase'[g] = "stat")
    PROVE  StoreInv'
  <1>1. ASSUME NEW g \in Flows
        PROVE  /\ phase'[g] = "write" <=> phase[g] = "write"
               /\ phase'[g] = "create" <=> phase[g] = "create"
    OBVIOUS
  <1>2. \A p, g : g \in Flows => (Writes(g, p)' <=> Writes(g, p))
    BY <1>1 DEF Writes
  <1>3. ASSUME NEW p \in Contents \ spoiled' PROVE FileInv(p)' /\ ViewInv(p)'
    <2>1. p \in Contents \ spoiled
      BY OverwriteType
    <2>2. FileInv(p) /\ ViewInv(p)
      BY <2>1 DEF StoreInv
    <2>3. FileInv(p)'
      BY <1>2, <2>2 DEF FileInv
    <2>4. ASSUME NEW g \in Flows, g \in Storing(p)' PROVE view'[g] = p
      <3>1. g \in Storing(p) /\ name[g] = p
        BY <1>1, <2>4 DEF Storing
      <3>2. g \notin Exposed
        BY <1>3, <3>1, OverwriteType
      <3> QED
        BY <2>2, <3>1, <3>2, OverwriteType DEF ViewInv
    <2>5. ViewInv(p)'
      BY <2>4 DEF ViewInv, Storing
    <2> QED BY <2>3, <2>5
  <1>4. NextInv'
    BY <1>1 DEF StoreInv, NextInv
  <1> QED
    BY <1>3, <1>4 DEF StoreInv

\* A flow that did not write leaves Store.
LEMMA LeaveStoreInv ==
    ASSUME RpTypeOK, StoreInv, NEW f \in Flows, leaveStore(f),
           phase[f] # "write", UNCHANGED <<files, history>>
    PROVE  StoreInv'
  <1>1. phase'[f] \in {"ended", "produce"}
    BY LeaveFrame
  <1>2. ASSUME NEW p, NEW g \in Flows PROVE Writes(g, p)' <=> Writes(g, p)
    <2>1. CASE g = f
      BY <1>1, <2>1 DEF Writes
    <2>2. CASE g # f
      BY <2>2, LeaveFrame DEF Writes
    <2> QED BY <2>1, <2>2
  <1>3. ASSUME NEW p \in Contents \ spoiled PROVE FileInv(p)' /\ ViewInv(p)'
    <2>1. FileInv(p) /\ ViewInv(p)
      BY DEF StoreInv
    <2>2. FileInv(p)'
      <3>1. \A k \in Chunks : (\E g \in Flows : Writes(g, p) /\ next[g] <= k)
                => \E g \in Flows : Writes(g, p)' /\ next'[g] <= k
        <4>1. ASSUME NEW g \in Flows, Writes(g, p) PROVE next'[g] = next[g]
          BY <4>1, LeaveFrame DEF Writes
        <4> QED
          BY <1>2, <4>1
      <3> QED
        BY <1>2, <2>1, <3>1 DEF FileInv
    <2>3. ASSUME NEW g \in Flows, g \in Storing(p)' PROVE view'[g] = p
      <3>1. g # f
        BY <1>1, <2>3 DEF Storing
      <3>2. g \in Storing(p) /\ view'[g] = view[g]
        BY <2>3, <3>1, LeaveFrame DEF Storing
      <3> QED
        BY <2>1, <3>2 DEF ViewInv
    <2>4. ViewInv(p)'
      BY <2>3 DEF ViewInv, Storing
    <2> QED BY <2>2, <2>4
  <1>4. NextInv'
    BY LeaveFrame DEF StoreInv, NextInv
  <1> QED
    BY <1>3, <1>4 DEF StoreInv

\* StoreStat: the name is the hash of the bytes as they are, and the file is
\* not opened if it is there.
LEMMA StatStoreInv ==
    ASSUME RpTypeOK, StoreInv, NEW f \in Flows, StoreStat(f)
    PROVE  StoreInv'
  <1>1. CASE files[view[f]] # Absent
    BY <1>1, LeaveStoreInv DEF StoreStat
  <1>2. CASE files[view[f]] = Absent
    <2>1. /\ phase[f] = "stat" /\ phase' = [phase EXCEPT ![f] = "create"]
          /\ name' = [name EXCEPT ![f] = view[f]]
          /\ UNCHANGED <<view, next, files, history>>
      BY <1>2 DEF StoreStat, goto
    <2>2. /\ phase'[f] = "create" /\ name'[f] = view[f]
          /\ \A g \in Flows \ {f} : phase'[g] = phase[g] /\ name'[g] = name[g]
      BY <2>1 DEF RpTypeOK
    <2>3. ASSUME NEW p, NEW g \in Flows PROVE Writes(g, p)' <=> Writes(g, p)
      BY <2>1, <2>2 DEF Writes
    <2>4. ASSUME NEW p \in Contents \ spoiled PROVE FileInv(p)' /\ ViewInv(p)'
      <3>1. FileInv(p) /\ ViewInv(p)
        BY DEF StoreInv
      <3>2. FileInv(p)'
        BY <2>1, <2>3, <3>1 DEF FileInv
      <3>3. ViewInv(p)'
        BY <2>1, <2>2, <3>1 DEF ViewInv, Storing
      <3> QED BY <3>2, <3>3
    <2>5. NextInv'
      BY <2>1, <2>2 DEF StoreInv, NextInv
    <2> QED
      BY <2>1, <2>4, <2>5 DEF StoreInv
  <1> QED
    BY <1>1, <1>2

\* StoreCreate: every piece is missing again, and the flow that truncated
\* the file will write them all.
LEMMA CreateStoreInv ==
    ASSUME RpTypeOK, StoreInv, NEW f \in Flows, StoreCreate(f)
    PROVE  StoreInv'
  <1>1. /\ phase[f] = "create" /\ phase' = [phase EXCEPT ![f] = "write"]
        /\ files' = [files EXCEPT ![name[f]] = [c \in Chunks |-> "missing"]]
        /\ UNCHANGED <<view, name, next, history>>
    BY DEF StoreCreate, goto
  <1>2. /\ phase'[f] = "write" /\ next[f] = 1 /\ name[f] \in Contents
        /\ \A g \in Flows \ {f} : phase'[g] = phase[g]
    BY <1>1 DEF RpTypeOK, StoreInv, NextInv
  <1>3. ASSUME NEW p, NEW g \in Flows, Writes(g, p) PROVE Writes(g, p)'
    BY <1>1, <1>2, <1>3 DEF Writes
  <1>4. ASSUME NEW p \in Contents \ spoiled PROVE FileInv(p)' /\ ViewInv(p)'
    <2>1. FileInv(p) /\ ViewInv(p)
      BY DEF StoreInv
    <2>2. CASE p = name[f]
      <3>1. files'[p] = [c \in Chunks |-> "missing"]
        BY <1>1, <2>2 DEF RpTypeOK
      <3>2. files'[p] # Absent /\ \A k \in Chunks : files'[p][k] = "missing"
        <4>1. files'[p][1] = "missing" /\ Absent[1] = "absent"
          BY <3>1, TwoChunks DEF Absent
        <4> QED
          BY <3>1, <4>1
      <3>3. Writes(f, p)' /\ \A k \in Chunks : next'[f] <= k
        BY <1>1, <1>2, <2>2, TwoChunks DEF Writes
      <3>4. FileInv(p)'
        BY <3>2, <3>3 DEF FileInv, Absent
      <3>5. ViewInv(p)'
        BY <1>1, <1>2, <2>1 DEF ViewInv, Storing
      <3> QED BY <3>4, <3>5
    <2>3. CASE p # name[f]
      <3>1. files'[p] = files[p]
        BY <1>1, <2>3 DEF RpTypeOK
      <3>2. ASSUME NEW g \in Flows PROVE Writes(g, p)' <=> Writes(g, p)
        BY <1>1, <1>2, <2>3 DEF Writes
      <3>3. FileInv(p)'
        BY <1>1, <2>1, <3>1, <3>2 DEF FileInv, Absent
      <3>4. ViewInv(p)'
        BY <1>1, <1>2, <2>1 DEF ViewInv, Storing
      <3> QED BY <3>3, <3>4
    <2> QED BY <2>2, <2>3
  <1>5. NextInv'
    BY <1>1, <1>2 DEF StoreInv, NextInv
  <1> QED
    BY <1>1, <1>4, <1>5 DEF StoreInv

\* What a piece written by f does to the files: it is a piece of the name if
\* nobody disturbed the flow.
LEMMA WritePiece ==
    ASSUME RpTypeOK, StoreInv, NEW f \in Flows, StoreWrite(f),
           NEW p \in Contents \ spoiled
    PROVE  /\ p # name[f] => files'[p] = files[p]
           /\ p = name[f] => /\ files[p] # Absent /\ files'[p] # Absent
                             /\ files'[p][next[f]] = p
                             /\ \A k \in Chunks \ {next[f]} :
                                    files'[p][k] = files[p][k]
  <1>1. /\ phase[f] = "write"
        /\ files' = [files EXCEPT ![name[f]][next[f]] = view[f]]
    BY DEF StoreWrite, storeWrite
  <1>2. files \in [Contents -> Files] /\ name[f] \in Contents
        /\ next[f] \in Chunks
    BY DEF RpTypeOK
  <1>3. CASE p # name[f]
    BY <1>1, <1>2, <1>3
  <1>4. CASE p = name[f]
    <2>1. view[f] = p /\ files[p] # Absent
      <3>1. FileInv(p) /\ ViewInv(p)
        BY DEF StoreInv
      <3>2. f \in Storing(p) /\ Writes(f, p)
        BY <1>1, <1>4 DEF Storing, Writes
      <3> QED
        BY <3>1, <3>2 DEF FileInv, ViewInv
    <2>2. files[p] \in [Chunks -> Contents \cup {"missing", "absent"}]
      BY <1>2 DEF Files
    <2>3. files'[p] = [files[p] EXCEPT ![next[f]] = p]
      BY <1>1, <1>2, <1>4, <2>1
    <2>4. /\ files'[p][next[f]] = p
          /\ \A k \in Chunks \ {next[f]} : files'[p][k] = files[p][k]
      BY <1>2, <2>2, <2>3
    <2>5. p # "absent"
      BY ContentsAssumption
    <2>6. files'[p] # Absent
      BY <1>2, <2>4, <2>5 DEF Absent
    <2> QED
      BY <1>4, <2>1, <2>4, <2>6
  <1> QED
    BY <1>3, <1>4

\* StoreWrite: the piece is no longer missing; the flow goes on to the next
\* piece or leaves, having written the last one, and then returns the hash.
LEMMA WriteStoreInv ==
    ASSUME RpTypeOK, StoreInv, NEW f \in Flows, StoreWrite(f)
    PROVE  StoreInv'
  <1>1. phase[f] = "write" /\ spoiled' = spoiled /\ next[f] \in {1, 2}
    BY TwoChunks DEF StoreWrite, storeWrite, RpTypeOK
  <1>2. CASE next[f] = 2
    <2>1. leaveStore(f) /\ hashed' = hashed \cup {name[f]}
      BY <1>2, TwoChunks DEF StoreWrite, storeWrite
    <2>2. phase'[f] \in {"ended", "produce"}
      BY <2>1, LeaveFrame
    <2>3. ASSUME NEW p, NEW g \in Flows \ {f}
          PROVE  Writes(g, p)' <=> Writes(g, p)
      BY <2>1, LeaveFrame DEF Writes
    <2>4. ASSUME NEW p \in Contents \ spoiled PROVE FileInv(p)' /\ ViewInv(p)'
      <3>1. FileInv(p) /\ ViewInv(p)
        BY DEF StoreInv
      <3>2. ViewInv(p)'
        <4>1. ASSUME NEW g \in Flows, g \in Storing(p)' PROVE view'[g] = p
          <5>1. g # f
            BY <2>2, <4>1 DEF Storing
          <5>2. g \in Storing(p) /\ view'[g] = view[g]
            BY <2>1, <4>1, <5>1, LeaveFrame DEF Storing
          <5> QED
            BY <3>1, <5>2 DEF ViewInv
        <4> QED
          BY <4>1 DEF ViewInv, Storing
      <3>3. CASE p = name[f]
        <4>1. /\ files[p] # Absent /\ files'[p] # Absent /\ files'[p][2] = p
              /\ files'[p][1] = files[p][1]
          BY <1>2, <3>3, WritePiece, TwoChunks
        <4>2. files[p][1] = p \/ (/\ files[p][1] = "missing"
                                  /\ \E g \in Flows : Writes(g, p)
                                                      /\ next[g] <= 1)
          BY <3>1, <4>1, TwoChunks DEF FileInv
        <4>3. ASSUME NEW g \in Flows, Writes(g, p), next[g] <= 1
              PROVE  Writes(g, p)' /\ next'[g] <= 1
          <5>1. g # f
            BY <1>2, <4>3
          <5> QED
            BY <2>1, <2>3, <4>3, <5>1, LeaveFrame
        <4>4. p \in hashed'
          BY <2>1, <3>3
        <4>5. FileInv(p)'
          BY <4>1, <4>2, <4>3, <4>4, TwoChunks DEF FileInv, Absent
        <4> QED
          BY <3>2, <4>5
      <3>4. CASE p # name[f]
        <4>1. files'[p] = files[p]
          BY <3>4, WritePiece
        <4>2. ASSUME NEW g \in Flows PROVE Writes(g, p)' <=> Writes(g, p)
          BY <2>2, <2>3, <3>4 DEF Writes
        <4>3. ASSUME NEW g \in Flows, Writes(g, p) PROVE next'[g] = next[g]
          BY <2>1, <3>4, <4>3, LeaveFrame DEF Writes
        <4>4. p \in hashed' <=> p \in hashed
          BY <2>1, <3>4
        <4>5. FileInv(p)'
          BY <3>1, <4>1, <4>2, <4>3, <4>4 DEF FileInv, Absent
        <4> QED
          BY <3>2, <4>5
      <3> QED BY <3>3, <3>4
    <2>5. NextInv'
      BY <2>1, LeaveFrame DEF StoreInv, NextInv
    <2> QED
      BY <1>1, <2>4, <2>5 DEF StoreInv
  <1>3. CASE next[f] = 1
    <2>1. /\ next' = [next EXCEPT ![f] = 2]
          /\ UNCHANGED <<phase, view, name, hashed>>
      BY <1>3, TwoChunks DEF StoreWrite, storeWrite, RpTypeOK
    <2>2. ASSUME NEW p, NEW g \in Flows PROVE Writes(g, p)' <=> Writes(g, p)
      BY <2>1 DEF Writes
    <2>3. ASSUME NEW p \in Contents \ spoiled PROVE FileInv(p)' /\ ViewInv(p)'
      <3>1. FileInv(p) /\ ViewInv(p)
        BY DEF StoreInv
      <3>2. ViewInv(p)'
        BY <2>1, <3>1 DEF ViewInv, Storing
      <3>3. \A g \in Flows : next[g] <= 2 /\ next'[g] <= 2
        BY <2>1, TwoChunks DEF RpTypeOK
      <3>4. CASE p = name[f]
        <4>1. /\ files[p] # Absent /\ files'[p] # Absent /\ files'[p][1] = p
              /\ files'[p][2] = files[p][2]
          BY <1>3, <3>4, WritePiece, TwoChunks
        <4>2. Writes(f, p)
          BY <1>1, <3>4 DEF Writes
        <4>3. files[p][2] = p \/ files[p][2] = "missing"
          BY <3>1, <4>1, TwoChunks DEF FileInv
        <4>4. FileInv(p)'
          BY <2>2, <3>3, <4>1, <4>2, <4>3, TwoChunks DEF FileInv, Absent
        <4> QED
          BY <3>2, <4>4
      <3>5. CASE p # name[f]
        <4>1. files'[p] = files[p]
          BY <3>5, WritePiece
        <4>2. ASSUME NEW g \in Flows, Writes(g, p) PROVE next'[g] = next[g]
          BY <2>1, <3>5, <4>2 DEF Writes, RpTypeOK
        <4>3. FileInv(p)'
          BY <2>1, <2>2, <3>1, <4>1, <4>2 DEF FileInv, Absent
        <4> QED
          BY <3>2, <4>3
      <3> QED BY <3>4, <3>5
    <2>4. NextInv'
      BY <1>1, <2>1 DEF StoreInv, NextInv, RpTypeOK
    <2> QED
      BY <1>1, <2>3, <2>4 DEF StoreInv
  <1> QED
    BY <1>1, <1>2, <1>3

\* StoreFails: a flow that was writing leaves its file spoiled; one that had
\* not got that far leaves no trace.
LEMMA FailStoreInv ==
    ASSUME RpTypeOK, StoreInv, NEW f \in Flows, StoreFails(f)
    PROVE  StoreInv'
  <1>1. leaveStore(f) /\ UNCHANGED <<files, hashed>>
    BY DEF StoreFails
  <1>2. CASE phase[f] # "write"
    BY <1>1, <1>2, LeaveStoreInv DEF StoreFails
  <1>3. CASE phase[f] = "write"
    <2>1. spoiled' = spoiled \cup {name[f]}
      BY <1>3 DEF StoreFails
    <2>2. phase'[f] \in {"ended", "produce"}
      BY <1>1, LeaveFrame
    <2>3. ASSUME NEW p \in Contents \ spoiled' PROVE FileInv(p)' /\ ViewInv(p)'
      <3>1. FileInv(p) /\ ViewInv(p) /\ p # name[f]
        BY <2>1 DEF StoreInv
      <3>2. ASSUME NEW g \in Flows PROVE Writes(g, p)' <=> Writes(g, p)
        <4>1. CASE g = f
          BY <2>2, <3>1, <4>1 DEF Writes
        <4>2. CASE g # f
          BY <1>1, <4>2, LeaveFrame DEF Writes
        <4> QED BY <4>1, <4>2
      <3>3. ASSUME NEW g \in Flows, Writes(g, p) PROVE next'[g] = next[g]
        BY <1>1, <3>1, <3>3, LeaveFrame DEF Writes
      <3>4. FileInv(p)'
        BY <1>1, <3>1, <3>2, <3>3 DEF FileInv, Absent
      <3>5. ASSUME NEW g \in Flows, g \in Storing(p)' PROVE view'[g] = p
        <4>1. g # f
          BY <2>2, <3>5 DEF Storing
        <4>2. g \in Storing(p) /\ view'[g] = view[g]
          BY <1>1, <3>5, <4>1, LeaveFrame DEF Storing
        <4> QED
          BY <3>1, <4>2 DEF ViewInv
      <3>6. ViewInv(p)'
        BY <3>5 DEF ViewInv, Storing
      <3> QED BY <3>4, <3>6
    <2>4. NextInv'
      BY <1>1, LeaveFrame DEF StoreInv, NextInv
    <2> QED
      BY <2>3, <2>4 DEF StoreInv
  <1> QED
    BY <1>2, <1>3

\* Kill: every Store that was under way is disturbed, so what remains was
\* stored by flows that are done.
LEMMA KillStoreInv ==
    ASSUME RpTypeOK, StoreInv, Kill
    PROVE  StoreInv'
  <1>1. /\ spoiled' = spoiled \cup
               {name[g] : g \in {h \in Flows : h \in Storing(name[h])}}
        /\ UNCHANGED <<files, hashed>>
        /\ next' = [f \in Flows |-> 1]
    BY DEF Kill, disturb
  <1>2. \A g \in Flows : phase'[g] \in Over
    BY DEF Kill, Over
  <1>3. ASSUME NEW p \in Contents \ spoiled' PROVE FileInv(p)' /\ ViewInv(p)'
    <2>1. FileInv(p)
      BY <1>1 DEF StoreInv
    <2>2. \A g \in Flows : ~Writes(g, p)
      BY <1>1 DEF Writes, Storing
    <2>3. \A g \in Flows : ~Writes(g, p)'
      BY <1>2 DEF Writes, Over
    <2>4. FileInv(p)'
      BY <1>1, <2>1, <2>2, <2>3 DEF FileInv, Absent
    <2>5. ViewInv(p)'
      BY <1>2 DEF ViewInv, Storing, Over
    <2> QED BY <2>4, <2>5
  <1>4. NextInv'
    BY <1>1 DEF NextInv
  <1> QED
    BY <1>3, <1>4 DEF StoreInv

-----------------------------------------------------------------------------
(* Types. *)

\* The phases a flow may move to.
LEMMA GotoType ==
    ASSUME RpTypeOK, NEW f \in Flows, NEW q \in Phases, goto(f, q)
    PROVE  phase' \in [Flows -> Phases]
  BY DEF goto, RpTypeOK

\* Arrivals and Stores keep the types.
LEMMA StoreType ==
    ASSUME RpTypeOK, NEW f \in Flows, Arrive(f) \/ Store(f)
    PROVE  RpTypeOK'
  <1> USE DEF Phases, Over
  <1>1. CASE Captured(f) \/ GetSample(f)
    <2>1. PICK q \in Phases : goto(f, q)
      BY <1>1 DEF Captured, GetSample
    <2>2. UNCHANGED <<kills, up, flowVars, files, sinkVars, history>>
      BY <1>1 DEF Captured, GetSample
    <2> QED
      BY <2>1, <2>2, GotoType DEF RpTypeOK
  <1>2. CASE UDPReceived(f)
    <2>1. /\ overwrite(Exposed) /\ phase' \in [Flows -> Phases]
          /\ UNCHANGED <<kills, up, name, next, files, sinkVars, hashed>>
      BY <1>2, GotoType DEF UDPReceived
    <2> QED
      BY <2>1, OverwriteType DEF RpTypeOK
  <1>3. CASE StoreStat(f)
    <2>1. UNCHANGED <<kills, up, files, sinkVars, history>>
      BY <1>3 DEF StoreStat
    <2>2. /\ phase' \in [Flows -> Phases] /\ next' \in [Flows -> Chunks]
          /\ view' \in [Flows -> Contents] /\ name' \in [Flows -> Contents]
      <3>1. CASE leaveStore(f)
        BY <3>1, LeaveFrame
      <3>2. CASE ~leaveStore(f)
        <4>1. /\ name' = [name EXCEPT ![f] = view[f]] /\ goto(f, "create")
              /\ UNCHANGED <<view, next>>
          BY <1>3, <3>2 DEF StoreStat
        <4> QED
          BY <4>1, GotoType DEF RpTypeOK
      <3> QED BY <3>1, <3>2
    <2> QED
      BY <2>1, <2>2 DEF RpTypeOK
  <1>4. CASE StoreCreate(f)
    <2>1. /\ files' = [files EXCEPT ![name[f]] = [c \in Chunks |-> "missing"]]
          /\ phase' \in [Flows -> Phases]
          /\ UNCHANGED <<kills, up, flowVars, sinkVars, history>>
      BY <1>4, GotoType DEF StoreCreate
    <2>2. [c \in Chunks |-> "missing"] \in Files
      BY DEF Files
    <2>3. files' \in [Contents -> Files]
      BY <2>1, <2>2 DEF RpTypeOK
    <2> QED
      BY <2>1, <2>3 DEF RpTypeOK
  <1>5. CASE StoreWrite(f)
    <2>1. /\ files' = [files EXCEPT ![name[f]][next[f]] = view[f]]
          /\ UNCHANGED <<kills, up, sinkVars, spoiled>>
      BY <1>5 DEF StoreWrite, storeWrite
    <2>2. files' \in [Contents -> Files]
      <3>1. /\ name[f] \in Contents /\ next[f] \in Chunks
            /\ view[f] \in Contents
            /\ files[name[f]] \in [Chunks -> Contents \cup {"missing", "absent"}]
        BY DEF RpTypeOK, Files
      <3>2. [files[name[f]] EXCEPT ![next[f]] = view[f]] \in Files
        BY <3>1 DEF Files
      <3> QED
        BY <2>1, <3>2 DEF RpTypeOK
    <2>3. /\ phase' \in [Flows -> Phases] /\ next' \in [Flows -> Chunks]
          /\ view' \in [Flows -> Contents] /\ name' \in [Flows -> Contents]
          /\ hashed' \subseteq Contents
      <3>1. CASE next[f] = 2
        <4>1. leaveStore(f) /\ hashed' = hashed \cup {name[f]}
          BY <1>5, <3>1, TwoChunks DEF StoreWrite, storeWrite
        <4>2. hashed' \subseteq Contents
          BY <4>1 DEF RpTypeOK
        <4> QED
          BY <4>1, <4>2, LeaveFrame
      <3>2. CASE next[f] # 2
        <4>1. next[f] = 1
          BY <3>2, TwoChunks DEF RpTypeOK
        <4>2. /\ next' = [next EXCEPT ![f] = 2]
              /\ UNCHANGED <<phase, view, name, hashed>>
          BY <1>5, <4>1, TwoChunks DEF StoreWrite, storeWrite, RpTypeOK
        <4> QED
          BY <4>2, TwoChunks DEF RpTypeOK
      <3> QED BY <3>1, <3>2
    <2> QED
      BY <2>1, <2>2, <2>3 DEF RpTypeOK
  <1>6. CASE StoreFails(f)
    <2>1. /\ leaveStore(f) /\ spoiled' \subseteq Contents
          /\ UNCHANGED <<kills, up, files, sinkVars, hashed>>
      BY <1>6 DEF StoreFails, RpTypeOK
    <2> QED
      BY <2>1, LeaveFrame DEF RpTypeOK
  <1> QED
    BY <1>1, <1>2, <1>3, <1>4, <1>5, <1>6 DEF Arrive, Store

-----------------------------------------------------------------------------
(* The sinks. *)

Early == {"idle", "fetch", "stat", "create", "write"}

\* Until the event is made, a flow gives nothing to a sink: such steps keep
\* the account of every flow.
LEMMA FlowFrame ==
    ASSUME FlowInv, UNCHANGED <<setup, hpf, http, refused>>,
           \A g \in Flows :
               \/ phase'[g] = phase[g] \/ phase'[g] = "gone"
               \/ /\ phase[g] \in Early
                  /\ \/ phase'[g] \in {"stat", "create", "write"}
                     \/ phase'[g] = "produce" /\ Info[g].kind # "sample"
                     \/ phase'[g] \in {"fetch", "ended"}
                        /\ Info[g].kind = "sample"
    PROVE  FlowInv'
  <1>1. ASSUME NEW g \in Flows PROVE EventInv(g)' /\ Handed(g)'
    <2>1. EventInv(g) /\ Handed(g)
      BY DEF FlowInv
    <2>2. EventInv(g)'
      BY <2>1 DEF EventInv, Early, Unsent, encodable
    <2>3. Handed(g)'
      BY <2>1 DEF Handed, EventInv, Early, Unsent, encodable
    <2> QED BY <2>2, <2>3
  <1> QED
    BY <1>1 DEF FlowInv

\* Arrivals and Stores.
LEMMA StoreFlow ==
    ASSUME RpTypeOK, FlowInv, NEW f \in Flows, Arrive(f) \/ Store(f)
    PROVE  FlowInv'
  <1>1. UNCHANGED <<setup, hpf, http, refused>>
    BY DEF Arrive, Captured, UDPReceived, GetSample, Store, StoreStat,
           StoreCreate, StoreWrite, storeWrite, StoreFails
  <1>2. phase[f] \in Early
    BY DEF Arrive, Captured, UDPReceived, GetSample, Store, StoreStat,
           StoreCreate, StoreWrite, storeWrite, StoreFails, Early
  <1>3. CASE leaveStore(f)
    BY <1>1, <1>2, <1>3, LeaveFrame, FlowFrame
  <1>4. CASE UNCHANGED phase
    BY <1>1, <1>4, FlowFrame
  <1>5. CASE (StoreStat(f) /\ ~leaveStore(f)) \/ StoreCreate(f) \/ UDPReceived(f)
    <2>1. PICK q \in {"stat", "create", "write"} : goto(f, q)
      BY <1>5 DEF StoreStat, StoreCreate, UDPReceived
    <2> QED
      BY <1>1, <1>2, <2>1, FlowFrame DEF goto, RpTypeOK
  <1>6. CASE Captured(f)
    <2>1. goto(f, "stat") \/ (goto(f, "produce") /\ Info[f].kind # "sample")
      BY <1>6 DEF Captured
    <2> QED
      BY <1>1, <1>2, <2>1, FlowFrame DEF goto, RpTypeOK
  <1>7. CASE GetSample(f)
    <2>1. Info[f].kind = "sample"
      BY <1>7 DEF GetSample, FlowInv, EventInv
    <2>2. PICK q \in {"fetch", "stat", "ended"} : goto(f, q)
      BY <1>7 DEF GetSample
    <2> QED
      BY <1>1, <1>2, <2>1, <2>2, FlowFrame DEF goto, RpTypeOK
  <1> QED
    BY <1>3, <1>4, <1>5, <1>6, <1>7
    DEF Arrive, Store, StoreFails, StoreWrite, storeWrite

\* One flow calls a sink; the others keep their account.
LEMMA OthersFlow ==
    ASSUME FlowInv, NEW f \in Flows, setup' = setup,
           \A g \in Flows \ {f} :
               /\ phase'[g] = phase[g] /\ hpf'[g] = hpf[g] /\ http'[g] = http[g]
               /\ g \in refused' <=> g \in refused,
           EventInv(f)', Handed(f)'
    PROVE  FlowInv'
  <1>1. ASSUME NEW g \in Flows \ {f} PROVE EventInv(g)' /\ Handed(g)'
    <2>1. EventInv(g) /\ Handed(g)
      BY DEF FlowInv
    <2>2. EventInv(g)'
      BY <2>1 DEF EventInv, Unsent, encodable
    <2>3. Handed(g)'
      BY <2>1 DEF Handed, encodable
    <2> QED BY <2>2, <2>3
  <1> QED
    BY <1>1 DEF FlowInv

\* ProduceTCP, ProduceUDP and the calls of the two sinks.
LEMMA LogFlow ==
    ASSUME RpTypeOK, setup \in Setups, FlowInv, NEW f \in Flows,
           Log(f) \/ HTTPAnswered(f)
    PROVE  RpTypeOK' /\ FlowInv'
  <1> USE DEF Phases, Over
  <1>1. /\ setup.producer \in BOOLEAN /\ setup.hpfeeds \in BOOLEAN
        /\ setup.http \in BOOLEAN
    BY SetupsAssumption
  <1>2. EventInv(f) /\ Handed(f) /\ hpf[f] \in Nat /\ http[f] \in Nat
    BY DEF FlowInv, RpTypeOK
  <1>3. afterHPFeeds \in {"http", "ended"}
    BY DEF afterHPFeeds
  <1>4. CASE MakeEvent(f)
    <2>1. PICK q \in {"ended", "hpfeeds", "http"} :
              /\ goto(f, q)
              /\ q = "hpfeeds" => setup.producer /\ setup.hpfeeds
              /\ q = "http" => setup.producer /\ ~setup.hpfeeds /\ setup.http
              /\ q = "ended" =>
                    ~setup.producer \/ (~setup.hpfeeds /\ ~setup.http)
      <3>1. CASE ~setup.producer
        BY <1>4, <3>1 DEF MakeEvent
      <3>2. CASE setup.producer /\ setup.hpfeeds
        BY <1>4, <3>2 DEF MakeEvent
      <3>3. CASE setup.producer /\ ~setup.hpfeeds
        BY <1>1, <1>4, <3>3 DEF MakeEvent, afterHPFeeds
      <3> QED BY <1>1, <3>1, <3>2, <3>3
    <2>2. /\ phase[f] = "produce"
          /\ UNCHANGED <<setup, kills, up, flowVars, files, sinkVars, history>>
      BY <1>4 DEF MakeEvent
    <2>3. RpTypeOK'
      BY <2>1, <2>2, GotoType DEF RpTypeOK
    <2>4. phase'[f] = q /\ \A g \in Flows \ {f} : phase'[g] = phase[g]
      BY <2>1 DEF goto, RpTypeOK
    <2>5. EventInv(f)' /\ Handed(f)'
      BY <1>2, <2>1, <2>2, <2>4 DEF EventInv, Handed, Unsent, encodable
    <2>6. FlowInv'
      BY <2>2, <2>4, <2>5, OthersFlow
    <2> QED BY <2>3, <2>6
  <1>5. CASE EncodeFails(f)
    <2>1. /\ phase[f] = "hpfeeds" /\ ~encodable(f) /\ goto(f, "ended")
          /\ UNCHANGED <<setup, kills, up, flowVars, files, sinkVars, history>>
      BY <1>5 DEF EncodeFails
    <2>2. RpTypeOK'
      BY <2>1, GotoType DEF RpTypeOK
    <2>3. phase'[f] = "ended" /\ \A g \in Flows \ {f} : phase'[g] = phase[g]
      BY <2>1 DEF goto, RpTypeOK
    <2>4. EventInv(f)' /\ Handed(f)'
      BY <1>2, <2>1, <2>3 DEF EventInv, Handed, Unsent, encodable
    <2>5. FlowInv'
      BY <2>1, <2>3, <2>4, OthersFlow
    <2> QED BY <2>2, <2>5
  <1>6. CASE LogHPFeeds(f)
    <2>1. /\ phase[f] = "hpfeeds" /\ encodable(f) /\ goto(f, afterHPFeeds)
          /\ pub' = "busy" /\ hpf' = [hpf EXCEPT ![f] = @ + 1]
          /\ UNCHANGED <<setup, kills, up, flowVars, files, http, refused,
                         history>>
      BY <1>6 DEF LogHPFeeds
    <2>2. /\ hpf[f] = 0 /\ http[f] = 0 /\ f \notin refused
          /\ Info[f].kind # "sample" /\ setup.producer /\ setup.hpfeeds
      BY <1>2, <2>1 DEF EventInv, Unsent
    <2>3. RpTypeOK'
      <3>1. phase' \in [Flows -> Phases] /\ hpf' \in [Flows -> Nat]
        BY <1>3, <2>1, GotoType DEF RpTypeOK
      <3>2. \A g \in Flows : Info[g].kind = "sample" => hpf'[g] = hpf[g]
        BY <2>1, <2>2 DEF RpTypeOK
      <3>3. \A g \in Flows : Info[g].kind = "sample" => hpf'[g] + http'[g] = 0
        BY <2>1, <3>2 DEF RpTypeOK
      <3> QED
        BY <2>1, <3>1, <3>3 DEF RpTypeOK
    <2>4. /\ phase'[f] = afterHPFeeds /\ hpf'[f] = 1
          /\ \A g \in Flows \ {f} : phase'[g] = phase[g] /\ hpf'[g] = hpf[g]
      BY <2>1, <2>2 DEF goto, RpTypeOK
    <2>5. phase'[f] = IF setup.http THEN "http" ELSE "ended"
      BY <2>4 DEF afterHPFeeds
    <2>6. EventInv(f)'
      BY <1>1, <2>1, <2>2, <2>4, <2>5 DEF EventInv, Unsent, encodable
    <2>7. Handed(f)'
      BY <1>1, <2>1, <2>2, <2>4, <2>5 DEF Handed, encodable
    <2>8. FlowInv'
      BY <2>1, <2>4, <2>6, <2>7, OthersFlow
    <2> QED BY <2>3, <2>8
  <1>7. CASE SkipHTTP(f)
    <2>1. /\ phase[f] = "http" /\ f \in setup.private /\ goto(f, "ended")
          /\ UNCHANGED <<setup, kills, up, flowVars, files, sinkVars, history>>
      BY <1>7 DEF SkipHTTP
    <2>2. RpTypeOK'
      BY <2>1, GotoType DEF RpTypeOK
    <2>3. phase'[f] = "ended" /\ \A g \in Flows \ {f} : phase'[g] = phase[g]
      BY <2>1 DEF goto, RpTypeOK
    <2>4. EventInv(f)' /\ Handed(f)'
      BY <1>1, <1>2, <2>1, <2>3 DEF EventInv, Handed, Unsent, encodable
    <2>5. FlowInv'
      BY <2>1, <2>3, <2>4, OthersFlow
    <2> QED BY <2>2, <2>5
  <1>8. CASE HTTPAnswered(f) \/ HTTPFails(f)
    <2>1. PICK n \in 0..1 :
              /\ http' = [http EXCEPT ![f] = @ + n]
              /\ \/ n = 1 /\ refused' = refused
                 \/ refused' = refused \cup {f}
      <3>1. CASE HTTPAnswered(f)
        <4>1. 1 \in 0..1
          OBVIOUS
        <4> QED
          BY <3>1, <4>1 DEF HTTPAnswered
      <3>2. CASE HTTPFails(f)
        BY <3>2 DEF HTTPFails, httpFails
      <3> QED BY <1>8, <3>1, <3>2
    <2>2. /\ phase[f] = "http" /\ goto(f, "ended")
          /\ UNCHANGED <<setup, kills, up, flowVars, files, pub, hpf, history>>
      BY <1>8 DEF HTTPAnswered, HTTPFails, httpFails
    <2>3. /\ http[f] = 0 /\ f \notin refused /\ Info[f].kind # "sample"
          /\ hpf[f] = IF setup.hpfeeds THEN 1 ELSE 0
          /\ setup.hpfeeds => encodable(f)
      BY <1>2, <2>2 DEF EventInv
    <2>4. n \in Nat /\ n <= 1
      BY <2>1
    <2>5. RpTypeOK'
      <3>1. phase' \in [Flows -> Phases] /\ http' \in [Flows -> Nat]
        BY <2>1, <2>2, <2>4, GotoType DEF RpTypeOK
      <3>2. \A g \in Flows : Info[g].kind = "sample" => http'[g] = http[g]
        BY <2>1, <2>3 DEF RpTypeOK
      <3>3. \A g \in Flows : Info[g].kind = "sample" => hpf'[g] + http'[g] = 0
        BY <2>2, <3>2 DEF RpTypeOK
      <3>4. refused' \subseteq Flows
        BY <2>1 DEF RpTypeOK
      <3> QED
        BY <2>2, <3>1, <3>3, <3>4 DEF RpTypeOK
    <2>6. /\ phase'[f] = "ended" /\ http'[f] = n
          /\ \A g \in Flows \ {f} : /\ phase'[g] = phase[g]
                                    /\ http'[g] = http[g]
                                    /\ g \in refused' <=> g \in refused
      BY <2>1, <2>2, <2>3, <2>4 DEF goto, RpTypeOK
    <2>7. n = 1 \/ f \in refused'
      BY <2>1
    <2>8. EventInv(f)'
      BY <2>6 DEF EventInv
    <2>9. Handed(f)'
      BY <1>1, <2>2, <2>3, <2>4, <2>6, <2>7 DEF Handed, encodable
    <2>10. FlowInv'
      <3>1. setup' = setup /\ hpf' = hpf
        BY <2>2
      <3>2. ASSUME NEW g \in Flows \ {f}
            PROVE  /\ phase'[g] = phase[g] /\ hpf'[g] = hpf[g]
                   /\ http'[g] = http[g]
                   /\ g \in refused' <=> g \in refused
        BY <2>6, <3>1
      <3> QED
        BY <2>8, <2>9, <3>1, <3>2, OthersFlow
    <2> QED BY <2>5, <2>10
  <1> QED
    BY <1>4, <1>5, <1>6, <1>7, <1>8 DEF Log

-----------------------------------------------------------------------------
(* The theorems. *)

\* Nothing is captured, stored or reported yet.
LEMMA RpInitInv == RpInit => RpInv
  <1> SUFFICES ASSUME RpInit PROVE RpInv
    OBVIOUS
  <1>1. RpTypeOK
    <2>1. kills \in 0..MaxKills /\ hpf \in [Flows -> Nat]
          /\ http \in [Flows -> Nat]
      BY KillsAssumption DEF RpInit
    <2>2. up \in BOOLEAN
      BY DEF RpInit
    <2>3. phase \in [Flows -> Phases] /\ pub \in {"ready", "busy", "stuck"}
      BY DEF RpInit, Phases, Over
    <2>4. view \in [Flows -> Contents] /\ name \in [Flows -> Contents]
      BY InfoType DEF RpInit
    <2>5. next \in [Flows -> Chunks]
      BY TwoChunks DEF RpInit
    <2>6. files \in [Contents -> Files]
      BY DEF RpInit, Files, Absent
    <2>7. \A f \in Flows : hpf[f] + http[f] = 0
      BY DEF RpInit
    <2>8. refused \subseteq Flows /\ hashed \subseteq Contents
          /\ spoiled \subseteq Contents
      BY DEF RpInit
    <2> QED
      BY <2>1, <2>2, <2>3, <2>4, <2>5, <2>6, <2>7, <2>8 DEF RpTypeOK
  <1>2. setup \in Setups
    BY DEF RpInit
  <1>3. StoreInv
    <2>1. \A f \in Flows : phase[f] = "idle" /\ next[f] = 1
      BY DEF RpInit
    <2>2. ASSUME NEW p \in Contents PROVE FileInv(p) /\ ViewInv(p)
      BY <2>1 DEF RpInit, FileInv, ViewInv, Storing, Writes
    <2> QED
      BY <2>1, <2>2 DEF StoreInv, NextInv
  <1>4. FlowInv
    <2>1. ASSUME NEW f \in Flows PROVE EventInv(f) /\ Handed(f)
      <3>1. phase[f] = "idle" /\ hpf[f] = 0 /\ http[f] = 0 /\ f \notin refused
        BY DEF RpInit
      <3> QED
        BY <3>1 DEF EventInv, Handed, Unsent
    <2> QED
      BY <2>1 DEF FlowInv
  <1> QED
    BY <1>1, <1>2, <1>3, <1>4 DEF RpInv

\* Every step keeps the invariant.
LEMMA RpStepInv == RpInv /\ [RpNext]_rpVars => RpInv'
  <1> SUFFICES ASSUME RpInv, [RpNext]_rpVars PROVE RpInv'
    OBVIOUS
  <1>0. RpTypeOK /\ setup \in Setups /\ StoreInv /\ FlowInv
    BY DEF RpInv
  <1>1. ASSUME NEW f \in Flows, Arrive(f) \/ Store(f) PROVE RpInv'
    <2>1. RpTypeOK' /\ FlowInv'
      BY <1>0, <1>1, StoreType, StoreFlow
    <2>2. setup' = setup
      BY <1>1 DEF Arrive, Captured, UDPReceived, GetSample, Store, StoreStat,
                  StoreCreate, StoreWrite, storeWrite, StoreFails
    <2>3. StoreInv'
      <3>1. CASE Captured(f) \/ GetSample(f)
        <4>1. UNCHANGED <<flowVars, files, history>>
          BY <3>1 DEF Captured, GetSample
        <4>2. PICK q \in {"fetch", "stat", "produce", "ended"} : goto(f, q)
          BY <3>1 DEF Captured, GetSample
        <4>3. phase[f] \in {"idle", "fetch"}
          BY <3>1 DEF Captured, GetSample
        <4>4. phase'[f] = q /\ \A g \in Flows \ {f} : phase'[g] = phase[g]
          BY <1>0, <4>2 DEF goto, RpTypeOK
        <4> QED
          BY <1>0, <4>1, <4>3, <4>4, QuietStore
      <3>2. CASE UDPReceived(f)
        <4>1. /\ overwrite(Exposed) /\ phase[f] = "idle" /\ goto(f, "stat")
              /\ UNCHANGED <<name, next, files, hashed>>
          BY <3>2 DEF UDPReceived
        <4>2. phase'[f] = "stat" /\ \A g \in Flows \ {f} : phase'[g] = phase[g]
          BY <1>0, <4>1 DEF goto, RpTypeOK
        <4> QED
          BY <1>0, <4>1, <4>2, OverwriteStore
      <3> QED
        BY <1>0, <1>1, <3>1, <3>2, StatStoreInv, CreateStoreInv,
           WriteStoreInv, FailStoreInv DEF Arrive, Store
    <2> QED
      BY <1>0, <2>1, <2>2, <2>3 DEF RpInv
  <1>2. ASSUME NEW f \in Flows, Log(f) \/ HTTPAnswered(f) PROVE RpInv'
    <2>1. RpTypeOK' /\ FlowInv'
      BY <1>0, <1>2, LogFlow
    <2>2. UNCHANGED <<setup, flowVars, files, history>>
      BY <1>2 DEF Log, MakeEvent, EncodeFails, LogHPFeeds, SkipHTTP,
                  HTTPFails, httpFails, HTTPAnswered
    <2>3. /\ phase[f] \in {"produce", "hpfeeds", "http"}
          /\ \E q \in {"ended", "hpfeeds", "http"} : goto(f, q)
      <3>1. CASE MakeEvent(f)
        <4>1. /\ setup.producer \in BOOLEAN /\ setup.hpfeeds \in BOOLEAN
          BY <1>0, SetupsAssumption
        <4> QED
          BY <3>1, <4>1 DEF MakeEvent, afterHPFeeds
      <3>2. CASE EncodeFails(f) \/ SkipHTTP(f) \/ HTTPFails(f)
                 \/ HTTPAnswered(f)
        BY <3>2 DEF EncodeFails, SkipHTTP, HTTPFails, httpFails, HTTPAnswered
      <3>3. CASE LogHPFeeds(f)
        BY <3>3 DEF LogHPFeeds, afterHPFeeds
      <3> QED
        BY <1>2, <3>1, <3>2, <3>3 DEF Log
    <2>4. StoreInv'
      <3>1. PICK q \in {"ended", "hpfeeds", "http"} : goto(f, q)
        BY <2>3
      <3>2. phase'[f] = q /\ \A g \in Flows \ {f} : phase'[g] = phase[g]
        BY <1>0, <3>1 DEF goto, RpTypeOK
      <3> QED
        BY <1>0, <2>2, <2>3, <3>2, QuietStore
    <2> QED
      BY <1>0, <2>1, <2>2, <2>4 DEF RpInv
  <1>3. CASE UDPOvertaken
    <2>1. /\ overwrite(Exposed)
          /\ UNCHANGED <<setup, kills, up, phase, name, next, files, sinkVars,
                         hashed>>
      BY <1>3 DEF UDPOvertaken
    <2>2. RpTypeOK'
      BY <1>0, <2>1, OverwriteType DEF RpTypeOK
    <2>3. StoreInv'
      BY <1>0, <2>1, OverwriteStore
    <2>4. FlowInv'
      BY <1>0, <2>1, FlowFrame
    <2> QED
      BY <1>0, <2>1, <2>2, <2>3, <2>4 DEF RpInv
  <1>4. CASE PublisherStep \/ Restart \/ UNCHANGED rpVars
    <2>1. UNCHANGED <<setup, kills, phase, flowVars, files, hpf, http, refused,
                      history>>
      BY <1>4 DEF PublisherStep, Restart, rpVars
    <2>2. up' \in BOOLEAN /\ pub' \in {"ready", "busy", "stuck"}
      <3>1. up \in BOOLEAN /\ pub \in {"ready", "busy", "stuck"}
        BY <1>0 DEF RpTypeOK
      <3> QED
        BY <1>4, <3>1 DEF PublisherStep, Restart, rpVars
    <2>3. RpTypeOK'
      BY <1>0, <2>1, <2>2 DEF RpTypeOK
    <2>4. StoreInv' /\ FlowInv'
      BY <1>0, <2>1, QuietStore, FlowFrame
    <2> QED
      BY <1>0, <2>1, <2>3, <2>4 DEF RpInv
  <1>5. CASE Kill
    <2>1. UNCHANGED <<setup, files, hpf, http, refused, hashed>>
      BY <1>5 DEF Kill
    <2>2. \A f \in Flows : phase'[f] \in {phase[f], "gone"}
      BY <1>5 DEF Kill
    <2>3. RpTypeOK'
      <3>1. kills' \in 0..MaxKills
        BY <1>0, <1>5, KillsAssumption DEF Kill, RpTypeOK
      <3>2. up' \in BOOLEAN /\ pub' \in {"ready", "busy", "stuck"}
        BY <1>5 DEF Kill
      <3>3. phase' \in [Flows -> Phases]
        BY <1>0, <1>5 DEF Kill, RpTypeOK, Phases, Over
      <3>4. view' \in [Flows -> Contents] /\ name' \in [Flows -> Contents]
        BY <1>5, InfoType DEF Kill
      <3>5. next' \in [Flows -> Chunks]
        BY <1>5, TwoChunks DEF Kill
      <3>6. spoiled' \subseteq Contents
        BY <1>0, <1>5 DEF Kill, disturb, RpTypeOK
      <3> QED
        BY <1>0, <2>1, <3>1, <3>2, <3>3, <3>4, <3>5, <3>6 DEF RpTypeOK
    <2>4. StoreInv'
      BY <1>0, <1>5, KillStoreInv
    <2>5. FlowInv'
      BY <1>0, <2>1, <2>2, FlowFrame
    <2> QED
      BY <1>0, <2>1, <2>3, <2>4, <2>5 DEF RpInv
  <1> QED
    BY <1>1, <1>2, <1>3, <1>4, <1>5 DEF RpNext

\* The invariant holds in every reachable state.
THEOREM RpInvariance == RpSpec => []RpInv
  BY RpInitInv, RpStepInv, PTL DEF RpSpec

\* Every reachable state is well typed, and nothing is reported of a flow
\* that only stores a sample.
THEOREM ReportingTypeCorrect == RpSpec => []RpTypeOK
  <1>1. RpInv => RpTypeOK
    BY DEF RpInv
  <1> QED
    BY <1>1, RpInvariance, PTL

\* helpers.Store: however many Stores of a payload race, the file they leave
\* is complete, unless one of them was disturbed.
THEOREM PayloadsIntact == RpSpec => []StoredIntact
  <1>1. RpInv => StoredIntact
    <2> SUFFICES ASSUME RpInv, NEW p \in Contents \ spoiled, Storing(p) = {},
                        files[p] # Absent \/ p \in hashed
                 PROVE  Complete(p) /\ p \in hashed
      BY DEF StoredIntact
    <2>1. FileInv(p) /\ files[p] \in [Chunks -> Contents \cup {"missing", "absent"}]
      BY DEF RpInv, StoreInv, RpTypeOK, Files
    <2>2. \A g \in Flows : ~Writes(g, p)
      BY DEF Storing, Writes
    <2>3. p \in hashed /\ \A k \in Chunks : files[p][k] = p
      BY <2>1, <2>2 DEF FileInv
    <2> QED
      BY <2>1, <2>3 DEF Complete
  <1> QED
    BY <1>1, RpInvariance, PTL

\* LogTCP and LogUDP: each sink gets the event of a flow at most once, and a
\* flow that ended, with the collector alone or with an event that hpfeeds can
\* encode, gave it to each configured one.
THEOREM EventsDeliveredOnce == RpSpec => []DeliveredOnce
  <1>1. RpInv => DeliveredOnce
    BY DEF RpInv, FlowInv, Handed, Delivered, DeliveredOnce
  <1> QED
    BY <1>1, RpInvariance, PTL

\* A step leaves a settled file alone: only a flow that found no file opens
\* one, and only a flow that has opened it writes it.
LEMMA SettledStep ==
    ASSUME RpInv, [RpNext]_rpVars, NEW p \in Contents, Settled(p)
    PROVE  Settled(p)'
  <1>1. RpTypeOK /\ RpTypeOK'
    BY RpStepInv DEF RpInv
  <1>2. files[p] # Absent /\ \A g \in Flows : g \notin Storing(p)
    <2>1. p # "absent" /\ files[p][1] = p /\ Absent[1] = "absent"
      BY ContentsAssumption, TwoChunks DEF Settled, Complete, Absent
    <2> QED
      BY <2>1 DEF Settled
  <1>3. files'[p] = files[p]
    <2>1. ASSUME NEW f \in Flows, StoreCreate(f) \/ StoreWrite(f)
          PROVE  files'[p] = files[p]
      <3>1. name[f] # p
        BY <1>2, <2>1 DEF StoreCreate, StoreWrite, storeWrite, Storing
      <3> QED
        BY <1>1, <2>1, <3>1
        DEF StoreCreate, StoreWrite, storeWrite, RpTypeOK
    <2>2. \/ \E f \in Flows : StoreCreate(f) \/ StoreWrite(f)
          \/ files' = files
      BY DEF RpNext, Arrive, Captured, UDPReceived, GetSample, Store,
             StoreStat, StoreFails, Log, MakeEvent, EncodeFails, LogHPFeeds,
             SkipHTTP, HTTPFails, httpFails, HTTPAnswered, UDPOvertaken,
             PublisherStep, Kill, Restart, rpVars
    <2> QED
      BY <2>1, <2>2
  <1>4. ASSUME NEW g \in Flows, g \in Storing(p)' PROVE FALSE
    <2>1. phase'[g] \in {"create", "write"} /\ name'[g] = p
      BY <1>4 DEF Storing
    <2>2. ~(phase[g] \in {"create", "write"} /\ name[g] = p)
      BY <1>2 DEF Storing
    <2>3. ASSUME NEW f \in Flows, Arrive(f) \/ Store(f) PROVE FALSE
      <3>1. CASE Captured(f) \/ GetSample(f) \/ UDPReceived(f)
        <4>1. name' = name /\ \E q \in Phases \ {"create", "write"} : goto(f, q)
          BY <3>1 DEF Captured, GetSample, UDPReceived, Phases, Over
        <4> QED
          BY <1>1, <2>1, <2>2, <4>1 DEF goto, RpTypeOK
      <3>2. CASE leaveStore(f)
        BY <1>1, <2>1, <2>2, <3>2, LeaveFrame
      <3>3. CASE StoreStat(f) /\ ~leaveStore(f)
        <4>1. /\ files[view[f]] = Absent /\ goto(f, "create")
              /\ name' = [name EXCEPT ![f] = view[f]]
          BY <3>3 DEF StoreStat
        <4>2. g # f
          BY <1>1, <1>2, <2>1, <4>1 DEF RpTypeOK
        <4> QED
          BY <1>1, <2>1, <2>2, <4>1, <4>2 DEF goto, RpTypeOK
      <3>4. CASE StoreCreate(f)
        BY <1>1, <2>1, <2>2, <3>4 DEF StoreCreate, goto, RpTypeOK
      <3>5. CASE StoreWrite(f) /\ ~leaveStore(f)
        BY <2>1, <2>2, <3>5 DEF StoreWrite, storeWrite
      <3> QED
        BY <2>3, <3>1, <3>2, <3>3, <3>4, <3>5 DEF Arrive, Store, StoreFails
    <2>4. ASSUME NEW f \in Flows, Log(f) \/ HTTPAnswered(f) PROVE FALSE
      <3>1. name' = name
        BY <2>4 DEF Log, MakeEvent, EncodeFails, LogHPFeeds, SkipHTTP,
                    HTTPFails, httpFails, HTTPAnswered
      <3>2. \E q \in Phases \ {"create", "write"} : goto(f, q)
        <4>1. CASE MakeEvent(f)
          <5>1. setup.producer \in BOOLEAN /\ setup.hpfeeds \in BOOLEAN
            BY SetupsAssumption DEF RpInv
          <5> QED
            BY <4>1, <5>1 DEF MakeEvent, afterHPFeeds, Phases, Over
        <4>2. CASE ~MakeEvent(f)
          BY <2>4, <4>2 DEF Log, EncodeFails, LogHPFeeds, SkipHTTP, HTTPFails,
                            httpFails, HTTPAnswered, afterHPFeeds, Phases, Over
        <4> QED BY <4>1, <4>2
      <3> QED
        BY <1>1, <2>1, <2>2, <3>1, <3>2 DEF goto, RpTypeOK
    <2>5. CASE Kill
      BY <2>1, <2>5 DEF Kill, Over
    <2>6. CASE UDPOvertaken \/ PublisherStep \/ Restart \/ UNCHANGED rpVars
      BY <2>1, <2>2, <2>6 DEF UDPOvertaken, PublisherStep, Restart, rpVars
    <2> QED
      BY <2>3, <2>4, <2>5, <2>6 DEF RpNext
  <1>5. Storing(p)' = {}
    <2>1. \A g : g \in Storing(p)' => g \in Flows
      BY DEF Storing
    <2> QED BY <1>4, <2>1
  <1> QED
    BY <1>3, <1>5 DEF Settled, Complete

\* helpers.Store: a payload that is stored is never opened for writing again.
THEOREM StoredStays == RpSpec => SettledStays
  <1>1. RpInv /\ [RpNext]_rpVars =>
            [\A p \in Contents : Settled(p) => Settled(p)']_rpVars
    BY SettledStep
  <1> QED
    BY <1>1, RpInvariance, PTL DEF RpSpec, SettledStays

-----------------------------------------------------------------------------
(* Flows run out.                                                          *)
(*                                                                         *)
(* FlowsEnd needs fairness and is left to TLC.  Its variant does not: a    *)
(* flow's own steps take it down a fixed ladder, whatever the flows it     *)
(* shares files, buffer and channel with do.                               *)

\* The steps a flow has left at control state p, n its next piece, at most.
Rung(p, n) ==
    CASE p = "idle" -> 10
      [] p = "fetch" -> 9
      [] p = "stat" -> 8
      [] p = "create" -> 7
      [] p = "write" -> 7 - n
      [] p = "produce" -> 4
      [] p = "hpfeeds" -> 3
      [] p = "http" -> 2
      [] OTHER -> 1

FlowRank(f) == Rung(phase[f], next[f])

FlowStep(f) == Arrive(f) \/ Store(f) \/ Log(f) \/ HTTPAnswered(f)

\* No Store starts over because of another flow's file, no POST is repeated,
\* and nobody can give a flow more to do, a kill and a restart included.
FlowsRunOut ==
    [][\A f \in Flows :
        /\ FlowRank(f) \in 1..10 /\ FlowRank(f)' <= FlowRank(f)
        /\ up /\ FlowStep(f) => FlowRank(f)' < FlowRank(f)]_rpVars

LEMMA Rungs ==
    ASSUME NEW n \in Chunks
    PROVE  /\ Rung("idle", n) = 10 /\ Rung("fetch", n) = 9
           /\ Rung("stat", n) = 8 /\ Rung("create", n) = 7
           /\ Rung("write", n) = 7 - n /\ Rung("produce", n) = 4
           /\ Rung("hpfeeds", n) = 3 /\ Rung("http", n) = 2
           /\ Rung("ended", n) = 1 /\ Rung("gone", n) = 1
           /\ n \in {1, 2}
  BY TwoChunks DEF Rung

LEMMA RungType ==
    ASSUME NEW p \in Phases, NEW n \in Chunks
    PROVE  Rung(p, n) \in 1..10
  BY Rungs DEF Phases, Over

\* A flow's own step takes it down, and leaves the others where they are.
LEMMA OwnRung ==
    ASSUME RpInv, NEW f \in Flows, FlowStep(f)
    PROVE  /\ Rung(phase'[f], next'[f]) < Rung(phase[f], next[f])
           /\ \A g \in Flows \ {f} : phase'[g] = phase[g] /\ next'[g] = next[g]
  <1>1. RpTypeOK /\ phase[f] \in Phases /\ next[f] \in Chunks
    BY DEF RpInv, RpTypeOK
  <1>2. ASSUME NEW q \in Phases, goto(f, q), next' = next,
               Rung(q, next[f]) < Rung(phase[f], next[f])
        PROVE  /\ Rung(phase'[f], next'[f]) < Rung(phase[f], next[f])
               /\ \A g \in Flows \ {f} : phase'[g] = phase[g] /\ next'[g] = next[g]
    <2>1. phase'[f] = q /\ \A g \in Flows \ {f} : phase'[g] = phase[g]
      BY <1>1, <1>2 DEF goto, RpTypeOK
    <2> QED
      BY <1>2, <2>1
  <1>3. CASE phase[f] \in {"stat", "create", "write"} /\ leaveStore(f)
    <2>1. /\ phase'[f] \in {"ended", "produce"} /\ next'[f] \in Chunks
          /\ \A g \in Flows \ {f} : phase'[g] = phase[g] /\ next'[g] = next[g]
      BY <1>1, <1>3, LeaveFrame, TwoChunks
    <2>2. Rung(phase'[f], next'[f]) <= 4
      BY <2>1, Rungs
    <2>3. Rung(phase[f], next[f]) > 4
      BY <1>1, <1>3, Rungs
    <2>4. Rung(phase'[f], next'[f]) \in Int /\ Rung(phase[f], next[f]) \in Int
      BY <1>1, <2>1, RungType DEF Phases, Over
    <2> QED
      BY <2>1, <2>2, <2>3, <2>4
  <1>4. CASE StoreWrite(f) /\ ~leaveStore(f)
    <2>1. /\ phase[f] = "write" /\ phase' = phase
          /\ next' = [next EXCEPT ![f] = next[f] + 1] /\ next[f] # 2
      BY <1>4, TwoChunks DEF StoreWrite, storeWrite
    <2>2. next[f] = 1 /\ next'[f] = 2
      BY <1>1, <2>1, TwoChunks DEF RpTypeOK
    <2>3. \A g \in Flows \ {f} : phase'[g] = phase[g] /\ next'[g] = next[g]
      BY <1>1, <2>1 DEF RpTypeOK
    <2>4. 1 \in Chunks /\ 2 \in Chunks
      BY TwoChunks
    <2>5. Rung("write", 1) = 6 /\ Rung("write", 2) = 5
      BY <2>4, Rungs
    <2> QED
      BY <2>1, <2>2, <2>3, <2>5
  <1>5. CASE StoreStat(f) /\ ~leaveStore(f)
    <2>1. goto(f, "create") /\ next' = next /\ phase[f] = "stat"
      BY <1>5 DEF StoreStat
    <2> QED
      BY <1>1, <1>2, <2>1, Rungs DEF Phases
  <1>6. CASE StoreCreate(f)
    <2>1. goto(f, "write") /\ next' = next /\ phase[f] = "create"
      BY <1>6 DEF StoreCreate
    <2> QED
      BY <1>1, <1>2, <2>1, Rungs DEF Phases
  <1>7. CASE Arrive(f)
    <2>1. next' = next
      BY <1>7 DEF Arrive, Captured, UDPReceived, GetSample
    <2>2. \/ phase[f] = "idle" /\ \E q \in {"fetch", "stat", "produce"} : goto(f, q)
          \/ phase[f] = "fetch" /\ \E q \in {"stat", "ended"} : goto(f, q)
      BY <1>7 DEF Arrive, Captured, UDPReceived, GetSample
    <2>3. PICK q \in Phases : /\ goto(f, q)
                              /\ Rung(q, next[f]) < Rung(phase[f], next[f])
      BY <1>1, <2>2, Rungs DEF Phases, Over
    <2> QED
      BY <1>2, <2>1, <2>3
  <1>8. CASE Log(f) \/ HTTPAnswered(f)
    <2>1. next' = next
      BY <1>8 DEF Log, MakeEvent, EncodeFails, LogHPFeeds, SkipHTTP, HTTPFails,
                  httpFails, HTTPAnswered
    <2>2. \/ /\ phase[f] = "produce"
             /\ \E q \in {"hpfeeds", "http", "ended"} : goto(f, q)
          \/ phase[f] = "hpfeeds" /\ \E q \in {"http", "ended"} : goto(f, q)
          \/ phase[f] = "http" /\ goto(f, "ended")
      <3>1. CASE MakeEvent(f)
        <4>1. setup.producer \in BOOLEAN /\ setup.hpfeeds \in BOOLEAN
          BY SetupsAssumption DEF RpInv
        <4> QED
          BY <3>1, <4>1 DEF MakeEvent, afterHPFeeds
      <3>2. CASE ~MakeEvent(f)
        BY <1>8, <3>2 DEF Log, EncodeFails, LogHPFeeds, SkipHTTP, HTTPFails,
                          httpFails, HTTPAnswered, afterHPFeeds
      <3> QED BY <3>1, <3>2
    <2>3. PICK q \in Phases : /\ goto(f, q)
                              /\ Rung(q, next[f]) < Rung(phase[f], next[f])
      BY <1>1, <2>2, Rungs DEF Phases, Over
    <2> QED
      BY <1>2, <2>1, <2>3
  <1>9. Store(f) => \/ phase[f] \in {"stat", "create", "write"} /\ leaveStore(f)
                    \/ StoreStat(f) /\ ~leaveStore(f)
                    \/ StoreWrite(f) /\ ~leaveStore(f)
                    \/ StoreCreate(f)
    BY DEF Store, StoreStat, StoreWrite, storeWrite, StoreFails
  <1> QED
    BY <1>3, <1>4, <1>5, <1>6, <1>7, <1>8, <1>9 DEF FlowStep

LEMMA RungStep ==
    ASSUME RpInv, RpInv', [RpNext]_rpVars, NEW f \in Flows
    PROVE  /\ FlowRank(f) \in 1..10 /\ FlowRank(f)' <= FlowRank(f)
           /\ up /\ FlowStep(f) => FlowRank(f)' < FlowRank(f)
  <1>1. /\ phase \in [Flows -> Phases] /\ next \in [Flows -> Chunks]
        /\ phase' \in [Flows -> Phases] /\ next' \in [Flows -> Chunks]
    BY DEF RpInv, RpTypeOK
  <1>2. Rung(phase[f], next[f]) \in 1..10 /\ Rung(phase'[f], next'[f]) \in 1..10
    BY <1>1, RungType
  <1>3. FlowStep(f) => Rung(phase'[f], next'[f]) < Rung(phase[f], next[f])
    BY OwnRung
  <1>4. Rung(phase'[f], next'[f]) <= Rung(phase[f], next[f])
    <2>1. CASE phase'[f] = phase[f] /\ next'[f] = next[f]
      BY <1>2, <2>1
    <2>2. CASE FlowStep(f)
      BY <1>2, <1>3, <2>2
    <2>3. CASE \E g \in Flows \ {f} : FlowStep(g)
      BY <2>1, <2>3, OwnRung
    <2>4. CASE Kill
      <3>1. \/ phase[f] \in Over /\ phase'[f] = phase[f]
            \/ phase'[f] = "gone"
        BY <1>1, <2>4 DEF Kill
      <3>2. CASE phase'[f] = "gone"
        <4>1. Rung(phase'[f], next'[f]) = 1
          BY <1>1, <3>2, Rungs
        <4> QED
          BY <1>2, <4>1
      <3>3. CASE phase[f] \in Over /\ phase'[f] = phase[f]
        <4>1. Rung(phase[f], next'[f]) = Rung(phase[f], next[f])
          BY <1>1, <3>3, Rungs DEF Over
        <4> QED
          BY <1>2, <3>3, <4>1
      <3> QED BY <3>1, <3>2, <3>3
    <2>5. CASE UDPOvertaken \/ PublisherStep \/ Restart \/ UNCHANGED rpVars
      <3>1. phase' = phase /\ next' = next
        BY <2>5 DEF UDPOvertaken, PublisherStep, Restart, rpVars
      <3> QED BY <2>1, <3>1
    <2>6. \/ \E g \in Flows : FlowStep(g)
          \/ Kill \/ UDPOvertaken \/ PublisherStep \/ Restart
          \/ UNCHANGED rpVars
      BY DEF RpNext, FlowStep
    <2> QED
      BY <2>2, <2>3, <2>4, <2>5, <2>6
  <1> QED
    BY <1>2, <1>3, <1>4 DEF FlowRank

\* helpers.Store, LogTCP and LogUDP: at most ten steps of its own and a flow
\* is over, however the flows interleave and whatever fails.
THEOREM FlowsHaveFewSteps == RpSpec => FlowsRunOut
  <1>1. RpInv /\ RpInv' /\ [RpNext]_rpVars =>
            [\A f \in Flows :
                /\ FlowRank(f) \in 1..10 /\ FlowRank(f)' <= FlowRank(f)
                /\ up /\ FlowStep(f) => FlowRank(f)' < FlowRank(f)]_rpVars
    BY RungStep
  <1> QED
    BY <1>1, RpInvariance, PTL DEF RpSpec, FlowsRunOut
=============================================================================
