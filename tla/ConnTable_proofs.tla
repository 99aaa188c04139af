-------------------------- MODULE ConnTable_proofs --------------------------
(***************************************************************************)
(* Proofs about the connection table, for any set of endpoints and rules,  *)
(* any TTL, ticker period and clock, and any delay of the flush that is    *)
(* shorter than a period.                                                  *)
(***************************************************************************)
EXTENDS ConnTable, TLAPS

\* Where the clock is, relative to the ticker: between two ticks, and not
\* past the time by which the goroutine has taken a tick.
ClockOK ==
    /\ nextTick - Period <= now
    /\ now <= nextTick
    /\ pending => now <= nextTick - Period + MaxLag

\* What the last flush left: nothing registered more than TTL before the tick
\* that caused it.  While a tick is pending that was the tick before.
Horizon == nextTick - TTL - (IF pending THEN 2 * Period ELSE Period)

NothingOld == \A k \in Keys : present(k) => table[k].added >= Horizon

\* EntryAgeBounded is not inductive: whether an entry can get too old depends
\* on when the ticker fires next and on what the last flush left.
CTInv == CTTypeOK /\ ClockOK /\ NothingOld

-----------------------------------------------------------------------------
\* A Metadata that Register makes is never mistaken for a missing one, and a
\* missing entry is the only one without a time of registration.
LEMMA MetadataIsPresent ==
    \A md \in Metadata : md # zeroMetadata /\ md.added \in Nat
BY DEF Metadata, zeroMetadata

LEMMA ZeroFields == zeroMetadata.added = -1
BY DEF zeroMetadata

\* The table starts empty, one period before the first tick.
LEMMA CTInitInv == CTInit => CTInv
<1>. SUFFICES ASSUME CTInit PROVE CTInv
    OBVIOUS
<1>. USE TimesAssumption DEF CTInit
<1>1. CTTypeOK
    BY DEF CTTypeOK
<1>2. ClockOK
    BY DEF ClockOK
<1>3. NothingOld
    BY DEF NothingOld, present
<1>. QED
    BY <1>1, <1>2, <1>3 DEF CTInv

-----------------------------------------------------------------------------
\* A tick finds no other tick pending, so what the last flush left is now
\* measured from one tick earlier.
LEMMA TickInv == CTInv /\ Tick => CTInv'
<1>. SUFFICES ASSUME CTInv, Tick PROVE CTInv'
    OBVIOUS
<1>. USE TimesAssumption DEF CTInv, Tick
<1>1. CTTypeOK'
    BY DEF CTTypeOK
<1>2. ~pending
    BY DEF ClockOK, CTTypeOK
<1>3. ClockOK'
    BY DEF ClockOK, CTTypeOK
<1>4. Horizon' = Horizon
    BY <1>2 DEF Horizon, CTTypeOK
<1>5. NothingOld'
    BY <1>4 DEF NothingOld, present
<1>. QED
    BY <1>1, <1>3, <1>5 DEF CTInv

\* A flush leaves nothing registered more than TTL before the last tick.
LEMMA FlushInv == CTInv /\ Flush => CTInv'
<1>. SUFFICES ASSUME CTInv, Flush PROVE CTInv'
    OBVIOUS
<1>. USE TimesAssumption DEF CTInv, Flush, FlushOlderThan
<1>1. CTTypeOK'
    BY DEF CTTypeOK
<1>2. ClockOK'
    BY DEF ClockOK, CTTypeOK
<1>3. ASSUME NEW k \in Keys, present(k)'
      PROVE  (table[k].added >= Horizon)'
  <2>1. table'[k] = table[k] /\ ~(table[k].added < now - TTL)
    BY <1>3 DEF present, CTTypeOK
  <2>2. table[k] \in Metadata
    BY <1>3, <2>1 DEF present, CTTypeOK
  <2>3. table[k].added >= now - TTL
    BY <2>1, <2>2, MetadataIsPresent DEF CTTypeOK
  <2>4. now - TTL >= Horizon' /\ Horizon' \in Int /\ now - TTL \in Int
    BY DEF Horizon, ClockOK, CTTypeOK
  <2>5. table[k].added \in Int
    BY <2>2, MetadataIsPresent
  <2>. QED
    BY <2>1, <2>3, <2>4, <2>5
<1>4. NothingOld'
    BY <1>3 DEF NothingOld
<1>. QED
    BY <1>1, <1>2, <1>4 DEF CTInv

\* Time does not pass a tick that is due nor a flush that is.
LEMMA AdvanceInv == CTInv /\ Advance => CTInv'
<1>. SUFFICES ASSUME CTInv, Advance PROVE CTInv'
    OBVIOUS
<1>. USE TimesAssumption DEF CTInv, Advance
<1>1. CTTypeOK'
    BY DEF CTTypeOK
<1>2. ClockOK'
    BY DEF ClockOK, CTTypeOK
<1>3. NothingOld'
    BY DEF NothingOld, present, Horizon
<1>. QED
    BY <1>1, <1>2, <1>3 DEF CTInv

\* What Register writes, for an endpoint that is known and one that is not.
LEMMA RegisterEffect ==
    ASSUME CTTypeOK, NEW k \in Keys, NEW rule, NEW p, Register(k, rule, p),
           NEW j \in Keys
    PROVE  \/ table'[j] = table[j]
           \/ /\ j = k /\ ~present(k)
              /\ table'[j] = [added |-> now, rule |-> rule, targetPort |-> p]
<1>1. CASE present(k)
    BY <1>1 DEF Register, CTTypeOK
<1>2. CASE ~present(k)
    BY <1>2 DEF Register, CTTypeOK
<1>. QED
    BY <1>1, <1>2

\* An endpoint is registered now, which is after the last tick.
LEMMA RegisterInv == CTInv /\ RegisterAny => CTInv'
<1>. SUFFICES ASSUME CTInv, RegisterAny PROVE CTInv'
    OBVIOUS
<1>. USE TimesAssumption DEF CTInv
<1>1. PICK k \in Keys, rule \in Rules, p \in Ports : Register(k, rule, p)
    BY DEF RegisterAny
<1>2. UNCHANGED <<now, nextTick, pending>>
    BY DEF RegisterAny
<1>3. [added |-> now, rule |-> rule, targetPort |-> p] \in Metadata
    BY <1>1 DEF Metadata, CTTypeOK
<1>4. \A j \in Keys : table'[j] \in Metadata \cup {zeroMetadata}
    BY <1>1, <1>3, RegisterEffect DEF CTTypeOK
<1>5. CTTypeOK'
  <2>1. table' \in [Keys -> Metadata \cup {zeroMetadata}]
    BY <1>1, <1>4 DEF Register, CTTypeOK
  <2>. QED
    BY <1>2, <2>1 DEF CTTypeOK
<1>6. ClockOK'
    BY <1>2 DEF ClockOK
<1>7. now >= Horizon
    BY DEF ClockOK, CTTypeOK, Horizon
<1>8. Horizon' = Horizon
    BY <1>2 DEF Horizon
<1>9. ASSUME NEW j \in Keys, present(j)'
      PROVE  (table[j].added >= Horizon)'
  <2>1. CASE table'[j] = table[j]
    BY <1>8, <1>9, <2>1 DEF NothingOld, present
  <2>2. CASE table'[j] = [added |-> now, rule |-> rule, targetPort |-> p]
    BY <1>7, <1>8, <2>2
  <2>. QED
    BY <1>1, <2>1, <2>2, RegisterEffect
<1>10. NothingOld'
    BY <1>9 DEF NothingOld
<1>. QED
    BY <1>5, <1>6, <1>10 DEF CTInv

\* Every step of the table keeps the invariant.
LEMMA CTNextInv == CTInv /\ [CTNext]_ctVars => CTInv'
<1>. SUFFICES ASSUME CTInv, [CTNext]_ctVars PROVE CTInv'
    OBVIOUS
<1>1. CASE Tick
    BY <1>1, TickInv
<1>2. CASE Flush
    BY <1>2, FlushInv
<1>3. CASE Advance
    BY <1>3, AdvanceInv
<1>4. CASE RegisterAny
    BY <1>4, RegisterInv
<1>5. CASE UNCHANGED ctVars
    BY <1>5 DEF ctVars, CTInv, CTTypeOK, ClockOK, NothingOld, Horizon, present
<1>. QED
    BY <1>1, <1>2, <1>3, <1>4, <1>5 DEF CTNext, CTStep

\* The inductive invariant.
THEOREM CTInvariance == CTSpec => []CTInv
BY CTNextInv, CTInitInv, PTL DEF CTSpec

-----------------------------------------------------------------------------
\* Register and FlushOlderThan keep the table a map of Metadata records.
THEOREM CTTypeCorrect == CTSpec => []CTTypeOK
<1>1. CTInv => CTTypeOK
    BY DEF CTInv
<1>. QED
    BY <1>1, CTInvariance, PTL

\* Nothing older than the last flush allows can be older than MaxAge.
LEMMA InvBoundsAge == CTInv => EntryAgeBounded
<1>. SUFFICES ASSUME CTInv, NEW k \in Keys, present(k)
              PROVE  now - table[k].added <= MaxAge
    BY DEF EntryAgeBounded
<1>. USE TimesAssumption
<1>1. table[k] \in Metadata
    BY DEF CTInv, CTTypeOK, present
<1>2. table[k].added \in Nat /\ table[k].added >= Horizon
    BY <1>1, MetadataIsPresent DEF CTInv, NothingOld
<1>3. now <= Horizon + MaxAge
    BY DEF CTInv, ClockOK, CTTypeOK, Horizon, MaxAge
<1>. QED
    BY <1>2, <1>3 DEF CTInv, CTTypeOK, Horizon, MaxAge

\* No entry outlives TTL plus a period plus the delay of the flush: the stale
\* metadata a reused source endpoint can be given is at most that old.
THEOREM EntryAge == CTSpec => []EntryAgeBounded
BY InvBoundsAge, CTInvariance, PTL

\* An entry never changes, and is dropped only by a flush that finds it older
\* than TTL: a second Register of the same endpoint changes nothing.
THEOREM EntriesStable == CTSpec => EntryStable
<1>. DEFINE Kept == \A k \in Keys :
                      (present(k) /\ table'[k] # table[k]) =>
                          /\ table'[k] = zeroMetadata
                          /\ now - table[k].added > TTL
<1>1. CTInv /\ [CTNext]_ctVars => [Kept]_ctVars
  <2>. SUFFICES ASSUME CTInv, CTNext, NEW k \in Keys, present(k),
                       table'[k] # table[k]
                PROVE  table'[k] = zeroMetadata /\ now - table[k].added > TTL
    OBVIOUS
  <2>1. CASE Flush
    <3>1. table'[k] = zeroMetadata /\ table[k].added < now - TTL
      BY <2>1 DEF Flush, FlushOlderThan
    <3>2. table[k].added \in Nat
      BY MetadataIsPresent DEF CTInv, CTTypeOK, present
    <3>. QED
      BY <3>1, <3>2, TimesAssumption DEF CTInv, CTTypeOK
  <2>2. CASE RegisterAny
    BY <2>2, RegisterEffect DEF RegisterAny, CTInv
  <2>3. CASE Tick \/ Advance
    BY <2>3 DEF Tick, Advance
  <2>. QED
    BY <2>1, <2>2, <2>3 DEF CTNext, CTStep
<1>. QED
    BY <1>1, CTInvariance, PTL DEF CTSpec, EntryStable
=============================================================================
