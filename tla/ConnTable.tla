----------------------------- MODULE ConnTable ------------------------------
(***************************************************************************)
(* The connection table of connection/connection.go: one Metadata per      *)
(* source endpoint (address and port; neither the protocol nor the         *)
(* destination is part of the key), written by Register and emptied by a   *)
(* goroutine that runs FlushOlderThan on every tick of a ticker.           *)
(*                                                                         *)
(* Every operation holds the table's mutex for its whole body, reading the *)
(* clock included, so each is one action.                                  *)
(***************************************************************************)
EXTENDS Integers

CONSTANTS
    Keys,       \* source endpoints that are IPv4: those CKey can represent
    Rules,      \* what a Metadata's Rule can point to
    Ports,      \* destination ports
    NoRule,     \* the nil *rules.Rule
    TTL,        \* the age FlushOlderThan is called with (5 minutes)
    Period,     \* the ticker's period (5 minutes)
    MaxLag,     \* bound: delay between a tick and the flush it causes
    MaxTime     \* bound on the clock

ASSUME NoRuleAssumption == NoRule \notin Rules
ASSUME PortsAssumption == Ports \subseteq Nat
ASSUME TimesAssumption ==
    /\ TTL \in Nat
    /\ Period \in Nat \ {0}
    /\ MaxLag \in Nat /\ MaxLag < Period
    /\ MaxTime \in Nat

VARIABLES
    now,        \* the clock
    table,      \* the map; a missing key maps to the zero Metadata, as in Go
    nextTick,   \* when the ticker fires next
    pending     \* a tick is in ticker.C

ctVars == <<now, table, nextTick, pending>>

Metadata == [added : Nat, rule : Rules, targetPort : Ports]

\* Metadata{}: its Added is before any time the program sees.
zeroMetadata == [added |-> -1, rule |-> NoRule, targetPort |-> 0]

present(k) == table[k] # zeroMetadata

CTInit ==
    /\ now = 0
    /\ table = [k \in Keys |-> zeroMetadata]
    /\ nextTick = Period
    /\ pending = FALSE

-----------------------------------------------------------------------------
\* Mutant: a known endpoint gets the new rule and port, but keeps its age.
Register_Refresh(k, rule, dstPort) ==
    table' = [table EXCEPT ![k] =
                [added |-> IF present(k) THEN table[k].added ELSE now,
                 rule |-> rule, targetPort |-> dstPort]]

\* Register: the first registration of an endpoint stays until it is flushed.
\* The Metadata returned to the caller is table'[k].
Register(k, rule, dstPort) ==
    table' = [table EXCEPT ![k] =
                IF present(k) THEN @
                ELSE [added |-> now, rule |-> rule, targetPort |-> dstPort]]

\* Get, which ConnectionByFlow and MetadataByConnection return.
Get(k) == table[k]

\* Mutant: an entry one tick of the clock older than the threshold is kept.
FlushOlderThan_OffByOne(s) ==
    table' = [k \in Keys |-> IF table[k].added + 1 < now - s
                             THEN zeroMetadata ELSE table[k]]

\* FlushOlderThan: drop what was added strictly before now - s.
FlushOlderThan(s) ==
    table' = [k \in Keys |-> IF table[k].added < now - s
                             THEN zeroMetadata ELSE table[k]]

-----------------------------------------------------------------------------
\* The ticker fires; ticker.C holds one tick.
Tick ==
    /\ now = nextTick
    /\ pending' = TRUE
    /\ nextTick' = nextTick + Period
    /\ UNCHANGED <<now, table>>

\* The flushing goroutine receives the tick.
Flush ==
    /\ pending
    /\ FlushOlderThan(TTL)
    /\ pending' = FALSE
    /\ UNCHANGED <<now, nextTick>>

\* Time passes, but not past a tick that is due nor past the time by which
\* the flushing goroutine has run.
Advance ==
    /\ now < MaxTime
    /\ now < nextTick
    /\ pending => now < nextTick - Period + MaxLag
    /\ now' = now + 1
    /\ UNCHANGED <<table, nextTick, pending>>

CTStep == Tick \/ Flush \/ Advance

\* Some listener registers an endpoint.  (Dispatch has the listeners; this
\* is the table on its own, for the proofs.)
RegisterAny ==
    /\ \E k \in Keys, rule \in Rules, p \in Ports : Register(k, rule, p)
    /\ UNCHANGED <<now, nextTick, pending>>

CTNext == CTStep \/ RegisterAny

CTSpec == CTInit /\ [][CTNext]_ctVars

-----------------------------------------------------------------------------
\* Every entry of the table is a Metadata that Register made, or absent.
CTTypeOK ==
    /\ now \in Nat
    /\ table \in [Keys -> Metadata \cup {zeroMetadata}]
    /\ nextTick \in Nat
    /\ pending \in BOOLEAN

\* The longest an entry can stay: added right after a flush it is too young
\* for the next one.
MaxAge == TTL + Period + MaxLag

\* An endpoint's metadata is gone after TTL plus one period: no connection
\* is ever described by a registration older than that.
EntryAgeBounded ==
    \A k \in Keys : present(k) => now - table[k].added <= MaxAge

\* A registered endpoint keeps its rule, port and time of registration until
\* it is flushed, and is flushed only when older than TTL.
EntryStable ==
    [][\A k \in Keys :
          (present(k) /\ table'[k] # table[k]) =>
              /\ table'[k] = zeroMetadata
              /\ now - table[k].added > TTL]_ctVars
=============================================================================
