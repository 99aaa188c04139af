-------------------------- MODULE Lifecycle_proofs --------------------------
(***************************************************************************)
(* The sensor keeps its ID, and a Shutdown that ran to its end leaves no   *)
(* TPROXY rule behind, however often the process is killed and started.    *)
(*                                                                         *)
(* Neither is inductive.  For the ID one has to know where makeID stands   *)
(* between the creation of the file and the write; for the rules, that     *)
(* there is never a second copy, that main installs none once it waits or  *)
(* has failed, and which rules a Shutdown still under way has deleted.     *)
(***************************************************************************)
EXTENDS Lifecycle, TLAPS

\* Between the creation of the ID file and the write the process has an ID
\* and the file has none; from then on they agree.
IDInv ==
    /\ mpc = "writeID" => idFile = Torn /\ id >= 1
    /\ mpc \notin {"makeID", "writeID"} => idFile = id /\ id >= 1

\* main runs Shutdown only after a Start that failed; the signal goroutine
\* only after a signal, which no process in New or Init takes.
ShutdownInv ==
    /\ spc["main"] # "off" => mpc = "exit"
    /\ spc["signal"] # "off" => sigAt # "no"
    /\ mpc \in StartUp => sigAt = "no"
    /\ sigAt = "wait" => mpc = "wait"

\* Who ended the process had finished its Shutdown.
ExitInv ==
    /\ exit = "exit0" => spc["signal"] = "done"
    /\ exit = "fatal" /\ mpc = "exit" => spc["main"] = "done"

\* The steps of Shutdown after the deletion of protocol p's rule.
Flushed(p) ==
    IF p = "tcp" THEN {"flushUDP", "cleanup", "done"} ELSE {"cleanup", "done"}

\* Actor a runs its Shutdown in a process that installs no more rules.
Settled(a) == a = "main" \/ sigAt = "wait"

\* There is at most one copy of a rule, and none after a Shutdown in a settled
\* process has deleted it.
RuleInv ==
    /\ \A p \in Protocols : ipt[p] \in 0..1
    /\ ~failed => \A a \in Actors, p \in Protocols :
                      Settled(a) /\ spc[a] \in Flushed(p) => ipt[p] = 0

LInv == LTypeOK /\ IDInv /\ ShutdownInv /\ ExitInv /\ RuleInv

-----------------------------------------------------------------------------
(* The initial state and the steps that end or start the process. *)

\* A process just started satisfies the invariant.
LEMMA InitLInv == LInit => LInv
<1> SUFFICES ASSUME LInit PROVE LInv
    OBVIOUS
<1>1. LTypeOK
    <2>1. runs \in 1..MaxRuns /\ id \in 0..MaxRuns /\ idFile \in Torn..MaxRuns
        BY MaxRunsAssumption DEF LInit, Torn
    <2>2. spc \in [Actors -> ShutdownSteps] /\ ipt \in [Protocols -> Nat]
        BY DEF LInit, ShutdownSteps
    <2> QED
        BY <2>1, <2>2 DEF LInit, LTypeOK, StartUp, MainStates, Exits
<1>2. IDInv /\ ShutdownInv /\ ExitInv
    BY DEF LInit, IDInv, ShutdownInv, ExitInv, Actors
<1>3. RuleInv
    BY DEF LInit, RuleInv, Flushed, Actors, Protocols
<1> QED
    BY <1>1, <1>2, <1>3 DEF LInv

\* A restarted one does too: the ID file and the rules are as they were left.
LEMMA RestartLInv == LInv /\ Restart => LInv'
<1> SUFFICES ASSUME LInv, Restart PROVE LInv'
    OBVIOUS
<1>1. LTypeOK'
    <2>1. runs' \in 1..MaxRuns /\ id' \in 0..MaxRuns
        BY MaxRunsAssumption DEF LInv, LTypeOK, Restart
    <2>2. spc' \in [Actors -> ShutdownSteps]
        BY DEF Restart, ShutdownSteps
    <2> QED
        BY <2>1, <2>2 DEF LInv, LTypeOK, Restart, StartUp, MainStates, Exits
<1>2. (IDInv /\ ShutdownInv /\ ExitInv)'
    BY DEF Restart, IDInv, ShutdownInv, ExitInv, Actors, StartUp
<1>3. RuleInv'
    BY DEF LInv, RuleInv, Restart, Settled, Flushed, Actors, Protocols
<1> QED
    BY <1>1, <1>2, <1>3 DEF LInv

\* Ending the process changes nothing but exit, and only a goroutine that has
\* finished its Shutdown ends it with os.Exit or log.Fatal.
LEMMA EndLInv ==
    ASSUME LInv, MainReturns \/ MainFatal \/ SignalExit \/ Kill
    PROVE  LInv'
<1> UNCHANGED <<runs, spicy, procVars, ipt>>
    BY DEF MainReturns, MainFatal, SignalExit, Kill
<1> UNCHANGED <<runs, spicy, mpc, spc, sigAt, cancelled, udp, worker, failed,
                id, idFile, ipt>>
    BY DEF procVars, idVars
<1>1. LTypeOK'
    <2>1. exit' \in Exits
        BY DEF MainReturns, MainFatal, SignalExit, Kill, Exits
    <2> QED
        BY <2>1 DEF LInv, LTypeOK
<1>2. ExitInv'
    BY DEF MainReturns, MainFatal, SignalExit, Kill, ExitInv
<1>3. (IDInv /\ ShutdownInv /\ RuleInv)'
    BY DEF LInv, IDInv, ShutdownInv, RuleInv, Settled
<1> QED
    BY <1>1, <1>2, <1>3 DEF LInv

-----------------------------------------------------------------------------
(* Start-up: makeID, the rest of New and Init, and the two rules. *)

\* In New and Init there is no Shutdown and no rule is touched.
LEMMA StartUpLInv ==
    ASSUME LInv, Running, MakeID \/ WriteID \/ LoadConfig \/ StartServer \/ MainInit
    PROVE  LInv'
<1> UNCHANGED <<runs, spicy, spc, sigAt, cancelled, udp, failed, ipt>>
    BY DEF MakeID, WriteID, LoadConfig, StartServer, MainInit, initStep, startFrame
<1>1. mpc \in StartUp /\ runs \in Nat /\ runs >= 1
    BY DEF MakeID, WriteID, LoadConfig, StartServer, MainInit, initStep, StartUp,
           LInv, LTypeOK
<1>2. /\ exit' \in {exit, "fatal"}
      /\ mpc' \in StartUp \cup {"setTCP"}
      /\ exit' = "fatal" => mpc' = mpc
    BY <1>1
    DEF MakeID, WriteID, LoadConfig, StartServer, MainInit, initStep, initFails,
        createID, StartUp, Running
<1>3. worker' \in BOOLEAN
    BY DEF MakeID, WriteID, LoadConfig, StartServer, MainInit, initStep, initFails,
           createID, LInv, LTypeOK
<1>a. /\ id' \in {id, runs} \/ (id' = idFile /\ idFile >= 1)
      /\ idFile' \in {idFile, id, Torn}
    BY DEF MakeID, WriteID, LoadConfig, StartServer, MainInit, initStep, initFails,
           createID, idVars
<1>b. IDInv'
    BY <1>1
    DEF MakeID, WriteID, LoadConfig, StartServer, MainInit, initStep, initFails,
        createID, idVars, IDInv, LInv
<1>4. LTypeOK'
    <2>1. id' \in 0..MaxRuns /\ idFile' \in Torn..MaxRuns
        BY <1>1, <1>a, MaxRunsAssumption DEF LInv, LTypeOK, Torn
    <2>2. exit' \in Exits /\ mpc' \in MainStates
        BY <1>2 DEF LInv, LTypeOK, Exits, MainStates
    <2> QED
        BY <1>3, <2>1, <2>2 DEF LInv, LTypeOK
<1>5. ShutdownInv' /\ ExitInv'
    BY <1>1, <1>2 DEF LInv, ShutdownInv, ExitInv, StartUp, Running
<1>6. RuleInv'
    BY DEF LInv, RuleInv, Settled
<1> QED
    BY <1>b, <1>4, <1>5, <1>6 DEF LInv

\* AppendUnique leaves one copy, and whoever installs a rule has neither
\* begun to wait nor failed, so no settled Shutdown is under way.
LEMMA SetRuleLInv ==
    ASSUME NEW p \in Protocols, NEW from \in {"setTCP", "setUDP"},
           NEW next \in {"setUDP", "wait"},
           LInv, Running, setRule(p, from, next)
    PROVE  LInv'
<1> UNCHANGED <<runs, spicy, exit, sigAt, cancelled, worker, failed, id, idFile>>
    BY DEF setRule, idVars
<1>0. mpc = from /\ spc["main"] = "off" /\ sigAt # "wait" /\ exit = "no"
    BY DEF setRule, LInv, ShutdownInv, Running
<1>1. mpc' \in {next, "exit"} /\ mpc' # "makeID" /\ mpc' # "writeID" /\ mpc' \notin StartUp
    BY DEF setRule, StartUp
<1>2. /\ ipt' \in [Protocols -> Nat]
      /\ \A q \in Protocols : ipt'[q] \in 0..1
    BY DEF setRule, setTProxyIPTables, LInv, LTypeOK, RuleInv
<1>3. /\ spc' \in [Actors -> ShutdownSteps]
      /\ spc'["main"] \in {"off", "cancel"} /\ spc'["signal"] = spc["signal"]
      /\ spc'["main"] # "off" => mpc' = "exit"
    BY <1>0 DEF setRule, LInv, LTypeOK, Actors, ShutdownSteps
<1>4. LTypeOK'
    <2>1. udp' \in {"off", "running", "closed"}
        BY DEF setRule, LInv, LTypeOK
    <2> QED
        BY <1>1, <1>2, <1>3, <2>1 DEF LInv, LTypeOK, MainStates, StartUp
<1>5. IDInv'
    BY <1>0, <1>1 DEF LInv, IDInv
<1>6. ShutdownInv' /\ ExitInv'
    BY <1>0, <1>1, <1>3 DEF LInv, ShutdownInv, ExitInv
<1>7. RuleInv'
    BY <1>0, <1>2, <1>3 DEF RuleInv, Settled, Flushed, Actors
<1> QED
    BY <1>4, <1>5, <1>6, <1>7 DEF LInv

-----------------------------------------------------------------------------
(* The listener, the signal and Shutdown. *)

\* udpListen's end and the signal only move control.
LEMMA SignalLInv ==
    ASSUME LInv, Running, UDPListenStops \/ Signal
    PROVE  LInv'
<1> UNCHANGED <<runs, spicy, exit, mpc, cancelled, worker, failed, id, idFile, ipt>>
    BY DEF UDPListenStops, Signal, idVars
<1>1. CASE UDPListenStops
    <2> UNCHANGED <<spc, sigAt>>
        BY <1>1 DEF UDPListenStops
    <2>1. LTypeOK'
        BY <1>1 DEF UDPListenStops, LInv, LTypeOK
    <2> QED
        BY <2>1 DEF LInv, IDInv, ShutdownInv, ExitInv, RuleInv, Settled
<1>2. CASE Signal
    <2>1. /\ spc' \in [Actors -> ShutdownSteps]
          /\ spc'["main"] = spc["main"] /\ spc'["signal"] = "cancel"
          /\ sigAt' = mpc /\ mpc \notin StartUp /\ UNCHANGED udp
        BY <1>2 DEF Signal, LInv, LTypeOK, Actors, ShutdownSteps
    <2>2. LTypeOK'
        BY <2>1 DEF LInv, LTypeOK
    <2>3. ShutdownInv'
        BY <2>1 DEF LInv, LTypeOK, ShutdownInv, MainStates, StartUp
    <2>4. ExitInv'
        BY DEF ExitInv, Running
    <2>5. RuleInv'
        BY <2>1 DEF LInv, RuleInv, Settled, Flushed, Actors
    <2>6. IDInv'
        BY DEF LInv, IDInv
    <2> QED
        BY <2>2, <2>3, <2>4, <2>5, <2>6 DEF LInv
<1> QED
    BY <1>1, <1>2

\* What a step of Shutdown changes in the actor's control: it goes on to the
\* step after the one it was at.
LEMMA NextStep ==
    ASSUME spicy \in BOOLEAN
    PROVE  /\ nextStep("cancel") = "flushTCP"
           /\ nextStep("flushTCP") = "flushUDP"
           /\ nextStep("flushUDP") \in {"cleanup", "done"}
BY DEF nextStep

\* A step of Shutdown: its actor passes the deletion of a rule only with that
\* deletion, which takes the one copy away or is on record as failed.
LEMMA ShutdownLInv ==
    ASSUME NEW a \in Actors, LInv, Running, Shutdown(a)
    PROVE  LInv'
<1> UNCHANGED <<runs, spicy, exit, mpc, sigAt, udp, id, idFile>>
    BY DEF Shutdown, ShutdownCancel, ShutdownFlush, flushRule, ShutdownCleanup, idVars
<1> spicy \in BOOLEAN
    BY DEF LInv, LTypeOK
<1>1. /\ cancelled' \in BOOLEAN /\ worker' \in BOOLEAN /\ failed' \in BOOLEAN
      /\ spc[a] # "off"
      /\ \E s \in ShutdownSteps \ {"off"} : spc' = [spc EXCEPT ![a] = s]
    BY NextStep
    DEF Shutdown, ShutdownCancel, ShutdownFlush, flushRule, ShutdownCleanup,
        LInv, LTypeOK, ShutdownSteps
<1>2. /\ ipt' \in [Protocols -> Nat]
      /\ \A p \in Protocols : ipt'[p] \in 0..1 /\ (ipt[p] = 0 => ipt'[p] = 0)
    BY DEF Shutdown, ShutdownCancel, ShutdownFlush, flushRule, ShutdownCleanup,
           flushTProxyIPTables, LInv, LTypeOK, RuleInv, Protocols
<1>3. LTypeOK'
    BY <1>1, <1>2 DEF LInv, LTypeOK, Actors
<1>4. IDInv' /\ ShutdownInv' /\ ExitInv'
    BY <1>1 DEF LInv, LTypeOK, IDInv, ShutdownInv, ExitInv, Running, Actors
<1>5. ASSUME ~failed', NEW p \in Protocols, spc'[a] \in Flushed(p)
      PROVE  spc[a] \in Flushed(p) \/ ipt'[p] = 0
    <2> spc \in [Actors -> ShutdownSteps] /\ ipt \in [Protocols -> Nat] /\ ipt[p] \in 0..1
        BY DEF LInv, LTypeOK, RuleInv
    <2>1. CASE ShutdownCancel(a)
        BY <2>1, <1>5, NextStep DEF ShutdownCancel, Flushed
    <2>2. CASE flushRule(a, "tcp", "flushTCP")
        BY <2>2, <1>5, NextStep DEF flushRule, flushTProxyIPTables, Flushed, Protocols
    <2>3. CASE flushRule(a, "udp", "flushUDP")
        BY <2>3, <1>5, NextStep DEF flushRule, flushTProxyIPTables, Flushed, Protocols
    <2>4. CASE ShutdownCleanup(a)
        BY <2>4 DEF ShutdownCleanup, Flushed
    <2> QED
        BY <2>1, <2>2, <2>3, <2>4 DEF Shutdown, ShutdownFlush
<1>6. ~failed' => ~failed
    BY DEF Shutdown, ShutdownCancel, ShutdownFlush, flushRule, ShutdownCleanup
<1>7. RuleInv'
    <2> SUFFICES ASSUME ~failed', NEW b \in Actors, NEW p \in Protocols,
                        Settled(b)', spc'[b] \in Flushed(p)
                 PROVE  ipt'[p] = 0
        BY <1>2 DEF RuleInv
    <2>1. spc[b] \in Flushed(p) \/ ipt'[p] = 0
        BY <1>1, <1>5 DEF LInv, LTypeOK
    <2> QED
        BY <2>1, <1>2, <1>6 DEF LInv, RuleInv, Settled
<1> QED
    BY <1>3, <1>4, <1>7 DEF LInv

-----------------------------------------------------------------------------
(* The theorems. *)

\* LInv holds in every state, for any number of runs of the process.
THEOREM LInvariance == LSpec => []LInv
<1>1. ASSUME LInv, [LNext]_lVars
      PROVE  LInv'
    <2>1. CASE Running /\ MainStep
        <3>1. CASE MakeID \/ WriteID \/ LoadConfig \/ StartServer \/ MainInit
            BY <1>1, <2>1, <3>1, StartUpLInv
        <3>2. CASE SetTCPRule \/ SetUDPRule
            BY <1>1, <2>1, <3>2, SetRuleLInv DEF SetTCPRule, SetUDPRule, Protocols
        <3>3. CASE MainReturns \/ MainFatal
            BY <1>1, <3>3, EndLInv
        <3> QED
            BY <2>1, <3>1, <3>2, <3>3 DEF MainStep
    <2>2. CASE Running /\ (Shutdown("main") \/ SignalStep)
        BY <1>1, <2>2, ShutdownLInv, EndLInv DEF SignalStep, Actors
    <2>3. CASE Running /\ (UDPListenStops \/ Signal)
        BY <1>1, <2>3, SignalLInv
    <2>4. CASE Kill
        BY <1>1, <2>4, EndLInv
    <2>5. CASE Restart
        BY <1>1, <2>5, RestartLInv
    <2>6. CASE UNCHANGED lVars
        BY <1>1, <2>6
        DEF lVars, idVars, LInv, LTypeOK, IDInv, ShutdownInv, ExitInv, RuleInv, Settled
    <2> QED
        BY <1>1, <2>1, <2>2, <2>3, <2>4, <2>5, <2>6 DEF LNext
<1> QED
    BY InitLInv, <1>1, PTL DEF LSpec

\* The control states and counters of the process have their types.
THEOREM LifecycleTypeCorrect == LSpec => []LTypeOK
BY LInvariance, PTL DEF LInv

\* A completed Shutdown (glutton.go, Shutdown) leaves no rule of this or of
\* an earlier process, unless a deletion failed.
THEOREM ShutdownCleans == LSpec => []CompletedShutdownCleans
<1>1. LInv => CompletedShutdownCleans
    BY DEF LInv, ExitInv, RuleInv, CompletedShutdownCleans, Settled, Flushed, Actors,
           Protocols
<1> QED
    BY <1>1, LInvariance, PTL

\* makeID (glutton.go): the ID on disk never changes once it is written, and
\* whoever got past makeID goes by it.
THEOREM SensorIDStays == LSpec => SensorIDKept
<1>1. LInv => (mpc \notin {"makeID", "writeID"} => idFile = id)
    BY DEF LInv, IDInv
<1>2. ASSUME LInv, [LNext]_lVars
      PROVE  [idFile >= 1 => idFile' = idFile]_lVars
    <2> SUFFICES ASSUME idFile >= 1, LNext PROVE idFile' = idFile
        BY <1>2
    <2>1. CASE MakeID \/ WriteID
        BY <1>2, <2>1
        DEF MakeID, WriteID, createID, initFails, idVars, LInv, LTypeOK, IDInv, Torn
    <2>2. CASE LoadConfig \/ StartServer \/ MainInit
        BY <2>2 DEF LoadConfig, StartServer, MainInit, initStep, initFails, idVars
    <2>3. CASE SetTCPRule \/ SetUDPRule
        BY <2>3 DEF SetTCPRule, SetUDPRule, setRule, idVars
    <2>4. CASE MainReturns \/ MainFatal \/ SignalExit \/ Kill
        BY <2>4 DEF MainReturns, MainFatal, SignalExit, Kill, procVars, idVars
    <2>5. CASE UDPListenStops \/ Signal \/ Restart
        BY <2>5 DEF UDPListenStops, Signal, Restart, idVars
    <2>6. CASE Shutdown("main") \/ Shutdown("signal")
        BY <2>6
        DEF Shutdown, ShutdownCancel, ShutdownFlush, flushRule, ShutdownCleanup, idVars
    <2> QED
        BY <2>1, <2>2, <2>3, <2>4, <2>5, <2>6 DEF LNext, MainStep, SignalStep
<1> QED
    BY <1>1, <1>2, LInvariance, PTL DEF LSpec, SensorIDKept

-----------------------------------------------------------------------------
(* Two Shutdowns and one Spicy worker.                                     *)
(*                                                                         *)
(* The signal goroutine and a main whose Start failed may both run         *)
(* Shutdown, and only one of them gets its command to the worker; the      *)
(* other waits for ever.  That the process ends all the same needs         *)
(* fairness, which is left to TLC, and the following.                      *)

\* Whoever has to run Shutdown does, and the worker is only gone once someone
\* has finished.
CleanupInv ==
    /\ sigAt # "no" => spc["signal"] # "off"
    /\ mpc = "exit" => spc["main"] # "off"
    /\ \A a \in Actors : spc[a] = "cleanup" => spicy
    /\ spicy /\ mpc \notin StartUp /\ ~worker => \E b \in Actors : spc[b] = "done"

\* A signal, and a Start that failed, have a Shutdown under way; one that
\* waits for the worker finds it, or else somebody else has finished and only
\* has to end the process.
ShutdownNeverStuck ==
    Running =>
        /\ sigAt # "no" => spc["signal"] # "off"
        /\ mpc = "exit" => spc["main"] # "off"
        /\ \A a \in Actors :
               spc[a] = "cleanup" =>
                   \/ worker
                   \/ \E b \in Actors \ {a} :
                          spc[b] = "done" /\ (b = "main" => mpc = "exit")

LEMMA CleanupStep == LInv /\ CleanupInv /\ [LNext]_lVars => CleanupInv'
<1> SUFFICES ASSUME LInv, CleanupInv, [LNext]_lVars PROVE CleanupInv'
    OBVIOUS
<1>0. /\ Actors = {"main", "signal"} /\ spc \in [Actors -> ShutdownSteps]
      /\ spicy \in BOOLEAN /\ worker \in BOOLEAN
    BY DEF Actors, LInv, LTypeOK
<1>1. CASE MakeID \/ WriteID \/ LoadConfig \/ StartServer \/ MainInit
    <2>1. /\ UNCHANGED <<spicy, spc, sigAt>> /\ mpc \in StartUp
          /\ mpc' \in StartUp \cup {"setTCP"}
          /\ mpc' = "setTCP" => worker' = spicy
        <3>1. UNCHANGED <<spicy, spc, sigAt>>
            BY <1>1 DEF MakeID, WriteID, LoadConfig, StartServer, MainInit, initStep,
                        startFrame
        <3>2. CASE MakeID \/ WriteID
            BY <3>1, <3>2 DEF MakeID, WriteID, createID, initFails, StartUp
        <3>3. CASE LoadConfig \/ StartServer \/ MainInit
            BY <1>0, <3>1, <3>3
            DEF LoadConfig, StartServer, MainInit, initStep, initFails, StartUp
        <3> QED
            BY <1>1, <3>1, <3>2, <3>3
    <2>2. mpc' # "exit"
        BY <2>1 DEF StartUp
    <2>3. spicy /\ mpc' \notin StartUp => worker'
        BY <2>1
    <2> QED
        BY <2>1, <2>2, <2>3 DEF CleanupInv
<1>2. CASE SetTCPRule \/ SetUDPRule
    <2>1. /\ UNCHANGED <<spicy, sigAt, worker>> /\ mpc \in {"setTCP", "setUDP"}
          /\ \/ spc' = spc /\ mpc' \in {"setUDP", "wait"}
             \/ mpc' = "exit" /\ spc' = [spc EXCEPT !["main"] = "cancel"]
        BY <1>2 DEF SetTCPRule, SetUDPRule, setRule
    <2>2. spc["main"] = "off"
        BY <2>1 DEF LInv, ShutdownInv
    <2>3. /\ spc'["signal"] = spc["signal"]
          /\ \/ spc'["main"] = spc["main"] /\ mpc' # "exit"
             \/ spc'["main"] = "cancel"
        BY <1>0, <2>1
    <2>4. mpc \notin StartUp
        BY <2>1 DEF StartUp
    <2> QED
        BY <1>0, <2>1, <2>2, <2>3, <2>4 DEF CleanupInv
<1>3. CASE MainReturns \/ MainFatal \/ SignalExit \/ Kill
    <2>1. UNCHANGED <<spicy, mpc, spc, sigAt, worker>>
        BY <1>3 DEF MainReturns, MainFatal, SignalExit, Kill, procVars
    <2> QED
        BY <2>1 DEF CleanupInv
<1>4. CASE UDPListenStops \/ UNCHANGED lVars
    <2>1. UNCHANGED <<spicy, mpc, spc, sigAt, worker>>
        BY <1>4 DEF UDPListenStops, lVars
    <2> QED
        BY <2>1 DEF CleanupInv
<1>5. CASE Signal
    <2>1. /\ UNCHANGED <<spicy, mpc, worker>> /\ sigAt = "no"
          /\ spc' = [spc EXCEPT !["signal"] = "cancel"]
        BY <1>5 DEF Signal
    <2>2. spc["signal"] = "off"
        BY <2>1 DEF LInv, ShutdownInv
    <2>3. spc'["signal"] = "cancel" /\ spc'["main"] = spc["main"]
        BY <1>0, <2>1
    <2> QED
        BY <1>0, <2>1, <2>2, <2>3 DEF CleanupInv
<1>6. CASE Restart
    BY <1>0, <1>6 DEF Restart, CleanupInv, StartUp
<1>7. ASSUME NEW a \in Actors, Shutdown(a) PROVE CleanupInv'
    <2>1. UNCHANGED <<spicy, mpc, sigAt>>
        BY <1>7 DEF Shutdown, ShutdownCancel, ShutdownFlush, flushRule, ShutdownCleanup
    <2>2. /\ \A b \in Actors \ {a} : spc'[b] = spc[b]
          /\ spc[a] \in {"cancel", "flushTCP", "flushUDP", "cleanup"}
          /\ spc'[a] \in {"flushTCP", "flushUDP", "cleanup", "done"}
          /\ spc'[a] = "cleanup" => spicy
          /\ worker' = worker \/ spc'[a] = "done"
        <3>1. CASE ShutdownCancel(a) \/ ShutdownFlush(a)
            <4>1. /\ spc[a] \in {"cancel", "flushTCP", "flushUDP"} /\ worker' = worker
                  /\ spc' = [spc EXCEPT ![a] = nextStep(spc[a])]
                BY <1>0, <3>1 DEF ShutdownCancel, ShutdownFlush, flushRule
            <4>2. /\ nextStep(spc[a]) \in {"flushTCP", "flushUDP", "cleanup", "done"}
                  /\ nextStep(spc[a]) = "cleanup" => spicy
                BY <4>1 DEF nextStep
            <4>3. spc'[a] = nextStep(spc[a]) /\ \A b \in Actors \ {a} : spc'[b] = spc[b]
                BY <1>0, <4>1
            <4> QED
                BY <4>1, <4>2, <4>3
        <3>2. CASE ShutdownCleanup(a)
            <4>1. spc[a] = "cleanup" /\ spc' = [spc EXCEPT ![a] = "done"]
                BY <3>2 DEF ShutdownCleanup
            <4> QED
                BY <1>0, <4>1
        <3> QED
            BY <1>7, <3>1, <3>2 DEF Shutdown
    <2>3. \A b \in Actors : spc[b] = "done" => spc'[b] = "done"
        BY <2>2
    <2>4. \A b \in Actors : spc[b] # "off" => spc'[b] # "off"
        BY <2>2
    <2>5. \A b \in Actors : spc'[b] = "cleanup" => spicy
        BY <2>2 DEF CleanupInv
    <2>6. spicy /\ mpc \notin StartUp /\ ~worker' => \E b \in Actors : spc'[b] = "done"
        BY <1>0, <2>2, <2>3 DEF CleanupInv
    <2> QED
        BY <1>0, <2>1, <2>4, <2>5, <2>6 DEF CleanupInv
<1> QED
    BY <1>0, <1>1, <1>2, <1>3, <1>4, <1>5, <1>6, <1>7
    DEF LNext, MainStep, SignalStep

\* When a signal meets a Start that fails, two Shutdowns compete for the one
\* worker of spicy.Cleanup: the one that loses waits, but never before the
\* other can end the process, in every interleaving and after every restart.
THEOREM ShutdownsNeverStuck == LSpec => []ShutdownNeverStuck
<1>1. LInit => CleanupInv
    BY DEF LInit, CleanupInv, Actors, StartUp
<1>2. LInv /\ CleanupInv /\ [LNext]_lVars => CleanupInv'
    BY CleanupStep
<1>3. ASSUME LInv, CleanupInv PROVE ShutdownNeverStuck
    <2>1. mpc \in StartUp => \A a \in Actors : spc[a] = "off"
        BY <1>3 DEF LInv, ShutdownInv, Actors, StartUp
    <2>2. ASSUME NEW a \in Actors, spc[a] = "cleanup", ~worker
          PROVE  \E b \in Actors \ {a} : spc[b] = "done" /\ (b = "main" => mpc = "exit")
        <3>1. PICK b \in Actors : spc[b] = "done"
            BY <1>3, <2>1, <2>2 DEF CleanupInv
        <3>2. b # a /\ (b = "main" => mpc = "exit")
            BY <1>3, <2>2, <3>1 DEF LInv, ShutdownInv
        <3> QED
            BY <3>1, <3>2
    <2> QED
        BY <1>3, <2>2 DEF ShutdownNeverStuck, CleanupInv
<1> QED
    BY <1>1, <1>2, <1>3, LInvariance, PTL DEF LSpec
=============================================================================
