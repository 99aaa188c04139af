----------------------------- MODULE Lifecycle ------------------------------
(***************************************************************************)
(* The life of the process: main in app/server.go runs New, Init and       *)
(* Start; Start installs one TPROXY rule per protocol and waits for        *)
(* udpListen; the signal goroutine, or main when Start fails, runs         *)
(* Shutdown, which cancels the context, deletes the rules and cleans up    *)
(* Spicy.  The process ends when main returns or anyone calls os.Exit,     *)
(* whatever the other goroutines are doing.                                *)
(*                                                                         *)
(* The iptables rules are kernel state: they outlive the process, which    *)
(* may also be killed at any time and be started again.                    *)
(***************************************************************************)
EXTENDS Integers, FiniteSets

CONSTANTS MaxRuns   \* bound: how often the process is started

ASSUME MaxRunsAssumption == MaxRuns \in Nat \ {0}

Protocols == {"tcp", "udp"}

\* The goroutines that may run Shutdown.
Actors == {"main", "signal"}

\* What an ID file that holds no UUID counts as.
Torn == -1

VARIABLES
    runs,       \* how often the process has been started
    spicy,      \* spicy.enabled
    exit,       \* how the process ended, "no" while it runs
    mpc,        \* control state of main
    spc,        \* per actor: the step of Shutdown it is at
    sigAt,      \* mpc when the signal was delivered, "no" before
    cancelled,  \* g.cancel() was called
    udp,        \* udpListen: "off", "running", "closed"
    worker,     \* the Spicy worker goroutine is there to receive
    failed,     \* some iptables deletion failed for a reason of its own
    id,         \* g.id, the sensor ID; 0 before makeID has set it
    idFile,     \* disk: the ID in <var-dir>/glutton.id, 0 without a file
    ipt         \* kernel: copies of each protocol's TPROXY rule

idVars == <<id, idFile>>
lVars == <<runs, spicy, exit, mpc, spc, sigAt, cancelled, udp, worker, failed,
           idVars, ipt>>
procVars == <<mpc, spc, sigAt, cancelled, udp, worker, failed, idVars>>
startFrame == <<runs, spicy, spc, sigAt, cancelled, udp, failed, ipt>>

LInit ==
    /\ runs = 1
    /\ spicy \in BOOLEAN
    /\ exit = "no"
    /\ mpc = "makeID"
    /\ spc = [a \in Actors |-> "off"]
    /\ sigAt = "no"
    /\ cancelled = FALSE
    /\ udp = "off"
    /\ worker = FALSE
    /\ failed = FALSE
    /\ id = 0
    /\ idFile = 0
    /\ ipt = [p \in Protocols |-> 0]

Running == exit = "no"

\* main is in New or Init.
StartUp == {"makeID", "writeID", "config", "listen", "init"}

-----------------------------------------------------------------------------
(* main and Start. *)

\* An error of New or Init is fatal.
initFails == exit' = "fatal" /\ UNCHANGED <<mpc, worker, idVars>>

\* A fresh UUID is named by the run that drew it.  os.WriteFile creates the
\* file before it writes it.
createID ==
    /\ id' = runs
    /\ idFile' = Torn
    /\ mpc' = "writeID"
    /\ UNCHANGED <<exit, worker>>

\* Mutant: the ID is drawn without looking for an old one.
MakeID_Fresh ==
    /\ mpc = "makeID"
    /\ createID
    /\ UNCHANGED startFrame

\* makeID: draw an ID if there is no file, else read it; what is not a UUID
\* is an error.
MakeID ==
    /\ mpc = "makeID"
    /\ \/ idFile = 0 /\ createID
       \/ /\ idFile >= 1
          /\ id' = idFile
          /\ mpc' = "config"
          /\ UNCHANGED <<exit, worker, idFile>>
       \/ initFails
    /\ UNCHANGED startFrame

WriteID ==
    /\ mpc = "writeID"
    /\ \/ /\ idFile' = id
          /\ mpc' = "config"
          /\ UNCHANGED <<exit, worker, id>>
       \/ initFails
    /\ UNCHANGED startFrame

\* The rest of New and Init step by step; each step may fail.  The signal
\* handler is installed only after the last.
initStep(from, next) ==
    /\ mpc = from
    /\ \/ /\ mpc' = next
          /\ worker' = (spicy /\ next = "setTCP")
          /\ UNCHANGED <<exit, idVars>>
       \/ initFails
    /\ UNCHANGED startFrame

\* The configuration and the rules, from their files or the built-in ones.
LoadConfig == initStep("config", "listen")

\* Both listeners, with their socket options.
StartServer == initStep("listen", "init")

\* The producers, the handler maps, and the Spicy worker.
MainInit == initStep("init", "setTCP")

\* Mutant: Append in place of AppendUnique.
setTProxyIPTables_Append(p) == ipt' = [ipt EXCEPT ![p] = @ + 1]

\* setTProxyIPTables: AppendUnique adds the rule unless it is there.
setTProxyIPTables(p) == ipt' = [ipt EXCEPT ![p] = IF @ = 0 THEN 1 ELSE @]

\* A step of Start that installs the rule of protocol p, or fails: then main
\* runs Shutdown.
setRule(p, from, next) ==
    /\ mpc = from
    /\ \/ /\ setTProxyIPTables(p)
          /\ mpc' = next
          /\ udp' = IF next = "wait" THEN "running" ELSE udp
          /\ UNCHANGED spc
       \/ /\ mpc' = "exit"
          /\ spc' = [spc EXCEPT !["main"] = "cancel"]
          /\ UNCHANGED <<ipt, udp>>
    /\ UNCHANGED <<runs, spicy, exit, sigAt, cancelled, worker, failed, idVars>>

SetTCPRule == setRule("tcp", "setTCP", "setUDP")

\* After the second rule Start starts the listeners and waits for udpListen.
SetUDPRule == setRule("udp", "setUDP", "wait")

\* wg.Wait returns, Start returns nil, and main returns: the process ends.
MainReturns ==
    /\ mpc = "wait" /\ udp = "closed"
    /\ exit' = "returned"
    /\ UNCHANGED <<runs, spicy, procVars, ipt>>

\* log.Fatal after the Shutdown of the failed Start.
MainFatal ==
    /\ mpc = "exit" /\ spc["main"] = "done"
    /\ exit' = "fatal"
    /\ UNCHANGED <<runs, spicy, procVars, ipt>>

\* udpListen looks at the context at least once a second.
UDPListenStops ==
    /\ udp = "running" /\ cancelled
    /\ udp' = "closed"
    /\ UNCHANGED <<runs, spicy, exit, mpc, spc, sigAt, cancelled, worker,
                   failed, idVars, ipt>>

-----------------------------------------------------------------------------
(* Signals and Shutdown. *)

\* The first SIGINT or SIGTERM; later ones stay in the channel.
Signal ==
    /\ mpc \notin StartUp /\ sigAt = "no"
    /\ sigAt' = mpc
    /\ spc' = [spc EXCEPT !["signal"] = "cancel"]
    /\ UNCHANGED <<runs, spicy, exit, mpc, cancelled, udp, worker, failed, idVars,
                   ipt>>

\* The step of Shutdown after each one.
nextStep(step) ==
    CASE step = "cancel" -> "flushTCP"
      [] step = "flushTCP" -> "flushUDP"
      [] step = "flushUDP" -> IF spicy THEN "cleanup" ELSE "done"

ShutdownCancel(a) ==
    /\ spc[a] = "cancel"
    /\ cancelled' = TRUE
    /\ spc' = [spc EXCEPT ![a] = nextStep(@)]
    /\ UNCHANGED <<runs, spicy, exit, mpc, sigAt, udp, worker, failed, idVars,
                   ipt>>

\* Mutant: a deletion is counted although there is no rule to delete.
flushTProxyIPTables_Unchecked(p) == ipt' = [ipt EXCEPT ![p] = @ - 1]

\* flushTProxyIPTables: Delete removes one copy; with none it is an error
\* that changes nothing.
flushTProxyIPTables(p) == ipt' = [ipt EXCEPT ![p] = IF @ = 0 THEN 0 ELSE @ - 1]

\* A step of Shutdown that deletes a rule, or fails: that is only logged.
flushRule(a, p, step) ==
    /\ spc[a] = step
    /\ \/ /\ flushTProxyIPTables(p)
          /\ UNCHANGED failed
       \/ /\ failed' = TRUE
          /\ UNCHANGED ipt
    /\ spc' = [spc EXCEPT ![a] = nextStep(@)]
    /\ UNCHANGED <<runs, spicy, exit, mpc, sigAt, cancelled, udp, worker, idVars>>

\* Mutant: the UDP step deletes the TCP rule again.
ShutdownFlush_TCPTwice(a) ==
    flushRule(a, "tcp", "flushTCP") \/ flushRule(a, "tcp", "flushUDP")

ShutdownFlush(a) ==
    flushRule(a, "tcp", "flushTCP") \/ flushRule(a, "udp", "flushUDP")

\* spicy.Cleanup: handing cmdShutdown to the worker, which then ends.  With
\* no worker left to receive it, the call blocks for ever.
ShutdownCleanup(a) ==
    /\ spc[a] = "cleanup"
    /\ worker
    /\ worker' = FALSE
    /\ spc' = [spc EXCEPT ![a] = "done"]
    /\ UNCHANGED <<runs, spicy, exit, mpc, sigAt, cancelled, udp, failed, idVars,
                   ipt>>

Shutdown(a) == ShutdownCancel(a) \/ ShutdownFlush(a) \/ ShutdownCleanup(a)

\* Mutant: the signal goroutine relies on main to end the process.
SignalExit_Missing == FALSE

\* os.Exit(0) in the signal goroutine.
SignalExit ==
    /\ spc["signal"] = "done"
    /\ exit' = "exit0"
    /\ UNCHANGED <<runs, spicy, procVars, ipt>>

-----------------------------------------------------------------------------
\* The process is killed, or a goroutine panics.
Kill ==
    /\ exit' = "killed"
    /\ UNCHANGED <<runs, spicy, procVars, ipt>>

\* The process is started again; the disk and the kernel's state survive.
Restart ==
    /\ ~Running /\ runs < MaxRuns
    /\ runs' = runs + 1
    /\ exit' = "no"
    /\ mpc' = "makeID"
    /\ spc' = [a \in Actors |-> "off"]
    /\ sigAt' = "no"
    /\ cancelled' = FALSE
    /\ udp' = "off"
    /\ worker' = FALSE
    /\ failed' = FALSE
    /\ id' = 0
    /\ UNCHANGED <<spicy, idFile, ipt>>

MainStep ==
    \/ MakeID \/ WriteID \/ LoadConfig \/ StartServer \/ MainInit
    \/ SetTCPRule \/ SetUDPRule \/ MainReturns \/ MainFatal
SignalStep == Shutdown("signal") \/ SignalExit

LNext ==
    \/ /\ Running
       /\ \/ MainStep \/ Shutdown("main") \/ UDPListenStops
          \/ Signal \/ SignalStep
          \/ Kill
    \/ Restart

\* Every goroutine that can run does; nobody has to send a signal.
LFairness ==
    /\ WF_lVars(Running /\ (MainStep \/ Shutdown("main")))
    /\ WF_lVars(Running /\ UDPListenStops)
    /\ WF_lVars(Running /\ SignalStep)

LSpec == LInit /\ [][LNext]_lVars /\ LFairness

-----------------------------------------------------------------------------
(* Properties. *)

ShutdownSteps == {"off", "cancel", "flushTCP", "flushUDP", "cleanup", "done"}
Exits == {"no", "returned", "exit0", "fatal", "killed"}
MainStates == StartUp \cup {"setTCP", "setUDP", "wait", "exit"}

\* Control states are those of the code and rules are counted by naturals.
LTypeOK ==
    /\ runs \in 1..MaxRuns
    /\ spicy \in BOOLEAN
    /\ exit \in Exits
    /\ mpc \in MainStates
    /\ spc \in [Actors -> ShutdownSteps]
    /\ sigAt \in {"no"} \cup MainStates
    /\ cancelled \in BOOLEAN
    /\ udp \in {"off", "running", "closed"}
    /\ worker \in BOOLEAN
    /\ failed \in BOOLEAN
    /\ id \in 0..MaxRuns
    /\ idFile \in Torn..MaxRuns
    /\ ipt \in [Protocols -> Nat]

\* The sensor keeps its ID: what is on disk never changes once it is written,
\* through every kill, failed start and restart, and a process that got past
\* makeID goes by the ID on disk.  (A kill between the creation of the file
\* and the write leaves a file that makes every later start fail.)
SensorIDKept ==
    /\ [](mpc \notin {"makeID", "writeID"} => idFile = id)
    /\ [][idFile >= 1 => idFile' = idFile]_lVars

\* A Shutdown that ran to its end, on a signal to a process that was up or
\* after a Start that failed half-way, leaves no rule of this or of an earlier,
\* killed process, unless a deletion failed: its one deletion per protocol is
\* enough because Start never adds a second copy.
CompletedShutdownCleans ==
    (/\ \/ exit = "exit0" /\ sigAt = "wait"
        \/ exit = "fatal" /\ mpc = "exit" /\ sigAt = "no"
     /\ ~failed) =>
        \A p \in Protocols : ipt[p] = 0

\* A signal ends the process, also when it arrives during start-up, when
\* Start fails at the same time and when two Shutdowns compete for the one
\* Spicy worker.
SignalEndsProcess == (sigAt # "no") ~> ~Running

\* docs/setup.md: "iptables state can be left behind if the process is killed
\* without a clean shutdown": a process that ended on a signal leaves none.
SignalledProcessCleans ==
    (exit \in {"returned", "exit0"} /\ ~failed) =>
        \A p \in Protocols : ipt[p] = 0
=============================================================================
