---------------------------- MODULE SpicyWorker -----------------------------
(***************************************************************************)
(* protocols/spicy/parser.go: the C++ parsers run on one worker goroutine, *)
(* which takes commands from an unbuffered channel.  Parse hands over its  *)
(* data and waits for the reply with a timeout; when that passes, it       *)
(* leaves a goroutine behind that frees the C result.  Cleanup makes the   *)
(* worker release the runtime and end.                                     *)
(*                                                                         *)
(* A Parse is named by its caller, and so are its reply channel and the C  *)
(* result the worker allocates for it.  The parsed fields are left out.    *)
(***************************************************************************)
EXTENDS Integers, FiniteSets

CONSTANTS
    Parsers,    \* goroutines that call Parse
    Cleaners    \* goroutines that call Cleanup

ASSUME CallersAssumption == Parsers \cap Cleaners = {}

Callers == Parsers \cup Cleaners

\* The states the worker is in when it works for nobody.
Unoccupied == {"off", "recv", "stalled", "gone"}

ASSUME NamesAssumption == Callers \cap Unoccupied = {}

VARIABLES
    ppc,        \* control state of each caller
    worker,     \* "off", "recv", "stalled", "gone", or whom it works for
    registered, \* registeredParsers has been filled
    mem,        \* per parser: its C result "none", "allocated", "freed"
    reply,      \* per caller: messages in its reply channel
    drainer     \* the parsers whose drain goroutine is waiting

wVars == <<ppc, worker, registered, mem, reply, drainer>>

\* The capacity of the reply channels.
ReplyCap == 1

WInit ==
    /\ ppc = [c \in Callers |-> "idle"]
    /\ worker = "off"
    /\ registered = FALSE
    /\ mem = [c \in Parsers |-> "none"]
    /\ reply = [c \in Callers |-> 0]
    /\ drainer = {}

-----------------------------------------------------------------------------
(* Callers. *)

\* Initialize, once: start the worker, initialise the runtime on it and fill
\* registeredParsers, unless the runtime does not come up.
Initialize ==
    /\ worker = "off"
    /\ worker' = "recv"
    /\ registered' \in BOOLEAN
    /\ UNCHANGED <<ppc, mem, reply, drainer>>

\* Parse returns early for an unknown protocol or empty data; otherwise it,
\* like Cleanup (called only once Initialize has run), goes on to send its
\* command.
Call(c) ==
    /\ ppc[c] = "idle"
    /\ \/ /\ IF c \in Parsers THEN registered ELSE worker # "off"
          /\ ppc' = [ppc EXCEPT ![c] = "send"]
       \/ c \in Parsers /\ ppc' = [ppc EXCEPT ![c] = "returned"]
    /\ UNCHANGED <<worker, registered, mem, reply, drainer>>

\* The rendezvous on cmdCh: sender and worker meet.  No timeout applies.
Send(c) ==
    /\ ppc[c] = "send"
    /\ worker = "recv"
    /\ ppc' = [ppc EXCEPT ![c] = "await"]
    /\ worker' = c
    /\ UNCHANGED <<registered, mem, reply, drainer>>

\* The reply arrives in time; Parse frees the C result as it returns, with
\* the parsed fields or with the parser's error.
Receive(c) ==
    /\ ppc[c] = "await" /\ reply[c] > 0
    /\ reply' = [reply EXCEPT ![c] = @ - 1]
    /\ ppc' = [ppc EXCEPT ![c] = "returned"]
    /\ mem' = IF c \in Parsers THEN [mem EXCEPT ![c] = "freed"] ELSE mem
    /\ UNCHANGED <<worker, registered, drainer>>

\* Mutant: the timeout leaves nobody behind to take the late reply.
TimeOut_NoDrain(c) ==
    /\ c \in Parsers /\ ppc[c] = "await"
    /\ ppc' = [ppc EXCEPT ![c] = "returned"]
    /\ UNCHANGED <<worker, registered, mem, reply, drainer>>

\* Mutant: Parse waits for the reply without a timeout.
TimeOut_Never(c) == FALSE

\* Mutant: Cleanup has the timeout as well.
TimeOut_Cleanup(c) ==
    /\ ppc[c] = "await"
    /\ ppc' = [ppc EXCEPT ![c] = "returned"]
    /\ drainer' = drainer \cup {c}
    /\ UNCHANGED <<worker, registered, mem, reply>>

\* parseTimeout passes; a goroutine stays behind to drain the reply.  If the
\* reply is there as well, select may take either case.
TimeOut(c) ==
    /\ c \in Parsers /\ ppc[c] = "await"
    /\ ppc' = [ppc EXCEPT ![c] = "returned"]
    /\ drainer' = drainer \cup {c}
    /\ UNCHANGED <<worker, registered, mem, reply>>

\* The drain goroutine frees the late result.
Drain(c) ==
    /\ c \in drainer /\ reply[c] > 0
    /\ reply' = [reply EXCEPT ![c] = @ - 1]
    /\ mem' = [mem EXCEPT ![c] = "freed"]
    /\ drainer' = drainer \ {c}
    /\ UNCHANGED <<ppc, worker, registered>>

-----------------------------------------------------------------------------
(* The worker. *)

\* spicy_parse_generic returns a C result, sent on the reply channel.
WorkerParsed ==
    /\ worker \in Parsers
    /\ reply[worker] < ReplyCap
    /\ mem' = [mem EXCEPT ![worker] = "allocated"]
    /\ reply' = [reply EXCEPT ![worker] = @ + 1]
    /\ worker' = "recv"
    /\ UNCHANGED <<ppc, registered, drainer>>

\* Mutant: the worker ends without a reply.
WorkerShutdown_Silent ==
    /\ worker \in Cleaners
    /\ worker' = "gone"
    /\ UNCHANGED <<ppc, registered, mem, reply, drainer>>

\* spicy_cleanup, the reply, and the end of the worker.
WorkerShutdown ==
    /\ worker \in Cleaners
    /\ reply[worker] < ReplyCap
    /\ reply' = [reply EXCEPT ![worker] = @ + 1]
    /\ worker' = "gone"
    /\ UNCHANGED <<ppc, registered, mem, drainer>>

\* A C++ parser never returns: what parseTimeout is there for.
WorkerStalls ==
    /\ worker \in Parsers
    /\ worker' = "stalled"
    /\ UNCHANGED <<ppc, registered, mem, reply, drainer>>

WorkerStep == WorkerParsed \/ WorkerShutdown \/ WorkerStalls

CallerStep(c) == Send(c) \/ Receive(c) \/ TimeOut(c)

WNext ==
    \/ \E c \in Callers : Call(c) \/ CallerStep(c) \/ Drain(c)
    \/ WorkerStep
    \/ Initialize

\* Goroutines that can run do, so a parser that has been given its data
\* returns unless it stalls.  A sender the worker keeps meeting others instead
\* of is served in turn: Go's channel queues are first in, first out.
WFairness ==
    /\ WF_wVars(WorkerStep) /\ WF_wVars(Initialize)
    /\ \A c \in Callers : SF_wVars(Send(c)) /\ WF_wVars(CallerStep(c))
    /\ \A c \in Callers : WF_wVars(Drain(c))

WSpec == WInit /\ [][WNext]_wVars /\ WFairness

-----------------------------------------------------------------------------
(* Properties. *)

\* Callers, worker and reply channels have their types.
WTypeOK ==
    /\ ppc \in [Callers -> {"idle", "send", "await", "returned"}]
    /\ worker \in Unoccupied \cup Callers
    /\ registered \in BOOLEAN
    /\ mem \in [Parsers -> {"none", "allocated", "freed"}]
    /\ reply \in [Callers -> 0..ReplyCap]
    /\ drainer \subseteq Parsers

\* Every C result is freed exactly once.  One that is not freed yet waits in
\* its reply channel for the caller or for the goroutine it left behind, one
\* of them and not both; of one that is freed nobody will take hold again.
ResultHasOwner ==
    \A c \in Parsers :
        /\ mem[c] = "allocated" => /\ reply[c] = 1
                                   /\ (ppc[c] = "await") # (c \in drainer)
        /\ mem[c] = "freed" => /\ reply[c] = 0 /\ worker # c
                               /\ ppc[c] = "returned" /\ c \notin drainer

\* Once the worker has its data, a Parse returns, even if the parser stalls,
\* and a result it did not wait for is freed in the end all the same.
ParseReturns ==
    \A c \in Parsers :
        /\ (ppc[c] = "await") ~> (ppc[c] = "returned")
        /\ (mem[c] = "allocated") ~> (mem[c] = "freed")

\* The send to the worker is not under Parse's timeout.  While no parser has
\* stalled and the runtime is not released, every Parse gets its data to the
\* worker, however many others are waiting.  A Cleanup whose send waits leads
\* to the end of the worker unless a parser stalls, and one the worker took
\* returns.  Nothing is claimed of a call that meets a worker already gone:
\* there is none to take its command.
CommandsServed ==
    /\ \A c \in Parsers :
        (ppc[c] = "send") ~> (ppc[c] # "send" \/ worker \in {"stalled", "gone"})
    /\ \A c \in Cleaners :
        /\ (ppc[c] = "send") ~> (worker \in {"stalled", "gone"})
        /\ (ppc[c] = "await") ~> (ppc[c] = "returned")
=============================================================================
