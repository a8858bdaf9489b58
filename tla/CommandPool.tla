---------------------------- MODULE CommandPool ----------------------------
(***************************************************************************)
(* The command pool of internal/agent/agent.go: the transport's read       *)
(* goroutine hands commands to a bounded number of workers or answers that *)
(* the agent is busy, a worker gates, runs and answers one command, and    *)
(* cleanup cancels the workers and waits for them for a limited time.      *)
(*                                                                         *)
(* A command is one delivery of a CommandMessage.  What its handler does   *)
(* is reduced to whether it gives up when its ctx is done: one that waits  *)
(* for pkgLock, or for a process that ignores its signal, does not.        *)
(***************************************************************************)
EXTENDS Naturals, FiniteSets

CONSTANTS
  Commands,  \* deliveries
  MaxSlots,  \* cap(cmdSlots), from cmdPoolSize
  Level,     \* the permission level of the agent's configuration
  ProtectActions,  \* commands whose action is on the allowlist of protect
  Garbled,   \* commands json.Unmarshal refuses
  Unknown,   \* commands without a handler
  Stubborn   \* commands whose handler does not heed its ctx

ASSUME PoolAssumption ==
  /\ IsFiniteSet(Commands)
  /\ MaxSlots \in Nat \ {0}
  /\ Level \in {"monitor", "protect", "full"}
  /\ {ProtectActions, Garbled, Unknown, Stubborn} \subseteq SUBSET Commands

-----------------------------------------------------------------------------
(* internal/permissions: the gate every command passes.  An action that no *)
(* list names needs full, and monitor runs none.                           *)

Rank(l) == CASE l = "monitor" -> 1 [] l = "protect" -> 2 [] l = "full" -> 3

Required(c) == IF c \in ProtectActions THEN "protect" ELSE "full"

Allowed(level, c) == level # "monitor" /\ Rank(level) >= Rank(Required(c))

\* What permissions.Check refuses.
Denied == {c \in Commands : ~Allowed(Level, c)}

-----------------------------------------------------------------------------
VARIABLES
  stage,    \* per command: where it is
  slots,    \* len(cmdSlots)
  workers,  \* the counter of cmdWG
  expired,  \* commands whose deadline has passed while they run
  cleanup,  \* how far Agent.cleanup has come
  answers,  \* history: per command, the answers sent
  old       \* history: commands in progress when cleanup cancelled them

vars == <<stage, slots, workers, expired, cleanup, answers, old>>

Stages == {"panel", "slotted", "accepted", "executing", "finishing", "gone"}
InProgress == {"accepted", "executing", "finishing"}
In(stages) == {c \in Commands : stage[c] \in stages}
Move(c, to) == stage' = [stage EXCEPT ![c] = to]
Answer(c, outcome) ==
  answers' = [answers EXCEPT ![c] = @ \cup {outcome}]
\* handleCommand and the read goroutine reply through SendCommandResult and
\* ignore its error.
AnswerUnlessGarbled(c, outcome) ==
  IF c \in Garbled THEN UNCHANGED answers ELSE Answer(c, outcome)

Init ==
  /\ stage = [c \in Commands |-> "panel"]
  /\ slots = 0 /\ workers = 0
  /\ expired = {}
  /\ cleanup = "no"
  /\ answers = [c \in Commands |-> {}]
  /\ old = {}

-----------------------------------------------------------------------------
(* submitCommand, on the one goroutine that reads the transport.           *)

Reading == In({"slotted"}) = {}

TakeSlot(c) ==
  /\ Reading /\ stage[c] = "panel" /\ slots < MaxSlots
  /\ slots' = slots + 1 /\ Move(c, "slotted")
  /\ UNCHANGED <<workers, expired, cleanup, answers, old>>

\* Every slot is busy: "agent busy" at once, no queue.
Busy(c) ==
  /\ Reading /\ stage[c] = "panel" /\ slots = MaxSlots
  /\ Move(c, "gone") /\ AnswerUnlessGarbled(c, "busy")
  /\ UNCHANGED <<slots, workers, expired, cleanup, old>>

\* cmdWG.Add(1) on the read goroutine, then the worker is started.
Spawn(c) ==
  /\ stage[c] = "slotted"
  /\ workers' = workers + 1 /\ Move(c, "accepted")
  /\ UNCHANGED <<slots, expired, cleanup, answers, old>>

-----------------------------------------------------------------------------
(* handleCommand, on a worker.                                             *)

\* Mutant: a refused command goes on to its handler.
RefuseRunsOn(c) ==
  /\ stage[c] = "accepted" /\ c \in Garbled \cup Denied \cup Unknown
  /\ Move(c, "executing")
  /\ AnswerUnlessGarbled(c, IF c \in Denied THEN "denied" ELSE "unknown")
  /\ UNCHANGED <<slots, workers, expired, cleanup, old>>
\* Refused before any handler runs: garbled (no answer), denied, unknown.
Refuse(c) ==
  /\ stage[c] = "accepted" /\ c \in Garbled \cup Denied \cup Unknown
  /\ Move(c, "finishing")
  /\ AnswerUnlessGarbled(c, IF c \in Denied THEN "denied" ELSE "unknown")
  /\ UNCHANGED <<slots, workers, expired, cleanup, old>>

Execute(c) ==
  /\ stage[c] = "accepted" /\ c \notin Garbled \cup Denied \cup Unknown
  /\ Move(c, "executing")
  /\ UNCHANGED <<slots, workers, expired, cleanup, answers, old>>

\* min(cmd.Timeout, MaxExecTimeout) has passed.
Expire(c) ==
  /\ stage[c] = "executing" /\ c \notin expired
  /\ expired' = expired \cup {c}
  /\ UNCHANGED <<stage, slots, workers, cleanup, answers, old>>

\* The handler returns, with a result or an error; the worker reports it.
\* Mutant: only a result is reported.
FinishQuietly(c) ==
  /\ stage[c] = "executing"
  /\ Move(c, "finishing")
  /\ Answer(c, "result") \/ UNCHANGED answers
  /\ UNCHANGED <<slots, workers, expired, cleanup, old>>
Finish(c) ==
  /\ stage[c] = "executing"
  /\ Move(c, "finishing")
  /\ \E outcome \in {"result", "error"} : Answer(c, outcome)
  /\ UNCHANGED <<slots, workers, expired, cleanup, old>>

\* The deferred <-cmdSlots and cmdWG.Done().
\* Mutant: only the first of the two.
ReleaseKeepsWorker(c) ==
  /\ stage[c] = "finishing"
  /\ Move(c, "gone") /\ slots' = slots - 1
  /\ UNCHANGED <<workers, expired, cleanup, answers, old>>
Release(c) ==
  /\ stage[c] = "finishing"
  /\ Move(c, "gone")
  /\ slots' = slots - 1 /\ workers' = workers - 1
  /\ UNCHANGED <<expired, cleanup, answers, old>>

-----------------------------------------------------------------------------
(* Agent.cleanup.                                                          *)

CancelCommands ==
  /\ cleanup = "no"
  /\ cleanup' = "waiting" /\ old' = In(InProgress)
  /\ UNCHANGED <<stage, slots, workers, expired, answers>>

\* cmdWG.Wait returns when it finds the counter at zero.
\* Mutant: it returns at once.
JoinAtOnce ==
  /\ cleanup = "waiting" /\ cleanup' = "joined"
  /\ UNCHANGED <<stage, slots, workers, expired, answers, old>>
Joined ==
  /\ cleanup = "waiting" /\ workers = 0
  /\ cleanup' = "joined"
  /\ UNCHANGED <<stage, slots, workers, expired, answers, old>>

\* Ten seconds have passed.
GiveUp ==
  /\ cleanup = "waiting"
  /\ cleanup' = "gave up"
  /\ UNCHANGED <<stage, slots, workers, expired, answers, old>>

Idle ==
  /\ cleanup \in {"joined", "gave up"}
  /\ UNCHANGED vars

\* The handler's ctx is done: its own deadline, or cmdCtx.
CtxDone(c) == c \in expired \/ cleanup # "no"

Worker(c) == Refuse(c) \/ Execute(c) \/ Release(c)

Next ==
  \/ \E c \in Commands :
       TakeSlot(c) \/ Busy(c) \/ Spawn(c) \/ Worker(c) \/ Expire(c) \/ Finish(c)
  \/ CancelCommands \/ Joined \/ GiveUp \/ Idle

Spec == Init /\ [][Next]_vars

(***************************************************************************)
(* Fairness.  Workers and the read goroutine are scheduled, timers fire,   *)
(* and a handler that heeds its ctx returns once it is done.  A stubborn   *)
(* handler and the arrival of commands get none.                           *)
(***************************************************************************)
Fairness ==
  /\ \A c \in Commands :
       /\ WF_vars(Spawn(c)) /\ WF_vars(Worker(c)) /\ WF_vars(Expire(c))
       /\ c \notin Stubborn => WF_vars(CtxDone(c) /\ Finish(c))
  /\ WF_vars(Joined \/ GiveUp)

FairSpec == Spec /\ Fairness

-----------------------------------------------------------------------------
TypeOK ==
  /\ stage \in [Commands -> Stages]
  /\ slots \in 0..MaxSlots /\ workers \in 0..MaxSlots
  /\ expired \subseteq Commands /\ old \subseteq Commands
  /\ cleanup \in {"no", "waiting", "joined", "gave up"}
  /\ answers \in [Commands ->
                   SUBSET {"busy", "denied", "unknown", "result", "error"}]

\* A slot is held by exactly the commands that are on their way through the
\* pool: none leaks, whatever the order workers, refusals and cleanup come in,
\* so the pool never shrinks and never runs more than MaxSlots commands
\* (agent.go:961-978).
SlotsAreHeld ==
  /\ slots = Cardinality(In(InProgress \cup {"slotted"}))
  /\ slots <= MaxSlots

\* The inductive form: the counter of cmdWG as well.
PoolInv ==
  /\ TypeOK
  /\ SlotsAreHeld
  /\ workers = Cardinality(In(InProgress))

\* When cleanup's wait succeeds, every command that was in progress when it
\* cancelled them has been answered and its worker has gone (agent.go:1250-1258).
JoinCoversOld ==
  cleanup = "joined" =>
    \A c \in old : stage[c] = "gone" /\ (c \in Garbled \/ answers[c] # {})

\* A command that left the pool was answered, once, and with an outcome of its
\* own kind: a refused command never ran, a busy one was never started.
OneAnswer ==
  \A c \in Commands :
    /\ Cardinality(answers[c]) <= 1
    /\ c \in Garbled => answers[c] = {}
    /\ c \in Denied \ Garbled => answers[c] \subseteq {"denied", "busy"}
    /\ stage[c] = "gone" /\ c \notin Garbled => answers[c] # {}

\* The panel gets an answer to every command it sends, and within the deadline,
\* unless its handler does not heed its ctx (agent.go:1009-1027).
Answered ==
  \A c \in Commands \ (Garbled \cup Stubborn) :
    stage[c] # "panel" ~> answers[c] # {}

\* A stubborn handler keeps its own slot and no other: the pool is again free
\* for somebody after every refusal (agent.go:958-960).
BusyIsTemporary ==
  Cardinality(Stubborn) < MaxSlots => (slots = MaxSlots ~> slots < MaxSlots)

\* The pool goes on serving: every command is answered, and there is room again.
PoolServes == Answered /\ BusyIsTemporary

=============================================================================
