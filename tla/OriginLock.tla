----------------------------- MODULE OriginLock -----------------------------
(***************************************************************************)
(* cloudflare:origin_lock:apply and :remove of                             *)
(* internal/agent/protect_handlers.go: two commands of the pool edit the   *)
(* host's ufw rules, one ufw call at a time and without a lock of their    *)
(* own.  Apply admits Cloudflare's ranges to the chosen ports and then     *)
(* deletes the public rules for them; remove reopens the ports and then    *)
(* deletes the tagged rules.                                               *)
(*                                                                         *)
(* A ufw call takes effect or not and reports success or not: one that is  *)
(* killed when the command's ctx ends may do the first without the second. *)
(* The order in which a loop goes through its rules is left open.  A       *)
(* profile such as "Nginx Full" counts as one rule per web port.           *)
(***************************************************************************)
EXTENDS Naturals

CONSTANTS
  LockWorkers,  \* workers of the pool that may run these commands at once
  Ports,        \* the web ports, 80 and 443
  Ranges,       \* Cloudflare's published ranges
  FirstRules,   \* public rules the host may have before the agent's first
  MaxLocks      \* bound: commands started

VARIABLES
  tagged,     \* the host: <<range, port>> rules with the serverkit tag
  public,     \* the host: <<form, port>> rules that admit everyone
  lockStep,   \* per worker: how far its command has come
  lockPorts,  \* per worker: the ports it was given
  lockTodo,   \* per worker: rules the loop it is in has yet to reach
  lockLeft,   \* bound: commands that may still be started
  entangled   \* history: see Entangles

lockVars ==
  <<tagged, public, lockStep, lockPorts, lockTodo, lockLeft, entangled>>

\* "80/tcp", "80", and the application profiles.
Forms == {"tcp", "any", "profile"}
ApplySteps == {"apply", "allow", "close"}
RemoveSteps == {"remove", "reopen", "untag"}

\* Every web port starts out open to everyone.
ASSUME LockAssumption ==
  /\ MaxLocks \in Nat
  /\ FirstRules \subseteq SUBSET (Forms \X Ports)
  /\ \A rules \in FirstRules, p \in Ports :
       \E form \in Forms : <<form, p>> \in rules


Reachable(p) ==
  \/ \E form \in Forms : <<form, p>> \in public
  \/ \A r \in Ranges : <<r, p>> \in tagged

LockTypeOK ==
  /\ tagged \subseteq Ranges \X Ports
  /\ public \subseteq Forms \X Ports
  /\ lockStep \in [LockWorkers -> ApplySteps \cup RemoveSteps \cup {"idle"}]
  /\ lockPorts \in [LockWorkers -> SUBSET Ports]
  /\ lockTodo \in [LockWorkers -> SUBSET ((Ranges \cup Forms) \X Ports)]
  /\ lockLeft \in 0..MaxLocks
  /\ entangled \in BOOLEAN

LockInit ==
  /\ tagged = {}
  /\ public \in FirstRules
  /\ lockStep = [w \in LockWorkers |-> "idle"]
  /\ lockPorts = [w \in LockWorkers |-> {}]
  /\ lockTodo = [w \in LockWorkers |-> {}]
  /\ lockLeft = MaxLocks
  /\ entangled = FALSE

-----------------------------------------------------------------------------
(* One command, on one worker.                                             *)

At(w, step) == lockStep' = [lockStep EXCEPT ![w] = step]
Todo(w, rules) == lockTodo' = [lockTodo EXCEPT ![w] = rules]
LockGoOn == UNCHANGED lockPorts
LockFinish(w) ==
  At(w, "idle") /\ Todo(w, {}) /\ lockPorts' = [lockPorts EXCEPT ![w] = {}]

\* A command is entangled with another when it starts while one of the other
\* kind is at work, or removes the lock of only some of the ports that have
\* tagged rules: remove deletes the rules of them all.
Entangles(step, ps) ==
  \/ /\ step = "apply"
     /\ \E v \in LockWorkers : lockStep[v] \in RemoveSteps
  \/ /\ step = "remove"
     /\ \/ \E v \in LockWorkers : lockStep[v] \in ApplySteps
        \/ \E rule \in tagged : rule[2] \notin ps

LockStart(w) ==
  /\ lockStep[w] = "idle" /\ lockLeft > 0
  /\ \E step \in {"apply", "remove"}, ps \in SUBSET Ports \ {{}} :
       /\ At(w, step)
       /\ lockPorts' = [lockPorts EXCEPT ![w] = ps]
       /\ entangled' = (entangled \/ Entangles(step, ps))
  /\ lockLeft' = lockLeft - 1
  /\ UNCHANGED <<tagged, public, lockTodo>>

\* originLockPreflight: Linux, ufw installed and, for apply, active.
Preflight(w) ==
  /\ \/ lockStep[w] = "apply" /\ At(w, "allow")
        /\ Todo(w, Ranges \X lockPorts[w]) /\ LockGoOn
     \/ lockStep[w] = "remove" /\ At(w, "reopen")
        /\ Todo(w, {"tcp"} \X lockPorts[w]) /\ LockGoOn
     \/ lockStep[w] \in {"apply", "remove"} /\ LockFinish(w)
  /\ UNCHANGED <<tagged, public, lockLeft, entangled>>

\* ufw allow from <range> to any port <port>: a reported failure aborts.
Allow(w) ==
  /\ lockStep[w] = "allow"
  /\ \E rule \in lockTodo[w] :
       \/ /\ tagged' = tagged \cup {rule}
          /\ Todo(w, lockTodo[w] \ {rule}) /\ UNCHANGED lockStep /\ LockGoOn
       \/ tagged' \in {tagged, tagged \cup {rule}} /\ LockFinish(w)
  /\ UNCHANGED <<public, lockLeft, entangled>>

\* Mutant: the public rules are closed although an allow failed.
AllAllowed_Anyway(w) ==
  /\ lockStep[w] = "allow"
  /\ At(w, "close") /\ Todo(w, {"tcp", "any"} \X lockPorts[w])
  /\ UNCHANGED <<tagged, public, lockPorts, lockLeft, entangled>>

\* The profiles are deleted only when no ports are given, which means all.
AllAllowed(w) ==
  /\ lockStep[w] = "allow" /\ lockTodo[w] = {}
  /\ At(w, "close")
  /\ \E forms \in {Forms, Forms \ {"profile"}} :
       /\ forms = Forms => lockPorts[w] = Ports
       /\ Todo(w, forms \X lockPorts[w])
  /\ UNCHANGED <<tagged, public, lockPorts, lockLeft, entangled>>

\* ufw --force delete allow <spec>: a failure is only not counted.
ClosePublic(w) ==
  /\ lockStep[w] = "close"
  /\ \E rule \in lockTodo[w] :
       /\ public' \in {public, public \ {rule}}
       /\ Todo(w, lockTodo[w] \ {rule})
  /\ UNCHANGED <<tagged, lockStep, lockPorts, lockLeft, entangled>>

\* ufw allow <port>/tcp: a reported failure aborts.
Reopen(w) ==
  /\ lockStep[w] = "reopen"
  /\ \E rule \in lockTodo[w] :
       \/ /\ public' = public \cup {rule}
          /\ Todo(w, lockTodo[w] \ {rule}) /\ UNCHANGED lockStep /\ LockGoOn
       \/ public' \in {public, public \cup {rule}} /\ LockFinish(w)
  /\ UNCHANGED <<tagged, lockLeft, entangled>>

\* ufw show added, read by taggedLockRules: the rules of every port.
ShowAdded(w) ==
  /\ lockStep[w] = "reopen" /\ lockTodo[w] = {}
  /\ \/ At(w, "untag") /\ Todo(w, tagged) /\ LockGoOn
     \/ LockFinish(w)
  /\ UNCHANGED <<tagged, public, lockLeft, entangled>>

Untag(w) ==
  /\ lockStep[w] = "untag"
  /\ \E rule \in lockTodo[w] :
       /\ tagged' \in {tagged, tagged \ {rule}}
       /\ Todo(w, lockTodo[w] \ {rule})
  /\ UNCHANGED <<public, lockStep, lockPorts, lockLeft, entangled>>

LockDone(w) ==
  /\ lockStep[w] \in {"close", "untag"} /\ lockTodo[w] = {}
  /\ LockFinish(w)
  /\ UNCHANGED <<tagged, public, lockLeft, entangled>>

\* The agent dies between two calls: the host keeps its rules.
LockCrash ==
  /\ \E w \in LockWorkers : lockStep[w] # "idle"
  /\ lockStep' = [w \in LockWorkers |-> "idle"]
  /\ lockTodo' = [w \in LockWorkers |-> {}]
  /\ lockPorts' = [w \in LockWorkers |-> {}]
  /\ UNCHANGED <<tagged, public, lockLeft, entangled>>

LockNext ==
  \/ \E w \in LockWorkers :
       \/ LockStart(w) \/ Preflight(w) \/ Allow(w) \/ AllAllowed(w)
       \/ ClosePublic(w) \/ Reopen(w) \/ ShowAdded(w) \/ Untag(w)
       \/ LockDone(w)
  \/ LockCrash

LockSpec == LockInit /\ [][LockNext]_lockVars

-----------------------------------------------------------------------------
(* "Allow Cloudflare first; only if every allow succeeds do we close the   *)
(* public rules, so a failure can never leave the ports unreachable", and  *)
(* "Reopen first so removal never leaves the ports closed": whatever the   *)
(* commands do, whichever calls fail and wherever the agent dies, each web *)
(* port admits everyone or all of Cloudflare.  The operations do not keep  *)
(* this promise.                                                           *)
PortsStayReachable == \A p \in Ports : Reachable(p)

(* They do keep it as long as no apply and remove are entangled: any       *)
(* number of overlapping applies, or of overlapping removes that name the  *)
(* locked ports, with failures and crashes at every call.                  *)
OriginReachable == entangled \/ PortsStayReachable

\* What the proof needs besides: an apply closes only ports whose ranges are
\* all admitted, a remove untags only when it has reopened the tagged ports.
OriginInv ==
  entangled \/
  /\ PortsStayReachable
  /\ \A v, w \in LockWorkers :
       ~(lockStep[v] \in ApplySteps /\ lockStep[w] \in RemoveSteps)
  /\ \A w \in LockWorkers :
       /\ lockStep[w] = "allow" =>
            \A r \in Ranges, p \in lockPorts[w] :
               <<r, p>> \in tagged \/ <<r, p>> \in lockTodo[w]
       /\ lockStep[w] = "close" =>
            \A r \in Ranges, p \in lockPorts[w] : <<r, p>> \in tagged
       /\ lockStep[w] = "close" =>
            \A rule \in lockTodo[w] : rule[2] \in lockPorts[w]
       /\ lockStep[w] \in RemoveSteps =>
            \A rule \in tagged : rule[2] \in lockPorts[w]
       /\ lockStep[w] = "reopen" =>
            \A p \in lockPorts[w] :
               <<"tcp", p>> \in public \/ <<"tcp", p>> \in lockTodo[w]
       /\ lockStep[w] = "untag" =>
            \A p \in lockPorts[w] : <<"tcp", p>> \in public
=============================================================================
