---------------------------- MODULE Capabilities ----------------------------
(***************************************************************************)
(* What the agent tells the panel it can do: the probe of                  *)
(* internal/capabilities, agent:recapabilities (agent/recapabilities.go),  *)
(* and connectionWatcher with sendCapabilities (agent/agent.go).           *)
(*                                                                         *)
(* A probe looks tools up on PATH through a cache that outlives it.        *)
(* Handlers probe again and merge what they find into the agent's record;  *)
(* they send it to the panel, and so does the watcher, on every transition *)
(* of the connection and again at intervals.  A record is copied under     *)
(* capMu and sent without it, so an older copy may reach the panel last.   *)
(***************************************************************************)

CONSTANTS
  Tools,     \* binaries a probe looks for
  Systemctl, \* the one that systemd.restart needs
  Probers,   \* workers that handle agent:recapabilities
  NoTool

ASSUME CapAssumption == Systemctl \in Tools /\ NoTool \notin Tools

VARIABLES
  onPath,    \* external: the tools installed
  link,      \* the connection delivers what is sent
  pathCache, \* what LookPath last said
  caps,      \* the agent's record: features and sudo mode
  reprobing, \* a probe is under way
  prober,    \* per worker: its step, and what its probe has found so far
  watching,  \* connectionWatcher runs
  watcher,   \* the copy the watcher is about to send, if it does
  panel,     \* external: the panel's record of the agent
  held       \* history: tools on PATH ever since a worker's probe began

capVars == <<onPath, link, pathCache, caps, reprobing, prober,
             watching, watcher, panel, held>>
hostVarsOfCaps == <<onPath, link>>
agentVarsOfCaps == <<pathCache, caps, reprobing, prober>>
watchVars == <<watching, watcher>>

Records == [features : SUBSET (Tools \cup {"restart"}), sudo : BOOLEAN]
Nothing == [features |-> {}, sudo |-> FALSE]

NoProbe == [at |-> "idle", sudo |-> FALSE, found |-> {}, left |-> {},
         tool |-> NoTool, copy |-> Nothing]
ProbeStates ==
  [at : {"idle", "sudo", "look", "keep", "copy", "send", "leave"},
   sudo : BOOLEAN, found : SUBSET Tools, left : SUBSET Tools,
   tool : Tools \cup {NoTool}, copy : Records]

CapTypeOK ==
  /\ onPath \subseteq Tools
  /\ {link, reprobing, watching} \subseteq BOOLEAN
  /\ pathCache \in [Tools -> {"unknown", "yes", "no"}]
  /\ caps \in Records /\ panel \in Records
  /\ prober \in [Probers -> ProbeStates]
  /\ watcher \in [sending : BOOLEAN, copy : Records]
  /\ held \in [Probers -> SUBSET Tools]

\* systemd.restart is advertised when the agent can also escalate.
RestartCapable(found, mode) == Systemctl \in found /\ mode

\* A feature is advertised when its tool is found.
Features(found, mode) ==
  found \cup {f \in {"restart"} : RestartCapable(found, mode)}

\* New: one probe, before anything else runs, with an empty cache.
CapInit ==
  /\ onPath \in SUBSET Tools /\ link = FALSE
  /\ pathCache = [t \in Tools |-> IF t \in onPath THEN "yes" ELSE "no"]
  /\ caps \in {[features |-> Features(onPath, mode), sudo |-> mode] :
                mode \in BOOLEAN}
  /\ reprobing = FALSE
  /\ prober = [w \in Probers |-> NoProbe]
  /\ watching = FALSE
  /\ watcher = [sending |-> FALSE, copy |-> Nothing]
  /\ panel = Nothing
  /\ held = [w \in Probers |-> {}]

-----------------------------------------------------------------------------
(* The host and the connection, external.                                  *)

PathChanges ==
  /\ \/ \E t \in Tools \ onPath : onPath' = onPath \cup {t} /\ UNCHANGED held
     \/ \E t \in onPath : /\ onPath' = onPath \ {t}
                          /\ held' = [w \in Probers |-> held[w] \ {t}]
  /\ UNCHANGED <<link, agentVarsOfCaps, watchVars, panel>>

LinkChanges ==
  /\ link' = ~link
  /\ UNCHANGED <<onPath, agentVarsOfCaps, watchVars, panel, held>>

\* What is sent while the connection delivers nothing is dropped silently.
Delivered(record) == panel' = IF link THEN record ELSE panel

-----------------------------------------------------------------------------
(* agent:recapabilities.                                                   *)

ProberTo(w, r) == prober' = [prober EXCEPT ![w] = r]

\* Mutant: the cache outlives the request.
ClearPathCache_Not == UNCHANGED pathCache

\* A second request finds a probe under way and is answered with the record
\* as it is: nothing changes.  The first empties the cache.
ClearPathCache == pathCache' = [t \in Tools |-> "unknown"]

BeginProbe(w) ==
  /\ prober[w].at = "idle" /\ ~reprobing
  /\ reprobing' = TRUE
  /\ ClearPathCache
  /\ ProberTo(w, [prober[w] EXCEPT !.at = "sudo"])
  /\ held' = [held EXCEPT ![w] = onPath]
  /\ UNCHANGED <<hostVarsOfCaps, caps, watchVars, panel>>

\* `sudo -n true`, as the sudoers are now; one that takes 5 s counts as
\* refused.
ProbeSudoMode(w) ==
  /\ prober[w].at = "sudo"
  /\ \E mode \in BOOLEAN :
       ProberTo(w, [prober[w] EXCEPT !.at = "look", !.sudo = mode, !.left = Tools])
  /\ UNCHANGED <<hostVarsOfCaps, pathCache, caps, reprobing, watchVars,
                 panel, held>>

\* hasOnPath: the cache, or else LookPath, whose answer is then stored.
Look(w, t) ==
  /\ prober[w].at = "look" /\ t \in prober[w].left
  /\ IF pathCache[t] # "unknown"
     THEN ProberTo(w, [prober[w] EXCEPT !.left = @ \ {t},
                         !.found = @ \cup {u \in {t} : pathCache[u] = "yes"}])
     ELSE ProberTo(w, [prober[w] EXCEPT !.left = @ \ {t}, !.at = "keep", !.tool = t,
                         !.found = @ \cup ({t} \cap onPath)])
  /\ UNCHANGED <<hostVarsOfCaps, pathCache, caps, reprobing, watchVars,
                 panel, held>>

Keep(w) ==
  /\ prober[w].at = "keep"
  /\ pathCache' = [pathCache EXCEPT ![prober[w].tool] =
                     IF prober[w].tool \in prober[w].found THEN "yes" ELSE "no"]
  /\ ProberTo(w, [prober[w] EXCEPT !.at = "look", !.tool = NoTool])
  /\ UNCHANGED <<hostVarsOfCaps, caps, reprobing, watchVars, panel, held>>

\* mergeCapabilities: a feature once seen stays; the rest is taken from the
\* fresh probe.
Merge(w) ==
  /\ prober[w].at = "look" /\ prober[w].left = {}
  /\ caps' = [features |-> caps.features
                             \cup Features(prober[w].found, prober[w].sudo),
              sudo |-> prober[w].sudo]
  /\ ProberTo(w, [prober[w] EXCEPT !.at = "copy"])
  /\ UNCHANGED <<hostVarsOfCaps, pathCache, reprobing, watchVars,
                 panel, held>>

\* sendCapabilities: copy under capMu, then Send.
CopyRecord(w) ==
  /\ prober[w].at = "copy"
  /\ ProberTo(w, [prober[w] EXCEPT !.at = "send", !.copy = caps])
  /\ UNCHANGED <<hostVarsOfCaps, pathCache, caps, reprobing, watchVars,
                 panel, held>>

SendRecord(w) ==
  /\ prober[w].at = "send"
  /\ Delivered(prober[w].copy)
  /\ ProberTo(w, [NoProbe EXCEPT !.at = "leave"])
  /\ UNCHANGED <<hostVarsOfCaps, pathCache, caps, reprobing, watchVars,
                 held>>

EndProbe(w) ==
  /\ prober[w].at = "leave" /\ ProberTo(w, NoProbe)
  /\ reprobing' = FALSE
  /\ held' = [held EXCEPT ![w] = {}]
  /\ UNCHANGED <<hostVarsOfCaps, pathCache, caps, watchVars, panel>>

-----------------------------------------------------------------------------
(* connectionWatcher.                                                      *)

\* Run starts its loops.
WatcherStarts ==
  /\ ~watching /\ watching' = TRUE
  /\ UNCHANGED <<hostVarsOfCaps, agentVarsOfCaps, watcher, panel, held>>

\* The transition ticker, when it sees the connection come up, and the resend
\* ticker, every 5 s in the first minute and then every 60 s.  A connection
\* that is about to be replaced may count as connected.
Resend ==
  /\ watching /\ ~watcher.sending
  /\ watcher' = [sending |-> TRUE, copy |-> caps]
  /\ UNCHANGED <<hostVarsOfCaps, agentVarsOfCaps, watching, panel, held>>

WatcherSends ==
  /\ watcher.sending
  /\ Delivered(watcher.copy)
  /\ watcher' = [sending |-> FALSE, copy |-> Nothing]
  /\ UNCHANGED <<hostVarsOfCaps, agentVarsOfCaps, watching, held>>

-----------------------------------------------------------------------------
Probes(w) ==
  \/ ProbeSudoMode(w) \/ (\E t \in Tools : Look(w, t)) \/ Keep(w) \/ Merge(w)
  \/ CopyRecord(w) \/ SendRecord(w) \/ EndProbe(w)

CapNext ==
  \/ PathChanges \/ LinkChanges
  \/ \E w \in Probers : BeginProbe(w) \/ Probes(w)
  \/ WatcherStarts \/ Resend \/ WatcherSends

\* The watcher's tickers go on; a probe has a deadline of 15 s.
CapFairness ==
  /\ WF_capVars(Resend \/ WatcherSends)
  /\ \A w \in Probers : WF_capVars(Probes(w))

CapSpec == CapInit /\ [][CapNext]_capVars /\ CapFairness

-----------------------------------------------------------------------------
\* A request that is answered "ok" is answered with the truth about what the
\* administrator did before it: a tool that has been on PATH since the request
\* came in is in the record, whatever the cache said before and whatever other
\* requests looked up.  (One that finds a probe under way is promised less.)
ProbeSeesWhatWasInstalled ==
  \A w \in Probers :
    prober[w].at \in {"copy", "send"} => held[w] \subseteq caps.features

\* While the connection stays up the panel's record catches up with the
\* agent's again and again, although copies overtake each other and the first
\* may be lost on a connection that is about to be replaced.
PanelCatchesUp == <>[](link /\ watching) => []<>(panel = caps)

\* The inductive form: one probe at a time, whose cache holds no answer that is
\* older than the request.
CapInv ==
  /\ CapTypeOK /\ ProbeSeesWhatWasInstalled
  /\ \A w \in Probers :
       /\ prober[w].at # "idle" =>
            reprobing /\ \A v \in Probers \ {w} : prober[v].at = "idle"
       /\ held[w] \subseteq onPath
       /\ prober[w].at \in {"sudo", "look", "keep"} =>
            \A t \in held[w] : pathCache[t] # "no"
       /\ prober[w].at \in {"look", "keep"} =>
            held[w] \subseteq prober[w].found \cup prober[w].left
       /\ prober[w].at = "keep" => prober[w].tool \in Tools \ prober[w].left
=============================================================================
