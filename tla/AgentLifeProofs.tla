-------------------------- MODULE AgentLifeProofs --------------------------
(***************************************************************************)
(* What an agent's life on its machine keeps, for any number of pairings,  *)
(* subscriptions, tools, listings, events and services and for any         *)
(* intervals.                                                              *)
(***************************************************************************)
EXTENDS AgentLife, TLAPS

-----------------------------------------------------------------------------
(* A step of the composition is a step or a stutter of each protocol; the  *)
(* tray shares the service with pairing, whose own state it leaves alone.  *)

LEMMA LifeStepEach ==
  [LifeNext]_lifeVars =>
    /\ [RunNext]_runVars /\ [CapNext]_capVars /\ [LogNext]_logVars
    /\ [ListNext]_listVars /\ [ReportNext]_reportVars /\ [CheckNext]_checkVars
    /\ UNCHANGED part
    /\ \/ part = "pair" /\ PairNext /\ UNCHANGED trayOwn
       \/ part = "tray" /\ TrayNext /\ UNCHANGED pairOwn
       \/ UNCHANGED <<pairOwn, trayOwn, svcVars>>
BY DEF LifeNext, OthersRest, lifeVars

-----------------------------------------------------------------------------
(* AgentRun.                                                               *)

LEMMA RunInvInit == RunInit => RunInv
BY RunAssumption DEF RunInit, RunInv, RunTypeOK, StreamsOwned, Channels

LEMMA RunInvNext == RunInv /\ [RunNext]_runVars => RunInv'
<1> SUFFICES ASSUME RunInv, [RunNext]_runVars PROVE RunInv'
  OBVIOUS
<1> USE RunAssumption
    DEF RunInv, RunTypeOK, StreamsOwned, Channels, Cleanup, hostSide, subVars
<1>1. CASE Boot \/ Comes \/ AskRestart \/ Signal \/ SignalHeard \/ WriteStalls
           \/ WriteFails \/ TerminalChanges
  <2>1. /\ UNCHANGED subVars
        /\ phase' \in {"off", "start", "serve", "run"} \cup Cleanup
        /\ {supervised', wanted', signalled', restartCh', ipcUp', linkUp'}
             \subseteq BOOLEAN
        /\ terminals' \in {"none", "open", "stuck"}
        /\ writer' \in {"idle", "stalled"}
    BY <1>1 DEF Boot, Comes, StartIpc, StartLoops, AskRestart, Signal, SignalHeard,
                WriteStalls, WriteFails, TerminalChanges
  <2> QED  BY <2>1
<1>2. CASE Leave \/ Drained \/ CloseTerminals \/ StopIpc
  BY <1>2 DEF Leave, Drained, CloseTerminals, StopIpc
<1>3. CASE CancelSubscriptions
  BY <1>3 DEF CancelSubscriptions
<1>4. CASE CloseLink \/ Dies
  BY <1>4 DEF CloseLink, Dies, NoProcess
<1>5. ASSUME NEW c \in Channels, Subscribe(c) PROVE RunInv'
  BY <1>5 DEF Subscribe
<1>6. ASSUME NEW c \in Channels, Unsubscribe(c) PROVE RunInv'
  BY <1>6 DEF Unsubscribe
<1>7. ASSUME NEW s \in Streams, StreamEnds(s) PROVE RunInv'
  BY <1>7 DEF StreamEnds
<1>8. CASE UNCHANGED runVars
  BY <1>8 DEF runVars
<1> QED
  BY <1>1, <1>2, <1>3, <1>4, <1>5, <1>6, <1>7, <1>8 DEF RunNext, Goes

-----------------------------------------------------------------------------
(* UnitListing.                                                            *)

LEMMA ListInvInit == ListInit => ListInv
BY DEF ListInit, ListInv, ListTypeOK, JSONIsHonest

LEMMA ListInvNext == ListInv /\ [ListNext]_listVars => ListInv'
<1> SUFFICES ASSUME ListInv, [ListNext]_listVars PROVE ListInv'
  OBVIOUS
<1> USE DEF ListInv, ListTypeOK, JSONIsHonest, At
<1>1. ASSUME NEW w \in Listers, BeginListing(w) PROVE ListInv'
  BY <1>1 DEF BeginListing
<1>2. ASSUME NEW w \in Listers, Detect(w) PROVE ListInv'
  BY <1>2 DEF Detect
<1>3. ASSUME NEW w \in Listers, ListJSON(w) \/ ListPlain(w) PROVE ListInv'
  BY <1>3 DEF ListJSON, ListPlain
<1>4. ASSUME NEW w \in Listers, JSONFails(w) PROVE ListInv'
  BY <1>4 DEF JSONFails
<1>5. CASE Merged
  BY <1>5 DEF Merged
<1>6. CASE UNCHANGED listVars
  BY <1>6 DEF listVars
<1> QED  BY <1>1, <1>2, <1>3, <1>4, <1>5, <1>6 DEF ListNext

-----------------------------------------------------------------------------
(* Reporter.                                                               *)

LEMMA ClampType ==
  ASSUME NEW d \in Nat
  PROVE  Clamp(d) \in MinInterval..MaxInterval
BY ReportAssumption DEF ReportAssumption, Clamp

LEMMA ReporterInvInit == ReportInit => ReporterInv
<1> SUFFICES ASSUME ReportInit PROVE ReporterInv
  OBVIOUS
<1>1. PICK d \in 0 .. MaxInterval + 1 : interval = Clamp(d)
  BY DEF ReportInit
<1>2. interval \in MinInterval..MaxInterval
  BY <1>1, ClampType
<1>3. OldAge \in Nat
  BY ReportAssumption DEF ReportAssumption, OldAge
<1> QED
  BY <1>2, <1>3 DEF ReportInit, ReporterInv, ReportTypeOK

\* Each phase hands on to the next what it may have taken.
LEMMA ReporterInvNext == ReporterInv /\ [ReportNext]_reportVars => ReporterInv'
<1> SUFFICES ASSUME ReporterInv, [ReportNext]_reportVars PROVE ReporterInv'
  OBVIOUS
<1>0. /\ MinInterval \in Nat \ {0} /\ MaxInterval \in Nat \ {0}
      /\ MaxCollect \in Nat \ {0} /\ MaxPost \in Nat \ {0}
      /\ OldAge \in Nat /\ OldAge >= MaxPost
      /\ ReportTypeOK
  BY ReportAssumption DEF ReportAssumption, OldAge, ReporterInv
<1> USE <1>0 DEF ReporterInv, ReportTypeOK, Enters, SinceAnswer
<1>1. CASE RunStarts
  BY <1>1 DEF RunStarts
<1>2. CASE Collected
  BY <1>2 DEF Collected
<1>3. CASE Accepted
  <2>1. interval' \in MinInterval..MaxInterval
    BY <1>3, ClampType DEF Accepted
  <2>2. spent \in 0..MaxPost
    BY <1>3 DEF Accepted
  <2> QED  BY <1>3, <2>1, <2>2 DEF Accepted
<1>4. CASE NotAccepted
  BY <1>4 DEF NotAccepted
<1>5. CASE WaitEnds
  BY <1>5 DEF WaitEnds
<1>6. CASE Cancelled
  BY <1>6 DEF Cancelled
<1>7. CASE TimePasses
  <2>1. CASE reporting \in {"collect", "post", "wait"}
    <3>1. /\ spent < Longest[reporting] /\ spent' = spent + 1
          /\ age' = IF age = OldAge THEN OldAge ELSE age + 1
          /\ UNCHANGED <<reporting, interval, losses>>
      BY <1>7, <2>1 DEF TimePasses, Longest
    <3>2. /\ reporting = "collect" => spent < MaxCollect
          /\ reporting = "post" => spent < MaxPost
          /\ reporting = "wait" => spent < interval
      BY <3>1 DEF Longest
    <3> QED  BY <2>1, <3>1, <3>2
  <2>2. CASE reporting \in {"off", "ended"}
    BY <1>7, <2>2 DEF TimePasses, Longest
  <2> QED  BY <2>1, <2>2
<1>8. CASE UNCHANGED reportVars
  BY <1>8 DEF reportVars
<1> QED
  BY <1>1, <1>2, <1>3, <1>4, <1>5, <1>6, <1>7, <1>8 DEF ReportNext

LEMMA ReporterInvConnects == ReporterInv => ConnectedWhileAccepted
<1> SUFFICES ASSUME ReporterInv, reporting # "ended"
             PROVE  /\ losses = 0 /\ 2 * MaxPost + MaxCollect < 2 * interval
                         => IsConnected
                    /\ losses = 1 /\ 3 * MaxPost + 2 * MaxCollect < interval
                         => IsConnected
  BY DEF ConnectedWhileAccepted
<1>1. /\ MaxCollect \in Nat /\ MaxPost \in Nat /\ spent \in Nat
      /\ interval \in Nat /\ age \in Nat
  BY ReportAssumption DEF ReportAssumption, ReporterInv, ReportTypeOK, OldAge
<1>2. losses \in {0, 1} =>
        /\ reporting = "collect" => spent <= MaxCollect
        /\ reporting = "post" => spent <= MaxPost
        /\ reporting \in {"collect", "post", "wait"}
        /\ reporting = "wait" => spent <= interval
  BY DEF ReporterInv, ReportTypeOK
<1> QED
  BY <1>1, <1>2 DEF ReporterInv, SinceAnswer, IsConnected

-----------------------------------------------------------------------------
(* Capabilities.                                                           *)

LEMMA NoProbeType ==
  /\ Nothing \in Records
  /\ NoProbe \in ProbeStates /\ [NoProbe EXCEPT !.at = "leave"] \in ProbeStates
  /\ NoProbe.at = "idle" /\ [NoProbe EXCEPT !.at = "leave"].at = "leave"
<1>1. Nothing \in Records
  BY DEF Nothing, Records
<1> QED  BY <1>1 DEF NoProbe, ProbeStates

\* The fields the steps write keep their types.
LEMMA ProbeAfterKeep ==
  ASSUME NEW r \in ProbeStates
  PROVE  LET q == [r EXCEPT !.at = "look", !.tool = NoTool] IN
         /\ q \in ProbeStates /\ q.at = "look" /\ q.left = r.left
         /\ q.found = r.found
BY DEF ProbeStates

LEMMA ProbeAfterCopy ==
  ASSUME NEW r \in ProbeStates, NEW c \in Records
  PROVE  LET q == [r EXCEPT !.at = "send", !.copy = c] IN
         q \in ProbeStates /\ q.at = "send"
BY DEF ProbeStates

\* A step of worker w leaves a probe q behind and the others' alone.
LEMMA ProberStep ==
  ASSUME CapTypeOK, NEW w \in Probers, NEW q \in ProbeStates, ProberTo(w, q)
  PROVE  /\ prober' \in [Probers -> ProbeStates]
         /\ prober'[w] = q /\ \A v \in Probers \ {w} : prober'[v] = prober[v]
BY DEF CapTypeOK, ProberTo

LEMMA CapInvInit == CapInit => CapInv
<1> SUFFICES ASSUME CapInit PROVE CapInv
  OBVIOUS
<1> USE DEF CapInit, NoProbe, Nothing, Records
<1>1. PICK mode \in BOOLEAN : caps = [features |-> Features(onPath, mode), sudo |-> mode]
  OBVIOUS
<1>2. caps \in Records
  BY <1>1, CapAssumption DEF CapAssumption, Features
<1>3. CapTypeOK
  BY <1>2, NoProbeType DEF CapTypeOK
<1> QED
  BY <1>3 DEF CapInv, ProbeSeesWhatWasInstalled

LEMMA CapInvNext == CapInv /\ [CapNext]_capVars => CapInv'
<1> SUFFICES ASSUME CapInv, [CapNext]_capVars PROVE CapInv'
  OBVIOUS
<1> USE CapAssumption
    DEF CapInv, ProbeSeesWhatWasInstalled, hostVarsOfCaps, agentVarsOfCaps, watchVars
<1>0. CapTypeOK
  OBVIOUS
<1>b. caps \in Records
  BY DEF CapTypeOK
<1>a. \A w \in Probers : prober[w] \in ProbeStates
  BY DEF CapTypeOK
<1>1. CASE PathChanges
  BY <1>1 DEF PathChanges, CapTypeOK
<1>2. CASE LinkChanges
  BY <1>2 DEF LinkChanges, CapTypeOK
<1>3. ASSUME NEW w \in Probers, BeginProbe(w) PROVE CapInv'
  <2> DEFINE q == [prober[w] EXCEPT !.at = "sudo"]
  <2>1. q \in ProbeStates /\ q.at = "sudo"
    BY <1>a DEF ProbeStates
  <2>2. ProberTo(w, q)
    BY <1>3 DEF BeginProbe
  <2> HIDE DEF q
  <2>3. /\ prober' \in [Probers -> ProbeStates]
        /\ prober'[w] = q /\ \A v \in Probers \ {w} : prober'[v] = prober[v]
    BY <1>0, <2>1, <2>2, ProberStep
  <2>4. /\ prober[w].at = "idle" /\ ~reprobing /\ reprobing' = TRUE
        /\ pathCache' = [t \in Tools |-> "unknown"]
        /\ held' = [held EXCEPT ![w] = onPath]
        /\ UNCHANGED <<hostVarsOfCaps, caps, watchVars, panel>>
    BY <1>3 DEF BeginProbe, ClearPathCache
  <2>5. /\ held' \in [Probers -> SUBSET Tools] /\ held'[w] = onPath
        /\ \A v \in Probers \ {w} : held'[v] = held[v]
    BY <1>0, <2>4 DEF CapTypeOK
  <2>6. CapTypeOK'
    BY <1>0, <2>3, <2>4, <2>5 DEF CapTypeOK
  <2> HIDE DEF CapTypeOK
  <2>7. \A v \in Probers \ {w} : prober[v].at = "idle" /\ prober'[v].at = "idle"
    BY <2>3, <2>4
  <2> QED  BY <2>1, <2>3, <2>4, <2>5, <2>6, <2>7
<1>4. ASSUME NEW w \in Probers, ProbeSudoMode(w) PROVE CapInv'
  <2>1. PICK mode \in BOOLEAN :
          ProberTo(w, [prober[w] EXCEPT !.at = "look", !.sudo = mode, !.left = Tools])
    BY <1>4 DEF ProbeSudoMode
  <2> DEFINE q == [prober[w] EXCEPT !.at = "look", !.sudo = mode, !.left = Tools]
  <2>2. q \in ProbeStates /\ q.at = "look" /\ q.left = Tools
    <3>1. prober[w] \in ProbeStates
      BY <1>a
    <3>2. CASE mode = TRUE
      BY <3>1, <3>2 DEF ProbeStates
    <3>3. CASE mode = FALSE
      BY <3>1, <3>3 DEF ProbeStates
    <3> QED  BY <3>2, <3>3
  <2>3. ProberTo(w, q)
    BY <2>1
  <2> HIDE DEF q
  <2>4. /\ prober' \in [Probers -> ProbeStates]
        /\ prober'[w] = q /\ \A v \in Probers \ {w} : prober'[v] = prober[v]
    BY <1>0, <2>2, <2>3, ProberStep
  <2> QED  BY <1>4, <2>2, <2>4 DEF ProbeSudoMode, CapTypeOK
<1>5. ASSUME NEW w \in Probers, NEW t \in Tools, Look(w, t) PROVE CapInv'
  <2>1. prober[w].at = "look" /\ t \in prober[w].left
        /\ UNCHANGED <<onPath, link, pathCache, caps, reprobing, watching, watcher,
                       panel, held>>
    BY <1>5 DEF Look
  <2>2. CASE pathCache[t] # "unknown"
    <3> DEFINE q == [prober[w] EXCEPT !.left = @ \ {t},
                       !.found = @ \cup {u \in {t} : pathCache[u] = "yes"}]
    <3>1. /\ q \in ProbeStates /\ q.at = "look" /\ q.left = prober[w].left \ {t}
          /\ q.found = prober[w].found \cup {u \in {t} : pathCache[u] = "yes"}
      <4> DEFINE hit == {u \in {t} : pathCache[u] = "yes"}
      <4>1. hit \subseteq Tools
        OBVIOUS
      <4> HIDE DEF hit
      <4>2. prober[w] \in ProbeStates /\ prober[w].at = "look"
        BY <1>a, <2>1
      <4>3. [prober[w] EXCEPT !.left = @ \ {t}, !.found = @ \cup hit] \in ProbeStates
        BY ONLY <4>1, <4>2 DEF ProbeStates
      <4> QED  BY <4>2, <4>3 DEF hit, ProbeStates
    <3>2. ProberTo(w, q)
      BY <1>5, <2>2 DEF Look
    <3> HIDE DEF q
    <3>3. /\ prober' \in [Probers -> ProbeStates]
          /\ prober'[w] = q /\ \A v \in Probers \ {w} : prober'[v] = prober[v]
      BY <1>0, <3>1, <3>2, ProberStep
    <3>4. t \in held[w] => t \in q.found
      BY <2>1, <2>2, <3>1 DEF CapTypeOK
    <3> QED  BY <2>1, <3>1, <3>3, <3>4 DEF CapTypeOK
  <2>3. CASE pathCache[t] = "unknown"
    <3> DEFINE q == [prober[w] EXCEPT !.left = @ \ {t}, !.at = "keep", !.tool = t,
                       !.found = @ \cup ({t} \cap onPath)]
    <3>1. /\ q \in ProbeStates /\ q.at = "keep" /\ q.left = prober[w].left \ {t}
          /\ q.tool = t /\ q.found = prober[w].found \cup ({t} \cap onPath)
      BY <1>a, <2>1 DEF ProbeStates
    <3>2. ProberTo(w, q)
      BY <1>5, <2>3 DEF Look
    <3> HIDE DEF q
    <3>3. /\ prober' \in [Probers -> ProbeStates]
          /\ prober'[w] = q /\ \A v \in Probers \ {w} : prober'[v] = prober[v]
      BY <1>0, <3>1, <3>2, ProberStep
    <3> QED  BY <2>1, <3>1, <3>3 DEF CapTypeOK
  <2> QED  BY <2>2, <2>3
<1>6. ASSUME NEW w \in Probers, Keep(w) PROVE CapInv'
  <2> DEFINE q == [prober[w] EXCEPT !.at = "look", !.tool = NoTool]
  <2>1. /\ q \in ProbeStates /\ q.at = "look" /\ q.left = prober[w].left
        /\ q.found = prober[w].found
    BY <1>a, ProbeAfterKeep
  <2>2. ProberTo(w, q)
    BY <1>6 DEF Keep
  <2> HIDE DEF q
  <2>3. /\ prober' \in [Probers -> ProbeStates]
        /\ prober'[w] = q /\ \A v \in Probers \ {w} : prober'[v] = prober[v]
    BY <1>0, <2>1, <2>2, ProberStep
  <2>4. /\ prober[w].at = "keep" /\ prober[w].tool \in Tools \ prober[w].left
        /\ pathCache' = [pathCache EXCEPT ![prober[w].tool] =
                           IF prober[w].tool \in prober[w].found THEN "yes" ELSE "no"]
        /\ UNCHANGED <<onPath, link, caps, reprobing, watching, watcher, panel, held>>
    BY <1>6 DEF Keep
  <2>5. /\ pathCache' \in [Tools -> {"unknown", "yes", "no"}]
        /\ \A t \in held[w] : pathCache'[t] # "no"
    BY <2>4 DEF CapTypeOK
  <2> QED  BY <2>1, <2>3, <2>4, <2>5 DEF CapTypeOK
<1>7. ASSUME NEW w \in Probers, Merge(w) PROVE CapInv'
  <2> DEFINE q == [prober[w] EXCEPT !.at = "copy"]
  <2>1. q \in ProbeStates /\ q.at = "copy"
    BY <1>a DEF ProbeStates
  <2>2. ProberTo(w, q)
    BY <1>7 DEF Merge
  <2> HIDE DEF q
  <2>3. /\ prober' \in [Probers -> ProbeStates]
        /\ prober'[w] = q /\ \A v \in Probers \ {w} : prober'[v] = prober[v]
    BY <1>0, <2>1, <2>2, ProberStep
  <2>4. /\ prober[w].at = "look" /\ prober[w].left = {}
        /\ prober[w].found \subseteq Tools /\ prober[w].sudo \in BOOLEAN
        /\ caps' = [features |-> caps.features
                                   \cup Features(prober[w].found, prober[w].sudo),
                    sudo |-> prober[w].sudo]
        /\ UNCHANGED <<onPath, link, pathCache, reprobing, watching, watcher, panel,
                       held>>
    BY <1>7, <1>a DEF Merge, ProbeStates
  <2>5. /\ caps' \in Records
        /\ caps.features \cup prober[w].found \subseteq caps'.features
    BY <2>4 DEF Records, Features, CapTypeOK
  <2> QED  BY <2>1, <2>3, <2>4, <2>5 DEF CapTypeOK
<1>8. ASSUME NEW w \in Probers, CopyRecord(w) PROVE CapInv'
  <2> DEFINE q == [prober[w] EXCEPT !.at = "send", !.copy = caps]
  <2>1. q \in ProbeStates /\ q.at = "send"
    BY <1>a, <1>b, ProbeAfterCopy
  <2>2. ProberTo(w, q)
    BY <1>8 DEF CopyRecord
  <2> HIDE DEF q
  <2>3. /\ prober' \in [Probers -> ProbeStates]
        /\ prober'[w] = q /\ \A v \in Probers \ {w} : prober'[v] = prober[v]
    BY <1>0, <2>1, <2>2, ProberStep
  <2> QED  BY <1>8, <2>1, <2>3 DEF CopyRecord, CapTypeOK
<1>9. ASSUME NEW w \in Probers, SendRecord(w) PROVE CapInv'
  <2> DEFINE q == [NoProbe EXCEPT !.at = "leave"]
  <2>1. q \in ProbeStates /\ q.at = "leave"
    BY NoProbeType
  <2>2. ProberTo(w, q)
    BY <1>9 DEF SendRecord
  <2> HIDE DEF q
  <2>3. /\ prober' \in [Probers -> ProbeStates]
        /\ prober'[w] = q /\ \A v \in Probers \ {w} : prober'[v] = prober[v]
    BY <1>0, <2>1, <2>2, ProberStep
  <2>4. panel' \in Records
    BY <1>9, <1>a DEF SendRecord, Delivered, CapTypeOK, ProbeStates
  <2> QED  BY <1>9, <2>1, <2>3, <2>4 DEF SendRecord, CapTypeOK
<1>10. ASSUME NEW w \in Probers, EndProbe(w) PROVE CapInv'
  <2>1. /\ prober' \in [Probers -> ProbeStates]
        /\ prober'[w] = NoProbe /\ \A v \in Probers \ {w} : prober'[v] = prober[v]
    BY <1>0, <1>10, NoProbeType, ProberStep DEF EndProbe
  <2>2. prober[w].at = "leave"
    BY <1>10 DEF EndProbe
  <2>3. \A v \in Probers : prober'[v].at = "idle"
    BY <2>1, <2>2, NoProbeType
  <2> QED  BY <1>10, <2>1, <2>3 DEF EndProbe, CapTypeOK
<1>11. CASE WatcherStarts \/ Resend \/ WatcherSends
  <2>1. UNCHANGED <<onPath, link, pathCache, caps, reprobing, prober, held>>
    BY <1>11 DEF WatcherStarts, Resend, WatcherSends
  <2>2. watching' \in BOOLEAN /\ panel' \in Records
    BY <1>11 DEF WatcherStarts, Resend, WatcherSends, Delivered, CapTypeOK
  <2>3. watcher' \in [sending : BOOLEAN, copy : Records]
    <3>1. CASE WatcherStarts
      BY <3>1 DEF WatcherStarts, CapTypeOK
    <3>2. CASE Resend
      BY <3>2 DEF Resend, CapTypeOK
    <3>3. CASE WatcherSends
      BY <3>3, NoProbeType DEF WatcherSends
    <3> QED  BY <1>11, <3>1, <3>2, <3>3
  <2>4. CapTypeOK'
    BY <2>1, <2>2, <2>3 DEF CapTypeOK
  <2> QED  BY <2>1, <2>4
<1>12. CASE UNCHANGED capVars
  BY <1>12 DEF capVars, CapTypeOK
<1> QED
  BY <1>1, <1>2, <1>3, <1>4, <1>5, <1>6, <1>7, <1>8, <1>9, <1>10, <1>11, <1>12
  DEF CapNext, Probes

-----------------------------------------------------------------------------
(* Pairing, the service it shares with the tray, and the tray.             *)

LEMMA PairInvInit == PairInit => PairInv
<1> SUFFICES ASSUME PairInit PROVE PairInv
  OBVIOUS
<1>1. SvcTypeOK
  BY DEF PairInit, SvcInit, SvcTypeOK, Files
<1>2. Blank \in Screens
  BY DEF Blank, Screens
<1> QED
  BY <1>1, <1>2
  DEF PairInit, SvcInit, PairInv, PairTypeOK, FilesAgree, DoneIsServed, FlowStates

\* What those who control the service may do with it.
LEMMA ServiceTypes ==
  ASSUME SvcTypeOK,
         \/ ScmStart \/ ScmStop \/ UNCHANGED <<scm, loop>>
         \/ SvcSteps \/ LoopEnds
  PROVE  /\ scm' \in {"stopped", "starting", "running", "stopping"}
         /\ loop' \in {"none", "load", "run", "drain", "ended"}
BY DEF SvcTypeOK, ScmStart, ScmStop, SvcSteps, Execute, LoopLoads, ReportStopped,
       LoopEnds

\* A window stays one, whatever a flow writes into it.
LEMMA ScreenTypes ==
  ASSUME PairTypeOK, NEW p \in Pairings
  PROVE  /\ kind[p] \in KindNames /\ Window(p) \in Windows
         /\ Screen(p) \in Screens /\ Blank \in Screens
         /\ \A stage \in {"idle", "enrolling", "waiting", "claimed", "error"} :
              [Screen(p) EXCEPT !.stage = stage] \in Screens
         /\ \A pass \in {p, NoId} :
              [stage |-> "enrolling", code |-> NoId, live |-> p, pass |-> pass] \in Screens
         /\ [Screen(p) EXCEPT !.stage = "waiting", !.code = p,
              !.pass = IF kind[p] = "legacy" THEN p ELSE @] \in Screens
<1>1. kind[p] \in KindNames
  BY PairingAssumption DEF PairTypeOK
<1>2. Window(p) \in Windows
  BY <1>1 DEF KindNames, Window, Windows
<1>3. Screen(p) \in Screens
  BY <1>2 DEF PairTypeOK, Screen
<1>4. Blank \in Screens
  BY DEF Blank, Screens
<1> QED  BY <1>1, <1>2, <1>3, <1>4 DEF Screens

\* A step of one flow keeps the types if what it writes into its window, and
\* what becomes of the service and the files, is of theirs.
LEMMA FlowTypes ==
  ASSUME PairTypeOK, NEW p \in Pairings, NEW s \in FlowStates, FlowTo(p, s),
         UNCHANGED kind,
         UNCHANGED window \/ \E r \in Screens : Shows(p, r),
         dropped' \subseteq Pairings, served' \subseteq Pairings, mixed' \in BOOLEAN,
         enrolled' \in [Pairings -> {"no", "open", "claimed", "expired"}], SvcTypeOK'
  PROVE  PairTypeOK'
<1>1. flow' \in [Pairings -> FlowStates]
  BY DEF PairTypeOK, FlowTo
<1>2. window' \in [Windows -> Screens]
  BY ScreenTypes DEF PairTypeOK, Shows
<1> QED  BY <1>1, <1>2 DEF PairTypeOK

\* Neither the files nor what has been served depends on such a step.
LEMMA QuietFlow ==
  ASSUME PairInv, PairTypeOK', NEW p \in Pairings, flow[p] # "configured",
         NEW s \in FlowStates \ {"configured", "verify", "kick", "done"},
         FlowTo(p, s), UNCHANGED <<kind, mixed, served, installed, disk>>
  PROVE  PairInv'
<1>1. \A q \in Pairings : flow'[q] = IF q = p THEN s ELSE flow[q]
  BY DEF PairInv, PairTypeOK, FlowTo
<1> QED  BY <1>1 DEF PairInv, FilesAgree, DoneIsServed

LEMMA EnrollKeeps ==
  ASSUME PairInv, NEW p \in Pairings, UNCHANGED kind,
         Start(p) \/ PanelAnswers(p) \/ RotateCode(p) \/ OnEnrolled(p) \/ OnError(p)
           \/ WaitCancelled(p) \/ PollClaimed(p)
  PROVE  PairInv'
<1>0. PairTypeOK /\ SvcTypeOK
  BY DEF PairInv, PairTypeOK
<1>1. UNCHANGED <<mixed, served, installed, scm, loop, disk>>
  BY DEF Start, HandleStart, HandleConnectionString, HandleConnect, RunPair,
         RunRegister, Begins, PanelAnswers, Enrolled, Registered, EnrollFails,
         RotateCode, OnEnrolled, OnError, WaitCancelled, PollClaimed, svcVars
<1>2. SvcTypeOK'
  BY <1>0, <1>1 DEF SvcTypeOK
<1>3. CASE Start(p)
  <2>1. PICK before \in SUBSET (Pairings \cup {NoId}), pass \in {p, NoId} :
          Begins(p, before, pass)
    <3>1. \A w \in Windows : window[w].live \in Pairings \cup {NoId}
      BY <1>0 DEF PairTypeOK, Screens
    <3> QED
      BY <1>3, <3>1 DEF Start, HandleStart, HandleConnectionString, HandleConnect,
                        RunPair, RunRegister, Windows
  <2>2. /\ flow[p] = "none" /\ FlowTo(p, "enrolling")
        /\ \E r \in Screens : Shows(p, r)
        /\ dropped' \subseteq Pairings /\ enrolled' = enrolled
    BY <1>0, <2>1, ScreenTypes DEF Begins, PairTypeOK
  <2>3. PairTypeOK'
    BY <1>0, <1>1, <1>2, <2>2, FlowTypes DEF FlowStates, Asking, PairTypeOK
  <2> QED  BY <1>1, <2>2, <2>3, QuietFlow DEF FlowStates, Asking
<1>4. CASE ~Start(p)
  <2>1. /\ flow[p] # "configured" /\ UNCHANGED dropped
        /\ enrolled' \in [Pairings -> {"no", "open", "claimed", "expired"}]
    BY <1>0, <1>4 DEF PanelAnswers, Enrolled, Registered, EnrollFails, RotateCode,
                      OnEnrolled, OnError, WaitCancelled, PollClaimed, PairTypeOK
  <2>2. \E s \in {"told", "granted", "gone", "errored", "waiting"} : FlowTo(p, s)
    BY <1>4 DEF PanelAnswers, Enrolled, Registered, EnrollFails, RotateCode,
                OnEnrolled, OnError, WaitCancelled, PollClaimed
  <2>3. UNCHANGED window \/ \E r \in Screens : Shows(p, r)
    BY <1>0, <1>4, ScreenTypes
    DEF PanelAnswers, Enrolled, Registered, EnrollFails, RotateCode, OnEnrolled,
        OnError, WaitCancelled, PollClaimed
  <2>4. PICK s \in {"told", "granted", "gone", "errored", "waiting"} : FlowTo(p, s)
    BY <2>2
  <2>5. s \in FlowStates \ {"configured", "verify", "kick", "done"}
    BY DEF FlowStates, Asking, Saved, Ended, Restarting
  <2>6. PairTypeOK'
    BY <1>0, <1>1, <1>2, <2>1, <2>3, <2>4, <2>5, FlowTypes DEF PairTypeOK
  <2> QED  BY <1>1, <2>1, <2>4, <2>5, <2>6, QuietFlow
<1> QED  BY <1>3, <1>4

\* Cancelling, quitting, and what the panel and its operator do.
LEMMA OutsideKeeps ==
  ASSUME PairInv, UNCHANGED kind,
         \/ \E p \in Pairings : OperatorClaims(p) \/ EnrollmentExpires(p)
         \/ ConsoleCancel \/ WizardCancel \/ \E w \in Windows : Quit(w)
  PROVE  PairInv'
<1>0. PairTypeOK /\ SvcTypeOK
  BY DEF PairInv, PairTypeOK
<1>1. UNCHANGED <<served, installed, scm, loop, disk>> /\ SvcTypeOK'
  BY <1>0 DEF OperatorClaims, EnrollmentExpires, ConsoleCancel, WizardCancel, Cancels,
              Quit, svcVars, SvcTypeOK
<1>2. Blank \in Screens
  BY DEF Blank, Screens
<1>3. ASSUME NEW p \in Pairings, OperatorClaims(p) \/ EnrollmentExpires(p) PROVE PairInv'
  BY <1>0, <1>1, <1>3
  DEF OperatorClaims, EnrollmentExpires, PairInv, PairTypeOK, FilesAgree, DoneIsServed
<1>4. ASSUME NEW w \in Windows, Cancels(w) PROVE PairInv'
  <2>1. window[w].live \in Pairings \cup {NoId}
    BY <1>0 DEF PairTypeOK, Screens
  <2>2. PairTypeOK'
    BY <1>0, <1>1, <1>2, <1>4, <2>1 DEF Cancels, PairTypeOK
  <2> QED  BY <1>1, <1>4, <2>2 DEF Cancels, PairInv, FilesAgree, DoneIsServed
<1>5. ASSUME NEW w \in Windows, Quit(w) PROVE PairInv'
  <2>1. PICK here \in SUBSET Pairings :
          /\ flow' = [p \in Pairings |-> IF p \in here THEN "gone" ELSE flow[p]]
          /\ mixed' = (mixed \/ \E p \in here : flow[p] = "configured")
    BY <1>5 DEF Quit
  <2>2. \A p \in Pairings : flow'[p] \in {"gone", flow[p]}
    BY <2>1
  <2>3. PairTypeOK'
    <3>1. flow' \in [Pairings -> FlowStates]
      BY <1>0, <2>1 DEF PairTypeOK, FlowStates, Ended
    <3>2. mixed' \in BOOLEAN
      BY <1>0, <2>1 DEF PairTypeOK
    <3> QED  BY <1>0, <1>1, <1>2, <1>5, <3>1, <3>2 DEF Quit, PairTypeOK
  <2>4. FilesAgree'
    BY <1>1, <2>1 DEF PairInv, FilesAgree
  <2>5. mixed => mixed'
    BY <2>1
  <2> QED  BY <1>1, <2>2, <2>3, <2>4, <2>5 DEF PairInv, DoneIsServed
<1> QED
  BY <1>3, <1>4, <1>5 DEF ConsoleCancel, WizardCancel, Windows

\* The two saves: between them the configuration is the flow's own, or another
\* one has overlapped.
LEMMA SavesKeep ==
  ASSUME PairInv, NEW p \in Pairings, UNCHANGED kind, SaveConfig(p) \/ SaveCredentials(p)
  PROVE  PairInv'
<1>0. PairTypeOK /\ SvcTypeOK
  BY DEF PairInv, PairTypeOK
<1>1. UNCHANGED <<dropped, window, enrolled, served, installed, scm, loop>>
  BY DEF SaveConfig, SaveCredentials
<1>2. mixed' \in BOOLEAN /\ disk' \in Files /\ disk'.config \in Pairings \cup {NoId}
  BY <1>0 DEF SaveConfig, SaveCredentials, PairTypeOK, SvcTypeOK, Files
<1>3. PICK s \in {"configured", "saved", "errored"} : FlowTo(p, s)
  BY DEF SaveConfig, SaveCredentials
<1>4. s \in FlowStates
  BY DEF FlowStates, Saved
<1>5. PairTypeOK'
  BY <1>0, <1>1, <1>2, <1>3, <1>4, FlowTypes DEF PairTypeOK, SvcTypeOK
<1>6. \A q \in Pairings : flow'[q] = IF q = p THEN s ELSE flow[q]
  BY <1>0, <1>3 DEF PairTypeOK, FlowTo
<1>7. CASE SaveConfig(p)
  <2>1. CASE UNCHANGED <<disk, mixed>> /\ FlowTo(p, "errored")
    <3>1. flow[p] = "granted" /\ flow'[p] = "errored"
      BY <1>0, <1>7, <2>1 DEF SaveConfig, PairTypeOK, FlowTo
    <3> QED  BY <1>1, <1>5, <1>6, <2>1, <3>1 DEF PairInv, FilesAgree, DoneIsServed
  <2>2. CASE /\ disk' = [disk EXCEPT !.config = p] /\ FlowTo(p, "configured")
             /\ mixed' = (mixed \/ \E q \in Pairings : flow[q] = "configured")
    <3>1. flow'[p] = "configured" /\ disk'.config = p /\ disk'.key = disk.key
      BY <1>0, <2>2 DEF PairTypeOK, FlowTo, SvcTypeOK, Files
    <3>2. mixed => mixed'
      BY <2>2
    <3>3. \A q \in Pairings \ {p} : flow[q] = "configured" => mixed'
      BY <2>2
    <3> QED
      BY <1>1, <1>5, <1>6, <3>1, <3>2, <3>3 DEF PairInv, FilesAgree, DoneIsServed
  <2> QED  BY <1>7, <2>1, <2>2 DEF SaveConfig
<1>8. CASE SaveCredentials(p)
  <2>1. flow[p] = "configured" /\ (mixed \/ disk.config = p)
    BY <1>8 DEF SaveCredentials, PairInv
  <2>2. CASE UNCHANGED disk /\ FlowTo(p, "errored") /\ mixed' = TRUE
    <3>1. flow'[p] = "errored"
      BY <1>0, <2>2 DEF PairTypeOK, FlowTo
    <3> QED  BY <1>1, <1>5, <1>6, <2>2, <3>1 DEF PairInv, FilesAgree, DoneIsServed
  <2>3. CASE disk' = [disk EXCEPT !.key = p] /\ FlowTo(p, "saved") /\ UNCHANGED mixed
    <3>1. flow'[p] = "saved" /\ disk'.config = disk.config /\ disk'.key = p
      BY <1>0, <2>3 DEF PairTypeOK, FlowTo, SvcTypeOK, Files
    <3> QED  BY <1>1, <1>5, <1>6, <2>1, <2>3, <3>1 DEF PairInv, FilesAgree, DoneIsServed
  <2> QED  BY <1>8, <2>2, <2>3 DEF SaveCredentials
<1> QED  BY <1>7, <1>8

\* A start serves all that have saved; a flow is done once it has been served, or
\* without a service.
LEMMA ServesKeep ==
  ASSUME PairInv, NEW p \in Pairings, UNCHANGED kind,
         \/ OnClaimed(p) \/ StopService(p) \/ AwaitStopped(p) \/ StartService(p)
         \/ VerifyRunning(p) \/ StartIfInstalled(p)
  PROVE  PairInv'
<1>0. PairTypeOK /\ SvcTypeOK
  BY DEF PairInv, PairTypeOK
<1>1. /\ UNCHANGED <<dropped, enrolled, mixed, installed, disk>>
      /\ flow[p] \in Saved /\ flow[p] # "configured"
  BY DEF OnClaimed, StopService, AwaitStopped, StartService, VerifyRunning,
         StartIfInstalled, svcVars, Saved, Restarting
<1>2. /\ scm' \in {"stopped", "starting", "running", "stopping"}
      /\ loop' \in {"none", "load", "run", "drain", "ended"}
  <2>1. ScmStart \/ ScmStop \/ UNCHANGED <<scm, loop>>
    BY DEF OnClaimed, StopService, AwaitStopped, StartService, VerifyRunning,
           StartIfInstalled, svcVars
  <2> QED  BY <1>0, <2>1, ServiceTypes
<1>3. NowServed \/ UNCHANGED served
  BY DEF OnClaimed, StopService, AwaitStopped, StartService, VerifyRunning,
         StartIfInstalled
<1>4. PICK s \in {"stop", "await", "start", "verify", "kick", "done", "unserved"} :
        FlowTo(p, s)
  BY DEF OnClaimed, ConsoleClaimed, StringClaimed, WizardClaimed, CommandEnds,
         StopService, AwaitStopped, StartService, VerifyRunning, StartIfInstalled
<1>5. s \in FlowStates
  BY DEF FlowStates, Saved, Restarting, Ended
<1>6. PairTypeOK'
  <2>1. UNCHANGED window \/ \E r \in Screens : Shows(p, r)
    BY <1>0, ScreenTypes
    DEF OnClaimed, StopService, AwaitStopped, StartService, VerifyRunning,
        StartIfInstalled
  <2>2. served' \subseteq Pairings
    BY <1>0, <1>3 DEF NowServed, PairTypeOK
  <2>3. SvcTypeOK'
    BY <1>0, <1>1, <1>2 DEF SvcTypeOK
  <2> QED  BY <1>0, <1>1, <1>4, <1>5, <2>1, <2>2, <2>3, FlowTypes DEF PairTypeOK
<1>7. \A q \in Pairings : flow'[q] = IF q = p THEN s ELSE flow[q]
  BY <1>0, <1>4 DEF PairTypeOK, FlowTo
<1>8. \A q \in Pairings : q \in served /\ flow[q] \in Saved => q \in served'
  BY <1>3 DEF NowServed
<1>9. \A q \in Pairings \ {p} :
        /\ flow'[q] \in {"verify", "done"} => flow[q] \in Saved
        /\ flow'[q] = "verify" /\ installed' => q \in served'
        /\ flow'[q] = "done" /\ kind'[q] \in {"code", "string"} /\ installed' => q \in served'
        /\ flow'[q] = "kick" => kind'[q] = "legacy"
  BY <1>1, <1>7, <1>8 DEF PairInv, DoneIsServed, Saved, Restarting
<1>10. /\ s = "verify" /\ installed' => p \in served'
       /\ s = "done" /\ kind'[p] \in {"code", "string"} /\ installed' => p \in served'
       /\ s = "kick" => kind'[p] = "legacy"
  <2>1. flow'[p] = s
    BY <1>7
  <2>2. CASE OnClaimed(p)
    BY <1>0, <1>1, <2>1, <2>2
    DEF OnClaimed, ConsoleClaimed, StringClaimed, WizardClaimed, CommandEnds, FlowTo,
        PairTypeOK
  <2>3. CASE StopService(p) \/ AwaitStopped(p)
    BY <1>0, <2>1, <2>3 DEF StopService, AwaitStopped, FlowTo, PairTypeOK
  <2>4. CASE StartService(p)
    BY <1>0, <1>1, <2>1, <2>4 DEF StartService, FlowTo, PairTypeOK, NowServed
  <2>5. CASE VerifyRunning(p)
    BY <1>0, <1>1, <1>8, <2>1, <2>5 DEF VerifyRunning, FlowTo, PairTypeOK, PairInv
  <2>6. CASE StartIfInstalled(p)
    BY <1>0, <2>1, <2>6 DEF StartIfInstalled, FlowTo, PairTypeOK, PairInv
  <2> QED  BY <2>2, <2>3, <2>4, <2>5, <2>6
<1>11. \A q \in Pairings : flow'[q] = "configured" => mixed' \/ disk'.config = q
  BY <1>1, <1>7 DEF PairInv
<1>12. FilesAgree'
  BY <1>1, <1>7 DEF PairInv, FilesAgree
<1> QED  BY <1>6, <1>7, <1>9, <1>10, <1>11, <1>12 DEF PairInv, DoneIsServed

LEMMA PairInvNext == PairInv /\ [PairNext]_pairVars => PairInv'
<1> SUFFICES ASSUME PairInv, [PairNext]_pairVars PROVE PairInv'
  OBVIOUS
<1>0. PairTypeOK /\ SvcTypeOK
  BY DEF PairInv, PairTypeOK
<1>1. CASE UNCHANGED pairVars
  BY <1>1 DEF pairVars, svcVars, PairInv, PairTypeOK, SvcTypeOK, FilesAgree,
              DoneIsServed, Window
<1>2. CASE /\ UNCHANGED kind /\ UNCHANGED <<flow, dropped, window, enrolled, mixed>>
           /\ UNCHANGED <<installed, disk>>
           /\ \/ ScmStart \/ ScmStop \/ SvcSteps \/ LoopEnds
           /\ NowServed \/ UNCHANGED served
  <2>1. /\ scm' \in {"stopped", "starting", "running", "stopping"}
        /\ loop' \in {"none", "load", "run", "drain", "ended"}
    BY <1>0, <1>2, ServiceTypes
  <2>2. /\ served' \subseteq Pairings
        /\ \A q \in Pairings : q \in served /\ flow[q] \in Saved => q \in served'
    BY <1>0, <1>2 DEF NowServed, PairTypeOK
  <2>3. PairTypeOK'
    BY <1>0, <1>2, <2>1, <2>2 DEF PairTypeOK, SvcTypeOK
  <2> QED
    BY <1>2, <2>2, <2>3 DEF PairInv, FilesAgree, DoneIsServed, Saved, Restarting
<1>3. CASE PairNext
  <2>1. CASE OthersControl
    BY <1>2, <1>3, <2>1 DEF PairNext, OthersControl
  <2>2. CASE /\ SvcSteps \/ LoopEnds
             /\ UNCHANGED <<flow, dropped, window, enrolled, mixed, served>>
    BY <1>2, <1>3, <2>2 DEF PairNext, SvcSteps, Execute, LoopLoads, LoopEnds, ReportStopped
  <2>3. CASE \E p \in Pairings :
               \/ Start(p) \/ PanelAnswers(p) \/ RotateCode(p) \/ OperatorClaims(p)
               \/ EnrollmentExpires(p) \/ Works(p)
    BY <1>3, <2>3, EnrollKeeps, OutsideKeeps, SavesKeep, ServesKeep DEF PairNext, Works
  <2>4. CASE ConsoleCancel \/ WizardCancel \/ \E w \in Windows : Quit(w)
    BY <1>3, <2>4, OutsideKeeps DEF PairNext
  <2> QED  BY <1>3, <2>1, <2>2, <2>3, <2>4 DEF PairNext
<1> QED  BY <1>1, <1>3

LEMMA TrayTypes == TrayTypeOK /\ [TrayNext]_trayVars => TrayTypeOK'
<1> SUFFICES ASSUME TrayTypeOK, [TrayNext]_trayVars PROVE TrayTypeOK'
  OBVIOUS
<1>0. SvcTypeOK
  BY DEF TrayTypeOK
<1> USE DEF TrayNext, OnReady, Ticker, TickerAsks, TickerShows, Clicker, ClickerAsks,
            ClickerShows, RestartStarts, ClickStart, ClickStop, ClickRestart,
            ConsoleActs, WizardSaves, trayVars, svcVars
<1>1. \/ ScmStart \/ ScmStop \/ UNCHANGED <<scm, loop>> \/ SvcSteps \/ LoopEnds
  OBVIOUS
<1>2. installed' = installed /\ disk' \in Files
  BY <1>0 DEF SvcTypeOK, Files, SvcSteps, Execute, LoopLoads, ReportStopped, LoopEnds
<1>3. SvcTypeOK'
  BY <1>0, <1>1, <1>2, ServiceTypes DEF SvcTypeOK
<1>4. Answer \in Views
  BY DEF Answer, Views
<1>5. /\ view' \in Views \cup {"off", "checking"}
      /\ ticker' \in Views \cup {"idle"}
      /\ clicker' \in Views \cup {"idle", "wait", "refresh"}
      /\ console' \in {"idle", "wait"}
  BY <1>4 DEF TrayTypeOK
<1> QED  BY <1>3, <1>5 DEF TrayTypeOK

\* No flow runs while the tray is at work: the wizard it knows of saves both
\* files in one step.
LEMMA TrayKeepsPairs ==
  PairInv /\ (\A p \in Pairings : flow[p] = "none")
          /\ TrayTypeOK' /\ TrayNext /\ UNCHANGED pairOwn => PairInv'
<1> SUFFICES ASSUME PairInv, \A p \in Pairings : flow[p] = "none", TrayTypeOK', TrayNext,
                    UNCHANGED pairOwn
             PROVE  PairInv'
  OBVIOUS
<1>1. disk' = disk \/ \E p \in Pairings : disk' = [config |-> p, key |-> p]
  BY DEF TrayNext, OnReady, Ticker, TickerAsks, TickerShows, Clicker, ClickerAsks,
         ClickerShows, RestartStarts, ClickStart, ClickStop, ClickRestart,
         ConsoleActs, WizardSaves, svcVars, SvcSteps, Execute, LoopLoads,
         ReportStopped, LoopEnds
<1>2. PairTypeOK'
  BY DEF PairInv, PairTypeOK, pairOwn, TrayTypeOK
<1>3. FilesAgree'
  BY <1>1 DEF PairInv, FilesAgree, pairOwn
<1> QED  BY <1>2, <1>3 DEF PairInv, DoneIsServed, pairOwn

-----------------------------------------------------------------------------
(* EventLog.                                                               *)

LEMMA LogInvInit == LogInit => LogInv
<1> SUFFICES ASSUME LogInit PROVE LogInv
  OBVIOUS
<1>1. /\ Capacity \in Nat \ {0} /\ MaxEvents \in Nat \ {0} /\ MaxTime \in Nat \ {0}
  BY LogAssumption DEF LogAssumption
<1> QED
  BY <1>1 DEF LogInit, LogInv, LogTypeOK, RingsHoldNewest, PollMissesOnlyTies, Whole

\* What Pushed keeps of a ring: all of it, or all but the first.
LEMMA PushedRing ==
  ASSUME NEW ring \in Seq(Events), NEW e \in Events, Len(ring) <= Capacity
  PROVE  /\ Pushed(ring, e) \in Seq(Events) /\ Len(Pushed(ring, e)) \in 1..Capacity
         /\ Pushed(ring, e)[Len(Pushed(ring, e))] = e
         /\ \E gone \in 0..1 :
              /\ Len(Pushed(ring, e)) = Len(ring) + 1 - gone
              /\ \A i \in 1 .. Len(Pushed(ring, e)) - 1 :
                   Pushed(ring, e)[i] = ring[i + gone]
<1> DEFINE kept == IF Len(ring) >= Capacity THEN Tail(ring) ELSE ring
<1>0. Capacity \in Nat \ {0} /\ Len(ring) \in Nat
  BY LogAssumption DEF LogAssumption
<1>1. CASE Len(ring) >= Capacity
  <2>1. ring # <<>>
    BY <1>0, <1>1
  <2>2. /\ Tail(ring) \in Seq(Events) /\ Len(Tail(ring)) = Len(ring) - 1
        /\ \A i \in 1 .. Len(Tail(ring)) : Tail(ring)[i] = ring[i + 1]
    BY <2>1
  <2>3. kept = Tail(ring)
    BY <1>1
  <2>4. /\ Len(Pushed(ring, e)) = Len(ring) + 1 - 1
        /\ \A i \in 1 .. Len(Pushed(ring, e)) - 1 : Pushed(ring, e)[i] = ring[i + 1]
    BY <1>0, <1>1, <2>2, <2>3 DEF Pushed
  <2> QED  BY <1>0, <1>1, <2>2, <2>3, <2>4 DEF Pushed
<1>2. CASE ~(Len(ring) >= Capacity)
  <2>1. /\ Len(Pushed(ring, e)) = Len(ring) + 1 - 0
        /\ \A i \in 1 .. Len(Pushed(ring, e)) - 1 : Pushed(ring, e)[i] = ring[i + 0]
    BY <1>0, <1>2 DEF Pushed
  <2> QED  BY <1>0, <1>2, <2>1 DEF Pushed
<1> QED  BY <1>1, <1>2

\* Recording: what leaves the ring has passed, and the new event is newer than
\* all there is.
LEMMA RecordKeeps == LogInv /\ Record => LogInv'
<1> SUFFICES ASSUME LogInv, Record PROVE LogInv'
  OBVIOUS
<1>0. /\ Capacity \in Nat \ {0} /\ MaxEvents \in Nat \ {0} /\ MaxTime \in Nat \ {0}
  BY LogAssumption DEF LogAssumption
<1> DEFINE e == [id |-> nextID + 1, t |-> clock, n |-> serial + 1]
<1>1. /\ evUp = TRUE /\ evUp' = TRUE /\ serial < MaxEvents
      /\ serial' = serial + 1 /\ nextID' = nextID + 1
      /\ log' = Pushed(log, e)
      /\ passed' = passed \cup {n \in {serial + 1} : clock = since}
                     \cup {n \in {log[i].n : i \in DOMAIN log} :
                            n \notin {log'[i].n : i \in DOMAIN log'}}
      /\ logFile' \in {log', logFile}
      /\ UNCHANGED <<samples, taken, clock, since, told>>
  BY DEF Record, Stamps, LogInv, LogTypeOK, consoleVars
<1>2. /\ log \in Seq(Events) /\ Len(log) <= Capacity /\ Len(log) \in Nat
      /\ DOMAIN log = 1..Len(log)
      /\ nextID \in 0..MaxEvents /\ serial \in 0..MaxEvents /\ nextID <= serial
      /\ clock \in 0..MaxTime /\ since \in 0..MaxTime /\ since <= clock
      /\ (told \cup passed) \subseteq 1..MaxEvents
      /\ \A i \in 1..Len(log) : /\ log[i] \in Events
                                /\ log[i].n \in 1..MaxEvents /\ log[i].n <= serial
                                /\ log[i].id \in 1..MaxEvents /\ log[i].id <= serial
                                /\ log[i].t \in 0..MaxTime /\ log[i].t <= clock
  <2>1. /\ log \in Seq(Events) /\ Len(log) <= Capacity
        /\ nextID \in 0..MaxEvents /\ serial \in 0..MaxEvents /\ nextID <= serial
        /\ clock \in 0..MaxTime /\ since \in 0..MaxTime /\ since <= clock
        /\ (told \cup passed) \subseteq 1..MaxEvents
    BY DEF LogInv, LogTypeOK
  <2>2. Len(log) \in Nat /\ DOMAIN log = 1..Len(log)
    BY <2>1
  <2>3. \A i \in 1..Len(log) : /\ log[i] \in Events /\ log[i].n <= serial
                               /\ log[i].id <= serial /\ log[i].t <= clock
    BY <2>1, <2>2 DEF LogInv, Whole
  <2>4. \A x \in Events : x.n \in 1..MaxEvents /\ x.id \in 1..MaxEvents
                          /\ x.t \in 0..MaxTime
    BY DEF Events
  <2> QED  BY <2>1, <2>2, <2>3, <2>4
<1>3. e \in Events /\ e.id = nextID + 1 /\ e.t = clock /\ e.n = serial + 1
  BY <1>0, <1>1, <1>2 DEF Events
<1> HIDE DEF e
<1>a. /\ log' \in Seq(Events) /\ Len(log') \in 1..Capacity
      /\ log'[Len(log')] = e
      /\ \E gone \in 0..1 :
           /\ Len(log') = Len(log) + 1 - gone
           /\ \A i \in 1 .. Len(log') - 1 : log'[i] = log[i + gone]
  <2>1. log \in Seq(Events) /\ e \in Events /\ Len(log) <= Capacity
    BY <1>2, <1>3
  <2>2. /\ Pushed(log, e) \in Seq(Events) /\ Len(Pushed(log, e)) \in 1..Capacity
        /\ Pushed(log, e)[Len(Pushed(log, e))] = e
        /\ \E gone \in 0..1 :
             /\ Len(Pushed(log, e)) = Len(log) + 1 - gone
             /\ \A i \in 1 .. Len(Pushed(log, e)) - 1 : Pushed(log, e)[i] = log[i + gone]
    BY <2>1, PushedRing
  <2>3. log' = Pushed(log, e)
    BY <1>1
  <2> QED  BY <2>2, <2>3
<1>b. PICK gone \in 0..1 :
         /\ Len(log') = Len(log) + 1 - gone
         /\ \A i \in 1 .. Len(log') - 1 : log'[i] = log[i + gone]
  BY <1>a
<1>4. /\ log' \in Seq(Events) /\ Len(log') \in 1..Capacity /\ Len(log') \in Nat
      /\ DOMAIN log' = 1..Len(log') /\ gone \in Nat /\ gone \in 0..1
      /\ Len(log') = Len(log) + 1 - gone
      /\ log'[Len(log')] = e
      /\ \A i \in 1 .. Len(log') - 1 : log'[i] = log[i + gone]
  BY <1>0, <1>a, <1>b
<1>5. \A i \in 1..Len(log') : \/ i = Len(log') /\ log'[i] = e
                              \/ /\ i \in 1 .. Len(log') - 1
                                 /\ i + gone \in 1..Len(log)
                                 /\ log'[i] = log[i + gone]
  BY <1>0, <1>2, <1>4
<1>6. /\ \A i, j \in 1..Len(log) : i < j => log[i].n < log[j].n
      /\ \A i \in 1 .. Len(log) - 1 : log[i + 1].id = log[i].id + 1
      /\ log # <<>> => log[Len(log)].id = nextID
  BY <1>2 DEF LogInv, Whole, RingsHoldNewest
<1>7. Whole(log)'
  <2>1. \A i \in 1 .. Len(log') - 1 : log'[i + 1].id = log'[i].id + 1
    <3> SUFFICES ASSUME NEW i \in 1 .. Len(log') - 1
                 PROVE  log'[i + 1].id = log'[i].id + 1
      OBVIOUS
    <3>1. i + gone \in 1..Len(log) /\ log'[i] = log[i + gone]
      BY <1>4, <1>5
    <3>2. CASE i + 1 = Len(log')
      <4>1. i + gone = Len(log) /\ log # <<>>
        <5>1. i \in Nat /\ i >= 1 /\ i + 1 = Len(log) + 1 - gone
          BY <1>4, <3>2
        <5>2. gone \in Nat /\ Len(log) \in Nat /\ gone >= 0
          BY <1>2, <1>4
        <5>3. i + gone = Len(log) /\ Len(log) # 0
          BY <5>1, <5>2
        <5>4. Len(<<>>) = 0
          OBVIOUS
        <5>5. log # <<>>
          BY <5>3, <5>4
        <5> QED  BY <5>3, <5>5
      <4> QED  BY <1>3, <1>4, <1>6, <3>1, <3>2, <4>1
    <3>3. CASE i + 1 # Len(log')
      <4>1. i + 1 \in 1 .. Len(log') - 1
        BY <1>4, <3>3
      <4>2. i + 1 + gone \in 1..Len(log) /\ log'[i + 1] = log[i + 1 + gone]
        BY <1>4, <1>5, <4>1
      <4>3. i + gone \in 1 .. Len(log) - 1 /\ i + 1 + gone = (i + gone) + 1
        BY <1>2, <1>4, <3>1, <4>2
      <4> QED  BY <1>6, <3>1, <4>2, <4>3
    <3> QED  BY <3>2, <3>3
  <2>2. \A i, j \in 1..Len(log') : i < j => log'[i].n < log'[j].n
    <3> SUFFICES ASSUME NEW i \in 1..Len(log'), NEW j \in 1..Len(log'), i < j
                 PROVE  log'[i].n < log'[j].n
      OBVIOUS
    <3>1. i + gone \in 1..Len(log) /\ log'[i] = log[i + gone]
      BY <1>4, <1>5
    <3>2. CASE j = Len(log')
      BY <1>2, <1>3, <1>4, <3>1, <3>2
    <3>3. CASE j # Len(log')
      <4>1. j + gone \in 1..Len(log) /\ log'[j] = log[j + gone] /\ i + gone < j + gone
        BY <1>4, <1>5, <3>3
      <4> QED  BY <1>6, <3>1, <4>1
    <3> QED  BY <3>2, <3>3
  <2>3. \A i \in 1..Len(log') : /\ log'[i].n <= serial' /\ log'[i].id <= serial'
                                /\ log'[i].t <= clock'
    <3> TAKE i \in 1..Len(log')
    <3>1. serial' = serial + 1 /\ clock' = clock /\ serial \in Nat /\ clock \in Nat
      BY <1>1, <1>2
    <3>2. CASE log'[i] = e
      <4>1. e.n = serial + 1 /\ e.t = clock /\ e.id <= serial + 1
        BY <1>2, <1>3
      <4> QED BY ONLY <3>1, <3>2, <4>1
    <3>3. CASE i + gone \in 1..Len(log) /\ log'[i] = log[i + gone]
      <4> DEFINE old == log[i + gone]
      <4>1. /\ old.n <= serial /\ old.id <= serial /\ old.t <= clock
            /\ {old.n, old.id} \subseteq Nat
        BY <1>2, <3>3
      <4>2. log'[i] = old
        BY <3>3
      <4> HIDE DEF old
      <4> QED BY ONLY <3>1, <4>1, <4>2
    <3> QED BY <1>5, <3>2, <3>3
  <2> QED  BY <1>4, <2>1, <2>2, <2>3 DEF Whole
<1>8. PollMissesOnlyTies'
  <2> SUFFICES ASSUME NEW i \in 1..Len(log'), log'[i].t <= since
               PROVE  log'[i].n \in told \cup passed'
    BY <1>1, <1>4 DEF PollMissesOnlyTies
  <2>1. CASE i = Len(log') /\ log'[i] = e
    BY <1>1, <1>2, <1>3, <2>1
  <2>2. CASE i + gone \in 1..Len(log) /\ log'[i] = log[i + gone]
    <3>1. log[i + gone].n \in told \cup passed
      BY <1>2, <2>2 DEF LogInv, PollMissesOnlyTies
    <3> QED  BY <1>1, <2>2, <3>1
  <2> QED  BY <1>5, <2>1, <2>2
\* An event of the log is still there, or has passed.
<1>9. \A j \in 1..Len(log) : \/ \E i \in 1..Len(log') : log'[i] = log[j]
                             \/ log[j].n \in passed'
  <2> SUFFICES ASSUME NEW j \in 1..Len(log)
               PROVE  \/ \E i \in 1..Len(log') : log'[i] = log[j]
                      \/ log[j].n \in passed'
    OBVIOUS
  <2>1. CASE j > gone
    <3>1. j - gone \in 1 .. Len(log') - 1 /\ (j - gone) + gone = j
      BY <1>2, <1>4, <2>1
    <3>2. log'[j - gone] = log[j]
      BY <1>4, <3>1
    <3> QED  BY <1>4, <3>1, <3>2
  <2>2. CASE ~(j > gone)
    <3>1. j = 1 /\ gone = 1
      BY <1>2, <1>4, <2>2
    <3>2. ASSUME NEW i \in 1..Len(log') PROVE log'[i].n # log[j].n
      <4>1. CASE i = Len(log') /\ log'[i] = e
        BY <1>2, <1>3, <4>1
      <4>2. CASE i + gone \in 1..Len(log) /\ log'[i] = log[i + gone]
        <5>1. j < i + gone /\ log[j].n < log[i + gone].n
          BY <1>6, <3>1, <4>2
        <5> QED  BY <1>2, <4>2, <5>1
      <4> QED  BY <1>5, <4>1, <4>2
    <3>3. log[j].n \notin {log'[i].n : i \in DOMAIN log'}
      BY <1>4, <3>2
    <3> QED  BY <1>1, <1>2, <3>3
  <2> QED  BY <2>1, <2>2
<1>10. (told' \cup passed') \subseteq 1..MaxEvents /\ passed \subseteq passed'
  BY <1>0, <1>1, <1>2
<1>11. logFile' # Corrupt =>
         /\ logFile' \in Seq(Events) /\ Len(logFile') <= Capacity
         /\ Whole(logFile)'
         /\ \A i \in DOMAIN logFile' :
              /\ logFile'[i].t <= since' => logFile'[i].n \in told' \cup passed'
              /\ \/ logFile'[i].n \in passed'
                 \/ \E j \in DOMAIN log' : log'[j] = logFile'[i]
  <2>1. CASE logFile' = log'
    <3>1. Whole(logFile)'
      BY <1>7, <2>1 DEF Whole
    <3> QED  BY <1>0, <1>4, <1>8, <2>1, <3>1 DEF PollMissesOnlyTies
  <2>2. CASE logFile' = logFile /\ logFile # Corrupt
    <3>1. /\ logFile \in Seq(Events) /\ Len(logFile) <= Capacity
          /\ DOMAIN logFile = 1..Len(logFile)
          /\ \A i \in 1 .. Len(logFile) - 1 : logFile[i + 1].id = logFile[i].id + 1
          /\ \A i, j \in DOMAIN logFile : i < j => logFile[i].n < logFile[j].n
          /\ \A i \in DOMAIN logFile :
               /\ logFile[i] \in Events
               /\ logFile[i].n \in Nat /\ logFile[i].id \in Nat
               /\ logFile[i].n <= serial /\ logFile[i].id <= serial
               /\ logFile[i].t <= clock
               /\ logFile[i].t <= since => logFile[i].n \in told \cup passed
               /\ \/ logFile[i].n \in passed
                  \/ \E j \in 1..Len(log) : log[j] = logFile[i]
      <4>1. /\ logFile \in Seq(Events) /\ Len(logFile) <= Capacity
            /\ Whole(logFile)
            /\ \A i \in DOMAIN logFile :
                 /\ logFile[i].t <= since => logFile[i].n \in told \cup passed
                 /\ \/ logFile[i].n \in passed
                    \/ \E j \in 1..Len(log) : log[j] = logFile[i]
        BY <1>1, <1>2, <2>2 DEF LogInv, LogTypeOK
      <4>2. /\ DOMAIN logFile = 1..Len(logFile)
            /\ \A i \in DOMAIN logFile : logFile[i] \in Events
        BY <4>1
      <4>3. \A x \in Events : x.n \in Nat /\ x.id \in Nat
        BY DEF Events
      <4> QED  BY <4>1, <4>2, <4>3 DEF Whole
    <3>2. Whole(logFile)'
      BY <1>1, <1>2, <2>2, <3>1 DEF Whole
    <3>3. ASSUME NEW i \in DOMAIN logFile
          PROVE  /\ logFile[i].t <= since => logFile[i].n \in told \cup passed'
                 /\ \/ logFile[i].n \in passed'
                    \/ \E j \in DOMAIN log' : log'[j] = logFile[i]
      BY <1>4, <1>9, <1>10, <3>1
    <3> QED  BY <1>1, <2>2, <3>1, <3>2, <3>3
  <2> QED  BY <1>1, <2>1, <2>2
<1>12. LogTypeOK'
  BY <1>0, <1>1, <1>2, <1>4, <1>10, <1>11 DEF LogInv, LogTypeOK
<1>13. RingsHoldNewest'
  BY <1>1, <1>3, <1>4, <1>7 DEF LogInv, RingsHoldNewest, Whole
<1> QED
  BY <1>1, <1>2, <1>7, <1>8, <1>11, <1>12, <1>13 DEF LogInv

LEMMA SampleKeeps == LogInv /\ Sample => LogInv'
<1> SUFFICES ASSUME LogInv, Sample PROVE LogInv'
  OBVIOUS
<1>0. Capacity \in Nat \ {0} /\ MaxEvents \in Nat \ {0}
  BY LogAssumption DEF LogAssumption
<1>1. /\ taken < MaxEvents /\ taken' = taken + 1
      /\ samples' = Pushed(samples, taken + 1)
      /\ UNCHANGED <<evUp, log, nextID, logFile, clock, since, told, passed, serial>>
      /\ evUp = TRUE
  BY DEF Sample, consoleVars, LogInv, LogTypeOK
<1>2. /\ samples \in Seq(1..MaxEvents) /\ taken \in 0..MaxEvents
      /\ Len(samples) \in Nat /\ Len(samples) <= Capacity
      /\ \A i \in 1 .. Len(samples) - 1 : samples[i + 1] = samples[i] + 1
      /\ samples # <<>> => samples[Len(samples)] = taken
  BY DEF LogInv, LogTypeOK, RingsHoldNewest
<1> DEFINE kept == IF Len(samples) >= Capacity THEN Tail(samples) ELSE samples
<1>3. /\ kept \in Seq(1..MaxEvents) /\ Len(kept) \in Nat /\ Len(kept) < Capacity
      /\ \A i \in 1 .. Len(kept) - 1 : kept[i + 1] = kept[i] + 1
      /\ kept # <<>> => kept[Len(kept)] = taken
  <2>1. CASE Len(samples) >= Capacity
    <3>1. Len(samples) = Capacity /\ samples # <<>>
      BY <1>0, <1>2, <2>1
    <3>2. /\ Tail(samples) \in Seq(1..MaxEvents)
          /\ Len(Tail(samples)) = Len(samples) - 1
          /\ \A i \in 1 .. Len(samples) - 1 : Tail(samples)[i] = samples[i + 1]
      BY <1>2, <3>1
    <3>3. ASSUME NEW i \in 1 .. Len(Tail(samples)) - 1
          PROVE  Tail(samples)[i + 1] = Tail(samples)[i] + 1
      <4>1. i + 1 \in 1 .. Len(samples) - 1 /\ i \in 1 .. Len(samples) - 1
        BY <1>2, <3>2
      <4> QED  BY <1>2, <3>2, <4>1
    <3>4. Tail(samples) # <<>> => Tail(samples)[Len(Tail(samples))] = taken
      <4> SUFFICES ASSUME Tail(samples) # <<>>
                   PROVE  Tail(samples)[Len(Tail(samples))] = taken
        OBVIOUS
      <4>1. Len(samples) - 1 \in 1 .. Len(samples) - 1
        BY <1>2, <3>2
      <4>2. Tail(samples)[Len(samples) - 1] = samples[(Len(samples) - 1) + 1]
        BY <3>2, <4>1
      <4> QED  BY <1>2, <3>1, <3>2, <4>2
    <3> QED  BY <1>0, <1>2, <2>1, <3>1, <3>2, <3>3, <3>4
  <2>2. CASE ~(Len(samples) >= Capacity)
    BY <1>0, <1>2, <2>2
  <2> QED  BY <2>1, <2>2
<1>4. samples' = Append(kept, taken + 1)
  BY <1>1 DEF Pushed
<1> HIDE DEF kept
<1>5. /\ samples' \in Seq(1..MaxEvents) /\ Len(samples') = Len(kept) + 1
      /\ samples'[Len(kept) + 1] = taken + 1
      /\ \A i \in 1..Len(kept) : samples'[i] = kept[i]
  <2>1. taken + 1 \in 1..MaxEvents
    BY <1>0, <1>1, <1>2
  <2> QED  BY <1>3, <1>4, <2>1
<1>6. \A i \in 1 .. Len(samples') - 1 : samples'[i + 1] = samples'[i] + 1
  <2> SUFFICES ASSUME NEW i \in 1..Len(kept) PROVE samples'[i + 1] = samples'[i] + 1
    BY <1>3, <1>5
  <2>1. CASE i = Len(kept)
    <3>1. kept # <<>>
      <4>1. Len(<<>>) = 0
        OBVIOUS
      <4> QED  BY <1>3, <2>1, <4>1
    <3> QED  BY <1>3, <1>5, <2>1, <3>1
  <2>2. CASE i # Len(kept)
    <3>1. i \in 1 .. Len(kept) - 1 /\ i + 1 \in 1..Len(kept)
      BY <1>3, <2>2
    <3> QED  BY <1>3, <1>5, <3>1
  <2> QED  BY <2>1, <2>2
<1>7. /\ Len(samples') <= Capacity /\ taken' \in 0..MaxEvents
      /\ samples' # <<>> => samples'[Len(samples')] = taken'
  BY <1>0, <1>1, <1>2, <1>3, <1>5
<1>8. RingsHoldNewest' /\ LogTypeOK'
  BY <1>1, <1>5, <1>6, <1>7 DEF LogInv, LogTypeOK, RingsHoldNewest
<1>9. PollMissesOnlyTies' /\ Whole(log)' /\ (logFile' # Corrupt => Whole(logFile)')
  BY <1>1 DEF LogInv, PollMissesOnlyTies, Whole
<1> QED  BY <1>1, <1>8, <1>9 DEF LogInv

\* Every event of the log is in it with a time, a number and an Id.
LEMMA LogEvents ==
  LogInv => /\ DOMAIN log = 1..Len(log) /\ Len(log) \in Nat
            /\ \A i \in DOMAIN log : log[i].t \in 0..MaxTime /\ log[i].n \in 1..MaxEvents
            /\ since \in 0..MaxTime /\ clock \in 0..MaxTime
<1> SUFFICES ASSUME LogInv
             PROVE  /\ DOMAIN log = 1..Len(log) /\ Len(log) \in Nat
                    /\ \A i \in DOMAIN log : /\ log[i].t \in 0..MaxTime
                                             /\ log[i].n \in 1..MaxEvents
                    /\ since \in 0..MaxTime /\ clock \in 0..MaxTime
  OBVIOUS
<1>1. log \in Seq(Events) /\ since \in 0..MaxTime /\ clock \in 0..MaxTime
  BY DEF LogInv, LogTypeOK
<1>2. \A x \in Events : x.t \in 0..MaxTime /\ x.n \in 1..MaxEvents
  BY DEF Events
<1>3. DOMAIN log = 1..Len(log) /\ Len(log) \in Nat /\ \A i \in DOMAIN log : log[i] \in Events
  BY <1>1
<1> QED  BY <1>1, <1>2, <1>3

\* What a poll answers with is all that is not older than what the console
\* then takes for the newest.
LEMMA PollKeeps == LogInv /\ Poll => LogInv'
<1> SUFFICES ASSUME LogInv, Poll PROVE LogInv'
  OBVIOUS
<1>0. MaxEvents \in Nat \ {0} /\ MaxTime \in Nat \ {0}
  BY LogAssumption DEF LogAssumption
<1>1. PICK last \in Snapshot(since) :
         (\A i \in Snapshot(since) : i <= last) /\ since' = log[last].t
  BY DEF Poll
<1>2. /\ told' = told \cup {log[i].n : i \in Snapshot(since)}
      /\ UNCHANGED <<evUp, log, nextID, logFile, samples, taken, clock, passed, serial>>
  BY DEF Poll
<1>3. /\ last \in DOMAIN log /\ since' \in 0..MaxTime /\ since' <= clock
  <2>1. last \in DOMAIN log
    BY DEF Snapshot
  <2> QED  BY <1>1, <2>1, LogEvents DEF LogInv, Whole
<1>4. told \subseteq told' /\ told' \subseteq 1..MaxEvents
  BY <1>2, LogEvents DEF Snapshot, LogInv, LogTypeOK
<1>5. \A i \in DOMAIN log : log[i].t > since => log[i].n \in told'
  BY <1>2 DEF Snapshot
<1>6. \A i \in DOMAIN log : log[i].n \in told' \cup passed
  <2> SUFFICES ASSUME NEW i \in DOMAIN log PROVE log[i].n \in told' \cup passed
    OBVIOUS
  <2>1. log[i].t > since \/ log[i].t <= since
    BY LogEvents
  <2> QED  BY <1>4, <1>5, <2>1 DEF LogInv, PollMissesOnlyTies
<1>7. LogTypeOK' /\ RingsHoldNewest' /\ PollMissesOnlyTies'
  BY <1>2, <1>3, <1>4, <1>6 DEF LogInv, LogTypeOK, RingsHoldNewest, PollMissesOnlyTies
<1>8. Whole(log)' /\ (logFile # Corrupt => Whole(logFile)')
  BY <1>2 DEF LogInv, Whole
<1>9. logFile # Corrupt /\ evUp = TRUE =>
        \A i \in DOMAIN logFile : logFile[i].n \in told' \cup passed
  BY <1>6 DEF LogInv
<1>10. evUp = TRUE
  BY DEF Poll, LogInv, LogTypeOK
<1> QED  BY <1>2, <1>3, <1>7, <1>8, <1>9, <1>10 DEF LogInv

LEMMA LogInvNext == LogInv /\ [LogNext]_logVars => LogInv'
<1> SUFFICES ASSUME LogInv, [LogNext]_logVars PROVE LogInv'
  OBVIOUS
<1>0. Capacity \in Nat \ {0} /\ MaxEvents \in Nat \ {0} /\ MaxTime \in Nat \ {0}
  BY LogAssumption DEF LogAssumption
<1>1. CASE Record
  BY <1>1, RecordKeeps
<1>2. CASE Sample
  BY <1>2, SampleKeeps
<1>3. CASE Poll
  BY <1>3, PollKeeps
<1>4. CASE Tick
  <2>1. /\ clock' = clock + 1 /\ clock < MaxTime
        /\ UNCHANGED <<evUp, log, nextID, logFile, samples, taken, since, told, passed,
                       serial>>
    BY <1>4 DEF Tick, consoleVars
  <2>2. clock' \in 0..MaxTime /\ since <= clock' /\ clock <= clock'
    BY <1>0, <2>1, LogEvents DEF LogInv
  <2>3. LogTypeOK' /\ RingsHoldNewest' /\ PollMissesOnlyTies'
    BY <2>1, <2>2 DEF LogInv, LogTypeOK, RingsHoldNewest, PollMissesOnlyTies
  <2>4. \A x \in Events : x.t \in Nat
    BY DEF Events
  <2>5. ASSUME NEW events \in Seq(Events), Whole(events)
        PROVE  \A i \in DOMAIN events : events[i].t <= clock'
    <3> SUFFICES ASSUME NEW i \in DOMAIN events PROVE events[i].t <= clock'
      OBVIOUS
    <3>1. events[i] \in Events
      OBVIOUS
    <3>2. events[i].t \in Nat /\ events[i].t <= clock /\ clock \in Nat
      BY <2>4, <2>5, <3>1, LogEvents DEF Whole
    <3> QED  BY <2>1, <3>2
  <2>6. Whole(log)' /\ (logFile # Corrupt => Whole(logFile)')
    BY <2>1, <2>5 DEF LogInv, LogTypeOK, Whole
  <2> QED  BY <2>1, <2>2, <2>3, <2>6 DEF LogInv
<1>5. CASE Die
  <2>1. /\ evUp' = FALSE
        /\ log' = <<>> /\ nextID' = 0 /\ samples' = <<>> /\ taken' = 0
        /\ logFile' \in {logFile, Corrupt}
        /\ UNCHANGED <<clock, since, told, passed, serial>>
    BY <1>5 DEF Die, consoleVars
  <2>2. LogTypeOK' /\ RingsHoldNewest' /\ PollMissesOnlyTies' /\ Whole(log)'
    <3>1. <<>> \in Seq(Events) /\ <<>> \in Seq(1..MaxEvents) /\ Len(<<>>) = 0
      OBVIOUS
    <3>2. logFile' # Corrupt => logFile' \in Seq(Events) /\ Len(logFile') <= Capacity
      BY <2>1 DEF LogInv, LogTypeOK
    <3>3. LogTypeOK'
      <4>1. evUp' \in BOOLEAN /\ nextID' \in 0..MaxEvents /\ taken' \in 0..MaxEvents
        <5>1. evUp' \in BOOLEAN
          BY <2>1
        <5>2. 0 \in 0..MaxEvents
          BY <1>0
        <5> QED  BY <2>1, <5>1, <5>2
      <4>2. /\ log' \in Seq(Events) /\ Len(log') <= Capacity
            /\ samples' \in Seq(1..MaxEvents)
        BY <1>0, <2>1, <3>1
      <4>3. /\ clock' \in 0..MaxTime /\ since' \in 0..MaxTime
            /\ (told \cup passed)' \subseteq 1..MaxEvents /\ serial' \in 0..MaxEvents
        BY <2>1 DEF LogInv, LogTypeOK
      <4> QED  BY <3>2, <4>1, <4>2, <4>3 DEF LogTypeOK
    <3>4. RingsHoldNewest' /\ PollMissesOnlyTies' /\ Whole(log)'
      BY <1>0, <2>1, <3>1 DEF RingsHoldNewest, PollMissesOnlyTies, Whole
    <3> QED  BY <3>3, <3>4
  <2>3. logFile' # Corrupt => Whole(logFile)'
    BY <2>1 DEF LogInv, Whole
  <2>4. nextID' <= serial' /\ since' <= clock'
    BY <2>1 DEF LogInv, LogTypeOK
  <2> QED  BY <2>1, <2>2, <2>3, <2>4 DEF LogInv
<1>6. CASE Load
  <2>1. /\ evUp = FALSE /\ evUp' = TRUE
        /\ log' = IF logFile = Corrupt THEN <<>> ELSE logFile
        /\ nextID' = IF log' = <<>> THEN 0 ELSE log'[Len(log')].id
        /\ UNCHANGED <<logFile, samples, taken, clock, since, told, passed, serial>>
    BY <1>6 DEF Load, consoleVars, LogInv, LogTypeOK
  <2>2. samples = <<>> /\ taken = 0
    BY <2>1 DEF LogInv
  <2>3. CASE log' = <<>>
    <3>1. LogTypeOK' /\ RingsHoldNewest' /\ PollMissesOnlyTies' /\ Whole(log)'
      BY <1>0, <2>1, <2>2, <2>3
         DEF LogInv, LogTypeOK, RingsHoldNewest, PollMissesOnlyTies, Whole
    <3>2. logFile' # Corrupt => Whole(logFile)' /\ logFile' = <<>>
      BY <2>1, <2>3 DEF LogInv, Whole
    <3>3. nextID' <= serial' /\ since' <= clock'
      BY <2>1, <2>3 DEF LogInv, LogTypeOK
    <3> QED  BY <2>1, <2>3, <3>1, <3>2, <3>3 DEF LogInv
  <2>4. CASE log' # <<>>
    <3>1. logFile # Corrupt /\ log' = logFile /\ nextID' = logFile[Len(logFile)].id
      BY <2>1, <2>4
    <3>2. /\ logFile \in Seq(Events) /\ Len(logFile) <= Capacity /\ Whole(logFile)
          /\ \A i \in DOMAIN logFile :
               logFile[i].t <= since => logFile[i].n \in told \cup passed
      BY <3>1 DEF LogInv, LogTypeOK
    <3>3. Len(logFile) \in DOMAIN logFile /\ logFile[Len(logFile)] \in Events
      BY <2>4, <3>1, <3>2
    <3>4. \A x \in Events : x.id \in 1..MaxEvents
      BY DEF Events
    <3>5. nextID' \in 0..MaxEvents /\ nextID' <= serial
      BY <1>0, <3>1, <3>2, <3>3, <3>4 DEF Whole
    <3>6. Whole(log)' /\ Whole(logFile)'
      BY <2>1, <3>1, <3>2 DEF Whole
    <3>7. LogTypeOK' /\ RingsHoldNewest' /\ PollMissesOnlyTies'
      BY <1>0, <2>1, <2>2, <3>1, <3>2, <3>5
         DEF LogInv, LogTypeOK, RingsHoldNewest, PollMissesOnlyTies, Whole
    <3>8. since' <= clock'
      BY <2>1 DEF LogInv
    <3> QED  BY <2>1, <3>1, <3>2, <3>5, <3>6, <3>7, <3>8 DEF LogInv
  <2> QED  BY <2>3, <2>4
<1>7. CASE UNCHANGED logVars
  BY <1>7 DEF logVars, consoleVars, LogInv, LogTypeOK, RingsHoldNewest,
              PollMissesOnlyTies, Whole
<1> QED
  BY <1>1, <1>2, <1>3, <1>4, <1>5, <1>6, <1>7 DEF LogNext

-----------------------------------------------------------------------------
(* ServiceChecks.                                                          *)

LEMMA ChecksInvInit == CheckInit => ChecksInv
<1> SUFFICES ASSUME CheckInit PROVE ChecksInv
  OBVIOUS
<1>1. CheckTypeOK
  <2>1. facts \in SUBSET Facts /\ 0 \in 0..MaxFlips
    BY CheckAssumption DEF CheckAssumption, CheckInit
  <2>2. webUp \in BOOLEAN
    BY DEF CheckInit
  <2> QED  BY <2>1, <2>2 DEF CheckInit, CheckTypeOK, WebPorts
<1>2. "80" \notin Groups /\ "80" \in WebPorts
  BY DEF Groups, WebPorts
<1>3. ChecksTell
  BY <1>2 DEF CheckInit, ChecksTell, Groups
<1> QED
  BY <1>1, <1>2, <1>3 DEF CheckInit, ChecksInv, Over, Groups

\* What the host has been and what of it lasted are known better with time: a
\* check stays witnessed and a name settled.
LEMMA ChecksLast ==
  ever \subseteq ever' /\ always' \subseteq always /\ silent \subseteq silent' =>
    /\ \A c : c.status \in {"up", "down", "degraded", "unknown"} /\ Witnessed(c) =>
                Witnessed(c)'
    /\ checks \subseteq checks' => \A g, n : Settled(g, n) => Settled(g, n)'
<1> SUFFICES ASSUME ever \subseteq ever', always' \subseteq always, silent \subseteq silent'
             PROVE  /\ \A c : c.status \in {"up", "down", "degraded", "unknown"}
                               /\ Witnessed(c) => Witnessed(c)'
                    /\ checks \subseteq checks' =>
                         \A g, n : Settled(g, n) => Settled(g, n)'
  OBVIOUS
<1>1. ASSUME NEW c, c.status \in {"up", "down", "degraded", "unknown"}, Witnessed(c)
      PROVE  Witnessed(c)'
  <2>1. CASE c.status = "up"
    BY <1>1, <2>1 DEF Witnessed
  <2>2. CASE c.status = "down"
    BY <1>1, <2>2 DEF Witnessed
  <2>3. CASE c.status = "degraded"
    BY <1>1, <2>3 DEF Witnessed
  <2>4. CASE c.status = "unknown"
    BY <1>1, <2>4 DEF Witnessed
  <2> QED  BY <1>1, <2>1, <2>2, <2>3, <2>4
<1>2. ASSUME NEW g, NEW n, checks \subseteq checks', Settled(g, n) PROVE Settled(g, n)'
  BY <1>2 DEF Settled
<1> QED  BY <1>1, <1>2

LEMMA HostFlipsKeeps == ChecksInv /\ HostFlips => ChecksInv'
<1> SUFFICES ASSUME ChecksInv, HostFlips PROVE ChecksInv'
  OBVIOUS
<1>1. PICK f \in Facts :
         /\ facts' = (facts \ {f}) \cup ({f} \ facts)
         /\ ever' = ever \cup {f} /\ always' = always \ {f}
  BY DEF HostFlips
<1>2. UNCHANGED <<turn, left, seen, webUp, dialled, checks, silent>>
  BY DEF HostFlips
<1>3. /\ always' \subseteq facts' /\ facts' \subseteq ever'
      /\ ever \subseteq ever' /\ always' \subseteq always
  BY <1>1 DEF ChecksInv
<1>4. CheckTypeOK'
  <2>1. {facts', ever', always'} \subseteq SUBSET Facts
    BY <1>1 DEF ChecksInv, CheckTypeOK
  <2>2. flips' \in 0..MaxFlips
    BY CheckAssumption DEF CheckAssumption, HostFlips, ChecksInv, CheckTypeOK
  <2> QED  BY <1>2, <2>1, <2>2 DEF ChecksInv, CheckTypeOK
<1>5. ChecksTell'
  <2>1. \A c \in checks : c.status \in {"up", "down", "degraded", "unknown"}
    BY DEF ChecksInv, CheckTypeOK
  <2>2. \A c \in checks : Witnessed(c)'
    BY <1>2, <1>3, <2>1, ChecksLast DEF ChecksInv, ChecksTell
  <2> QED  BY <1>2, <1>3, <2>2 DEF ChecksInv, ChecksTell
<1>6. /\ webUp' => \E p \in WebPorts : Open(p) \in ever'
      /\ turn' = "443" => Open("80") \notin always'
      /\ turn' \in Groups /\ ~webUp' => \A p \in WebPorts : Open(p) \notin always'
      /\ \A n \in dialled' : Active(IdOf[n]) \in ever'
  BY <1>2, <1>3 DEF ChecksInv
<1>7. \A g \in Groups : \A n \in NamesOf(g) :
         Over(g)' \/ (g = turn' /\ n \notin (left \cup dialled)') => Settled(g, n)'
  BY <1>2, <1>3, ChecksLast DEF ChecksInv, Over
<1> QED
  BY <1>2, <1>3, <1>4, <1>5, <1>6, <1>7 DEF ChecksInv, Over

LEMMA DialWebKeeps == ChecksInv /\ DialWeb => ChecksInv'
<1> SUFFICES ASSUME ChecksInv, DialWeb PROVE ChecksInv'
  OBVIOUS
<1> USE DEF WebPorts, Groups
<1>1. /\ turn \in {"80", "443"} /\ webUp' = (Open(turn) \in facts)
      /\ IF turn = "80" /\ ~webUp'
         THEN turn' = "443" /\ UNCHANGED left
         ELSE turn' = "web" /\ left' = WebNames
      /\ UNCHANGED <<facts, ever, always, flips, seen, dialled, checks, silent>>
  BY DEF DialWeb, hostFacts
<1>2. left = {} /\ dialled = {} /\ checks = {} /\ seen = {}
  BY <1>1 DEF ChecksInv
<1>3. /\ webUp' => Open(turn) \in ever
      /\ ~webUp' => Open(turn) \notin always
      /\ webUp' \in BOOLEAN
  <2>1. always \subseteq facts /\ facts \subseteq ever
    BY DEF ChecksInv
  <2> DEFINE found == Open(turn) \in facts
  <2>2. webUp' = found /\ found \in BOOLEAN
    BY <1>1
  <2>3. (found => Open(turn) \in ever) /\ (~found => Open(turn) \notin always)
    BY <2>1
  <2> HIDE DEF found
  <2> QED  BY <2>2, <2>3
<1>4. CheckTypeOK'
  BY <1>1, <1>2, <1>3 DEF ChecksInv, CheckTypeOK, Names
<1>5. ChecksTell'
  BY <1>1, <1>2 DEF ChecksTell
<1>6. /\ webUp' => \E p \in WebPorts : Open(p) \in ever'
      /\ turn' = "443" => Open("80") \notin always'
      /\ turn' \in Groups /\ ~webUp' => \A p \in WebPorts : Open(p) \notin always'
  BY <1>1, <1>3 DEF ChecksInv
<1>7. /\ turn' \in {"443", "web"}
      /\ turn' = "web" => left' = WebNames /\ NamesOf("web") = WebNames
      /\ turn' = "443" => left' = {}
  BY <1>1, <1>2 DEF NamesOf
<1> QED
  BY <1>1, <1>2, <1>4, <1>5, <1>6, <1>7 DEF ChecksInv, Over

\* A group begins, or there is none left: what is over is settled.
LEMMA NextGroupKeeps == ChecksInv /\ NextGroup => ChecksInv'
<1> SUFFICES ASSUME ChecksInv, NextGroup PROVE ChecksInv'
  OBVIOUS
<1>1. /\ turn \in Groups /\ left = {} /\ dialled = {}
      /\ UNCHANGED <<facts, ever, always, flips, dialled, silent, webUp>>
  BY DEF NextGroup, Begin, hostFacts
<1>2. \/ /\ turn = "web" /\ turn' = "php" /\ left' = NamesOf("php") /\ seen' = {}
         /\ checks' = checks \cup {c \in {Check("web", "web", "up")} :
                                     checks = {} /\ webUp}
      \/ /\ turn = "php" /\ turn' = "db" /\ left' = NamesOf("db") /\ seen' = {}
         /\ checks' = checks
      \/ /\ turn = "db" /\ turn' = "custom" /\ left' = NamesOf("custom") /\ seen' = {}
         /\ checks' = checks
      \/ turn = "custom" /\ turn' = "end" /\ left' = {} /\ seen' = seen /\ checks' = checks
  BY <1>1 DEF NextGroup, Begin
<1>3. checks \subseteq checks'
  BY <1>2
<1>4. \A c \in checks' \ checks :
         /\ turn = "web" /\ checks = {} /\ webUp
         /\ c = [id |-> "web", name |-> "web", group |-> "web", status |-> "up"]
  BY <1>2 DEF Check
<1>5. /\ NamesOf("web") = WebNames /\ NamesOf("php") = PhpNames
      /\ NamesOf("db") = DbNames /\ NamesOf("custom") = CustomNames
  BY DEF NamesOf
<1>6. CheckTypeOK'
  <2>1. left' \subseteq Names /\ turn' \in Groups \cup {"end"} /\ seen' \subseteq Ids
    BY <1>2, <1>5 DEF Groups, Names, ChecksInv, CheckTypeOK
  <2>2. checks' \subseteq [id : Ids \cup {"web"}, name : Names \cup {"web"},
                           group : Groups,
                           status : {"up", "down", "degraded", "unknown"}]
    BY <1>4 DEF Groups, ChecksInv, CheckTypeOK
  <2> QED  BY <1>1, <2>1, <2>2 DEF ChecksInv, CheckTypeOK
<1>7. \A c \in checks' : Witnessed(c)'
  <2> SUFFICES ASSUME NEW c \in checks' PROVE Witnessed(c)'
    OBVIOUS
  <2>1. CASE c \in checks
    <3>1. c.status \in {"up", "down", "degraded", "unknown"} /\ Witnessed(c)
      BY <2>1 DEF ChecksInv, CheckTypeOK, ChecksTell
    <3> QED  BY <1>1, <3>1, ChecksLast
  <2>2. CASE c \notin checks
    <3>1. c.status = "up" /\ c.group = "web" /\ \E p \in WebPorts : Open(p) \in ever'
      BY <1>1, <1>4, <2>2 DEF ChecksInv
    <3> QED  BY <3>1 DEF Witnessed
  <2> QED  BY <2>1, <2>2
\* The groups that are over are those that were, and the one that was under way.
<1>8. \A g \in Groups : Over(g)' <=> (Over(g) \/ g = turn)
  BY <1>2 DEF Over, Groups
<1>9. \A g \in Groups : \A n \in NamesOf(g) : Over(g)' => Settled(g, n)'
  <2> SUFFICES ASSUME NEW g \in Groups, NEW n \in NamesOf(g), Over(g)'
               PROVE  Settled(g, n)'
    OBVIOUS
  <2>1. Settled(g, n)
    BY <1>1, <1>8 DEF ChecksInv
  <2> QED  BY <1>1, <1>3, <2>1, ChecksLast
<1>10. \A c \in checks' : c.group = turn' \/ Over(c.group)'
  <2> SUFFICES ASSUME NEW c \in checks' PROVE Over(c.group)'
    OBVIOUS
  <2>1. c.group \in Groups
    BY <1>6 DEF CheckTypeOK
  <2>2. c.group = turn \/ Over(c.group)
    BY <1>4 DEF ChecksInv
  <2> QED  BY <1>8, <2>1, <2>2
<1>11. turn' \in Groups => ~Over(turn')
  BY <1>2 DEF Over, Groups
<1>12. ASSUME NEW c \in checks', turn' \in Groups PROVE c.group # turn'
  <2>1. CASE c \in checks
    <3>1. c.group = turn \/ Over(c.group)
      BY <2>1 DEF ChecksInv
    <3> QED  BY <1>2, <1>11, <1>12, <3>1 DEF Groups
  <2>2. CASE c \notin checks
    BY <1>2, <1>4, <1>12, <2>2
  <2> QED  BY <2>1, <2>2
<1>13. ChecksTell'
  <2>1. \A c, d \in checks' :
          c.group = d.group /\ c.id = d.id /\ c.group # "custom" => c = d
    <3> SUFFICES ASSUME NEW c \in checks', NEW d \in checks', c.group = d.group,
                        c.id = d.id, c.group # "custom"
                 PROVE  c = d
      OBVIOUS
    <3>1. CASE c \in checks /\ d \in checks
      BY <3>1 DEF ChecksInv, ChecksTell
    <3>2. CASE ~(c \in checks /\ d \in checks)
      BY <1>4, <3>2
    <3> QED  BY <3>1, <3>2
  <2>2. turn' = "end" => \A g \in Groups : Over(g)'
    BY DEF Over
  <2>3. turn' = "end" => \A g \in Groups : \A n \in NamesOf(g) : Settled(g, n)'
    BY <1>9, <2>2
  <2> QED  BY <1>7, <2>1, <2>3 DEF ChecksTell, Settled
<1>14. /\ left' \subseteq NamesOf(turn') \/ turn' = "end"
       /\ turn' = "end" => left' = {}
       /\ turn' \in Groups => turn' \in {"php", "db", "custom"} /\ left' = NamesOf(turn')
                              /\ seen' = {}
       /\ turn' \in Groups \cup {"end"} /\ "end" \notin Groups
  BY <1>2 DEF Groups
<1>15. turn' \in {"web", "db"} =>
         /\ \A c \in checks' : c.group = turn' =>
              c.id \in seen' /\ \A n \in dialled' : IdOf[n] # c.id
         /\ \A i \in seen' : \/ \E c \in checks' : c.group = turn' /\ c.id = i
                             \/ \E n \in dialled' : IdOf[n] = i
  BY <1>12, <1>14 DEF Groups
<1>16. turn' \notin WebPorts /\ turn' # "443"
  BY <1>2 DEF WebPorts
<1>17. turn' = "php" /\ left' # {} =>
         left' = PhpNames /\ \A c \in checks' : c.group # "php"
  BY <1>5, <1>12, <1>14 DEF Groups
<1>18. \A g \in Groups : \A n \in NamesOf(g) :
          Over(g)' \/ (g = turn' /\ n \notin (left \cup dialled)') => Settled(g, n)'
  BY <1>9, <1>14
<1>19. /\ always' \subseteq facts' /\ facts' \subseteq ever'
       /\ webUp' => \E p \in WebPorts : Open(p) \in ever'
       /\ turn' \in Groups /\ ~webUp' => \A p \in WebPorts : Open(p) \notin always'
  BY <1>1 DEF ChecksInv
<1> QED
  BY <1>1, <1>6, <1>10, <1>13, <1>14, <1>15, <1>16, <1>17, <1>18, <1>19 DEF ChecksInv

\* Asking about a unit of the group under way settles one more name.  What the
\* three ways of doing it have in common: the checks that join are witnessed, of
\* this group and, but for "custom", of a service not reported before.
LEMMA AskingKeeps ==
  ASSUME NEW n \in Names, ChecksInv, turn \in {"web", "db", "custom"},
         UNCHANGED <<facts, ever, always, flips, turn, webUp>>,
         silent \subseteq silent', silent' \subseteq Groups \X Ids,
         left' \subseteq left, seen \subseteq seen', seen' \subseteq Ids,
         checks \subseteq checks',
         \A c \in checks' \ checks :
           /\ c = Check(IdOf[n], n, c.status)
           /\ c.status \in {"up", "down", "degraded", "unknown"}
           /\ Witnessed(c)'
           /\ turn # "custom" => \A d \in checks' : d.group = turn /\ d.id = c.id => d = c,
         dialled' \in {{}, {n}},
         dialled' # {} => /\ turn = "db" /\ n \in DbNames \ left'
                          /\ IdOf[n] \in seen' /\ Active(IdOf[n]) \in ever,
         turn \in {"web", "db"} =>
           /\ \A c \in checks' : c.group = turn =>
                c.id \in seen' /\ \A m \in dialled' : IdOf[m] # c.id
           /\ \A i \in seen' : \/ \E c \in checks' : c.group = turn /\ c.id = i
                               \/ \E m \in dialled' : IdOf[m] = i,
         \A m \in NamesOf(turn) :
           m \notin left' \cup dialled' => Settled(turn, m)'
  PROVE  ChecksInv'
<1>1. turn \in Groups /\ turn \notin WebPorts /\ turn # "443" /\ turn # "end" /\ turn # "php"
  BY DEF Groups, WebPorts
<1>2. CheckTypeOK'
  <2>1. left' \subseteq Names /\ dialled' \subseteq Names
    BY DEF ChecksInv, CheckTypeOK
  <2>2. \A c \in checks' \ checks : c \in [id : Ids \cup {"web"}, name : Names \cup {"web"},
                                           group : Groups,
                                           status : {"up", "down", "degraded", "unknown"}]
    BY <1>1, CheckAssumption DEF CheckAssumption, Check
  <2>3. checks' \subseteq [id : Ids \cup {"web"}, name : Names \cup {"web"},
                           group : Groups,
                           status : {"up", "down", "degraded", "unknown"}]
    BY <2>2 DEF ChecksInv, CheckTypeOK
  <2> QED  BY <2>1, <2>3 DEF ChecksInv, CheckTypeOK
<1>3. \A c \in checks' : Witnessed(c)'
  <2> SUFFICES ASSUME NEW c \in checks PROVE Witnessed(c)'
    OBVIOUS
  <2>1. c.status \in {"up", "down", "degraded", "unknown"} /\ Witnessed(c)
    BY DEF ChecksInv, CheckTypeOK, ChecksTell
  <2> QED  BY <2>1, ChecksLast
<1>4. \A c \in checks' \ checks : c.group = turn
  BY DEF Check
<1>5. \A c, d \in checks' :
         c.group = d.group /\ c.id = d.id /\ c.group # "custom" => c = d
  <2> SUFFICES ASSUME NEW c \in checks', NEW d \in checks', c.group = d.group,
                      c.id = d.id, c.group # "custom"
               PROVE  c = d
    OBVIOUS
  <2>1. CASE c \in checks /\ d \in checks
    BY <2>1 DEF ChecksInv, ChecksTell
  <2>2. CASE c \notin checks
    BY <1>4, <2>2
  <2>3. CASE d \notin checks
    BY <1>4, <2>3
  <2> QED  BY <2>1, <2>2, <2>3
<1>6. ChecksTell'
  BY <1>1, <1>3, <1>5 DEF ChecksTell
<1>7. \A g \in Groups : Over(g)' <=> Over(g)
  BY DEF Over
<1>8. \A c \in checks' : c.group = turn' \/ Over(c.group)'
  <2> SUFFICES ASSUME NEW c \in checks' PROVE c.group = turn' \/ Over(c.group)'
    OBVIOUS
  <2>1. c.group \in Groups
    BY <1>2 DEF CheckTypeOK
  <2> QED  BY <1>4, <1>7, <2>1 DEF ChecksInv
<1>9. \A g \in Groups : \A m \in NamesOf(g) :
         Over(g)' \/ (g = turn' /\ m \notin (left \cup dialled)') => Settled(g, m)'
  <2> SUFFICES ASSUME NEW g \in Groups, NEW m \in NamesOf(g), Over(g)
               PROVE  Settled(g, m)'
    BY <1>7
  <2>1. Settled(g, m)
    BY DEF ChecksInv
  <2> QED  BY <2>1, ChecksLast
<1>10. left' \subseteq NamesOf(turn)
  BY <1>1 DEF ChecksInv
<1>11. /\ always' \subseteq facts' /\ facts' \subseteq ever'
       /\ webUp' => \E p \in WebPorts : Open(p) \in ever'
       /\ turn' \in Groups /\ ~webUp' => \A p \in WebPorts : Open(p) \notin always'
  BY DEF ChecksInv
<1>12. \A m \in dialled' : /\ turn' = "db" /\ m \in DbNames \ left'
                           /\ IdOf[m] \in seen' /\ Active(IdOf[m]) \in ever'
                           /\ dialled' = {m}
  OBVIOUS
<1> QED
  BY <1>1, <1>2, <1>6, <1>8, <1>9, <1>10, <1>11, <1>12 DEF ChecksInv

LEMMA AskUnitKeeps ==
  ASSUME NEW n \in Names, ChecksInv, AskUnit(n)
  PROVE  ChecksInv'
<1>1. /\ n \in left /\ dialled = {} /\ left' = left \ {n}
      /\ UNCHANGED <<facts, ever, always, flips, turn, webUp, silent>>
      /\ turn \in {"web", "db", "custom"}
  BY DEF AskUnit, hostFacts, ChecksInv, Groups, CheckTypeOK
<1>2. always \subseteq facts /\ facts \subseteq ever /\ IdOf[n] \in Ids
  BY CheckAssumption DEF CheckAssumption, ChecksInv
<1>3. n \in NamesOf(turn) /\ (turn = "db" => n \in DbNames)
  BY <1>1 DEF ChecksInv, Groups, NamesOf
<1>4. \A m \in NamesOf(turn) : m \notin left => Settled(turn, m)
  BY <1>1 DEF ChecksInv, Groups
<1>5. turn \in {"web", "db"} =>
        /\ \A c \in checks : c.group = turn => c.id \in seen
        /\ \A i \in seen : \E c \in checks : c.group = turn /\ c.id = i
  BY <1>1 DEF ChecksInv
\* The check that the answer makes, if it makes one.
<1>6. ASSUME NEW s \in {"up", "down", "unknown"}, Told(n, s), dialled' = {},
             seen' \in {seen, seen \cup {IdOf[n]}},
             turn # "custom" => IdOf[n] \in seen' /\ IdOf[n] \notin seen,
             Witnessed(Check(IdOf[n], n, s))
      PROVE  ChecksInv'
  <2>0. PICK new : new = Check(IdOf[n], n, s)
    OBVIOUS
  <2>1. /\ checks' = checks \cup {new} /\ new.id = IdOf[n] /\ new.group = turn
        /\ new.status = s /\ new = Check(IdOf[n], n, new.status) /\ Witnessed(new)
    BY <1>6, <2>0 DEF Told, Check
  <2>2. Witnessed(new)'
    BY <1>1, <1>6, <2>1, ChecksLast
  <2>3. turn # "custom" => \A d \in checks' : d.group = turn /\ d.id = new.id => d = new
    BY <1>1, <1>5, <1>6, <2>1
  <2>4. turn \in {"web", "db"} =>
          /\ \A c \in checks' : c.group = turn =>
               c.id \in seen' /\ \A m \in dialled' : IdOf[m] # c.id
          /\ \A i \in seen' : \/ \E c \in checks' : c.group = turn /\ c.id = i
                              \/ \E m \in dialled' : IdOf[m] = i
    BY <1>5, <1>6, <2>1
  <2>5. Settled(turn, n)'
    BY <1>1, <2>1 DEF Settled
  <2>6. \A m \in NamesOf(turn) : m \notin left' \cup dialled' => Settled(turn, m)'
    <3> SUFFICES ASSUME NEW m \in NamesOf(turn), m # n, m \notin left'
                 PROVE  Settled(turn, m)'
      BY <2>5
    <3>1. Settled(turn, m)
      BY <1>1, <1>4
    <3> QED  BY <1>1, <2>1, <3>1, ChecksLast
  <2>7. \A c \in checks' \ checks : c = new
    BY <2>1
  <2>8. /\ checks \subseteq checks' /\ left' \subseteq left /\ silent' \subseteq Groups \X Ids
        /\ seen \subseteq seen' /\ seen' \subseteq Ids /\ silent \subseteq silent'
    BY <1>1, <1>2, <1>6, <2>1 DEF ChecksInv, CheckTypeOK
  <2>9. \A c \in checks' \ checks :
           /\ c = Check(IdOf[n], n, c.status)
           /\ c.status \in {"up", "down", "degraded", "unknown"}
           /\ Witnessed(c)'
           /\ turn # "custom" => \A d \in checks' : d.group = turn /\ d.id = c.id => d = c
    BY <2>1, <2>2, <2>3, <2>7
  <2> QED
    BY <1>1, <1>6, <2>4, <2>6, <2>8, <2>9, AskingKeeps
\* Nothing is reported, and nothing need be.
<1>7. ASSUME UNCHANGED <<seen, checks>>, dialled' = {}, Settled(turn, n)
      PROVE  ChecksInv'
  <2>1. \A m \in NamesOf(turn) : m \notin left' \cup dialled' => Settled(turn, m)'
    <3> SUFFICES ASSUME NEW m \in NamesOf(turn), m \notin left' PROVE Settled(turn, m)'
      OBVIOUS
    <3>1. Settled(turn, m)
      BY <1>1, <1>4, <1>7
    <3> QED  BY <1>1, <1>7, <3>1, ChecksLast
  <2>2. silent \subseteq Groups \X Ids /\ seen \subseteq Ids
    BY DEF ChecksInv, CheckTypeOK
  <2> QED  BY <1>1, <1>5, <1>7, <2>1, <2>2, AskingKeeps
<1>8. CASE Loaded(IdOf[n]) \in facts /\ Fresh(n)
  <2>1. seen' = seen \cup {IdOf[n]}
    BY <1>8 DEF AskUnit
  <2>2. turn # "custom" => IdOf[n] \notin seen
    BY <1>8 DEF Fresh
  <2>3. CASE turn = "web"
    <3> DEFINE s == IF Active(IdOf[n]) \in facts \/ webUp THEN "up" ELSE "down"
    <3>1. Told(n, s) /\ dialled' = {}
      BY <1>1, <1>8, <2>3 DEF AskUnit
    <3>2. Witnessed(Check(IdOf[n], n, s))
      <4>1. /\ webUp => \E p \in WebPorts : Open(p) \in ever
            /\ ~webUp => \A p \in WebPorts : Open(p) \notin always
        BY <2>3 DEF ChecksInv, Groups
      <4>2. CASE Active(IdOf[n]) \in facts \/ webUp
        BY <1>2, <2>3, <4>1, <4>2 DEF Witnessed, Check
      <4>3. CASE ~(Active(IdOf[n]) \in facts \/ webUp)
        BY <1>2, <2>3, <4>1, <4>3 DEF Witnessed, Check
      <4> QED  BY <4>2, <4>3
    <3>3. s \in {"up", "down", "unknown"}
      OBVIOUS
    <3> HIDE DEF s
    <3> QED  BY <1>6, <2>1, <2>2, <2>3, <3>1, <3>2, <3>3
  <2>4. CASE turn = "db" /\ Active(IdOf[n]) \in facts
    <3>1. dialled' = {n} /\ checks' = checks
      BY <1>8, <2>4 DEF AskUnit
    <3>2. \A m \in NamesOf(turn) : m \notin left' \cup dialled' => Settled(turn, m)'
      <4> SUFFICES ASSUME NEW m \in NamesOf(turn), m # n, m \notin left'
                   PROVE  Settled(turn, m)'
        BY <3>1
      <4>1. Settled(turn, m)
        BY <1>1, <1>4
      <4> QED  BY <1>1, <3>1, <4>1, ChecksLast
    <3>3. /\ silent \subseteq Groups \X Ids /\ seen' \subseteq Ids
          /\ left' \subseteq left /\ seen \subseteq seen' /\ silent \subseteq silent'
      BY <1>1, <1>2, <2>1 DEF ChecksInv, CheckTypeOK
    <3>4. /\ turn = "db" /\ n \in DbNames \ left'
          /\ IdOf[n] \in seen' /\ Active(IdOf[n]) \in ever
      BY <1>1, <1>2, <1>3, <2>1, <2>4
    <3>5. turn \in {"web", "db"} =>
            /\ \A c \in checks' : c.group = turn =>
                 c.id \in seen' /\ \A m \in dialled' : IdOf[m] # c.id
            /\ \A i \in seen' : \/ \E c \in checks' : c.group = turn /\ c.id = i
                                \/ \E m \in dialled' : IdOf[m] = i
      BY <1>5, <2>1, <2>2, <2>4, <3>1
    <3> QED  BY <1>1, <3>1, <3>2, <3>3, <3>4, <3>5, AskingKeeps
  <2>5. CASE turn = "custom" \/ (turn = "db" /\ Active(IdOf[n]) \notin facts)
    <3> DEFINE s == IF Active(IdOf[n]) \in facts THEN "up" ELSE "down"
    <3>1. Told(n, s) /\ dialled' = {}
      BY <1>1, <1>8, <2>5 DEF AskUnit
    <3>2. Witnessed(Check(IdOf[n], n, s))
      <4>1. CASE Active(IdOf[n]) \in facts
        BY <1>2, <2>5, <4>1 DEF Witnessed, Check
      <4>2. CASE Active(IdOf[n]) \notin facts
        BY <1>2, <2>5, <4>2 DEF Witnessed, Check
      <4> QED  BY <4>1, <4>2
    <3>3. s \in {"up", "down", "unknown"}
      OBVIOUS
    <3> HIDE DEF s
    <3> QED  BY <1>6, <2>1, <2>2, <3>1, <3>2, <3>3
  <2> QED  BY <1>1, <2>3, <2>4, <2>5
<1>9. CASE ~(Loaded(IdOf[n]) \in facts /\ Fresh(n))
  <2>1. UNCHANGED <<seen, dialled>>
    BY <1>9 DEF AskUnit
  <2>2. CASE turn = "custom"
    <3>1. Told(n, "unknown")
      BY <1>9, <2>2 DEF AskUnit
    <3>2. Witnessed(Check(IdOf[n], n, "unknown"))
      BY <1>2, <1>9, <2>2 DEF Witnessed, Check, Fresh
    <3> QED  BY <1>1, <1>6, <2>1, <2>2, <3>1, <3>2
  <2>3. CASE turn # "custom"
    <3>1. checks' = checks
      BY <1>9, <2>3 DEF AskUnit
    <3>2. Settled(turn, n)
      <4>1. CASE Loaded(IdOf[n]) \notin facts
        BY <1>2, <4>1 DEF Settled
      <4>2. CASE ~Fresh(n)
        BY <1>1, <1>5, <2>3, <4>2 DEF Settled, Fresh
      <4> QED  BY <1>9, <4>1, <4>2
    <3> QED  BY <1>1, <1>7, <2>1, <3>1, <3>2
  <2> QED  BY <2>2, <2>3
<1> QED  BY <1>8, <1>9

LEMMA AskTimesOutKeeps ==
  ASSUME NEW n \in Names, ChecksInv, AskTimesOut(n)
  PROVE  ChecksInv'
<1>1. /\ n \in left /\ dialled = {} /\ dialled' = {} /\ left' = left \ {n}
      /\ silent' = silent \cup {<<turn, IdOf[n]>>}
      /\ UNCHANGED <<facts, ever, always, flips, turn, webUp, seen>>
      /\ turn \in {"web", "db", "custom"}
  BY DEF AskTimesOut, hostFacts, ChecksInv, Groups, CheckTypeOK
<1>2. IdOf[n] \in Ids
  BY CheckAssumption DEF CheckAssumption
<1>3. /\ silent \subseteq silent' /\ silent' \subseteq Groups \X Ids
      /\ left' \subseteq left /\ seen \subseteq Ids
  BY <1>1, <1>2 DEF ChecksInv, CheckTypeOK, Groups
<1>4. PICK new : new = Check(IdOf[n], n, "unknown")
  OBVIOUS
<1>5. /\ new.id = IdOf[n] /\ new.group = turn /\ new.status = "unknown"
      /\ new = Check(IdOf[n], n, new.status)
  BY <1>4 DEF Check
<1>6. /\ turn = "custom" => checks' = checks \cup {new}
      /\ turn # "custom" => checks' = checks
  BY <1>4 DEF AskTimesOut, Told
<1>7. Witnessed(new)'
  BY <1>1, <1>5 DEF Witnessed
<1>8. \A c \in checks' \ checks : turn = "custom" /\ c = new
  BY <1>6
<1>9. checks \subseteq checks'
  BY <1>6
<1>10. \A m \in NamesOf(turn) : m \notin left' \cup dialled' => Settled(turn, m)'
  <2> SUFFICES ASSUME NEW m \in NamesOf(turn), m \notin left'
               PROVE  Settled(turn, m)'
    OBVIOUS
  <2>1. CASE m = n
    BY <1>1, <2>1 DEF Settled
  <2>2. CASE m # n
    <3>1. Settled(turn, m)
      BY <1>1, <2>2 DEF ChecksInv, Groups
    <3> QED  BY <1>1, <1>3, <1>9, <3>1, ChecksLast
  <2> QED  BY <2>1, <2>2
<1>11. turn \in {"web", "db"} =>
         /\ \A c \in checks' : c.group = turn =>
              c.id \in seen' /\ \A m \in dialled' : IdOf[m] # c.id
         /\ \A i \in seen' : \/ \E c \in checks' : c.group = turn /\ c.id = i
                             \/ \E m \in dialled' : IdOf[m] = i
  BY <1>1, <1>6 DEF ChecksInv
<1>12. \A c \in checks' \ checks :
         /\ c = Check(IdOf[n], n, c.status)
         /\ c.status \in {"up", "down", "degraded", "unknown"}
         /\ Witnessed(c)'
         /\ turn # "custom" => \A d \in checks' : d.group = turn /\ d.id = c.id => d = c
  BY <1>5, <1>7, <1>8
<1> QED  BY <1>1, <1>3, <1>9, <1>10, <1>11, <1>12, AskingKeeps

LEMMA DialDatabaseKeeps ==
  ASSUME NEW n \in Names, ChecksInv, DialDatabase(n)
  PROVE  ChecksInv'
<1>1. /\ n \in dialled /\ dialled' = {}
      /\ UNCHANGED <<facts, ever, always, flips, turn, webUp, seen, left, silent>>
  BY DEF DialDatabase, hostFacts
<1>2. /\ turn = "db" /\ dialled = {n} /\ n \in DbNames \ left
      /\ IdOf[n] \in seen /\ Active(IdOf[n]) \in ever
      /\ always \subseteq facts /\ facts \subseteq ever
  BY <1>1 DEF ChecksInv
<1>3. PICK s \in {"up", "degraded"} :
         /\ s = IF Open(IdOf[n]) \in facts THEN "up" ELSE "degraded"
         /\ Told(n, s)
  BY DEF DialDatabase
<1>4. PICK new : new = Check(IdOf[n], n, s)
  OBVIOUS
<1>5. /\ checks' = checks \cup {new} /\ new.id = IdOf[n] /\ new.group = turn
      /\ new.status = s /\ new = Check(IdOf[n], n, new.status)
  BY <1>3, <1>4 DEF Told, Check
<1>6. Witnessed(new)'
  BY <1>1, <1>2, <1>3, <1>5 DEF Witnessed
<1>7. /\ silent \subseteq silent' /\ silent' \subseteq Groups \X Ids /\ seen' \subseteq Ids
      /\ left' \subseteq left /\ seen \subseteq seen' /\ checks \subseteq checks'
  BY <1>1, <1>5 DEF ChecksInv, CheckTypeOK
<1>8. \A c \in checks : c.group = turn => c.id \in seen /\ IdOf[n] # c.id
  BY <1>2 DEF ChecksInv
<1>9. \A m \in NamesOf(turn) : m \notin left' \cup dialled' => Settled(turn, m)'
  <2> SUFFICES ASSUME NEW m \in NamesOf(turn), m \notin left'
               PROVE  Settled(turn, m)'
    OBVIOUS
  <2>1. CASE m = n
    BY <1>1, <1>5, <2>1 DEF Settled
  <2>2. CASE m # n
    <3>1. Settled(turn, m)
      BY <1>1, <1>2, <2>2 DEF ChecksInv, Groups
    <3> QED  BY <1>1, <1>7, <3>1, ChecksLast
  <2> QED  BY <2>1, <2>2
<1>10. /\ \A c \in checks' : c.group = turn =>
            c.id \in seen' /\ \A m \in dialled' : IdOf[m] # c.id
       /\ \A i \in seen' : \/ \E c \in checks' : c.group = turn /\ c.id = i
                           \/ \E m \in dialled' : IdOf[m] = i
  <2>1. \A i \in seen : (\E c \in checks : c.group = turn /\ c.id = i) \/ IdOf[n] = i
    BY <1>2 DEF ChecksInv
  <2> QED  BY <1>1, <1>2, <1>5, <1>8, <2>1
<1>11. \A c \in checks' \ checks :
         /\ c = Check(IdOf[n], n, c.status)
         /\ c.status \in {"up", "down", "degraded", "unknown"}
         /\ Witnessed(c)'
         /\ turn # "custom" => \A d \in checks' : d.group = turn /\ d.id = c.id => d = c
  <2>1. \A c \in checks' \ checks : c = new
    BY <1>5
  <2>2. \A d \in checks' : d.group = turn /\ d.id = new.id => d = new
    BY <1>5, <1>8
  <2> QED  BY <1>3, <1>5, <1>6, <2>1, <2>2
<1> QED  BY <1>1, <1>2, <1>7, <1>9, <1>10, <1>11, AskingKeeps

LEMMA ListPhpKeeps == ChecksInv /\ ListPhp => ChecksInv'
<1> SUFFICES ASSUME ChecksInv, ListPhp PROVE ChecksInv'
  OBVIOUS
<1>1. /\ turn = "php" /\ left = PhpNames /\ left # {} /\ left' = {}
      /\ UNCHANGED <<facts, ever, always, flips, turn, webUp, seen, dialled>>
  BY DEF ListPhp, hostFacts
<1>2. /\ always \subseteq facts /\ facts \subseteq ever /\ dialled = {}
      /\ \A c \in checks : c.group # "php"
      /\ \A n \in PhpNames : n \in Names /\ IdOf[n] \in Ids
      /\ \A m, n \in PhpNames : IdOf[m] = IdOf[n] => m = n
      /\ NamesOf("php") = PhpNames
  BY <1>1, CheckAssumption DEF CheckAssumption, ChecksInv, Names, NamesOf
<1>3. /\ checks \subseteq checks' /\ silent \subseteq silent'
      /\ silent' \subseteq Groups \X Ids
      /\ \A c \in checks' \ checks : \E n \in PhpNames :
           /\ Loaded(IdOf[n]) \in facts
           /\ c = [id |-> IdOf[n], name |-> n, group |-> "php",
                   status |-> IF Active(IdOf[n]) \in facts THEN "up" ELSE "down"]
      /\ \A n \in PhpNames : \/ \E c \in checks' : c.group = "php" /\ c.id = IdOf[n]
                             \/ Loaded(IdOf[n]) \notin facts
                             \/ <<"php", IdOf[n]>> \in silent'
  <2> DEFINE listed == {n \in PhpNames : Loaded(IdOf[n]) \in facts}
  <2>1. CASE /\ checks' = checks \cup
                  {Check(IdOf[n], n, IF Active(IdOf[n]) \in facts THEN "up" ELSE "down") :
                     n \in listed}
             /\ UNCHANGED silent
    <3>1. \A n \in listed : Check(IdOf[n], n, IF Active(IdOf[n]) \in facts THEN "up" ELSE "down")
                              = [id |-> IdOf[n], name |-> n, group |-> "php",
                                 status |-> IF Active(IdOf[n]) \in facts THEN "up" ELSE "down"]
      BY <1>1 DEF Check
    <3>2. silent \subseteq Groups \X Ids
      BY DEF ChecksInv, CheckTypeOK
    <3>3. ASSUME NEW c \in checks' \ checks
          PROVE  \E n \in PhpNames :
                   /\ Loaded(IdOf[n]) \in facts
                   /\ c = [id |-> IdOf[n], name |-> n, group |-> "php",
                           status |-> IF Active(IdOf[n]) \in facts THEN "up" ELSE "down"]
      BY <2>1, <3>1
    <3>4. ASSUME NEW n \in PhpNames, Loaded(IdOf[n]) \in facts
          PROVE  \E c \in checks' : c.group = "php" /\ c.id = IdOf[n]
      <4>1. n \in listed
        BY <3>4
      <4>2. PICK c \in checks' :
               c = [id |-> IdOf[n], name |-> n, group |-> "php",
                    status |-> IF Active(IdOf[n]) \in facts THEN "up" ELSE "down"]
        BY <2>1, <3>1, <4>1
      <4> QED  BY <4>2
    <3> QED  BY <2>1, <3>2, <3>3, <3>4
  <2>2. CASE /\ silent' = silent \cup {<<turn, IdOf[n]>> : n \in PhpNames}
             /\ UNCHANGED checks
    <3>1. silent' \subseteq Groups \X Ids
      BY <1>1, <1>2, <2>2 DEF ChecksInv, CheckTypeOK, Groups
    <3> QED  BY <1>1, <2>2, <3>1
  <2> QED  BY <2>1, <2>2 DEF ListPhp
<1>4. \A c \in checks' \ checks :
        /\ c.group = "php" /\ c.status \in {"up", "down"}
        /\ c.id \in Ids /\ c \in [id : Ids \cup {"web"}, name : Names \cup {"web"},
                                  group : Groups,
                                  status : {"up", "down", "degraded", "unknown"}]
        /\ c.status = "up" => Active(c.id) \in ever
        /\ c.status = "down" => Active(c.id) \notin always
  <2> SUFFICES ASSUME NEW c \in checks' \ checks, NEW n \in PhpNames,
                      c = [id |-> IdOf[n], name |-> n, group |-> "php",
                           status |-> IF Active(IdOf[n]) \in facts THEN "up" ELSE "down"]
               PROVE  /\ c.group = "php" /\ c.status \in {"up", "down"}
                      /\ c.id \in Ids
                      /\ c \in [id : Ids \cup {"web"}, name : Names \cup {"web"},
                                group : Groups,
                                status : {"up", "down", "degraded", "unknown"}]
                      /\ c.status = "up" => Active(c.id) \in ever
                      /\ c.status = "down" => Active(c.id) \notin always
    BY <1>3
  <2>1. CASE Active(IdOf[n]) \in facts
    BY <1>2, <2>1 DEF Groups
  <2>2. CASE Active(IdOf[n]) \notin facts
    BY <1>2, <2>2 DEF Groups
  <2> QED  BY <2>1, <2>2
<1>5. \A c \in checks' : Witnessed(c)'
  <2> SUFFICES ASSUME NEW c \in checks' PROVE Witnessed(c)'
    OBVIOUS
  <2>1. CASE c \in checks
    <3>1. c.status \in {"up", "down", "degraded", "unknown"} /\ Witnessed(c)
      BY <2>1 DEF ChecksInv, CheckTypeOK, ChecksTell
    <3> QED  BY <1>1, <1>3, <3>1, ChecksLast
  <2>2. CASE c \notin checks
    <3>1. CASE c.status = "up"
      BY <1>1, <1>4, <2>2, <3>1 DEF Witnessed
    <3>2. CASE c.status = "down"
      BY <1>1, <1>4, <2>2, <3>2 DEF Witnessed
    <3> QED  BY <1>4, <2>2, <3>1, <3>2
  <2> QED  BY <2>1, <2>2
<1>6. \A c, d \in checks' :
        c.group = d.group /\ c.id = d.id /\ c.group # "custom" => c = d
  <2> SUFFICES ASSUME NEW c \in checks', NEW d \in checks', c.group = d.group,
                      c.id = d.id, c.group # "custom"
               PROVE  c = d
    OBVIOUS
  <2>1. CASE c \in checks /\ d \in checks
    BY <2>1 DEF ChecksInv, ChecksTell
  <2>2. CASE c \notin checks /\ d \notin checks
    <3>1. PICK m \in PhpNames :
             c = [id |-> IdOf[m], name |-> m, group |-> "php",
                  status |-> IF Active(IdOf[m]) \in facts THEN "up" ELSE "down"]
      BY <1>3, <2>2
    <3>2. PICK n \in PhpNames :
             d = [id |-> IdOf[n], name |-> n, group |-> "php",
                  status |-> IF Active(IdOf[n]) \in facts THEN "up" ELSE "down"]
      BY <1>3, <2>2
    <3>3. m = n
      BY <1>2, <3>1, <3>2
    <3> QED  BY <3>1, <3>2, <3>3
  <2>3. CASE \/ c \in checks /\ d \notin checks
             \/ d \in checks /\ c \notin checks
    BY <1>2, <1>4, <2>3
  <2> QED  BY <2>1, <2>2, <2>3
<1>7. ChecksTell'
  BY <1>1, <1>5, <1>6 DEF ChecksTell
<1>8. CheckTypeOK'
  <2>1. checks' \subseteq [id : Ids \cup {"web"}, name : Names \cup {"web"},
                           group : Groups,
                           status : {"up", "down", "degraded", "unknown"}]
    BY <1>4 DEF ChecksInv, CheckTypeOK
  <2> QED  BY <1>1, <1>3, <2>1 DEF ChecksInv, CheckTypeOK
<1>9. \A g \in Groups : Over(g)' <=> Over(g)
  BY <1>1 DEF Over
<1>10. \A c \in checks' : c.group = turn' \/ Over(c.group)'
  <2> SUFFICES ASSUME NEW c \in checks' PROVE c.group = turn' \/ Over(c.group)'
    OBVIOUS
  <2>1. c.group \in Groups
    BY <1>8 DEF CheckTypeOK
  <2> QED  BY <1>1, <1>4, <1>9, <2>1 DEF ChecksInv
<1>11. \A g \in Groups : \A n \in NamesOf(g) :
         Over(g)' \/ (g = turn' /\ n \notin (left \cup dialled)') => Settled(g, n)'
  <2> SUFFICES ASSUME NEW g \in Groups, NEW n \in NamesOf(g),
                      Over(g) \/ g = turn
               PROVE  Settled(g, n)'
    BY <1>1, <1>9
  <2>1. CASE Over(g)
    <3>1. Settled(g, n)
      BY <2>1 DEF ChecksInv
    <3> QED  BY <1>1, <1>3, <3>1, ChecksLast
  <2>2. CASE g = turn
    BY <1>1, <1>2, <1>3, <2>2 DEF Settled
  <2> QED  BY <2>1, <2>2
<1>12. /\ always' \subseteq facts' /\ facts' \subseteq ever'
       /\ webUp' => \E p \in WebPorts : Open(p) \in ever'
       /\ turn' \in Groups /\ ~webUp' => \A p \in WebPorts : Open(p) \notin always'
       /\ turn' \notin WebPorts \cup {"443", "end", "web", "db"} /\ turn' \in Groups
  BY <1>1 DEF ChecksInv, Groups, WebPorts
<1> QED
  BY <1>1, <1>2, <1>7, <1>8, <1>10, <1>11, <1>12 DEF ChecksInv

LEMMA ChecksInvNext == ChecksInv /\ [CheckNext]_checkVars => ChecksInv'
<1> SUFFICES ASSUME ChecksInv, [CheckNext]_checkVars PROVE ChecksInv'
  OBVIOUS
<1>1. CASE UNCHANGED checkVars
  BY <1>1 DEF checkVars, hostFacts, ChecksInv, CheckTypeOK, ChecksTell, Witnessed,
              Over, Settled
<1> QED
  BY <1>1, HostFlipsKeeps, DialWebKeeps, ListPhpKeeps, NextGroupKeeps, AskUnitKeeps,
     AskTimesOutKeeps, DialDatabaseKeeps DEF CheckNext

-----------------------------------------------------------------------------
(* The composition.                                                        *)

LEMMA LifeInvInit == LifeInit => LifeInv
<1> SUFFICES ASSUME LifeInit PROVE LifeInv
  OBVIOUS
<1>1. /\ RunInv /\ PairInv /\ CapInv /\ LogInv /\ ListInv /\ ReporterInv /\ ChecksInv
  BY RunInvInit, PairInvInit, CapInvInit, LogInvInit, ListInvInit, ReporterInvInit,
     ChecksInvInit DEF LifeInit
<1>2. TrayInit /\ part \in Parts /\ PairInit
  BY DEF LifeInit
<1>3. TrayTypeOK
  BY <1>1, <1>2 DEF TrayInit, TrayTypeOK, PairInv, PairTypeOK
<1>4. \A p \in Pairings : flow[p] = "none"
  BY <1>2 DEF PairInit
<1> QED  BY <1>1, <1>2, <1>3, <1>4 DEF LifeInv

LEMMA LifeInvNext == LifeInv /\ [LifeNext]_lifeVars => LifeInv'
<1> SUFFICES ASSUME LifeInv, [LifeNext]_lifeVars PROVE LifeInv'
  OBVIOUS
<1>1. /\ [RunNext]_runVars /\ [CapNext]_capVars /\ [LogNext]_logVars
      /\ [ListNext]_listVars /\ [ReportNext]_reportVars /\ [CheckNext]_checkVars
      /\ UNCHANGED part
  BY LifeStepEach
<1>2. RunInv' /\ CapInv' /\ LogInv' /\ ListInv' /\ ReporterInv' /\ ChecksInv'
  BY <1>1, RunInvNext, CapInvNext, LogInvNext, ListInvNext, ReporterInvNext,
     ChecksInvNext DEF LifeInv
<1>3. CASE part = "pair" /\ PairNext /\ UNCHANGED trayOwn
  <2>1. PairInv'
    BY <1>3, PairInvNext DEF LifeInv
  <2>2. TrayTypeOK'
    BY <1>3, <2>1 DEF LifeInv, TrayTypeOK, trayOwn, PairInv, PairTypeOK
  <2> QED  BY <1>1, <1>2, <1>3, <2>1, <2>2 DEF LifeInv
<1>4. CASE part = "tray" /\ TrayNext /\ UNCHANGED pairOwn
  <2>1. TrayTypeOK'
    BY <1>4, TrayTypes DEF LifeInv
  <2>2. PairInv'
    BY <1>4, <2>1, TrayKeepsPairs DEF LifeInv
  <2> QED  BY <1>1, <1>2, <1>4, <2>1, <2>2 DEF LifeInv, pairOwn
<1>5. CASE UNCHANGED <<pairOwn, trayOwn, svcVars>>
  <2>1. UNCHANGED pairVars /\ UNCHANGED trayVars /\ UNCHANGED flow
    BY <1>5 DEF pairOwn, trayOwn, svcVars, pairVars, trayVars
  <2>2. PairInv' /\ TrayTypeOK'
    BY <2>1, PairInvNext, TrayTypes DEF LifeInv
  <2> QED  BY <1>1, <1>2, <2>1, <2>2 DEF LifeInv
<1> QED  BY <1>3, <1>4, <1>5, LifeStepEach

\* The inductive invariant of the composition holds.
THEOREM LifeInvariant == LifeSpec => []LifeInv
<1>1. LifeInv /\ [LifeNext]_lifeVars => LifeInv'
  BY LifeInvNext
<1> QED  BY <1>1, LifeInvInit, PTL DEF LifeSpec

\* Type correctness of every protocol of an agent's life.
THEOREM LifeTypes == LifeSpec => []LifeTypeOK
<1>1. LifeInv => LifeTypeOK
  BY DEF LifeInv, LifeTypeOK, RunInv, PairInv, CapInv, LogInv, ListInv, ReporterInv,
         ChecksInv
<1> QED  BY <1>1, LifeInvariant, PTL

\* However flows, windows and cancellations of several pairings interleave, the
\* configuration and the key on disk name the same pairing unless a flow is
\* between its two saves, was cut short there or overlapped another; and a
\* wizard of the console that ends well has had the service, if there is one,
\* started after its files were saved.
THEOREM PairingIsSafe == LifeSpec => []PairingSafe
<1>1. LifeInv => PairingSafe
  BY DEF LifeInv, PairInv, PairingSafe
<1> QED  BY <1>1, LifeInvariant, PTL

\* Every stream that has not been told to end is the one its channel's entry in
\* the map would end, for any number of streams and through the clean-up, which
\* replaces the map while the transport still delivers.
THEOREM StreamsAreOwned == LifeSpec => []StreamsOwned
<1>1. LifeInv => StreamsOwned
  BY DEF LifeInv, RunInv
<1> QED  BY <1>1, LifeInvariant, PTL

\* What the panel is told is so: a probe that answers misses no tool that was on
\* PATH since it was asked for, JSON is announced only while the listings use it,
\* and every service check was true at some moment of its cycle, names no service
\* twice and passes over none that was there all along.
THEOREM ToldIsSo == LifeSpec => []TellsWhatIs
<1>1. LifeInv => TellsWhatIs
  BY DEF LifeInv, TellsWhatIs, CapInv, ListInv, ChecksInv
<1> QED  BY <1>1, LifeInvariant, PTL

\* The activity log and the sampler's ring hold the newest entries without a
\* hole through evictions, saves that fail and restarts, for any capacity; a
\* console that polls misses none of the log but ties of the millisecond.
THEOREM LogIsSafe == LifeSpec => []LogSafe
<1>1. LifeInv => LogSafe
  BY DEF LifeInv, LogInv, LogSafe
<1> QED  BY <1>1, LifeInvariant, PTL

\* An agent in monitor mode whose reports are accepted, all or all but one, calls
\* itself connected, for any intervals that are long against what collecting and
\* posting may take.
THEOREM StaysConnected == LifeSpec => []ConnectedWhileAccepted
<1>1. LifeInv => ConnectedWhileAccepted
  BY ReporterInvConnects DEF LifeInv
<1> QED  BY <1>1, LifeInvariant, PTL
=============================================================================
