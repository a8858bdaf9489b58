----------------------- MODULE TransportManagerProofs -----------------------
(***************************************************************************)
(* The transport manager never runs two transports, never goes back from   *)
(* the fallback, and never sleeps through the drop that condemns a link,   *)
(* for any window, threshold and delay of its tickers.                     *)
(***************************************************************************)
EXTENDS TransportManager, FiniteSetTheorems, SequenceTheorems, TLAPS

USE ManagerAssumption DEF ManagerAssumption

LEMMA AgedType == \A age \in Ages : \A d \in Nat : Aged(age, d) \in Ages
BY DEF Aged, Ages

LEMMA AppendFall ==
  ASSUME NEW s \in Seq(Ages)
  PROVE  Append(s, 0) \in Seq(Ages)
BY DEF Ages

LEMMA InitManager == Init => ManagerInv
<1> SUFFICES ASSUME Init PROVE ManagerInv
  OBVIOUS
<1>1. drops \subseteq Ages /\ falls \in Seq(Ages) /\ ups \in 0..MaxUps
  BY DEF Init
<1> QED  BY <1>1 DEF Init, ManagerInv, TypeOK, OneTransport

\* TypeOK by who moves the variables: Run, its watch, each of the backends.
RunTypes ==
  /\ ctxDone \in BOOLEAN /\ wsCancelled \in BOOLEAN
  /\ pc \in {"select", "stopping", "diagnose", "tunnel", "flap", "joining",
             "switch", "store", "polling", "returned"}
  /\ active \in {"ws", "poll"} /\ mode \in {"ws", "poll"}
  /\ reason \in {"none", "exited", "tunnel", "flap"}
WatchTypes ==
  deadline \in BOOLEAN /\ wasConnected \in BOOLEAN /\ drops \subseteq Ages
PrimaryTypes ==
  /\ up \in BOOLEAN /\ everUp \in BOOLEAN /\ wsRunning \in BOOLEAN
  /\ err \in {"none", "plain", "tunnel"}
FallbackTypes ==
  /\ stage \in {"off", "connecting", "serving", "returned"}
  /\ pollUp \in BOOLEAN
SeenTypes == falls \in Seq(Ages) /\ ups \in 0..MaxUps

LEMMA TypeParts ==
  TypeOK <=> /\ RunTypes /\ WatchTypes /\ PrimaryTypes
             /\ FallbackTypes /\ SeenTypes
BY DEF TypeOK, RunTypes, WatchTypes, PrimaryTypes, FallbackTypes, SeenTypes

\* What a step leaves alone keeps its types.
LEMMA TypesStay ==
  ASSUME TypeOK
  PROVE  /\ UNCHANGED <<ctxDone, runVars>> => RunTypes'
         /\ UNCHANGED watchVars => WatchTypes'
         /\ UNCHANGED wsVars => PrimaryTypes'
         /\ UNCHANGED pollVars => FallbackTypes'
         /\ UNCHANGED seenVars => SeenTypes'
<1>0. /\ RunTypes /\ WatchTypes /\ PrimaryTypes
      /\ FallbackTypes /\ SeenTypes
  BY TypeParts
<1>1. UNCHANGED <<ctxDone, runVars>> => RunTypes'
  BY <1>0 DEF RunTypes, runVars
<1>2. UNCHANGED watchVars => WatchTypes'
  BY <1>0 DEF WatchTypes, watchVars
<1>3. UNCHANGED wsVars => PrimaryTypes'
  BY <1>0 DEF PrimaryTypes, wsVars
<1>4. UNCHANGED pollVars => FallbackTypes'
  BY <1>0 DEF FallbackTypes, pollVars
<1>5. UNCHANGED seenVars => SeenTypes'
  BY <1>0 DEF SeenTypes, seenVars
<1> QED BY <1>1, <1>2, <1>3, <1>4, <1>5

LEMMA TypePartsNext ==
  ASSUME RunTypes', WatchTypes', PrimaryTypes', FallbackTypes', SeenTypes'
  PROVE  TypeOK'
BY DEF TypeOK, RunTypes, WatchTypes, PrimaryTypes, FallbackTypes, SeenTypes

LEMMA NextManager == ManagerInv /\ [Next]_vars => ManagerInv'
<1> SUFFICES ASSUME ManagerInv, [Next]_vars PROVE ManagerInv'
  OBVIOUS
<1>0. TypeOK
  BY DEF ManagerInv
<1> USE DEF ManagerInv, TypeOK, OneTransport, runVars, watchVars, wsVars, pollVars,
            seenVars
<1>1. CASE SeesCancel  BY <1>1 DEF SeesCancel
<1>2. CASE StopJoined  BY <1>2 DEF StopJoined
<1>3. CASE SeesReturn  BY <1>3 DEF SeesReturn
<1>4. CASE DeadlineFires  BY <1>4 DEF DeadlineFires
<1>5. CASE CheckTicks  BY <1>5 DEF CheckTicks
<1>6. CASE Diagnose  BY <1>6 DEF Diagnose
<1>7. CASE StabilityTicks
  <2>1. PICK d \in 1..MaxStride :
          LET older == {Aged(age, d) : age \in drops} IN
          /\ falls' = [i \in DOMAIN falls |-> Aged(falls[i], d)]
          /\ drops' = IF wasConnected /\ ~up THEN Recent(older \cup {0}) ELSE older
    BY <1>7 DEF StabilityTicks
  <2>2. drops' \subseteq Ages
    <3>1. {Aged(age, d) : age \in drops} \subseteq Ages
      BY <2>1, AgedType
    <3>2. 0 \in Ages  BY DEF Ages
    <3> QED  BY <2>1, <3>1, <3>2 DEF Recent
  <2>3. falls' \in Seq(Ages)
    BY <2>1, AgedType
  <2> QED  BY <1>7, <2>2, <2>3 DEF StabilityTicks
<1>8. CASE GiveUpOnWS  BY <1>8 DEF GiveUpOnWS
<1>9. CASE Joined  BY <1>9 DEF Joined
<1>10. CASE SwitchActive  BY <1>10 DEF SwitchActive
<1>11. CASE StoreMode
  <2>1. TypeOK'  BY <1>11 DEF StoreMode, Fallback!Start
  <2> QED  BY <1>11, <2>1 DEF StoreMode, Fallback!Start
<1>12. CASE FallbackReturned  BY <1>12 DEF FallbackReturned
<1>13. CASE PrimaryMoves
  <2>1. SeenTypes'
    <3>1. falls' \in Seq(Ages)
      BY <1>13, AppendFall DEF PrimaryMoves
    <3>2. ups' \in 0..MaxUps
      BY <1>13 DEF PrimaryMoves
    <3> QED  BY <3>1, <3>2 DEF SeenTypes
  <2>2. UNCHANGED <<ctxDone, runVars, watchVars, pollVars>>
    BY <1>13 DEF PrimaryMoves
  <2>3. RunTypes' /\ WatchTypes' /\ FallbackTypes'
    BY <1>0, <2>2, TypesStay
  <2>4. CASE Primary!Raise
    <3>1. wsRunning /\ up' = TRUE /\ UNCHANGED <<everUp, err, wsRunning>>
      BY ONLY <2>4 DEF Primary!Raise
    <3>2. TypeOK'
      BY <1>0, <2>1, <2>3, <3>1, TypePartsNext DEF PrimaryTypes
    <3> QED  BY <2>2, <3>1, <3>2
  <2>5. CASE Primary!Authenticate
    <3>1. everUp' = TRUE /\ err' = "none" /\ UNCHANGED <<up, wsRunning>>
      BY ONLY <2>5 DEF Primary!Authenticate
    <3>2. TypeOK'
      BY <1>0, <2>1, <2>3, <3>1, TypePartsNext DEF PrimaryTypes
    <3> QED  BY <2>2, <3>1, <3>2
  <2>6. CASE Primary!Fail
    <3>1. /\ up' = FALSE /\ err' \in {"plain", "tunnel"}
          /\ UNCHANGED <<everUp, wsRunning>>
      BY ONLY <2>6 DEF Primary!Fail
    <3>2. TypeOK'
      BY <1>0, <2>1, <2>3, <3>1, TypePartsNext DEF PrimaryTypes
    <3> QED  BY <2>2, <3>1, <3>2
  <2>7. CASE Primary!Lower
    <3>1. up' = FALSE /\ UNCHANGED <<everUp, err, wsRunning>>
      BY ONLY <2>7 DEF Primary!Lower
    <3>2. TypeOK'
      BY <1>0, <2>1, <2>3, <3>1, TypePartsNext DEF PrimaryTypes
    <3> QED  BY <2>2, <3>1, <3>2
  <2> QED  BY <1>13, <2>4, <2>5, <2>6, <2>7 DEF PrimaryMoves
<1>14. CASE PrimaryReturns
  <2>1. falls' \in Seq(Ages)
    BY <1>14, AppendFall DEF PrimaryReturns
  <2>2. /\ wsRunning' = FALSE /\ up' = FALSE /\ UNCHANGED <<everUp, err, ups>>
        /\ UNCHANGED <<ctxDone, runVars, watchVars, pollVars>>
    BY ONLY <1>14 DEF PrimaryReturns, Primary!Return
  <2>3. RunTypes' /\ WatchTypes' /\ FallbackTypes'
    BY <1>0, <2>2, TypesStay
  <2>4. PrimaryTypes' /\ SeenTypes'
    BY <1>0, <2>1, <2>2 DEF PrimaryTypes, SeenTypes
  <2> QED  BY <2>2, <2>3, <2>4, TypePartsNext
<1>15. CASE FallbackMoves
  <2>1. /\ UNCHANGED <<runVars, watchVars, wsVars, seenVars, ctxDone>>
        /\ \/ stage = "connecting" /\ stage' = "serving" /\ pollUp' = TRUE
           \/ stage = "serving" /\ stage' = stage /\ pollUp' = TRUE
           \/ stage' = stage /\ pollUp' = FALSE
    BY ONLY <1>15 DEF FallbackMoves, Fallback!Connect, Fallback!Raise, Fallback!Lower
  <2>2. RunTypes' /\ WatchTypes' /\ PrimaryTypes' /\ SeenTypes'
    BY <1>0, <2>1, TypesStay
  <2>3. FallbackTypes'
    BY <1>0, <2>1 DEF FallbackTypes
  <2> QED  BY <2>1, <2>2, <2>3, TypePartsNext
<1>16. CASE FallbackReturns
  <2>1. /\ UNCHANGED <<runVars, watchVars, wsVars, seenVars, ctxDone>>
        /\ stage \in {"connecting", "serving"} /\ stage' = "returned"
        /\ \/ stage = "connecting" /\ pollUp' = pollUp
           \/ pollUp' = FALSE
    BY ONLY <1>16 DEF FallbackReturns, Fallback!GiveUp, Fallback!Return
  <2>2. RunTypes' /\ WatchTypes' /\ PrimaryTypes' /\ SeenTypes'
    BY <1>0, <2>1, TypesStay
  <2>3. FallbackTypes'
    BY <1>0, <2>1 DEF FallbackTypes
  <2> QED  BY <2>1, <2>2, <2>3, TypePartsNext
<1>17. CASE CancelCtx  BY <1>17 DEF CancelCtx
<1>18. CASE UNCHANGED vars  BY <1>18 DEF vars
<1> QED
  BY <1>1, <1>2, <1>3, <1>4, <1>5, <1>6, <1>7, <1>8, <1>9, <1>10, <1>11, <1>12,
     <1>13, <1>14, <1>15, <1>16, <1>17, <1>18 DEF Next, RunStep, Stopped

\* The agent never talks to the panel over both transports.
THEOREM ManagerSafe == Spec => []ManagerInv
BY InitManager, NextManager, PTL DEF Spec

\* The fallback is final: what Send reaches, the mode it is announced under and
\* the primary's goroutine never come back, and the mode never runs ahead.
THEOREM FallbackFinal == Spec => FallbackIsSticky
<1> DEFINE Sticky == /\ active = "poll" => active' = "poll"
                     /\ mode' = "poll" => active = "poll"
                     /\ ~wsRunning => ~wsRunning'
<1>1. ManagerInv /\ [Next]_vars => [Sticky]_vars
  <2> SUFFICES ASSUME ManagerInv, Next PROVE Sticky
    OBVIOUS
  <2> USE DEF ManagerInv, TypeOK, runVars, wsVars
  <2>1. CASE RunStep
    BY <2>1 DEF RunStep, SeesCancel, StopJoined, SeesReturn, DeadlineFires, CheckTicks,
       Diagnose, StabilityTicks, GiveUpOnWS, Joined, SwitchActive, StoreMode,
       FallbackReturned
  <2>2. CASE PrimaryMoves \/ PrimaryReturns
    BY <2>2 DEF PrimaryMoves, PrimaryReturns, Primary!Raise, Primary!Authenticate,
       Primary!Fail, Primary!Lower, Primary!Return
  <2>3. CASE FallbackMoves \/ FallbackReturns \/ CancelCtx \/ Stopped
    BY <2>3 DEF FallbackMoves, FallbackReturns, CancelCtx, Stopped, vars
  <2> QED  BY <2>1, <2>2, <2>3 DEF Next
<1> QED  BY <1>1, ManagerSafe, PTL DEF Spec, FallbackIsSticky

-----------------------------------------------------------------------------
(* The window of drops.                                                    *)

InWindow(ages) == {age \in ages : age < Window}

LEMMA FiniteAges == \A ages \in SUBSET Ages : IsFiniteSet(ages) /\ Cardinality(ages) \in Nat
<1>1. IsFiniteSet(Ages)  BY FS_Interval DEF Ages
<1> QED  BY <1>1, FS_Subset, FS_CardinalityType

\* Time only moves drops out of the window.
LEMMA AgingShrinks ==
  ASSUME NEW ages \in SUBSET Ages, NEW d \in 1..MaxStride
  PROVE  Cardinality(InWindow({Aged(age, d) : age \in ages})) <= Cardinality(InWindow(ages))
<1> DEFINE S == InWindow({Aged(age, d) : age \in ages})
           f == [x \in S |-> x - d]
<1>1. \A x \in S : x - d \in InWindow(ages)
  BY DEF InWindow, Aged, Ages
<1>2. \A x \in S : x \in Nat
  BY DEF InWindow, Aged, Ages
<1>3. f \in Injection(S, InWindow(ages))
  <2>1. f \in [S -> InWindow(ages)]  BY <1>1
  <2>2. IsInjective(f)  BY <1>2 DEF IsInjective
  <2> QED  BY <2>1, <2>2 DEF Injection
<1>4. IsFiniteSet(InWindow(ages))
  BY FiniteAges DEF InWindow
<1> HIDE DEF S, f
<1>5. Cardinality(S) <= Cardinality(InWindow(ages))
  BY <1>3, <1>4, FS_Injection
<1> QED  BY <1>5 DEF S

\* The drop that condemns the link takes Run out of its select.
LEMMA WindowNext ==
  ManagerInv /\ DropsBelowThreshold /\ [Next]_vars => DropsBelowThreshold'
<1> SUFFICES ASSUME ManagerInv, DropsBelowThreshold, [Next]_vars,
                    pc' \in {"select", "diagnose"}
             PROVE  Cardinality(InWindow(drops')) < Threshold
  BY DEF DropsBelowThreshold, InWindow
<1>1. CASE StabilityTicks
  <2>1. PICK d \in 1..MaxStride :
          drops' = IF wasConnected /\ ~up
                   THEN Recent({Aged(age, d) : age \in drops} \cup {0})
                   ELSE {Aged(age, d) : age \in drops}
    BY <1>1 DEF StabilityTicks
  <2>2. drops \in SUBSET Ages /\ drops' \in SUBSET Ages
    BY NextManager DEF ManagerInv, TypeOK
  <2>3. CASE wasConnected /\ ~up
    <3>1. InWindow(drops') = drops'
      BY <2>1, <2>3 DEF Recent, InWindow
    <3>2. ~Condemned(drops')
      BY <1>1, <2>3 DEF StabilityTicks
    <3> QED  BY <2>2, <3>1, <3>2, FiniteAges DEF Condemned
  <2>4. CASE ~(wasConnected /\ ~up)
    <3>1. Cardinality(InWindow(drops')) <= Cardinality(InWindow(drops))
      BY <2>1, <2>2, <2>4, AgingShrinks
    <3>2. Cardinality(InWindow(drops)) < Threshold
      BY <1>1 DEF StabilityTicks, DropsBelowThreshold, InWindow
    <3>3. InWindow(drops) \in SUBSET Ages /\ InWindow(drops') \in SUBSET Ages
      BY <2>2 DEF InWindow
    <3> QED  BY <3>1, <3>2, <3>3, FiniteAges
  <2> QED  BY <2>3, <2>4
<1>2. CASE ~StabilityTicks
  <2>1. drops' = drops /\ pc \in {"select", "diagnose"}
    BY <1>2 DEF Next, RunStep, SeesCancel, StopJoined, SeesReturn, DeadlineFires,
       CheckTicks, Diagnose, GiveUpOnWS, Joined, SwitchActive, StoreMode,
       FallbackReturned, PrimaryMoves, PrimaryReturns, FallbackMoves, FallbackReturns,
       CancelCtx, Stopped, vars, watchVars, runVars
  <2> QED  BY <2>1 DEF DropsBelowThreshold, InWindow
<1> QED  BY <1>1, <1>2

\* The drop that condemns a link is never slept through.
THEOREM FlapsAreSeen == Spec => []DropsBelowThreshold
<1>1. Init => DropsBelowThreshold
  <2> SUFFICES ASSUME Init PROVE Cardinality({age \in drops : age < Window}) < Threshold
    BY DEF DropsBelowThreshold
  <2>1. {age \in drops : age < Window} = {}  BY DEF Init
  <2> QED  BY <2>1, FS_EmptySet
<1> QED  BY <1>1, WindowNext, ManagerSafe, PTL DEF Spec

-----------------------------------------------------------------------------
(* A fallback for instability is earned.                                   *)

\* Each drop on record is explained by a fall of its own, which happened in the
\* sampling period before it.
Explains(g) ==
  /\ g \in [drops -> DOMAIN falls] /\ IsInjective(g)
  /\ \A age \in drops :
       /\ falls[g[age]] >= 1
       /\ age < Window => falls[g[age]] <= age + MaxStride

\* A fall that is still to be sampled is the last one, and explains no drop yet.
FlapInv ==
  /\ \E g \in [drops -> DOMAIN falls] : Explains(g)
  /\ wasConnected /\ ~up => falls # <<>> /\ falls[Len(falls)] = 0
  /\ pc = "flap" => Cardinality(drops) >= Threshold /\ \A age \in drops : age < Window
  /\ reason # "none" => pc \notin {"select", "diagnose", "tunnel", "flap"}
  /\ FlapsAreReal

RecentFalls(s) == {i \in DOMAIN s : s[i] < Window + MaxStride}

LEMMA FiniteFalls ==
  ASSUME NEW s \in Seq(Ages)
  PROVE  IsFiniteSet(RecentFalls(s)) /\ Cardinality(RecentFalls(s)) \in Nat
<1>1. DOMAIN s = 1..Len(s) /\ Len(s) \in Nat
  OBVIOUS
<1>2. IsFiniteSet(1..Len(s))  BY <1>1, FS_Interval
<1> QED  BY <1>1, <1>2, FS_Subset, FS_CardinalityType DEF RecentFalls

LEMMA InitFlap == Init => FlapInv
<1> SUFFICES ASSUME Init PROVE FlapInv
  OBVIOUS
<1> DEFINE g == [age \in drops |-> 1]
<1>1. drops = {}  BY DEF Init
<1>2. g \in [drops -> DOMAIN falls]  BY <1>1
<1>3. Explains(g)  BY <1>1, <1>2 DEF Explains, IsInjective
<1> QED  BY <1>2, <1>3 DEF Init, FlapInv, FlapsAreReal

\* A fall more explains no less.
LEMMA ExplainMore ==
  ASSUME ManagerInv, NEW g, Explains(g), drops' = drops,
         falls' = falls \/ falls' = Append(falls, 0)
  PROVE  \E h \in [drops' -> DOMAIN falls'] : Explains(h)'
<1>1. falls \in Seq(Ages)  BY DEF ManagerInv, TypeOK
<1>2. DOMAIN falls \subseteq DOMAIN falls' /\ \A i \in DOMAIN falls : falls'[i] = falls[i]
  BY <1>1
<1>3. g \in [drops' -> DOMAIN falls']  BY <1>2 DEF Explains
<1>4. Explains(g)'  BY <1>2, <1>3 DEF Explains
<1> QED  BY <1>3, <1>4

\* Ageing keeps the explanation of each drop, and the one that is sampled now
\* is explained by the fall nobody had sampled.
LEMMA ExplainTick ==
  ASSUME ManagerInv, FlapInv, StabilityTicks
  PROVE  \E h \in [drops' -> DOMAIN falls'] : Explains(h)'
<1>1. PICK d \in 1..MaxStride :
        /\ falls' = [i \in DOMAIN falls |-> Aged(falls[i], d)]
        /\ drops' = IF wasConnected /\ ~up
                    THEN Recent({Aged(age, d) : age \in drops} \cup {0})
                    ELSE {Aged(age, d) : age \in drops}
  BY DEF StabilityTicks
<1>2. PICK g \in [drops -> DOMAIN falls] : Explains(g)
  BY DEF FlapInv
<1>3. drops \subseteq Ages /\ falls \in Seq(Ages)
  BY DEF ManagerInv, TypeOK
<1> DEFINE older == {Aged(age, d) : age \in drops}
           Pre(b) == CHOOSE age \in drops : Aged(age, d) = b
           h == [b \in drops' |-> IF b \in older THEN g[Pre(b)] ELSE Len(falls)]
<1>4. \A b \in older : Pre(b) \in drops /\ Aged(Pre(b), d) = b
  OBVIOUS
<1>5. \A b \in drops' : b \notin older => b = 0 /\ wasConnected /\ ~up
  BY <1>1 DEF Recent
<1> HIDE DEF older, Pre
<1>6. \A b \in older : g[Pre(b)] \in DOMAIN falls /\ falls[g[Pre(b)]] >= 1
                      /\ (Pre(b) < Window => falls[g[Pre(b)]] <= Pre(b) + MaxStride)
  <2> SUFFICES ASSUME NEW b \in older
               PROVE  /\ g[Pre(b)] \in DOMAIN falls /\ falls[g[Pre(b)]] >= 1
                      /\ Pre(b) < Window => falls[g[Pre(b)]] <= Pre(b) + MaxStride
    OBVIOUS
  <2>1. Pre(b) \in drops  BY <1>4
  <2> QED  BY <1>2, <2>1 DEF Explains
<1>7. \A b \in drops' : b \notin older =>
        Len(falls) \in DOMAIN falls /\ falls[Len(falls)] = 0
  BY <1>3, <1>5 DEF FlapInv
<1>8. DOMAIN falls' = DOMAIN falls /\ \A i \in DOMAIN falls : falls'[i] = Aged(falls[i], d)
  BY <1>1
<1>9. h \in [drops' -> DOMAIN falls']
  BY <1>6, <1>7, <1>8
<1>10. IsInjective(h)
  <2> SUFFICES ASSUME NEW a \in drops', NEW b \in drops', h[a] = h[b]
               PROVE  a = b
    BY DEF IsInjective
  <2>1. CASE a \in older /\ b \in older
    <3>1. g[Pre(a)] = g[Pre(b)]  BY <2>1
    <3>2. Pre(a) = Pre(b)  BY <1>2, <1>4, <2>1, <3>1 DEF Explains, IsInjective
    <3> QED  BY <1>4, <2>1, <3>2
  <2>2. CASE a \notin older /\ b \notin older  BY <1>5, <2>2
  <2>3. CASE a \in older /\ b \notin older
    <3>1. g[Pre(a)] = Len(falls)  BY <2>3
    <3> QED  BY <1>6, <1>7, <2>3, <3>1
  <2>4. CASE a \notin older /\ b \in older
    <3>1. g[Pre(b)] = Len(falls)  BY <2>4
    <3> QED  BY <1>6, <1>7, <2>4, <3>1
  <2> QED  BY <2>1, <2>2, <2>3, <2>4
<1>11. ASSUME NEW b \in drops'
       PROVE  falls'[h[b]] >= 1 /\ (b < Window => falls'[h[b]] <= b + MaxStride)
  <2>1. CASE b \in older
    <3> DEFINE fall == falls[g[Pre(b)]]
               age == Pre(b)
    <3>1. fall \in Nat /\ age \in Nat
      <4>1. Pre(b) \in drops /\ g[Pre(b)] \in DOMAIN falls
        BY <1>4, <1>6, <2>1
      <4>2. Pre(b) \in Ages /\ falls[g[Pre(b)]] \in Ages
        BY <1>3, <4>1
      <4> QED BY <4>2, ManagerAssumption DEF Ages, ManagerAssumption
    <3>2. falls'[h[b]] = Aged(fall, d)  BY <1>6, <1>8, <2>1
    <3>3. b = Aged(age, d)  BY <1>4, <2>1
    <3>4. fall >= 1 /\ (age < Window => fall <= age + MaxStride)  BY <1>6, <2>1
    <3> HIDE DEF fall, age, h
    <3> QED  BY <3>1, <3>2, <3>3, <3>4 DEF Aged
  <2>2. CASE b \notin older
    <3>1. b = 0  BY <1>5, <2>2
    <3>2. falls'[h[b]] = Aged(0, d)  BY <1>7, <1>8, <2>2
    <3> HIDE DEF h
    <3> QED  BY <3>1, <3>2 DEF Aged
  <2> QED  BY <2>1, <2>2
<1>12. \A f \in [drops' -> DOMAIN falls'] :
          /\ IsInjective(f)
          /\ \A b \in drops' :
               /\ falls'[f[b]] >= 1
               /\ b < Window => falls'[f[b]] <= b + MaxStride
          => Explains(f)'
  BY DEF Explains
<1> HIDE DEF h
<1> QED  BY <1>9, <1>10, <1>11, <1>12

\* The falls that explain the drops of the window are as many as the drops.
LEMMA ExplainedCount ==
  ASSUME ManagerInv, NEW g, Explains(g), \A age \in drops : age < Window,
         Cardinality(drops) >= Threshold
  PROVE  Cardinality(RecentFalls(falls)) >= Threshold
<1>1. drops \in SUBSET Ages /\ falls \in Seq(Ages)
  BY DEF ManagerInv, TypeOK
<1>2. \A age \in drops : g[age] \in RecentFalls(falls)
  <2> SUFFICES ASSUME NEW age \in drops PROVE g[age] \in RecentFalls(falls)
    OBVIOUS
  <2>1. age \in Nat /\ g[age] \in DOMAIN falls /\ falls[g[age]] \in Nat
    BY <1>1 DEF Explains, Ages
  <2>2. age < Window  OBVIOUS
  <2>3. falls[g[age]] <= age + MaxStride  BY <2>2 DEF Explains
  <2> QED  BY <2>1, <2>2, <2>3 DEF RecentFalls
<1>3. g \in Injection(drops, RecentFalls(falls))
  BY <1>2 DEF Explains, Injection
<1>4. Cardinality(drops) <= Cardinality(RecentFalls(falls))
  BY <1>1, <1>3, FiniteFalls, FS_Injection
<1> QED  BY <1>1, <1>4, FiniteAges, FiniteFalls

LEMMA NextFlap == ManagerInv /\ FlapInv /\ [Next]_vars => FlapInv'
<1> SUFFICES ASSUME ManagerInv, FlapInv, [Next]_vars PROVE FlapInv'
  OBVIOUS
<1>1. PICK g \in [drops -> DOMAIN falls] : Explains(g)  BY DEF FlapInv
<1>2. falls \in Seq(Ages) /\ drops \in SUBSET Ages  BY DEF ManagerInv, TypeOK
<1> USE DEF FlapInv, runVars, watchVars, wsVars, pollVars, seenVars
<1>3. CASE StabilityTicks
  <2>1. \E h \in [drops' -> DOMAIN falls'] : Explains(h)'
    BY <1>3, ExplainTick
  <2>2. pc' = "flap" => Cardinality(drops') >= Threshold /\ \A age \in drops' : age < Window
    BY <1>3 DEF StabilityTicks, Condemned, Recent
  <2>3. reason' = "none" /\ ~(wasConnected' /\ ~up')
    BY <1>3 DEF StabilityTicks, ManagerInv, TypeOK
  <2> QED  BY <2>1, <2>2, <2>3 DEF FlapsAreReal
<1>4. CASE PrimaryMoves \/ PrimaryReturns
  <2>1. drops' = drops /\ wasConnected' = wasConnected /\ pc' = pc /\ reason' = reason
    BY <1>4 DEF PrimaryMoves, PrimaryReturns
  <2>2. falls' = IF up /\ ~up' THEN Append(falls, 0) ELSE falls
    BY <1>4 DEF PrimaryMoves, PrimaryReturns, Primary!Return
  <2>3. \E h \in [drops' -> DOMAIN falls'] : Explains(h)'
    BY <1>1, <2>1, <2>2, ExplainMore
  <2>4. wasConnected' /\ ~up' => falls' # <<>> /\ falls'[Len(falls')] = 0
    <3>1. Append(falls, 0) # <<>> /\ Append(falls, 0)[Len(Append(falls, 0))] = 0
      <4>1. 0 \in Ages  BY DEF Ages
      <4> QED  BY <1>2, <4>1, AppendProperties
    <3>2. CASE up /\ ~up'  BY <2>2, <3>1, <3>2
    <3>3. CASE ~(up /\ ~up')  BY <2>1, <2>2, <3>3
    <3> QED  BY <3>2, <3>3
  <2>5. FlapsAreReal'
    <3>1. falls' \in Seq(Ages)  BY <1>2, <2>2, AppendFall
    <3>2. RecentFalls(falls) \in SUBSET RecentFalls(falls')
      BY <1>2, <2>2 DEF RecentFalls
    <3>3. Cardinality(RecentFalls(falls)) <= Cardinality(RecentFalls(falls'))
      BY <3>1, <3>2, FiniteFalls, FS_Subset
    <3>4. reason = "flap" => Cardinality(RecentFalls(falls)) >= Threshold
      BY DEF FlapsAreReal, RecentFalls
    <3>5. reason' = "flap" => Cardinality(RecentFalls(falls')) >= Threshold
      BY <1>2, <2>1, <3>1, <3>3, <3>4, FiniteFalls
    <3> QED  BY <3>5 DEF FlapsAreReal, RecentFalls
  <2> QED  BY <2>1, <2>3, <2>4, <2>5
<1>5. CASE GiveUpOnWS
  <2>1. drops' = drops /\ falls' = falls /\ wasConnected' = wasConnected /\ up' = up
    BY <1>5 DEF GiveUpOnWS
  <2>2. pc' = "joining" /\ reason' = pc /\ pc \in {"tunnel", "flap"}
    BY <1>5 DEF GiveUpOnWS
  <2>3. \E h \in [drops' -> DOMAIN falls'] : Explains(h)'
    BY <1>1, <2>1, ExplainMore
  <2>4. reason' = "flap" => Cardinality(RecentFalls(falls)) >= Threshold
    BY <1>1, <2>2, ExplainedCount
  <2>5. FlapsAreReal'  BY <2>1, <2>4 DEF FlapsAreReal, RecentFalls
  <2> QED  BY <2>1, <2>2, <2>3, <2>5
<1>6. CASE ~StabilityTicks /\ ~PrimaryMoves /\ ~PrimaryReturns /\ ~GiveUpOnWS
  <2>1. drops' = drops /\ falls' = falls /\ wasConnected' = wasConnected /\ up' = up
    BY <1>6 DEF Next, RunStep, SeesCancel, StopJoined, SeesReturn, DeadlineFires,
       CheckTicks, Diagnose, Joined, SwitchActive, StoreMode, FallbackReturned,
       FallbackMoves, FallbackReturns, CancelCtx, Stopped, vars
  <2>2. /\ pc' # "flap" \/ pc' = pc
        /\ reason' = "flap" => reason = "flap"
        /\ reason' # "none" => pc' \notin {"select", "diagnose", "tunnel", "flap"}
    BY <1>6 DEF Next, RunStep, SeesCancel, StopJoined, SeesReturn, DeadlineFires,
       CheckTicks, Diagnose, Joined, SwitchActive, StoreMode, FallbackReturned,
       FallbackMoves, FallbackReturns, CancelCtx, Stopped, vars
  <2>3. \E h \in [drops' -> DOMAIN falls'] : Explains(h)'
    BY <1>1, <2>1, ExplainMore
  <2>4. FlapsAreReal'  BY <2>1, <2>2 DEF FlapsAreReal
  <2> QED  BY <2>1, <2>2, <2>3, <2>4
<1> QED  BY <1>3, <1>4, <1>5, <1>6

\* When the manager gives up an unstable link, Threshold falls really happened,
\* all of them within the window and one sampling period.
THEOREM FlapsEarned == Spec => []FlapsAreReal
<1>1. FlapInv => FlapsAreReal  BY DEF FlapInv
<1> QED  BY <1>1, InitFlap, NextFlap, ManagerSafe, PTL DEF Spec

(* The detector as a whole: it condemns a primary as soon as that flaps,   *)
(* and no other (manager.go:225-255).                                      *)
THEOREM DetectorSafe == Spec => []DropsCounted
<1>1. FlapsAreReal /\ DropsBelowThreshold => DropsCounted
  BY DEF DropsCounted
<1> QED  BY <1>1, FlapsAreSeen, FlapsEarned, PTL
=============================================================================
