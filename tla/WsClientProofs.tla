--------------------------- MODULE WsClientProofs ---------------------------
(***************************************************************************)
(* For every number of senders and every value of the bounds: the safety   *)
(* invariants of WsClient hold.                                            *)
(***************************************************************************)
EXTENDS WsClient, TLAPS

USE ConstantsAssumption DEF ConstantsAssumption

-----------------------------------------------------------------------------
(* Type correctness.                                                       *)

LEMMA TypeInit == Init => TypeOK
<1> SUFFICES ASSUME Init PROVE TypeOK
  OBVIOUS
<1>1. /\ held \in Seq(Frame) /\ Len(held) <= 1 /\ sendCh \in Seq(Frame)
      /\ shipped \in Seq(Shipment)
  BY DEF Init
<1>2. /\ loops \in [Loops -> {"idle", "running", "ended"}]
      /\ sending \in [Senders -> 0..epoch]
  BY DEF Init, NoLoop
<1>3. reconnectCount \in 0..MaxCount
  BY DEF Init
<1>4. /\ {ctxDone, closed, connected, everConnected, loopCtxDone} \subseteq BOOLEAN
      /\ pc \in Locations /\ lastErr \in ErrKinds
  BY DEF Init, Locations, ErrKinds
<1>5. QED
  BY <1>1, <1>2, <1>3, <1>4 DEF Init, TypeOK

\* Steps of Run.
LEMMA TypeRun ==
  ASSUME TypeOK, RunStep
  PROVE  TypeOK'
<1> USE DEF TypeOK, lifeVars, linkVars, loopVars, sendVars, histVars, Locations,
            Handshake, ErrKinds
<1>1. CASE StopAtTop
  BY <1>1 DEF StopAtTop
<1>2. CASE StartConnect
  BY <1>2 DEF StartConnect
<1>3. CASE DialFails
  BY <1>3 DEF DialFails, ConnectFails, Bump
<1>4. CASE DialSucceeds
  BY <1>4 DEF DialSucceeds
<1>5. CASE OpenFails
  BY <1>5 DEF OpenFails, ConnectFails, ShutConn, Bump
<1>6. CASE OpenSucceeds
  BY <1>6 DEF OpenSucceeds
<1>7. CASE NamespaceFails
  BY <1>7 DEF NamespaceFails, ConnectFails, ShutConn, Bump
<1>8. CASE NamespaceSucceeds
  BY <1>8 DEF NamespaceSucceeds
<1>9. CASE AuthFails
  <2> USE <1>9 DEF AuthFails, ConnectFails, Bump
  <2>1. /\ pc' \in Locations /\ lastErr' \in ErrKinds
        /\ conn' \in {"nil", "open", "closed"} /\ connected' \in BOOLEAN
    OBVIOUS
  <2>2. reconnectCount' \in 0..MaxCount
    OBVIOUS
  <2>3. QED
    BY <2>1, <2>2
<1>10. CASE AuthSucceeds
  <2> USE <1>10 DEF AuthSucceeds, NewSession
  <2>1. loops' \in [Loops -> {"idle", "running", "ended"}]
    OBVIOUS
  <2>2. /\ everConnected' \in BOOLEAN /\ loopCtxDone' \in BOOLEAN
        /\ pc' \in Locations /\ lastErr' \in ErrKinds
    OBVIOUS
  <2>3. session' \in 0..epoch'
    OBVIOUS
  <2>4. QED
    BY <2>1, <2>2, <2>3
<1>11. CASE NoticeLoopEnd
  BY <1>11 DEF NoticeLoopEnd
<1>12. CASE CloseLoops
  BY <1>12 DEF CloseLoops, ShutConn
<1>13. CASE LoopsJoined
  BY <1>13 DEF LoopsJoined, NoLoop
<1>14. CASE DrainOne
  BY <1>14 DEF DrainOne
<1>15. CASE DrainEnd
  BY <1>15 DEF DrainEnd, Bump
<1>16. CASE BackoffEnds
  BY <1>16 DEF BackoffEnds
<1>17. QED
  BY <1>1, <1>2, <1>3, <1>4, <1>5, <1>6, <1>7, <1>8, <1>9, <1>10, <1>11, <1>12,
     <1>13, <1>14, <1>15, <1>16 DEF RunStep

\* Steps of the loops.
LEMMA TypeLoop ==
  ASSUME TypeOK, LoopStep
  PROVE  TypeOK'
<1> USE DEF TypeOK, lifeVars, linkVars, loopVars, sendVars, histVars
<1>1. ASSUME NEW l \in Loops, LoopEnds(l)
      PROVE  TypeOK'
  BY <1>1 DEF LoopEnds
<1>2. CASE WriteTakes
  <2>1. /\ held' \in Seq(Frame) /\ Len(held') <= 1
        /\ sendCh' \in Seq(Frame)
    BY <1>2 DEF WriteTakes
  <2>2. QED
    BY <1>2, <2>1 DEF WriteTakes
<1>3. CASE WriteShips
  <2>1. held[1] \in Frame
    BY <1>3 DEF WriteShips
  <2>2. shipped' \in Seq(Shipment)
    BY <1>3, <2>1 DEF WriteShips, Frame, Shipment
  <2>3. QED
    BY <1>3, <2>2 DEF WriteShips
<1>4. CASE WriteFails
  <2>1. held' \in Seq(Frame) /\ Len(held') <= 1
    BY <1>4 DEF WriteFails
  <2>2. loops' \in [Loops -> {"idle", "running", "ended"}]
    BY <1>4 DEF WriteFails
  <2>3. QED
    BY <1>4, <2>1, <2>2 DEF WriteFails
<1>5. QED
  BY <1>1, <1>2, <1>3, <1>4 DEF LoopStep

\* Steps of the agent's other goroutines.
LEMMA TypeSender ==
  ASSUME TypeOK, SenderStep
  PROVE  TypeOK'
<1> USE DEF TypeOK, lifeVars, linkVars, loopVars, sendVars, histVars
<1>1. ASSUME NEW s \in Senders, SendChecks(s)
      PROVE  TypeOK'
  BY <1>1 DEF SendChecks
<1>2. ASSUME NEW s \in Senders, SendQueues(s)
      PROVE  TypeOK'
  <2> DEFINE f == [id |-> sends, born |-> sending[s],
                   live |-> pc = "loops" /\ epoch = sending[s]]
  <2>1. f \in Frame
    BY DEF Frame
  <2>2. sendCh' \in {sendCh, Append(sendCh, f)} /\ sends' \in Nat
    BY <1>2 DEF SendQueues
  <2>3. sendCh' \in Seq(Frame)
    <3>1. sendCh \in Seq(Frame)
      OBVIOUS
    <3>2. Append(sendCh, f) \in Seq(Frame)
      <4> HIDE DEF f, TypeOK
      <4>1. QED
        BY <2>1, <3>1
    <3>3. QED
      BY <2>2, <3>1, <3>2
  <2>4. sending' \in [Senders -> 0..epoch]
    BY <1>2 DEF SendQueues
  <2>5. QED
    BY <1>2, <2>2, <2>3, <2>4 DEF SendQueues
<1>3. QED
  BY <1>1, <1>2 DEF SenderStep

LEMMA TypeNext == TypeOK /\ [Next]_vars => TypeOK'
<1> SUFFICES ASSUME TypeOK, [Next]_vars
             PROVE  TypeOK'
  OBVIOUS
<1> USE DEF TypeOK, lifeVars, linkVars, loopVars, sendVars, histVars
<1>1. CASE DerefNil
  BY <1>1 DEF DerefNil, Locations
<1>2. CASE AgentCloses
  BY <1>2 DEF AgentCloses
<1>3. CASE CancelCtx
  BY <1>3 DEF CancelCtx
<1>4. CASE UNCHANGED vars
  BY <1>4 DEF vars
<1>5. QED
  BY <1>1, <1>2, <1>3, <1>4, TypeRun, TypeLoop, TypeSender DEF Next, Stopped

\* Every variable keeps its type.
THEOREM TypeCorrect == Spec => []TypeOK
<1>1. QED
  BY TypeInit, TypeNext, PTL DEF Spec

-----------------------------------------------------------------------------
(* The loops belong to the connection, and a panic to Close.               *)

LEMMA LoopsNext == TypeOK /\ LoopsInv /\ [Next]_vars => LoopsInv'
<1> SUFFICES ASSUME TypeOK, LoopsInv, [Next]_vars
             PROVE  LoopsInv'
  OBVIOUS
<1> USE DEF LoopsInv, NoOrphanLoops, WritesAuthenticated, Loops, Handshake,
            lifeVars, linkVars, loopVars, sendVars, histVars
<1>1. CASE StopAtTop \/ StartConnect \/ DialFails \/ DialSucceeds \/ OpenFails
           \/ OpenSucceeds
  BY <1>1 DEF StopAtTop, StartConnect, DialFails, DialSucceeds, OpenFails,
              OpenSucceeds, ConnectFails, ShutConn
<1>2. CASE NamespaceFails \/ NamespaceSucceeds \/ AuthFails
  BY <1>2 DEF NamespaceFails, NamespaceSucceeds, AuthFails, ConnectFails
<1>3. CASE AuthSucceeds
  BY <1>3 DEF AuthSucceeds, NewSession
<1>4. CASE NoticeLoopEnd \/ CloseLoops
  BY <1>4 DEF NoticeLoopEnd, CloseLoops
<1>5. CASE LoopsJoined
  BY <1>5 DEF LoopsJoined, NoLoop
<1>6. CASE DrainOne \/ DrainEnd \/ BackoffEnds
  BY <1>6 DEF DrainOne, DrainEnd, BackoffEnds
<1>7. ASSUME NEW l \in Loops, LoopEnds(l)
      PROVE  LoopsInv'
  BY <1>7 DEF LoopEnds, TypeOK
<1>8. CASE WriteTakes \/ WriteShips
  BY <1>8 DEF WriteTakes, WriteShips
<1>9. CASE WriteFails
  BY <1>9 DEF WriteFails, TypeOK
<1>10. CASE SenderStep
  BY <1>10 DEF SenderStep, SendChecks, SendQueues
<1>11. CASE DerefNil \/ AgentCloses \/ CancelCtx \/ UNCHANGED vars
  BY <1>11 DEF DerefNil, AgentCloses, CancelCtx, vars
<1>12. QED
  BY <1>1, <1>2, <1>3, <1>4, <1>5, <1>6, <1>7, <1>8, <1>9, <1>10, <1>11
     DEF Next, RunStep, LoopStep, Stopped

LEMMA ConnNext == TypeOK /\ LoopsInv /\ ConnInv /\ [Next]_vars => ConnInv'
<1> SUFFICES ASSUME TypeOK, LoopsInv, ConnInv, [Next]_vars
             PROVE  ConnInv'
  OBVIOUS
<1> USE DEF ConnInv, PanicNeedsClose, Handshake,
            lifeVars, linkVars, loopVars, sendVars, histVars
<1>1. CASE StopAtTop \/ StartConnect \/ DialFails \/ DialSucceeds \/ OpenFails
           \/ OpenSucceeds
  BY <1>1 DEF StopAtTop, StartConnect, DialFails, DialSucceeds, OpenFails,
              OpenSucceeds, ConnectFails, ShutConn
<1>2. CASE NamespaceFails \/ NamespaceSucceeds \/ AuthFails \/ AuthSucceeds
  BY <1>2 DEF NamespaceFails, NamespaceSucceeds, AuthFails, AuthSucceeds,
              ConnectFails, ShutConn
<1>3. CASE NoticeLoopEnd \/ CloseLoops \/ LoopsJoined
  BY <1>3 DEF NoticeLoopEnd, CloseLoops, LoopsJoined, ShutConn
<1>4. CASE DrainOne \/ DrainEnd \/ BackoffEnds
  BY <1>4 DEF DrainOne, DrainEnd, BackoffEnds
<1>5. CASE LoopStep
  BY <1>5 DEF LoopStep, LoopEnds, WriteTakes, WriteShips, WriteFails
<1>6. CASE SenderStep
  BY <1>6 DEF SenderStep, SendChecks, SendQueues
<1>7. CASE DerefNil /\ pc # "panicked"
  <2>1. conn = "nil" /\ pc \in Handshake \cup {"loops", "closing", "wait"}
    BY <1>7 DEF DerefNil, LoopsInv, NoOrphanLoops
  <2>2. closed /\ UNCHANGED closed
    BY <1>7, <2>1 DEF DerefNil
  <2>3. QED
    BY <1>7, <2>2 DEF DerefNil
<1>8. CASE AgentCloses \/ CancelCtx \/ UNCHANGED vars
  BY <1>8 DEF AgentCloses, CancelCtx, vars
<1>9. QED
  BY <1>1, <1>2, <1>3, <1>4, <1>5, <1>6, <1>7, <1>8 DEF Next, RunStep, Stopped

-----------------------------------------------------------------------------
(* Frames stay on their connection, and in order.                          *)

LEMMA TailIndex ==
  ASSUME NEW S, NEW q \in Seq(S), q # <<>>
  PROVE  /\ Head(q) = q[1] /\ 1 \in DOMAIN q
         /\ \A i \in DOMAIN Tail(q) : i + 1 \in DOMAIN q /\ i \in Nat /\ Tail(q)[i] = q[i + 1]
  OBVIOUS

LEMMA AppendIndex ==
  ASSUME NEW S, NEW q \in Seq(S), NEW e
  PROVE  /\ DOMAIN q \subseteq Nat
         /\ \A i \in DOMAIN q : i < Len(q) + 1 /\ Append(q, e)[i] = q[i]
         /\ \A i \in DOMAIN Append(q, e) :
              i \in DOMAIN q \/ (i = Len(q) + 1 /\ Append(q, e)[i] = e)
<1>1. DOMAIN q = 1..Len(q) /\ Len(q) \in Nat
  OBVIOUS
<1>2. DOMAIN Append(q, e) = 1..Len(q) + 1
  OBVIOUS
<1>3. \A i \in 1..Len(q) : Append(q, e)[i] = q[i]
  OBVIOUS
<1>4. Append(q, e)[Len(q) + 1] = e
  OBVIOUS
<1>5. \A i \in 1..Len(q) + 1 : i \in 1..Len(q) \/ i = Len(q) + 1
  BY <1>1
<1>6. DOMAIN q \subseteq Nat /\ \A i \in DOMAIN q : i < Len(q) + 1
  BY <1>1
<1>7. \A i \in DOMAIN Append(q, e) :
        i \in DOMAIN q \/ (i = Len(q) + 1 /\ Append(q, e)[i] = e)
  BY <1>1, <1>2, <1>4, <1>5, Zenon
<1>8. QED
  BY <1>1, <1>3, <1>6, <1>7, Zenon

LEMMA FrameNext == TypeOK /\ LoopsInv /\ FrameInv /\ [Next]_vars => FrameInv'
<1> SUFFICES ASSUME TypeOK, LoopsInv, FrameInv, [Next]_vars
             PROVE  FrameInv'
  OBVIOUS
<1> USE DEF FrameInv, LiveFramesStay, Handshake,
            lifeVars, linkVars, loopVars, sendVars, histVars
<1>1. CASE StopAtTop \/ StartConnect \/ DialFails \/ OpenFails \/ OpenSucceeds
  BY <1>1 DEF StopAtTop, StartConnect, DialFails, OpenFails, OpenSucceeds,
              ConnectFails
<1>2. CASE DialSucceeds
  BY <1>2 DEF DialSucceeds, LoopsInv, NoOrphanLoops, Loops
<1>3. CASE NamespaceFails \/ NamespaceSucceeds \/ AuthFails \/ AuthSucceeds
  BY <1>3 DEF NamespaceFails, NamespaceSucceeds, AuthFails, AuthSucceeds,
              ConnectFails
<1>4. CASE NoticeLoopEnd \/ CloseLoops \/ LoopsJoined
  BY <1>4 DEF NoticeLoopEnd, CloseLoops, LoopsJoined
<1>5. CASE DrainOne
  BY <1>5, TailIndex DEF DrainOne, TypeOK
<1>6. CASE DrainEnd \/ BackoffEnds
  BY <1>6 DEF DrainEnd, Drained, BackoffEnds
<1>7. ASSUME NEW l \in Loops, LoopEnds(l)
      PROVE  FrameInv'
  BY <1>7 DEF LoopEnds
<1>8. CASE WriteTakes
  BY <1>8, TailIndex DEF WriteTakes, TypeOK
<1>9. CASE WriteShips
  <2> DEFINE s == [id |-> held[1].id, born |-> held[1].born,
                   live |-> held[1].live, on |-> epoch]
  <2>1. shipped' = Append(shipped, s) /\ s.live = held[1].live
        /\ s.born = held[1].born /\ s.on = epoch
    BY <1>9 DEF WriteShips
  <2>2. LiveFramesStay'
    BY <1>9, <2>1, AppendIndex DEF WriteShips, TypeOK
  <2>3. QED
    BY <1>9, <2>2 DEF WriteShips
<1>10. CASE WriteFails
  BY <1>10 DEF WriteFails
<1>11. ASSUME NEW s \in Senders, SendChecks(s)
       PROVE  FrameInv'
  BY <1>11 DEF SendChecks
<1>12. ASSUME NEW s \in Senders, SendQueues(s)
       PROVE  FrameInv'
  <2> DEFINE f == [id |-> sends, born |-> sending[s],
                   live |-> pc = "loops" /\ epoch = sending[s]]
  <2>1. f.live => f.born = epoch /\ pc = "loops"
    OBVIOUS
  <2>2. sendCh' \in {sendCh, Append(sendCh, f)}
        /\ UNCHANGED <<pc, epoch, held, shipped>>
    BY <1>12 DEF SendQueues
  <2> HIDE DEF f
  <2>3. \A i \in DOMAIN sendCh' :
          (i \in DOMAIN sendCh /\ sendCh'[i] = sendCh[i]) \/ sendCh'[i] = f
    <3>1. sendCh \in Seq(Frame)
      BY DEF TypeOK
    <3>2. QED
      BY <2>2, <3>1, AppendIndex
  <2>4. QED
    BY <2>1, <2>2, <2>3
<1>13. CASE DerefNil /\ pc # "panicked"
  BY <1>13 DEF DerefNil
<1>14. CASE AgentCloses \/ CancelCtx \/ UNCHANGED vars
  BY <1>14 DEF AgentCloses, CancelCtx, vars
<1>15. QED
  BY <1>1, <1>2, <1>3, <1>4, <1>5, <1>6, <1>7, <1>8, <1>9, <1>10, <1>11, <1>12,
     <1>13, <1>14 DEF Next, RunStep, LoopStep, SenderStep, Stopped

LEMMA OrderNext == TypeOK /\ LoopsInv /\ OrderInv /\ [Next]_vars => OrderInv'
<1> SUFFICES ASSUME TypeOK, LoopsInv, OrderInv, [Next]_vars
             PROVE  OrderInv'
  OBVIOUS
<1> USE DEF OrderInv, ShippedOnceInOrder,
            lifeVars, linkVars, loopVars, sendVars, histVars
<1>1. ASSUME UNCHANGED <<sendCh, sends, held, shipped>>
      PROVE  OrderInv'
  BY <1>1
<1>2. CASE RunStep /\ ~DrainOne
  BY <1>1, <1>2 DEF RunStep, StopAtTop, StartConnect, DialFails, DialSucceeds,
     OpenFails, OpenSucceeds, NamespaceFails, NamespaceSucceeds, AuthFails,
     AuthSucceeds, NoticeLoopEnd, CloseLoops, LoopsJoined, DrainEnd, BackoffEnds,
     ConnectFails
<1>3. CASE DrainOne
  BY <1>3, TailIndex DEF DrainOne, TypeOK
<1>4. ASSUME NEW l \in Loops, LoopEnds(l)
      PROVE  OrderInv'
  BY <1>1, <1>4 DEF LoopEnds
<1>5. CASE WriteTakes
  <2>1. /\ UNCHANGED <<sends, shipped>> /\ held = <<>>
        /\ sendCh' = Tail(sendCh) /\ held' # <<>> /\ held'[1] = Head(sendCh)
        /\ sendCh \in Seq(Frame) /\ sendCh # <<>>
    BY <1>5 DEF WriteTakes, TypeOK
  <2>2. /\ held'[1] = sendCh[1] /\ 1 \in DOMAIN sendCh
        /\ \A i \in DOMAIN sendCh' :
             i + 1 \in DOMAIN sendCh /\ i \in Nat /\ 1 < i + 1
             /\ sendCh'[i] = sendCh[i + 1]
    BY <2>1
  <2>3. /\ \A i \in DOMAIN sendCh' : sendCh'[i].id < sends'
        /\ \A i, j \in DOMAIN sendCh' : i < j => sendCh'[i].id < sendCh'[j].id
    BY <2>1, <2>2
  <2>4. /\ held'[1].id < sends'
        /\ \A i \in DOMAIN sendCh' : held'[1].id < sendCh'[i].id
    BY <2>1, <2>2
  <2>5. \A i \in DOMAIN shipped' :
          /\ shipped'[i].id < sends' /\ shipped'[i].id < held'[1].id
          /\ \A j \in DOMAIN sendCh' : shipped'[i].id < sendCh'[j].id
    BY <2>1, <2>2
  <2>6. QED
    BY <2>1, <2>3, <2>4, <2>5
<1>6. CASE WriteShips
  <2> DEFINE s == [id |-> held[1].id, born |-> held[1].born,
                   live |-> held[1].live, on |-> epoch]
  <2>1. /\ shipped' = Append(shipped, s) /\ s.id = held[1].id
        /\ UNCHANGED <<sendCh, sends>> /\ held # <<>> /\ held' = <<>>
        /\ shipped \in Seq(Shipment)
    BY <1>6 DEF WriteShips, TypeOK
  <2> HIDE DEF s
  <2>2. /\ \A i \in DOMAIN shipped : i < Len(shipped) + 1 /\ shipped'[i] = shipped[i]
        /\ DOMAIN shipped \subseteq Nat /\ Len(shipped) \in Nat
        /\ \A i \in DOMAIN shipped' :
             i \in DOMAIN shipped \/ (i = Len(shipped) + 1 /\ shipped'[i] = s)
    BY <2>1, AppendIndex
  <2>3. \A i \in DOMAIN shipped' :
          /\ shipped'[i].id < sends'
          /\ \A j \in DOMAIN sendCh' : shipped'[i].id < sendCh'[j].id
    BY <2>1, <2>2
  <2>4. ShippedOnceInOrder'
    BY <2>1, <2>2
  <2>5. QED
    BY <2>1, <2>3, <2>4
<1>7. CASE WriteFails
  BY <1>7 DEF WriteFails
<1>8. ASSUME NEW s \in Senders, SendChecks(s)
      PROVE  OrderInv'
  BY <1>1, <1>8 DEF SendChecks
<1>9. ASSUME NEW s \in Senders, SendQueues(s)
      PROVE  OrderInv'
  <2> DEFINE f == [id |-> sends, born |-> sending[s],
                   live |-> pc = "loops" /\ epoch = sending[s]]
  <2>1. \/ UNCHANGED <<sendCh, sends, held, shipped>>
        \/ /\ sendCh' = Append(sendCh, f) /\ sends' = sends + 1
           /\ UNCHANGED <<held, shipped>>
    BY <1>9 DEF SendQueues
  <2>2. CASE sendCh' = Append(sendCh, f) /\ sends' = sends + 1
             /\ UNCHANGED <<held, shipped>>
    <3>1. f.id = sends /\ sendCh \in Seq(Frame) /\ sends \in Nat
          /\ (held # <<>> => held[1] \in Frame) /\ shipped \in Seq(Shipment)
      BY DEF TypeOK
    <3> HIDE DEF f
    <3>2. /\ \A i \in DOMAIN sendCh : i < Len(sendCh) + 1 /\ sendCh'[i] = sendCh[i]
          /\ DOMAIN sendCh \subseteq Nat /\ Len(sendCh) \in Nat
          /\ \A i \in DOMAIN sendCh' :
               i \in DOMAIN sendCh \/ (i = Len(sendCh) + 1 /\ sendCh'[i] = f)
      BY <2>2, <3>1, AppendIndex
    <3>3. /\ \A i \in DOMAIN sendCh : sendCh[i].id \in Nat
          /\ \A i \in DOMAIN shipped : shipped[i].id \in Nat
          /\ held # <<>> => held[1].id \in Nat
      <4>1. \A i \in DOMAIN sendCh : sendCh[i] \in Frame
        BY <3>1
      <4>2. \A i \in DOMAIN shipped : shipped[i] \in Shipment
        BY <3>1
      <4>3. QED
        BY <3>1, <4>1, <4>2 DEF Frame, Shipment
    <3>4. /\ \A i \in DOMAIN sendCh' : sendCh'[i].id < sends'
          /\ \A i, j \in DOMAIN sendCh' : i < j => sendCh'[i].id < sendCh'[j].id
      BY <2>2, <3>1, <3>2, <3>3
    <3>5. held' # <<>> =>
            /\ held'[1].id < sends'
            /\ \A i \in DOMAIN sendCh' : held'[1].id < sendCh'[i].id
      BY <2>2, <3>1, <3>2, <3>3
    <3>6. \A i \in DOMAIN shipped' :
            /\ shipped'[i].id < sends'
            /\ held' # <<>> => shipped'[i].id < held'[1].id
            /\ \A j \in DOMAIN sendCh' : shipped'[i].id < sendCh'[j].id
      BY <2>2, <3>1, <3>2, <3>3
    <3>7. QED
      BY <2>2, <3>4, <3>5, <3>6
  <2>3. QED
    BY <1>1, <2>1, <2>2
<1>10. CASE DerefNil \/ AgentCloses \/ CancelCtx \/ UNCHANGED vars
  BY <1>1, <1>10 DEF DerefNil, AgentCloses, CancelCtx, vars
<1>11. QED
  BY <1>2, <1>3, <1>4, <1>5, <1>6, <1>7, <1>8, <1>9, <1>10
     DEF Next, LoopStep, SenderStep, Stopped, vars

-----------------------------------------------------------------------------
(* The invariant is inductive; what the runs check follows from it.        *)

LEMMA IndInit == Init => IndInv
<1>1. Init => LoopsInv /\ ConnInv /\ FrameInv /\ OrderInv
  BY DEF Init, LoopsInv, ConnInv, FrameInv, OrderInv, NoOrphanLoops, NoLoop,
         WritesAuthenticated, PanicNeedsClose, LiveFramesStay,
         ShippedOnceInOrder, Loops, Handshake
<1>2. QED
  BY <1>1, TypeInit DEF IndInv

LEMMA IndNext == IndInv /\ [Next]_vars => IndInv'
  BY TypeNext, LoopsNext, ConnNext, FrameNext, OrderNext DEF IndInv

\* IndInv holds in every reachable state of the client (client.go:415-520).
THEOREM Safety == Spec => []IndInv
<1>1. QED
  BY IndInit, IndNext, PTL DEF Spec

\* wg.Wait keeps the loops of two connections apart (client.go:450-458): no
\* loop exists while Run is between connections.
THEOREM LoopsOwned == Spec => []NoOrphanLoops
<1>1. IndInv => NoOrphanLoops
  BY DEF IndInv, LoopsInv
<1>2. QED
  BY <1>1, Safety, PTL

\* The drain after wg.Wait (client.go:503-510) leaves no frame queued under a
\* serving connection to be written on a later one.
THEOREM FramesStay == Spec => []LiveFramesStay
<1>1. IndInv => LiveFramesStay
  BY DEF IndInv, FrameInv
<1>2. QED
  BY <1>1, Safety, PTL

\* Whatever is queued, drained, lost and reconnected, writeLoop writes each
\* frame at most once and in the order of the Sends (client.go:628-650).
THEOREM OrderKept == Spec => []ShippedOnceInOrder
<1>1. IndInv => ShippedOnceInOrder
  BY DEF IndInv, OrderInv
<1>2. QED
  BY <1>1, Safety, PTL

\* No frame of the agent goes out on a connection before its auth_ok
\* (client.go:283-365, authenticate).
THEOREM AuthFirst == Spec => []WritesAuthenticated
<1>1. IndInv => WritesAuthenticated
  BY DEF IndInv, LoopsInv
<1>2. QED
  BY <1>1, Safety, PTL

\* Only Close, called from another goroutine, makes the client dereference a
\* nil connection (client.go:829-846).
THEOREM PanicOnlyAfterClose == Spec => []PanicNeedsClose
<1>1. IndInv => PanicNeedsClose
  BY DEF IndInv, ConnInv
<1>2. QED
  BY <1>1, Safety, PTL

-----------------------------------------------------------------------------
(* The client implements the manager's link.  Run is down at the head of its *)
(* loop and wherever a handshake or a drain can end (ConnInv), and no loop   *)
(* is left to panic once it has returned (LoopsInv).                         *)

LEMMA LinkRun ==
  ASSUME IndInv, RunStep
  PROVE  Link!Next \/ UNCHANGED Link!vars
<1> USE DEF Link!Next, Link!vars
<1>0. pc \notin {"auth", "loops", "panicked"} => ~connected
  BY DEF IndInv, ConnInv
<1>1. CASE StopAtTop
  <2>1. Link!Return  BY <1>1 DEF StopAtTop, Link!Return, lifeVars
  <2> QED  BY <2>1
<1>2. CASE DialFails \/ OpenFails \/ NamespaceFails
  <2>1. PICK err \in {"plain", "tunnel"} : ConnectFails(err)
    BY <1>2 DEF DialFails, OpenFails, NamespaceFails
  <2>2. pc \in {"dial", "open", "namespace"}
    BY <1>0, <1>2 DEF DialFails, OpenFails, NamespaceFails
  <2>3. connected' = FALSE
    BY <1>0, <1>2, <2>2 DEF IndInv, TypeOK, DialFails, OpenFails, NamespaceFails
  <2>4. Link!Fail
    BY <2>1, <2>2, <2>3 DEF ConnectFails, Link!Fail, lifeVars
  <2> QED  BY <2>4
<1>3. CASE NamespaceSucceeds
  <2>1. Link!Raise
    BY <1>0, <1>3 DEF NamespaceSucceeds, Link!Raise, lifeVars
  <2> QED  BY <2>1
<1>4. CASE AuthFails
  <2>1. Link!Fail
    BY <1>4 DEF AuthFails, ConnectFails, Link!Fail, lifeVars
  <2> QED  BY <2>1
<1>5. CASE AuthSucceeds
  <2>1. Link!Authenticate
    BY <1>5 DEF AuthSucceeds, Link!Authenticate, lifeVars
  <2> QED  BY <2>1
<1>6. CASE NoticeLoopEnd
  <2>1. CASE connected
    <3>1. Link!Lower
      BY <1>6, <2>1 DEF NoticeLoopEnd, Link!Lower, lifeVars
    <3> QED  BY <3>1
  <2>2. CASE ~connected
    BY <1>6, <2>2 DEF NoticeLoopEnd, lifeVars, IndInv, TypeOK
  <2> QED  BY <2>1, <2>2
<1>7. CASE DrainEnd
  <2>1. CASE ctxDone /\ pc' = "exited"
    <3>1. connected' = FALSE
      BY <1>0, <1>7 DEF DrainEnd, IndInv, TypeOK
    <3>2. Link!Return
      BY <1>7, <2>1, <3>1 DEF DrainEnd, Link!Return, lifeVars
    <3> QED  BY <3>2
  <2>2. CASE pc' = "backoff"
    BY <1>7, <2>2 DEF DrainEnd, lifeVars
  <2> QED  BY <1>7, <2>1, <2>2 DEF DrainEnd
<1>8. CASE StartConnect \/ DialSucceeds \/ OpenSucceeds \/ CloseLoops \/ LoopsJoined
           \/ DrainOne \/ BackoffEnds
  BY <1>8 DEF StartConnect, DialSucceeds, OpenSucceeds, CloseLoops, LoopsJoined,
              DrainOne, BackoffEnds, lifeVars, linkVars
<1> QED
  BY <1>1, <1>2, <1>3, <1>4, <1>5, <1>6, <1>7, <1>8 DEF RunStep

\* Every step of the client is one the transport manager expects of its
\* primary, or none: Run returns only when cancelled, EverConnected is never
\* taken back, and a failed attempt leaves the client down.
THEOREM LinkImplemented == Spec => ImplementsLink
<1>1. Init => Link!Init
  BY DEF Init, Link!Init
<1>2. IndInv /\ [Next]_vars => [Link!Next]_(Link!vars)
  <2> SUFFICES ASSUME IndInv, [Next]_vars
               PROVE  Link!Next \/ UNCHANGED Link!vars
    OBVIOUS
  <2> USE DEF Link!vars
  <2>1. CASE RunStep
    BY <2>1, LinkRun
  <2>2. CASE LoopStep
    BY <2>2 DEF LoopStep, LoopEnds, WriteTakes, WriteShips, WriteFails, lifeVars, linkVars
  <2>3. CASE SenderStep
    BY <2>3 DEF SenderStep, SendChecks, SendQueues, lifeVars, linkVars
  <2>4. CASE DerefNil
    <3>1. pc # "exited"
      BY <2>4 DEF DerefNil, Handshake, IndInv, LoopsInv, NoOrphanLoops
    <3> QED  BY <2>4, <3>1 DEF DerefNil, lifeVars, linkVars
  <2>5. CASE AgentCloses
    <3>1. CASE connected
      <4>1. Link!Lower
        BY <2>5, <3>1 DEF AgentCloses, Link!Lower
      <4> QED  BY <4>1 DEF Link!Next
    <3>2. CASE ~connected
      BY <2>5, <3>2 DEF AgentCloses, IndInv, TypeOK
    <3> QED  BY <3>1, <3>2
  <2>6. CASE CancelCtx
    <3>1. Link!Cancel
      BY <2>6 DEF CancelCtx, Link!Cancel, linkVars
    <3> QED  BY <3>1 DEF Link!Next
  <2>7. CASE UNCHANGED vars
    BY <2>7 DEF vars, lifeVars, linkVars
  <2> QED
    BY <2>1, <2>2, <2>3, <2>4, <2>5, <2>6, <2>7 DEF Next, Stopped
<1> QED  BY <1>1, <1>2, Safety, PTL DEF Spec, ImplementsLink, Link!Spec
=============================================================================
