------------------------------ MODULE WsClient ------------------------------
(***************************************************************************)
(* The Socket.IO client of internal/ws/client.go: the Run goroutine that   *)
(* dials, shakes hands, authenticates and reconnects, the three loops that *)
(* live as long as one connection, the bounded channel the loops drain,    *)
(* and the goroutines of the agent that call Send and Close.               *)
(*                                                                         *)
(* A section under c.mu is one step.  Send is two: it releases c.mu after  *)
(* reading `connected' and queues afterwards.  A frame carries, as history *)
(* only, the connection it was meant for and whether it was queued while   *)
(* that connection's loops were running.                                   *)
(***************************************************************************)
EXTENDS Naturals, Sequences

CONSTANTS
  Senders,   \* goroutines of the agent that call Send
  SendCap,   \* capacity of sendCh (100 in NewClient)
  MaxEpoch,  \* bound: connections dialled in a behaviour
  MaxSends,  \* bound: frames queued in a behaviour
  MaxCount   \* bound: where the reconnect counters saturate

ASSUME ConstantsAssumption ==
  /\ SendCap \in Nat \ {0}
  /\ MaxEpoch \in Nat
  /\ MaxSends \in Nat
  /\ MaxCount \in Nat \ {0}

VARIABLES
  ctxDone,         \* the ctx given to Run is cancelled
  pc,              \* where Run is
  connected,       \* c.connected
  everConnected,   \* c.everConnected
  lastErr,         \* c.lastErr, by what isTunnelIncompat tells apart
  reconnectCount,  \* c.reconnectCount, saturating at MaxCount
  conn,            \* c.conn: nil, or an open or a closed connection
  session,         \* c.session: 0 for nil, else the connection that issued it
  loops,           \* the three goroutines Run starts per connection
  loopCtxDone,     \* loopCtx is cancelled
  held,            \* frame writeLoop has received and not yet written, or <<>>
  sendCh,          \* c.sendCh
  sending,         \* per sender: 0, or the connection it saw as connected
  epoch,           \* connections dialled so far; names the one in c.conn
  sends,           \* frames queued so far; names the next one
  shipped,         \* history: frames written, with the connection that took them
  closed           \* the agent has called Close

lifeVars == <<ctxDone, closed>>
linkVars == <<connected, everConnected, lastErr, reconnectCount, conn, session>>
loopVars == <<loops, loopCtxDone, held>>
sendVars == <<sendCh, sending, sends>>
histVars == <<epoch, shipped>>
vars == <<lifeVars, pc, linkVars, loopVars, sendVars, histVars>>

Loops == {"read", "write", "ping"}
Handshake == {"open", "namespace", "auth"}
Locations == {"top", "dial", "loops", "closing", "wait", "drain", "backoff",
              "exited", "panicked"} \cup Handshake
ErrKinds == {"none", "plain", "tunnel"}
Frame == [id : Nat, born : Nat, live : BOOLEAN]
Shipment == [id : Nat, born : Nat, live : BOOLEAN, on : Nat]

Bump(n) == IF n < MaxCount THEN n + 1 ELSE n
NoLoop == [l \in Loops |-> "idle"]

Init ==
  /\ ctxDone = FALSE /\ closed = FALSE
  /\ pc = "top"
  /\ connected = FALSE /\ everConnected = FALSE /\ lastErr = "none"
  /\ reconnectCount = 0 /\ conn = "nil" /\ session = 0
  /\ loops = NoLoop /\ loopCtxDone = FALSE /\ held = <<>>
  /\ sendCh = <<>> /\ sending = [s \in Senders |-> 0] /\ sends = 0
  /\ epoch = 0 /\ shipped = <<>>

-----------------------------------------------------------------------------
(* Run and Connect.                                                        *)

\* The select at the head of Run's loop finds ctx cancelled: Close, return.
StopAtTop ==
  /\ pc = "top" /\ ctxDone
  /\ pc' = "exited"
  /\ conn' = "nil" /\ connected' = FALSE
  /\ UNCHANGED <<lifeVars, everConnected, lastErr, reconnectCount, session,
                 loopVars, sendVars, histVars>>

StartConnect ==
  /\ pc = "top" /\ ~ctxDone
  /\ pc' = "dial"
  /\ UNCHANGED <<lifeVars, linkVars, loopVars, sendVars, histVars>>

\* Closing a connection leaves c.conn pointing at it.
\* Mutant: the connection is not closed.
KeepConn == conn
ShutConn == IF conn = "open" THEN "closed" ELSE conn

\* Connect returns err: Run records it and handleReconnect counts it.
\* Mutant: the first failure ends Run.
ConnectFailsHard(err) ==
  /\ lastErr' = err /\ pc' = "exited"
  /\ UNCHANGED <<lifeVars, everConnected, reconnectCount, session, loopVars,
                 sendVars, histVars>>
ConnectFails(err) ==
  /\ lastErr' = err
  /\ reconnectCount' = Bump(reconnectCount)
  /\ pc' = "backoff"
  /\ UNCHANGED <<lifeVars, everConnected, session, loopVars, sendVars, epoch, shipped>>

DialFails ==
  /\ pc = "dial"
  /\ ConnectFails("plain")
  /\ UNCHANGED <<connected, conn>>

DialSucceeds ==
  /\ pc = "dial" /\ epoch < MaxEpoch
  /\ pc' = "open"
  /\ conn' = "open" /\ epoch' = epoch + 1
  /\ UNCHANGED <<lifeVars, connected, everConnected, lastErr, reconnectCount,
                 session, loopVars, sendVars, shipped>>

\* A failed OPEN is always reported as "engine.io handshake failed", one of
\* the signatures of isTunnelIncompat; a failed CONNECT may carry one.  Both
\* close the local conn and leave c.conn pointing at it.
OpenFails ==
  /\ pc = "open"
  /\ ConnectFails("tunnel")
  /\ conn' = ShutConn
  /\ UNCHANGED connected

OpenSucceeds ==
  /\ pc = "open" /\ conn = "open"
  /\ pc' = "namespace"
  /\ UNCHANGED <<lifeVars, linkVars, loopVars, sendVars, histVars>>

NamespaceFails ==
  /\ pc = "namespace"
  /\ \E err \in {"plain", "tunnel"} : ConnectFails(err)
  /\ conn' = ShutConn
  /\ UNCHANGED connected

\* connected is raised and the counter cleared before authenticate runs.
NamespaceSucceeds ==
  /\ pc = "namespace"
  /\ pc' = "auth"
  /\ connected' = TRUE /\ reconnectCount' = 0
  /\ UNCHANGED <<lifeVars, everConnected, lastErr, conn, session, loopVars,
                 sendVars, histVars>>

\* auth_fail, or no answer within the read deadline: Connect calls Close.
AuthFails ==
  /\ pc = "auth"
  /\ \E err \in {"plain", "tunnel"} : ConnectFails(err)
  /\ conn' = "nil" /\ connected' = FALSE

\* The session of auth_ok replaces whatever c.session holds.
NewSession == epoch

\* auth_ok: the session is stored, Run notes the success, starts the loops.
AuthSucceeds ==
  /\ pc = "auth"
  /\ pc' = "loops"
  /\ session' = NewSession /\ everConnected' = TRUE /\ lastErr' = "none"
  /\ loops' = [l \in Loops |-> "running"] /\ loopCtxDone' = FALSE
  /\ UNCHANGED <<lifeVars, connected, reconnectCount, conn, held, sendVars,
                 epoch, shipped>>

\* The first error arrives on errCh: connected is lowered before anything else.
NoticeLoopEnd ==
  /\ pc = "loops" /\ \E l \in Loops : loops[l] = "ended"
  /\ pc' = "closing" /\ connected' = FALSE
  /\ UNCHANGED <<lifeVars, everConnected, lastErr, reconnectCount, conn, session,
                 loopVars, sendVars, histVars>>

CloseLoops ==
  /\ pc = "closing"
  /\ pc' = "wait" /\ loopCtxDone' = TRUE
  /\ conn' = ShutConn
  /\ UNCHANGED <<lifeVars, connected, everConnected, lastErr, reconnectCount,
                 session, loops, held, sendVars, histVars>>

\* wg.Wait returns.
LoopsJoined ==
  /\ pc = "wait" /\ \A l \in Loops : loops[l] = "ended"
  /\ pc' = "drain" /\ loops' = NoLoop
  /\ UNCHANGED <<lifeVars, linkVars, loopCtxDone, held, sendVars, histVars>>

\* Mutant: the channel is left as it is.
DrainSkipped == TRUE
Drained == sendCh = <<>>

DrainOne ==
  /\ pc = "drain" /\ sendCh # <<>>
  /\ sendCh' = Tail(sendCh)
  /\ UNCHANGED <<lifeVars, pc, linkVars, loopVars, sending, sends, histVars>>

\* drainSendCh finds the channel empty: return on ctx, else handleReconnect.
DrainEnd ==
  /\ pc = "drain" /\ Drained
  /\ \/ ctxDone /\ pc' = "exited" /\ UNCHANGED reconnectCount
     \/ ~ctxDone /\ pc' = "backoff" /\ reconnectCount' = Bump(reconnectCount)
  /\ UNCHANGED <<lifeVars, connected, everConnected, lastErr, conn, session,
                 loopVars, sendVars, histVars>>

\* The backoff timer fires or ctx is cancelled; either way Run starts over.
BackoffEnds ==
  /\ pc = "backoff"
  /\ pc' = "top"
  /\ UNCHANGED <<lifeVars, linkVars, loopVars, sendVars, histVars>>

-----------------------------------------------------------------------------
(* The loops of one connection.                                            *)

\* loopCtx is derived from the ctx of Run.
Cancelled == ctxDone \/ loopCtxDone

\* A network error, the peer's close, a read deadline, loopCtx, or (ping)
\* the connected flag; writeLoop ends here only while it selects.
LoopEnds(l) ==
  /\ loops[l] = "running"
  /\ l = "write" => held = <<>> /\ Cancelled
  /\ loops' = [loops EXCEPT ![l] = "ended"]
  /\ UNCHANGED <<lifeVars, pc, linkVars, loopCtxDone, held, sendVars, histVars>>

\* Mutants: the frame stays queued; a second one is taken along.
WritePeeks ==
  /\ loops["write"] = "running" /\ held = <<>> /\ sendCh # <<>>
  /\ held' = <<Head(sendCh)>>
  /\ UNCHANGED <<lifeVars, pc, linkVars, loops, loopCtxDone, sendVars, histVars>>
WriteHoards ==
  /\ loops["write"] = "running" /\ sendCh # <<>>
  /\ held' = Append(held, Head(sendCh)) /\ sendCh' = Tail(sendCh)
  /\ UNCHANGED <<lifeVars, pc, linkVars, loops, loopCtxDone, sending, sends, histVars>>
WriteTakes ==
  /\ loops["write"] = "running" /\ held = <<>> /\ sendCh # <<>>
  /\ held' = <<Head(sendCh)>> /\ sendCh' = Tail(sendCh)
  /\ UNCHANGED <<lifeVars, pc, linkVars, loops, loopCtxDone, sending, sends, histVars>>

WriteShips ==
  /\ loops["write"] = "running" /\ held # <<>> /\ conn = "open"
  /\ held' = <<>>
  /\ shipped' = Append(shipped, [id |-> held[1].id, born |-> held[1].born,
                                 live |-> held[1].live, on |-> epoch])
  /\ UNCHANGED <<lifeVars, pc, linkVars, loops, loopCtxDone, sendVars, epoch>>

\* writeText fails: the frame is lost and the loop returns.
\* Mutant: the frame survives its loop.
WriteFailsHolding ==
  /\ loops["write"] = "running" /\ held # <<>>
  /\ loops' = [loops EXCEPT !["write"] = "ended"]
  /\ UNCHANGED <<lifeVars, pc, linkVars, held, loopCtxDone, sendVars, histVars>>
WriteFails ==
  /\ loops["write"] = "running" /\ held # <<>>
  /\ held' = <<>> /\ loops' = [loops EXCEPT !["write"] = "ended"]
  /\ UNCHANGED <<lifeVars, pc, linkVars, loopCtxDone, sendVars, histVars>>

\* Close has set c.conn to nil under a goroutine that still dereferences it.
DerefNil ==
  /\ conn = "nil"
  /\ pc \in Handshake \cup {"closing"} \/ \E l \in Loops : loops[l] = "running"
  /\ pc' = "panicked"
  /\ UNCHANGED <<lifeVars, linkVars, loopVars, sendVars, histVars>>

-----------------------------------------------------------------------------
(* The rest of the agent.                                                  *)

\* Send reads connected under c.mu; a caller that sees FALSE gets an error.
SendChecks(s) ==
  /\ sending[s] = 0 /\ connected /\ sends < MaxSends
  /\ sending' = [sending EXCEPT ![s] = epoch]
  /\ UNCHANGED <<lifeVars, pc, linkVars, loopVars, sendCh, sends, histVars>>

\* The non-blocking send: queued, or "send channel full".
SendQueues(s) ==
  /\ sending[s] # 0
  /\ sending' = [sending EXCEPT ![s] = 0]
  /\ \/ /\ Len(sendCh) < SendCap /\ sends < MaxSends
        /\ sendCh' = Append(sendCh, [id |-> sends, born |-> sending[s],
                                     live |-> pc = "loops" /\ epoch = sending[s]])
        /\ sends' = sends + 1
     \/ /\ Len(sendCh) = SendCap \/ sends = MaxSends
        /\ UNCHANGED <<sendCh, sends>>
  /\ UNCHANGED <<lifeVars, pc, linkVars, loopVars, histVars>>

\* agent.cleanup calls Close, on a restart without cancelling ctx.
AgentCloses ==
  /\ ~closed /\ closed' = TRUE
  /\ conn' = "nil" /\ connected' = FALSE
  /\ UNCHANGED <<ctxDone, pc, everConnected, lastErr, reconnectCount, session,
                 loopVars, sendVars, histVars>>

CancelCtx ==
  /\ ~ctxDone /\ ctxDone' = TRUE
  /\ UNCHANGED <<closed, pc, linkVars, loopVars, sendVars, histVars>>

-----------------------------------------------------------------------------
RunStep ==
  \/ StopAtTop \/ StartConnect \/ DialFails \/ DialSucceeds
  \/ OpenFails \/ OpenSucceeds \/ NamespaceFails \/ NamespaceSucceeds
  \/ AuthFails \/ AuthSucceeds
  \/ NoticeLoopEnd \/ CloseLoops \/ LoopsJoined \/ DrainOne \/ DrainEnd
  \/ BackoffEnds
LoopStep ==
  (\E l \in Loops : LoopEnds(l)) \/ WriteTakes \/ WriteShips \/ WriteFails
SenderStep == \E s \in Senders : SendChecks(s) \/ SendQueues(s)

\* Run has returned, or the process is gone.
Stopped ==
  /\ pc \in {"exited", "panicked"}
  /\ UNCHANGED vars

Next ==
  \/ /\ pc # "panicked"
     /\ RunStep \/ LoopStep \/ SenderStep \/ DerefNil \/ AgentCloses \/ CancelCtx
  \/ Stopped

Spec == Init /\ [][Next]_vars

(***************************************************************************)
(* Fairness.  Run is never descheduled for ever, and each wait of its own  *)
(* has a deadline: the dial and every handshake read time out after 10     *)
(* seconds.  A loop is bound to end once what it waits on ends: ping and   *)
(* write select on loopCtx, and a read or a write returns once the         *)
(* connection is closed; a write on an open one may block for ever.        *)
(***************************************************************************)
MustEnd(l) == IF l = "read" THEN conn # "open" ELSE Cancelled

Fairness ==
  /\ WF_vars(RunStep)
  /\ \A l \in Loops : WF_vars(MustEnd(l) /\ LoopEnds(l))
  /\ WF_vars(conn # "open" /\ WriteFails)

FairSpec == Spec /\ Fairness

-----------------------------------------------------------------------------
TypeOK ==
  /\ ctxDone \in BOOLEAN /\ closed \in BOOLEAN
  /\ pc \in Locations
  /\ connected \in BOOLEAN /\ everConnected \in BOOLEAN
  /\ lastErr \in ErrKinds
  /\ reconnectCount \in 0..MaxCount
  /\ conn \in {"nil", "open", "closed"}
  /\ epoch \in Nat /\ session \in 0..epoch
  /\ loops \in [Loops -> {"idle", "running", "ended"}]
  /\ loopCtxDone \in BOOLEAN
  /\ held \in Seq(Frame) /\ Len(held) <= 1
  /\ sendCh \in Seq(Frame) /\ sends \in Nat
  /\ sending \in [Senders -> 0..epoch]
  /\ shipped \in Seq(Shipment)

\* Each connection owns its three loops and no loop outlives it: whenever Run
\* is anywhere but on a connection, or tearing one down, no loop exists
\* (client.go:450-458, the goroutine leak that wg.Wait repaired).
NoOrphanLoops ==
  (\E l \in Loops : loops[l] # "idle")
    => pc \in {"loops", "closing", "wait", "panicked"}

\* A frame queued while a connection's loops were running is written on that
\* connection or not at all: the drain after wg.Wait removes it
\* (client.go:503-510).
LiveFramesStay ==
  \A i \in DOMAIN shipped : shipped[i].live => shipped[i].on = shipped[i].born

\* Reconnecting neither repeats nor reorders: every queued frame is written at
\* most once and frames are written in the order they were queued.
ShippedOnceInOrder ==
  \A i, j \in DOMAIN shipped : i < j => shipped[i].id < shipped[j].id

\* writeLoop only ever runs on a connection that has been authenticated, so no
\* frame of the agent precedes the auth exchange on the wire.
WritesAuthenticated == loops["write"] = "running" => session = epoch

\* Run itself never meets the nil connection that Close leaves behind: only a
\* Close from another goroutine can make one of its goroutines dereference it
\* (client.go:829-846, Close).
PanicNeedsClose == pc = "panicked" => closed

(***************************************************************************)
(* The inductive invariant behind these five: what ties the loops to Run's *)
(* location, the flag and the connection to it and to Close (so Run never  *)
(* finds itself connected at the head of its loop), and the frames on      *)
(* their way to the connection and to one another.                         *)
(***************************************************************************)
LoopsInv ==
  /\ NoOrphanLoops
  /\ pc \in {"loops", "closing", "wait"} => \A l \in Loops : loops[l] # "idle"
  /\ held # <<>> => loops["write"] = "running"
  /\ WritesAuthenticated

ConnInv ==
  /\ pc \notin {"auth", "loops", "panicked"} => ~connected
  /\ conn = "nil" /\ pc \in Handshake \cup {"loops", "closing", "wait"} => closed
  /\ PanicNeedsClose

FrameInv ==
  /\ \A i \in DOMAIN sendCh : sendCh[i].live =>
       /\ sendCh[i].born = epoch
       /\ pc \in {"loops", "closing", "wait", "drain", "panicked"}
  /\ held # <<>> /\ held[1].live => held[1].born = epoch
  /\ LiveFramesStay

OrderInv ==
  /\ \A i \in DOMAIN sendCh : sendCh[i].id < sends
  /\ \A i, j \in DOMAIN sendCh : i < j => sendCh[i].id < sendCh[j].id
  /\ held # <<>> =>
       /\ held[1].id < sends
       /\ \A i \in DOMAIN sendCh : held[1].id < sendCh[i].id
  /\ \A i \in DOMAIN shipped :
       /\ shipped[i].id < sends
       /\ held # <<>> => shipped[i].id < held[1].id
       /\ \A j \in DOMAIN sendCh : shipped[i].id < sendCh[j].id
  /\ ShippedOnceInOrder

IndInv == TypeOK /\ LoopsInv /\ ConnInv /\ FrameInv /\ OrderInv

\* Cancelling ctx stops Run from every location, through every wait.
StopsOnCancel == ctxDone ~> pc \in {"exited", "panicked"}

\* A connection that is being torn down, or a handshake under way, is left
\* again: Run dials anew, serves, or has stopped; wg.Wait never hangs.
LossIsRetried ==
  pc \in Handshake \cup {"closing"} ~> pc \in {"dial", "loops", "exited", "panicked"}

\* Run hangs nowhere, whatever its loops, the connection and a Close do: it
\* gets out of every wait, to a new connection or, once cancelled, for good.
RunProceeds == StopsOnCancel /\ LossIsRetried

\* The client implements the link the transport manager is written against.
Link == INSTANCE TransportLink
          WITH None <- "none", Errs <- {"plain", "tunnel"},
               up <- connected, everUp <- everConnected, err <- lastErr,
               running <- pc # "exited", cancelled <- ctxDone

\* Seen through IsConnected, EverConnected, LastError and the return of Run,
\* every step is one the manager expects or none: in particular Run returns
\* only when cancelled, and EverConnected is never taken back.
ImplementsLink == Link!Spec

-----------------------------------------------------------------------------
(* What comments in the source say of the client and the code does not do. *)

\* "drainSendCh empties any pending outbound messages from the previous
\* connection ... so we don't ship stale frames" (client.go:522-526): no frame
\* is written on another connection than the one it was sent for.
NoStaleFrames ==
  \A i \in DOMAIN shipped : shipped[i].on = shipped[i].born
=============================================================================
