----------------------------- MODULE Terminals -----------------------------
(***************************************************************************)
(* The shells of internal/terminal and their commands terminal:create,     *)
(* :input and :close (internal/agent/agent.go).  A session is a shell on a *)
(* pty, a goroutine that reads the pty, and an entry of Manager.sessions.  *)
(* It can be closed by a command, by its reader when the shell ends, and   *)
(* by the shutdown; whoever takes the entry out of the map closes it.      *)
(*                                                                         *)
(* Manager.mu and Session.mu are held for one action, but for Write: it    *)
(* keeps Session.mu while the pty takes the input, for ever if the program *)
(* on it does not read.  Output, sizes and shells' input are left out.     *)
(***************************************************************************)
EXTENDS Naturals

CONSTANTS
  TermWorkers,  \* workers of the pool that may run these commands at once
  TermIds,      \* session ids the panel chooses
  NoSession,
  MaxSessions   \* bound: sessions created

Sessions == 1..MaxSessions
\* Who closes a single session: a command, or the reader of some session.
Closers == TermWorkers \cup Sessions

ASSUME TermAssumption ==
  /\ MaxSessions \in Nat
  /\ TermIds # {}
  /\ NoSession \notin Sessions
  /\ TermWorkers \cap Sessions = {}

VARIABLES
  sessions,     \* Manager.sessions
  sessionId,    \* per session: Session.ID
  shell,        \* per session: the state of its process
  closed,       \* sessions with Session.closed
  onClose,      \* sessions with a close handler
  reader,       \* per session: how far readLoop has come
  termStep,     \* per worker: how far create or input has come
  termSession,  \* per worker: the session create or input has in hand
  closing,      \* per closer: the session it took from the map to close
  closeAll      \* the sessions CloseAll took and has yet to close

termVars == <<sessions, sessionId, shell, closed, onClose, reader, termStep,
              termSession, closing, closeAll>>

Used == {s \in Sessions : shell[s] # "none"}

TermTypeOK ==
  /\ sessions \in [TermIds -> Sessions \cup {NoSession}]
  /\ sessionId \in [Sessions -> TermIds]
  /\ shell \in [Sessions -> {"none", "live", "dead"}]
  /\ closed \subseteq Sessions /\ onClose \subseteq Sessions
  /\ reader \in [Sessions -> {"none", "reading", "notify", "find", "gone"}]
  /\ termStep \in [TermWorkers -> {"idle", "handlers", "write", "writing"}]
  /\ termSession \in [TermWorkers -> Sessions \cup {NoSession}]
  /\ closing \in [Closers -> Sessions \cup {NoSession}]
  /\ closeAll \subseteq Sessions

TermInit ==
  /\ sessions = [id \in TermIds |-> NoSession]
  /\ sessionId = [s \in Sessions |-> CHOOSE id \in TermIds : TRUE]
  /\ shell = [s \in Sessions |-> "none"]
  /\ closed = {} /\ onClose = {}
  /\ reader = [s \in Sessions |-> "none"]
  /\ termStep = [w \in TermWorkers |-> "idle"]
  /\ termSession = [w \in TermWorkers |-> NoSession]
  /\ closing = [c \in Closers |-> NoSession]
  /\ closeAll = {}

-----------------------------------------------------------------------------
(* Commands.                                                               *)

Free(w) == termStep[w] = "idle" /\ closing[w] = NoSession
Step(w, step, s) ==
  /\ termStep' = [termStep EXCEPT ![w] = step]
  /\ termSession' = [termSession EXCEPT ![w] = s]

\* Mutant: an id in use is given to the new session.
CreateSession_Replaces(w) ==
  /\ Free(w)
  /\ \E id \in TermIds, s \in Sessions \ Used :
       /\ sessions' = [sessions EXCEPT ![id] = s]
       /\ sessionId' = [sessionId EXCEPT ![s] = id]
       /\ shell' = [shell EXCEPT ![s] = "live"]
       /\ reader' = [reader EXCEPT ![s] = "reading"]
       /\ Step(w, "handlers", s)
  /\ UNCHANGED <<closed, onClose, closing, closeAll>>

\* CreateSession, under Manager.mu: an id in use is refused; the shell and
\* its reader run before the handlers are set.
CreateSession(w) ==
  /\ Free(w)
  /\ \E id \in TermIds, s \in Sessions \ Used :
       /\ sessions[id] = NoSession
       /\ \A r \in Sessions \ Used : s <= r
       /\ sessions' = [sessions EXCEPT ![id] = s]
       /\ sessionId' = [sessionId EXCEPT ![s] = id]
       /\ shell' = [shell EXCEPT ![s] = "live"]
       /\ reader' = [reader EXCEPT ![s] = "reading"]
       /\ Step(w, "handlers", s)
  /\ UNCHANGED <<closed, onClose, closing, closeAll>>

SetHandlers(w) ==
  /\ termStep[w] = "handlers"
  /\ onClose' = onClose \cup {termSession[w]}
  /\ Step(w, "idle", NoSession)
  /\ UNCHANGED <<sessions, sessionId, shell, closed, reader, closing,
                 closeAll>>

\* handleTerminalInput: GetSession, and Write later on.
FindForInput(w) ==
  /\ Free(w)
  /\ \E id \in TermIds :
       sessions[id] # NoSession /\ Step(w, "write", sessions[id])
  /\ UNCHANGED <<sessions, sessionId, shell, closed, onClose, reader,
                 closing, closeAll>>

\* Who holds Session.mu: only a Write is seen with it.
WriteHeld(s) ==
  \E w \in TermWorkers : termStep[w] = "writing" /\ termSession[w] = s

BeginWrite(w) ==
  /\ termStep[w] = "write" /\ ~WriteHeld(termSession[w])
  /\ IF termSession[w] \in closed THEN Step(w, "idle", NoSession)
                                  ELSE Step(w, "writing", termSession[w])
  /\ UNCHANGED <<sessions, sessionId, shell, closed, onClose, reader,
                 closing, closeAll>>

EndWrite(w) ==
  /\ termStep[w] = "writing"
  /\ Step(w, "idle", NoSession)
  /\ UNCHANGED <<sessions, sessionId, shell, closed, onClose, reader,
                 closing, closeAll>>

-----------------------------------------------------------------------------
(* Closing.                                                                *)

\* The first half of CloseSession, under Manager.mu: by id.
TakeOut(c, id) ==
  /\ closing' = [closing EXCEPT ![c] = sessions[id]]
  /\ sessions' = [sessions EXCEPT ![id] = NoSession]

CloseCommand(w) ==
  /\ Free(w)
  /\ \E id \in TermIds : sessions[id] # NoSession /\ TakeOut(w, id)
  /\ UNCHANGED <<sessionId, shell, closed, onClose, reader, termStep,
                 termSession, closeAll>>

\* Mutant: only the pty is closed, which a shell need not notice.
Close_KeepsShell(s) ==
  /\ ~WriteHeld(s)
  /\ closed' = closed \cup {s} /\ UNCHANGED shell

\* Session.Close, under Session.mu: closes the pty and kills the shell.
Close(s) ==
  /\ ~WriteHeld(s)
  /\ closed' = closed \cup {s}
  /\ shell' = [shell EXCEPT ![s] = "dead"]

CloseTaken(c) ==
  /\ closing[c] # NoSession
  /\ Close(closing[c])
  /\ closing' = [closing EXCEPT ![c] = NoSession]
  /\ UNCHANGED <<sessions, sessionId, onClose, reader, termStep,
                 termSession, closeAll>>

\* The shutdown; what is left of the process ends soon after it.
BeginCloseAll ==
  /\ closeAll = {}
  /\ closeAll' = {sessions[id] : id \in TermIds} \ {NoSession}
  /\ sessions' = [id \in TermIds |-> NoSession]
  /\ UNCHANGED <<sessionId, shell, closed, onClose, reader, termStep,
                 termSession, closing>>

\* One after the other, in an order of its own: CloseAll is stuck where one
\* of them is.
CloseNextOfAll ==
  /\ closeAll # {}
  /\ LET s == CHOOSE r \in closeAll : TRUE IN
       Close(s) /\ closeAll' = closeAll \ {s}
  /\ UNCHANGED <<sessions, sessionId, onClose, reader, termStep,
                 termSession, closing>>

-----------------------------------------------------------------------------
(* The shell and its reader.                                               *)

ShellExits(s) ==
  /\ shell[s] = "live" /\ shell' = [shell EXCEPT ![s] = "dead"]
  /\ UNCHANGED <<sessions, sessionId, closed, onClose, reader, termStep,
                 termSession, closing, closeAll>>

\* A read fails: the shell has ended or let go of the pty, or the session is
\* closed.  Without a close handler the reader just goes.
ReadFails(s) ==
  /\ reader[s] = "reading" /\ ~WriteHeld(s)
  /\ reader' =
       [reader EXCEPT
          ![s] = IF s \in closed \/ s \notin onClose THEN "gone"
                                                     ELSE "notify"]
  /\ UNCHANGED <<sessions, sessionId, shell, closed, onClose, termStep,
                 termSession, closing, closeAll>>

\* The close handler: the "closed" event, which may wait for the outbox.
SendClosed(s) ==
  /\ reader[s] = "notify"
  /\ reader' = [reader EXCEPT ![s] = "find"]
  /\ UNCHANGED <<sessions, sessionId, shell, closed, onClose, termStep,
                 termSession, closing, closeAll>>

\* Then CloseSession by id: of whichever session has the id by now.
TakeByReader(s) ==
  /\ reader[s] = "find"
  /\ reader' = [reader EXCEPT ![s] = "gone"]
  /\ TakeOut(s, sessionId[s])
  /\ UNCHANGED <<sessionId, shell, closed, onClose, termStep, termSession,
                 closeAll>>

TermNext ==
  \/ \E w \in TermWorkers :
       \/ CreateSession(w) \/ SetHandlers(w) \/ FindForInput(w)
       \/ BeginWrite(w) \/ EndWrite(w) \/ CloseCommand(w)
  \/ \E c \in Closers : CloseTaken(c)
  \/ BeginCloseAll \/ CloseNextOfAll
  \/ \E s \in Sessions :
       ShellExits(s) \/ ReadFails(s) \/ SendClosed(s) \/ TakeByReader(s)

\* Goroutines that can go on do; shells and commands need not.
TermFairness ==
  /\ \A c \in Closers : WF_termVars(CloseTaken(c))
  /\ WF_termVars(CloseNextOfAll)

TermSpec == TermInit /\ [][TermNext]_termVars /\ TermFairness

-----------------------------------------------------------------------------
Taken(s) == s \in closeAll \/ \E c \in Closers : closing[c] = s

(* A shell never runs on with nobody left to end it: its session is the    *)
(* one its id finds, or someone has taken it out to close it, whatever the *)
(* shells, the readers, the commands and the shutdown do at the same time; *)
(* and two ids never find one session.                                     *)
ShellIsOwned ==
  /\ \A s \in Sessions :
       shell[s] = "live" => sessions[sessionId[s]] = s \/ Taken(s)
  /\ \A id \in TermIds :
       sessions[id] # NoSession => /\ sessionId[sessions[id]] = id
                                   /\ sessions[id] \notin closed

\* What the proof needs: a session is in the map or taken, never both, and
\* never before it is created; a reader that has nothing to close closes none.
TermInv ==
  /\ ShellIsOwned
  /\ \A s \in Sessions :
       /\ Taken(s) => sessions[sessionId[s]] # s
       /\ shell[s] = "none" =>
            /\ sessions[sessionId[s]] # s /\ s \notin closed /\ ~Taken(s)
            /\ reader[s] = "none"
       /\ reader[s] # "gone" => closing[s] = NoSession
  /\ \A w \in TermWorkers : termStep[w] # "idle" => termSession[w] # NoSession

(* A session taken out is closed and its shell killed, unless some input   *)
(* is stuck on a program that does not read: whoever closes the session    *)
(* waits behind it, and CloseAll then leaves the later ones alive.         *)
TakenShellEnds ==
  \A s \in Sessions :
    Taken(s) ~> (shell[s] = "dead" \/ \E r \in Sessions : WriteHeld(r))
=============================================================================
