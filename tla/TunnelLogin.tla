---------------------------- MODULE TunnelLogin ----------------------------
(***************************************************************************)
(* cloudflared:login: Login of internal/cloudflared/cloudflared_linux.go   *)
(* runs "cloudflared tunnel login" with two goroutines that scan its       *)
(* output and one that selects between their lines, a ticker that looks    *)
(* for cert.pem and a ceiling of fifteen minutes; the job of               *)
(* internal/agent/cloudflared_handlers.go forwards its events to the panel *)
(* and ends with the channel.                                              *)
(*                                                                         *)
(* cloudflared, and whoever else may write cert.pem, are external.  A line *)
(* with the URL is a line.  The scanners never close the lines' channel,   *)
(* so the select never sees it closed.                                     *)
(***************************************************************************)
EXTENDS Naturals, Sequences

CONSTANTS
  Pipes,        \* stdout and stderr
  LineCap,      \* capacity of the lines' channel, 32 in the code
  OutCap,       \* capacity of the events' channel, 8 in the code
  MaxLines      \* bound: lines cloudflared prints

ASSUME LoginAssumption ==
  /\ LineCap \in Nat \ {0} /\ OutCap \in Nat \ {0} /\ MaxLines \in Nat

VARIABLES
  cert,        \* the host: cert.pem exists
  loginProc,   \* the cloudflared process
  scanner,     \* per pipe: where its scanLines is
  lines,       \* lines in the channel
  unprinted,   \* bound: lines cloudflared may still print
  ceiling,     \* the fifteen minutes are over
  loginLoop,   \* where the selecting goroutine is
  out,         \* the events' channel
  outClosed,   \* it is closed
  loginJob,    \* the job
  verdicts     \* done events the job has sent to the panel

loginVars == <<cert, loginProc, scanner, lines, unprinted, ceiling, loginLoop,
               out, outClosed, loginJob, verdicts>>

LoginTypeOK ==
  /\ cert \in BOOLEAN /\ ceiling \in BOOLEAN /\ outClosed \in BOOLEAN
  /\ loginProc \in {"none", "running", "ended"}
  /\ scanner \in [Pipes -> {"none", "scan", "send", "gone"}]
  /\ lines \in 0..LineCap
  /\ unprinted \in 0..MaxLines
  /\ loginLoop \in {"none", "select", "line", "ok", "error", "kill", "gone"}
  /\ out \in Seq({"line", "ok", "error"}) /\ Len(out) <= OutCap
  /\ loginJob \in {"none", "running", "over"}
  /\ verdicts \in Nat

LoginInit ==
  /\ cert \in BOOLEAN
  /\ loginProc = "none"
  /\ scanner = [p \in Pipes |-> "none"]
  /\ lines = 0 /\ unprinted = MaxLines
  /\ ceiling = FALSE
  /\ loginLoop = "none" /\ out = <<>> /\ outClosed = FALSE
  /\ loginJob = "none" /\ verdicts = 0

-----------------------------------------------------------------------------
(* The command.                                                            *)

\* With a certificate nothing is started: the one event is there already.
AlreadyAuthenticated ==
  /\ loginJob = "none" /\ cert
  /\ out' = <<"ok">> /\ outClosed' = TRUE
  /\ loginJob' = "running"
  /\ UNCHANGED <<cert, loginProc, scanner, lines, unprinted, ceiling,
                 loginLoop, verdicts>>

StartLogin ==
  /\ loginJob = "none" /\ ~cert
  /\ loginProc' = "running"
  /\ scanner' = [p \in Pipes |-> "scan"]
  /\ loginLoop' = "select" /\ loginJob' = "running"
  /\ UNCHANGED <<cert, lines, unprinted, ceiling, out, outClosed, verdicts>>

-----------------------------------------------------------------------------
(* External: cloudflared, the file and the clock.                          *)

CertAppears ==
  /\ ~cert /\ cert' = TRUE
  /\ UNCHANGED <<loginProc, scanner, lines, unprinted, ceiling, loginLoop,
                 out, outClosed, loginJob, verdicts>>

ProcessEnds ==
  /\ loginProc = "running" /\ loginProc' = "ended"
  /\ UNCHANGED <<cert, scanner, lines, unprinted, ceiling, loginLoop, out,
                 outClosed, loginJob, verdicts>>

\* cctx ends, and CommandContext kills the process.
CeilingPasses ==
  /\ loginLoop \notin {"none", "gone"} /\ ~ceiling
  /\ ceiling' = TRUE /\ loginProc' = "ended"
  /\ UNCHANGED <<cert, scanner, lines, unprinted, loginLoop, out, outClosed,
                 loginJob, verdicts>>

-----------------------------------------------------------------------------
(* scanLines.                                                              *)

\* What was printed stays in the pipe when the process ends.
ScanLine(p) ==
  /\ scanner[p] = "scan" /\ unprinted > 0
  /\ scanner' = [scanner EXCEPT ![p] = "send"]
  /\ unprinted' = unprinted - 1
  /\ UNCHANGED <<cert, loginProc, lines, ceiling, loginLoop, out, outClosed,
                 loginJob, verdicts>>

\* Once the selecting goroutine is gone, nobody makes room again.
SendLine(p) ==
  /\ scanner[p] = "send" /\ lines < LineCap
  /\ lines' = lines + 1
  /\ scanner' = [scanner EXCEPT ![p] = "scan"]
  /\ UNCHANGED <<cert, loginProc, unprinted, ceiling, loginLoop, out,
                 outClosed, loginJob, verdicts>>

\* End of file, or a line above the scanner's limit.
ScanEnds(p) ==
  /\ scanner[p] = "scan"
  /\ scanner' = [scanner EXCEPT ![p] = "gone"]
  /\ UNCHANGED <<cert, loginProc, lines, unprinted, ceiling, loginLoop, out,
                 outClosed, loginJob, verdicts>>

-----------------------------------------------------------------------------
(* Login's goroutine: select, then a send that waits for room.             *)

\* Mutant: a line is taken whether there is one or not.
SelectCase_Unchecked ==
  /\ loginLoop = "select" /\ loginLoop' = "line" /\ lines' = lines - 1
  /\ UNCHANGED <<cert, loginProc, scanner, unprinted, ceiling, out,
                 outClosed, loginJob, verdicts>>

SelectCase ==
  /\ loginLoop = "select"
  /\ \/ ceiling /\ loginLoop' = "error" /\ UNCHANGED lines
     \/ lines > 0 /\ loginLoop' = "line" /\ lines' = lines - 1
     \/ cert /\ loginLoop' = "ok" /\ UNCHANGED lines
  /\ UNCHANGED <<cert, loginProc, scanner, unprinted, ceiling, out,
                 outClosed, loginJob, verdicts>>

Emit ==
  /\ loginLoop \in {"line", "ok", "error"} /\ Len(out) < OutCap
  /\ out' = Append(out, loginLoop)
  /\ loginLoop' = IF loginLoop = "line" THEN "select" ELSE "kill"
  /\ UNCHANGED <<cert, loginProc, scanner, lines, unprinted, ceiling,
                 outClosed, loginJob, verdicts>>

\* Process.Kill, close(out) and cancel: the process is never waited for.
LeaveLoop ==
  /\ loginLoop = "kill"
  /\ loginProc' = "ended" /\ outClosed' = TRUE /\ loginLoop' = "gone"
  /\ UNCHANGED <<cert, scanner, lines, unprinted, ceiling, out, loginJob,
                 verdicts>>

-----------------------------------------------------------------------------
(* runCloudflaredLoginJob.                                                 *)

ForwardEvent ==
  /\ loginJob = "running" /\ out # <<>>
  /\ verdicts' = IF Head(out) = "line" THEN verdicts ELSE verdicts + 1
  /\ out' = Tail(out)
  /\ UNCHANGED <<cert, loginProc, scanner, lines, unprinted, ceiling,
                 loginLoop, outClosed, loginJob>>

\* A closed channel without a done event gets one here.
EventsEnd ==
  /\ loginJob = "running" /\ out = <<>> /\ outClosed
  /\ verdicts' = IF verdicts = 0 THEN 1 ELSE verdicts
  /\ loginJob' = "over"
  /\ UNCHANGED <<cert, loginProc, scanner, lines, unprinted, ceiling,
                 loginLoop, out, outClosed>>

LoginNext ==
  \/ AlreadyAuthenticated \/ StartLogin
  \/ CertAppears \/ ProcessEnds \/ CeilingPasses
  \/ \E p \in Pipes : ScanLine(p) \/ SendLine(p) \/ ScanEnds(p)
  \/ SelectCase \/ Emit \/ LeaveLoop
  \/ ForwardEvent \/ EventsEnd

\* The clock and the agent's goroutines go on; cloudflared need not, and the
\* select owes nothing to any one of its cases.
LoginFairness ==
  /\ WF_loginVars(CeilingPasses)
  /\ WF_loginVars(SelectCase)
  /\ WF_loginVars(Emit)
  /\ WF_loginVars(LeaveLoop)
  /\ WF_loginVars(ForwardEvent)
  /\ WF_loginVars(EventsEnd)

LoginSpec == LoginInit /\ [][LoginNext]_loginVars /\ LoginFairness

-----------------------------------------------------------------------------
(* "A defensive terminator so the panel modal doesn't hang indefinitely":  *)
(* a login that is started ends, with exactly one done event, however      *)
(* cloudflared behaves and however full the two channels are.              *)
LoginEnds == loginJob = "running" ~> (loginJob = "over" /\ verdicts = 1)

(* The panel hears of the end of a login once, after everything else it    *)
(* hears of it, and the channel is never closed without that event in it   *)
(* or through it: the job's defensive terminator has nothing to add.       *)
LoginToldOnce ==
  /\ verdicts <= 1
  /\ verdicts = 1 => out = <<>> /\ loginLoop \in {"none", "kill", "gone"}
  /\ out = <<>> /\ outClosed => verdicts = 1
  /\ loginJob = "over" => verdicts = 1

\* What the proof needs: until the loop has sent its last event only lines are
\* in the channel, afterwards that event is at the channel's end or forwarded.
LoginInv ==
  /\ loginJob = "none" => loginLoop = "none" /\ out = <<>> /\ verdicts = 0
                           /\ ~outClosed
  /\ loginLoop \in {"select", "line", "ok", "error"} =>
       /\ verdicts = 0 /\ ~outClosed /\ loginJob = "running"
       /\ \A i \in 1..Len(out) : out[i] = "line"
  /\ loginLoop \in {"none", "kill", "gone"} /\ loginJob # "none" =>
       /\ loginLoop # "kill" => outClosed
       /\ \/ verdicts = 1 /\ out = <<>>
          \/ /\ verdicts = 0 /\ out # <<>> /\ loginJob = "running"
             /\ \A i \in 1..Len(out) : out[i] = "line" <=> i < Len(out)
=============================================================================
