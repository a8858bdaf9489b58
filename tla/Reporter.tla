------------------------------ MODULE Reporter ------------------------------
(***************************************************************************)
(* Monitor mode's reporter (internal/transport/report/report.go), which    *)
(* collects, posts a signed report and waits, and whose IsConnected is     *)
(* what the agent says of its link.  Time is discrete; a phase lasts what  *)
(* it lasts, up to the limits the code sets: every check and the request   *)
(* have a deadline.                                                        *)
(***************************************************************************)
EXTENDS Naturals

CONSTANTS
  MinInterval, MaxInterval, \* what clamp keeps the interval between
  MaxCollect,               \* the longest collection
  MaxPost                   \* the longest request: the client's timeout

ASSUME ReportAssumption ==
  /\ {MinInterval, MaxInterval, MaxCollect, MaxPost} \subseteq Nat \ {0}
  /\ MinInterval <= MaxInterval /\ MaxPost <= MaxInterval

VARIABLES
  reporting, \* Run's place; "off" before it starts
  spent,     \* time spent in it
  interval,  \* Reporter.Interval
  age,       \* time since lastOK, as far as IsConnected can tell
  losses     \* history: reports not accepted since the last that was, up to
             \* two; two before the first

reportVars == <<reporting, spent, interval, age, losses>>

OldAge == 3 * MaxInterval
Longest == [collect |-> MaxCollect, post |-> MaxPost, wait |-> interval]

ReportTypeOK ==
  /\ reporting \in {"off", "collect", "post", "wait", "ended"}
  /\ spent \in Nat /\ interval \in MinInterval..MaxInterval
  /\ age \in 0..OldAge /\ losses \in 0..2

\* Mutant: only the upper bound is kept.
ClampAbove(d) == IF d > MaxInterval THEN MaxInterval ELSE d

\* New clamps what the configuration says.
Clamp(d) == IF d < MinInterval THEN MinInterval
            ELSE IF d > MaxInterval THEN MaxInterval ELSE d

ReportInit ==
  /\ reporting = "off" /\ spent = 0
  /\ interval \in {Clamp(d) : d \in 0 .. MaxInterval + 1}
  /\ age = OldAge /\ losses = 2

\* Mutant: two intervals are thought to be enough.
ConnectedForTwo == age < 2 * interval

IsConnected == age < 3 * interval

Enters(phase) == reporting' = phase /\ spent' = 0

RunStarts ==
  /\ reporting = "off" /\ Enters("collect")
  /\ UNCHANGED <<interval, age, losses>>

\* The time sent, and kept as lastOK, is taken now.
Collected ==
  /\ reporting = "collect" /\ Enters("post")
  /\ UNCHANGED <<interval, age, losses>>

\* Accepted: lastOK, and the interval the panel suggests, if it does.
Accepted ==
  /\ reporting = "post" /\ Enters("wait")
  /\ age' = spent /\ losses' = 0
  /\ \/ UNCHANGED interval
     \/ \E d \in 1 .. MaxInterval + 1 : interval' = Clamp(d)

\* No answer in time, a refusal, or an answer that does not say "ok".
NotAccepted ==
  /\ reporting = "post" /\ Enters("wait")
  /\ losses' = IF losses = 2 THEN 2 ELSE losses + 1
  /\ UNCHANGED <<interval, age>>

WaitEnds ==
  /\ reporting = "wait" /\ spent = interval /\ Enters("collect")
  /\ UNCHANGED <<interval, age, losses>>

Cancelled ==
  /\ reporting = "wait" /\ Enters("ended")
  /\ UNCHANGED <<interval, age, losses>>

TimePasses ==
  /\ reporting \in DOMAIN Longest => spent < Longest[reporting]
  /\ spent' = IF reporting \in DOMAIN Longest THEN spent + 1 ELSE spent
  /\ age' = IF age = OldAge THEN OldAge ELSE age + 1
  /\ UNCHANGED <<reporting, interval, losses>>

ReportNext ==
  \/ RunStarts \/ Collected \/ Accepted \/ NotAccepted \/ WaitEnds \/ Cancelled
  \/ TimePasses

ReportSpec == ReportInit /\ [][ReportNext]_reportVars

-----------------------------------------------------------------------------
\* An agent that reports calls itself connected while its reports are
\* accepted, and even while one of them is lost, whatever intervals the panel
\* suggests in between: provided the interval in force is long against what
\* collecting and posting may take.
ConnectedWhileAccepted ==
  reporting # "ended" =>
    /\ losses = 0 /\ 2 * MaxPost + MaxCollect < 2 * interval => IsConnected
    /\ losses = 1 /\ 3 * MaxPost + 2 * MaxCollect < interval => IsConnected

\* The inductive form: the longest since the last answer, in each place, and
\* how old the last acceptance can be after one loss at most.
SinceAnswer ==
  IF reporting = "collect" THEN interval + spent
  ELSE IF reporting = "post" THEN interval + MaxCollect + spent
  ELSE spent

ReporterInv ==
  /\ ReportTypeOK
  /\ reporting \in {"off"} => losses = 2
  /\ reporting \in {"collect"} => spent <= MaxCollect
  /\ reporting \in {"post"} => spent <= MaxPost
  /\ reporting \in {"wait"} => spent <= interval
  /\ reporting # "ended" /\ losses = 0 => age <= MaxPost + SinceAnswer
  /\ reporting # "ended" /\ losses = 1 =>
       age <= 2 * MaxPost + MaxCollect + interval + SinceAnswer
=============================================================================
