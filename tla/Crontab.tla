------------------------------ MODULE Crontab ------------------------------
(***************************************************************************)
(* cron:add, :update, :remove and :toggle of internal/cron/cron_linux.go   *)
(* and cron_parse.go: commands of the pool read the whole table with       *)
(* crontab -l, rewrite it in memory and install the result with crontab -. *)
(* Nothing serialises them.                                                *)
(*                                                                         *)
(* An entry is its identifier, which stands for schedule and command       *)
(* (entryID hashes them), and whether it is commented out.  Of a           *)
(* "# ServerKit: <name>" comment only its presence is kept.                *)
(***************************************************************************)
EXTENDS Naturals, Sequences, KeptLines

CONSTANTS
  CronWorkers,  \* workers of the pool that may run these commands at once
  EntryIds,     \* entries of the table and of the commands
  CronTables,   \* tables the host may have before the agent first edits it
  MaxCronCmds   \* bound: commands started

Entry(id, on) == [kind |-> "entry", id |-> id, on |-> on]
\* The fields of a comment mean nothing; any entry's will do.
NameLine == [kind |-> "name", id |-> CHOOSE id \in EntryIds : TRUE,
             on |-> TRUE]
CronLines == [kind : {"entry", "name"}, id : EntryIds, on : BOOLEAN]

Is(line, id) == line.kind = "entry" /\ line.id = id
Places(lines, id) == {i \in 1..Len(lines) : Is(lines[i], id)}
Unique(lines) ==
  \A i, j \in 1..Len(lines) :
    lines[i].kind = "entry" /\ lines[j].kind = "entry"
      /\ lines[i].id = lines[j].id => i = j

ASSUME CronAssumption ==
  /\ EntryIds # {}
  /\ CronTables \subseteq Seq(CronLines)
  /\ \A table \in CronTables : Unique(table)
  /\ MaxCronCmds \in Nat

\* "to" is the entry an update turns the named one into; "name" what add and
\* update do with the comment; "on" what toggle sets.
CronCmds ==
  [verb : {"add", "update", "remove", "toggle"}, id : EntryIds,
   to : EntryIds, name : {"keep", "set", "clear"}, on : BOOLEAN]

VARIABLES
  crontab,    \* the host: the lines of the table
  cronStep,   \* per worker: how far its command has come
  cronCmd,    \* per worker: the command
  cronSeen,   \* per worker: the lines it read, then those it will install
  cronLeft,   \* bound: commands that may still be started
  cronFirst,  \* history: the table the agent found
  cronNamed   \* history: entries some command named

cronVars == <<crontab, cronStep, cronCmd, cronSeen, cronLeft, cronFirst,
              cronNamed>>

CronTypeOK ==
  /\ crontab \in Seq(CronLines) /\ cronFirst \in Seq(CronLines)
  /\ cronStep \in [CronWorkers -> {"idle", "read", "install"}]
  /\ cronCmd \in [CronWorkers -> CronCmds]
  /\ cronSeen \in [CronWorkers -> Seq(CronLines)]
  /\ cronLeft \in 0..MaxCronCmds
  /\ cronNamed \subseteq EntryIds

CronInit ==
  /\ crontab \in CronTables /\ cronFirst = crontab
  /\ cronStep = [w \in CronWorkers |-> "idle"]
  /\ cronCmd = [w \in CronWorkers |-> CHOOSE c \in CronCmds : TRUE]
  /\ cronSeen = [w \in CronWorkers |-> <<>>]
  /\ cronLeft = MaxCronCmds
  /\ cronNamed = {}

-----------------------------------------------------------------------------
(* The rewrites, on the lines a command has read.                          *)

\* Mutant: only an enabled entry counts as a duplicate.
Refused_ByEnabled(cmd, lines) ==
  \/ cmd.verb = "add" /\ \E i \in Places(lines, cmd.id) : lines[i].on
  \/ cmd.verb # "add" /\ Places(lines, cmd.id) = {}
  \/ /\ cmd.verb = "update" /\ cmd.to # cmd.id
     /\ \E i \in Places(lines, cmd.to) : lines[i].on

\* Add and Update reject a second entry with the same schedule and command,
\* enabled or not; the others need the entry they name.
Refused(cmd, lines) ==
  \/ cmd.verb = "add" /\ Places(lines, cmd.id) # {}
  \/ cmd.verb # "add" /\ Places(lines, cmd.id) = {}
  \/ cmd.verb = "update" /\ cmd.to # cmd.id /\ Places(lines, cmd.to) # {}

Added(cmd, lines) ==
  lines \o (IF cmd.name = "set" THEN <<NameLine>> ELSE <<>>)
        \o <<Entry(cmd.id, TRUE)>>

\* The comment above the entry stays where it is.
Removed(cmd, lines) ==
  Kept(lines, (1..Len(lines)) \ Places(lines, cmd.id))

Toggled(cmd, lines) ==
  [i \in 1..Len(lines) |->
     IF Is(lines[i], cmd.id) THEN Entry(cmd.id, cmd.on) ELSE lines[i]]

\* applyUpdate: the comment right above the entry goes with it, and is written
\* again unless it is cleared; a disabled entry stays disabled.
Updated(cmd, lines) ==
  LET at == CHOOSE i \in Places(lines, cmd.id) : TRUE
      named == at > 1 /\ lines[at - 1].kind = "name"
      rename == cmd.name = "set" \/ (cmd.name = "keep" /\ named)
  IN SubSeq(lines, 1, IF named THEN at - 2 ELSE at - 1)
       \o (IF rename THEN <<NameLine>> ELSE <<>>)
       \o <<Entry(cmd.to, lines[at].on)>>
       \o SubSeq(lines, at + 1, Len(lines))

Rewritten(cmd, lines) ==
  CASE cmd.verb = "add" -> Added(cmd, lines)
    [] cmd.verb = "remove" -> Removed(cmd, lines)
    [] cmd.verb = "toggle" -> Toggled(cmd, lines)
    [] cmd.verb = "update" -> Updated(cmd, lines)

-----------------------------------------------------------------------------
(* One command, on one worker.                                             *)

\* What a command does not use of its parameters is left at one value.
Wellformed(cmd) ==
  /\ cmd.verb # "update" => cmd.to = cmd.id
  /\ cmd.verb \in {"remove", "toggle"} => cmd.name = "keep"
  /\ cmd.verb = "add" => cmd.name # "clear"
  /\ cmd.verb # "toggle" => cmd.on

CronStart(w) ==
  /\ cronStep[w] = "idle" /\ cronLeft > 0
  /\ \E cmd \in CronCmds :
       /\ Wellformed(cmd)
       /\ cronCmd' = [cronCmd EXCEPT ![w] = cmd]
       /\ cronNamed' = cronNamed \cup {cmd.id, cmd.to}
  /\ cronStep' = [cronStep EXCEPT ![w] = "read"]
  /\ cronLeft' = cronLeft - 1
  /\ UNCHANGED <<crontab, cronSeen, cronFirst>>

\* "no crontab for" reads as an empty table; any other failure, and a rewrite
\* that is refused, ends the command.
ReadCrontab(w) ==
  /\ cronStep[w] = "read"
  /\ \/ /\ ~Refused(cronCmd[w], crontab)
        /\ cronSeen' =
             [cronSeen EXCEPT ![w] = Rewritten(cronCmd[w], crontab)]
        /\ cronStep' = [cronStep EXCEPT ![w] = "install"]
     \/ cronStep' = [cronStep EXCEPT ![w] = "idle"] /\ UNCHANGED cronSeen
  /\ UNCHANGED <<crontab, cronCmd, cronLeft, cronFirst, cronNamed>>

\* crontab - replaces the table or leaves it, whatever it reports.
WriteCrontab(w) ==
  /\ cronStep[w] = "install"
  /\ crontab' \in {crontab, cronSeen[w]}
  /\ cronStep' = [cronStep EXCEPT ![w] = "idle"]
  /\ cronSeen' = [cronSeen EXCEPT ![w] = <<>>]
  /\ UNCHANGED <<cronCmd, cronLeft, cronFirst, cronNamed>>

CronCrash ==
  /\ \E w \in CronWorkers : cronStep[w] # "idle"
  /\ cronStep' = [w \in CronWorkers |-> "idle"]
  /\ cronSeen' = [w \in CronWorkers |-> <<>>]
  /\ UNCHANGED <<crontab, cronCmd, cronLeft, cronFirst, cronNamed>>

CronNext ==
  \/ \E w \in CronWorkers :
       CronStart(w) \/ ReadCrontab(w) \/ WriteCrontab(w)
  \/ CronCrash

CronSpec == CronInit /\ [][CronNext]_cronVars

-----------------------------------------------------------------------------
\* An entry the table had at first and no command has named is in these lines.
KeepsUnnamed(lines) ==
  \A i \in 1..Len(cronFirst) :
    cronFirst[i].kind = "entry" /\ cronFirst[i].id \notin cronNamed =>
      \E j \in 1..Len(lines) : lines[j] = cronFirst[i]

(* Two commands that overlap can undo each other's edit, but no more than  *)
(* that: the table never gets two entries with one identifier ("lets the   *)
(* panel safely retry on a flaky network without ending up with two        *)
(* identical rows"), and an entry no command has named stays in it, as     *)
(* enabled or disabled as it was.                                          *)
CrontabSafe == Unique(crontab) /\ KeepsUnnamed(crontab)

\* What the proof needs: the same holds of the tables about to be installed,
\* and what a command under way works on has been named.
CronInv ==
  /\ CrontabSafe
  /\ \A w \in CronWorkers :
       /\ cronStep[w] = "install" =>
            Unique(cronSeen[w]) /\ KeepsUnnamed(cronSeen[w])
       /\ cronStep[w] # "idle" =>
            {cronCmd[w].id, cronCmd[w].to} \subseteq cronNamed
=============================================================================
