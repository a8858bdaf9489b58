----------------------------- MODULE KeptLines -----------------------------
(***************************************************************************)
(* The loop of authorizedKeysRemove (internal/agent/sshkeys.go) and of     *)
(* linuxManager.Remove (internal/cron/cron_linux.go): the lines of a file  *)
(* are taken one by one and appended to what is written back, unless they  *)
(* are to be dropped.  It is written as a function of how many lines have  *)
(* been taken, not with SelectSeq, so that it can be reasoned about.       *)
(***************************************************************************)
EXTENDS Naturals, Sequences

\* The lines at these places, in their order.
Kept(lines, places) ==
  LET upTo[n \in 0..Len(lines)] ==
        IF n = 0 THEN <<>>
        ELSE IF n \in places THEN Append(upTo[n - 1], lines[n])
        ELSE upTo[n - 1]
  IN upTo[Len(lines)]
=============================================================================
