--------------------------- MODULE MCHostChanges ---------------------------
(* Constants of HostChanges for model checking.                            *)
EXTENDS HostChanges

CONSTANTS k1, k2, plain, options, backup_job, renew_job, clean_job, http, https

Line(k, t) == [key |-> k, text |-> t]

\* Nothing; one key, among lines that carry none, twice.
MCKeyFiles ==
  {<<>>,
   <<Line(NoKey, plain), Line(k1, plain), Line(k2, options),
     Line(k1, options)>>}

\* Nothing; a named entry and a disabled one.
MCCronTables ==
  {<<>>,
   <<NameLine, Entry(backup_job, TRUE), Entry(renew_job, FALSE)>>}

\* One port opened by its number, the other by a profile.
MCFirstRules == {{<<"tcp", http>>, <<"profile", https>>}}
=============================================================================
