---------------------------- MODULE UnitListing ----------------------------
(***************************************************************************)
(* systemd:list_units (agent/systemd_handlers.go): the first listing finds *)
(* out, once in the life of the agent, whether systemctl speaks JSON; one  *)
(* whose JSON fails takes plain text, and so do all after it.  The answer  *)
(* is kept twice: for the handlers, and in the capabilities the panel      *)
(* reads, which a probe in between replaces (agent/recapabilities.go).     *)
(***************************************************************************)

CONSTANTS
  Listers  \* workers that handle systemd:list_units

VARIABLES
  useJSON,  \* Agent.systemdJSON, "unknown" before the one detection
  hintJSON, \* capabilities.SystemdJSON
  lister,   \* per worker: where its listing is
  gaveUp    \* history: a listing has met JSON that fails

listVars == <<useJSON, hintJSON, lister, gaveUp>>

ListTypeOK ==
  /\ useJSON \in {"unknown", "yes", "no"} /\ hintJSON \in BOOLEAN
  /\ lister \in [Listers -> {"idle", "detect", "json", "plain"}]
  /\ gaveUp \in BOOLEAN

ListInit ==
  /\ useJSON = "unknown" /\ hintJSON = FALSE
  /\ lister = [w \in Listers |-> "idle"]
  /\ gaveUp = FALSE

At(w, place) == lister' = [lister EXCEPT ![w] = place]

\* A listing begins.  While the one detection is under way the others wait
\* for it, in the Once.
BeginListing(w) ==
  /\ lister[w] = "idle"
  /\ IF useJSON = "unknown"
     THEN (\A v \in Listers : lister[v] # "detect") /\ At(w, "detect")
     ELSE At(w, IF useJSON = "yes" THEN "json" ELSE "plain")
  /\ UNCHANGED <<useJSON, hintJSON, gaveUp>>

\* detectSystemctlJSON: a listing that fails, or takes 5 s, decides as well.
Detect(w) ==
  /\ lister[w] = "detect"
  /\ \E speaks \in BOOLEAN :
       /\ useJSON' = IF speaks THEN "yes" ELSE "no"
       /\ hintJSON' = speaks
       /\ At(w, IF speaks THEN "json" ELSE "plain")
  /\ UNCHANGED gaveUp

ListJSON(w) ==
  /\ lister[w] = "json" /\ At(w, "idle")
  /\ UNCHANGED <<useJSON, hintJSON, gaveUp>>

\* The command fails, or what it prints is no JSON: both copies are cleared.
JSONFails(w) ==
  /\ lister[w] = "json" /\ At(w, "plain")
  /\ useJSON' = "no" /\ hintJSON' = FALSE /\ gaveUp' = TRUE

\* Columns of text, or an error.
ListPlain(w) ==
  /\ lister[w] = "plain" /\ At(w, "idle")
  /\ UNCHANGED <<useJSON, hintJSON, gaveUp>>

\* mergeCapabilities takes the flag from a fresh probe, which never sets it.
Merged ==
  /\ hintJSON' = FALSE
  /\ UNCHANGED <<useJSON, lister, gaveUp>>

ListNext ==
  \/ \E w \in Listers : BeginListing(w) \/ Detect(w) \/ ListJSON(w)
                        \/ JSONFails(w) \/ ListPlain(w)
  \/ Merged

-----------------------------------------------------------------------------
\* Whatever listings and probes overlap: the panel is never told of JSON that
\* the listings do not use, and JSON that has failed once is not tried by a
\* listing that begins later.
JSONIsHonest ==
  /\ hintJSON => useJSON = "yes"
  /\ gaveUp => useJSON = "no"

\* The inductive form: the one detection comes first.
ListInv ==
  /\ ListTypeOK /\ JSONIsHonest
  /\ \A v, w \in Listers :
       lister[v] = "detect" => useJSON = "unknown"
                               /\ (lister[w] = "detect" => v = w)
  /\ \A w \in Listers : lister[w] = "json" => useJSON # "unknown"
=============================================================================
