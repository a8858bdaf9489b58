--------------------------- MODULE AuthorizedKeys ---------------------------
(***************************************************************************)
(* ssh:keys:add, :remove and :list of internal/agent/sshkeys_handlers.go   *)
(* and sshkeys.go: commands of the pool edit one user's authorized_keys    *)
(* under sshKeysMu, by reading it, editing the text, filling a temporary   *)
(* file next to it and renaming that into place.                           *)
(*                                                                         *)
(* A line is the material it carries and its rendering (options, comment); *)
(* a line that parses as no key carries NoKey.  The lines are those of     *)
(* splitLines, which ends with the last line that is not blank.  A missing *)
(* file and an empty one are both <<>>, as they are for read().  Every     *)
(* privileged call may fail; one that is killed at its deadline may have   *)
(* taken effect.                                                           *)
(***************************************************************************)
EXTENDS Naturals, Sequences, KeptLines

CONSTANTS
  KeyWorkers,   \* workers of the pool that may run these commands at once
  KeyMaterial,  \* type and blob of the keys commands name
  Renderings,   \* options and comments a key can be written with
  NoKey,        \* the material of a blank line, a comment, an unparseable line
  NoWorker,     \* nobody holds the mutex
  KeyFiles,     \* contents the file may have before the agent first edits it
  MaxKeyCmds    \* bound: commands started

KeyLines == [key : KeyMaterial, text : Renderings]
AllLines == [key : KeyMaterial \cup {NoKey}, text : Renderings]

ASSUME KeysAssumption ==
  /\ KeyMaterial # {} /\ Renderings # {}
  /\ NoKey \notin KeyMaterial /\ NoWorker \notin KeyWorkers
  /\ KeyFiles \subseteq Seq(AllLines)
  /\ MaxKeyCmds \in Nat

VARIABLES
  authFile,    \* the host: lines of authorized_keys
  userExists,  \* the host: the account exists
  keyTemps,    \* the host: temporary files next to authorized_keys
  sshKeysMu,   \* the worker that holds the mutex, or NoWorker
  keyOp,       \* per worker: the command it runs
  keyStep,     \* per worker: how far it has come
  keyLine,     \* per worker: the key line it was given
  keySeen,     \* per worker: the lines it read
  keyLeft      \* bound: commands that may still be started

keyVars == <<authFile, userExists, keyTemps, sshKeysMu, keyOp, keyStep,
             keyLine, keySeen, keyLeft>>

KeySteps == {"idle", "lock", "lookup", "read", "prepare", "fill", "rename"}
Locked == {"lookup", "read", "prepare", "fill", "rename"}

-----------------------------------------------------------------------------
(* sshkeys.go.                                                             *)

WithoutKey(lines, key) == Kept(lines, {i \in 1..Len(lines) : lines[i].key # key})
Carries(lines, key) == {i \in 1..Len(lines) : lines[i].key = key}

\* authorizedKeysUpsert: the first line of the key is replaced in place, its
\* duplicates are dropped; a new key goes to the end.
Upsert(lines, line) ==
  IF Carries(lines, line.key) = {}
  THEN Append(lines, line)
  ELSE LET first == CHOOSE i \in Carries(lines, line.key) :
                      \A j \in Carries(lines, line.key) : i <= j
       IN SubSeq(lines, 1, first - 1) \o <<line>>
            \o WithoutKey(SubSeq(lines, first + 1, Len(lines)), line.key)

\* What the command makes of the text: authorizedKeysRemove drops every line
\* of the key, list changes nothing.
Edited(op, line, lines) ==
  CASE op = "add" -> Upsert(lines, line)
    [] op = "remove" -> WithoutKey(lines, line.key)
    [] op = "list" -> lines

KeyTypeOK ==
  /\ authFile \in Seq(AllLines)
  /\ userExists \in BOOLEAN
  /\ keyTemps \in Nat
  /\ sshKeysMu \in KeyWorkers \cup {NoWorker}
  /\ keyOp \in [KeyWorkers -> {"add", "remove", "list"}]
  /\ keyStep \in [KeyWorkers -> KeySteps]
  /\ keyLine \in [KeyWorkers -> KeyLines]
  /\ keySeen \in [KeyWorkers -> Seq(AllLines)]
  /\ keyLeft \in 0..MaxKeyCmds

KeyInit ==
  /\ authFile \in KeyFiles
  /\ userExists \in BOOLEAN /\ (authFile # <<>> => userExists)
  /\ keyTemps = 0
  /\ sshKeysMu = NoWorker
  /\ keyOp = [w \in KeyWorkers |-> "list"]
  /\ keyStep = [w \in KeyWorkers |-> "idle"]
  /\ keyLine = [w \in KeyWorkers |-> CHOOSE l \in KeyLines : TRUE]
  /\ keySeen = [w \in KeyWorkers |-> <<>>]
  /\ keyLeft = MaxKeyCmds

-----------------------------------------------------------------------------
(* One command, on one worker.                                             *)

KeyAt(w, step) == keyStep' = [keyStep EXCEPT ![w] = step]
KeyFinish(w) ==
  /\ KeyAt(w, "idle") /\ sshKeysMu' = NoWorker
  /\ keySeen' = [keySeen EXCEPT ![w] = <<>>]

\* parseSSHKeysParams and validateSSHOptions precede the mutex.
KeyStart(w) ==
  /\ keyStep[w] = "idle" /\ keyLeft > 0
  /\ keyOp' \in {[keyOp EXCEPT ![w] = op] : op \in {"add", "remove", "list"}}
  /\ keyLine' \in {[keyLine EXCEPT ![w] = l] : l \in KeyLines}
  /\ KeyAt(w, "lock")
  /\ keyLeft' = keyLeft - 1
  /\ UNCHANGED <<authFile, userExists, keyTemps, sshKeysMu, keySeen>>

\* Mutant: the mutex is not there.
LockKeys_Unguarded(w) ==
  /\ keyStep[w] = "lock"
  /\ sshKeysMu' = w /\ KeyAt(w, "lookup")
  /\ UNCHANGED <<authFile, userExists, keyTemps, keyOp, keyLine, keySeen,
                 keyLeft>>

LockKeys(w) ==
  /\ keyStep[w] = "lock" /\ sshKeysMu = NoWorker
  /\ sshKeysMu' = w /\ KeyAt(w, "lookup")
  /\ UNCHANGED <<authFile, userExists, keyTemps, keyOp, keyLine, keySeen,
                 keyLeft>>

\* newSSHKeysIO: add may create the account (ensure_user); without one, and on
\* any failure, the command ends.
LookupUser(w) ==
  /\ keyStep[w] = "lookup"
  /\ \/ userExists /\ KeyAt(w, "read") /\ UNCHANGED <<sshKeysMu, keySeen>>
        /\ UNCHANGED userExists
     \/ ~userExists /\ keyOp[w] = "add" /\ KeyAt(w, "read")
        /\ userExists' = TRUE /\ UNCHANGED <<sshKeysMu, keySeen>>
     \/ KeyFinish(w)
        /\ userExists' \in {userExists, userExists \/ keyOp[w] = "add"}
  /\ UNCHANGED <<authFile, keyTemps, keyOp, keyLine, keyLeft>>

\* Only a missing file reads as empty: any other failure ends the command, and
\* so does an edit that would change nothing.
ReadKeys(w) ==
  /\ keyStep[w] = "read"
  /\ \/ /\ Edited(keyOp[w], keyLine[w], authFile) # authFile
        /\ keySeen' = [keySeen EXCEPT ![w] = authFile]
        /\ KeyAt(w, "prepare") /\ UNCHANGED sshKeysMu
     \/ KeyFinish(w)
  /\ UNCHANGED <<authFile, userExists, keyTemps, keyOp, keyLine, keyLeft>>

\* mkdir, chmod 700, mktemp.
MakeTemp(w) ==
  /\ keyStep[w] = "prepare"
  /\ \/ keyTemps' = keyTemps + 1 /\ KeyAt(w, "fill")
        /\ UNCHANGED <<sshKeysMu, keySeen>>
     \/ KeyFinish(w) /\ keyTemps' \in {keyTemps, keyTemps + 1}
  /\ UNCHANGED <<authFile, userExists, keyOp, keyLine, keyLeft>>

\* The deferred rm -f of the temporary file may fail too.
DropTemp(w) == keyTemps' \in {keyTemps, keyTemps - 1} /\ KeyFinish(w)

\* tee and chmod 600, into the temporary file.
FillTemp(w) ==
  /\ keyStep[w] = "fill"
  /\ \/ KeyAt(w, "rename") /\ UNCHANGED <<keyTemps, sshKeysMu, keySeen>>
     \/ DropTemp(w)
  /\ UNCHANGED <<authFile, userExists, keyOp, keyLine, keyLeft>>

\* mv -f: done, or not done, whatever the call reports.
RenameTemp(w) ==
  /\ keyStep[w] = "rename"
  /\ \/ authFile' = Edited(keyOp[w], keyLine[w], keySeen[w])
        /\ keyTemps' = keyTemps - 1 /\ KeyFinish(w)
     \/ DropTemp(w) /\ UNCHANGED authFile
  /\ UNCHANGED <<userExists, keyOp, keyLine, keyLeft>>

\* The agent dies: the mutex and the commands are gone, the host's files stay.
KeyCrash ==
  /\ \E w \in KeyWorkers : keyStep[w] # "idle"
  /\ keyStep' = [w \in KeyWorkers |-> "idle"]
  /\ keySeen' = [w \in KeyWorkers |-> <<>>]
  /\ sshKeysMu' = NoWorker
  /\ UNCHANGED <<authFile, userExists, keyTemps, keyOp, keyLine, keyLeft>>

KeyNext ==
  \/ \E w \in KeyWorkers :
       \/ KeyStart(w) \/ LockKeys(w) \/ LookupUser(w) \/ ReadKeys(w)
       \/ MakeTemp(w) \/ FillTemp(w) \/ RenameTemp(w)
  \/ KeyCrash

KeySpec == KeyInit /\ [][KeyNext]_keyVars

-----------------------------------------------------------------------------
(* "One mutex serializes all ssh:keys work on this host, so two concurrent *)
(* installs can't read-modify-write over each other": the file only ever   *)
(* changes to what one command makes of the lines it has at that moment,   *)
(* never of lines read before another command's edit.                      *)
KeyEditsCompose ==
  [][authFile' # authFile =>
       \E w \in KeyWorkers :
         authFile' = Edited(keyOp[w], keyLine[w], authFile)]_keyVars

\* What the proof needs: the worker past the lock is the one that holds it,
\* and what it has read is still what the file holds.
KeyInv ==
  /\ keyStep \in [KeyWorkers -> KeySteps] /\ DOMAIN keySeen = KeyWorkers
  /\ \A w \in KeyWorkers :
       /\ keyStep[w] \in Locked <=> sshKeysMu = w
       /\ keyStep[w] \in {"prepare", "fill", "rename"} =>
            keySeen[w] = authFile

\* What the types need beside: a temporary file exists while one is in use.
KeyTempInv ==
  \A w \in KeyWorkers : keyStep[w] \in {"fill", "rename"} => keyTemps > 0
=============================================================================
