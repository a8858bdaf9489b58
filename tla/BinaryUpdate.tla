---------------------------- MODULE BinaryUpdate ----------------------------
(***************************************************************************)
(* internal/updater: the periodic checker and the agent:update command     *)
(* download a release, verify it and replace the agent's own binary, one   *)
(* file-system call at a time and with nothing that keeps two of them      *)
(* apart; then the agent is restarted from whatever is at the binary's     *)
(* path.  The Unix installation is modelled (installUnix).                 *)
(*                                                                         *)
(* Files are inodes: a name is moved or removed while another installer    *)
(* still writes to the inode.  A call may fail where the code looks at its *)
(* result.                                                                 *)
(***************************************************************************)
EXTENDS Naturals

CONSTANTS
  Installers,   \* the checker, and the goroutines of agent:update
  Checker,      \* the periodic one, whose checks c.mu keeps apart
  NoFile,       \* a path without a file
  MaxInstalls   \* bound: installations begun

Inodes == 0..MaxInstalls

ASSUME UpdateAssumption ==
  /\ NoFile \notin Inodes /\ Checker \in Installers
  /\ MaxInstalls \in Nat

VARIABLES
  bin,       \* the host: the inode at the binary's path, or NoFile
  backup,    \* the host: the inode at <binary>.backup, or NoFile
  content,   \* the host: per inode, what it holds
  execBit,   \* the host: inodes that are executable
  running,   \* the inode the agent runs from, NoFile when it is down
  instStep,  \* per installer: how far it has come
  intact,    \* per installer: the archive is the one that was released
  target,    \* per installer: the inode it copies into
  begun,     \* bound: installations begun
  contended  \* history: an installation began while another was at work

updateVars == <<bin, backup, content, execBit, running, instStep, intact,
                target, begun, contended>>

InstSteps == {"idle", "check", "download", "verify", "clear", "aside", "create",
              "copy", "chmod", "restart"}

UpdateTypeOK ==
  /\ {bin, backup, running} \subseteq Inodes \cup {NoFile}
  /\ content \in [Inodes -> {"unused", "partial", "bad", "whole"}]
  /\ execBit \subseteq Inodes
  /\ instStep \in [Installers -> InstSteps]
  /\ intact \in [Installers -> BOOLEAN]
  /\ target \in [Installers -> Inodes \cup {NoFile}]
  /\ begun \in 0..MaxInstalls
  /\ contended \in BOOLEAN

Runnable(f) == f # NoFile /\ content[f] = "whole" /\ f \in execBit

UpdateInit ==
  /\ bin = 0 /\ backup = NoFile
  /\ content = [f \in Inodes |-> IF f = 0 THEN "whole" ELSE "unused"]
  /\ execBit = {0}
  /\ running = 0
  /\ instStep = [i \in Installers |-> "idle"]
  /\ intact = [i \in Installers |-> FALSE]
  /\ target = [i \in Installers |-> NoFile]
  /\ begun = 0
  /\ contended = FALSE

-----------------------------------------------------------------------------
(* DownloadUpdate.                                                         *)

InstAt(i, step) == instStep' = [instStep EXCEPT ![i] = step]
Files == <<bin, backup, content, execBit>>

\* Installing, not only asking whether there is something to install.
AtWork(i) == instStep[i] \notin {"idle", "check"}

Begins(i) ==
  /\ begun < MaxInstalls /\ begun' = begun + 1
  /\ InstAt(i, "download")
  /\ contended' = (contended \/ \E j \in Installers : AtWork(j))
  /\ UNCHANGED <<Files, running, intact, target>>

\* agent:update, in a goroutine of its own.
Begin(i) ==
  running # NoFile /\ i # Checker /\ instStep[i] = "idle" /\ Begins(i)

\* The checker's first look, or its ticker.
CheckAndNotify ==
  /\ running # NoFile /\ instStep[Checker] = "idle"
  /\ InstAt(Checker, "check")
  /\ UNCHANGED <<Files, running, intact, target, begun, contended>>

\* The panel is asked.  A newer version is installed if AutoInstall says so.
CheckForUpdate ==
  /\ instStep[Checker] = "check"
  /\ \/ Begins(Checker)
     \/ /\ InstAt(Checker, "idle")
        /\ UNCHANGED <<Files, running, intact, target, begun, contended>>

Download(i) ==
  /\ instStep[i] = "download"
  /\ \/ InstAt(i, "verify") /\ intact' \in {[intact EXCEPT ![i] = b] :
                                              b \in BOOLEAN}
     \/ InstAt(i, "idle") /\ UNCHANGED intact
  /\ UNCHANGED <<Files, running, target, begun, contended>>

\* Mutant: an archive whose checksum cannot be had is installed.
Verify_FailsOpen(i) ==
  /\ instStep[i] = "verify" /\ InstAt(i, "clear")
  /\ UNCHANGED <<Files, running, intact, target, begun, contended>>

\* verifyChecksum fails closed; it may also refuse an intact archive, when the
\* checksums cannot be fetched or name another file of this platform first.
Verify(i) ==
  /\ instStep[i] = "verify"
  /\ \/ intact[i] /\ InstAt(i, "clear")
     \/ InstAt(i, "idle")
  /\ UNCHANGED <<Files, running, intact, target, begun, contended>>

-----------------------------------------------------------------------------
(* InstallUpdate.                                                          *)

\* os.Remove(backupPath), whatever it returns.
RemoveBackup(i) ==
  /\ instStep[i] = "clear"
  /\ backup' \in {NoFile, backup}
  /\ InstAt(i, "aside")
  /\ UNCHANGED <<bin, content, execBit, running, intact, target, begun,
                 contended>>

\* os.Rename(currentBinary, backupPath).
MoveAside(i) ==
  /\ instStep[i] = "aside"
  /\ \/ bin # NoFile /\ backup' = bin /\ bin' = NoFile /\ InstAt(i, "create")
     \/ InstAt(i, "idle") /\ UNCHANGED <<bin, backup>>
  /\ UNCHANGED <<content, execBit, running, intact, target, begun, contended>>

\* os.Rename(backupPath, currentBinary), after a failure.
Restore(i) ==
  /\ \/ backup # NoFile /\ bin' = backup /\ backup' = NoFile
     \/ backup = NoFile /\ UNCHANGED <<bin, backup>>
  /\ InstAt(i, "idle") /\ target' = [target EXCEPT ![i] = NoFile]

\* os.Create: a new inode, or the one that is there truncated; the text of a
\* running program cannot be opened for writing.
CreateBinary(i) ==
  /\ instStep[i] = "create"
  /\ \/ \E f \in Inodes :
          /\ IF bin = NoFile THEN content[f] = "unused"
                             ELSE f = bin /\ f # running
          /\ bin' = f /\ content' = [content EXCEPT ![f] = "partial"]
          /\ target' = [target EXCEPT ![i] = f]
          /\ InstAt(i, "copy") /\ UNCHANGED backup
     \/ Restore(i) /\ UNCHANGED content
  /\ UNCHANGED <<execBit, running, intact, begun, contended>>

\* io.Copy ends; a second writer on the inode may leave it mixed.
CopyEnds(i) ==
  /\ instStep[i] = "copy"
  /\ \/ /\ \/ content' = [content EXCEPT
                            ![target[i]] = IF intact[i] THEN "whole"
                                                        ELSE "bad"]
           \/ (\E j \in Installers \ {i} : target[j] = target[i])
                /\ content' = [content EXCEPT ![target[i]] = "bad"]
        /\ target' = [target EXCEPT ![i] = NoFile]
        /\ InstAt(i, "chmod") /\ UNCHANGED <<bin, backup>>
     \/ Restore(i) /\ UNCHANGED content
  /\ UNCHANGED <<execBit, running, intact, begun, contended>>

\* os.Chmod of the path, not of the inode that was written.
MakeExecutable(i) ==
  /\ instStep[i] = "chmod"
  /\ \/ /\ bin # NoFile /\ execBit' = execBit \cup {bin}
        /\ InstAt(i, "restart") /\ UNCHANGED <<bin, backup, target>>
     \/ Restore(i) /\ UNCHANGED execBit
  /\ UNCHANGED <<content, running, intact, begun, contended>>

\* The agent's process ends and every installer with it; what starts next is
\* the binary at the path, if it can run.
Reboot ==
  /\ running' = IF Runnable(bin) THEN bin ELSE NoFile
  /\ instStep' = [i \in Installers |-> "idle"]
  /\ target' = [i \in Installers |-> NoFile]

\* systemctl restart, or a child process and os.Exit.  The call may fail: the
\* agent runs on.  Without systemd the child may find the IPC port still taken
\* and give up, while the parent exits.
RestartAgent(i) ==
  /\ instStep[i] = "restart"
  /\ \/ Reboot
     \/ InstAt(i, "idle") /\ UNCHANGED <<running, target>>
     \/ /\ running' = NoFile
        /\ instStep' = [j \in Installers |-> "idle"]
        /\ target' = [j \in Installers |-> NoFile]
  /\ UNCHANGED <<Files, intact, begun, contended>>

\* The host or the agent dies at any step and is started again.
UpdateCrash ==
  /\ running # NoFile
  /\ Reboot
  /\ UNCHANGED <<Files, intact, begun, contended>>

UpdateNext ==
  \/ \E i \in Installers :
       \/ Begin(i) \/ Download(i) \/ Verify(i) \/ RemoveBackup(i)
       \/ MoveAside(i) \/ CreateBinary(i) \/ CopyEnds(i)
       \/ MakeExecutable(i) \/ RestartAgent(i)
  \/ CheckAndNotify \/ CheckForUpdate \/ UpdateCrash

UpdateSpec == UpdateInit /\ [][UpdateNext]_updateVars

-----------------------------------------------------------------------------
(* At every moment of an installation, and wherever it fails or the host   *)
(* dies, an intact and executable agent is at the binary's path or at the  *)
(* backup's, as long as installations do not overlap.                      *)
BinaryRecoverable == contended \/ Runnable(bin) \/ Runnable(backup)

\* What the proof needs: before the old binary is moved aside it is the one
\* that runs, afterwards the backup is; only an intact archive is copied.
UpdateInv ==
  contended \/
  /\ \A i, j \in Installers :
       AtWork(i) /\ AtWork(j) => i = j
  /\ (\A i \in Installers : instStep[i] \notin {"create", "copy", "chmod"})
       /\ running # NoFile => Runnable(bin)
  /\ \A i \in Installers :
       /\ instStep[i] = "create" => bin = NoFile /\ Runnable(backup)
       /\ instStep[i] = "copy" =>
            /\ Runnable(backup) /\ backup # target[i]
            /\ bin = target[i] /\ bin # NoFile
       /\ instStep[i] = "chmod" =>
            Runnable(backup) /\ bin # NoFile /\ content[bin] = "whole"
       /\ AtWork(i) /\ instStep[i] \notin {"download", "verify"} => intact[i]
       /\ instStep[i] # "idle" => running # NoFile
       /\ instStep[i] # "copy" => target[i] = NoFile
  /\ running = NoFile => Runnable(bin) \/ Runnable(backup)
=============================================================================
