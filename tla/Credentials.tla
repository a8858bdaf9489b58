---------------------------- MODULE Credentials ----------------------------
(***************************************************************************)
(* The agent's credentials: the authenticator's copy, the configuration's  *)
(* copy and the key file, through a rotation the panel asks for            *)
(* (handleCredentialUpdate of internal/agent/agent.go), through saving and *)
(* loading (internal/config/config.go), and through restarts between any   *)
(* two of their steps.                                                     *)
(*                                                                         *)
(* Credentials are version numbers.  os.WriteFile truncates the key file   *)
(* and then fills it: in between, and after a failed write, it is Torn and *)
(* cannot be decrypted.  The panel is external: it signs a rotation with   *)
(* the secret it knows and changes to the new one when told it is saved.   *)
(***************************************************************************)
EXTENDS Naturals

CONSTANTS
  NoCreds,      \* empty APIKey and APISecret; also: no answer under way
  Torn,         \* a key file that is not a whole encryption
  MaxRotations, \* bound: rotations the panel asks for
  MaxRestarts   \* bound: restarts of the agent

Versions == 0..MaxRotations

ASSUME CredsAssumption ==
  /\ NoCreds \notin Versions /\ Torn \notin Versions /\ NoCreds # Torn
  /\ \A v \in Versions, b \in BOOLEAN :
       NoCreds # [version |-> v, success |-> b]
  /\ MaxRotations \in Nat /\ MaxRestarts \in Nat

VARIABLES
  keyFile,    \* the host: the version in the key file, or Torn
  legacy,     \* the host: it is encrypted under the pre-1.6.14 machine key
  authCreds,  \* the authenticator's copy
  cfgCreds,   \* cfg.Auth
  rotStep,    \* how far handleCredentialUpdate, or Load, has come
  rotMsg,     \* the rotation being handled: its version, the signing secret
  ack,        \* the acknowledgement under way, or NoCreds
  panelCreds, \* external: the version the panel accepts
  rotations,  \* bound: rotations asked for
  restarts,   \* bound: restarts
  saved,      \* history: the version last acknowledged as saved, until the
              \* key file is opened for writing again
  troubled    \* history: see RotationSafe

credVars == <<keyFile, legacy, authCreds, cfgCreds, rotStep, rotMsg, ack,
              panelCreds, rotations, restarts, saved, troubled>>

CredTypeOK ==
  /\ keyFile \in Versions \cup {Torn}
  /\ legacy \in BOOLEAN
  /\ {authCreds, cfgCreds, saved} \subseteq Versions \cup {NoCreds}
  /\ rotStep \in {"idle", "verify", "update", "open", "write", "migrate",
                  "rewrite"}
  /\ rotMsg \in [version : Versions, signer : Versions]
  /\ ack \in {NoCreds} \cup [version : Versions, success : BOOLEAN]
  /\ panelCreds \in Versions
  /\ rotations \in Versions /\ restarts \in 0..MaxRestarts
  /\ troubled \in BOOLEAN

CredInit ==
  /\ keyFile = 0 /\ legacy \in BOOLEAN
  /\ authCreds = 0 /\ cfgCreds = 0
  /\ rotStep = IF legacy THEN "migrate" ELSE "idle"
  /\ rotMsg = [version |-> 0, signer |-> 0]
  /\ ack = NoCreds
  /\ panelCreds = 0
  /\ rotations = 0 /\ restarts = 0
  /\ saved = NoCreds
  /\ troubled = FALSE

-----------------------------------------------------------------------------
(* The panel.                                                              *)

\* One rotation at a time, over a connection the panel accepts.
PanelRotates ==
  /\ rotStep = "idle" /\ ack = NoCreds /\ authCreds # NoCreds
  /\ rotations < MaxRotations
  /\ rotations' = rotations + 1
  /\ rotMsg' = [version |-> rotations + 1, signer |-> panelCreds]
  /\ rotStep' = "verify"
  /\ UNCHANGED <<keyFile, legacy, authCreds, cfgCreds, ack, panelCreds,
                 restarts, saved, troubled>>

PanelHears ==
  /\ ack # NoCreds
  /\ panelCreds' = IF ack.success THEN ack.version ELSE panelCreds
  /\ ack' = NoCreds
  /\ UNCHANGED <<keyFile, legacy, authCreds, cfgCreds, rotStep, rotMsg,
                 rotations, restarts, saved, troubled>>

\* Send queues the acknowledgement on a link that drops before it is written.
AckIsLost ==
  /\ ack # NoCreds
  /\ ack' = NoCreds
  /\ troubled' = TRUE
  /\ UNCHANGED <<keyFile, legacy, authCreds, cfgCreds, rotStep, rotMsg,
                 panelCreds, rotations, restarts, saved>>

-----------------------------------------------------------------------------
(* handleCredentialUpdate, on the goroutine that reads the transport.      *)

Acknowledge(success) ==
  /\ ack' = [version |-> rotMsg.version, success |-> success]
  /\ rotStep' = "idle"

\* verifyCredentialRotation: the signature must be the current secret's.
VerifyRotation ==
  /\ rotStep = "verify"
  /\ \/ rotMsg.signer = authCreds /\ rotStep' = "update" /\ UNCHANGED ack
     \/ rotMsg.signer # authCreds /\ Acknowledge(FALSE)
  /\ UNCHANGED <<keyFile, legacy, authCreds, cfgCreds, rotMsg, panelCreds,
                 rotations, restarts, saved, troubled>>

\* The authenticator changes before anything is saved.
UpdateCredentials ==
  /\ rotStep = "update"
  /\ authCreds' = rotMsg.version
  /\ rotStep' = "open"
  /\ UNCHANGED <<keyFile, legacy, cfgCreds, rotMsg, ack, panelCreds,
                 rotations, restarts, saved, troubled>>

\* saveCredentials, SaveCredentials: the directory, the encryption or the
\* opening of the key file may fail.
OpenKeyFile ==
  /\ rotStep = "open"
  /\ cfgCreds' = rotMsg.version
  /\ \/ /\ keyFile' = Torn /\ saved' = NoCreds /\ rotStep' = "write"
        /\ UNCHANGED <<ack, troubled>>
     \/ /\ Acknowledge(FALSE) /\ troubled' = TRUE
        /\ UNCHANGED <<keyFile, saved>>
  /\ UNCHANGED <<legacy, authCreds, rotMsg, panelCreds, rotations, restarts>>

WriteKeyFile ==
  /\ rotStep = "write"
  /\ \/ /\ keyFile' = cfgCreds /\ legacy' = FALSE
        /\ saved' = rotMsg.version
        /\ Acknowledge(TRUE) /\ UNCHANGED troubled
     \/ /\ Acknowledge(FALSE) /\ troubled' = TRUE
        /\ UNCHANGED <<keyFile, legacy, saved>>
  /\ UNCHANGED <<authCreds, cfgCreds, rotMsg, panelCreds, rotations,
                 restarts>>

-----------------------------------------------------------------------------
(* The process ends, at any step, and Load reads what is on disk.          *)

RestartWithKeyFile ==
  /\ restarts < MaxRestarts
  /\ restarts' = restarts + 1
  /\ LET loaded == IF keyFile = Torn THEN NoCreds ELSE keyFile IN
       authCreds' = loaded /\ cfgCreds' = loaded
  /\ rotStep' = IF legacy /\ keyFile # Torn THEN "migrate" ELSE "idle"
  /\ ack' = NoCreds
  /\ troubled' = (troubled \/ rotStep # "idle" \/ ack # NoCreds)
  /\ UNCHANGED <<keyFile, legacy, rotMsg, panelCreds, rotations, saved>>

\* LoadCredentials writes what it read under the old key again under the new
\* one, and ignores a failure.
Migrate ==
  \/ /\ rotStep = "migrate"
     /\ \/ keyFile' = Torn /\ saved' = NoCreds /\ rotStep' = "rewrite"
           /\ UNCHANGED troubled
        \/ rotStep' = "idle" /\ UNCHANGED <<keyFile, saved, troubled>>
     /\ UNCHANGED <<legacy, authCreds, cfgCreds, rotMsg, ack, panelCreds,
                    rotations, restarts>>
  \/ /\ rotStep = "rewrite"
     /\ \/ keyFile' = cfgCreds /\ legacy' = FALSE /\ UNCHANGED troubled
        \/ troubled' = TRUE /\ UNCHANGED <<keyFile, legacy>>
     /\ rotStep' = "idle"
     /\ UNCHANGED <<authCreds, cfgCreds, rotMsg, ack, panelCreds, rotations,
                    restarts, saved>>

CredNext ==
  \/ PanelRotates \/ PanelHears \/ AckIsLost
  \/ VerifyRotation \/ UpdateCredentials \/ OpenKeyFile \/ WriteKeyFile
  \/ RestartWithKeyFile \/ Migrate

CredSpec == CredInit /\ [][CredNext]_credVars

-----------------------------------------------------------------------------
(* A rotation that was acknowledged as saved is in the key file, whole,    *)
(* until the next save begins.  And unless a save failed, the process died *)
(* during one or an acknowledgement was lost ("troubled"), the two copies  *)
(* in memory, the key file and the panel agree whenever no rotation is     *)
(* under way: whatever the order of rotations, migrations and restarts.    *)
RotationSafe ==
  /\ saved # NoCreds => keyFile = saved
  /\ troubled \/ rotStep # "idle" \/ ack # NoCreds
       \/ {authCreds, cfgCreds, keyFile} = {panelCreds}

\* What the proof needs: what agrees with what at each step of a rotation.
CredInv ==
  /\ saved # NoCreds => keyFile = saved
  /\ rotStep \in {"write", "rewrite"} => saved = NoCreds
  /\ rotStep = "open" => authCreds = rotMsg.version
  /\ rotStep = "write" => authCreds = rotMsg.version
                           /\ cfgCreds = rotMsg.version
  /\ rotStep \in {"migrate", "rewrite"} => cfgCreds # NoCreds
  /\ rotStep # "idle" => ack = NoCreds
  /\ \/ troubled
     \/ /\ rotStep \notin {"open", "write"} => authCreds = cfgCreds
        /\ rotStep \notin {"open", "write", "rewrite"} => keyFile = authCreds
        /\ rotStep \notin {"open", "write"} /\ ack = NoCreds =>
             authCreds = panelCreds
        /\ rotStep = "verify" => rotMsg.signer = panelCreds
        /\ ack # NoCreds => ack.success /\ ack.version = authCreds
=============================================================================
