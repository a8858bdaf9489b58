----------------------------- MODULE TunnelLink -----------------------------
(***************************************************************************)
(* The wireguard:* commands on a Linux host                                *)
(* (internal/wireguard/wireguard_linux.go): interfaces are brought up and  *)
(* down one ip or wg call at a time, without a lock; forwarders are        *)
(* listeners on an address of the tunnel, kept in linuxManager.forwards    *)
(* under linuxManager.mu.  Peers, and the connections a forwarder has      *)
(* accepted, are left out: nothing here depends on them.                   *)
(*                                                                         *)
(* A call may fail, and one killed after its thirty seconds may have taken *)
(* effect.                                                                 *)
(***************************************************************************)
EXTENDS Naturals, FiniteSets

CONSTANTS
  LinkWorkers,  \* workers of the pool that may run these commands at once
  Interfaces,   \* interface names; a forwarder is keyed by one and a port,
                \* of which there is one
  Addresses,    \* addresses a forwarder can be asked to listen on
  NoAddress,
  MaxLinkCmds   \* bound: commands started

ASSUME LinkAssumption ==
  /\ NoAddress \notin Addresses /\ Interfaces # {}
  /\ MaxLinkCmds \in Nat

VARIABLES
  keyOnDisk,  \* the host: interfaces with a private key file
  link,       \* the host: per interface, what has been done to it
  listening,  \* the host: addresses with a listener of the agent's
  accepting,  \* addresses whose serveForward still accepts
  forwards,   \* linuxManager.forwards: per interface, the address
  linkStep,   \* per worker: how far its command has come
  linkName,   \* per worker: the interface it names
  linkAddr,   \* per worker: the address it has just opened
  linkLeft,   \* bound: commands that may still be started
  crossed     \* history: up and down of one interface overlapped

linkVars == <<keyOnDisk, link, listening, accepting, forwards, linkStep,
              linkName, linkAddr, linkLeft, crossed>>
onHost == <<keyOnDisk, link>>
onPort == <<listening, accepting, forwards>>

UpSteps == {"up", "add", "set", "address", "raise"}
DownSteps == {"down", "delete"}
\* No link, or a set of what has been configured on it.
Configured == {"key", "address", "up"}
NoLink == {"none"}

LinkTypeOK ==
  /\ keyOnDisk \subseteq Interfaces
  /\ link \in [Interfaces -> (SUBSET Configured) \cup {NoLink}]
  /\ listening \subseteq Addresses /\ accepting \subseteq listening
  /\ forwards \in [Interfaces -> Addresses \cup {NoAddress}]
  /\ linkStep \in [LinkWorkers -> UpSteps \cup DownSteps
                     \cup {"idle", "keygen", "forward", "swap", "unforward"}]
  /\ linkName \in [LinkWorkers -> Interfaces]
  /\ linkAddr \in [LinkWorkers -> Addresses \cup {NoAddress}]
  /\ linkLeft \in 0..MaxLinkCmds
  /\ crossed \in BOOLEAN

LinkInit ==
  /\ keyOnDisk \in SUBSET Interfaces
  /\ link = [i \in Interfaces |-> NoLink]
  /\ listening = {} /\ accepting = {}
  /\ forwards = [i \in Interfaces |-> NoAddress]
  /\ linkStep = [w \in LinkWorkers |-> "idle"]
  /\ linkName = [w \in LinkWorkers |-> CHOOSE i \in Interfaces : TRUE]
  /\ linkAddr = [w \in LinkWorkers |-> NoAddress]
  /\ linkLeft = MaxLinkCmds
  /\ crossed = FALSE

-----------------------------------------------------------------------------
LinkAt(w, step) == linkStep' = [linkStep EXCEPT ![w] = step]
\* The next step of w's command: at w's interface, with or without effect.
Call(w, from, to, effect) ==
  /\ linkStep[w] = from
  /\ \/ LinkAt(w, to) /\ link' = [link EXCEPT ![linkName[w]] = effect]
     \/ LinkAt(w, "idle")
        /\ link' \in {link, [link EXCEPT ![linkName[w]] = effect]}
  /\ UNCHANGED <<keyOnDisk, onPort, linkName, linkAddr, linkLeft, crossed>>

LinkStart(w) ==
  /\ linkStep[w] = "idle" /\ linkLeft > 0
  /\ \E step \in {"keygen", "up", "down", "forward", "unforward"},
        i \in Interfaces :
       /\ LinkAt(w, step)
       /\ linkName' = [linkName EXCEPT ![w] = i]
       /\ crossed' =
            (crossed \/ \E v \in LinkWorkers :
               /\ linkName[v] = i
               /\ \/ step = "up" /\ linkStep[v] \in DownSteps
                  \/ step = "down" /\ linkStep[v] \in UpSteps)
  /\ linkLeft' = linkLeft - 1
  /\ UNCHANGED <<onHost, onPort, linkAddr>>

\* Keygen: a write that fails leaves an empty or partial key file behind.
Keygen(w) ==
  /\ linkStep[w] = "keygen" /\ LinkAt(w, "idle")
  /\ keyOnDisk' \in {keyOnDisk, keyOnDisk \cup {linkName[w]}}
  /\ UNCHANGED <<link, onPort, linkName, linkAddr, linkLeft, crossed>>

-----------------------------------------------------------------------------
(* InterfaceUp and InterfaceDown.                                          *)

\* The key file must exist; a link that exists is taken as it is.
CheckLink(w) ==
  /\ linkStep[w] = "up"
  /\ \/ linkName[w] \in keyOnDisk
        /\ \/ link[linkName[w]] # NoLink /\ LinkAt(w, "set")
           \/ LinkAt(w, "add")
     \/ linkName[w] \notin keyOnDisk /\ LinkAt(w, "idle")
  /\ UNCHANGED <<onHost, onPort, linkName, linkAddr, linkLeft, crossed>>

\* ip link add fails when the link exists by now.
AddLink(w) ==
  IF link[linkName[w]] = NoLink
  THEN Call(w, "add", "set", {})
  ELSE /\ linkStep[w] = "add" /\ LinkAt(w, "idle")
       /\ UNCHANGED <<onHost, onPort, linkName, linkAddr, linkLeft, crossed>>

\* wg set, ip address replace, ip link set up: without the link they fail.
Configure(w, from, to, what) ==
  IF link[linkName[w]] # NoLink
  THEN Call(w, from, to, link[linkName[w]] \cup {what})
  ELSE /\ linkStep[w] = from /\ LinkAt(w, "idle")
       /\ UNCHANGED <<onHost, onPort, linkName, linkAddr, linkLeft, crossed>>

SetKey(w) == Configure(w, "set", "address", "key")
SetAddress(w) == Configure(w, "address", "raise", "address")
Raise(w) == Configure(w, "raise", "idle", "up")

\* closeForwards, and the link is looked up.
CloseForwards(w) ==
  /\ linkStep[w] = "down"
  /\ listening' = listening \ {forwards[linkName[w]]}
  /\ accepting' = accepting \ {forwards[linkName[w]]}
  /\ forwards' = [forwards EXCEPT ![linkName[w]] = NoAddress]
  /\ \/ link[linkName[w]] # NoLink /\ LinkAt(w, "delete")
     \/ LinkAt(w, "idle")
  /\ UNCHANGED <<onHost, linkName, linkAddr, linkLeft, crossed>>

DeleteLink(w) == Call(w, "delete", "idle", NoLink)

-----------------------------------------------------------------------------
(* Forwarders.                                                             *)

\* net.Listen: an address with a listener is in use, the one this forwarder
\* would replace included.
Listen(w) ==
  /\ linkStep[w] = "forward"
  /\ \/ \E a \in Addresses \ listening :
          /\ listening' = listening \cup {a}
          /\ linkAddr' = [linkAddr EXCEPT ![w] = a]
          /\ LinkAt(w, "swap")
     \/ LinkAt(w, "idle") /\ UNCHANGED <<listening, linkAddr>>
  /\ UNCHANGED <<onHost, accepting, forwards, linkName, linkLeft, crossed>>

\* Under the mutex: the old listener is closed, the new one kept and served.
SwapForward(w) ==
  /\ linkStep[w] = "swap"
  /\ listening' = listening \ {forwards[linkName[w]]}
  /\ accepting' = (accepting \ {forwards[linkName[w]]}) \cup {linkAddr[w]}
  /\ forwards' = [forwards EXCEPT ![linkName[w]] = linkAddr[w]]
  /\ linkAddr' = [linkAddr EXCEPT ![w] = NoAddress]
  /\ LinkAt(w, "idle")
  /\ UNCHANGED <<onHost, linkName, linkLeft, crossed>>

Unforward(w) ==
  /\ linkStep[w] = "unforward"
  /\ listening' = listening \ {forwards[linkName[w]]}
  /\ accepting' = accepting \ {forwards[linkName[w]]}
  /\ forwards' = [forwards EXCEPT ![linkName[w]] = NoAddress]
  /\ LinkAt(w, "idle")
  /\ UNCHANGED <<onHost, linkName, linkAddr, linkLeft, crossed>>

\* Any error of Accept ends serveForward; the listener stays open.
AcceptFails ==
  /\ \E a \in accepting : accepting' = accepting \ {a}
  /\ UNCHANGED <<onHost, listening, forwards, linkStep, linkName, linkAddr,
                 linkLeft, crossed>>

\* The agent ends: its listeners go with it, the links stay.
LinkCrash ==
  /\ linkStep' = [w \in LinkWorkers |-> "idle"]
  /\ listening' = {} /\ accepting' = {}
  /\ forwards' = [i \in Interfaces |-> NoAddress]
  /\ linkAddr' = [w \in LinkWorkers |-> NoAddress]
  /\ UNCHANGED <<onHost, linkName, linkLeft, crossed>>

LinkNext ==
  \/ \E w \in LinkWorkers :
       \/ LinkStart(w) \/ Keygen(w)
       \/ CheckLink(w) \/ AddLink(w) \/ SetKey(w) \/ SetAddress(w)
       \/ Raise(w) \/ CloseForwards(w) \/ DeleteLink(w)
       \/ Listen(w) \/ SwapForward(w) \/ Unforward(w)
  \/ AcceptFails \/ LinkCrash

LinkSpec == LinkInit /\ [][LinkNext]_linkVars

-----------------------------------------------------------------------------
(* No port stays open that no command can close: every listener is in the  *)
(* map, under one key, or with the one command that is about to put it     *)
(* there; and what the map names is open.  An interface is up only with a  *)
(* key and an address, unless a command took the interface down while      *)
(* another was bringing it up.                                             *)
TunnelSafe ==
  /\ \A a \in listening :
       Cardinality({i \in Interfaces : forwards[i] = a})
         + Cardinality({w \in LinkWorkers : linkAddr[w] = a}) = 1
  /\ \A i \in Interfaces : forwards[i] # NoAddress => forwards[i] \in listening
  /\ crossed \/ \A i \in Interfaces :
                  "up" \in link[i] => {"key", "address"} \subseteq link[i]

\* What the proof needs.  The owners of listeners are all different.
PortInv ==
  /\ \A i, j \in Interfaces :
       forwards[i] # NoAddress /\ forwards[i] = forwards[j] => i = j
  /\ \A v, w \in LinkWorkers :
       linkAddr[v] # NoAddress /\ linkAddr[v] = linkAddr[w] => v = w
  /\ \A i \in Interfaces, w \in LinkWorkers :
       forwards[i] # NoAddress => forwards[i] # linkAddr[w]
  /\ \A a \in Addresses :
       a \in listening <=> \/ \E i \in Interfaces : forwards[i] = a
                           \/ \E w \in LinkWorkers : linkAddr[w] = a
  /\ \A w \in LinkWorkers : linkAddr[w] # NoAddress <=> linkStep[w] = "swap"

\* A command that brings an interface up finds what it has configured so far.
UpInv ==
  \/ crossed
  \/ /\ \A v, w \in LinkWorkers :
          linkStep[v] \in UpSteps /\ linkStep[w] \in DownSteps =>
            linkName[v] # linkName[w]
     /\ \A i \in Interfaces :
          "up" \in link[i] => {"key", "address"} \subseteq link[i]
     /\ \A w \in LinkWorkers :
          /\ linkStep[w] \in {"address", "raise"} =>
               "key" \in link[linkName[w]]
          /\ linkStep[w] = "raise" => "address" \in link[linkName[w]]
=============================================================================
