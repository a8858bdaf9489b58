---------------------------- MODULE TunnelDevice ----------------------------
(***************************************************************************)
(* The wireguard:* commands where the tunnel is a device inside the        *)
(* agent's process (internal/wireguard/wireguard_other.go, on Windows and  *)
(* macOS).  An interface is brought up and down in one critical section of *)
(* userspaceManager.mu; a forwarder looks the device up in one, listens    *)
(* inside it without the mutex, and is put into the map in another.        *)
(*                                                                         *)
(* Interfaces share nothing, so there is one.  Peers and accepted          *)
(* connections are left out, as in module TunnelLink.  When the process    *)
(* ends, everything here does.                                             *)
(***************************************************************************)
EXTENDS Naturals

CONSTANTS
  DevWorkers,  \* workers of the pool that may run these commands at once
  DevPorts,    \* ports forwarders listen on
  NoDevice,
  MaxDevices,  \* bound: devices created
  MaxDevCmds   \* bound: commands started

Devices == 1..MaxDevices

ASSUME DevAssumption ==
  /\ NoDevice \notin Devices /\ DevPorts # {}
  /\ MaxDevices \in Nat /\ MaxDevCmds \in Nat

VARIABLES
  device,   \* userspaceManager.ifaces: the device that is up, or NoDevice
  made,     \* bound: devices created
  inside,   \* listeners open: the device and the port of each
  kept,     \* userspaceManager.forwards: per port, its listener's device
  devStep,  \* per worker: how far its command has come
  devSeen,  \* per worker: the device its Forward found
  devPort,  \* per worker: the port its command names
  devLeft,  \* bound: commands that may still be started
  outrun    \* history: an interface went down under a Forward

devVars == <<device, made, inside, kept, devStep, devSeen, devPort, devLeft,
             outrun>>
devOfWorkers == <<devSeen, devPort, devLeft>>

DevTypeOK ==
  /\ device \in Devices \cup {NoDevice} /\ made \in 0..MaxDevices
  /\ inside \subseteq Devices \X DevPorts
  /\ kept \in [DevPorts -> Devices \cup {NoDevice}]
  /\ devStep \in [DevWorkers -> {"idle", "up", "down", "forward", "listen",
                                 "keep", "unforward"}]
  /\ devSeen \in [DevWorkers -> Devices \cup {NoDevice}]
  /\ devPort \in [DevWorkers -> DevPorts]
  /\ devLeft \in 0..MaxDevCmds /\ outrun \in BOOLEAN

DevInit ==
  /\ device = NoDevice /\ made = 0
  /\ inside = {} /\ kept = [p \in DevPorts |-> NoDevice]
  /\ devStep = [w \in DevWorkers |-> "idle"]
  /\ devSeen = [w \in DevWorkers |-> NoDevice]
  /\ devPort = [w \in DevWorkers |-> CHOOSE p \in DevPorts : TRUE]
  /\ devLeft = MaxDevCmds /\ outrun = FALSE

DevAt(w, step) == devStep' = [devStep EXCEPT ![w] = step]

DevStart(w) ==
  /\ devStep[w] = "idle" /\ devLeft > 0 /\ devLeft' = devLeft - 1
  /\ \E step \in {"up", "down", "forward", "unforward"}, p \in DevPorts :
       DevAt(w, step) /\ devPort' = [devPort EXCEPT ![w] = p]
  /\ UNCHANGED <<device, made, inside, kept, devSeen, outrun>>

-----------------------------------------------------------------------------
\* One that is up is left as it is; without a key, and when the device cannot
\* be configured, there is none.
DeviceUp(w) ==
  /\ devStep[w] = "up" /\ DevAt(w, "idle")
  /\ \/ /\ device = NoDevice /\ made < MaxDevices
        /\ made' = made + 1 /\ device' = made + 1
     \/ UNCHANGED <<device, made>>
  /\ UNCHANGED <<inside, kept, devOfWorkers, outrun>>

\* The interface's forwarders are closed, and then the device.
DeviceDown(w) ==
  /\ devStep[w] = "down" /\ DevAt(w, "idle")
  /\ inside' = {l \in inside : kept[l[2]] # l[1]}
  /\ kept' = [p \in DevPorts |-> NoDevice]
  /\ device' = NoDevice
  /\ outrun' = (outrun \/ \E v \in DevWorkers : devStep[v] \in {"listen", "keep"})
  /\ UNCHANGED <<made, devOfWorkers>>

-----------------------------------------------------------------------------
(* Forward and Unforward.                                                  *)

FindDevice(w) ==
  /\ devStep[w] = "forward"
  /\ devSeen' = [devSeen EXCEPT ![w] = device]
  /\ DevAt(w, IF device = NoDevice THEN "idle" ELSE "listen")
  /\ UNCHANGED <<device, made, inside, kept, devPort, devLeft, outrun>>

\* A port of a device has one listener at most; a device that has been closed
\* may refuse.
ListenInside(w) ==
  LET l == <<devSeen[w], devPort[w]>> IN
  /\ devStep[w] = "listen"
  /\ \/ l \notin inside /\ inside' = inside \cup {l} /\ DevAt(w, "keep")
     \/ DevAt(w, "idle") /\ UNCHANGED inside
  /\ UNCHANGED <<device, made, kept, devOfWorkers, outrun>>

\* The old listener is closed, the new one kept and served.
KeepForward(w) ==
  /\ devStep[w] = "keep" /\ DevAt(w, "idle")
  /\ inside' = inside \ {<<kept[devPort[w]], devPort[w]>>}
  /\ kept' = [kept EXCEPT ![devPort[w]] = devSeen[w]]
  /\ UNCHANGED <<device, made, devOfWorkers, outrun>>

DropForward(w) ==
  /\ devStep[w] = "unforward" /\ DevAt(w, "idle")
  /\ inside' = inside \ {<<kept[devPort[w]], devPort[w]>>}
  /\ kept' = [kept EXCEPT ![devPort[w]] = NoDevice]
  /\ UNCHANGED <<device, made, devOfWorkers, outrun>>

DevNext ==
  \E w \in DevWorkers :
    \/ DevStart(w) \/ DeviceUp(w) \/ DeviceDown(w) \/ FindDevice(w)
    \/ ListenInside(w) \/ KeepForward(w) \/ DropForward(w)

DevSpec == DevInit /\ [][DevNext]_devVars

-----------------------------------------------------------------------------
\* A worker that holds a listener which is not in the map yet.
Holds(w, l) == devStep[w] = "keep" /\ l = <<devSeen[w], devPort[w]>>

\* Every listener inside a device is in the map, where a command finds it, or
\* with the one Forward that is about to put it there; and what the map names
\* listens inside the device that is up, unless the interface was taken down
\* under a Forward, which then keeps a listener of the old device.
DeviceSafe ==
  /\ \A l \in inside :
       \/ kept[l[2]] = l[1] /\ \A w \in DevWorkers : ~Holds(w, l)
       \/ kept[l[2]] # l[1] /\ \E w \in DevWorkers :
            Holds(w, l) /\ \A v \in DevWorkers \ {w} : ~Holds(v, l)
  /\ \A p \in DevPorts : kept[p] # NoDevice =>
       <<kept[p], p>> \in inside /\ (outrun \/ kept[p] = device)

\* What the proof needs: the listener a worker holds is open, and the device
\* it found is the one that is up.
DevInv ==
  /\ DeviceSafe
  /\ \A w \in DevWorkers :
       devStep[w] \in {"listen", "keep"} =>
         devSeen[w] # NoDevice /\ (outrun \/ devSeen[w] = device)
  /\ \A w \in DevWorkers :
       devStep[w] = "keep" => <<devSeen[w], devPort[w]>> \in inside
=============================================================================
