-------------------------- MODULE FabricInvariant ---------------------------
(***************************************************************************)
(* Why Fabric is correct: an inductive invariant, in named parts, from     *)
(* which DurableBeforeAck and CompletePairFile follow, and the abstract    *)
(* specification that Fabric implements.                                   *)
(***************************************************************************)
EXTENDS Fabric

-----------------------------------------------------------------------------
(* The pairings.                                                           *)

\* The shared key goes with the peer's public key.
KeyOK(n, p) == p.sharedkey = SharedSecret(n, p.publickey)

\* What a pairing has collected when it has reached a state.
Collected(p) ==
    /\ p.state \in {"UNCONFIGURED", "PUBLICKEY_SETUP", "NONCE_SETUP", "PAIRED"}
    /\ p.state # "UNCONFIGURED" => p.uuid # Nil
    /\ p.state \in {"NONCE_SETUP", "PAIRED"} => p.hasPublicKey = 1 /\ p.publickey # Nil
    /\ p.state = "PAIRED" => p.hasNonce = 1 /\ p.nonce # ZeroNonce

\* A device receives the public key and the nonce second, each in the packet
\* that takes it to the next state, so it never has one early.
DevicePair(p) ==
    /\ Collected(p)
    /\ p.state \in {"UNCONFIGURED", "PUBLICKEY_SETUP"} => p.hasPublicKey = 0
    /\ p.state # "PAIRED" => p.hasNonce = 0

\* A pair file holds a finished pairing.
Complete(f) ==
    /\ f.state = "PAIRED" /\ f.hasPublicKey = 1 /\ f.hasNonce = 1
    /\ f.publickey # Nil /\ f.uuid # Nil
    /\ f.nonce # ZeroNonce /\ f.mynonce # ZeroNonce

\* A running process has drawn or read a nonce.
ProcessOK(n) ==
    /\ KeyOK(n, pair[n])
    /\ proc[n] = "off" => pair[n] = Dead
    /\ proc[n] # "off" => pair[n].mynonce # ZeroNonce
    /\ file[n] # NoFile => Complete(file[n])

\* A device with a pair file is PAIRED exactly when the file is written.
DeviceOK(d) ==
    /\ DevicePair(pair[d])
    /\ file[d] # NoFile => d \in Persistent
    /\ proc[d] = "on" /\ d \in Persistent => (pair[d].state = "PAIRED" <=> file[d] # NoFile)

\* A controller leaves the pairing call as soon as it is PAIRED, and makes the
\* others only when it is.
ControllerOK(c) ==
    /\ Collected(pair[c])
    /\ proc[c] \in Call => (proc[c] = "pairing" <=> pair[c].state # "PAIRED")

-----------------------------------------------------------------------------
(* The datagrams.                                                          *)

\* What each end may be sent.  Both ends run the same stateMachine; only the
\* order of the handshake keeps a device from playing the controller's part.
ToDevice ==
    {"PAIR_REQUEST", "PUBLICKEY_REQUEST", "PUBLICKEY_SEND", "NONCE_REQUEST",
     "NONCE_SEND", "APP_LIST", "APP_MESSAGE", "INVAILD_CMD"}

ToController ==
    {"PAIR_REQUEST_ACK", "PUBLICKEY_SEND", "PUBLICKEY_ACK", "NONCE_SEND",
     "NONCE_ACK", "FAIL", "APP_LIST_ACK", "APP_MESSAGE_ACK", "INVAILD_CMD"}

\* A datagram travels between a controller and its device and carries a
\* command of its direction; the flags say that the controller sends its key
\* and its nonce second.
DirectionOK(m) ==
    /\ m.dst \in {m.sock[1], Target[m.sock[1]]}
    /\ m.dst \in Device =>
        /\ m.cp.cmd \in ToDevice
        /\ m.cp.cmd \in {"PUBLICKEY_SEND", "NONCE_SEND"} => m.cp.flags = 1
    /\ m.dst \in Controller =>
        /\ m.cp.cmd \in ToController
        /\ m.cp.cmd \in {"PUBLICKEY_SEND", "NONCE_SEND"} => m.cp.flags = 0

\* The packet type goes with the command, and what it carries is there; a
\* nonce sent to a device is sealed by a controller that has a key.
ContentOK(m) ==
    /\ m.cp.kind = PacketType(m.cp.cmd)
    /\ m.cp.kind = "PUBLICKEY" => m.cp.publickey # Nil
    /\ m.cp.kind = "NONCE" => m.cp.nonce # ZeroNonce
    /\ m.cp.kind = "NONCE" /\ m.dst \in Device => m.sock[1] \in m.cp.seal

\* Only the blank reply to a packet for somebody else has no sender, and it
\* never appears in the pairing call.
AddressOK(m) ==
    /\ m.cp.cmd # "INVAILD_CMD" => m.cp.from = Sender(m)
    /\ m.sock[3] = "pairing" =>
        /\ m.cp.cmd \notin AppCmd \cup {"INVAILD_CMD"}
        /\ m.cp.cmd # "PAIR_REQUEST" => m.cp.to = m.dst

\* The run a datagram belongs to, and whether that pairing call is still open.
RunOK(m) == m.sock[2] <= starts[m.sock[1]]
Current(m) == m.sock[3] = "pairing" /\ m.sock = SocketOf(m.sock[1])

\* On the open socket: once the controller has sent its public key, or its
\* nonce, it has its device's.
KeyFirst(m) ==
    (/\ Current(m)
     /\ m.cp.cmd = "PUBLICKEY_ACK" \/ (m.cp.cmd = "PUBLICKEY_SEND" /\ m.dst \in Device))
    => pair[m.sock[1]].hasPublicKey = 1 /\ pair[m.sock[1]].publickey # Nil

NonceFirst(m) ==
    (/\ Current(m)
     /\ m.cp.cmd = "NONCE_ACK" \/ (m.cp.cmd = "NONCE_SEND" /\ m.dst \in Device))
    => pair[m.sock[1]].hasNonce = 1 /\ pair[m.sock[1]].nonce # ZeroNonce

\* An acknowledgement in flight speaks of a pairing that is on disk.
AckCommitted(m) ==
    m.cp.cmd = "NONCE_ACK" /\ Target[m.sock[1]] \in Persistent
        => Committed(Target[m.sock[1]], m.sock[1])

\* What a datagram is, and what it says about the processes.
PacketOK(m) == DirectionOK(m) /\ ContentOK(m) /\ AddressOK(m)
MessageOK(m) == PacketOK(m) /\ RunOK(m) /\ KeyFirst(m) /\ NonceFirst(m) /\ AckCommitted(m)

-----------------------------------------------------------------------------

\* The inductive invariant: pairings, files and datagrams as described above,
\* and DurableBeforeAck, which they keep.
IInv ==
    /\ TypeOK
    /\ \A n \in Node : ProcessOK(n)
    /\ \A d \in Device : DeviceOK(d)
    /\ \A c \in Controller : ControllerOK(c)
    /\ \A m \in net : MessageOK(m)
    /\ DurableBeforeAck

-----------------------------------------------------------------------------
(* Nonces.  A device that is not stopped before it is paired draws one     *)
(* nonce for good, and a controller one for each run that pairs; what the  *)
(* datagrams and the pairings say of them is true, whichever run they      *)
(* belong to.                                                              *)

FirstNonce(d) == <<d, 1>>

\* What controller c holds, in memory or in its file, agrees with its
\* device's pair file.
Agrees(c, p) ==
    /\ file[Target[c]] # NoFile
    /\ p.nonce = file[Target[c]].mynonce
    /\ file[Target[c]].nonce = p.mynonce

DeviceNonces(d) ==
    d \in Persistent =>
        /\ proc[d] = "on" => pair[d].mynonce = FirstNonce(d)
        /\ proc[d] = "off" => file[d] # NoFile
        /\ file[d] # NoFile => file[d].mynonce = FirstNonce(d)

ControllerNonces(c) ==
    /\ proc[c] = "pairing" => pair[c].mynonce = <<c, starts[c]>>
    /\ Target[c] \in Persistent =>
        /\ proc[c] = "pairing" /\ pair[c].hasNonce = 1
                => pair[c].nonce = FirstNonce(Target[c])
        /\ proc[c] \in {"listing", "acting"} => Agrees(c, pair[c])
        /\ file[c] # NoFile => Agrees(c, file[c])

\* A nonce in flight is its sender's, and an acknowledgement speaks of the
\* nonce of its own run.
MessageNonces(m) ==
    LET c == m.sock[1] IN
    /\ m.cp.cmd = "NONCE_SEND" /\ m.dst \in Device => m.cp.nonce = <<c, m.sock[2]>>
    /\ Target[c] \in Persistent =>
        /\ m.cp.cmd = "NONCE_SEND" /\ m.dst \in Controller
                => m.cp.nonce = FirstNonce(Target[c])
        /\ m.cp.cmd = "NONCE_ACK" => file[Target[c]].nonce = <<c, m.sock[2]>>

\* Inductive together with IInv, without EarlyStops and TornWrites.
NoncesInv ==
    /\ \A d \in Device : DeviceNonces(d)
    /\ \A c \in Controller : ControllerNonces(c)
    /\ \A m \in net : MessageNonces(m)

-----------------------------------------------------------------------------
(* Calls.  A controller keeps one socket for a call and sends one request  *)
(* through it, so what comes back through it is an answer to that request, *)
(* however often it is repeated and whatever old calls left in flight.     *)

\* A controller takes the uuid and the public key of its device only.
KnowsTarget(c) ==
    /\ {pair[c].uuid, pair[c].publickey} \subseteq {Nil, Target[c]}
    /\ file[c] # NoFile => {file[c].uuid, file[c].publickey} \subseteq {Nil, Target[c]}

KeyOfSender(m) == m.cp.cmd = "PUBLICKEY_SEND" => m.cp.publickey = Sender(m)

\* Once paired, a device goes by the key and the nonce it has saved, even when
\* somebody else has asked to pair and left a uuid in its memory.
Remembers(d) ==
    proc[d] = "on" /\ file[d] # NoFile =>
        pair[d].publickey = file[d].publickey /\ pair[d].nonce = file[d].nonce

\* A controller acts after it has seen the list.
ListFirst(c) == proc[c] = "acting" => seen[c] # Unknown

\* A datagram of the second call shows that the first has ended.
CallOrder(m) ==
    m.sock[2] = starts[m.sock[1]] /\ m.sock[3] = "acting" => proc[m.sock[1]] # "listing"

\* What the call in progress has in flight is its request and the answers to it.
InCall(m) == m.sock[3] \in {"listing", "acting"} /\ m.sock = SocketOf(m.sock[1])

Sealed(m) ==
    LET c == m.sock[1] IN
    /\ m.cp.kind = "DATA" /\ m.cp.seal = {c, Target[c]} /\ m.cp.to = m.dst
    /\ m.cp.nonce = IF m.dst = c THEN pair[c].mynonce ELSE pair[c].nonce

IsRequest(m) ==
    /\ m.cp.cmd = RequestCmd(m.sock[3]) /\ m.cp.flags = SendReply
    /\ m.sock[3] = "acting" => m.cp.act = wanted[m.sock[1]]

IsAnswer(m) ==
    \/ m.sock[3] = "listing" /\ m.cp.cmd = "APP_LIST_ACK" /\ m.cp.act.op = "CONTROLS"
    \/ /\ m.sock[3] = "acting" /\ m.cp.cmd = "APP_MESSAGE_ACK"
       /\ m.cp.act.op \in {"NULL", "READ"}
       /\ wanted[m.sock[1]].op = "SET" => m.cp.act = Read(wanted[m.sock[1]].val)

CallOK(m) ==
    InCall(m) => Sealed(m) /\ IF m.dst = m.sock[1] THEN IsAnswer(m) ELSE IsRequest(m)

\* Inductive together with IInv and NoncesInv, if the devices that controllers
\* are pointed at have a pair file and no controller is killed.
CallsInv ==
    /\ \A c \in Controller : KnowsTarget(c) /\ ListFirst(c)
    /\ \A d \in Device : Remembers(d)
    /\ \A m \in net : KeyOfSender(m) /\ CallOrder(m) /\ CallOK(m)

-----------------------------------------------------------------------------
(* Views.  On a network that repeats nothing, a controller and its device  *)
(* take turns: at most one datagram of theirs is in flight, and it belongs *)
(* to the call in progress.                                                *)

TakeTurns ==
    /\ \A m \in net : m.sock = SocketOf(m.sock[1])
    /\ \A m1, m2 \in net : m1.sock[1] = m2.sock[1] => m1 = m2

\* Only a controller with a pair file has shown anything, and what it has shown
\* when its run is over is the value.
Shown(c) ==
    /\ seen[c] # Unknown => file[c] # NoFile
    /\ proc[c] = "off" /\ seen[c] # Unknown => seen[c] = value[Target[c]]
    /\ proc[c] = "pairing" => seen[c] = Unknown
    /\ proc[c] \in {"listing", "acting"} => file[c] # NoFile

\* The controller is about to show the value.
Fresh(m) ==
    LET c == m.sock[1] IN
    /\ m.sock[3] = "listing" /\ m.dst = c => m.cp.act.val = value[Target[c]]
    /\ m.sock[3] = "acting" => value[Target[c]] =
            IF m.dst = c THEN ControllerCallBack(seen[c], m.cp.act) ELSE seen[c]

\* Inductive together with CallsInv, if moreover no process is killed and
\* nothing is repeated.
ViewsInv ==
    /\ TakeTurns
    /\ \A d \in Device : proc[d] = "on"
    /\ \A c \in Controller : Shown(c)
    /\ \A m \in net : Fresh(m)

-----------------------------------------------------------------------------
(* Fabric implements DurablePairing, for the devices with a pair file: what *)
(* a device has committed to is the key in its pair file, and a controller  *)
(* is bound when its memory or its pair file says it is paired.             *)

Client == {c \in Controller : Target[c] \in Persistent}

DP == INSTANCE DurablePairing WITH
    Device     <- Persistent,
    Controller <- Client,
    None       <- Nil,
    Target     <- [c \in Client |-> Target[c]],
    committed  <- [d \in Persistent |-> IF file[d] = NoFile THEN Nil ELSE file[d].publickey],
    bound      <- {c \in Client : HoldsPairing(c)}

\* Every step of devices, controllers and network is a step of DurablePairing
\* or changes nothing there.
ImplementsDurablePairing == DP!Spec

=============================================================================
