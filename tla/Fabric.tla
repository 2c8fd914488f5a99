------------------------------- MODULE Fabric -------------------------------
(***************************************************************************)
(* Devices and controllers of the host build talking over UDP: the main    *)
(* loops of bin/device.c and bin/controller.c, chatFabric_device and       *)
(* chatFabric_controller, the pair files, the datagrams in flight, and     *)
(* processes that are killed and started again.                            *)
(*                                                                         *)
(* A device runs for ever and answers one datagram at a time.  A run of    *)
(* the controller either pairs (no pair file yet) or makes two calls, the  *)
(* list of controls and then the requested action; each call opens a UDP   *)
(* socket of its own, sends one request and waits without a timeout.       *)
(***************************************************************************)
EXTENDS Pairing

CONSTANTS
    Target,       \* the device at the address a controller is given (--ip)
    Persistent,   \* the devices started with a pair file (--pairfile)
    Command,      \* the actions a user may ask a controller for
    MaxStarts,    \* bound: how often each process is started
    MaxSerial,    \* bound: how many DATA packets a device's pairing may send
    Killable,     \* the processes that may be killed
    EarlyStops,   \* may a device be killed before it has been paired?
    TornWrites,   \* may a process die inside cfPairWrite?
    Duplicates,   \* may the network deliver a datagram again?
    Losses        \* may the network lose a datagram?

ASSUME FabricAssumption ==
    /\ Target \in [Controller -> Device]
    /\ Persistent \subseteq Device
    /\ Command \subseteq Action
    /\ MaxStarts \in [Node -> Nat]
    /\ MaxSerial \in Nat
    /\ Killable \subseteq Node
    /\ {EarlyStops, TornWrites, Duplicates, Losses} \subseteq BOOLEAN

VARIABLES
    proc,     \* "off", a device's "on", or the call a controller waits in
    starts,   \* how often each process has been started
    pair,     \* the pairing in each process's memory
    file,     \* the pair file of each process
    net,      \* the datagrams in flight
    value,    \* the value of a device's control
    wanted,   \* the action of a controller's current or last run
    seen      \* the value a controller has shown for the control

vars == <<proc, starts, pair, file, net, value, wanted, seen>>

\* No list of controls has been received in this run.
Unknown == Nil

-----------------------------------------------------------------------------
(* Addresses.  A device listens on a known port; a controller's port is    *)
(* new in every call, so a socket is named by the run and the call.        *)

Call == {"pairing", "listing", "acting"}

Socket == Controller \X Nat \X Call

Datagram == [sock : Socket, dst : Node, cp : Packet]

SocketOf(c) == <<c, starts[c], proc[c]>>

\* sendto: a datagram to a device that is down, or to a socket that has been
\* closed, is gone.
Send(msgs) == {m \in msgs : IF m.dst \in Device THEN proc[m.dst] = "on"
                                                ELSE m.sock = SocketOf(m.dst)}

\* What is left in flight when controller c closes its socket.
Close(msgs, c) == {m \in msgs : m.dst # c}

Consume(m) == IF Duplicates THEN net ELSE net \ {m}

\* The reply, if there is one, goes to the address the datagram came from.
Answer(n, m, peer, out, act) ==
    IF out.send
    THEN {[sock |-> m.sock, dst |-> peer,
           cp |-> Encode(n, out.pair, out.cmd, out.flags, out.to, out.from, act)]}
    ELSE {}

AfterAnswer(out) == IF out.send THEN AfterEncode(out.pair, out.cmd) ELSE out.pair

\* The callback is made for application packets once the node is paired,
\* whatever stateMachine made of the destination.
Called(out, cp) == out.pair.state = "PAIRED" /\ cp.cmd \in AppCmd

-----------------------------------------------------------------------------
(* Initially the devices run, with no pair file; no controller does.       *)

Dead == PairInit(ZeroNonce)

Init ==
    /\ proc = [n \in Node |-> IF n \in Device THEN "on" ELSE "off"]
    /\ starts = [n \in Node |-> IF n \in Device THEN 1 ELSE 0]
    /\ pair = [n \in Node |-> IF n \in Device THEN PairInit(<<n, 1>>) ELSE Dead]
    /\ file = [n \in Node |-> NoFile]
    /\ net = {}
    /\ value = [d \in Device |-> 0]
    /\ wanted = [c \in Controller |-> NoAction]
    /\ seen = [c \in Controller |-> Unknown]

-----------------------------------------------------------------------------
(* The device.                                                             *)

\* Mutated: a control that is on keeps its value.
DeviceCallBackOnce(v, act) == IF act.op = "SET" /\ v = 0 THEN act.val ELSE v

\* deviceCallBack: the control's new value, and the action of the reply.
DeviceCallBack(v, act) == IF act.op = "SET" THEN act.val ELSE v

CallBackReply(v, act) == IF act.op \in {"GET", "SET"} THEN Read(v) ELSE NoAction

\* chatFabric_device in the device, once the packet is decoded as cp and
\* stateMachine has returned out.
DeviceProcess(d, m, cp, out) ==
    LET called == Called(out, cp)
        v      == IF called THEN DeviceCallBack(value[d], cp.act) ELSE value[d]
        act    == CASE out.cmd = "APP_LIST_ACK" -> Controls(v)
                    [] out.cmd # "APP_LIST_ACK" /\ called -> CallBackReply(v, cp.act)
                    [] OTHER -> NoAction
        writes == d \in Persistent /\ JustPaired(pair[d], out.pair)
    IN
    /\ AfterAnswer(out).serial <= MaxSerial
    /\ \/ /\ pair' = [pair EXCEPT ![d] = AfterAnswer(out)]
          /\ file' = IF writes THEN [file EXCEPT ![d] = PairWrite(out.pair)] ELSE file
          /\ value' = [value EXCEPT ![d] = v]
          /\ net' = Consume(m) \cup Send(Answer(d, m, m.sock[1], out, act))
          /\ UNCHANGED <<proc, starts, wanted, seen>>
       \/ \* the process dies in cfPairWrite, or before it answers
          /\ TornWrites /\ writes
          /\ proc' = [proc EXCEPT ![d] = "off"]
          /\ pair' = [pair EXCEPT ![d] = Dead]
          /\ \E f \in {NoFile, PairWrite(out.pair)} : file' = [file EXCEPT ![d] = f]
          /\ net' = Consume(m)
          /\ UNCHANGED <<starts, value, wanted, seen>>

DeviceReceive(d, m) ==
    /\ proc[d] = "on" /\ m.dst = d
    /\ \E cp \in Decode(pair[d], m.cp) : \E out \in StateMachine(d, pair[d], cp) :
        DeviceProcess(d, m, cp, out)

\* main: a fresh pairing, then the pair file over it; the controls are zero.
DeviceStart(d) ==
    /\ proc[d] = "off" /\ starts[d] < MaxStarts[d]
    /\ proc' = [proc EXCEPT ![d] = "on"]
    /\ starts' = [starts EXCEPT ![d] = @ + 1]
    /\ pair' = [pair EXCEPT ![d] = PairRead(d, PairInit(<<d, starts[d] + 1>>), file[d])]
    /\ value' = [value EXCEPT ![d] = 0]
    /\ UNCHANGED <<file, net, wanted, seen>>

-----------------------------------------------------------------------------
(* The controller.                                                         *)

\* The request of chatFabric_controller, from pairing p, in the given call.
RequestCmd(call) ==
    CASE call = "pairing" -> "PAIR_REQUEST"
      [] call = "listing" -> "APP_LIST"
      [] call = "acting"  -> "APP_MESSAGE"

Request(c, p, run, call, act) ==
    [sock |-> <<c, run, call>>, dst |-> Target[c],
     cp |-> Encode(c, p, RequestCmd(call), IF call = "pairing" THEN 0 ELSE SendReply,
                   p.uuid, c, act)]

\* main: a pair file (hasPairs) makes the run begin with the list of
\* controls; without one its only call is the pairing.
ControllerStart(c, act) ==
    LET run  == starts[c] + 1
        p    == PairRead(c, PairInit(<<c, run>>), file[c])
        call == IF file[c] = NoFile THEN "pairing" ELSE "listing"
    IN
    /\ proc[c] = "off" /\ starts[c] < MaxStarts[c]
    /\ proc' = [proc EXCEPT ![c] = call]
    /\ starts' = [starts EXCEPT ![c] = run]
    /\ pair' = [pair EXCEPT ![c] = AfterEncode(p, RequestCmd(call))]
    /\ net' = net \cup Send({Request(c, p, run, call, NoAction)})
    /\ wanted' = [wanted EXCEPT ![c] = act]
    /\ seen' = [seen EXCEPT ![c] = Unknown]
    /\ UNCHANGED <<file, value>>

\* Mutated: a value read does not replace the one in the list.
ControllerCallBackListOnly(s, act) == IF act.op = "CONTROLS" THEN act.val ELSE s

\* controllerCallBack: adopt a list of controls, then a value read, if the
\* control is known.
ControllerCallBack(s, act) ==
    CASE act.op = "CONTROLS" -> act.val
      [] act.op = "READ" /\ s # Unknown -> act.val
      [] OTHER -> s

\* The last statement of main saves the pairing, whatever it looks like.
Exit(c, p) ==
    /\ proc' = [proc EXCEPT ![c] = "off"]
    /\ pair' = [pair EXCEPT ![c] = Dead]
    /\ \/ file' = [file EXCEPT ![c] = PairWrite(p)]
       \/ TornWrites /\ file' = [file EXCEPT ![c] = NoFile]

\* chatFabric_device in the controller, and what follows in
\* chatFabric_controller and main: wait for another datagram, exit, or make
\* the second call.
ControllerProcess(c, m, cp, out) ==
    LET p    == AfterAnswer(out)
        sent == Consume(m) \cup Send(Answer(c, m, Target[c], out, NoAction))
    IN
    /\ seen' = [seen EXCEPT ![c] =
                    IF Called(out, cp) THEN ControllerCallBack(@, cp.act) ELSE @]
    /\ \/ /\ proc[c] = "pairing" /\ out.e = "ERROR_OK" /\ p.state # "PAIRED"
          /\ pair' = [pair EXCEPT ![c] = p]
          /\ net' = sent
          /\ UNCHANGED <<proc, file>>
       \/ /\ proc[c] = "pairing" /\ (out.e # "ERROR_OK" \/ p.state = "PAIRED")
          /\ Exit(c, p)
          /\ net' = Close(sent, c)
       \/ /\ proc[c] = "listing"
          /\ proc' = [proc EXCEPT ![c] = "acting"]
          /\ pair' = [pair EXCEPT ![c] = AfterEncode(p, "APP_MESSAGE")]
          /\ net' = Close(sent, c)
                     \cup Send({Request(c, p, starts[c], "acting", wanted[c])})
          /\ UNCHANGED file
       \/ /\ proc[c] = "acting"
          /\ Exit(c, p)
          /\ net' = Close(sent, c)
    /\ UNCHANGED <<starts, value, wanted>>

ControllerReceive(c, m) ==
    /\ proc[c] # "off" /\ m.dst = c /\ m.sock = SocketOf(c)
    /\ \E cp \in Decode(pair[c], m.cp) : \E out \in StateMachine(c, pair[c], cp) :
        ControllerProcess(c, m, cp, out)

-----------------------------------------------------------------------------
(* The environment.                                                        *)

\* The process is killed; what it had in memory is gone.
Stop(n) ==
    /\ n \in Killable /\ proc[n] # "off"
    /\ n \in Device => EarlyStops \/ pair[n].state = "PAIRED"
    /\ proc' = [proc EXCEPT ![n] = "off"]
    /\ pair' = [pair EXCEPT ![n] = Dead]
    /\ net' = IF n \in Controller THEN Close(net, n) ELSE net
    /\ UNCHANGED <<starts, file, value, wanted, seen>>

Lose(m) ==
    /\ Losses
    /\ net' = net \ {m}
    /\ UNCHANGED <<proc, starts, pair, file, value, wanted, seen>>

-----------------------------------------------------------------------------

Next ==
    \/ \E d \in Device : DeviceStart(d)
    \/ \E d \in Device : \E m \in net : DeviceReceive(d, m)
    \/ \E c \in Controller : \E act \in Command : ControllerStart(c, act)
    \/ \E c \in Controller : \E m \in net : ControllerReceive(c, m)
    \/ \E n \in Node : Stop(n)
    \/ \E m \in net : Lose(m)

Spec == Init /\ [][Next]_vars

\* Both programs sit in recvfrom: a datagram that has arrived is processed.
\* Starting a controller is up to its user.
Fairness ==
    /\ \A d \in Device : WF_vars(\E m \in net : DeviceReceive(d, m))
    /\ \A c \in Controller : WF_vars(\E m \in net : ControllerReceive(c, m))

FairSpec == Spec /\ Fairness

-----------------------------------------------------------------------------
(* Type invariant.                                                         *)

\* The variables hold what the code's variables, files and sockets can hold.
TypeOK ==
    /\ proc \in [Node -> {"off", "on"} \cup Call]
    /\ \A n \in Node : proc[n] # "off" => (proc[n] = "on" <=> n \in Device)
    /\ starts \in [Node -> Nat]
    /\ pair \in [Node -> PairRecord]
    /\ file \in [Node -> PairFile]
    /\ net \subseteq Datagram
    /\ value \in [Device -> Value]
    /\ wanted \in [Controller -> Action]
    /\ seen \in [Controller -> Value \cup {Unknown}]

-----------------------------------------------------------------------------
(* Safety.                                                                 *)

\* What a controller has to show for a pairing: its memory, if it runs and is
\* PAIRED, and its pair file.
HoldsPairing(c) == pair[c].state = "PAIRED" \/ file[c] # NoFile

\* Device d has saved a pairing under controller c's key.
Committed(d, c) == file[d] # NoFile /\ file[d].publickey = c

\* A controller that believes it is paired, in memory or in its file, is right:
\* its device has the pairing, with this controller's key, in its pair file.
\* (stateMachine saves before it sends NONCE_ACK, and the nonces travel under
\* the shared key.)
DurableBeforeAck ==
    \A c \in Controller :
        Target[c] \in Persistent /\ HoldsPairing(c) => Committed(Target[c], c)

\* cfPairRead takes any pair file for a finished pairing, so no unfinished one
\* may ever be saved, although the controller saves at every exit.
CompletePairFile ==
    \A n \in Node : file[n] # NoFile =>
        /\ file[n].state = "PAIRED"
        /\ file[n].hasPublicKey = 1 /\ file[n].hasNonce = 1
        /\ file[n].publickey # Nil /\ file[n].uuid # Nil
        /\ file[n].nonce # ZeroNonce

\* The two ends of a saved pairing hold each other's nonce, so that either
\* can decode what the other seals.
NonceAgreement ==
    \A c \in Controller :
        LET d == Target[c] IN
        (d \in Persistent /\ file[c] # NoFile) =>
            /\ file[d] # NoFile
            /\ file[c].nonce = file[d].mynonce
            /\ file[d].nonce = file[c].mynonce

\* A device is connected to a single controller (README.md:95): the uuid and
\* the public key it has saved for its peer are those of one controller.
SingleController ==
    \A d \in Device : file[d] # NoFile => file[d].uuid = file[d].publickey

\* The serial a DATA packet was sealed with has been spent: it is covered by
\* the sender's memory or, between two runs of a controller, by its pair file,
\* so that no later packet under the same key and nonce repeats it.
Sender(m) == IF m.dst \in Device THEN m.sock[1] ELSE Target[m.sock[1]]

SerialsSpent ==
    \A m \in net : m.cp.kind = "DATA" =>
        LET n == Sender(m) IN
        m.cp.serial <= IF proc[n] = "off" THEN file[n].serial ELSE pair[n].serial

\* When nothing interferes, the value a finished run has shown is the value
\* the control has.
ViewMatches ==
    \A c \in Controller :
        proc[c] = "off" /\ seen[c] # Unknown => seen[c] = value[Target[c]]

-----------------------------------------------------------------------------
(* Action properties.                                                      *)

\* A device's saved pairing is never replaced, whoever asks to pair with it.
FirstPairingStands ==
    [][\A d \in Device : file[d] # NoFile => file'[d] = file[d]]_file

\* A run that was asked to SET ends by showing the value it asked for, whatever
\* old answers and repeated requests are still in flight.
SetConfirmed ==
    [][\A c \in Controller :
        (proc[c] = "acting" /\ proc'[c] = "off" /\ wanted[c].op = "SET")
            => seen'[c] = wanted[c].val]_vars

-----------------------------------------------------------------------------
(* Liveness, on a network that loses nothing.                              *)

\* A run that starts to pair ends with a pair file.
PairingCompletes == \A c \in Controller : proc[c] = "pairing" ~> file[c] # NoFile

\* Every run of a controller ends.
RunEnds == \A c \in Controller : proc[c] # "off" ~> proc[c] = "off"

=============================================================================
