---------------------------- MODULE FabricProofs ----------------------------
(***************************************************************************)
(* Proofs about Fabric, for any number of devices and controllers, any     *)
(* bounds and any network: what the variables hold, that a controller that *)
(* believes it is paired is right (IInv is an inductive invariant), and    *)
(* that Fabric implements DurablePairing.                                  *)
(***************************************************************************)
EXTENDS FabricInvariant, TLAPS

-----------------------------------------------------------------------------
(* The operators keep to their types.                                      *)

\* A shared secret is a set of nodes.
LEMMA SharedSecretType ==
    ASSUME NEW n \in Node, NEW pk \in Node \cup {Nil}
    PROVE  SharedSecret(n, pk) \in SUBSET Node
  BY DEF SharedSecret

\* A pairing freshly initialised, or read from a pair file, is well formed.
LEMMA PairInitType ==
    ASSUME NEW x \in Nonce
    PROVE  PairInit(x) \in PairRecord
  BY NodeAssumption DEF PairInit, PairRecord, State, ZeroNonce, Nonce, Node

LEMMA PairReadType ==
    ASSUME NEW n \in Node, NEW p \in PairRecord, NEW f \in PairFile
    PROVE  PairRead(n, p, f) \in PairRecord
  <1>1. CASE f = NoFile
    BY <1>1 DEF PairRead
  <1>2. CASE f # NoFile
    <2>1. SharedSecret(n, f.publickey) \in SUBSET Node
      BY <1>2, SharedSecretType DEF PairFile
    <2> QED
      BY <1>2, <2>1 DEF PairRead, PairRecord, PairFile, State
  <1> QED
    BY <1>1, <1>2

LEMMA PairWriteType ==
    ASSUME NEW p \in PairRecord
    PROVE  PairWrite(p) \in PairFile /\ PairWrite(p) # NoFile
  BY DEF PairWrite, PairFile, PairRecord, NoFile

\* Whatever packet is sent is one.
LEMMA EncodeType ==
    ASSUME NEW n \in Node, NEW p \in PairRecord, NEW cmd \in Cmd, NEW flags \in Flags,
           NEW to \in Node \cup {Nil}, NEW from \in Node \cup {Nil}, NEW act \in Action
    PROVE  Encode(n, p, cmd, flags, to, from, act) \in Packet
  BY ValueAssumption
  DEF Encode, Packet, PacketType, PairRecord, ZeroNonce, Nonce, NoAction, Action

LEMMA AfterEncodeType ==
    ASSUME NEW p \in PairRecord, NEW cmd
    PROVE  AfterEncode(p, cmd) \in PairRecord
  BY DEF AfterEncode, PairRecord

\* The receiver ends up with the packet sent, with one marked undecodable, or
\* with the header of a DATA packet whose content is lost.
LEMMA DecodeCases ==
    ASSUME NEW p, NEW m, NEW cp \in Decode(p, m)
    PROVE  \/ cp = m /\ (m.kind \in {"NONCE", "DATA"} => m.seal = p.sharedkey)
           \/ cp = Undecoded(m)
           \/ m.kind = "DATA" /\ cp \in Garbled(m)
  BY DEF Decode

LEMMA DecodeType ==
    ASSUME NEW p, NEW m \in Packet, NEW cp \in Decode(p, m)
    PROVE  cp \in Packet
  <1>1. NoAction \in Action
    BY ValueAssumption DEF NoAction, Action
  <1>2. "PACKET_DECRYPT_FAILED" \in Cmd
    BY DEF Cmd
  <1>3. Undecoded(m) \in Packet
    BY <1>1, <1>2 DEF Undecoded, Packet
  <1>4. [m EXCEPT !.act = NoAction] \in Packet
    BY <1>1 DEF Packet
  <1>5. [m EXCEPT !.act = NoAction, !.to = Nil] \in Packet
    BY <1>1 DEF Packet
  <1>6. Garbled(m) \subseteq Packet
    BY <1>3, <1>4, <1>5 DEF Garbled
  <1> QED
    BY <1>3, <1>6, DecodeCases

\* What the handlers return.
Handled == [pair : PairRecord, cmd : Cmd, flags : Flags, send : BOOLEAN]

LEMMA ReplyType ==
    ASSUME NEW p \in PairRecord, NEW cmd \in Cmd, NEW flags \in Flags
    PROVE  Reply(p, cmd, flags) \in Handled
  BY DEF Reply, Handled

LEMMA NoReplyType ==
    ASSUME NEW p \in PairRecord
    PROVE  NoReply(p) \in Handled
  BY DEF NoReply, Handled, Cmd, Flags

\* The handlers that only move the state.
LEMMA StateHandlersType ==
    ASSUME NEW p \in PairRecord, NEW cp \in Packet
    PROVE  /\ PairRequestReset(p) \in Handled
           /\ PublickeyRequest(p) \in Handled
           /\ PublickeyAck(p) \in Handled
           /\ NonceRequest(p) \in Handled
           /\ NonceAck(p) \in Handled
           /\ Verify(p, cp.cmd) \in Handled
           /\ AppMessage(p, cp) \in Handled
           /\ AppList(p) \in Handled
           /\ Reply(p, "HELLO_ACK", 0) \in Handled
  <1>1. \A s \in State : [p EXCEPT !.state = s] \in PairRecord
    BY DEF PairRecord
  <1>2. /\ {"UNCONFIGURED", "NONCE_SETUP", "CONFIGURED_SYN",
           "CONFIGURED_SYNACK", "PAIRED"} \subseteq State
        /\ {"PAIR_REQUEST", "FAIL", "HELLO_ACK", "PUBLICKEY_SEND", "NONCE_REQUEST",
            "NONCE_SEND", "PAIR_REQUEST_RESET", "VERIFY_SYNACK", "VERIFY_ACK",
            "APP_MESSAGE_ACK", "APP_LIST_ACK"} \subseteq Cmd
        /\ 0 \in Flags /\ p.hasPublicKey \in Flags /\ p.hasNonce \in Flags
    BY DEF State, Cmd, AppCmd, VerifyCmd, Flags, PairRecord
  <1> QED
    BY <1>1, <1>2, ReplyType, NoReplyType
    DEF PairRequestReset, PublickeyRequest, PublickeyAck, NonceRequest, NonceAck,
        Verify, AppMessage, AppList

\* The handlers that store something of the packet.
LEMMA StoringHandlersType ==
    ASSUME NEW n \in Node, NEW p \in PairRecord, NEW cp \in Packet
    PROVE  /\ PairRequest(p, cp) \in Handled
           /\ PairRequestAck(p, cp) \in Handled
           /\ PublickeySend(n, p, cp) \in Handled
           /\ NonceSend(p, cp) \in Handled
  <1> DEFINE named == [p EXCEPT !.uuid = cp.from]
             keyed == [p EXCEPT !.publickey = cp.publickey, !.hasPublicKey = 1,
                                !.sharedkey = SharedSecret(n, cp.publickey)]
             nonced == [p EXCEPT !.nonce = cp.nonce, !.hasNonce = 1]
  <1>1. /\ {"PUBLICKEY_SETUP", "NONCE_SETUP", "PAIRED"} \subseteq State
        /\ {"PAIR_REQUEST_ACK", "FAIL", "PUBLICKEY_REQUEST", "PUBLICKEY_SEND",
            "PUBLICKEY_ACK", "NONCE_SEND", "NONCE_ACK"} \subseteq Cmd
        /\ 0 \in Flags /\ 1 \in Flags
    BY DEF State, Cmd, Flags
  <1>2. \A q \in PairRecord : \A s \in State : [q EXCEPT !.state = s] \in PairRecord
    BY DEF PairRecord
  <1>a. /\ cp.from \in Node \cup {Nil} /\ cp.nonce \in Nonce /\ 1 \in 0..1
        /\ cp.publickey \in Node \cup {Nil}
        /\ SharedSecret(n, cp.publickey) \in SUBSET Node
    BY SharedSecretType DEF Packet
  <1>3. named \in PairRecord
    BY <1>a DEF PairRecord
  <1>4. keyed \in PairRecord
    BY <1>a DEF PairRecord
  <1>5. nonced \in PairRecord
    BY <1>a DEF PairRecord
  <1>6. [p EXCEPT !.state = "PUBLICKEY_SETUP", !.uuid = cp.from] \in PairRecord
    BY <1>1, <1>a DEF PairRecord
  <1>7. PairRequest(p, cp) \in Handled
    BY <1>1, <1>2, <1>3, ReplyType DEF PairRequest
  <1>8. PairRequestAck(p, cp) \in Handled
    BY <1>1, <1>6, ReplyType, NoReplyType DEF PairRequestAck
  <1>9. PublickeySend(n, p, cp) \in Handled
    <2>1. PublickeySend(n, p, cp) \in
            {NoReply(p), Reply([keyed EXCEPT !.state = "NONCE_SETUP"], "PUBLICKEY_ACK", 1),
             Reply(keyed, "PUBLICKEY_SEND", 1)}
      BY DEF PublickeySend
    <2> HIDE DEF keyed
    <2> QED
      BY <2>1, <1>1, <1>2, <1>4, ReplyType, NoReplyType
  <1>10. NonceSend(p, cp) \in Handled
    <2>1. NonceSend(p, cp) \in
            {NoReply(p), Reply([nonced EXCEPT !.state = "PAIRED"], "NONCE_ACK", 0),
             Reply(nonced, "NONCE_SEND", 1)}
      BY DEF NonceSend
    <2> HIDE DEF nonced
    <2> QED
      BY <2>1, <1>1, <1>2, <1>5, ReplyType, NoReplyType
  <1> QED
    BY <1>7, <1>8, <1>9, <1>10

LEMMA HandleType ==
    ASSUME NEW n \in Node, NEW p \in PairRecord, NEW cp \in Packet
    PROVE  Handle(n, p, cp) \in Handled
  BY StateHandlersType, StoringHandlersType, NoReplyType DEF Handle

\* What stateMachine returns.
Outcome ==
    [pair : PairRecord, cmd : Cmd, flags : Flags, send : BOOLEAN,
     to : Node \cup {Nil}, from : Node \cup {Nil},
     e : {"ERROR_OK", "ERROR_INVAILD_DEST"}]

LEMMA StateMachineType ==
    ASSUME NEW n \in Node, NEW p \in PairRecord, NEW cp \in Packet,
           NEW out \in StateMachine(n, p, cp)
    PROVE  out \in Outcome
  <1>1. CASE InvalidDest(n, cp)
    BY <1>1 DEF StateMachine, Outcome, Cmd, Flags
  <1>2. CASE ~InvalidDest(n, cp)
    <2>1. Handle(n, p, cp) \in Handled
      BY HandleType
    <2> QED
      BY <1>2, <2>1 DEF StateMachine, Outcome, Handled, Packet
  <1> QED
    BY <1>1, <1>2

\* What is put on the network are datagrams.
LEMMA AnswerType ==
    ASSUME NEW n \in Node, NEW m \in Datagram, NEW peer \in Node,
           NEW out \in Outcome, NEW act \in Action
    PROVE  /\ Answer(n, m, peer, out, act) \subseteq Datagram
           /\ AfterAnswer(out) \in PairRecord
  <1>1. Encode(n, out.pair, out.cmd, out.flags, out.to, out.from, act) \in Packet
    BY EncodeType DEF Outcome
  <1>2. Answer(n, m, peer, out, act) \subseteq Datagram
    BY <1>1 DEF Answer, Datagram
  <1>3. AfterAnswer(out) \in PairRecord
    BY AfterEncodeType DEF AfterAnswer, Outcome
  <1> QED
    BY <1>2, <1>3

LEMMA RequestType ==
    ASSUME NEW c \in Controller, NEW p \in PairRecord, NEW run \in Nat,
           NEW call \in Call, NEW act \in Action
    PROVE  Request(c, p, run, call, act) \in Datagram
  <1>1. RequestCmd(call) \in Cmd
    BY DEF RequestCmd, Call, Cmd, AppCmd
  <1>2. (IF call = "pairing" THEN 0 ELSE SendReply) \in Flags
    BY DEF SendReply, Flags
  <1>3. p.uuid \in Node \cup {Nil} /\ c \in Node
    BY DEF PairRecord, Node
  <1>4. Encode(c, p, RequestCmd(call), IF call = "pairing" THEN 0 ELSE SendReply,
               p.uuid, c, act) \in Packet
    BY <1>1, <1>2, <1>3, EncodeType
  <1>5. Target[c] \in Node
    BY FabricAssumption DEF Node
  <1> QED
    BY <1>4, <1>5 DEF Request, Datagram, Socket

\* The callbacks' values and actions.
LEMMA CallBackType ==
    ASSUME NEW v \in Value, NEW s \in Value \cup {Unknown}, NEW act \in Action
    PROVE  /\ DeviceCallBack(v, act) \in Value
           /\ CallBackReply(v, act) \in Action
           /\ Controls(v) \in Action
           /\ NoAction \in Action
           /\ ControllerCallBack(s, act) \in Value \cup {Unknown}
  BY ValueAssumption
  DEF DeviceCallBack, CallBackReply, Controls, Read, NoAction, ControllerCallBack, Action

-----------------------------------------------------------------------------
(* Type correctness.                                                       *)

LEMMA InitType == Init => TypeOK
  <1> SUFFICES ASSUME Init PROVE TypeOK
    OBVIOUS
  <1>1. \A n \in Node : <<n, 1>> \in Nonce
    BY DEF Nonce
  <1>2. Dead \in PairRecord
    BY PairInitType DEF Dead, ZeroNonce, Nonce
  <1>3. pair \in [Node -> PairRecord]
    BY <1>1, <1>2, PairInitType DEF Init
  <1>4. file \in [Node -> PairFile]
    BY DEF Init, PairFile
  <1>5. /\ proc \in [Node -> {"off", "on"} \cup Call]
        /\ \A n \in Node : proc[n] # "off" => (proc[n] = "on" <=> n \in Device)
        /\ starts \in [Node -> Nat]
    BY DEF Init
  <1>6. /\ value \in [Device -> Value]
        /\ wanted \in [Controller -> Action]
        /\ seen \in [Controller -> Value \cup {Unknown}]
        /\ net \subseteq Datagram
    BY ValueAssumption DEF Init, NoAction, Action
  <1> QED
    BY <1>3, <1>4, <1>5, <1>6 DEF TypeOK

LEMMA DeviceReceiveType ==
    ASSUME TypeOK, NEW d \in Device, NEW m \in net, DeviceReceive(d, m)
    PROVE  TypeOK'
  <1>1. /\ d \in Node /\ m \in Datagram /\ m.cp \in Packet /\ m.sock[1] \in Node
        /\ pair[d] \in PairRecord
    BY DEF TypeOK, Datagram, Socket, Node
  <1>a. PICK cp \in Decode(pair[d], m.cp) : \E out \in StateMachine(d, pair[d], cp) :
            DeviceProcess(d, m, cp, out)
    BY DEF DeviceReceive
  <1>2. PICK out \in StateMachine(d, pair[d], cp) : DeviceProcess(d, m, cp, out)
    BY <1>a
  <1>3. cp \in Packet /\ cp.act \in Action
    BY <1>1, DecodeType DEF Packet
  <1>4. out \in Outcome /\ out.pair \in PairRecord
    BY <1>1, <1>3, StateMachineType DEF Outcome
  <1> DEFINE called == Called(out, cp)
             v      == IF called THEN DeviceCallBack(value[d], cp.act) ELSE value[d]
             act    == CASE out.cmd = "APP_LIST_ACK" -> Controls(v)
                         [] out.cmd # "APP_LIST_ACK" /\ called -> CallBackReply(v, cp.act)
                         [] OTHER -> NoAction
             answer == Answer(d, m, m.sock[1], out, act)
  <1>5. value[d] \in Value
    BY DEF TypeOK
  <1>6. v \in Value
    BY <1>3, <1>5, CallBackType DEF TypeOK
  <1>7. act \in Action
    <2> HIDE DEF v, called
    <2> QED
      BY <1>3, <1>6, CallBackType
  <1>8. answer \subseteq Datagram /\ AfterAnswer(out) \in PairRecord
    <2> HIDE DEF act
    <2> QED
      BY <1>1, <1>4, <1>7, AnswerType
  <1>9. Consume(m) \subseteq Datagram /\ Send(answer) \subseteq Datagram
    <2> HIDE DEF answer
    <2> QED
      BY <1>8 DEF Consume, Send, TypeOK
  <1>10. NoFile \in PairFile /\ PairWrite(out.pair) \in PairFile
    BY <1>4, PairWriteType DEF PairFile
  <1>11. Dead \in PairRecord
    BY PairInitType DEF Dead, ZeroNonce, Nonce
  <1>12. CASE /\ pair' = [pair EXCEPT ![d] = AfterAnswer(out)]
              /\ file' \in {file, [file EXCEPT ![d] = PairWrite(out.pair)]}
              /\ value' = [value EXCEPT ![d] = v]
              /\ net' = Consume(m) \cup Send(answer)
              /\ UNCHANGED <<proc, starts, wanted, seen>>
    <2> HIDE DEF v, answer
    <2> QED
      BY <1>6, <1>8, <1>9, <1>10, <1>12 DEF TypeOK
  <1>13. CASE /\ proc' = [proc EXCEPT ![d] = "off"]
              /\ pair' = [pair EXCEPT ![d] = Dead]
              /\ \E f \in {NoFile, PairWrite(out.pair)} : file' = [file EXCEPT ![d] = f]
              /\ net' = Consume(m)
              /\ UNCHANGED <<starts, value, wanted, seen>>
    <2> HIDE DEF v, answer
    <2> QED
      BY <1>9, <1>10, <1>11, <1>13 DEF TypeOK
  <1> QED
    BY <1>2, <1>12, <1>13 DEF DeviceProcess

LEMMA DeviceStartType ==
    ASSUME TypeOK, NEW d \in Device, DeviceStart(d)
    PROVE  TypeOK'
  <1>1. d \in Node /\ starts[d] \in Nat /\ file[d] \in PairFile
    BY DEF TypeOK, Node
  <1>2. PairInit(<<d, starts[d] + 1>>) \in PairRecord
    BY <1>1, PairInitType DEF Nonce
  <1>3. PairRead(d, PairInit(<<d, starts[d] + 1>>), file[d]) \in PairRecord
    BY <1>1, <1>2, PairReadType
  <1> QED
    BY <1>1, <1>3, ValueAssumption DEF DeviceStart, TypeOK

LEMMA ControllerStartType ==
    ASSUME TypeOK, NEW c \in Controller, NEW act \in Command, ControllerStart(c, act)
    PROVE  TypeOK'
  <1> DEFINE run  == starts[c] + 1
             p    == PairRead(c, PairInit(<<c, run>>), file[c])
             call == IF file[c] = NoFile THEN "pairing" ELSE "listing"
  <1>1. /\ c \in Node /\ c \notin Device /\ starts[c] \in Nat /\ file[c] \in PairFile
        /\ act \in Action
    BY NodeAssumption, FabricAssumption DEF TypeOK, Node
  <1>2. run \in Nat /\ call \in Call
    BY <1>1 DEF Call
  <1>3. PairInit(<<c, run>>) \in PairRecord
    BY <1>1, PairInitType DEF Nonce
  <1>4. p \in PairRecord
    BY <1>1, <1>3, PairReadType
  <1> HIDE DEF p
  <1>5. AfterEncode(p, RequestCmd(call)) \in PairRecord
    BY <1>4, AfterEncodeType
  <1>6. NoAction \in Action
    BY ValueAssumption DEF NoAction, Action
  <1>7. Request(c, p, run, call, NoAction) \in Datagram
    BY <1>2, <1>4, <1>6, RequestType
  <1> HIDE DEF run, call
  <1>8. net' \subseteq Datagram
    BY <1>7 DEF ControllerStart, Send, TypeOK, p, run, call
  <1>9. pair' \in [Node -> PairRecord]
    BY <1>5 DEF ControllerStart, TypeOK, p, run, call
  <1>10. /\ proc' = [proc EXCEPT ![c] = call]
         /\ starts' = [starts EXCEPT ![c] = run]
         /\ wanted' = [wanted EXCEPT ![c] = act]
         /\ seen' = [seen EXCEPT ![c] = Unknown]
         /\ UNCHANGED <<file, value>>
    BY DEF ControllerStart, run, call
  <1>11. call # "on"
    BY <1>2 DEF Call
  <1> QED
    BY <1>1, <1>2, <1>8, <1>9, <1>10, <1>11 DEF TypeOK

LEMMA ControllerReceiveType ==
    ASSUME TypeOK, NEW c \in Controller, NEW m \in net, ControllerReceive(c, m)
    PROVE  TypeOK'
  <1>1. /\ c \in Node /\ c \notin Device /\ m \in Datagram /\ m.cp \in Packet
        /\ pair[c] \in PairRecord /\ Target[c] \in Node
        /\ starts[c] \in Nat /\ wanted[c] \in Action
    BY NodeAssumption, FabricAssumption DEF TypeOK, Datagram, Node
  <1>2. PICK cp \in Decode(pair[c], m.cp) : \E out \in StateMachine(c, pair[c], cp) :
            ControllerProcess(c, m, cp, out)
    BY DEF ControllerReceive
  <1>3. PICK out \in StateMachine(c, pair[c], cp) : ControllerProcess(c, m, cp, out)
    BY <1>2
  <1>4. cp \in Packet /\ cp.act \in Action
    BY <1>1, DecodeType DEF Packet
  <1>5. out \in Outcome /\ out.pair \in PairRecord
    BY <1>1, <1>4, StateMachineType DEF Outcome
  <1> DEFINE p    == AfterAnswer(out)
             sent == Consume(m) \cup Send(Answer(c, m, Target[c], out, NoAction))
             last == Request(c, p, starts[c], "acting", wanted[c])
  <1>6. NoAction \in Action
    BY ValueAssumption DEF NoAction, Action
  <1>7. Answer(c, m, Target[c], out, NoAction) \subseteq Datagram /\ p \in PairRecord
    BY <1>1, <1>5, <1>6, AnswerType
  <1>8. sent \subseteq Datagram
    BY <1>7 DEF Consume, Send, TypeOK
  <1> HIDE DEF p
  <1>9. last \in Datagram
    BY <1>1, <1>7, RequestType DEF Call
  <1>10. AfterEncode(p, "APP_MESSAGE") \in PairRecord
    BY <1>7, AfterEncodeType
  <1>11. NoFile \in PairFile /\ PairWrite(p) \in PairFile
    BY <1>7, PairWriteType DEF PairFile
  <1>12. Dead \in PairRecord
    BY PairInitType DEF Dead, ZeroNonce, Nonce
  <1> HIDE DEF sent, last
  <1>13. Close(sent, c) \subseteq Datagram /\ Send({last}) \subseteq Datagram
    BY <1>8, <1>9 DEF Close, Send
  <1>14. seen' \in [Controller -> Value \cup {Unknown}]
    <2>1. seen[c] \in Value \cup {Unknown}
      BY DEF TypeOK
    <2>2. 0 \in Value
      BY ValueAssumption
    <2>3. ControllerCallBack(seen[c], cp.act) \in Value \cup {Unknown}
      BY <1>4, <2>1, <2>2, CallBackType
    <2>4. seen' = [seen EXCEPT ![c] =
                      IF Called(out, cp) THEN ControllerCallBack(@, cp.act) ELSE @]
      BY <1>3 DEF ControllerProcess
    <2> QED
      BY <2>1, <2>3, <2>4 DEF TypeOK
  <1>15. UNCHANGED <<starts, value, wanted>>
    BY <1>3 DEF ControllerProcess
  <1>16. CASE /\ pair' = [pair EXCEPT ![c] = p]
              /\ net' = sent
              /\ UNCHANGED <<proc, file>>
    BY <1>1, <1>7, <1>8, <1>14, <1>15, <1>16 DEF TypeOK
  <1>17. CASE Exit(c, p) /\ net' = Close(sent, c)
    BY <1>1, <1>11, <1>12, <1>13, <1>14, <1>15, <1>17 DEF Exit, TypeOK
  <1>18. CASE /\ proc' = [proc EXCEPT ![c] = "acting"]
              /\ pair' = [pair EXCEPT ![c] = AfterEncode(p, "APP_MESSAGE")]
              /\ net' = Close(sent, c) \cup Send({last})
              /\ UNCHANGED file
    BY <1>1, <1>10, <1>13, <1>14, <1>15, <1>18 DEF Call, TypeOK
  <1> QED
    BY <1>3, <1>16, <1>17, <1>18 DEF ControllerProcess, p, sent, last

LEMMA StopType ==
    ASSUME TypeOK, NEW n \in Node, Stop(n)
    PROVE  TypeOK'
  <1>1. Dead \in PairRecord
    BY PairInitType DEF Dead, ZeroNonce, Nonce
  <1> QED
    BY <1>1 DEF Stop, Close, TypeOK

LEMMA TypeStep == TypeOK /\ [Next]_vars => TypeOK'
  <1> SUFFICES ASSUME TypeOK, [Next]_vars PROVE TypeOK'
    OBVIOUS
  <1>1. CASE \E d \in Device : DeviceStart(d)
    BY <1>1, DeviceStartType
  <1>2. CASE \E d \in Device : \E m \in net : DeviceReceive(d, m)
    BY <1>2, DeviceReceiveType
  <1>3. CASE \E c \in Controller : \E act \in Command : ControllerStart(c, act)
    BY <1>3, ControllerStartType
  <1>4. CASE \E c \in Controller : \E m \in net : ControllerReceive(c, m)
    BY <1>4, ControllerReceiveType
  <1>5. CASE \E n \in Node : Stop(n)
    BY <1>5, StopType
  <1>6. CASE \E m \in net : Lose(m)
    BY <1>6 DEF Lose, TypeOK
  <1>7. CASE UNCHANGED vars
    BY <1>7 DEF vars, TypeOK
  <1> QED
    BY <1>1, <1>2, <1>3, <1>4, <1>5, <1>6, <1>7 DEF Next

\* Every variable keeps to its type, whatever the network does to the
\* datagrams and whoever is killed.
THEOREM TypeCorrect == Spec => []TypeOK
  BY InitType, TypeStep, PTL DEF Spec

-----------------------------------------------------------------------------
(* One call of stateMachine.                                               *)

\* Which handler a command gets.
LEMMA HandleByCmd ==
    ASSUME NEW n, NEW p, NEW cp
    PROVE  /\ cp.cmd = "PAIR_REQUEST" => Handle(n, p, cp) = PairRequest(p, cp)
           /\ cp.cmd = "PAIR_REQUEST_ACK" => Handle(n, p, cp) = PairRequestAck(p, cp)
           /\ cp.cmd = "PUBLICKEY_REQUEST" => Handle(n, p, cp) = PublickeyRequest(p)
           /\ cp.cmd = "PUBLICKEY_SEND" => Handle(n, p, cp) = PublickeySend(n, p, cp)
           /\ cp.cmd = "PUBLICKEY_ACK" => Handle(n, p, cp) = PublickeyAck(p)
           /\ cp.cmd = "NONCE_REQUEST" => Handle(n, p, cp) = NonceRequest(p)
           /\ cp.cmd = "NONCE_SEND" => Handle(n, p, cp) = NonceSend(p, cp)
           /\ cp.cmd = "NONCE_ACK" => Handle(n, p, cp) = NonceAck(p)
           /\ cp.cmd = "APP_MESSAGE" => Handle(n, p, cp) = AppMessage(p, cp)
           /\ cp.cmd = "APP_LIST" => Handle(n, p, cp) = AppList(p)
           /\ cp.cmd \in {"FAIL", "INVAILD_CMD", "PACKET_DECRYPT_FAILED",
                          "APP_MESSAGE_ACK", "APP_LIST_ACK"}
                => Handle(n, p, cp) = NoReply(p)
  BY DEF Handle, VerifyCmd

\* What a handler leaves alone.
Unmoved(p, q) == q.mynonce = p.mynonce /\ q.serial = p.serial
KeyKept(p, q) == /\ q.publickey = p.publickey /\ q.hasPublicKey = p.hasPublicKey
                 /\ q.sharedkey = p.sharedkey
NonceKept(p, q) == q.nonce = p.nonce /\ q.hasNonce = p.hasNonce

\* What a handler may return at a device for packet cp of a datagram of
\* controller c.
DeviceHandled(p, cp, h, c) ==
    /\ DevicePair(h.pair)
    /\ p.state = "PAIRED" => h.pair.state = "PAIRED"
    /\ JustPaired(p, h.pair) => h.pair.publickey = c
    /\ h.send =>
        /\ h.cmd \in ToController \ {"INVAILD_CMD"}
        /\ h.cmd \in {"PUBLICKEY_SEND", "NONCE_SEND"} => h.flags = 0
        /\ h.cmd \in AppCmd => cp.cmd \in AppCmd
        /\ h.cmd = "NONCE_ACK" => cp.cmd = "NONCE_SEND" /\ JustPaired(p, h.pair)
        /\ h.cmd = "PUBLICKEY_ACK" => cp.cmd = "PUBLICKEY_SEND"

LEMMA DeviceHandles ==
    ASSUME NEW d \in Device, NEW c \in Controller,
           NEW p \in PairRecord, DevicePair(p), KeyOK(d, p),
           NEW cp \in Packet,
           cp.cmd \in ToDevice \cup {"PACKET_DECRYPT_FAILED"},
           cp.cmd \in {"PUBLICKEY_SEND", "NONCE_SEND"} => cp.flags = 1,
           cp.cmd = "PAIR_REQUEST" => cp.from # Nil,
           cp.cmd = "PUBLICKEY_SEND" => cp.publickey # Nil,
           cp.cmd = "NONCE_SEND" => /\ cp.nonce # ZeroNonce /\ c \in cp.seal
                                    /\ cp.seal = p.sharedkey
    PROVE  /\ DeviceHandled(p, cp, Handle(d, p, cp), c)
           /\ KeyOK(d, Handle(d, p, cp).pair)
           /\ Handle(d, p, cp).pair.mynonce = p.mynonce
  <1> DEFINE h == Handle(d, p, cp)
  <1> USE DEF DeviceHandled, DevicePair, Collected, JustPaired, ToController, KeyOK, AppCmd
  <1>1. CASE cp.cmd = "PAIR_REQUEST"
    <2>a. h = PairRequest(p, cp)
      BY <1>1, HandleByCmd
    <2>1. /\ h.cmd \in {"PAIR_REQUEST_ACK", "FAIL"}
          /\ p.state = "UNCONFIGURED" =>
                h.pair = [p EXCEPT !.uuid = cp.from, !.state = "PUBLICKEY_SETUP"]
          /\ p.state # "UNCONFIGURED" => h.pair = [p EXCEPT !.uuid = cp.from]
      BY <2>a DEF PairRequest, Reply
    <2> HIDE DEF h
    <2>2. /\ h.pair.state = IF p.state = "UNCONFIGURED" THEN "PUBLICKEY_SETUP" ELSE p.state
          /\ h.pair.uuid = cp.from
          /\ Unmoved(p, h.pair) /\ KeyKept(p, h.pair) /\ NonceKept(p, h.pair)
      BY <2>1 DEF PairRecord, Unmoved, KeyKept, NonceKept
    <2>3. DevicePair(h.pair)
      BY <1>1, <2>2 DEF Unmoved, KeyKept, NonceKept
    <2> QED
      BY <1>1, <2>1, <2>2, <2>3 DEF h, Unmoved, KeyKept
  <1>2. CASE cp.cmd = "PUBLICKEY_REQUEST"
    BY <1>2, HandleByCmd DEF PublickeyRequest, Reply, NoReply
  <1>3. CASE cp.cmd = "PUBLICKEY_SEND"
    <2>a. h = PublickeySend(d, p, cp)
      BY <1>3, HandleByCmd
    <2>1. CASE p.state # "PUBLICKEY_SETUP"
      BY <2>a, <2>1 DEF PublickeySend, NoReply
    <2>2. CASE p.state = "PUBLICKEY_SETUP"
      <3>1. h = Reply([p EXCEPT !.publickey = cp.publickey, !.hasPublicKey = 1,
                                !.sharedkey = SharedSecret(d, cp.publickey),
                                !.state = "NONCE_SETUP"], "PUBLICKEY_ACK", 1)
        BY <1>3, <2>a, <2>2 DEF PublickeySend
      <3> HIDE DEF h
      <3>2. /\ h.pair.state = "NONCE_SETUP" /\ h.pair.hasPublicKey = 1
            /\ h.pair.publickey = cp.publickey
            /\ h.pair.sharedkey = SharedSecret(d, cp.publickey)
            /\ h.pair.uuid = p.uuid
            /\ Unmoved(p, h.pair) /\ NonceKept(p, h.pair)
            /\ h.cmd = "PUBLICKEY_ACK"
        BY <3>1 DEF Reply, PairRecord, Unmoved, NonceKept
      <3> QED
        BY <1>3, <2>2, <3>2 DEF h, Unmoved, NonceKept
    <2> QED
      BY <2>1, <2>2
  <1>4. CASE cp.cmd = "NONCE_REQUEST"
    BY <1>4, HandleByCmd DEF NonceRequest, Reply, NoReply
  <1>5. CASE cp.cmd = "NONCE_SEND"
    <2>a. h = NonceSend(p, cp)
      BY <1>5, HandleByCmd
    <2>1. CASE p.state # "NONCE_SETUP"
      BY <2>a, <2>1 DEF NonceSend, NoReply
    <2>2. CASE p.state = "NONCE_SETUP"
      <3>1. p.publickey = c
        BY <1>5, NodeAssumption DEF SharedSecret
      <3>2. h = Reply([p EXCEPT !.nonce = cp.nonce, !.hasNonce = 1, !.state = "PAIRED"],
                      "NONCE_ACK", 0)
        BY <1>5, <2>a, <2>2 DEF NonceSend
      <3> HIDE DEF h
      <3>3. /\ h.pair.state = "PAIRED" /\ h.pair.hasNonce = 1 /\ h.pair.nonce = cp.nonce
            /\ h.pair.uuid = p.uuid
            /\ Unmoved(p, h.pair) /\ KeyKept(p, h.pair)
            /\ h.cmd = "NONCE_ACK"
        BY <3>2 DEF Reply, PairRecord, Unmoved, KeyKept
      <3> QED
        BY <1>5, <2>2, <3>1, <3>3 DEF h, Unmoved, KeyKept
    <2> QED
      BY <2>1, <2>2
  <1>6. CASE cp.cmd = "APP_LIST"
    BY <1>6, HandleByCmd DEF AppList, Reply, NoReply
  <1>7. CASE cp.cmd = "APP_MESSAGE"
    BY <1>7, HandleByCmd DEF AppMessage, Reply, NoReply
  <1>8. CASE cp.cmd \in {"INVAILD_CMD", "PACKET_DECRYPT_FAILED"}
    BY <1>8, HandleByCmd DEF NoReply
  <1> QED
    BY <1>1, <1>2, <1>3, <1>4, <1>5, <1>6, <1>7, <1>8 DEF ToDevice

\* What decoding leaves of a datagram that is as it should be.
LEMMA Decoded ==
    ASSUME NEW p \in PairRecord, NEW m \in Datagram, PacketOK(m), NEW cp \in Decode(p, m.cp)
    PROVE  /\ cp \in Packet
           /\ cp.cmd \in {m.cp.cmd, "PACKET_DECRYPT_FAILED"}
           /\ cp.flags = m.cp.flags /\ cp.from = m.cp.from
           /\ cp.cmd \notin AppCmd \cup {"PACKET_DECRYPT_FAILED"} => cp = m.cp
           /\ cp.cmd = "NONCE_SEND" => cp.seal = p.sharedkey
           /\ m.cp.cmd \notin AppCmd => cp.to = m.cp.to
           /\ m.cp.cmd = "PAIR_REQUEST" => cp = m.cp
  <1>1. m.cp \in Packet
    BY DEF Datagram
  <1>2. /\ m.cp.kind = "DATA" <=> m.cp.cmd \in AppCmd
        /\ m.cp.kind = "NONCE" <=> m.cp.cmd = "NONCE_SEND"
    BY DEF PacketOK, ContentOK, PacketType, AppCmd
  <1>3. cp \in Packet
    BY <1>1, DecodeType
  <1>4. CASE cp = m.cp /\ (m.cp.kind \in {"NONCE", "DATA"} => m.cp.seal = p.sharedkey)
    BY <1>2, <1>3, <1>4
  <1>5. CASE cp = Undecoded(m.cp)
    <2>1. /\ cp.cmd = "PACKET_DECRYPT_FAILED" /\ cp.flags = m.cp.flags
          /\ cp.from = m.cp.from /\ cp.to = m.cp.to
      BY <1>1, <1>5 DEF Undecoded, Packet
    <2>2. m.cp.kind \in {"NONCE", "DATA"} \/ cp = m.cp
      BY DEF Decode
    <2> QED
      BY <1>2, <1>3, <2>1, <2>2 DEF AppCmd
  <1>6. CASE m.cp.kind = "DATA" /\ cp \in Garbled(m.cp)
    <2>1. /\ cp.cmd \in {m.cp.cmd, "PACKET_DECRYPT_FAILED"} /\ cp.flags = m.cp.flags
          /\ cp.from = m.cp.from
      BY <1>1, <1>6 DEF Garbled, Undecoded, Packet
    <2> QED
      BY <1>2, <1>3, <1>6, <2>1 DEF AppCmd
  <1> QED
    BY <1>4, <1>5, <1>6, DecodeCases

\* What stateMachine does with a datagram at a device.
DeviceAnswers(d, p, m, out) ==
    /\ DevicePair(out.pair) /\ KeyOK(d, out.pair) /\ out.pair.mynonce = p.mynonce
    /\ p.state = "PAIRED" => out.pair.state = "PAIRED"
    /\ JustPaired(p, out.pair) => out.pair.publickey = m.sock[1]
    /\ out.send =>
        /\ out.cmd \in ToController
        /\ out.cmd \in {"PUBLICKEY_SEND", "NONCE_SEND"} => out.flags = 0
        /\ out.cmd # "INVAILD_CMD" => out.from = d
        /\ m.sock[3] = "pairing" => /\ out.cmd \notin AppCmd \cup {"INVAILD_CMD"}
                                    /\ out.to = m.sock[1]
        /\ out.cmd = "NONCE_ACK" => m.cp.cmd = "NONCE_SEND" /\ JustPaired(p, out.pair)
        /\ out.cmd = "PUBLICKEY_ACK" => m.cp.cmd = "PUBLICKEY_SEND"

LEMMA DeviceOutcome ==
    ASSUME NEW d \in Device, NEW p \in PairRecord, DevicePair(p), KeyOK(d, p),
           NEW m \in Datagram, m.dst = d, PacketOK(m),
           NEW cp \in Decode(p, m.cp), NEW out \in StateMachine(d, p, cp)
    PROVE  DeviceAnswers(d, p, m, out)
  <1> DEFINE c == m.sock[1]
             h == Handle(d, p, cp)
  <1>1. c \in Controller /\ c # Nil
    BY NodeAssumption DEF Datagram, Socket
  <1>2. /\ m.cp.cmd \in ToDevice
        /\ m.cp.cmd \in {"PUBLICKEY_SEND", "NONCE_SEND"} => m.cp.flags = 1
        /\ m.cp.cmd # "INVAILD_CMD" => m.cp.from = c
        /\ m.sock[3] = "pairing" => /\ m.cp.cmd \notin AppCmd \cup {"INVAILD_CMD"}
                                    /\ m.cp.cmd # "PAIR_REQUEST" => m.cp.to = d
        /\ m.cp.cmd = "PUBLICKEY_SEND" => m.cp.publickey # Nil
        /\ m.cp.cmd = "NONCE_SEND" => m.cp.nonce # ZeroNonce /\ c \in m.cp.seal
    BY DEF PacketOK, DirectionOK, AddressOK, ContentOK, PacketType, AppCmd, Sender
  <1>3. /\ cp \in Packet
        /\ cp.cmd \in {m.cp.cmd, "PACKET_DECRYPT_FAILED"}
        /\ cp.flags = m.cp.flags /\ cp.from = m.cp.from
        /\ cp.cmd \notin AppCmd \cup {"PACKET_DECRYPT_FAILED"} => cp = m.cp
        /\ cp.cmd = "NONCE_SEND" => cp.seal = p.sharedkey
        /\ m.cp.cmd \notin AppCmd => cp.to = m.cp.to
        /\ m.cp.cmd = "PAIR_REQUEST" => cp = m.cp
    BY Decoded
  <1>4. DeviceHandled(p, cp, h, c) /\ KeyOK(d, h.pair) /\ h.pair.mynonce = p.mynonce
    <2>1. /\ cp.cmd \in ToDevice \cup {"PACKET_DECRYPT_FAILED"}
          /\ cp.cmd \in {"PUBLICKEY_SEND", "NONCE_SEND"} => cp.flags = 1
          /\ cp.cmd = "PAIR_REQUEST" => cp.from # Nil
          /\ cp.cmd = "PUBLICKEY_SEND" => cp.publickey # Nil
          /\ cp.cmd = "NONCE_SEND" => /\ cp.nonce # ZeroNonce /\ c \in cp.seal
                                      /\ cp.seal = p.sharedkey
      BY <1>1, <1>2, <1>3 DEF AppCmd
    <2> HIDE DEF c
    <2>2. c \in Controller /\ cp \in Packet
      BY <1>1, <1>3
    <2> QED
      BY <2>1, <2>2, DeviceHandles, Zenon
  <1>5. CASE InvalidDest(d, cp)
    <2>1. out.pair = p /\ out.cmd = "INVAILD_CMD" /\ out.e = "ERROR_INVAILD_DEST"
      BY <1>5 DEF StateMachine
    <2>2. m.sock[3] # "pairing"
      BY <1>2, <1>3, <1>5 DEF InvalidDest, AppCmd
    <2> QED
      BY <2>1, <2>2 DEF DeviceAnswers, JustPaired, ToController
  <1>6. CASE ~InvalidDest(d, cp)
    <2>1. /\ out.pair = h.pair /\ out.cmd = h.cmd /\ out.flags = h.flags /\ out.send = h.send
          /\ out.to = cp.from /\ out.from = d
      BY <1>6 DEF StateMachine
    <2>2. m.sock[3] = "pairing" => cp.cmd \notin AppCmd /\ cp.from = c
      BY <1>2, <1>3 DEF AppCmd
    <2>3. /\ cp.cmd = "NONCE_SEND" => m.cp.cmd = "NONCE_SEND"
          /\ cp.cmd = "PUBLICKEY_SEND" => m.cp.cmd = "PUBLICKEY_SEND"
      BY <1>3
    <2> HIDE DEF c, h
    <2> QED
      BY <1>4, <2>1, <2>2, <2>3 DEF DeviceAnswers, DeviceHandled, c
  <1> QED
    BY <1>5, <1>6

-----------------------------------------------------------------------------
(* The same in the controller.                                             *)

HasKey(p) == p.hasPublicKey = 1 /\ p.publickey # Nil
HasNonce(p) == p.hasNonce = 1 /\ p.nonce # ZeroNonce

\* What a handler may return at controller c.
ControllerHandled(c, p, cp, h) ==
    /\ Collected(h.pair)
    /\ HasKey(p) => HasKey(h.pair)
    /\ HasNonce(p) => HasNonce(h.pair)
    /\ p.state = "PAIRED" => h.pair = p
    /\ JustPaired(p, h.pair) => cp.cmd = "NONCE_ACK"
    /\ h.send =>
        /\ h.cmd \in ToDevice \ ({"INVAILD_CMD", "PAIR_REQUEST"} \cup AppCmd)
        /\ h.cmd \in {"PUBLICKEY_SEND", "NONCE_SEND"} => h.flags = 1
        /\ h.cmd = "PUBLICKEY_SEND" => HasKey(h.pair)
        /\ h.cmd = "NONCE_SEND" => HasNonce(h.pair) /\ c \in h.pair.sharedkey

LEMMA ControllerHandles ==
    ASSUME NEW c \in Controller,
           NEW p \in PairRecord, Collected(p), KeyOK(c, p),
           NEW cp \in Packet,
           cp.cmd \in ToController \cup {"PACKET_DECRYPT_FAILED"},
           cp.cmd \in {"PUBLICKEY_SEND", "NONCE_SEND"} => cp.flags = 0,
           cp.cmd = "PAIR_REQUEST_ACK" => cp.from # Nil,
           cp.cmd = "PUBLICKEY_SEND" => cp.publickey # Nil,
           cp.cmd = "NONCE_SEND" => cp.nonce # ZeroNonce,
           cp.cmd = "PUBLICKEY_ACK" => HasKey(p),
           cp.cmd = "NONCE_ACK" => HasNonce(p)
    PROVE  /\ ControllerHandled(c, p, cp, Handle(c, p, cp))
           /\ KeyOK(c, Handle(c, p, cp).pair)
           /\ Handle(c, p, cp).pair.mynonce = p.mynonce
  <1> DEFINE h == Handle(c, p, cp)
  <1> USE DEF ControllerHandled, Collected, JustPaired, ToDevice, KeyOK, AppCmd,
              HasKey, HasNonce
  <1>1. CASE cp.cmd = "PAIR_REQUEST_ACK"
    <2>a. h = PairRequestAck(p, cp)
      BY <1>1, HandleByCmd
    <2>1. CASE p.state # "UNCONFIGURED"
      BY <2>a, <2>1 DEF PairRequestAck, NoReply
    <2>2. CASE p.state = "UNCONFIGURED"
      <3>1. h = Reply([p EXCEPT !.state = "PUBLICKEY_SETUP", !.uuid = cp.from],
                      "PUBLICKEY_REQUEST", 0)
        BY <2>a, <2>2 DEF PairRequestAck
      <3> HIDE DEF h
      <3>2. /\ h.pair.state = "PUBLICKEY_SETUP" /\ h.pair.uuid = cp.from
            /\ Unmoved(p, h.pair) /\ KeyKept(p, h.pair) /\ NonceKept(p, h.pair)
            /\ h.cmd = "PUBLICKEY_REQUEST"
        BY <3>1 DEF Reply, PairRecord, Unmoved, KeyKept, NonceKept
      <3> QED
        BY <1>1, <2>2, <3>2 DEF h, Unmoved, KeyKept, NonceKept
    <2> QED
      BY <2>1, <2>2
  <1>2. CASE cp.cmd = "PUBLICKEY_SEND"
    <2>a. h = PublickeySend(c, p, cp)
      BY <1>2, HandleByCmd
    <2>1. CASE p.state # "PUBLICKEY_SETUP"
      BY <2>a, <2>1 DEF PublickeySend, NoReply
    <2>2. CASE p.state = "PUBLICKEY_SETUP"
      <3>1. h = Reply([p EXCEPT !.publickey = cp.publickey, !.hasPublicKey = 1,
                                !.sharedkey = SharedSecret(c, cp.publickey)],
                      "PUBLICKEY_SEND", 1)
        BY <1>2, <2>a, <2>2 DEF PublickeySend
      <3> HIDE DEF h
      <3>2. /\ h.pair.state = p.state /\ h.pair.hasPublicKey = 1
            /\ h.pair.publickey = cp.publickey
            /\ h.pair.sharedkey = SharedSecret(c, cp.publickey)
            /\ h.pair.uuid = p.uuid
            /\ Unmoved(p, h.pair) /\ NonceKept(p, h.pair)
            /\ h.cmd = "PUBLICKEY_SEND" /\ h.flags = 1
        BY <3>1 DEF Reply, PairRecord, Unmoved, NonceKept
      <3> QED
        BY <1>2, <2>2, <3>2 DEF h, Unmoved, NonceKept
    <2> QED
      BY <2>1, <2>2
  <1>3. CASE cp.cmd = "PUBLICKEY_ACK"
    <2>a. h = PublickeyAck(p)
      BY <1>3, HandleByCmd
    <2>1. CASE p.state # "PUBLICKEY_SETUP"
      BY <2>a, <2>1 DEF PublickeyAck, NoReply
    <2>2. CASE p.state = "PUBLICKEY_SETUP"
      <3>1. h = Reply([p EXCEPT !.state = "NONCE_SETUP"], "NONCE_REQUEST", 0)
        BY <2>a, <2>2 DEF PublickeyAck
      <3> HIDE DEF h
      <3>2. /\ h.pair.state = "NONCE_SETUP" /\ h.pair.uuid = p.uuid
            /\ Unmoved(p, h.pair) /\ KeyKept(p, h.pair) /\ NonceKept(p, h.pair)
            /\ h.cmd = "NONCE_REQUEST"
        BY <3>1 DEF Reply, PairRecord, Unmoved, KeyKept, NonceKept
      <3> QED
        BY <1>3, <2>2, <3>2 DEF h, Unmoved, KeyKept, NonceKept
    <2> QED
      BY <2>1, <2>2
  <1>4. CASE cp.cmd = "NONCE_SEND"
    <2>a. h = NonceSend(p, cp)
      BY <1>4, HandleByCmd
    <2>1. CASE p.state # "NONCE_SETUP"
      BY <2>a, <2>1 DEF NonceSend, NoReply
    <2>2. CASE p.state = "NONCE_SETUP"
      <3>1. h = Reply([p EXCEPT !.nonce = cp.nonce, !.hasNonce = 1], "NONCE_SEND", 1)
        BY <1>4, <2>a, <2>2 DEF NonceSend
      <3> HIDE DEF h
      <3>2. /\ h.pair.state = p.state /\ h.pair.hasNonce = 1 /\ h.pair.nonce = cp.nonce
            /\ h.pair.uuid = p.uuid
            /\ Unmoved(p, h.pair) /\ KeyKept(p, h.pair)
            /\ h.cmd = "NONCE_SEND" /\ h.flags = 1
        BY <3>1 DEF Reply, PairRecord, Unmoved, KeyKept
      <3>3. c \in p.sharedkey
        BY <2>2 DEF SharedSecret
      <3> QED
        BY <1>4, <2>2, <3>2, <3>3 DEF h, Unmoved, KeyKept
    <2> QED
      BY <2>1, <2>2
  <1>5. CASE cp.cmd = "NONCE_ACK"
    <2>a. h = NonceAck(p)
      BY <1>5, HandleByCmd
    <2>1. CASE p.state # "NONCE_SETUP"
      BY <2>a, <2>1 DEF NonceAck, NoReply
    <2>2. CASE p.state = "NONCE_SETUP"
      <3>1. h = NoReply([p EXCEPT !.state = "PAIRED"])
        BY <2>a, <2>2 DEF NonceAck
      <3> HIDE DEF h
      <3>2. /\ h.pair.state = "PAIRED" /\ h.pair.uuid = p.uuid
            /\ Unmoved(p, h.pair) /\ KeyKept(p, h.pair) /\ NonceKept(p, h.pair)
            /\ h.send = FALSE
        BY <3>1 DEF NoReply, PairRecord, Unmoved, KeyKept, NonceKept
      <3> QED
        BY <1>5, <2>2, <3>2 DEF h, Unmoved, KeyKept, NonceKept
    <2> QED
      BY <2>1, <2>2
  <1>6. CASE cp.cmd \in {"FAIL", "INVAILD_CMD", "PACKET_DECRYPT_FAILED",
                         "APP_MESSAGE_ACK", "APP_LIST_ACK"}
    BY <1>6, HandleByCmd DEF NoReply
  <1> QED
    BY <1>1, <1>2, <1>3, <1>4, <1>5, <1>6 DEF ToController

\* What stateMachine does with a datagram at controller c, whose socket is
\* the one the datagram came to.
ControllerAnswers(c, p, m, out) ==
    /\ Collected(out.pair) /\ KeyOK(c, out.pair) /\ out.pair.mynonce = p.mynonce
    /\ HasKey(p) => HasKey(out.pair)
    /\ HasNonce(p) => HasNonce(out.pair)
    /\ p.state = "PAIRED" => out.pair = p
    /\ JustPaired(p, out.pair) => m.cp.cmd = "NONCE_ACK"
    /\ m.sock[3] = "pairing" => out.e = "ERROR_OK"
    /\ out.send =>
        /\ out.cmd \in ToDevice \ ({"PAIR_REQUEST"} \cup AppCmd)
        /\ out.cmd \in {"PUBLICKEY_SEND", "NONCE_SEND"} => out.flags = 1
        /\ out.cmd = "PUBLICKEY_SEND" => HasKey(out.pair)
        /\ out.cmd = "NONCE_SEND" => HasNonce(out.pair) /\ c \in out.pair.sharedkey
        /\ out.cmd # "INVAILD_CMD" => out.from = c
        /\ m.sock[3] = "pairing" => out.cmd # "INVAILD_CMD" /\ out.to = Target[c]

LEMMA ControllerOutcome ==
    ASSUME NEW c \in Controller, NEW p \in PairRecord, Collected(p), KeyOK(c, p),
           NEW m \in Datagram, m.dst = c, m.sock[1] = c, PacketOK(m),
           m.cp.cmd = "PUBLICKEY_ACK" => HasKey(p),
           m.cp.cmd = "NONCE_ACK" => HasNonce(p),
           NEW cp \in Decode(p, m.cp), NEW out \in StateMachine(c, p, cp)
    PROVE  ControllerAnswers(c, p, m, out)
  <1> DEFINE h == Handle(c, p, cp)
  <1>1. Target[c] # Nil /\ c \notin Device
    BY NodeAssumption, FabricAssumption
  <1>2. /\ m.cp.cmd \in ToController
        /\ m.cp.cmd \in {"PUBLICKEY_SEND", "NONCE_SEND"} => m.cp.flags = 0
        /\ m.cp.cmd # "INVAILD_CMD" => m.cp.from = Target[c]
        /\ m.sock[3] = "pairing" => /\ m.cp.cmd \notin AppCmd \cup {"INVAILD_CMD"}
                                    /\ m.cp.cmd # "PAIR_REQUEST" => m.cp.to = c
        /\ m.cp.cmd = "PUBLICKEY_SEND" => m.cp.publickey # Nil
        /\ m.cp.cmd = "NONCE_SEND" => m.cp.nonce # ZeroNonce
    BY <1>1 DEF PacketOK, DirectionOK, AddressOK, ContentOK, PacketType, AppCmd, Sender
  <1>3. /\ cp \in Packet
        /\ cp.cmd \in {m.cp.cmd, "PACKET_DECRYPT_FAILED"}
        /\ cp.flags = m.cp.flags /\ cp.from = m.cp.from
        /\ cp.cmd \notin AppCmd \cup {"PACKET_DECRYPT_FAILED"} => cp = m.cp
        /\ m.cp.cmd \notin AppCmd => cp.to = m.cp.to
    BY Decoded
  <1>4. /\ ControllerHandled(c, p, cp, h)
        /\ KeyOK(c, h.pair) /\ h.pair.mynonce = p.mynonce
    <2>1. /\ cp.cmd \in ToController \cup {"PACKET_DECRYPT_FAILED"}
          /\ cp.cmd \in {"PUBLICKEY_SEND", "NONCE_SEND"} => cp.flags = 0
          /\ cp.cmd = "PAIR_REQUEST_ACK" => cp.from # Nil
          /\ cp.cmd = "PUBLICKEY_SEND" => cp.publickey # Nil
          /\ cp.cmd = "NONCE_SEND" => cp.nonce # ZeroNonce
          /\ cp.cmd = "PUBLICKEY_ACK" => HasKey(p)
          /\ cp.cmd = "NONCE_ACK" => HasNonce(p)
      BY <1>1, <1>2, <1>3 DEF AppCmd
    <2>2. cp \in Packet
      BY <1>3
    <2> QED
      BY <2>1, <2>2, ControllerHandles, Zenon
  <1>5. CASE InvalidDest(c, cp)
    <2>1. out.pair = p /\ out.cmd = "INVAILD_CMD"
      BY <1>5 DEF StateMachine
    <2>2. m.sock[3] # "pairing"
      <3>1. m.sock[3] = "pairing" => cp.to = c
        BY <1>2, <1>3 DEF ToController, AppCmd
      <3> QED
        BY <1>5, <3>1 DEF InvalidDest
    <2> QED
      BY <2>1, <2>2 DEF ControllerAnswers, JustPaired, ToDevice, AppCmd
  <1>6. CASE ~InvalidDest(c, cp)
    <2>1. /\ out.pair = h.pair /\ out.cmd = h.cmd /\ out.flags = h.flags /\ out.send = h.send
          /\ out.to = cp.from /\ out.from = c /\ out.e = "ERROR_OK"
      BY <1>6 DEF StateMachine
    <2>2. m.sock[3] = "pairing" => cp.from = Target[c]
      BY <1>2, <1>3
    <2>3. cp.cmd = "NONCE_ACK" => m.cp.cmd = "NONCE_ACK"
      BY <1>3
    <2> HIDE DEF h
    <2> QED
      BY <1>4, <2>1, <2>2, <2>3 DEF ControllerAnswers, ControllerHandled
  <1> QED
    BY <1>5, <1>6

-----------------------------------------------------------------------------
(* The datagrams across a step.                                            *)

\* A datagram stays as it should be when the controller of its socket does
\* not lose what it has collected while the socket is open, and its device
\* does not lose its commitment.
LEMMA MessageStays ==
    ASSUME NEW m, MessageOK(m),
           starts'[m.sock[1]] \in Nat, starts[m.sock[1]] \in Nat, m.sock[2] \in Nat,
           starts[m.sock[1]] <= starts'[m.sock[1]],
           Current(m)' => /\ Current(m)
                          /\ HasKey(pair[m.sock[1]]) => HasKey(pair'[m.sock[1]])
                          /\ HasNonce(pair[m.sock[1]]) => HasNonce(pair'[m.sock[1]]),
           Target[m.sock[1]] \in Persistent /\ Committed(Target[m.sock[1]], m.sock[1])
               => Committed(Target[m.sock[1]], m.sock[1])'
    PROVE  MessageOK(m)'
  <1>1. PacketOK(m)'
    BY DEF MessageOK, PacketOK, DirectionOK, ContentOK, AddressOK, Sender
  <1>2. RunOK(m)'
    BY DEF MessageOK, RunOK
  <1>3. KeyFirst(m)' /\ NonceFirst(m)'
    BY DEF MessageOK, KeyFirst, NonceFirst, HasKey, HasNonce
  <1>4. AckCommitted(m)'
    BY DEF MessageOK, AckCommitted
  <1> QED
    BY <1>1, <1>2, <1>3, <1>4 DEF MessageOK

\* The serial is all that sending changes in a pairing.
LEMMA AfterAnswerKeeps ==
    ASSUME NEW out \in Outcome
    PROVE  LET q == AfterAnswer(out) IN
           /\ q \in PairRecord
           /\ q.state = out.pair.state /\ q.uuid = out.pair.uuid
           /\ Unmoved([out.pair EXCEPT !.serial = q.serial], q)
           /\ KeyKept(out.pair, q) /\ NonceKept(out.pair, q)
  <1>1. out.pair \in PairRecord
    BY DEF Outcome
  <1> QED
    BY <1>1 DEF AfterAnswer, AfterEncode, PairRecord, Unmoved, KeyKept, NonceKept

\* A device's answer is as it should be.
LEMMA DeviceAnswerOK ==
    ASSUME NEW d \in Device, NEW p \in PairRecord, p.mynonce # ZeroNonce,
           NEW m \in Datagram, m.dst = d, PacketOK(m),
           NEW out \in Outcome, DeviceAnswers(d, p, m, out), NEW act,
           NEW r \in Answer(d, m, m.sock[1], out, act)
    PROVE  /\ PacketOK(r) /\ r.sock = m.sock /\ r.dst = m.sock[1]
           /\ r.cp.cmd = out.cmd /\ out.send
  <1>1. /\ r.sock = m.sock /\ r.dst = m.sock[1] /\ out.send
        /\ r.cp = Encode(d, out.pair, out.cmd, out.flags, out.to, out.from, act)
    BY DEF Answer
  <1>2. /\ m.sock[1] \in Controller /\ m.sock[1] \notin Device /\ d = Target[m.sock[1]]
        /\ d # Nil
    BY NodeAssumption DEF Datagram, Socket, PacketOK, DirectionOK
  <1>3. /\ r.cp.cmd = out.cmd /\ r.cp.flags = out.flags /\ r.cp.kind = PacketType(out.cmd)
        /\ r.cp.to = out.to /\ r.cp.from = out.from
        /\ r.cp.kind = "PUBLICKEY" => r.cp.publickey = d
        /\ r.cp.kind = "NONCE" => r.cp.nonce = p.mynonce
    BY <1>1 DEF Encode, DeviceAnswers
  <1>4. DirectionOK(r)
    BY <1>1, <1>2, <1>3 DEF DirectionOK, DeviceAnswers
  <1>5. ContentOK(r)
    BY <1>1, <1>2, <1>3 DEF ContentOK
  <1>6. AddressOK(r)
    BY <1>1, <1>2, <1>3 DEF AddressOK, Sender, DeviceAnswers
  <1> QED
    BY <1>1, <1>3, <1>4, <1>5, <1>6 DEF PacketOK

\* So is a controller's.
LEMMA ControllerAnswerOK ==
    ASSUME NEW c \in Controller, NEW p \in PairRecord, p.mynonce # ZeroNonce,
           NEW m \in Datagram, m.sock[1] = c,
           NEW out \in Outcome, ControllerAnswers(c, p, m, out), NEW act,
           NEW r \in Answer(c, m, Target[c], out, act)
    PROVE  /\ PacketOK(r) /\ r.sock = m.sock /\ r.dst = Target[c]
           /\ r.cp.cmd = out.cmd /\ out.send
  <1>1. /\ r.sock = m.sock /\ r.dst = Target[c] /\ out.send
        /\ r.cp = Encode(c, out.pair, out.cmd, out.flags, out.to, out.from, act)
    BY DEF Answer
  <1>2. Target[c] \in Device /\ Target[c] \notin Controller /\ c # Nil
    BY NodeAssumption, FabricAssumption
  <1>3. /\ r.cp.cmd = out.cmd /\ r.cp.flags = out.flags /\ r.cp.kind = PacketType(out.cmd)
        /\ r.cp.to = out.to /\ r.cp.from = out.from
        /\ r.cp.kind = "PUBLICKEY" => r.cp.publickey = c
        /\ r.cp.kind = "NONCE" => /\ r.cp.nonce = p.mynonce
                                  /\ r.cp.seal = out.pair.sharedkey
    BY <1>1 DEF Encode, ControllerAnswers
  <1>4. DirectionOK(r)
    BY <1>1, <1>2, <1>3 DEF DirectionOK, ControllerAnswers
  <1>5. ContentOK(r)
    <2>1. r.cp.kind = "NONCE" => out.cmd = "NONCE_SEND"
      BY <1>3 DEF PacketType
    <2> QED
      BY <1>1, <1>2, <1>3, <2>1 DEF ContentOK, ControllerAnswers
  <1>6. AddressOK(r)
    BY <1>1, <1>2, <1>3 DEF AddressOK, Sender, ControllerAnswers, ToDevice, AppCmd
  <1> QED
    BY <1>1, <1>3, <1>4, <1>5, <1>6 DEF PacketOK

-----------------------------------------------------------------------------
(* Pairings that are made or saved.                                        *)

\* The memory of a process that does not run.
LEMMA DeadOK ==
    /\ DevicePair(Dead) /\ Collected(Dead) /\ Dead.state = "UNCONFIGURED"
    /\ \A n \in Node : KeyOK(n, Dead)
  BY DEF Dead, PairInit, DevicePair, Collected, KeyOK, SharedSecret

\* The memory of one that has just started.
LEMMA ReadOK ==
    ASSUME NEW n \in Node, NEW run \in Nat, NEW f \in PairFile, f # NoFile => Complete(f)
    PROVE  LET p == PairRead(n, PairInit(<<n, run>>), f) IN
           /\ p \in PairRecord /\ KeyOK(n, p) /\ DevicePair(p) /\ Collected(p)
           /\ p.mynonce # ZeroNonce
           /\ p.state = "PAIRED" <=> f # NoFile
  <1> DEFINE p == PairRead(n, PairInit(<<n, run>>), f)
  <1>1. <<n, run>> \in Nonce /\ <<n, run>> # ZeroNonce
    BY NodeAssumption DEF Nonce, ZeroNonce, Node
  <1>2. p \in PairRecord
    BY <1>1, PairInitType, PairReadType
  <1>3. CASE f = NoFile
    <2>1. p = PairInit(<<n, run>>)
      BY <1>3 DEF PairRead
    <2> HIDE DEF p
    <2> QED
      BY <1>1, <1>2, <1>3, <2>1
      DEF p, PairInit, KeyOK, SharedSecret, DevicePair, Collected
  <1>4. CASE f # NoFile
    <2>1. /\ p.state = "PAIRED" /\ p.hasPublicKey = f.hasPublicKey
          /\ p.hasNonce = f.hasNonce /\ p.uuid = f.uuid /\ p.publickey = f.publickey
          /\ p.sharedkey = SharedSecret(n, f.publickey)
          /\ p.nonce = f.nonce /\ p.mynonce = f.mynonce
      BY <1>4 DEF PairRead
    <2> HIDE DEF p
    <2> QED
      BY <1>2, <1>4, <2>1 DEF p, Complete, KeyOK, DevicePair, Collected
  <1> QED
    BY <1>3, <1>4

\* A pairing that is PAIRED makes a complete pair file.
LEMMA WriteOK ==
    ASSUME NEW p \in PairRecord, Collected(p), p.state = "PAIRED", p.mynonce # ZeroNonce
    PROVE  Complete(PairWrite(p)) /\ PairWrite(p) # NoFile
           /\ PairWrite(p).publickey = p.publickey
  BY PairWriteType DEF PairWrite, Complete, Collected

-----------------------------------------------------------------------------
(* What a step of one process leaves alone.                                *)

\* A step of device d that does not replace a pair file.
LEMMA DeviceStepKeeps ==
    ASSUME IInv, TypeOK', NEW d \in Device,
           \A n \in Node \ {d} : /\ proc'[n] = proc[n] /\ pair'[n] = pair[n]
                                 /\ file'[n] = file[n] /\ starts'[n] = starts[n],
           file'[d] = file[d] \/ file[d] = NoFile
    PROVE  /\ \A n \in Node \ {d} : ProcessOK(n)'
           /\ \A e \in Device \ {d} : DeviceOK(e)'
           /\ \A c \in Controller : ControllerOK(c)'
           /\ \A m \in net : MessageOK(m)'
           /\ DurableBeforeAck'
  <1>1. \A c \in Controller : /\ c \in Node \ {d} /\ Target[c] \in Device
                              /\ Target[c] \in Node
    BY NodeAssumption, FabricAssumption DEF Node
  <1>2. \A n \in Node \ {d} : ProcessOK(n)'
    BY DEF IInv, ProcessOK
  <1>3. \A e \in Device \ {d} : DeviceOK(e)'
    BY DEF IInv, DeviceOK, Node
  <1>4. \A c \in Controller : ControllerOK(c)'
    BY <1>1 DEF IInv, ControllerOK
  <1>5. \A c \in Controller : Committed(Target[c], c) => Committed(Target[c], c)'
    BY <1>1 DEF Committed
  <1>6. ASSUME NEW m \in net PROVE MessageOK(m)'
    <2>1. MessageOK(m) /\ m.sock[1] \in Controller /\ m.sock[2] \in Nat
      BY DEF IInv, TypeOK, Datagram, Socket
    <2>2. /\ starts'[m.sock[1]] \in Nat /\ starts[m.sock[1]] \in Nat
          /\ starts'[m.sock[1]] = starts[m.sock[1]]
          /\ proc'[m.sock[1]] = proc[m.sock[1]]
          /\ pair'[m.sock[1]] = pair[m.sock[1]]
      BY <1>1, <2>1 DEF IInv, TypeOK
    <2>3. Current(m)' => Current(m)
      BY <2>2 DEF Current, SocketOf
    <2> QED
      BY <1>5, <2>1, <2>2, <2>3, MessageStays
  <1>7. DurableBeforeAck'
    BY <1>1, <1>5 DEF IInv, DurableBeforeAck, HoldsPairing
  <1> QED
    BY <1>2, <1>3, <1>4, <1>6, <1>7

\* A step of controller c that opens a new socket, closes the old one, or
\* goes on waiting with all it has collected, and that does not bind c unless
\* its device has committed to it.
LEMMA ControllerStepKeeps ==
    ASSUME IInv, TypeOK', NEW c \in Controller,
           \A n \in Node \ {c} : /\ proc'[n] = proc[n] /\ pair'[n] = pair[n]
                                 /\ file'[n] = file[n] /\ starts'[n] = starts[n],
           \/ starts'[c] = starts[c] + 1
           \/ starts'[c] = starts[c] /\ proc'[c] # "pairing"
           \/ /\ starts'[c] = starts[c] /\ proc'[c] = proc[c]
              /\ HasKey(pair[c]) => HasKey(pair'[c])
              /\ HasNonce(pair[c]) => HasNonce(pair'[c]),
           Target[c] \in Persistent /\ HoldsPairing(c)'
               => HoldsPairing(c) \/ Committed(Target[c], c)
    PROVE  /\ \A n \in Node \ {c} : ProcessOK(n)'
           /\ \A d \in Device : DeviceOK(d)'
           /\ \A b \in Controller \ {c} : ControllerOK(b)'
           /\ \A m \in net : MessageOK(m)'
           /\ DurableBeforeAck'
  <1>1. /\ \A d \in Device : d \in Node \ {c}
        /\ \A b \in Controller : b \in Node /\ Target[b] \in Device
    BY NodeAssumption, FabricAssumption DEF Node
  <1>2. \A n \in Node \ {c} : ProcessOK(n)'
    BY DEF IInv, ProcessOK
  <1>3. \A d \in Device : DeviceOK(d)'
    BY <1>1 DEF IInv, DeviceOK
  <1>4. \A b \in Controller \ {c} : ControllerOK(b)'
    BY <1>1 DEF IInv, ControllerOK
  <1>5. \A b \in Controller : Committed(Target[b], b) <=> Committed(Target[b], b)'
    BY <1>1 DEF Committed
  <1>6. ASSUME NEW m \in net PROVE MessageOK(m)'
    <2> DEFINE b == m.sock[1]
    <2>1. MessageOK(m) /\ b \in Controller /\ m.sock[2] \in Nat /\ m.sock[2] <= starts[b]
      BY DEF IInv, TypeOK, Datagram, Socket, MessageOK, RunOK
    <2>2. starts'[b] \in Nat /\ starts[b] \in Nat /\ starts[b] <= starts'[b]
      BY <1>1, <2>1 DEF IInv, TypeOK
    <2>3. Current(m)' => /\ Current(m)
                         /\ HasKey(pair[b]) => HasKey(pair'[b])
                         /\ HasNonce(pair[b]) => HasNonce(pair'[b])
      <3>1. CASE b # c
        <4>1. proc'[b] = proc[b] /\ pair'[b] = pair[b] /\ starts'[b] = starts[b]
          BY <1>1, <2>1, <3>1
        <4> QED
          BY <4>1 DEF Current, SocketOf
      <3>2. CASE b = c
        <4>1. Current(m)' => proc'[c] = "pairing" /\ m.sock[2] = starts'[c]
          BY <3>2 DEF Current, SocketOf
        <4>2. starts'[c] # starts[c] + 1 \/ ~Current(m)'
          BY <2>1, <2>2, <3>2, <4>1
        <4>3. ASSUME starts'[c] = starts[c], proc'[c] = proc[c]
              PROVE  Current(m)' => Current(m)
          BY <3>2, <4>3 DEF Current, SocketOf
        <4>4. CASE starts'[c] = starts[c] /\ proc'[c] # "pairing"
          BY <4>1, <4>4
        <4>5. CASE /\ starts'[c] = starts[c] /\ proc'[c] = proc[c]
                   /\ HasKey(pair[c]) => HasKey(pair'[c])
                   /\ HasNonce(pair[c]) => HasNonce(pair'[c])
          BY <3>2, <4>3, <4>5
        <4> QED
          BY <4>2, <4>4, <4>5
      <3> QED
        BY <3>1, <3>2
    <2>4. Committed(Target[b], b) => Committed(Target[b], b)'
      BY <1>5, <2>1
    <2> QED
      BY <2>1, <2>2, <2>3, <2>4, MessageStays
  <1>7. DurableBeforeAck'
    <2> SUFFICES ASSUME NEW b \in Controller, Target[b] \in Persistent, HoldsPairing(b)'
                 PROVE  Committed(Target[b], b)'
      BY DEF DurableBeforeAck
    <2>1. HoldsPairing(b) \/ Committed(Target[b], b)
      BY <1>1 DEF HoldsPairing
    <2> QED
      BY <1>5, <2>1 DEF IInv, DurableBeforeAck
  <1> QED
    BY <1>2, <1>3, <1>4, <1>6, <1>7

-----------------------------------------------------------------------------
(* IInv is kept by every step.                                             *)

LEMMA InitInv == Init => IInv
  <1> SUFFICES ASSUME Init PROVE IInv
    OBVIOUS
  <1>1. /\ \A d \in Device : d \in Node /\ d # Nil
        /\ \A c \in Controller : c \in Node /\ c \notin Device /\ c # Nil
    BY NodeAssumption DEF Node
  <1>2. \A d \in Device : /\ pair[d] = PairInit(<<d, 1>>) /\ proc[d] = "on"
                          /\ file[d] = NoFile
    BY <1>1 DEF Init
  <1>3. \A c \in Controller : pair[c] = Dead /\ proc[c] = "off" /\ file[c] = NoFile
    BY <1>1 DEF Init
  <1>4. \A d \in Device : /\ KeyOK(d, pair[d]) /\ DevicePair(pair[d])
                          /\ pair[d].mynonce # ZeroNonce /\ pair[d].state # "PAIRED"
    <2> SUFFICES ASSUME NEW d \in Device
                 PROVE  LET p == PairInit(<<d, 1>>) IN
                        /\ KeyOK(d, p) /\ DevicePair(p) /\ p.mynonce # ZeroNonce
                        /\ p.state # "PAIRED"
      BY <1>2
    <2> QED
      BY <1>1 DEF PairInit, KeyOK, SharedSecret, DevicePair, Collected, ZeroNonce
  <1>5. \A n \in Node : ProcessOK(n)
    BY <1>2, <1>3, <1>4, DeadOK DEF ProcessOK, Node
  <1>6. \A d \in Device : DeviceOK(d)
    BY <1>2, <1>4 DEF DeviceOK
  <1>7. \A c \in Controller : ControllerOK(c)
    BY <1>3, DeadOK DEF ControllerOK, Call
  <1>8. DurableBeforeAck
    BY <1>3, DeadOK DEF DurableBeforeAck, HoldsPairing
  <1> QED
    BY <1>5, <1>6, <1>7, <1>8, InitType DEF IInv, Init

\* The outcome of a datagram at a device.
LEMMA DeviceTurn ==
    ASSUME IInv, NEW d \in Device, NEW m \in net, m.dst = d,
           NEW cp \in Decode(pair[d], m.cp), NEW out \in StateMachine(d, pair[d], cp)
    PROVE  out \in Outcome /\ DeviceAnswers(d, pair[d], m, out)
  <1>1. /\ TypeOK /\ d \in Node /\ pair[d] \in PairRecord /\ m \in Datagram
        /\ m.cp \in Packet
    BY DEF IInv, TypeOK, Datagram, Node
  <1>2. DevicePair(pair[d]) /\ KeyOK(d, pair[d]) /\ PacketOK(m)
    BY <1>1 DEF IInv, ProcessOK, DeviceOK, MessageOK
  <1>3. cp \in Packet
    BY <1>1, DecodeType
  <1> QED
    BY <1>1, <1>2, <1>3, StateMachineType, DeviceOutcome

\* A device that has just become PAIRED had no pair file, and saves the key of
\* the controller it has been talking to.
LEMMA DeviceSaves ==
    ASSUME IInv, NEW d \in Device, NEW m \in net, m.dst = d, proc[d] = "on",
           NEW cp \in Decode(pair[d], m.cp), NEW out \in StateMachine(d, pair[d], cp),
           d \in Persistent, JustPaired(pair[d], out.pair)
    PROVE  /\ file[d] = NoFile /\ Complete(PairWrite(out.pair))
           /\ PairWrite(out.pair) # NoFile /\ PairWrite(out.pair).publickey = m.sock[1]
           /\ out.pair.state = "PAIRED"
           /\ m.sock[1] \in Controller /\ Target[m.sock[1]] = d
  <1>1. /\ TypeOK /\ d \in Node /\ pair[d] \in PairRecord /\ m \in Datagram
        /\ m.cp \in Packet
    BY DEF IInv, TypeOK, Datagram, Node
  <1>2. /\ DevicePair(pair[d]) /\ KeyOK(d, pair[d]) /\ pair[d].mynonce # ZeroNonce
        /\ pair[d].state = "PAIRED" <=> file[d] # NoFile
        /\ PacketOK(m)
    BY <1>1 DEF IInv, ProcessOK, DeviceOK, MessageOK
  <1>3. out \in Outcome /\ DeviceAnswers(d, pair[d], m, out)
    BY DeviceTurn
  <1>4. /\ out.pair \in PairRecord /\ Collected(out.pair) /\ out.pair.mynonce # ZeroNonce
        /\ out.pair.state = "PAIRED" /\ out.pair.publickey = m.sock[1]
    BY <1>2, <1>3 DEF Outcome, DeviceAnswers, DevicePair, JustPaired
  <1>5. file[d] = NoFile
    BY <1>2 DEF JustPaired
  <1>6. m.sock[1] \in Controller /\ Target[m.sock[1]] = d
    BY <1>1, <1>2, NodeAssumption DEF Datagram, Socket, PacketOK, DirectionOK
  <1> QED
    BY <1>4, <1>5, <1>6, WriteOK

LEMMA DeviceReceiveInv ==
    ASSUME IInv, NEW d \in Device, NEW m \in net, DeviceReceive(d, m)
    PROVE  IInv'
  <1> DEFINE c == m.sock[1]
  <1>1. /\ TypeOK /\ d \in Node /\ pair[d] \in PairRecord /\ m \in Datagram
        /\ m.dst = d /\ proc[d] = "on" /\ m.cp \in Packet
    BY DEF IInv, TypeOK, DeviceReceive, Datagram, Node
  <1>2. /\ DevicePair(pair[d]) /\ KeyOK(d, pair[d]) /\ pair[d].mynonce # ZeroNonce
        /\ file[d] # NoFile => Complete(file[d]) /\ d \in Persistent
        /\ d \in Persistent => (pair[d].state = "PAIRED" <=> file[d] # NoFile)
        /\ MessageOK(m) /\ PacketOK(m)
    BY <1>1 DEF IInv, ProcessOK, DeviceOK, MessageOK
  <1>3. PICK cp \in Decode(pair[d], m.cp) : \E out \in StateMachine(d, pair[d], cp) :
            DeviceProcess(d, m, cp, out)
    BY DEF DeviceReceive
  <1>4. PICK out \in StateMachine(d, pair[d], cp) : DeviceProcess(d, m, cp, out)
    BY <1>3
  <1>5. out \in Outcome /\ DeviceAnswers(d, pair[d], m, out)
    BY <1>1, DeviceTurn
  <1> DEFINE q      == AfterAnswer(out)
             writes == d \in Persistent /\ JustPaired(pair[d], out.pair)
  <1>6. /\ q \in PairRecord /\ DevicePair(q) /\ KeyOK(d, q) /\ q.mynonce = pair[d].mynonce
        /\ q.state = out.pair.state
    <2>1. out.pair \in PairRecord
      BY <1>5 DEF Outcome
    <2>2. /\ q \in PairRecord /\ q.state = out.pair.state /\ q.uuid = out.pair.uuid
          /\ q.mynonce = out.pair.mynonce
          /\ KeyKept(out.pair, q) /\ NonceKept(out.pair, q)
      BY <2>1, <1>5, AfterAnswerKeeps DEF Unmoved, PairRecord
    <2> HIDE DEF q
    <2> QED
      BY <1>5, <2>2
      DEF DeviceAnswers, DevicePair, Collected, KeyOK, KeyKept, NonceKept
  <1>7. writes => /\ file[d] = NoFile /\ Complete(PairWrite(out.pair))
                  /\ PairWrite(out.pair) # NoFile /\ PairWrite(out.pair).publickey = c
                  /\ out.pair.state = "PAIRED"
    BY <1>1, DeviceSaves
  <1>8. TypeOK'
    BY <1>1, DeviceReceiveType
  <1> HIDE DEF q
  <1>9. ASSUME NEW act,
               pair' = [pair EXCEPT ![d] = q],
               file' = IF writes THEN [file EXCEPT ![d] = PairWrite(out.pair)] ELSE file,
               net' = Consume(m) \cup Send(Answer(d, m, c, out, act)),
               UNCHANGED <<proc, starts>>
        PROVE  IInv'
    <2>1. /\ pair'[d] = q /\ proc'[d] = "on" /\ starts' = starts
          /\ file'[d] = IF writes THEN PairWrite(out.pair) ELSE file[d]
          /\ \A n \in Node \ {d} : /\ proc'[n] = proc[n] /\ pair'[n] = pair[n]
                                   /\ file'[n] = file[n] /\ starts'[n] = starts[n]
      BY <1>1, <1>9 DEF TypeOK
    <2>2. file'[d] = file[d] \/ file[d] = NoFile
      BY <1>7, <2>1
    <2>3. /\ \A n \in Node \ {d} : ProcessOK(n)'
          /\ \A e \in Device \ {d} : DeviceOK(e)'
          /\ \A b \in Controller : ControllerOK(b)'
          /\ \A r \in net : MessageOK(r)'
          /\ DurableBeforeAck'
      BY <1>8, <2>1, <2>2, DeviceStepKeeps
    <2>4. ProcessOK(d)'
      BY <1>2, <1>6, <1>7, <2>1 DEF ProcessOK
    <2>5. DeviceOK(d)'
      BY <1>2, <1>5, <1>6, <1>7, <2>1 DEF DeviceOK, DeviceAnswers, JustPaired
    <2>6. ASSUME NEW r \in Answer(d, m, c, out, act) PROVE MessageOK(r)'
      <3>1. /\ PacketOK(r) /\ r.sock = m.sock /\ r.dst = c
            /\ r.cp.cmd = out.cmd /\ out.send
        BY <1>1, <1>2, <1>5, DeviceAnswerOK
      <3>2. /\ c \in Controller /\ c \notin Device /\ c \in Node \ {d}
            /\ d = Target[c]
        BY <1>1, <1>2, NodeAssumption DEF Datagram, Socket, PacketOK, DirectionOK, Node
      <3>3. PacketOK(r)'
        BY <3>1 DEF PacketOK, DirectionOK, ContentOK, AddressOK, Sender
      <3>4. RunOK(r)'
        BY <1>2, <2>1, <3>1 DEF MessageOK, RunOK
      <3>5. Current(r)' => Current(m) /\ pair'[c] = pair[c]
        BY <2>1, <3>1, <3>2 DEF Current, SocketOf
      <3>6. /\ out.cmd = "NONCE_ACK" => m.cp.cmd = "NONCE_SEND" /\ JustPaired(pair[d], out.pair)
            /\ out.cmd = "PUBLICKEY_ACK" => m.cp.cmd = "PUBLICKEY_SEND"
        BY <1>5, <3>1 DEF DeviceAnswers
      <3>7. KeyFirst(r)' /\ NonceFirst(r)'
        BY <1>1, <1>2, <3>1, <3>2, <3>5, <3>6 DEF MessageOK, KeyFirst, NonceFirst
      <3>8. AckCommitted(r)'
        BY <1>7, <2>1, <3>1, <3>2, <3>6 DEF AckCommitted, Committed
      <3> QED
        BY <3>3, <3>4, <3>7, <3>8 DEF MessageOK
    <2>7. \A r \in net' : MessageOK(r)'
      BY <1>9, <2>3, <2>6 DEF Consume, Send
    <2> QED
      BY <1>8, <2>3, <2>4, <2>5, <2>7 DEF IInv
  <1>10. ASSUME writes,
                proc' = [proc EXCEPT ![d] = "off"],
                pair' = [pair EXCEPT ![d] = Dead],
                \E f \in {NoFile, PairWrite(out.pair)} : file' = [file EXCEPT ![d] = f],
                net' = Consume(m),
                UNCHANGED starts
         PROVE  IInv'
    <2>1. /\ pair'[d] = Dead /\ proc'[d] = "off" /\ starts' = starts
          /\ file'[d] \in {NoFile, PairWrite(out.pair)}
          /\ \A n \in Node \ {d} : /\ proc'[n] = proc[n] /\ pair'[n] = pair[n]
                                   /\ file'[n] = file[n] /\ starts'[n] = starts[n]
      BY <1>1, <1>10 DEF TypeOK
    <2>3. /\ \A n \in Node \ {d} : ProcessOK(n)'
          /\ \A e \in Device \ {d} : DeviceOK(e)'
          /\ \A b \in Controller : ControllerOK(b)'
          /\ \A r \in net : MessageOK(r)'
          /\ DurableBeforeAck'
      BY <1>7, <1>8, <1>10, <2>1, DeviceStepKeeps
    <2>4. ProcessOK(d)'
      BY <1>1, <1>7, <1>10, <2>1, DeadOK DEF ProcessOK
    <2>5. DeviceOK(d)'
      BY <1>10, <2>1, DeadOK DEF DeviceOK
    <2>6. \A r \in net' : MessageOK(r)'
      BY <1>10, <2>3 DEF Consume
    <2> QED
      BY <1>8, <2>3, <2>4, <2>5, <2>6 DEF IInv
  <1> QED
    BY <1>4, <1>9, <1>10 DEF DeviceProcess, q

LEMMA DeviceStartInv ==
    ASSUME IInv, NEW d \in Device, DeviceStart(d)
    PROVE  IInv'
  <1> DEFINE p == PairRead(d, PairInit(<<d, starts[d] + 1>>), file[d])
  <1>1. /\ TypeOK /\ d \in Node /\ starts[d] \in Nat /\ starts[d] + 1 \in Nat
        /\ file[d] \in PairFile
    BY DEF IInv, TypeOK, Node
  <1>2. TypeOK'
    BY <1>1, DeviceStartType
  <1>3. file[d] # NoFile => Complete(file[d]) /\ d \in Persistent
    BY <1>1 DEF IInv, ProcessOK, DeviceOK
  <1>4. /\ KeyOK(d, p) /\ DevicePair(p) /\ p.mynonce # ZeroNonce
        /\ p.state = "PAIRED" <=> file[d] # NoFile
    BY <1>1, <1>3, ReadOK
  <1> HIDE DEF p
  <1>5. /\ proc'[d] = "on" /\ pair'[d] = p /\ file' = file /\ net' = net
        /\ starts'[d] = starts[d] + 1
        /\ \A n \in Node \ {d} : /\ proc'[n] = proc[n] /\ pair'[n] = pair[n]
                                 /\ file'[n] = file[n] /\ starts'[n] = starts[n]
    BY <1>1 DEF DeviceStart, TypeOK, p
  <1>6. /\ \A n \in Node \ {d} : ProcessOK(n)'
        /\ \A e \in Device \ {d} : DeviceOK(e)'
        /\ \A b \in Controller : ControllerOK(b)'
        /\ \A r \in net : MessageOK(r)'
        /\ DurableBeforeAck'
    BY <1>2, <1>5, DeviceStepKeeps
  <1>7. ProcessOK(d)'
    BY <1>3, <1>4, <1>5 DEF ProcessOK
  <1>8. DeviceOK(d)'
    BY <1>3, <1>4, <1>5 DEF DeviceOK
  <1> QED
    BY <1>2, <1>5, <1>6, <1>7, <1>8 DEF IInv

\* A request is as it should be; only the pairing call's goes without a pairing.
LEMMA RequestOK ==
    ASSUME NEW c \in Controller, NEW p, NEW run, NEW call \in Call, NEW act
    PROVE  LET r == Request(c, p, run, call, act) IN
           /\ PacketOK(r) /\ r.sock = <<c, run, call>>
           /\ r.cp.cmd \in {"PAIR_REQUEST", "APP_LIST", "APP_MESSAGE"}
  <1> DEFINE r == Request(c, p, run, call, act)
  <1>1. Target[c] \in Device /\ Target[c] \notin Controller
    BY NodeAssumption, FabricAssumption
  <1>2. /\ r.sock = <<c, run, call>> /\ r.dst = Target[c]
        /\ r.cp.cmd = RequestCmd(call) /\ r.cp.kind = PacketType(RequestCmd(call))
        /\ r.cp.from = c
    BY DEF Request, Encode
  <1> HIDE DEF r
  <1>3. /\ r.sock[1] = c /\ r.sock[3] = call
        /\ r.cp.cmd \in {"PAIR_REQUEST", "APP_LIST", "APP_MESSAGE"}
        /\ call = "pairing" => r.cp.cmd = "PAIR_REQUEST"
    BY <1>2 DEF RequestCmd, Call
  <1>4. DirectionOK(r)
    BY <1>1, <1>2, <1>3 DEF DirectionOK, ToDevice
  <1>5. ContentOK(r)
    BY <1>2, <1>3 DEF ContentOK, PacketType, AppCmd
  <1>6. AddressOK(r)
    BY <1>1, <1>2, <1>3 DEF AddressOK, Sender, AppCmd
  <1> QED
    BY <1>2, <1>3, <1>4, <1>5, <1>6 DEF PacketOK, r

LEMMA ControllerStartInv ==
    ASSUME IInv, NEW c \in Controller, NEW act \in Command, ControllerStart(c, act)
    PROVE  IInv'
  <1> DEFINE run  == starts[c] + 1
             p    == PairRead(c, PairInit(<<c, run>>), file[c])
             call == IF file[c] = NoFile THEN "pairing" ELSE "listing"
             q    == AfterEncode(p, RequestCmd(call))
  <1>1. /\ TypeOK /\ c \in Node /\ c \notin Device /\ starts[c] \in Nat /\ run \in Nat
        /\ file[c] \in PairFile
    BY NodeAssumption DEF IInv, TypeOK, Node
  <1>2. TypeOK'
    BY <1>1, ControllerStartType
  <1>3. file[c] # NoFile => Complete(file[c])
    BY <1>1 DEF IInv, ProcessOK
  <1>4. /\ p \in PairRecord /\ KeyOK(c, p) /\ Collected(p) /\ p.mynonce # ZeroNonce
        /\ p.state = "PAIRED" <=> file[c] # NoFile
    BY <1>1, <1>3, ReadOK
  <1> HIDE DEF p
  <1>5. /\ KeyOK(c, q) /\ Collected(q) /\ q.mynonce # ZeroNonce
        /\ q.state = "PAIRED" <=> file[c] # NoFile
    BY <1>4 DEF AfterEncode, PairRecord, KeyOK, Collected
  <1>6. call \in Call /\ (call = "pairing" <=> file[c] = NoFile)
    BY DEF Call
  <1>r. PICK r : r = Request(c, p, run, call, NoAction)
    OBVIOUS
  <1>7. /\ PacketOK(r) /\ r.sock = <<c, run, call>>
        /\ r.cp.cmd \in {"PAIR_REQUEST", "APP_LIST", "APP_MESSAGE"}
    BY <1>6, <1>r, RequestOK
  <1> HIDE DEF run, call, q
  <1>8. /\ proc'[c] = call /\ pair'[c] = q /\ file' = file /\ net' \subseteq net \cup {r}
        /\ starts'[c] = starts[c] + 1 /\ starts'[c] = run
        /\ \A n \in Node \ {c} : /\ proc'[n] = proc[n] /\ pair'[n] = pair[n]
                                 /\ file'[n] = file[n] /\ starts'[n] = starts[n]
    BY <1>1, <1>r DEF ControllerStart, Send, TypeOK, p, run, call, q
  <1>9. HoldsPairing(c)' => HoldsPairing(c)
    BY <1>5, <1>8 DEF HoldsPairing
  <1>10. /\ \A n \in Node \ {c} : ProcessOK(n)'
         /\ \A d \in Device : DeviceOK(d)'
         /\ \A b \in Controller \ {c} : ControllerOK(b)'
         /\ \A m \in net : MessageOK(m)'
         /\ DurableBeforeAck'
    BY <1>2, <1>8, <1>9, ControllerStepKeeps
  <1>11. ProcessOK(c)'
    BY <1>3, <1>5, <1>6, <1>8 DEF ProcessOK, Call
  <1>12. ControllerOK(c)'
    BY <1>5, <1>6, <1>8 DEF ControllerOK
  <1>13. MessageOK(r)'
    <2>1. PacketOK(r)'
      BY <1>7 DEF PacketOK, DirectionOK, ContentOK, AddressOK, Sender
    <2>2. RunOK(r)'
      BY <1>1, <1>7, <1>8 DEF RunOK
    <2>3. KeyFirst(r)' /\ NonceFirst(r)' /\ AckCommitted(r)'
      BY <1>7 DEF KeyFirst, NonceFirst, AckCommitted
    <2> QED
      BY <2>1, <2>2, <2>3 DEF MessageOK
  <1> QED
    BY <1>2, <1>8, <1>10, <1>11, <1>12, <1>13 DEF IInv

\* The outcome of a datagram on a controller's open socket.
LEMMA ControllerTurn ==
    ASSUME IInv, NEW c \in Controller, NEW m \in net,
           proc[c] # "off", m.dst = c, m.sock = SocketOf(c),
           NEW cp \in Decode(pair[c], m.cp), NEW out \in StateMachine(c, pair[c], cp)
    PROVE  out \in Outcome /\ ControllerAnswers(c, pair[c], m, out)
  <1>1. /\ TypeOK /\ c \in Node /\ c \notin Device /\ pair[c] \in PairRecord
        /\ m \in Datagram /\ m.cp \in Packet
        /\ proc[c] \in Call /\ m.sock[1] = c /\ m.sock[3] = proc[c]
    BY NodeAssumption DEF IInv, TypeOK, SocketOf, Datagram, Node
  <1>2. /\ Collected(pair[c]) /\ KeyOK(c, pair[c])
        /\ proc[c] = "pairing" <=> pair[c].state # "PAIRED"
        /\ MessageOK(m) /\ PacketOK(m)
    BY <1>1 DEF IInv, ProcessOK, ControllerOK, MessageOK
  <1>3. cp \in Packet
    BY <1>1, DecodeType
  <1>4. proc[c] = "pairing" => Current(m)
    BY <1>1 DEF Current
  <1>5. pair[c].state = "PAIRED" => HasKey(pair[c]) /\ HasNonce(pair[c])
    BY <1>2 DEF Collected, HasKey, HasNonce
  <1>6. /\ m.cp.cmd = "PUBLICKEY_ACK" => HasKey(pair[c])
        /\ m.cp.cmd = "NONCE_ACK" => HasNonce(pair[c])
    BY <1>1, <1>2, <1>4, <1>5 DEF MessageOK, KeyFirst, NonceFirst, HasKey, HasNonce
  <1> QED
    BY <1>1, <1>2, <1>3, <1>6, StateMachineType, ControllerOutcome

LEMMA ControllerReceiveInv ==
    ASSUME IInv, NEW c \in Controller, NEW m \in net, ControllerReceive(c, m)
    PROVE  IInv'
  <1>1. /\ TypeOK /\ c \in Node /\ c \notin Device /\ pair[c] \in PairRecord
        /\ m \in Datagram /\ m.cp \in Packet /\ starts[c] \in Nat
        /\ proc[c] \in Call /\ m.dst = c /\ m.sock = <<c, starts[c], proc[c]>>
        /\ m.sock[1] = c /\ m.sock[2] = starts[c] /\ m.sock[3] = proc[c]
        /\ proc[c] # "off" /\ m.sock = SocketOf(c)
        /\ Target[c] \in Device
    BY NodeAssumption, FabricAssumption
    DEF IInv, TypeOK, ControllerReceive, SocketOf, Datagram, Node
  <1>2. /\ Collected(pair[c]) /\ KeyOK(c, pair[c]) /\ pair[c].mynonce # ZeroNonce
        /\ proc[c] = "pairing" <=> pair[c].state # "PAIRED"
        /\ file[c] # NoFile => Complete(file[c])
        /\ MessageOK(m) /\ PacketOK(m)
    BY <1>1 DEF IInv, ProcessOK, ControllerOK, MessageOK, Call
  <1>3. PICK cp \in Decode(pair[c], m.cp) : \E out \in StateMachine(c, pair[c], cp) :
            ControllerProcess(c, m, cp, out)
    BY DEF ControllerReceive
  <1>4. PICK out \in StateMachine(c, pair[c], cp) : ControllerProcess(c, m, cp, out)
    BY <1>3
  <1>5. out \in Outcome /\ ControllerAnswers(c, pair[c], m, out)
    BY <1>1, ControllerTurn
  <1> DEFINE p    == AfterAnswer(out)
             ans  == Answer(c, m, Target[c], out, NoAction)
             last == Request(c, p, starts[c], "acting", wanted[c])
             p2   == AfterEncode(p, "APP_MESSAGE")
  <1>6. /\ p \in PairRecord /\ Collected(p) /\ KeyOK(c, p) /\ p.mynonce = pair[c].mynonce
        /\ p.state = out.pair.state
        /\ HasKey(pair[c]) => HasKey(p)
        /\ HasNonce(pair[c]) => HasNonce(p)
    <2>1. out.pair \in PairRecord
      BY <1>5 DEF Outcome
    <2>2. /\ p \in PairRecord /\ p.state = out.pair.state /\ p.uuid = out.pair.uuid
          /\ p.mynonce = out.pair.mynonce
          /\ KeyKept(out.pair, p) /\ NonceKept(out.pair, p)
      BY <2>1, <1>5, AfterAnswerKeeps DEF Unmoved, PairRecord
    <2> HIDE DEF p
    <2> QED
      BY <1>5, <2>2
      DEF ControllerAnswers, Collected, KeyOK, KeyKept, NonceKept, HasKey, HasNonce
  <1>7. TypeOK'
    BY <1>1, ControllerReceiveType
  <1> HIDE DEF p, ans
  <1>8. Target[c] \in Persistent /\ p.state = "PAIRED"
            => HoldsPairing(c) \/ Committed(Target[c], c)
    <2>1. CASE pair[c].state = "PAIRED"
      BY <2>1 DEF HoldsPairing
    <2>2. CASE pair[c].state # "PAIRED" /\ p.state = "PAIRED"
      <3>1. m.cp.cmd = "NONCE_ACK"
        BY <1>5, <1>6, <2>2 DEF ControllerAnswers, JustPaired
      <3> QED
        BY <1>1, <1>2, <3>1 DEF MessageOK, AckCommitted
    <2> QED
      BY <2>1, <2>2
  <1>9. pair[c].state = "PAIRED" => p.state = "PAIRED"
    BY <1>5, <1>6 DEF ControllerAnswers
  <1>10. ASSUME NEW r \in ans, proc'[c] = "pairing" => pair'[c] = p, starts' = starts
         PROVE  MessageOK(r)'
    <2>1. /\ PacketOK(r) /\ r.sock = m.sock /\ r.dst = Target[c]
          /\ r.cp.cmd = out.cmd /\ out.send
      BY <1>1, <1>2, <1>5, <1>10, ControllerAnswerOK DEF ans
    <2>2. /\ out.cmd \in ToDevice
          /\ out.cmd = "PUBLICKEY_SEND" => HasKey(p)
          /\ out.cmd = "NONCE_SEND" => HasNonce(p)
      <3>1. out.pair \in PairRecord
        BY <1>5 DEF Outcome
      <3>2. KeyKept(out.pair, p) /\ NonceKept(out.pair, p)
        BY <1>5, AfterAnswerKeeps DEF p
      <3> QED
        BY <1>5, <2>1, <3>2 DEF ControllerAnswers, HasKey, HasNonce, KeyKept, NonceKept
    <2>3. PacketOK(r)'
      BY <2>1 DEF PacketOK, DirectionOK, ContentOK, AddressOK, Sender
    <2>4. RunOK(r)'
      BY <1>2, <1>10, <2>1 DEF MessageOK, RunOK
    <2>5. Current(r)' => pair'[c] = p
      BY <1>1, <1>10, <2>1 DEF Current, SocketOf
    <2>6. KeyFirst(r)' /\ NonceFirst(r)' /\ AckCommitted(r)'
      BY <1>1, <2>1, <2>2, <2>5
      DEF KeyFirst, NonceFirst, AckCommitted, ToDevice, HasKey, HasNonce
    <2> QED
      BY <2>3, <2>4, <2>6 DEF MessageOK
  <1>11. UNCHANGED starts
    BY <1>4 DEF ControllerProcess
  <1>12. ASSUME proc[c] = "pairing", p.state # "PAIRED",
                pair' = [pair EXCEPT ![c] = p],
                net' = Consume(m) \cup Send(ans),
                UNCHANGED <<proc, file>>
         PROVE  IInv'
    <2>1. /\ pair'[c] = p /\ proc' = proc /\ file' = file /\ starts' = starts
          /\ \A n \in Node \ {c} : /\ proc'[n] = proc[n] /\ pair'[n] = pair[n]
                                   /\ file'[n] = file[n] /\ starts'[n] = starts[n]
      BY <1>1, <1>11, <1>12 DEF TypeOK
    <2>2. HoldsPairing(c)' => HoldsPairing(c)
      BY <1>12, <2>1 DEF HoldsPairing
    <2>3. /\ \A n \in Node \ {c} : ProcessOK(n)'
          /\ \A d \in Device : DeviceOK(d)'
          /\ \A b \in Controller \ {c} : ControllerOK(b)'
          /\ \A r \in net : MessageOK(r)'
          /\ DurableBeforeAck'
      BY <1>6, <1>7, <2>1, <2>2, ControllerStepKeeps
    <2>4. ProcessOK(c)' /\ ControllerOK(c)'
      BY <1>1, <1>2, <1>6, <1>12, <2>1 DEF ProcessOK, ControllerOK, Call
    <2>5. \A r \in net' : MessageOK(r)'
      BY <1>10, <1>12, <2>1, <2>3 DEF Consume, Send
    <2> QED
      BY <1>7, <2>3, <2>4, <2>5 DEF IInv
  <1>13. ASSUME p.state = "PAIRED", Exit(c, p),
                net' = Close(Consume(m) \cup Send(ans), c)
         PROVE  IInv'
    <2>1. /\ pair'[c] = Dead /\ proc'[c] = "off" /\ starts' = starts
          /\ file'[c] \in {NoFile, PairWrite(p)}
          /\ \A n \in Node \ {c} : /\ proc'[n] = proc[n] /\ pair'[n] = pair[n]
                                   /\ file'[n] = file[n] /\ starts'[n] = starts[n]
      BY <1>1, <1>11, <1>13 DEF TypeOK, Exit
    <2>2. Complete(PairWrite(p))
      BY <1>2, <1>6, <1>13, WriteOK
    <2>3. /\ \A n \in Node \ {c} : ProcessOK(n)'
          /\ \A d \in Device : DeviceOK(d)'
          /\ \A b \in Controller \ {c} : ControllerOK(b)'
          /\ \A r \in net : MessageOK(r)'
          /\ DurableBeforeAck'
      <3>1. starts'[c] = starts[c] /\ proc'[c] # "pairing"
        BY <2>1
      <3>2. Target[c] \in Persistent /\ HoldsPairing(c)'
                => HoldsPairing(c) \/ Committed(Target[c], c)
        BY <1>8, <1>13
      <3> QED
        BY <1>7, <2>1, <3>1, <3>2, ControllerStepKeeps
    <2>4. ProcessOK(c)' /\ ControllerOK(c)'
      BY <1>1, <2>1, <2>2, DeadOK DEF ProcessOK, ControllerOK, Call
    <2>5. \A r \in net' : MessageOK(r)'
      BY <1>10, <1>13, <2>1, <2>3 DEF Close, Consume, Send
    <2> QED
      BY <1>7, <2>3, <2>4, <2>5 DEF IInv
  <1>14. ASSUME p.state = "PAIRED", pair[c].state = "PAIRED",
                proc' = [proc EXCEPT ![c] = "acting"],
                pair' = [pair EXCEPT ![c] = p2],
                net' = Close(Consume(m) \cup Send(ans), c) \cup Send({last}),
                UNCHANGED file
         PROVE  IInv'
    <2>1. /\ pair'[c] = p2 /\ proc'[c] = "acting" /\ file' = file /\ starts' = starts
          /\ \A n \in Node \ {c} : /\ proc'[n] = proc[n] /\ pair'[n] = pair[n]
                                   /\ file'[n] = file[n] /\ starts'[n] = starts[n]
      BY <1>1, <1>11, <1>14 DEF TypeOK
    <2>2. /\ KeyOK(c, p2) /\ Collected(p2) /\ p2.mynonce = p.mynonce
          /\ p2.state = "PAIRED"
      BY <1>6, <1>14 DEF AfterEncode, PairRecord, KeyOK, Collected
    <2>3. /\ \A n \in Node \ {c} : ProcessOK(n)'
          /\ \A d \in Device : DeviceOK(d)'
          /\ \A b \in Controller \ {c} : ControllerOK(b)'
          /\ \A r \in net : MessageOK(r)'
          /\ DurableBeforeAck'
      <3>1. starts'[c] = starts[c] /\ proc'[c] # "pairing"
        BY <2>1
      <3>2. HoldsPairing(c)
        BY <1>14 DEF HoldsPairing
      <3> QED
        BY <1>7, <2>1, <3>1, <3>2, ControllerStepKeeps
    <2>4. ProcessOK(c)' /\ ControllerOK(c)'
      BY <1>1, <1>2, <1>6, <2>1, <2>2 DEF ProcessOK, ControllerOK, Call
    <2>5. ASSUME NEW r, r = last PROVE MessageOK(r)'
      <3>1. /\ PacketOK(r) /\ r.sock = <<c, starts[c], "acting">>
            /\ r.cp.cmd \in {"PAIR_REQUEST", "APP_LIST", "APP_MESSAGE"}
        BY <2>5, RequestOK DEF Call
      <3>2. PacketOK(r)'
        BY <3>1 DEF PacketOK, DirectionOK, ContentOK, AddressOK, Sender
      <3>3. RunOK(r)'
        BY <1>1, <2>1, <3>1 DEF RunOK
      <3>4. KeyFirst(r)' /\ NonceFirst(r)' /\ AckCommitted(r)'
        BY <3>1 DEF KeyFirst, NonceFirst, AckCommitted
      <3> QED
        BY <3>2, <3>3, <3>4 DEF MessageOK
    <2>6. \A r \in net' : MessageOK(r)'
      BY <1>10, <1>14, <2>1, <2>3, <2>5 DEF Close, Consume, Send
    <2> QED
      BY <1>7, <2>3, <2>4, <2>6 DEF IInv
  <1>15. proc[c] = "pairing" => out.e = "ERROR_OK"
    BY <1>1, <1>5 DEF ControllerAnswers
  <1> QED
    BY <1>2, <1>4, <1>9, <1>12, <1>13, <1>14, <1>15 DEF ControllerProcess, p, ans

LEMMA StopInv ==
    ASSUME IInv, NEW n \in Node, Stop(n)
    PROVE  IInv'
  <1>1. TypeOK /\ TypeOK'
    BY StopType DEF IInv
  <1>2. /\ pair'[n] = Dead /\ proc'[n] = "off" /\ starts' = starts /\ file' = file
        /\ net' \subseteq net
        /\ \A x \in Node \ {n} : /\ proc'[x] = proc[x] /\ pair'[x] = pair[x]
                                 /\ file'[x] = file[x] /\ starts'[x] = starts[x]
    BY <1>1 DEF Stop, Close, TypeOK
  <1>3. ProcessOK(n)'
    BY <1>1, <1>2, DeadOK DEF IInv, ProcessOK
  <1>4. CASE n \in Device
    <2>1. /\ \A x \in Node \ {n} : ProcessOK(x)'
          /\ \A e \in Device \ {n} : DeviceOK(e)'
          /\ \A c \in Controller : ControllerOK(c)'
          /\ \A m \in net : MessageOK(m)'
          /\ DurableBeforeAck'
      BY <1>1, <1>2, <1>4, DeviceStepKeeps
    <2>2. DeviceOK(n)'
      BY <1>2, <1>4, DeadOK DEF IInv, DeviceOK
    <2> QED
      BY <1>1, <1>2, <1>3, <1>4, <2>1, <2>2 DEF IInv
  <1>5. CASE n \in Controller
    <2>1. HoldsPairing(n)' => HoldsPairing(n)
      BY <1>2, DeadOK DEF HoldsPairing
    <2>2. /\ \A x \in Node \ {n} : ProcessOK(x)'
          /\ \A d \in Device : DeviceOK(d)'
          /\ \A c \in Controller \ {n} : ControllerOK(c)'
          /\ \A m \in net : MessageOK(m)'
          /\ DurableBeforeAck'
      BY <1>1, <1>2, <1>5, <2>1, ControllerStepKeeps
    <2>3. ControllerOK(n)'
      BY <1>2, DeadOK DEF ControllerOK, Call
    <2> QED
      BY <1>1, <1>2, <1>3, <1>5, <2>2, <2>3 DEF IInv
  <1> QED
    BY <1>4, <1>5 DEF Node

LEMMA InvStep == IInv /\ [Next]_vars => IInv'
  <1> SUFFICES ASSUME IInv, [Next]_vars PROVE IInv'
    OBVIOUS
  <1>1. CASE \E d \in Device : DeviceStart(d)
    BY <1>1, DeviceStartInv
  <1>2. CASE \E d \in Device : \E m \in net : DeviceReceive(d, m)
    BY <1>2, DeviceReceiveInv
  <1>3. CASE \E c \in Controller : \E act \in Command : ControllerStart(c, act)
    BY <1>3, ControllerStartInv
  <1>4. CASE \E c \in Controller : \E m \in net : ControllerReceive(c, m)
    BY <1>4, ControllerReceiveInv
  <1>5. CASE \E n \in Node : Stop(n)
    BY <1>5, StopInv
  <1>6. CASE net' \subseteq net /\ UNCHANGED <<proc, starts, pair, file, value, wanted, seen>>
    <2>1. TypeOK'
      BY <1>6 DEF IInv, TypeOK
    <2>2. \A m \in net : MessageOK(m)'
      BY <1>6 DEF IInv, MessageOK, PacketOK, DirectionOK, ContentOK, AddressOK, Sender,
                  RunOK, KeyFirst, NonceFirst, Current, SocketOf, AckCommitted, Committed
    <2> QED
      BY <1>6, <2>1, <2>2
      DEF IInv, ProcessOK, DeviceOK, ControllerOK, DurableBeforeAck, HoldsPairing, Committed
  <1>7. CASE UNCHANGED vars
    BY <1>6, <1>7 DEF vars
  <1>8. CASE \E m \in net : Lose(m)
    BY <1>6, <1>8 DEF Lose
  <1> QED
    BY <1>1, <1>2, <1>3, <1>4, <1>5, <1>7, <1>8 DEF Next

-----------------------------------------------------------------------------
(* What follows.                                                           *)

\* IInv is an invariant: whoever is killed or started and whatever the network
\* does, the two ends go through the handshake in its order.
THEOREM Invariance == Spec => []IInv
  BY InitInv, InvStep, PTL DEF Spec

\* A controller that believes it is paired is right: its device has saved the
\* pairing before.
THEOREM CommitCorrect == Spec => []DurableBeforeAck
  <1>1. IInv => DurableBeforeAck
    BY DEF IInv
  <1> QED
    BY <1>1, Invariance, PTL

\* No unfinished pairing is ever saved, although a controller saves at every
\* exit.
THEOREM PairFileCorrect == Spec => []CompletePairFile
  <1>1. IInv => CompletePairFile
    BY DEF IInv, ProcessOK, Complete, CompletePairFile
  <1> QED
    BY <1>1, Invariance, PTL

-----------------------------------------------------------------------------
(* What a step does to the pair files of the devices and to what the       *)
(* controllers hold.                                                       *)

SameFiles == \A d \in Device : file'[d] = file[d]
SameHoldings == \A c \in Controller : HoldsPairing(c)' <=> HoldsPairing(c)

\* Device d saves a first pairing, with controller c, or tries to.
Saves(d, c) ==
    /\ d \in Persistent /\ Target[c] = d
    /\ file[d] = NoFile
    /\ file'[d] # NoFile => file'[d].publickey = c
    /\ \A e \in Device \ {d} : file'[e] = file[e]
    /\ SameHoldings

LEMMA DeviceReceiveSaves ==
    ASSUME IInv, NEW d \in Device, NEW m \in net, DeviceReceive(d, m)
    PROVE  (SameFiles /\ SameHoldings) \/ \E c \in Controller : Saves(d, c)
  <1>1. /\ TypeOK /\ d \in Node /\ m.dst = d /\ proc[d] = "on"
        /\ \A c \in Controller : c \in Node \ {d}
        /\ \A e \in Device : e \in Node
    BY NodeAssumption DEF IInv, DeviceReceive, Node
  <1>2. PICK cp \in Decode(pair[d], m.cp) : \E out \in StateMachine(d, pair[d], cp) :
            DeviceProcess(d, m, cp, out)
    BY DEF DeviceReceive
  <1>3. PICK out \in StateMachine(d, pair[d], cp) : DeviceProcess(d, m, cp, out)
    BY <1>2
  <1> DEFINE writes == d \in Persistent /\ JustPaired(pair[d], out.pair)
  <1>4. SameHoldings
    <2>1. \A c \in Controller : pair'[c] = pair[c] /\ file'[c] = file[c]
      BY <1>1, <1>3 DEF DeviceProcess, TypeOK
    <2> QED
      BY <2>1 DEF SameHoldings, HoldsPairing
  <1>5. CASE ~writes
    <2>1. file' = file
      BY <1>3, <1>5 DEF DeviceProcess
    <2> QED
      BY <1>4, <2>1 DEF SameFiles
  <1>6. CASE writes
    <2>1. /\ file'[d] \in {NoFile, PairWrite(out.pair)}
          /\ \A e \in Device \ {d} : file'[e] = file[e]
      BY <1>1, <1>3, <1>6 DEF DeviceProcess, TypeOK
    <2>2. /\ file[d] = NoFile /\ PairWrite(out.pair).publickey = m.sock[1]
          /\ m.sock[1] \in Controller /\ Target[m.sock[1]] = d
      BY <1>1, <1>6, DeviceSaves
    <2>3. Saves(d, m.sock[1])
      BY <1>4, <1>6, <2>1, <2>2 DEF Saves
    <2> QED
      BY <2>2, <2>3
  <1> QED
    BY <1>5, <1>6

\* No other step touches a device's pair file, and it concerns one controller
\* at most.
LEMMA OtherSteps ==
    ASSUME IInv, [Next]_vars,
           ~ \E d \in Device : \E m \in net : DeviceReceive(d, m)
    PROVE  /\ SameFiles
           /\ \/ SameHoldings
              \/ \E c \in Controller : \A b \in Controller \ {c} :
                    HoldsPairing(b)' <=> HoldsPairing(b)
  <1>1. /\ TypeOK
        /\ \A d \in Device : d \in Node /\ d \notin Controller
        /\ \A c \in Controller : c \in Node /\ c \notin Device
    BY NodeAssumption DEF IInv, Node
  <1>2. ASSUME NEW c \in Controller,
               \A n \in Node \ {c} : pair'[n] = pair[n] /\ file'[n] = file[n]
        PROVE  /\ SameFiles
               /\ \A b \in Controller \ {c} : HoldsPairing(b)' <=> HoldsPairing(b)
    BY <1>1, <1>2 DEF SameFiles, HoldsPairing
  <1>3. ASSUME NEW d \in Device, file' = file,
               \A n \in Node \ {d} : pair'[n] = pair[n]
        PROVE  SameFiles /\ SameHoldings
    BY <1>1, <1>3 DEF SameFiles, SameHoldings, HoldsPairing
  <1>4. CASE \E d \in Device : DeviceStart(d)
    BY <1>1, <1>3, <1>4 DEF DeviceStart, TypeOK
  <1>5. CASE \E c \in Controller : \E act \in Command : ControllerStart(c, act)
    <2>1. PICK c \in Controller : \E act \in Command : ControllerStart(c, act)
      BY <1>5
    <2>2. \A n \in Node \ {c} : pair'[n] = pair[n] /\ file'[n] = file[n]
      BY <1>1, <2>1 DEF ControllerStart, TypeOK
    <2> QED
      BY <1>2, <2>2
  <1>6. CASE \E c \in Controller : \E m \in net : ControllerReceive(c, m)
    <2>1. PICK c \in Controller : \E m \in net : ControllerReceive(c, m)
      BY <1>6
    <2>2. \A n \in Node \ {c} : pair'[n] = pair[n] /\ file'[n] = file[n]
      BY <1>1, <2>1 DEF ControllerReceive, ControllerProcess, Exit, TypeOK
    <2> QED
      BY <1>2, <2>2
  <1>7. CASE \E n \in Node : Stop(n)
    <2>1. PICK n \in Node : Stop(n)
      BY <1>7
    <2>2. file' = file /\ \A x \in Node \ {n} : pair'[x] = pair[x]
      BY <1>1, <2>1 DEF Stop, TypeOK
    <2> QED
      BY <1>2, <1>3, <2>2 DEF Node
  <1>8. CASE UNCHANGED <<pair, file>>
    BY <1>8 DEF SameFiles, SameHoldings, HoldsPairing
  <1>9. CASE \E m \in net : Lose(m)
    BY <1>8, <1>9 DEF Lose
  <1>10. CASE UNCHANGED vars
    BY <1>8, <1>10 DEF vars
  <1> QED
    BY <1>4, <1>5, <1>6, <1>7, <1>9, <1>10 DEF Next

-----------------------------------------------------------------------------

FirstPairingStep == \A d \in Device : file[d] # NoFile => file'[d] = file[d]

LEMMA FirstPairingKept == IInv /\ [Next]_vars => FirstPairingStep
  <1> SUFFICES ASSUME IInv, [Next]_vars PROVE FirstPairingStep
    OBVIOUS
  <1>1. CASE \E d \in Device : \E m \in net : DeviceReceive(d, m)
    BY <1>1, DeviceReceiveSaves DEF FirstPairingStep, SameFiles, Saves
  <1>2. CASE ~ \E d \in Device : \E m \in net : DeviceReceive(d, m)
    BY <1>2, OtherSteps DEF FirstPairingStep, SameFiles
  <1> QED
    BY <1>1, <1>2

\* A device's saved pairing is never replaced, whoever asks to pair with it.
THEOREM FirstPairing == Spec => FirstPairingStands
  <1>1. IInv /\ [Next]_vars => [FirstPairingStep]_file
    BY FirstPairingKept
  <1> QED
    BY <1>1, Invariance, PTL DEF Spec, FirstPairingStands, FirstPairingStep

-----------------------------------------------------------------------------
(* The refinement.                                                         *)

\* The variables of DurablePairing.
committed == [d \in Persistent |-> IF file[d] = NoFile THEN Nil ELSE file[d].publickey]
bound == {c \in Client : HoldsPairing(c)}

LEMMA InitRefines == Init => DP!Init
  <1> SUFFICES ASSUME Init PROVE DP!Init
    OBVIOUS
  <1>1. \A d \in Persistent : file[d] = NoFile
    BY FabricAssumption DEF Init, Node
  <1>2. \A c \in Client : ~HoldsPairing(c)
    BY NodeAssumption, DeadOK DEF Init, Client, Node, HoldsPairing
  <1> QED
    BY <1>1, <1>2 DEF DP!Init

\* The first pairing that device d saves is its commitment.
LEMMA SaveRefines ==
    ASSUME IInv, NEW d \in Device, NEW c \in Controller, Saves(d, c)
    PROVE  [DP!Next]_<<committed, bound>>
  <1>1. d \in Persistent /\ c \in Client /\ Target[c] = d
    BY DEF Saves, Client
  <1>2. bound' = bound
    BY DEF Saves, SameHoldings, bound, Client
  <1>3. \A e \in Persistent \ {d} : file'[e] = file[e]
    BY FabricAssumption DEF Saves
  <1>4. CASE file'[d] = NoFile
    <2>1. committed' = committed
      BY <1>3, <1>4 DEF Saves, committed
    <2> QED
      BY <1>2, <2>1
  <1>5. CASE file'[d] # NoFile
    <2>1. committed' = [committed EXCEPT ![d] = c] /\ committed[d] = Nil
      BY <1>1, <1>3, <1>5 DEF Saves, committed
    <2>2. DP!Commit(d, c)
      BY <1>1, <1>2, <2>1 DEF DP!Commit, committed, bound
    <2> QED
      BY <1>1, <2>2 DEF DP!Next
  <1> QED
    BY <1>4, <1>5

\* A controller that comes to hold a pairing binds, one that no longer does
\* unbinds.
LEMMA HoldRefines ==
    ASSUME IInv, IInv', SameFiles, NEW c \in Controller,
           \A b \in Controller \ {c} : HoldsPairing(b)' <=> HoldsPairing(b)
    PROVE  [DP!Next]_<<committed, bound>>
  <1>1. committed' = committed
    BY FabricAssumption DEF SameFiles, committed
  <1>2. CASE c \notin Client \/ (HoldsPairing(c)' <=> HoldsPairing(c))
    <2>1. bound' = bound
      BY <1>2 DEF bound, Client
    <2> QED
      BY <1>1, <2>1
  <1>3. CASE c \in Client /\ HoldsPairing(c)'
    <2>1. Target[c] \in Persistent /\ Committed(Target[c], c)'
      BY <1>3 DEF IInv, DurableBeforeAck, Client
    <2>2. committed[Target[c]] = c
      BY <1>1, <2>1 DEF Committed, committed
    <2>3. bound' = bound \cup {c}
      BY <1>3 DEF bound, Client
    <2>4. DP!Bind(c)
      BY <1>1, <1>3, <2>2, <2>3 DEF DP!Bind, committed, bound
    <2> QED
      BY <1>3, <2>4 DEF DP!Next
  <1>4. CASE c \in Client /\ ~HoldsPairing(c)'
    <2>1. bound' = bound \ {c}
      BY <1>4 DEF bound, Client
    <2>2. DP!Unbind(c)
      BY <1>1, <2>1 DEF DP!Unbind, committed, bound
    <2> QED
      BY <1>4, <2>2 DEF DP!Next
  <1> QED
    BY <1>2, <1>3, <1>4

LEMMA StepRefines == IInv /\ [Next]_vars => [DP!Next]_<<committed, bound>>
  <1> SUFFICES ASSUME IInv, [Next]_vars PROVE [DP!Next]_<<committed, bound>>
    OBVIOUS
  <1>1. IInv'
    BY InvStep
  <1>2. CASE \E d \in Device : \E m \in net : DeviceReceive(d, m)
    <2>1. PICK d \in Device : \E m \in net : DeviceReceive(d, m)
      BY <1>2
    <2>2. CASE \E c \in Controller : Saves(d, c)
      BY <2>2, SaveRefines
    <2>3. CASE SameFiles /\ SameHoldings
      <3>1. committed' = committed /\ bound' = bound
        BY <2>3, FabricAssumption DEF SameFiles, SameHoldings, committed, bound, Client
      <3> QED
        BY <3>1
    <2> QED
      BY <2>1, <2>2, <2>3, DeviceReceiveSaves
  <1>3. CASE ~ \E d \in Device : \E m \in net : DeviceReceive(d, m)
    <2>1. SameFiles
      BY <1>3, OtherSteps
    <2>2. CASE SameHoldings
      <3>1. committed' = committed /\ bound' = bound
        BY <2>1, <2>2, FabricAssumption
        DEF SameFiles, SameHoldings, committed, bound, Client
      <3> QED
        BY <3>1
    <2>3. CASE \E c \in Controller : \A b \in Controller \ {c} :
                    HoldsPairing(b)' <=> HoldsPairing(b)
      BY <1>1, <2>1, <2>3, HoldRefines
    <2> QED
      BY <1>3, <2>2, <2>3, OtherSteps
  <1> QED
    BY <1>2, <1>3

\* Fabric implements DurablePairing: devices commit once and for good, and
\* controllers are bound only to a device that has committed to them.
THEOREM Refinement == Spec => ImplementsDurablePairing
  <1>1. Init => DP!Init
    BY InitRefines
  <1>2. IInv /\ [Next]_vars => [DP!Next]_<<committed, bound>>
    BY StepRefines
  <1> QED
    BY <1>1, <1>2, Invariance, PTL
    DEF Spec, ImplementsDurablePairing, DP!Spec, committed, bound

=============================================================================
