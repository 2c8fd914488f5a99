----------------------------- MODULE CallProofs -----------------------------
(***************************************************************************)
(* Proofs about what the two ends of a pairing tell each other, from IInv  *)
(* and with the assumptions each theorem names: they hold each other's     *)
(* nonce, no serial in flight is used again, and an answer is the answer   *)
(* to the call that waits for it.                                          *)
(***************************************************************************)
EXTENDS FabricProofs

-----------------------------------------------------------------------------
(* What one call of stateMachine does to the nonces.                       *)

LEMMA DeviceTakesNonce ==
    ASSUME NEW d \in Device, NEW p \in PairRecord, DevicePair(p), KeyOK(d, p),
           NEW m \in Datagram, m.dst = d, PacketOK(m),
           NEW cp \in Decode(p, m.cp), NEW out \in StateMachine(d, p, cp),
           JustPaired(p, out.pair)
    PROVE  m.cp.cmd = "NONCE_SEND" /\ out.pair.nonce = m.cp.nonce
  <1>1. /\ cp \in Packet
        /\ cp.cmd \in {m.cp.cmd, "PACKET_DECRYPT_FAILED"} /\ m.cp.cmd \in ToDevice
        /\ cp.flags = m.cp.flags
        /\ cp.cmd \notin AppCmd \cup {"PACKET_DECRYPT_FAILED"} => cp = m.cp
    BY Decoded DEF PacketOK, DirectionOK
  <1>2. out.pair = Handle(d, p, cp).pair
    BY DEF StateMachine, JustPaired
  <1>3. CASE cp.cmd = "NONCE_SEND"
    <2>1. p.state # "PAIRED" /\ out.pair.state = "PAIRED"
      BY DEF JustPaired
    <2>2. out.pair = NonceSend(p, cp).pair
      BY <1>2, <1>3, HandleByCmd
    <2>3. p.state = "NONCE_SETUP"
      BY <2>1, <2>2 DEF NonceSend, NoReply
    <2>4. cp.flags = 1
      BY <1>1, <1>3 DEF PacketOK, DirectionOK
    <2>5. out.pair = [p EXCEPT !.nonce = cp.nonce, !.hasNonce = 1, !.state = "PAIRED"]
      BY <2>2, <2>3, <2>4 DEF NonceSend, Reply
    <2>6. out.pair.nonce = cp.nonce
      BY <2>5 DEF PairRecord
    <2> QED
      BY <1>1, <1>3, <2>6 DEF AppCmd
  <1>4. CASE cp.cmd # "NONCE_SEND"
    <2>1. cp.cmd \in (ToDevice \ {"NONCE_SEND"}) \cup {"PACKET_DECRYPT_FAILED"}
      BY <1>1, <1>4
    <2>2. CASE cp.cmd = "PAIR_REQUEST"
      <3>1. out.pair = PairRequest(p, cp).pair
        BY <1>2, <2>2, HandleByCmd
      <3>2. \/ out.pair = [p EXCEPT !.uuid = cp.from]
            \/ out.pair = [p EXCEPT !.uuid = cp.from, !.state = "PUBLICKEY_SETUP"]
        BY <3>1 DEF PairRequest, Reply
      <3>3. out.pair.state \in {p.state, "PUBLICKEY_SETUP"}
        BY <3>2 DEF PairRecord
      <3> QED
        BY <3>3 DEF JustPaired
    <2>3. CASE cp.cmd = "PUBLICKEY_SEND"
      <3>1. out.pair = PublickeySend(d, p, cp).pair
        BY <1>2, <2>3, HandleByCmd
      <3>2. \/ out.pair = p
            \/ out.pair = [p EXCEPT !.publickey = cp.publickey, !.hasPublicKey = 1,
                                    !.sharedkey = SharedSecret(d, cp.publickey)]
            \/ out.pair = [p EXCEPT !.publickey = cp.publickey, !.hasPublicKey = 1,
                                    !.sharedkey = SharedSecret(d, cp.publickey),
                                    !.state = "NONCE_SETUP"]
        BY <3>1 DEF PublickeySend, Reply, NoReply
      <3>3. out.pair.state \in {p.state, "NONCE_SETUP"}
        BY <3>2 DEF PairRecord
      <3> QED
        BY <3>3 DEF JustPaired
    <2>4. CASE cp.cmd = "NONCE_REQUEST"
      <3>1. out.pair = NonceRequest(p).pair
        BY <1>2, <2>4, HandleByCmd
      <3>2. out.pair = p \/ out.pair = [p EXCEPT !.state = "UNCONFIGURED"]
        BY <3>1 DEF NonceRequest, Reply, NoReply
      <3>3. out.pair.state \in {p.state, "UNCONFIGURED"}
        BY <3>2 DEF PairRecord
      <3> QED
        BY <3>3 DEF JustPaired
    <2>5. CASE cp.cmd \in {"PUBLICKEY_REQUEST", "APP_LIST", "APP_MESSAGE",
                           "INVAILD_CMD", "PACKET_DECRYPT_FAILED"}
      <3>1. out.pair = p
        BY <1>2, <2>5, HandleByCmd
        DEF PublickeyRequest, AppList, AppMessage, Reply, NoReply
      <3> QED
        BY <3>1 DEF JustPaired
    <2> QED
      BY <2>1, <2>2, <2>3, <2>4, <2>5 DEF ToDevice
  <1> QED
    BY <1>3, <1>4

\* A controller holds the nonce it held before, or the one it has just been
\* sent; it sends its own only in the middle of a handshake.
LEMMA ControllerTakesNonce ==
    ASSUME NEW c \in Controller, NEW p \in PairRecord,
           NEW m \in Datagram, m.dst = c, PacketOK(m),
           NEW cp \in Decode(p, m.cp), NEW out \in StateMachine(c, p, cp)
    PROVE  /\ \/ NonceKept(p, out.pair)
              \/ m.cp.cmd = "NONCE_SEND" /\ out.pair.nonce = m.cp.nonce
           /\ out.send /\ out.cmd = "NONCE_SEND" => p.state = "NONCE_SETUP"
  <1>1. /\ cp \in Packet
        /\ cp.cmd \in {m.cp.cmd, "PACKET_DECRYPT_FAILED"}
        /\ cp.cmd \notin AppCmd \cup {"PACKET_DECRYPT_FAILED"} => cp = m.cp
        /\ m.cp.cmd \in ToController
    BY NodeAssumption, Decoded DEF PacketOK, DirectionOK
  <1>2. CASE InvalidDest(c, cp)
    BY <1>2 DEF StateMachine, NonceKept
  <1>3. CASE ~InvalidDest(c, cp)
    <2> DEFINE h == Handle(c, p, cp)
    <2>1. out.pair = h.pair /\ out.cmd = h.cmd /\ out.send = h.send
      BY <1>3 DEF StateMachine
    <2>2. CASE cp.cmd = "NONCE_SEND"
      <3>1. h = NonceSend(p, cp)
        BY <2>2, HandleByCmd
      <3>2. CASE p.state # "NONCE_SETUP"
        BY <2>1, <3>1, <3>2 DEF NonceSend, NoReply, NonceKept
      <3>3. CASE p.state = "NONCE_SETUP"
        <4>1. \/ h.pair = [p EXCEPT !.nonce = cp.nonce, !.hasNonce = 1, !.state = "PAIRED"]
              \/ h.pair = [p EXCEPT !.nonce = cp.nonce, !.hasNonce = 1]
          BY <3>1, <3>3 DEF NonceSend, Reply
        <4> HIDE DEF h
        <4>2. h.pair.nonce = cp.nonce
          BY <4>1 DEF PairRecord
        <4> QED
          BY <1>1, <2>1, <2>2, <3>3, <4>2 DEF AppCmd
      <3> QED
        BY <3>2, <3>3
    <2>3. CASE cp.cmd = "PAIR_REQUEST_ACK"
      <3>1. h = PairRequestAck(p, cp)
        BY <2>3, HandleByCmd
      <3>2. /\ \/ h.pair = p
               \/ h.pair = [p EXCEPT !.state = "PUBLICKEY_SETUP", !.uuid = cp.from]
            /\ h.cmd # "NONCE_SEND"
        BY <3>1 DEF PairRequestAck, Reply, NoReply
      <3> HIDE DEF h
      <3>3. NonceKept(p, h.pair)
        BY <3>2 DEF PairRecord, NonceKept
      <3> QED
        BY <2>1, <3>2, <3>3
    <2>4. CASE cp.cmd = "PUBLICKEY_SEND"
      <3>1. h = PublickeySend(c, p, cp)
        BY <2>4, HandleByCmd
      <3>2. /\ \/ h.pair = p
               \/ h.pair = [p EXCEPT !.publickey = cp.publickey, !.hasPublicKey = 1,
                                     !.sharedkey = SharedSecret(c, cp.publickey)]
               \/ h.pair = [p EXCEPT !.publickey = cp.publickey, !.hasPublicKey = 1,
                                     !.sharedkey = SharedSecret(c, cp.publickey),
                                     !.state = "NONCE_SETUP"]
            /\ h.cmd # "NONCE_SEND"
        BY <3>1 DEF PublickeySend, Reply, NoReply
      <3> HIDE DEF h
      <3>3. NonceKept(p, h.pair)
        BY <3>2 DEF PairRecord, NonceKept
      <3> QED
        BY <2>1, <3>2, <3>3
    <2>5. CASE cp.cmd = "PUBLICKEY_ACK"
      <3>1. h = PublickeyAck(p)
        BY <2>5, HandleByCmd
      <3>2. /\ h.pair = p \/ h.pair = [p EXCEPT !.state = "NONCE_SETUP"]
            /\ h.cmd # "NONCE_SEND"
        BY <3>1 DEF PublickeyAck, Reply, NoReply
      <3> HIDE DEF h
      <3>3. NonceKept(p, h.pair)
        BY <3>2 DEF PairRecord, NonceKept
      <3> QED
        BY <2>1, <3>2, <3>3
    <2>6. CASE cp.cmd = "NONCE_ACK"
      <3>1. h = NonceAck(p)
        BY <2>6, HandleByCmd
      <3>2. /\ h.pair = p \/ h.pair = [p EXCEPT !.state = "PAIRED"]
            /\ h.cmd # "NONCE_SEND"
        BY <3>1 DEF NonceAck, NoReply
      <3> HIDE DEF h
      <3>3. NonceKept(p, h.pair)
        BY <3>2 DEF PairRecord, NonceKept
      <3> QED
        BY <2>1, <3>2, <3>3
    <2>7. CASE cp.cmd \in {"FAIL", "INVAILD_CMD", "PACKET_DECRYPT_FAILED",
                           "APP_MESSAGE_ACK", "APP_LIST_ACK"}
      BY <2>1, <2>7, HandleByCmd DEF NoReply, NonceKept
    <2> QED
      BY <1>1, <2>2, <2>3, <2>4, <2>5, <2>6, <2>7 DEF ToController
  <1> QED
    BY <1>2, <1>3

\* An answer is about the pairing it was made from.
LEMMA AnswerCarries ==
    ASSUME NEW n, NEW m, NEW peer, NEW out, NEW act,
           NEW r \in Answer(n, m, peer, out, act)
    PROVE  /\ r.sock = m.sock /\ r.dst = peer /\ r.cp.cmd = out.cmd /\ out.send
           /\ r.cp.cmd = "NONCE_SEND" => r.cp.nonce = out.pair.mynonce
  <1>1. /\ r.sock = m.sock /\ r.dst = peer /\ out.send
        /\ r.cp = Encode(n, out.pair, out.cmd, out.flags, out.to, out.from, act)
    BY DEF Answer
  <1>2. r.cp.cmd = out.cmd
    BY <1>1 DEF Encode
  <1>3. /\ r.cp.kind = PacketType(out.cmd)
        /\ r.cp.kind = "NONCE" => r.cp.nonce = out.pair.mynonce
    BY <1>1 DEF Encode
  <1>4. out.cmd = "NONCE_SEND" => PacketType(out.cmd) = "NONCE"
    BY DEF PacketType, AppCmd
  <1> QED
    BY <1>1, <1>2, <1>3, <1>4

-----------------------------------------------------------------------------
(* What a step leaves alone, given that no saved pairing of a device is    *)
(* replaced (FirstPairingKept).                                            *)

LEMMA MessageNoncesStay ==
    ASSUME IInv, FirstPairingStep, NEW m \in net, MessageNonces(m)
    PROVE  MessageNonces(m)'
  <1>1. MessageOK(m) /\ Target[m.sock[1]] \in Device
    BY FabricAssumption DEF IInv, TypeOK, Datagram, Socket
  <1>2. Target[m.sock[1]] \in Persistent /\ m.cp.cmd = "NONCE_ACK"
            => file'[Target[m.sock[1]]] = file[Target[m.sock[1]]]
    BY <1>1 DEF MessageOK, AckCommitted, Committed, FirstPairingStep
  <1> QED
    BY <1>2 DEF MessageNonces

LEMMA DeviceNoncesStay ==
    ASSUME NEW d \in Device, DeviceNonces(d),
           proc'[d] = proc[d], pair'[d] = pair[d], file'[d] = file[d]
    PROVE  DeviceNonces(d)'
  BY DEF DeviceNonces

LEMMA ControllerNoncesStay ==
    ASSUME FirstPairingStep, NEW c \in Controller, ControllerNonces(c),
           proc'[c] = proc[c], pair'[c] = pair[c], file'[c] = file[c],
           starts'[c] = starts[c]
    PROVE  ControllerNonces(c)'
  <1>1. file[Target[c]] # NoFile => file'[Target[c]] = file[Target[c]]
    BY FabricAssumption DEF FirstPairingStep
  <1> QED
    BY <1>1 DEF ControllerNonces, Agrees

-----------------------------------------------------------------------------
(* NoncesInv is kept by every step.                                        *)

LEMMA InitNonces == Init => NoncesInv
  <1> SUFFICES ASSUME Init PROVE NoncesInv
    OBVIOUS
  <1>1. \A d \in Device : d \in Node /\ pair[d].mynonce = FirstNonce(d)
                          /\ proc[d] = "on" /\ file[d] = NoFile
    BY DEF Init, Node, PairInit, FirstNonce
  <1>2. \A c \in Controller : proc[c] = "off" /\ file[c] = NoFile
    BY NodeAssumption DEF Init, Node
  <1> QED
    BY <1>1, <1>2 DEF Init, NoncesInv, DeviceNonces, ControllerNonces

LEMMA DeviceStartNonces ==
    ASSUME IInv, NoncesInv, FirstPairingStep, NEW d \in Device, DeviceStart(d)
    PROVE  NoncesInv'
  <1>1. /\ TypeOK /\ d \in Node /\ \A n \in Device \cup Controller : n \in Node
        /\ \A c \in Controller : c # d
    BY NodeAssumption DEF IInv, Node
  <1>2. /\ file' = file /\ net' = net /\ proc[d] = "off" /\ proc'[d] = "on"
        /\ file[d] # NoFile => pair'[d].mynonce = file[d].mynonce
        /\ \A n \in Node \ {d} : proc'[n] = proc[n] /\ pair'[n] = pair[n]
                                 /\ starts'[n] = starts[n]
    BY <1>1 DEF DeviceStart, TypeOK, PairRead
  <1>3. DeviceNonces(d)'
    BY <1>2 DEF NoncesInv, DeviceNonces
  <1>4. \A e \in Device \ {d} : DeviceNonces(e)'
    BY <1>1, <1>2, DeviceNoncesStay DEF NoncesInv
  <1>5. \A c \in Controller : ControllerNonces(c)'
    BY <1>1, <1>2, ControllerNoncesStay DEF NoncesInv
  <1>6. \A m \in net' : MessageNonces(m)'
    BY <1>2, MessageNoncesStay DEF NoncesInv
  <1> QED
    BY <1>3, <1>4, <1>5, <1>6 DEF NoncesInv

LEMMA DeviceReceiveNonces ==
    ASSUME IInv, NoncesInv, FirstPairingStep, ~TornWrites,
           NEW d \in Device, NEW m \in net, DeviceReceive(d, m)
    PROVE  NoncesInv'
  <1> DEFINE c == m.sock[1]
  <1>1. /\ TypeOK /\ d \in Node /\ pair[d] \in PairRecord /\ m \in Datagram
        /\ m.dst = d /\ proc[d] = "on"
        /\ \A n \in Device \cup Controller : n \in Node
        /\ \A b \in Controller : b # d
    BY NodeAssumption DEF IInv, TypeOK, DeviceReceive, Node
  <1>2. /\ DevicePair(pair[d]) /\ KeyOK(d, pair[d]) /\ pair[d].mynonce # ZeroNonce
        /\ PacketOK(m) /\ c \in Controller /\ c \notin Device /\ d = Target[c]
    BY <1>1, NodeAssumption
    DEF IInv, ProcessOK, DeviceOK, MessageOK, PacketOK, DirectionOK, Datagram, Socket
  <1>3. PICK cp \in Decode(pair[d], m.cp) : \E out \in StateMachine(d, pair[d], cp) :
            DeviceProcess(d, m, cp, out)
    BY DEF DeviceReceive
  <1>4. PICK out \in StateMachine(d, pair[d], cp) : DeviceProcess(d, m, cp, out)
    BY <1>3
  <1>5. out \in Outcome /\ DeviceAnswers(d, pair[d], m, out)
    BY <1>1, DeviceTurn
  <1> DEFINE q      == AfterAnswer(out)
             writes == d \in Persistent /\ JustPaired(pair[d], out.pair)
  <1>6. q.mynonce = pair[d].mynonce /\ out.pair.mynonce = pair[d].mynonce
    BY <1>5, AfterAnswerKeeps DEF DeviceAnswers, Unmoved, Outcome, PairRecord
  <1>7. PICK act : /\ pair' = [pair EXCEPT ![d] = q]
                   /\ file' = IF writes THEN [file EXCEPT ![d] = PairWrite(out.pair)]
                                        ELSE file
                   /\ net' = Consume(m) \cup Send(Answer(d, m, c, out, act))
                   /\ UNCHANGED <<proc, starts>>
    BY <1>4 DEF DeviceProcess
  <1> HIDE DEF q
  <1>8. /\ pair'[d] = q /\ proc' = proc /\ starts' = starts
        /\ file'[d] = IF writes THEN PairWrite(out.pair) ELSE file[d]
        /\ \A n \in Node \ {d} : pair'[n] = pair[n] /\ file'[n] = file[n]
    BY <1>1, <1>7 DEF TypeOK
  <1>9. DeviceNonces(d)'
    BY <1>1, <1>6, <1>8 DEF NoncesInv, DeviceNonces, PairWrite
  <1>10. \A e \in Device \ {d} : DeviceNonces(e)'
    BY <1>1, <1>8, DeviceNoncesStay DEF NoncesInv
  <1>11. \A b \in Controller : ControllerNonces(b)'
    BY <1>1, <1>8, ControllerNoncesStay DEF NoncesInv
  <1>12. ASSUME NEW r \in Answer(d, m, c, out, act) PROVE MessageNonces(r)'
    <2>1. /\ r.sock = m.sock /\ r.dst = c /\ r.cp.cmd = out.cmd /\ out.send
          /\ r.cp.cmd = "NONCE_SEND" => r.cp.nonce = out.pair.mynonce
      BY AnswerCarries
    <2>2. d \in Persistent /\ r.cp.cmd = "NONCE_SEND" => r.cp.nonce = FirstNonce(d)
      BY <1>1, <1>6, <2>1 DEF NoncesInv, DeviceNonces
    <2>3. ASSUME d \in Persistent, r.cp.cmd = "NONCE_ACK"
          PROVE  file'[d].nonce = <<c, m.sock[2]>>
      <3>1. m.cp.cmd = "NONCE_SEND" /\ writes
        BY <1>5, <2>1, <2>3 DEF DeviceAnswers
      <3>2. out.pair.nonce = m.cp.nonce
        BY <1>1, <1>2, <3>1, DeviceTakesNonce
      <3>3. m.cp.nonce = <<c, m.sock[2]>>
        BY <1>1, <3>1 DEF NoncesInv, MessageNonces
      <3> QED
        BY <1>8, <3>1, <3>2, <3>3 DEF PairWrite
    <2> QED
      BY <1>2, <2>1, <2>2, <2>3 DEF MessageNonces
  <1>13. \A r \in net' : MessageNonces(r)'
    BY <1>7, <1>12, MessageNoncesStay DEF NoncesInv, Consume, Send
  <1> QED
    BY <1>9, <1>10, <1>11, <1>13 DEF NoncesInv

LEMMA ControllerStartNonces ==
    ASSUME IInv, NoncesInv, FirstPairingStep,
           NEW c \in Controller, NEW act \in Command, ControllerStart(c, act)
    PROVE  NoncesInv'
  <1> DEFINE run  == starts[c] + 1
             p    == PairRead(c, PairInit(<<c, run>>), file[c])
             call == IF file[c] = NoFile THEN "pairing" ELSE "listing"
             q    == AfterEncode(p, RequestCmd(call))
  <1>1. /\ TypeOK /\ c \in Node /\ starts[c] \in Nat /\ run \in Nat /\ file[c] \in PairFile
        /\ \A n \in Device \cup Controller : n \in Node
        /\ \A d \in Device : d # c
    BY NodeAssumption DEF IInv, TypeOK, Node
  <1>2. p \in PairRecord
    <2>1. <<c, run>> \in Nonce
      BY <1>1 DEF Nonce
    <2> QED
      BY <1>1, <2>1, PairInitType, PairReadType
  <1>3. /\ file[c] = NoFile => p.mynonce = <<c, run>> /\ p.hasNonce = 0
        /\ file[c] # NoFile => p.nonce = file[c].nonce /\ p.mynonce = file[c].mynonce
    BY DEF PairRead, PairInit
  <1> HIDE DEF p
  <1>4. q.nonce = p.nonce /\ q.mynonce = p.mynonce /\ q.hasNonce = p.hasNonce
    BY <1>2 DEF AfterEncode, PairRecord
  <1>5. call \in Call /\ (call = "pairing" <=> file[c] = NoFile)
    BY DEF Call
  <1>r. PICK r : r = Request(c, p, run, call, NoAction)
    OBVIOUS
  <1>6. r.cp.cmd \in {"PAIR_REQUEST", "APP_LIST", "APP_MESSAGE"}
    BY <1>5, <1>r, RequestOK
  <1> HIDE DEF run, call, q
  <1>7. /\ proc'[c] = call /\ pair'[c] = q /\ file' = file /\ net' \subseteq net \cup {r}
        /\ starts'[c] = run
        /\ \A n \in Node \ {c} : proc'[n] = proc[n] /\ pair'[n] = pair[n]
                                 /\ starts'[n] = starts[n]
    BY <1>1, <1>r DEF ControllerStart, Send, TypeOK, p, run, call, q
  <1>8. ControllerNonces(c)'
    <2>1. proc'[c] = "pairing" => /\ pair'[c].mynonce = <<c, starts'[c]>>
                                  /\ pair'[c].hasNonce = 0
      BY <1>3, <1>4, <1>5, <1>7
    <2>2. Target[c] \in Persistent /\ file[c] # NoFile => Agrees(c, file[c])
      BY DEF NoncesInv, ControllerNonces
    <2>3. Target[c] \in Persistent /\ proc'[c] \in {"listing", "acting"} => Agrees(c, pair[c])'
      BY <1>3, <1>4, <1>5, <1>7, <2>2 DEF Agrees, Call
    <2>4. Target[c] \in Persistent /\ file'[c] # NoFile => Agrees(c, file[c])'
      BY <1>7, <2>2 DEF Agrees
    <2> QED
      BY <2>1, <2>3, <2>4 DEF ControllerNonces
  <1>9. \A b \in Controller \ {c} : ControllerNonces(b)'
    BY <1>1, <1>7, ControllerNoncesStay DEF NoncesInv
  <1>10. \A d \in Device : DeviceNonces(d)'
    BY <1>1, <1>7, DeviceNoncesStay DEF NoncesInv
  <1>11. \A m \in net' : MessageNonces(m)'
    BY <1>6, <1>7, MessageNoncesStay DEF NoncesInv, MessageNonces
  <1> QED
    BY <1>8, <1>9, <1>10, <1>11 DEF NoncesInv

LEMMA ControllerReceiveNonces ==
    ASSUME IInv, NoncesInv, FirstPairingStep, ~TornWrites,
           NEW c \in Controller, NEW m \in net, ControllerReceive(c, m)
    PROVE  NoncesInv'
  <1>1. /\ TypeOK /\ c \in Node /\ pair[c] \in PairRecord /\ m \in Datagram
        /\ proc[c] \in Call /\ proc[c] # "off" /\ m.dst = c /\ m.sock = SocketOf(c)
        /\ m.sock[1] = c /\ m.sock[2] = starts[c]
        /\ Target[c] \in Device
        /\ \A n \in Device \cup Controller : n \in Node
        /\ \A d \in Device : d # c
    BY NodeAssumption, FabricAssumption
    DEF IInv, TypeOK, ControllerReceive, SocketOf, Node
  <1>2. /\ proc[c] = "pairing" <=> pair[c].state # "PAIRED"
        /\ MessageOK(m) /\ PacketOK(m)
    BY <1>1 DEF IInv, ControllerOK, MessageOK
  <1>3. PICK cp \in Decode(pair[c], m.cp) : \E out \in StateMachine(c, pair[c], cp) :
            ControllerProcess(c, m, cp, out)
    BY DEF ControllerReceive
  <1>4. PICK out \in StateMachine(c, pair[c], cp) : ControllerProcess(c, m, cp, out)
    BY <1>3
  <1>5. out \in Outcome /\ ControllerAnswers(c, pair[c], m, out)
    BY <1>1, ControllerTurn
  <1> DEFINE p    == AfterAnswer(out)
             ans  == Answer(c, m, Target[c], out, NoAction)
             last == Request(c, p, starts[c], "acting", wanted[c])
             p2   == AfterEncode(p, "APP_MESSAGE")
  <1>6. /\ p \in PairRecord /\ p.state = out.pair.state
        /\ p.nonce = out.pair.nonce /\ p.hasNonce = out.pair.hasNonce
        /\ p.mynonce = pair[c].mynonce /\ out.pair.mynonce = pair[c].mynonce
    BY <1>5, AfterAnswerKeeps
    DEF ControllerAnswers, Unmoved, NonceKept, Outcome, PairRecord
  <1> HIDE DEF p
  <1>7. p2.nonce = p.nonce /\ p2.mynonce = p.mynonce
    BY <1>6 DEF AfterEncode, PairRecord
  <1>8. proc[c] = "pairing" => p.mynonce = <<c, starts[c]>>
    BY <1>6 DEF NoncesInv, ControllerNonces
  <1>9. Target[c] \in Persistent /\ proc[c] = "pairing" /\ p.hasNonce = 1
            => p.nonce = FirstNonce(Target[c])
    <2>1. \/ NonceKept(pair[c], out.pair)
          \/ m.cp.cmd = "NONCE_SEND" /\ out.pair.nonce = m.cp.nonce
      BY <1>1, <1>2, ControllerTakesNonce
    <2> QED
      BY <1>1, <1>6, <2>1 DEF NoncesInv, ControllerNonces, MessageNonces, NonceKept
  <1>10. Target[c] \in Persistent /\ p.state = "PAIRED" => Agrees(c, p)
    <2>1. CASE Target[c] \in Persistent /\ pair[c].state = "PAIRED"
      <3>1. proc[c] \in {"listing", "acting"} /\ out.pair = pair[c]
        BY <1>1, <1>2, <1>5, <2>1 DEF ControllerAnswers, Call
      <3> QED
        BY <1>6, <2>1, <3>1 DEF NoncesInv, ControllerNonces, Agrees
    <2>2. CASE Target[c] \in Persistent /\ pair[c].state # "PAIRED" /\ p.state = "PAIRED"
      <3>1. m.cp.cmd = "NONCE_ACK" /\ out.pair.hasNonce = 1
        BY <1>5, <1>6, <2>2 DEF ControllerAnswers, JustPaired, Collected
      <3>2. /\ file[Target[c]] # NoFile
            /\ file[Target[c]].nonce = <<c, starts[c]>>
        BY <1>1, <1>2, <2>2, <3>1
        DEF MessageOK, AckCommitted, Committed, NoncesInv, MessageNonces
      <3>3. file[Target[c]].mynonce = FirstNonce(Target[c])
        BY <1>1, <2>2, <3>2 DEF NoncesInv, DeviceNonces
      <3> QED
        BY <1>2, <1>6, <1>8, <1>9, <2>2, <3>1, <3>2, <3>3 DEF Agrees
    <2> QED
      BY <2>1, <2>2
  <1>11. pair[c].state = "PAIRED" => p.state = "PAIRED"
    BY <1>5, <1>6 DEF ControllerAnswers
  <1>12. proc[c] = "pairing" => out.e = "ERROR_OK"
    BY <1>1, <1>5 DEF ControllerAnswers, SocketOf
  <1>13. /\ starts' = starts
         /\ \A n \in Node \ {c} : /\ proc'[n] = proc[n] /\ pair'[n] = pair[n]
                                  /\ file'[n] = file[n]
    BY <1>1, <1>4 DEF ControllerProcess, Exit, TypeOK
  <1>14. \A b \in Controller \ {c} : ControllerNonces(b)'
    BY <1>1, <1>13, ControllerNoncesStay DEF NoncesInv
  <1>15. \A d \in Device : DeviceNonces(d)'
    BY <1>1, <1>13, DeviceNoncesStay DEF NoncesInv
  <1>16. file'[Target[c]] = file[Target[c]]
    BY <1>1, <1>13
  <1>17. ASSUME NEW r \in ans PROVE MessageNonces(r)'
    <2>1. /\ r.sock = m.sock /\ r.dst = Target[c] /\ r.cp.cmd = out.cmd /\ out.send
          /\ r.cp.cmd = "NONCE_SEND" => r.cp.nonce = out.pair.mynonce
      BY AnswerCarries
    <2>2. r.cp.cmd # "NONCE_ACK" /\ r.dst \notin Controller
      BY <1>1, <1>5, <2>1, NodeAssumption DEF ControllerAnswers, ToDevice
    <2>3. r.cp.cmd = "NONCE_SEND" => proc[c] = "pairing"
      BY <1>1, <1>2, <2>1, ControllerTakesNonce
    <2> QED
      BY <1>1, <1>6, <1>8, <2>1, <2>2, <2>3 DEF MessageNonces
  <1>18. ASSUME NEW r, r = last PROVE MessageNonces(r)'
    <2>1. r.cp.cmd \in {"PAIR_REQUEST", "APP_LIST", "APP_MESSAGE"}
      BY <1>18, RequestOK DEF Call
    <2> QED
      BY <2>1 DEF MessageNonces
  <1>r. PICK r : r = last
    OBVIOUS
  <1>19. \A x \in net' : MessageNonces(x)'
    <2> HIDE DEF ans, last
    <2>1. net' \subseteq Consume(m) \cup ans \cup {last}
      BY <1>4 DEF ControllerProcess, Send, Close, p, ans, last
    <2>2. net' \subseteq net \cup ans \cup {last}
      BY <2>1 DEF Consume
    <2> QED
      BY <1>17, <1>18, <1>r, <2>2, MessageNoncesStay DEF NoncesInv
  <1> HIDE DEF ans, last, p2
  <1>20. ControllerNonces(c)'
    <2>1. CASE proc[c] = "pairing" /\ p.state # "PAIRED" /\ pair' = [pair EXCEPT ![c] = p]
               /\ UNCHANGED <<proc, file>>
      <3>1. pair'[c] = p /\ proc'[c] = "pairing"
        BY <1>1, <2>1 DEF TypeOK
      <3> QED
        BY <1>8, <1>9, <1>13, <2>1, <3>1 DEF NoncesInv, ControllerNonces, Agrees
    <2>2. CASE p.state = "PAIRED" /\ Exit(c, p)
      <3>1. proc'[c] = "off" /\ file'[c] = PairWrite(p)
        BY <1>1, <2>2 DEF Exit, TypeOK
      <3>2. Target[c] \in Persistent => Agrees(c, file[c])'
        BY <1>10, <1>16, <2>2, <3>1 DEF Agrees, PairWrite
      <3> QED
        BY <3>1, <3>2 DEF ControllerNonces
    <2>3. CASE proc[c] = "listing" /\ proc' = [proc EXCEPT ![c] = "acting"]
               /\ pair' = [pair EXCEPT ![c] = p2] /\ UNCHANGED file
      <3>1. pair'[c] = p2 /\ proc'[c] = "acting"
        BY <1>1, <2>3 DEF TypeOK
      <3>2. p.state = "PAIRED"
        BY <1>2, <1>11, <2>3
      <3> QED
        BY <1>7, <1>10, <2>3, <3>1, <3>2 DEF NoncesInv, ControllerNonces, Agrees
    <2> QED
      BY <1>2, <1>4, <1>11, <1>12, <2>1, <2>2, <2>3 DEF ControllerProcess, p, p2
  <1> QED
    BY <1>14, <1>15, <1>19, <1>20 DEF NoncesInv

LEMMA StopNonces ==
    ASSUME IInv, NoncesInv, FirstPairingStep, ~EarlyStops, NEW n \in Node, Stop(n)
    PROVE  NoncesInv'
  <1>1. /\ TypeOK /\ \A x \in Device \cup Controller : x \in Node
        /\ \A d \in Device : d \notin Controller
    BY NodeAssumption DEF IInv, Node
  <1>2. /\ proc'[n] = "off" /\ starts' = starts /\ file' = file
        /\ net' \subseteq net
        /\ \A x \in Node \ {n} : proc'[x] = proc[x] /\ pair'[x] = pair[x]
    BY <1>1 DEF Stop, Close, TypeOK
  <1>3. \A d \in Device : DeviceNonces(d)'
    <2> SUFFICES ASSUME NEW d \in Device, d = n PROVE DeviceNonces(d)'
      BY <1>1, <1>2, DeviceNoncesStay DEF NoncesInv
    <2>1. d \in Persistent => file[d] # NoFile
      BY <1>1 DEF Stop, IInv, DeviceOK, TypeOK
    <2> QED
      BY <1>2, <2>1 DEF NoncesInv, DeviceNonces
  <1>4. \A c \in Controller : ControllerNonces(c)'
    <2> SUFFICES ASSUME NEW c \in Controller, c = n PROVE ControllerNonces(c)'
      BY <1>1, <1>2, ControllerNoncesStay DEF NoncesInv
    <2> QED
      BY <1>2 DEF NoncesInv, ControllerNonces, Agrees
  <1>5. \A m \in net' : MessageNonces(m)'
    BY <1>2, MessageNoncesStay DEF NoncesInv
  <1> QED
    BY <1>3, <1>4, <1>5 DEF NoncesInv

LEMMA NoncesStep ==
    ASSUME ~EarlyStops, ~TornWrites
    PROVE  IInv /\ NoncesInv /\ [Next]_vars => NoncesInv'
  <1> SUFFICES ASSUME IInv, NoncesInv, [Next]_vars PROVE NoncesInv'
    OBVIOUS
  <1>1. FirstPairingStep
    BY FirstPairingKept
  <1>2. CASE \E d \in Device : DeviceStart(d)
    BY <1>1, <1>2, DeviceStartNonces
  <1>3. CASE \E d \in Device : \E m \in net : DeviceReceive(d, m)
    BY <1>1, <1>3, DeviceReceiveNonces
  <1>4. CASE \E c \in Controller : \E act \in Command : ControllerStart(c, act)
    BY <1>1, <1>4, ControllerStartNonces
  <1>5. CASE \E c \in Controller : \E m \in net : ControllerReceive(c, m)
    BY <1>1, <1>5, ControllerReceiveNonces
  <1>6. CASE \E n \in Node : Stop(n)
    BY <1>1, <1>6, StopNonces
  <1>7. CASE net' \subseteq net /\ UNCHANGED <<proc, starts, pair, file>>
    BY <1>7 DEF NoncesInv, DeviceNonces, ControllerNonces, MessageNonces, Agrees
  <1>8. CASE UNCHANGED vars
    BY <1>7, <1>8 DEF vars
  <1>9. CASE \E m \in net : Lose(m)
    BY <1>7, <1>9 DEF Lose
  <1> QED
    BY <1>2, <1>3, <1>4, <1>5, <1>6, <1>8, <1>9 DEF Next

\* The two ends of a saved pairing hold each other's nonce, whatever a network
\* that loses, delays, reorders and repeats delivers to them.
THEOREM NoncesAgree ==
    ASSUME ~EarlyStops, ~TornWrites
    PROVE  Spec => []NonceAgreement
  <1>1. Init => NoncesInv
    BY InitNonces
  <1>2. IInv /\ NoncesInv /\ [Next]_vars => NoncesInv'
    BY NoncesStep
  <1>3. NoncesInv => NonceAgreement
    BY DEF NoncesInv, ControllerNonces, Agrees, NonceAgreement
  <1> QED
    BY <1>1, <1>2, <1>3, Invariance, PTL DEF Spec

-----------------------------------------------------------------------------
(* Only sending spends serials.                                            *)

LEMMA HandlersKeepSerial ==
    ASSUME NEW n \in Node, NEW p \in PairRecord, NEW cp \in Packet
    PROVE  Handle(n, p, cp).pair.serial = p.serial
  <1> DEFINE Kept == {q \in PairRecord : q.serial = p.serial}
  <1>1. p \in Kept /\ \A q \in Kept : \A s \in State : [q EXCEPT !.state = s] \in Kept
    BY DEF PairRecord
  <1>2. {"UNCONFIGURED", "PUBLICKEY_SETUP", "NONCE_SETUP", "CONFIGURED_SYN",
         "CONFIGURED_SYNACK", "PAIRED"} \subseteq State
    BY DEF State
  <1>3. ASSUME NEW q, NEW cmd, NEW flags
        PROVE  Reply(q, cmd, flags).pair = q /\ NoReply(q).pair = q
    BY DEF Reply, NoReply
  <1> HIDE DEF Kept
  <1>4. /\ PairRequestReset(p).pair \in Kept
        /\ PublickeyRequest(p).pair \in Kept
        /\ PublickeyAck(p).pair \in Kept
        /\ NonceRequest(p).pair \in Kept
        /\ NonceAck(p).pair \in Kept
        /\ Verify(p, cp.cmd).pair \in Kept
        /\ AppMessage(p, cp).pair \in Kept
        /\ AppList(p).pair \in Kept
    <2>1. PairRequestReset(p).pair \in Kept
      BY <1>1, <1>2, <1>3 DEF PairRequestReset
    <2>2. PublickeyRequest(p).pair \in Kept
      BY <1>1, <1>3 DEF PublickeyRequest
    <2>3. PublickeyAck(p).pair \in Kept
      BY <1>1, <1>2, <1>3 DEF PublickeyAck
    <2>4. NonceRequest(p).pair \in Kept
      BY <1>1, <1>2, <1>3 DEF NonceRequest
    <2>5. NonceAck(p).pair \in Kept
      BY <1>1, <1>2, <1>3 DEF NonceAck
    <2>6. Verify(p, cp.cmd).pair \in Kept
      BY <1>1, <1>2, <1>3 DEF Verify
    <2>7. AppMessage(p, cp).pair \in Kept /\ AppList(p).pair \in Kept
      BY <1>1, <1>3 DEF AppMessage, AppList
    <2> QED
      BY <2>1, <2>2, <2>3, <2>4, <2>5, <2>6, <2>7
  <1> DEFINE named  == [p EXCEPT !.uuid = cp.from]
             asked  == [p EXCEPT !.state = "PUBLICKEY_SETUP", !.uuid = cp.from]
             keyed  == [p EXCEPT !.publickey = cp.publickey, !.hasPublicKey = 1,
                                 !.sharedkey = SharedSecret(n, cp.publickey)]
             nonced == [p EXCEPT !.nonce = cp.nonce, !.hasNonce = 1]
  <1>a. /\ cp.from \in Node \cup {Nil} /\ cp.nonce \in Nonce /\ 1 \in 0..1
        /\ cp.publickey \in Node \cup {Nil}
        /\ SharedSecret(n, cp.publickey) \in SUBSET Node
    BY SharedSecretType DEF Packet
  <1>b. named \in Kept
    BY <1>a DEF PairRecord, Kept
  <1>c. asked \in Kept
    BY <1>2, <1>a DEF PairRecord, Kept
  <1>5. nonced \in Kept
    BY <1>a DEF PairRecord, Kept
  <1>6. keyed \in Kept
    BY <1>a DEF PairRecord, Kept
  <1>7. PairRequest(p, cp).pair \in Kept
    <2>1. PairRequest(p, cp) \in
            {Reply([named EXCEPT !.state = "PUBLICKEY_SETUP"], "PAIR_REQUEST_ACK", 0),
             Reply(named, "FAIL", 0)}
      BY DEF PairRequest
    <2> HIDE DEF named
    <2> QED
      BY <2>1, <1>1, <1>2, <1>3, <1>b
  <1>8. PairRequestAck(p, cp).pair \in Kept
    BY <1>1, <1>3, <1>c DEF PairRequestAck
  <1>9. PublickeySend(n, p, cp).pair \in Kept
    <2>1. PublickeySend(n, p, cp) \in
            {NoReply(p), Reply([keyed EXCEPT !.state = "NONCE_SETUP"], "PUBLICKEY_ACK", 1),
             Reply(keyed, "PUBLICKEY_SEND", 1)}
      BY DEF PublickeySend
    <2> HIDE DEF keyed
    <2> QED
      BY <2>1, <1>1, <1>2, <1>3, <1>6
  <1>10. NonceSend(p, cp).pair \in Kept
    <2>1. NonceSend(p, cp) \in
            {NoReply(p), Reply([nonced EXCEPT !.state = "PAIRED"], "NONCE_ACK", 0),
             Reply(nonced, "NONCE_SEND", 1)}
      BY DEF NonceSend
    <2> HIDE DEF nonced
    <2> QED
      BY <2>1, <1>1, <1>2, <1>3, <1>5
  <1> HIDE DEF named, asked, keyed, nonced
  <1> QED
    <2>1. Handle(n, p, cp).pair \in Kept
      BY <1>1, <1>3, <1>4, <1>7, <1>8, <1>9, <1>10 DEF Handle
    <2> QED
      BY <2>1 DEF Kept

\* What a node remembers after an answer, and what the answer carries.
LEMMA AnswerSpends ==
    ASSUME NEW n \in Node, NEW p \in PairRecord, NEW cp \in Packet,
           NEW out \in StateMachine(n, p, cp), NEW m, NEW peer, NEW act
    PROVE  LET q == AfterAnswer(out) IN
           /\ q.serial \in Nat /\ p.serial \in Nat /\ p.serial <= q.serial
           /\ \A r \in Answer(n, m, peer, out, act) :
                /\ r.sock = m.sock /\ r.dst = peer
                /\ r.cp.kind = PacketType(out.cmd)
                /\ r.cp.kind = "DATA" => r.cp.serial = q.serial
  <1> DEFINE q == AfterAnswer(out)
  <1>1. out \in Outcome /\ out.pair \in PairRecord
    BY StateMachineType DEF Outcome
  <1>2. out.pair.serial = p.serial /\ p.serial \in Nat
    BY HandlersKeepSerial DEF StateMachine, PairRecord
  <1>3. /\ out.send /\ PacketType(out.cmd) = "DATA" => q.serial = p.serial + 1
        /\ ~out.send \/ PacketType(out.cmd) # "DATA" => q.serial = p.serial
    BY <1>1, <1>2 DEF AfterAnswer, AfterEncode, PairRecord
  <1> HIDE DEF q
  <1>4. ASSUME NEW r \in Answer(n, m, peer, out, act)
        PROVE  /\ r.sock = m.sock /\ r.dst = peer
               /\ r.cp.kind = PacketType(out.cmd)
               /\ r.cp.kind = "DATA" => r.cp.serial = q.serial
    <2>1. /\ r.sock = m.sock /\ r.dst = peer /\ out.send
          /\ r.cp = Encode(n, out.pair, out.cmd, out.flags, out.to, out.from, act)
      BY DEF Answer
    <2>2. /\ r.cp.kind = PacketType(out.cmd)
          /\ r.cp.kind = "DATA" => r.cp.serial = out.pair.serial + 1
      BY <2>1 DEF Encode
    <2> QED
      BY <1>2, <1>3, <2>1, <2>2
  <1>5. q.serial \in Nat /\ p.serial <= q.serial
    BY <1>2, <1>3
  <1> QED
    BY <1>2, <1>4, <1>5 DEF q

-----------------------------------------------------------------------------
(* The invariant: the serials in flight against their sender, and that     *)
(* nothing is sealed before there is a pairing.                            *)

Spent(m) ==
    LET n == Sender(m) IN
    IF proc[n] = "off" THEN file[n] # NoFile /\ m.cp.serial <= file[n].serial
                       ELSE proc[n] # "pairing" /\ m.cp.serial <= pair[n].serial

SpentInv ==
    /\ \A d \in Device : proc[d] = "on"
    /\ \A m \in net : m.cp.kind = "DATA" => Spent(m)

\* The sender of a datagram that has the right direction.
LEMMA SenderOK ==
    ASSUME NEW m \in Datagram, DirectionOK(m)
    PROVE  /\ Sender(m) \in Node
           /\ m.dst \in Device => Sender(m) = m.sock[1] /\ Sender(m) \in Controller
           /\ m.dst \notin Device => Sender(m) = Target[m.sock[1]] /\ Sender(m) \in Device
  BY NodeAssumption, FabricAssumption DEF Datagram, Socket, DirectionOK, Sender, Node

\* A serial stays spent when its sender does nothing.
LEMMA SpentStays ==
    ASSUME NEW m, Spent(m),
           proc'[Sender(m)] = proc[Sender(m)], pair'[Sender(m)] = pair[Sender(m)],
           file'[Sender(m)] = file[Sender(m)]
    PROVE  Spent(m)'
  BY DEF Spent, Sender

LEMMA InitSpent == Init => SpentInv
  BY DEF Init, SpentInv, Node

LEMMA DeviceReceiveSpent ==
    ASSUME IInv, SpentInv, ~TornWrites, NEW d \in Device, NEW m \in net, DeviceReceive(d, m)
    PROVE  SpentInv'
  <1>1. /\ TypeOK /\ d \in Node /\ pair[d] \in PairRecord /\ m \in Datagram
        /\ m.cp \in Packet /\ m.dst = d /\ proc[d] = "on" /\ PacketOK(m)
    BY DEF IInv, TypeOK, DeviceReceive, Datagram, Node, MessageOK
  <1>2. m.sock[1] \in Controller /\ m.sock[1] \notin Device /\ d = Target[m.sock[1]]
    BY <1>1, NodeAssumption DEF PacketOK, DirectionOK, Datagram, Socket
  <1>3. PICK cp \in Decode(pair[d], m.cp) : \E out \in StateMachine(d, pair[d], cp) :
            DeviceProcess(d, m, cp, out)
    BY DEF DeviceReceive
  <1>4. PICK out \in StateMachine(d, pair[d], cp) : DeviceProcess(d, m, cp, out)
    BY <1>3
  <1> DEFINE q == AfterAnswer(out)
  <1>5. PICK act : /\ pair' = [pair EXCEPT ![d] = q]
                   /\ file' \in {file, [file EXCEPT ![d] = PairWrite(out.pair)]}
                   /\ net' = Consume(m) \cup Send(Answer(d, m, m.sock[1], out, act))
                   /\ UNCHANGED proc
    BY <1>4 DEF DeviceProcess
  <1>6. cp \in Packet
    BY <1>1, DecodeType
  <1>7. /\ q.serial \in Nat /\ pair[d].serial \in Nat /\ pair[d].serial <= q.serial
        /\ \A r \in Answer(d, m, m.sock[1], out, act) :
             /\ r.sock = m.sock /\ r.dst = m.sock[1]
             /\ r.cp.kind = "DATA" => r.cp.serial = q.serial
    BY <1>1, <1>6, AnswerSpends
  <1> HIDE DEF q
  <1>8. /\ pair'[d] = q /\ proc' = proc
        /\ \A n \in Node \ {d} : pair'[n] = pair[n] /\ file'[n] = file[n]
    BY <1>1, <1>5 DEF TypeOK
  <1>9. ASSUME NEW r \in net, r.cp.kind = "DATA" PROVE Spent(r)'
    <2>1. /\ Spent(r) /\ r \in Datagram /\ DirectionOK(r) /\ r.cp.serial \in Nat
      BY <1>1, <1>9 DEF SpentInv, TypeOK, IInv, MessageOK, PacketOK, Datagram, Packet
    <2>2. CASE Sender(r) = d
      BY <1>1, <1>7, <1>8, <2>1, <2>2 DEF Spent, Sender
    <2>3. CASE Sender(r) # d
      BY <1>8, <2>1, <2>3, SenderOK, SpentStays
    <2> QED
      BY <2>2, <2>3
  <1>10. ASSUME NEW r \in Answer(d, m, m.sock[1], out, act), r.cp.kind = "DATA"
         PROVE  Spent(r)'
    <2>1. Sender(r) = d /\ Sender(r)' = d /\ r.cp.serial = q.serial
      BY <1>2, <1>7, <1>10 DEF Sender
    <2> QED
      BY <1>1, <1>7, <1>8, <2>1 DEF Spent
  <1> QED
    BY <1>5, <1>8, <1>9, <1>10 DEF SpentInv, Consume, Send

LEMMA ControllerStartSpent ==
    ASSUME IInv, SpentInv, NEW c \in Controller, NEW act \in Command,
           ControllerStart(c, act)
    PROVE  SpentInv'
  <1> DEFINE run  == starts[c] + 1
             p    == PairRead(c, PairInit(<<c, run>>), file[c])
             call == IF file[c] = NoFile THEN "pairing" ELSE "listing"
             q    == AfterEncode(p, RequestCmd(call))
  <1>1. /\ TypeOK /\ c \in Node /\ c \notin Device /\ starts[c] \in Nat /\ run \in Nat
        /\ file[c] \in PairFile /\ proc[c] = "off"
    BY NodeAssumption DEF IInv, TypeOK, Node, ControllerStart
  <1>2. p \in PairRecord
    <2>1. <<c, run>> \in Nonce
      BY <1>1 DEF Nonce
    <2> QED
      BY <1>1, <2>1, PairInitType, PairReadType
  <1>3. file[c] # NoFile => p.serial = file[c].serial
    BY DEF PairRead
  <1> HIDE DEF p
  <1>4. /\ p.serial \in Nat /\ p.serial <= q.serial /\ q.serial \in Nat
        /\ call = "listing" => q.serial = p.serial + 1
    BY <1>2 DEF AfterEncode, PairRecord, RequestCmd, PacketType, AppCmd
  <1>r. PICK r : r = Request(c, p, run, call, NoAction)
    OBVIOUS
  <1>5. /\ r.dst = Target[c] /\ r.sock[1] = c
        /\ r.cp.kind = "DATA" => call = "listing" /\ r.cp.serial = p.serial + 1
    BY <1>r DEF Request, Encode, RequestCmd, PacketType, AppCmd
  <1>6. call \in {"pairing", "listing"} /\ (call = "pairing" <=> file[c] = NoFile)
    OBVIOUS
  <1> HIDE DEF run, call, q
  <1>7. /\ proc'[c] = call /\ pair'[c] = q /\ file' = file /\ net' \subseteq net \cup {r}
        /\ \A n \in Node \ {c} : proc'[n] = proc[n] /\ pair'[n] = pair[n]
    BY <1>1, <1>r DEF ControllerStart, Send, TypeOK, p, run, call, q
  <1>8. ASSUME NEW m \in net, m.cp.kind = "DATA" PROVE Spent(m)'
    <2>1. /\ Spent(m) /\ m \in Datagram /\ DirectionOK(m) /\ m.cp.serial \in Nat
      BY <1>1, <1>8 DEF SpentInv, TypeOK, IInv, MessageOK, PacketOK, Datagram, Packet
    <2>2. CASE Sender(m) = c
      <3>1. file[c] # NoFile /\ m.cp.serial <= file[c].serial
        BY <1>1, <2>1, <2>2 DEF Spent
      <3>2. proc'[c] = "listing" /\ m.cp.serial <= pair'[c].serial
        BY <1>3, <1>4, <1>6, <1>7, <2>1, <3>1
      <3> QED
        BY <2>2, <3>2 DEF Spent, Sender
    <2>3. CASE Sender(m) # c
      BY <1>7, <2>1, <2>3, SenderOK, SpentStays
    <2> QED
      BY <2>2, <2>3
  <1>9. r.cp.kind = "DATA" => Spent(r)'
    <2>1. r.cp.kind = "DATA" => proc'[c] = "listing" /\ r.cp.serial = pair'[c].serial
      BY <1>4, <1>5, <1>7
    <2>2. Sender(r)' = c
      BY <1>5, FabricAssumption DEF Sender
    <2> QED
      BY <1>4, <1>7, <2>1, <2>2 DEF Spent
  <1>10. \A d \in Device : d \in Node \ {c}
    BY <1>1 DEF Node
  <1> QED
    BY <1>7, <1>8, <1>9, <1>10 DEF SpentInv

LEMMA ControllerReceiveSpent ==
    ASSUME IInv, SpentInv, ~TornWrites,
           NEW c \in Controller, NEW m \in net, ControllerReceive(c, m)
    PROVE  SpentInv'
  <1>1. /\ TypeOK /\ c \in Node /\ c \notin Device /\ pair[c] \in PairRecord
        /\ m \in Datagram /\ m.cp \in Packet
        /\ proc[c] \in Call /\ proc[c] # "off" /\ m.dst = c /\ m.sock = SocketOf(c)
        /\ m.sock[1] = c
    BY NodeAssumption DEF IInv, TypeOK, ControllerReceive, SocketOf, Datagram, Node
  <1>2. PICK cp \in Decode(pair[c], m.cp) : \E out \in StateMachine(c, pair[c], cp) :
            ControllerProcess(c, m, cp, out)
    BY DEF ControllerReceive
  <1>3. PICK out \in StateMachine(c, pair[c], cp) : ControllerProcess(c, m, cp, out)
    BY <1>2
  <1>4. out \in Outcome /\ ControllerAnswers(c, pair[c], m, out)
    BY <1>1, ControllerTurn
  <1>5. cp \in Packet
    BY <1>1, DecodeType
  <1> DEFINE p    == AfterAnswer(out)
             ans  == Answer(c, m, Target[c], out, NoAction)
             last == Request(c, p, starts[c], "acting", wanted[c])
             p2   == AfterEncode(p, "APP_MESSAGE")
  <1>6. /\ p.serial \in Nat /\ pair[c].serial \in Nat /\ pair[c].serial <= p.serial
        /\ \A r \in ans : r.cp.kind = PacketType(out.cmd)
    BY <1>1, <1>5, AnswerSpends
  <1>7. p \in PairRecord
    BY <1>4, AfterAnswerKeeps
  <1> HIDE DEF p
  <1>8. p2.serial = p.serial + 1
    BY <1>7 DEF AfterEncode, PairRecord, PacketType, AppCmd
  <1>9. \A r \in ans : r.cp.kind # "DATA"
    <2> SUFFICES ASSUME NEW r \in ans PROVE PacketType(out.cmd) # "DATA"
      BY <1>6
    <2>1. out.send
      BY DEF Answer
    <2> QED
      BY <1>4, <2>1 DEF ControllerAnswers, PacketType, AppCmd
  <1>10. ASSUME NEW r, r = last
         PROVE  r.dst = Target[c] /\ r.sock[1] = c /\ r.cp.serial = p.serial + 1
    BY <1>10 DEF Request, Encode, RequestCmd, PacketType, AppCmd
  <1> HIDE DEF ans, last, p2
  <1>11. \A n \in Node \ {c} : /\ proc'[n] = proc[n] /\ pair'[n] = pair[n]
                               /\ file'[n] = file[n]
    BY <1>1, <1>3 DEF ControllerProcess, Exit, TypeOK
  <1>12. /\ net' \subseteq net \cup ans \cup {last}
         /\ proc[c] # "listing" => net' \subseteq net \cup ans
    BY <1>3 DEF ControllerProcess, Consume, Send, Close, p, ans, last
  <1>13. \/ proc'[c] = proc[c] /\ pair'[c] = p /\ proc[c] = "pairing"
         \/ proc'[c] = "off" /\ file'[c] = PairWrite(p) /\ proc[c] # "listing"
         \/ proc[c] = "listing" /\ proc'[c] = "acting" /\ pair'[c] = p2
    BY <1>1, <1>3 DEF ControllerProcess, Exit, TypeOK, p, p2
  <1>14. PairWrite(p) # NoFile /\ PairWrite(p).serial = p.serial
    BY <1>7, PairWriteType DEF PairWrite
  <1>15. ASSUME NEW r \in net, r.cp.kind = "DATA" PROVE Spent(r)'
    <2>1. /\ Spent(r) /\ r \in Datagram /\ DirectionOK(r) /\ r.cp.serial \in Nat
      BY <1>1, <1>15 DEF SpentInv, TypeOK, IInv, MessageOK, PacketOK, Datagram, Packet
    <2>2. CASE Sender(r) = c
      <3>1. proc[c] # "pairing" /\ r.cp.serial <= pair[c].serial
        BY <1>1, <2>1, <2>2 DEF Spent
      <3>2. IF proc'[c] = "off" THEN file'[c] # NoFile /\ r.cp.serial <= file'[c].serial
                                ELSE proc'[c] # "pairing" /\ r.cp.serial <= pair'[c].serial
        BY <1>6, <1>8, <1>13, <1>14, <2>1, <3>1
      <3> QED
        BY <2>2, <3>2 DEF Spent, Sender
    <2>3. CASE Sender(r) # c
      BY <1>11, <2>1, <2>3, SenderOK, SpentStays
    <2> QED
      BY <2>2, <2>3
  <1>16. ASSUME NEW r, r = last, proc[c] = "listing" PROVE Spent(r)'
    <2>1. Sender(r)' = c
      BY <1>10, <1>16, FabricAssumption DEF Sender
    <2>2. proc'[c] = "acting" /\ pair'[c].serial = p.serial + 1
      BY <1>8, <1>13, <1>16
    <2> QED
      BY <1>6, <1>10, <1>16, <2>1, <2>2 DEF Spent
  <1>17. \A d \in Device : d \in Node \ {c}
    BY <1>1 DEF Node
  <1>r. PICK r : r = last
    OBVIOUS
  <1> QED
    BY <1>9, <1>11, <1>12, <1>15, <1>16, <1>17, <1>r DEF SpentInv

LEMMA SpentStep ==
    ASSUME Killable = {}, ~TornWrites
    PROVE  IInv /\ SpentInv /\ [Next]_vars => SpentInv'
  <1> SUFFICES ASSUME IInv, SpentInv, [Next]_vars PROVE SpentInv'
    OBVIOUS
  <1>1. ~ \E d \in Device : DeviceStart(d)
    BY DEF SpentInv, DeviceStart
  <1>2. CASE \E d \in Device : \E m \in net : DeviceReceive(d, m)
    BY <1>2, DeviceReceiveSpent
  <1>3. CASE \E c \in Controller : \E act \in Command : ControllerStart(c, act)
    BY <1>3, ControllerStartSpent
  <1>4. CASE \E c \in Controller : \E m \in net : ControllerReceive(c, m)
    BY <1>4, ControllerReceiveSpent
  <1>5. ~ \E n \in Node : Stop(n)
    BY DEF Stop
  <1>6. CASE net' \subseteq net /\ UNCHANGED <<proc, pair, file>>
    BY <1>6 DEF SpentInv, Spent, Sender
  <1>7. CASE UNCHANGED vars
    BY <1>6, <1>7 DEF vars
  <1>8. CASE \E m \in net : Lose(m)
    BY <1>6, <1>8 DEF Lose
  <1> QED
    BY <1>1, <1>2, <1>3, <1>4, <1>5, <1>7, <1>8 DEF Next

\* No serial in flight is used again: its sender, in memory or in its pair
\* file, is past it, for as long as nothing is killed.
THEOREM SerialsSpentCorrect ==
    ASSUME Killable = {}, ~TornWrites
    PROVE  Spec => []SerialsSpent
  <1>1. Init => SpentInv
    BY InitSpent
  <1>2. IInv /\ SpentInv /\ [Next]_vars => SpentInv'
    BY SpentStep
  <1>3. SpentInv => SerialsSpent
    BY DEF SpentInv, Spent, SerialsSpent
  <1> QED
    BY <1>1, <1>2, <1>3, Invariance, PTL DEF Spec

-----------------------------------------------------------------------------
(* What a handler may learn from a packet.                                 *)

LEMMA HandlersLearn ==
    ASSUME NEW n \in Node, NEW p \in PairRecord, NEW cp \in Packet
    PROVE  LET q == Handle(n, p, cp).pair IN
           /\ \/ q.uuid = p.uuid
              \/ cp.cmd \in {"PAIR_REQUEST", "PAIR_REQUEST_ACK"} /\ q.uuid = cp.from
           /\ \/ q.publickey = p.publickey
              \/ /\ cp.cmd = "PUBLICKEY_SEND" /\ p.state = "PUBLICKEY_SETUP"
                 /\ q.publickey = cp.publickey
           /\ \/ q.nonce = p.nonce
              \/ /\ cp.cmd = "NONCE_SEND" /\ p.state = "NONCE_SETUP"
                 /\ q.nonce = cp.nonce
  <1> DEFINE named == [p EXCEPT !.uuid = cp.from]
             keyed == [p EXCEPT !.publickey = cp.publickey, !.hasPublicKey = 1,
                                !.sharedkey = SharedSecret(n, cp.publickey)]
             nonced == [p EXCEPT !.nonce = cp.nonce, !.hasNonce = 1]
             h == Handle(n, p, cp)
             Same == {q \in PairRecord : /\ q.uuid = p.uuid /\ q.publickey = p.publickey
                                         /\ q.nonce = p.nonce}
  <1>1. p \in Same /\ \A q \in Same : \A s \in State : [q EXCEPT !.state = s] \in Same
    BY DEF PairRecord
  <1>2. {"UNCONFIGURED", "PUBLICKEY_SETUP", "NONCE_SETUP", "CONFIGURED_SYN",
         "CONFIGURED_SYNACK", "PAIRED"} \subseteq State
    BY DEF State
  <1>3. ASSUME NEW q, NEW cmd, NEW flags
        PROVE  Reply(q, cmd, flags).pair = q /\ NoReply(q).pair = q
    BY DEF Reply, NoReply
  <1>4. CASE cp.cmd \in {"PAIR_REQUEST", "PAIR_REQUEST_ACK"}
    <2>1. h.pair \in {p, named, [named EXCEPT !.state = "PUBLICKEY_SETUP"],
                      [p EXCEPT !.state = "PUBLICKEY_SETUP", !.uuid = cp.from]}
      <3>1. CASE cp.cmd = "PAIR_REQUEST"
        <4>1. h = PairRequest(p, cp)
          BY <3>1, HandleByCmd
        <4>2. h \in {Reply([named EXCEPT !.state = "PUBLICKEY_SETUP"], "PAIR_REQUEST_ACK", 0),
                     Reply(named, "FAIL", 0)}
          BY <4>1 DEF PairRequest
        <4> HIDE DEF h, named
        <4> QED
          BY <1>3, <4>2
      <3>2. CASE cp.cmd = "PAIR_REQUEST_ACK"
        <4>1. h = PairRequestAck(p, cp)
          BY <3>2, HandleByCmd
        <4>2. h \in {Reply([p EXCEPT !.state = "PUBLICKEY_SETUP", !.uuid = cp.from],
                           "PUBLICKEY_REQUEST", 0), NoReply(p)}
          BY <4>1 DEF PairRequestAck
        <4> HIDE DEF h
        <4> QED
          BY <1>3, <4>2
      <3> QED
        BY <1>4, <3>1, <3>2
    <2> HIDE DEF h
    <2>2. /\ h.pair.uuid \in {p.uuid, cp.from} /\ h.pair.publickey = p.publickey
          /\ h.pair.nonce = p.nonce
      BY <2>1 DEF PairRecord
    <2> QED
      BY <1>4, <2>2 DEF h
  <1>5. CASE cp.cmd = "PUBLICKEY_SEND"
    <2>1. \/ h.pair = p
          \/ /\ p.state = "PUBLICKEY_SETUP"
             /\ h.pair \in {keyed, [keyed EXCEPT !.state = "NONCE_SETUP"]}
      <3>1. h = PublickeySend(n, p, cp)
        BY <1>5, HandleByCmd
      <3>2. \/ h = NoReply(p)
            \/ /\ p.state = "PUBLICKEY_SETUP"
               /\ h \in {Reply([keyed EXCEPT !.state = "NONCE_SETUP"], "PUBLICKEY_ACK", 1),
                         Reply(keyed, "PUBLICKEY_SEND", 1)}
        BY <3>1 DEF PublickeySend
      <3> HIDE DEF h, keyed
      <3> QED
        BY <1>3, <3>2
    <2> HIDE DEF h
    <2>2. \/ h.pair = p
          \/ /\ p.state = "PUBLICKEY_SETUP" /\ h.pair.publickey = cp.publickey
             /\ h.pair.uuid = p.uuid /\ h.pair.nonce = p.nonce
      BY <2>1 DEF PairRecord
    <2> QED
      BY <1>5, <2>2 DEF h
  <1>6. CASE cp.cmd = "NONCE_SEND"
    <2>1. \/ h.pair = p
          \/ /\ p.state = "NONCE_SETUP"
             /\ h.pair \in {nonced, [nonced EXCEPT !.state = "PAIRED"]}
      <3>1. h = NonceSend(p, cp)
        BY <1>6, HandleByCmd
      <3>2. \/ h = NoReply(p)
            \/ /\ p.state = "NONCE_SETUP"
               /\ h \in {Reply([nonced EXCEPT !.state = "PAIRED"], "NONCE_ACK", 0),
                         Reply(nonced, "NONCE_SEND", 1)}
        BY <3>1 DEF NonceSend
      <3> HIDE DEF h, nonced
      <3> QED
        BY <1>3, <3>2
    <2> HIDE DEF h
    <2>2. \/ h.pair = p
          \/ /\ p.state = "NONCE_SETUP" /\ h.pair.nonce = cp.nonce
             /\ h.pair.uuid = p.uuid /\ h.pair.publickey = p.publickey
      BY <2>1 DEF PairRecord
    <2> QED
      BY <1>6, <2>2 DEF h
  <1>7. CASE cp.cmd \notin {"PAIR_REQUEST", "PAIR_REQUEST_ACK", "PUBLICKEY_SEND", "NONCE_SEND"}
    <2>1. \A cmd : Verify(p, cmd).pair \in Same
      BY <1>1, <1>2, <1>3 DEF Verify
    <2>2. /\ PairRequestReset(p).pair \in Same /\ Reply(p, "HELLO_ACK", 0).pair \in Same
          /\ PublickeyRequest(p).pair \in Same /\ PublickeyAck(p).pair \in Same
          /\ NonceRequest(p).pair \in Same /\ NonceAck(p).pair \in Same
          /\ AppMessage(p, cp).pair \in Same /\ AppList(p).pair \in Same
          /\ NoReply(p).pair \in Same
      BY <1>1, <1>2, <1>3
      DEF PairRequestReset, PublickeyRequest, PublickeyAck, NonceRequest, NonceAck,
          AppMessage, AppList
    <2>3. h.pair \in Same
      BY <1>7, <2>1, <2>2 DEF Handle
    <2> QED
      BY <2>3
  <1> QED
    BY <1>4, <1>5, <1>6, <1>7

\* What a node learns from a datagram is what it says, or who it is from.
LEMMA NodeLearns ==
    ASSUME NEW n \in Node, NEW p \in PairRecord, NEW m \in Datagram, PacketOK(m),
           NEW cp \in Decode(p, m.cp), NEW out \in StateMachine(n, p, cp)
    PROVE  LET q == AfterAnswer(out) IN
           /\ \/ q.uuid = p.uuid
              \/ m.cp.cmd \in {"PAIR_REQUEST", "PAIR_REQUEST_ACK"} /\ q.uuid = m.cp.from
           /\ \/ q.publickey = p.publickey
              \/ /\ m.cp.cmd = "PUBLICKEY_SEND" /\ p.state = "PUBLICKEY_SETUP"
                 /\ q.publickey = m.cp.publickey
           /\ \/ q.nonce = p.nonce
              \/ p.state = "NONCE_SETUP"
  <1>1. /\ cp \in Packet /\ cp.cmd \in {m.cp.cmd, "PACKET_DECRYPT_FAILED"}
        /\ cp.from = m.cp.from
        /\ cp.cmd \notin AppCmd \cup {"PACKET_DECRYPT_FAILED"} => cp = m.cp
    BY Decoded
  <1>2. out \in Outcome
    BY <1>1, StateMachineType
  <1>3. /\ AfterAnswer(out).uuid = out.pair.uuid
        /\ AfterAnswer(out).publickey = out.pair.publickey
        /\ AfterAnswer(out).nonce = out.pair.nonce
    BY <1>2, AfterAnswerKeeps DEF KeyKept, NonceKept
  <1>4. CASE InvalidDest(n, cp)
    BY <1>3, <1>4 DEF StateMachine
  <1>5. CASE ~InvalidDest(n, cp)
    <2>1. out.pair = Handle(n, p, cp).pair
      BY <1>5 DEF StateMachine
    <2> QED
      BY <1>1, <1>3, <2>1, HandlersLearn DEF AppCmd
  <1> QED
    BY <1>4, <1>5

-----------------------------------------------------------------------------
(* One call: the request, the device that takes it, the answer.            *)

\* Every device a controller is pointed at has a pair file.
TargetsSave == \A c \in Controller : Target[c] \in Persistent

\* In a call the two ends share the key and know each other's nonce.
LEMMA Session ==
    ASSUME TargetsSave, IInv, NoncesInv, CallsInv,
           NEW c \in Controller, proc[c] \in {"listing", "acting"}
    PROVE  LET d == Target[c] IN
           /\ pair[c].state = "PAIRED" /\ pair[c].uuid = d /\ pair[c].sharedkey = {c, d}
           /\ Committed(d, c)
           /\ proc[d] = "on" =>
                /\ pair[d].state = "PAIRED" /\ pair[d].sharedkey = {c, d}
                /\ pair[d].mynonce = pair[c].nonce /\ pair[d].nonce = pair[c].mynonce
  <1> DEFINE d == Target[c]
  <1>1. /\ TypeOK /\ d \in Device /\ c \in Node /\ d \in Node /\ c # Nil /\ d # Nil
        /\ d \in Persistent
    BY NodeAssumption, FabricAssumption DEF IInv, Node, TargetsSave
  <1>2. /\ pair[c].state = "PAIRED" /\ Collected(pair[c]) /\ KeyOK(c, pair[c])
        /\ {pair[c].uuid, pair[c].publickey} \subseteq {Nil, d}
    BY <1>1 DEF IInv, ProcessOK, ControllerOK, Call, CallsInv, KnowsTarget
  <1>3. pair[c].uuid = d /\ pair[c].sharedkey = {c, d}
    BY <1>1, <1>2 DEF Collected, KeyOK, SharedSecret
  <1>4. Committed(d, c)
    BY <1>1, <1>2 DEF IInv, DurableBeforeAck, HoldsPairing
  <1>5. /\ file[d] # NoFile /\ pair[c].nonce = file[d].mynonce
        /\ file[d].nonce = pair[c].mynonce /\ file[d].mynonce = FirstNonce(d)
    BY <1>1 DEF NoncesInv, ControllerNonces, DeviceNonces, Agrees
  <1>6. ASSUME proc[d] = "on"
        PROVE  /\ pair[d].state = "PAIRED" /\ pair[d].sharedkey = {c, d}
               /\ pair[d].mynonce = pair[c].nonce /\ pair[d].nonce = pair[c].mynonce
    <2>1. pair[d].publickey = c /\ pair[d].nonce = pair[c].mynonce
      BY <1>1, <1>4, <1>5, <1>6 DEF CallsInv, Remembers, Committed
    <2>2. pair[d].state = "PAIRED" /\ pair[d].mynonce = FirstNonce(d) /\ KeyOK(d, pair[d])
      BY <1>1, <1>5, <1>6 DEF IInv, DeviceOK, ProcessOK, NoncesInv, DeviceNonces
    <2> QED
      BY <1>1, <1>5, <2>1, <2>2 DEF KeyOK, SharedSecret
  <1> QED
    BY <1>2, <1>3, <1>4, <1>6

\* The sender of a datagram, and the call its socket stands for.
LEMMA CallSocket ==
    ASSUME IInv, NEW m \in net
    PROVE  LET c == m.sock[1] IN
           /\ m \in Datagram /\ m.cp \in Packet /\ PacketOK(m)
           /\ c \in Controller /\ Target[c] \in Device
           /\ c \in Node /\ Target[c] \in Node /\ c # Target[c]
           /\ m.dst \in {c, Target[c]}
           /\ m.sock[2] \in Nat /\ m.sock[2] <= starts[c]
           /\ m.sock[3] \in Call
           /\ InCall(m) => proc[c] = m.sock[3] /\ m.sock[2] = starts[c]
           /\ ~InCall(m) /\ m.sock = SocketOf(c) => proc[c] = "pairing"
  BY NodeAssumption, FabricAssumption
  DEF IInv, TypeOK, MessageOK, PacketOK, DirectionOK, RunOK, Datagram, Socket, Node, InCall,
      SocketOf, Call

\* A packet sealed as the receiver expects is the packet it ends up with.
LEMMA SealedDecodes ==
    ASSUME NEW p, NEW cp, cp.kind = "DATA", cp.seal = p.sharedkey, cp.nonce = p.mynonce
    PROVE  Decode(p, cp) = {cp}
  BY DEF Decode

\* The device understands the request of a call and answers it.
LEMMA DeviceInCall ==
    ASSUME TargetsSave, IInv, NoncesInv, CallsInv,
           NEW d \in Device, NEW m \in net, m.dst = d, proc[d] = "on", InCall(m),
           NEW cp \in Decode(pair[d], m.cp), NEW out \in StateMachine(d, pair[d], cp)
    PROVE  LET c == m.sock[1] IN
           /\ cp = m.cp /\ out.pair = pair[d] /\ out.send
           /\ out.cmd = IF m.sock[3] = "listing" THEN "APP_LIST_ACK" ELSE "APP_MESSAGE_ACK"
           /\ out.to = c /\ Called(out, cp)
           /\ pair[d].sharedkey = {c, d} /\ pair[d].nonce = pair[c].mynonce
           /\ Target[c] = d /\ Committed(d, c)
  <1> DEFINE c == m.sock[1]
  <1>1. /\ c \in Controller /\ Target[c] = d /\ PacketOK(m) /\ m.dst # c
        /\ proc[c] = m.sock[3] /\ m.sock[3] \in {"listing", "acting"}
    BY CallSocket, NodeAssumption DEF InCall
  <1>2. /\ m.cp.kind = "DATA" /\ m.cp.seal = {c, d} /\ m.cp.to = d
        /\ m.cp.nonce = pair[c].nonce
        /\ m.cp.cmd = RequestCmd(m.sock[3]) /\ m.cp.flags = SendReply
    BY <1>1 DEF CallsInv, CallOK, Sealed, IsRequest
  <1>3. /\ pair[d].state = "PAIRED" /\ pair[d].sharedkey = {c, d}
        /\ pair[d].mynonce = pair[c].nonce /\ pair[d].nonce = pair[c].mynonce
        /\ Committed(d, c)
    BY <1>1, Session
  <1>4. cp = m.cp
    <2>1. m.cp.seal = pair[d].sharedkey /\ m.cp.nonce = pair[d].mynonce
      BY <1>2, <1>3
    <2>2. Decode(pair[d], m.cp) = {m.cp}
      BY <1>2, <2>1, SealedDecodes
    <2> QED
      BY <2>2
  <1>5. ~InvalidDest(d, cp)
    BY <1>2, <1>4 DEF InvalidDest
  <1>6. /\ out.pair = Handle(d, pair[d], cp).pair /\ out.send = Handle(d, pair[d], cp).send
        /\ out.cmd = Handle(d, pair[d], cp).cmd /\ out.to = cp.from
    BY <1>5 DEF StateMachine
  <1>7. /\ m.sock[3] = "listing" => cp.cmd = "APP_LIST"
        /\ m.sock[3] = "acting" => cp.cmd = "APP_MESSAGE"
    BY <1>2, <1>4 DEF RequestCmd
  <1>8. Handle(d, pair[d], cp) =
            Reply(pair[d], IF m.sock[3] = "listing" THEN "APP_LIST_ACK" ELSE "APP_MESSAGE_ACK", 0)
    BY <1>1, <1>2, <1>3, <1>4, <1>7, HandleByCmd DEF AppList, AppMessage
  <1>9. cp.from = c
    BY <1>1, <1>4, <1>7 DEF PacketOK, AddressOK, Sender
  <1> QED
    BY <1>1, <1>3, <1>4, <1>6, <1>7, <1>8, <1>9 DEF Reply, Called, AppCmd

\* The controller understands the answer and is silent.
LEMMA ControllerInCall ==
    ASSUME TargetsSave, IInv, NoncesInv, CallsInv,
           NEW c \in Controller, NEW m \in net, m.dst = c, m.sock = SocketOf(c),
           proc[c] \in {"listing", "acting"},
           NEW cp \in Decode(pair[c], m.cp), NEW out \in StateMachine(c, pair[c], cp)
    PROVE  /\ InCall(m) /\ IsAnswer(m) /\ m.sock[1] = c /\ m.sock[3] = proc[c]
           /\ cp = m.cp /\ out.pair = pair[c] /\ ~out.send /\ Called(out, cp)
  <1>1. /\ m.sock[1] = c /\ m.sock[3] = proc[c] /\ InCall(m)
    BY DEF SocketOf, InCall
  <1>2. /\ m.cp.kind = "DATA" /\ m.cp.seal = {c, Target[c]} /\ m.cp.to = c
        /\ m.cp.nonce = pair[c].mynonce /\ IsAnswer(m)
    BY <1>1 DEF CallsInv, CallOK, Sealed
  <1>3. pair[c].state = "PAIRED" /\ pair[c].sharedkey = {c, Target[c]}
    BY Session
  <1>4. cp = m.cp
    BY <1>2, <1>3, SealedDecodes
  <1>5. ~InvalidDest(c, cp) /\ cp.cmd \in {"APP_LIST_ACK", "APP_MESSAGE_ACK"}
    BY <1>2, <1>4 DEF InvalidDest, IsAnswer
  <1>6. Handle(c, pair[c], cp) = NoReply(pair[c])
    BY <1>5, HandleByCmd
  <1>7. out.pair = pair[c] /\ out.send = FALSE
    BY <1>5, <1>6 DEF StateMachine, NoReply
  <1> QED
    BY <1>1, <1>2, <1>3, <1>4, <1>5, <1>7 DEF Called, AppCmd

-----------------------------------------------------------------------------
(* CallsInv is kept by every step.                                         *)

MessageCalls(m) == KeyOfSender(m) /\ CallOrder(m) /\ CallOK(m)

\* Controller c stays in its call, or the datagrams of its call become those of
\* a call that is over.
StaysInCall(c) ==
    /\ proc'[c] = proc[c] /\ starts'[c] = starts[c]
    /\ proc[c] # "pairing" => /\ pair'[c].nonce = pair[c].nonce
                              /\ pair'[c].mynonce = pair[c].mynonce
                              /\ wanted'[c] = wanted[c]

EndsCall(c) ==
    \/ starts'[c] = starts[c] + 1
    \/ starts'[c] = starts[c] /\ proc'[c] = "off"
    \/ starts'[c] = starts[c] /\ proc[c] = "listing" /\ proc'[c] = "acting"

LEMMA MessageCallsStay ==
    ASSUME IInv, NEW m \in net, MessageCalls(m), starts[m.sock[1]] \in Nat,
           StaysInCall(m.sock[1]) \/ EndsCall(m.sock[1])
    PROVE  MessageCalls(m)'
  <1> DEFINE c == m.sock[1]
  <1>1. /\ m.sock[2] \in Nat /\ m.sock[2] <= starts[c] /\ m.sock[3] \in Call
        /\ m.sock = <<c, m.sock[2], m.sock[3]>>
    <2>1. m \in Datagram
      BY DEF IInv, TypeOK
    <2> QED
      BY <2>1, CallSocket DEF Datagram, Socket
  <1>2. KeyOfSender(m)'
    BY DEF MessageCalls, KeyOfSender, Sender
  <1>3. CASE StaysInCall(c)
    <2>1. CallOrder(m)'
      BY <1>3 DEF MessageCalls, CallOrder, StaysInCall
    <2>2. ASSUME InCall(m)' PROVE InCall(m) /\ proc[c] # "pairing"
      BY <1>1, <1>3, <2>2 DEF InCall, SocketOf, StaysInCall
    <2>3. CallOK(m)'
      BY <1>3, <2>2 DEF MessageCalls, CallOK, Sealed, IsAnswer, IsRequest, StaysInCall
    <2> QED
      BY <1>2, <2>1, <2>3 DEF MessageCalls
  <1>4. CASE EndsCall(c)
    <2>1. CallOrder(m)'
      BY <1>1, <1>4 DEF CallOrder, EndsCall
    <2>2. ~InCall(m)'
      <3> SUFFICES ASSUME InCall(m)' PROVE FALSE
        OBVIOUS
      <3>1. m.sock[2] = starts'[c] /\ m.sock[3] = proc'[c]
        BY DEF InCall, SocketOf
      <3> QED
        BY <1>1, <1>4, <3>1 DEF EndsCall, MessageCalls, CallOrder, Call
    <2> QED
      BY <1>2, <2>1, <2>2 DEF MessageCalls, CallOK
  <1> QED
    BY <1>3, <1>4

LEMMA InitCalls == Init => CallsInv
  <1> SUFFICES ASSUME Init PROVE CallsInv
    OBVIOUS
  <1>1. \A n \in Device \cup Controller : n \in Node
    BY DEF Node
  <1>2. \A c \in Controller : proc[c] = "off" /\ pair[c] = Dead /\ file[c] = NoFile
    BY <1>1, NodeAssumption DEF Init
  <1>3. \A d \in Device : file[d] = NoFile
    BY <1>1 DEF Init
  <1>4. Dead.uuid = Nil /\ Dead.publickey = Nil
    BY DEF Dead, PairInit
  <1> QED
    BY <1>2, <1>3, <1>4 DEF Init, CallsInv, KnowsTarget, ListFirst, Remembers

\* A device's answer to a request in the call is the answer the controller
\* waits for.
LEMMA DeviceReceiveCalls ==
    ASSUME TargetsSave, ~TornWrites, IInv, NoncesInv, CallsInv, FirstPairingStep,
           NEW d \in Device, NEW m \in net, DeviceReceive(d, m)
    PROVE  CallsInv'
  <1> DEFINE c == m.sock[1]
  <1>1. /\ TypeOK /\ d \in Node /\ pair[d] \in PairRecord /\ m.dst = d /\ proc[d] = "on"
        /\ \A b \in Controller : b \in Node \ {d}
    BY NodeAssumption DEF IInv, TypeOK, DeviceReceive, Node
  <1>2. /\ PacketOK(m) /\ c \in Controller /\ Target[c] = d /\ m \in Datagram
        /\ c \in Node \ {d} /\ d \in Persistent
    BY <1>1, CallSocket, NodeAssumption DEF TargetsSave
  <1>3. PICK cp \in Decode(pair[d], m.cp) : \E out \in StateMachine(d, pair[d], cp) :
            DeviceProcess(d, m, cp, out)
    BY DEF DeviceReceive
  <1>4. PICK out \in StateMachine(d, pair[d], cp) : DeviceProcess(d, m, cp, out)
    BY <1>3
  <1> DEFINE q      == AfterAnswer(out)
             writes == JustPaired(pair[d], out.pair)
             v      == IF Called(out, cp) THEN DeviceCallBack(value[d], cp.act) ELSE value[d]
             act    == CASE out.cmd = "APP_LIST_ACK" -> Controls(v)
                         [] out.cmd # "APP_LIST_ACK" /\ Called(out, cp) -> CallBackReply(v, cp.act)
                         [] OTHER -> NoAction
             ans    == Answer(d, m, c, out, act)
  <1>5. /\ pair' = [pair EXCEPT ![d] = q]
        /\ file' = IF writes THEN [file EXCEPT ![d] = PairWrite(out.pair)] ELSE file
        /\ net' \subseteq net \cup {r \in ans : r.dst = c => r.sock = SocketOf(c)}
        /\ UNCHANGED <<proc, starts, wanted, seen>>
    <2>1. \A r \in ans : r.dst = c
      BY DEF Answer
    <2> HIDE DEF q, ans
    <2>2. /\ pair' = [pair EXCEPT ![d] = q]
          /\ file' = IF writes THEN [file EXCEPT ![d] = PairWrite(out.pair)] ELSE file
          /\ net' = Consume(m) \cup Send(ans)
          /\ UNCHANGED <<proc, starts, wanted, seen>>
      BY <1>2, <1>4 DEF DeviceProcess, q, ans
    <2>3. \A r \in Send(ans) : r \in ans /\ r.sock = SocketOf(c)
      BY <1>2, <2>1, NodeAssumption DEF Send
    <2> QED
      BY <2>2, <2>3 DEF Consume
  <1> HIDE DEF q, ans, v, act
  <1>6. /\ pair'[d] = q
        /\ file'[d] = IF writes THEN PairWrite(out.pair) ELSE file[d]
        /\ \A n \in Node \ {d} : pair'[n] = pair[n] /\ file'[n] = file[n]
    BY <1>1, <1>5 DEF TypeOK
  <1>7. out \in Outcome /\ DeviceAnswers(d, pair[d], m, out)
    BY <1>1, DeviceTurn
  <1>8. \A b \in Controller : KnowsTarget(b)' /\ ListFirst(b)'
    BY <1>1, <1>5, <1>6 DEF CallsInv, KnowsTarget, ListFirst
  <1>9. Remembers(d)'
    <2>1. CASE writes
      <3>1. q.publickey = out.pair.publickey /\ q.nonce = out.pair.nonce
        BY <1>7, AfterAnswerKeeps DEF KeyKept, NonceKept, q
      <3>2. /\ PairWrite(out.pair).publickey = out.pair.publickey
            /\ PairWrite(out.pair).nonce = out.pair.nonce
        BY DEF PairWrite
      <3> QED
        BY <1>6, <2>1, <3>1, <3>2 DEF Remembers
    <2>2. CASE ~writes /\ file[d] # NoFile
      <3>1. pair[d].state = "PAIRED"
        BY <1>1, <2>2 DEF IInv, DeviceOK
      <3>2. q.publickey = pair[d].publickey /\ q.nonce = pair[d].nonce
        BY <1>1, <1>2, <3>1, NodeLearns DEF q
      <3> QED
        BY <1>1, <1>6, <2>2, <3>2 DEF CallsInv, Remembers
    <2>3. CASE ~writes /\ file[d] = NoFile
      BY <1>6, <2>3 DEF Remembers
    <2> QED
      BY <2>1, <2>2, <2>3
  <1>10. \A e \in Device : Remembers(e)'
    <2> SUFFICES ASSUME NEW e \in Device, e # d PROVE Remembers(e)'
      BY <1>9
    <2>1. e \in Node \ {d}
      BY DEF Node
    <2> QED
      BY <1>5, <1>6, <2>1 DEF CallsInv, Remembers
  <1>11. \A r \in net : MessageCalls(r)'
    <2> SUFFICES ASSUME NEW r \in net PROVE MessageCalls(r)'
      OBVIOUS
    <2>1. r.sock[1] \in Node \ {d} /\ starts[r.sock[1]] \in Nat /\ MessageCalls(r)
      BY <1>1, CallSocket DEF TypeOK, CallsInv, MessageCalls
    <2>2. StaysInCall(r.sock[1])
      BY <1>5, <1>6, <2>1 DEF StaysInCall
    <2> QED
      BY <2>1, <2>2, MessageCallsStay
  <1>12. ASSUME NEW r \in ans PROVE MessageCalls(r)'
    <2>1. /\ r.sock = m.sock /\ r.dst = c /\ out.send
          /\ r.cp = Encode(d, out.pair, out.cmd, out.flags, out.to, out.from, act)
      BY <1>12 DEF Answer, ans
    <2>2. KeyOfSender(r)'
      <3>1. /\ r.cp.cmd = out.cmd
            /\ PacketType(out.cmd) = "PUBLICKEY" => r.cp.publickey = d
        BY <2>1 DEF Encode
      <3>2. out.cmd = "PUBLICKEY_SEND" => PacketType(out.cmd) = "PUBLICKEY"
        BY DEF PacketType, AppCmd
      <3> QED
        BY <1>2, <2>1, <3>1, <3>2, NodeAssumption DEF KeyOfSender, Sender
    <2>3. CallOrder(r)'
      BY <1>5, <2>1 DEF CallOrder, CallsInv
    <2>4. ASSUME InCall(r)' PROVE Sealed(r)' /\ IsAnswer(r)'
      <3>1. InCall(m)
        BY <1>5, <2>1, <2>4 DEF InCall, SocketOf
      <3>2. /\ cp = m.cp /\ out.pair = pair[d] /\ Called(out, cp) /\ out.to = c
            /\ out.cmd = IF m.sock[3] = "listing" THEN "APP_LIST_ACK" ELSE "APP_MESSAGE_ACK"
            /\ pair[d].sharedkey = {c, d} /\ pair[d].nonce = pair[c].mynonce
        BY <1>1, <3>1, DeviceInCall
      <3>3. PacketType(out.cmd) = "DATA" /\ m.sock[3] \in {"listing", "acting"}
        BY <3>1, <3>2 DEF PacketType, AppCmd, InCall
      <3>4. /\ r.cp.kind = "DATA" /\ r.cp.cmd = out.cmd /\ r.cp.to = c
            /\ r.cp.seal = {c, d} /\ r.cp.nonce = pair[c].mynonce /\ r.cp.act = act
        BY <2>1, <3>2, <3>3 DEF Encode
      <3>5. ASSUME m.sock[3] = "listing" PROVE IsAnswer(r)'
        <4>1. act.op = "CONTROLS"
          BY <3>2, <3>5 DEF act, Controls
        <4> QED
          BY <2>1, <3>2, <3>4, <3>5, <4>1 DEF IsAnswer
      <3>6. ASSUME m.sock[3] = "acting" PROVE IsAnswer(r)'
        <4>1. cp.act = wanted[c]
          BY <1>1, <1>2, <3>1, <3>2, <3>6 DEF CallsInv, CallOK, IsRequest
        <4>2. act = CallBackReply(v, wanted[c]) /\ v = DeviceCallBack(value[d], wanted[c])
          BY <3>2, <3>6, <4>1 DEF act, v
        <4>3. /\ act.op \in {"NULL", "READ"}
              /\ wanted[c].op = "SET" => act = Read(wanted[c].val)
          BY <4>2 DEF CallBackReply, DeviceCallBack, Read, NoAction
        <4>4. r.sock[3] = "acting" /\ r.sock[1] = c /\ r.cp.cmd = "APP_MESSAGE_ACK"
          BY <2>1, <3>2, <3>4, <3>6
        <4> QED
          BY <1>5, <3>4, <4>3, <4>4 DEF IsAnswer
      <3> QED
        BY <1>2, <1>6, <2>1, <3>3, <3>4, <3>5, <3>6 DEF Sealed
    <2> QED
      BY <2>1, <2>2, <2>3, <2>4 DEF MessageCalls, CallOK
  <1> QED
    BY <1>5, <1>8, <1>10, <1>11, <1>12 DEF CallsInv, MessageCalls

LEMMA DeviceStartCalls ==
    ASSUME IInv, CallsInv, NEW d \in Device, DeviceStart(d)
    PROVE  CallsInv'
  <1>1. /\ TypeOK /\ d \in Node
        /\ \A c \in Controller : c \in Node \ {d} /\ starts[c] \in Nat
    BY NodeAssumption DEF IInv, TypeOK, Node
  <1>2. /\ file' = file /\ net' = net /\ wanted' = wanted /\ seen' = seen
        /\ file[d] # NoFile => /\ pair'[d].publickey = file[d].publickey
                               /\ pair'[d].nonce = file[d].nonce
        /\ \A n \in Node \ {d} : proc'[n] = proc[n] /\ pair'[n] = pair[n]
                                 /\ starts'[n] = starts[n]
    BY <1>1 DEF DeviceStart, TypeOK, PairRead
  <1>3. \A c \in Controller : KnowsTarget(c)' /\ ListFirst(c)'
    BY <1>1, <1>2 DEF CallsInv, KnowsTarget, ListFirst
  <1>4. \A e \in Device : Remembers(e)'
    BY <1>2 DEF CallsInv, Remembers, Node
  <1>5. \A m \in net' : MessageCalls(m)'
    <2> SUFFICES ASSUME NEW m \in net PROVE MessageCalls(m)'
      BY <1>2
    <2>1. m.sock[1] \in Controller /\ MessageCalls(m)
      BY CallSocket DEF CallsInv, MessageCalls
    <2>2. StaysInCall(m.sock[1])
      BY <1>1, <1>2, <2>1 DEF StaysInCall
    <2> QED
      BY <1>1, <2>1, <2>2, MessageCallsStay
  <1> QED
    BY <1>3, <1>4, <1>5 DEF CallsInv, MessageCalls

\* The request of a call is sealed for the device.
RequestSays(r, c, p, run, call, act) ==
    /\ r.sock = <<c, run, call>> /\ r.dst = Target[c] /\ r.dst # c
    /\ r.cp.cmd = RequestCmd(call) /\ r.cp.cmd # "PUBLICKEY_SEND"
    /\ call # "pairing" =>
        /\ r.cp.kind = "DATA" /\ r.cp.flags = SendReply /\ r.cp.to = p.uuid
        /\ r.cp.seal = p.sharedkey /\ r.cp.nonce = p.nonce /\ r.cp.act = act

LEMMA RequestInCall ==
    ASSUME NEW c \in Controller, NEW p, NEW run, NEW call \in Call, NEW act
    PROVE  RequestSays(Request(c, p, run, call, act), c, p, run, call, act)
  <1>r. PICK r : r = Request(c, p, run, call, act)
    OBVIOUS
  <1>1. /\ r.sock = <<c, run, call>> /\ r.dst = Target[c]
        /\ r.cp = Encode(c, p, RequestCmd(call), IF call = "pairing" THEN 0 ELSE SendReply,
                         p.uuid, c, act)
    BY <1>r DEF Request
  <1>2. /\ RequestCmd(call) \in {"PAIR_REQUEST", "APP_LIST", "APP_MESSAGE"}
        /\ call # "pairing" => PacketType(RequestCmd(call)) = "DATA"
    BY DEF RequestCmd, PacketType, AppCmd, Call
  <1>3. /\ r.cp.cmd = RequestCmd(call)
        /\ call # "pairing" =>
                /\ r.cp.kind = "DATA" /\ r.cp.flags = SendReply /\ r.cp.to = p.uuid
                /\ r.cp.seal = p.sharedkey /\ r.cp.nonce = p.nonce /\ r.cp.act = act
    BY <1>1, <1>2 DEF Encode
  <1>4. RequestSays(r, c, p, run, call, act)
    BY <1>1, <1>2, <1>3, NodeAssumption, FabricAssumption DEF RequestSays
  <1> QED
    BY <1>r, <1>4

LEMMA ControllerStartCalls ==
    ASSUME TargetsSave, IInv, CallsInv,
           NEW c \in Controller, NEW act \in Command, ControllerStart(c, act)
    PROVE  CallsInv'
  <1> DEFINE run  == starts[c] + 1
             p    == PairRead(c, PairInit(<<c, run>>), file[c])
             call == IF file[c] = NoFile THEN "pairing" ELSE "listing"
             q    == AfterEncode(p, RequestCmd(call))
  <1>1. /\ TypeOK /\ c \in Node /\ starts[c] \in Nat /\ run \in Nat /\ file[c] \in PairFile
        /\ \A d \in Device : d \in Node \ {c}
        /\ \A b \in Controller : b \in Node /\ starts[b] \in Nat
        /\ Target[c] \in Device /\ Target[c] # Nil
    BY NodeAssumption, FabricAssumption DEF IInv, TypeOK, Node
  <1>2. p \in PairRecord
    <2>1. <<c, run>> \in Nonce
      BY <1>1 DEF Nonce
    <2> QED
      BY <1>1, <2>1, PairInitType, PairReadType
  <1>3. /\ {p.uuid, p.publickey} \subseteq {Nil, Target[c]}
        /\ file[c] # NoFile => p.uuid = Target[c] /\ p.sharedkey = {c, Target[c]}
    <2>1. CASE file[c] = NoFile
      BY <2>1 DEF PairRead, PairInit
    <2>2. CASE file[c] # NoFile
      <3>1. p.uuid = file[c].uuid /\ p.publickey = file[c].publickey
            /\ p.sharedkey = SharedSecret(c, file[c].publickey)
        BY <2>2 DEF PairRead
      <3>2. file[c].uuid = Target[c] /\ file[c].publickey = Target[c]
        BY <1>1, <2>2 DEF IInv, ProcessOK, Complete, CallsInv, KnowsTarget
      <3> QED
        BY <1>1, <3>1, <3>2 DEF SharedSecret
    <2> QED
      BY <2>1, <2>2
  <1> HIDE DEF p
  <1>4. q.uuid = p.uuid /\ q.publickey = p.publickey /\ q.nonce = p.nonce
    BY <1>2 DEF AfterEncode, PairRecord
  <1>5. call \in {"pairing", "listing"} /\ (call = "pairing" <=> file[c] = NoFile)
    OBVIOUS
  <1>r. PICK r : r = Request(c, p, run, call, NoAction)
    OBVIOUS
  <1>6. /\ r.sock = <<c, run, call>> /\ r.dst = Target[c] /\ r.dst # c
        /\ r.cp.cmd = RequestCmd(call) /\ r.cp.cmd # "PUBLICKEY_SEND"
        /\ call # "pairing" =>
                /\ r.cp.kind = "DATA" /\ r.cp.flags = SendReply /\ r.cp.to = p.uuid
                /\ r.cp.seal = p.sharedkey /\ r.cp.nonce = p.nonce
    <2>1. call \in Call
      BY <1>5 DEF Call
    <2> HIDE DEF run, call
    <2>2. RequestSays(r, c, p, run, call, NoAction)
      BY <1>r, <2>1, RequestInCall
    <2> QED
      BY <2>2 DEF RequestSays
  <1> HIDE DEF run, call, q
  <1>7. /\ proc'[c] = call /\ pair'[c] = q /\ file' = file /\ net' \subseteq net \cup {r}
        /\ starts'[c] = starts[c] + 1
        /\ \A n \in Node \ {c} : proc'[n] = proc[n] /\ pair'[n] = pair[n]
                                 /\ starts'[n] = starts[n]
        /\ \A b \in Controller \ {c} : wanted'[b] = wanted[b] /\ seen'[b] = seen[b]
    BY <1>1, <1>r DEF ControllerStart, Send, TypeOK, p, run, call, q
  <1>8. KnowsTarget(c)' /\ ListFirst(c)'
    BY <1>3, <1>4, <1>5, <1>7 DEF CallsInv, KnowsTarget, ListFirst
  <1>9. \A b \in Controller \ {c} : KnowsTarget(b)' /\ ListFirst(b)'
    BY <1>1, <1>7 DEF CallsInv, KnowsTarget, ListFirst
  <1>10. \A d \in Device : Remembers(d)'
    BY <1>1, <1>7 DEF CallsInv, Remembers
  <1>11. \A m \in net : MessageCalls(m)'
    <2> SUFFICES ASSUME NEW m \in net PROVE MessageCalls(m)'
      OBVIOUS
    <2>1. m.sock[1] \in Controller /\ MessageCalls(m)
      BY CallSocket DEF CallsInv, MessageCalls
    <2>2. StaysInCall(m.sock[1]) \/ EndsCall(m.sock[1])
      BY <1>1, <1>7, <2>1 DEF StaysInCall, EndsCall
    <2> QED
      BY <1>1, <2>1, <2>2, MessageCallsStay
  <1>12. MessageCalls(r)'
    <2>1. KeyOfSender(r)' /\ CallOrder(r)'
      BY <1>5, <1>6 DEF KeyOfSender, CallOrder
    <2>2. ASSUME InCall(r)' PROVE Sealed(r)' /\ IsRequest(r)' /\ r.dst # r.sock[1]
      <3>1. call = "listing" /\ file[c] # NoFile
        BY <1>5, <1>6, <2>2 DEF InCall
      <3> QED
        BY <1>3, <1>4, <1>6, <1>7, <3>1 DEF Sealed, IsRequest
    <2> QED
      BY <2>1, <2>2 DEF MessageCalls, CallOK
  <1> QED
    BY <1>7, <1>8, <1>9, <1>10, <1>11, <1>12 DEF CallsInv, MessageCalls

\* What controller c knows after it has taken a datagram of its call.
LEMMA ControllerReceiveCalls ==
    ASSUME TargetsSave, ~TornWrites, IInv, NoncesInv, CallsInv,
           NEW c \in Controller, NEW m \in net, ControllerReceive(c, m)
    PROVE  CallsInv'
  <1>1. /\ TypeOK /\ c \in Node /\ pair[c] \in PairRecord /\ m.dst = c /\ m.sock = SocketOf(c)
        /\ proc[c] \in Call /\ proc[c] # "off" /\ m.sock[1] = c
        /\ \A d \in Device : d \in Node \ {c}
        /\ \A b \in Controller : b \in Node /\ starts[b] \in Nat
        /\ Target[c] \in Device
    BY NodeAssumption, FabricAssumption DEF IInv, TypeOK, ControllerReceive, SocketOf, Node
  <1>2. PacketOK(m) /\ m \in Datagram
    BY CallSocket
  <1>3. PICK cp \in Decode(pair[c], m.cp) : \E out \in StateMachine(c, pair[c], cp) :
            ControllerProcess(c, m, cp, out)
    BY DEF ControllerReceive
  <1>4. PICK out \in StateMachine(c, pair[c], cp) : ControllerProcess(c, m, cp, out)
    BY <1>3
  <1> DEFINE p    == AfterAnswer(out)
             ans  == Answer(c, m, Target[c], out, NoAction)
             last == Request(c, p, starts[c], "acting", wanted[c])
             p2   == AfterEncode(p, "APP_MESSAGE")
  <1>5. out \in Outcome /\ ControllerAnswers(c, pair[c], m, out)
    BY <1>1, ControllerTurn
  <1>6. p \in PairRecord
    BY <1>5, AfterAnswerKeeps
  <1>7. {p.uuid, p.publickey} \subseteq {Nil, Target[c]}
    <2>1. m.cp.cmd \in {"PAIR_REQUEST", "PAIR_REQUEST_ACK"} => m.cp.from = Target[c]
      BY <1>1, <1>2, NodeAssumption DEF PacketOK, AddressOK, Sender
    <2>2. m.cp.cmd = "PUBLICKEY_SEND" => m.cp.publickey = Target[c]
      BY <1>1, NodeAssumption DEF CallsInv, KeyOfSender, Sender
    <2>3. {pair[c].uuid, pair[c].publickey} \subseteq {Nil, Target[c]}
      BY DEF CallsInv, KnowsTarget
    <2> QED
      BY <1>1, <1>2, <2>1, <2>2, <2>3, NodeLearns
  <1> HIDE DEF p
  <1>8. /\ p2.nonce = p.nonce /\ p2.mynonce = p.mynonce
        /\ p2.uuid = p.uuid /\ p2.publickey = p.publickey
    BY <1>6 DEF AfterEncode, PairRecord
  <1>9. PairWrite(p).uuid = p.uuid /\ PairWrite(p).publickey = p.publickey
    BY DEF PairWrite
  <1>10. ASSUME proc[c] \in {"listing", "acting"}
         PROVE  /\ cp = m.cp /\ out.pair = pair[c] /\ p = pair[c] /\ ~out.send
                /\ Called(out, cp) /\ IsAnswer(m) /\ m.sock[3] = proc[c]
    <2>1. /\ cp = m.cp /\ out.pair = pair[c] /\ ~out.send
          /\ Called(out, cp) /\ IsAnswer(m) /\ m.sock[3] = proc[c]
      BY <1>1, <1>10, ControllerInCall
    <2> QED
      BY <2>1 DEF AfterAnswer, p
  <1>r. PICK r : r = last
    OBVIOUS
  <1>11. /\ r.sock = <<c, starts[c], "acting">> /\ r.dst = Target[c] /\ r.dst # c
         /\ r.cp.cmd = RequestCmd("acting") /\ r.cp.cmd # "PUBLICKEY_SEND"
         /\ r.cp.kind = "DATA" /\ r.cp.flags = SendReply /\ r.cp.to = p.uuid
         /\ r.cp.seal = p.sharedkey /\ r.cp.nonce = p.nonce /\ r.cp.act = wanted[c]
    <2>1. "acting" \in Call
      BY DEF Call
    <2>2. RequestSays(r, c, p, starts[c], "acting", wanted[c])
      BY <1>r, <2>1, RequestInCall
    <2> QED
      BY <2>2 DEF RequestSays
  <1> HIDE DEF ans, last, p2
  <1>12. /\ starts' = starts /\ wanted' = wanted
         /\ seen'[c] = IF Called(out, cp) THEN ControllerCallBack(seen[c], cp.act) ELSE seen[c]
         /\ \A b \in Controller \ {c} : seen'[b] = seen[b]
         /\ \A n \in Node \ {c} : /\ proc'[n] = proc[n] /\ pair'[n] = pair[n]
                                  /\ file'[n] = file[n]
    BY <1>1, <1>4 DEF ControllerProcess, Exit, TypeOK
  <1>13. /\ net' \subseteq net \cup ans \cup {r}
         /\ proc[c] # "listing" => net' \subseteq net \cup ans
    BY <1>4, <1>r DEF ControllerProcess, Consume, Send, Close, p, ans, last
  <1>14. \/ /\ proc[c] = "pairing" /\ proc' = proc /\ pair'[c] = p /\ file' = file
         \/ /\ proc[c] # "listing" /\ proc'[c] = "off" /\ pair'[c] = Dead
            /\ file'[c] = PairWrite(p)
         \/ proc[c] = "listing" /\ proc'[c] = "acting" /\ pair'[c] = p2 /\ file' = file
    BY <1>1, <1>4 DEF ControllerProcess, Exit, TypeOK, p, p2
  <1>15. KnowsTarget(c)'
    BY <1>7, <1>8, <1>9, <1>14 DEF CallsInv, KnowsTarget, Dead, PairInit
  <1>16. ListFirst(c)'
    <2> SUFFICES ASSUME proc'[c] = "acting" PROVE seen'[c] # Unknown
      BY DEF ListFirst
    <2>1. proc[c] = "listing"
      BY <1>14 DEF Call
    <2>2. seen'[c] = m.cp.act.val /\ m.cp.act \in Action
      BY <1>2, <1>10, <1>12, <2>1 DEF IsAnswer, ControllerCallBack, Datagram, Packet
    <2> QED
      BY <2>2, ValueAssumption DEF Action, Unknown
  <1>17. \A b \in Controller \ {c} : KnowsTarget(b)' /\ ListFirst(b)'
    BY <1>1, <1>12 DEF CallsInv, KnowsTarget, ListFirst
  <1>18. \A d \in Device : Remembers(d)'
    BY <1>1, <1>12 DEF CallsInv, Remembers
  <1>19. \A x \in net : MessageCalls(x)'
    <2> SUFFICES ASSUME NEW x \in net PROVE MessageCalls(x)'
      OBVIOUS
    <2>1. x.sock[1] \in Controller /\ MessageCalls(x)
      BY CallSocket DEF CallsInv, MessageCalls
    <2>2. CASE x.sock[1] # c
      <3>1. StaysInCall(x.sock[1])
        BY <1>1, <1>12, <2>1, <2>2 DEF StaysInCall
      <3> QED
        BY <1>1, <2>1, <3>1, MessageCallsStay
    <2>3. CASE x.sock[1] = c
      <3>1. StaysInCall(c) \/ EndsCall(c)
        BY <1>12, <1>14 DEF StaysInCall, EndsCall
      <3> QED
        BY <1>1, <2>1, <2>3, <3>1, MessageCallsStay
    <2> QED
      BY <2>2, <2>3
  <1>20. ASSUME NEW x \in ans PROVE MessageCalls(x)'
    <2>1. /\ x.sock = m.sock /\ x.dst = Target[c] /\ out.send
          /\ x.cp = Encode(c, out.pair, out.cmd, out.flags, out.to, out.from, NoAction)
      BY <1>20 DEF Answer, ans
    <2>2. proc[c] = "pairing" /\ x.sock[1] = c /\ x.sock[3] = "pairing"
      BY <1>1, <1>10, <2>1 DEF Call, SocketOf
    <2>3. KeyOfSender(x)'
      <3>1. /\ x.cp.cmd = out.cmd
            /\ PacketType(out.cmd) = "PUBLICKEY" => x.cp.publickey = c
        BY <2>1 DEF Encode
      <3>2. out.cmd = "PUBLICKEY_SEND" => PacketType(out.cmd) = "PUBLICKEY"
        BY DEF PacketType, AppCmd
      <3> QED
        BY <1>1, <2>1, <2>2, <3>1, <3>2 DEF KeyOfSender, Sender
    <2> QED
      BY <2>2, <2>3 DEF MessageCalls, CallOrder, CallOK, InCall
  <1>21. ASSUME proc[c] = "listing" PROVE MessageCalls(r)'
    <2>1. pair'[c] = p2 /\ proc'[c] = "acting" /\ p = pair[c]
      BY <1>10, <1>14, <1>21
    <2>2. KeyOfSender(r)' /\ CallOrder(r)'
      BY <1>11, <2>1 DEF KeyOfSender, CallOrder
    <2>3. p.uuid = Target[c] /\ p.sharedkey = {c, Target[c]}
      BY <1>21, <2>1, Session
    <2>4. Sealed(r)' /\ IsRequest(r)'
      BY <1>8, <1>11, <1>12, <2>1, <2>3 DEF Sealed, IsRequest
    <2> QED
      BY <1>11, <2>2, <2>4 DEF MessageCalls, CallOK
  <1> QED
    BY <1>13, <1>15, <1>16, <1>17, <1>18, <1>19, <1>20, <1>21 DEF CallsInv, MessageCalls

\* Only a device stops; its memory goes, its file stays.
LEMMA StopCalls ==
    ASSUME IInv, CallsInv, NEW n \in Device, Stop(n)
    PROVE  CallsInv'
  <1>1. /\ TypeOK /\ n \in Node
        /\ \A c \in Controller : c \in Node \ {n} /\ starts[c] \in Nat
    BY NodeAssumption DEF IInv, TypeOK, Node
  <1>2. /\ proc'[n] = "off" /\ starts' = starts /\ file' = file /\ net' = net
        /\ wanted' = wanted /\ seen' = seen
        /\ \A x \in Node \ {n} : proc'[x] = proc[x] /\ pair'[x] = pair[x]
    BY <1>1, NodeAssumption DEF Stop, TypeOK
  <1>3. \A c \in Controller : KnowsTarget(c)' /\ ListFirst(c)'
    BY <1>1, <1>2 DEF CallsInv, KnowsTarget, ListFirst
  <1>4. \A e \in Device : Remembers(e)'
    BY <1>2 DEF CallsInv, Remembers, Node
  <1>5. \A m \in net' : MessageCalls(m)'
    <2> SUFFICES ASSUME NEW m \in net PROVE MessageCalls(m)'
      BY <1>2
    <2>1. m.sock[1] \in Controller /\ MessageCalls(m)
      BY CallSocket DEF CallsInv, MessageCalls
    <2>2. StaysInCall(m.sock[1])
      BY <1>1, <1>2, <2>1 DEF StaysInCall
    <2> QED
      BY <1>1, <2>1, <2>2, MessageCallsStay
  <1> QED
    BY <1>3, <1>4, <1>5 DEF CallsInv, MessageCalls

LEMMA CallsStep ==
    ASSUME TargetsSave, ~TornWrites, Killable \cap Controller = {}
    PROVE  IInv /\ NoncesInv /\ CallsInv /\ [Next]_vars => CallsInv'
  <1> SUFFICES ASSUME IInv, NoncesInv, CallsInv, [Next]_vars PROVE CallsInv'
    OBVIOUS
  <1>1. FirstPairingStep
    BY FirstPairingKept
  <1>2. CASE \E d \in Device : DeviceStart(d)
    BY <1>2, DeviceStartCalls
  <1>3. CASE \E d \in Device : \E m \in net : DeviceReceive(d, m)
    BY <1>1, <1>3, DeviceReceiveCalls
  <1>4. CASE \E c \in Controller : \E act \in Command : ControllerStart(c, act)
    BY <1>4, ControllerStartCalls
  <1>5. CASE \E c \in Controller : \E m \in net : ControllerReceive(c, m)
    BY <1>5, ControllerReceiveCalls
  <1>6. CASE \E n \in Node : Stop(n)
    <2>1. PICK n \in Node : Stop(n)
      BY <1>6
    <2>2. n \in Device
      BY <2>1 DEF Stop, Node
    <2> QED
      BY <2>1, <2>2, StopCalls
  <1>7. CASE net' \subseteq net /\ UNCHANGED <<proc, starts, pair, file, wanted, seen>>
    BY <1>7
    DEF CallsInv, KnowsTarget, KeyOfSender, Sender, Remembers, ListFirst, CallOrder,
        CallOK, InCall, SocketOf, Sealed, IsRequest, IsAnswer
  <1>8. CASE UNCHANGED vars
    BY <1>7, <1>8 DEF vars
  <1>9. CASE \E m \in net : Lose(m)
    BY <1>7, <1>9 DEF Lose
  <1> QED
    BY <1>2, <1>3, <1>4, <1>5, <1>6, <1>8, <1>9 DEF Next

\* A run leaves its second call with the answer to its own request.
LEMMA ConfirmStep ==
    ASSUME TargetsSave, Killable \cap Controller = {},
           IInv, NoncesInv, CallsInv, [Next]_vars
    PROVE  \A c \in Controller :
                (proc[c] = "acting" /\ proc'[c] = "off" /\ wanted[c].op = "SET")
                    => seen'[c] = wanted[c].val
  <1> SUFFICES ASSUME NEW c \in Controller,
                      proc[c] = "acting", proc'[c] = "off", wanted[c].op = "SET"
               PROVE  seen'[c] = wanted[c].val
    OBVIOUS
  <1>1. /\ TypeOK /\ c \in Node /\ proc'[c] # proc[c]
        /\ \A d \in Device : d # c
    BY NodeAssumption DEF IInv, Node
  <1>2. PICK m \in net : ControllerReceive(c, m)
    <2>1. ~ \E d \in Device : DeviceStart(d)
      BY <1>1 DEF DeviceStart, TypeOK
    <2>2. ~ \E d \in Device : \E m \in net : DeviceReceive(d, m)
      BY <1>1 DEF DeviceReceive, DeviceProcess, TypeOK
    <2>3. ~ \E b \in Controller : \E act \in Command : ControllerStart(b, act)
      BY <1>1 DEF ControllerStart, TypeOK
    <2>4. ~ \E n \in Node : Stop(n)
      BY <1>1 DEF Stop, TypeOK, Node
    <2>5. ~ \E m \in net : Lose(m)
      BY <1>1 DEF Lose
    <2>6. \A b \in Controller \ {c} : \A m \in net : ~ControllerReceive(b, m)
      <3> SUFFICES ASSUME NEW b \in Controller \ {c}, NEW m \in net, ControllerReceive(b, m)
                   PROVE  proc'[c] = proc[c]
        BY <1>1
      <3>1. proc' \in {proc, [proc EXCEPT ![b] = "off"], [proc EXCEPT ![b] = "acting"]}
        BY DEF ControllerReceive, ControllerProcess, Exit
      <3> QED
        BY <1>1, <3>1 DEF TypeOK
    <2> QED
      BY <1>1, <2>1, <2>2, <2>3, <2>4, <2>5, <2>6 DEF Next, vars
  <1>3. PICK cp \in Decode(pair[c], m.cp) : \E out \in StateMachine(c, pair[c], cp) :
            ControllerProcess(c, m, cp, out)
    BY <1>2 DEF ControllerReceive
  <1>4. PICK out \in StateMachine(c, pair[c], cp) : ControllerProcess(c, m, cp, out)
    BY <1>3
  <1>5. cp = m.cp /\ Called(out, cp) /\ IsAnswer(m) /\ m.sock[1] = c /\ m.sock[3] = "acting"
    BY <1>2, ControllerInCall DEF ControllerReceive
  <1>6. cp.act = Read(wanted[c].val) /\ seen[c] # Unknown
    BY <1>5 DEF IsAnswer, CallsInv, ListFirst
  <1>7. seen'[c] = ControllerCallBack(seen[c], cp.act)
    BY <1>1, <1>4, <1>5 DEF ControllerProcess, TypeOK
  <1> QED
    BY <1>6, <1>7 DEF ControllerCallBack, Read

\* A run that was asked to SET shows in the end the value it asked for, whatever
\* a network that repeats, delays and loses brings to either end, and however
\* often the device is stopped once it is paired.
THEOREM SetConfirmedCorrect ==
    ASSUME TargetsSave, Killable \cap Controller = {}, ~EarlyStops, ~TornWrites
    PROVE  Spec => SetConfirmed
  <1>1. Init => NoncesInv /\ CallsInv
    BY InitNonces, InitCalls
  <1>2. IInv /\ NoncesInv /\ CallsInv /\ [Next]_vars => NoncesInv' /\ CallsInv'
    BY NoncesStep, CallsStep
  <1>3. IInv /\ NoncesInv /\ CallsInv /\ [Next]_vars
            => [\A c \in Controller :
                    (proc[c] = "acting" /\ proc'[c] = "off" /\ wanted[c].op = "SET")
                        => seen'[c] = wanted[c].val]_vars
    BY ConfirmStep
  <1> QED
    BY <1>1, <1>2, <1>3, Invariance, PTL DEF Spec, SetConfirmed

-----------------------------------------------------------------------------
(* ViewsInv is kept by every step, if nothing is killed or repeated.       *)

\* A device has one controller that calls it.
LEMMA OneCaller ==
    ASSUME TargetsSave, IInv, NEW b \in Controller, NEW c \in Controller,
           Target[b] = Target[c],
           HoldsPairing(b) \/ proc[b] \in {"listing", "acting"},
           HoldsPairing(c) \/ proc[c] \in {"listing", "acting"}
    PROVE  b = c
  <1>1. HoldsPairing(b) /\ HoldsPairing(c)
    BY DEF IInv, ControllerOK, Call, HoldsPairing
  <1> QED
    BY <1>1 DEF IInv, DurableBeforeAck, Committed, TargetsSave

\* A controller that is not running has nothing in flight, and one that takes a
\* datagram has nothing else.
LEMMA NothingElse ==
    ASSUME IInv, TakeTurns, NEW c \in Controller
    PROVE  /\ proc[c] = "off" => \A x \in net : x.sock[1] # c
           /\ \A m \in net : m.sock[1] = c => \A x \in net \ {m} : x.sock[1] # c
  <1>1. ASSUME NEW x \in net, proc[c] = "off" PROVE x.sock[1] # c
    <2>1. x.sock = SocketOf(x.sock[1]) /\ x.sock[3] \in Call
      BY CallSocket DEF TakeTurns
    <2> QED
      BY <1>1, <2>1 DEF SocketOf, Call
  <1> QED
    BY <1>1 DEF TakeTurns

\* Only the call in progress changes a control.
LEMMA DeviceReceiveViews ==
    ASSUME TargetsSave, ~TornWrites, ~Duplicates, IInv, NoncesInv, CallsInv, ViewsInv,
           NEW d \in Device, NEW m \in net, DeviceReceive(d, m)
    PROVE  ViewsInv'
  <1> DEFINE c == m.sock[1]
  <1>1. /\ TypeOK /\ d \in Node /\ pair[d] \in PairRecord /\ m.dst = d /\ proc[d] = "on"
        /\ \A b \in Controller : b \in Node \ {d}
        /\ \A b \in Controller : Target[b] \in Device
    BY NodeAssumption, FabricAssumption DEF IInv, TypeOK, DeviceReceive, Node
  <1>2. /\ PacketOK(m) /\ c \in Controller /\ Target[c] = d /\ m \in Datagram
        /\ m.sock = SocketOf(c) /\ c # d /\ m.sock[3] \in Call
    BY <1>1, CallSocket, NodeAssumption DEF ViewsInv, TakeTurns
  <1>3. PICK cp \in Decode(pair[d], m.cp) : \E out \in StateMachine(d, pair[d], cp) :
            DeviceProcess(d, m, cp, out)
    BY DEF DeviceReceive
  <1>4. PICK out \in StateMachine(d, pair[d], cp) : DeviceProcess(d, m, cp, out)
    BY <1>3
  <1> DEFINE called == Called(out, cp)
             v      == IF called THEN DeviceCallBack(value[d], cp.act) ELSE value[d]
             act    == CASE out.cmd = "APP_LIST_ACK" -> Controls(v)
                         [] out.cmd # "APP_LIST_ACK" /\ called -> CallBackReply(v, cp.act)
                         [] OTHER -> NoAction
             ans    == Answer(d, m, c, out, act)
  <1>5. /\ net' \subseteq (net \ {m}) \cup ans
        /\ value' = [value EXCEPT ![d] = v]
        /\ file' \in {file, [file EXCEPT ![d] = PairWrite(out.pair)]}
        /\ UNCHANGED <<proc, starts, wanted, seen>>
    <2> HIDE DEF v, ans
    <2>1. /\ net' = Consume(m) \cup Send(ans)
          /\ value' = [value EXCEPT ![d] = v]
          /\ file' \in {file, [file EXCEPT ![d] = PairWrite(out.pair)]}
          /\ UNCHANGED <<proc, starts, wanted, seen>>
      BY <1>4 DEF DeviceProcess, v, ans
    <2> QED
      BY <2>1 DEF Consume, Send
  <1>6. \A r \in ans : r.sock = m.sock /\ r.dst = c /\ \A x \in ans : x = r
    BY DEF Answer
  <1>7. \A r \in ans : PacketType(out.cmd) = "DATA" => r.cp.act = act
    BY DEF Answer, Encode
  <1>8. called => InCall(m)
    <2>1. called => m.cp.cmd \in AppCmd
      BY <1>1, <1>2, Decoded DEF Called, AppCmd
    <2> QED
      BY <1>2, <2>1 DEF PacketOK, AddressOK, InCall, Call
  <1>9. InCall(m) => /\ cp = m.cp /\ called
                     /\ out.cmd = IF m.sock[3] = "listing" THEN "APP_LIST_ACK"
                                                           ELSE "APP_MESSAGE_ACK"
                     /\ proc[c] = m.sock[3] /\ m.sock[3] \in {"listing", "acting"}
    BY <1>1, CallSocket, DeviceInCall DEF InCall
  <1>10. ~InCall(m) => v = value[d]
    BY <1>8
  <1>11. act = CASE out.cmd = "APP_LIST_ACK" -> Controls(v)
                 [] out.cmd # "APP_LIST_ACK" /\ called -> CallBackReply(v, cp.act)
                 [] OTHER -> NoAction
    OBVIOUS
  <1>v. called => v = DeviceCallBack(value[d], cp.act)
    OBVIOUS
  <1> HIDE DEF called, v, act, ans
  <1>12. /\ value'[d] = v
         /\ \A e \in Device \ {d} : value'[e] = value[e]
         /\ \A n \in Node \ {d} : file'[n] = file[n]
    BY <1>1, <1>5 DEF TypeOK
  <1>13. TakeTurns'
    <2>1. \A x \in net' : x.sock = SocketOf(x.sock[1])'
      BY <1>2, <1>5, <1>6 DEF ViewsInv, TakeTurns, SocketOf
    <2>2. \A x \in net \ {m} : x.sock[1] # c
      BY <1>2, NothingElse DEF ViewsInv
    <2>3. ASSUME NEW x \in net', NEW y \in net', x.sock[1] = y.sock[1] PROVE x = y
      BY <1>5, <1>6, <2>2, <2>3 DEF ViewsInv, TakeTurns
    <2> QED
      BY <2>1, <2>3 DEF TakeTurns
  <1>14. ASSUME NEW b \in Controller, b # c,
                HoldsPairing(b) \/ proc[b] \in {"listing", "acting"}
         PROVE  value'[Target[b]] = value[Target[b]]
    <2>1. CASE Target[b] # d
      BY <1>1, <1>12, <2>1
    <2>2. CASE Target[b] = d /\ ~InCall(m)
      BY <1>10, <1>12, <2>2
    <2>3. CASE Target[b] = d /\ InCall(m)
      BY <1>2, <1>9, <1>14, <2>3, OneCaller
    <2> QED
      BY <2>1, <2>2, <2>3
  <1>15. ASSUME NEW b \in Controller PROVE Shown(b)'
    <2>1. Shown(b)
      BY DEF ViewsInv
    <2>2. file'[b] = file[b]
      BY <1>1, <1>12
    <2>3. ASSUME proc[b] = "off", seen[b] # Unknown
          PROVE  value'[Target[b]] = value[Target[b]]
      <3>1. CASE b # c
        BY <1>14, <2>1, <2>3, <3>1 DEF Shown, HoldsPairing
      <3>2. CASE b = c
        BY <1>2, <2>3, <3>2 DEF SocketOf, Call
      <3> QED
        BY <3>1, <3>2
    <2> QED
      BY <1>5, <2>1, <2>2, <2>3 DEF Shown
  <1>16. ASSUME NEW x \in net \ {m} PROVE Fresh(x)'
    <2>1. /\ Fresh(x) /\ x.sock[1] \in Controller /\ x.sock[1] # c
          /\ x.sock = SocketOf(x.sock[1])
      BY <1>2, CallSocket, NothingElse DEF ViewsInv, TakeTurns
    <2>2. x.sock[3] \in {"listing", "acting"}
            => value'[Target[x.sock[1]]] = value[Target[x.sock[1]]]
      BY <1>14, <2>1, CallSocket DEF InCall
    <2> QED
      BY <1>5, <2>1, <2>2 DEF Fresh
  <1>17. ASSUME NEW r \in ans PROVE Fresh(r)'
    <2>1. r.sock = m.sock /\ r.dst = c
      BY <1>6
    <2>2. ASSUME m.sock[3] = "listing" PROVE r.cp.act.val = value'[d]
      <3>1. InCall(m)
        BY <1>2, <2>2 DEF InCall
      <3>2. out.cmd = "APP_LIST_ACK"
        BY <1>9, <2>2, <3>1
      <3>3. r.cp.act = Controls(v)
        BY <1>7, <1>11, <3>2 DEF PacketType, AppCmd
      <3> QED
        BY <1>12, <3>3 DEF Controls
    <2>3. ASSUME m.sock[3] = "acting"
          PROVE  value'[d] = ControllerCallBack(seen[c], r.cp.act)
      <3>1. InCall(m)
        BY <1>2, <2>3 DEF InCall
      <3>2. out.cmd = "APP_MESSAGE_ACK" /\ called /\ proc[c] = "acting"
        BY <1>9, <2>3, <3>1
      <3>3. r.cp.act = CallBackReply(v, cp.act)
        BY <1>7, <1>11, <3>2 DEF PacketType, AppCmd
      <3>4. seen[c] # Unknown /\ seen[c] = value[d]
        BY <1>1, <1>2, <2>3, <3>2 DEF CallsInv, ListFirst, ViewsInv, Fresh
      <3>5. v = DeviceCallBack(value[d], cp.act)
        BY <1>v, <3>2
      <3>6. CASE cp.act.op \in {"GET", "SET"}
        BY <1>12, <3>3, <3>4, <3>6 DEF CallBackReply, ControllerCallBack, Read
      <3>7. CASE cp.act.op \notin {"GET", "SET"}
        BY <1>12, <3>3, <3>4, <3>5, <3>7
        DEF CallBackReply, ControllerCallBack, DeviceCallBack, NoAction
      <3> QED
        BY <3>6, <3>7
    <2> QED
      BY <1>2, <1>5, <2>1, <2>2, <2>3 DEF Fresh
  <1>18. \A x \in net' : Fresh(x)'
    BY <1>5, <1>16, <1>17
  <1> QED
    BY <1>5, <1>13, <1>15, <1>18 DEF ViewsInv

LEMMA ControllerStartViews ==
    ASSUME IInv, ViewsInv, NEW c \in Controller, NEW act \in Command, ControllerStart(c, act)
    PROVE  ViewsInv'
  <1> DEFINE run  == starts[c] + 1
             p    == PairRead(c, PairInit(<<c, run>>), file[c])
             call == IF file[c] = NoFile THEN "pairing" ELSE "listing"
  <1>1. /\ TypeOK /\ c \in Node /\ proc[c] = "off"
        /\ \A d \in Device : d \in Node \ {c}
        /\ \A b \in Controller : b \in Node
    BY NodeAssumption DEF IInv, ControllerStart, Node
  <1>2. /\ call \in {"pairing", "listing"} /\ call \in Call
        /\ call = "pairing" <=> file[c] = NoFile
    BY DEF Call
  <1>r. PICK r : r = Request(c, p, run, call, NoAction)
    OBVIOUS
  <1>3. r.sock = <<c, run, call>> /\ r.dst # c
    <2>1. RequestSays(r, c, p, run, call, NoAction)
      <3> HIDE DEF p, run, call
      <3> QED
        BY <1>2, <1>r, RequestInCall
    <2> QED
      BY <2>1 DEF RequestSays
  <1> HIDE DEF p, run, call
  <1>4. /\ proc'[c] = call /\ starts'[c] = run /\ seen'[c] = Unknown
        /\ file' = file /\ value' = value /\ net' \subseteq net \cup {r}
        /\ \A n \in Node \ {c} : proc'[n] = proc[n] /\ starts'[n] = starts[n]
        /\ \A b \in Controller \ {c} : seen'[b] = seen[b]
    BY <1>1, <1>r DEF ControllerStart, Send, TypeOK, p, run, call
  <1>5. \A x \in net : x.sock[1] \in Controller \ {c}
    BY <1>1, CallSocket, NothingElse DEF ViewsInv
  <1>6. TakeTurns'
    <2>1. r.sock = SocketOf(r.sock[1])'
      BY <1>3, <1>4 DEF SocketOf
    <2>2. \A x \in net : x.sock = SocketOf(x.sock[1])'
      BY <1>1, <1>4, <1>5 DEF ViewsInv, TakeTurns, SocketOf
    <2>3. r.sock[1] = c
      BY <1>3
    <2>4. ASSUME NEW x \in net', NEW y \in net', x.sock[1] = y.sock[1] PROVE x = y
      BY <1>4, <1>5, <2>3, <2>4 DEF ViewsInv, TakeTurns
    <2> QED
      BY <1>4, <2>1, <2>2, <2>4 DEF TakeTurns
  <1>7. \A b \in Controller : Shown(b)'
    <2>1. Shown(c)'
      BY <1>2, <1>4 DEF Shown
    <2>2. \A b \in Controller \ {c} : Shown(b)'
      BY <1>1, <1>4 DEF ViewsInv, Shown
    <2> QED
      BY <2>1, <2>2
  <1>8. \A x \in net : Fresh(x)'
    BY <1>4, <1>5 DEF ViewsInv, Fresh
  <1>9. Fresh(r)'
    BY <1>2, <1>3 DEF Fresh
  <1> QED
    BY <1>1, <1>4, <1>6, <1>7, <1>8, <1>9 DEF ViewsInv

\* The acknowledgement of its nonce leaves a controller nothing to say.
LEMMA AckIsLast ==
    ASSUME IInv, NEW c \in Controller, NEW m \in net,
           proc[c] = "pairing", m.dst = c, m.sock = SocketOf(c),
           NEW cp \in Decode(pair[c], m.cp), NEW out \in StateMachine(c, pair[c], cp)
    PROVE  /\ out.e = "ERROR_OK" /\ ~Called(out, cp)
           /\ AfterAnswer(out).state = "PAIRED" => ~out.send
  <1>1. /\ TypeOK /\ c \in Node /\ pair[c] \in PairRecord /\ m \in Datagram /\ PacketOK(m)
        /\ m.sock[3] = "pairing"
    BY CallSocket DEF IInv, TypeOK, SocketOf
  <1>2. out \in Outcome /\ ControllerAnswers(c, pair[c], m, out)
    BY <1>1, ControllerTurn
  <1>3. /\ cp.cmd \in {m.cp.cmd, "PACKET_DECRYPT_FAILED"}
        /\ m.cp.cmd \notin AppCmd
        /\ cp.cmd \notin AppCmd \cup {"PACKET_DECRYPT_FAILED"} => cp = m.cp
    BY <1>1, Decoded DEF PacketOK, AddressOK
  <1>4. ASSUME AfterAnswer(out).state = "PAIRED" PROVE ~out.send
    <2>1. m.cp.cmd = "NONCE_ACK" /\ pair[c].state # "PAIRED" /\ out.pair.state = "PAIRED"
      BY <1>2, <1>4, AfterAnswerKeeps DEF ControllerAnswers, JustPaired, IInv, ControllerOK, Call
    <2>2. ~InvalidDest(c, cp)
      BY <1>1, <1>2 DEF ControllerAnswers, StateMachine
    <2>3. out.send = Handle(c, pair[c], cp).send
      BY <2>2 DEF StateMachine
    <2>4. cp.cmd \in {"NONCE_ACK", "PACKET_DECRYPT_FAILED"}
      BY <1>3, <2>1
    <2>5. Handle(c, pair[c], cp) \in {NonceAck(pair[c]), NoReply(pair[c])}
      BY <2>4, HandleByCmd
    <2> QED
      BY <2>3, <2>5 DEF NonceAck, NoReply
  <1> QED
    BY <1>1, <1>2, <1>3, <1>4 DEF ControllerAnswers, Called, AppCmd

\* What a run shows in the end is what it was told last.
LEMMA ControllerReceiveViews ==
    ASSUME TargetsSave, ~TornWrites, ~Duplicates, IInv, NoncesInv, CallsInv, ViewsInv,
           NEW c \in Controller, NEW m \in net, ControllerReceive(c, m)
    PROVE  ViewsInv'
  <1>1. /\ TypeOK /\ c \in Node /\ pair[c] \in PairRecord /\ m.dst = c /\ m.sock = SocketOf(c)
        /\ proc[c] \in Call /\ m.sock[1] = c /\ m.sock[3] = proc[c]
        /\ \A d \in Device : d \in Node \ {c}
        /\ \A b \in Controller : b \in Node /\ Target[b] # c
    BY NodeAssumption, FabricAssumption DEF IInv, TypeOK, ControllerReceive, SocketOf, Node
  <1>2. PICK cp \in Decode(pair[c], m.cp) : \E out \in StateMachine(c, pair[c], cp) :
            ControllerProcess(c, m, cp, out)
    BY DEF ControllerReceive
  <1>3. PICK out \in StateMachine(c, pair[c], cp) : ControllerProcess(c, m, cp, out)
    BY <1>2
  <1> DEFINE p    == AfterAnswer(out)
             ans  == Answer(c, m, Target[c], out, NoAction)
             last == Request(c, p, starts[c], "acting", wanted[c])
  <1>r. PICK r : r = last
    OBVIOUS
  <1>4. r.sock = <<c, starts[c], "acting">> /\ r.dst # c
    <2>1. "acting" \in Call
      BY DEF Call
    <2>2. RequestSays(r, c, p, starts[c], "acting", wanted[c])
      BY <1>r, <2>1, RequestInCall
    <2> QED
      BY <2>2 DEF RequestSays
  <1>5. \A x \in ans : x.sock = m.sock /\ x.dst # c /\ out.send /\ \A y \in ans : x = y
    BY <1>1 DEF Answer
  <1>6. \A x \in net \ {m} : x.sock[1] \in Controller \ {c}
    BY <1>1, CallSocket, NothingElse DEF ViewsInv
  <1>7. ASSUME proc[c] \in {"listing", "acting"}
        PROVE  cp = m.cp /\ ~out.send /\ Called(out, cp) /\ IsAnswer(m)
    BY <1>1, <1>7, ControllerInCall
  <1>8. ASSUME proc[c] = "pairing"
        PROVE  /\ out.e = "ERROR_OK" /\ ~Called(out, cp)
               /\ p.state = "PAIRED" => ~out.send
    BY <1>1, <1>8, AckIsLast
  <1> HIDE DEF p, ans, last
  <1>9. /\ starts' = starts /\ value' = value
        /\ seen'[c] = IF Called(out, cp) THEN ControllerCallBack(seen[c], cp.act) ELSE seen[c]
        /\ \A b \in Controller \ {c} : seen'[b] = seen[b]
        /\ \A n \in Node \ {c} : proc'[n] = proc[n] /\ file'[n] = file[n]
    BY <1>1, <1>3 DEF ControllerProcess, Exit, TypeOK
  <1>10. \/ /\ proc[c] = "pairing" /\ proc' = proc /\ file' = file
            /\ net' \subseteq (net \ {m}) \cup ans
         \/ /\ proc[c] = "pairing" /\ proc'[c] = "off" /\ file'[c] = PairWrite(p)
            /\ ~out.send /\ net' \subseteq (net \ {m}) \cup ans
         \/ /\ proc[c] = "listing" /\ proc'[c] = "acting" /\ file' = file
            /\ net' \subseteq (net \ {m}) \cup ans \cup {r}
         \/ /\ proc[c] = "acting" /\ proc'[c] = "off" /\ file'[c] = PairWrite(p)
            /\ net' \subseteq (net \ {m}) \cup ans
    <2>1. \A S, T : Close(S, c) \subseteq S /\ Send(T) \subseteq T
      BY DEF Close, Send
    <2>2. Consume(m) = net \ {m}
      BY DEF Consume
    <2> QED
      BY <1>1, <1>3, <1>8, <1>r, <2>1, <2>2 DEF ControllerProcess, Exit, TypeOK, p, ans, last
  <1>11. PairWrite(p) # NoFile
    BY DEF PairWrite, NoFile
  <1>12. \A x \in net \ {m} : x.sock = SocketOf(x.sock[1])'
    BY <1>1, <1>6, <1>9 DEF ViewsInv, TakeTurns, SocketOf
  <1>13. \A x \in net \ {m} : Fresh(x)'
    BY <1>6, <1>9 DEF ViewsInv, Fresh
  <1>14. \A b \in Controller \ {c} : Shown(b)'
    BY <1>1, <1>9 DEF ViewsInv, Shown
  <1>15. Fresh(m) /\ Shown(c) /\ ListFirst(c)
    BY DEF ViewsInv, CallsInv
  <1>16. \A d \in Device : proc'[d] = "on"
    BY <1>1, <1>9 DEF ViewsInv
  <1>17. CASE proc[c] = "pairing"
    <2>1. seen'[c] = Unknown /\ seen[c] = Unknown
      BY <1>8, <1>9, <1>15, <1>17 DEF Shown
    <2>2. Shown(c)'
      BY <1>10, <1>11, <1>15, <1>17, <2>1 DEF Shown
    <2>3. /\ net' \subseteq (net \ {m}) \cup ans
          /\ out.send => proc'[c] = proc[c]
      BY <1>10, <1>17
    <2>4. \A x \in ans : x.sock = SocketOf(c)' /\ x.sock[1] = c /\ Fresh(x)'
      BY <1>1, <1>5, <1>9, <1>17, <2>3 DEF SocketOf, Fresh
    <2>5. ASSUME NEW x \in net', NEW y \in net', x.sock[1] = y.sock[1] PROVE x = y
      BY <1>5, <1>6, <2>3, <2>4, <2>5 DEF ViewsInv, TakeTurns
    <2>6. TakeTurns'
      BY <1>12, <2>3, <2>4, <2>5 DEF TakeTurns
    <2> QED
      BY <1>13, <1>14, <1>16, <2>2, <2>3, <2>4, <2>6 DEF ViewsInv
  <1>18. CASE proc[c] = "listing"
    <2>1. ans = {}
      BY <1>5, <1>7, <1>18
    <2>2. /\ proc'[c] = "acting" /\ file' = file /\ net' \subseteq (net \ {m}) \cup {r}
      BY <1>10, <1>18, <2>1
    <2>3. seen'[c] = value'[Target[c]]
      <3>1. m.cp.act.op = "CONTROLS" /\ m.cp.act.val = value[Target[c]]
        BY <1>1, <1>7, <1>15, <1>18 DEF IsAnswer, Fresh
      <3> QED
        BY <1>7, <1>9, <1>18, <3>1 DEF ControllerCallBack
    <2>4. Shown(c)'
      BY <1>15, <1>18, <2>2 DEF Shown
    <2>5. r.sock = SocketOf(c)' /\ r.sock[1] = c /\ Fresh(r)'
      BY <1>4, <1>9, <2>2, <2>3 DEF SocketOf, Fresh
    <2>6. ASSUME NEW x \in net', NEW y \in net', x.sock[1] = y.sock[1] PROVE x = y
      BY <1>6, <2>2, <2>5, <2>6 DEF ViewsInv, TakeTurns
    <2>7. TakeTurns'
      BY <1>12, <2>2, <2>5, <2>6 DEF TakeTurns
    <2> QED
      BY <1>13, <1>14, <1>16, <2>2, <2>4, <2>5, <2>7 DEF ViewsInv
  <1>19. CASE proc[c] = "acting"
    <2>1. ans = {}
      BY <1>5, <1>7, <1>19
    <2>2. proc'[c] = "off" /\ file'[c] # NoFile /\ net' \subseteq net \ {m}
      BY <1>10, <1>11, <1>19, <2>1
    <2>3. seen'[c] = value'[Target[c]]
      BY <1>1, <1>7, <1>9, <1>15, <1>19 DEF Fresh
    <2>4. Shown(c)'
      BY <2>2, <2>3 DEF Shown
    <2>5. TakeTurns'
      BY <1>12, <2>2 DEF ViewsInv, TakeTurns
    <2> QED
      BY <1>13, <1>14, <1>16, <2>2, <2>4, <2>5 DEF ViewsInv
  <1> QED
    BY <1>1, <1>17, <1>18, <1>19 DEF Call

LEMMA ViewsStep ==
    ASSUME TargetsSave, Killable = {}, ~TornWrites, ~Duplicates
    PROVE  IInv /\ NoncesInv /\ CallsInv /\ ViewsInv /\ [Next]_vars => ViewsInv'
  <1> SUFFICES ASSUME IInv, NoncesInv, CallsInv, ViewsInv, [Next]_vars PROVE ViewsInv'
    OBVIOUS
  <1>1. ~ \E d \in Device : DeviceStart(d)
    BY DEF ViewsInv, DeviceStart
  <1>2. CASE \E d \in Device : \E m \in net : DeviceReceive(d, m)
    BY <1>2, DeviceReceiveViews
  <1>3. CASE \E c \in Controller : \E act \in Command : ControllerStart(c, act)
    BY <1>3, ControllerStartViews
  <1>4. CASE \E c \in Controller : \E m \in net : ControllerReceive(c, m)
    BY <1>4, ControllerReceiveViews
  <1>5. ~ \E n \in Node : Stop(n)
    BY DEF Stop
  <1>6. CASE net' \subseteq net /\ UNCHANGED <<proc, starts, file, value, seen>>
    BY <1>6 DEF ViewsInv, TakeTurns, SocketOf, Shown, Fresh
  <1>7. CASE UNCHANGED vars
    BY <1>6, <1>7 DEF vars
  <1>8. CASE \E m \in net : Lose(m)
    BY <1>6, <1>8 DEF Lose
  <1> QED
    BY <1>1, <1>2, <1>3, <1>4, <1>5, <1>7, <1>8 DEF Next

\* When nothing is killed and nothing repeated, what a finished run has shown is
\* the value the control has, with any number of controllers at the device, and
\* whatever the network loses.
THEOREM ViewMatchesCorrect ==
    ASSUME TargetsSave, Killable = {}, ~EarlyStops, ~TornWrites, ~Duplicates
    PROVE  Spec => []ViewMatches
  <1>1. Init => NoncesInv /\ CallsInv /\ ViewsInv
    <2>1. Init => ViewsInv
      <3> SUFFICES ASSUME Init PROVE ViewsInv
        OBVIOUS
      <3>1. /\ \A d \in Device : proc[d] = "on"
            /\ \A c \in Controller : proc[c] = "off" /\ seen[c] = Unknown
        BY NodeAssumption DEF Init, Node
      <3> QED
        BY <3>1 DEF Init, ViewsInv, TakeTurns, Shown
    <2> QED
      BY <2>1, InitNonces, InitCalls
  <1>2. Killable \cap Controller = {}
    OBVIOUS
  <1>3. IInv /\ NoncesInv /\ CallsInv /\ ViewsInv /\ [Next]_vars
            => NoncesInv' /\ CallsInv' /\ ViewsInv'
    BY <1>2, NoncesStep, CallsStep, ViewsStep
  <1>4. ViewsInv => ViewMatches
    BY DEF ViewsInv, Shown, ViewMatches
  <1> QED
    BY <1>1, <1>3, <1>4, Invariance, PTL DEF Spec

=============================================================================
