------------------------------ MODULE Pairing -------------------------------
(***************************************************************************)
(* The pairing one process keeps with its peer (chatFabricPairing), the    *)
(* file it is saved in (cfPairConfig.c) and the function that moves it on  *)
(* the receipt of a packet (stateMachine in dpdChatFabric.c).  The same    *)
(* code runs in the device and in the controller.                          *)
(*                                                                         *)
(* A handler returns an outcome: the new pairing, the command and flags of *)
(* the reply, and whether stateMachine asks for the reply to be sent.      *)
(***************************************************************************)
EXTENDS ChatPacket

State == {"UNCONFIGURED", "PUBLICKEY_SETUP", "NONCE_SETUP",
          "CONFIGURED", "CONFIGURED_SYN", "CONFIGURED_SYNACK", "PAIRED"}

PairRecord ==
    [state : State, hasPublicKey : 0..1, hasNonce : 0..1, serial : Nat,
     uuid : Node \cup {Nil}, publickey : Node \cup {Nil},
     sharedkey : SUBSET Node, nonce : Nonce, mynonce : Nonce]

\* cfPairInit, and the same assignments at the top of the controller's main,
\* over zeroed memory: everything is blank but a freshly drawn nonce.
PairInit(mynonce) ==
    [state |-> "UNCONFIGURED", hasPublicKey |-> 0, hasNonce |-> 0, serial |-> 0,
     uuid |-> Nil, publickey |-> Nil, sharedkey |-> {},
     nonce |-> ZeroNonce, mynonce |-> mynonce]

-----------------------------------------------------------------------------
(* The pair file.                                                          *)

\* No pair file, or one emptied by a write that was cut short: cfPairRead
\* finds no tag in either.
NoFile == [saved |-> FALSE]

\* cfPairWrite stores every field but the shared key.
PairWrite(p) ==
    [saved |-> TRUE, state |-> p.state,
     hasPublicKey |-> p.hasPublicKey, hasNonce |-> p.hasNonce, serial |-> p.serial,
     uuid |-> p.uuid, publickey |-> p.publickey,
     nonce |-> p.nonce, mynonce |-> p.mynonce]

PairFile == {NoFile} \cup
    [saved : {TRUE}, state : State, hasPublicKey : 0..1, hasNonce : 0..1,
     serial : Nat, uuid : Node \cup {Nil}, publickey : Node \cup {Nil},
     nonce : Nonce, mynonce : Nonce]

\* Mutated: the shared key is not computed again.
PairReadOldKey(n, p, f) ==
    IF f = NoFile THEN p
    ELSE [state |-> "PAIRED", hasPublicKey |-> f.hasPublicKey,
          hasNonce |-> f.hasNonce, serial |-> f.serial,
          uuid |-> f.uuid, publickey |-> f.publickey, sharedkey |-> p.sharedkey,
          nonce |-> f.nonce, mynonce |-> f.mynonce]

\* Mutated: the state is left alone.
PairReadOldState(n, p, f) ==
    IF f = NoFile THEN p
    ELSE [state |-> p.state, hasPublicKey |-> f.hasPublicKey,
          hasNonce |-> f.hasNonce, serial |-> f.serial,
          uuid |-> f.uuid, publickey |-> f.publickey,
          sharedkey |-> SharedSecret(n, f.publickey),
          nonce |-> f.nonce, mynonce |-> f.mynonce]

\* Mutated: the nonce drawn at this start is kept.
PairReadOldNonce(n, p, f) ==
    IF f = NoFile THEN p
    ELSE [state |-> "PAIRED", hasPublicKey |-> f.hasPublicKey,
          hasNonce |-> f.hasNonce, serial |-> f.serial,
          uuid |-> f.uuid, publickey |-> f.publickey,
          sharedkey |-> SharedSecret(n, f.publickey),
          nonce |-> f.nonce, mynonce |-> p.mynonce]

\* cfPairRead by node n over pairing p.  The public key's tag, which comes
\* after the state's, puts the pairing in STATE_PAIRED whatever was saved;
\* the shared key is computed again.
PairRead(n, p, f) ==
    IF f = NoFile THEN p
    ELSE [state |-> "PAIRED", hasPublicKey |-> f.hasPublicKey,
          hasNonce |-> f.hasNonce, serial |-> f.serial,
          uuid |-> f.uuid, publickey |-> f.publickey,
          sharedkey |-> SharedSecret(n, f.publickey),
          nonce |-> f.nonce, mynonce |-> f.mynonce]

-----------------------------------------------------------------------------
(* The handlers of stateMachine, one per command.                          *)

Reply(p, cmd, flags) == [pair |-> p, cmd |-> cmd, flags |-> flags, send |-> TRUE]
NoReply(p) == [pair |-> p, cmd |-> "INVAILD_CMD", flags |-> 0, send |-> FALSE]

PairRequestReset(p) ==
    IF p.state # "PAIRED"
    THEN Reply([p EXCEPT !.state = "UNCONFIGURED"], "PAIR_REQUEST", 0)
    ELSE Reply(p, "FAIL", 0)

\* Mutated: a paired node starts the handshake anew.
PairRequestAgain(p, cp) ==
    LET q == [p EXCEPT !.uuid = cp.from] IN
    IF p.state \in {"UNCONFIGURED", "PAIRED"}
    THEN Reply([q EXCEPT !.state = "PUBLICKEY_SETUP"], "PAIR_REQUEST_ACK", 0)
    ELSE Reply(q, "FAIL", 0)

\* The peer's uuid is overwritten before the state is looked at.
PairRequest(p, cp) ==
    LET q == [p EXCEPT !.uuid = cp.from] IN
    IF p.state = "UNCONFIGURED"
    THEN Reply([q EXCEPT !.state = "PUBLICKEY_SETUP"], "PAIR_REQUEST_ACK", 0)
    ELSE Reply(q, "FAIL", 0)

PairRequestAck(p, cp) ==
    IF p.state = "UNCONFIGURED"
    THEN Reply([p EXCEPT !.state = "PUBLICKEY_SETUP", !.uuid = cp.from],
               "PUBLICKEY_REQUEST", 0)
    ELSE NoReply(p)

PublickeyRequest(p) ==
    IF p.state = "PUBLICKEY_SETUP"
    THEN Reply(p, "PUBLICKEY_SEND", p.hasPublicKey)
    ELSE NoReply(p)

\* Mutated: the keys received are counted.
PublickeySendCounted(n, p, cp) ==
    LET q == [p EXCEPT !.publickey = cp.publickey, !.hasPublicKey = @ + 1,
                       !.sharedkey = SharedSecret(n, cp.publickey)] IN
    CASE p.state # "PUBLICKEY_SETUP" -> NoReply(p)
      [] p.state = "PUBLICKEY_SETUP" /\ cp.flags = 1 ->
            Reply([q EXCEPT !.state = "NONCE_SETUP"], "PUBLICKEY_ACK", 1)
      [] OTHER -> Reply(q, "PUBLICKEY_SEND", 1)

\* flags 1 says that the peer already has this node's public key.
PublickeySend(n, p, cp) ==
    LET q == [p EXCEPT !.publickey = cp.publickey, !.hasPublicKey = 1,
                       !.sharedkey = SharedSecret(n, cp.publickey)] IN
    CASE p.state # "PUBLICKEY_SETUP" -> NoReply(p)
      [] p.state = "PUBLICKEY_SETUP" /\ cp.flags = 1 ->
            Reply([q EXCEPT !.state = "NONCE_SETUP"], "PUBLICKEY_ACK", 1)
      [] OTHER -> Reply(q, "PUBLICKEY_SEND", 1)

\* Falls through to PUBLICKEY_REQUEST, which finds another state and does
\* nothing.
PublickeyAck(p) ==
    IF p.state = "PUBLICKEY_SETUP"
    THEN Reply([p EXCEPT !.state = "NONCE_SETUP"], "NONCE_REQUEST", 0)
    ELSE NoReply(p)

NonceRequest(p) ==
    CASE p.state # "NONCE_SETUP" -> NoReply(p)
      [] p.state = "NONCE_SETUP" /\ p.hasPublicKey = 1 ->
            Reply(p, "NONCE_SEND", p.hasNonce)
      [] OTHER -> Reply([p EXCEPT !.state = "UNCONFIGURED"], "PAIR_REQUEST_RESET", 0)

\* Mutated: the peer's nonce is not stored.
NonceSendUnstored(p, cp) ==
    LET q == [p EXCEPT !.hasNonce = 1] IN
    CASE p.state # "NONCE_SETUP" -> NoReply(p)
      [] p.state = "NONCE_SETUP" /\ cp.flags = 1 ->
            Reply([q EXCEPT !.state = "PAIRED"], "NONCE_ACK", 0)
      [] OTHER -> Reply(q, "NONCE_SEND", 1)

\* Mutated: the second nonce is not acknowledged.
NonceSendUnanswered(p, cp) ==
    LET q == [p EXCEPT !.nonce = cp.nonce, !.hasNonce = 1] IN
    CASE p.state # "NONCE_SETUP" -> NoReply(p)
      [] p.state = "NONCE_SETUP" /\ cp.flags = 1 ->
            NoReply([q EXCEPT !.state = "PAIRED"])
      [] OTHER -> Reply(q, "NONCE_SEND", 1)

\* flags 1 says that the peer already has this node's nonce.
NonceSend(p, cp) ==
    LET q == [p EXCEPT !.nonce = cp.nonce, !.hasNonce = 1] IN
    CASE p.state # "NONCE_SETUP" -> NoReply(p)
      [] p.state = "NONCE_SETUP" /\ cp.flags = 1 ->
            Reply([q EXCEPT !.state = "PAIRED"], "NONCE_ACK", 0)
      [] OTHER -> Reply(q, "NONCE_SEND", 1)

NonceAck(p) ==
    NoReply(IF p.state = "NONCE_SETUP" THEN [p EXCEPT !.state = "PAIRED"] ELSE p)

\* The verify exchange works between three states that nothing enters but
\* the exchange itself.
Verify(p, cmd) ==
    CASE p.state \notin {"CONFIGURED", "CONFIGURED_SYN", "CONFIGURED_SYNACK"} -> NoReply(p)
      [] OTHER ->
        CASE cmd = "VERIFY_SYN" ->
                Reply([p EXCEPT !.state = "CONFIGURED_SYN"], "VERIFY_SYNACK", 0)
          [] cmd = "VERIFY_SYNACK" ->
                Reply([p EXCEPT !.state = "CONFIGURED_SYNACK"], "VERIFY_ACK", 0)
          [] OTHER -> Reply([p EXCEPT !.state = "PAIRED"], "VERIFY_ACK", 0)

\* Mutated: the acknowledgement is never sent.
AppMessageSilent(p, cp) == NoReply(p)

AppMessage(p, cp) ==
    IF p.state = "PAIRED" /\ cp.flags = SendReply
    THEN Reply(p, "APP_MESSAGE_ACK", 0)
    ELSE NoReply(p)

AppList(p) == IF p.state = "PAIRED" THEN Reply(p, "APP_LIST_ACK", 0) ELSE NoReply(p)

\* The switch of stateMachine.  All other commands are taken in silence.
Handle(n, p, cp) ==
    CASE cp.cmd = "PAIR_REQUEST_RESET" -> PairRequestReset(p)
      [] cp.cmd = "HELLO"              -> Reply(p, "HELLO_ACK", 0)
      [] cp.cmd = "PAIR_REQUEST"       -> PairRequest(p, cp)
      [] cp.cmd = "PAIR_REQUEST_ACK"   -> PairRequestAck(p, cp)
      [] cp.cmd = "PUBLICKEY_REQUEST"  -> PublickeyRequest(p)
      [] cp.cmd = "PUBLICKEY_SEND"     -> PublickeySend(n, p, cp)
      [] cp.cmd = "PUBLICKEY_ACK"      -> PublickeyAck(p)
      [] cp.cmd = "NONCE_REQUEST"      -> NonceRequest(p)
      [] cp.cmd = "NONCE_SEND"         -> NonceSend(p, cp)
      [] cp.cmd = "NONCE_ACK"          -> NonceAck(p)
      [] cp.cmd \in VerifyCmd          -> Verify(p, cp.cmd)
      [] cp.cmd = "APP_MESSAGE"        -> AppMessage(p, cp)
      [] cp.cmd = "APP_LIST"           -> AppList(p)
      [] OTHER                         -> NoReply(p)

\* The packets stateMachine turns down before the switch.
InvalidDest(n, cp) ==
    cp.to # n /\ cp.cmd \notin {"HELLO", "HELLO_ACK", "PAIR_REQUEST"}

\* stateMachine: the set of outcomes it can have.  On a wrong destination it
\* returns without assigning *replyCmd, which its caller never initialised:
\* the blank reply packet is then sent, or not.
StateMachine(n, p, cp) ==
    IF InvalidDest(n, cp)
    THEN {[pair |-> p, cmd |-> "INVAILD_CMD", flags |-> 0, send |-> sent,
           to |-> Nil, from |-> Nil, e |-> "ERROR_INVAILD_DEST"] : sent \in BOOLEAN}
    ELSE LET h == Handle(n, p, cp) IN
         {[pair |-> h.pair, cmd |-> h.cmd, flags |-> h.flags, send |-> h.send,
           to |-> cp.from, from |-> n, e |-> "ERROR_OK"]}

\* Mutated: the pairing is saved only by the end that had the nonce before.
JustPairedLast(p, q) == p.state # "PAIRED" /\ q.state = "PAIRED" /\ p.hasNonce = 1

\* stateMachine saves the pairing when it has just become PAIRED.
JustPaired(p, q) == p.state # "PAIRED" /\ q.state = "PAIRED"

=============================================================================
