----------------------------- MODULE ChatPacket -----------------------------
(***************************************************************************)
(* The packets of dpdChatFabric (dpdChatPacket.c) and what sealing them    *)
(* with a shared key means: which packets carry a key or a nonce, what a   *)
(* receiver obtains when it decodes one.  The byte layout (tags, lengths,  *)
(* random padding) is not described here.                                  *)
(***************************************************************************)
EXTENDS Naturals

CONSTANTS
    Device,         \* processes running bin/device
    Controller,     \* processes running bin/controller
    Nil,            \* the nil uuid and the all-zero public key
    Value           \* the values a control can take

ASSUME NodeAssumption ==
    /\ Device \cap Controller = {}
    /\ Nil \notin Device \cup Controller

ASSUME ValueAssumption == 0 \in Value /\ Nil \notin Value

\* A node stands for its uuid and for its curve25519 key pair, which both
\* live in its configuration file and survive restarts.
Node == Device \cup Controller

\* A nonce is named by the process run that drew it; a zero nonce has no owner.
Nonce == (Node \cup {Nil}) \X Nat
ZeroNonce == <<Nil, 0>>

\* curve25519: the secret node n shares with the owner of public key pk.  The
\* product with the all-zero key is the all-zero secret, whoever computes it.
SharedSecret(n, pk) == IF pk = Nil THEN {} ELSE {n, pk}

-----------------------------------------------------------------------------

\* The action fields of a DATA packet, or the control list of APP_LIST_ACK.
NoAction == [op |-> "NULL", val |-> 0]
Get      == [op |-> "GET", val |-> 0]
Set(v)   == [op |-> "SET", val |-> v]
Read(v)  == [op |-> "READ", val |-> v]
Controls(v) == [op |-> "CONTROLS", val |-> v]

Action == [op : {"NULL", "GET", "SET", "READ", "CONTROLS"}, val : Value]

AppCmd == {"APP_MESSAGE", "APP_MESSAGE_ACK", "APP_LIST", "APP_LIST_ACK"}

VerifyCmd == {"VERIFY_SYN", "VERIFY_SYNACK", "VERIFY_ACK"}

\* The commands of the protocol but CONFIG_GET and CONFIG_SET, which neither
\* of the two programs sends.
Cmd == AppCmd \cup VerifyCmd \cup
    {"INVAILD_CMD", "HELLO", "HELLO_ACK",
     "PAIR_REQUEST", "PAIR_REQUEST_ACK", "PAIR_REQUEST_RESET",
     "PUBLICKEY_REQUEST", "PUBLICKEY_SEND", "PUBLICKEY_ACK", "PUBLICKEY_RESET",
     "NONCE_REQUEST", "NONCE_SEND", "NONCE_ACK", "NONCE_RESET",
     "PACKET_DECRYPT_FAILED", "FAIL"}

\* Flags are told apart only where a receiver reads them: 1 is the sender's
\* hasPublicKey or hasNonce, 2 stands for CMD_SEND_REPLY_TRUE.
SendReply == 2
Flags == 0..2

Packet ==
    [kind : {"COMMAND", "PUBLICKEY", "NONCE", "DATA"},
     cmd : Cmd, flags : Flags, serial : Nat,
     to : Node \cup {Nil}, from : Node \cup {Nil},
     publickey : Node \cup {Nil},
     seal : SUBSET Node, nonce : Nonce, act : Action]

\* The packet type chatFabric_device picks for a reply, and the one
\* chatFabric_controller passes for each of its requests.
PacketType(cmd) ==
    CASE cmd = "NONCE_SEND"     -> "NONCE"
      [] cmd = "PUBLICKEY_SEND" -> "PUBLICKEY"
      [] cmd \in AppCmd         -> "DATA"
      [] OTHER                  -> "COMMAND"

\* chatPacket_encode by node n, from pairing p.  Only NONCE and DATA packets
\* have a sealed part: the first carries the sender's own nonce, the second
\* is encrypted under the peer's nonce plus the packet's serial.
Encode(n, p, cmd, flags, to, from, act) ==
    LET kind == PacketType(cmd) IN
    [kind |-> kind, cmd |-> cmd, flags |-> flags, to |-> to, from |-> from,
     serial    |-> IF kind = "DATA" THEN p.serial + 1 ELSE 0,
     publickey |-> IF kind = "PUBLICKEY" THEN n ELSE Nil,
     seal      |-> IF kind \in {"NONCE", "DATA"} THEN p.sharedkey ELSE {},
     nonce     |-> CASE kind = "NONCE" -> p.mynonce
                     [] kind = "DATA"  -> p.nonce
                     [] OTHER          -> ZeroNonce,
     act       |-> IF kind = "DATA" THEN act ELSE NoAction]

\* Mutated: the serial is sent and not counted.
AfterEncodeUncounted(p, cmd) == p

\* Encoding a DATA packet consumes one serial of the sender's pairing.
AfterEncode(p, cmd) ==
    IF PacketType(cmd) = "DATA" THEN [p EXCEPT !.serial = @ + 1] ELSE p

\* chatFabric_device carries on with this command when decoding fails; the
\* header fields are kept, the sealed ones were never set.
Undecoded(m) == [m EXCEPT !.cmd = "PACKET_DECRYPT_FAILED", !.act = NoAction]

\* A payload whose MAC is right but whose session nonce is not decrypts to
\* random bytes that are parsed as tags: nearly always a bad tag, sometimes
\* fields nobody reads, sometimes another "to" uuid.
Garbled(m) == {Undecoded(m), [m EXCEPT !.act = NoAction],
               [m EXCEPT !.act = NoAction, !.to = Nil]}

\* chatPacket_decode with pairing p: the packets the caller may end up with.
\* The MAC depends on the shared key only; the stream also on the nonces.
Decode(p, m) ==
    CASE m.kind \in {"NONCE", "DATA"} /\ m.seal # p.sharedkey -> {Undecoded(m)}
      [] m.kind = "DATA" /\ m.seal = p.sharedkey /\ m.nonce # p.mynonce -> Garbled(m)
      [] OTHER -> {m}

=============================================================================
