---------------------------- MODULE PacketCodec ----------------------------
(***************************************************************************)
(* The packets of one sender to one receiver as they lie on the wire:      *)
(* chatPacket_init0, chatPacket_init, chatPacket_encode, chatPacket_decode *)
(* and chatPacket_calcNonce (dpdChatPacket.c, local cryptography).         *)
(*                                                                         *)
(* A buffer is a sequence of fields, each with its tag, the bytes it takes *)
(* and its value.  The encoder computes the length of a buffer before it   *)
(* fills it; the decoder knows the width of each tag and of nothing else,  *)
(* so it loses its place where the two disagree.                           *)
(***************************************************************************)
EXTENDS Integers, Sequences

CONSTANTS
    Word,            \* the range of a 32-bit counter, scaled down
    MaxPackets,      \* bound: packets sent
    FirstSerial,     \* the sender's pair->serial before its first packet
    Paddings,        \* the paddings that are drawn
    PayloadLengths,  \* the bytes of a payload
    LabelLengths,    \* the bytes of the label of a control
    DataValues,      \* the values a control of ACTION_TYPE_DATA may have: the bytes of its data,
                     \* no more than the four the decoder has room for
    MaxControls,     \* bound: controls in a packet
    Movable,         \* the tags a sender may place in another order
    MaxReordered     \* bound: the first packets, whose tags are

HeadTags == {"cmd", "serial", "flags", "to0", "to1", "from0", "from1"}

\* chatPacket_init and chatPacket_init0: the paddings are split at random
\* into two parts of 16 bytes together, neither of them empty.
Padding == 1 .. 15

CodecAssumption ==
    /\ Word \in Nat \ {0} /\ MaxPackets \in Nat
    /\ FirstSerial \in 0 .. Word - 1
    /\ Paddings \subseteq Padding
    /\ PayloadLengths \subseteq Nat /\ LabelLengths \subseteq Nat /\ DataValues \subseteq 0 .. 4
    /\ MaxControls \in Nat
    /\ Movable \subseteq HeadTags /\ MaxReordered \in Nat

VARIABLES
    cp,        \* the packet the sender has made
    serial,    \* the sender's pair->serial
    msg,       \* the encoded packet on its way
    got,       \* what the receiver has decoded
    count,     \* how many packets were made
    used       \* the session nonces of the sealed payloads
vars == <<cp, serial, msg, got, count, used>>

-----------------------------------------------------------------------------
(* The data.                                                               *)

PUBLICKEYBYTES == 32
NONCEBYTES == 8
MACBYTES == 16
SEALBYTES == 16

PacketType == {"COMMAND", "PUBLICKEY", "NONCE", "DATA"}

\* data: the pointer to it is not NULL.  device.c allocates its controls with
\* malloc and never sets it.
Control ==
    [type : {"BOOLEAN"}, value : {1}, labelLength : LabelLengths, data : {FALSE}]
    \cup [type : {"DATA"}, value : DataValues, labelLength : LabelLengths, data : BOOLEAN]

Packet ==
    [type : PacketType, to : {"receiver"}, from : {"sender"}, padding : Paddings,
     action : {"NULL"}, payloadLength : {0}, controls : {<<>>}]
    \cup
    [type : {"DATA"}, to : {"receiver"}, from : {"sender"}, padding : Paddings,
     action : {"NULL", "SET"}, payloadLength : PayloadLengths,
     controls : UNION {[1 .. n -> Control] : n \in 0 .. MaxControls}]

\* The length of a payload counts the data of these.
HasData(c) == c.type = "DATA" /\ c.value > 0

\* No control promises data it does not have.
KeepsPromises(p) == \A i \in DOMAIN p.controls : HasData(p.controls[i]) => p.controls[i].data

\* chatPacket_init0: the packet a receiver decodes into.
Blank ==
    [cmd |-> 0, serial |-> 0, flags |-> 0, to |-> "nil", from |-> "nil",
     publickey |-> "none", nonce |-> "none", payloadLength |-> 0, payload |-> "none",
     action |-> "NULL", controls |-> <<>>,
     envelopeRandomPadding |-> {}, payloadRandomPadding |-> {}]

\* A copy into one of the two buffers for paddings, over the random bytes
\* chatPacket_init0 leaves there.
PADDINGBYTES == 16
Copied(at, n, half) == {[at |-> at, bytes |-> n, half |-> half]}

-----------------------------------------------------------------------------
(* chatPacket_encode.                                                      *)

Field(tag, width, content) == [tag |-> tag, width |-> width, content |-> content]
Int32(tag, content) == Field(tag, 5, content)
Uuid(tag, content) == Field(tag, 17, content)
Data8(tag, n, content) == Field(tag, 1 + n, content)

\* The sums of the first of some numbers.
Sums(ns) ==
    LET sum[n \in 0 .. Len(ns)] == IF n = 0 THEN 0 ELSE sum[n - 1] + ns[n]
    IN  sum

Total(ns) == Sums(ns)[Len(ns)]

Width(fields) == Total([i \in 1 .. Len(fields) |-> fields[i].width])

\* A buffer of n bytes that these fields are written to; bytes that are left
\* over stay zero, which is the tag NOOP.
Buffer(fields, n) ==
    IF Width(fields) >= n THEN fields
    ELSE Append(fields, Field("NOOP", n - Width(fields), 0))

\* Mutated: the carry out of the low word is kept as another bit of it.
CalcNonceHalf(s, nonce) == [nonce EXCEPT !.low = (@ + s) % (Word \div 2)]

\* chatPacket_calcNonce: only the last word takes part.
CalcNonce(s, nonce) == [nonce EXCEPT !.low = (@ + s) % Word]

NullNonce == [high |-> 0, low |-> 0]
PeerNonce == [high |-> 1, low |-> Word - 2]    \* the receiver's mynonce
MyNonce == [high |-> 2, low |-> 1]             \* the sender's

\* p_length: a control is given room for its data if its value says so.
ControlLength(c) ==
    25 + (IF HasData(c) THEN c.value + 1 ELSE 0)
       + (IF c.labelLength > 0 THEN c.labelLength + 6 ELSE 0)

PayloadLength(p) ==
    (IF p.payloadLength > 0 THEN 1 + p.payloadLength ELSE 0) + 25
    + (IF p.action # "NULL" THEN 25 ELSE 0)
    + (IF p.controls = <<>> THEN 0
       ELSE 5 + Total([i \in 1 .. Len(p.controls) |-> ControlLength(p.controls[i])]))

ControlFields(c) ==
    << Int32("app_control_i", 0), Int32("app_control_type", c.type),
       Int32("app_control_value", c.value), Int32("app_control_rangeLow", 0),
       Int32("app_control_rangeHigh", 0) >>
    \o (IF c.labelLength > 0
        THEN << Int32("app_control_labelLength", c.labelLength),
                Data8("app_control_label", c.labelLength, "label") >>
        ELSE <<>>)
    \o (IF HasData(c) /\ c.data THEN << Data8("app_control_data", c.value, "data") >> ELSE <<>>)

\* The fields of the first controls.
ControlsFields(controls) ==
    LET fields[n \in 0 .. Len(controls)] ==
            IF n = 0 THEN <<>> ELSE fields[n - 1] \o ControlFields(controls[n])
    IN  fields

\* action_length is 0 in every packet that is made.
ActionFields(p) ==
    IF p.action = "NULL" THEN <<>>
    ELSE << Int32("action", p.action), Int32("action_control", 0),
            Int32("action_type", 0), Int32("action_value", 1), Int32("action_length", 0) >>


PayloadFields(p) ==
    << Int32("payloadLength", p.payloadLength),
       Data8("payloadRandomPaddingLength", 1, <<p.padding, 16 - p.padding>>),
       Data8("payloadRandomPaddingHigh", p.padding, "high") >>
    \o ActionFields(p)
    \o (IF p.controls = <<>> THEN <<>>
        ELSE << Int32("app_controls", Len(p.controls)) >>
             \o ControlsFields(p.controls)[Len(p.controls)])
    \o (IF p.payloadLength > 0 THEN << Data8("payload", p.payloadLength, "data") >> ELSE <<>>)
    \o << Data8("payloadRandomPaddingLow", 16 - p.padding, "low") >>

\* What the sender seals under its shared key and a nonce.
Seal(nonce, fields) == [nonce |-> nonce, fields |-> fields]

EnvelopeFields(p) ==
    << Data8("envelopeRandomPaddingLength", 1, <<p.padding, 16 - p.padding>>),
       Data8("envelopeRandomPaddingHigh", p.padding, "high"),
       Data8("nonce", NONCEBYTES, MyNonce),
       Data8("envelopeRandomPaddingLow", 16 - p.padding, "low") >>

EnvelopeLength == 2 + 1 + 16 + 1 + NONCEBYTES + 1

\* The serial a packet carries: a sealed payload takes the next one.
SerialOf(p, s) == IF p.type = "DATA" THEN (s + 1) % Word ELSE 0

\* n: the serial the packet carries.
HeadFields(p, n) ==
    << Int32("cmd", p.type), Int32("serial", n), Int32("flags", 1),
       Uuid("to0", p.to), Uuid("to1", p.to), Uuid("from0", p.from), Uuid("from1", p.from) >>

BodyFields(p, n) ==
    CASE p.type = "COMMAND" -> <<>>
      [] p.type = "PUBLICKEY" -> << Data8("publickey", PUBLICKEYBYTES, "key") >>
      [] p.type = "NONCE" ->
            LET len == EnvelopeLength + SEALBYTES IN
            << Int32("envelopeLength", len),
               Data8("encryptedEnvelope", len,
                     Seal(NullNonce, Buffer(EnvelopeFields(p), EnvelopeLength))) >>
      [] p.type = "DATA" ->
            LET len == PayloadLength(p) + MACBYTES IN
            << Int32("payloadLength", len),
               Data8("encryptedPayload", len,
                     Seal(CalcNonce(n, PeerNonce),
                          Buffer(PayloadFields(p), PayloadLength(p)))) >>

\* ob_length
PacketLength(p) ==
    78 + 5
    + CASE p.type = "COMMAND" -> 0
        [] p.type = "PUBLICKEY" -> PUBLICKEYBYTES + 1
        [] p.type = "NONCE" -> EnvelopeLength + SEALBYTES + 1 + 1 + 4
        [] p.type = "DATA" -> PayloadLength(p) + MACBYTES + 1 + 4 + 1

Fields(p, n) == HeadFields(p, n) \o BodyFields(p, n)

-----------------------------------------------------------------------------
(* chatPacket_decode.  One call of it keeps the packet, its own paddings,  *)
(* the index of the current control, and how it goes on.                   *)

Call(packet) ==
    [cp |-> packet, env |-> <<0, 0>>, pad |-> <<0, 0>>, envelopeLength |-> 0, current |-> 0,
     ret |-> "more"]

\* A control in what malloc returned: each part that the packet leaves out is
\* indeterminate, and here nothing that a sender has.
Garbage == [type |-> "?", value |-> -1, labelLength |-> -1]

\* The bytes the decoder takes for a tag, of which each length was read
\* before, or not.
DecodedWidth(st, tag) ==
    CASE tag \in {"to0", "to1", "from0", "from1"} -> 17
      [] tag = "publickey" -> 1 + PUBLICKEYBYTES
      [] tag = "nonce" -> 1 + NONCEBYTES
      [] tag \in {"envelopeRandomPaddingLength", "payloadRandomPaddingLength"} -> 2
      [] tag = "envelopeRandomPaddingHigh" -> 1 + st.env[1]
      [] tag = "envelopeRandomPaddingLow" -> 1 + st.env[2]
      [] tag = "payloadRandomPaddingHigh" -> 1 + st.pad[1]
      [] tag = "payloadRandomPaddingLow" -> 1 + st.pad[2]
      [] tag = "encryptedEnvelope" -> 1 + st.envelopeLength
      [] tag \in {"encryptedPayload", "payload"} -> 1 + st.cp.payloadLength
      [] tag = "app_control_label" -> 1 + st.cp.controls[st.current].labelLength
      [] tag = "app_control_data" -> 1 + st.cp.controls[st.current].value
      [] OTHER -> 5

\* Fields of fixed meaning.  A padding of no bytes is refused, and so is a
\* tag that is not known.  The low padding of the payload goes into the
\* envelope's buffer, and the data of a control into ni, which is not used.
Plain(st, f) ==
    LET Lost == f.tag = "NOOP" \/ DecodedWidth(st, f.tag) # f.width
        Set(p) == [st EXCEPT !.cp = p] IN
    IF st.ret # "more" THEN st
    ELSE IF Lost THEN [st EXCEPT !.ret = "failed"]
    ELSE CASE f.tag = "cmd" -> Set([st.cp EXCEPT !.cmd = f.content])
           [] f.tag = "serial" -> Set([st.cp EXCEPT !.serial = f.content])
           [] f.tag = "flags" -> Set([st.cp EXCEPT !.flags = f.content])
           [] f.tag = "to0" -> Set([st.cp EXCEPT !.to = f.content])
           [] f.tag = "from0" -> Set([st.cp EXCEPT !.from = f.content])
           [] f.tag = "publickey" -> Set([st.cp EXCEPT !.publickey = f.content])
           [] f.tag = "nonce" -> Set([st.cp EXCEPT !.nonce = f.content])
           [] f.tag = "action" -> Set([st.cp EXCEPT !.action = f.content])
           [] f.tag = "payloadLength" -> Set([st.cp EXCEPT !.payloadLength = f.content])
           [] f.tag = "payload" -> Set([st.cp EXCEPT !.payload = f.content])
           [] f.tag = "envelopeLength" -> [st EXCEPT !.envelopeLength = f.content]
           [] f.tag = "envelopeRandomPaddingLength" -> [st EXCEPT !.env = f.content]
           [] f.tag = "payloadRandomPaddingLength" -> [st EXCEPT !.pad = f.content]
           [] f.tag = "envelopeRandomPaddingHigh" ->
                Set([st.cp EXCEPT !.envelopeRandomPadding = @ \cup Copied(0, st.env[1], f.content)])
           [] f.tag = "envelopeRandomPaddingLow" ->
                Set([st.cp EXCEPT !.envelopeRandomPadding =
                        @ \cup Copied(st.env[1], st.env[2], f.content)])
           [] f.tag = "payloadRandomPaddingHigh" ->
                Set([st.cp EXCEPT !.payloadRandomPadding = @ \cup Copied(0, st.pad[1], f.content)])
           [] f.tag = "payloadRandomPaddingLow" ->
                Set([st.cp EXCEPT !.envelopeRandomPadding =
                        @ \cup Copied(st.pad[1], st.pad[2], f.content)])
           [] f.tag = "app_controls" ->
                [st EXCEPT !.current = 0, !.cp.controls = [i \in 1 .. f.content |-> Garbage]]
           [] f.tag = "app_control_i" -> [st EXCEPT !.current = @ + 1]
           [] f.tag = "app_control_type" -> [st EXCEPT !.cp.controls[st.current].type = f.content]
           [] f.tag = "app_control_value" -> [st EXCEPT !.cp.controls[st.current].value = f.content]
           [] f.tag = "app_control_labelLength" ->
                [st EXCEPT !.cp.controls[st.current].labelLength = f.content]
           [] OTHER -> st

\* How a call of the decoder goes through such fields, from st on.
Decoding(st, fields) ==
    LET after[n \in 0 .. Len(fields)] == IF n = 0 THEN st ELSE Plain(after[n - 1], fields[n])
    IN  after

DecodePlain(packet, fields) == Decoding(Call(packet), fields)[Len(fields)]

\* The envelope needs only the shared key.  Its contents are decoded into
\* the same packet, and what comes after it is not read any more.
OpenEnvelope(st, f) ==
    LET inner == DecodePlain(st.cp, f.content.fields) IN
    IF DecodedWidth(st, f.tag) # f.width THEN [st EXCEPT !.ret = "failed"]
    ELSE IF inner.ret = "more" THEN [st EXCEPT !.cp = inner.cp, !.ret = "done"]
    ELSE [st EXCEPT !.cp = inner.cp]

\* The payload needs the nonce of the serial read so far.
OpenPayload(st, f) ==
    LET inner == DecodePlain(st.cp, f.content.fields) IN
    IF \/ DecodedWidth(st, f.tag) # f.width
       \/ f.content.nonce # CalcNonce(st.cp.serial, PeerNonce)
    THEN [st EXCEPT !.ret = "failed"]
    ELSE [st EXCEPT !.cp = inner.cp, !.ret = IF inner.ret = "more" THEN "more" ELSE "failed"]

DecodeField(st, f) ==
    CASE st.ret # "more" -> st
      [] st.ret = "more" /\ f.tag = "encryptedEnvelope" -> OpenEnvelope(st, f)
      [] st.ret = "more" /\ f.tag = "encryptedPayload" -> OpenPayload(st, f)
      [] OTHER -> Plain(st, f)

DecodingAll(fields) ==
    LET after[n \in 0 .. Len(fields)] ==
            IF n = 0 THEN Call(Blank) ELSE DecodeField(after[n - 1], fields[n])
    IN  after

DecodePacket(fields) == DecodingAll(fields)[Len(fields)]

-----------------------------------------------------------------------------
Nothing == [fields |-> <<>>]
NotYet == [ret |-> "none"]

Init ==
    /\ cp = Nothing /\ msg = Nothing /\ got = NotYet
    /\ serial = FirstSerial /\ count = 0 /\ used = {}

\* chatPacket_init, or chatPacket_init0 and the handler that fills it in.
Make ==
    /\ cp = Nothing /\ count < MaxPackets
    /\ \E p \in Packet : cp' = [fields |-> p]
    /\ count' = count + 1
    /\ UNCHANGED <<serial, msg, got, used>>

Encode ==
    /\ cp # Nothing /\ msg = Nothing
    /\ msg' = [fields |-> Buffer(Fields(cp.fields, SerialOf(cp.fields, serial)),
                                 PacketLength(cp.fields))]
    /\ IF cp.fields.type = "DATA"
       THEN /\ serial' = SerialOf(cp.fields, serial)
            /\ used' = used \cup {CalcNonce(serial', PeerNonce)}
       ELSE UNCHANGED <<serial, used>>
    /\ UNCHANGED <<cp, got, count>>

\* Another sender might write the tags of its header in another order.
Reorder ==
    /\ msg # Nothing /\ got = NotYet /\ count <= MaxReordered
    /\ \E i \in 1 .. Len(msg.fields) - 1 :
         LET f == msg.fields[i]  g == msg.fields[i + 1] IN
         /\ {f.tag, g.tag} \subseteq Movable
         /\ msg' = [fields |-> [msg.fields EXCEPT ![i] = g, ![i + 1] = f]]
    /\ UNCHANGED <<cp, serial, got, count, used>>

\* chatPacket_decode
Decode ==
    /\ msg # Nothing /\ got = NotYet
    /\ LET st == DecodePacket(msg.fields) IN
       got' = [ret |-> IF st.ret = "failed" THEN -1 ELSE 0, cp |-> st.cp]
    /\ UNCHANGED <<cp, serial, msg, count, used>>

\* chatPacket_delete, by the sender and by the receiver
Delete ==
    /\ got # NotYet
    /\ cp' = Nothing /\ msg' = Nothing /\ got' = NotYet
    /\ UNCHANGED <<serial, count, used>>

Next == Make \/ Encode \/ Reorder \/ Decode \/ Delete

Spec == Init /\ [][Next]_vars

-----------------------------------------------------------------------------
\* The serial that an encoded packet carries: the one that was spent last.
Carried(p) == IF p.type = "DATA" THEN serial ELSE 0

\* The packet the receiver should have: what was sent, but that it cannot know
\* of a control without a label that it has none.
Expected(p) ==
    [Blank EXCEPT !.cmd = p.type, !.flags = 1, !.to = p.to, !.from = p.from,
                  !.serial = Carried(p),
                  !.publickey = IF p.type = "PUBLICKEY" THEN "key" ELSE "none",
                  !.nonce = IF p.type = "NONCE" THEN MyNonce ELSE "none",
                  !.payloadLength = p.payloadLength,
                  !.payload = IF p.payloadLength > 0 THEN "data" ELSE "none",
                  !.action = p.action,
                  !.controls =
                    [i \in DOMAIN p.controls |->
                        LET c == p.controls[i] IN
                        [type |-> c.type, value |-> c.value,
                         labelLength |->
                            IF c.labelLength > 0 THEN c.labelLength ELSE Garbage.labelLength]]]

\* A packet but for its paddings, which no program uses.
Meaning(packet) ==
    [packet EXCEPT !.envelopeRandomPadding = {}, !.payloadRandomPadding = {}]

TypeOK ==
    /\ cp = Nothing \/ \E p \in Packet : cp = [fields |-> p]
    /\ serial \in 0 .. Word - 1
    /\ msg # Nothing => \A i \in DOMAIN msg.fields : msg.fields[i].width \in Nat \ {0}
    /\ got # NotYet => got.ret \in {0, -1} /\ DOMAIN got.cp = DOMAIN Blank
    /\ count \in 0 .. MaxPackets
    /\ used \subseteq [high : {1}, low : 0 .. Word - 1]


\* Whatever the packet, what is copied into a buffer for paddings lies within
\* it and on nothing copied before, also where it is the wrong buffer.
PaddingsFit ==
    got # NotYet =>
        \A copies \in {got.cp.envelopeRandomPadding, got.cp.payloadRandomPadding} :
            /\ \A c \in copies : c.at + c.bytes <= PADDINGBYTES
            /\ \A c, d \in copies : c = d \/ c.at + c.bytes <= d.at \/ d.at + d.bytes <= c.at

\* The encoder never writes beyond the buffers whose length it computed
\* before, not even when a DATA control promises bytes it does not have.
NeverOverruns ==
    cp # Nothing =>
        /\ Width(Fields(cp.fields, Carried(cp.fields))) <= PacketLength(cp.fields)
        /\ Width(PayloadFields(cp.fields)) <= PayloadLength(cp.fields)
        /\ Width(EnvelopeFields(cp.fields)) <= EnvelopeLength

\* No two sealed payloads of one sender share a session nonce.
NonceIsNew ==
    \A p \in Packet : cp = [fields |-> p] /\ p.type = "DATA" /\ serial' # serial
            => CalcNonce(serial', PeerNonce) \notin used
NoncesDiffer == [][NonceIsNew]_vars

\* Why nonces differ: the serials the used ones are made from lie in a row, round the end
\* if need be, from the one after the first to the last, and are no more than
\* the packets that were encoded.
SerialsInARow ==
    LET Sealed == IF cp # Nothing /\ msg = Nothing THEN count - 1 ELSE count IN
    \/ /\ FirstSerial <= serial /\ serial - FirstSerial <= Sealed
       /\ \A n \in used : \E s \in FirstSerial + 1 .. serial : n = CalcNonce(s, PeerNonce)
    \/ /\ serial <= FirstSerial /\ serial + Word - FirstSerial <= Sealed
       /\ \A n \in used : \E s \in FirstSerial + 1 .. Word - 1 \cup 0 .. serial :
            n = CalcNonce(s, PeerNonce)

=============================================================================
