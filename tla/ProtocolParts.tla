--------------------------- MODULE ProtocolParts ---------------------------
(***************************************************************************)
(* Instances of what the protocol is built from, its cryptography left out: *)
(* the streams it is spoken over (Stream), the format of its packets        *)
(* (PacketCodec) and of the configuration they carry (ConfigCodec), and its *)
(* uuids (Uuids).  They share no state, so one behaviour is about one of    *)
(* them: part names it, and the variables of the others keep the value they *)
(* start with.                                                              *)
(***************************************************************************)
EXTENDS Uuids, Sequences

CONSTANTS
    Controllers,    \* those that are started after the device, and run to their end
    Killables,      \* those that may be there before the device, and be killed
    MaxConn,        \* bound: connections that are ever opened
    SerialRange,    \* the range of a 32-bit serial, scaled down
    FirstSerial,    \* the serial before the first packet
    MaxPackets,     \* bound: packets sent in one session
    Paddings,       \* the paddings that are drawn
    PayloadLengths, \* the bytes of a payload
    LabelLengths,   \* the bytes of the label of a control
    DataValues,     \* the values a control of ACTION_TYPE_DATA may have
    MaxControls,    \* bound: controls in a packet
    Movable,        \* the tags of a header that are sent in another order
    MaxReordered,   \* bound: the first packets, whose tags are
    Changeable,     \* settings and keys that are changed
    MaxChanges      \* bound: changes of the configuration, and writes of it cut short

VARIABLES
    part,
    conn, queue, dev, ctl,
    cp, serial, msg, got, made, used,
    config, image, saved, sent, changes

streamVars == <<conn, queue, dev, ctl>>
packetVars == <<cp, serial, msg, got, made, used>>
configVars == <<config, image, saved, sent, changes>>
partsVars == <<part, vars, streamVars, packetVars, configVars>>

\* Controllers, each knowing the device or not, that are started after it.
Orderly == INSTANCE Stream WITH
    Controller <- Controllers, Known <- Controllers, DeviceFirst <- TRUE, Kills <- FALSE,
    WildLength <- FALSE
\* Controllers that are killed at any time, may be there before the device, and send wild lengths.
Killed == INSTANCE Stream WITH
    Controller <- Killables, Known <- Killables, DeviceFirst <- FALSE, Kills <- TRUE,
    WildLength <- TRUE

Packets == INSTANCE PacketCodec WITH Word <- SerialRange, count <- made

Config == INSTANCE ConfigCodec

ASSUME StreamsAssumption == MaxConn \in Nat \ {0}

ASSUME SerialAssumption ==
    /\ SerialRange \in Nat \ {0, 1} /\ FirstSerial \in 0 .. SerialRange - 1
    /\ MaxPackets \in Nat

\* A session ends before its serials are spent: 2^32 of them.
ASSUME SessionAssumption == MaxPackets <= SerialRange

\* The reader has a case for whatever is changed: for all but sta_ipv6ns1, sta_ipv6ns2, sta_ntpv6,
\* ap_ipv6, ap_ipv6netmask and ap_ipv6gw.
ASSUME SettingsAssumption ==
    Config!ConfigAssumption /\ \A s \in Changeable : Config!ReaderWidth(s) # 0

ASSUME Orderly!StreamAssumption /\ Killed!StreamAssumption
ASSUME FormatAssumption == Packets!CodecAssumption

Streams == {"streams", "killed streams"}

Unused == "unused"
StreamUnused ==
    /\ conn = Unused /\ queue = Unused /\ dev = [accepted |-> Orderly!NoSocket] /\ ctl = Unused
PacketUnused ==
    /\ cp = Unused /\ serial = Unused /\ msg = Unused
    /\ got = Unused /\ made = Unused /\ used = Unused
ConfigUnused ==
    /\ config = Unused /\ image = Unused /\ saved = Unused /\ sent = Unused /\ changes = Unused

\* Any other name of a part is that of one whose state is elsewhere.
PartsInit ==
    /\ Init
    /\ CASE part = "streams" -> Orderly!Init
         [] part = "killed streams" -> Killed!Init
         [] OTHER -> StreamUnused
    /\ IF part = "packets" THEN Packets!Init ELSE PacketUnused
    /\ IF part = "config" THEN Config!Init ELSE ConfigUnused

PartsNext ==
    /\ \/ /\ part = "uuids" /\ Next
          /\ UNCHANGED <<streamVars, packetVars, configVars>>
       \/ /\ \/ part = "streams" /\ Orderly!Next
             \/ part = "killed streams" /\ Killed!Next
          /\ UNCHANGED <<vars, packetVars, configVars>>
       \/ /\ part = "packets" /\ Packets!Next
          /\ UNCHANGED <<vars, streamVars, configVars>>
       \/ /\ part = "config" /\ Config!Next
          /\ UNCHANGED <<vars, streamVars, packetVars>>
    /\ UNCHANGED part

PartsSpec == PartsInit /\ [][PartsNext]_partsVars

-----------------------------------------------------------------------------
(* The properties of the parts, which their modules explain. *)

\* Nobody reads from a connection that owes him nothing, and success means an answer; with kills
\* and resets, connections that are left open are dead, and no two controllers are paired
\* (chatFabric_controller, chatFabric_device, stateMachine).
CallsSound ==
    /\ part = "streams" => Orderly!OkMeansAnswered /\ Orderly!NoMutualWait
    /\ part = "killed streams" => Killed!OnlyDeadAreLeaked /\ Killed!OnePairing

\* Every run of a controller comes to its end, also that of the controller the device turns
\* down, and the device comes back to accept the next connection (chatFabric_controller's
\* retries, chatFabric_device).
StreamsEnd ==
    /\ \A c \in Controllers : <>(part = "streams" => ctl[c].pc = "end")
    /\ part = "streams" => Orderly!DeviceComesBack


\* No two sealed payloads of one sender share a session nonce (chatPacket_calcNonce).
NoncesDiffer == [][part = "packets" => Packets!NonceIsNew]_packetVars

\* What was written is read, a short write costs what is behind the cut and no more, and keys
\* are never sent (cfConfigWrite, cfConfigRead, CONFIG_GET).
ConfigSurvives ==
    part = "config" => Config!RestartRestores /\ Config!CutSparesTheRest /\ Config!KeysStayHome
=============================================================================
