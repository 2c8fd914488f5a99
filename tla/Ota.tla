-------------------------------- MODULE Ota ---------------------------------
(***************************************************************************)
(* The firmware update of the ESP8266 (rboot-ota.c, and the shell's ota and *)
(* switch): one upgrade structure, one timer, a flag kept by the SDK, and  *)
(* callbacks for the name lookup, the connection, data, errors, closing    *)
(* and timeouts.  Closing a connection is asynchronous, so that another    *)
(* update may be started before the old connection is gone.  The update    *)
(* writes the slot the device does not run from, and at its end the boot   *)
(* configuration is changed: its sector is erased, then written.           *)
(***************************************************************************)
EXTENDS Integers

CONSTANTS
    MaxStarts,      \* updates started
    Lengths,        \* lengths of ROMs in bytes, as the server announces them; all fit a slot
    Word,           \* bytes of the smallest write
    Steps,          \* by how many bytes a chunk may advance a download
    LookupErrors,   \* espconn_gethostbyname may return an error
    Impatient,      \* an update may be started while an old one is closing
    Switches        \* the shell's switch is used

ASSUME OtaAssumption ==
    /\ MaxStarts \in Nat
    /\ Lengths \cup Steps \cup {Word} \subseteq Nat \ {0}
    /\ {LookupErrors, Impatient, Switches} \subseteq BOOLEAN

Attempt == 1 .. MaxStarts
Slot == {0, 1}

VARIABLES
    started,        \* updates started so far
    flag,           \* system_upgrade_flag
    upgrade,        \* the upgrade structure and the pointer to it
    ota_timer,      \* what the timer calls when it expires
    conn,           \* the connection of each attempt
    rom,            \* what each slot holds
    bootconf,       \* current_rom in the boot configuration, or Erased
    chosen,         \* the slot rboot_set_config is about to write, or NoSlot
    at              \* the running slot, or NoSlot while the device restarts

vars == <<started, flag, upgrade, ota_timer, conn, rom, bootconf, chosen, at>>

NoSlot == -1
Erased == -2

\* upgrade: the attempt it belongs to (0: its conn is 0), the bytes received
\* and those announced (0: no reply yet).  "dangling" is a pointer to memory
\* that has been freed.
NoUpgrade(pointer) ==
    [pointer |-> pointer, conn |-> 0, total_len |-> 0, content_len |-> 0, rom_slot |-> 0]

TypeOK ==
    /\ started \in 0 .. MaxStarts
    /\ flag \in {"IDLE", "START", "FINISH"}
    /\ upgrade \in [pointer : {"null", "live", "dangling"}, conn : 0 .. MaxStarts,
                    total_len : Nat, content_len : {0} \cup Lengths, rom_slot : Slot]
    /\ ota_timer \in {"off", "connect_timeout_cb", "rboot_ota_deinit"}
    /\ conn \in [Attempt -> {"none", "lookup", "connecting", "open", "closing", "freed"}]
    /\ rom \in [Slot -> {"old", "partial", "complete"}]
    /\ bootconf \in Slot \cup {Erased}
    /\ chosen \in Slot \cup {NoSlot}
    /\ at \in Slot \cup {NoSlot}

Init ==
    /\ started = 0
    /\ flag = "IDLE"
    /\ upgrade = NoUpgrade("null")
    /\ ota_timer = "off"
    /\ conn = [i \in Attempt |-> "none"]
    /\ rom = [s \in Slot |-> IF s = 0 THEN "complete" ELSE "old"]
    /\ bootconf = 0
    /\ chosen = NoSlot
    /\ at = 0

-----------------------------------------------------------------------------
(* The pieces the callbacks are made of *)

\* Callbacks and commands run one after the other, and none while the boot
\* configuration is written.
Idle == at # NoSlot /\ chosen = NoSlot

\* rboot_set_current_rom up to the erasure of the sector.  Without memory it
\* does nothing; the device restarts with the old configuration.
BeginSetRom(slot) ==
    \/ bootconf' = Erased /\ chosen' = slot
    \/ UNCHANGED bootconf /\ chosen' = bootconf

\* rboot_ota_deinit, entered with the structure u, the connections c and the
\* flag f: frees u, disconnects, and calls back.  After FINISH the callback is
\* OtaUpdate_CallBack(true, slot).
rboot_ota_deinit(u, c, f) ==
    /\ ota_timer' = "off"
    /\ upgrade' = NoUpgrade("null")
    /\ conn' = IF u.conn = 0 THEN c ELSE [c EXCEPT ![u.conn] = "closing"]
    /\ IF f = "FINISH"
       THEN flag' = f /\ BeginSetRom(u.rom_slot)
       ELSE flag' = "IDLE" /\ UNCHANGED <<bootconf, chosen>>

\* Mutated: whoever is disconnected ends the update.
DisconnectEndsAny(i) ==
    IF upgrade.pointer = "live"
    THEN rboot_ota_deinit([upgrade EXCEPT !.conn = 0], [conn EXCEPT ![i] = "freed"], flag)
    ELSE /\ conn' = [conn EXCEPT ![i] = "freed"]
         /\ ota_timer' = "off"
         /\ UNCHANGED <<flag, upgrade, bootconf, chosen>>

\* upgrade_disconcb: stops the timer, frees the connection, and ends the update
\* if the connection was its own.  A dangling structure's connection is freed
\* memory and no connection that is still there.
upgrade_disconcb(i) ==
    IF upgrade.pointer = "live" /\ upgrade.conn = i
    THEN rboot_ota_deinit([upgrade EXCEPT !.conn = 0], [conn EXCEPT ![i] = "freed"], flag)
    ELSE /\ conn' = [conn EXCEPT ![i] = "freed"]
         /\ ota_timer' = "off"
         /\ UNCHANGED <<flag, upgrade, bootconf, chosen>>

\* upgrade_resolved with an address: espconn_connect, with a timeout.
Connecting(u) ==
    /\ upgrade' = u
    /\ conn' = [conn EXCEPT ![u.conn] = "connecting"]
    /\ ota_timer' = "connect_timeout_cb"

\* Bytes in flash after n have been handed to rboot_write_flash (RomWriter).
InFlash(n) == n - (n % Word)

-----------------------------------------------------------------------------
(* The update *)

\* Mutated: the current slot is updated.
CurrentSlotUpgrade(i) ==
    [pointer |-> "live", conn |-> i, total_len |-> 0, content_len |-> 0,
     rom_slot |-> bootconf]

\* rboot_write_init for the slot that is not current.
NewUpgrade(i) ==
    [pointer |-> "live", conn |-> i, total_len |-> 0, content_len |-> 0,
     rom_slot |-> IF bootconf = 0 THEN 1 ELSE 0]

\* rboot_ota_start.
Start ==
    /\ Idle
    /\ flag # "START"
    /\ started < MaxStarts
    /\ Impatient \/ \A i \in Attempt : conn[i] # "closing"
    /\ started' = started + 1
    /\ LET u == NewUpgrade(started')
       IN  \* no memory
           \/ /\ \E p \in {"null", "dangling"} : upgrade' = NoUpgrade(p)
              /\ UNCHANGED <<flag, conn, ota_timer>>
           \* the lookup cannot be made
           \/ /\ LookupErrors
              /\ flag' = "START"
              /\ upgrade' = NoUpgrade("dangling")
              /\ UNCHANGED <<conn, ota_timer>>
           \* the lookup is under way
           \/ /\ flag' = "START"
              /\ upgrade' = u
              /\ conn' = [conn EXCEPT ![u.conn] = "lookup"]
              /\ UNCHANGED ota_timer
           \* the address is known
           \/ flag' = "START" /\ Connecting(u)
    /\ UNCHANGED <<rom, bootconf, chosen, at>>

\* upgrade_resolved.
Resolved(i) ==
    /\ Idle
    /\ conn[i] = "lookup"
    /\ \/ /\ Connecting(upgrade)
          /\ UNCHANGED <<flag, bootconf, chosen>>
       \/ upgrade_disconcb(upgrade.conn)
    /\ UNCHANGED <<started, rom, at>>

\* Mutated: the request is sent without a timer for the reply.
ConnectedUntimed(i) ==
    /\ Idle
    /\ conn[i] = "connecting"
    /\ conn' = [conn EXCEPT ![i] = "open"]
    /\ ota_timer' = "off"
    /\ UNCHANGED <<started, flag, upgrade, rom, bootconf, chosen, at>>

\* upgrade_connect_cb.
Connected(i) ==
    /\ Idle
    /\ conn[i] = "connecting"
    /\ \/ /\ conn' = [conn EXCEPT ![i] = "open"]
          /\ ota_timer' = "rboot_ota_deinit"
          /\ UNCHANGED <<flag, upgrade, bootconf, chosen>>
       \* no memory for the request
       \/ rboot_ota_deinit(upgrade, conn, flag)
    /\ UNCHANGED <<started, rom, at>>

\* The slot while total bytes of a ROM have been received.
Progress(total) ==
    rom' = [rom EXCEPT ![upgrade.rom_slot] = IF InFlash(total) > 0 THEN "partial" ELSE @]

\* Mutated: what is left of the last chunk is not waited for.
FinishedEarly(total, content) == total + Word >= content

\* upgrade_recvcb's test for the end.
Finished(total, content) == total = content

\* upgrade_recvcb, the data taken: the end of the update, the wait for more, or
\* an unexpected state of the connection.
Received(total, content) ==
    IF Finished(total, content)
    THEN /\ rom' = [rom EXCEPT ![upgrade.rom_slot] =
                        IF InFlash(total) = content THEN "complete" ELSE "partial"]
         /\ rboot_ota_deinit(upgrade, conn, "FINISH")
    ELSE /\ Progress(total)
         /\ \/ /\ upgrade' = [upgrade EXCEPT !.total_len = total, !.content_len = content]
               /\ ota_timer' = "rboot_ota_deinit"
               /\ UNCHANGED <<flag, conn, bootconf, chosen>>
            \/ rboot_ota_deinit(upgrade, conn, flag)

\* A write that fails, after the sectors were erased: the update is over.
WriteFails(total) == Progress(total) /\ rboot_ota_deinit(upgrade, conn, flag)

\* The first reply: a header that is accepted, with n bytes of data behind it
\* that are written or not, or one that is not.
FirstReply(i) ==
    /\ Idle
    /\ conn[i] = "open"
    /\ upgrade.content_len = 0
    /\ \/ \E l \in Lengths, n \in Steps \cup {0} : Received(n, l)
       \/ \E n \in Steps : WriteFails(n)
       \/ rboot_ota_deinit(upgrade, conn, flag) /\ UNCHANGED rom
    /\ UNCHANGED <<started, at>>

\* More data, written or not.  A server may send more than it announced, and
\* the update goes on; bound: no chunk but the first that goes beyond.
Data(i) ==
    /\ Idle
    /\ conn[i] = "open"
    /\ upgrade.total_len < upgrade.content_len
    /\ \E n \in Steps :
        \/ Received(upgrade.total_len + n, upgrade.content_len)
        \/ WriteFails(upgrade.total_len + n)
    /\ UNCHANGED <<started, at>>

\* The timer: connect_timeout_cb or rboot_ota_deinit.
TimerExpires ==
    /\ Idle
    /\ \/ ota_timer = "connect_timeout_cb" /\ upgrade_disconcb(upgrade.conn)
       \/ ota_timer = "rboot_ota_deinit" /\ rboot_ota_deinit(upgrade, conn, flag)
    /\ UNCHANGED <<started, rom, at>>

\* upgrade_recon_cb: an error while connecting or connected.
ConnectionError(i) ==
    /\ Idle
    /\ conn[i] \in {"connecting", "open"}
    /\ upgrade_disconcb(upgrade.conn)
    /\ UNCHANGED <<started, rom, at>>

\* upgrade_disconcb as the SDK calls it: the server has closed, or
\* espconn_disconnect is done.
Disconnected(i) ==
    /\ Idle
    /\ conn[i] \in {"open", "closing"}
    /\ upgrade_disconcb(i)
    /\ UNCHANGED <<started, rom, at>>

-----------------------------------------------------------------------------
(* Boot configuration and restarts *)

\* The shell's switch.
Switch ==
    /\ Switches
    /\ Idle
    /\ BeginSetRom(1 - bootconf)
    /\ UNCHANGED <<started, flag, upgrade, ota_timer, conn, rom, at>>

\* What a restart leaves.
Reset ==
    /\ flag' = "IDLE"
    /\ upgrade' = NoUpgrade("null")
    /\ ota_timer' = "off"
    /\ conn' = [i \in Attempt |-> IF conn[i] = "none" THEN "none" ELSE "freed"]
    /\ chosen' = NoSlot
    /\ at' = NoSlot
    /\ UNCHANGED <<started, rom>>

\* Mutated: the device goes on without a restart.
FinishAndGoOn ==
    /\ chosen # NoSlot
    /\ bootconf' = chosen /\ chosen' = NoSlot
    /\ UNCHANGED <<started, flag, upgrade, ota_timer, conn, rom, at>>

\* rboot_set_config writes the sector back, and system_restart.
FinishSetRom ==
    /\ chosen # NoSlot
    /\ bootconf' = chosen
    /\ Reset

PowerFail ==
    /\ at # NoSlot
    /\ Reset
    /\ UNCHANGED bootconf

\* The boot loader: without a valid configuration it writes the default one.
Boot ==
    /\ at = NoSlot
    /\ bootconf' = IF bootconf = Erased THEN 0 ELSE bootconf
    /\ at' = bootconf'
    /\ UNCHANGED <<started, flag, upgrade, ota_timer, conn, rom, chosen>>

-----------------------------------------------------------------------------

Callback ==
    \/ \E i \in Attempt :
        \/ Resolved(i) \/ Connected(i) \/ FirstReply(i) \/ Data(i)
        \/ ConnectionError(i) \/ Disconnected(i)
    \/ TimerExpires

Next == Start \/ Callback \/ Switch \/ FinishSetRom \/ PowerFail \/ Boot

Spec == Init /\ [][Next]_vars

\* The SDK answers a lookup and finishes a disconnection, a timer that is armed
\* expires, and the program goes on.
FairSpec ==
    /\ Spec
    /\ \A i \in Attempt : WF_vars(Resolved(i)) /\ WF_vars(conn[i] = "closing" /\ Disconnected(i))
    /\ WF_vars(TimerExpires)
    /\ WF_vars(FinishSetRom)

-----------------------------------------------------------------------------
(* Properties *)

\* Wherever the power fails, the boot loader starts a complete ROM: while a slot
\* is half written the configuration names the other, and while the
\* configuration is erased (rboot-api.c:65) slot 0, the default, is complete.
BootsCompleteRom == at # NoSlot => rom[at] = "complete"

\* An update never writes the slot the device runs from (rboot-ota.c:302),
\* although a switch may come while it is under way.
RunningRomUntouched == [][at # NoSlot => rom'[at] = rom[at]]_vars

\* No callback meets a structure that is gone or belongs to another attempt
\* (rboot-ota.c:259 on use upgrade without a test), although old connections
\* may still be closing.
CallbacksFindUpgrade ==
    /\ \A i \in Attempt :
        conn[i] \in {"lookup", "connecting", "open"} =>
            upgrade.pointer = "live" /\ upgrade.conn = i
    /\ ota_timer # "off" => upgrade.pointer = "live"

\* Why they hold where every ROM is a multiple of the smallest write and the
\* shell does not switch.  An update that is going on has raised the flag, and
\* none outlives a restart.
OneUpdate ==
    /\ flag # "START" => upgrade.pointer # "live"
    /\ at = NoSlot => upgrade.pointer # "live" /\ chosen = NoSlot

\* The device runs what is configured, also where the shell switches.
RunsConfigured == Idle => bootconf = at

\* An update is for the other slot, also where the shell switches.
OtherSlot == Idle /\ upgrade.pointer = "live" => upgrade.rom_slot # at

\* An update is for the other slot, and whatever the boot loader can come to
\* start is complete, the default slot while the configuration is erased.
SlotsComplete ==
    /\ RunsConfigured /\ OtherSlot
    /\ \A s \in {at, bootconf, chosen} \cap Slot : rom[s] = "complete"
    /\ bootconf = Erased => rom[0] = "complete"

\* The inductive invariant.
OtaInv == TypeOK /\ CallbacksFindUpgrade /\ OneUpdate /\ SlotsComplete

\* Every update comes to an end, whatever the server does: each wait but that
\* for the lookup has its timer (rboot-ota.c:137, 195, 274).
UpdateEnds == flag = "START" ~> flag # "START"

\* What rboot-ota.h:35 says of OTA_NETWORK_TIMEOUT, "timeout for the initial
\* connect and each recv": no update waits for the network without it.
WaitsWithTimeout ==
    (\E i \in Attempt : conn[i] \in {"connecting", "open"}) => ota_timer # "off"

\* What rboot-api.c:100 says of rboot_write_end, "ensure any remaning bytes get
\* written (needed for files not a multiple of 4 bytes)": the ROM the device is
\* told to boot is in flash to its last byte.
NewRomWritten == chosen # NoSlot => rom[chosen] = "complete"

=============================================================================
