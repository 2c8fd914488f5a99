--------------------------- MODULE FirmwareProofs ---------------------------
(***************************************************************************)
(* The firmware's parts, for every value of their constants.                *)
(* The update: whatever the server, the network, late callbacks and power   *)
(* failures do to it, the device restarts into a complete ROM and runs from *)
(* one that nothing touches.                                                *)
(* The writer: the chunks of a download end up in flash in their order,     *)
(* whatever their sizes, over sectors that were erased just before.         *)
(* The shell: the command that runs is the line as it was typed.            *)
(* The buffered serial driver: both of its rings are queues, and what is    *)
(* sent comes in the order in which it was received.                        *)
(***************************************************************************)
EXTENDS MCFirmware, FiniteSetTheorems, SequenceTheorems, TLAPS

\* Flash is written by words, and nothing writes the bytes of a last word that
\* is not full (run ota_tail).
WholeWords == \A l \in Lengths : l % Word = 0

Active == {"lookup", "connecting", "open"}
ConnState == Active \cup {"none", "closing", "freed"}

LEMMA LengthsAreNumbers ==
    /\ Lengths \subseteq Nat \ {0} /\ Steps \subseteq Nat \ {0} /\ Word \in Nat \ {0}
    /\ MaxStarts \in Nat
    BY OtaAssumption

\* A connection that can still call back is the one the update waits for.
LEMMA OneActive ==
    ASSUME CallbacksFindUpgrade, NEW i \in Attempt, conn[i] \in Active
    PROVE  /\ upgrade.pointer = "live" /\ upgrade.conn = i
           /\ \A j \in Attempt : conn[j] \in Active => j = i
    BY DEF CallbacksFindUpgrade, Active

\* rboot_ota_deinit leaves no update behind, and a configuration that names a
\* complete ROM before and after it is written.
LEMMA Deinit ==
    ASSUME OtaInv, Idle, upgrade.pointer = "live",
           NEW u, NEW c \in [Attempt -> ConnState], NEW f \in {"START", "FINISH"},
           u.conn \in 0 .. MaxStarts, u.rom_slot = upgrade.rom_slot,
           \A i \in Attempt : c[i] \in Active => i = u.conn,
           rboot_ota_deinit(u, c, f),
           rom' \in [Slot -> {"old", "partial", "complete"}],
           rom'[at] = rom[at],
           f = "FINISH" => rom'[u.rom_slot] = "complete",
           UNCHANGED <<started, at>>
    PROVE  OtaInv'
<1> USE DEF OtaInv
<1>1. at \in Slot /\ bootconf = at /\ chosen = NoSlot /\ u.rom_slot \in Slot /\ u.rom_slot # at
    BY DEF Idle, TypeOK, SlotsComplete, RunsConfigured, OtherSlot, NoSlot, Slot
<1>2. rom'[at] = "complete"
    BY <1>1 DEF SlotsComplete, RunsConfigured, OtherSlot
<1>3. /\ conn' \in [Attempt -> ConnState]
      /\ \A i \in Attempt : conn'[i] \notin Active
  <2>1. CASE u.conn = 0
    BY <2>1 DEF rboot_ota_deinit, Attempt
  <2>2. CASE u.conn # 0
    BY <2>2 DEF rboot_ota_deinit, Attempt, ConnState, Active
  <2> QED
    BY <2>1, <2>2
<1>4. upgrade' = NoUpgrade("null") /\ ota_timer' = "off"
    BY DEF rboot_ota_deinit
<1>5. /\ flag' \in {"IDLE", "FINISH"}
      /\ bootconf' \in Slot \cup {Erased} /\ chosen' \in Slot \cup {NoSlot}
      /\ chosen' = NoSlot => bootconf' = bootconf
      /\ bootconf' = Erased => rom'[0] = "complete"
      /\ \A s \in {bootconf', chosen'} \cap Slot : rom'[s] = "complete"
  <2>1. CASE f = "FINISH"
    <3>1. flag' = "FINISH" /\ BeginSetRom(u.rom_slot)
        BY <2>1 DEF rboot_ota_deinit
    <3>2. \A s \in Slot : rom'[s] = "complete"
        BY <1>1, <1>2, <2>1 DEF Slot
    <3> QED
        BY <1>1, <3>1, <3>2 DEF BeginSetRom, Slot, NoSlot, Erased
  <2>2. CASE f # "FINISH"
    BY <1>1, <1>2, <2>2 DEF rboot_ota_deinit, Slot, NoSlot, Erased
  <2> QED
    BY <2>1, <2>2
<1>6. TypeOK'
  <2>1. upgrade' \in [pointer : {"null", "live", "dangling"}, conn : 0 .. MaxStarts,
                      total_len : Nat, content_len : {0} \cup Lengths, rom_slot : Slot]
    BY <1>4, LengthsAreNumbers DEF NoUpgrade, Slot
  <2> QED
    BY <1>3, <1>4, <1>5, <2>1 DEF TypeOK, ConnState, Active
<1>7. CallbacksFindUpgrade'
    BY <1>3, <1>4 DEF CallbacksFindUpgrade, Active
<1>8. OneUpdate'
    BY <1>1, <1>4 DEF OneUpdate, NoUpgrade, NoSlot, Slot
<1>9. SlotsComplete'
    BY <1>1, <1>2, <1>4, <1>5 DEF SlotsComplete, RunsConfigured, OtherSlot, Idle, NoUpgrade, NoSlot
<1> QED
    BY <1>6, <1>7, <1>8, <1>9

\* The same as the callbacks use it, on the update that is under way.
LEMMA DeinitNow ==
    ASSUME OtaInv, Idle, upgrade.pointer = "live", NEW f \in {"START", "FINISH"},
           rboot_ota_deinit(upgrade, conn, f),
           rom' \in [Slot -> {"old", "partial", "complete"}],
           rom'[at] = rom[at],
           f = "FINISH" => rom'[upgrade.rom_slot] = "complete",
           UNCHANGED <<started, at>>
    PROVE  OtaInv'
<1>1. conn \in [Attempt -> ConnState] /\ upgrade.conn \in 0 .. MaxStarts
    BY DEF OtaInv, TypeOK, ConnState, Active
<1>2. \A i \in Attempt : conn[i] \in Active => i = upgrade.conn
    BY DEF OtaInv, CallbacksFindUpgrade, Active
<1> QED
    BY <1>1, <1>2, Deinit

LEMMA LiveIsStarted == ASSUME OtaInv, upgrade.pointer = "live" PROVE flag = "START"
    BY DEF OtaInv, OneUpdate

LEMMA RomUnchanged ==
    ASSUME OtaInv, UNCHANGED rom
    PROVE  rom' \in [Slot -> {"old", "partial", "complete"}] /\ rom'[at] = rom[at]
    BY DEF OtaInv, TypeOK

\* upgrade_disconcb, for whichever connection.
LEMMA Disconnect ==
    ASSUME OtaInv, Idle, NEW i \in 0 .. MaxStarts,
           i \in Attempt /\ conn[i] \in Active => upgrade.conn = i,
           i \notin Attempt => upgrade.pointer = "live" /\ upgrade.conn = i,
           upgrade_disconcb(i), UNCHANGED <<started, rom, at>>
    PROVE  OtaInv'
<1> DEFINE c == [conn EXCEPT ![i] = "freed"]
<1>0. /\ c \in [Attempt -> ConnState]
      /\ \A j \in Attempt : c[j] \in Active => j # i /\ conn[j] \in Active
    BY DEF OtaInv, TypeOK, ConnState, Active
<1>1. CASE upgrade.pointer = "live" /\ upgrade.conn = i
  <2> DEFINE u == [upgrade EXCEPT !.conn = 0]
  <2>1. rboot_ota_deinit(u, c, "START")
    BY <1>1, LiveIsStarted DEF upgrade_disconcb
  <2>2. u.conn = 0 /\ u.rom_slot = upgrade.rom_slot
    BY DEF OtaInv, TypeOK
  <2>3. \A j \in Attempt : c[j] \in Active => j = u.conn
    BY <1>0, <1>1, OneActive DEF OtaInv
  <2>4. u.conn \in 0 .. MaxStarts
    BY <2>2, LengthsAreNumbers
  <2> HIDE DEF u, c
  <2> QED
    BY <1>0, <1>1, <2>1, <2>2, <2>3, <2>4, RomUnchanged, Deinit
<1>2. CASE ~(upgrade.pointer = "live" /\ upgrade.conn = i)
  <2>1. conn' = c /\ ota_timer' = "off" /\ UNCHANGED <<flag, upgrade, bootconf, chosen>>
    BY <1>2 DEF upgrade_disconcb
  <2>2. TypeOK'
    BY <1>0, <2>1 DEF OtaInv, TypeOK, ConnState, Active
  <2>3. CallbacksFindUpgrade'
    BY <1>0, <2>1 DEF OtaInv, CallbacksFindUpgrade, Active
  <2> QED
    BY <2>1, <2>2, <2>3 DEF OtaInv, OneUpdate, SlotsComplete, RunsConfigured, OtherSlot, Idle
<1> QED
    BY <1>1, <1>2

-----------------------------------------------------------------------------
(* The steps of an update *)

LEMMA StartKeeps == ASSUME OtaInv, Start PROVE OtaInv'
<1> USE DEF OtaInv
<1> DEFINE i == started'
           u == NewUpgrade(i)
<1>1. /\ Idle /\ upgrade.pointer # "live" /\ ota_timer = "off"
      /\ started' \in Attempt /\ started' \in 0 .. MaxStarts
      /\ \A j \in Attempt : conn[j] \notin Active
    BY LengthsAreNumbers DEF Start, OneUpdate, CallbacksFindUpgrade, TypeOK, Attempt, Active
<1>2. bootconf = at /\ at \in Slot /\ chosen = NoSlot
    BY <1>1 DEF Idle, SlotsComplete, RunsConfigured, OtherSlot, TypeOK, Slot, NoSlot
<1>3. /\ u \in [pointer : {"null", "live", "dangling"}, conn : 0 .. MaxStarts,
                total_len : Nat, content_len : {0} \cup Lengths, rom_slot : Slot]
      /\ u.pointer = "live" /\ u.conn = i /\ u.rom_slot # at
    BY <1>1, <1>2 DEF NewUpgrade, Slot
<1>4. \A p \in {"null", "dangling"} :
        /\ NoUpgrade(p) \in [pointer : {"null", "live", "dangling"}, conn : 0 .. MaxStarts,
                             total_len : Nat, content_len : {0} \cup Lengths, rom_slot : Slot]
        /\ NoUpgrade(p).pointer = p
    BY LengthsAreNumbers DEF NoUpgrade, Slot
<1>5. UNCHANGED <<rom, bootconf, chosen, at>>
    BY DEF Start
<1>6. ASSUME NEW p \in {"null", "dangling"}, upgrade' = NoUpgrade(p), flag' \in {flag, "START"},
             UNCHANGED <<conn, ota_timer>>
      PROVE  OtaInv'
  <2>1. TypeOK'
    BY <1>1, <1>4, <1>5, <1>6 DEF TypeOK
  <2>2. CallbacksFindUpgrade'
    BY <1>1, <1>6 DEF CallbacksFindUpgrade, Active
  <2>3. OneUpdate' /\ SlotsComplete'
    BY <1>1, <1>2, <1>4, <1>5, <1>6 DEF OneUpdate, SlotsComplete, RunsConfigured, OtherSlot, Idle
  <2> QED
    BY <2>1, <2>2, <2>3
<1>7. ASSUME flag' = "START", upgrade' = u,
             NEW state \in {"lookup", "connecting"}, conn' = [conn EXCEPT ![i] = state],
             ota_timer' \in {"off", "connect_timeout_cb"}
      PROVE  OtaInv'
  <2>1. TypeOK'
    BY <1>1, <1>3, <1>5, <1>7 DEF TypeOK
  <2>2. CallbacksFindUpgrade'
    BY <1>1, <1>3, <1>7 DEF CallbacksFindUpgrade, TypeOK, Active
  <2>3. OneUpdate' /\ SlotsComplete'
    BY <1>1, <1>2, <1>3, <1>5, <1>7 DEF OneUpdate, SlotsComplete, RunsConfigured, OtherSlot, Idle
  <2> QED
    BY <2>1, <2>2, <2>3
<1>8. \/ /\ \E p \in {"null", "dangling"} : upgrade' = NoUpgrade(p)
         /\ UNCHANGED <<flag, conn, ota_timer>>
      \/ flag' = "START" /\ upgrade' = NoUpgrade("dangling") /\ UNCHANGED <<conn, ota_timer>>
      \/ flag' = "START" /\ upgrade' = u /\ conn' = [conn EXCEPT ![u.conn] = "lookup"]
         /\ UNCHANGED ota_timer
      \/ flag' = "START" /\ Connecting(u)
    BY DEF Start
<1> QED
  <2> HIDE DEF u, OtaInv
  <2> QED
    BY <1>1, <1>3, <1>6, <1>7, <1>8 DEF Connecting

\* The next state of a connection that stays the update's own.
LEMMA Advances ==
    ASSUME OtaInv, Idle, NEW i \in Attempt, conn[i] \in Active,
           NEW state \in {"connecting", "open"}, conn' = [conn EXCEPT ![i] = state],
           ota_timer' \in {"connect_timeout_cb", "rboot_ota_deinit"},
           UNCHANGED <<started, flag, upgrade, rom, bootconf, chosen, at>>
    PROVE  OtaInv'
<1>1. /\ upgrade.pointer = "live" /\ upgrade.conn = i
      /\ \A j \in Attempt : conn[j] \in Active => j = i
    BY OneActive DEF OtaInv
<1>2. TypeOK'
    BY DEF OtaInv, TypeOK
<1>3. CallbacksFindUpgrade'
    BY <1>1 DEF OtaInv, TypeOK, CallbacksFindUpgrade, Active
<1> QED
    BY <1>2, <1>3 DEF OtaInv, OneUpdate, SlotsComplete, RunsConfigured, OtherSlot, Idle

LEMMA ConnectionKeeps ==
    ASSUME OtaInv, NEW i \in Attempt,
           Resolved(i) \/ Connected(i) \/ ConnectionError(i) \/ Disconnected(i)
    PROVE  OtaInv'
<1>0. i \in 0 .. MaxStarts
    BY LengthsAreNumbers DEF Attempt
<1>1. ASSUME conn[i] \in Active PROVE upgrade.pointer = "live" /\ upgrade.conn = i
    BY <1>1, OneActive DEF OtaInv
<1>2. ASSUME Idle, conn[i] \in Active, upgrade_disconcb(i), UNCHANGED <<started, rom, at>>
      PROVE  OtaInv'
    BY <1>0, <1>1, <1>2, Disconnect
<1>3. CASE Resolved(i)
  <2>1. Idle /\ conn[i] \in Active /\ upgrade.conn = i
    BY <1>1, <1>3 DEF Resolved, Active
  <2>2. CASE upgrade_disconcb(upgrade.conn)
    BY <1>2, <1>3, <2>1, <2>2 DEF Resolved
  <2>3. CASE Connecting(upgrade) /\ UNCHANGED <<flag, bootconf, chosen>>
    BY <1>3, <2>1, <2>3, Advances DEF Resolved, Connecting
  <2> QED
    BY <1>3, <2>2, <2>3 DEF Resolved
<1>4. CASE Connected(i)
  <2>1. Idle /\ conn[i] \in Active /\ upgrade.pointer = "live" /\ flag = "START"
    BY <1>1, <1>4, LiveIsStarted DEF Connected, Active
  <2>2. CASE rboot_ota_deinit(upgrade, conn, flag)
    BY <1>4, <2>1, <2>2, RomUnchanged, DeinitNow DEF Connected
  <2>3. CASE ~rboot_ota_deinit(upgrade, conn, flag)
    BY <1>4, <2>1, <2>3, Advances DEF Connected
  <2> QED
    BY <2>2, <2>3
<1>5. CASE ConnectionError(i)
    BY <1>1, <1>2, <1>5 DEF ConnectionError, Active
<1>6. CASE Disconnected(i)
  <2>1. Idle /\ upgrade_disconcb(i) /\ UNCHANGED <<started, rom, at>>
    BY <1>6 DEF Disconnected
  <2>2. conn[i] \in Active => upgrade.conn = i
    BY <1>1
  <2> QED
    BY <1>0, <2>1, <2>2, Disconnect
<1> QED
    BY <1>3, <1>4, <1>5, <1>6

LEMMA TimerKeeps == ASSUME OtaInv, TimerExpires PROVE OtaInv'
<1>1. /\ Idle /\ upgrade.pointer = "live" /\ flag = "START"
      /\ upgrade.conn \in 0 .. MaxStarts
      /\ UNCHANGED <<started, rom, at>>
    BY LiveIsStarted DEF OtaInv, TypeOK, TimerExpires, CallbacksFindUpgrade
<1>2. CASE rboot_ota_deinit(upgrade, conn, flag)
    BY <1>1, <1>2, RomUnchanged, DeinitNow
<1>3. CASE upgrade_disconcb(upgrade.conn)
    BY <1>1, <1>3, Disconnect
<1> QED
    BY <1>2, <1>3 DEF TimerExpires

-----------------------------------------------------------------------------
(* Data *)

\* What is received goes to the slot that does not run, and the update ends
\* when all of it is in flash.
LEMMA ReceivedKeeps ==
    ASSUME WholeWords, OtaInv, Idle, upgrade.pointer = "live",
           NEW total \in Nat, NEW content \in Lengths,
           Received(total, content), UNCHANGED <<started, at>>
    PROVE  OtaInv' /\ rom'[at] = rom[at]
<1>1. /\ flag = "START" /\ upgrade.rom_slot \in Slot /\ at \in Slot /\ upgrade.rom_slot # at
      /\ rom \in [Slot -> {"old", "partial", "complete"}]
    BY LiveIsStarted DEF OtaInv, TypeOK, SlotsComplete, RunsConfigured, OtherSlot, Idle, NoSlot
<1>2. ASSUME NEW r \in {"old", "partial", "complete"},
             rom' = [rom EXCEPT ![upgrade.rom_slot] = r]
      PROVE  /\ rom' \in [Slot -> {"old", "partial", "complete"}]
             /\ rom'[at] = rom[at] /\ rom'[upgrade.rom_slot] = r
    BY <1>1, <1>2
<1>3. CASE Finished(total, content)
  <2>1. InFlash(total) = content
    BY <1>3, LengthsAreNumbers DEF WholeWords, InFlash, Finished
  <2>2. /\ rom' = [rom EXCEPT ![upgrade.rom_slot] = "complete"]
        /\ rboot_ota_deinit(upgrade, conn, "FINISH")
    BY <1>3, <2>1 DEF Received
  <2> QED
    BY <1>2, <2>2, DeinitNow
<1>4. CASE ~Finished(total, content)
  <2>1. \E r \in {"old", "partial", "complete"} : rom' = [rom EXCEPT ![upgrade.rom_slot] = r]
    BY <1>1, <1>4 DEF Received, Progress
  <2>2. rom' \in [Slot -> {"old", "partial", "complete"}] /\ rom'[at] = rom[at]
    BY <1>2, <2>1
  <2>3. CASE rboot_ota_deinit(upgrade, conn, flag)
    BY <1>1, <2>2, <2>3, DeinitNow
  <2>4. CASE /\ upgrade' = [upgrade EXCEPT !.total_len = total, !.content_len = content]
             /\ ota_timer' = "rboot_ota_deinit"
             /\ UNCHANGED <<flag, conn, bootconf, chosen>>
    <3>1. /\ upgrade' \in [pointer : {"null", "live", "dangling"}, conn : 0 .. MaxStarts,
                           total_len : Nat, content_len : {0} \cup Lengths, rom_slot : Slot]
          /\ upgrade'.pointer = "live" /\ upgrade'.conn = upgrade.conn
          /\ upgrade'.rom_slot = upgrade.rom_slot
        BY <2>4 DEF OtaInv, TypeOK
    <3>2. TypeOK'
        BY <2>2, <2>4, <3>1 DEF OtaInv, TypeOK
    <3>3. CallbacksFindUpgrade'
        BY <2>4, <3>1 DEF OtaInv, CallbacksFindUpgrade
    <3>4. OneUpdate'
        BY <1>1, <2>4, <3>1 DEF OtaInv, OneUpdate
    <3>5. SlotsComplete'
        BY <1>1, <2>2, <2>4, <3>1
           DEF OtaInv, TypeOK, SlotsComplete, RunsConfigured, OtherSlot, Idle, NoSlot, Erased, Slot
    <3> QED
        BY <2>2, <3>2, <3>3, <3>4, <3>5 DEF OtaInv
  <2> QED
    BY <1>4, <2>2, <2>3, <2>4 DEF Received
<1> QED
    BY <1>3, <1>4

LEMMA WriteFailsKeeps ==
    ASSUME OtaInv, Idle, upgrade.pointer = "live", NEW total, WriteFails(total),
           UNCHANGED <<started, at>>
    PROVE  OtaInv' /\ rom'[at] = rom[at]
<1>1. /\ flag = "START" /\ upgrade.rom_slot \in Slot /\ upgrade.rom_slot # at
      /\ rom \in [Slot -> {"old", "partial", "complete"}]
    BY LiveIsStarted DEF OtaInv, TypeOK, SlotsComplete, OtherSlot
<1>2. rom' \in [Slot -> {"old", "partial", "complete"}] /\ rom'[at] = rom[at]
    BY <1>1 DEF WriteFails, Progress
<1> QED
    BY <1>1, <1>2, DeinitNow DEF WriteFails

LEMMA DataKeeps ==
    ASSUME WholeWords, OtaInv, NEW i \in Attempt, FirstReply(i) \/ Data(i)
    PROVE  OtaInv' /\ rom'[at] = rom[at]
<1>1. /\ Idle /\ upgrade.pointer = "live" /\ flag = "START" /\ UNCHANGED <<started, at>>
      /\ upgrade.total_len \in Nat /\ upgrade.content_len \in {0} \cup Lengths
      /\ upgrade.rom_slot \in Slot /\ at \in Slot /\ upgrade.rom_slot # at
      /\ rom \in [Slot -> {"old", "partial", "complete"}]
    BY OneActive, LiveIsStarted
    DEF OtaInv, TypeOK, FirstReply, Data, Active, SlotsComplete, RunsConfigured, OtherSlot, Idle, NoSlot
<1>2. CASE FirstReply(i)
  <2>1. CASE rboot_ota_deinit(upgrade, conn, flag) /\ UNCHANGED rom
    BY <1>1, <2>1, RomUnchanged, DeinitNow
  <2>2. ASSUME NEW l \in Lengths, NEW n \in Steps \cup {0}, Received(n, l)
        PROVE  OtaInv' /\ rom'[at] = rom[at]
    BY <1>1, <2>2, LengthsAreNumbers, ReceivedKeeps
  <2>3. ASSUME NEW n \in Steps, WriteFails(n)
        PROVE  OtaInv' /\ rom'[at] = rom[at]
    BY <1>1, <2>3, WriteFailsKeeps
  <2> QED
    BY <1>2, <2>1, <2>2, <2>3 DEF FirstReply
<1>3. CASE Data(i)
  <2>1. PICK n \in Steps :
          \/ Received(upgrade.total_len + n, upgrade.content_len)
          \/ WriteFails(upgrade.total_len + n)
    BY <1>3 DEF Data
  <2>2. upgrade.content_len \in Lengths /\ upgrade.total_len + n \in Nat
    BY <1>1, <1>3, LengthsAreNumbers DEF Data
  <2>3. CASE Received(upgrade.total_len + n, upgrade.content_len)
    BY <1>1, <2>2, <2>3, ReceivedKeeps
  <2>4. CASE WriteFails(upgrade.total_len + n)
    BY <1>1, <2>4, WriteFailsKeeps
  <2> QED
    BY <2>1, <2>3, <2>4
<1> QED
    BY <1>2, <1>3

-----------------------------------------------------------------------------
(* Restarts *)

LEMMA ResetKeeps ==
    ASSUME OtaInv, Reset, bootconf' \in Slot \cup {Erased},
           bootconf' \in Slot => rom[bootconf'] = "complete",
           bootconf' = Erased => rom[0] = "complete"
    PROVE  OtaInv'
<1>1. NoUpgrade("null") \in [pointer : {"null", "live", "dangling"}, conn : 0 .. MaxStarts,
                             total_len : Nat, content_len : {0} \cup Lengths, rom_slot : Slot]
    BY LengthsAreNumbers DEF NoUpgrade, Slot
<1>2. TypeOK'
    BY <1>1 DEF OtaInv, TypeOK, Reset
<1>3. CallbacksFindUpgrade' /\ OneUpdate'
    BY DEF Reset, CallbacksFindUpgrade, OneUpdate, NoUpgrade
<1>4. SlotsComplete'
    BY DEF Reset, SlotsComplete, RunsConfigured, OtherSlot, Idle, NoSlot, Slot
<1> QED
    BY <1>2, <1>3, <1>4 DEF OtaInv

LEMMA RestartKeeps ==
    ASSUME OtaInv, FinishSetRom \/ PowerFail \/ Boot
    PROVE  OtaInv'
<1>1. CASE FinishSetRom
    BY <1>1, ResetKeeps
       DEF FinishSetRom, OtaInv, TypeOK, SlotsComplete, RunsConfigured, OtherSlot, NoSlot, Erased, Slot
<1>2. CASE PowerFail
    BY <1>2, ResetKeeps DEF PowerFail, OtaInv, TypeOK, SlotsComplete, RunsConfigured, OtherSlot
<1>3. CASE Boot
  <2>1. bootconf' \in Slot /\ at' = bootconf' /\ rom[bootconf'] = "complete"
    BY <1>3 DEF Boot, OtaInv, TypeOK, SlotsComplete, RunsConfigured, OtherSlot, Slot, Erased
  <2>2. /\ chosen = NoSlot /\ upgrade.pointer # "live"
        /\ UNCHANGED <<started, flag, upgrade, ota_timer, conn, rom, chosen>>
    BY <1>3 DEF Boot, OtaInv, OneUpdate
  <2>3. TypeOK' /\ CallbacksFindUpgrade'
    BY <2>1, <2>2 DEF OtaInv, TypeOK, CallbacksFindUpgrade
  <2>4. OneUpdate' /\ SlotsComplete'
    BY <2>1, <2>2 DEF OtaInv, OneUpdate, SlotsComplete, RunsConfigured, OtherSlot, Idle, NoSlot, Erased, Slot
  <2> QED
    BY <2>3, <2>4 DEF OtaInv
<1> QED
    BY <1>1, <1>2, <1>3

-----------------------------------------------------------------------------
(* The update as a whole *)

LEMMA OtaInit == Init => OtaInv
<1> SUFFICES ASSUME Init PROVE OtaInv
    OBVIOUS
<1>1. NoUpgrade("null") \in [pointer : {"null", "live", "dangling"}, conn : 0 .. MaxStarts,
                             total_len : Nat, content_len : {0} \cup Lengths, rom_slot : Slot]
    BY LengthsAreNumbers DEF NoUpgrade, Slot
<1>2. rom \in [Slot -> {"old", "partial", "complete"}] /\ rom[0] = "complete"
    BY DEF Init, Slot
<1>3. TypeOK
    BY <1>1, <1>2, LengthsAreNumbers DEF Init, TypeOK, Slot
<1>4. CallbacksFindUpgrade /\ OneUpdate
    BY DEF Init, CallbacksFindUpgrade, OneUpdate, NoUpgrade, NoSlot
<1>5. SlotsComplete
    BY <1>2 DEF Init, SlotsComplete, RunsConfigured, OtherSlot, Idle, NoUpgrade, NoSlot, Erased, Slot
<1> QED
    BY <1>3, <1>4, <1>5 DEF OtaInv

LEMMA OtaStep ==
    ASSUME WholeWords, ~Switches, OtaInv, [Next]_vars
    PROVE  OtaInv' /\ (at # NoSlot => rom'[at] = rom[at])
<1>1. CASE Start
    BY <1>1, StartKeeps DEF Start
<1>2. CASE \E i \in Attempt : Resolved(i) \/ Connected(i) \/ ConnectionError(i) \/ Disconnected(i)
    BY <1>2, ConnectionKeeps DEF Resolved, Connected, ConnectionError, Disconnected
<1>3. CASE \E i \in Attempt : FirstReply(i) \/ Data(i)
    BY <1>3, DataKeeps
<1>4. CASE TimerExpires
    BY <1>4, TimerKeeps DEF TimerExpires
<1>5. CASE FinishSetRom \/ PowerFail \/ Boot
    BY <1>5, RestartKeeps DEF FinishSetRom, PowerFail, Boot, Reset
<1>6. CASE UNCHANGED vars
    BY <1>6 DEF vars, OtaInv, TypeOK, CallbacksFindUpgrade, OneUpdate, SlotsComplete,
                RunsConfigured, OtherSlot, Idle
<1> QED
    BY <1>1, <1>2, <1>3, <1>4, <1>5, <1>6 DEF Next, Callback, Switch

\* The inductive invariant of the update, with lookups that fail, updates that
\* are started while old ones are closing, and power failures at any step.
THEOREM OtaInvariance == ASSUME WholeWords, ~Switches PROVE Spec => []OtaInv
<1>1. OtaInv /\ [Next]_vars => OtaInv'
    BY OtaStep
<1> QED
    BY <1>1, OtaInit, PTL DEF Spec

\* Wherever the power fails, the boot loader starts a complete ROM
\* (upgrade_recvcb, rboot_set_config).
THEOREM BootsComplete == ASSUME WholeWords, ~Switches PROVE Spec => []BootsCompleteRom
<1>1. OtaInv => BootsCompleteRom
    BY DEF OtaInv, TypeOK, SlotsComplete, RunsConfigured, OtherSlot, BootsCompleteRom, Slot, NoSlot
<1> QED
    BY <1>1, OtaInvariance, PTL

\* No callback meets an upgrade structure that is gone or not its own
\* (upgrade_resolved, upgrade_connect_cb, upgrade_recvcb, connect_timeout_cb).
THEOREM CallbacksSafe == ASSUME WholeWords, ~Switches PROVE Spec => []CallbacksFindUpgrade
<1>1. OtaInv => CallbacksFindUpgrade
    BY DEF OtaInv
<1> QED
    BY <1>1, OtaInvariance, PTL

-----------------------------------------------------------------------------
LEMMA DivMod ==
    ASSUME NEW a \in Int, NEW d \in Nat \ {0}
    PROVE  a \div d \in Int /\ a % d \in 0 .. d - 1 /\ a = d * (a \div d) + (a % d)
  OBVIOUS

LEMMA DivIs ==
    ASSUME NEW a \in Int, NEW d \in Nat \ {0}, NEW q \in Int, NEW r \in 0 .. d - 1, a = d * q + r
    PROVE  a \div d = q /\ a % d = r
<1>1. PICK p \in Int, s \in 0 .. d - 1 : p = a \div d /\ s = a % d /\ a = d * p + s  BY DivMod
<1>2. d * (p - q) = r - s /\ d * (q - p) = s - r  BY <1>1
<1>3. p - q >= 1 => d * (p - q) >= d  OBVIOUS
<1>4. q - p >= 1 => d * (q - p) >= d  OBVIOUS
<1>5. p = q  BY <1>2, <1>3, <1>4
<1> QED  BY <1>1, <1>5

LEMMA DivMono ==
    ASSUME NEW a \in Int, NEW b \in Int, NEW d \in Nat \ {0}, a <= b
    PROVE  a \div d <= b \div d
<1>1. PICK p \in Int, s \in 0 .. d - 1 : p = a \div d /\ a = d * p + s  BY DivMod
<1>2. PICK q \in Int, r \in 0 .. d - 1 : q = b \div d /\ b = d * q + r  BY DivMod
<1>3. p - q >= 1 => d * (p - q) >= d  OBVIOUS
<1>4. d * (p - q) <= r - s  BY <1>1, <1>2
<1> QED  BY <1>1, <1>2, <1>3, <1>4

\* Multiples of d.
LEMMA Multiple ==
    ASSUME NEW a \in Int, NEW d \in Nat \ {0}
    PROVE  a % d = 0 <=> \E q \in Int : a = d * q
<1>1. ASSUME NEW q \in Int, a = d * q PROVE a % d = 0
  <2>1. a = d * q + 0 /\ 0 \in 0 .. d - 1  BY <1>1
  <2> QED  BY <2>1, DivIs
<1>2. ASSUME a % d = 0 PROVE \E q \in Int : a = d * q
  <2>1. a \div d \in Int /\ a = d * (a \div d)  BY <1>2, DivMod
  <2> QED  BY <2>1
<1> QED  BY <1>1, <1>2

LEMMA MultiplesAdd ==
    ASSUME NEW a \in Int, NEW b \in Int, NEW d \in Nat \ {0}, a % d = 0, b % d = 0
    PROVE  (a + b) % d = 0
<1>1. PICK p \in Int : a = d * p  BY Multiple
<1>2. PICK q \in Int : b = d * q  BY Multiple
<1>3. a + b = d * (p + q)  BY <1>1, <1>2
<1> QED  BY <1>3, Multiple

LEMMA MultiplesMultiply ==
    ASSUME NEW a \in Int, NEW d \in Nat \ {0}, NEW e \in Nat \ {0}, a % e = 0, e % d = 0
    PROVE  a % d = 0
<1>1. PICK p \in Int : a = e * p  BY Multiple
<1>2. PICK q \in Int : e = d * q  BY Multiple
<1>3. a = d * (q * p)  BY <1>1, <1>2
<1> QED  BY <1>3, Multiple

\* A word lies in one sector.
LEMMA WordInSector ==
    ASSUME NEW a \in Nat, NEW d \in Nat \ {0}, NEW e \in Nat \ {0}, a % d = 0, e % d = 0
    PROVE  (a + d - 1) \div e = a \div e
<1>1. PICK q \in Int, r \in 0 .. e - 1 : q = a \div e /\ a = e * q + r  BY DivMod
<1>2. PICK k \in Int : a = d * k
  <2>1. a \in Int  OBVIOUS
  <2> QED  BY <2>1, Multiple
<1>3. PICK m \in Int : e = d * m  BY Multiple
<1>4. PICK j \in Int : j = k - m * q  OBVIOUS
<1>5. r = d * j
  <2>1. d * j = d * k - d * (m * q)  BY <1>4
  <2>2. d * (m * q) = e * q  BY <1>3
  <2>3. a - e * q = r  BY <1>1
  <2>4. e * q \in Int /\ d * k \in Int /\ d * j \in Int /\ d * (m * q) \in Int  OBVIOUS
  <2> QED  BY <1>2, <2>1, <2>2, <2>3, <2>4
<1>6. m >= j + 1
  <2>1. d * (m - j) > 0  BY <1>3, <1>5
  <2>2. m - j <= 0 => d * (m - j) <= 0  OBVIOUS
  <2> QED  BY <2>1, <2>2
<1>7. d * (m - j - 1) >= 0  BY <1>6
<1>8. r + d <= e  BY <1>3, <1>5, <1>7
<1>9. a + d - 1 = e * q + (r + d - 1) /\ r + d - 1 \in 0 .. e - 1  BY <1>1, <1>8
<1>10. a + d - 1 \in Int  OBVIOUS
<1>11. (a + d - 1) \div e = q
  <2>1. PICK b \in Int, t \in 0 .. e - 1 : b = a + d - 1 /\ b = e * q + t  BY <1>9, <1>10
  <2> QED  BY <2>1, DivIs
<1> QED  BY <1>1, <1>11

-----------------------------------------------------------------------------
LEMMA Sizes ==
    ASSUME Writer!WriterAssumption
    PROVE  /\ SectorSize \in Nat \ {0} /\ Word \in Nat \ {0} /\ Sectors \in Nat \ {0}
           /\ MaxLength \in Nat /\ MaxChunk \in Nat /\ Downloads \in Nat \ {0}
           /\ RomStart \in Nat /\ RomStart % SectorSize = 0 /\ SectorSize % Word = 0
           /\ RomStart + MaxLength + Word <= Sectors * SectorSize
           /\ Sectors * SectorSize \in Nat
           /\ Writer!Address = 0 .. Sectors * SectorSize - 1
  BY DEF Writer!WriterAssumption, Writer!Address

\* Whole words and rest make up the buffer.
LEMMA WholeAndRest ==
    ASSUME Writer!WriterAssumption, NEW buffer \in Seq(Int)
    PROVE  LET n == Len(buffer) - (Len(buffer) % Word) IN
           /\ n \in 0 .. Len(buffer) /\ n % Word = 0 /\ Len(buffer) - n < Word
           /\ Writer!Whole(buffer) \in Seq(Int) /\ Len(Writer!Whole(buffer)) = n
           /\ \A i \in 1 .. n : Writer!Whole(buffer)[i] = buffer[i]
           /\ Writer!Rest(buffer) \in Seq(Int) /\ Len(Writer!Rest(buffer)) = Len(buffer) - n
           /\ \A i \in 1 .. Len(buffer) - n : Writer!Rest(buffer)[i] = buffer[n + i]
<1>1. Word \in Nat \ {0}  BY Sizes
<1>2. PICK l \in Nat : l = Len(buffer)  OBVIOUS
<1>3. PICK q \in Int, r \in 0 .. Word - 1 : q = l \div Word /\ r = l % Word /\ l = Word * q + r
  <2>1. l \in Int  OBVIOUS
  <2>2. l \div Word \in Int /\ l % Word \in 0 .. Word - 1 /\ l = Word * (l \div Word) + (l % Word)
    BY <1>1, <2>1, DivMod
  <2> QED  BY <2>2
<1>4. PICK n \in Nat : n = l - r /\ n = Word * q
  <2>1. q < 0 => Word * q <= -Word  BY <1>1, <1>3
  <2>2. q >= 0 => Word * q >= 0  BY <1>1, <1>3
  <2>3. l - r = Word * q /\ l - r \in Int /\ l - r > -Word  BY <1>1, <1>3
  <2>4. q >= 0  BY <1>1, <1>3, <2>1, <2>3
  <2>5. l - r \in Nat  BY <2>2, <2>3, <2>4
  <2> QED  BY <2>3, <2>5
<1>5. n % Word = 0
  <2>1. n \in Int  OBVIOUS
  <2> QED  BY <1>1, <1>4, <2>1, Multiple
<1>6. /\ Writer!Whole(buffer) = SubSeq(buffer, 1, n)
      /\ Writer!Rest(buffer) = SubSeq(buffer, n + 1, l)
  BY <1>2, <1>3, <1>4 DEF Writer!Whole, Writer!Rest
<1>7. n \in 0 .. l /\ l - n < Word  BY <1>1, <1>3, <1>4
<1>8. /\ Writer!Whole(buffer) \in Seq(Int) /\ Len(Writer!Whole(buffer)) = n
      /\ \A i \in 1 .. n : Writer!Whole(buffer)[i] = buffer[i]
  BY <1>2, <1>6, <1>7
<1>9. /\ Writer!Rest(buffer) \in Seq(Int) /\ Len(Writer!Rest(buffer)) = l - n
      /\ \A i \in 1 .. l - n : Writer!Rest(buffer)[i] = buffer[n + i]
  BY <1>2, <1>6, <1>7
<1>10. n = Len(buffer) - (Len(buffer) % Word)  BY <1>2, <1>3, <1>4
<1> HIDE DEF Writer!Whole, Writer!Rest
<1> QED  BY <1>2, <1>5, <1>7, <1>8, <1>9, <1>10

\* The sector of a byte, and the size of flash.
IsSector(sector) ==
    /\ sector \in [Int -> Int]
    /\ \A a \in Int : sector[a] = a \div SectorSize
    /\ \A a, b \in Int : a <= b => sector[a] <= sector[b]
IsSize(size) == size \in Nat /\ size = Sectors * SectorSize

LEMMA SectorOf ==
    ASSUME Writer!WriterAssumption
    PROVE  (\E sector : IsSector(sector)) /\ (\E size : IsSize(size))
<1>1. SectorSize \in Nat \ {0} /\ Sectors \in Nat \ {0}  BY Sizes
<1> DEFINE sector == [a \in Int |-> a \div SectorSize]
<1>2. \A a \in Int : a \div SectorSize \in Int  BY <1>1, DivMod
<1>3. sector \in [Int -> Int] /\ \A a \in Int : sector[a] = a \div SectorSize  BY <1>2
<1>4. ASSUME NEW a \in Int, NEW b \in Int, a <= b PROVE sector[a] <= sector[b]
  <2>1. a \div SectorSize <= b \div SectorSize  BY <1>1, <1>4, DivMono
  <2> QED  BY <1>3, <2>1
<1> HIDE DEF sector
<1>5. IsSector(sector)  BY <1>3, <1>4 DEF IsSector
<1>6. IsSize(Sectors * SectorSize)  BY <1>1 DEF IsSize
<1> QED  BY <1>5, <1>6

\* There are as many sectors as fit, and the last one holds the last byte.
LEMMA SectorsFit ==
    ASSUME Writer!WriterAssumption, NEW sector \in [Int -> Int], IsSector(sector),
           NEW size \in Nat, IsSize(size),
           NEW a \in -1 .. size - 1
    PROVE  sector[a] \in -1 .. Sectors - 1
<1>1. /\ SectorSize \in Nat \ {0} /\ Sectors \in Nat \ {0}
      /\ size \in Nat /\ size = SectorSize * Sectors /\ a \in Int
  BY Sizes DEF IsSize
<1>2. PICK q \in Int, r \in 0 .. SectorSize - 1 : q = a \div SectorSize /\ a = SectorSize * q + r
  BY <1>1, DivMod
<1>3. sector[a] = q  BY <1>1, <1>2 DEF IsSector
<1>4. q - Sectors >= 0 => SectorSize * (q - Sectors) >= 0  BY <1>1
<1>5. SectorSize * (q - Sectors) = SectorSize * q - size  BY <1>1
<1>6. SectorSize * q <= a /\ SectorSize * q \in Int  BY <1>1, <1>2
<1>7. q < Sectors  BY <1>1, <1>4, <1>5, <1>6
<1>8. q + 1 < 0 => SectorSize * (q + 1) <= -SectorSize  BY <1>1
<1>9. SectorSize * (q + 1) > a  BY <1>1, <1>2
<1>10. q >= -1
  <2>1. PICK p \in Int : p = SectorSize * (q + 1)  BY <1>1
  <2> QED  BY <1>1, <1>8, <1>9, <2>1
<1> QED  BY <1>1, <1>3, <1>7, <1>10

LEMMA Outside ==
    ASSUME NEW t \in Int, NEW first \in Int, NEW last \in Int, t <= first \/ t > last
    PROVE  t \notin first + 1 .. last
  OBVIOUS

LEMMA SameStatus ==
    ASSUME NEW S, NEW p \in [start_addr : Int, last_sector_erased : Int, extra_bytes : S],
           NEW q \in [start_addr : Int, last_sector_erased : Int, extra_bytes : S],
           p.start_addr = q.start_addr, p.last_sector_erased = q.last_sector_erased,
           p.extra_bytes = q.extra_bytes
    PROVE  p = q
  OBVIOUS

LEMMA Kept ==
    ASSUME NEW S, NEW s \in [start_addr : Int, last_sector_erased : Int, extra_bytes : S],
           NEW r \in S, NEW last \in Int, s.last_sector_erased <= last
    PROVE  [s EXCEPT !.extra_bytes = r, !.last_sector_erased = IF last > @ THEN last ELSE @]
             = [start_addr |-> s.start_addr, last_sector_erased |-> last, extra_bytes |-> r]
<1> DEFINE p == [s EXCEPT !.extra_bytes = r, !.last_sector_erased = IF last > @ THEN last ELSE @]
           q == [start_addr |-> s.start_addr, last_sector_erased |-> last, extra_bytes |-> r]
<1>1. /\ p \in [start_addr : Int, last_sector_erased : Int, extra_bytes : S]
      /\ p.start_addr = s.start_addr /\ p.last_sector_erased = last /\ p.extra_bytes = r
  <2>1. p \in [start_addr : Int, last_sector_erased : Int, extra_bytes : S]  OBVIOUS
  <2>2. p.start_addr = s.start_addr  OBVIOUS
  <2>3. p.last_sector_erased = last  OBVIOUS
  <2>4. p.extra_bytes = r  OBVIOUS
  <2> QED  BY <2>1, <2>2, <2>3, <2>4
<1>2. /\ q \in [start_addr : Int, last_sector_erased : Int, extra_bytes : S]
      /\ q.start_addr = s.start_addr /\ q.last_sector_erased = last /\ q.extra_bytes = r
  OBVIOUS
<1> HIDE DEF p, q
<1>3. p = q  BY <1>1, <1>2, SameStatus
<1> QED  BY <1>3 DEF p, q

\* Erasing the sectors that n bytes at an address reach, and what that leaves.
Wiped(size, sector, f, blank, first, last) ==
    [a \in 0 .. size - 1 |-> IF sector[a] \in first + 1 .. last THEN blank ELSE f[a]]
WipedAhead(size, sector, f, addr, n, blank, first, last, erased) ==
    /\ first <= last
    /\ erased \in [0 .. size - 1 -> Int]
    /\ \A a \in 0 .. size - 1 : a < addr \/ sector[a] > last => erased[a] = f[a]
    /\ \A a \in 0 .. size - 1 : a >= addr /\ sector[a] <= last => erased[a] = blank
    /\ \A a \in addr .. addr + n - 1 : sector[a] <= last

LEMMA Erases ==
    ASSUME NEW size \in Nat, NEW sector \in [Int -> Int],
           \A a, b \in Int : a <= b => sector[a] <= sector[b],
           NEW f \in [0 .. size - 1 -> Int], NEW addr \in 0 .. size - 1,
           NEW n \in Nat, addr + n < size, NEW blank \in Int,
           NEW first \in Int, first = sector[addr - 1],
           NEW last \in Int, last = sector[addr + n - 1],
           \A a \in 0 .. size - 1 : a >= addr /\ sector[a] <= first => f[a] = blank
    PROVE  WipedAhead(size, sector, f, addr, n, blank, first, last,
                      Wiped(size, sector, f, blank, first, last))
<1>1. first <= last
  <2>1. PICK x \in Int, y \in Int : x = addr - 1 /\ y = addr + n - 1 /\ x <= y  OBVIOUS
  <2> QED  BY <2>1
<1>2. \A a \in 0 .. size - 1 : a < addr => sector[a] <= first
  <2>1. PICK x \in Int : x = addr - 1  OBVIOUS
  <2> QED  BY <2>1
<1>3. \A a \in addr .. addr + n - 1 : sector[a] <= last
  <2>1. PICK x \in Int : x = addr + n - 1  OBVIOUS
  <2> QED  BY <2>1
<1>4. \A a \in 0 .. size - 1 : a \in Int /\ sector[a] \in Int  OBVIOUS
<1> DEFINE erased == Wiped(size, sector, f, blank, first, last)
<1> USE DEF Wiped
<1>5. erased \in [0 .. size - 1 -> Int]  OBVIOUS
<1>6. \A a \in 0 .. size - 1 : a < addr \/ sector[a] > last => erased[a] = f[a]
  <2> SUFFICES ASSUME NEW a \in 0 .. size - 1, a < addr \/ sector[a] > last
               PROVE  erased[a] = f[a]
    OBVIOUS
  <2>1. PICK t \in Int : t = sector[a]  BY <1>4
  <2>2. t <= first \/ t > last  BY <1>2, <2>1
  <2>3. t \notin first + 1 .. last  BY <2>2, Outside
  <2> QED  BY <2>1, <2>3
<1>7. \A a \in 0 .. size - 1 : a >= addr /\ sector[a] <= last => erased[a] = blank
  <2> SUFFICES ASSUME NEW a \in 0 .. size - 1, a >= addr, sector[a] <= last
               PROVE  erased[a] = blank
    OBVIOUS
  <2>1. PICK t \in Int : t = sector[a]  BY <1>4
  <2>2. CASE t <= first  BY <2>1, <2>2
  <2>3. CASE t > first
    <3>1. t \in first + 1 .. last  BY <2>1, <2>3
    <3> QED  BY <2>1, <3>1
  <2> QED  BY <2>1, <2>2, <2>3
<1> HIDE DEF Wiped
<1> QED  BY <1>1, <1>3, <1>5, <1>6, <1>7 DEF WipedAhead

\* Writing n bytes to where flash is erased, and what that leaves.
Filled(size, f, addr, n, bytes, blank, garbled) ==
    [a \in 0 .. size - 1 |->
        IF a \in addr .. addr + n - 1
        THEN IF f[a] = blank THEN bytes[a - addr + 1] ELSE garbled
        ELSE f[a]]
FilledIn(size, f, addr, n, bytes, written) ==
    /\ written \in [0 .. size - 1 -> Int]
    /\ \A a \in 0 .. size - 1 : a \notin addr .. addr + n - 1 => written[a] = f[a]
    /\ \A i \in 1 .. n : written[addr + i - 1] = bytes[i]

LEMMA Writes ==
    ASSUME NEW size \in Nat, NEW f \in [0 .. size - 1 -> Int], NEW addr \in 0 .. size - 1,
           NEW n \in Nat, addr + n < size, NEW bytes \in [1 .. n -> Int],
           NEW blank \in Int, NEW garbled \in Int,
           \A a \in addr .. addr + n - 1 : f[a] = blank
    PROVE  FilledIn(size, f, addr, n, bytes, Filled(size, f, addr, n, bytes, blank, garbled))
<1>1. \A a \in addr .. addr + n - 1 : a \in 0 .. size - 1 /\ a - addr + 1 \in 1 .. n
  OBVIOUS
<1>2. \A i \in 1 .. n : addr + i - 1 \in addr .. addr + n - 1 /\ (addr + i - 1) - addr + 1 = i
  OBVIOUS
<1> DEFINE written == Filled(size, f, addr, n, bytes, blank, garbled)
<1> USE DEF Filled
<1>3. written \in [0 .. size - 1 -> Int]  BY <1>1
<1>4. \A a \in 0 .. size - 1 : a \notin addr .. addr + n - 1 => written[a] = f[a]  OBVIOUS
<1>5. \A i \in 1 .. n : written[addr + i - 1] = bytes[i]
  <2> SUFFICES ASSUME NEW i \in 1 .. n PROVE written[addr + i - 1] = bytes[i]
    OBVIOUS
  <2>1. PICK a \in addr .. addr + n - 1 : a = addr + i - 1 /\ a - addr + 1 = i  BY <1>2
  <2>2. a \in 0 .. size - 1 /\ f[a] = blank  BY <1>1
  <2>3. written[a] = bytes[a - addr + 1]  BY <2>2
  <2> QED  BY <2>1, <2>3
<1> HIDE DEF Filled
<1> QED  BY <1>3, <1>4, <1>5 DEF FilledIn

\* rboot_write_flash is called while a ROM is written: data goes behind the rest
\* of the chunk before.
Flashing(data, after, buffer, addr, n) ==
    /\ Writer!WriterInv /\ outcome = "writing"
    /\ data # <<>> /\ buffer = Writer!Buffer(status.extra_bytes, data) /\ n = Len(Writer!Whole(buffer))
    /\ addr = status.start_addr /\ addr + n \in Writer!Address
    /\ Writer!rboot_write_flash(data, after)

FlashedTo(sector, buffer, addr, n, after) ==
    /\ flash' \in [Writer!Address -> Int]
    /\ status' \in Writer!Status /\ Len(status'.extra_bytes) < Word
    /\ \A a \in Writer!Address : a < addr \/ sector[a] > sector[addr + n - 1] => flash'[a] = flash[a]
    /\ \/ outcome' = "failed"
       \/ /\ outcome' = after
          /\ \A i \in 1 .. n : flash'[addr + i - 1] = buffer[i]
          /\ \A a \in Writer!Address : a >= addr + n /\ sector[a] <= sector[addr + n - 1]
               => flash'[a] = Writer!Erased
          /\ status' = [start_addr |-> addr + n, last_sector_erased |-> sector[addr + n - 1],
                        extra_bytes |-> Writer!Rest(buffer)]

LEMMA Flashed ==
    ASSUME Writer!WriterAssumption, NEW sector \in [Int -> Int], IsSector(sector),
           NEW size \in Nat, IsSize(size),
           NEW data \in Seq(Int), NEW after \in {"writing", "ended"},
           NEW buffer \in Seq(Int), NEW addr \in Nat, NEW n \in Nat,
           Flashing(data, after, buffer, addr, n)
    PROVE  FlashedTo(sector, buffer, addr, n, after)
<1>1. /\ size \in Nat /\ Writer!Address = 0 .. size - 1
      /\ sector \in [Int -> Int] /\ \A a, b \in Int : a <= b => sector[a] <= sector[b]
  BY Sizes DEF IsSize, IsSector, Writer!Address
<1>2. /\ flash \in [Writer!Address -> Int] /\ status \in Writer!Status /\ Len(status.extra_bytes) < Word
      /\ addr = status.start_addr /\ addr + n \in Writer!Address
  BY DEF Flashing, Writer!WriterInv, Writer!TypeOK
<1>3. /\ flash \in [0 .. size - 1 -> Int] /\ addr \in 0 .. size - 1 /\ addr + n < size
      /\ addr - 1 \in Int /\ addr + n - 1 \in Int
  <2>1. flash \in [0 .. size - 1 -> Int]  BY <1>1, <1>2
  <2>2. PICK end \in 0 .. size - 1 : end = addr + n  BY <1>1, <1>2
  <2>3. addr + n < size /\ addr \in 0 .. size - 1  BY <2>2
  <2> QED  BY <2>1, <2>3
<1>4. \A a \in Int : sector[a] = a \div SectorSize  BY DEF IsSector
<1>5. status.last_sector_erased = sector[addr - 1]
  <2>1. status.last_sector_erased = (addr + 0 - 1) \div SectorSize
    BY DEF Flashing, Writer!WriterInv, Writer!ErasedAhead, Writer!LastSector
  <2>2. addr + 0 - 1 = addr - 1  OBVIOUS
  <2> QED  BY <1>3, <1>4, <2>1, <2>2
<1>6. PICK last \in Int : last = sector[addr + n - 1]  BY <1>1, <1>3
<1>7. Writer!LastSector(addr, n) = last  BY <1>3, <1>4, <1>6 DEF Writer!LastSector
<1>8. \A a \in 0 .. size - 1 : a >= addr /\ sector[a] <= sector[addr - 1] => flash[a] = Writer!Erased
  <2>1. \A a \in Writer!Address : a >= addr /\ a \div SectorSize <= sector[addr - 1] => flash[a] = Writer!Erased
    BY <1>2, <1>5 DEF Flashing, Writer!WriterInv, Writer!ErasedAhead
  <2> QED  BY <1>1, <1>4, <2>1
<1>9. PICK bytes \in [1 .. n -> Int] : bytes = Writer!Whole(buffer) /\ \A i \in 1 .. n : bytes[i] = buffer[i]
  <2>1. /\ Writer!Whole(buffer) \in Seq(Int) /\ Len(Writer!Whole(buffer)) = n
        /\ \A i \in 1 .. n : Writer!Whole(buffer)[i] = buffer[i]
    BY WholeAndRest DEF Flashing
  <2>2. PICK bytes \in Seq(Int) : bytes = Writer!Whole(buffer)  BY <2>1
  <2>3. bytes \in [1 .. n -> Int]  BY <2>1, <2>2
  <2> QED  BY <2>1, <2>2, <2>3
<1>10. Writer!Erased \in Int /\ Writer!Garbled \in Int  BY DEF Writer!Erased, Writer!Garbled
<1>11. PICK first \in Int : first = sector[addr - 1]  BY <1>1, <1>3
<1>12. PICK erased : erased = Wiped(size, sector, flash, Writer!Erased, first, last)  OBVIOUS
<1>121. WipedAhead(size, sector, flash, addr, n, Writer!Erased, first, last, erased)
  <2>1. \A a \in 0 .. size - 1 : a >= addr /\ sector[a] <= first => flash[a] = Writer!Erased
    BY <1>8, <1>11
  <2> QED  BY <1>1, <1>3, <1>6, <1>10, <1>11, <1>12, <2>1, Erases
<1>122. erased = Writer!Erase(flash, first + 1 .. last)
  <2>1. \A a \in Writer!Address : a \div SectorSize = sector[a]  BY <1>1, <1>4
  <2> QED  BY <1>1, <1>12, <2>1 DEF Writer!Erase, Wiped
<1>13. PICK written : written = Filled(size, erased, addr, n, bytes, Writer!Erased, Writer!Garbled)
  OBVIOUS
<1>131. FilledIn(size, erased, addr, n, bytes, written)
  <2>1. \A a \in addr .. addr + n - 1 : a \in 0 .. size - 1 /\ a >= addr  BY <1>3
  <2>2. \A a \in addr .. addr + n - 1 : erased[a] = Writer!Erased  BY <1>121, <2>1 DEF WipedAhead
  <2>3. erased \in [0 .. size - 1 -> Int]  BY <1>121 DEF WipedAhead
  <2> QED  BY <1>1, <1>3, <1>10, <1>13, <2>2, <2>3, Writes
<1>132. written = Writer!Write(erased, addr, bytes)
  <2>1. Len(bytes) = n  BY <1>9 DEF Flashing
  <2> QED  BY <1>1, <1>13, <2>1 DEF Writer!Write, Filled
<1>133. /\ first <= last
        /\ erased \in [0 .. size - 1 -> Int]
        /\ \A a \in 0 .. size - 1 : a < addr \/ sector[a] > last => erased[a] = flash[a]
        /\ \A a \in 0 .. size - 1 : a >= addr /\ sector[a] <= last => erased[a] = Writer!Erased
        /\ \A a \in addr .. addr + n - 1 : sector[a] <= last
  BY <1>121 DEF WipedAhead
<1>134. /\ written \in [0 .. size - 1 -> Int]
        /\ \A a \in 0 .. size - 1 : a \notin addr .. addr + n - 1 => written[a] = erased[a]
        /\ \A i \in 1 .. n : written[addr + i - 1] = bytes[i]
  BY <1>131 DEF FilledIn
<1>135. \A a \in 0 .. size - 1 : a < addr \/ sector[a] > last
            => erased[a] = flash[a] /\ written[a] = flash[a]
  <2> SUFFICES ASSUME NEW a \in 0 .. size - 1, a < addr \/ sector[a] > last
               PROVE  erased[a] = flash[a] /\ written[a] = flash[a]
    OBVIOUS
  <2>1. a \notin addr .. addr + n - 1
    <3>1. PICK t \in Int : t = sector[a]  BY <1>1
    <3> QED  BY <1>133, <3>1
  <2> QED  BY <1>133, <1>134, <2>1
<1>136. \A a \in 0 .. size - 1 : a >= addr + n /\ sector[a] <= last => written[a] = Writer!Erased
  <2> SUFFICES ASSUME NEW a \in 0 .. size - 1, a >= addr + n, sector[a] <= last
               PROVE  written[a] = Writer!Erased
    OBVIOUS
  <2>1. a \notin addr .. addr + n - 1 /\ a >= addr  BY <1>3
  <2> QED  BY <1>133, <1>134, <2>1
<1>14. last \in -1 .. Sectors - 1
  <2>1. addr + n - 1 \in -1 .. size - 1  BY <1>3
  <2> QED  BY <1>6, <2>1, SectorsFit
<1>15. Writer!Rest(buffer) \in Seq(Int) /\ Len(Writer!Rest(buffer)) < Word
  BY WholeAndRest
<1>16. PICK kept : kept = [start_addr |-> addr, last_sector_erased |-> last,
                           extra_bytes |-> Writer!Rest(buffer)]
  OBVIOUS
<1>161. kept = [status EXCEPT !.extra_bytes = Writer!Rest(buffer),
                              !.last_sector_erased = IF last > @ THEN last ELSE @]
  <2>1. status.last_sector_erased = first /\ first <= last  BY <1>5, <1>11, <1>133
  <2>0. PICK S : S = Seq(Int)  OBVIOUS
  <2>2. PICK s \in [start_addr : Int, last_sector_erased : Int, extra_bytes : S] : s = status
    BY <1>2, <2>0 DEF Writer!Status, Writer!Address
  <2>4. PICK r \in S : r = Writer!Rest(buffer)  BY <1>15, <2>0
  <2>5. s.last_sector_erased <= last  BY <2>1, <2>2
  <2>3. [s EXCEPT !.extra_bytes = r, !.last_sector_erased = IF last > @ THEN last ELSE @]
          = [start_addr |-> s.start_addr, last_sector_erased |-> last, extra_bytes |-> r]
    BY <2>5, Kept
  <2> QED  BY <1>2, <1>16, <2>2, <2>3, <2>4
<1>17. \/ /\ flash' = written
          /\ status' = [kept EXCEPT !.start_addr = @ + n]
          /\ outcome' = after
       \/ flash' = erased /\ status' = kept /\ outcome' = "failed"
       \/ outcome' = "failed" /\ UNCHANGED <<flash, status>>
  BY <1>2, <1>5, <1>7, <1>9, <1>11, <1>122, <1>132, <1>161
     DEF Flashing, Writer!rboot_write_flash
<1>18. CASE flash' = written /\ status' = [kept EXCEPT !.start_addr = @ + n] /\ outcome' = after
  <2>1. status' = [start_addr |-> addr + n, last_sector_erased |-> last,
                   extra_bytes |-> Writer!Rest(buffer)]
    BY <1>16, <1>18
  <2>2. status' \in Writer!Status /\ Len(status'.extra_bytes) < Word
    BY <1>2, <1>14, <1>15, <2>1 DEF Writer!Status
  <2> QED  BY <1>1, <1>6, <1>9, <1>134, <1>135, <1>136, <1>18, <2>1, <2>2 DEF FlashedTo
<1>19. CASE flash' = erased /\ status' = kept /\ outcome' = "failed"
  <2>1. status' \in Writer!Status /\ Len(status'.extra_bytes) < Word
    BY <1>1, <1>3, <1>14, <1>15, <1>16, <1>19 DEF Writer!Status
  <2> QED  BY <1>1, <1>6, <1>133, <1>135, <1>19, <2>1 DEF FlashedTo
<1>20. CASE outcome' = "failed" /\ UNCHANGED <<flash, status>>
  BY <1>2, <1>20 DEF FlashedTo
<1> QED  BY <1>17, <1>18, <1>19, <1>20

-----------------------------------------------------------------------------
\* What the rest, the address and the bytes handed over have to do with each
\* other while a ROM is written.
Writing(extra, addr) ==
    /\ Writer!WriterInv /\ outcome = "writing"
    /\ extra = status.extra_bytes /\ addr = status.start_addr

LEMMA State ==
    ASSUME Writer!WriterAssumption, NEW extra \in Seq(Int), NEW addr \in Nat, Writing(extra, addr)
    PROVE  /\ download \in Int /\ received \in 0 .. MaxLength
           /\ addr % Word = 0
           /\ Len(extra) < Word /\ addr + Len(extra) = RomStart + received /\ RomStart <= addr
           /\ \A i \in 1 .. Len(extra) : extra[i] = Writer!Byte(download, received - Len(extra) + i)
           /\ \A i \in 1 .. received - Len(extra) : flash[RomStart + i - 1] = Writer!Byte(download, i)
<1>1. Downloads \in Nat  BY Sizes
<1>2. Writer!TypeOK /\ Writer!ErasedAhead /\ Writer!WrittenInOrder /\ Writer!NothingLost
  BY DEF Writing, Writer!WriterInv
<1>3. download \in Int /\ received \in 0 .. MaxLength /\ Len(extra) < Word
  BY <1>1, <1>2 DEF Writer!TypeOK, Writing
<1>4. addr % Word = 0  BY <1>2 DEF Writer!ErasedAhead, Writing
<1>5. /\ addr + Len(extra) = RomStart + received
      /\ \A i \in 1 .. Len(extra) : extra[i] = Writer!Byte(download, received - Len(extra) + i)
  BY <1>2 DEF Writer!NothingLost, Writing
<1>6. \A i \in 1 .. received - Len(extra) : flash[RomStart + i - 1] = Writer!Byte(download, i)
  BY <1>2 DEF Writer!WrittenInOrder, Writing
<1>7. RomStart <= addr
  <2>1. RomStart \in Nat /\ Word \in Nat \ {0} /\ RomStart % Word = 0
    <3>1. /\ RomStart \in Int /\ SectorSize \in Nat \ {0} /\ Word \in Nat \ {0} /\ RomStart \in Nat
          /\ RomStart % SectorSize = 0 /\ SectorSize % Word = 0
      BY Sizes
    <3> QED  BY <3>1, MultiplesMultiply
  <2>2. PICK p \in Int : RomStart = Word * p
    <3>1. PICK a \in Int : a = RomStart  BY <2>1
    <3> QED  BY <2>1, <3>1, Multiple
  <2>3. PICK q \in Int : addr = Word * q
    <3>1. addr \in Int  OBVIOUS
    <3> QED  BY <1>4, <2>1, <3>1, Multiple
  <2>4. RomStart - addr < Word  BY <1>3, <1>5, <2>1
  <2>5. RomStart - addr = Word * (p - q)  BY <2>1, <2>2, <2>3
  <2>6. p - q >= 1 => Word * (p - q) >= Word  BY <2>1
  <2>7. p - q <= 0 => Word * (p - q) <= 0  BY <2>1
  <2> QED  BY <2>1, <2>4, <2>5, <2>6, <2>7
<1> QED  BY <1>3, <1>4, <1>5, <1>6, <1>7

LEMMA Current ==
    ASSUME Writer!WriterAssumption, Writer!WriterInv, outcome = "writing"
    PROVE  \E extra \in Seq(Int), addr \in Nat : Writing(extra, addr)
<1>1. status \in Writer!Status  BY DEF Writer!WriterInv, Writer!TypeOK
<1>2. PICK extra \in Seq(Int) : extra = status.extra_bytes  BY <1>1 DEF Writer!Status
<1>3. status.start_addr \in 0 .. Sectors * SectorSize - 1  BY <1>1, Sizes DEF Writer!Status
<1>4. PICK addr \in Nat : addr = status.start_addr  BY <1>3
<1>5. Writing(extra, addr)  BY <1>2, <1>4 DEF Writing
<1> QED  BY <1>5

Spares(addr, sector, reached) ==
    \A a \in Writer!Address : a < addr \/ sector[a] > reached => flash'[a] = flash[a]

\* What is not to be touched is not, if no byte before the address and none in
\* a sector behind the ROM is.
LEMMA StaysUntouched ==
    ASSUME Writer!WriterAssumption, NEW sector \in [Int -> Int], IsSector(sector),
           NEW addr \in Nat, RomStart <= addr, Writer!OthersUntouched,
           NEW reached \in Int, reached <= sector[RomStart + MaxLength - 1],
           Spares(addr, sector, reached)
    PROVE  Writer!OthersUntouched'
<1>1. RomStart \in Nat /\ MaxLength \in Nat /\ Writer!Address \subseteq Int
  BY Sizes DEF Writer!Address
<1>2. PICK x \in Int : x = RomStart + MaxLength - 1  BY <1>1
<1>3. PICK top \in Int : top = sector[x] /\ top = x \div SectorSize  BY <1>2 DEF IsSector
<1>4. SUFFICES ASSUME NEW a \in Writer!Address, a < RomStart \/ a \div SectorSize > top
               PROVE  flash'[a] = Writer!Old
  BY <1>2, <1>3 DEF Writer!OthersUntouched
<1>5. flash[a] = Writer!Old  BY <1>2, <1>3, <1>4 DEF Writer!OthersUntouched
<1>6. PICK t \in Int : t = sector[a] /\ t = a \div SectorSize  BY <1>1 DEF IsSector
<1>7. a < addr \/ t > reached
  <2>1. a \in Int /\ reached <= top  BY <1>1, <1>2, <1>3
  <2> QED  BY <1>1, <1>4, <1>6, <2>1
<1> QED  BY <1>5, <1>6, <1>7 DEF Spares

\* A failed download leaves nothing to show but that.
LEMMA FailedKeeps ==
    ASSUME Writer!TypeOK', Writer!OthersUntouched', outcome' = "failed"
    PROVE  Writer!WriterInv'
  BY
     DEF Writer!WriterInv, Writer!ErasedAhead, Writer!WrittenInOrder, Writer!NothingLost,
         Writer!CompleteAtEnd

InARow(s, n, d, m) == \A i \in 1 .. n : s[i] = Writer!Byte(d, m + i)
Holds(f, start, n, d) == \A i \in 1 .. n : f[start + i - 1] = Writer!Byte(d, i)
Placed(g, addr, n, s) == \A i \in 1 .. n : g[addr + i - 1] = s[i]
Below(f, g, addr, size) == \A a \in 0 .. size - 1 : a < addr => g[a] = f[a]

\* The bytes behind each other: m of them at the address, behind those that
\* are in flash already.
LEMMA InOrder ==
    ASSUME NEW d \in Int, NEW start \in Nat, NEW addr \in Nat, NEW m \in Nat, NEW k \in Nat,
           addr = start + m,
           NEW f, NEW g, NEW buffer, NEW size \in Nat, addr + k <= size,
           Holds(f, start, m, d), Below(f, g, addr, size), Placed(g, addr, k, buffer),
           InARow(buffer, k, d, m)
    PROVE  Holds(g, start, m + k, d)
<1> USE DEF Holds, Below, Placed, InARow
<1> SUFFICES ASSUME NEW i \in 1 .. m + k PROVE g[start + i - 1] = Writer!Byte(d, i)
  OBVIOUS
<1>1. CASE i <= m
  <2>1. PICK a \in 0 .. size - 1 : a = start + i - 1 /\ a < addr /\ i \in 1 .. m  BY <1>1
  <2> QED  BY <2>1
<1>2. CASE i > m
  <2>1. PICK j \in 1 .. k : j = i - m /\ m + j = i /\ addr + j - 1 = start + i - 1  BY <1>2
  <2>2. g[addr + j - 1] = buffer[j] /\ buffer[j] = Writer!Byte(d, m + j)  OBVIOUS
  <2> QED  BY <2>1, <2>2
<1> QED  BY <1>1, <1>2

\* The rest of a chunk before, then this one: bytes of the download in a row.
LEMMA Joined ==
    ASSUME NEW d \in Int, NEW m \in Nat, NEW e \in Nat, NEW n \in Nat,
           NEW extra \in Seq(Int), NEW data \in Seq(Int), Len(extra) = e, Len(data) = n,
           InARow(extra, e, d, m), InARow(data, n, d, m + e)
    PROVE  /\ Writer!Buffer(extra, data) \in Seq(Int)
           /\ Len(Writer!Buffer(extra, data)) = e + n
           /\ InARow(Writer!Buffer(extra, data), e + n, d, m)
<1>1. PICK buffer \in Seq(Int) : buffer = extra \o data  BY ConcatProperties
<1>2. /\ Len(buffer) = e + n
      /\ \A i \in 1 .. e + n : buffer[i] = IF i <= e THEN extra[i] ELSE data[i - e]
  <2>1. /\ Len(extra \o data) = Len(extra) + Len(data)
        /\ \A i \in 1 .. Len(extra) + Len(data) :
             (extra \o data)[i] = IF i <= Len(extra) THEN extra[i] ELSE data[i - Len(extra)]
    BY ConcatProperties
  <2> QED  BY <1>1, <2>1
<1>3. ASSUME NEW i \in 1 .. e + n PROVE buffer[i] = Writer!Byte(d, m + i)
  <2>1. CASE i <= e
    <3>1. i \in 1 .. e  BY <2>1
    <3> QED  BY <1>2, <2>1, <3>1 DEF InARow
  <2>2. CASE i > e
    <3>1. PICK j \in 1 .. n : j = i - e /\ m + e + j = m + i  BY <2>2
    <3>2. buffer[i] = data[j]  BY <1>2, <2>2, <3>1
    <3>3. data[j] = Writer!Byte(d, m + e + j)  BY DEF InARow
    <3> QED  BY <3>1, <3>2, <3>3
  <2> QED  BY <2>1, <2>2
<1> QED  BY <1>1, <1>2, <1>3 DEF Writer!Buffer, InARow

LEMMA ChunkIs ==
    ASSUME NEW n \in Nat, download \in Int, received \in Int
    PROVE  /\ Writer!Chunk(n) \in Seq(Int) /\ Len(Writer!Chunk(n)) = n
           /\ \A i \in 1 .. n : Writer!Chunk(n)[i] = Writer!Byte(download, received + i)
  BY DEF Writer!Chunk, Writer!Byte

\* Of the r bytes of download d, m are in flash and the last e wait.
Account(extra, addr, d, r, m, e) ==
    /\ d = download /\ r = received /\ r = m + e /\ addr = RomStart + m
    /\ e = Len(extra) /\ e < Word /\ r <= MaxLength
LEMMA Accounts ==
    ASSUME Writer!WriterAssumption, NEW extra \in Seq(Int), NEW addr \in Nat, Writing(extra, addr)
    PROVE  \E d \in Int, r \in Nat, m \in Nat, e \in Nat :
             /\ Account(extra, addr, d, r, m, e)
             /\ InARow(extra, e, d, m) /\ Holds(flash, RomStart, m, d)
<1>1. RomStart \in Nat /\ MaxLength \in Nat  BY Sizes
<1>2. /\ download \in Int /\ received \in 0 .. MaxLength
      /\ Len(extra) < Word /\ addr + Len(extra) = RomStart + received /\ RomStart <= addr
  BY State
<1>3. PICK d \in Int, r \in Nat, e \in Nat : d = download /\ r = received /\ e = Len(extra)
  <2>1. PICK d \in Int : d = download  BY <1>2
  <2>2. PICK r \in Nat : r = received  BY <1>1, <1>2
  <2>3. PICK e \in Nat : e = Len(extra)  OBVIOUS
  <2> QED  BY <2>1, <2>2, <2>3
<1>4. PICK m \in Nat : m = r - e
  <2>1. r - e = addr - RomStart  BY <1>1, <1>2, <1>3
  <2>2. addr - RomStart \in Nat  BY <1>1, <1>2
  <2> QED  BY <2>1, <2>2
<1>5. r = m + e /\ addr = RomStart + m /\ r <= MaxLength
  <2>1. r \in 0 .. MaxLength /\ addr + e = RomStart + r  BY <1>2, <1>3
  <2>2. r = m + e  BY <1>4
  <2>3. addr = RomStart + m  BY <1>1, <2>1, <2>2
  <2>4. r <= MaxLength  BY <1>1, <2>1
  <2> QED  BY <2>2, <2>3, <2>4
<1>6. Account(extra, addr, d, r, m, e)  BY <1>2, <1>3, <1>5 DEF Account
<1>7. /\ \A i \in 1 .. Len(extra) : extra[i] = Writer!Byte(download, received - Len(extra) + i)
      /\ \A i \in 1 .. received - Len(extra) : flash[RomStart + i - 1] = Writer!Byte(download, i)
  BY State
<1>8. InARow(extra, e, d, m)  BY <1>3, <1>4, <1>7 DEF InARow
<1>9. Holds(flash, RomStart, m, d)  BY <1>3, <1>4, <1>7 DEF Holds
<1> QED  BY <1>6, <1>8, <1>9

\* What rboot_write_flash makes of a chunk that is not empty.
Receiving(n) == Writer!WriterInv /\ Writer!Receive(n) /\ Writer!Chunk(n) # <<>>

LEMMA ChunkKeeps ==
    ASSUME Writer!WriterAssumption, NEW n \in Nat, Receiving(n)
    PROVE  Writer!WriterInv'
<1>1. PICK extra \in Seq(Int), addr \in Nat : Writing(extra, addr)
  BY Current DEF Receiving, Writer!Receive
<1>2. PICK d \in Int, r \in Nat, m \in Nat, e \in Nat :
        /\ Account(extra, addr, d, r, m, e)
        /\ InARow(extra, e, d, m) /\ Holds(flash, RomStart, m, d)
  BY <1>1, Accounts
<1>3. /\ RomStart \in Nat /\ MaxLength \in Nat /\ Word \in Nat \ {0}
      /\ RomStart + MaxLength + Word <= Sectors * SectorSize
  BY Sizes
<1>4. addr % Word = 0 /\ RomStart <= addr  BY <1>1, State
<1>5. /\ d = download /\ d = download' /\ r = received /\ received' = r + n /\ r + n <= MaxLength
      /\ r = m + e /\ addr = RomStart + m /\ e = Len(extra)
  BY <1>2 DEF Receiving, Writer!Receive, Account
<1>6. PICK data \in Seq(Int) :
        /\ data = Writer!Chunk(n) /\ Len(data) = n
        /\ \A i \in 1 .. n : data[i] = Writer!Byte(d, r + i)
  <2>1. download \in Int /\ received \in Int  BY <1>5
  <2>2. /\ Writer!Chunk(n) \in Seq(Int) /\ Len(Writer!Chunk(n)) = n
        /\ \A i \in 1 .. n : Writer!Chunk(n)[i] = Writer!Byte(download, received + i)
    BY <2>1, ChunkIs
  <2> QED  BY <1>5, <2>2
<1>7. PICK buffer \in Seq(Int) :
        /\ buffer = Writer!Buffer(extra, data) /\ Len(buffer) = e + n
        /\ \A i \in 1 .. e + n : buffer[i] = Writer!Byte(d, m + i)
  <2>1. InARow(extra, e, d, m)  BY <1>2
  <2>2. InARow(data, n, d, m + e)  BY <1>5, <1>6 DEF InARow
  <2>3. /\ Writer!Buffer(extra, data) \in Seq(Int) /\ Len(Writer!Buffer(extra, data)) = e + n
        /\ InARow(Writer!Buffer(extra, data), e + n, d, m)
    <3>1. Len(extra) = e /\ Len(data) = n  BY <1>5, <1>6
    <3> QED  BY <2>1, <2>2, <3>1, Joined
  <2> QED  BY <2>3 DEF InARow
<1>8. PICK k \in Nat, rest \in Seq(Int) :
        /\ k = Len(Writer!Whole(buffer)) /\ k <= e + n /\ k % Word = 0 /\ rest = Writer!Rest(buffer)
        /\ Len(rest) = e + n - k
        /\ \A i \in 1 .. e + n - k : rest[i] = buffer[k + i]
  <2>1. LET l == Len(buffer) - (Len(buffer) % Word) IN
        /\ l \in 0 .. Len(buffer) /\ l % Word = 0
        /\ Len(Writer!Whole(buffer)) = l
        /\ Writer!Rest(buffer) \in Seq(Int) /\ Len(Writer!Rest(buffer)) = Len(buffer) - l
        /\ \A i \in 1 .. Len(buffer) - l : Writer!Rest(buffer)[i] = buffer[l + i]
    BY WholeAndRest
  <2>2. PICK l \in Nat : l = Len(buffer) - (Len(buffer) % Word)
    <3>1. Len(buffer) - (Len(buffer) % Word) \in 0 .. Len(buffer)  BY <2>1
    <3> QED  BY <3>1
  <2>3. /\ l <= Len(buffer) /\ l % Word = 0
        /\ Len(Writer!Whole(buffer)) = l
        /\ Writer!Rest(buffer) \in Seq(Int) /\ Len(Writer!Rest(buffer)) = Len(buffer) - l
        /\ \A i \in 1 .. Len(buffer) - l : Writer!Rest(buffer)[i] = buffer[l + i]
    BY <2>1, <2>2
  <2>4. PICK rest \in Seq(Int) : rest = Writer!Rest(buffer)  BY <2>3
  <2>5. PICK all \in Nat : all = e + n /\ Len(buffer) = all  BY <1>7
  <2>6. PICK k \in Nat : k = Len(Writer!Whole(buffer))  BY <2>2, <2>3
  <2>7. k <= all /\ k % Word = 0 /\ Len(rest) = all - k
    BY <2>3, <2>4, <2>5, <2>6
  <2>8. \A i \in 1 .. all - k : rest[i] = buffer[k + i]
    BY <2>3, <2>4, <2>5, <2>6
  <2>9. k <= e + n /\ Len(rest) = e + n - k  BY <2>5, <2>7
  <2>10. \A i \in 1 .. e + n - k : rest[i] = buffer[k + i]  BY <2>5, <2>8
  <2> QED  BY <2>4, <2>6, <2>7, <2>9, <2>10
<1>9. PICK sector \in [Int -> Int] : IsSector(sector)  BY SectorOf DEF IsSector
<1>10. PICK size \in Nat : IsSize(size) /\ size = Sectors * SectorSize  BY SectorOf DEF IsSize
<1>11. Writer!Address = 0 .. size - 1 /\ RomStart + MaxLength + Word <= size
  BY <1>3, <1>10 DEF Writer!Address
<1>12. addr + k <= RomStart + MaxLength /\ addr + k \in Writer!Address
  <2>1. addr + k <= RomStart + MaxLength
    <3>1. PICK start \in Nat, limit \in Nat : start = RomStart /\ limit = MaxLength  BY <1>3
    <3>2. r = m + e /\ r + n <= limit /\ addr = start + m  BY <1>5, <3>1
    <3>3. k <= e + n  BY <1>8
    <3>4. addr + k <= start + limit  BY <3>2, <3>3
    <3> QED  BY <3>1, <3>4
  <2>2. addr + k \in 0 .. size - 1  BY <1>3, <1>11, <2>1
  <2> QED  BY <1>11, <2>1, <2>2
<1>13. Flashing(data, "writing", buffer, addr, k)
  BY <1>1, <1>6, <1>7, <1>8, <1>12 DEF Flashing, Writing, Receiving, Writer!Receive
<1>14. PICK reached \in Int : reached = sector[addr + k - 1]  OBVIOUS
<1>15. /\ flash' \in [Writer!Address -> Int]
       /\ status' \in Writer!Status /\ Len(status'.extra_bytes) < Word
       /\ \A a \in Writer!Address : a < addr \/ sector[a] > reached => flash'[a] = flash[a]
       /\ \/ outcome' = "failed"
          \/ /\ outcome' = "writing"
             /\ \A i \in 1 .. k : flash'[addr + i - 1] = buffer[i]
             /\ \A a \in Writer!Address : a >= addr + k /\ sector[a] <= reached => flash'[a] = Writer!Erased
             /\ status' = [start_addr |-> addr + k, last_sector_erased |-> reached,
                           extra_bytes |-> rest]
  <2>1. FlashedTo(sector, buffer, addr, k, "writing")
    BY <1>9, <1>10, <1>13, Flashed
  <2> QED  BY <1>8, <1>14, <2>1 DEF FlashedTo
<1>16. Writer!TypeOK'
  <2>1. received' \in 0 .. MaxLength  BY <1>3, <1>5
  <2>2. download' \in 1 .. Downloads  BY <1>5 DEF Receiving, Writer!WriterInv, Writer!TypeOK
  <2> QED  BY <1>15, <2>1, <2>2 DEF Writer!TypeOK
<1>17. Writer!OthersUntouched'
  <2>1. PICK x \in Int, y \in Int : x = addr + k - 1 /\ y = RomStart + MaxLength - 1 /\ x <= y
    BY <1>3, <1>12
  <2>2. reached <= sector[RomStart + MaxLength - 1]  BY <1>9, <1>14, <2>1 DEF IsSector
  <2>3. Spares(addr, sector, reached)  BY <1>15 DEF Spares
  <2>4. Writer!OthersUntouched  BY DEF Receiving, Writer!WriterInv
  <2> QED  BY <1>4, <1>9, <2>2, <2>3, <2>4, StaysUntouched
<1>18. CASE outcome' = "failed"
  BY <1>16, <1>17, <1>18, FailedKeeps
<1>19. CASE outcome' = "writing"
  <2>1. /\ \A i \in 1 .. k : flash'[addr + i - 1] = buffer[i]
        /\ \A a \in Writer!Address : a >= addr + k /\ sector[a] <= reached => flash'[a] = Writer!Erased
        /\ status'.start_addr = addr + k /\ status'.last_sector_erased = reached
        /\ status'.extra_bytes = rest
    BY <1>15, <1>19
  <2>2. Writer!ErasedAhead'
    <3>1. (addr + k) % Word = 0
      <4>1. addr \in Int /\ k \in Int  OBVIOUS
      <4> QED  BY <1>3, <1>4, <1>8, <4>1, MultiplesAdd
    <3>2. reached = (addr + k + 0 - 1) \div SectorSize
      <4>1. PICK x \in Int : x = addr + k - 1 /\ x = addr + k + 0 - 1  OBVIOUS
      <4> QED  BY <1>9, <1>14, <4>1 DEF IsSector
    <3>3. \A a \in Writer!Address : sector[a] = a \div SectorSize  BY <1>9, <1>11 DEF IsSector
    <3> QED  BY <2>1, <3>1, <3>2, <3>3 DEF Writer!ErasedAhead, Writer!LastSector
  <2>3. \A i \in 1 .. m + k : flash'[RomStart + i - 1] = Writer!Byte(d, i)
    <3>1. Below(flash, flash', addr, size)  BY <1>11, <1>15 DEF Below
    <3>2. Holds(flash, RomStart, m, d)  BY <1>2
    <3>3. InARow(buffer, k, d, m)
      <4>1. k <= e + n  BY <1>8
      <4>2. \A i \in 1 .. k : i \in 1 .. e + n  BY <4>1
      <4> QED  BY <1>7, <4>2 DEF InARow
    <3>4. addr + k <= size  BY <1>11, <1>12
    <3>5. Placed(flash', addr, k, buffer)  BY <2>1 DEF Placed
    <3>6. Holds(flash', RomStart, m + k, d)
      BY <1>3, <1>5, <3>1, <3>2, <3>3, <3>4, <3>5, InOrder
    <3> QED  BY <3>6 DEF Holds
  <2>4. received' - Len(rest) = m + k
    <3>1. PICK l \in Nat : l = Len(rest) /\ l = e + n - k  BY <1>8
    <3>2. received' = m + e + n  BY <1>5
    <3>3. m + e + n - l = m + k  BY <3>1
    <3> QED  BY <3>1, <3>2, <3>3
  <2>5. Writer!WrittenInOrder'
    BY <1>5, <2>1, <2>3, <2>4 DEF Writer!WrittenInOrder
  <2>6. Writer!NothingLost'
    <3>1. addr + k + Len(rest) = RomStart + received'  BY <1>3, <1>5, <1>8
    <3>2. ASSUME NEW i \in 1 .. Len(rest) PROVE rest[i] = Writer!Byte(d, received' - Len(rest) + i)
      <4>0. Len(rest) = e + n - k  BY <1>8
      <4>1. PICK j \in 1 .. e + n : j = k + i  BY <4>0
      <4>2. rest[i] = Writer!Byte(d, m + j)  BY <1>7, <1>8, <4>1
      <4>3. m + j = received' - Len(rest) + i  BY <1>8, <2>4, <4>1
      <4> QED  BY <4>2, <4>3
    <3> QED  BY <1>5, <2>1, <3>1, <3>2 DEF Writer!NothingLost
  <2>7. Writer!CompleteAtEnd'  BY <1>19 DEF Writer!CompleteAtEnd
  <2> QED  BY <1>16, <1>17, <2>2, <2>5, <2>6, <2>7 DEF Writer!WriterInv
<1> QED  BY <1>15, <1>18, <1>19

\* The word rboot_write_end makes of the rest: the rest, the padding behind it,
\* and both put behind the rest once more.  One word of it is written, and it
\* begins with the rest.
LEMMA PaddedOnce ==
    ASSUME Writer!WriterAssumption, NEW extra \in Seq(Int), NEW e \in Nat, Len(extra) = e,
           e # 0, e < Word
    PROVE  /\ Writer!Padded(extra) \in Seq(Int) /\ Len(Writer!Padded(extra)) = Word
           /\ Writer!Buffer(extra, Writer!Padded(extra)) \in Seq(Int)
           /\ Len(Writer!Whole(Writer!Buffer(extra, Writer!Padded(extra)))) = Word
           /\ \A i \in 1 .. e : Writer!Buffer(extra, Writer!Padded(extra))[i] = extra[i]
<1>1. PICK w \in Nat \ {0} : w = Word  BY Sizes
<1>2. PICK fill \in Seq(Int) : fill = [i \in 1 .. w - e |-> Writer!Erased] /\ Len(fill) = w - e
  <2>1. w - e \in Nat /\ Writer!Erased \in Int  BY <1>1 DEF Writer!Erased
  <2>2. [i \in 1 .. w - e |-> Writer!Erased] \in Seq(Int)  BY <2>1
  <2>3. Len([i \in 1 .. w - e |-> Writer!Erased]) = w - e  BY <2>1
  <2> QED  BY <2>2, <2>3
<1>3. PICK padded \in Seq(Int) : padded = Writer!Padded(extra) /\ Len(padded) = w
  <2>1. Writer!Padded(extra) = extra \o fill  BY <1>1, <1>2 DEF Writer!Padded
  <2>2. extra \o fill \in Seq(Int) /\ Len(extra \o fill) = Len(extra) + Len(fill)
    BY ConcatProperties
  <2>3. e + (w - e) = w  BY <1>1
  <2> QED  BY <1>2, <2>1, <2>2, <2>3
<1>4. PICK buffer \in Seq(Int) :
        /\ buffer = Writer!Buffer(extra, padded) /\ Len(buffer) = e + w
        /\ \A i \in 1 .. e : buffer[i] = extra[i]
  <2>1. /\ extra \o padded \in Seq(Int)
        /\ Len(extra \o padded) = Len(extra) + Len(padded)
        /\ \A i \in 1 .. Len(extra) + Len(padded) : (extra \o padded)[i] =
             IF i <= Len(extra) THEN extra[i] ELSE padded[i - Len(extra)]
    BY ConcatProperties
  <2>2. /\ Len(extra \o padded) = e + w
        /\ \A i \in 1 .. e + w :
             (extra \o padded)[i] = IF i <= e THEN extra[i] ELSE padded[i - e]
    BY <1>3, <2>1
  <2>3. ASSUME NEW i \in 1 .. e PROVE (extra \o padded)[i] = extra[i]
    <3>1. i \in 1 .. e + w /\ i <= e  BY <1>1
    <3> QED  BY <2>2, <3>1
  <2> QED  BY <2>1, <2>2, <2>3 DEF Writer!Buffer
<1>5. (e + w) % w = e
  <2>1. PICK a \in Int : a = e + w /\ a = w * 1 + e  BY <1>1
  <2>2. e \in 0 .. w - 1  BY <1>1
  <2>3. PICK q \in Int : q = 1 /\ a = w * q + e  BY <2>1
  <2>4. a % w = e  BY <2>2, <2>3, DivIs
  <2> QED  BY <2>1, <2>4
<1>6. Len(Writer!Whole(buffer)) = Word
  <2>1. Len(Writer!Whole(buffer)) = Len(buffer) - (Len(buffer) % Word)
    <3>1. LET l == Len(buffer) - (Len(buffer) % Word) IN Len(Writer!Whole(buffer)) = l
      BY WholeAndRest
    <3> QED  BY <3>1
  <2>2. (e + w) - e = w  BY <1>1
  <2> QED  BY <1>1, <1>4, <1>5, <2>1, <2>2
<1> QED  BY <1>1, <1>3, <1>4, <1>6

\* What rboot_write_end makes of a rest.
Ending == Writer!WriterInv /\ Writer!rboot_write_end /\ status.extra_bytes # <<>>

LEMMA EndedKeeps ==
    ASSUME Writer!WriterAssumption, Ending
    PROVE  Writer!WriterInv'
<1>1. PICK extra \in Seq(Int), addr \in Nat : Writing(extra, addr)
  BY Current DEF Ending, Writer!rboot_write_end
<1>2. PICK d \in Int, r \in Nat, m \in Nat, e \in Nat :
        /\ Account(extra, addr, d, r, m, e)
        /\ InARow(extra, e, d, m) /\ Holds(flash, RomStart, m, d)
  BY <1>1, Accounts
<1>3. /\ RomStart \in Nat /\ MaxLength \in Nat /\ Word \in Nat \ {0} /\ SectorSize \in Nat \ {0}
      /\ RomStart + MaxLength + Word <= Sectors * SectorSize /\ SectorSize % Word = 0
  BY Sizes
<1>4. addr % Word = 0 /\ RomStart <= addr  BY <1>1, State
<1>6. /\ d = download /\ d = download' /\ r = received /\ received' = r /\ r <= MaxLength
      /\ r = m + e /\ addr = RomStart + m /\ e = Len(extra) /\ e < Word
  BY <1>2 DEF Ending, Writer!rboot_write_end, Account
<1>5. e # 0
  <2>1. extra # <<>>  BY <1>1 DEF Ending, Writing
  <2> QED  BY <1>6, <2>1
<1>7. PICK data \in Seq(Int), buffer \in Seq(Int), k \in Nat :
        /\ data = Writer!Padded(extra) /\ data # <<>> /\ buffer = Writer!Buffer(extra, data)
        /\ k = Len(Writer!Whole(buffer)) /\ k = Word
        /\ \A i \in 1 .. e : buffer[i] = extra[i]
  <2>1. /\ Writer!Padded(extra) \in Seq(Int) /\ Len(Writer!Padded(extra)) = Word
        /\ Writer!Buffer(extra, Writer!Padded(extra)) \in Seq(Int)
        /\ Len(Writer!Whole(Writer!Buffer(extra, Writer!Padded(extra)))) = Word
        /\ \A i \in 1 .. e : Writer!Buffer(extra, Writer!Padded(extra))[i] = extra[i]
    BY <1>5, <1>6, PaddedOnce
  <2>2. PICK data \in Seq(Int), buffer \in Seq(Int) :
          data = Writer!Padded(extra) /\ buffer = Writer!Buffer(extra, Writer!Padded(extra))
    BY <2>1
  <2>3. data # <<>>  BY <1>3, <2>1, <2>2
  <2> QED  BY <1>3, <2>1, <2>2, <2>3
<1>8. PICK sector \in [Int -> Int] : IsSector(sector)  BY SectorOf DEF IsSector
<1>9. PICK size \in Nat : IsSize(size) /\ size = Sectors * SectorSize  BY SectorOf DEF IsSize
<1>10. Writer!Address = 0 .. size - 1 /\ RomStart + MaxLength + Word <= size
  BY <1>3, <1>9 DEF Writer!Address
<1>11. addr <= RomStart + MaxLength - 1 /\ addr + k <= size /\ addr + k \in Writer!Address
  <2>1. addr <= RomStart + MaxLength - 1  BY <1>3, <1>5, <1>6
  <2>2. addr + k < size
    <3>1. k = Word /\ RomStart + MaxLength + k <= size  BY <1>7, <1>10
    <3> QED  BY <1>3, <2>1, <3>1
  <2>3. addr + k \in 0 .. size - 1  BY <2>2
  <2> QED  BY <1>10, <2>1, <2>2, <2>3
<1>12. Flashing(data, "ended", buffer, addr, k)
  BY <1>1, <1>7, <1>11 DEF Flashing, Writing, Ending, Writer!rboot_write_end
<1>13. FlashedTo(sector, buffer, addr, k, "ended")
  BY <1>8, <1>9, <1>12, Flashed
<1>14. Writer!TypeOK'
  <2>1. received' \in 0 .. MaxLength  BY <1>3, <1>6
  <2>2. download' \in 1 .. Downloads  BY <1>6 DEF Ending, Writer!WriterInv, Writer!TypeOK
  <2> QED  BY <1>13, <2>1, <2>2 DEF Writer!TypeOK, FlashedTo
<1>15. Writer!OthersUntouched'
  <2>1. PICK x \in Int, y \in Int : x = addr + k - 1 /\ y = RomStart + MaxLength - 1
    BY <1>3
  <2>2. sector[x] = sector[addr]
    <3>1. (addr + Word - 1) \div SectorSize = addr \div SectorSize
      BY <1>3, <1>4, WordInSector
    <3> QED  BY <1>7, <1>8, <2>1, <3>1 DEF IsSector
  <2>3. sector[addr] <= sector[y]
    <3>1. addr \in Int /\ addr <= y  BY <1>11, <2>1
    <3> QED  BY <1>8, <3>1 DEF IsSector
  <2>4. PICK reached \in Int : reached = sector[x] /\ reached <= sector[RomStart + MaxLength - 1]
    BY <2>1, <2>2, <2>3
  <2>5. Spares(addr, sector, reached)  BY <1>13, <2>1, <2>4 DEF Spares, FlashedTo
  <2>6. Writer!OthersUntouched  BY DEF Ending, Writer!WriterInv
  <2> QED  BY <1>4, <1>8, <2>4, <2>5, <2>6, StaysUntouched
<1>16. CASE outcome' = "failed"
  BY <1>14, <1>15, <1>16, FailedKeeps
<1>17. CASE outcome' = "ended"
  <2>1. Placed(flash', addr, e, buffer)
    <3>1. \A i \in 1 .. e : i \in 1 .. k
      <4>1. e < k  BY <1>6, <1>7
      <4> QED  BY <4>1
    <3>2. \A i \in 1 .. k : flash'[addr + i - 1] = buffer[i]  BY <1>13, <1>17 DEF FlashedTo
    <3> QED  BY <3>1, <3>2 DEF Placed
  <2>2. Below(flash, flash', addr, size)  BY <1>10, <1>13 DEF Below, FlashedTo
  <2>3. Holds(flash, RomStart, m, d)  BY <1>2
  <2>4. InARow(buffer, e, d, m)  BY <1>2, <1>7 DEF InARow
  <2>5. addr + e <= size
    <3>1. e < k /\ addr + k <= size  BY <1>6, <1>7, <1>11
    <3> QED  BY <3>1
  <2>6. Holds(flash', RomStart, m + e, d)
    BY <1>3, <1>6, <2>1, <2>2, <2>3, <2>4, <2>5, InOrder
  <2>7. Writer!CompleteAtEnd'  BY <1>6, <2>6 DEF Writer!CompleteAtEnd, Holds
  <2> QED
    BY <1>14, <1>15, <1>17, <2>7
       DEF Writer!WriterInv, Writer!ErasedAhead, Writer!WrittenInOrder, Writer!NothingLost
<1> QED  BY <1>13, <1>16, <1>17 DEF FlashedTo

-----------------------------------------------------------------------------
\* The status a download begins with.
LEMMA BeginsAt ==
    ASSUME Writer!WriterAssumption
    PROVE  /\ Writer!rboot_write_init(RomStart) \in Writer!Status
           /\ Writer!rboot_write_init(RomStart).start_addr = RomStart
           /\ Writer!rboot_write_init(RomStart).extra_bytes = <<>>
           /\ RomStart % Word = 0
           /\ Writer!rboot_write_init(RomStart).last_sector_erased = Writer!LastSector(RomStart, 0)
           /\ \A a \in Writer!Address :
                ~(a >= RomStart /\ a \div SectorSize <= Writer!rboot_write_init(RomStart).last_sector_erased)
<1>1. /\ SectorSize \in Nat \ {0} /\ Word \in Nat \ {0} /\ RomStart \in Nat /\ MaxLength \in Nat
      /\ RomStart % SectorSize = 0 /\ SectorSize % Word = 0
      /\ RomStart + MaxLength + Word <= Sectors * SectorSize
  BY Sizes
<1>2. PICK size \in Nat : IsSize(size) /\ size = Sectors * SectorSize  BY SectorOf DEF IsSize
<1>3. Writer!Address = 0 .. size - 1 /\ RomStart \in Writer!Address
  BY <1>1, <1>2 DEF Writer!Address
<1>4. PICK sector \in [Int -> Int] : IsSector(sector)  BY SectorOf DEF IsSector
<1>5. PICK start \in Int, d \in Nat \ {0} : start = RomStart /\ d = SectorSize  BY <1>1
<1>6. PICK q \in Int : q = RomStart \div SectorSize /\ start = d * q
  <2>1. start \div d \in Int /\ start = d * (start \div d) + (start % d)  BY DivMod
  <2> QED  BY <1>1, <1>5, <2>1
<1>7. sector[RomStart - 1] = q - 1
  <2>1. PICK b \in Int, p \in Int, r \in 0 .. d - 1 :
          b = start - 1 /\ p = q - 1 /\ r = d - 1 /\ b = d * p + r
    BY <1>6
  <2>2. b \div d = p  BY <2>1, DivIs
  <2> QED  BY <1>4, <1>5, <2>1, <2>2 DEF IsSector
<1>8. q - 1 \in -1 .. Sectors - 1
  <2>1. PICK a \in -1 .. size - 1 : a = RomStart - 1  BY <1>1, <1>3
  <2>2. sector[a] \in -1 .. Sectors - 1  BY <1>2, <1>4, <2>1, SectorsFit
  <2> QED  BY <1>7, <2>1, <2>2
<1>9. PICK s : s = Writer!rboot_write_init(RomStart) /\ s = [start_addr |-> RomStart,
          last_sector_erased |-> q - 1, extra_bytes |-> <<>>]
  BY <1>6 DEF Writer!rboot_write_init
<1>10. s \in Writer!Status  BY <1>3, <1>8, <1>9 DEF Writer!Status
<1>11. q - 1 = Writer!LastSector(RomStart, 0)
  <2>1. PICK b \in Int : b = RomStart - 1 /\ b = RomStart + 0 - 1  BY <1>1
  <2>2. sector[b] = b \div SectorSize  BY <1>4 DEF IsSector
  <2> QED  BY <1>7, <2>1, <2>2 DEF Writer!LastSector
<1>12. ASSUME NEW a \in Writer!Address, a >= RomStart PROVE ~(a \div SectorSize <= q - 1)
  <2>1. PICK b \in Int : b = a /\ start <= b  BY <1>3, <1>5, <1>12
  <2>2. sector[start] <= sector[b] /\ sector[start] = q /\ sector[b] = b \div SectorSize
    BY <1>4, <1>5, <1>6, <2>1 DEF IsSector
  <2>3. PICK t \in Int : t = sector[b]  OBVIOUS
  <2>4. ~(t <= q - 1)  BY <2>2, <2>3
  <2> QED  BY <2>1, <2>2, <2>3, <2>4
<1>13. RomStart % Word = 0
  <2>1. start \in Int /\ start % SectorSize = 0  BY <1>1, <1>5
  <2>2. start % Word = 0  BY <1>1, <2>1, MultiplesMultiply
  <2> QED  BY <1>5, <2>2
<1> QED  BY <1>9, <1>10, <1>11, <1>12, <1>13

LEMMA WriterInitially == ASSUME Writer!WriterAssumption, Writer!Init PROVE Writer!WriterInv
<1>1. /\ flash = [a \in Writer!Address |-> Writer!Old] /\ download = 1 /\ received = 0
      /\ status = Writer!rboot_write_init(RomStart) /\ outcome = "writing"
  BY DEF Writer!Init
<1>2. Word \in Nat \ {0} /\ Downloads \in Nat \ {0} /\ MaxLength \in Nat /\ RomStart \in Nat
  BY Sizes
<1>3. /\ status \in Writer!Status /\ status.start_addr = RomStart /\ status.extra_bytes = <<>>
      /\ RomStart % Word = 0 /\ status.last_sector_erased = Writer!LastSector(RomStart, 0)
      /\ \A a \in Writer!Address : ~(a >= RomStart /\ a \div SectorSize <= status.last_sector_erased)
  BY <1>1, BeginsAt
<1>4. Writer!TypeOK
  <2>1. flash \in [Writer!Address -> Int]  BY <1>1 DEF Writer!Old
  <2>2. download \in 1 .. Downloads /\ received \in 0 .. MaxLength /\ Len(<<>>) < Word
    BY <1>1, <1>2
  <2> QED  BY <1>1, <1>3, <2>1, <2>2 DEF Writer!TypeOK
<1>5. Writer!ErasedAhead  BY <1>3 DEF Writer!ErasedAhead
<1>6. Len(<<>>) = 0  OBVIOUS
<1>7. Writer!WrittenInOrder  BY <1>1, <1>3, <1>6 DEF Writer!WrittenInOrder
<1>8. Writer!NothingLost  BY <1>1, <1>2, <1>3, <1>6 DEF Writer!NothingLost
<1>9. Writer!OthersUntouched  BY <1>1 DEF Writer!OthersUntouched
<1> QED  BY <1>1, <1>4, <1>5, <1>7, <1>8, <1>9 DEF Writer!WriterInv, Writer!CompleteAtEnd

LEMMA AgainKeeps ==
    ASSUME Writer!WriterAssumption, Writer!WriterInv, Writer!Again
    PROVE Writer!WriterInv'
<1>1. /\ flash' = flash /\ download' = download + 1 /\ download < Downloads /\ received' = 0
      /\ status' = Writer!rboot_write_init(RomStart) /\ outcome' = "writing"
  BY DEF Writer!Again
<1>2. Word \in Nat \ {0} /\ Downloads \in Nat \ {0} /\ MaxLength \in Nat /\ RomStart \in Nat
  BY Sizes
<1>3. /\ status' \in Writer!Status /\ status'.start_addr = RomStart /\ status'.extra_bytes = <<>>
      /\ RomStart % Word = 0 /\ status'.last_sector_erased = Writer!LastSector(RomStart, 0)
      /\ \A a \in Writer!Address : ~(a >= RomStart /\ a \div SectorSize <= status'.last_sector_erased)
  BY <1>1, BeginsAt
<1>4. Writer!TypeOK'
  <2>1. flash' \in [Writer!Address -> Int]  BY <1>1 DEF Writer!WriterInv, Writer!TypeOK
  <2>2. download \in 1 .. Downloads  BY DEF Writer!WriterInv, Writer!TypeOK
  <2>3. download' \in 1 .. Downloads /\ received' \in 0 .. MaxLength /\ Len(<<>>) < Word
    BY <1>1, <1>2, <2>2
  <2> QED  BY <1>1, <1>3, <2>1, <2>3 DEF Writer!TypeOK
<1>5. Writer!ErasedAhead'  BY <1>3 DEF Writer!ErasedAhead
<1>6. Len(<<>>) = 0  OBVIOUS
<1>7. Writer!WrittenInOrder'  BY <1>1, <1>3, <1>6 DEF Writer!WrittenInOrder
<1>8. Writer!NothingLost'  BY <1>1, <1>2, <1>3, <1>6 DEF Writer!NothingLost
<1>9. Writer!OthersUntouched'  BY <1>1 DEF Writer!WriterInv, Writer!OthersUntouched
<1> QED  BY <1>1, <1>4, <1>5, <1>7, <1>8, <1>9 DEF Writer!WriterInv, Writer!CompleteAtEnd

LEMMA ReceiveKeeps ==
    ASSUME Writer!WriterAssumption, Writer!WriterInv, NEW n \in 0 .. MaxChunk, Writer!Receive(n)
    PROVE  Writer!WriterInv'
<1>1. n \in Nat /\ MaxLength \in Nat /\ Downloads \in Nat  BY Sizes
<1>2. CASE Writer!Chunk(n) # <<>>
  BY <1>1, <1>2, ChunkKeeps DEF Receiving
<1>3. CASE Writer!Chunk(n) = <<>>
  <2>1. n = 0
    <3>1. download \in Int /\ received \in Int  BY <1>1 DEF Writer!WriterInv, Writer!TypeOK
    <3>2. Len(Writer!Chunk(n)) = n  BY <1>1, <3>1, ChunkIs
    <3> QED  BY <1>3, <3>2
  <2>2. /\ outcome = "writing" /\ outcome' = "writing" /\ flash' = flash /\ status' = status
        /\ download' = download /\ received' = received
    <3>1. /\ outcome = "writing" /\ outcome' = "writing" /\ flash' = flash /\ status' = status
          /\ download' = download /\ received' = received + n
      BY <1>3 DEF Writer!Receive, Writer!rboot_write_flash
    <3>2. received \in Int  BY <1>1 DEF Writer!WriterInv, Writer!TypeOK
    <3> QED  BY <2>1, <3>1, <3>2
  <2> QED
    BY <2>2
       DEF Writer!WriterInv, Writer!TypeOK, Writer!ErasedAhead, Writer!WrittenInOrder,
           Writer!NothingLost, Writer!CompleteAtEnd,
                Writer!OthersUntouched
<1> QED  BY <1>2, <1>3

LEMMA EndKeeps ==
    ASSUME Writer!WriterAssumption, Writer!WriterInv, Writer!rboot_write_end
    PROVE Writer!WriterInv'
<1>1. CASE status.extra_bytes # <<>>
  BY <1>1, EndedKeeps DEF Ending
<1>2. CASE status.extra_bytes = <<>>
  <2>1. /\ outcome = "writing" /\ outcome' = "ended"
        /\ UNCHANGED <<flash, status, download, received>>
    BY <1>2 DEF Writer!rboot_write_end
  <2>2. Writer!CompleteAtEnd'
    <3>1. received \in 0 .. MaxLength /\ MaxLength \in Nat
      BY Sizes DEF Writer!WriterInv, Writer!TypeOK
    <3>2. received - Len(<<>>) = received  BY <3>1
    <3>3. \A i \in 1 .. received : flash[RomStart + i - 1] = Writer!Byte(download, i)
      BY <1>2, <2>1, <3>2 DEF Writer!WriterInv, Writer!WrittenInOrder
    <3> QED  BY <2>1, <3>3 DEF Writer!CompleteAtEnd
  <2> QED
    BY <2>1, <2>2
       DEF Writer!WriterInv, Writer!TypeOK, Writer!ErasedAhead, Writer!WrittenInOrder,
           Writer!NothingLost, Writer!OthersUntouched
<1> QED  BY <1>1, <1>2

LEMMA WriterStep ==
    ASSUME Writer!WriterAssumption, Writer!WriterInv, Writer!Next
    PROVE Writer!WriterInv'
<1>1. ASSUME NEW n \in 0 .. MaxChunk, Writer!Receive(n) PROVE Writer!WriterInv'
  BY <1>1, ReceiveKeeps
<1>2. CASE Writer!rboot_write_end  BY <1>2, EndKeeps
<1>3. CASE Writer!Again  BY <1>3, AgainKeeps
<1> QED  BY <1>1, <1>2, <1>3 DEF Writer!Next

LEMMA WriterStands == ASSUME Writer!WriterInv, UNCHANGED Writer!vars PROVE Writer!WriterInv'
  BY
     DEF Writer!vars, Writer!WriterInv, Writer!TypeOK, Writer!ErasedAhead,
         Writer!WrittenInOrder, Writer!NothingLost, Writer!CompleteAtEnd,
         Writer!OthersUntouched

-----------------------------------------------------------------------------
\* What was handed over to the writer of ROMs is in flash in order, and nothing
\* else is touched, whatever the sizes of sectors, words and chunks, at whatever
\* sector the slot begins, and however often a download fails (rboot_write_flash,
\* rboot_write_end).
THEOREM WriterInOrderCorrect == FirmwareSpec => []WriterInOrder
<1>1. FirmwareInit => Writer!WriterInv
  BY RomAssumption, WriterInitially DEF FirmwareInit
<1>2. /\ Writer!WriterInv
      /\ [FirmwareNext]_<<part, vars, patientVars, writerVars, consoleVars, uartVars>>
      => Writer!WriterInv'
  <2> SUFFICES ASSUME Writer!WriterInv,
                      [FirmwareNext]_<<part, vars, patientVars, writerVars, consoleVars, uartVars>>
               PROVE  Writer!WriterInv'
    OBVIOUS
  <2>1. CASE Writer!Next
    BY <2>1, RomAssumption, WriterStep
  <2>2. CASE UNCHANGED writerVars
    BY <2>2, WriterStands DEF writerVars, Writer!vars
  <2> QED
    BY <2>1, <2>2 DEF FirmwareNext
<1>3. Writer!WriterInv => WriterInOrder
  BY DEF Writer!WriterInv, WriterInOrder
<1>4. FirmwareSpec => /\ FirmwareInit
                      /\ [][FirmwareNext]_<<part, vars, patientVars, writerVars, consoleVars, uartVars>>
  BY PTL DEF FirmwareSpec
<1> QED
  BY <1>1, <1>2, <1>3, <1>4, PTL

-----------------------------------------------------------------------------
\* How many of S are before x.
Rank(S, x) == Cardinality({y \in S : y < x})

\* Later ones have more before them.
LEMMA RankGrows ==
    ASSUME NEW S \in SUBSET Int, IsFiniteSet(S), NEW x \in S, NEW y \in Int
    PROVE  /\ Rank(S, x) \in Nat /\ Rank(S, y) \in Nat
           /\ Rank(S, x) < Cardinality(S)
           /\ x < y => Rank(S, x) < Rank(S, y)
           /\ y <= x => Rank(S, y) <= Rank(S, x)
<1> DEFINE Smaller(z) == {w \in S : w < z}
<1>1. \A z : Smaller(z) \in SUBSET S  OBVIOUS
<1>2. \A z : IsFiniteSet(Smaller(z)) /\ Cardinality(Smaller(z)) \in Nat /\ Cardinality(Smaller(z)) <= Cardinality(S)
  BY <1>1, FS_Subset, FS_CardinalityType
<1>3. x \in S /\ x \notin Smaller(x)  OBVIOUS
<1>4. Cardinality(S) # Cardinality(Smaller(x))
  BY <1>1, <1>3, FS_Subset
<1>5. ASSUME x < y PROVE Cardinality(Smaller(x)) < Cardinality(Smaller(y))
  <2>0. ASSUME NEW w \in S, w < x PROVE w < y
    <3>1. w \in Int /\ x \in Int /\ y \in Int  OBVIOUS
    <3> QED  BY <1>5, <2>0, <3>1
  <2>1. Smaller(x) \in SUBSET Smaller(y) /\ x \in Smaller(y) /\ x \notin Smaller(x)  BY <1>3, <1>5, <2>0
  <2>2. /\ Cardinality(Smaller(x)) <= Cardinality(Smaller(y))
        /\ Cardinality(Smaller(x)) # Cardinality(Smaller(y))
    BY <1>2, <2>1, FS_Subset
  <2> QED  BY <1>2, <2>2
<1>6. ASSUME y <= x PROVE Cardinality(Smaller(y)) <= Cardinality(Smaller(x))
  <2>0. ASSUME NEW w \in S, w < y PROVE w < x
    <3>1. w \in Int /\ x \in Int /\ y \in Int  OBVIOUS
    <3> QED  BY <1>6, <2>0, <3>1
  <2>1. Smaller(y) \in SUBSET Smaller(x)  BY <2>0
  <2> QED  BY <1>2, <2>1, FS_Subset
<1>7. Cardinality(S) \in Nat  BY FS_CardinalityType
<1>8. Rank(S, x) = Cardinality(Smaller(x)) /\ Rank(S, y) = Cardinality(Smaller(y))  BY DEF Rank
<1> HIDE DEF Smaller
<1> QED  BY <1>2, <1>4, <1>5, <1>6, <1>7, <1>8

\* Each number up to that of all is how many are before one of them.
LEMMA RankReached ==
    ASSUME NEW S \in SUBSET Int, IsFiniteSet(S), NEW n \in Nat, n = Cardinality(S)
    PROVE  \A k \in 0 .. n - 1 : \E x \in S : Rank(S, x) = k
<1> DEFINE rank == [x \in S |-> Rank(S, x)]
<1>1. ASSUME NEW x \in S PROVE Rank(S, x) \in 0 .. n - 1
  <2>1. Rank(S, x) \in Nat /\ Rank(S, x) < n  BY RankGrows
  <2> QED  BY <2>1
<1>2. ASSUME NEW x \in S, NEW y \in S, rank[x] = rank[y] PROVE x = y
  <2>1. Rank(S, x) = Rank(S, y) /\ Rank(S, x) \in Nat  BY <1>1, <1>2
  <2>2. ~(x < y) /\ ~(y < x)
    <3>1. x \in Int /\ y \in Int  OBVIOUS
    <3>2. x < y => Rank(S, x) < Rank(S, y)  BY <3>1, RankGrows
    <3>3. y < x => Rank(S, y) < Rank(S, x)  BY <3>1, RankGrows
    <3> QED  BY <2>1, <3>2, <3>3
  <2> QED  BY <2>2
<1>3. rank \in Injection(S, 0 .. n - 1)
  <2>1. rank \in [S -> 0 .. n - 1]  BY <1>1
  <2> QED  BY <1>2, <2>1 DEF Injection, IsInjective
<1>4. IsFiniteSet(0 .. n - 1) /\ Cardinality(0 .. n - 1) = n
  <2>1. 0 \in Int /\ n - 1 \in Int  OBVIOUS
  <2>2. Cardinality(0 .. n - 1) = IF 0 > n - 1 THEN 0 ELSE n - 1 - 0 + 1  BY <2>1, FS_Interval
  <2>3. (IF 0 > n - 1 THEN 0 ELSE n - 1 - 0 + 1) = n  OBVIOUS
  <2> QED  BY <2>1, <2>2, <2>3, FS_Interval
<1>5. rank \in Surjection(S, 0 .. n - 1)  BY <1>3, <1>4, FS_Injection
<1>6. \A k \in 0 .. n - 1 : \E x \in S : rank[x] = k  BY <1>5 DEF Surjection
<1> QED  BY <1>6

\* Cutting at those that fewer than m are before cuts at the first m.
AreFirst(T, P, m) ==
    /\ IsFiniteSet(T) /\ Cardinality(T) \in 0 .. m
    /\ \A j \in P \ T : Cardinality(T) = m /\ \A i \in T : i < j

LEMMA FirstOnes ==
    ASSUME NEW P \in SUBSET Int, IsFiniteSet(P), NEW m \in Nat,
           NEW T, T = {i \in P : Rank(P, i) < m}
    PROVE  AreFirst(T, P, m)
<1>1. T \in SUBSET P /\ IsFiniteSet(T) /\ Cardinality(T) \in Nat
  BY FS_Subset, FS_CardinalityType
<1>2. ASSUME NEW i \in T PROVE Rank(T, i) = Rank(P, i)
  <2>1. ASSUME NEW j \in P, j < i PROVE j \in T
    <3>1. Rank(P, j) < Rank(P, i) /\ Rank(P, i) \in Nat /\ Rank(P, j) \in Nat
      BY <1>1, <2>1, RankGrows
    <3> QED  BY <1>2, <3>1
  <2>2. {j \in T : j < i} = {j \in P : j < i}  BY <1>1, <2>1
  <2> QED  BY <2>2 DEF Rank
<1>3. PICK n \in Nat : n = Cardinality(T)  BY <1>1
<1>4. n <= m
  <2> SUFFICES ASSUME n > m PROVE FALSE  OBVIOUS
  <2>1. m \in 0 .. n - 1  OBVIOUS
  <2>2. PICK x \in T : Rank(T, x) = m  BY <1>1, <1>3, <2>1, RankReached
  <2> QED  BY <1>2, <2>2
<1>5. ASSUME NEW j \in P \ T PROVE n = m /\ \A i \in T : i < j
  <2>1. Rank(P, j) >= m /\ Rank(P, j) \in Nat /\ Rank(P, j) < Cardinality(P) /\ Cardinality(P) \in Nat
    <3>1. Rank(P, j) \in Nat /\ Rank(P, j) < Cardinality(P) /\ Cardinality(P) \in Nat
      BY RankGrows, FS_CardinalityType
    <3> QED  BY <1>5, <3>1
  <2>2. n = m
    <3> SUFFICES ASSUME n < m PROVE FALSE  BY <1>4
    <3>1. PICK p \in Nat : p = Cardinality(P)  BY <2>1
    <3>2. n \in 0 .. p - 1  BY <2>1, <3>1
    <3>3. PICK x \in P : Rank(P, x) = n  BY <3>1, <3>2, RankReached
    <3>4. x \in T  BY <3>3
    <3>5. Rank(T, x) < n /\ Rank(T, x) = n
      <4>1. T \in SUBSET Int /\ x \in Int  BY <1>1
      <4> QED  BY <1>1, <1>2, <1>3, <3>3, <3>4, <4>1, RankGrows
    <3> QED  BY <3>5
  <2>3. ASSUME NEW i \in T PROVE i < j
    <3>1. Rank(P, i) < m /\ Rank(P, i) \in Nat /\ i \in Int /\ j \in Int  BY <1>1, RankGrows
    <3>2. j <= i => Rank(P, j) <= Rank(P, i)  BY <1>1, <3>1, RankGrows
    <3> QED  BY <2>1, <3>1, <3>2
  <2> QED  BY <2>2, <2>3
<1> QED  BY <1>1, <1>3, <1>4, <1>5 DEF AreFirst

\* The ends of words: cut[k] is the k-th member of T, the last one is behind
\* all of them, and nothing of T lies between two.
CutsAt(T, n, end, cut) ==
    /\ cut \in [0 .. n -> 0 .. end] /\ cut[0] = 0 /\ cut[n] = end
    /\ \A j, k \in 0 .. n : j < k => cut[j] < cut[k]
    /\ \A k \in 1 .. n : k < n => cut[k] \in T
    /\ \A t \in T : \E k \in 1 .. n - 1 : t = cut[k]
    /\ \A k \in 1 .. n, t \in T : t <= cut[k - 1] \/ cut[k] <= t

LEMMA CutsExist ==
    ASSUME NEW end \in Nat \ {0}, NEW T \in SUBSET (1 .. end - 1), IsFiniteSet(T),
           NEW m \in Nat, m = Cardinality(T)
    PROVE  \E cut : CutsAt(T, m + 1, end, cut)
<1>0. T \in SUBSET Int  OBVIOUS
<1>1. \A k \in 0 .. m - 1 : \E x \in T : Rank(T, x) = k  BY <1>0, RankReached
<1> DEFINE Nth(k) == CHOOSE x \in T : Rank(T, x) = k - 1
           cut == [k \in 0 .. m + 1 |-> IF k = 0 THEN 0 ELSE IF k = m + 1 THEN end ELSE Nth(k)]
<1>2. ASSUME NEW k \in 1 .. m PROVE Nth(k) \in T /\ Rank(T, Nth(k)) = k - 1
  <2>1. k - 1 \in 0 .. m - 1  OBVIOUS
  <2>2. \E x \in T : Rank(T, x) = k - 1  BY <1>1, <2>1
  <2> QED  BY <2>2
<1> HIDE DEF Nth
<1>3. cut \in [0 .. m + 1 -> 0 .. end] /\ cut[0] = 0 /\ cut[m + 1] = end
  <2>1. ASSUME NEW k \in 0 .. m + 1
        PROVE  (IF k = 0 THEN 0 ELSE IF k = m + 1 THEN end ELSE Nth(k)) \in 0 .. end
    <3>1. CASE k = 0  BY <3>1
    <3>2. CASE k = m + 1  BY <3>2
    <3>3. CASE k \in 1 .. m
      <4>1. Nth(k) \in 1 .. end - 1  BY <1>2, <3>3
      <4> QED  BY <3>3, <4>1
    <3> QED  BY <3>1, <3>2, <3>3
  <2> QED  BY <2>1
<1>4. ASSUME NEW k \in 1 .. m PROVE cut[k] \in T /\ Rank(T, cut[k]) = k - 1 /\ cut[k] \in 1 .. end - 1
  <2>1. cut[k] = Nth(k)  OBVIOUS
  <2> QED  BY <1>2, <2>1
<1> HIDE DEF cut
<1>5. ASSUME NEW k \in 1 .. m, NEW t \in T
      PROVE  /\ Rank(T, t) \in 0 .. m - 1
             /\ t < cut[k] => Rank(T, t) < k - 1
             /\ cut[k] < t => k - 1 < Rank(T, t)
  <2>1. cut[k] \in T /\ cut[k] \in Int /\ t \in Int /\ Rank(T, cut[k]) = k - 1  BY <1>4
  <2>2. t < cut[k] => Rank(T, t) < k - 1  BY <1>0, <2>1, RankGrows
  <2>3. cut[k] < t => k - 1 < Rank(T, t)  BY <1>0, <2>1, RankGrows
  <2>4. Rank(T, t) \in Nat /\ Rank(T, t) < m  BY <1>0, <2>1, RankGrows
  <2> QED  BY <2>2, <2>3, <2>4
<1>6. ASSUME NEW j \in 0 .. m + 1, NEW k \in 0 .. m + 1, j < k PROVE cut[j] < cut[k]
  <2>1. j = 0 \/ j \in 1 .. m  BY <1>6
  <2>2. k = m + 1 \/ k \in 1 .. m  BY <1>6
  <2>3. CASE j = 0 /\ k = m + 1  BY <1>3, <2>3
  <2>4. CASE j = 0 /\ k \in 1 .. m
    <3>1. cut[k] \in 1 .. end - 1  BY <1>4, <2>4
    <3> QED  BY <1>3, <2>4, <3>1
  <2>5. CASE j \in 1 .. m /\ k = m + 1
    <3>1. cut[j] \in 1 .. end - 1  BY <1>4, <2>5
    <3> QED  BY <1>3, <2>5, <3>1
  <2>6. CASE j \in 1 .. m /\ k \in 1 .. m
    <3>1. cut[j] \in T /\ Rank(T, cut[j]) = j - 1 /\ cut[j] \in Int  BY <1>4, <2>6
    <3>2. cut[k] \in T /\ Rank(T, cut[k]) = k - 1 /\ cut[k] \in Int  BY <1>4, <2>6
    <3>3. cut[k] < cut[j] => Rank(T, cut[k]) < j - 1  BY <1>5, <2>6, <3>2
    <3>4. cut[k] # cut[j]  BY <1>6, <3>1, <3>2
    <3> QED  BY <1>6, <3>1, <3>2, <3>3, <3>4
  <2> QED  BY <2>1, <2>2, <2>3, <2>4, <2>5, <2>6
<1>7. ASSUME NEW k \in 1 .. m + 1
      PROVE  (k < m + 1 => cut[k] \in T) /\ \A t \in T : t <= cut[k - 1] \/ cut[k] <= t
  <2>1. k < m + 1 => k \in 1 .. m  OBVIOUS
  <2>4. k # 1 => k - 1 \in 1 .. m  OBVIOUS
  <2>6. ASSUME NEW t \in T, cut[k - 1] < t, t < cut[k] PROVE FALSE
    <3>1. Rank(T, t) \in 0 .. m - 1
      <4>1. m # 0  BY <2>6, FS_EmptySet
      <4>2. 1 \in 1 .. m  BY <4>1
      <4> QED  BY <1>5, <4>2
    <3>2. k < m + 1 => Rank(T, t) < k - 1  BY <1>5, <2>1, <2>6
    <3>3. k # 1 => k - 2 < Rank(T, t)
      <4> SUFFICES ASSUME k # 1 PROVE k - 2 < Rank(T, t)  OBVIOUS
      <4>1. PICK j \in 1 .. m : j = k - 1  BY <2>4
      <4>2. j - 1 < Rank(T, t)  BY <1>5, <2>6, <4>1
      <4> QED  BY <4>1, <4>2
    <3> QED  BY <3>1, <3>2, <3>3
  <2>7. \A t \in T : t <= cut[k - 1] \/ cut[k] <= t
    <3> SUFFICES ASSUME NEW t \in T PROVE t <= cut[k - 1] \/ cut[k] <= t  OBVIOUS
    <3>1. t \in Int /\ cut[k - 1] \in Int /\ cut[k] \in Int  BY <1>3
    <3> QED  BY <2>6, <3>1
  <2>8. k < m + 1 => cut[k] \in T  BY <1>4, <2>1
  <2> QED  BY <2>7, <2>8
<1>8. ASSUME NEW t \in T PROVE \E k \in 1 .. (m + 1) - 1 : t = cut[k]
  <2>0. 1 \in 1 .. m
    <3>1. m # 0  BY FS_EmptySet
    <3> QED  BY <3>1
  <2>1. Rank(T, t) \in 0 .. m - 1  BY <1>5, <2>0
  <2>2. PICK k \in 1 .. m : k = Rank(T, t) + 1  BY <2>1
  <2>3. ~(t < cut[k]) /\ ~(cut[k] < t)  BY <1>5, <2>1, <2>2
  <2>4. t \in Int /\ cut[k] \in Int  BY <1>4
  <2> QED  BY <2>3, <2>4
<1>9. CutsAt(T, m + 1, end, cut)  BY <1>3, <1>6, <1>7, <1>8 DEF CutsAt
<1> QED  BY <1>9

\* How the starts of words are numbered, counting those before each.
StartsBefore(cut, n, k) == {t \in {cut[j - 1] + 1 : j \in 1 .. n} : t < cut[k - 1] + 1}

LEMMA StartsNumbered ==
    ASSUME NEW end \in Nat, NEW T \in SUBSET Int, NEW n \in Nat \ {0}, NEW cut,
           CutsAt(T, n, end, cut), NEW k \in 1 .. n
    PROVE  Cardinality(StartsBefore(cut, n, k)) = k - 1
<1>1. /\ \A i \in 0 .. n : cut[i] \in Int
      /\ \A i, j \in 0 .. n : i < j => cut[i] < cut[j]
  BY DEF CutsAt
<1> DEFINE Early == {t \in {cut[j - 1] + 1 : j \in 1 .. n} : t < cut[k - 1] + 1}
           start == [j \in 1 .. k - 1 |-> cut[j - 1] + 1]
<1>2. ASSUME NEW i \in 1 .. n, NEW j \in 1 .. n
      PROVE  (i < j <=> cut[i - 1] + 1 < cut[j - 1] + 1) /\ (i = j <=> cut[i - 1] + 1 = cut[j - 1] + 1)
  <2>1. PICK a \in 0 .. n, b \in 0 .. n : a = i - 1 /\ b = j - 1  OBVIOUS
  <2>2. cut[a] \in Int /\ cut[b] \in Int /\ (a < b => cut[a] < cut[b]) /\ (b < a => cut[b] < cut[a])
    BY <1>1
  <2> QED  BY <2>1, <2>2
<1>3. start \in [1 .. k - 1 -> Early]
  <2> SUFFICES ASSUME NEW j \in 1 .. k - 1 PROVE cut[j - 1] + 1 \in Early  OBVIOUS
  <2>1. j \in 1 .. n /\ j < k  OBVIOUS
  <2> QED  BY <1>2, <2>1
<1>4. \A i, j \in 1 .. k - 1 : start[i] = start[j] => i = j
  <2> SUFFICES ASSUME NEW i \in 1 .. k - 1, NEW j \in 1 .. k - 1, start[i] = start[j] PROVE i = j
    OBVIOUS
  <2>1. i \in 1 .. n /\ j \in 1 .. n  OBVIOUS
  <2> QED  BY <1>2, <2>1
<1>5. \A t \in Early : \E j \in 1 .. k - 1 : start[j] = t
  <2> SUFFICES ASSUME NEW t \in Early PROVE \E j \in 1 .. k - 1 : start[j] = t  OBVIOUS
  <2>1. PICK j \in 1 .. n : t = cut[j - 1] + 1 /\ t < cut[k - 1] + 1  OBVIOUS
  <2>2. j \in 1 .. k - 1  BY <1>2, <2>1
  <2> QED  BY <2>1, <2>2
<1>6. start \in Bijection(1 .. k - 1, Early)
  <2>1. start \in Injection(1 .. k - 1, Early)  BY <1>3, <1>4 DEF Injection, IsInjective
  <2>2. start \in Surjection(1 .. k - 1, Early)  BY <1>3, <1>5 DEF Surjection
  <2> QED  BY <2>1, <2>2 DEF Bijection
<1>7. IsFiniteSet(1 .. k - 1) /\ Cardinality(1 .. k - 1) = k - 1
  <2>1. 1 \in Int /\ k - 1 \in Int  OBVIOUS
  <2>2. Cardinality(1 .. k - 1) = IF 1 > k - 1 THEN 0 ELSE k - 1 - 1 + 1  BY <2>1, FS_Interval
  <2>3. (IF 1 > k - 1 THEN 0 ELSE k - 1 - 1 + 1) = k - 1  OBVIOUS
  <2> QED  BY <2>1, <2>2, <2>3, FS_Interval
<1>8. ExistsBijection(1 .. k - 1, Early)  BY <1>6 DEF ExistsBijection
<1> HIDE DEF Early
<1>9. Cardinality(Early) = k - 1  BY <1>7, <1>8, FS_Bijection
<1> QED  BY <1>9 DEF Early, StartsBefore

\* The same in terms of the model's Cardinality.
LEMMA SameCardinality == ASSUME NEW S PROVE Shell!Cardinality(S) = Cardinality(S)
  BY Zenon DEF Shell!Cardinality, Cardinality

LEMMA SplitsAre ==
    ASSUME NEW l
    PROVE  Shell!Splits(l) = {i \in Shell!Spaces(l) : Rank(Shell!Spaces(l), i) < CMD_LENGTH - 1}
  BY SameCardinality DEF Shell!Splits, Rank

\* The pieces a line is cut into.
Pieces(l, n, cut, words) ==
    \A k \in 1 .. CMD_LENGTH :
        words[k] = IF k <= n THEN SubSeq(l, cut[k - 1] + 1, cut[k] - 1)
                   ELSE SubSeq(l, cut[0] + 1, cut[1] - 1)

LEMMA CommandsAre ==
    ASSUME NEW l \in Seq(Shell!Char), NEW n \in Nat \ {0}, NEW cut,
           Shell!Splits(l) \in SUBSET Int,
           CutsAt(Shell!Splits(l), n, Len(l) + 1, cut),
           CMD_LENGTH \in Nat \ {0}
    PROVE  /\ Pieces(l, n, cut, Shell!Commands(l))
           /\ Shell!Commands(l) = [k \in 1 .. CMD_LENGTH |-> Shell!Commands(l)[k]]
<1>1. PICK T \in SUBSET Int, end \in Nat : T = Shell!Splits(l) /\ end = Len(l) + 1  OBVIOUS
<1>2. /\ \A i \in 0 .. n : cut[i] \in Int
      /\ \A i, j \in 0 .. n : i < j => cut[i] < cut[j]
      /\ \A k \in 1 .. n : k < n => cut[k] \in T
      /\ \A t \in T : \E k \in 1 .. n - 1 : t = cut[k]
      /\ cut[0] = 0 /\ cut[n] = end /\ CutsAt(T, n, end, cut)
  BY <1>1 DEF CutsAt
<1> DEFINE Starts == {1} \cup {i + 1 : i \in Shell!Splits(l)}
           Ends == Shell!Splits(l) \cup {Len(l) + 1}
           Nth(k) == {s \in Starts : Shell!Cardinality({t \in Starts : t < s}) = k - 1}
           WordAt(s) == SubSeq(l, s, (CHOOSE e \in Ends : e >= s /\ \A d \in Ends : d >= s => e <= d) - 1)
<1>s. Starts = {1} \cup {i + 1 : i \in T} /\ Ends = T \cup {end}  BY <1>1
<1> HIDE DEF Starts, Ends
<1>3. Starts = {cut[j - 1] + 1 : j \in 1 .. n}
  <2>1. ASSUME NEW s \in Starts PROVE \E j \in 1 .. n : s = cut[j - 1] + 1
    <3>1. CASE s = 1
      <4>1. 1 \in 1 .. n /\ s = cut[1 - 1] + 1  BY <1>2, <3>1
      <4> QED  BY <4>1
    <3>2. CASE s # 1
      <4>1. PICK t \in T : s = t + 1  BY <1>s, <3>2
      <4>2. PICK k \in 1 .. n - 1 : t = cut[k]  BY <1>2
      <4>3. PICK j \in 1 .. n : j = k + 1 /\ j - 1 = k  OBVIOUS
      <4> QED  BY <4>1, <4>2, <4>3
    <3> QED  BY <3>1, <3>2
  <2>2. ASSUME NEW j \in 1 .. n PROVE cut[j - 1] + 1 \in Starts
    <3>1. CASE j = 1  BY <1>2, <1>s, <3>1
    <3>2. CASE j # 1
      <4>1. PICK k \in 1 .. n : k = j - 1 /\ k < n  BY <3>2
      <4>2. cut[k] \in T  BY <1>2, <4>1
      <4> QED  BY <1>s, <4>1, <4>2
    <3> QED  BY <3>1, <3>2
  <2> QED  BY <2>1, <2>2
<1>4. ASSUME NEW j \in 1 .. n
      PROVE  Shell!Cardinality({t \in Starts : t < cut[j - 1] + 1}) = j - 1
  <2> HIDE DEF Starts
  <2>1. Cardinality(StartsBefore(cut, n, j)) = j - 1  BY <1>2, StartsNumbered
  <2>2. {t \in Starts : t < cut[j - 1] + 1} = StartsBefore(cut, n, j)  BY <1>3 DEF StartsBefore
  <2> QED  BY <2>1, <2>2, SameCardinality
<1>5. ASSUME NEW s PROVE s \in Ends <=> \E k \in 1 .. n : s = cut[k]
  <2>1. ASSUME s \in Ends PROVE \E k \in 1 .. n : s = cut[k]
    <3>1. CASE s = end  BY <1>2, <3>1
    <3>2. CASE s \in T
      <4>1. PICK k \in 1 .. n - 1 : s = cut[k]  BY <1>2, <3>2
      <4>2. k \in 1 .. n  OBVIOUS
      <4> QED  BY <4>1, <4>2
    <3> QED  BY <1>s, <2>1, <3>1, <3>2
  <2>2. ASSUME NEW k \in 1 .. n PROVE cut[k] \in Ends
    <3>1. k = n \/ k < n  OBVIOUS
    <3> QED  BY <1>2, <1>s, <3>1
  <2> QED  BY <2>1, <2>2
<1>6. ASSUME NEW k \in 1 .. n PROVE WordAt(cut[k - 1] + 1) = SubSeq(l, cut[k - 1] + 1, cut[k] - 1)
  <2>0. PICK a \in 0 .. n : a = k - 1  OBVIOUS
  <2>1. PICK s \in Int : a = k - 1 /\ s = cut[a] + 1 /\ cut[a] \in Int  BY <1>2, <2>0
  <2>2. cut[k] \in Ends /\ cut[k] >= s
    <3>1. cut[k] \in Ends  BY <1>5
    <3>2. cut[a] < cut[k] /\ cut[k] \in Int  BY <1>2, <2>1
    <3> QED  BY <2>1, <3>1, <3>2
  <2>3. ASSUME NEW d \in Ends, d >= s PROVE cut[k] <= d
    <3>1. PICK j \in 1 .. n : d = cut[j]  BY <1>5
    <3>2. d \in Int /\ cut[k] \in Int  BY <1>2, <3>1
    <3>3. j >= k
      <4> SUFFICES ASSUME j < k PROVE FALSE  OBVIOUS
      <4>1. j = a \/ j < a  BY <2>1
      <4>2. cut[j] <= cut[a]
        <5>1. j \in 0 .. n  OBVIOUS
        <5> QED  BY <1>2, <2>1, <4>1, <5>1
      <4> QED  BY <2>1, <2>3, <3>1, <3>2, <4>2
    <3>4. j = k \/ k < j  BY <3>3
    <3>5. j \in 0 .. n /\ k \in 0 .. n  OBVIOUS
    <3> QED  BY <1>2, <3>1, <3>2, <3>4, <3>5
  <2>4. ASSUME NEW e \in Ends, e >= s, \A d \in Ends : d >= s => e <= d PROVE e = cut[k]
    <3>1. e <= cut[k] /\ cut[k] <= e  BY <2>2, <2>3, <2>4
    <3>2. e \in Int /\ cut[k] \in Int  BY <1>2, <1>5
    <3> QED  BY <3>1, <3>2
  <2>5. (CHOOSE e \in Ends : e >= s /\ \A d \in Ends : d >= s => e <= d) = cut[k]
    BY <2>2, <2>3, <2>4
  <2> QED  BY <2>1, <2>5
<1>7. ASSUME NEW k \in 1 .. n PROVE Nth(k) = {cut[k - 1] + 1}
  <2>1. cut[k - 1] + 1 \in Nth(k)  BY <1>3, <1>4
  <2>2. ASSUME NEW s \in Nth(k) PROVE s = cut[k - 1] + 1
    <3>1. PICK j \in 1 .. n : s = cut[j - 1] + 1  BY <1>3
    <3>2. j - 1 = k - 1  BY <1>4, <3>1
    <3>3. j = k  BY <3>2
    <3> QED  BY <3>1, <3>3
  <2> HIDE DEF Nth
  <2> QED  BY <2>1, <2>2
<1>8. ASSUME NEW k \in 1 .. CMD_LENGTH, k > n PROVE Nth(k) = {}
  <2> SUFFICES ASSUME NEW s \in Nth(k) PROVE FALSE
    <3> HIDE DEF Nth
    <3> QED  OBVIOUS
  <2>1. PICK j \in 1 .. n : s = cut[j - 1] + 1  BY <1>3
  <2>2. j - 1 = k - 1  BY <1>4, <2>1
  <2> QED  BY <1>8, <2>2
<1>9. Shell!Commands(l) = [k \in 1 .. CMD_LENGTH |->
            WordAt(IF Nth(k) = {} THEN 1 ELSE CHOOSE s \in Nth(k) : TRUE)]
  BY Zenon DEF Shell!Commands, Starts, Ends
<1> HIDE DEF Nth, WordAt
<1>10. ASSUME NEW k \in 1 .. CMD_LENGTH
       PROVE  Shell!Commands(l)[k] = IF k <= n THEN SubSeq(l, cut[k - 1] + 1, cut[k] - 1)
                                     ELSE SubSeq(l, cut[0] + 1, cut[1] - 1)
  <2>1. Shell!Commands(l)[k] = WordAt(IF Nth(k) = {} THEN 1 ELSE CHOOSE s \in Nth(k) : TRUE)
    BY <1>9
  <2>2. CASE k <= n
    <3>1. k \in 1 .. n /\ Nth(k) = {cut[k - 1] + 1}  BY <1>7, <2>2
    <3>2. (IF Nth(k) = {} THEN 1 ELSE CHOOSE s \in Nth(k) : TRUE) = cut[k - 1] + 1  BY <3>1
    <3> QED  BY <1>6, <2>1, <2>2, <3>1, <3>2
  <2>3. CASE ~(k <= n)
    <3>1. Nth(k) = {}  BY <1>8, <2>3
    <3>2. WordAt(cut[1 - 1] + 1) = SubSeq(l, cut[1 - 1] + 1, cut[1] - 1)
      <4>1. 1 \in 1 .. n  OBVIOUS
      <4> QED  BY <1>6, <4>1
    <3>3. cut[1 - 1] + 1 = 1 /\ 1 - 1 = 0  BY <1>2
    <3> QED  BY <2>1, <2>3, <3>1, <3>2, <3>3
  <2> QED  BY <2>2, <2>3
<1>11. Shell!Commands(l) = [k \in 1 .. CMD_LENGTH |-> Shell!Commands(l)[k]]  BY <1>9
<1> QED  BY <1>10, <1>11 DEF Pieces

LEMMA ShellSizes ==
    /\ BUFF_LEN \in Nat /\ BUFF_LEN > 1 /\ IndexMax \in Nat /\ IndexMax >= BUFF_LEN
    /\ ConsoleFifoLen \in Nat \ {0} /\ FullThreshold \in 1 .. ConsoleFifoLen
    /\ CMD_LENGTH \in Nat \ {0} /\ MaxTyped \in Nat
    /\ Letters \cap {Shell!Backspace, Shell!Return, Shell!Newline, Shell!Space, Shell!Zero} = {}
  BY ShellAssumption DEF Shell!ConsoleAssumption

\* What ProcessCommand makes of a line is its words.
LEMMA CommandsFit ==
    ASSUME NEW l \in Seq(Shell!Char)
    PROVE  /\ Shell!Commands(l) \in Seq(Seq(Shell!Char)) /\ Len(Shell!Commands(l)) = CMD_LENGTH
           /\ Shell!AreWordsOf(Shell!Commands(l), l)
<1>1. PICK len \in Nat : len = Len(l) /\ DOMAIN l = 1 .. len  OBVIOUS
<1>2. PICK most \in Nat : most = CMD_LENGTH - 1 /\ CMD_LENGTH = most + 1  BY ShellSizes
<1>3. PICK P \in SUBSET (1 .. len) : P = Shell!Spaces(l)  BY <1>1 DEF Shell!Spaces
<1>4. PICK T \in SUBSET P : T = Shell!Splits(l) /\ T = {i \in P : Rank(P, i) < most}
  BY <1>2, <1>3, SplitsAre
<1>5. P \in SUBSET Int /\ IsFiniteSet(P)
  <2>1. IsFiniteSet(1 .. len)
    <3>1. 1 \in Int /\ len \in Int  OBVIOUS
    <3> QED  BY <3>1, FS_Interval
  <2>2. P \in SUBSET Int  BY <1>3
  <2> QED  BY <1>3, <2>1, <2>2, FS_Subset
<1>6. /\ IsFiniteSet(T) /\ Cardinality(T) \in 0 .. most
      /\ \A j \in P \ T : Cardinality(T) = most /\ \A i \in T : i < j
  <2>1. T = {i \in P : Rank(P, i) < most}  BY <1>4
  <2>2. AreFirst(T, P, most)  BY <1>5, <2>1, FirstOnes
  <2> QED  BY <2>2 DEF AreFirst
<1>7. PICK m \in 0 .. most, end \in Nat \ {0} : m = Cardinality(T) /\ end = len + 1  BY <1>6
<1>8. T \in SUBSET (1 .. end - 1)
  <2>1. end - 1 = len  BY <1>7
  <2> QED  BY <1>3, <1>4, <2>1
<1>9. PICK cut : CutsAt(T, m + 1, end, cut)  BY <1>6, <1>7, <1>8, CutsExist
<1>10. PICK n \in 1 .. CMD_LENGTH : n = m + 1 /\ n \in Nat \ {0}  BY <1>2
<1>11. /\ cut \in [0 .. n -> 0 .. end] /\ cut[0] = 0 /\ cut[n] = end
       /\ \A j, k \in 0 .. n : j < k => cut[j] < cut[k]
       /\ \A k \in 1 .. n : k < n => cut[k] \in T
       /\ \A k \in 1 .. n, t \in T : t <= cut[k - 1] \/ cut[k] <= t
  BY <1>9, <1>10 DEF CutsAt
<1>12. /\ Pieces(l, n, cut, Shell!Commands(l))
       /\ Shell!Commands(l) = [k \in 1 .. CMD_LENGTH |-> Shell!Commands(l)[k]]
  <2>1. Shell!Splits(l) \in SUBSET Int /\ CutsAt(Shell!Splits(l), n, Len(l) + 1, cut)
    BY <1>1, <1>4, <1>5, <1>7, <1>9, <1>10
  <2> QED  BY <1>10, <2>1, CommandsAre, ShellSizes
<1>13. PICK words : words = Shell!Commands(l)  OBVIOUS
<1>14. ASSUME NEW k \in 1 .. n
       PROVE  /\ k - 1 \in 0 .. n /\ k \in 0 .. n /\ cut[k - 1] \in 0 .. end /\ cut[k] \in 0 .. end
              /\ cut[k - 1] < cut[k] /\ (k < n => l[cut[k]] = Shell!Space)
  <2>1. k - 1 \in 0 .. n /\ k \in 0 .. n /\ k - 1 < k  OBVIOUS
  <2>2. cut[k - 1] < cut[k] /\ cut[k - 1] \in 0 .. end /\ cut[k] \in 0 .. end  BY <1>11, <2>1
  <2>3. k < n => l[cut[k]] = Shell!Space  BY <1>3, <1>4, <1>11 DEF Shell!Spaces
  <2> QED  BY <2>1, <2>2, <2>3
<1>15. ASSUME NEW k \in 1 .. n, k < CMD_LENGTH, NEW i \in cut[k - 1] + 1 .. cut[k] - 1
       PROVE  l[i] # Shell!Space
  <2> SUFFICES ASSUME l[i] = Shell!Space PROVE FALSE  OBVIOUS
  <2>1. i \in 1 .. len /\ i \in Int /\ cut[k - 1] < i /\ i < cut[k]
    <3>1. PICK a \in 0 .. end, b \in 0 .. end : a = cut[k - 1] /\ b = cut[k]  BY <1>14
    <3>2. i \in a + 1 .. b - 1  BY <3>1
    <3>3. i \in Int /\ a < i /\ i < b /\ i \in 1 .. len  BY <1>7, <3>2
    <3> QED  BY <3>1, <3>3
  <2>2. i \in P  BY <1>1, <1>3, <2>1 DEF Shell!Spaces
  <2>3. i \notin T
    <3> SUFFICES ASSUME i \in T PROVE FALSE  OBVIOUS
    <3>1. i <= cut[k - 1] \/ cut[k] <= i  BY <1>11
    <3>2. cut[k - 1] \in Int /\ cut[k] \in Int  BY <1>14
    <3> QED  BY <2>1, <3>1, <3>2
  <2>4. m = most /\ \A t \in T : t < i  BY <1>6, <1>7, <2>2, <2>3
  <2>5. n = CMD_LENGTH  BY <1>2, <1>10, <2>4
  <2>6. cut[k] \in T  BY <1>11, <1>15, <2>5
  <2>7. cut[k] < i /\ cut[k] \in Int  BY <1>14, <2>4, <2>6
  <2> QED  BY <2>1, <2>7
<1>16. ASSUME NEW k \in 1 .. n
       PROVE  /\ words[k] = SubSeq(l, cut[k - 1] + 1, cut[k] - 1)
              /\ SubSeq(l, cut[k - 1] + 1, cut[k] - 1) \in Seq(Shell!Char)
  <2>1. k \in 1 .. CMD_LENGTH /\ k <= n  BY <1>2
  <2>2. words[k] = SubSeq(l, cut[k - 1] + 1, cut[k] - 1)  BY <1>12, <1>13, <2>1 DEF Pieces
  <2>3. PICK a \in 1 .. end, b \in 0 .. len : a = cut[k - 1] + 1 /\ b = cut[k] - 1
    <3>1. cut[k - 1] + 1 \in 1 .. end /\ cut[k] - 1 \in 0 .. len
      <4>1. PICK c \in 0 .. end, d \in 0 .. end : c = cut[k - 1] /\ d = cut[k] /\ c < d  BY <1>14
      <4>2. c \in Int /\ d \in Int /\ 0 <= c /\ c < d /\ d <= end  BY <4>1
      <4>3. c + 1 \in 1 .. end  BY <4>2
      <4>4. end = len + 1  BY <1>7
      <4>5. d - 1 \in 0 .. len  BY <4>2, <4>4
      <4> QED  BY <4>1, <4>3, <4>5
    <3> QED  BY <3>1
  <2>4. \A i \in a .. b : l[i] \in Shell!Char
    <3> SUFFICES ASSUME NEW i \in a .. b PROVE l[i] \in Shell!Char  OBVIOUS
    <3>1. i \in 1 .. len  OBVIOUS
    <3> QED  BY <1>1, <3>1
  <2>5. SubSeq(l, a, b) \in Seq(Shell!Char)  BY <2>4, SubSeqProperties
  <2> QED  BY <2>2, <2>3, <2>5
<1>17. ASSUME NEW k \in n + 1 .. CMD_LENGTH PROVE words[k] = words[1]
  <2>1. k \in 1 .. CMD_LENGTH /\ ~(k <= n) /\ 1 \in 1 .. CMD_LENGTH /\ 1 <= n  BY <1>2
  <2>2. words[k] = SubSeq(l, cut[0] + 1, cut[1] - 1)  BY <1>12, <1>13, <2>1 DEF Pieces
  <2>3. words[1] = SubSeq(l, cut[1 - 1] + 1, cut[1] - 1)  BY <1>12, <1>13, <2>1 DEF Pieces
  <2> QED  BY <2>2, <2>3
<1>18. words \in Seq(Seq(Shell!Char)) /\ Len(words) = CMD_LENGTH
  <2>1. \A k \in 1 .. CMD_LENGTH : words[k] \in Seq(Shell!Char)
    <3> SUFFICES ASSUME NEW k \in 1 .. CMD_LENGTH PROVE words[k] \in Seq(Shell!Char)  OBVIOUS
    <3>1. k \in 1 .. n \/ k \in n + 1 .. CMD_LENGTH  BY <1>2
    <3>2. 1 \in 1 .. n  OBVIOUS
    <3> QED  BY <1>16, <1>17, <3>1, <3>2
  <2>2. words \in [1 .. CMD_LENGTH -> Seq(Shell!Char)]
    <3>1. words = [k \in 1 .. CMD_LENGTH |-> words[k]]  BY <1>12, <1>13
    <3> QED  BY <2>1, <3>1
  <2> QED  BY <2>2, ShellSizes, SeqDef
<1>19. Shell!AreWordsOf(words, l)
  <2>1. cut \in [0 .. n -> 0 .. Len(l) + 1] /\ cut[0] = 0 /\ cut[n] = Len(l) + 1
    BY <1>1, <1>7, <1>11
  <2>2. \A k \in 1 .. n :
            /\ cut[k - 1] < cut[k]
            /\ k < n => l[cut[k]] = Shell!Space
            /\ k < CMD_LENGTH => \A i \in cut[k - 1] + 1 .. cut[k] - 1 : l[i] # Shell!Space
            /\ words[k] = SubSeq(l, cut[k - 1] + 1, cut[k] - 1)
    BY <1>14, <1>15, <1>16
  <2> QED  BY <1>17, <2>1, <2>2 DEF Shell!AreWordsOf
<1> QED  BY <1>13, <1>18, <1>19

-----------------------------------------------------------------------------
(* The shell. *)

\* The characters that are kept, and the end of a string, are told apart.
Plain == Letters \cup {Shell!Space}

LEMMA Characters ==
    /\ Shell!Char = Plain \cup {Shell!Backspace, Shell!Return, Shell!Newline}
    /\ Shell!Zero \notin Shell!Char
    /\ Shell!Backspace \notin Plain /\ Shell!Return \notin Plain /\ Shell!Newline \notin Plain
    /\ Shell!Backspace # Shell!Return /\ Shell!Backspace # Shell!Newline
    /\ Shell!Return # Shell!Newline
<1>1. Letters \cap {"BS", "CR", "LF", " ", "0"} = {}
  BY ShellSizes DEF Shell!Backspace, Shell!Return, Shell!Newline, Shell!Space, Shell!Zero
<1> QED
  BY <1>1 DEF Plain, Shell!Char, Shell!Backspace, Shell!Return, Shell!Newline, Shell!Space, Shell!Zero

\* The string that starts at 0 and whose end is at n.
LEMMA StringTo ==
    ASSUME NEW buffer \in [Shell!Index -> Shell!Char \cup {Shell!Zero}], NEW n \in Nat, n <= IndexMax,
           buffer[n] = Shell!Zero, NEW l \in Seq(Shell!Char), Len(l) = n,
           \A i \in 1 .. n : buffer[i - 1] = l[i]
    PROVE  Shell!CString(buffer, 0) = l
<1>1. PICK most \in Nat : most = IndexMax /\ n <= most  BY ShellSizes
<1> DEFINE Ends == {j \in 0 .. most : buffer[j] = Shell!Zero}
<1>2. n \in Ends  BY <1>1
<1>3. ASSUME NEW j \in Ends PROVE n <= j
  <2> SUFFICES ASSUME j < n PROVE FALSE  BY <1>3
  <2>1. PICK i \in 1 .. n : i = j + 1 /\ i - 1 = j  BY <1>3
  <2>2. buffer[j] = l[i] /\ l[i] \in Shell!Char  BY <2>1
  <2> QED  BY <2>2, Characters
<1>4. ASSUME NEW e \in Ends, \A k \in Ends : e <= k PROVE e = n
  <2>1. e <= n /\ n <= e /\ e \in Int  BY <1>2, <1>3, <1>4
  <2> QED  BY <2>1
<1>5. (CHOOSE j \in Ends : \A k \in Ends : j <= k) = n  BY <1>2, <1>3, <1>4
<1>6. Shell!CString(buffer, 0) = [i \in 1 .. n - 0 |-> buffer[0 + i - 1]]
  BY <1>1, <1>5 DEF Shell!CString
<1>7. l = [i \in 1 .. n |-> l[i]]  OBVIOUS
<1>8. ASSUME NEW i \in 1 .. n PROVE buffer[0 + i - 1] = l[i]  OBVIOUS
<1>9. n - 0 = n  OBVIOUS
<1> QED  BY <1>6, <1>7, <1>8, <1>9

\* What a character does to a line: the buffer goes with it.
LEMMA ShellTakes ==
    ASSUME Shell!TypeOK, Shell!LineHeld, NEW ch \in Shell!Char,
           ch = Shell!Backspace => Len(line) > 0,
           Shell!shellCircleBuffer(ch)
    PROVE  /\ Shell!LineHeld' /\ Len(line') = Shell!After(Len(line), ch)
           /\ shellBuffer' \in [Shell!Index -> Shell!Char \cup {Shell!Zero}]
           /\ sbi' \in Shell!Index /\ line' \in Seq(Shell!Char)
           /\ \/ UNCHANGED ran
              \/ ran' = [words |-> Shell!Commands(line), line |-> line]
<1>1. PICK n \in Nat, size \in Nat, most \in Nat :
        /\ n = Len(line) /\ size = BUFF_LEN /\ most = IndexMax
        /\ n < size /\ size <= most /\ size > 1 /\ sbi = n
  BY ShellSizes DEF Shell!TypeOK, Shell!LineHeld
<1>2. /\ line \in Seq(Shell!Char) /\ DOMAIN line = 1 .. n
      /\ \A i \in 1 .. n : line[i] \in Plain /\ shellBuffer[i - 1] = line[i]
      /\ shellBuffer \in [Shell!Index -> Shell!Char \cup {Shell!Zero}]
  BY <1>1 DEF Shell!TypeOK, Shell!LineHeld, Plain
<1>3. Shell!Index = -most - 1 .. most  BY <1>1 DEF Shell!Index
<1>4. n \in Shell!Index /\ 0 \in Shell!Index  BY <1>1, <1>3
<1>e. <<>> \in Seq(Shell!Char) /\ Len(<<>>) = 0  OBVIOUS
<1>5. CASE Shell!Overflow
  <2>1. /\ sbi = size - 1 /\ sbi' = 0 /\ line' = <<>> /\ UNCHANGED ran
        /\ shellBuffer' = [shellBuffer EXCEPT ![0] = Shell!Zero]
    BY <1>1, <1>5 DEF Shell!Overflow
  <2>2. Shell!After(Len(line), ch) = 0  BY <1>1, <2>1 DEF Shell!After
  <2>3. Shell!LineHeld'  BY <1>1, <1>e, <2>1 DEF Shell!LineHeld
  <2> QED  BY <1>2, <1>4, <1>e, <2>1, <2>2, <2>3
<1>6. CASE Shell!Erase(ch)
  <2>1. /\ n # size - 1 /\ ch = Shell!Backspace /\ UNCHANGED ran
        /\ sbi' = Shell!Wrapped(n - 1)
        /\ shellBuffer' = [shellBuffer EXCEPT ![sbi'] = Shell!Zero]
        /\ line' = IF line = <<>> THEN <<>> ELSE Shell!Front(line)
    BY <1>1, <1>6 DEF Shell!Erase
  <2>2. n > 0 /\ n - 1 \in Nat  BY <1>1, <2>1
  <2>3. sbi' = n - 1
    <3>1. ~(n - 1 < -IndexMax - 1)  BY <1>1, <2>2
    <3> QED  BY <2>1, <3>1 DEF Shell!Wrapped
  <2>4. /\ line' \in Seq(Shell!Char) /\ Len(line') = n - 1
        /\ \A i \in 1 .. n - 1 : line'[i] = line[i]
    <3>1. line # <<>> /\ line' = Shell!Front(line)  BY <1>1, <1>e, <2>1, <2>2
    <3>2. Shell!Front(line) = SubSeq(line, 1, n - 1)  BY <1>1 DEF Shell!Front
    <3>3. \A i \in 1 .. n - 1 : line[i] \in Shell!Char
      <4> SUFFICES ASSUME NEW i \in 1 .. n - 1 PROVE line[i] \in Shell!Char  OBVIOUS
      <4>1. i \in 1 .. n  OBVIOUS
      <4> QED  BY <1>2, <4>1
    <3>4. /\ SubSeq(line, 1, n - 1) \in Seq(Shell!Char)
          /\ Len(SubSeq(line, 1, n - 1)) = IF 1 <= n - 1 THEN n - 1 - 1 + 1 ELSE 0
          /\ \A i \in 1 .. n - 1 - 1 + 1 : SubSeq(line, 1, n - 1)[i] = line[1 + i - 1]
      <4>1. PICK m \in Nat : m = n - 1  BY <2>2
      <4>2. \A i \in 1 .. m : line[i] \in Shell!Char  BY <3>3, <4>1
      <4> QED  BY <4>1, <4>2, SubSeqProperties
    <3> QED  BY <2>2, <3>1, <3>2, <3>4
  <2>5. Len(line') = Shell!After(Len(line), ch)
    BY <1>1, <2>1, <2>4, Characters DEF Shell!After
  <2>6. n - 1 \in Shell!Index  BY <1>1, <1>3, <2>2
  <2>7. shellBuffer' \in [Shell!Index -> Shell!Char \cup {Shell!Zero}]  BY <1>2, <2>1
  <2>8. Shell!LineHeld'
    <3>1. ASSUME NEW i \in 1 .. n - 1 PROVE line'[i] \in Plain /\ shellBuffer'[i - 1] = line'[i]
      <4>1. i \in 1 .. n /\ i - 1 # n - 1 /\ i - 1 \in Shell!Index  BY <1>1, <1>3
      <4>2. shellBuffer'[i - 1] = shellBuffer[i - 1]  BY <1>2, <2>1, <2>3, <4>1
      <4> QED  BY <1>2, <2>4, <4>1, <4>2
    <3> QED  BY <1>1, <2>3, <2>4, <3>1 DEF Shell!LineHeld, Plain
  <2> QED  BY <2>1, <2>3, <2>4, <2>5, <2>6, <2>7, <2>8
<1>7. CASE Shell!Ignore(ch)
  <2>1. n # size - 1 /\ ch = Shell!Return /\ UNCHANGED <<sbi, shellBuffer, line, ran>>
    BY <1>1, <1>7 DEF Shell!Ignore
  <2>2. Len(line') = Shell!After(Len(line), ch)
    BY <1>1, <2>1, Characters DEF Shell!After
  <2>3. Shell!LineHeld'  BY <2>1 DEF Shell!LineHeld
  <2> QED  BY <1>1, <1>2, <1>4, <2>1, <2>2, <2>3
<1>8. CASE Shell!Run(ch)
  <2> DEFINE ended == [shellBuffer EXCEPT ![sbi] = Shell!Zero]
             str == Shell!CString(ended, 0)
  <2>1. /\ n # size - 1 /\ ch = Shell!Newline /\ sbi' = 0 /\ line' = <<>>
        /\ ran' = [words |-> Shell!Commands(str), line |-> line]
        /\ shellBuffer' = [i \in Shell!Index |-> IF i = 0 \/ i + 1 \in Shell!Splits(str) THEN Shell!Zero
                                                 ELSE ended[i]]
    BY <1>1, <1>8, Zenon DEF Shell!Run
  <2>2. ended \in [Shell!Index -> Shell!Char \cup {Shell!Zero}] /\ ended[n] = Shell!Zero
    BY <1>1, <1>2, <1>4
  <2>3. ASSUME NEW i \in 1 .. n PROVE ended[i - 1] = line[i]
    <3>1. i - 1 # n /\ i - 1 \in Shell!Index  BY <1>1, <1>3
    <3> QED  BY <1>1, <1>2, <3>1
  <2> HIDE DEF ended
  <2>4. str = line
    <3>1. n <= IndexMax  BY <1>1
    <3> QED  BY <1>1, <1>2, <2>2, <2>3, <3>1, StringTo
  <2>5. shellBuffer' \in [Shell!Index -> Shell!Char \cup {Shell!Zero}]
    <3> HIDE DEF str
    <3> QED  BY <2>1, <2>2
  <2>6. Len(line') = Shell!After(Len(line), ch)  BY <1>1, <1>e, <2>1, Characters DEF Shell!After
  <2>7. Shell!LineHeld'  BY <1>1, <1>e, <2>1 DEF Shell!LineHeld
  <2>8. ran' = [words |-> Shell!Commands(line), line |-> line]  BY <2>1, <2>4
  <2> QED  BY <1>4, <1>e, <2>1, <2>5, <2>6, <2>7, <2>8
<1>9. CASE Shell!Store(ch)
  <2>1. /\ n # size - 1 /\ ch \notin {Shell!Backspace, Shell!Return, Shell!Newline} /\ UNCHANGED ran
        /\ shellBuffer' = [shellBuffer EXCEPT ![n] = ch]
        /\ sbi' = n + 1 /\ line' = Append(line, ch)
    BY <1>1, <1>9 DEF Shell!Store
  <2>2. ch \in Plain  BY <2>1, Characters
  <2>3. /\ line' \in Seq(Shell!Char) /\ Len(line') = n + 1
        /\ \A i \in 1 .. n : line'[i] = line[i]
        /\ line'[n + 1] = ch
    BY <1>1, <1>2, <2>1, AppendProperties
  <2>4. Len(line') = Shell!After(Len(line), ch)
    BY <1>1, <2>1, <2>3 DEF Shell!After
  <2>5. n + 1 \in Shell!Index  BY <1>1, <1>3, <2>1
  <2>6. shellBuffer' \in [Shell!Index -> Shell!Char \cup {Shell!Zero}]  BY <1>2, <2>1
  <2>7. Shell!LineHeld'
    <3>1. ASSUME NEW i \in 1 .. n + 1 PROVE line'[i] \in Plain /\ shellBuffer'[i - 1] = line'[i]
      <4>1. CASE i = n + 1
        <5>1. i - 1 = n  BY <4>1
        <5> QED  BY <1>2, <1>4, <2>1, <2>2, <2>3, <4>1, <5>1
      <4>2. CASE i # n + 1
        <5>1. i \in 1 .. n /\ i - 1 # n /\ i - 1 \in Shell!Index  BY <1>1, <1>3, <4>2
        <5>2. shellBuffer'[i - 1] = shellBuffer[i - 1]  BY <1>2, <2>1, <5>1
        <5> QED  BY <1>2, <2>3, <5>1, <5>2
      <4> QED  BY <4>1, <4>2
    <3>2. n + 1 < BUFF_LEN  BY <1>1, <2>1
    <3> QED  BY <2>1, <2>3, <3>1, <3>2 DEF Shell!LineHeld, Plain
  <2> QED  BY <2>1, <2>3, <2>4, <2>5, <2>6, <2>7
<1> QED  BY <1>5, <1>6, <1>7, <1>8, <1>9 DEF Shell!shellCircleBuffer

\* The shell's invariant, what it says of the events under way, and of the
\* command that ran last.
ConsoleHolds == Shell!ConsoleInv /\ Shell!OnePost /\ Shell!CommandAsTyped

LEMMA ConsoleInitially == ASSUME Shell!Init PROVE ConsoleHolds
<1>1. /\ fifo = <<>> /\ enabled = TRUE /\ full = FALSE /\ tout = FALSE /\ posts = 0
      /\ task = "idle" /\ left = 0 /\ shellBuffer = [i \in Shell!Index |-> Shell!Zero] /\ sbi = 0
      /\ line = <<>> /\ ahead = 0 /\ ran = [words |-> <<>>, line |-> <<>>] /\ typed = 0
  BY DEF Shell!Init, Shell!NoCommand
<1>2. <<>> \in Seq(Shell!Char) /\ <<>> \in Seq(Seq(Shell!Char)) /\ Len(<<>>) = 0  OBVIOUS
<1>3. PICK size \in Nat, most \in Nat : size = BUFF_LEN /\ size > 1 /\ most = IndexMax /\ most >= size
  BY ShellSizes
<1>4. 0 \in Shell!Index  BY <1>3 DEF Shell!Index
<1>5. Shell!TypeOK
  <2>1. Len(fifo) <= ConsoleFifoLen /\ left \in 0 .. Len(fifo) /\ ahead \in 0 .. BUFF_LEN - 1
        /\ typed \in 0 .. MaxTyped
    BY <1>1, <1>2, <1>3, ShellSizes
  <2> QED  BY <1>1, <1>2, <1>4, <2>1 DEF Shell!TypeOK
<1>6. Shell!LineHeld  BY <1>1, <1>2, <1>3 DEF Shell!LineHeld
<1>7. Shell!AheadIsDue
  <2> DEFINE course == [i \in 0 .. 0 |-> 0]
  <2>1. course \in [0 .. Len(fifo) -> 0 .. BUFF_LEN - 1]  BY <1>1, <1>2, <1>3
  <2>2. course[0] = Len(line) /\ course[Len(fifo)] = ahead  BY <1>1, <1>2
  <2>3. \A i \in 1 .. Len(fifo) : FALSE  BY <1>1, <1>2
  <2> HIDE DEF course
  <2> QED  BY <2>1, <2>2, <2>3 DEF Shell!AheadIsDue
<1>8. Shell!OnePost  BY <1>1 DEF Shell!OnePost
<1>9. Shell!CommandAsTyped  BY <1>1 DEF Shell!CommandAsTyped, Shell!NoCommand
<1> QED  BY <1>5, <1>6, <1>7, <1>8, <1>9 DEF ConsoleHolds, Shell!ConsoleInv

\* What follows from a line that is not full, or from one that is.
LEMMA AfterIsALine ==
    ASSUME NEW n \in 0 .. BUFF_LEN - 1, NEW ch \in Shell!Char, ch = Shell!Backspace => n > 0
    PROVE  Shell!After(n, ch) \in 0 .. BUFF_LEN - 1
<1>1. PICK size \in Nat : size = BUFF_LEN /\ size > 1 /\ n \in 0 .. size - 1  BY ShellSizes
<1>2. CASE n = size - 1 \/ ch = Shell!Newline
  BY <1>1, <1>2, Characters DEF Shell!After
<1>3. CASE n # size - 1 /\ ch # Shell!Newline
  BY <1>1, <1>3, Characters DEF Shell!After
<1> QED  BY <1>2, <1>3

\* The parts of the invariant as operators of the values they depend on.
Held(b, s, l) ==
    /\ s = Len(l) /\ Len(l) < BUFF_LEN
    /\ \A i \in 1 .. Len(l) : l[i] \in Letters \cup {Shell!Space} /\ b[i - 1] = l[i]
Due(f, l, a) ==
    \E course \in [0 .. Len(f) -> 0 .. BUFF_LEN - 1] :
        /\ course[0] = Len(l) /\ course[Len(f)] = a
        /\ \A i \in 1 .. Len(f) :
            /\ course[i] = Shell!After(course[i - 1], f[i])
            /\ f[i] = Shell!Backspace => course[i - 1] > 0
AsTyped(r) ==
    r # Shell!NoCommand => Len(r.words) = CMD_LENGTH /\ Shell!AreWordsOf(r.words, r.line)

LEMMA Dependencies ==
    /\ Shell!LineHeld <=> Held(shellBuffer, sbi, line)
    /\ Shell!LineHeld' <=> Held(shellBuffer', sbi', line')
    /\ Shell!AheadIsDue <=> Due(fifo, line, ahead)
    /\ Shell!AheadIsDue' <=> Due(fifo', line', ahead')
    /\ Shell!CommandAsTyped <=> AsTyped(ran)
    /\ Shell!CommandAsTyped' <=> AsTyped(ran')
<1>1. /\ Shell!LineHeld <=> Held(shellBuffer, sbi, line)
      /\ Shell!LineHeld' <=> Held(shellBuffer', sbi', line')
  BY Zenon DEF Shell!LineHeld, Held
<1>2. /\ Shell!AheadIsDue <=> Due(fifo, line, ahead)
      /\ Shell!AheadIsDue' <=> Due(fifo', line', ahead')
  BY Zenon DEF Shell!AheadIsDue, Due, Shell!After
<1>3. /\ Shell!CommandAsTyped <=> AsTyped(ran)
      /\ Shell!CommandAsTyped' <=> AsTyped(ran')
  BY Zenon DEF Shell!CommandAsTyped, AsTyped, Shell!AreWordsOf
<1> QED  BY <1>1, <1>2, <1>3

LEMMA TypeKeeps ==
    ASSUME ConsoleHolds, NEW ch \in Shell!Char, Shell!Type(ch) PROVE ConsoleHolds'
<1>1. /\ Shell!TypeOK /\ Shell!LineHeld /\ Shell!AheadIsDue /\ Shell!OnePost /\ Shell!CommandAsTyped
  BY DEF ConsoleHolds, Shell!ConsoleInv
<1>2. /\ typed < MaxTyped /\ typed' = typed + 1 /\ (ch = Shell!Backspace => ahead > 0)
      /\ IF Len(fifo) < ConsoleFifoLen
         THEN fifo' = Append(fifo, ch) /\ ahead' = Shell!After(ahead, ch)
         ELSE UNCHANGED <<fifo, ahead>>
      /\ full' \in BOOLEAN
      /\ UNCHANGED <<enabled, tout, posts, task, left, shellBuffer, sbi, line, ran>>
  BY <1>1 DEF Shell!Type, Shell!TypeOK
<1>3. PICK n \in Nat, size \in Nat, most \in Nat :
        n = Len(fifo) /\ size = ConsoleFifoLen /\ most = BUFF_LEN /\ n <= size
  BY <1>1, ShellSizes DEF Shell!TypeOK
<1>4. /\ fifo \in Seq(Shell!Char) /\ ahead \in 0 .. most - 1 /\ left \in 0 .. n
      /\ typed \in 0 .. MaxTyped /\ MaxTyped \in Nat
  BY <1>1, <1>3, ShellSizes DEF Shell!TypeOK
<1>5. typed' \in 0 .. MaxTyped  BY <1>2, <1>4
<1>6. Shell!LineHeld' /\ Shell!OnePost' /\ Shell!CommandAsTyped'
  <2>0. UNCHANGED <<enabled, posts, task, shellBuffer, sbi, line>> /\ ran' = ran  BY <1>2
  <2>1. Shell!LineHeld'  BY <1>1, <2>0, Dependencies
  <2>2. Shell!OnePost'  BY <1>1, <2>0 DEF Shell!OnePost
  <2>3. Shell!CommandAsTyped'  BY <1>1, <2>0, Dependencies
  <2> QED  BY <2>1, <2>2, <2>3
<1>7. CASE n < size
  <2>1. /\ fifo' = Append(fifo, ch) /\ ahead' = Shell!After(ahead, ch)
        /\ fifo' \in Seq(Shell!Char) /\ Len(fifo') = n + 1
        /\ \A i \in 1 .. n : fifo'[i] = fifo[i]
        /\ fifo'[n + 1] = ch
    BY <1>2, <1>3, <1>4, <1>7, AppendProperties
  <2>2. ahead' \in 0 .. BUFF_LEN - 1  BY <1>2, <1>3, <1>4, <2>1, AfterIsALine
  <2>3. Shell!TypeOK'
    <3>1. Len(fifo') <= ConsoleFifoLen /\ left' \in 0 .. Len(fifo')  BY <1>2, <1>3, <1>4, <1>7, <2>1
    <3>2. /\ enabled' \in BOOLEAN /\ tout' \in BOOLEAN /\ posts' \in Nat /\ task' \in {"idle", "taking"}
          /\ shellBuffer' \in [Shell!Index -> Shell!Char \cup {Shell!Zero}] /\ sbi' \in Shell!Index
          /\ line' \in Seq(Shell!Char)
          /\ ran'.words \in Seq(Seq(Shell!Char)) /\ ran'.line \in Seq(Shell!Char)
      BY <1>1, <1>2 DEF Shell!TypeOK
    <3> QED  BY <1>2, <1>5, <2>1, <2>2, <3>1, <3>2 DEF Shell!TypeOK
  <2>4. PICK course \in [0 .. n -> 0 .. most - 1] :
        /\ course[0] = Len(line) /\ course[n] = ahead
        /\ \A i \in 1 .. n : /\ course[i] = Shell!After(course[i - 1], fifo[i])
                             /\ fifo[i] = Shell!Backspace => course[i - 1] > 0
    BY <1>1, <1>3 DEF Shell!AheadIsDue
  <2> DEFINE longer == [i \in 0 .. n + 1 |-> IF i = n + 1 THEN ahead' ELSE course[i]]
  <2>5. longer \in [0 .. n + 1 -> 0 .. most - 1]
    <3>1. ASSUME NEW i \in 0 .. n + 1
          PROVE  (IF i = n + 1 THEN ahead' ELSE course[i]) \in 0 .. most - 1
      <4>1. i = n + 1 \/ i \in 0 .. n  OBVIOUS
      <4>2. ahead' \in 0 .. most - 1  BY <1>3, <2>2
      <4> QED  BY <2>4, <4>1, <4>2
    <3> QED  BY <3>1
  <2>6. longer[0] = Len(line') /\ longer[n + 1] = ahead' /\ \A i \in 0 .. n : longer[i] = course[i]
    BY <1>2, <2>4
  <2> HIDE DEF longer
  <2>7. ASSUME NEW i \in 1 .. n + 1
        PROVE  /\ longer[i] = Shell!After(longer[i - 1], fifo'[i])
               /\ fifo'[i] = Shell!Backspace => longer[i - 1] > 0
    <3>1. CASE i = n + 1
      <4>1. i - 1 = n /\ longer[i - 1] = ahead  BY <2>4, <2>6, <3>1
      <4> QED  BY <1>2, <2>1, <2>6, <3>1, <4>1
    <3>2. CASE i # n + 1
      <4>1. i \in 1 .. n /\ i - 1 \in 0 .. n /\ i \in 0 .. n  BY <3>2
      <4> QED  BY <2>1, <2>4, <2>6, <4>1
    <3> QED  BY <3>1, <3>2
  <2>8. Shell!AheadIsDue'
    <3>1. \E c \in [0 .. n + 1 -> 0 .. BUFF_LEN - 1] :
            /\ c[0] = Len(line') /\ c[n + 1] = ahead'
            /\ \A i \in 1 .. n + 1 : /\ c[i] = Shell!After(c[i - 1], fifo'[i])
                                     /\ fifo'[i] = Shell!Backspace => c[i - 1] > 0
      BY <1>3, <2>5, <2>6, <2>7
    <3>2. Len(fifo') = n + 1  BY <2>1
    <3> QED  BY <3>1, <3>2 DEF Shell!AheadIsDue, Shell!After
  <2> QED  BY <1>6, <2>3, <2>8 DEF ConsoleHolds, Shell!ConsoleInv
<1>8. CASE ~(n < size)
  <2>1. UNCHANGED <<fifo, ahead>>  BY <1>2, <1>3, <1>8
  <2>2. Shell!TypeOK'  BY <1>1, <1>2, <1>5, <2>1 DEF Shell!TypeOK
  <2>3. Shell!AheadIsDue'  BY <1>1, <1>2, <2>1, Dependencies
  <2> QED  BY <1>6, <2>2, <2>3 DEF ConsoleHolds, Shell!ConsoleInv
<1> QED  BY <1>7, <1>8

LEMMA TaskTakeKeeps == ASSUME ConsoleHolds, Shell!TaskTake PROVE ConsoleHolds'
<1>1. /\ Shell!TypeOK /\ Shell!LineHeld /\ Shell!AheadIsDue /\ Shell!OnePost /\ Shell!CommandAsTyped
  BY DEF ConsoleHolds, Shell!ConsoleInv
<1>2. /\ left > 0 /\ left' = left - 1 /\ fifo' = Tail(fifo)
      /\ Shell!shellCircleBuffer(Head(fifo))
      /\ UNCHANGED <<enabled, full, tout, posts, task, ahead, typed>>
  BY DEF Shell!TaskTake
<1>3. PICK n \in Nat, most \in Nat :
        /\ n = Len(fifo) /\ most = BUFF_LEN /\ n <= ConsoleFifoLen /\ left \in 0 .. n
        /\ fifo \in Seq(Shell!Char)
  BY <1>1, ShellSizes DEF Shell!TypeOK
<1>4. n > 0 /\ fifo # <<>>
  <2>1. n > 0  BY <1>2, <1>3
  <2> QED  BY <1>3, <2>1
<1>5. PICK ch \in Shell!Char : ch = fifo[1] /\ ch = Head(fifo)  BY <1>3, <1>4
<1>6. /\ fifo' \in Seq(Shell!Char) /\ Len(fifo') = n - 1
      /\ \A i \in 1 .. n - 1 : fifo'[i] = fifo[i + 1]
  BY <1>2, <1>3, <1>4, HeadTailProperties
<1>7. PICK course \in [0 .. n -> 0 .. most - 1] :
        /\ course[0] = Len(line) /\ course[n] = ahead
        /\ \A i \in 1 .. n : /\ course[i] = Shell!After(course[i - 1], fifo[i])
                             /\ fifo[i] = Shell!Backspace => course[i - 1] > 0
  BY <1>1, <1>3 DEF Shell!AheadIsDue
<1>8. course[1] = Shell!After(Len(line), ch) /\ (ch = Shell!Backspace => Len(line) > 0)
  <2>1. 1 \in 1 .. n /\ 1 - 1 = 0  BY <1>4
  <2> QED  BY <1>5, <1>7, <2>1
<1>9. /\ Shell!LineHeld' /\ Len(line') = course[1]
      /\ shellBuffer' \in [Shell!Index -> Shell!Char \cup {Shell!Zero}]
      /\ sbi' \in Shell!Index /\ line' \in Seq(Shell!Char)
      /\ \/ UNCHANGED ran
         \/ ran' = [words |-> Shell!Commands(line), line |-> line]
  BY <1>1, <1>2, <1>5, <1>8, ShellTakes
<1>10. /\ ran'.words \in Seq(Seq(Shell!Char)) /\ ran'.line \in Seq(Shell!Char)
       /\ Shell!CommandAsTyped'
  <2>1. CASE UNCHANGED ran
    <3>1. Shell!CommandAsTyped'
      BY <1>1, <2>1, Dependencies
    <3>2. ran.words \in Seq(Seq(Shell!Char)) /\ ran.line \in Seq(Shell!Char)
      BY <1>1 DEF Shell!TypeOK
    <3> QED  BY <2>1, <3>1, <3>2
  <2>2. CASE ran' = [words |-> Shell!Commands(line), line |-> line]
    <3>1. line \in Seq(Shell!Char)  BY <1>1 DEF Shell!TypeOK
    <3>2. ran'.words = Shell!Commands(line) /\ ran'.line = line  BY <2>2
    <3>3. /\ ran'.words \in Seq(Seq(Shell!Char)) /\ Len(ran'.words) = CMD_LENGTH
          /\ Shell!AreWordsOf(ran'.words, ran'.line)
      BY <3>1, <3>2, CommandsFit
    <3> QED  BY <3>1, <3>2, <3>3 DEF Shell!CommandAsTyped, Shell!AreWordsOf
  <2> QED  BY <1>9, <2>1, <2>2
<1>11. Shell!TypeOK'
  <2>1. Len(fifo') <= ConsoleFifoLen /\ left' \in 0 .. Len(fifo')
    <3>1. PICK size \in Nat : size = ConsoleFifoLen  BY ShellSizes
    <3>2. n - 1 <= size  BY <1>3, <3>1
    <3>3. left - 1 \in 0 .. n - 1  BY <1>2, <1>3
    <3> QED  BY <1>2, <1>6, <3>1, <3>2, <3>3
  <2>2. /\ enabled' \in BOOLEAN /\ full' \in BOOLEAN /\ tout' \in BOOLEAN /\ posts' \in Nat
        /\ task' \in {"idle", "taking"} /\ ahead' \in 0 .. BUFF_LEN - 1 /\ typed' \in 0 .. MaxTyped
    BY <1>1, <1>2 DEF Shell!TypeOK
  <2> QED  BY <1>6, <1>9, <1>10, <2>1, <2>2 DEF Shell!TypeOK
<1>12. Shell!AheadIsDue'
  <2>1. PICK m \in Nat : m = n - 1 /\ n = m + 1  BY <1>4
  <2> DEFINE rest == [i \in 0 .. m |-> course[i + 1]]
  <2>2. rest \in [0 .. m -> 0 .. most - 1]  BY <1>7, <2>1
  <2>3. rest[0] = Len(line') /\ rest[m] = ahead'  BY <1>2, <1>7, <1>9, <2>1
  <2>4. ASSUME NEW i \in 1 .. m
        PROVE  /\ rest[i] = Shell!After(rest[i - 1], fifo'[i])
               /\ fifo'[i] = Shell!Backspace => rest[i - 1] > 0
    <3>1. i \in 0 .. m /\ i - 1 \in 0 .. m /\ i - 1 + 1 = i  OBVIOUS
    <3>2. rest[i] = course[i + 1] /\ rest[i - 1] = course[i]  BY <3>1
    <3>3. PICK j \in 1 .. n : j = i + 1 /\ j - 1 = i  BY <2>1
    <3>4. fifo'[i] = fifo[j]  BY <1>6, <2>1, <3>3
    <3> HIDE DEF rest
    <3> QED  BY <1>7, <3>2, <3>3, <3>4
  <2> HIDE DEF rest
  <2>5. \E c \in [0 .. m -> 0 .. BUFF_LEN - 1] :
            /\ c[0] = Len(line') /\ c[m] = ahead'
            /\ \A i \in 1 .. m : /\ c[i] = Shell!After(c[i - 1], fifo'[i])
                                 /\ fifo'[i] = Shell!Backspace => c[i - 1] > 0
    BY <1>3, <2>2, <2>3, <2>4
  <2>6. Len(fifo') = m  BY <1>6, <2>1
  <2> QED  BY <2>5, <2>6 DEF Shell!AheadIsDue, Shell!After
<1>13. Shell!OnePost'  BY <1>1, <1>2 DEF Shell!OnePost
<1> QED  BY <1>9, <1>10, <1>11, <1>12, <1>13 DEF ConsoleHolds, Shell!ConsoleInv

\* Nothing but the driver's flags moves.
LEMMA DriverKeeps ==
    ASSUME ConsoleHolds, Shell!TypeOK', Shell!OnePost',
           UNCHANGED <<fifo, shellBuffer, sbi, line, ahead, ran>>
    PROVE  ConsoleHolds'
<1>0. Shell!LineHeld /\ Shell!AheadIsDue /\ Shell!CommandAsTyped
  BY DEF ConsoleHolds, Shell!ConsoleInv
<1>1. Shell!LineHeld'  BY <1>0, Dependencies
<1>2. Shell!AheadIsDue'  BY <1>0, Dependencies
<1>3. Shell!CommandAsTyped'  BY <1>0, Dependencies
<1> QED  BY <1>1, <1>2, <1>3 DEF ConsoleHolds, Shell!ConsoleInv

LEMMA ConsoleStep == ASSUME ConsoleHolds, Shell!Next PROVE ConsoleHolds'
<1>0. Shell!TypeOK /\ Shell!OnePost  BY DEF ConsoleHolds, Shell!ConsoleInv
<1>1. CASE \E ch \in Shell!Char : Shell!Type(ch)  BY <1>1, TypeKeeps
<1>2. CASE Shell!Quiet
  <2>1. Shell!TypeOK' /\ Shell!OnePost'  BY <1>0, <1>2 DEF Shell!Quiet, Shell!TypeOK, Shell!OnePost
  <2> QED  BY <1>2, <2>1, DriverKeeps DEF Shell!Quiet
<1>3. CASE Shell!Interrupt
  <2>1. /\ enabled /\ enabled' = FALSE /\ posts' = posts + 1 /\ full' \in BOOLEAN /\ tout' \in BOOLEAN
        /\ UNCHANGED <<fifo, task, left, shellBuffer, sbi, line, ahead, ran, typed>>
    BY <1>0, <1>3 DEF Shell!Interrupt, Shell!TypeOK
  <2>2. Shell!TypeOK'
    <3>1. posts' \in Nat  BY <1>0, <2>1 DEF Shell!TypeOK
    <3>2. enabled' \in BOOLEAN  BY <2>1
    <3> QED  BY <1>0, <2>1, <3>1, <3>2 DEF Shell!TypeOK
  <2>3. Shell!OnePost'  BY <1>0, <2>1 DEF Shell!OnePost, Shell!TypeOK
  <2> QED  BY <2>1, <2>2, <2>3, DriverKeeps
<1>4. CASE Shell!TaskStart
  <2>1. /\ posts > 0 /\ task = "idle" /\ posts' = posts - 1 /\ task' = "taking" /\ left' = Len(fifo)
        /\ UNCHANGED <<fifo, enabled, full, tout, shellBuffer, sbi, line, ahead, ran, typed>>
    BY <1>4 DEF Shell!TaskStart
  <2>2. posts' \in Nat /\ left' \in 0 .. Len(fifo')
    <3>1. fifo \in Seq(Shell!Char) /\ posts \in Nat  BY <1>0 DEF Shell!TypeOK
    <3>2. Len(fifo) \in Nat  BY <3>1
    <3> QED  BY <2>1, <3>1, <3>2
  <2>3. Shell!TypeOK'  BY <1>0, <2>1, <2>2 DEF Shell!TypeOK
  <2>4. Shell!OnePost'  BY <1>0, <2>1 DEF Shell!OnePost, Shell!TypeOK
  <2> QED  BY <2>1, <2>3, <2>4, DriverKeeps
<1>5. CASE Shell!TaskTake  BY <1>5, TaskTakeKeeps
<1>6. CASE Shell!TaskEnd
  <2>1. /\ task = "taking" /\ left = 0 /\ full' = FALSE /\ tout' = FALSE /\ enabled' = TRUE /\ task' = "idle"
        /\ UNCHANGED <<fifo, posts, left, shellBuffer, sbi, line, ahead, ran, typed>>
    BY <1>6 DEF Shell!TaskEnd
  <2>2. Shell!TypeOK'  BY <1>0, <2>1 DEF Shell!TypeOK
  <2>3. Shell!OnePost'  BY <1>0, <2>1 DEF Shell!OnePost, Shell!TypeOK
  <2> QED  BY <2>1, <2>2, <2>3, DriverKeeps
<1> QED  BY <1>1, <1>2, <1>3, <1>4, <1>5, <1>6 DEF Shell!Next

LEMMA ConsoleStands == ASSUME ConsoleHolds, UNCHANGED consoleVars PROVE ConsoleHolds'
<1>1. Shell!TypeOK' /\ Shell!OnePost'
  BY DEF consoleVars, ConsoleHolds, Shell!ConsoleInv, Shell!TypeOK, Shell!OnePost
<1> QED  BY <1>1, DriverKeeps DEF consoleVars

-----------------------------------------------------------------------------
(* The rings of the buffered driver.                                       *)

\* A position that may have passed the end of a ring of the size once.
Round(size, x) == IF x < size THEN x ELSE x - size

LEMMA Rounded ==
    ASSUME NEW size \in Nat \ {0}, NEW x \in 0 .. 2 * size - 1
    PROVE  x % size = Round(size, x) /\ Round(size, x) \in 0 .. size - 1
<1>1. CASE x < size
  <2>1. PICK a \in Int, q \in Int, r \in 0 .. size - 1 : a = x /\ q = 0 /\ r = x /\ a = size * q + r
    BY <1>1
  <2> QED  BY <1>1, <2>1, DivIs DEF Round
<1>2. CASE x >= size
  <2>1. PICK a \in Int, q \in Int, r \in 0 .. size - 1 :
          a = x /\ q = 1 /\ r = x - size /\ a = size * q + r
    BY <1>2
  <2> QED  BY <1>2, <2>1, DivIs DEF Round
<1> QED  BY <1>1, <1>2

LEMMA RoundOn ==
    ASSUME NEW size \in Nat \ {0}, NEW out \in 0 .. size - 1, NEW a \in Nat, NEW b \in Nat,
           a + b <= size, NEW p \in Int, p = Round(size, out + a)
    PROVE  Round(size, p + b) = Round(size, out + (a + b))
  BY DEF Round

\* The bytes put into a ring: from a position up to the end, and the others
\* from the start.
Stored(size, cells, in, bytes, n) ==
    [i \in 0 .. size - 1 |->
        IF i - in + 1 \in 1 .. n THEN bytes[i - in + 1]
        ELSE IF i + size - in + 1 \in 1 .. n THEN bytes[i + size - in + 1]
        ELSE cells[i]]

StoredTo(S, size, cells, out, used, n, bytes, after) ==
    /\ after \in [0 .. size - 1 -> S]
    /\ \A i \in 1 .. used : after[Round(size, out + i - 1)] = cells[Round(size, out + i - 1)]
    /\ \A i \in 1 .. n : after[Round(size, out + used + i - 1)] = bytes[i]

LEMMA StoredIn ==
    ASSUME NEW S, NEW size \in Nat \ {0}, NEW out \in 0 .. size - 1, NEW used \in Nat, NEW n \in Nat,
           used + n <= size, NEW in \in 0 .. size - 1, in = Round(size, out + used),
           NEW cells \in [0 .. size - 1 -> S], NEW bytes \in [1 .. n -> S]
    PROVE  StoredTo(S, size, cells, out, used, n, bytes, Stored(size, cells, in, bytes, n))
<1>1. Stored(size, cells, in, bytes, n) \in [0 .. size - 1 -> S]
  BY DEF Stored
<1>2. ASSUME NEW i \in 1 .. used
      PROVE  Stored(size, cells, in, bytes, n)[Round(size, out + i - 1)]
               = cells[Round(size, out + i - 1)]
  <2>0. PICK x \in 0 .. 2 * size - 1 : x = out + i - 1  OBVIOUS
  <2>1. PICK p \in 0 .. size - 1 : p = Round(size, x)  BY Rounded
  <2>2. p - in + 1 \notin 1 .. n  BY <2>0, <2>1 DEF Round
  <2>3. p + size - in + 1 \notin 1 .. n  BY <2>0, <2>1 DEF Round
  <2> QED  BY <2>0, <2>1, <2>2, <2>3 DEF Stored
<1>3. ASSUME NEW i \in 1 .. n
      PROVE  Stored(size, cells, in, bytes, n)[Round(size, out + used + i - 1)] = bytes[i]
  <2>0. PICK x \in 0 .. 2 * size - 1 : x = out + used + i - 1  OBVIOUS
  <2>1. PICK p \in 0 .. size - 1 : p = Round(size, x)  BY Rounded
  <2>2. \/ p - in + 1 = i
        \/ p - in + 1 \notin 1 .. n /\ p + size - in + 1 = i
    BY <2>0, <2>1 DEF Round
  <2> QED  BY <2>0, <2>1, <2>2 DEF Stored
<1> QED  BY <1>1, <1>2, <1>3 DEF StoredTo

LEMMA RingSizes ==
    /\ UartFifoLen \in Nat \ {0} /\ RingSize \in Nat \ {0} /\ RingSize >= UartFifoLen
    /\ TestLen \in Nat \ {0} /\ MaxReceived \in Nat
    /\ Uart!Cell = 0 .. RingSize - 1
  BY RingAssumption DEF Uart!UartBufferAssumption, Uart!Cell

\* What Uart_Buf_Cpy leaves in the cells, whether it copies in one piece or in
\* two.
LEMMA Copies ==
    ASSUME NEW ring, ring.pInPos \in 0 .. RingSize - 1, NEW bytes \in Seq(Uart!Byte),
           NEW n \in Nat, Len(bytes) = n, n <= RingSize
    PROVE  Uart!Uart_Buf_Cpy(ring, bytes) =
             [ring EXCEPT !.cells = Stored(RingSize, ring.cells, ring.pInPos, bytes, n),
                          !.pInPos = (@ + n) % RingSize,
                          !.Space = @ - n]
<1>1. PICK size \in Nat \ {0} : size = RingSize  BY RingSizes
<1>2. PICK in \in 0 .. size - 1 : in = ring.pInPos  BY <1>1
<1>3. PICK cells : cells = ring.cells  OBVIOUS
<1>4. DOMAIN bytes = 1 .. n  OBVIOUS
<1> DEFINE upToEnd == [i \in 0 .. size - 1 |-> IF i - in + 1 \in 1 .. n THEN bytes[i - in + 1] ELSE cells[i]]
<1>5. Uart!CopyIn(cells, in, bytes) = upToEnd
  BY <1>1, <1>4, RingSizes DEF Uart!CopyIn
<1>6. ASSUME size - in >= n PROVE upToEnd = Stored(size, cells, in, bytes, n)
  <2>1. \A i \in 0 .. size - 1 : i + size - in + 1 \notin 1 .. n  BY <1>6
  <2> QED  BY <2>1 DEF Stored
<1>7. ASSUME size - in < n
      PROVE  Uart!CopyIn(upToEnd, 0, SubSeq(bytes, size - in + 1, n)) = Stored(size, cells, in, bytes, n)
  <2>1. PICK tail \in 1 .. n - 1 : tail = size - in  BY <1>7
  <2>2. PICK more \in Seq(Uart!Byte) :
          /\ more = SubSeq(bytes, tail + 1, n) /\ Len(more) = n - tail
          /\ \A i \in 1 .. n - tail : more[i] = bytes[tail + i]
    <3>1. PICK from \in 1 .. n : from = tail + 1  BY <2>1
    <3>2. /\ SubSeq(bytes, from, n) \in Seq(Uart!Byte)
          /\ Len(SubSeq(bytes, from, n)) = n - tail
          /\ \A i \in 1 .. n - tail : SubSeq(bytes, from, n)[i] = bytes[from + i - 1]
      <4>1. n - from + 1 = n - tail /\ from <= n  BY <3>1
      <4>2. \A i \in from .. n : bytes[i] \in Uart!Byte  OBVIOUS
      <4> QED  BY <4>1, <4>2, SubSeqProperties
    <3>3. ASSUME NEW i \in 1 .. n - tail PROVE SubSeq(bytes, from, n)[i] = bytes[tail + i]
      <4>1. from + i - 1 = tail + i  BY <3>1
      <4> QED  BY <3>2, <4>1
    <3> QED  BY <3>1, <3>2, <3>3
  <2>3. DOMAIN more = 1 .. n - tail  BY <2>2
  <2>4. Uart!CopyIn(upToEnd, 0, more)
          = [i \in 0 .. size - 1 |-> IF i - 0 + 1 \in 1 .. n - tail THEN more[i - 0 + 1] ELSE upToEnd[i]]
    BY <1>1, <2>3, RingSizes DEF Uart!CopyIn
  <2>5. ASSUME NEW i \in 0 .. size - 1
        PROVE  (IF i - 0 + 1 \in 1 .. n - tail THEN more[i - 0 + 1] ELSE upToEnd[i])
                 = Stored(size, cells, in, bytes, n)[i]
    <3>1. CASE i + 1 <= n - tail
      <4>1. PICK j \in 1 .. n - tail : j = i - 0 + 1 /\ tail + j = i + size - in + 1
        BY <2>1, <3>1
      <4>2. i - in + 1 \notin 1 .. n /\ i + size - in + 1 \in 1 .. n  BY <1>1, <2>1, <3>1
      <4>3. more[j] = bytes[i + size - in + 1]  BY <2>2, <4>1
      <4> QED  BY <4>1, <4>2, <4>3 DEF Stored
    <3>2. CASE i + 1 > n - tail
      <4>1. i - 0 + 1 \notin 1 .. n - tail /\ i + size - in + 1 \notin 1 .. n  BY <2>1, <3>2
      <4> QED  BY <4>1 DEF Stored
    <3> QED  BY <2>1, <3>1, <3>2
  <2> HIDE DEF upToEnd
  <2>6. Stored(size, cells, in, bytes, n)
          = [i \in 0 .. size - 1 |-> Stored(size, cells, in, bytes, n)[i]]
    BY DEF Stored
  <2>7. more = SubSeq(bytes, size - in + 1, n)  BY <2>1, <2>2
  <2>8. Uart!CopyIn(upToEnd, 0, more) = Stored(size, cells, in, bytes, n)  BY <2>4, <2>5, <2>6
  <2> QED  BY <2>7, <2>8
<1> HIDE DEF upToEnd
<1>8. (IF size - in >= n THEN Uart!CopyIn(cells, in, bytes)
       ELSE Uart!CopyIn(Uart!CopyIn(cells, in, bytes), 0, SubSeq(bytes, size - in + 1, n)))
        = Stored(size, cells, in, bytes, n)
  BY <1>5, <1>6, <1>7
<1> QED  BY <1>1, <1>2, <1>3, <1>8 DEF Uart!Uart_Buf_Cpy

\* What a ring in step is like, in terms of positions.
IsRing(ring, size, cells, out, in, used) ==
    /\ size = RingSize /\ ring \in Uart!Ring
    /\ cells = ring.cells /\ out = ring.pOutPos /\ in = ring.pInPos
    /\ used = RingSize - ring.Space /\ used <= size
    /\ in = Round(size, out + used)
    /\ \A i \in 1 .. used : cells[Round(size, out + i - 1)] \in Uart!Byte

Queued(size, cells, out, used) == [i \in 1 .. used |-> cells[Round(size, out + i - 1)]]

LEMMA RingIs ==
    ASSUME NEW size \in Nat \ {0}, size = RingSize, NEW ring \in Uart!Ring, Uart!InStep(ring)
    PROVE  \E cells \in [0 .. size - 1 -> Uart!Byte \cup {0}],
              out \in 0 .. size - 1, in \in 0 .. size - 1, used \in Nat :
             /\ IsRing(ring, size, cells, out, in, used)
             /\ Uart!Contents(ring) = Queued(size, cells, out, used)
<1>1. size = RingSize  OBVIOUS
<1>2. /\ ring.cells \in [0 .. size - 1 -> Uart!Byte \cup {0}] /\ ring.pInPos \in 0 .. size - 1
      /\ ring.Space \in 0 .. size
  BY <1>1, RingSizes DEF Uart!Ring
<1>3. ring.pOutPos \in 0 .. size - 1  BY <1>1, RingSizes DEF Uart!InStep
<1>4. PICK cells \in [0 .. size - 1 -> Uart!Byte \cup {0}], out \in 0 .. size - 1,
           in \in 0 .. size - 1, used \in Nat :
        cells = ring.cells /\ out = ring.pOutPos /\ in = ring.pInPos /\ used = size - ring.Space
        /\ used <= size
  BY <1>2, <1>3
<1>5. in = Round(size, out + used)
  <2>1. PICK x \in 0 .. 2 * size - 1 : x = out + used /\ x = out + size - ring.Space
    BY <1>2, <1>4
  <2>2. in = x % size  BY <1>1, <1>4, <2>1 DEF Uart!InStep
  <2> QED  BY <2>1, <2>2, Rounded
<1>6. ASSUME NEW i \in 1 .. used PROVE (out + i - 1) % size = Round(size, out + i - 1)
  <2>1. PICK x \in 0 .. 2 * size - 1 : x = out + i - 1  BY <1>4
  <2> QED  BY <2>1, Rounded
<1>7. Uart!Contents(ring) = Queued(size, cells, out, used)
  <2>1. Uart!Contents(ring) = [i \in 1 .. used |-> cells[(out + i - 1) % size]]
    BY <1>1, <1>4 DEF Uart!Contents
  <2> QED  BY <1>6, <2>1 DEF Queued
<1>8. \A i \in 1 .. used : cells[Round(size, out + i - 1)] \in Uart!Byte
  <2>1. \A i \in 1 .. used : Uart!Contents(ring)[i] \in Uart!Byte  BY <1>1, <1>4 DEF Uart!InStep
  <2> QED  BY <1>7, <2>1 DEF Queued
<1>9. IsRing(ring, size, cells, out, in, used)  BY <1>1, <1>4, <1>5, <1>8 DEF IsRing
<1> QED  BY <1>1, <1>4, <1>7, <1>9

\* The other way round.
LEMMA RingMakes ==
    ASSUME NEW ring, NEW size \in Nat \ {0},
           NEW cells \in [0 .. size - 1 -> Uart!Byte \cup {0}], NEW out \in 0 .. size - 1,
           NEW in \in 0 .. size - 1, NEW used \in Nat, IsRing(ring, size, cells, out, in, used)
    PROVE  /\ Uart!InStep(ring) /\ Uart!Contents(ring) = Queued(size, cells, out, used)
           /\ Queued(size, cells, out, used) \in Seq(Uart!Byte)
           /\ Len(Queued(size, cells, out, used)) = used
<1>1. /\ size = RingSize /\ ring \in Uart!Ring /\ used = RingSize - ring.Space /\ used <= size
      /\ cells = ring.cells /\ out = ring.pOutPos /\ in = ring.pInPos
      /\ in = Round(size, out + used)
  BY DEF IsRing
<1>2. \A i \in 1 .. used : cells[Round(size, out + i - 1)] \in Uart!Byte  BY DEF IsRing
<1>3. ring.Space \in 0 .. size  BY <1>1 DEF Uart!Ring
<1>4. ASSUME NEW i \in 1 .. used PROVE (out + i - 1) % size = Round(size, out + i - 1)
  <2>1. PICK x \in 0 .. 2 * size - 1 : x = out + i - 1  BY <1>1
  <2> QED  BY <2>1, Rounded
<1>5. Uart!Contents(ring) = Queued(size, cells, out, used)
  <2>1. Uart!Contents(ring) = [i \in 1 .. used |-> cells[(out + i - 1) % size]]
    BY <1>1 DEF Uart!Contents
  <2> QED  BY <1>4, <2>1 DEF Queued
<1>6. Queued(size, cells, out, used) \in Seq(Uart!Byte) /\ Len(Queued(size, cells, out, used)) = used
  BY <1>2 DEF Queued
<1>7. ring.pInPos = (ring.pOutPos + RingSize - ring.Space) % RingSize
  <2>1. PICK x \in 0 .. 2 * size - 1 : x = out + used /\ x = out + size - ring.Space
    BY <1>1, <1>3
  <2>2. in = x % size  BY <1>1, <2>1, Rounded
  <2> QED  BY <1>1, <2>1, <2>2
<1>8. \A i \in 1 .. RingSize - ring.Space : Uart!Contents(ring)[i] \in Uart!Byte
  BY <1>1, <1>2, <1>5 DEF Queued
<1>9. ring.pOutPos \in Uart!Cell  BY <1>1, RingSizes
<1>10. Uart!InStep(ring)  BY <1>7, <1>8, <1>9 DEF Uart!InStep
<1> QED  BY <1>5, <1>6, <1>10

\* A step of a queue, as ByteQueue has it.
Puts(q, r, most) ==
    /\ Len(r) \in Len(q) + 1 .. most
    /\ SubSeq(r, 1, Len(q)) = q
    /\ \A i \in Len(q) + 1 .. Len(r) : r[i] \in Uart!Byte
Gets(q, r) == \E n \in 1 .. Len(q) : r = SubSeq(q, n + 1, Len(q))
Moves(q, r, most) == r = q \/ Puts(q, r, most) \/ Gets(q, r)

\* r is q with the bytes behind it.
Joins(q, bytes, r) ==
    /\ Len(r) = Len(q) + Len(bytes)
    /\ \A i \in 1 .. Len(q) : r[i] = q[i]
    /\ \A i \in 1 .. Len(bytes) : r[Len(q) + i] = bytes[i]

LEMMA Beginning ==
    ASSUME NEW r \in Seq(Uart!Byte), NEW m \in Nat, m <= Len(r)
    PROVE  /\ SubSeq(r, 1, m) \in Seq(Uart!Byte) /\ Len(SubSeq(r, 1, m)) = m
           /\ \A i \in 1 .. m : SubSeq(r, 1, m)[i] = r[i]
<1>1. \A i \in 1 .. m : r[i] \in Uart!Byte  OBVIOUS
<1>2. /\ SubSeq(r, 1, m) \in Seq(Uart!Byte)
      /\ Len(SubSeq(r, 1, m)) = IF 1 <= m THEN m - 1 + 1 ELSE 0
      /\ \A i \in 1 .. m - 1 + 1 : SubSeq(r, 1, m)[i] = r[1 + i - 1]
  BY <1>1, SubSeqProperties
<1>3. Len(SubSeq(r, 1, m)) = m  BY <1>2
<1>4. ASSUME NEW i \in 1 .. m PROVE SubSeq(r, 1, m)[i] = r[i]
  <2>1. i \in 1 .. m - 1 + 1 /\ 1 + i - 1 = i  OBVIOUS
  <2> QED  BY <1>2, <2>1
<1> QED  BY <1>2, <1>3, <1>4

LEMMA Longer ==
    ASSUME NEW q \in Seq(Uart!Byte), NEW r \in Seq(Uart!Byte), NEW m \in Nat, NEW n \in Nat,
           Len(q) = m, Len(r) = m + n, NEW most \in Int, m + n <= most,
           \A i \in 1 .. m : r[i] = q[i]
    PROVE  Moves(q, r, most)
<1>1. CASE n = 0
  <2>1. Len(r) = Len(q) /\ \A i \in 1 .. Len(q) : r[i] = q[i]  BY <1>1
  <2>2. r = q  BY <2>1, SeqEqual
  <2> QED  BY <2>2 DEF Moves
<1>2. CASE n > 0
  <2>1. Len(r) \in Len(q) + 1 .. most  BY <1>2
  <2>2. /\ SubSeq(r, 1, m) \in Seq(Uart!Byte) /\ Len(SubSeq(r, 1, m)) = m
        /\ \A i \in 1 .. m : SubSeq(r, 1, m)[i] = r[i]
    BY Beginning
  <2>3. SubSeq(r, 1, Len(q)) = q  BY <2>2, SeqEqual
  <2>4. \A i \in Len(q) + 1 .. Len(r) : r[i] \in Uart!Byte  OBVIOUS
  <2> QED  BY <2>1, <2>3, <2>4 DEF Moves, Puts
<1> QED  BY <1>1, <1>2

LEMMA Shorter ==
    ASSUME NEW q \in Seq(Uart!Byte), NEW r \in Seq(Uart!Byte), NEW m \in Nat, NEW n \in 0 .. m,
           Len(q) = m, Len(r) = m - n, NEW most,
           \A i \in 1 .. m - n : r[i] = q[n + i]
    PROVE  Moves(q, r, most)
<1>1. CASE n = 0
  <2>1. Len(r) = Len(q) /\ \A i \in 1 .. Len(q) : r[i] = q[i]  BY <1>1
  <2>2. r = q  BY <2>1, SeqEqual
  <2> QED  BY <2>2 DEF Moves
<1>2. CASE n > 0
  <2>1. /\ SubSeq(q, n + 1, m) \in Seq(Uart!Byte) /\ Len(SubSeq(q, n + 1, m)) = m - n
        /\ \A i \in 1 .. m - n : SubSeq(q, n + 1, m)[i] = q[n + i]
    <3>1. PICK from \in Int : from = n + 1  OBVIOUS
    <3>2. \A i \in from .. m : q[i] \in Uart!Byte  BY <3>1
    <3>3. /\ SubSeq(q, from, m) \in Seq(Uart!Byte)
          /\ Len(SubSeq(q, from, m)) = IF from <= m THEN m - from + 1 ELSE 0
          /\ \A i \in 1 .. m - from + 1 : SubSeq(q, from, m)[i] = q[from + i - 1]
      BY <3>2, SubSeqProperties
    <3>4. Len(SubSeq(q, from, m)) = m - n  BY <3>1, <3>3
    <3>5. ASSUME NEW i \in 1 .. m - n PROVE SubSeq(q, from, m)[i] = q[n + i]
      <4>1. i \in 1 .. m - from + 1 /\ from + i - 1 = n + i  BY <3>1
      <4> QED  BY <3>3, <4>1
    <3> QED  BY <3>1, <3>3, <3>4, <3>5
  <2>2. r = SubSeq(q, n + 1, m)  BY <2>1, SeqEqual
  <2>3. n \in 1 .. Len(q) /\ r = SubSeq(q, n + 1, Len(q))  BY <1>2, <2>2
  <2> QED  BY <2>3 DEF Moves, Gets
<1> QED  BY <1>1, <1>2

LEMMA PutIn ==
    ASSUME NEW ring \in Uart!Ring, Uart!InStep(ring), NEW bytes \in Seq(Uart!Byte),
           NEW n \in Nat, Len(bytes) = n, n <= ring.Space,
           NEW most \in Int, RingSize - (ring.Space - n) <= most
    PROVE  /\ Uart!Uart_Buf_Cpy(ring, bytes) \in Uart!Ring
           /\ Uart!InStep(Uart!Uart_Buf_Cpy(ring, bytes))
           /\ Uart!Uart_Buf_Cpy(ring, bytes).Space = ring.Space - n
           /\ Moves(Uart!Contents(ring), Uart!Contents(Uart!Uart_Buf_Cpy(ring, bytes)), most)
           /\ Joins(Uart!Contents(ring), bytes, Uart!Contents(Uart!Uart_Buf_Cpy(ring, bytes)))
<1>0. PICK size \in Nat \ {0} : size = RingSize  BY RingSizes
<1>1. PICK cells \in [0 .. size - 1 -> Uart!Byte \cup {0}],
           out \in 0 .. size - 1, in \in 0 .. size - 1, used \in Nat :
        /\ IsRing(ring, size, cells, out, in, used)
        /\ Uart!Contents(ring) = Queued(size, cells, out, used)
  BY <1>0, RingIs
<1>2. /\ size = RingSize /\ used = RingSize - ring.Space /\ in = Round(size, out + used)
      /\ cells = ring.cells /\ out = ring.pOutPos /\ in = ring.pInPos /\ used <= size
      /\ \A i \in 1 .. used : cells[Round(size, out + i - 1)] \in Uart!Byte
  BY <1>1 DEF IsRing
<1>3. ring.Space \in 0 .. size /\ used + n <= size /\ n <= RingSize /\ used + n <= most
  <2>1. PICK space \in 0 .. size : space = ring.Space  BY <1>0 DEF Uart!Ring
  <2>2. used = size - space /\ n <= space /\ size - (space - n) <= most  BY <1>0, <1>2, <2>1
  <2>3. used + n <= size /\ n <= size /\ used + n <= most  BY <2>2
  <2> QED  BY <1>0, <2>1, <2>3
<1>4. PICK after \in [0 .. size - 1 -> Uart!Byte \cup {0}] :
        /\ after = Stored(size, cells, in, bytes, n)
        /\ \A i \in 1 .. used : after[Round(size, out + i - 1)] = cells[Round(size, out + i - 1)]
        /\ \A i \in 1 .. n : after[Round(size, out + used + i - 1)] = bytes[i]
  <2>1. PICK S : S = Uart!Byte \cup {0}  OBVIOUS
  <2>2. bytes \in [1 .. n -> S]  BY <2>1
  <2>3. cells \in [0 .. size - 1 -> S] /\ out \in 0 .. size - 1 /\ in \in 0 .. size - 1
    BY <1>2, <2>1
  <2>4. PICK data \in [1 .. n -> S] : data = bytes  BY <2>2
  <2>5. StoredTo(S, size, cells, out, used, n, data, Stored(size, cells, in, data, n))
    <3>1. used + n <= size /\ in = Round(size, out + used)  BY <1>2, <1>3
    <3> QED  BY <2>3, <3>1, StoredIn
  <2> QED  BY <2>1, <2>4, <2>5 DEF StoredTo
<1>5. PICK new : new = Uart!Uart_Buf_Cpy(ring, bytes)  OBVIOUS
<1>6. PICK x \in 0 .. size - 1 : x = (in + n) % size /\ x = Round(size, out + (used + n))
  <2>1. PICK y \in 0 .. 2 * size - 1 : y = in + n  BY <1>2, <1>3
  <2>2. y % size = Round(size, y) /\ Round(size, y) \in 0 .. size - 1  BY Rounded
  <2>3. Round(size, y) = Round(size, out + (used + n))
    <3>1. used + n <= size /\ in = Round(size, out + used)  BY <1>2, <1>3
    <3>2. PICK p \in Int : p = in  OBVIOUS
    <3>3. PICK b \in Nat : b = n /\ used + b <= size /\ p = Round(size, out + used)  BY <3>1, <3>2
    <3>5. Round(size, p + b) = Round(size, out + (used + b))  BY <3>3 DEF Round
    <3>4. Round(size, p + n) = Round(size, out + (used + n))  BY <3>3, <3>5
    <3> QED  BY <2>1, <3>2, <3>4
  <2> QED  BY <2>1, <2>2, <2>3
<1>7. new = [ring EXCEPT !.cells = after, !.pInPos = x, !.Space = @ - n]
  <2>1. ring.pInPos \in 0 .. RingSize - 1  BY <1>2
  <2>2. Uart!Uart_Buf_Cpy(ring, bytes) =
             [ring EXCEPT !.cells = Stored(RingSize, ring.cells, ring.pInPos, bytes, n),
                          !.pInPos = (@ + n) % RingSize,
                          !.Space = @ - n]
    BY <1>3, <2>1, Copies
  <2>3. (ring.pInPos + n) % RingSize = x  BY <1>2, <1>6
  <2>4. Stored(RingSize, ring.cells, ring.pInPos, bytes, n) = after  BY <1>2, <1>4
  <2> QED  BY <1>5, <2>2, <2>3, <2>4
<1>8. /\ new \in Uart!Ring /\ new.cells = after /\ new.pInPos = x /\ new.pOutPos = out
      /\ new.Space = ring.Space - n
  <2>1. ring.Space - n \in 0 .. RingSize
    <3>1. PICK space \in 0 .. size : space = ring.Space /\ used = size - space  BY <1>2, <1>3
    <3>2. n <= space  BY <1>2, <3>1
    <3>3. space - n \in 0 .. size  BY <3>1, <3>2
    <3> QED  BY <1>2, <3>1, <3>3
  <2>2. after \in [Uart!Cell -> Uart!Byte \cup {0}] /\ x \in Uart!Cell  BY <1>2, RingSizes
  <2> QED  BY <1>2, <1>7, <2>1, <2>2 DEF Uart!Ring
<1>9. PICK more \in Nat : more = used + n  OBVIOUS
<1>10. \A i \in 1 .. more : after[Round(size, out + i - 1)] \in Uart!Byte
  <2> SUFFICES ASSUME NEW i \in 1 .. more PROVE after[Round(size, out + i - 1)] \in Uart!Byte
    OBVIOUS
  <2>1. CASE i <= used
    <3>1. i \in 1 .. used  BY <2>1
    <3> QED  BY <1>2, <1>4, <3>1
  <2>2. CASE i > used
    <3>1. PICK j \in 1 .. n : j = i - used /\ out + used + j - 1 = out + i - 1  BY <1>9, <2>2
    <3>2. after[Round(size, out + used + j - 1)] = bytes[j]  BY <1>4
    <3> QED  BY <3>1, <3>2
  <2> QED  BY <2>1, <2>2
<1>11. IsRing(new, size, after, out, x, more)
  <2>1. more = RingSize - new.Space /\ more <= size  BY <1>2, <1>3, <1>8, <1>9
  <2> QED  BY <1>2, <1>6, <1>8, <1>9, <1>10, <2>1 DEF IsRing
<1>12. /\ Uart!InStep(new) /\ Uart!Contents(new) = Queued(size, after, out, more)
       /\ Queued(size, after, out, more) \in Seq(Uart!Byte)
       /\ Len(Queued(size, after, out, more)) = more
  BY <1>9, <1>11, RingMakes
<1>13. PICK q \in Seq(Uart!Byte) :
        q = Uart!Contents(ring) /\ Len(q) = used /\ q = Queued(size, cells, out, used)
  <2>1. IsRing(ring, size, cells, out, in, used)  BY <1>1
  <2>2. /\ Queued(size, cells, out, used) \in Seq(Uart!Byte)
        /\ Len(Queued(size, cells, out, used)) = used
    BY <2>1, RingMakes
  <2> QED  BY <1>1, <2>2
<1>14. PICK r \in Seq(Uart!Byte) :
        r = Uart!Contents(new) /\ Len(r) = used + n /\ r = Queued(size, after, out, more)
  BY <1>9, <1>12
<1>15. \A i \in 1 .. used : r[i] = q[i]
  <2>1. \A i \in 1 .. used : i \in 1 .. more  BY <1>9
  <2> QED  BY <1>4, <1>13, <1>14, <2>1 DEF Queued
<1>16. Moves(q, r, most)  BY <1>3, <1>13, <1>14, <1>15, Longer
<1>17. Joins(q, bytes, r)
  <2> SUFFICES ASSUME NEW i \in 1 .. n PROVE r[used + i] = bytes[i]
    BY <1>13, <1>14, <1>15 DEF Joins
  <2>1. PICK j \in 1 .. more : j = used + i /\ out + j - 1 = out + used + i - 1  BY <1>9
  <2>2. after[Round(size, out + j - 1)] = bytes[i]  BY <1>4, <2>1
  <2>3. r[j] = after[Round(size, out + j - 1)]  BY <1>14 DEF Queued
  <2> QED  BY <2>1, <2>2, <2>3
<1> QED  BY <1>5, <1>8, <1>12, <1>13, <1>14, <1>16, <1>17

\* Where bytes that stay in a ring are, when as many as n are taken out.
Stay(size, out, used, n, x, less) ==
    /\ x \in 0 .. size - 1 /\ x = (out + n) % size
    /\ Round(size, x + less) = Round(size, out + used)
    /\ \A i \in 1 .. less : /\ n + i \in 1 .. used
                            /\ Round(size, x + i - 1) = Round(size, out + (n + i) - 1)

LEMMA Staying ==
    ASSUME NEW size \in Nat \ {0}, NEW out \in 0 .. size - 1, NEW used \in Nat, used <= size,
           NEW n \in Nat, NEW less \in Nat, n + less = used
    PROVE  Stay(size, out, used, n, Round(size, out + n), less)
<1>1. PICK y \in 0 .. 2 * size - 1 : y = out + n  OBVIOUS
<1>2. PICK x \in 0 .. size - 1 : x = Round(size, y) /\ x = y % size  BY Rounded
<1>3. Round(size, x + less) = Round(size, out + used)
  BY <1>1, <1>2 DEF Round
<1>4. ASSUME NEW i \in 1 .. less
      PROVE  n + i \in 1 .. used /\ Round(size, x + i - 1) = Round(size, out + (n + i) - 1)
  BY <1>1, <1>2 DEF Round
<1> QED  BY <1>1, <1>2, <1>3, <1>4 DEF Stay

LEMMA TakeOut ==
    ASSUME NEW ring \in Uart!Ring, Uart!InStep(ring), NEW n \in 0 .. RingSize - ring.Space,
           NEW new, new = [ring EXCEPT !.pOutPos = (@ + n) % RingSize, !.Space = @ + n],
           NEW most
    PROVE  /\ new \in Uart!Ring /\ Uart!InStep(new) /\ new.Space = ring.Space + n
           /\ Moves(Uart!Contents(ring), Uart!Contents(new), most)
           /\ Joins(SubSeq(Uart!Contents(ring), 1, n), Uart!Contents(new), Uart!Contents(ring))
<1>0. PICK size \in Nat \ {0} : size = RingSize  BY RingSizes
<1>1. PICK cells \in [0 .. size - 1 -> Uart!Byte \cup {0}],
           out \in 0 .. size - 1, in \in 0 .. size - 1, used \in Nat :
        /\ IsRing(ring, size, cells, out, in, used)
        /\ Uart!Contents(ring) = Queued(size, cells, out, used)
  BY <1>0, RingIs
<1>2. /\ size = RingSize /\ used = RingSize - ring.Space /\ in = Round(size, out + used)
      /\ cells = ring.cells /\ out = ring.pOutPos /\ in = ring.pInPos /\ used <= size
      /\ \A i \in 1 .. used : cells[Round(size, out + i - 1)] \in Uart!Byte
  BY <1>1 DEF IsRing
<1>3. PICK less \in Nat :
        ring.Space \in 0 .. size /\ n \in 0 .. used /\ less = used - n /\ less <= used
  BY <1>2 DEF Uart!Ring
<1>4. PICK x \in 0 .. size - 1 : Stay(size, out, used, n, x, less)
  <2>1. n \in Nat /\ n + less = used /\ used <= size  BY <1>2, <1>3
  <2>2. Stay(size, out, used, n, Round(size, out + n), less)  BY <2>1, Staying
  <2> QED  BY <2>2 DEF Stay
<1>5. in = Round(size, x + less)  BY <1>2, <1>4 DEF Stay
<1>6. ASSUME NEW i \in 1 .. less
      PROVE  n + i \in 1 .. used /\ Round(size, x + i - 1) = Round(size, out + (n + i) - 1)
  BY <1>4 DEF Stay
<1>x. x = (out + n) % size  BY <1>4 DEF Stay
<1>7. new.cells = cells /\ new.pInPos = in /\ new.pOutPos = x /\ new.Space = ring.Space + n
  BY <1>2, <1>x DEF Uart!Ring
<1>8. new \in Uart!Ring
  <2>1. ring.Space + n \in 0 .. RingSize /\ x \in Uart!Cell \cup {RingSize}
    <3>1. PICK z \in Int : z = ring.Space /\ used = size - z /\ z >= 0  BY <1>2, <1>3
    <3>2. PICK m \in 0 .. used : m = n  BY <1>3
    <3>s. z + m \in 0 .. size  BY <3>1, <3>2
    <3>3. ring.Space + n \in 0 .. RingSize  BY <1>2, <3>1, <3>2, <3>s
    <3>4. x \in Uart!Cell \cup {RingSize}  BY <1>2, <1>x, RingSizes
    <3> QED  BY <3>3, <3>4
  <2>2. new = [ring EXCEPT !.pOutPos = x, !.Space = @ + n]  BY <1>2, <1>x
  <2> QED  BY <2>1, <2>2 DEF Uart!Ring
<1>9. \A i \in 1 .. less : cells[Round(size, x + i - 1)] \in Uart!Byte  BY <1>2, <1>6
<1>10. IsRing(new, size, cells, x, in, less)
  <2>1. less = RingSize - new.Space /\ less <= size
    <3>1. PICK space \in 0 .. size : space = ring.Space /\ used = size - space  BY <1>2, <1>3
    <3>2. PICK m \in 0 .. used : m = n /\ less = used - m  BY <1>3
    <3>3. less = size - (space + m) /\ less <= size  BY <3>1, <3>2
    <3> QED  BY <1>2, <1>7, <3>1, <3>2, <3>3
  <2> QED  BY <1>2, <1>5, <1>7, <1>8, <1>9, <2>1 DEF IsRing
<1>11. /\ Uart!InStep(new) /\ Uart!Contents(new) = Queued(size, cells, x, less)
       /\ Queued(size, cells, x, less) \in Seq(Uart!Byte)
       /\ Len(Queued(size, cells, x, less)) = less
  BY <1>10, RingMakes
<1>12. PICK q \in Seq(Uart!Byte) :
        q = Uart!Contents(ring) /\ Len(q) = used /\ q = Queued(size, cells, out, used)
  <2>1. IsRing(ring, size, cells, out, in, used)  BY <1>1
  <2>2. /\ Queued(size, cells, out, used) \in Seq(Uart!Byte)
        /\ Len(Queued(size, cells, out, used)) = used
    BY <2>1, RingMakes
  <2> QED  BY <1>1, <2>2
<1>13. PICK r \in Seq(Uart!Byte) :
        r = Uart!Contents(new) /\ Len(r) = used - n /\ r = Queued(size, cells, x, less)
  BY <1>3, <1>11
<1>14. \A i \in 1 .. used - n : r[i] = q[n + i]
  <2> SUFFICES ASSUME NEW i \in 1 .. used - n PROVE r[i] = q[n + i]
    OBVIOUS
  <2>1. i \in 1 .. less  BY <1>3
  <2>2. PICK j \in 1 .. used : j = n + i /\ Round(size, x + i - 1) = Round(size, out + j - 1)
    BY <1>6, <2>1
  <2>3. r[i] = cells[Round(size, x + i - 1)]  BY <1>13, <2>1 DEF Queued
  <2>4. q[j] = cells[Round(size, out + j - 1)]  BY <1>12 DEF Queued
  <2> QED  BY <2>2, <2>3, <2>4
<1>15. Moves(q, r, most)
  <2>1. PICK m \in 0 .. used : m = n  BY <1>3
  <2>2. Len(q) = used /\ Len(r) = used - m /\ \A i \in 1 .. used - m : r[i] = q[m + i]
    BY <1>12, <1>13, <1>14, <2>1
  <2> QED  BY <2>2, Shorter
<1>16. Joins(SubSeq(q, 1, n), r, q)
  <2>1. PICK m \in Nat : m = n /\ m <= used  BY <1>3
  <2>2. q \in Seq(Uart!Byte) /\ m <= Len(q)  BY <1>12, <2>1
  <2>4. Len(SubSeq(q, 1, m)) = m /\ \A i \in 1 .. m : SubSeq(q, 1, m)[i] = q[i]
    BY <2>2, Beginning
  <2>6. Len(q) = m + Len(r)
    <3>1. Len(r) = used - m  BY <1>13, <2>1
    <3> QED  BY <1>12, <2>1, <3>1
  <2>7. \A i \in 1 .. Len(r) : q[m + i] = r[i]  BY <1>13, <1>14, <2>1
  <2> QED  BY <2>1, <2>4, <2>6, <2>7 DEF Joins
<1> QED  BY <1>7, <1>8, <1>11, <1>12, <1>13, <1>15, <1>16

-----------------------------------------------------------------------------
\* What a step does to the two queues.
Moved ==
    /\ Moves(Uart!Contents(rx), Uart!Contents(rx'), RingSize - 1)
    /\ Moves(Uart!Contents(tx), Uart!Contents(tx'), RingSize)

LEMMA RingStays == ASSUME NEW q, NEW r, r = q, NEW most PROVE Moves(q, r, most)
  BY DEF Moves

\* The bytes of a ring that is in step, and the first of them.
LEMMA RingHolds ==
    ASSUME NEW ring \in Uart!Ring, Uart!InStep(ring), NEW n \in 0 .. RingSize - ring.Space
    PROVE  /\ SubSeq(Uart!Contents(ring), 1, n) \in Seq(Uart!Byte)
           /\ Len(SubSeq(Uart!Contents(ring), 1, n)) = n
<1>1. PICK space \in Int : space = ring.Space  BY RingSizes DEF Uart!Ring
<1>2. PICK size \in Nat : size = RingSize  BY RingSizes
<1>3. n \in Nat /\ n <= size - space  BY <1>1, <1>2
<1>4. \A i \in 1 .. n : Uart!Contents(ring)[i] \in Uart!Byte
  <2>1. \A i \in 1 .. n : i \in 1 .. RingSize - ring.Space  BY <1>1, <1>2, <1>3
  <2> QED  BY <2>1 DEF Uart!InStep
<1>5. /\ SubSeq(Uart!Contents(ring), 1, n) \in Seq(Uart!Byte)
      /\ Len(SubSeq(Uart!Contents(ring), 1, n)) = IF 1 <= n THEN n - 1 + 1 ELSE 0
  BY <1>3, <1>4, SubSeqProperties
<1> QED  BY <1>3, <1>5

\* rx_buff_deq brings the position round the end although its first case does
\* not: that case is not taken when the bytes to copy reach the end.
LEMMA DeqRounds ==
    ASSUME NEW ring \in Uart!Ring, Uart!InStep(ring), ring.Space > 0, NEW n \in Nat
    PROVE  /\ Uart!DeqLen(ring, n) \in 0 .. RingSize - ring.Space
           /\ Uart!Deq(ring, n) =
                [ring EXCEPT !.pOutPos = (@ + Uart!DeqLen(ring, n)) % RingSize,
                             !.Space = @ + Uart!DeqLen(ring, n)]
<1>0. PICK size \in Nat \ {0} : size = RingSize  BY RingSizes
<1>1. PICK cells \in [0 .. size - 1 -> Uart!Byte \cup {0}],
           out \in 0 .. size - 1, in \in 0 .. size - 1, used \in Nat :
        IsRing(ring, size, cells, out, in, used)
  BY <1>0, RingIs
<1>2. /\ used = RingSize - ring.Space /\ in = Round(size, out + used)
      /\ out = ring.pOutPos /\ in = ring.pInPos
  BY <1>1 DEF IsRing
<1>3. PICK space \in 1 .. size : space = ring.Space /\ used = size - space
  BY <1>0, <1>2 DEF Uart!Ring
<1>4. PICK k \in 0 .. used : k = Uart!DeqLen(ring, n)
  BY <1>0, <1>2, <1>3 DEF Uart!DeqLen
<1>5. out <= in => (out + k) % size = out + k
  <2>1. PICK x \in 0 .. 2 * size - 1 : x = out + k  BY <1>3, <1>4
  <2>2. x % size = Round(size, x)  BY <2>1, Rounded
  <2>3. in = Round(size, out + used) /\ used < size /\ k <= used  BY <1>2, <1>3, <1>4
  <2>4. out <= in => out + k < size  BY <2>3 DEF Round
  <2> QED  BY <2>1, <2>2, <2>4 DEF Round
<1>6. (IF ring.pOutPos <= ring.pInPos THEN ring.pOutPos + k ELSE (ring.pOutPos + k) % RingSize)
        = (ring.pOutPos + k) % RingSize
  BY <1>0, <1>2, <1>5
<1>7. Uart!Deq(ring, n) = [ring EXCEPT !.pOutPos = (@ + k) % RingSize, !.Space = @ + k]
  BY <1>4, <1>6 DEF Uart!Deq
<1> QED  BY <1>2, <1>4, <1>7

LEMMA RingsInitially ==
    ASSUME Uart!Init
    PROVE  Uart!BufferInv /\ Uart!Contents(rx) = <<>> /\ Uart!Contents(tx) = <<>>
<1>1. PICK size \in Nat \ {0} : size = RingSize /\ UartFifoLen \in Nat /\ MaxReceived \in Nat
  BY RingSizes
<1>2. PICK new : new = Uart!Uart_Buf_Init /\ rx = new /\ tx = new  BY DEF Uart!Init
<1>3. /\ new \in Uart!Ring /\ new.Space = size /\ new.pOutPos = 0 /\ new.pInPos = 0
  BY <1>1, <1>2, RingSizes DEF Uart!Uart_Buf_Init, Uart!Ring
<1>4. Uart!InStep(new) /\ Uart!Contents(new) = <<>>
  <2>1. Uart!Contents(new) = <<>>  BY <1>1, <1>3 DEF Uart!Contents
  <2>2. (new.pOutPos + RingSize - new.Space) % RingSize = 0
    <3>1. PICK x \in 0 .. 2 * size - 1 : x = 0  BY <1>1
    <3>2. x % size = 0  BY <3>1, Rounded DEF Round
    <3> QED  BY <1>1, <1>3, <3>1, <3>2
  <2> QED  BY <1>1, <1>3, <2>1, <2>2, RingSizes DEF Uart!InStep
<1>5. Uart!TypeOK
  <2>1. rxFifo = <<>> /\ txFifo = <<>> /\ echoed = 0  BY DEF Uart!Init
  <2>2. <<>> \in Seq(Uart!Byte) /\ Len(<<>>) <= UartFifoLen  BY <1>1
  <2>3. echoed \in 0 .. MaxReceived  BY <1>1, <2>1
  <2>4. rx \in Uart!Ring /\ tx \in Uart!Ring  BY <1>2, <1>3
  <2>5. /\ rxEnabled \in BOOLEAN /\ rxStatus \in BOOLEAN /\ txEnabled \in BOOLEAN
        /\ posted \in BOOLEAN
    BY DEF Uart!Init
  <2> QED  BY <2>1, <2>2, <2>3, <2>4, <2>5 DEF Uart!TypeOK
<1> QED  BY <1>1, <1>2, <1>3, <1>4, <1>5 DEF Uart!BufferInv

LEMMA ReceiveMoves == ASSUME Uart!BufferInv, Uart!Receive PROVE Uart!BufferInv' /\ Moved
<1>1. /\ rx' = rx /\ tx' = tx /\ UNCHANGED <<txFifo, rxEnabled, rxStatus, txEnabled, posted>>
      /\ echoed < MaxReceived /\ echoed' = echoed + 1
      /\ rxFifo' = IF Len(rxFifo) < UartFifoLen THEN Append(rxFifo, echoed') ELSE rxFifo
  BY DEF Uart!Receive
<1>2. Uart!TypeOK /\ Uart!InStep(rx) /\ Uart!InStep(tx) /\ rx.Space > 0  BY DEF Uart!BufferInv
<1>3. echoed' \in Uart!Byte /\ echoed' \in 0 .. MaxReceived
  <2>1. echoed \in 0 .. MaxReceived /\ MaxReceived \in Nat  BY <1>2, RingSizes DEF Uart!TypeOK
  <2> QED  BY <1>1, <2>1 DEF Uart!Byte
<1>4. rxFifo' \in Seq(Uart!Byte) /\ Len(rxFifo') <= UartFifoLen
  <2>1. rxFifo \in Seq(Uart!Byte) /\ Len(rxFifo) <= UartFifoLen /\ UartFifoLen \in Nat
    BY <1>2, RingSizes DEF Uart!TypeOK
  <2>2. /\ Append(rxFifo, echoed') \in Seq(Uart!Byte)
        /\ Len(Append(rxFifo, echoed')) = Len(rxFifo) + 1
    BY <1>3, <2>1, AppendProperties
  <2> QED  BY <1>1, <2>1, <2>2
<1>5. Uart!TypeOK'  BY <1>1, <1>2, <1>3, <1>4 DEF Uart!TypeOK
<1>6. Uart!InStep(rx)' /\ Uart!InStep(tx)'  BY <1>1, <1>2 DEF Uart!InStep, Uart!Contents
<1> QED  BY <1>1, <1>2, <1>5, <1>6, RingStays DEF Uart!BufferInv, Moved

LEMMA RxTaskMoves == ASSUME Uart!BufferInv, Uart!RxTask PROVE Uart!BufferInv' /\ Moved
<1>1. /\ tx' = tx /\ echoed' = echoed /\ posted' = FALSE
      /\ UNCHANGED <<txFifo, rxStatus, txEnabled>>
  BY DEF Uart!RxTask
<1>2. /\ Uart!TypeOK /\ Uart!InStep(rx) /\ Uart!InStep(tx) /\ rx.Space > 0
      /\ rx \in Uart!Ring /\ tx \in Uart!Ring /\ rxFifo \in Seq(Uart!Byte)
  BY DEF Uart!BufferInv, Uart!TypeOK
<1>3. CASE Uart!RoomForFifo
  <2>1. PICK n \in Nat : n = Len(rxFifo)  BY <1>2
  <2>2. PICK space \in Nat, size \in Nat : space = rx.Space /\ n < space /\ size = RingSize
    BY <1>2, <1>3, <2>1, RingSizes DEF Uart!RoomForFifo, Uart!Ring
  <2>3. PICK most \in Int : most = RingSize - 1 /\ RingSize - (rx.Space - n) <= most
    BY <2>1, <2>2
  <2>4. n <= rx.Space  BY <2>1, <2>2
  <2>5. /\ Uart!Uart_Buf_Cpy(rx, rxFifo) \in Uart!Ring
        /\ Uart!InStep(Uart!Uart_Buf_Cpy(rx, rxFifo))
        /\ Uart!Uart_Buf_Cpy(rx, rxFifo).Space = rx.Space - n
        /\ Moves(Uart!Contents(rx), Uart!Contents(Uart!Uart_Buf_Cpy(rx, rxFifo)), most)
    BY <1>2, <2>1, <2>3, <2>4, PutIn
  <2>6. /\ rx' = Uart!Uart_Buf_Cpy(rx, rxFifo) /\ rxFifo' = <<>>
        /\ rxEnabled' = (rxEnabled \/ rx'.Space >= UartFifoLen)
    BY <1>3 DEF Uart!RxTask
  <2>7. Uart!TypeOK'
    <3>1. <<>> \in Seq(Uart!Byte) /\ Len(<<>>) <= UartFifoLen  BY RingSizes
    <3> QED  BY <1>1, <1>2, <2>5, <2>6, <3>1 DEF Uart!TypeOK
  <2>8. rx'.Space > 0  BY <2>2, <2>5, <2>6
  <2>9. Uart!InStep(rx)' /\ Uart!InStep(tx)'
    BY <1>1, <1>2, <2>5, <2>6 DEF Uart!InStep, Uart!Contents
  <2>10. Moved  BY <1>1, <2>3, <2>5, <2>6, RingStays DEF Moved
  <2> QED  BY <2>7, <2>8, <2>9, <2>10 DEF Uart!BufferInv
<1>4. CASE ~Uart!RoomForFifo
  <2>1. UNCHANGED <<rx, rxFifo, rxEnabled>>  BY <1>4 DEF Uart!RxTask
  <2>2. Uart!TypeOK'  BY <1>1, <1>2, <2>1 DEF Uart!TypeOK
  <2>3. Uart!InStep(rx)' /\ Uart!InStep(tx)'  BY <1>1, <1>2, <2>1 DEF Uart!InStep, Uart!Contents
  <2> QED  BY <1>1, <1>2, <2>1, <2>2, <2>3, RingStays DEF Uart!BufferInv, Moved
<1> QED  BY <1>3, <1>4

LEMMA TestRxMoves == ASSUME Uart!BufferInv, Uart!TestRx PROVE Uart!BufferInv' /\ Moved
<1>1. PICK bytes, k : /\ k = Uart!DeqLen(rx, TestLen) /\ bytes = SubSeq(Uart!Contents(rx), 1, k)
                      /\ rx' = Uart!Deq(rx, TestLen)
                      /\ tx' = IF Uart!TxRoom(bytes) THEN Uart!Uart_Buf_Cpy(tx, bytes) ELSE tx
                      /\ rxEnabled' = (rxEnabled \/ Uart!EnoughSpace(rx')) /\ txEnabled' = TRUE
                      /\ UNCHANGED <<rxFifo, txFifo, rxStatus, posted, echoed>>
  BY DEF Uart!TestRx
<1>2. /\ Uart!TypeOK /\ Uart!InStep(rx) /\ Uart!InStep(tx) /\ rx.Space > 0
      /\ rx \in Uart!Ring /\ tx \in Uart!Ring
  BY DEF Uart!BufferInv, Uart!TypeOK
<1>3. /\ k \in 0 .. RingSize - rx.Space
      /\ rx' = [rx EXCEPT !.pOutPos = (@ + k) % RingSize, !.Space = @ + k]
  BY <1>1, <1>2, DeqRounds, RingSizes
<1>n. PICK n \in 0 .. RingSize - rx.Space : n = k  BY <1>3
<1>4. PICK new, most :
        /\ new = rx' /\ new = [rx EXCEPT !.pOutPos = (@ + n) % RingSize, !.Space = @ + n]
        /\ most = RingSize - 1
  BY <1>n, <1>3
<1>5. /\ new \in Uart!Ring /\ Uart!InStep(new) /\ new.Space = rx.Space + n
      /\ Moves(Uart!Contents(rx), Uart!Contents(new), most)
  BY <1>2, <1>4, TakeOut
<1>6. new.Space > 0
  <2>1. PICK space \in Nat : space = rx.Space /\ space > 0  BY <1>2, RingSizes DEF Uart!Ring
  <2> QED  BY <1>4, <1>5, <2>1, RingSizes
<1>7. bytes \in Seq(Uart!Byte) /\ Len(bytes) = n
  BY <1>1, <1>2, <1>n, RingHolds
<1>8. tx' \in Uart!Ring /\ Uart!InStep(tx') /\ Moves(Uart!Contents(tx), Uart!Contents(tx'), RingSize)
  <2>1. CASE Uart!TxRoom(bytes)
    <3>0. PICK size \in Nat : size = RingSize  BY RingSizes
    <3>1. PICK space \in Nat : size = RingSize /\ space = tx.Space  BY <1>2, <3>0 DEF Uart!Ring
    <3>2. PICK m \in Nat : m = Len(bytes) /\ m <= space  BY <1>7, <2>1, <3>1 DEF Uart!TxRoom
    <3>3. PICK bound \in Int : bound = RingSize /\ RingSize - (tx.Space - m) <= bound
      BY <3>1, <3>2
    <3>4. /\ Uart!Uart_Buf_Cpy(tx, bytes) \in Uart!Ring
          /\ Uart!InStep(Uart!Uart_Buf_Cpy(tx, bytes))
          /\ Moves(Uart!Contents(tx), Uart!Contents(Uart!Uart_Buf_Cpy(tx, bytes)), bound)
      BY <1>2, <1>7, <3>1, <3>2, <3>3, PutIn
    <3> QED  BY <1>1, <2>1, <3>3, <3>4
  <2>2. CASE ~Uart!TxRoom(bytes)
    BY <1>1, <1>2, <2>2, RingStays
  <2> QED  BY <2>1, <2>2
<1>9. Uart!TypeOK'  BY <1>1, <1>2, <1>4, <1>5, <1>8 DEF Uart!TypeOK, Uart!EnoughSpace
<1>10. Uart!InStep(rx)' /\ Uart!InStep(tx)'  BY <1>4, <1>5, <1>8 DEF Uart!InStep, Uart!Contents
<1>11. Moved  BY <1>4, <1>5, <1>8 DEF Moved
<1> QED  BY <1>4, <1>6, <1>9, <1>10, <1>11 DEF Uart!BufferInv

LEMMA TxInterruptMoves == ASSUME Uart!BufferInv, Uart!TxInterrupt PROVE Uart!BufferInv' /\ Moved
<1>1. PICK remain, n :
        /\ remain = UartFifoLen - Len(txFifo)
        /\ n = IF RingSize - tx.Space > remain THEN remain ELSE RingSize - tx.Space
        /\ Len(txFifo) < UartFifoLen
        /\ txFifo' = txFifo \o SubSeq(Uart!Contents(tx), 1, n)
        /\ tx' = [tx EXCEPT !.pOutPos = (@ + n) % RingSize, !.Space = @ + n]
        /\ txEnabled' = Uart!MoreToSend(n)
        /\ UNCHANGED <<rxFifo, rxEnabled, rxStatus, posted, rx, echoed>>
  BY DEF Uart!TxInterrupt
<1>2. /\ Uart!TypeOK /\ Uart!InStep(rx) /\ Uart!InStep(tx) /\ rx.Space > 0
      /\ rx \in Uart!Ring /\ tx \in Uart!Ring
      /\ txFifo \in Seq(Uart!Byte) /\ Len(txFifo) <= UartFifoLen
  BY DEF Uart!BufferInv, Uart!TypeOK
<1>s. PICK size \in Nat : size = RingSize  BY RingSizes
<1>3. PICK space \in 0 .. size : space = tx.Space  BY <1>2, <1>s DEF Uart!Ring
<1>f. PICK f \in Nat : f = UartFifoLen  BY RingSizes
<1>4. PICK l \in Nat : l = Len(txFifo) /\ f = UartFifoLen /\ l < f
  <2>1. Len(txFifo) \in Nat /\ Len(txFifo) < UartFifoLen  BY <1>1, <1>2
  <2> QED  BY <1>f, <2>1
<1>5. n \in 0 .. size - space /\ n <= f - l
  BY <1>1, <1>s, <1>3, <1>4
<1>m. PICK m \in 0 .. RingSize - tx.Space : m = n  BY <1>s, <1>3, <1>5
<1>6. PICK new, most :
        /\ new = tx' /\ new = [tx EXCEPT !.pOutPos = (@ + m) % RingSize, !.Space = @ + m]
        /\ most = RingSize
  BY <1>1, <1>m
<1>7. /\ new \in Uart!Ring /\ Uart!InStep(new) /\ Moves(Uart!Contents(tx), Uart!Contents(new), most)
  BY <1>2, <1>6, TakeOut
<1>8. txFifo' \in Seq(Uart!Byte) /\ Len(txFifo') <= UartFifoLen
  <2>1. PICK bytes \in Seq(Uart!Byte) : bytes = SubSeq(Uart!Contents(tx), 1, n) /\ Len(bytes) = n
    BY <1>2, <1>m, RingHolds
  <2>2. txFifo \o bytes \in Seq(Uart!Byte) /\ Len(txFifo \o bytes) = Len(txFifo) + Len(bytes)
    BY <1>2, ConcatProperties
  <2>3. l + n <= f  BY <1>4, <1>5
  <2> QED  BY <1>1, <1>4, <2>1, <2>2, <2>3
<1>9. Uart!TypeOK'
  <2>1. txEnabled' \in BOOLEAN  BY <1>1 DEF Uart!MoreToSend
  <2>2. tx' \in Uart!Ring  BY <1>6, <1>7
  <2>3. UNCHANGED <<rxFifo, rxEnabled, rxStatus, posted, rx, echoed>>  BY <1>1
  <2> QED  BY <1>2, <1>8, <2>1, <2>2, <2>3 DEF Uart!TypeOK
<1>10. Uart!InStep(rx)' /\ Uart!InStep(tx)'
  BY <1>1, <1>2, <1>6, <1>7 DEF Uart!InStep, Uart!Contents
<1>11. Moved  BY <1>1, <1>6, <1>7, RingStays DEF Moved
<1> QED  BY <1>1, <1>2, <1>9, <1>10, <1>11 DEF Uart!BufferInv

LEMMA RingsAlone ==
    ASSUME Uart!BufferInv, UNCHANGED <<rx, tx>>, Uart!TypeOK'
    PROVE  Uart!BufferInv' /\ Moved
<1>1. Uart!InStep(rx)' /\ Uart!InStep(tx)'  BY DEF Uart!BufferInv, Uart!InStep, Uart!Contents
<1> QED  BY <1>1, RingStays DEF Uart!BufferInv, Moved

LEMMA UartStep == ASSUME Uart!BufferInv, Uart!Next PROVE Uart!BufferInv' /\ Moved
<1>1. CASE Uart!Receive  BY <1>1, ReceiveMoves
<1>2. CASE Uart!Raise
  <2>1. Uart!TypeOK'  BY <1>2 DEF Uart!Raise, Uart!BufferInv, Uart!TypeOK
  <2> QED  BY <1>2, <2>1, RingsAlone DEF Uart!Raise
<1>3. CASE Uart!RxInterrupt
  <2>1. Uart!TypeOK'  BY <1>3 DEF Uart!RxInterrupt, Uart!BufferInv, Uart!TypeOK
  <2> QED  BY <1>3, <2>1, RingsAlone DEF Uart!RxInterrupt
<1>4. CASE Uart!RxTask  BY <1>4, RxTaskMoves
<1>5. CASE Uart!TestRx  BY <1>5, TestRxMoves
<1>6. CASE Uart!TxInterrupt  BY <1>6, TxInterruptMoves
<1>7. CASE Uart!Wire
  <2>1. txFifo' \in Seq(Uart!Byte) /\ Len(txFifo') <= UartFifoLen
    <3>1. txFifo \in Seq(Uart!Byte) /\ Len(txFifo) <= UartFifoLen /\ UartFifoLen \in Nat
      BY RingSizes DEF Uart!BufferInv, Uart!TypeOK
    <3>2. txFifo # <<>> /\ txFifo' = Tail(txFifo)  BY <1>7 DEF Uart!Wire
    <3>3. Tail(txFifo) \in Seq(Uart!Byte) /\ Len(Tail(txFifo)) = Len(txFifo) - 1
      BY <3>1, <3>2, HeadTailProperties
    <3> QED  BY <3>1, <3>2, <3>3
  <2>2. Uart!TypeOK'  BY <1>7, <2>1 DEF Uart!Wire, Uart!BufferInv, Uart!TypeOK
  <2> QED  BY <1>7, <2>2, RingsAlone DEF Uart!Wire
<1> QED  BY <1>1, <1>2, <1>3, <1>4, <1>5, <1>6, <1>7 DEF Uart!Next

LEMMA UartStands == ASSUME Uart!BufferInv, UNCHANGED uartVars PROVE Uart!BufferInv' /\ Moved
<1>1. Uart!TypeOK'  BY DEF uartVars, Uart!BufferInv, Uart!TypeOK
<1> QED  BY <1>1, RingsAlone DEF uartVars

\* Both rings of the buffered driver are queues, whatever their size and that
\* of the FIFO: wherever the positions are, bytes go round the end or are copied
\* in two pieces, nothing that was accepted is lost, repeated or overtaken
\* (Uart_Buf_Cpy, rx_buff_deq, tx_start_uart_buffer).
THEOREM RingsAreQueuesCorrect == FirmwareSpec => RingsAreQueues
<1>1. FirmwareInit => Uart!BufferInv /\ Uart!RxQueue!Init /\ Uart!TxQueue!Init
  BY RingsInitially DEF FirmwareInit, Uart!RxQueue!Init, Uart!TxQueue!Init
<1>2. /\ Uart!BufferInv
      /\ [FirmwareNext]_<<part, vars, patientVars, writerVars, consoleVars, uartVars>>
      => Uart!BufferInv' /\ Moved
  <2> SUFFICES ASSUME Uart!BufferInv,
                      [FirmwareNext]_<<part, vars, patientVars, writerVars, consoleVars, uartVars>>
               PROVE  Uart!BufferInv' /\ Moved
    OBVIOUS
  <2>1. CASE Uart!Next  BY <2>1, UartStep
  <2>2. CASE UNCHANGED uartVars  BY <2>2, UartStands
  <2> QED  BY <2>1, <2>2 DEF FirmwareNext
<1>3. Moved => [Uart!RxQueue!Next]_(Uart!Contents(rx))
  <2> SUFFICES ASSUME Moved PROVE Uart!Contents(rx)' = Uart!Contents(rx) \/ Uart!RxQueue!Next
    OBVIOUS
  <2>1. Uart!Contents(rx)' = Uart!Contents(rx')  BY DEF Uart!Contents
  <2> QED
    BY <2>1 DEF Moved, Moves, Puts, Gets, Uart!RxQueue!Next, Uart!RxQueue!Put, Uart!RxQueue!Get
<1>4. Moved => [Uart!TxQueue!Next]_(Uart!Contents(tx))
  <2> SUFFICES ASSUME Moved PROVE Uart!Contents(tx)' = Uart!Contents(tx) \/ Uart!TxQueue!Next
    OBVIOUS
  <2>1. Uart!Contents(tx)' = Uart!Contents(tx')  BY DEF Uart!Contents
  <2> QED
    BY <2>1 DEF Moved, Moves, Puts, Gets, Uart!TxQueue!Next, Uart!TxQueue!Put, Uart!TxQueue!Get
<1>5. FirmwareSpec => /\ FirmwareInit
                      /\ [][FirmwareNext]_<<part, vars, patientVars, writerVars, consoleVars, uartVars>>
  BY PTL DEF FirmwareSpec
<1> QED
  BY <1>1, <1>2, <1>3, <1>4, <1>5, PTL
     DEF RingsAreQueues, Uart!RxIsQueue, Uart!TxIsQueue, Uart!RxQueue!Spec, Uart!TxQueue!Spec

-----------------------------------------------------------------------------
(* The order of what is under way. *)

UpTo(s, m) == \A i \in 1 .. Len(s) : s[i] <= m

\* A place in r is one in q or one in what follows.
SideBySide(q, b, r) ==
    /\ \A i \in 1 .. Len(q) : i \in 1 .. Len(r) /\ r[i] = q[i]
    /\ \A j \in 1 .. Len(b) : Len(q) + j \in 1 .. Len(r) /\ r[Len(q) + j] = b[j]
    /\ \A k \in 1 .. Len(r) : k \in 1 .. Len(q) \/ \E j \in 1 .. Len(b) : k = Len(q) + j

LEMMA JoinPlaces ==
    ASSUME NEW q \in Seq(Int), NEW b \in Seq(Int), NEW r \in Seq(Int), Joins(q, b, r)
    PROVE  SideBySide(q, b, r)
<1>1. PICK n \in Nat, m \in Nat : n = Len(q) /\ m = Len(b) /\ Len(r) = n + m  BY DEF Joins
<1>2. ASSUME NEW k \in 1 .. Len(r)
      PROVE  k \in 1 .. Len(q) \/ \E j \in 1 .. Len(b) : k = Len(q) + j
  <2>1. CASE k <= n  BY <1>1, <2>1
  <2>2. CASE k > n
    <3>1. k - n \in 1 .. Len(b) /\ k = Len(q) + (k - n)  BY <1>1, <2>2
    <3> QED  BY <3>1
  <2> QED  BY <1>1, <2>1, <2>2
<1>3. \A i \in 1 .. Len(q) : i \in 1 .. Len(r)  BY <1>1
<1>4. \A j \in 1 .. Len(b) : Len(q) + j \in 1 .. Len(r)  BY <1>1
<1> QED  BY <1>2, <1>3, <1>4 DEF Joins, SideBySide

\* What comes before r comes before both.
Ordered(q, b, r) ==
    /\ \A s \in Seq(Int) :
        /\ Uart!Before(r, s) <=> Uart!Before(q, s) /\ Uart!Before(b, s)
        /\ Uart!Before(s, r) <=> Uart!Before(s, q) /\ Uart!Before(s, b)
    /\ \A m \in Nat : UpTo(r, m) <=> UpTo(q, m) /\ UpTo(b, m)

LEMMA JoinBefore ==
    ASSUME NEW q \in Seq(Int), NEW b \in Seq(Int), NEW r \in Seq(Int), Joins(q, b, r)
    PROVE  Ordered(q, b, r)
<1>0. SideBySide(q, b, r)  BY JoinPlaces
<1>1. /\ \A i \in 1 .. Len(q) : i \in 1 .. Len(r) /\ r[i] = q[i]
      /\ \A j \in 1 .. Len(b) : Len(q) + j \in 1 .. Len(r) /\ r[Len(q) + j] = b[j]
      /\ \A k \in 1 .. Len(r) : k \in 1 .. Len(q) \/ \E j \in 1 .. Len(b) : k = Len(q) + j
  BY <1>0 DEF SideBySide
<1>2. ASSUME NEW s \in Seq(Int)
      PROVE  Uart!Before(r, s) <=> Uart!Before(q, s) /\ Uart!Before(b, s)
  <2>1. Uart!Before(r, s) => Uart!Before(q, s) /\ Uart!Before(b, s)  BY <1>1 DEF Uart!Before
  <2>2. ASSUME Uart!Before(q, s), Uart!Before(b, s), NEW k \in 1 .. Len(r), NEW l \in 1 .. Len(s)
        PROVE  r[k] < s[l]
    <3>1. CASE k \in 1 .. Len(q)  BY <1>1, <2>2, <3>1 DEF Uart!Before
    <3>2. CASE \E j \in 1 .. Len(b) : k = Len(q) + j  BY <1>1, <2>2, <3>2 DEF Uart!Before
    <3> QED  BY <1>1, <3>1, <3>2
  <2> QED  BY <2>1, <2>2 DEF Uart!Before
<1>3. ASSUME NEW s \in Seq(Int)
      PROVE  Uart!Before(s, r) <=> Uart!Before(s, q) /\ Uart!Before(s, b)
  <2>1. Uart!Before(s, r) => Uart!Before(s, q) /\ Uart!Before(s, b)  BY <1>1 DEF Uart!Before
  <2>2. ASSUME Uart!Before(s, q), Uart!Before(s, b), NEW k \in 1 .. Len(r), NEW l \in 1 .. Len(s)
        PROVE  s[l] < r[k]
    <3>1. CASE k \in 1 .. Len(q)  BY <1>1, <2>2, <3>1 DEF Uart!Before
    <3>2. CASE \E j \in 1 .. Len(b) : k = Len(q) + j  BY <1>1, <2>2, <3>2 DEF Uart!Before
    <3> QED  BY <1>1, <3>1, <3>2
  <2> QED  BY <2>1, <2>2 DEF Uart!Before
<1>4. ASSUME NEW m \in Nat
      PROVE  UpTo(r, m) <=> UpTo(q, m) /\ UpTo(b, m)
  <2>1. UpTo(r, m) => UpTo(q, m) /\ UpTo(b, m)  BY <1>1 DEF UpTo
  <2>2. ASSUME UpTo(q, m), UpTo(b, m), NEW k \in 1 .. Len(r) PROVE r[k] <= m
    <3>1. CASE k \in 1 .. Len(q)  BY <1>1, <2>2, <3>1 DEF UpTo
    <3>2. CASE \E j \in 1 .. Len(b) : k = Len(q) + j  BY <1>1, <2>2, <3>2 DEF UpTo
    <3> QED  BY <1>1, <3>1, <3>2
  <2> QED  BY <2>1, <2>2 DEF UpTo
<1> QED  BY <1>2, <1>3, <1>4 DEF Ordered

LEMMA JoinIncreases ==
    ASSUME NEW q \in Seq(Int), NEW b \in Seq(Int), NEW r \in Seq(Int), Joins(q, b, r)
    PROVE  Uart!Increasing(r) <=> Uart!Increasing(q) /\ Uart!Increasing(b) /\ Uart!Before(q, b)
<1>0. SideBySide(q, b, r)  BY JoinPlaces
<1>1. /\ \A i \in 1 .. Len(q) : i \in 1 .. Len(r) /\ r[i] = q[i]
      /\ \A j \in 1 .. Len(b) : Len(q) + j \in 1 .. Len(r) /\ r[Len(q) + j] = b[j]
      /\ \A k \in 1 .. Len(r) : k \in 1 .. Len(q) \/ \E j \in 1 .. Len(b) : k = Len(q) + j
  BY <1>0 DEF SideBySide
<1>2. PICK n \in Nat : n = Len(q)  OBVIOUS
<1>3. ASSUME Uart!Increasing(r)
      PROVE  Uart!Increasing(q) /\ Uart!Increasing(b) /\ Uart!Before(q, b)
  <2>1. Uart!Increasing(q)  BY <1>1, <1>3 DEF Uart!Increasing
  <2>2. ASSUME NEW i \in 1 .. Len(b), NEW j \in 1 .. Len(b), i < j PROVE b[i] < b[j]
    <3>1. PICK k \in 1 .. Len(r), l \in 1 .. Len(r) :
            k = n + i /\ l = n + j /\ r[k] = b[i] /\ r[l] = b[j]
      BY <1>1, <1>2
    <3>2. k < l  BY <2>2, <3>1
    <3> QED  BY <1>3, <3>1, <3>2 DEF Uart!Increasing
  <2>3. ASSUME NEW i \in 1 .. Len(q), NEW j \in 1 .. Len(b) PROVE q[i] < b[j]
    <3>1. PICK k \in 1 .. Len(r), l \in 1 .. Len(r) :
            k = i /\ l = n + j /\ r[k] = q[i] /\ r[l] = b[j]
      BY <1>1, <1>2
    <3>2. k < l  BY <1>2, <3>1
    <3> QED  BY <1>3, <3>1, <3>2 DEF Uart!Increasing
  <2> QED  BY <2>1, <2>2, <2>3 DEF Uart!Increasing, Uart!Before
<1>4. ASSUME Uart!Increasing(q), Uart!Increasing(b), Uart!Before(q, b),
             NEW k \in 1 .. Len(r), NEW l \in 1 .. Len(r), k < l
      PROVE  r[k] < r[l]
  <2>1. CASE k \in 1 .. n /\ l \in 1 .. n
    BY <1>1, <1>2, <1>4, <2>1 DEF Uart!Increasing
  <2>2. CASE k \in 1 .. n /\ \E j \in 1 .. Len(b) : l = n + j
    BY <1>1, <1>2, <1>4, <2>2 DEF Uart!Before
  <2>3. CASE (\E i \in 1 .. Len(b) : k = n + i) /\ \E j \in 1 .. Len(b) : l = n + j
    <3>1. PICK i \in 1 .. Len(b), j \in 1 .. Len(b) : k = n + i /\ l = n + j  BY <2>3
    <3>2. i < j  BY <1>4, <3>1
    <3> QED  BY <1>1, <1>2, <1>4, <3>1, <3>2 DEF Uart!Increasing
  <2>4. ~((\E i \in 1 .. Len(b) : k = n + i) /\ l \in 1 .. n)  BY <1>4
  <2> QED  BY <1>1, <1>2, <2>1, <2>2, <2>3, <2>4
<1> QED  BY <1>3, <1>4 DEF Uart!Increasing

\* Five stages in order, no number in them above m.
Lined(a, b, c, d, e, m) ==
    /\ Uart!Increasing(a) /\ Uart!Increasing(b) /\ Uart!Increasing(c) /\ Uart!Increasing(d)
    /\ Uart!Increasing(e)
    /\ UpTo(a, m) /\ UpTo(b, m) /\ UpTo(c, m) /\ UpTo(d, m) /\ UpTo(e, m)
    /\ Uart!Before(a, b) /\ Uart!Before(a, c) /\ Uart!Before(a, d) /\ Uart!Before(a, e)
    /\ Uart!Before(b, c) /\ Uart!Before(b, d) /\ Uart!Before(b, e)
    /\ Uart!Before(c, d) /\ Uart!Before(c, e)
    /\ Uart!Before(d, e)

LEMMA StagesLined ==
    Uart!StagesInOrder <=>
        /\ sent \in Seq(Uart!Byte)
        /\ Lined(sent, txFifo, Uart!Contents(tx), Uart!Contents(rx), rxFifo, echoed)
<1>1. /\ Uart!Stages[1] = sent /\ Uart!Stages[2] = txFifo /\ Uart!Stages[3] = Uart!Contents(tx)
      /\ Uart!Stages[4] = Uart!Contents(rx) /\ Uart!Stages[5] = rxFifo
  BY DEF Uart!Stages
<1>2. 1 .. 5 = {1, 2, 3, 4, 5}  OBVIOUS
<1>3. /\ 1 + 1 .. 5 = {2, 3, 4, 5} /\ 2 + 1 .. 5 = {3, 4, 5} /\ 3 + 1 .. 5 = {4, 5}
      /\ 4 + 1 .. 5 = {5} /\ 5 + 1 .. 5 = {}
  OBVIOUS
<1> HIDE DEF Uart!Stages
<1>4. Uart!StagesInOrder <=>
        /\ sent \in Seq(Uart!Byte)
        /\ \A a \in {1, 2, 3, 4, 5} :
            /\ Uart!Increasing(Uart!Stages[a]) /\ UpTo(Uart!Stages[a], echoed)
            /\ \A b \in a + 1 .. 5 : Uart!Before(Uart!Stages[a], Uart!Stages[b])
  BY <1>2, Zenon DEF Uart!StagesInOrder, UpTo
<1> QED  BY <1>1, <1>3, <1>4 DEF Lined

LEMMA Joinings ==
    ASSUME NEW s \in Seq(Int), NEW t \in Seq(Int), NEW x \in Int
    PROVE  /\ Joins(s, t, s \o t) /\ Joins(s, <<>>, s) /\ Joins(s, <<x>>, Append(s, x))
           /\ s # <<>> => Joins(<<Head(s)>>, Tail(s), s)
<1>1. Joins(s, t, s \o t)
  <2>1. /\ Len(s \o t) = Len(s) + Len(t)
        /\ \A i \in 1 .. Len(s) + Len(t) :
            (s \o t)[i] = IF i <= Len(s) THEN s[i] ELSE t[i - Len(s)]
    BY ConcatProperties
  <2>2. ASSUME NEW i \in 1 .. Len(t) PROVE (s \o t)[Len(s) + i] = t[i]
    <3>1. PICK n \in Nat, k \in Int : n = Len(s) /\ k = n + i /\ k - n = i /\ ~(k <= n)  OBVIOUS
    <3>2. k \in 1 .. Len(s) + Len(t)  BY <3>1
    <3>3. (s \o t)[k] = IF k <= n THEN s[k] ELSE t[k - n]  BY <2>1, <3>1, <3>2
    <3> QED  BY <3>1, <3>3
  <2>3. \A i \in 1 .. Len(s) : (s \o t)[i] = s[i]  BY <2>1
  <2> QED  BY <2>1, <2>2, <2>3 DEF Joins
<1>2. Joins(s, <<>>, s)  BY DEF Joins
<1>3. Joins(s, <<x>>, Append(s, x))
  <2>1. /\ Len(Append(s, x)) = Len(s) + 1 /\ Append(s, x)[Len(s) + 1] = x
        /\ \A i \in 1 .. Len(s) : Append(s, x)[i] = s[i]
    BY AppendProperties
  <2> QED  BY <2>1 DEF Joins
<1>4. ASSUME s # <<>> PROVE Joins(<<Head(s)>>, Tail(s), s)
  <2>1. /\ Len(Tail(s)) = Len(s) - 1 /\ Head(s) = s[1]
        /\ \A i \in 1 .. Len(Tail(s)) : Tail(s)[i] = s[i + 1]
    BY <1>4, HeadTailProperties
  <2> QED  BY <1>4, <2>1 DEF Joins
<1> QED  BY <1>1, <1>2, <1>3, <1>4

\* What moving numbers from a stage to the one before it keeps, if some of them
\* are lost on the way too.
Passed(x, y, x2, y2) ==
    /\ Uart!Increasing(x) /\ Uart!Increasing(y) /\ Uart!Before(x, y) =>
        Uart!Increasing(x2) /\ Uart!Increasing(y2) /\ Uart!Before(x2, y2)
    /\ \A m \in Nat : UpTo(x, m) /\ UpTo(y, m) => UpTo(x2, m) /\ UpTo(y2, m)
    /\ \A z \in Seq(Int) :
        /\ Uart!Before(z, x) /\ Uart!Before(z, y) => Uart!Before(z, x2) /\ Uart!Before(z, y2)
        /\ Uart!Before(x, z) /\ Uart!Before(y, z) => Uart!Before(x2, z) /\ Uart!Before(y2, z)

LEMMA Passing ==
    ASSUME NEW x \in Seq(Int), NEW h \in Seq(Int), NEW x2 \in Seq(Int),
           NEW y \in Seq(Int), NEW y2 \in Seq(Int), Joins(h, y2, y), Joins(x, h, x2) \/ x2 = x
    PROVE  Passed(x, y, x2, y2)
<1>1. Uart!Increasing(y) <=> Uart!Increasing(h) /\ Uart!Increasing(y2) /\ Uart!Before(h, y2)
  BY JoinIncreases
<1>2. Ordered(h, y2, y)  BY JoinBefore
<1>3. CASE x2 = x  BY <1>1, <1>2, <1>3 DEF Passed, Ordered
<1>4. CASE Joins(x, h, x2)
  <2>1. Uart!Increasing(x2) <=> Uart!Increasing(x) /\ Uart!Increasing(h) /\ Uart!Before(x, h)
    BY <1>4, JoinIncreases
  <2>2. Ordered(x, h, x2)  BY <1>4, JoinBefore
  <2> QED  BY <1>1, <1>2, <2>1, <2>2 DEF Passed, Ordered
<1> QED  BY <1>3, <1>4

LEMMA PassedOn ==
    ASSUME NEW a \in Seq(Int), NEW b \in Seq(Int), NEW c \in Seq(Int), NEW d \in Seq(Int),
           NEW e \in Seq(Int), NEW m \in Nat, Lined(a, b, c, d, e, m), NEW x, NEW y
    PROVE  /\ Passed(a, b, x, y) => Lined(x, y, c, d, e, m)
           /\ Passed(b, c, x, y) => Lined(a, x, y, d, e, m)
           /\ Passed(c, d, x, y) => Lined(a, b, x, y, e, m)
           /\ Passed(d, e, x, y) => Lined(a, b, c, x, y, m)
<1>1. Passed(a, b, x, y) => Lined(x, y, c, d, e, m)  BY DEF Lined, Passed
<1>2. Passed(b, c, x, y) => Lined(a, x, y, d, e, m)  BY DEF Lined, Passed
<1>3. Passed(c, d, x, y) => Lined(a, b, x, y, e, m)  BY DEF Lined, Passed
<1>4. Passed(d, e, x, y) => Lined(a, b, c, x, y, m)  BY DEF Lined, Passed
<1> QED  BY <1>1, <1>2, <1>3, <1>4

\* The next number comes after all of them.
LEMMA Later ==
    ASSUME NEW s \in Seq(Int), NEW m \in Nat, UpTo(s, m)
    PROVE  UpTo(s, m + 1) /\ Uart!Before(s, <<m + 1>>)
<1>1. ASSUME NEW i \in 1 .. Len(s) PROVE s[i] \in Int /\ s[i] < m + 1 /\ s[i] <= m + 1
  BY DEF UpTo
<1>2. <<m + 1>>[1] = m + 1 /\ 1 .. Len(<<m + 1>>) = {1}  OBVIOUS
<1> QED  BY <1>1, <1>2 DEF UpTo, Uart!Before

LEMMA NextNumber ==
    ASSUME NEW a \in Seq(Int), NEW b \in Seq(Int), NEW c \in Seq(Int), NEW d \in Seq(Int),
           NEW e \in Seq(Int), NEW m \in Nat, Lined(a, b, c, d, e, m)
    PROVE  Lined(a, b, c, d, e, m + 1) /\ Lined(a, b, c, d, Append(e, m + 1), m + 1)
<1>1. UpTo(a, m + 1) /\ UpTo(b, m + 1) /\ UpTo(c, m + 1) /\ UpTo(d, m + 1) /\ UpTo(e, m + 1)
  BY Later DEF Lined
<1>0. m + 1 \in Int /\ m + 1 \in Nat  OBVIOUS
<1>2. PICK one \in Seq(Int) : one = <<m + 1>>
  <2>1. <<m + 1>> \in Seq(Int)  BY <1>0
  <2> QED  BY <2>1
<1>3. /\ Uart!Before(a, one) /\ Uart!Before(b, one) /\ Uart!Before(c, one) /\ Uart!Before(d, one)
      /\ Uart!Before(e, one)
  BY <1>2, Later DEF Lined
<1>4. Uart!Increasing(one) /\ UpTo(one, m + 1)  BY <1>2 DEF Uart!Increasing, UpTo
<1>5. PICK x \in Int : x = m + 1  BY <1>0
<1>6. PICK more \in Seq(Int) : more = Append(e, m + 1) /\ Joins(e, one, more)
  <2>1. Append(e, x) \in Seq(Int)  BY AppendProperties
  <2>2. Joins(e, <<x>>, Append(e, x))  BY Joinings
  <2> QED  BY <1>2, <1>5, <2>1, <2>2
<1>7. Ordered(e, one, more)  BY <1>6, JoinBefore
<1>8. UpTo(more, m + 1)  BY <1>0, <1>1, <1>4, <1>7 DEF Ordered
<1>9. Uart!Increasing(more)
  <2>1. Uart!Increasing(more) <=> Uart!Increasing(e) /\ Uart!Increasing(one) /\ Uart!Before(e, one)
    <3>1. Joins(e, one, more)  BY <1>6
    <3> QED  BY <3>1, JoinIncreases
  <2> QED  BY <1>3, <1>4, <2>1 DEF Lined
<1>10. Lined(a, b, c, d, e, m + 1)  BY <1>1 DEF Lined
<1>11. Lined(a, b, c, d, more, m + 1)  BY <1>1, <1>3, <1>7, <1>8, <1>9 DEF Lined, Ordered
<1> QED  BY <1>6, <1>10, <1>11

LEMMA RingBytes ==
    ASSUME NEW ring \in Uart!Ring, Uart!InStep(ring)
    PROVE  Uart!Contents(ring) \in Seq(Uart!Byte)
<1>1. PICK size \in Nat \ {0} : size = RingSize  BY RingSizes
<1>2. PICK cells \in [0 .. size - 1 -> Uart!Byte \cup {0}],
           out \in 0 .. size - 1, in \in 0 .. size - 1, used \in Nat :
        IsRing(ring, size, cells, out, in, used)
  BY <1>1, RingIs
<1> QED  BY <1>2, RingMakes

LEMMA BytesAreNumbers == Seq(Uart!Byte) \subseteq Seq(Int)
<1>1. Uart!Byte \subseteq Int  BY DEF Uart!Byte
<1> QED  BY <1>1, SeqMonotonic

\* The stages, as sequences of numbers in order.
OnTheWay ==
    /\ sent \in Seq(Uart!Byte)
    /\ Lined(sent, txFifo, Uart!Contents(tx), Uart!Contents(rx), rxFifo, echoed)

LEMMA StagesAre ==
    ASSUME Uart!BufferInv
    PROVE  /\ txFifo \in Seq(Uart!Byte) /\ rxFifo \in Seq(Uart!Byte)
           /\ Uart!Contents(tx) \in Seq(Uart!Byte) /\ Uart!Contents(rx) \in Seq(Uart!Byte)
           /\ txFifo \in Seq(Int) /\ rxFifo \in Seq(Int)
           /\ Uart!Contents(tx) \in Seq(Int) /\ Uart!Contents(rx) \in Seq(Int)
           /\ echoed \in Nat
<1>1. txFifo \in Seq(Uart!Byte) /\ rxFifo \in Seq(Uart!Byte)  BY DEF Uart!BufferInv, Uart!TypeOK
<1>2. Uart!Contents(tx) \in Seq(Uart!Byte) /\ Uart!Contents(rx) \in Seq(Uart!Byte)
  BY RingBytes DEF Uart!BufferInv, Uart!TypeOK
<1>3. echoed \in Nat  BY RingSizes DEF Uart!BufferInv, Uart!TypeOK
<1> QED  BY <1>1, <1>2, <1>3, BytesAreNumbers

LEMMA WireInOrder == ASSUME Uart!BufferInv, OnTheWay, Uart!Wire PROVE OnTheWay'
<1>1. /\ txFifo # <<>> /\ sent' = Append(sent, Head(txFifo)) /\ txFifo' = Tail(txFifo)
      /\ UNCHANGED <<tx, rx, rxFifo, echoed>>
  BY DEF Uart!Wire
<1>2. /\ txFifo \in Seq(Uart!Byte) /\ sent \in Seq(Uart!Byte) /\ sent \in Seq(Int)
      /\ Lined(sent, txFifo, Uart!Contents(tx), Uart!Contents(rx), rxFifo, echoed)
  BY StagesAre, BytesAreNumbers DEF OnTheWay
<1>3. Head(txFifo) \in Uart!Byte /\ Tail(txFifo) \in Seq(Uart!Byte)
  BY <1>1, <1>2, HeadTailProperties
<1>4. sent' \in Seq(Uart!Byte)  BY <1>1, <1>2, <1>3, AppendProperties
<1>5. PICK h \in Seq(Int), s2 \in Seq(Int), f \in Seq(Int), f2 \in Seq(Int) :
        h = <<Head(txFifo)>> /\ s2 = sent' /\ f = txFifo /\ f2 = txFifo'
  <2>1. <<Head(txFifo)>> \in Seq(Uart!Byte)  BY <1>3
  <2> QED  BY <1>1, <1>2, <1>3, <1>4, <2>1, BytesAreNumbers
<1>6. Joins(h, f2, f) /\ Joins(sent, h, s2)
  <2>1. PICK x \in Int : x = Head(txFifo)  BY <1>3 DEF Uart!Byte
  <2>2. Joins(sent, <<x>>, Append(sent, x))  BY <1>2, Joinings
  <2>3. f # <<>> => Joins(<<Head(f)>>, Tail(f), f)  BY <2>1, Joinings
  <2> QED  BY <1>1, <1>5, <2>1, <2>2, <2>3
<1>7. Passed(sent, f, s2, f2)  BY <1>2, <1>6, Passing
<1>8. Lined(s2, f2, Uart!Contents(tx), Uart!Contents(rx), rxFifo, echoed)
  BY <1>2, <1>5, <1>7, StagesAre, PassedOn
<1> QED  BY <1>1, <1>4, <1>5, <1>8 DEF OnTheWay, Uart!Contents

LEMMA TxInterruptInOrder == ASSUME Uart!BufferInv, OnTheWay, Uart!TxInterrupt PROVE OnTheWay'
<1>1. PICK remain, n :
        /\ remain = UartFifoLen - Len(txFifo)
        /\ n = IF RingSize - tx.Space > remain THEN remain ELSE RingSize - tx.Space
        /\ Len(txFifo) < UartFifoLen
        /\ txFifo' = txFifo \o SubSeq(Uart!Contents(tx), 1, n)
        /\ tx' = [tx EXCEPT !.pOutPos = (@ + n) % RingSize, !.Space = @ + n]
        /\ UNCHANGED <<rxFifo, rx, echoed, sent>>
  BY DEF Uart!TxInterrupt
<1>2. /\ tx \in Uart!Ring /\ Uart!InStep(tx) /\ txFifo \in Seq(Uart!Byte)
  BY DEF Uart!BufferInv, Uart!TypeOK
<1>3. PICK size \in Nat, f \in Nat, l \in Nat, space \in Nat :
        /\ size = RingSize /\ f = UartFifoLen /\ l = Len(txFifo) /\ l < f
        /\ space = tx.Space /\ space <= size
  <2>1. Len(txFifo) \in Nat  BY <1>2
  <2> QED  BY <1>1, <1>2, <2>1, RingSizes DEF Uart!Ring
<1>4. PICK m \in 0 .. RingSize - tx.Space : m = n
  <2>1. n \in 0 .. size - space  BY <1>1, <1>3
  <2> QED  BY <1>3, <2>1
<1>5. PICK new, most : new = tx' /\ new = [tx EXCEPT !.pOutPos = (@ + m) % RingSize, !.Space = @ + m]
  BY <1>1, <1>4
<1>6. /\ new \in Uart!Ring /\ Uart!InStep(new)
      /\ Joins(SubSeq(Uart!Contents(tx), 1, m), Uart!Contents(new), Uart!Contents(tx))
  BY <1>2, <1>5, TakeOut
<1>7. PICK h \in Seq(Int), t \in Seq(Int), t2 \in Seq(Int), f2 \in Seq(Int) :
        /\ h = SubSeq(Uart!Contents(tx), 1, m) /\ t = Uart!Contents(tx) /\ t2 = Uart!Contents(new)
        /\ f2 = txFifo \o h
  <2>1. SubSeq(Uart!Contents(tx), 1, m) \in Seq(Int)  BY <1>2, RingHolds, BytesAreNumbers
  <2>2. Uart!Contents(new) \in Seq(Int)  BY <1>6, RingBytes, BytesAreNumbers
  <2>3. txFifo \o SubSeq(Uart!Contents(tx), 1, m) \in Seq(Int)
    BY <1>2, <2>1, BytesAreNumbers, ConcatProperties
  <2> QED  BY <2>1, <2>2, <2>3, StagesAre
<1>8. Joins(h, t2, t) /\ Joins(txFifo, h, f2)
  <2>1. PICK x \in Seq(Int) : x = txFifo  BY StagesAre
  <2>2. \A z \in Int : Joins(x, h, x \o h)  BY Joinings
  <2> QED  BY <1>6, <1>7, <2>1, <2>2
<1>9. Passed(txFifo, t, f2, t2)  BY <1>2, <1>8, BytesAreNumbers, Passing
<1>10. sent \in Seq(Int) /\ Lined(sent, txFifo, t, Uart!Contents(rx), rxFifo, echoed)
  BY <1>7, BytesAreNumbers DEF OnTheWay
<1>11. Lined(sent, f2, t2, Uart!Contents(rx), rxFifo, echoed)
  BY <1>9, <1>10, StagesAre, PassedOn
<1>12. txFifo' = f2 /\ Uart!Contents(tx)' = t2
  <2>1. Uart!Contents(tx)' = Uart!Contents(tx')  BY DEF Uart!Contents
  <2>2. Uart!Contents(tx') = t2  BY <1>5, <1>7
  <2>3. txFifo' = f2  BY <1>1, <1>4, <1>7
  <2> QED  BY <2>1, <2>2, <2>3
<1>13. Uart!Contents(rx)' = Uart!Contents(rx)  BY <1>1 DEF Uart!Contents
<1> QED  BY <1>1, <1>11, <1>12, <1>13 DEF OnTheWay

LEMMA TestRxInOrder == ASSUME Uart!BufferInv, OnTheWay, Uart!TestRx PROVE OnTheWay'
<1>1. PICK bytes, k : /\ k = Uart!DeqLen(rx, TestLen) /\ bytes = SubSeq(Uart!Contents(rx), 1, k)
                      /\ rx' = Uart!Deq(rx, TestLen)
                      /\ tx' = IF Uart!TxRoom(bytes) THEN Uart!Uart_Buf_Cpy(tx, bytes) ELSE tx
                      /\ UNCHANGED <<rxFifo, txFifo, echoed, sent>>
  BY DEF Uart!TestRx
<1>2. /\ rx \in Uart!Ring /\ tx \in Uart!Ring /\ Uart!InStep(rx) /\ Uart!InStep(tx) /\ rx.Space > 0
  BY DEF Uart!BufferInv, Uart!TypeOK
<1>3. /\ k \in 0 .. RingSize - rx.Space
      /\ rx' = [rx EXCEPT !.pOutPos = (@ + k) % RingSize, !.Space = @ + k]
  BY <1>1, <1>2, DeqRounds, RingSizes
<1>4. PICK n \in 0 .. RingSize - rx.Space : n = k  BY <1>3
<1>5. PICK new, most : new = rx' /\ new = [rx EXCEPT !.pOutPos = (@ + n) % RingSize, !.Space = @ + n]
  BY <1>3, <1>4
<1>6. /\ new \in Uart!Ring /\ Uart!InStep(new)
      /\ Joins(SubSeq(Uart!Contents(rx), 1, n), Uart!Contents(new), Uart!Contents(rx))
  BY <1>2, <1>5, TakeOut
<1>7. bytes \in Seq(Uart!Byte) /\ Len(bytes) = n  BY <1>1, <1>2, <1>4, RingHolds
<1>8. /\ Uart!Contents(tx') \in Seq(Int)
      /\ Joins(Uart!Contents(tx), bytes, Uart!Contents(tx')) \/ Uart!Contents(tx') = Uart!Contents(tx)
  <2>1. CASE Uart!TxRoom(bytes)
    <3>s. PICK size \in Nat : size = RingSize  BY RingSizes
    <3>0. PICK space \in Nat : size = RingSize /\ space = tx.Space  BY <1>2, <3>s DEF Uart!Ring
    <3>m. PICK m \in Nat : m = Len(bytes) /\ m <= tx.Space  BY <1>7, <2>1 DEF Uart!TxRoom
    <3>1. PICK bound \in Int : bound = RingSize - (tx.Space - m)  BY <3>0, <3>m
    <3>2. RingSize - (tx.Space - m) <= bound  BY <3>0, <3>m, <3>1
    <3>3. /\ Uart!Uart_Buf_Cpy(tx, bytes) \in Uart!Ring
          /\ Uart!InStep(Uart!Uart_Buf_Cpy(tx, bytes))
          /\ Joins(Uart!Contents(tx), bytes, Uart!Contents(Uart!Uart_Buf_Cpy(tx, bytes)))
      BY <1>2, <1>7, <3>m, <3>1, <3>2, PutIn
    <3> QED  BY <1>1, <2>1, <3>3, RingBytes, BytesAreNumbers
  <2>2. CASE ~Uart!TxRoom(bytes)  BY <1>1, <2>2, StagesAre
  <2> QED  BY <2>1, <2>2
<1>9. PICK h \in Seq(Int), r \in Seq(Int), r2 \in Seq(Int), t \in Seq(Int), t2 \in Seq(Int) :
        /\ h = bytes /\ r = Uart!Contents(rx) /\ r2 = Uart!Contents(new)
        /\ t = Uart!Contents(tx) /\ t2 = Uart!Contents(tx')
  <2>1. Uart!Contents(new) \in Seq(Int)  BY <1>6, RingBytes, BytesAreNumbers
  <2> QED  BY <1>7, <1>8, <2>1, StagesAre, BytesAreNumbers
<1>10. Joins(h, r2, r) /\ (Joins(t, h, t2) \/ t2 = t)  BY <1>1, <1>4, <1>6, <1>8, <1>9
<1>11. Passed(t, r, t2, r2)  BY <1>10, Passing
<1>12. sent \in Seq(Int) /\ Lined(sent, txFifo, t, r, rxFifo, echoed)
  BY <1>9, BytesAreNumbers DEF OnTheWay
<1>13. Lined(sent, txFifo, t2, r2, rxFifo, echoed)  BY <1>11, <1>12, StagesAre, PassedOn
<1>14. Uart!Contents(tx)' = t2 /\ Uart!Contents(rx)' = r2  BY <1>5, <1>9 DEF Uart!Contents
<1> QED  BY <1>1, <1>13, <1>14 DEF OnTheWay

LEMMA RxTaskInOrder == ASSUME Uart!BufferInv, OnTheWay, Uart!RxTask PROVE OnTheWay'
<1>1. UNCHANGED <<txFifo, tx, echoed, sent>>  BY DEF Uart!RxTask
<1>2. /\ rx \in Uart!Ring /\ Uart!InStep(rx) /\ rxFifo \in Seq(Uart!Byte)
  BY DEF Uart!BufferInv, Uart!TypeOK
<1>3. Uart!Contents(tx)' = Uart!Contents(tx)  BY <1>1 DEF Uart!Contents
<1>4. CASE Uart!RoomForFifo
  <2>1. rx' = Uart!Uart_Buf_Cpy(rx, rxFifo) /\ rxFifo' = <<>>  BY <1>4 DEF Uart!RxTask
  <2>0. PICK size \in Nat, space \in Nat : size = RingSize /\ space = rx.Space
    BY <1>2, RingSizes DEF Uart!Ring
  <2>n. PICK n \in Nat : n = Len(rxFifo)  BY <1>2
  <2>m. n <= rx.Space  BY <1>4, <2>0, <2>n DEF Uart!RoomForFifo
  <2>2. PICK most \in Int : most = RingSize - (rx.Space - n)  BY <2>0, <2>n
  <2>3. RingSize - (rx.Space - n) <= most  BY <2>0, <2>n, <2>2
  <2>4. /\ Uart!Uart_Buf_Cpy(rx, rxFifo) \in Uart!Ring
        /\ Uart!InStep(Uart!Uart_Buf_Cpy(rx, rxFifo))
        /\ Joins(Uart!Contents(rx), rxFifo, Uart!Contents(Uart!Uart_Buf_Cpy(rx, rxFifo)))
    BY <1>2, <2>n, <2>m, <2>2, <2>3, PutIn
  <2>5. PICK h \in Seq(Int), r \in Seq(Int), r2 \in Seq(Int), none \in Seq(Int) :
          /\ h = rxFifo /\ r = Uart!Contents(rx) /\ r2 = Uart!Contents(rx') /\ none = <<>>
    <3>1. Uart!Contents(rx') \in Seq(Int)  BY <2>1, <2>4, RingBytes, BytesAreNumbers
    <3>2. rxFifo \in Seq(Int) /\ Uart!Contents(rx) \in Seq(Int) /\ <<>> \in Seq(Int)
      BY StagesAre
    <3> QED  BY <3>1, <3>2
  <2>6. Joins(h, none, h) /\ Joins(r, h, r2)  BY <2>1, <2>4, <2>5, Joinings
  <2>7. Passed(r, h, r2, none)  BY <2>6, Passing
  <2>8. sent \in Seq(Int) /\ Lined(sent, txFifo, Uart!Contents(tx), r, h, echoed)
    BY <2>5, BytesAreNumbers DEF OnTheWay
  <2>9. Lined(sent, txFifo, Uart!Contents(tx), r2, none, echoed)
    BY <2>7, <2>8, StagesAre, PassedOn
  <2>10. Uart!Contents(rx)' = r2  BY <2>5 DEF Uart!Contents
  <2> QED  BY <1>1, <1>3, <2>1, <2>5, <2>9, <2>10 DEF OnTheWay
<1>5. CASE ~Uart!RoomForFifo
  <2>1. UNCHANGED <<rx, rxFifo>>  BY <1>5 DEF Uart!RxTask
  <2> QED  BY <1>1, <2>1 DEF OnTheWay, Uart!Contents
<1> QED  BY <1>4, <1>5

LEMMA ReceiveInOrder == ASSUME Uart!BufferInv, OnTheWay, Uart!Receive PROVE OnTheWay'
<1>1. /\ echoed' = echoed + 1 /\ UNCHANGED <<txFifo, tx, rx, sent>>
      /\ rxFifo' = rxFifo \/ rxFifo' = Append(rxFifo, echoed + 1)
  BY DEF Uart!Receive
<1>2. sent \in Seq(Int) /\ Lined(sent, txFifo, Uart!Contents(tx), Uart!Contents(rx), rxFifo, echoed)
  BY BytesAreNumbers DEF OnTheWay
<1>3. /\ Lined(sent, txFifo, Uart!Contents(tx), Uart!Contents(rx), rxFifo, echoed + 1)
      /\ Lined(sent, txFifo, Uart!Contents(tx), Uart!Contents(rx), Append(rxFifo, echoed + 1),
               echoed + 1)
  BY <1>2, StagesAre, NextNumber
<1> QED  BY <1>1, <1>3 DEF OnTheWay, Uart!Contents

LEMMA OrderStands ==
    ASSUME OnTheWay, UNCHANGED <<sent, txFifo, tx, rx, rxFifo, echoed>> PROVE OnTheWay'
  BY DEF OnTheWay, Uart!Contents

LEMMA OrderStep == ASSUME Uart!BufferInv, OnTheWay, Uart!Next PROVE OnTheWay'
<1>1. CASE Uart!Receive  BY <1>1, ReceiveInOrder
<1>2. CASE Uart!Raise  BY <1>2, OrderStands DEF Uart!Raise
<1>3. CASE Uart!RxInterrupt  BY <1>3, OrderStands DEF Uart!RxInterrupt
<1>4. CASE Uart!RxTask  BY <1>4, RxTaskInOrder
<1>5. CASE Uart!TestRx  BY <1>5, TestRxInOrder
<1>6. CASE Uart!TxInterrupt  BY <1>6, TxInterruptInOrder
<1>7. CASE Uart!Wire  BY <1>7, WireInOrder
<1> QED  BY <1>1, <1>2, <1>3, <1>4, <1>5, <1>6, <1>7 DEF Uart!Next

LEMMA OrderInitially == ASSUME Uart!Init PROVE OnTheWay
<1>1. /\ sent = <<>> /\ txFifo = <<>> /\ rxFifo = <<>> /\ echoed = 0
      /\ Uart!Contents(rx) = <<>> /\ Uart!Contents(tx) = <<>>
  BY RingsInitially DEF Uart!Init
<1>2. Uart!Increasing(<<>>) /\ Uart!Before(<<>>, <<>>) /\ UpTo(<<>>, 0)
  BY DEF Uart!Increasing, Uart!Before, UpTo
<1> QED  BY <1>1, <1>2 DEF OnTheWay, Lined

LEMMA EchoedInOrder == ASSUME OnTheWay PROVE Uart!StagesInOrder /\ Uart!EchoInOrder
<1>1. Uart!StagesInOrder  BY StagesLined DEF OnTheWay
<1>2. ASSUME NEW i \in 1 .. Len(sent) - 1 PROVE sent[i] < sent[i + 1]
  <2>1. sent \in Seq(Uart!Byte) /\ Uart!Increasing(sent)  BY DEF OnTheWay, Lined
  <2>2. i \in 1 .. Len(sent) /\ i + 1 \in 1 .. Len(sent) /\ i < i + 1  BY <2>1
  <2> QED  BY <2>1, <2>2 DEF Uart!Increasing
<1> QED  BY <1>1, <1>2 DEF Uart!EchoInOrder

-----------------------------------------------------------------------------
(* The second instance of the update, in which the shell switches ROMs.     *)

PatientHolds == Patient!TypeOK /\ Patient!RunsConfigured

PatientConn == [Patient!Attempt -> {"none", "lookup", "connecting", "open", "closing", "freed"}]
PatientUpgrade ==
    [pointer : {"null", "live", "dangling"}, conn : 0 .. MaxStarts,
     total_len : Nat, content_len : {0} \cup Lengths, rom_slot : Patient!Slot]

LEMMA NoneIsTyped ==
    ASSUME NEW p \in {"null", "dangling"} PROVE Patient!NoUpgrade(p) \in PatientUpgrade
  BY LengthsAreNumbers DEF Patient!NoUpgrade, PatientUpgrade, Patient!Slot

LEMMA PatientInitially == ASSUME Patient!Init PROVE PatientHolds
<1>1. upgrade2 \in PatientUpgrade  BY NoneIsTyped DEF Patient!Init
<1>2. started2 \in 0 .. MaxStarts  BY LengthsAreNumbers DEF Patient!Init
<1>3. conn2 \in PatientConn  BY DEF Patient!Init, PatientConn
<1>4. rom2 \in [Patient!Slot -> {"old", "partial", "complete"}]  BY DEF Patient!Init
<1> QED
  BY <1>1, <1>2, <1>3, <1>4
     DEF Patient!Init, Patient!TypeOK, Patient!RunsConfigured, PatientHolds, PatientUpgrade,
         PatientConn, Patient!Slot

\* The configuration is changed from an idle state, in which a slot runs.
LEMMA BeginKeeps ==
    ASSUME PatientHolds, Patient!Idle, NEW s \in Patient!Slot, Patient!BeginSetRom(s)
    PROVE  /\ bootconf2' \in Patient!Slot \cup {Patient!Erased}
           /\ chosen2' \in Patient!Slot \cup {Patient!NoSlot} /\ chosen2' # Patient!NoSlot
<1>1. bootconf2 \in Patient!Slot
  BY DEF PatientHolds, Patient!TypeOK, Patient!RunsConfigured, Patient!Idle
<1> QED  BY <1>1 DEF Patient!BeginSetRom, Patient!Slot, Patient!NoSlot

\* A step that leaves the configuration alone, or is about to write it.
LEMMA PatientStill ==
    ASSUME PatientHolds, Patient!Idle, Patient!TypeOK',
           at2' = at2, UNCHANGED <<bootconf2, chosen2>> \/ chosen2' # Patient!NoSlot
    PROVE  PatientHolds'
  BY DEF PatientHolds, Patient!RunsConfigured, Patient!Idle

LEMMA PatientDeinit ==
    ASSUME PatientHolds, Patient!Idle, NEW u \in PatientUpgrade, NEW c \in PatientConn,
           NEW f \in {"IDLE", "START", "FINISH"}, Patient!rboot_ota_deinit(u, c, f),
           UNCHANGED <<started2, at2>>, rom2' \in [Patient!Slot -> {"old", "partial", "complete"}]
    PROVE  PatientHolds'
<1>1. /\ ota_timer2' = "off" /\ upgrade2' = Patient!NoUpgrade("null")
      /\ conn2' = IF u.conn = 0 THEN c ELSE [c EXCEPT ![u.conn] = "closing"]
      /\ flag2' \in {"IDLE", "START", "FINISH"}
      /\ UNCHANGED <<bootconf2, chosen2>> \/ Patient!BeginSetRom(u.rom_slot)
  BY DEF Patient!rboot_ota_deinit
<1>2. /\ bootconf2' \in Patient!Slot \cup {Patient!Erased}
      /\ chosen2' \in Patient!Slot \cup {Patient!NoSlot}
      /\ UNCHANGED <<bootconf2, chosen2>> \/ chosen2' # Patient!NoSlot
  <2>1. u.rom_slot \in Patient!Slot  BY DEF PatientUpgrade
  <2> QED  BY <1>1, <2>1, BeginKeeps DEF PatientHolds, Patient!TypeOK
<1>3. conn2' \in PatientConn  BY <1>1 DEF PatientConn
<1>4. upgrade2' \in PatientUpgrade  BY <1>1, NoneIsTyped
<1>5. Patient!TypeOK'
  BY <1>1, <1>2, <1>3, <1>4 DEF PatientHolds, Patient!TypeOK, PatientConn, PatientUpgrade
<1> QED  BY <1>2, <1>5, PatientStill

LEMMA PatientTyped ==
    ASSUME PatientHolds
    PROVE  upgrade2 \in PatientUpgrade /\ conn2 \in PatientConn /\ flag2 \in {"IDLE", "START", "FINISH"}
  BY DEF PatientHolds, Patient!TypeOK, PatientUpgrade, PatientConn

LEMMA PatientDisconnect ==
    ASSUME PatientHolds, Patient!Idle, NEW i, Patient!upgrade_disconcb(i), UNCHANGED <<started2, rom2, at2>>
    PROVE  PatientHolds'
<1>1. [conn2 EXCEPT ![i] = "freed"] \in PatientConn  BY PatientTyped DEF PatientConn
<1>2. CASE Patient!rboot_ota_deinit([upgrade2 EXCEPT !.conn = 0], [conn2 EXCEPT ![i] = "freed"], flag2)
  <2>1. [upgrade2 EXCEPT !.conn = 0] \in PatientUpgrade
    BY PatientTyped, LengthsAreNumbers DEF PatientUpgrade
  <2>2. rom2' \in [Patient!Slot -> {"old", "partial", "complete"}]
    BY DEF PatientHolds, Patient!TypeOK
  <2> QED  BY <1>1, <1>2, <2>1, <2>2, PatientTyped, PatientDeinit
<1>3. CASE /\ conn2' = [conn2 EXCEPT ![i] = "freed"] /\ ota_timer2' = "off"
           /\ UNCHANGED <<flag2, upgrade2, bootconf2, chosen2>>
  <2>1. Patient!TypeOK'  BY <1>1, <1>3 DEF PatientHolds, Patient!TypeOK, PatientConn
  <2> QED  BY <1>3, <2>1, PatientStill
<1> QED  BY <1>2, <1>3 DEF Patient!upgrade_disconcb

\* rboot_ota_deinit of the update as it is.
LEMMA PatientEnds ==
    ASSUME PatientHolds, Patient!Idle, NEW f \in {flag2, "FINISH"},
           Patient!rboot_ota_deinit(upgrade2, conn2, f), UNCHANGED <<started2, at2>>,
           rom2' \in [Patient!Slot -> {"old", "partial", "complete"}]
    PROVE  PatientHolds'
<1>1. f \in {"IDLE", "START", "FINISH"}  BY PatientTyped
<1> QED  BY <1>1, PatientTyped, PatientDeinit

LEMMA ConnectingTyped ==
    ASSUME PatientHolds, Patient!Idle, NEW u \in PatientUpgrade, Patient!Connecting(u),
           flag2' \in {"IDLE", "START", "FINISH"}, started2' \in 0 .. MaxStarts,
           UNCHANGED <<rom2, bootconf2, chosen2, at2>>
    PROVE  PatientHolds'
<1>1. upgrade2' \in PatientUpgrade /\ conn2' \in PatientConn /\ ota_timer2' = "connect_timeout_cb"
  BY PatientTyped DEF Patient!Connecting, PatientConn
<1>2. Patient!TypeOK'  BY <1>1 DEF PatientHolds, Patient!TypeOK, PatientUpgrade, PatientConn
<1> QED  BY <1>2, PatientStill

LEMMA PatientStarts == ASSUME PatientHolds, Patient!Start PROVE PatientHolds'
<1>1. /\ Patient!Idle /\ started2 < MaxStarts /\ started2' = started2 + 1
      /\ UNCHANGED <<rom2, bootconf2, chosen2, at2>>
  BY DEF Patient!Start
<1>2. started2' \in 1 .. MaxStarts /\ started2' \in 0 .. MaxStarts
  BY <1>1, LengthsAreNumbers DEF PatientHolds, Patient!TypeOK
<1>3. PICK u : u = Patient!NewUpgrade(started2')  OBVIOUS
<1>4. u \in PatientUpgrade
  BY <1>2, <1>3 DEF Patient!NewUpgrade, PatientUpgrade, Patient!Slot
<1>5. \/ /\ \E p \in {"null", "dangling"} : upgrade2' = Patient!NoUpgrade(p)
         /\ UNCHANGED <<flag2, conn2, ota_timer2>>
      \/ /\ flag2' = "START" /\ upgrade2' = Patient!NoUpgrade("dangling")
         /\ UNCHANGED <<conn2, ota_timer2>>
      \/ /\ flag2' = "START" /\ upgrade2' = u /\ conn2' = [conn2 EXCEPT ![u.conn] = "lookup"]
         /\ UNCHANGED ota_timer2
      \/ flag2' = "START" /\ Patient!Connecting(u)
  BY <1>3 DEF Patient!Start
<1>6. CASE flag2' = "START" /\ Patient!Connecting(u)
  BY <1>1, <1>2, <1>4, <1>6, ConnectingTyped
<1>7. CASE /\ upgrade2' \in PatientUpgrade /\ conn2' \in PatientConn
           /\ flag2' \in {"IDLE", "START", "FINISH"} /\ UNCHANGED ota_timer2
  <2>1. Patient!TypeOK'
    BY <1>1, <1>2, <1>7 DEF PatientHolds, Patient!TypeOK, PatientUpgrade, PatientConn
  <2> QED  BY <1>1, <2>1, PatientStill
<1>8. [conn2 EXCEPT ![u.conn] = "lookup"] \in PatientConn  BY PatientTyped DEF PatientConn
<1> QED  BY <1>4, <1>5, <1>6, <1>7, <1>8, NoneIsTyped, PatientTyped

LEMMA PatientConnection ==
    ASSUME PatientHolds, NEW i \in Patient!Attempt,
           \/ Patient!Resolved(i) \/ Patient!Connected(i)
           \/ Patient!ConnectionError(i) \/ Patient!Disconnected(i)
    PROVE  PatientHolds'
<1>1. Patient!Idle /\ UNCHANGED <<started2, rom2, at2>>
  BY DEF Patient!Resolved, Patient!Connected, Patient!ConnectionError, Patient!Disconnected
<1>2. \/ Patient!Connecting(upgrade2) /\ UNCHANGED <<flag2, bootconf2, chosen2>>
      \/ Patient!upgrade_disconcb(upgrade2.conn) \/ Patient!upgrade_disconcb(i)
      \/ /\ conn2' = [conn2 EXCEPT ![i] = "open"] /\ ota_timer2' = "rboot_ota_deinit"
         /\ UNCHANGED <<flag2, upgrade2, bootconf2, chosen2>>
      \/ Patient!rboot_ota_deinit(upgrade2, conn2, flag2)
  BY DEF Patient!Resolved, Patient!Connected, Patient!ConnectionError, Patient!Disconnected
<1>3. /\ rom2' \in [Patient!Slot -> {"old", "partial", "complete"}]
      /\ started2' \in 0 .. MaxStarts
  BY <1>1 DEF PatientHolds, Patient!TypeOK
<1>4. CASE Patient!Connecting(upgrade2) /\ UNCHANGED <<flag2, bootconf2, chosen2>>
  BY <1>1, <1>3, <1>4, PatientTyped, ConnectingTyped
<1>5. CASE Patient!upgrade_disconcb(upgrade2.conn)  BY <1>1, <1>5, PatientDisconnect
<1>6. CASE Patient!upgrade_disconcb(i)  BY <1>1, <1>6, PatientDisconnect
<1>7. CASE /\ conn2' = [conn2 EXCEPT ![i] = "open"] /\ ota_timer2' = "rboot_ota_deinit"
           /\ UNCHANGED <<flag2, upgrade2, bootconf2, chosen2>>
  <2>1. conn2' \in PatientConn  BY <1>7, PatientTyped DEF PatientConn
  <2>2. Patient!TypeOK'  BY <1>1, <1>7, <2>1 DEF PatientHolds, Patient!TypeOK, PatientConn
  <2> QED  BY <1>1, <1>7, <2>2, PatientStill
<1>8. CASE Patient!rboot_ota_deinit(upgrade2, conn2, flag2)  BY <1>1, <1>3, <1>8, PatientEnds
<1> QED  BY <1>2, <1>4, <1>5, <1>6, <1>7, <1>8

LEMMA PatientReceived ==
    ASSUME PatientHolds, Patient!Idle, NEW total \in Nat, NEW content \in {0} \cup Lengths,
           Patient!Received(total, content), UNCHANGED <<started2, at2>>
    PROVE  PatientHolds'
<1>1. rom2 \in [Patient!Slot -> {"old", "partial", "complete"}]  BY DEF PatientHolds, Patient!TypeOK
<1>2. CASE Patient!Finished(total, content)
  <2>1. Patient!rboot_ota_deinit(upgrade2, conn2, "FINISH")
    BY <1>2 DEF Patient!Received
  <2>2. rom2' \in [Patient!Slot -> {"old", "partial", "complete"}]
    BY <1>1, <1>2 DEF Patient!Received
  <2> QED  BY <2>1, <2>2, PatientEnds
<1>3. CASE ~Patient!Finished(total, content)
  <2>1. rom2' \in [Patient!Slot -> {"old", "partial", "complete"}]
    BY <1>1, <1>3 DEF Patient!Received, Patient!Progress
  <2>2. CASE Patient!rboot_ota_deinit(upgrade2, conn2, flag2)  BY <2>1, <2>2, PatientEnds
  <2>3. CASE /\ upgrade2' = [upgrade2 EXCEPT !.total_len = total, !.content_len = content]
             /\ ota_timer2' = "rboot_ota_deinit"
             /\ UNCHANGED <<flag2, conn2, bootconf2, chosen2>>
    <3>1. upgrade2' \in PatientUpgrade  BY <2>3, PatientTyped DEF PatientUpgrade
    <3>2. Patient!TypeOK'
      BY <2>1, <2>3, <3>1 DEF PatientHolds, Patient!TypeOK, PatientUpgrade
    <3> QED  BY <2>3, <3>2, PatientStill
  <2> QED  BY <1>3, <2>2, <2>3 DEF Patient!Received
<1> QED  BY <1>2, <1>3

LEMMA PatientData ==
    ASSUME PatientHolds, NEW i \in Patient!Attempt, Patient!FirstReply(i) \/ Patient!Data(i)
    PROVE  PatientHolds'
<1>1. Patient!Idle /\ UNCHANGED <<started2, at2>>  BY DEF Patient!FirstReply, Patient!Data
<1>2. rom2 \in [Patient!Slot -> {"old", "partial", "complete"}]  BY DEF PatientHolds, Patient!TypeOK
<1>3. upgrade2.total_len \in Nat /\ upgrade2.content_len \in {0} \cup Lengths
  BY PatientTyped DEF PatientUpgrade
<1>4. ASSUME NEW n, Patient!WriteFails(n) PROVE PatientHolds'
  <2>1. rom2' \in [Patient!Slot -> {"old", "partial", "complete"}]
    BY <1>2, <1>4 DEF Patient!WriteFails, Patient!Progress
  <2> QED  BY <1>1, <1>4, <2>1, PatientEnds DEF Patient!WriteFails
<1>5. CASE Patient!FirstReply(i)
  <2>1. CASE \E l \in Lengths, n \in Steps \cup {0} : Patient!Received(n, l)
    <3>1. PICK l \in Lengths, n \in Steps \cup {0} : Patient!Received(n, l)  BY <2>1
    <3>2. n \in Nat  BY LengthsAreNumbers
    <3> QED  BY <1>1, <3>1, <3>2, PatientReceived
  <2>2. CASE Patient!rboot_ota_deinit(upgrade2, conn2, flag2) /\ UNCHANGED rom2
    BY <1>1, <1>2, <2>2, PatientEnds
  <2>3. CASE \E n \in Steps : Patient!WriteFails(n)
    BY <1>4, <2>3
  <2> QED  BY <1>5, <2>1, <2>2, <2>3 DEF Patient!FirstReply
<1>6. CASE Patient!Data(i)
  <2>1. PICK n \in Steps :
          \/ Patient!Received(upgrade2.total_len + n, upgrade2.content_len)
          \/ Patient!WriteFails(upgrade2.total_len + n)
    BY <1>6 DEF Patient!Data
  <2>2. upgrade2.total_len + n \in Nat  BY <1>3, LengthsAreNumbers
  <2>3. CASE Patient!Received(upgrade2.total_len + n, upgrade2.content_len)
    BY <1>1, <1>3, <2>2, <2>3, PatientReceived
  <2>4. CASE Patient!WriteFails(upgrade2.total_len + n)  BY <1>4, <2>4
  <2> QED  BY <2>1, <2>3, <2>4
<1> QED  BY <1>5, <1>6

LEMMA PatientTimer == ASSUME PatientHolds, Patient!TimerExpires PROVE PatientHolds'
<1>1. Patient!Idle /\ UNCHANGED <<started2, rom2, at2>>  BY DEF Patient!TimerExpires
<1>2. rom2' \in [Patient!Slot -> {"old", "partial", "complete"}]
  BY <1>1 DEF PatientHolds, Patient!TypeOK
<1>3. \/ Patient!upgrade_disconcb(upgrade2.conn)
      \/ Patient!rboot_ota_deinit(upgrade2, conn2, flag2)
  BY DEF Patient!TimerExpires
<1> QED  BY <1>1, <1>2, <1>3, PatientDisconnect, PatientEnds

LEMMA PatientSwitch == ASSUME PatientHolds, Patient!Switch PROVE PatientHolds'
<1>1. /\ Patient!Idle /\ Patient!BeginSetRom(1 - bootconf2)
      /\ UNCHANGED <<started2, flag2, upgrade2, ota_timer2, conn2, rom2, at2>>
  BY DEF Patient!Switch
<1>2. 1 - bootconf2 \in Patient!Slot
  BY <1>1 DEF PatientHolds, Patient!TypeOK, Patient!RunsConfigured, Patient!Idle, Patient!Slot
<1>3. /\ bootconf2' \in Patient!Slot \cup {Patient!Erased}
      /\ chosen2' \in Patient!Slot \cup {Patient!NoSlot} /\ chosen2' # Patient!NoSlot
  BY <1>1, <1>2, BeginKeeps
<1>4. Patient!TypeOK'  BY <1>1, <1>3 DEF PatientHolds, Patient!TypeOK
<1> QED  BY <1>1, <1>3, <1>4, PatientStill

LEMMA PatientRestart ==
    ASSUME PatientHolds, Patient!FinishSetRom \/ Patient!PowerFail \/ Patient!Boot
    PROVE  PatientHolds'
<1>1. CASE Patient!FinishSetRom \/ Patient!PowerFail
  <2>1. /\ flag2' = "IDLE" /\ upgrade2' = Patient!NoUpgrade("null") /\ ota_timer2' = "off"
        /\ conn2' \in PatientConn /\ chosen2' = Patient!NoSlot /\ at2' = Patient!NoSlot
        /\ UNCHANGED <<started2, rom2>>
    <3>1. Patient!Reset  BY <1>1 DEF Patient!FinishSetRom, Patient!PowerFail
    <3>2. [i \in Patient!Attempt |-> IF conn2[i] = "none" THEN "none" ELSE "freed"] \in PatientConn
      BY DEF PatientConn
    <3> QED  BY <3>1, <3>2 DEF Patient!Reset
  <2>2. bootconf2' \in Patient!Slot \cup {Patient!Erased}
    BY <1>1 DEF Patient!FinishSetRom, Patient!PowerFail, PatientHolds, Patient!TypeOK
  <2>3. upgrade2' \in PatientUpgrade  BY <2>1, NoneIsTyped
  <2>4. Patient!TypeOK'
    BY <2>1, <2>2, <2>3 DEF PatientHolds, Patient!TypeOK, PatientUpgrade, PatientConn
  <2> QED  BY <2>1, <2>4 DEF PatientHolds, Patient!RunsConfigured, Patient!Idle
<1>2. CASE Patient!Boot
  <2>1. bootconf2' \in Patient!Slot /\ at2' = bootconf2'
    BY <1>2 DEF Patient!Boot, PatientHolds, Patient!TypeOK, Patient!Slot
  <2>2. Patient!TypeOK'
    BY <1>2, <2>1 DEF Patient!Boot, PatientHolds, Patient!TypeOK
  <2> QED  BY <2>1, <2>2 DEF PatientHolds, Patient!RunsConfigured
<1> QED  BY <1>1, <1>2

LEMMA PatientStep == ASSUME PatientHolds, Patient!Next PROVE PatientHolds'
<1>1. CASE Patient!Start  BY <1>1, PatientStarts
<1>2. CASE Patient!Callback
  <2>1. CASE Patient!TimerExpires  BY <2>1, PatientTimer
  <2>2. ASSUME NEW i \in Patient!Attempt,
               \/ Patient!Resolved(i) \/ Patient!Connected(i)
               \/ Patient!ConnectionError(i) \/ Patient!Disconnected(i)
        PROVE  PatientHolds'
    BY <2>2, PatientConnection
  <2>3. ASSUME NEW i \in Patient!Attempt, Patient!FirstReply(i) \/ Patient!Data(i)
        PROVE  PatientHolds'
    BY <2>3, PatientData
  <2> QED  BY <1>2, <2>1, <2>2, <2>3 DEF Patient!Callback
<1>3. CASE Patient!Switch  BY <1>3, PatientSwitch
<1>4. CASE Patient!FinishSetRom \/ Patient!PowerFail \/ Patient!Boot  BY <1>4, PatientRestart
<1> QED  BY <1>1, <1>2, <1>3, <1>4 DEF Patient!Next

LEMMA PatientStands == ASSUME PatientHolds, UNCHANGED patientVars PROVE PatientHolds'
  BY DEF patientVars, PatientHolds, Patient!TypeOK, Patient!RunsConfigured, Patient!Idle

\* Why no update of this instance touches what runs either: one update at a
\* time, for the other slot, and nothing calls back for one that is over.
PatientSafe == Patient!CallbacksFindUpgrade /\ Patient!OneUpdate /\ Patient!OtherSlot
RunningStays == at2 # Patient!NoSlot => rom2'[at2] = rom2[at2]

LEMMA SafeInitially == ASSUME Patient!Init PROVE PatientSafe
<1>1. /\ \A i \in Patient!Attempt : conn2[i] \notin Active
      /\ upgrade2.pointer # "live" /\ ota_timer2 = "off" /\ at2 # Patient!NoSlot
  BY DEF Patient!Init, Patient!NoUpgrade, Patient!NoSlot, Active
<1>2. Patient!CallbacksFindUpgrade  BY <1>1 DEF Patient!CallbacksFindUpgrade, Active
<1>3. Patient!OneUpdate /\ Patient!OtherSlot  BY <1>1 DEF Patient!OneUpdate, Patient!OtherSlot
<1> QED  BY <1>2, <1>3 DEF PatientSafe

\* A connection that can still call back is the one the update waits for.
LEMMA SafeActive ==
    ASSUME PatientSafe, NEW i \in Patient!Attempt, conn2[i] \in Active
    PROVE  upgrade2.pointer = "live" /\ upgrade2.conn = i
  BY DEF PatientSafe, Patient!CallbacksFindUpgrade, Active

LEMMA RomStands == ASSUME UNCHANGED rom2 PROVE RunningStays
  BY DEF RunningStays

\* rboot_ota_deinit leaves nothing that calls back.
LEMMA SafeDeinit ==
    ASSUME Patient!Idle, NEW u \in PatientUpgrade, NEW c \in PatientConn, NEW f,
           \A i \in Patient!Attempt : c[i] \in Active => i = u.conn,
           Patient!rboot_ota_deinit(u, c, f), UNCHANGED at2
    PROVE  PatientSafe'
<1>1. /\ upgrade2'.pointer # "live" /\ ota_timer2' = "off" /\ at2' # Patient!NoSlot
      /\ conn2' = IF u.conn = 0 THEN c ELSE [c EXCEPT ![u.conn] = "closing"]
  BY DEF Patient!rboot_ota_deinit, Patient!NoUpgrade, Patient!Idle
<1>2. \A i \in Patient!Attempt : conn2'[i] \notin Active
  <2>1. CASE u.conn = 0
    BY <1>1, <2>1 DEF Patient!Attempt
  <2>2. CASE u.conn # 0
    BY <1>1, <2>2 DEF PatientConn, Active
  <2> QED  BY <2>1, <2>2
<1>3. Patient!CallbacksFindUpgrade'  BY <1>1, <1>2 DEF Patient!CallbacksFindUpgrade, Active
<1>4. Patient!OneUpdate' /\ Patient!OtherSlot'
  BY <1>1 DEF Patient!OneUpdate, Patient!OtherSlot
<1> QED  BY <1>3, <1>4 DEF PatientSafe

LEMMA SafeEnds ==
    ASSUME PatientHolds, PatientSafe, Patient!Idle, NEW f,
           Patient!rboot_ota_deinit(upgrade2, conn2, f), UNCHANGED at2
    PROVE  PatientSafe'
<1>1. \A i \in Patient!Attempt : conn2[i] \in Active => i = upgrade2.conn  BY SafeActive
<1> QED  BY <1>1, PatientTyped, SafeDeinit

LEMMA SafeDisconnect ==
    ASSUME PatientHolds, PatientSafe, Patient!Idle, NEW i \in 0 .. MaxStarts,
           i \notin Patient!Attempt => upgrade2.pointer = "live" /\ upgrade2.conn = i,
           Patient!upgrade_disconcb(i), UNCHANGED at2
    PROVE  PatientSafe'
<1>1. PICK c : c = [conn2 EXCEPT ![i] = "freed"]  OBVIOUS
<1>2. /\ c \in PatientConn
      /\ \A j \in Patient!Attempt : c[j] \in Active => j # i /\ conn2[j] \in Active
  BY <1>1, PatientTyped DEF PatientConn, Active
<1>3. CASE upgrade2.pointer = "live" /\ upgrade2.conn = i
  <2>1. PICK u : u = [upgrade2 EXCEPT !.conn = 0]  OBVIOUS
  <2>2. u \in PatientUpgrade  BY <2>1, PatientTyped, LengthsAreNumbers DEF PatientUpgrade
  <2>3. Patient!rboot_ota_deinit(u, c, flag2)  BY <1>1, <1>3, <2>1 DEF Patient!upgrade_disconcb
  <2>4. \A j \in Patient!Attempt : c[j] \in Active => j = u.conn  BY <1>2, <1>3, SafeActive
  <2> QED  BY <1>2, <2>2, <2>3, <2>4, SafeDeinit
<1>4. CASE ~(upgrade2.pointer = "live" /\ upgrade2.conn = i)
  <2>1. /\ conn2' = c /\ ota_timer2' = "off"
        /\ UNCHANGED <<flag2, upgrade2, bootconf2, chosen2>>
    BY <1>1, <1>4 DEF Patient!upgrade_disconcb
  <2>2. Patient!CallbacksFindUpgrade'
    BY <1>2, <2>1 DEF PatientSafe, Patient!CallbacksFindUpgrade, Active
  <2>3. Patient!OneUpdate' /\ Patient!OtherSlot'
    BY <2>1 DEF PatientSafe, Patient!OneUpdate, Patient!OtherSlot, Patient!Idle
  <2> QED  BY <2>2, <2>3 DEF PatientSafe
<1> QED  BY <1>3, <1>4

\* The slot an update is for is not the one that is configured, which runs.
LEMMA SafeStart == ASSUME PatientHolds, PatientSafe, Patient!Start PROVE PatientSafe'
<1>1. /\ Patient!Idle /\ upgrade2.pointer # "live" /\ ota_timer2 = "off"
      /\ started2' = started2 + 1 /\ started2 < MaxStarts
      /\ UNCHANGED <<rom2, bootconf2, chosen2, at2>>
      /\ \A j \in Patient!Attempt : conn2[j] \notin Active
  BY DEF Patient!Start, PatientSafe, Patient!OneUpdate, Patient!CallbacksFindUpgrade,
         PatientHolds, Patient!TypeOK, Active
<1>2. started2' \in Patient!Attempt
  BY <1>1, LengthsAreNumbers DEF PatientHolds, Patient!TypeOK, Patient!Attempt
<1>3. bootconf2 = at2 /\ at2 \in Patient!Slot /\ at2 # Patient!NoSlot
  BY <1>1 DEF PatientHolds, Patient!TypeOK, Patient!RunsConfigured, Patient!Idle
<1>4. PICK u : u = Patient!NewUpgrade(started2')  OBVIOUS
<1>5. u.pointer = "live" /\ u.conn = started2' /\ u.rom_slot # at2
  BY <1>3, <1>4 DEF Patient!NewUpgrade, Patient!Slot
<1>6. \/ /\ \E p \in {"null", "dangling"} : upgrade2' = Patient!NoUpgrade(p)
         /\ UNCHANGED <<conn2, ota_timer2>>
      \/ /\ flag2' = "START" /\ upgrade2' = u
         /\ \E state \in {"lookup", "connecting"} : conn2' = [conn2 EXCEPT ![u.conn] = state]
  BY <1>4 DEF Patient!Start, Patient!Connecting
<1>7. CASE /\ \E p \in {"null", "dangling"} : upgrade2' = Patient!NoUpgrade(p)
           /\ UNCHANGED <<conn2, ota_timer2>>
  <2>1. upgrade2'.pointer # "live"  BY <1>7 DEF Patient!NoUpgrade
  <2>2. Patient!CallbacksFindUpgrade'
    BY <1>1, <1>7 DEF Patient!CallbacksFindUpgrade, Active
  <2>3. Patient!OneUpdate' /\ Patient!OtherSlot'
    BY <1>1, <1>3, <2>1 DEF Patient!OneUpdate, Patient!OtherSlot
  <2> QED  BY <2>2, <2>3 DEF PatientSafe
<1>8. CASE /\ flag2' = "START" /\ upgrade2' = u
           /\ \E state \in {"lookup", "connecting"} : conn2' = [conn2 EXCEPT ![u.conn] = state]
  <2>1. \A j \in Patient!Attempt : conn2'[j] \in Active => j = u.conn
    BY <1>1, <1>8, PatientTyped DEF PatientConn
  <2>2. Patient!CallbacksFindUpgrade'
    BY <1>5, <1>8, <2>1 DEF Patient!CallbacksFindUpgrade, Active
  <2>3. Patient!OneUpdate' /\ Patient!OtherSlot'
    BY <1>1, <1>3, <1>5, <1>8 DEF Patient!OneUpdate, Patient!OtherSlot
  <2> QED  BY <2>2, <2>3 DEF PatientSafe
<1> QED  BY <1>6, <1>7, <1>8

\* The next state of a connection that stays the update's own.
LEMMA SafeAdvances ==
    ASSUME PatientHolds, PatientSafe, NEW i \in Patient!Attempt, conn2[i] \in Active,
           NEW state \in Active, conn2' = [conn2 EXCEPT ![i] = state],
           UNCHANGED <<flag2, upgrade2, chosen2, at2>>
    PROVE  PatientSafe'
<1>1. upgrade2.pointer = "live" /\ upgrade2.conn = i  BY SafeActive
<1>2. \A j \in Patient!Attempt : conn2'[j] \in Active => j = i
  BY <1>1, SafeActive, PatientTyped DEF PatientConn
<1>3. Patient!CallbacksFindUpgrade'  BY <1>1, <1>2 DEF Patient!CallbacksFindUpgrade, Active
<1>4. Patient!OneUpdate' /\ Patient!OtherSlot'
  BY DEF PatientSafe, Patient!OneUpdate, Patient!OtherSlot, Patient!Idle
<1> QED  BY <1>3, <1>4 DEF PatientSafe

LEMMA SafeConnection ==
    ASSUME PatientHolds, PatientSafe, NEW i \in Patient!Attempt,
           \/ Patient!Resolved(i) \/ Patient!Connected(i)
           \/ Patient!ConnectionError(i) \/ Patient!Disconnected(i)
    PROVE  PatientSafe' /\ RunningStays
<1>1. Patient!Idle /\ UNCHANGED <<started2, rom2, at2>> /\ i \in 0 .. MaxStarts
  BY LengthsAreNumbers
     DEF Patient!Resolved, Patient!Connected, Patient!ConnectionError, Patient!Disconnected,
         Patient!Attempt
<1>2. RunningStays  BY <1>1, RomStands
<1>3. ASSUME Patient!upgrade_disconcb(i) PROVE PatientSafe'  BY <1>1, <1>3, SafeDisconnect
<1>4. ASSUME conn2[i] \in Active PROVE upgrade2.pointer = "live" /\ upgrade2.conn = i
  BY <1>4, SafeActive
<1>5. CASE Patient!Resolved(i)
  <2>1. conn2[i] \in Active /\ upgrade2.conn = i  BY <1>4, <1>5 DEF Patient!Resolved, Active
  <2>2. CASE Patient!upgrade_disconcb(upgrade2.conn)  BY <1>2, <1>3, <2>1, <2>2
  <2>3. CASE Patient!Connecting(upgrade2) /\ UNCHANGED <<flag2, bootconf2, chosen2>>
    <3>1. /\ conn2' = [conn2 EXCEPT ![i] = "connecting"]
          /\ UNCHANGED <<flag2, upgrade2, chosen2, at2>>
      BY <1>1, <2>1, <2>3 DEF Patient!Connecting
    <3>2. "connecting" \in Active  BY DEF Active
    <3> QED  BY <1>2, <2>1, <3>1, <3>2, SafeAdvances
  <2> QED  BY <1>5, <2>2, <2>3 DEF Patient!Resolved
<1>6. CASE Patient!Connected(i)
  <2>1. conn2[i] \in Active /\ "open" \in Active  BY <1>6 DEF Patient!Connected, Active
  <2>2. CASE Patient!rboot_ota_deinit(upgrade2, conn2, flag2)  BY <1>1, <1>2, <2>2, SafeEnds
  <2>3. CASE /\ conn2' = [conn2 EXCEPT ![i] = "open"]
             /\ UNCHANGED <<flag2, upgrade2, bootconf2, chosen2>>
    BY <1>1, <1>2, <2>1, <2>3, SafeAdvances
  <2> QED  BY <1>6, <2>2, <2>3 DEF Patient!Connected
<1>7. CASE Patient!ConnectionError(i)
  <2>1. conn2[i] \in Active  BY <1>7 DEF Patient!ConnectionError, Active
  <2> QED  BY <1>2, <1>3, <1>4, <1>7, <2>1 DEF Patient!ConnectionError
<1>8. CASE Patient!Disconnected(i)  BY <1>2, <1>3, <1>8 DEF Patient!Disconnected
<1> QED  BY <1>5, <1>6, <1>7, <1>8

LEMMA SafeTimer ==
    ASSUME PatientHolds, PatientSafe, Patient!TimerExpires PROVE PatientSafe' /\ RunningStays
<1>1. /\ Patient!Idle /\ UNCHANGED <<started2, rom2, at2>>
      /\ upgrade2.pointer = "live" /\ upgrade2.conn \in 0 .. MaxStarts
  BY PatientTyped
     DEF Patient!TimerExpires, PatientSafe, Patient!CallbacksFindUpgrade, PatientUpgrade
<1>2. \/ Patient!upgrade_disconcb(upgrade2.conn)
      \/ Patient!rboot_ota_deinit(upgrade2, conn2, flag2)
  BY DEF Patient!TimerExpires
<1> QED  BY <1>1, <1>2, RomStands, SafeDisconnect, SafeEnds

\* Data is for the slot that does not run.
LEMMA SafeData ==
    ASSUME PatientHolds, PatientSafe, NEW i \in Patient!Attempt,
           Patient!FirstReply(i) \/ Patient!Data(i)
    PROVE  PatientSafe' /\ RunningStays
<1>1. /\ Patient!Idle /\ UNCHANGED <<started2, at2>> /\ conn2[i] \in Active
  BY DEF Patient!FirstReply, Patient!Data, Active
<1>2. upgrade2.pointer = "live" /\ upgrade2.rom_slot # at2
  BY <1>1, SafeActive DEF PatientSafe, Patient!OtherSlot
<1>3. rom2 \in [Patient!Slot -> {"old", "partial", "complete"}]
  BY DEF PatientHolds, Patient!TypeOK
<1>4. ASSUME NEW r, rom2' = [rom2 EXCEPT ![upgrade2.rom_slot] = r] PROVE RunningStays
  <2> SUFFICES ASSUME at2 # Patient!NoSlot PROVE rom2'[at2] = rom2[at2]
    BY DEF RunningStays
  <2>1. at2 \in Patient!Slot  BY DEF PatientHolds, Patient!TypeOK
  <2> QED  BY <1>2, <1>3, <1>4, <2>1
<1>5. ASSUME NEW f, Patient!rboot_ota_deinit(upgrade2, conn2, f) PROVE PatientSafe'
  BY <1>1, <1>5, SafeEnds
<1>6. ASSUME NEW total, NEW content, Patient!Received(total, content)
      PROVE  PatientSafe' /\ RunningStays
  <2>1. RunningStays  BY <1>4, <1>6 DEF Patient!Received, Patient!Progress
  <2>2. CASE \E f : Patient!rboot_ota_deinit(upgrade2, conn2, f)  BY <1>5, <2>1, <2>2
  <2>3. CASE /\ upgrade2' = [upgrade2 EXCEPT !.total_len = total, !.content_len = content]
             /\ UNCHANGED <<flag2, conn2, bootconf2, chosen2>>
    <3>1. /\ upgrade2'.pointer = upgrade2.pointer /\ upgrade2'.conn = upgrade2.conn
          /\ upgrade2'.rom_slot = upgrade2.rom_slot
      BY <2>3, PatientTyped DEF PatientUpgrade
    <3>2. Patient!CallbacksFindUpgrade'
      BY <1>2, <2>3, <3>1 DEF PatientSafe, Patient!CallbacksFindUpgrade
    <3>3. Patient!OneUpdate' /\ Patient!OtherSlot'
      BY <1>1, <2>3, <3>1 DEF PatientSafe, Patient!OneUpdate, Patient!OtherSlot, Patient!Idle
    <3> QED  BY <2>1, <3>2, <3>3 DEF PatientSafe
  <2> QED  BY <1>6, <2>2, <2>3 DEF Patient!Received
<1>7. ASSUME NEW total, Patient!WriteFails(total) PROVE PatientSafe' /\ RunningStays
  <2>1. RunningStays  BY <1>4, <1>7 DEF Patient!WriteFails, Patient!Progress
  <2> QED  BY <1>5, <1>7, <2>1 DEF Patient!WriteFails
<1>8. CASE Patient!FirstReply(i)
  <2>1. \/ \E l, n : Patient!Received(n, l)
        \/ \E n : Patient!WriteFails(n)
        \/ Patient!rboot_ota_deinit(upgrade2, conn2, flag2) /\ UNCHANGED rom2
    BY <1>8 DEF Patient!FirstReply
  <2> QED  BY <1>5, <1>6, <1>7, <2>1, RomStands
<1>9. CASE Patient!Data(i)
  <2>1. PICK total : \/ Patient!Received(total, upgrade2.content_len)
                     \/ Patient!WriteFails(total)
    BY <1>9 DEF Patient!Data
  <2> QED  BY <1>6, <1>7, <2>1
<1> QED  BY <1>8, <1>9

\* The shell switches: from then on the device only restarts.
LEMMA SafeSwitch ==
    ASSUME PatientHolds, PatientSafe, Patient!Switch PROVE PatientSafe' /\ RunningStays
<1>1. /\ Patient!Idle /\ Patient!BeginSetRom(1 - bootconf2)
      /\ UNCHANGED <<started2, flag2, upgrade2, ota_timer2, conn2, rom2, at2>>
  BY DEF Patient!Switch
<1>2. 1 - bootconf2 \in Patient!Slot
  BY <1>1 DEF PatientHolds, Patient!TypeOK, Patient!RunsConfigured, Patient!Idle, Patient!Slot
<1>3. chosen2' # Patient!NoSlot  BY <1>1, <1>2, BeginKeeps
<1>4. Patient!CallbacksFindUpgrade'
  BY <1>1 DEF PatientSafe, Patient!CallbacksFindUpgrade
<1>5. Patient!OneUpdate' /\ Patient!OtherSlot'
  BY <1>1, <1>3 DEF PatientSafe, Patient!OneUpdate, Patient!OtherSlot, Patient!Idle
<1> QED  BY <1>1, <1>4, <1>5, RomStands DEF PatientSafe

LEMMA SafeRestart ==
    ASSUME PatientHolds, PatientSafe,
           Patient!FinishSetRom \/ Patient!PowerFail \/ Patient!Boot
    PROVE  PatientSafe' /\ RunningStays
<1>1. CASE Patient!FinishSetRom \/ Patient!PowerFail
  <2>1. Patient!Reset  BY <1>1 DEF Patient!FinishSetRom, Patient!PowerFail
  <2>2. /\ upgrade2'.pointer # "live" /\ ota_timer2' = "off" /\ chosen2' = Patient!NoSlot
        /\ \A i \in Patient!Attempt : conn2'[i] \notin Active
    BY <2>1 DEF Patient!Reset, Patient!NoUpgrade, Active
  <2>3. Patient!CallbacksFindUpgrade'  BY <2>2 DEF Patient!CallbacksFindUpgrade, Active
  <2>4. Patient!OneUpdate' /\ Patient!OtherSlot'
    BY <2>2 DEF Patient!OneUpdate, Patient!OtherSlot
  <2>5. RunningStays  BY <2>1, RomStands DEF Patient!Reset
  <2> QED  BY <2>3, <2>4, <2>5 DEF PatientSafe
<1>2. CASE Patient!Boot
  <2>1. /\ at2 = Patient!NoSlot
        /\ UNCHANGED <<started2, flag2, upgrade2, ota_timer2, conn2, rom2, chosen2>>
    BY <1>2 DEF Patient!Boot
  <2>2. upgrade2.pointer # "live" /\ chosen2 = Patient!NoSlot
    BY <2>1 DEF PatientSafe, Patient!OneUpdate
  <2>3. Patient!CallbacksFindUpgrade'
    BY <2>1 DEF PatientSafe, Patient!CallbacksFindUpgrade
  <2>4. Patient!OneUpdate' /\ Patient!OtherSlot'
    BY <2>1, <2>2 DEF Patient!OneUpdate, Patient!OtherSlot
  <2> QED  BY <2>1, <2>3, <2>4, RomStands DEF PatientSafe
<1> QED  BY <1>1, <1>2

LEMMA SafeStep ==
    ASSUME PatientHolds, PatientSafe, Patient!Next PROVE PatientSafe' /\ RunningStays
<1>1. CASE Patient!Start  BY <1>1, SafeStart, RomStands DEF Patient!Start
<1>2. CASE Patient!Callback
  <2>1. CASE Patient!TimerExpires  BY <2>1, SafeTimer
  <2>2. ASSUME NEW i \in Patient!Attempt,
               \/ Patient!Resolved(i) \/ Patient!Connected(i)
               \/ Patient!ConnectionError(i) \/ Patient!Disconnected(i)
        PROVE  PatientSafe' /\ RunningStays
    BY <2>2, SafeConnection
  <2>3. ASSUME NEW i \in Patient!Attempt, Patient!FirstReply(i) \/ Patient!Data(i)
        PROVE  PatientSafe' /\ RunningStays
    BY <2>3, SafeData
  <2> QED  BY <1>2, <2>1, <2>2, <2>3 DEF Patient!Callback
<1>3. CASE Patient!Switch  BY <1>3, SafeSwitch
<1>4. CASE Patient!FinishSetRom \/ Patient!PowerFail \/ Patient!Boot  BY <1>4, SafeRestart
<1> QED  BY <1>1, <1>2, <1>3, <1>4 DEF Patient!Next

LEMMA SafeStands == ASSUME PatientSafe, UNCHANGED patientVars PROVE PatientSafe'
  BY DEF patientVars, PatientSafe, Patient!CallbacksFindUpgrade, Patient!OneUpdate,
         Patient!OtherSlot, Patient!Idle

-----------------------------------------------------------------------------
(* The parts together.                                                      *)

\* One part runs, and the others stay as they began.
PartsHold ==
    /\ PatientHolds /\ PatientSafe
    /\ Writer!WriterInv /\ ConsoleHolds /\ Uart!BufferInv /\ OnTheWay

LEMMA PartsInitially == FirmwareInit => PartsHold
  BY RomAssumption, PatientInitially, SafeInitially, WriterInitially, ConsoleInitially,
     RingsInitially, OrderInitially
     DEF FirmwareInit, PartsHold

LEMMA PartsStep ==
    ASSUME PartsHold,
           [FirmwareNext]_<<part, vars, patientVars, writerVars, consoleVars, uartVars>>
    PROVE  PartsHold'
<1>1. PatientHolds' /\ PatientSafe'
  <2>1. Patient!Next \/ UNCHANGED patientVars  BY DEF FirmwareNext
  <2> QED  BY <2>1, PatientStep, PatientStands, SafeStep, SafeStands DEF PartsHold
<1>2. Writer!WriterInv'
  <2>1. Writer!Next \/ UNCHANGED writerVars  BY DEF FirmwareNext
  <2> QED  BY <2>1, RomAssumption, WriterStep, WriterStands DEF PartsHold, writerVars, Writer!vars
<1>3. ConsoleHolds'
  <2>1. Shell!Next \/ UNCHANGED consoleVars  BY DEF FirmwareNext
  <2> QED  BY <2>1, ConsoleStep, ConsoleStands DEF PartsHold
<1>4. Uart!BufferInv' /\ OnTheWay'
  <2>1. CASE Uart!Next  BY <2>1, UartStep, OrderStep DEF PartsHold
  <2>2. CASE UNCHANGED uartVars
    <3>1. UNCHANGED <<sent, txFifo, tx, rx, rxFifo, echoed>>  BY <2>2 DEF uartVars
    <3> QED  BY <2>2, <3>1, UartStands, OrderStands DEF PartsHold
  <2> QED  BY <2>1, <2>2 DEF FirmwareNext
<1> QED  BY <1>1, <1>2, <1>3, <1>4 DEF PartsHold

LEMMA PartsInvariance == FirmwareSpec => []PartsHold
<1>1. FirmwareSpec => /\ FirmwareInit
                      /\ [][FirmwareNext]_<<part, vars, patientVars, writerVars, consoleVars, uartVars>>
  BY PTL DEF FirmwareSpec
<1>2. /\ PartsHold
      /\ [FirmwareNext]_<<part, vars, patientVars, writerVars, consoleVars, uartVars>>
      => PartsHold'
  BY PartsStep
<1> QED  BY <1>1, <1>2, PartsInitially, PTL

LEMMA UpdateInvariance == ASSUME WholeWords, ~Switches PROVE FirmwareSpec => []OtaInv
<1>1. FirmwareSpec => /\ FirmwareInit
                      /\ [][FirmwareNext]_<<part, vars, patientVars, writerVars, consoleVars, uartVars>>
  BY PTL DEF FirmwareSpec
<1>2. FirmwareInit => OtaInv  BY OtaInit DEF FirmwareInit
<1>3. /\ OtaInv
      /\ [FirmwareNext]_<<part, vars, patientVars, writerVars, consoleVars, uartVars>>
      => OtaInv'
  <2> SUFFICES ASSUME OtaInv,
                      [FirmwareNext]_<<part, vars, patientVars, writerVars, consoleVars, uartVars>>
               PROVE  OtaInv'
    OBVIOUS
  <2>1. [Next]_vars  BY DEF FirmwareNext
  <2> QED  BY <2>1, OtaStep
<1> QED  BY <1>1, <1>2, <1>3, PTL

\* The command that runs is the line as it was typed, whatever the sizes of the
\* FIFO, its threshold, the buffer and a command, with input that overruns the
\* FIFO or fills the buffer, and with backspaces; and what the buffered driver
\* sends was received, in that order and each byte once, whatever the size of
\* its FIFOs and rings (uart0_rx_intr_handler, uart_recvTask, shellCircleBuffer,
\* ProcessCommand, rx_buff_deq, tx_buff_enq).
THEOREM SerialInOrderCorrect == FirmwareSpec => []SerialInOrder
<1>1. PartsHold => SerialInOrder
  BY EchoedInOrder DEF PartsHold, ConsoleHolds, SerialInOrder
<1> QED  BY <1>1, PartsInvariance, PTL

\* Each part keeps to its types and its inductive invariant, the update under
\* what OtaInvariance assumes.
THEOREM PartsTypesCorrect == ASSUME WholeWords, ~Switches PROVE FirmwareSpec => []PartsTypeOK
<1>1. OtaInv /\ PartsHold => PartsTypeOK
  BY EchoedInOrder DEF PartsHold, PatientHolds, PatientSafe, ConsoleHolds, PartsTypeOK
<1> QED  BY <1>1, UpdateInvariance, PartsInvariance, PTL

\* No update touches the slot the device runs from: neither where updates overlap
\* and lookups fail, nor where the shell switches ROMs while one is under way
\* (rboot_ota_start, upgrade_recvcb, the shell's switch).
THEOREM RunningRomStands == ASSUME WholeWords, ~Switches PROVE FirmwareSpec => RunningRomStays
<1>1. FirmwareSpec =>
        [][FirmwareNext]_<<part, vars, patientVars, writerVars, consoleVars, uartVars>>
  BY PTL DEF FirmwareSpec
<1>2. /\ OtaInv
      /\ [FirmwareNext]_<<part, vars, patientVars, writerVars, consoleVars, uartVars>>
      => [at # NoSlot => rom'[at] = rom[at]]_vars
  <2> SUFFICES ASSUME OtaInv,
                      [FirmwareNext]_<<part, vars, patientVars, writerVars, consoleVars, uartVars>>
               PROVE  [at # NoSlot => rom'[at] = rom[at]]_vars
    OBVIOUS
  <2>1. [Next]_vars  BY DEF FirmwareNext
  <2> QED  BY <2>1, OtaStep
<1>3. /\ PartsHold
      /\ [FirmwareNext]_<<part, vars, patientVars, writerVars, consoleVars, uartVars>>
      => [at2 # Patient!NoSlot => rom2'[at2] = rom2[at2]]_Patient!vars
  <2> SUFFICES ASSUME PartsHold,
                      [FirmwareNext]_<<part, vars, patientVars, writerVars, consoleVars, uartVars>>
               PROVE  [at2 # Patient!NoSlot => rom2'[at2] = rom2[at2]]_Patient!vars
    OBVIOUS
  <2>1. Patient!Next \/ UNCHANGED patientVars  BY DEF FirmwareNext
  <2> QED  BY <2>1, SafeStep DEF PartsHold, RunningStays, patientVars, Patient!vars
<1>4. FirmwareSpec => RunningRomUntouched
  BY <1>1, <1>2, UpdateInvariance, PTL DEF RunningRomUntouched
<1>5. FirmwareSpec => Patient!RunningRomUntouched
  BY <1>1, <1>3, PartsInvariance, PTL DEF Patient!RunningRomUntouched
<1> QED  BY <1>4, <1>5 DEF RunningRomStays

=============================================================================
