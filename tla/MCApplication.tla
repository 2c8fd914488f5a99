---------------------------- MODULE MCApplication ----------------------------
(***************************************************************************)
(* Instances of what the application of the ESP8266 does: its memory        *)
(* (FlashConfig), its network (Station) and its controls (Outlets).  They   *)
(* share no state, so one behaviour is about one of them: part names it,    *)
(* and the variables of the others keep the value they start with.          *)
(*                                                                         *)
(* The memory is taken without failing flash calls as the module extended   *)
(* here, and with one kind of failure at a time as an instance of its own.  *)
(* Controls are taken once with a controller that waits for its answer, and *)
(* once with everything that can come between.                              *)
(***************************************************************************)
EXTENDS FlashConfig, Sequences, Integers

CONSTANTS
    Addresses, AccessPoint, None, TicksPerSecond, MaxEvents, MaxTime,   \* of Station
    Values, Readings, MaxRuns, PoolSize                                \* of Outlets

VARIABLES
    part,
    flash, copy, memory, bond, boot, unpaired,
    mode, currentMode, paired, dhcpc, associated, ip, events, netConfig, mdns,
    sntp, stamp, sntp_timer, statusReg, clock, ticks, since, happened,
    value, pins, measured, used, serving, replyCmd, requests, answers,
    run, phase, command, view

faultyVars == <<flash, copy, memory, bond, boot, unpaired>>
stationVars == <<mode, currentMode, paired, dhcpc, associated, ip, events, netConfig, mdns,
                 sntp, stamp, sntp_timer, statusReg, clock, ticks, since, happened>>
outletsVars == <<value, pins, measured, used, serving, replyCmd, requests, answers,
                 run, phase, command, view>>
appVars == <<part, vars, faultyVars, stationVars, outletsVars>>

LoadFailing == INSTANCE FlashConfig WITH
    LoadFaults <- TRUE, sector <- flash, flashConfig <- copy, config <- memory,
    pair <- bond, at <- boot, forgotten <- unpaired
SaveFailing == INSTANCE FlashConfig WITH
    SaveFaults <- TRUE, sector <- flash, flashConfig <- copy, config <- memory,
    pair <- bond, at <- boot, forgotten <- unpaired
Rekeying == INSTANCE FlashConfig WITH
    Rekeys <- TRUE, sector <- flash, flashConfig <- copy, config <- memory,
    pair <- bond, at <- boot, forgotten <- unpaired
Network == INSTANCE Station WITH config <- netConfig
\* One command after the other, each by a controller that stays for the answer; among the
\* commands come packets that do not decode.
Orderly == INSTANCE Outlets WITH
    Board <- "ESP8266",
    Patient <- TRUE, Repeats <- FALSE, Reboots <- FALSE, Shell <- FALSE, Noise <- TRUE
\* The same for the device program of a host.
Host == INSTANCE Outlets WITH
    Board <- "POSIX", MaxRuns <- MaxRuns - 1,
    Patient <- TRUE, Repeats <- FALSE, Reboots <- FALSE, Shell <- FALSE, Noise <- TRUE
\* Controllers that give up, repeated packets, restarts and the shell.
Disturbed == INSTANCE Outlets WITH
    Board <- "ESP8266", Values <- Values \ {0}, MaxRuns <- MaxRuns - 1,
    Patient <- FALSE, Repeats <- TRUE, Reboots <- TRUE, Shell <- TRUE, Noise <- FALSE

ASSUME NetworkAssumption == Network!StationAssumption
ASSUME ControlsAssumption ==
    /\ Orderly!OutletsAssumption /\ MaxRuns > 0
    /\ Values \subseteq {0, 1}   \* off and on; --value takes any number
    /\ PoolSize >= 2

Faulty == {"load faults", "save faults", "rekeys"}
Controlled == {"controls", "host controls", "disturbed controls"}

Unused == "unused"
MemoryUnused ==
    /\ flash = Unused /\ copy = Unused /\ memory = Unused
    /\ bond = Unused /\ boot = Unused /\ unpaired = Unused
NetworkUnused ==
    /\ mode = Unused /\ currentMode = Unused /\ paired = Unused /\ dhcpc = Unused
    /\ associated = Unused /\ ip = Unused /\ events = Unused /\ netConfig = Unused
    /\ mdns = Unused /\ sntp = Unused /\ stamp = Unused /\ sntp_timer = Unused
    /\ statusReg = Unused /\ clock = 0 /\ ticks = Unused /\ since = Unused
    /\ happened = Unused
ControlsUnused ==
    /\ value = Unused /\ pins = Unused /\ measured = Unused /\ used = Unused
    /\ serving = Unused /\ replyCmd = Unused /\ requests = Unused /\ answers = Unused
    /\ run = Unused /\ phase = Unused /\ command = Unused /\ view = Unused

AppInit ==
    /\ part \in {"memory", "network"} \cup Faulty \cup Controlled
    /\ Init /\ (part = "memory" \/ config.key = CHOOSE k \in Key : TRUE)
    /\ IF part \in Faulty THEN LoadFailing!Init ELSE MemoryUnused
    /\ IF part = "network" THEN Network!Init ELSE NetworkUnused
    /\ CASE part = "controls" -> Orderly!Init
         [] part = "host controls" -> Host!Init
         [] part = "disturbed controls" -> Disturbed!Init
         [] OTHER -> ControlsUnused

AppNext ==
    \/ /\ part = "memory" /\ Next
       /\ UNCHANGED <<part, faultyVars, stationVars, outletsVars>>
    \/ /\ \/ part = "load faults" /\ LoadFailing!Next
          \/ part = "save faults" /\ SaveFailing!Next
          \/ part = "rekeys" /\ Rekeying!Next
       /\ UNCHANGED <<part, vars, stationVars, outletsVars>>
    \/ /\ part = "network" /\ Network!Next
       /\ UNCHANGED <<part, vars, faultyVars, outletsVars>>
    \/ /\ \/ part = "controls" /\ Orderly!Next
          \/ part = "host controls" /\ Host!Next
          \/ part = "disturbed controls" /\ Disturbed!Next
       /\ UNCHANGED <<part, vars, faultyVars, stationVars>>

\* The SDK delivers its events and calls the timers, and a time server answers.
AppSpec ==
    /\ AppInit /\ [][AppNext]_appVars
    /\ WF_stationVars(part = "network" /\ Network!Handle)
    /\ WF_stationVars(part = "network" /\ Network!espCfWiFi_ntp20Check)
    /\ WF_stationVars(part = "network" /\ Network!Answer)

-----------------------------------------------------------------------------
(* The properties of the parts, which their modules explain. *)

\* Each part keeps to its types and its inductive invariant; those of the memory are FlashInv.
PartsTypeOK ==
    /\ part = "load faults" => LoadFailing!TypeOK
    /\ part = "save faults" => SaveFailing!TypeOK /\ SaveFailing!IdentityKnown
    /\ part = "rekeys" =>
        Rekeying!TypeOK /\ Rekeying!CopyCoherent /\ Rekeying!ConfigCoherent
    /\ part = "network" => Network!StationInv
    /\ part = "controls" => Orderly!OutletsInv
    /\ part = "host controls" => Host!OutletsInv
    /\ part = "disturbed controls" => Disturbed!OutletsInv

\* A load of the sector that fails sets up neither a pairing under a wrong identity nor a
\* configuration that differs from what is in flash (system_param_load in cfConfigRead), and a
\* CONFIG_SET that replaces the keys leaves the other settings durable (cfConfigSetFromStr, then
\* cfConfigWrite).
FaultsContained ==
    /\ part = "load faults" => LoadFailing!FlashInv /\ LoadFailing!SecretMatchesIdentity
    /\ part = "rekeys" => Rekeying!SettingDurable

\* A saved pairing is removed by init and replaced by a new pairing alone (cfConfigWrite,
\* cfPairWrite); and although nobody looks whether a save succeeded, a save that fails never
\* leaves another identity in flash than the one the device was given (user_init_stage2).
SavedStands ==
    /\ SavedPairingStands
    /\ [][part = "save faults" => SaveFailing!KeepsIdentity]_faultyVars

\* A device that has an address, and has heard all about it, announces that address
\* (wifi_handle_event_cb); while it asks for the time somebody looks for the answer
\* (espCfWiFi_ntp20Init and Check); and from then on its clock does not lose time (clock_loop).
NetworkFollowed ==
    part = "network" =>
        Network!AnnouncesItself /\ Network!AskedIsAwaited /\ Network!ClockNeverSlow

\* A device that keeps an address comes to know the time, and stops asking
\* (espCfWiFi_ntp20Check).
TimeComes == part = "network" => Network!TimeComes

\* Outlets are on when their controls say so, a finished run shows how they are, nobody sets a
\* gauge, and each call finds its two packets in the pool, whatever packets were lost, repeated
\* or not understood before (deviceCallBack, controllerCallBack, chatPacket_init0 and
\* chatPacket_delete).
ControlsTrue ==
    /\ part = "controls" => Orderly!PinsFollow /\ Orderly!ShownIsTrue /\ Orderly!PoolSuffices
    /\ part = "host controls" => Host!ShownIsTrue
    /\ part = "disturbed controls" => Disturbed!GaugesAreMeasured /\ Disturbed!PoolSuffices
=============================================================================
