------------------------------ MODULE Station ------------------------------
(***************************************************************************)
(* The ESP8266's Wi-Fi: esp-cf-wifi.c, esp-cf-mdns.c and the clock of      *)
(* user_main.c.  The SDK queues what happens on the radio as events and    *)
(* hands them to espCfWiFi_callBack one at a time, so the address of the   *)
(* interface may be another one, or none, by the time an event is heard.   *)
(*                                                                         *)
(* On each new address the device announces itself by mDNS and asks for    *)
(* the time; a timer looks for the answer.                                 *)
(***************************************************************************)
EXTENDS Integers, Sequences

CONSTANTS
    Addresses,     \* the addresses a DHCP server may lease
    AccessPoint,   \* config.ap_ipv4, the address of the device's own network
    None,          \* no address
    TicksPerSecond,\* interrupts of the hardware timer in a second (10)
    MaxEvents,     \* bound: events of the radio
    MaxTime        \* bound: seconds

StationAssumption ==
    /\ AccessPoint \notin Addresses /\ None \notin Addresses \cup {AccessPoint}
    /\ "stopped" \notin Addresses
    /\ TicksPerSecond \in Nat \ {0, 1} /\ MaxEvents \in Nat /\ MaxTime \in Nat \ {0}

VARIABLES
    mode,         \* config.mode
    currentMode,
    paired,       \* pair[0].hasPublicKey
    dhcpc,        \* does the SDK's DHCP client run?
    associated,   \* is the device a station of a network?
    ip,           \* the address of the station interface
    events,       \* what the SDK has yet to hand to the callback
    config,       \* the addresses in config, as far as events write them
    mdns,         \* the address of the mDNS registration, or "closed"
    sntp,         \* the SDK's SNTP client: the server it asks, or "stopped"
    stamp,        \* what sntp_get_current_timestamp returns
    sntp_timer,   \* is the timer of espCfWiFi_ntp20Check armed?
    statusReg,    \* is the timer of statusLoop armed?
    clock,        \* ntp_unix_timestamp
    ticks,        \* seconds_since_boot, which counts interrupts, modulo a second
    since,        \* the ticks since the clock was set
    happened      \* how many events there were
vars == <<mode, currentMode, paired, dhcpc, associated, ip, events, config, mdns, sntp, stamp,
          sntp_timer, statusReg, clock, ticks, since, happened>>
clockVars == <<clock, ticks, since>>
radioVars == <<mode, paired, dhcpc, associated, ip, happened>>
timeVars == <<sntp, stamp, sntp_timer>>

IsStation == mode \in {"STATION", "STATIONAP"}

\* Mutated: without a switch the mode is left as it was.
ModeOfNeither(apSwitch, staSwitch) ==
    IF ~staSwitch /\ ~apSwitch THEN "NULL"
    ELSE IF ~staSwitch THEN "SOFTAP" ELSE IF apSwitch THEN "STATIONAP" ELSE "STATION"

\* espWiFiInit: from the switches, an access point if none is set.
ModeOf(apSwitch, staSwitch) ==
    IF ~staSwitch THEN "SOFTAP" ELSE IF apSwitch THEN "STATIONAP" ELSE "STATION"

\* espWiFiInit stops the client that the SDK starts with, except in
\* STATION mode, and starts it again if the switch is set.
DhcpClient(m, dhcpSwitch) ==
    \/ m = "STATION"
    \/ m = "STATIONAP" /\ dhcpSwitch

\* user_init, to its end.
Init ==
    /\ \E apSwitch, staSwitch, dhcpSwitch \in BOOLEAN :
          /\ mode = ModeOf(apSwitch, staSwitch)
          /\ dhcpc = DhcpClient(mode, dhcpSwitch)
    /\ currentMode = IF mode = "SOFTAP" THEN "STA_NOWIFI" ELSE "AP_UNPAIRED"
    /\ paired \in BOOLEAN
    /\ associated = FALSE /\ ip = None /\ events = <<>> /\ happened = 0
    /\ config = [sta_ipv4 |-> None, ntpv4 |-> None]
    /\ mdns = "closed"
    /\ sntp = "stopped" /\ stamp = 0 /\ sntp_timer = FALSE
    /\ statusReg = TRUE
    /\ clock = 0 /\ ticks = 0 /\ since = 0

-----------------------------------------------------------------------------
(* The radio and the SDK.                                                  *)

Happen(e) ==
    /\ happened < MaxEvents /\ happened' = happened + 1
    /\ events' = Append(events, e)
    /\ UNCHANGED <<mode, currentMode, paired, dhcpc, config, mdns, timeVars, statusReg, clockVars>>

Associate ==
    /\ IsStation /\ ~associated /\ associated' = TRUE
    /\ Happen([event |-> "CONNECTED"])
    /\ UNCHANGED ip

\* A first lease, or another one in its place.
Lease(address) ==
    /\ associated /\ dhcpc /\ ip # address
    /\ ip' = address
    /\ Happen([event |-> "GOT_IP", ip |-> address])
    /\ UNCHANGED associated

Dissociate ==
    /\ associated /\ associated' = FALSE /\ ip' = None
    /\ Happen([event |-> "DISCONNECTED"])

\* Somebody joins the device's own network.
Join ==
    /\ mode # "STATION"
    /\ Happen([event |-> "AP_STACONNECTED"])
    /\ UNCHANGED <<associated, ip>>

\* The server that the client asks, or one of the pool behind it, answers;
\* the stamp stands for the time of the answer.
Answer ==
    /\ sntp # "stopped" /\ ip # None /\ stamp = 0
    /\ stamp' = MaxTime
    /\ UNCHANGED <<radioVars, currentMode, events, config, mdns, sntp, sntp_timer, statusReg,
                   clockVars>>

-----------------------------------------------------------------------------
(* espCfWiFi_callBack.                                                     *)

\* Mutated: the address is the one the configuration holds.
AnnouncedOld == config.sta_ipv4

\* espCfMdns: it closes what it announced before and announces the address
\* that the interface has now.
Announced == IF mode = "SOFTAP" THEN AccessPoint ELSE ip

Heard(e) ==
    /\ events # <<>> /\ Head(events).event = e
    /\ events' = Tail(events)
    /\ UNCHANGED <<radioVars, statusReg, clockVars>>

Connected ==
    /\ Heard("CONNECTED")
    /\ currentMode' = "STA_UNPAIRED"
    /\ UNCHANGED <<config, mdns, timeVars>>

Disconnected ==
    /\ Heard("DISCONNECTED")
    /\ currentMode' = "STA_NOWIFI"
    /\ UNCHANGED <<config, mdns, timeVars>>

\* The client starts afresh, and so does the timer that looks at it.
espCfWiFi_ntp20Init(server) ==
    /\ sntp' = server /\ stamp' = 0
    /\ sntp_timer' = TRUE

\* GOT_IP: the gateway is taken for the time server.  espCfWiFi_listen
\* repeats what was done at boot.
GotIp ==
    /\ Heard("GOT_IP")
    /\ LET address == Head(events).ip IN
       /\ config' = [sta_ipv4 |-> address, ntpv4 |-> address]
       /\ mdns' = Announced
       /\ currentMode' = "STA_UNPAIRED"
       /\ espCfWiFi_ntp20Init(address)

StationJoined ==
    /\ Heard("AP_STACONNECTED")
    /\ mdns' = Announced
    /\ UNCHANGED <<currentMode, config, timeVars>>

-----------------------------------------------------------------------------
(* Timers.                                                                 *)

\* Mutated: the timer is not armed again while there is no answer.
TryAgainNot == FALSE

TryAgain == stamp = 0

\* espCfWiFi_ntp20Check
espCfWiFi_ntp20Check ==
    /\ sntp_timer
    /\ sntp_timer' = TryAgain
    /\ IF TryAgain
       THEN UNCHANGED <<sntp, stamp, clock, since>>
       ELSE /\ clock' = stamp /\ since' = 0
            /\ sntp' = "stopped" /\ stamp' = 0
    /\ UNCHANGED <<radioVars, currentMode, events, config, mdns, statusReg, ticks>>

\* Once, two seconds after boot.
statusLoop ==
    /\ statusReg /\ statusReg' = FALSE
    /\ currentMode' = IF paired THEN "STA_PAIRED" ELSE currentMode
    /\ UNCHANGED <<radioVars, events, config, mdns, timeVars, clockVars>>

NextTick == (ticks + 1) % TicksPerSecond

\* The clock stands still in one interrupt of a second, and advances in
\* each of the others.
Advances == clock > 0 /\ ticks % TicksPerSecond # 0

\* clock_loop, in the interrupt of the hardware timer.
clock_loop ==
    /\ since < MaxTime * TicksPerSecond
    /\ clock' = IF Advances THEN clock + 1 ELSE clock
    /\ ticks' = NextTick
    /\ since' = IF clock > 0 THEN since + 1 ELSE 0
    /\ UNCHANGED <<radioVars, currentMode, events, config, mdns, timeVars, statusReg>>

Handle == Connected \/ Disconnected \/ GotIp \/ StationJoined

Next ==
    \/ Associate \/ (\E address \in Addresses : Lease(address)) \/ Dissociate \/ Join \/ Answer
    \/ Handle
    \/ espCfWiFi_ntp20Check \/ statusLoop \/ clock_loop

Spec == Init /\ [][Next]_vars

\* The SDK hands over its events and calls the timers it was given; while
\* there is a network, somebody answers.
FairSpec ==
    /\ Spec
    /\ WF_vars(Handle) /\ WF_vars(espCfWiFi_ntp20Check) /\ WF_vars(Answer)

-----------------------------------------------------------------------------
Event == [event : {"CONNECTED", "DISCONNECTED", "AP_STACONNECTED"}]
         \cup [event : {"GOT_IP"}, ip : Addresses]
Ip == Addresses \cup {None}

TypeOK ==
    /\ mode \in {"SOFTAP", "STATION", "STATIONAP"}
    /\ currentMode \in {"STA_NOWIFI", "AP_UNPAIRED", "STA_UNPAIRED", "STA_PAIRED"}
    /\ paired \in BOOLEAN /\ dhcpc \in BOOLEAN /\ associated \in BOOLEAN
    /\ ip \in Ip /\ events \in Seq(Event)
    /\ config \in [sta_ipv4 : Ip, ntpv4 : Ip]
    /\ mdns \in Ip \cup {AccessPoint, "closed"}
    /\ sntp \in Addresses \cup {"stopped"} /\ stamp \in Nat
    /\ sntp_timer \in BOOLEAN /\ statusReg \in BOOLEAN
    /\ clock \in Nat /\ ticks \in Nat /\ since \in Nat /\ happened \in 0 .. MaxEvents

\* The event that told of the address the interface has now waits in the
\* queue with no other of its kind behind it, or all of them were heard and
\* the device is up to date.
ToldOf(i) ==
    /\ events[i].event = "GOT_IP" /\ events[i].ip = ip
    /\ \A j \in i + 1 .. Len(events) : events[j].event # "GOT_IP"
UpToDate == mdns = ip /\ config.sta_ipv4 = ip /\ config.ntpv4 = ip
NewsComes ==
    /\ associated => IsStation
    /\ ip # None =>
         /\ associated
         /\ \/ \E i \in 1 .. Len(events) : ToldOf(i)
            \/ UpToDate /\ \A i \in 1 .. Len(events) : events[i].event # "GOT_IP"

\* In ticks, the clock is behind by one at most, and only in the interrupt
\* after the one it slept through.
ClockInStep ==
    /\ ticks \in 0 .. TicksPerSecond - 1
    /\ stamp \in {0, MaxTime}
    /\ clock > 0 =>
         (clock - MaxTime) * TicksPerSecond - since >= (IF ticks = 1 THEN -1 ELSE 0)

\* A device that has an address, and has heard all about it, announces that
\* address and knows it, whatever came and went in between.
AnnouncesItself ==
    events = <<>> /\ ip # None => mdns = ip /\ config.sta_ipv4 = ip /\ config.ntpv4 = ip

\* While the time is asked for somebody looks for the answer, and nobody
\* looks when it is not.
AskedIsAwaited == sntp_timer <=> sntp # "stopped"

\* The clock never loses more than the tick it slept through last.
ClockNeverSlow == clock > 0 => (clock - MaxTime) * TicksPerSecond >= since - 1

\* Inductive: what the properties above follow from.
StationInv == TypeOK /\ NewsComes /\ AskedIsAwaited /\ ClockInStep

\* A device that keeps an address comes to know the time, and stops asking.
TimeComes == <>[](ip # None) => <>[](clock > 0 /\ sntp = "stopped")

=============================================================================
