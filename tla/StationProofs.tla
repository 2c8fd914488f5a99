--------------------------- MODULE StationProofs ---------------------------
(***************************************************************************)
(* Proofs about Station: whatever the radio does, in whatever order the    *)
(* SDK hands its events over, the device announces the address it has once *)
(* it has heard all of them, looks for the time exactly while it asks for  *)
(* it, and its clock does not fall behind.                                 *)
(***************************************************************************)
EXTENDS Station, TLAPS

\* A counter of the interrupts in a second is 0 after the last of them.
LEMMA Wraps ==
    ASSUME NEW n \in Nat \ {0, 1}, NEW t \in 0 .. n - 1
    PROVE  /\ (t + 1) % n = IF t + 1 = n THEN 0 ELSE t + 1
           /\ t % n = t
<1>1. CASE t + 1 = n  BY <1>1, SMT
<1>2. CASE t + 1 < n  BY <1>2, SMT
<1> QED  BY <1>1, <1>2

\* user_init leaves a device in a state of the invariant.
LEMMA StationStarts ==
    ASSUME StationAssumption, Init
    PROVE  StationInv
<1>1. TypeOK
  <2>1. mode \in {"SOFTAP", "STATION", "STATIONAP"} /\ dhcpc \in BOOLEAN
    BY DEF Init, ModeOf, DhcpClient
  <2>2. config \in [sta_ipv4 : Ip, ntpv4 : Ip]  BY DEF Init, Ip
  <2>3. currentMode \in {"STA_NOWIFI", "AP_UNPAIRED"} /\ events \in Seq(Event)  BY DEF Init
  <2>4. /\ paired \in BOOLEAN /\ associated \in BOOLEAN /\ sntp_timer \in BOOLEAN
        /\ statusReg \in BOOLEAN
    BY DEF Init
  <2>5. /\ ip \in Ip /\ mdns = "closed" /\ sntp = "stopped" /\ stamp \in Nat
        /\ clock \in Nat /\ ticks \in Nat /\ since \in Nat /\ happened \in 0 .. MaxEvents
    BY DEF Init, StationAssumption, Ip
  <2> QED  BY <2>1, <2>2, <2>3, <2>4, <2>5 DEF TypeOK
<1>2. NewsComes  BY DEF Init, NewsComes
<1>3. AskedIsAwaited  BY DEF Init, AskedIsAwaited
<1>4. ClockInStep  BY DEF StationAssumption, Init, ClockInStep
<1> QED  BY <1>1, <1>2, <1>3, <1>4 DEF StationInv

\* The first event of the queue and what remains of it.
LEMMA Hears ==
    ASSUME TypeOK, NEW e, Heard(e)
    PROVE  /\ Len(events) \in Nat \ {0} /\ Head(events) = events[1] /\ events[1].event = e
           /\ events[1] \in Event
           /\ events' \in Seq(Event) /\ Len(events') = Len(events) - 1
           /\ \A i \in 1 .. Len(events') : events'[i] = events[i + 1]
  BY DEF TypeOK, Heard

\* Whatever happens on the radio is the last event of the queue.
LEMMA Queues ==
    ASSUME StationAssumption, TypeOK, NEW e \in Event, Happen(e)
    PROVE  /\ events' \in Seq(Event) /\ Len(events) \in Nat /\ Len(events') = Len(events) + 1
           /\ events'[Len(events) + 1] = e
           /\ \A i \in 1 .. Len(events) : events'[i] = events[i]
           /\ happened' \in 0 .. MaxEvents
  BY DEF StationAssumption, TypeOK, Happen

\* GOT_IP carries the address it is about.
LEMMA HearsAddress ==
    ASSUME TypeOK, GotIp
    PROVE  Head(events).ip \in Addresses
<1>1. events[1] \in Event /\ events[1].event = "GOT_IP" /\ Head(events) = events[1]
  BY Hears DEF GotIp
<1> QED  BY <1>1 DEF Event

-----------------------------------------------------------------------------

LEMMA TypeStep ==
    ASSUME StationAssumption, TypeOK, stamp \in {0, MaxTime}, [Next]_vars
    PROVE  TypeOK'
<1> USE DEF TypeOK, StationAssumption
<1>1. CASE Associate
  <2>1. [event |-> "CONNECTED"] \in Event  BY DEF Event
  <2> QED  BY <1>1, <2>1, Queues DEF Associate, Happen, timeVars, clockVars
<1>2. ASSUME NEW address \in Addresses, Lease(address) PROVE TypeOK'
  <2>1. [event |-> "GOT_IP", ip |-> address] \in Event  BY DEF Event
  <2> QED  BY <1>2, <2>1, Queues DEF Lease, Happen, timeVars, clockVars, Ip
<1>3. CASE Dissociate
  <2>1. [event |-> "DISCONNECTED"] \in Event /\ None \in Ip  BY DEF Event, Ip
  <2>2. /\ Happen([event |-> "DISCONNECTED"])
        /\ associated' = FALSE /\ ip' = None
    BY <1>3 DEF Dissociate
  <2>3. events' \in Seq(Event) /\ happened' \in 0 .. MaxEvents  BY <2>1, <2>2, Queues
  <2> QED  BY <2>1, <2>2, <2>3 DEF Happen, timeVars, clockVars
<1>4. CASE Join
  <2>1. [event |-> "AP_STACONNECTED"] \in Event  BY DEF Event
  <2> QED  BY <1>4, <2>1, Queues DEF Join, Happen, timeVars, clockVars
<1>5. CASE Answer  BY <1>5 DEF Answer, radioVars, clockVars
<1>6. CASE Connected  BY <1>6, Hears DEF Connected, Heard, radioVars, timeVars, clockVars
<1>7. CASE Disconnected  BY <1>7, Hears DEF Disconnected, Heard, radioVars, timeVars, clockVars
<1>8. CASE GotIp
  BY <1>8, Hears, HearsAddress
     DEF GotIp, Heard, espCfWiFi_ntp20Init, Announced, radioVars, clockVars, Ip
<1>9. CASE StationJoined
  BY <1>9, Hears DEF StationJoined, Heard, Announced, radioVars, timeVars, clockVars
<1>10. CASE espCfWiFi_ntp20Check
  BY <1>10 DEF espCfWiFi_ntp20Check, TryAgain, radioVars
<1>11. CASE statusLoop  BY <1>11 DEF statusLoop, radioVars, timeVars, clockVars
<1>12. CASE clock_loop
  BY <1>12 DEF clock_loop, NextTick, Advances, radioVars, timeVars
<1>13. CASE UNCHANGED vars  BY <1>13 DEF vars
<1> QED
  BY <1>1, <1>2, <1>3, <1>4, <1>5, <1>6, <1>7, <1>8, <1>9, <1>10, <1>11, <1>12, <1>13
     DEF Next, Handle

\* A step that leaves the queue, the radio and what was announced alone.
LEMMA NoNews ==
    ASSUME NewsComes, UNCHANGED <<radioVars, events, config, mdns>>
    PROVE  NewsComes'
  BY DEF NewsComes, ToldOf, UpToDate, IsStation, radioVars

\* Another event than GOT_IP comes, and the address stays.
LEMMA OtherEvent ==
    ASSUME StationAssumption, TypeOK, NewsComes, NEW e \in Event, e.event # "GOT_IP", Happen(e),
           ip' = ip, associated' \in BOOLEAN, associated => associated',
           associated' => IsStation
    PROVE  NewsComes'
<1>1. IsStation' = IsStation  BY DEF Happen, IsStation
<1>2. ASSUME NEW i \in 1 .. Len(events), ToldOf(i) PROVE ToldOf(i)' /\ i \in 1 .. Len(events')
  <2>1. /\ Len(events) \in Nat /\ Len(events') = Len(events) + 1
        /\ events'[Len(events) + 1] = e
        /\ \A k \in 1 .. Len(events) : events'[k] = events[k]
    BY Queues
  <2>2. \A j \in i + 1 .. Len(events') : events'[j].event # "GOT_IP"
    <3> TAKE j \in i + 1 .. Len(events')
    <3>1. j \in i + 1 .. Len(events) \/ j = Len(events) + 1  BY <2>1
    <3> QED  BY <1>2, <2>1, <3>1 DEF ToldOf
  <2> QED  BY <1>2, <2>1, <2>2 DEF ToldOf
<1>3. UpToDate' = UpToDate  BY DEF UpToDate, Happen
<1>4. ASSUME \A i \in 1 .. Len(events) : events[i].event # "GOT_IP"
      PROVE  \A i \in 1 .. Len(events') : events'[i].event # "GOT_IP"
  BY <1>4, Queues DEF TypeOK
<1> QED  BY <1>1, <1>2, <1>3, <1>4 DEF NewsComes

\* An event is heard, and the news of the address were not it, or are now heard.
LEMMA HeardEvent ==
    ASSUME TypeOK, NewsComes, NEW e, Heard(e),
           e # "GOT_IP" /\ UpToDate => UpToDate',
           e = "GOT_IP" /\ ip # None /\ events[1].ip = ip => UpToDate'
    PROVE  NewsComes'
<1>1. UNCHANGED <<mode, associated, ip>> /\ IsStation' = IsStation
  BY DEF Heard, radioVars, IsStation
<1>2. SUFFICES ASSUME ip # None
               PROVE \/ \E i \in 1 .. Len(events') : ToldOf(i)'
                     \/ UpToDate' /\ \A i \in 1 .. Len(events') : events'[i].event # "GOT_IP"
  BY <1>1 DEF NewsComes
<1>3. CASE \A i \in 1 .. Len(events) : events[i].event # "GOT_IP"
  <2>1. UpToDate  BY <1>2, <1>3 DEF NewsComes, ToldOf
  <2>2. e # "GOT_IP"  BY <1>3, Hears
  <2> QED  BY <2>1, <2>2, <1>3, Hears
<1>4. ASSUME NEW i \in 1 .. Len(events), ToldOf(i)
      PROVE \/ \E k \in 1 .. Len(events') : ToldOf(k)'
            \/ UpToDate' /\ \A k \in 1 .. Len(events') : events'[k].event # "GOT_IP"
  <2>1. CASE i = 1
    <3>1. e = "GOT_IP" /\ events[1].ip = ip  BY <1>4, <2>1, Hears DEF ToldOf
    <3>2. UpToDate'  BY <1>2, <3>1
    <3>3. \A k \in 1 .. Len(events') : events'[k].event # "GOT_IP"
      BY <1>4, <2>1, Hears DEF ToldOf
    <3> QED  BY <3>2, <3>3
  <2>2. CASE i # 1
    <3>1. i - 1 \in 1 .. Len(events') /\ events'[i - 1] = events[i]
      BY <2>2, Hears
    <3>2. \A j \in i .. Len(events') : events'[j].event # "GOT_IP"
      BY <1>4, Hears DEF ToldOf
    <3>3. ToldOf(i - 1)'  BY <1>1, <1>4, <3>1, <3>2 DEF ToldOf
    <3> QED  BY <3>1, <3>3
  <2> QED  BY <2>1, <2>2
<1> QED  BY <1>2, <1>3, <1>4 DEF NewsComes

LEMMA NewsStep ==
    ASSUME StationAssumption, TypeOK, NewsComes, [Next]_vars
    PROVE  NewsComes'
<1>1. CASE Associate
  <2>1. [event |-> "CONNECTED"] \in Event  BY DEF Event
  <2> QED  BY <1>1, <2>1, OtherEvent DEF Associate
<1>2. ASSUME NEW address \in Addresses, Lease(address) PROVE NewsComes'
  <2>1. [event |-> "GOT_IP", ip |-> address] \in Event  BY DEF Event
  <2>2. Happen([event |-> "GOT_IP", ip |-> address]) /\ ip' = address  BY <1>2 DEF Lease
  <2>4. PICK n \in 1 .. Len(events') :
            n = Len(events') /\ events'[n] = [event |-> "GOT_IP", ip |-> address]
    BY <2>1, <2>2, Queues
  <2>5. ToldOf(n)'  BY <2>2, <2>4 DEF ToldOf
  <2>3. associated' /\ IsStation'
    BY <1>2 DEF Lease, NewsComes, Happen, IsStation
  <2> QED  BY <2>5, <2>3 DEF NewsComes
<1>3. CASE Dissociate  BY <1>3 DEF Dissociate, NewsComes
<1>4. CASE Join
  <2>1. [event |-> "AP_STACONNECTED"] \in Event  BY DEF Event
  <2> QED  BY <1>4, <2>1, OtherEvent DEF Join, NewsComes, TypeOK
<1>5. CASE Answer  BY <1>5, NoNews DEF Answer
<1>6. CASE Connected  BY <1>6, HeardEvent DEF Connected, UpToDate, Heard, radioVars
<1>7. CASE Disconnected  BY <1>7, HeardEvent DEF Disconnected, UpToDate, Heard, radioVars
<1>8. CASE GotIp
  <2>1. Heard("GOT_IP") /\ Head(events) = events[1]  BY <1>8, Hears DEF GotIp
  <2>2. ASSUME ip # None, events[1].ip = ip PROVE UpToDate'
    <3>1. Announced = ip  BY <2>2 DEF NewsComes, IsStation, Announced
    <3> QED  BY <1>8, <2>1, <2>2, <3>1 DEF GotIp, UpToDate, Heard, radioVars
  <2> QED  BY <2>1, <2>2, HeardEvent
<1>9. CASE StationJoined
  <2>1. ip # None => Announced = ip  BY DEF NewsComes, IsStation, Announced
  <2>2. CASE ip # None
    BY <1>9, <2>1, <2>2, HeardEvent DEF StationJoined, UpToDate, Heard, radioVars
  <2>3. CASE ip = None
    BY <1>9, <2>3 DEF StationJoined, NewsComes, Heard, radioVars, IsStation
  <2> QED  BY <2>2, <2>3
<1>10. CASE espCfWiFi_ntp20Check  BY <1>10, NoNews DEF espCfWiFi_ntp20Check
<1>11. CASE statusLoop  BY <1>11, NoNews DEF statusLoop
<1>12. CASE clock_loop  BY <1>12, NoNews DEF clock_loop
<1>13. CASE UNCHANGED vars  BY <1>13, NoNews DEF vars, radioVars
<1> QED
  BY <1>1, <1>2, <1>3, <1>4, <1>5, <1>6, <1>7, <1>8, <1>9, <1>10, <1>11, <1>12, <1>13
     DEF Next, Handle
-----------------------------------------------------------------------------

\* The timer is armed when the client starts, and again until it is stopped.
LEMMA AskedStep ==
    ASSUME StationAssumption, TypeOK, AskedIsAwaited, [Next]_vars
    PROVE  AskedIsAwaited'
<1> USE DEF AskedIsAwaited
<1>1. CASE GotIp
  <2>1. Head(events).ip \in Addresses  BY <1>1, HearsAddress
  <2> QED  BY <1>1, <2>1 DEF GotIp, espCfWiFi_ntp20Init, StationAssumption
<1>2. CASE espCfWiFi_ntp20Check  BY <1>2 DEF espCfWiFi_ntp20Check, TryAgain
<1>3. CASE UNCHANGED timeVars  BY <1>3 DEF timeVars
<1>4. CASE Answer  BY <1>4 DEF Answer
<1>5. [Next]_vars => UNCHANGED timeVars \/ GotIp \/ espCfWiFi_ntp20Check \/ Answer
  BY DEF Next, vars, timeVars, Associate, Lease, Dissociate, Join, Happen, Handle, Connected,
         Disconnected, StationJoined, statusLoop, clock_loop
<1> QED  BY <1>1, <1>2, <1>3, <1>4, <1>5

\* What one tick changes in the lead of the clock over the time since it was set.
LEMMA Lead ==
    ASSUME NEW c \in Int, NEW m \in Int, NEW n \in Int, NEW s \in Int
    PROVE  ((c + 1) - m) * n - (s + 1) = ((c - m) * n - s) + n - 1
<1>1. PICK d \in Int : d = c - m  OBVIOUS
<1>2. (d + 1) * n = d * n + n  BY SMT
<1>3. PICK x \in Int : x = d * n  BY <1>1
<1>4. (c + 1) - m = d + 1  BY <1>1
<1> QED  BY <1>1, <1>2, <1>3, <1>4

\* One tick of a clock that was set.
LEMMA Tick ==
    ASSUME StationAssumption, TypeOK, ClockInStep, clock > 0, clock_loop
    PROVE  /\ ticks' \in 0 .. TicksPerSecond - 1
           /\ clock' > 0
           /\ (clock' - MaxTime) * TicksPerSecond - since'
                  >= (IF ticks' = 1 THEN -1 ELSE 0)
<1> DEFINE lead == (clock - MaxTime) * TicksPerSecond - since
<1>1. /\ TicksPerSecond \in Nat \ {0, 1} /\ MaxTime \in Nat /\ clock \in Nat /\ since \in Nat
      /\ ticks \in 0 .. TicksPerSecond - 1
  BY DEF StationAssumption, TypeOK, ClockInStep
<1>2. lead \in Int /\ lead >= (IF ticks = 1 THEN -1 ELSE 0)
  BY <1>1 DEF ClockInStep
<1>3. /\ ticks' = IF ticks + 1 = TicksPerSecond THEN 0 ELSE ticks + 1
      /\ ticks % TicksPerSecond = ticks
  BY <1>1, Wraps DEF clock_loop, NextTick
<1>4. since' = since + 1  BY DEF clock_loop
<1>5. CASE ticks = 0
  <2>1. clock' = clock  BY <1>3, <1>5 DEF clock_loop, Advances
  <2>2. (clock' - MaxTime) * TicksPerSecond - since' = lead - 1
    <3>1. PICK x \in Int : x = (clock - MaxTime) * TicksPerSecond  BY <1>1
    <3> QED  BY <1>1, <1>4, <2>1, <3>1
  <2>3. ticks' = 1  BY <1>1, <1>3, <1>5
  <2> QED  BY <1>1, <1>2, <1>5, <2>1, <2>2, <2>3
<1>6. CASE ticks # 0
  <2>1. clock' = clock + 1  BY <1>3, <1>6 DEF clock_loop, Advances
  <2>2. (clock' - MaxTime) * TicksPerSecond - since' = lead + TicksPerSecond - 1
    BY <1>1, <1>4, <2>1, Lead
  <2>3. ticks' # 1 /\ ticks' \in 0 .. TicksPerSecond - 1  BY <1>1, <1>3, <1>6
  <2> HIDE DEF lead
  <2> QED  BY <1>1, <1>2, <2>1, <2>2, <2>3
<1> QED  BY <1>5, <1>6

LEMMA ClockStep ==
    ASSUME StationAssumption, TypeOK, ClockInStep, [Next]_vars
    PROVE  ClockInStep'
<1>1. CASE Answer
  <2>1. UNCHANGED clockVars /\ stamp' = MaxTime  BY <1>1 DEF Answer
  <2> QED  BY <2>1 DEF ClockInStep, clockVars
<1>2. CASE GotIp
  <2>1. UNCHANGED clockVars /\ stamp' = 0
    BY <1>2 DEF GotIp, Heard, espCfWiFi_ntp20Init
  <2> QED  BY <2>1 DEF ClockInStep, clockVars
<1>3. CASE espCfWiFi_ntp20Check
  <2>1. CASE stamp = 0
    BY <1>3, <2>1 DEF espCfWiFi_ntp20Check, TryAgain, ClockInStep
  <2>2. CASE stamp # 0
    <3>1. clock' = MaxTime /\ since' = 0 /\ stamp' = 0 /\ ticks' = ticks
      BY <1>3, <2>2 DEF espCfWiFi_ntp20Check, TryAgain, ClockInStep
    <3>2. MaxTime \in Nat /\ TicksPerSecond \in Nat  BY DEF StationAssumption
    <3>3. (MaxTime - MaxTime) * TicksPerSecond - 0 = 0  BY <3>2
    <3> QED  BY <3>1, <3>3 DEF ClockInStep
  <2> QED  BY <2>1, <2>2
<1>4. CASE clock_loop
  <2>1. stamp' = stamp  BY <1>4 DEF clock_loop, timeVars
  <2>2. CASE clock > 0  BY <1>4, <2>1, <2>2, Tick DEF ClockInStep
  <2>3. CASE ~(clock > 0)
    <3>1. clock' = clock  BY <1>4, <2>3 DEF clock_loop, Advances
    <3>2. /\ TicksPerSecond \in Nat \ {0, 1} /\ ticks \in 0 .. TicksPerSecond - 1
      BY DEF StationAssumption, ClockInStep
    <3>3. ticks' \in 0 .. TicksPerSecond - 1
      BY <1>4, <3>2, Wraps DEF clock_loop, NextTick
    <3> QED  BY <2>1, <2>3, <3>1, <3>3 DEF ClockInStep
  <2> QED  BY <2>2, <2>3
<1>5. CASE UNCHANGED <<stamp, clockVars>>  BY <1>5 DEF ClockInStep, clockVars
<1>6. [Next]_vars =>
         \/ UNCHANGED <<stamp, clockVars>> \/ Answer \/ GotIp \/ espCfWiFi_ntp20Check
         \/ clock_loop
  BY DEF Next, vars, timeVars, clockVars, Associate, Lease, Dissociate, Join, Happen, Handle,
         Connected, Disconnected, StationJoined, Heard, statusLoop
<1> QED  BY <1>1, <1>2, <1>3, <1>4, <1>5, <1>6

-----------------------------------------------------------------------------

LEMMA StationStep ==
    ASSUME StationAssumption, StationInv, [Next]_vars
    PROVE  StationInv'
<1>1. stamp \in {0, MaxTime}  BY DEF StationInv, ClockInStep
<1> QED  BY <1>1, TypeStep, NewsStep, AskedStep, ClockStep DEF StationInv

\* What the invariant says of the announcement and of the clock.
LEMMA StationFollows ==
    ASSUME StationAssumption, StationInv
    PROVE  TypeOK /\ AnnouncesItself /\ AskedIsAwaited /\ ClockNeverSlow
<1>1. AnnouncesItself
  BY DEF StationInv, TypeOK, NewsComes, UpToDate, AnnouncesItself
<1>2. ClockNeverSlow
  <2>1. SUFFICES ASSUME clock > 0
                 PROVE  (clock - MaxTime) * TicksPerSecond >= since - 1
    BY DEF ClockNeverSlow
  <2>2. PICK x \in Int : x = (clock - MaxTime) * TicksPerSecond
    BY DEF StationAssumption, StationInv, TypeOK
  <2>3. x - since >= (IF ticks = 1 THEN -1 ELSE 0)
    BY <2>1, <2>2 DEF StationInv, ClockInStep
  <2>4. since \in Nat /\ x - since >= -1
    BY <2>3 DEF StationInv, TypeOK
  <2> QED  BY <2>2, <2>4 DEF StationAssumption
<1> QED  BY <1>1, <1>2 DEF StationInv

\* The invariant of the device's network holds of every behaviour (espCfWiFi_callBack,
\* espCfWiFi_ntp20Check, clock_loop), for every number of addresses, events and seconds.
THEOREM StationInvariance ==
    ASSUME StationAssumption
    PROVE  Spec => []StationInv
<1>1. Init => StationInv  BY StationStarts
<1>2. StationInv /\ [Next]_vars => StationInv'  BY StationStep
<1> QED  BY <1>1, <1>2, PTL DEF Spec
=============================================================================
