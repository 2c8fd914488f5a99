--------------------------- MODULE OutletsProofs ---------------------------
(***************************************************************************)
(* Proofs about Outlets: the pins follow the controls, gauges show what    *)
(* was measured, each call finds its packets in the pool, and a controller *)
(* that stays for its answer shows what is the case.                       *)
(***************************************************************************)
EXTENDS Outlets, FiniteSetTheorems, TLAPS

\* The table of the ESP8266: two outlets and a gauge.
LEMMA EspControls ==
    ASSUME Esp
    PROVE  /\ Controls = 0 .. 2
           /\ OfType("BOOLEAN") = {0, 1} /\ OfType("GAUGE") = {2}
           /\ \A k \in {0, 1} : Controlers[k].gpio = 12 + k /\ Controlers[k].type = "BOOLEAN"
           /\ Controlers[2].type = "GAUGE" /\ ~Settable(2)
           /\ \A k \in Controls : Controlers[k].readFuction <=> k = 2
<1>1. Controlers =
        [k \in 0 .. 2 |->
            IF k = 2
            THEN [type |-> "GAUGE", gpio |-> -1, readOnly |-> TRUE, readFuction |-> TRUE]
            ELSE [type |-> "BOOLEAN", gpio |-> 12 + k, readOnly |-> FALSE, readFuction |-> FALSE]]
  BY DEF Controlers
<1>2. Controls = 0 .. 2  BY <1>1 DEF Controls
<1> QED  BY <1>1, <1>2 DEF OfType, Settable

\* The table of a host has four controls, and reads none by a function.
LEMMA HostControls ==
    ASSUME ~Esp
    PROVE  Controls = 0 .. 3 /\ \A k \in Controls : ~Controlers[k].readFuction
  BY DEF Controls, Controlers

\* Driving a pin with 0 or 1 sets or clears that pin alone.
LEMMA Drives ==
    ASSUME NEW high, NEW gpio \in Nat, NEW v \in {0, 1}
    PROVE  GPIO_OUTPUT_SET(high, gpio, v) = IF v = 1 THEN high \cup {gpio} ELSE high \ {gpio}
<1> DEFINE bit(j) == (v \div 2^j) % 2
<1>1. 2^0 = 1 /\ 2^1 = 2  OBVIOUS
<1>2. /\ 0 \div 1 = 0 /\ 0 \div 2 = 0 /\ 1 \div 1 = 1 /\ 1 \div 2 = 0
      /\ 0 % 2 = 0 /\ 1 % 2 = 1
  OBVIOUS
<1>3. bit(0) = v /\ bit(1) = 0
  <2>1. bit(0) = (v \div 1) % 2 /\ bit(1) = (v \div 2) % 2  BY <1>1
  <2> QED  BY <1>2, <2>1
<1>4. GPIO_OUTPUT_SET(high, gpio, v) =
        (IF v % 2 = 0 THEN high \ {gpio} ELSE high)
        \cup {gpio + i : i \in {j \in 0 .. 1 : bit(j) = 1}}
  BY DEF GPIO_OUTPUT_SET
<1>5. v % 2 = v  BY <1>2
<1> HIDE DEF bit
<1>6. {j \in 0 .. 1 : bit(j) = 1} = IF v = 1 THEN {0} ELSE {}
  <2>1. 0 .. 1 = {0, 1}  OBVIOUS
  <2> QED  BY <1>3, <2>1
<1>7. {gpio + i : i \in {0}} = {gpio}  OBVIOUS
<1> QED  BY <1>4, <1>5, <1>6, <1>7

\* Whatever the value, it reaches the pin and the next one at most.
LEMMA DrivesAtMost ==
    ASSUME NEW high, NEW gpio \in Nat, NEW v
    PROVE  GPIO_OUTPUT_SET(high, gpio, v) \subseteq high \cup {gpio, gpio + 1}
  BY DEF GPIO_OUTPUT_SET
LEMMA FewControls == Controls \subseteq 0 .. 3 /\ Controls # {}
  BY EspControls, HostControls

\* What deviceCallBack does, with what it finds in Serve.
Called(c, fields) ==
    \/ /\ c.action = "GET" /\ c.control \in Controls
       /\ \/ /\ Controlers[c.control].readFuction
             /\ measured' \in Readings
             /\ value' = [value EXCEPT ![c.control] = measured']
          \/ /\ ~Controlers[c.control].readFuction
             /\ UNCHANGED <<value, measured>>
       /\ fields = [action |-> "READ", control |-> c.control, value |-> value'[c.control]]
       /\ pins' = pins
    \/ /\ c.action = "SET" /\ c.control \in Controls /\ Settable(c.control)
       /\ value' = [value EXCEPT ![c.control] = c.value]
       /\ fields = [action |-> "READ", control |-> c.control, value |-> value'[c.control]]
       /\ Drive(c.control)
       /\ measured' = measured
    \/ /\ ~Handled(c) /\ fields = NoCommand
       /\ UNCHANGED <<value, pins, measured>>

LEMMA Calls ==
    ASSUME NEW c, NEW fields, CallBack(c, fields)
    PROVE  Called(c, fields)
  BY DEF CallBack, Called, Handled, Read

LEMMA InTypes ==
    ASSUME TypeOK
    PROVE  /\ serving # Idle => serving \in ServingType
           /\ \A m \in requests : m \in RequestType
           /\ \A m \in answers : m \in AnswerType
  BY DEF TypeOK

\* A command of the list is one of the type.
LEMMA CommandTypes ==
    ASSUME OutletsAssumption
    PROVE  /\ Commands \subseteq Command
           /\ NoCommand \in Command
           /\ [action |-> "APP_LIST", control |-> 0, value |-> 0] \in Command
  BY DEF OutletsAssumption, Commands, Command, NoCommand

LEMMA InitTypes ==
    ASSUME OutletsAssumption, Init
    PROVE  TypeOK
<1>1. value \in [Controls -> Shown]  BY DEF Init, Shown
<1>2. command \in Command  BY DEF Init, Command
<1>3. view \in View  BY DEF Init, View
<1>4. pins \subseteq 12 .. 14 /\ measured \in Readings \cup {0}  BY DEF Init, BootPins
<1>5. run \in 0 .. MaxRuns  BY DEF Init, OutletsAssumption
<1> QED  BY <1>1, <1>2, <1>3, <1>4, <1>5 DEF Init, TypeOK

\* What a call of deviceCallBack may leave.
LEMMA CallTypes ==
    ASSUME OutletsAssumption, TypeOK, NEW c \in Command, NEW fields, Called(c, fields)
    PROVE  /\ value' \in [Controls -> Shown]
           /\ pins' \subseteq 12 .. 14
           /\ measured' \in Readings \cup {0}
           /\ fields \in [action : {"NULL", "READ"}, control : 0 .. 4, value : Shown]
<1>1. /\ value \in [Controls -> Shown] /\ pins \subseteq 12 .. 14
      /\ measured \in Readings \cup {0}
  BY DEF TypeOK
<1>2. c.value \in Shown /\ Readings \subseteq Shown /\ 0 \in Shown
  BY DEF Command, Shown
<1>3. value' \in [Controls -> Shown]  BY <1>1, <1>2 DEF Called
<1>4. measured' \in Readings \cup {0}  BY <1>1 DEF Called
<1>5. pins' \subseteq 12 .. 14
  <2>1. CASE Drive(c.control) /\ Esp /\ c.control \in Controls
    <3>1. Controlers[c.control].type = "BOOLEAN" => Controlers[c.control].gpio \in {12, 13}
      BY <2>1, EspControls
    <3>2. CASE Controlers[c.control].type = "BOOLEAN"
      <4>1. PICK g \in {12, 13} : g = Controlers[c.control].gpio  BY <3>1, <3>2
      <4>2. pins' = GPIO_OUTPUT_SET(pins, g, value'[c.control])  BY <2>1, <3>2, <4>1 DEF Drive
      <4>3. pins' \subseteq pins \cup {g, g + 1}  BY <4>2, DrivesAtMost
      <4> QED  BY <1>1, <4>3
    <3>3. CASE Controlers[c.control].type # "BOOLEAN"  BY <1>1, <2>1, <3>3 DEF Drive
    <3> QED  BY <3>2, <3>3
  <2>2. CASE pins' = pins  BY <1>1, <2>2
  <2> QED  BY <2>1, <2>2 DEF Called, Drive
<1>6. fields \in [action : {"NULL", "READ"}, control : 0 .. 4, value : Shown]
  <2>1. CASE fields = NoCommand  BY <1>2, <2>1 DEF NoCommand
  <2>2. CASE /\ c.control \in Controls
             /\ fields = [action |-> "READ", control |-> c.control, value |-> value'[c.control]]
    <3>1. c.control \in 0 .. 3  BY <2>2, FewControls
    <3>2. c.control \in 0 .. 4  BY <3>1
    <3>3. value'[c.control] \in Shown  BY <1>3, <2>2
    <3> QED  BY <2>2, <3>2, <3>3
  <2> QED  BY <2>1, <2>2 DEF Called
<1> QED  BY <1>3, <1>4, <1>5, <1>6

\* What Serve does to the rest of the state.
LEMMA Serves ==
    ASSUME OutletsAssumption, TypeOK, Serve
    PROVE  /\ serving \in ServingType /\ serving' = Idle
           /\ used' = used \ {serving.slot} /\ replyCmd' \in BOOLEAN
           /\ UNCHANGED <<requests, run, phase, command, view>>
           /\ \E fields : /\ Called(serving.command, fields)
                          /\ \/ answers' = answers
                             \/ /\ Waits(serving)
                                /\ answers' = answers \cup
                                     {Answer(fields, IF phase = "listing" THEN value' ELSE NoView)}
<1>1. replyCmd' \in BOOLEAN
  BY DEF Serve, StateMachine, TypeOK
<1>2. PICK fields : /\ CallBack(serving.command, fields)
                    /\ answers' = IF replyCmd' /\ Waits(serving)
                                  THEN answers \cup
                                     {Answer(fields, IF phase = "listing" THEN value' ELSE NoView)}
                                  ELSE answers
  BY DEF Serve
<1>3. Called(serving.command, fields)  BY <1>2, Calls
<1>4. \/ answers' = answers
      \/ /\ Waits(serving)
         /\ answers' = answers \cup
              {Answer(fields, IF phase = "listing" THEN value' ELSE NoView)}
  BY <1>2
<1>5. serving \in ServingType  BY InTypes DEF Serve
<1> QED  BY <1>1, <1>3, <1>4, <1>5 DEF Serve, Delete, controllerVars

LEMMA TypeStep ==
    ASSUME OutletsAssumption, TypeOK, [Next]_vars
    PROVE  TypeOK'
<1> USE DEF deviceVars, controllerVars
<1>1. CASE StartRun
  <2>1. run' \in 0 .. MaxRuns /\ command' \in Command
    BY <1>1, CommandTypes DEF StartRun, TypeOK, OutletsAssumption
  <2>2. PICK c \in Command : requests' = requests \cup {Request("APP_LIST", c)}
    BY <1>1, CommandTypes DEF StartRun
  <2>3. Request("APP_LIST", c) \in RequestType  BY <2>1 DEF Request, RequestType
  <2>4. view' \in View  BY <1>1 DEF StartRun, View
  <2> QED  BY <1>1, <2>1, <2>2, <2>3, <2>4 DEF StartRun, TypeOK
<1>2. CASE GetList
  <2>1. PICK m \in answers : view' = m.list  BY <1>2 DEF GetList
  <2>2. view' \in View  BY <2>1, InTypes DEF AnswerType
  <2>3. [run |-> run, cmd |-> "APP_MESSAGE", command |-> command] \in RequestType
    BY DEF TypeOK, RequestType
  <2> QED  BY <1>2, <2>2, <2>3 DEF GetList, TypeOK
<1>3. CASE GetAnswer
  <2>1. PICK m \in answers :
            view' = IF m.action = "READ" /\ m.control \in DOMAIN view
                    THEN [view EXCEPT ![m.control] = m.value] ELSE view
    BY <1>3 DEF GetAnswer
  <2>2. view' \in View
    <3>1. m.value \in Shown /\ view \in View  BY InTypes DEF AnswerType, TypeOK
    <3>2. CASE view \in [Controls -> Shown]  BY <2>1, <3>1, <3>2 DEF View
    <3>3. CASE view = NoView
      <4>1. DOMAIN view = {}  BY <3>3 DEF NoView
      <4> QED  BY <2>1, <3>1, <4>1
    <3> QED  BY <3>1, <3>2, <3>3 DEF View
  <2> QED  BY <1>3, <2>2 DEF GetAnswer, TypeOK
<1>4. CASE GiveUp
  <2>1. view' \in View  BY <1>4 DEF GiveUp, View
  <2> QED  BY <1>4, <2>1 DEF GiveUp, TypeOK
<1>5. CASE Receive
  <2>1. PICK m \in requests, slot \in IF Esp THEN FirstFree ELSE {0} :
           /\ serving' = [run |-> m.run, cmd |-> m.cmd, command |-> m.command, slot |-> slot]
           /\ used' = used \cup {slot}
    BY <1>5 DEF Receive
  <2>2. slot \in 0 .. PoolSize  BY <2>1 DEF FirstFree, Free, OutletsAssumption
  <2>3. serving' \in ServingType  BY <2>1, <2>2, InTypes DEF RequestType, ServingType
  <2>4. requests' \subseteq requests  BY <1>5 DEF Receive
  <2> QED  BY <1>5, <2>1, <2>2, <2>3, <2>4 DEF Receive, TypeOK
<1>6. CASE Serve
  <2>1. serving.command \in Command  BY <1>6, Serves DEF ServingType
  <2>2. PICK fields : /\ Called(serving.command, fields)
                      /\ \/ answers' = answers
                         \/ answers' = answers \cup
                              {Answer(fields, IF phase = "listing" THEN value' ELSE NoView)}
    BY <1>6, Serves
  <2>3. /\ value' \in [Controls -> Shown] /\ pins' \subseteq 12 .. 14
        /\ measured' \in Readings \cup {0}
        /\ fields \in [action : {"NULL", "READ"}, control : 0 .. 4, value : Shown]
    BY <2>1, <2>2, CallTypes
  <2>4. (IF phase = "listing" THEN value' ELSE NoView) \in View  BY <2>3 DEF View
  <2>5. answers' \subseteq AnswerType
    <3>1. Answer(fields, IF phase = "listing" THEN value' ELSE NoView) \in AnswerType
      BY <2>3, <2>4 DEF Answer, AnswerType
    <3> QED  BY <2>2, <3>1, InTypes
  <2> QED  BY <1>6, <2>3, <2>5, Serves DEF TypeOK
<1>7. CASE Reboot
  <2>1. value' \in [Controls -> Shown]  BY <1>7 DEF Reboot, Shown
  <2> QED  BY <1>7, <2>1 DEF Reboot, TypeOK, BootPins
<1>8. CASE ShellGpio
  <2>1. PICK k \in OfType("BOOLEAN"), v \in {0, 1} :
            pins' = GPIO_OUTPUT_SET(pins, Controlers[k].gpio, v)
    BY <1>8 DEF ShellGpio
  <2>2. PICK g \in {12, 13} : g = Controlers[k].gpio  BY <1>8, EspControls DEF ShellGpio
  <2>3. pins' \subseteq pins \cup {g, g + 1}  BY <2>1, <2>2, DrivesAtMost
  <2>4. pins' \subseteq 12 .. 14  BY <2>3 DEF TypeOK
  <2> QED  BY <1>8, <2>4 DEF ShellGpio, TypeOK
<1>9. CASE Lose  BY <1>9 DEF Lose, TypeOK
<1>10. CASE Stray
  <2>1. [run |-> 0, cmd |-> "FAILED", command |-> NoCommand] \in RequestType
    BY CommandTypes DEF RequestType, OutletsAssumption
  <2> QED  BY <1>10, <2>1 DEF Stray, TypeOK
<1>11. CASE UNCHANGED vars  BY <1>11 DEF vars, TypeOK
<1> QED
  BY <1>1, <1>2, <1>3, <1>4, <1>5, <1>6, <1>7, <1>8, <1>9, <1>10, <1>11 DEF Next
-----------------------------------------------------------------------------

LEMMA PoolStep ==
    ASSUME OutletsAssumption, TypeOK, PoolClean, [Next]_vars
    PROVE  PoolClean'
<1> USE DEF PoolClean, deviceVars, controllerVars
<1>1. CASE Receive
  <2>1. PICK m \in requests, slot \in IF Esp THEN FirstFree ELSE {0} :
           /\ serving' = [run |-> m.run, cmd |-> m.cmd, command |-> m.command, slot |-> slot]
           /\ used' = used \cup {slot}
    BY <1>1 DEF Receive
  <2>2. m.cmd # "NONE"  BY InTypes DEF RequestType
  <2>3. serving' # Idle /\ serving'.slot = slot  BY <2>1, <2>2 DEF Idle
  <2> QED  BY <1>1, <2>1, <2>3 DEF Receive
<1>2. CASE Serve
  <2>1. serving # Idle  BY <1>2 DEF Serve
  <2> QED  BY <1>2, <2>1, Serves
<1>3. CASE Reboot  BY <1>3 DEF Reboot
<1>4. CASE UNCHANGED <<used, serving>>  BY <1>4
<1>5. [Next]_vars => Receive \/ Serve \/ Reboot \/ UNCHANGED <<used, serving>>
  BY DEF Next, vars, StartRun, GetList, GetAnswer, GiveUp, ShellGpio, Lose, Stray
<1> QED  BY <1>1, <1>2, <1>3, <1>4, <1>5

\* What changes the device's controls and pins.
LEMMA WhatDrives ==
    ASSUME [Next]_vars
    PROVE  Serve \/ Reboot \/ ShellGpio \/ UNCHANGED <<value, pins, measured>>
  BY DEF Next, vars, deviceVars, controllerVars, StartRun, GetList, GetAnswer, GiveUp, Receive,
         Lose, Stray

LEMMA PinsStep ==
    ASSUME OutletsAssumption, TypeOK, ~Shell, Values \subseteq {0, 1}, PinsFollow, [Next]_vars
    PROVE  PinsFollow'
<1> SUFFICES ASSUME Esp PROVE PinsFollow'  BY DEF PinsFollow
<1>1. \A k \in {0, 1} : (12 + k) \in pins <=> value[k] = 1
  BY EspControls DEF PinsFollow
<1>2. SUFFICES ASSUME NEW k \in {0, 1} PROVE (12 + k) \in pins' <=> value'[k] = 1
  BY EspControls DEF PinsFollow
<1>3. CASE Serve
  <2>1. PICK fields : Called(serving.command, fields)  BY <1>3, Serves
  <2>2. PICK c \in Command : c = serving.command  BY <1>3, Serves DEF ServingType
  <2>3. value \in [0 .. 2 -> Shown]  BY EspControls DEF TypeOK
  <2>4. CASE c.action = "GET" /\ pins' = pins /\ c.control \in Controls
    <3>1. value'[k] = value[k]
      <4>1. CASE Controlers[c.control].readFuction
        <5>1. c.control = 2  BY <2>4, <4>1, EspControls
        <5>2. value' = [value EXCEPT ![2] = measured']
          BY <2>1, <2>2, <2>4, <4>1, <5>1 DEF Called, Handled
        <5> QED  BY <2>3, <5>2
      <4>2. CASE ~Controlers[c.control].readFuction
        BY <2>1, <2>2, <2>4, <4>2 DEF Called, Handled
      <4> QED  BY <4>1, <4>2
    <3> QED  BY <1>1, <2>4, <3>1
  <2>5. CASE /\ c.action = "SET" /\ c.control \in Controls /\ Settable(c.control)
             /\ value' = [value EXCEPT ![c.control] = c.value]
             /\ Drive(c.control)
    <3>1. PICK o \in {0, 1} : o = c.control  BY <2>5, EspControls
    <3>2. PICK v \in {0, 1} : v = c.value  BY DEF Command
    <3>3. value' = [value EXCEPT ![o] = v]  BY <2>5, <3>1, <3>2
    <3>4. value'[o] = v /\ (k # o => value'[k] = value[k])  BY <2>3, <3>3
    <3>5. pins' = GPIO_OUTPUT_SET(pins, 12 + o, v)
      BY <2>5, <3>1, <3>4, EspControls DEF Drive
    <3>6. pins' = IF v = 1 THEN pins \cup {12 + o} ELSE pins \ {12 + o}
      <4>1. PICK g \in Nat : g = 12 + o  OBVIOUS
      <4>2. pins' = IF v = 1 THEN pins \cup {g} ELSE pins \ {g}  BY <3>5, <4>1, Drives
      <4> QED  BY <4>1, <4>2
    <3> QED  BY <1>1, <3>4, <3>6
  <2>6. CASE UNCHANGED <<value, pins>>  BY <1>1, <2>6
  <2> QED  BY <2>1, <2>2, <2>4, <2>5, <2>6 DEF Called
<1>4. CASE Reboot
  <2>1. value'[k] = 0 /\ pins' = {}  BY <1>4, EspControls DEF Reboot, BootPins
  <2> QED  BY <2>1
<1>5. CASE UNCHANGED <<value, pins>>  BY <1>1, <1>5
<1> QED  BY <1>3, <1>4, <1>5, WhatDrives DEF ShellGpio

\* Only a reading changes a gauge of the ESP8266.
LEMMA GaugeStep ==
    ASSUME OutletsAssumption, TypeOK, Esp, GaugesAreMeasured, [Next]_vars
    PROVE  GaugesAreMeasured'
<1>1. value[2] = measured /\ value \in [0 .. 2 -> Shown]
  BY EspControls DEF GaugesAreMeasured, TypeOK
<1>2. SUFFICES value'[2] = measured'  BY EspControls DEF GaugesAreMeasured
<1>3. CASE Serve
  <2>1. PICK fields : Called(serving.command, fields)  BY <1>3, Serves
  <2>2. PICK c \in Command : c = serving.command  BY <1>3, Serves DEF ServingType
  <2>3. CASE c.action = "GET" /\ c.control \in Controls
    <3>1. CASE Controlers[c.control].readFuction
      <4>1. c.control = 2  BY <2>3, <3>1, EspControls
      <4>2. value' = [value EXCEPT ![2] = measured']
        BY <2>1, <2>2, <2>3, <3>1, <4>1 DEF Called, Handled
      <4> QED  BY <1>1, <4>2
    <3>2. CASE ~Controlers[c.control].readFuction
      BY <1>1, <2>1, <2>2, <2>3, <3>2 DEF Called, Handled
    <3> QED  BY <3>1, <3>2
  <2>4. CASE /\ c.control \in Controls /\ Settable(c.control)
             /\ value' = [value EXCEPT ![c.control] = c.value] /\ measured' = measured
    <3>1. c.control # 2  BY <2>4, EspControls
    <3> QED  BY <1>1, <2>4, <3>1
  <2>5. CASE UNCHANGED <<value, measured>>  BY <1>1, <2>5
  <2> QED  BY <2>1, <2>2, <2>3, <2>4, <2>5 DEF Called
<1>4. CASE Reboot  BY <1>4, EspControls DEF Reboot
<1>5. CASE UNCHANGED <<value, measured>>  BY <1>1, <1>5
<1> QED  BY <1>3, <1>4, <1>5, WhatDrives DEF ShellGpio
-----------------------------------------------------------------------------
(* One command after the other: what is under way is what the controller    *)
(* waits for.                                                               *)

LEMMA NothingAsked ==
    ASSUME OneUnderWay, phase = "off"
    PROVE  (\A m \in requests : ~Live(m)) /\ ~Live(serving) /\ answers = {}
  BY DEF OneUnderWay, Asked

LEMMA NothingAnswered ==
    ASSUME OneUnderWay, NEW a \in answers
    PROVE  (\A m \in requests : ~Live(m)) /\ ~Live(serving) /\ answers = {a} /\ phase # "off"
  BY DEF OneUnderWay

\* The controller asks when nothing is under way.
LEMMA Asks ==
    ASSUME TypeOK, OneUnderWay,
           \A m \in requests : ~Live(m), ~Live(serving),
           NEW r, requests' = requests \cup {r}, serving' = serving, answers' = {},
           Live(r), Asked(r)', phase' # "off", run' > 0
    PROVE  OneUnderWay'
<1>1. Live(serving)' = Live(serving)  BY DEF Live
<1>2. ASSUME NEW m \in requests' 
      PROVE  /\ Live(m) => Asked(m)' /\ m = r
             /\ ~Live(m) => m.run = 0 /\ m.command = NoCommand
  <2>1. CASE m = r  BY <2>1
  <2>2. CASE m \in requests  BY <2>2 DEF OneUnderWay
  <2> QED  BY <2>1, <2>2
<1> QED  BY <1>1, <1>2 DEF OneUnderWay

\* Fewer packets under way, by loss or by the end of a run.
LEMMA Fewer ==
    ASSUME OneUnderWay, requests' \subseteq requests, answers' \subseteq answers,
           UNCHANGED <<serving, run, command>>,
           phase' = phase \/ ((\A m \in requests : ~Live(m)) /\ ~Live(serving) /\ answers' = {}
                             /\ phase' = "off")
    PROVE  OneUnderWay'
<1>1. Live(serving)' = Live(serving)  BY DEF Live
<1>2. CASE phase' = phase
  <2>1. \A m : Asked(m)' = Asked(m)  BY <1>2 DEF Asked
  <2> QED  BY <1>1, <1>2, <2>1 DEF OneUnderWay
<1>3. CASE (\A m \in requests : ~Live(m)) /\ ~Live(serving) /\ answers' = {} /\ phase' = "off"
  BY <1>1, <1>3 DEF OneUnderWay
<1> QED  BY <1>2, <1>3

\* Nobody waits for the answer to a packet that does not decode.
LEMMA WaitsForLive ==
    ASSUME OutletsAssumption, TypeOK, OneUnderWay, Serve, Waits(serving)
    PROVE  Live(serving)
<1>1. serving \in ServingType  BY Serves
<1>2. CASE serving.cmd = "FAILED"
  <2>1. serving.run = 0 /\ run = 0  BY <1>2 DEF OneUnderWay, Waits
  <2>2. phase = "off"  BY <2>1 DEF OneUnderWay
  <2> QED  BY <1>2, <2>2 DEF Waits
<1> QED  BY <1>1, <1>2 DEF ServingType, Live

LEMMA WayStep ==
    ASSUME OutletsAssumption, TypeOK, Patient, ~Repeats, ~Reboots, OneUnderWay, [Next]_vars
    PROVE  OneUnderWay'
<1> USE DEF deviceVars, controllerVars
<1>1. CASE StartRun
  <2>1. (\A m \in requests : ~Live(m)) /\ ~Live(serving) /\ answers = {}
    BY <1>1, NothingAsked DEF StartRun
  <2>2. PICK r : /\ r = [run |-> run', cmd |-> "APP_LIST",
                         command |-> [action |-> "APP_LIST", control |-> 0, value |-> 0]]
                 /\ requests' = requests \cup {r}
    BY <1>1 DEF StartRun, Request
  <2>3. Live(r) /\ Asked(r)'  BY <1>1, <2>2 DEF Live, Asked, StartRun
  <2>4. run' > 0  BY <1>1 DEF StartRun, TypeOK
  <2> QED  BY <1>1, <2>1, <2>2, <2>3, <2>4, Asks DEF StartRun
<1>2. CASE GetList
  <2>1. PICK a \in answers : phase = "listing"  BY <1>2 DEF GetList
  <2>2. (\A m \in requests : ~Live(m)) /\ ~Live(serving)  BY <2>1, NothingAnswered
  <2>3. PICK r : /\ r = [run |-> run, cmd |-> "APP_MESSAGE", command |-> command]
                 /\ requests' = requests \cup {r}
    BY <1>2 DEF GetList
  <2>4. Live(r) /\ Asked(r)'  BY <1>2, <2>3 DEF Live, Asked, GetList
  <2>5. run' > 0  BY <1>2, <2>1 DEF OneUnderWay, GetList
  <2> QED  BY <1>2, <2>2, <2>3, <2>4, <2>5, Asks DEF GetList
<1>3. CASE GetAnswer
  <2>1. PICK a \in answers : TRUE  BY <1>3 DEF GetAnswer
  <2>2. (\A m \in requests : ~Live(m)) /\ ~Live(serving)  BY <2>1, NothingAnswered
  <2> QED  BY <1>3, <2>2, Fewer DEF GetAnswer
<1>4. CASE GiveUp
  <2>1. serving.run # run /\ answers = {} /\ \A m \in requests : m.run # run
    BY <1>4 DEF GiveUp
  <2>2. (\A m \in requests : ~Live(m)) /\ ~Live(serving)  BY <2>1 DEF OneUnderWay, Asked
  <2> QED  BY <1>4, <2>1, <2>2, Fewer DEF GiveUp
<1>5. CASE Receive
  <2>1. PICK m \in requests, slot \in IF Esp THEN FirstFree ELSE {0} :
           /\ serving' = [run |-> m.run, cmd |-> m.cmd, command |-> m.command, slot |-> slot]
           /\ requests' = requests \ {m} /\ serving = Idle
    BY <1>5 DEF Receive
  <2>2. UNCHANGED <<answers, run, phase, command, view>>  BY <1>5 DEF Receive
  <2>3. \A n : Asked(n)' = Asked(n)  BY <2>2 DEF Asked
  <2>4. /\ Live(serving)' = Live(m)
        /\ Asked(serving)' = Asked(m)
        /\ serving'.cmd = m.cmd /\ serving'.run = m.run /\ serving'.command = m.command
    BY <2>1, <2>2 DEF Live, Asked
  <2>5. m.cmd = "FAILED" => ~Live(m)  BY DEF Live
  <2>6. Live(m) => Asked(m) /\ answers = {} /\ \A n \in requests' : ~Live(n)
    BY <2>1 DEF OneUnderWay
  <2>7. \A n \in requests' :
          /\ Live(n) => Asked(n)' /\ ~Live(serving)' /\ answers' = {}
          /\ ~Live(n) => n.run = 0 /\ n.command = NoCommand
          /\ \A o \in requests' : Live(n) /\ Live(o) => n = o
    BY <2>1, <2>2, <2>3, <2>4, <2>6 DEF OneUnderWay
  <2>8. ~Live(m) => m.run = 0 /\ m.command = NoCommand  BY DEF OneUnderWay
  <2>9. Live(serving)' => Asked(serving)' /\ answers' = {}  BY <2>2, <2>4, <2>6
  <2>10. serving'.cmd = "FAILED" => serving'.run = 0 /\ serving'.command = NoCommand
    BY <2>4, <2>5, <2>8
  <2> QED  BY <2>2, <2>7, <2>9, <2>10 DEF OneUnderWay
<1>6. CASE Serve
  <2>1. UNCHANGED <<requests, run, phase, command>> /\ serving' = Idle  BY <1>6, Serves
  <2>2. ~Live(serving)' /\ serving'.cmd # "FAILED"  BY <2>1 DEF Live, Idle
  <2>3. \A n : Asked(n)' = Asked(n)  BY <2>1 DEF Asked
  <2>4. CASE answers' = answers  BY <2>1, <2>2, <2>3, <2>4 DEF OneUnderWay
  <2>5. CASE Waits(serving) /\ \E a : answers' = answers \cup {a}
    <3>1. Live(serving)  BY <1>6, <2>5, WaitsForLive
    <3>2. answers = {} /\ Asked(serving) /\ \A m \in requests : ~Live(m)
      BY <3>1 DEF OneUnderWay
    <3>3. phase # "off"  BY <3>2 DEF Asked
    <3>4. \A m, n \in answers' : m = n  BY <2>5, <3>2
    <3>5. \A m \in requests' : ~Live(m) /\ m.run = 0 /\ m.command = NoCommand
      BY <2>1, <3>2 DEF OneUnderWay
    <3>6. phase' # "off" => run' > 0  BY <2>1 DEF OneUnderWay
    <3> QED  BY <2>1, <2>2, <3>3, <3>4, <3>5, <3>6 DEF OneUnderWay
  <2> QED  BY <1>6, <2>4, <2>5, Serves
<1>7. CASE ShellGpio  BY <1>7, Fewer DEF ShellGpio
<1>8. CASE Lose
  <2>1. requests' \subseteq requests /\ answers' \subseteq answers  BY <1>8 DEF Lose
  <2> QED  BY <1>8, <2>1, Fewer DEF Lose
<1>9. CASE Stray
  <2>1. PICK r : /\ r = [run |-> 0, cmd |-> "FAILED", command |-> NoCommand]
                 /\ requests' = requests \cup {r}
    BY <1>9 DEF Stray
  <2>2. ~Live(r) /\ r.run = 0 /\ r.command = NoCommand  BY <2>1 DEF Live
  <2>3. UNCHANGED <<serving, answers, run, phase, command>>  BY <1>9 DEF Stray
  <2>4. \A n : Asked(n)' = Asked(n)  BY <2>3 DEF Asked
  <2>5. Live(serving)' = Live(serving)  BY <2>3 DEF Live
  <2>6. Asked(serving)' = Asked(serving)  BY <2>3 DEF Asked
  <2>7. \A n \in requests' : n \in requests \/ n = r  BY <2>1
  <2> QED  BY <2>2, <2>3, <2>4, <2>5, <2>6, <2>7 DEF OneUnderWay
<1>10. CASE UNCHANGED vars  BY <1>10, Fewer DEF vars
<1> QED  BY <1>1, <1>2, <1>3, <1>4, <1>5, <1>6, <1>7, <1>8, <1>9, <1>10 DEF Next, Reboot
\* The answer to the command tells of the one control it may have changed.
LEMMA CallShows ==
    ASSUME NEW c, NEW fields, Called(c, fields), value \in [Controls -> Shown]
    PROVE  \/ fields.action = "NULL" /\ value' = value
           \/ /\ fields.action = "READ" /\ fields.control \in Controls
              /\ value' = [value EXCEPT ![fields.control] = fields.value]
<1>1. CASE fields = NoCommand /\ value' = value  BY <1>1 DEF NoCommand
<1>2. ASSUME c.control \in Controls, NEW v, value' = [value EXCEPT ![c.control] = v],
             fields = [action |-> "READ", control |-> c.control, value |-> value'[c.control]]
      PROVE  /\ fields.action = "READ" /\ fields.control \in Controls
             /\ value' = [value EXCEPT ![fields.control] = fields.value]
  <2>1. value'[c.control] = v  BY <1>2
  <2> QED  BY <1>2, <2>1
<1>3. value' = value => \A k \in Controls : value' = [value EXCEPT ![k] = value[k]]
  OBVIOUS
<1> QED  BY <1>1, <1>2, <1>3 DEF Called

\* A step that leaves the device and what the controller knows alone, and
\* brings no packet of the run.
LEMMA NothingShown ==
    ASSUME ViewInStep, UNCHANGED <<value, view>>, answers' \subseteq answers,
           phase' = phase,
           Live(serving)' \/ (\E m \in requests' : Live(m)) =>
              Live(serving) \/ (\E m \in requests : Live(m))
    PROVE  ViewInStep'
  BY DEF ViewInStep

LEMMA ViewStep ==
    ASSUME OutletsAssumption, TypeOK, Patient, ~Repeats, ~Reboots, OneUnderWay, ViewInStep,
           [Next]_vars
    PROVE  ViewInStep'
<1> USE DEF deviceVars, controllerVars
<1>1. CASE StartRun
  <2>1. answers = {}  BY <1>1, NothingAsked DEF StartRun
  <2> QED  BY <1>1, <2>1 DEF StartRun, ViewInStep
<1>2. CASE GetList
  <2>1. PICK a \in answers : phase = "listing" /\ view' = a.list  BY <1>2 DEF GetList
  <2>2. view' = value  BY <2>1 DEF ViewInStep
  <2> QED  BY <1>2, <2>2 DEF GetList, ViewInStep, TypeOK
<1>3. CASE GetAnswer
  <2>1. PICK a \in answers :
            view' = IF a.action = "READ" /\ a.control \in DOMAIN view
                    THEN [view EXCEPT ![a.control] = a.value] ELSE view
    BY <1>3 DEF GetAnswer
  <2>2. view \in [Controls -> Shown]  BY <1>3 DEF GetAnswer, ViewInStep
  <2>3. \/ a.action = "NULL" /\ view = value
        \/ /\ a.action = "READ" /\ a.control \in Controls
           /\ value = [view EXCEPT ![a.control] = a.value]
    BY <1>3 DEF GetAnswer, ViewInStep
  <2>4. view' = value  BY <2>1, <2>2, <2>3
  <2> QED  BY <1>3, <2>4 DEF GetAnswer, ViewInStep
<1>4. CASE GiveUp  BY <1>4 DEF GiveUp, ViewInStep
<1>5. CASE Receive
  <2>1. PICK m \in requests, slot \in IF Esp THEN FirstFree ELSE {0} :
           /\ serving' = [run |-> m.run, cmd |-> m.cmd, command |-> m.command, slot |-> slot]
           /\ requests' = requests \ {m}
    BY <1>5 DEF Receive
  <2>2. Live(serving)' = Live(m)  BY <2>1 DEF Live
  <2> QED  BY <1>5, <2>1, <2>2, NothingShown DEF Receive
<1>6. CASE Serve
  <2>1. UNCHANGED <<requests, run, phase, command, view>> /\ serving' = Idle  BY <1>6, Serves
  <2>2. ~Live(serving)'  BY <2>1 DEF Live, Idle
  <2>3. PICK fields : /\ Called(serving.command, fields)
                      /\ \/ answers' = answers
                         \/ /\ Waits(serving)
                            /\ answers' = answers \cup
                                 {Answer(fields, IF phase = "listing" THEN value' ELSE NoView)}
    BY <1>6, Serves
  <2>4. CASE ~Live(serving)
    <3>1. answers' = answers  BY <1>6, <2>3, <2>4, WaitsForLive
    <3>2. serving \in ServingType  BY <1>6, Serves
    <3>3. serving.command = NoCommand  BY <2>4, <3>2 DEF OneUnderWay, Live, ServingType
    <3>4. value' = value  BY <2>3, <3>3 DEF Called, NoCommand
    <3> QED  BY <2>1, <2>2, <3>1, <3>4, NothingShown
  <2>5. CASE Live(serving) /\ phase = "listing"
    <3>1. serving.command.action = "APP_LIST" /\ answers = {}
      BY <2>5 DEF OneUnderWay, Asked
    <3>2. value' = value  BY <2>3, <3>1 DEF Called
    <3>3. \A a \in answers' : a.list = value'  BY <2>3, <2>5, <3>1 DEF Answer
    <3> QED  BY <2>1, <2>5, <3>3 DEF ViewInStep
  <2>6. CASE Live(serving) /\ phase = "asking"
    <3>1. answers = {} /\ \A m \in requests : ~Live(m)  BY <2>6 DEF OneUnderWay
    <3>2. view = value /\ view \in [Controls -> Shown]  BY <2>6 DEF ViewInStep
    <3>3. \/ fields.action = "NULL" /\ value' = value
          \/ /\ fields.action = "READ" /\ fields.control \in Controls
             /\ value' = [value EXCEPT ![fields.control] = fields.value]
      BY <2>3, <3>2, CallShows
    <3>4. ASSUME NEW a \in answers'
          PROVE  \/ a.action = "NULL" /\ view' = value'
                 \/ /\ a.action = "READ" /\ a.control \in Controls
                    /\ value' = [view' EXCEPT ![a.control] = a.value]
      <4>1. a = Answer(fields, NoView)  BY <2>3, <2>6, <3>1
      <4>2. a.action = fields.action /\ a.control = fields.control /\ a.value = fields.value
        BY <4>1 DEF Answer
      <4> QED  BY <2>1, <3>2, <3>3, <4>2
    <3> QED  BY <2>1, <2>2, <2>6, <3>1, <3>2, <3>4 DEF ViewInStep
  <2>7. Live(serving) => phase \in {"listing", "asking"}  BY DEF OneUnderWay, Asked
  <2> QED  BY <2>4, <2>5, <2>6, <2>7
<1>7. CASE ShellGpio
  <2>1. Live(serving)' = Live(serving)  BY <1>7 DEF ShellGpio, Live
  <2> QED  BY <1>7, <2>1, NothingShown DEF ShellGpio
<1>8. CASE Lose
  <2>1. requests' \subseteq requests /\ answers' \subseteq answers  BY <1>8 DEF Lose
  <2>2. Live(serving)' = Live(serving)  BY <1>8 DEF Lose, Live
  <2> QED  BY <1>8, <2>1, <2>2, NothingShown DEF Lose
<1>9. CASE Stray
  <2>1. PICK r : /\ r = [run |-> 0, cmd |-> "FAILED", command |-> NoCommand]
                 /\ requests' = requests \cup {r}
    BY <1>9 DEF Stray
  <2>2. ~Live(r)  BY <2>1 DEF Live
  <2>3. Live(serving)' = Live(serving)  BY <1>9 DEF Stray, Live
  <2> QED  BY <1>9, <2>1, <2>2, <2>3, NothingShown DEF Stray
<1>10. CASE UNCHANGED vars
  <2>1. Live(serving)' = Live(serving)  BY <1>10 DEF vars, Live
  <2> QED  BY <1>10, <2>1, NothingShown DEF vars
<1> QED  BY <1>1, <1>2, <1>3, <1>4, <1>5, <1>6, <1>7, <1>8, <1>9, <1>10 DEF Next, Reboot

-----------------------------------------------------------------------------

LEMMA OutletsStart ==
    ASSUME OutletsAssumption, Init
    PROVE  OutletsInv
<1>1. TypeOK  BY InitTypes
<1>2. PoolClean  BY DEF Init, PoolClean
<1>3. PinsFollow
  <2>1. SUFFICES ASSUME Esp, NEW k \in {0, 1} PROVE 12 + k \in pins <=> value[k] = 1
    BY EspControls DEF PinsFollow
  <2>2. value[k] = 0 /\ pins = {}  BY <2>1, EspControls DEF Init, BootPins
  <2> QED  BY <2>2
<1>4. Esp => GaugesAreMeasured  BY EspControls DEF Init, GaugesAreMeasured
<1>5. OneUnderWay  BY DEF Init, OneUnderWay, Live, Idle
<1>6. ViewInStep  BY DEF Init, ViewInStep
<1> QED  BY <1>1, <1>2, <1>3, <1>4, <1>5, <1>6 DEF OutletsInv

LEMMA OutletsStep ==
    ASSUME OutletsAssumption, OutletsInv, [Next]_vars
    PROVE  OutletsInv'
<1>1. TypeOK'  BY TypeStep DEF OutletsInv
<1>2. PoolClean'  BY PoolStep DEF OutletsInv
<1>3. ~Shell /\ Values \subseteq {0, 1} => PinsFollow'  BY PinsStep DEF OutletsInv
<1>4. Esp => GaugesAreMeasured'  BY GaugeStep DEF OutletsInv
<1>5. Patient /\ ~Repeats /\ ~Reboots => OneUnderWay' /\ ViewInStep'
  BY WayStep, ViewStep DEF OutletsInv
<1>6. Esp' = Esp  BY DEF Esp
<1> QED  BY <1>1, <1>2, <1>3, <1>4, <1>5, <1>6 DEF OutletsInv

\* What the invariant says of the pool and of the outlets.
LEMMA OutletsShow ==
    ASSUME OutletsAssumption, OutletsInv
    PROVE  /\ PoolSize >= 2 => PoolSuffices
           /\ Patient /\ ~Repeats /\ ~Reboots => ShownIsTrue
<1>1. ASSUME PoolSize >= 2, Esp
      PROVE  Cardinality(Free) >= IF serving = Idle THEN 2 ELSE 1
  <2>1. PoolSize \in Nat /\ IsFiniteSet(1 .. PoolSize) /\ Cardinality(1 .. PoolSize) = PoolSize
    BY FS_Interval DEF OutletsAssumption
  <2>2. CASE serving = Idle
    <3>1. Free = 1 .. PoolSize  BY <1>1, <2>2 DEF OutletsInv, PoolClean, Free
    <3> QED  BY <1>1, <2>1, <2>2, <3>1
  <2>3. CASE serving # Idle
    <3>1. Free = (1 .. PoolSize) \ {serving.slot}  BY <1>1, <2>3 DEF OutletsInv, PoolClean, Free
    <3>2. CASE serving.slot \in 1 .. PoolSize
      <4>1. Cardinality((1 .. PoolSize) \ {serving.slot}) = PoolSize - 1
        BY <2>1, <3>2, FS_RemoveElement
      <4> QED  BY <1>1, <2>1, <2>3, <3>1, <4>1
    <3>3. CASE serving.slot \notin 1 .. PoolSize
      <4>1. Free = 1 .. PoolSize  BY <3>1, <3>3
      <4> QED  BY <1>1, <2>1, <2>3, <4>1
    <3> QED  BY <3>2, <3>3
  <2> QED  BY <2>2, <2>3
<1>2. Patient /\ ~Repeats /\ ~Reboots => ShownIsTrue
  BY DEF OutletsInv, ViewInStep, ShownIsTrue
<1> QED  BY <1>1, <1>2 DEF PoolSuffices

\* The invariant of the controls holds of every behaviour (deviceCallBack, controllerCallBack,
\* chatPacket_init0 and chatPacket_delete), for every number of runs, values and packets.
THEOREM OutletsInvariance ==
    ASSUME OutletsAssumption
    PROVE  Spec => []OutletsInv
<1>1. Init => OutletsInv  BY OutletsStart
<1>2. OutletsInv /\ [Next]_vars => OutletsInv'  BY OutletsStep
<1> QED  BY <1>1, <1>2, PTL DEF Spec
=============================================================================
