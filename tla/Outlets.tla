------------------------------ MODULE Outlets ------------------------------
(***************************************************************************)
(* What a paired device is for: a controller lists its controls, gets one  *)
(* or sets one, and the outlets' pins follow.  The device is either the    *)
(* ESP8266 (user_main.c: two outlets and an analog gauge) or the one of    *)
(* bin/device.c (a switch, a dimmer, a gauge, data, and no pins).          *)
(*                                                                         *)
(* A run of the controller is one of main in bin/controller.c: it asks for *)
(* the list, then sends its command, each over UDP from a socket of its    *)
(* own, and waits for the answer for ever.  Packets may be lost; Repeats   *)
(* lets the network deliver one again; a Patient user gives a run up only  *)
(* when nothing of it is under way.  Serials are not checked on receipt,   *)
(* so a repeated command is carried out again.                             *)
(*                                                                         *)
(* The value_mask of every compiled control is 0 and is left out, as are   *)
(* labels and ranges, which nothing looks at.                              *)
(***************************************************************************)
EXTENDS Integers, FiniteSets

CONSTANTS
    Board,      \* "ESP8266" or "POSIX"
    Values,     \* what a controller may set a control to
    Readings,   \* what the analog input may read
    MaxRuns,    \* how many runs of the controller program
    PoolSize,   \* the packets of cpArray (16)
    Patient, Repeats, Reboots, Shell, Noise   \* which of these may happen

OutletsAssumption ==
    /\ Board \in {"ESP8266", "POSIX"}
    /\ Values \subseteq 0 .. 3 /\ Readings \subseteq 1 .. 1024
    /\ MaxRuns \in Nat /\ PoolSize \in Nat
    /\ {Patient, Repeats, Reboots, Shell, Noise} \subseteq BOOLEAN

VARIABLES
    value,      \* config.controlers[k].value
    pins,       \* the output pins that are high
    measured,   \* what the gauge was last found to show
    used,       \* the slots of cpArray in use, as cpStatus has them
    serving,    \* the request chatFabric_device is working on, or Idle
    replyCmd,   \* its replyCmd as the previous call left it on the stack
    requests,   \* the packets on their way to the device
    answers,    \* the packets on their way to the socket the controller waits on
    run,        \* the number of the controller's last run
    phase,      \* what that run is waiting for
    command,    \* its chatFabricAction
    view        \* its config.controlers: the values it shows, or NoView
vars == <<value, pins, measured, used, serving, replyCmd, requests, answers, run, phase,
          command, view>>
deviceVars == <<value, pins, measured, used, serving, replyCmd>>
controllerVars == <<run, phase, command, view>>

Esp == Board = "ESP8266"
Idle == [cmd |-> "NONE", run |-> 0, slot |-> 0]
NoView == << >>

\* espCfConfigInit and main of bin/device.c: the table of controls.
Controlers ==
    IF Esp
    THEN [k \in 0 .. 2 |->
            IF k = 2
            THEN [type |-> "GAUGE", gpio |-> -1, readOnly |-> TRUE, readFuction |-> TRUE]
            ELSE [type |-> "BOOLEAN", gpio |-> 12 + k, readOnly |-> FALSE, readFuction |-> FALSE]]
    ELSE [k \in 0 .. 3 |->
            [type |-> CASE k = 0 -> "BOOLEAN" [] k = 1 -> "DIMMER" [] k = 2 -> "GAUGE" [] k = 3 -> "DATA",
             gpio |-> -1, readOnly |-> FALSE, readFuction |-> FALSE]]
Controls == DOMAIN Controlers
OfType(type) == {k \in Controls : Controlers[k].type = type}

Shown == Values \cup Readings \cup {0}

\* The commands of the command line; the last control is none of the table's.
Commands ==
    LET named == 0 .. IF Esp THEN 3 ELSE 4
    IN  [action : {"GET"}, control : named, value : {0}]
        \cup [action : {"SET"}, control : named, value : Values]

\* The SDK's GPIO_OUTPUT_SET: it shifts the value to the pin, and clears the
\* pin if the value is even.
GPIO_OUTPUT_SET(high, gpio, v) ==
    (IF v % 2 = 0 THEN high \ {gpio} ELSE high)
    \cup {gpio + i : i \in {j \in 0 .. 1 : (v \div 2^j) % 2 = 1}}

\* gpioInitFromConfig with every value 0.
BootPins == {}

Init ==
    /\ value = [k \in Controls |-> 0] /\ pins = BootPins /\ measured = 0
    /\ used = {} /\ serving = Idle /\ replyCmd \in BOOLEAN
    /\ requests = {} /\ answers = {}
    /\ run = 0 /\ phase = "off" /\ view = NoView
    /\ command = [action |-> "NULL", control |-> 0, value |-> 0]

-----------------------------------------------------------------------------
\* The controller program.

Request(cmd, c) == [run |-> run', cmd |-> cmd, command |-> c]

\* main of bin/controller.c, paired: the application list first.
StartRun ==
    /\ phase = "off" /\ run < MaxRuns
    /\ run' = run + 1 /\ phase' = "listing" /\ view' = NoView
    /\ command' \in Commands
    /\ requests' = requests \cup
         {Request("APP_LIST", [action |-> "APP_LIST", control |-> 0, value |-> 0])}
    /\ UNCHANGED <<deviceVars, answers>>

\* Each call has a socket of its own, closed after it: the answers are those
\* to the call the controller waits in.
Waits(m) == m.run = run /\ phase = (IF m.cmd = "APP_LIST" THEN "listing" ELSE "asking")

\* controllerCallBack on the answer to the list; main goes on to the command.
GetList ==
    \E m \in answers :
        /\ phase = "listing"
        /\ view' = m.list /\ phase' = "asking"
        /\ requests' = requests \cup {[run |-> run, cmd |-> "APP_MESSAGE", command |-> command]}
        /\ answers' = {}
        /\ UNCHANGED <<deviceVars, run, command>>

\* controllerCallBack on the answer to the command, after which main returns.
GetAnswer ==
    \E m \in answers :
        /\ phase = "asking"
        /\ view' = IF m.action = "READ" /\ m.control \in DOMAIN view
                   THEN [view EXCEPT ![m.control] = m.value] ELSE view
        /\ phase' = "off"
        /\ answers' = {}
        /\ UNCHANGED <<deviceVars, requests, run, command>>

\* The user gives up a run that goes on waiting.
GiveUp ==
    /\ phase # "off"
    /\ Patient => serving.run # run /\ answers = {} /\ \A m \in requests : m.run # run
    /\ phase' = "off" /\ view' = NoView /\ answers' = {}
    /\ UNCHANGED <<deviceVars, requests, run, command>>

-----------------------------------------------------------------------------
\* The device.

Free == (1 .. PoolSize) \ used

\* The slot chatPacket_init0 takes, if there is one.
FirstFree == {slot \in Free : \A other \in Free : slot <= other}

\* chatFabric_device up to the decoded packet.
Receive ==
    \E m \in requests :
        /\ serving = Idle
        /\ \E slot \in IF Esp THEN FirstFree ELSE {0} :
             /\ serving' = [run |-> m.run, cmd |-> m.cmd, command |-> m.command, slot |-> slot]
             /\ used' = used \cup {slot}
        /\ requests' = IF Repeats THEN requests ELSE requests \ {m}
        /\ UNCHANGED <<value, pins, measured, replyCmd, answers, controllerVars>>

\* stateMachine of a paired device.  A packet that does not decode has no
\* destination and is turned away before replyCmd is assigned; on the ESP8266,
\* where uuuid2_gen_nil leaves the slot's last destination in place, it may
\* also be taken for one of the device's own.
StateMachine ==
    replyCmd' \in IF serving.cmd # "FAILED" THEN {TRUE}   \* the flags of chatFabric_controller
                  ELSE IF Esp THEN {replyCmd, FALSE} ELSE {replyCmd}

NoCommand == [action |-> "NULL", control |-> 0, value |-> 0]

\* What the reply says of a control.
Read(k) == [action |-> "READ", control |-> k, value |-> value'[k]]

Answer(fields, list) ==
    [action |-> fields.action, control |-> fields.control, value |-> fields.value, list |-> list]

\* What deviceCallBack lets a controller set.
Settable(k) == ~Controlers[k].readOnly

\* Mutated: the pin is driven before the value is stored.
DriveOld(k) ==
    pins' = IF Controlers[k].gpio >= 0 THEN GPIO_OUTPUT_SET(pins, Controlers[k].gpio, value[k])
            ELSE pins

\* A boolean control drives its pin.
Drive(k) ==
    pins' = IF Esp /\ Controlers[k].type = "BOOLEAN"
            THEN GPIO_OUTPUT_SET(pins, Controlers[k].gpio, value'[k]) ELSE pins

\* What deviceCallBack answers with a value.
Handled(c) ==
    /\ c.control \in Controls
    /\ c.action = "GET" \/ (c.action = "SET" /\ Settable(c.control))

\* deviceCallBack; fields are the reply's.
CallBack(c, fields) ==
    \/ /\ Handled(c) /\ c.action = "GET"
       /\ IF Controlers[c.control].readFuction
          THEN /\ measured' \in Readings                           \* adcCallBack
               /\ value' = [value EXCEPT ![c.control] = measured']
          ELSE UNCHANGED <<value, measured>>
       /\ fields = Read(c.control)
       /\ UNCHANGED pins
    \/ /\ Handled(c) /\ c.action = "SET"
       /\ value' = [value EXCEPT ![c.control] = c.value]
       /\ fields = Read(c.control)
       /\ Drive(c.control)
       /\ UNCHANGED measured
    \/ /\ ~Handled(c)
       /\ fields = NoCommand
       /\ UNCHANGED <<value, pins, measured>>

\* chatPacket_delete of the reply, sent or not, and of the packet.
Delete == used \ {serving.slot}

\* The rest of chatFabric_device: the state machine, the callback, the reply.
Serve ==
    /\ serving # Idle /\ serving' = Idle
    /\ StateMachine
    /\ used' = Delete
    /\ \E fields \in {NoCommand} \cup [action : {"READ"}, control : Controls, value : Shown] :
         /\ CallBack(serving.command, fields)
         /\ answers' = IF replyCmd' /\ Waits(serving)
                       THEN answers \cup
                            {Answer(fields, IF phase = "listing" THEN value' ELSE NoView)}
                       ELSE answers
    /\ UNCHANGED <<requests, controllerVars>>

\* user_init again: the table is compiled in, the pins are driven from it.
Reboot ==
    /\ Reboots
    /\ value' = [k \in Controls |-> 0] /\ pins' = BootPins /\ measured' = 0
    /\ used' = {} /\ serving' = Idle /\ replyCmd' \in BOOLEAN
    /\ UNCHANGED <<requests, answers, controllerVars>>

\* The console's gpio command drives a pin and leaves the controls alone.
ShellGpio ==
    /\ Shell /\ Esp /\ serving = Idle
    /\ \E k \in OfType("BOOLEAN"), v \in {0, 1} :
         pins' = GPIO_OUTPUT_SET(pins, Controlers[k].gpio, v)
    /\ UNCHANGED <<value, measured, used, serving, replyCmd, requests, answers, controllerVars>>

-----------------------------------------------------------------------------
\* The network.

Lose ==
    /\ \/ \E m \in requests : requests' = requests \ {m} /\ UNCHANGED answers
       \/ \E m \in answers : answers' = answers \ {m} /\ UNCHANGED requests
    /\ UNCHANGED <<deviceVars, controllerVars>>

\* A datagram that does not decode reaches the device's port.
Stray ==
    /\ Noise
    /\ requests' = requests \cup {[run |-> 0, cmd |-> "FAILED", command |-> NoCommand]}
    /\ UNCHANGED <<deviceVars, answers, controllerVars>>

Next ==
    \/ StartRun \/ GetList \/ GetAnswer \/ GiveUp
    \/ Receive \/ Serve \/ Reboot \/ ShellGpio
    \/ Lose \/ Stray

Spec == Init /\ [][Next]_vars

-----------------------------------------------------------------------------
Command == [action : {"NULL", "APP_LIST", "GET", "SET"}, control : 0 .. 4, value : Values \cup {0}]
View == {NoView} \cup [Controls -> Shown]
RequestType == [run : 0 .. MaxRuns, cmd : {"APP_LIST", "APP_MESSAGE", "FAILED"}, command : Command]
ServingType == [run : 0 .. MaxRuns, cmd : {"APP_LIST", "APP_MESSAGE", "FAILED"}, command : Command,
                slot : 0 .. PoolSize]
AnswerType == [action : {"NULL", "READ"}, control : 0 .. 4, value : Shown, list : View]

TypeOK ==
    /\ value \in [Controls -> Shown]
    /\ pins \subseteq 12 .. 14 /\ measured \in Readings \cup {0}
    /\ used \subseteq 0 .. PoolSize
    /\ serving \in {Idle} \cup ServingType
    /\ replyCmd \in BOOLEAN
    /\ requests \subseteq RequestType
    /\ answers \subseteq AnswerType
    /\ run \in 0 .. MaxRuns /\ phase \in {"off", "listing", "asking"}
    /\ command \in Command /\ view \in View

\* An outlet is on exactly when its control says so.
PinsFollow ==
    Esp => \A k \in OfType("BOOLEAN") : Controlers[k].gpio \in pins <=> value[k] = 1

\* What a finished run shows of the outlets is how they are.
ShownIsTrue ==
    phase = "off" /\ view # NoView => \A k \in OfType("BOOLEAN") : view[k] = value[k]

\* A gauge shows what was measured, whatever controllers try to set it to.
GaugesAreMeasured == \A k \in OfType("GAUGE") : value[k] = measured

\* Each call finds a packet for the request and one for the reply.
PoolSuffices ==
    Esp => Cardinality(Free) >= IF serving = Idle THEN 2 ELSE 1

\* A call of chatFabric_device gives back the slots it took.
PoolClean == Esp => used = IF serving = Idle THEN {} ELSE {serving.slot}

\* A packet of the run the controller is in, and what it waits for.
Live(m) == m.cmd \in {"APP_LIST", "APP_MESSAGE"}
Asked(m) ==
    /\ m.run = run
    /\ \/ m.cmd = "APP_LIST" /\ phase = "listing" /\ m.command.action = "APP_LIST"
       \/ m.cmd = "APP_MESSAGE" /\ phase = "asking" /\ m.command = command

\* A controller that stays has one thing under way at most, a request, a call
\* of the device or an answer, and it is what the controller waits for.
OneUnderWay ==
    /\ phase # "off" => run > 0
    /\ \A m \in requests :
         /\ Live(m) => Asked(m) /\ ~Live(serving) /\ answers = {}
         /\ ~Live(m) => m.run = 0 /\ m.command = NoCommand
         /\ \A n \in requests : Live(m) /\ Live(n) => m = n
    /\ Live(serving) => Asked(serving) /\ answers = {}
    /\ serving.cmd = "FAILED" => serving.run = 0 /\ serving.command = NoCommand
    /\ answers # {} => phase # "off"
    /\ \A m, n \in answers : m = n

\* What the controller knows is the device's state, but for the control its
\* command has changed, of which the answer tells.
ViewInStep ==
    /\ phase = "off" => view \in {NoView, value}
    /\ phase = "listing" => view = NoView /\ \A m \in answers : m.list = value
    /\ phase = "asking" =>
         /\ view \in [Controls -> Shown]
         /\ Live(serving) \/ (\E m \in requests : Live(m)) => view = value
         /\ \A m \in answers :
              \/ m.action = "NULL" /\ view = value
              \/ /\ m.action = "READ" /\ m.control \in Controls
                 /\ value = [view EXCEPT ![m.control] = m.value]

\* Inductive: what the properties above follow from, each with what it needs.
OutletsInv ==
    /\ TypeOK
    /\ PoolClean
    /\ ~Shell /\ Values \subseteq {0, 1} => PinsFollow
    /\ Esp => GaugesAreMeasured
    /\ Patient /\ ~Repeats /\ ~Reboots => OneUnderWay /\ ViewInStep

=============================================================================
