------------------------------- MODULE Stream -------------------------------
(***************************************************************************)
(* The TCP paths of chatFabric_consetup, chatFabric_controller and         *)
(* chatFabric_device: one device, which accepts one connection at a time,  *)
(* and controllers that run once each, some of which may be killed.        *)
(*                                                                         *)
(* What the handshake says is the business of Pairing and Fabric; here it  *)
(* is condensed to two exchanges, PAIR_REQUEST and the last NONCE_SEND,    *)
(* after which the device is PAIRED, and what matters is which connection  *)
(* is read, written, closed, left open, and who waits for whom.  A packet  *)
(* arrives whole.                                                          *)
(***************************************************************************)
EXTENDS Integers, Sequences

CONSTANTS
    Controller,    \* the controllers
    Known,         \* those one of which may have been paired with it before
    DeviceFirst,   \* does the device listen before any controller starts?
    Kills,         \* may a controller be killed in the middle of a run?
    WildLength,    \* does the unset length given to accept make it fail?
    MaxConn        \* bound: connections that are ever opened

StreamAssumption ==
    /\ Known \subseteq Controller
    /\ DeviceFirst \in BOOLEAN /\ Kills \in BOOLEAN /\ WildLength \in BOOLEAN
    /\ MaxConn \in Nat \ {0}

VARIABLES
    conn,     \* the connections, in the order they were opened
    queue,    \* those the listening socket has not handed out yet
    dev,      \* the device: its sockets, and its pairing
    ctl       \* each controller: where it is in its run
vars == <<conn, queue, dev, ctl>>

Conn == 1 .. MaxConn
NoSocket == 0      \* the -1 of the code
Broken == -1       \* a socket whose connect failed
State == {"UNCONFIGURED", "NONCE_SETUP", "PAIRED"}
Request == {"PAIR_REQUEST", "NONCE_SEND", "APP_MESSAGE"}
Answer == {"PAIR_REQUEST_ACK", "NONCE_ACK", "APP_MESSAGE_ACK", "FAIL"}

\* The two streams of a connection, the ends that are open, whether it was
\* reset, and whether the end the device closed first still holds the port.
Connection ==
    [by : Controller, req : Seq(Request), ans : Seq(Answer),
     cOpen : BOOLEAN, dOpen : BOOLEAN, reset : BOOLEAN, lingers : BOOLEAN]

Opened(c) == [by |-> c, req |-> <<>>, ans |-> <<>>, cOpen |-> TRUE, dOpen |-> TRUE,
              reset |-> FALSE, lingers |-> FALSE]

Side ==
    [socket : {"none", "port", "elsewhere"}, accepted : {NoSocket} \cup Conn, state : State]

Run ==
    [pc : {"start", "connect", "write", "reconnect", "read", "exit", "end", "killed"},
     socket : {Broken, NoSocket} \cup Conn, retry : 0..3, state : State,
     msg : Request, answered : BOOLEAN, result : {"none", "ERROR_OK", "ERROR"}]

TypeOK ==
    /\ conn \in Seq(Connection) /\ Len(conn) <= MaxConn
    /\ queue \in Seq(Conn)
    /\ dev \in Side
    /\ ctl \in [Controller -> Run]

Init ==
    /\ conn = <<>> /\ queue = <<>>
    /\ \E known \in {{}} \cup {{c} : c \in Known} :
         /\ dev = [socket |-> IF DeviceFirst THEN "port" ELSE "none",
                   accepted |-> NoSocket,
                   state |-> IF known = {} THEN "UNCONFIGURED" ELSE "PAIRED"]
         /\ ctl = [c \in Controller |->
                     [pc |-> "start", socket |-> NoSocket, retry |-> 3,
                      state |-> IF c \in known THEN "PAIRED" ELSE "UNCONFIGURED",
                      msg |-> IF c \in known THEN "APP_MESSAGE" ELSE "PAIR_REQUEST",
                      answered |-> FALSE, result |-> "none"]]

-----------------------------------------------------------------------------
(* What the kernel does with a connection.                                 *)

Reset(k) == [k EXCEPT !.reset = TRUE, !.req = <<>>, !.ans = <<>>, !.lingers = FALSE]

\* An end that closes with data it has not read resets the connection.
CloseC(k) ==
    LET q == [k EXCEPT !.cOpen = FALSE] IN
    IF k.ans # <<>> /\ k.dOpen THEN Reset(q) ELSE q

CloseD(k) ==
    LET q == [k EXCEPT !.dOpen = FALSE] IN
    IF k.req # <<>> THEN Reset(q) ELSE [q EXCEPT !.lingers = k.cOpen /\ ~k.reset]

CloseSocketOf(c, cs) ==
    IF ctl[c].socket \in Conn THEN [cs EXCEPT ![ctl[c].socket] = CloseC(@)] ELSE cs

\* What is written to an end that was closed comes back as a reset.
WriteAns(k, m) ==
    IF k.reset THEN k
    ELSE IF k.cOpen THEN [k EXCEPT !.ans = Append(@, m)] ELSE Reset(k)

\* The connections the listening socket still holds die with it.
CloseQueue(cs) ==
    [i \in DOMAIN cs |-> IF \E j \in DOMAIN queue : queue[j] = i
                         THEN Reset([cs[i] EXCEPT !.dOpen = FALSE]) ELSE cs[i]]

PortHeld == \E i \in DOMAIN conn : conn[i].lingers

\* The kernel gives the port up some time after the connection is closed.
LingerEnds ==
    \E i \in DOMAIN conn :
        /\ conn[i].lingers
        /\ conn' = [conn EXCEPT ![i].lingers = FALSE]
        /\ UNCHANGED <<queue, dev, ctl>>

-----------------------------------------------------------------------------
(* The device.                                                             *)

\* chatFabric_consetup without a socket: bind is not checked, and a socket
\* that is not bound listens on a port of the kernel's choice.
DeviceListen ==
    /\ dev.socket = "none"
    /\ dev' = [dev EXCEPT !.socket = IF PortHeld THEN "elsewhere" ELSE "port"]
    /\ UNCHANGED <<conn, queue, ctl>>

DeviceAccept ==
    /\ dev.socket = "port" /\ dev.accepted = NoSocket /\ queue # <<>>
    /\ dev' = [dev EXCEPT !.accepted = Head(queue)]
    /\ queue' = Tail(queue)
    /\ UNCHANGED <<conn, ctl>>

\* The read of a connection that was reset, or of the -1 a failed accept
\* left: the listening socket is closed, the accepted one is forgotten.
\* The retries end in a return of ERROR_OK, and main calls again.
DeviceReopen ==
    /\ dev' = [dev EXCEPT !.socket = "none", !.accepted = NoSocket]
    /\ conn' = CloseQueue(conn)
    /\ queue' = <<>>
    /\ UNCHANGED ctl

AcceptFails ==
    /\ WildLength /\ dev.socket = "port" /\ dev.accepted = NoSocket
    /\ DeviceReopen

ReadFails ==
    /\ dev.accepted # NoSocket /\ conn[dev.accepted].reset
    /\ DeviceReopen

\* stateMachine in two exchanges: the state it goes to and what it answers.
Handle(s, m) ==
    CASE m = "PAIR_REQUEST" /\ s = "UNCONFIGURED" -> <<"NONCE_SETUP", "PAIR_REQUEST_ACK">>
      [] m = "PAIR_REQUEST" /\ s # "UNCONFIGURED" -> <<s, "FAIL">>
      [] m = "NONCE_SEND" /\ s = "NONCE_SETUP" -> <<"PAIRED", "NONCE_ACK">>
      [] m = "APP_MESSAGE" /\ s = "PAIRED" -> <<s, "APP_MESSAGE_ACK">>
      [] OTHER -> <<s, "none">>

\* Mutated: the connection is closed only after the first exchange.
AfterAnswerOpen(s, k) == IF s = "NONCE_SETUP" THEN CloseD(k) ELSE k

\* The connection is closed after each packet of a paired device, and never
\* before it is paired.
AfterAnswer(s, k) == IF s = "PAIRED" THEN CloseD(k) ELSE k

DeviceReceive ==
    /\ dev.accepted # NoSocket
    /\ LET i == dev.accepted  k == conn[i]  h == Handle(dev.state, Head(k.req))
           q == [k EXCEPT !.req = Tail(@)] IN
       /\ ~k.reset /\ k.req # <<>>
       /\ conn' = [conn EXCEPT ![i] =
                     AfterAnswer(h[1], IF h[2] = "none" THEN q ELSE WriteAns(q, h[2]))]
       /\ dev' = [dev EXCEPT !.state = h[1],
                             !.accepted = IF h[1] = "PAIRED" THEN NoSocket ELSE @]
    /\ UNCHANGED <<queue, ctl>>

\* The end of the stream is decoded as a packet of no bytes, which is for
\* another destination: *replyCmd is not assigned, and a blank packet is
\* written to the closed connection, or none.
DeviceEof ==
    /\ dev.accepted # NoSocket
    /\ LET i == dev.accepted  k == conn[i] IN
       /\ ~k.reset /\ k.req = <<>> /\ ~k.cOpen
       /\ \E sent \in BOOLEAN :
            LET q == IF sent THEN Reset(k) ELSE k IN
            conn' = [conn EXCEPT ![i] = AfterAnswer(dev.state, q)]
       /\ dev' = [dev EXCEPT !.accepted = IF dev.state = "PAIRED" THEN NoSocket ELSE @]
    /\ UNCHANGED <<queue, ctl>>

-----------------------------------------------------------------------------
(* A controller.                                                           *)

Start(c) ==
    /\ ctl[c].pc = "start"
    /\ ctl' = [ctl EXCEPT ![c].pc = "connect"]
    /\ UNCHANGED <<conn, queue, dev>>

\* chatFabric_consetup: a connect that is refused is only logged.
Connected(c, after) ==
    IF dev.socket = "port"
    THEN /\ Len(conn) < MaxConn
         /\ conn' = Append(CloseSocketOf(c, conn), Opened(c))
         /\ queue' = Append(queue, Len(conn) + 1)
         /\ ctl' = [ctl EXCEPT ![c] = [after EXCEPT !.socket = Len(conn) + 1]]
         /\ UNCHANGED dev
    ELSE /\ conn' = CloseSocketOf(c, conn)
         /\ ctl' = [ctl EXCEPT ![c] = [after EXCEPT !.socket = Broken]]
         /\ UNCHANGED <<queue, dev>>

\* After a failed write the call connects and writes again while retries are
\* left; then it goes on to read from a connection it has written nothing to.
Connect(c) ==
    /\ ctl[c].pc = "connect"
    /\ Connected(c, IF ctl[c].retry = 0
                    THEN [ctl[c] EXCEPT !.pc = "read", !.retry = 3]
                    ELSE [ctl[c] EXCEPT !.pc = "write"])

\* After a failed read the call connects and reads again.  The third failure
\* is returned as ERROR_OK: chatFabric_controller is then done, though nothing
\* was answered, unless it is pairing.
Reconnect(c) ==
    /\ ctl[c].pc = "reconnect"
    /\ Connected(c,
         IF ctl[c].retry > 0 THEN [ctl[c] EXCEPT !.pc = "read"]
         ELSE IF ctl[c].state # "PAIRED" THEN [ctl[c] EXCEPT !.pc = "read", !.retry = 3]
         ELSE [ctl[c] EXCEPT !.pc = "exit", !.result = "ERROR_OK"])

Failing(c) == ctl[c].socket = Broken \/ (ctl[c].socket \in Conn /\ conn[ctl[c].socket].reset)

\* What is written to a connection the device has closed brings a reset.
WriteReq(k, m) ==
    IF k.dOpen THEN [k EXCEPT !.req = Append(@, m)] ELSE Reset(k)

Write(c) ==
    /\ ctl[c].pc = "write" /\ ~Failing(c)
    /\ conn' = [conn EXCEPT ![ctl[c].socket] = WriteReq(@, ctl[c].msg)]
    /\ ctl' = [ctl EXCEPT ![c].pc = "read", ![c].retry = 3]
    /\ UNCHANGED <<queue, dev>>

WriteError(c) ==
    /\ ctl[c].pc = "write" /\ Failing(c)
    /\ ctl' = [ctl EXCEPT ![c].pc = "connect", ![c].retry = @ - 1]
    /\ UNCHANGED <<conn, queue, dev>>

ReadError(c) ==
    /\ ctl[c].pc = "read" /\ Failing(c)
    /\ ctl' = [ctl EXCEPT ![c].pc = "reconnect", ![c].retry = @ - 1]
    /\ UNCHANGED <<conn, queue, dev>>

\* The exit of main closes what the call left open.
Exit(c) ==
    /\ ctl[c].pc = "exit"
    /\ conn' = CloseSocketOf(c, conn)
    /\ ctl' = [ctl EXCEPT ![c].pc = "end", ![c].socket = NoSocket]
    /\ UNCHANGED <<queue, dev>>

\* chatFabric_device on the controller's side: the answer to the request is
\* written before the next read, and a controller that is paired closes.
Receive(c) ==
    /\ ctl[c].pc = "read" /\ ~Failing(c)
    /\ conn[ctl[c].socket].ans # <<>>
    /\ LET i == ctl[c].socket  m == Head(conn[i].ans)
           cs == [conn EXCEPT ![i].ans = Tail(@)] IN
       CASE m = "PAIR_REQUEST_ACK" ->
              /\ conn' = [cs EXCEPT ![i] = WriteReq(@, "NONCE_SEND")]
              /\ ctl' = [ctl EXCEPT ![c].state = "NONCE_SETUP", ![c].msg = "NONCE_SEND"]
         [] m \in {"NONCE_ACK", "APP_MESSAGE_ACK"} ->
              /\ conn' = [cs EXCEPT ![i] = CloseC(@)]
              /\ ctl' = [ctl EXCEPT ![c].pc = "end", ![c].socket = NoSocket,
                                    ![c].state = "PAIRED", ![c].answered = TRUE,
                                    ![c].result = "ERROR_OK"]
         [] m = "FAIL" -> conn' = cs /\ UNCHANGED ctl
    /\ UNCHANGED <<queue, dev>>

\* Mutated: the end of the stream is no error.
EofOk(c) ==
    /\ ctl[c].pc = "read" /\ ~Failing(c)
    /\ conn[ctl[c].socket].ans = <<>> /\ ~conn[ctl[c].socket].dOpen
    /\ ctl' = [ctl EXCEPT ![c].pc = "exit", ![c].result = "ERROR_OK"]
    /\ UNCHANGED <<conn, queue, dev>>

\* The packet of no bytes ends the call with an error.
Eof(c) ==
    /\ ctl[c].pc = "read" /\ ~Failing(c)
    /\ conn[ctl[c].socket].ans = <<>> /\ ~conn[ctl[c].socket].dOpen
    /\ ctl' = [ctl EXCEPT ![c].pc = "exit", ![c].result = "ERROR"]
    /\ UNCHANGED <<conn, queue, dev>>

Kill(c) ==
    /\ Kills /\ ctl[c].pc \in {"connect", "write", "reconnect", "read", "exit"}
    /\ conn' = CloseSocketOf(c, conn)
    /\ ctl' = [ctl EXCEPT ![c].pc = "killed", ![c].socket = NoSocket]
    /\ UNCHANGED <<queue, dev>>

-----------------------------------------------------------------------------
Device == DeviceListen \/ DeviceAccept \/ DeviceReceive \/ DeviceEof
          \/ AcceptFails \/ ReadFails

Step(c) == \/ Start(c) \/ Connect(c) \/ Write(c) \/ WriteError(c)
           \/ Receive(c) \/ ReadError(c) \/ Reconnect(c) \/ Eof(c) \/ Exit(c)

Next == Device \/ LingerEnds \/ \E c \in Controller : Step(c) \/ Kill(c)

Spec == Init /\ [][Next]_vars

\* Both programs are scheduled by an operating system that is fair.
FairSpec ==
    /\ Spec
    /\ WF_vars(Device)
    /\ \A c \in Controller : WF_vars(Step(c))

-----------------------------------------------------------------------------
DeviceOpen == {i \in DOMAIN conn : conn[i].dOpen}
Waiting == {queue[j] : j \in DOMAIN queue}

\* Only connections that were reset are forgotten without a close: the
\* device's retry loop never loses one a controller is still using.
OnlyDeadAreLeaked ==
    \A i \in DeviceOpen \ (Waiting \cup {dev.accepted}) : conn[i].reset

\* However controllers are killed and connections reset, at most one
\* controller believes it is paired, and the device is then PAIRED.
OnePairing ==
    \A c \in Controller : ctl[c].state = "PAIRED" =>
        /\ dev.state = "PAIRED"
        /\ \A d \in Controller : ctl[d].state = "PAIRED" => c = d

\* A call returns ERROR_OK only to a controller that was answered.
OkMeansAnswered ==
    \A c \in Controller : ctl[c].result = "ERROR_OK" => ctl[c].answered

\* Device and controller never wait for each other on a connection that
\* carries nothing: each read is of something the other end still owes.
NoMutualWait ==
    \A c \in Controller :
        LET i == ctl[c].socket IN
        ~(/\ ctl[c].pc = "read" /\ i \in Conn /\ i = dev.accepted
          /\ ~conn[i].reset /\ conn[i].req = <<>> /\ conn[i].ans = <<>>)

\* A device that serves a connection comes back to accept the next one.
DeviceComesBack == (dev.accepted # NoSocket) ~> (dev.accepted = NoSocket)

-----------------------------------------------------------------------------
(* What the proofs need.                                                   *)

\* The sockets that are held are connections, a controller's its own, and a
\* call that writes or reads has one and has retries left.
SocketsHeld ==
    /\ \A j \in DOMAIN queue : queue[j] \in DOMAIN conn
    /\ dev.accepted # NoSocket => dev.accepted \in DOMAIN conn
    /\ \A c \in Controller :
         /\ ctl[c].socket \in Conn =>
              ctl[c].socket \in DOMAIN conn /\ conn[ctl[c].socket].by = c
         /\ ctl[c].pc \in {"write", "read"} => ctl[c].socket # NoSocket /\ ctl[c].retry # 0

Grants(k) == \E j \in DOMAIN k.ans : k.ans[j] \in {"NONCE_ACK", "APP_MESSAGE_ACK"}

\* It is paired, or an answer on its way will have it so.
Confirmed(c) ==
    ctl[c].state = "PAIRED" \/ \E i \in DOMAIN conn : conn[i].by = c /\ Grants(conn[i])

\* The connections of a controller that sends m.
Carries(k, m) ==
    /\ \A j \in DOMAIN k.req : k.req[j] = "APP_MESSAGE" <=> m = "APP_MESSAGE"
    /\ m = "APP_MESSAGE" => \A j \in DOMAIN k.ans : k.ans[j] = "APP_MESSAGE_ACK"

\* One controller at most is confirmed, and no request of another can have
\* the paired device confirm it too.
PairedOnce ==
    /\ \A c \in Controller : Confirmed(c) => dev.state = "PAIRED"
    /\ \A c, d \in Controller : Confirmed(c) /\ Confirmed(d) => c = d
    /\ \A c \in Controller :
         /\ ctl[c].msg = "APP_MESSAGE" => ctl[c].state = "PAIRED"
         /\ ctl[c].state = "PAIRED" /\ ctl[c].msg # "APP_MESSAGE" => ctl[c].pc = "end"
    /\ \A i \in DOMAIN conn : Carries(conn[i], ctl[conn[i].by].msg)

\* Where the exchange on connection i stands while the device has it open:
\* the controller is about to write, its request is under way, or the answer
\* to its PAIR_REQUEST is.
Exchange(i) ==
    LET k == conn[i]  c == ctl[k.by] IN
    /\ k.cOpen /\ c.socket = i
    /\ \/ c.pc = "write" /\ k.req = <<>> /\ k.ans = <<>>
       \/ /\ c.pc = "read" /\ k.req = <<c.msg>> /\ k.ans = <<>>
          /\ c.msg = "NONCE_SEND" <=> dev.accepted = i /\ dev.state = "NONCE_SETUP"
       \/ /\ c.pc = "read" /\ k.req = <<>> /\ k.ans = <<"PAIR_REQUEST_ACK">>
          /\ dev.accepted = i /\ dev.state = "NONCE_SETUP"

\* What the device has closed holds its last answer at most.
Answered(k) ==
    /\ k.req = <<>>
    /\ k.ans = <<>> \/ \E m \in Answer \ {"PAIR_REQUEST_ACK"} : k.ans = <<m>>

\* With the device there first and nobody killed, no connection is reset and
\* no call fails: requests and answers alternate.
OrderlyInv ==
    /\ dev.socket = "port"
    /\ \A i, j \in DOMAIN queue : queue[i] = queue[j] => i = j
    /\ \A j \in DOMAIN queue : conn[queue[j]].dOpen /\ queue[j] # dev.accepted
    /\ dev.accepted # NoSocket => conn[dev.accepted].dOpen
    /\ dev.state = "NONCE_SETUP" =>
         /\ dev.accepted # NoSocket
         /\ conn[dev.accepted].req = <<"NONCE_SEND">> \/ conn[dev.accepted].ans = <<"PAIR_REQUEST_ACK">>
    /\ \A i \in DOMAIN conn :
         /\ ~conn[i].reset
         /\ IF conn[i].dOpen THEN Exchange(i) ELSE Answered(conn[i])
    /\ \A c \in Controller :
         /\ ctl[c].pc \in {"start", "connect", "write", "read", "exit", "end"}
         /\ ctl[c].retry = 3
         /\ ctl[c].pc \in {"start", "connect", "end"} => ctl[c].socket = NoSocket
         /\ ctl[c].pc \in {"write", "read", "exit"} => ctl[c].socket \in DOMAIN conn
         /\ ctl[c].pc = "write" => conn[ctl[c].socket].dOpen
         /\ ctl[c].pc = "exit" => ~conn[ctl[c].socket].dOpen /\ conn[ctl[c].socket].ans = <<>>
         /\ ctl[c].pc \in {"start", "connect", "write"} => ctl[c].msg # "NONCE_SEND"
         /\ ctl[c].msg = "APP_MESSAGE" => dev.state = "PAIRED"
         /\ ctl[c].result = "ERROR_OK" => ctl[c].answered

=============================================================================
