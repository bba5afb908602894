----------------------------- MODULE FifoGateway -----------------------------
(***************************************************************************)
(* The host side of the FIFO gateways (fifo.c of BinFIFO and of FixFIFO)   *)
(* between the TCP engine and its remote clients, from its start on.  The  *)
(* engine's framer reports messages and changes of the connections' states *)
(* on one framed stream (toCPU); the host follows the states, closes and   *)
(* re-opens sockets, and echoes messages on another (fromCPU), a message   *)
(* in as many frames as it needs.  The two streams and the calls into the  *)
(* engine run independently.                                               *)
(*                                                                         *)
(* The two programs' texts differ only in Known.                           *)
(* The engine and the clients are external.  A connection of socket s is   *)
(* numbered by conns[s], a message by its connection and its place in it.  *)
(***************************************************************************)
EXTENDS Integers, Sequences, FiniteSets

CONSTANTS
  MAX_SOCKETS,      \* sockets the table may have (1024), and the bitstream has
  MaxSimSockets,    \* sockets simulation may have (64)
  Modulus,          \* numbers of 16 bits
  Arguments,        \* what the program may be run with
  MaxFrames,        \* fromCPU frames a message takes, at most
  InRing, OutRing,  \* frames the rings toCPU and fromCPU hold
  MaxConns,         \* bound: connections of each socket
  MaxMessages,      \* bound: messages per connection of each
  None

EngineSockets == 0 .. MAX_SOCKETS - 1

ASSUME SocketAssumption ==
  /\ MAX_SOCKETS \in Nat /\ MaxSimSockets \in 0 .. MAX_SOCKETS
  /\ Modulus \in Nat /\ Modulus > MAX_SOCKETS
  /\ Arguments \subseteq [program : {"Bin", "Fix"}, isSim : BOOLEAN, known : BOOLEAN,
                           sockets : Nat]
ASSUME SizeAssumption ==
  /\ MaxFrames \in Nat \ {0} /\ InRing \in Nat \ {0} /\ OutRing \in Nat \ {0}
  /\ MaxConns \in [EngineSockets -> Nat]
  /\ MaxMessages \in [EngineSockets -> Nat]

\* States a connection reports, and those of a socket.
Reports == {"Established", "CloseWait", "ClosedDataPending", "Closed"}
States == Reports \cup {"Listen", "LastAck"}

ASSUME NoneAssumption == None \notin Nat \cup Reports
ASSUME NoMessageAssumption == None \notin [conn : Nat, nr : Nat, parts : Nat]

VARIABLES
  args,       \* the program, and the arguments and maxfile it is run with
  pc,         \* "ReadConstants", "InitTcp", "Listen", "Run" or "Exited"
  numSockets, \* num_valid_sockets
  opened,     \* sockets main has opened
  tcp,        \* the engine's state of each socket
  conns,      \* connections each socket has had
  sent,       \* messages the client has sent on its connection
  toCPU,      \* [socket, state, data]: state or data may be None
  sockets,    \* sockets[s].socketState of the host
  pos,        \* frames of the current message Send has written, or None
  fromCPU,    \* [socket, data, part]
  echoed      \* history: the last [data, part] given to a client of a socket

config == <<args, numSockets>>
host == <<config, pc, opened, sockets, pos>>
engine == <<tcp, conns, sent>>
vars == <<engine, toCPU, host, fromCPU, echoed>>

ValidSockets == 0 .. numSockets - 1

-----------------------------------------------------------------------------
\* Calls into the engine.

TcpListen(s) == tcp' = [tcp EXCEPT ![s] = "Listen"]

\* max_tcp_close_advanced, graceful: FIN is sent, the socket becomes Closed
\* later.  A connection that has gone already is not touched.
TcpClose(s) ==
  tcp' = [tcp EXCEPT ![s] = IF @ \in {"CloseWait", "ClosedDataPending",
                                      "Established"} THEN "LastAck" ELSE @]

-----------------------------------------------------------------------------
\* The start of the host.

ReadConstants ==
  /\ pc = "ReadConstants"
  /\ pc' = IF args.known THEN "InitTcp" ELSE "Exited"
  /\ UNCHANGED <<config, opened, sockets, pos, engine, toCPU, fromCPU, echoed>>

\* init_tcp: the argument is cut to 16 bits before it is compared.  The table
\* is as long as asked for, and no socket in it is open.
InitTcp ==
  LET n == args.sockets % Modulus
  IN  /\ pc = "InitTcp"
      /\ IF n > MAX_SOCKETS \/ (args.isSim /\ n > MaxSimSockets)
         THEN pc' = "Exited" /\ UNCHANGED numSockets
         ELSE pc' = (IF args.isSim THEN "Listen" ELSE "Run") /\ numSockets' = n
      /\ UNCHANGED <<args, opened, sockets, pos, engine, toCPU, fromCPU, echoed>>

CloseGraceful(s) == TcpClose(s) /\ UNCHANGED pc

\* Listen, with the state the socket has in the table.
Listen(s, state) ==
  IF state = "Closed" THEN TcpListen(s) /\ UNCHANGED pc
                      ELSE pc' = "Exited" /\ UNCHANGED tcp

\* main, in simulation: one socket after the other; clients connect meanwhile.
ListenAll ==
  /\ pc = "Listen"
  /\ IF opened < numSockets THEN Listen(opened, sockets[opened]) /\ opened' = opened + 1
                            ELSE pc' = "Run" /\ UNCHANGED <<tcp, opened>>
  /\ UNCHANGED <<config, sockets, pos, conns, sent, toCPU, fromCPU, echoed>>

Start == ReadConstants \/ InitTcp \/ ListenAll

-----------------------------------------------------------------------------
\* The loop of the host.

Frame == Head(toCPU)

\* Mutant: an event of any socket of the engine is followed.
KnownAny(s) == TRUE

\* Only BinFIFO's host looks whether the socket is one of its own.
Known(s) == args.program = "Fix" \/ s \in ValidSockets

\* Mutant: a close request of the client is not answered.
TransitionNoClose(s, toState) ==
  /\ sockets' = [sockets EXCEPT ![s] = toState]
  /\ CASE toState = "ClosedDataPending" -> CloseGraceful(s)
       [] toState = "Closed" -> Listen(s, toState)
       [] OTHER -> UNCHANGED <<tcp, pc>>

\* Mutant: a socket with data pending is not closed but opened again at once.
TransitionEager(s, toState) ==
  /\ sockets' = [sockets EXCEPT ![s] = toState]
  /\ CASE toState = "CloseWait" -> CloseGraceful(s)
       [] toState \in {"Closed", "ClosedDataPending"} -> Listen(s, "Closed")
       [] OTHER -> UNCHANGED <<tcp, pc>>

\* transition: Listen is asked for with the state just set, so it never exits.
Transition(s, toState) ==
  /\ sockets' = [sockets EXCEPT ![s] = toState]
  /\ CASE toState \in {"CloseWait", "ClosedDataPending"} -> CloseGraceful(s)
       [] toState = "Closed" -> Listen(s, toState)
       [] OTHER -> UNCHANGED <<tcp, pc>>

\* Mutant: the state is not looked at in a frame with data.
FollowEvents(f) ==
  IF Known(f.socket) /\ f.state # None /\ f.data = None
  THEN Transition(f.socket, f.state) ELSE UNCHANGED <<sockets, tcp, pc>>

Follow(f) ==
  IF Known(f.socket) /\ f.state # None THEN Transition(f.socket, f.state)
                                       ELSE UNCHANGED <<sockets, tcp, pc>>

Echoes(f) == Known(f.socket) /\ f.data # None

\* process: a frame without data to echo is done with in one go.
ProcessEvent ==
  /\ pc = "Run" /\ pos = None /\ toCPU # <<>> /\ ~Echoes(Frame)
  /\ Follow(Frame)
  /\ toCPU' = Tail(toCPU)
  /\ UNCHANGED <<config, opened, pos, conns, sent, fromCPU, echoed>>

\* process: the state is followed first, then Send begins.
ProcessData ==
  /\ pc = "Run" /\ pos = None /\ toCPU # <<>> /\ Echoes(Frame)
  /\ Follow(Frame)
  /\ pos' = 0
  /\ UNCHANGED <<config, opened, toCPU, conns, sent, fromCPU, echoed>>

\* A frame of an echo has the number of its socket in front.
OutboundHeader(f, part) == [socket |-> f.socket, data |-> f.data, part |-> part]

\* Mutant: the next frame of the message repeats the first.
SendFrameFirst ==
  /\ pos # None /\ Len(fromCPU) < OutRing
  /\ fromCPU' = Append(fromCPU, OutboundHeader(Frame, 1))
  /\ IF pos + 1 = Frame.data.parts
     THEN pos' = None /\ toCPU' = Tail(toCPU)
     ELSE pos' = pos + 1 /\ UNCHANGED toCPU
  /\ UNCHANGED <<config, pc, opened, sockets, engine, echoed>>

\* Send: once write_acquire yields a slot the next frame is written.  After the
\* last one process discards the frame it echoed.
SendFrame ==
  /\ pos # None /\ Len(fromCPU) < OutRing
  /\ fromCPU' = Append(fromCPU, OutboundHeader(Frame, pos + 1))
  /\ IF pos + 1 = Frame.data.parts
     THEN pos' = None /\ toCPU' = Tail(toCPU)
     ELSE pos' = pos + 1 /\ UNCHANGED toCPU
  /\ UNCHANGED <<config, pc, opened, sockets, engine, echoed>>

Host == Start \/ ProcessEvent \/ ProcessData \/ SendFrame

-----------------------------------------------------------------------------
\* The engine and the clients.

\* connectionState when it is valid, and the message when there is one.
InboundHeader(s, state, data) == [socket |-> s, state |-> state, data |-> data]

Report(s, state, data) ==
  /\ Len(toCPU) < InRing
  /\ toCPU' = Append(toCPU, InboundHeader(s, state, data))
  /\ UNCHANGED <<host, fromCPU, echoed>>

Becomes(s, state) == tcp' = [tcp EXCEPT ![s] = state]

Connect(s) ==
  /\ tcp[s] = "Listen" /\ conns[s] < MaxConns[s]
  /\ Becomes(s, "Established")
  /\ conns' = [conns EXCEPT ![s] = @ + 1]
  /\ sent' = [sent EXCEPT ![s] = 0]
  /\ Report(s, "Established", None)

NextMessages(s) == {[conn |-> conns[s], nr |-> sent[s] + 1, parts |-> n] :
                      n \in IF sent[s] < MaxMessages[s] THEN 1 .. MaxFrames ELSE {}}

Message(s) ==
  /\ tcp[s] = "Established"
  /\ sent' = [sent EXCEPT ![s] = @ + 1]
  /\ \E m \in NextMessages(s) : Report(s, None, m)
  /\ UNCHANGED <<tcp, conns>>

\* FIN from the client, reported alone or along with the last message.
ClientCloses(s) ==
  /\ tcp[s] = "Established"
  /\ Becomes(s, "CloseWait")
  /\ \/ Report(s, "CloseWait", None) /\ UNCHANGED sent
     \/ /\ \E m \in NextMessages(s) : Report(s, "CloseWait", m)
        /\ sent' = [sent EXCEPT ![s] = @ + 1]
  /\ UNCHANGED conns

\* A reset, with or without data the host has not been given yet.
ClientResets(s) ==
  /\ tcp[s] \in {"Established", "CloseWait", "LastAck"}
  /\ \E state \in {"Closed", "ClosedDataPending"} :
       Becomes(s, state) /\ Report(s, state, None)
  /\ UNCHANGED <<conns, sent>>

CloseCompletes(s) ==
  /\ tcp[s] = "LastAck"
  /\ Becomes(s, "Closed") /\ Report(s, "Closed", None)
  /\ UNCHANGED <<conns, sent>>

\* A socket the host did not set up reports something.  FixFIFO's host would
\* follow it past the end of its table: it is only run where this cannot be.
ForeignEvent(s) ==
  /\ args.program = "Bin" /\ pc = "Run" /\ s \notin ValidSockets
  /\ \E state \in {"Closed", "CloseWait"} : Report(s, state, None)
  /\ UNCHANGED engine

Echo == Head(fromCPU)
HasClient(s) == tcp[s] \in {"Established", "CloseWait"}

\* A frame reaches the engine: it goes to the client, or nobody is there.
Transmit ==
  /\ fromCPU # <<>>
  /\ fromCPU' = Tail(fromCPU)
  /\ echoed' = IF HasClient(Echo.socket)
               THEN [echoed EXCEPT ![Echo.socket] = [data |-> Echo.data, part |-> Echo.part]]
               ELSE echoed
  /\ UNCHANGED <<engine, toCPU, host>>

Engine(s) == Connect(s) \/ Message(s) \/ ClientCloses(s) \/ ClientResets(s)
             \/ CloseCompletes(s)

NothingYet == [data |-> [conn |-> 0, nr |-> 0, parts |-> 0], part |-> 0]

\* Nothing in these programs opens a socket on hardware.
Init ==
  /\ args \in Arguments /\ pc = "ReadConstants"
  /\ numSockets = 0 /\ opened = 0
  /\ tcp = [s \in EngineSockets |-> "Closed"]
  /\ conns = [s \in EngineSockets |-> 0]
  /\ sent = [s \in EngineSockets |-> 0]
  /\ toCPU = <<>> /\ fromCPU = <<>>
  /\ sockets = [s \in EngineSockets |-> "Closed"]
  /\ pos = None
  /\ echoed = [s \in EngineSockets |-> NothingYet]

Next == \/ Host \/ Transmit
        \/ \E s \in EngineSockets : Engine(s)
        \/ \E s \in EngineSockets : ForeignEvent(s)

Spec == Init /\ [][Next]_vars

\* The host's loop never ends, the engine hands on what it is given (clients
\* read), and a FIN is answered.
Fairness ==
  /\ WF_vars(Host) /\ WF_vars(Transmit)
  /\ \A s \in EngineSockets : SF_vars(CloseCompletes(s))
FairSpec == Spec /\ Fairness

-----------------------------------------------------------------------------
\* The host's table is never written beyond the sockets that were set up.
OutsideUntouched ==
  \A s \in EngineSockets \ ValidSockets : sockets[s] = "Closed" /\ tcp[s] = "Closed"

Reported(s) == \E i \in 1 .. Len(toCPU) :
                 toCPU[i].socket = s /\ toCPU[i].state # None /\ (i > 1 \/ pos = None)

\* When no event is on its way the host knows the state of the connection; the
\* engine is only ahead by what the host itself asked for.
HostFollowsEngine ==
  \A s \in ValidSockets :
    ~Reported(s) => \/ sockets[s] = tcp[s]
                    \/ sockets[s] = "Closed" /\ tcp[s] = "Listen"
                    \/ sockets[s] \in {"CloseWait", "ClosedDataPending"}
                         /\ tcp[s] = "LastAck"

\* What the host asks for by what it heard some time ago is right for the
\* socket as it is: it opens it only after the engine has closed it, and closes
\* only a connection the client has closed, not one made since.
CallsFitState ==
  [][\A s \in EngineSockets :
       tcp'[s] # tcp[s] =>
         /\ tcp'[s] = "Listen" => tcp[s] = "Closed"
         /\ tcp'[s] = "LastAck" => tcp[s] \in {"CloseWait", "ClosedDataPending"}]_vars

\* The frame after the frame last given to the client, in its own connection.
NextEcho(last, f) ==
  IF f.part > 1 THEN last = [data |-> f.data, part |-> f.part - 1]
  ELSE IF f.data.nr > 1 THEN /\ last.data.conn = f.data.conn
                             /\ last.data.nr = f.data.nr - 1
                             /\ last.part = last.data.parts
  ELSE last.data.conn < f.data.conn

\* What a client is given of the echoes of its own connection is a prefix of
\* its messages, frame by frame, each once; and an echo meant for an earlier
\* connection of the socket never comes after one of its own.
EchoInOrder ==
  [][Len(fromCPU') < Len(fromCPU) /\ HasClient(Echo.socket) =>
       LET s == Echo.socket
       IN IF Echo.data.conn = conns[s] THEN NextEcho(echoed[s], Echo)
          ELSE echoed[s].data.conn < conns[s]]_vars

\* In simulation every socket set up is opened, and one whose connection has
\* gone is open to clients again in the end.
Reopens ==
  \A s \in EngineSockets :
    (/\ args.isSim /\ s \in ValidSockets
     /\ tcp[s] \in {"CloseWait", "ClosedDataPending", "Closed"}) ~> tcp[s] = "Listen"
=============================================================================
