------------------------------ MODULE EchoHost ------------------------------
(***************************************************************************)
(* The host programs that echo what the network sends: udponetoone.c,      *)
(* udponetomany.c, tcpoffload.c and tcpfpoffload.c, from their start on.   *)
(* Once sockets and streams are set up, the host takes frames off one ring *)
(* in memory and copies them into another; the engine fills the first and  *)
(* empties the second by DMA meanwhile.                                    *)
(*                                                                         *)
(* A ring is a queue of frames in slots of a buffer.  The queues say which *)
(* frame a slot should hold, memory what it holds.  A frame fits a slot.   *)
(***************************************************************************)
EXTENDS Integers, Sequences

CONSTANTS
  Programs,     \* those that may be run
  num_remotes,  \* remote hosts of the TCP programs
  Slots,        \* slots of a ring
  MaxFrames     \* bound: frames received

UdpPrograms == {"UdpOneToOne", "UdpOneToMany"}
TcpPrograms == {"TcpOffload", "TcpFastPath"}

ASSUME ProgramAssumption == Programs \subseteq UdpPrograms \cup TcpPrograms
ASSUME RemoteAssumption == num_remotes \in Nat \ {0}
ASSUME SlotAssumption == Slots \in Nat \ {0} /\ MaxFrames \in Nat

VARIABLES
  program,
  pc,
  remote,      \* the remote that connect_remotes or echo_loop is at
  socket,      \* "None", "Connecting", "Up" or "Gone"
  rx, tx,      \* frames in the rings: <<socket, number>>
  received,    \* frames ever put into rx
  written,     \* frames ever put into tx
  memory       \* what each slot of each buffer holds

rings == <<rx, tx, received, written, memory>>
vars == <<program, pc, remote, socket, rings>>

\* A UDP program has a single socket for all its peers.
Sockets == 0 .. (IF program \in UdpPrograms THEN 1 ELSE num_remotes) - 1
IsTcp == program \in TcpPrograms

Buffers == {"rx_buffer", "tx_buffer"}
NoFrame == <<>>

\* Mutant: the UDP programs use one buffer as well.
TxBufferShared(p) == "rx_buffer"

\* The buffer the tx stream is set up on.
TxBuffer(p) == IF p \in TcpPrograms THEN "rx_buffer" ELSE "tx_buffer"

\* The slot of the n-th frame of a ring.
Slot(n) == n % Slots
FirstRx == received - Len(rx)
FirstTx == written - Len(tx)

RxFrame == memory["rx_buffer"][Slot(FirstRx)]

-----------------------------------------------------------------------------
\* The start of the programs.

Goto(label) == pc' = label /\ UNCHANGED <<program, rings>>

\* udponetoone.c: the streams are set up, then four calls in this order, each
\* of which may fail.  Once the rx stream is open datagrams are received.
NextCall == [unirx_init |-> "unitx_init", unitx_init |-> "unirx_open",
             unirx_open |-> "unitx_open", unitx_open |-> "top"]

OpenStreams ==
  /\ pc \in DOMAIN NextCall
  /\ \/ /\ Goto(NextCall[pc])
        /\ socket' = IF pc = "unirx_open" THEN [socket EXCEPT ![0] = "Up"] ELSE socket
     \/ Goto("exited") /\ UNCHANGED socket
  /\ UNCHANGED remote

\* udponetomany.c
Bind ==
  /\ pc = "bind"
  /\ Goto("top")
  /\ socket' = [socket EXCEPT ![0] = "Up"]
  /\ UNCHANGED remote

\* Only max_tcpfp_init may fail.
InitSockets ==
  /\ pc = "init_sockets"
  /\ \/ Goto("connect")
     \/ program = "TcpFastPath" /\ Goto("exited")
  /\ UNCHANGED <<remote, socket>>

\* tcpfpoffload.c ends when a connect fails, tcpoffload.c does not look.
Connect ==
  /\ pc = "connect"
  /\ \/ Goto("await") /\ socket' = [socket EXCEPT ![remote] = "Connecting"]
     \/ program = "TcpFastPath" /\ Goto("exited") /\ UNCHANGED socket
     \/ program = "TcpOffload" /\ Goto("await") /\ UNCHANGED socket
  /\ UNCHANGED remote

\* The wait for the connection ends when it is there, or after five seconds;
\* nothing is made of which it was.
Await ==
  /\ pc = "await"
  /\ remote' = remote + 1
  /\ Goto(IF remote' < num_remotes THEN "connect" ELSE "setup")
  /\ UNCHANGED socket

\* echo_loop begins: what has been sent on the connections meanwhile is still
\* in the engine.
Setup ==
  /\ pc = "setup"
  /\ Goto("top") /\ remote' = 0
  /\ UNCHANGED socket

Start == OpenStreams \/ Bind \/ InitSockets \/ Connect \/ Await \/ Setup

-----------------------------------------------------------------------------
\* The loop of the UDP programs acquires, then reads; echo_loop reads first.

Poll ==
  /\ IsTcp /\ pc = "top"
  /\ pc' = IF rx = <<>> THEN "check" ELSE "acquire"
  /\ UNCHANGED <<program, remote, socket, rings>>

\* Mutant: a frame that finds no slot is not echoed.
AcquireOrDrop ==
  /\ pc = IF IsTcp THEN "acquire" ELSE "top"
  /\ \/ Len(tx) < Slots /\ pc' = IF IsTcp THEN "copy" ELSE "read"
     \/ Len(tx) = Slots /\ IsTcp /\ pc' = "discard"
  /\ UNCHANGED <<program, remote, socket, rings>>

\* The spin on write_acquire ends.
Acquire ==
  /\ pc = IF IsTcp THEN "acquire" ELSE "top"
  /\ Len(tx) < Slots
  /\ pc' = IF IsTcp THEN "copy" ELSE "read"
  /\ UNCHANGED <<program, remote, socket, rings>>

\* The spin on read ends.
Read ==
  /\ pc = "read" /\ rx # <<>>
  /\ pc' = "copy"
  /\ UNCHANGED <<program, remote, socket, rings>>

Copy ==
  /\ pc = "copy"
  /\ memory' = [memory EXCEPT ![TxBuffer(program)][Slot(written)] = RxFrame]
  /\ pc' = "write"
  /\ UNCHANGED <<program, remote, socket, rx, tx, received, written>>

\* The queue records the frame that should go out.
Write ==
  /\ pc = "write"
  /\ tx' = Append(tx, Head(rx))
  /\ written' = written + 1
  /\ pc' = "discard"
  /\ UNCHANGED <<program, remote, socket, rx, received, memory>>

\* Mutant: all the frames that have arrived are discarded.
DiscardAll ==
  /\ pc = "discard"
  /\ rx' = <<>>
  /\ pc' = IF IsTcp THEN "check" ELSE "top"
  /\ UNCHANGED <<program, remote, socket, tx, received, written, memory>>

Discard ==
  /\ pc = "discard"
  /\ rx' = Tail(rx)
  /\ pc' = IF IsTcp THEN "check" ELSE "top"
  /\ UNCHANGED <<program, remote, socket, tx, received, written, memory>>

Look(up) ==
  /\ pc = "check"
  /\ IF ~up THEN pc' = "done" /\ UNCHANGED remote
     ELSE IF remote + 1 < num_remotes THEN remote' = remote + 1 /\ UNCHANGED pc
     ELSE remote' = 0 /\ pc' = "top"
  /\ UNCHANGED <<program, socket, rings>>

\* Mutant: the first socket is never looked at.
CheckOthers == Look(remote = 0 \/ socket[remote] = "Up")

\* The states of the sockets are looked at one after the other.
Check == Look(socket[remote] = "Up")

Host == Start \/ Poll \/ Acquire \/ Read \/ Copy \/ Write \/ Discard \/ Check

-----------------------------------------------------------------------------
\* The engine, from the time both streams are set up until it is unloaded.

Loop == {"top", "acquire", "read", "copy", "write", "discard", "check"}
Streaming == pc \in Loop \cup DOMAIN NextCall

Receive(s) ==
  /\ Streaming /\ socket[s] = "Up" /\ Len(rx) < Slots /\ received < MaxFrames
  /\ rx' = Append(rx, <<s, received>>)
  /\ memory' = [memory EXCEPT !["rx_buffer"][Slot(received)] = <<s, received>>]
  /\ received' = received + 1
  /\ UNCHANGED <<program, pc, remote, socket, tx, written>>

Transmit ==
  /\ Streaming /\ tx # <<>>
  /\ tx' = Tail(tx)
  /\ UNCHANGED <<program, pc, remote, socket, rx, received, written, memory>>

Becomes(s, state) ==
  /\ socket' = [socket EXCEPT ![s] = state]
  /\ UNCHANGED <<program, pc, remote, rings>>

ComesUp(s) == socket[s] = "Connecting" /\ Becomes(s, "Up")
Drops(s) == IsTcp /\ socket[s] \in {"Connecting", "Up"} /\ Becomes(s, "Gone")

FirstCall == [UdpOneToOne |-> "unirx_init", UdpOneToMany |-> "bind",
              TcpOffload |-> "init_sockets", TcpFastPath |-> "init_sockets"]

Init ==
  /\ program \in Programs
  /\ pc = FirstCall[program]
  /\ remote = 0
  /\ socket = [s \in Sockets |-> "None"]
  /\ rx = <<>> /\ tx = <<>> /\ received = 0 /\ written = 0
  /\ memory = [b \in Buffers |-> [n \in 0 .. Slots - 1 |-> NoFrame]]

Next == \/ Host \/ Transmit
        \/ \E s \in Sockets : Receive(s) \/ ComesUp(s) \/ Drops(s)

Spec == Init /\ [][Next]_vars

\* The programs run, their waits time out, and the engine sends what is in the
\* ring.
Fairness == WF_vars(Host) /\ WF_vars(Transmit)
FairSpec == Spec /\ Fairness

-----------------------------------------------------------------------------
\* A frame waits in its slot as it arrived until the host has echoed it.
ReceivedIntact ==
  \A i \in 1 .. Len(rx) : memory["rx_buffer"][Slot(FirstRx + i - 1)] = rx[i]

\* Everything we receive we will echo back: a frame in the tx ring waits in
\* its slot as the host copied it until it is sent.
EchoIntact ==
  \A i \in 1 .. Len(tx) : memory[TxBuffer(program)][Slot(FirstTx + i - 1)] = tx[i]

\* Where the rings have buffers of their own.
UdpEchoIntact == program \in UdpPrograms => EchoIntact

\* Every datagram the UDP programs receive is echoed and sent in the end; only
\* if the tx stream cannot be opened, what has been received by then is lost.
EchoesAll ==
  \A n \in 1 .. MaxFrames :
    program \in UdpPrograms /\ received >= n ~> FirstTx >= n \/ pc = "exited"

\* If a connection drops, we will terminate: when it drops while others are
\* still being made, and when it never could be made, as well.
TerminatesOnDrop ==
  \A s \in 0 .. num_remotes - 1 :
    (/\ s \in Sockets
     /\ \/ socket[s] = "Gone"
        \/ pc \in Loop /\ socket[s] = "None") ~> pc \in {"done", "exited"}
=============================================================================
