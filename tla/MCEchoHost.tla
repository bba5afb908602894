----------------------------- MODULE MCEchoHost -----------------------------
EXTENDS EchoHost

AllPrograms == UdpPrograms \cup TcpPrograms
=============================================================================
