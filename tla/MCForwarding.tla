---------------------------- MODULE MCForwarding ----------------------------
EXTENDS Forwarding

BothPrograms == {"Tcp", "Udp"}

\* Types that both forward (2), one drops (1 and 14) or both drop (7), and
\* messages whose later words look like other types.
SomeBytes == {1, 2, 7, 14}
SomeMessages == {<<1, 7>>, <<2, 1>>, <<7, 2>>, <<14>>}
=============================================================================
