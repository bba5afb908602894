------------------------- MODULE MCPacketAlgorithms -------------------------
EXTENDS PacketAlgorithms

\* Addresses whose half words are small, large and mixed.
SomeAddresses == {0, 18, 31, 241, 255}

\* Packets whose bytes run through all values, with no period.
SomePackets ==
  {[i \in 1 .. 32 |-> ((i * i * step) \div 7 + first) % ByteValues] :
     step \in 0 .. 4, first \in 0 .. ByteValues - 1}

YES == <<3, 1, 2>>

\* Messages that start at every place there is in a word (4, 6, 0 and 2), that
\* end with a word and share one, and a frame cut short like the tracker's.
SomeFrames ==
  {[counts |-> counts, cut |-> FALSE] :
     counts \in {<<0, 0, 0>>, <<3, 0>>, <<0, 1>>, <<1, 2>>, <<3, 3, 0>>, <<1, 2, 3, 4, 5>>}}
  \cup {[counts |-> <<2, 3>>, cut |-> TRUE]}
=============================================================================
