---------------------------- MODULE EthChecksum ----------------------------
(***************************************************************************)
(* How EthFwdKernel changes the checksums of a frame whose addresses it    *)
(* replaces: it takes the old addresses out of the sum and puts the new    *)
(* ones in, in one's complement arithmetic on 32 bits.                     *)
(*                                                                         *)
(* A half word has Radix values, an IP address is a word.                  *)
(***************************************************************************)
EXTENDS Integers

CONSTANT Radix     \* 2^16 in the code

\* A register holds the five half words that a checksum's change adds up.
ASSUME RadixAssumption == Radix \in Nat /\ Radix > 3

HalfWords == 0 .. Radix - 1

\* 32 bit registers wrap around.
UInt32(x) == x % (Radix * Radix)

Complement(x) == Radix - 1 - x

\* The half words of a word.
Sum16(word) == (word \div Radix) + (word % Radix)

\* Mutant: the carry of the carry is lost.
WrapOnce(v) == Sum16(v) % Radix

Wrap16(v) == Sum16(Sum16(v)) % Radix

Change(src, dst, local, forward) ==
  Sum16(local) + Sum16(forward) - Sum16(src) - Sum16(dst)

IpChecksum(checksum, src, dst, local, forward) ==
  Complement(Wrap16(UInt32(Complement(checksum) + Change(src, dst, local, forward))))

UdpChecksum(checksum, src, dst, local, forward) ==
  LET new == IpChecksum(checksum, src, dst, local, forward)
  IN IF new = 0 THEN Complement(new) ELSE new

\* Reference: the one's complement sum of everything covered, of which rest is
\* what the kernel does not change, is all ones.
Covers(checksum, rest, src, dst) ==
  (checksum + rest + Sum16(src) + Sum16(dst)) % (Radix - 1) = 0
=============================================================================
