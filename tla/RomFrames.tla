----------------------------- MODULE RomFrames -----------------------------
(***************************************************************************)
(* The frames RomFrameGen sends, one for each type of message it receives: *)
(* where romframegen.c puts them in frameRom, and what the kernel makes of *)
(* the metadata.                                                           *)
(***************************************************************************)
EXTENDS Integers

CONSTANT MaxMessageSizeWords     \* 16

ASSUME SectionAssumption == MaxMessageSizeWords \in Nat \ {0}

WordSizeBytes == 4
UInt16(x) == x % 65536

\* Mutant: a last word that is not full is not counted.
FullWords(bytes) == bytes \div WordSizeBytes

BytesToWords(bytes) ==
  (bytes \div WordSizeBytes) + IF bytes % WordSizeBytes = 0 THEN 0 ELSE 1

\* configure_roms
Metadata(type, size) ==
  LET start == MaxMessageSizeWords * type
  IN [startIndex |-> start,
      endIndex |-> UInt16(start + BytesToWords(size) - 1),
      frameMod |-> size % WordSizeBytes]

\* The words of frameRom that configure_roms fills for a type.
Section(m) == m.startIndex .. m.endIndex

\* What the kernel's counter reads, and the bytes of the frame it then sends.
SentBytes(m) ==
  (m.endIndex - m.startIndex) * WordSizeBytes
    + IF m.frameMod = 0 THEN WordSizeBytes ELSE m.frameMod
=============================================================================
