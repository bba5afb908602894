---------------------------- MODULE FieldAccess ----------------------------
(***************************************************************************)
(* captureField and replaceField of EthFwdKernel: a field of a frame, at   *)
(* any byte and up to a word long, in a stream of words.  captureField     *)
(* looks ahead of the first word, replaceField counts the words from it.   *)
(***************************************************************************)
EXTENDS Integers, Sequences, SequencesExt

CONSTANT LinkWordBytes     \* 8 in the code

ASSUME WordBytesAssumption == LinkWordBytes \in Nat \ {0}

\* A field: its place in the frame and its size, in bytes.
FieldDescs(bytes) ==
  {f \in [offset : 0 .. bytes - 1, size : 1 .. LinkWordBytes] : f.offset + f.size <= bytes}

OffsetMod(field) == field.offset % LinkWordBytes
StartWord(field) == field.offset \div LinkWordBytes

FieldSizeWords(field) ==
  1 + IF OffsetMod(field) + field.size > LinkWordBytes THEN 1 ELSE 0

CaptureField(words, field) ==
  LET start   == StartWord(field)
      theWord == FlattenSeq(SubSeq(words, start + 1, start + FieldSizeWords(field)))
  IN SubSeq(theWord, OffsetMod(field) + 1, OffsetMod(field) + field.size)

\* Mutant: the field is put at the beginning of its word.
NewFieldWordAligned(word, w, field, new) ==
  [b \in DOMAIN word |->
     LET pos == w * LinkWordBytes + b IN IF pos \in DOMAIN new THEN new[pos] ELSE word[b]]

\* What the w-th word of the field becomes: the field's part of it, and the
\* bytes it had around that.
NewFieldWord(word, w, field, new) ==
  [b \in DOMAIN word |->
     LET pos == w * LinkWordBytes + b - OffsetMod(field)
     IN IF pos \in DOMAIN new THEN new[pos] ELSE word[b]]

ReplaceField(words, field, new) ==
  [n \in DOMAIN words |->
     LET w == n - 1 - StartWord(field)
     IN IF w \in 0 .. FieldSizeWords(field) - 1
          THEN NewFieldWord(words[n], w, field, new)
          ELSE words[n]]
=============================================================================
