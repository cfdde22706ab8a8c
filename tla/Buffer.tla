------------------------------- MODULE Buffer -------------------------------
(***************************************************************************)
(* buffer.c: a linear buffer with a read and a write pointer.  data holds  *)
(* what lies between the two, off how far the read pointer has moved from  *)
(* the start; the space before it is only won back when all is read.       *)
(***************************************************************************)
EXTENDS Naturals, Sequences

CONSTANT BufferSize
ASSUME BufferSizeAssumption == BufferSize \in Nat \ {0}

Buffers(S) == [data : Seq(S), off : Nat]

EmptyBuffer == [data |-> <<>>, off |-> 0]

CanRead(b) == b.data # <<>>

\* What buffer_write_ptr reports: the room behind the write pointer.
Room(b) == BufferSize - (b.off + Len(b.data))

\* n units were written behind the write pointer: buffer_write_adv.
Put(b, chunks) == [b EXCEPT !.data = @ \o chunks]

\* buffer_read_adv, with the compaction of an emptied buffer.
KeepOffset(b, n) == [data |-> SubSeq(b.data, n + 1, Len(b.data)), off |-> b.off + n] \* mutant
DropAll(b, n)    == EmptyBuffer                  \* mutant: a short write taken for a whole one
Drop(b, n) ==
  IF n = Len(b.data) THEN EmptyBuffer
  ELSE [data |-> SubSeq(b.data, n + 1, Len(b.data)), off |-> b.off + n]

\* buffer_write unit by unit: what does not fit is dropped.
Fitting(b, chunks) == SubSeq(chunks, 1, IF Len(chunks) <= Room(b) THEN Len(chunks) ELSE Room(b))

\* R <= W <= limit (buffer.h).
InBounds(b) == b.off + Len(b.data) <= BufferSize
=============================================================================
