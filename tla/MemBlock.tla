------------------------------ MODULE MemBlock ------------------------------
(***************************************************************************)
(* base::MemBlock (framework/base/util/memblock.{h,cpp}): the growing byte *)
(* buffer a connection receives into and sends from.  A block is its       *)
(* content, _begin to _end, and its capacity, _begin to _blockEnd.         *)
(* Allocation succeeds (operator new throws).  An operation that would     *)
(* return -1 leaves the block as it is; no caller looks at the result.     *)
(***************************************************************************)
EXTENDS Integers, Sequences, SequencesExt

NewBlock(size) == [data |-> <<>>, cap |-> size]

Size(b) == Len(b.data)
FreeSpace(b) == b.cap - Size(b)

Clear(b) == [b EXCEPT !.data = <<>>]

\* Within the capacity Resize only ever cuts the content; beyond it the
\* content moves to a new block.
Resize(b, n) ==
  IF n <= b.cap THEN [b EXCEPT !.data = IF n < Len(@) THEN SubSeq(@, 1, n) ELSE @]
  ELSE [b EXCEPT !.cap = n]

\* _end moves over n bytes that have been written behind it.
AddSpace(b, written) ==
  IF Len(written) > FreeSpace(b) THEN b ELSE [b EXCEPT !.data = @ \o written]

\* _end moves back.
ReduceSpace(b, n) ==
  IF n > Size(b) THEN b ELSE [b EXCEPT !.data = SubSeq(@, 1, Len(@) - n)]

\* Copy of the bytes src to offset at, over what is there; the content grows
\* as far as src reaches beyond it.
Copy(b, at, src) ==
  LET end == at + Len(src)
      big == IF end > b.cap THEN Resize(b, end) ELSE b
  IN  IF at > Size(b) THEN b
      ELSE [big EXCEPT !.data = SubSeq(@, 1, at) \o src \o SubSeq(@, end + 1, Len(@))]

\* MemBlock::Append.
AppendTo(b, src) == Copy(b, Size(b), src)
=============================================================================
