------------------------------- MODULE Slices -------------------------------
(***************************************************************************)
(* Go slices of fields: a heap of arrays, and slices that see a prefix of  *)
(* one.  Two slices may see the same array; append writes into it when it  *)
(* has room behind the slice, and takes a new array when it has not.       *)
(***************************************************************************)
EXTENDS Naturals, Sequences

CONSTANT NoField  \* the zero value of an element

(* array 0 is the nil slice's.                                             *)
NilSlice == [array |-> 0, len |-> 0]

Contents(heap, s) == IF s.array = 0 THEN <<>> ELSE SubSeq(heap[s.array], 1, s.len)

SliceCap(heap, s) == IF s.array = 0 THEN 0 ELSE Len(heap[s.array])

(* make and copy: a new array with these elements and so much room.        *)
Allocated(heap, elems, room) ==
  [heap  |-> Append(heap, elems \o [i \in 1 .. room |-> NoField]),
   slice |-> [array |-> Len(heap) + 1, len |-> Len(elems)]]

InPlace(heap, s, elem) ==
  [heap  |-> [heap EXCEPT ![s.array][s.len + 1] = elem],
   slice |-> [s EXCEPT !.len = @ + 1]]

(* append(s, elem): the growth of a new array is the runtime's business.   *)
Appended(heap, s, elem) ==
  IF s.len < SliceCap(heap, s)
  THEN {InPlace(heap, s, elem)}
  ELSE {Allocated(heap, Append(Contents(heap, s), elem), room) : room \in 0 .. 1}
=============================================================================
