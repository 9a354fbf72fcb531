---------------------------- MODULE LoggersProofs ----------------------------
(***************************************************************************)
(* Loggers and adapters are immutable, the coarse clock never goes back    *)
(* and is there when it is read, and a reader gets back from each line     *)
(* what was logged: for any number of goroutines, objects and fields, and  *)
(* texts of any length.                                                    *)
(***************************************************************************)
EXTENDS Loggers, JSONProofs

Elem  == Field \cup {NoField}
Heap  == Seq(Seq(Elem))
Slice == [array : Nat, len : Nat]

(* A slice of a heap; IsSlice with the heap as a parameter.                *)
Valid(hp, s) ==
  /\ s \in Slice
  /\ s.array \in 0 .. Len(hp)
  /\ s.len \in 0 .. SliceCap(hp, s)

(* Every slice of hp sees the same elements in hq.                         *)
KeepsAll(hp, hq) ==
  \A t : Valid(hp, t) => Valid(hq, t) /\ Contents(hq, t) = Contents(hp, t)

-----------------------------------------------------------------------------
(* Slices                                                                  *)

LEMMA ContentsOf ==
  ASSUME NEW hp \in Heap, NEW s, Valid(hp, s)
  PROVE  /\ Contents(hp, s) \in Seq(Elem)
         /\ Len(Contents(hp, s)) = s.len
         /\ \A i \in 1 .. s.len : Contents(hp, s)[i] = hp[s.array][i]
<1>1. s.array \in Nat /\ s.len \in Nat
  BY DEF Valid, Slice
<1>2. CASE s.array = 0
  <2>1. s.len = 0 /\ Contents(hp, s) = <<>>
    BY <1>1, <1>2 DEF Valid, SliceCap, Contents
  <2> QED
    BY <2>1
<1>3. CASE s.array # 0
  <2>1. s.array \in 1 .. Len(hp) /\ s.len \in 0 .. Len(hp[s.array])
    BY <1>1, <1>3 DEF Valid, SliceCap
  <2>2. hp[s.array] \in Seq(Elem)
    BY <2>1, ElementOfSeq DEF Heap
  <2>3. \A i \in 1 .. s.len : hp[s.array][i] \in Elem
    BY <2>1, <2>2, ElementOfSeq
  <2>4. Contents(hp, s) = SubSeq(hp[s.array], 1, s.len)
    BY <1>3 DEF Contents
  <2>5. /\ SubSeq(hp[s.array], 1, s.len) \in Seq(Elem)
        /\ Len(SubSeq(hp[s.array], 1, s.len))
             = IF 1 <= s.len THEN s.len - 1 + 1 ELSE 0
        /\ \A i \in 1 .. s.len - 1 + 1 :
             SubSeq(hp[s.array], 1, s.len)[i] = hp[s.array][1 + i - 1]
    BY <1>1, <2>3, SubSeqProperties
  <2> QED
    BY <1>1, <2>4, <2>5
<1> QED
  BY <1>2, <1>3

(* Two slices with the same length that see the same elements.             *)
LEMMA SameContents ==
  ASSUME NEW hp \in Heap, NEW hq \in Heap, NEW s,
         Valid(hp, s), Valid(hq, s),
         \A i \in 1 .. s.len : hp[s.array][i] = hq[s.array][i]
  PROVE  Contents(hq, s) = Contents(hp, s)
<1>1. /\ Contents(hp, s) \in Seq(Elem) /\ Contents(hq, s) \in Seq(Elem)
      /\ Len(Contents(hp, s)) = s.len /\ Len(Contents(hq, s)) = s.len
      /\ \A i \in 1 .. s.len : Contents(hp, s)[i] = hp[s.array][i]
      /\ \A i \in 1 .. s.len : Contents(hq, s)[i] = hq[s.array][i]
  BY ContentsOf
<1> QED
  BY <1>1, SeqEqual

(* A new array leaves every slice alone.                                   *)
LEMMA AllocatedEffect ==
  ASSUME NEW hp \in Heap, NEW elems \in Seq(Elem),
         NEW room \in Nat, NEW r, r = Allocated(hp, elems, room)
  PROVE  /\ r.heap \in Heap /\ Len(r.heap) = Len(hp) + 1
         /\ r.slice = [array |-> Len(hp) + 1, len |-> Len(elems)]
         /\ Valid(r.heap, r.slice)
         /\ SliceCap(r.heap, r.slice) = Len(elems) + room
         /\ Contents(r.heap, r.slice) = elems
         /\ KeepsAll(hp, r.heap)
<1> PICK hq, sq : hq = r.heap /\ sq = r.slice
  OBVIOUS
<1> DEFINE fill == [i \in 1 .. room |-> NoField]
<1> PICK arr : arr = elems \o fill
  OBVIOUS
<1>1. fill \in Seq(Elem) /\ Len(fill) = room
  BY DEF Elem
<1>2. /\ arr \in Seq(Elem) /\ Len(arr) = Len(elems) + room
      /\ \A i \in 1 .. Len(elems) : arr[i] = elems[i]
  <2> HIDE DEF fill
  <2>1. /\ elems \o fill \in Seq(Elem)
        /\ Len(elems \o fill) = Len(elems) + Len(fill)
        /\ \A i \in 1 .. Len(elems) + Len(fill) : (elems \o fill)[i] =
             IF i <= Len(elems) THEN elems[i] ELSE fill[i - Len(elems)]
    BY <1>1, ConcatProperties
  <2> QED
    BY <1>1, <2>1
<1>3. hq = Append(hp, arr)
      /\ sq = [array |-> Len(hp) + 1, len |-> Len(elems)]
  BY DEF Allocated
<1>4. /\ hq \in Heap /\ Len(hq) = Len(hp) + 1
      /\ \A i \in 1 .. Len(hp) : hq[i] = hp[i]
      /\ hq[Len(hp) + 1] = arr
  BY <1>2, <1>3, AppendProperties DEF Heap
<1>5. Len(hp) \in Nat /\ Len(elems) \in Nat
  BY LenProperties DEF Heap
<1>6. Valid(hq, sq) /\ SliceCap(hq, sq) = Len(elems) + room
  BY <1>2, <1>3, <1>4, <1>5 DEF Valid, Slice, SliceCap
<1>7. Contents(hq, sq) = elems
  <2>1. /\ Contents(hq, sq) \in Seq(Elem)
        /\ Len(Contents(hq, sq)) = sq.len
        /\ \A i \in 1 .. sq.len :
             Contents(hq, sq)[i] = hq[sq.array][i]
    <3>p. PICK hpq, s : hpq = hq /\ s = sq
      OBVIOUS
    <3>1. hpq \in Heap /\ Valid(hpq, s)
      BY <1>4, <1>6, <3>p
    <3>2. /\ Contents(hpq, s) \in Seq(Elem) /\ Len(Contents(hpq, s)) = s.len
          /\ \A i \in 1 .. s.len : Contents(hpq, s)[i] = hpq[s.array][i]
      BY <3>1, ContentsOf
    <3> QED
      BY <3>p, <3>2
  <2>2. /\ Len(Contents(hq, sq)) = Len(elems)
        /\ \A i \in 1 .. Len(elems) : Contents(hq, sq)[i] = elems[i]
    <3>1. sq.len = Len(elems) /\ hq[sq.array] = arr
      BY <1>3, <1>4
    <3> QED
      BY <1>2, <2>1, <3>1
  <2> QED
    BY <2>1, <2>2, SeqEqual
<1>8. ASSUME NEW t, Valid(hp, t)
      PROVE  Valid(hq, t) /\ Contents(hq, t) = Contents(hp, t)
  <2>1. t.array # 0 => hq[t.array] = hp[t.array]
    BY <1>4, <1>5, <1>8 DEF Valid
  <2>2. Valid(hq, t)
    BY <1>4, <1>5, <1>8, <2>1 DEF Valid, SliceCap
  <2>3. Contents(hq, t) = Contents(hp, t)
    BY <2>1 DEF Contents
  <2> QED
    BY <2>2, <2>3
<1> QED
  BY <1>3, <1>4, <1>6, <1>7, <1>8 DEF KeepsAll

(* append in place leaves those slices alone that end where this one does, *)
(* or before.                                                              *)
LEMMA InPlaceEffect ==
  ASSUME NEW hp \in Heap, NEW s, Valid(hp, s),
         s.len < SliceCap(hp, s), NEW elem \in Elem,
         NEW r, r = InPlace(hp, s, elem)
  PROVE  /\ r.heap \in Heap /\ Len(r.heap) = Len(hp)
         /\ r.slice = [array |-> s.array, len |-> s.len + 1]
         /\ Valid(r.heap, r.slice)
         /\ Contents(r.heap, r.slice) = Append(Contents(hp, s), elem)
         /\ \A t : Valid(hp, t) /\ (t.array = s.array => t.len <= s.len) =>
              Valid(r.heap, t) /\ Contents(r.heap, t) = Contents(hp, t)
<1> PICK hq, sq : hq = r.heap /\ sq = r.slice
  OBVIOUS
<1>1. /\ s.array \in 1 .. Len(hp) /\ s.len \in Nat
      /\ s.len + 1 \in 1 .. Len(hp[s.array])
  <2>1. s.array # 0
    BY DEF Valid, Slice, SliceCap
  <2> QED
    BY <2>1, LenProperties DEF Valid, Slice, SliceCap, Heap
<1>2. hp[s.array] \in Seq(Elem)
  BY <1>1, ElementOfSeq DEF Heap
<1> PICK arr : arr = [hp[s.array] EXCEPT ![s.len + 1] = elem]
  OBVIOUS
<1>3. /\ arr \in Seq(Elem) /\ Len(arr) = Len(hp[s.array])
      /\ \A j \in 1 .. Len(hp[s.array]) :
           arr[j] = IF j = s.len + 1 THEN elem ELSE hp[s.array][j]
  BY <1>1, <1>2, ExceptSeq
<1>4. /\ hq = [hp EXCEPT ![s.array] = arr]
      /\ sq = [array |-> s.array, len |-> s.len + 1]
  BY DEF InPlace, Valid, Slice
<1>5. /\ hq \in Heap /\ Len(hq) = Len(hp)
      /\ \A j \in 1 .. Len(hp) : hq[j] = IF j = s.array THEN arr ELSE hp[j]
  BY <1>1, <1>3, <1>4, ExceptSeq DEF Heap
<1>6. Valid(hq, sq)
  BY <1>1, <1>3, <1>4, <1>5 DEF Valid, Slice, SliceCap
<1>7. Contents(hq, sq) = Append(Contents(hp, s), elem)
  <2>1. /\ Contents(hp, s) \in Seq(Elem) /\ Len(Contents(hp, s)) = s.len
        /\ \A i \in 1 .. s.len : Contents(hp, s)[i] = hp[s.array][i]
    BY ContentsOf
  <2>2. /\ Contents(hq, sq) \in Seq(Elem)
        /\ Len(Contents(hq, sq)) = sq.len
        /\ \A i \in 1 .. sq.len :
             Contents(hq, sq)[i] = hq[sq.array][i]
    BY <1>5, <1>6, ContentsOf
  <2>3. /\ Append(Contents(hp, s), elem) \in Seq(Elem)
        /\ Len(Append(Contents(hp, s), elem)) = s.len + 1
        /\ \A i \in 1 .. s.len : Append(Contents(hp, s), elem)[i]
                                   = Contents(hp, s)[i]
        /\ Append(Contents(hp, s), elem)[s.len + 1] = elem
    BY <2>1, AppendProperties
  <2>4. sq.len = s.len + 1 /\ hq[sq.array] = arr
    <3>1. sq.len = s.len + 1 /\ sq.array = s.array
      BY <1>4
    <3>2. hq[s.array] = arr
      BY <1>1, <1>5
    <3> QED
      BY <3>1, <3>2
  <2>5. ASSUME NEW i \in 1 .. s.len + 1
        PROVE  Contents(hq, sq)[i] = Append(Contents(hp, s), elem)[i]
    <3>1. Contents(hq, sq)[i] = arr[i]
      BY <2>2, <2>4
    <3>2. arr[i] = IF i = s.len + 1 THEN elem ELSE hp[s.array][i]
      BY <1>1, <1>3
    <3> QED
      BY <1>1, <2>1, <2>3, <3>1, <3>2
  <2> QED
    BY <2>2, <2>3, <2>4, <2>5, SeqEqual
<1>8. ASSUME NEW t, Valid(hp, t), t.array = s.array => t.len <= s.len
      PROVE  Valid(hq, t) /\ Contents(hq, t) = Contents(hp, t)
  <2>1. Valid(hq, t)
    BY <1>1, <1>3, <1>5, <1>8 DEF Valid, SliceCap
  <2>2. ASSUME NEW i \in 1 .. t.len
        PROVE  hp[t.array][i] = hq[t.array][i]
    <3>1. t.array \in 1 .. Len(hp) /\ i \in 1 .. Len(hp[t.array])
      BY <1>8 DEF Valid, Slice, SliceCap
    <3>2. CASE t.array = s.array
      BY <1>1, <1>3, <1>5, <1>8, <3>1, <3>2 DEF Valid, Slice
    <3>3. CASE t.array # s.array
      BY <1>5, <3>1, <3>3
    <3> QED
      BY <3>2, <3>3
  <2> QED
    BY <1>5, <1>8, <2>1, <2>2, SameContents
<1> QED
  BY <1>4, <1>5, <1>6, <1>7, <1>8

-----------------------------------------------------------------------------
(* The invariant                                                           *)

Object == [kind : {"logger", "slog"}, fields : Slice, group : Key,
           coarse : BOOLEAN, made : Seq(Field)]

StateOK ==
  /\ heap \in Heap /\ objects \in Seq(Object)
  /\ builder \in [Goroutines -> [fields : Slice, coarse : BOOLEAN,
                                 made : Seq(Field)]]
  /\ given \in Nat /\ bound \in Bounds

SlicesOK ==
  /\ \A i \in 1 .. Len(objects) :
       /\ Valid(heap, objects[i].fields)
       /\ Contents(heap, objects[i].fields) = objects[i].made
  /\ \A g \in Goroutines :
       /\ Valid(heap, builder[g].fields)
       /\ Contents(heap, builder[g].fields) = builder[g].made

(* Behind the slice of a builder, where it appends, nobody has anything:   *)
(* loggers that share its array end where it does or before, and no other  *)
(* builder shares it.                                                      *)
RoomIsFree ==
  \A g \in Goroutines : builder[g].fields.array # 0 =>
    /\ \A i \in 1 .. Len(objects) :
         objects[i].fields.array = builder[g].fields.array =>
           objects[i].fields.len <= builder[g].fields.len
    /\ \A h \in Goroutines \ {g} :
         builder[h].fields.array # builder[g].fields.array

ImmutableInv == StateOK /\ SlicesOK /\ RoomIsFree

LEMMA InitHolds == Init => ImmutableInv
<1> SUFFICES ASSUME Init PROVE ImmutableInv
  OBVIOUS
<1>1. StateOK
  <2>1. heap \in Heap /\ objects \in Seq(Object)
    BY EmptySeq DEF Init, Heap
  <2>2. <<>> \in Seq(Field)
    BY EmptySeq
  <2>3. builder \in [Goroutines -> [fields : Slice, coarse : BOOLEAN,
                                   made : Seq(Field)]]
    BY <2>2 DEF Init, NilSlice, Slice
  <2> QED
    BY <2>1, <2>3 DEF Init, StateOK
<1>2. Valid(heap, NilSlice) /\ Contents(heap, NilSlice) = <<>>
  BY DEF Init, Valid, NilSlice, Slice, SliceCap, Contents
<1>3. SlicesOK
  BY <1>2 DEF Init, SlicesOK
<1>4. RoomIsFree
  BY DEF Init, RoomIsFree, NilSlice
<1> QED
  BY <1>1, <1>3, <1>4 DEF ImmutableInv

(* A new object, whose slice is no builder's or ends where the builder's   *)
(* does.                                                                   *)
LEMMA AddObject ==
  ASSUME ImmutableInv, NEW object \in Object, objects' = Append(objects, object),
         UNCHANGED <<builder, bound>>, given' \in Nat,
         heap' \in Heap, KeepsAll(heap, heap'),
         Valid(heap', object.fields),
         Contents(heap', object.fields) = object.made,
         \A g \in Goroutines :
           object.fields.array = builder[g].fields.array =>
             object.fields.len <= builder[g].fields.len
  PROVE  ImmutableInv'
<1>1. /\ objects' \in Seq(Object) /\ Len(objects') = Len(objects) + 1
      /\ \A i \in 1 .. Len(objects) : objects'[i] = objects[i]
      /\ objects'[Len(objects) + 1] = object
  BY AppendProperties DEF ImmutableInv, StateOK
<1>2. Len(objects) \in Nat
  BY LenProperties DEF ImmutableInv, StateOK
<1>3. \A i \in 1 .. Len(objects') :
        i \in 1 .. Len(objects) \/ i = Len(objects) + 1
  BY <1>1, <1>2
<1>4. StateOK'
  BY <1>1 DEF ImmutableInv, StateOK
<1>5. SlicesOK'
  BY <1>1, <1>3 DEF ImmutableInv, SlicesOK, KeepsAll
<1>6. RoomIsFree'
  BY <1>1, <1>3 DEF ImmutableInv, RoomIsFree
<1> QED
  BY <1>4, <1>5, <1>6 DEF ImmutableInv

LEMMA GivenField == ImmutableInv /\ GiveField => Given \in Field /\ given' \in Nat
<1> SUFFICES ASSUME ImmutableInv, GiveField PROVE Given \in Field /\ given' \in Nat
  OBVIOUS
<1>1. given + 1 \in 1 .. Len(Fields)
  BY BoundAssumption DEF ImmutableInv, StateOK, GiveField
<1>2. Fields \in Seq(Field)
  BY FieldAssumption
<1>3. Fields[given + 1] \in Field
  BY <1>1, <1>2, ElementOfSeq
<1> QED
  BY <1>3 DEF Given, ImmutableInv, StateOK, GiveField

LEMMA PrefixedType ==
  ASSUME NEW group \in Key, NEW key \in Key
  PROVE  Prefixed(group, key) \in Key
<1> DEFINE Letter == STRING \cup {"."}
<1>1. group \in Seq(Letter) /\ key \in Seq(Letter) /\ <<".">> \in Seq(Letter)
  BY DEF Key
<1> HIDE DEF Letter
<1>2. group \o <<".">> \in Seq(Letter)
  BY <1>1, ConcatProperties
<1>3. (group \o <<".">>) \o key \in Seq(Letter)
  BY <1>1, <1>2, ConcatProperties
<1>4. Prefixed(group, key) \in Seq(Letter)
  BY <1>1, <1>3 DEF Prefixed
<1> QED
  BY <1>4 DEF Key, Letter

LEMMA NoGroup == <<>> \in Key
BY EmptySeq DEF Key

LEMMA AttrType ==
  ASSUME NEW group \in Key, NEW attr \in Field
  PROVE  AttrToField(group, attr) \in Field
<1>1. PICK key : key = Prefixed(group, attr.key)
  OBVIOUS
<1>2. key \in Key
  BY <1>1, PrefixedType DEF Field
<1>3. AttrToField(group, attr) = [attr EXCEPT !.key = key]
  BY <1>1 DEF AttrToField
<1> QED
  BY <1>2, <1>3 DEF Field

(* The elements an object's slice sees are fields.                         *)
LEMMA MadeType ==
  ASSUME ImmutableInv, NEW o \in Object, Contents(heap, o.fields) = o.made,
         NEW field \in Field
  PROVE  /\ o.made \in Seq(Field) /\ o.made \in Seq(Elem)
         /\ Append(o.made, field) \in Seq(Field)
         /\ Append(o.made, field) \in Seq(Elem)
<1>1. o.made \in Seq(Field)
  BY DEF Object
<1>2. Append(o.made, field) \in Seq(Field)
  BY <1>1, AppendProperties
<1> QED
  BY <1>1, <1>2, SeqMonotonic DEF Elem

(* A fresh array belongs to no builder.                                    *)
LEMMA FreshIsNobodys ==
  ASSUME ImmutableInv, NEW g \in Goroutines
  PROVE  builder[g].fields.array # Len(heap) + 1
BY LenProperties DEF ImmutableInv, StateOK, SlicesOK, Valid, Heap

-----------------------------------------------------------------------------
(* The steps                                                               *)

LEMMA StepWith ==
  ASSUME ImmutableInv, NEW i \in 1 .. Len(objects), With(objects[i]),
         bound' = bound
  PROVE  ImmutableInv'
<1>o. PICK o, elems : o = objects[i] /\ elems = Append(Contents(heap, o.fields), Given)
  OBVIOUS
<1>r. PICK r : r = Allocated(heap, elems, 0)
  OBVIOUS
<1>n. PICK object :
      object = [o EXCEPT !.fields = r.slice, !.made = Append(@, Given)]
  OBVIOUS
<1>1. o \in Object /\ Contents(heap, o.fields) = o.made
  BY <1>o, ElementOfSeq DEF ImmutableInv, StateOK, SlicesOK
<1>2. Given \in Field /\ given' \in Nat
  BY GivenField DEF With
<1>3. /\ heap' = r.heap /\ objects' = Append(objects, object)
      /\ UNCHANGED <<builder, bound>>
  BY <1>o, <1>r, <1>n DEF With, NewObject
<1>4. elems = Append(o.made, Given) /\ elems \in Seq(Elem) /\ elems \in Seq(Field)
  BY <1>o, <1>1, <1>2, MadeType
<1>5. NoField \in Elem /\ heap \in Heap
  BY DEF Elem, ImmutableInv, StateOK
<1>6. /\ r.heap \in Heap /\ Len(r.heap) = Len(heap) + 1
      /\ r.slice = [array |-> Len(heap) + 1, len |-> Len(elems)]
      /\ Valid(r.heap, r.slice) /\ Contents(r.heap, r.slice) = elems
      /\ KeepsAll(heap, r.heap)
  <2>1. elems \in Seq(Elem)
    BY <1>4
  <2> QED
    BY <1>r, <1>5, <2>1, AllocatedEffect
<1>7. /\ object \in Object /\ object.fields = r.slice
      /\ object.made = elems
  BY <1>n, <1>1, <1>4, <1>6 DEF Object, Valid
<1>8. \A g \in Goroutines : object.fields.array # builder[g].fields.array
  BY <1>6, <1>7, FreshIsNobodys
<1> QED
  BY <1>2, <1>3, <1>6, <1>7, <1>8, AddObject

LEMMA StepWithGroup ==
  ASSUME ImmutableInv, NEW i \in 1 .. Len(objects), NEW name \in Groups,
         WithGroup(objects[i], name), bound' = bound
  PROVE  ImmutableInv'
<1>o. PICK o, r : o = objects[i] /\ r = Allocated(heap, Contents(heap, o.fields), 0)
  OBVIOUS
<1>n. PICK object :
      object = [o EXCEPT !.fields = r.slice, !.group = Prefixed(@, name)]
  OBVIOUS
<1>1. o \in Object /\ Contents(heap, o.fields) = o.made
  BY <1>o, ElementOfSeq DEF ImmutableInv, StateOK, SlicesOK
<1>2. /\ heap' = r.heap /\ objects' = Append(objects, object)
      /\ UNCHANGED <<builder, bound, given>>
  BY <1>o, <1>n DEF WithGroup, NewObject
<1>3. o.made \in Seq(Elem) /\ o.made \in Seq(Field)
  BY <1>1, SeqMonotonic DEF Object, Elem
<1>4. NoField \in Elem /\ heap \in Heap /\ given \in Nat
  BY DEF Elem, ImmutableInv, StateOK
<1>5. /\ r.heap \in Heap /\ Len(r.heap) = Len(heap) + 1
      /\ r.slice = [array |-> Len(heap) + 1, len |-> Len(o.made)]
      /\ Valid(r.heap, r.slice) /\ Contents(r.heap, r.slice) = o.made
      /\ KeepsAll(heap, r.heap)
  BY <1>o, <1>1, <1>3, <1>4, AllocatedEffect
<1>6. Prefixed(o.group, name) \in Key
  BY <1>1, FieldAssumption, PrefixedType DEF Object
<1>7. /\ object \in Object /\ object.fields = r.slice
      /\ object.made = o.made
  BY <1>n, <1>1, <1>5, <1>6 DEF Object, Valid
<1>8. \A g \in Goroutines : object.fields.array # builder[g].fields.array
  BY <1>5, <1>7, FreshIsNobodys
<1> QED
  BY <1>2, <1>4, <1>5, <1>7, <1>8, AddObject

LEMMA StepWithAttrs ==
  ASSUME ImmutableInv, NEW i \in 1 .. Len(objects), WithAttrs(objects[i]),
         bound' = bound
  PROVE  ImmutableInv'
<1>o. PICK o, c : o = objects[i] /\ c = Allocated(heap, Contents(heap, o.fields), 1)
  OBVIOUS
<1>f. PICK field, hc, sc : field = AttrToField(o.group, Given)
                         /\ hc = c.heap /\ sc = c.slice
  OBVIOUS
<1>r. PICK r : r = InPlace(hc, sc, field)
  OBVIOUS
<1>n. PICK object : object = [o EXCEPT !.fields = r.slice, !.made = Append(@, field)]
  OBVIOUS
<1>1. o \in Object /\ Contents(heap, o.fields) = o.made
  BY <1>o, ElementOfSeq DEF ImmutableInv, StateOK, SlicesOK
<1>2. Given \in Field /\ given' \in Nat
  BY GivenField DEF WithAttrs
<1>3. /\ heap' = r.heap /\ objects' = Append(objects, object)
      /\ UNCHANGED <<builder, bound>>
  BY <1>o, <1>f, <1>r, <1>n DEF WithAttrs, NewObject
<1>4. o.group \in Key
  BY <1>1 DEF Object
<1>5. field \in Field
  BY <1>f, <1>2, <1>4, AttrType
<1>6. o.made \in Seq(Elem) /\ Append(o.made, field) \in Seq(Field)
      /\ field \in Elem
  BY <1>1, <1>5, MadeType DEF Elem
<1>7. NoField \in Elem /\ heap \in Heap
  BY DEF Elem, ImmutableInv, StateOK
<1>8. /\ hc \in Heap /\ Len(hc) = Len(heap) + 1
      /\ sc = [array |-> Len(heap) + 1, len |-> Len(o.made)]
      /\ Valid(hc, sc) /\ Contents(hc, sc) = o.made
      /\ SliceCap(hc, sc) = Len(o.made) + 1
      /\ KeepsAll(heap, hc)
  BY <1>o, <1>f, <1>1, <1>6, <1>7, AllocatedEffect
<1>9. Len(heap) \in Nat /\ Len(o.made) \in Nat
  BY <1>6, <1>7, LenProperties
<1>10. sc.len < SliceCap(hc, sc)
  BY <1>8, <1>9
<1>11. /\ r.heap \in Heap
       /\ r.slice = [array |-> sc.array, len |-> sc.len + 1]
       /\ Valid(r.heap, r.slice)
       /\ Contents(r.heap, r.slice) = Append(Contents(hc, sc), field)
       /\ \A t : Valid(hc, t) /\ (t.array = sc.array => t.len <= sc.len) =>
            Valid(r.heap, t) /\ Contents(r.heap, t) = Contents(hc, t)
  <2>1. hc \in Heap /\ Valid(hc, sc) /\ field \in Elem
    BY <1>6, <1>8
  <2> QED
    BY <1>r, <1>10, <2>1, InPlaceEffect
<1>12. KeepsAll(heap, r.heap)
  <2> SUFFICES ASSUME NEW t, Valid(heap, t)
               PROVE  Valid(r.heap, t) /\ Contents(r.heap, t) = Contents(heap, t)
    BY DEF KeepsAll
  <2>1. Valid(hc, t) /\ Contents(hc, t) = Contents(heap, t)
    BY <1>8 DEF KeepsAll
  <2>2. t.array # sc.array
    BY <1>8, <1>9 DEF Valid
  <2> QED
    BY <1>11, <2>1, <2>2
<1>13. /\ object \in Object /\ object.fields = r.slice
       /\ object.made = Append(o.made, field)
  BY <1>n, <1>1, <1>6, <1>11 DEF Object, Valid
<1>14. \A g \in Goroutines : object.fields.array # builder[g].fields.array
  <2>1. object.fields.array = Len(heap) + 1
    BY <1>8, <1>11, <1>13
  <2> QED
    BY <2>1, FreshIsNobodys
<1>15. /\ heap' \in Heap /\ KeepsAll(heap, heap') /\ Valid(heap', object.fields)
       /\ Contents(heap', object.fields) = object.made
  <2>1. Contents(r.heap, r.slice) = Append(o.made, field)
    BY <1>8, <1>11
  <2> QED
    BY <1>3, <1>11, <1>12, <1>13, <2>1
<1>16. object \in Object /\ given' \in Nat
  BY <1>2, <1>13
<1> QED
  BY <1>3, <1>14, <1>15, <1>16, AddObject

LEMMA StepNewSlogHandler ==
  ASSUME ImmutableInv, NewSlogHandler, bound' = bound
  PROVE  ImmutableInv'
<1> DEFINE object == [kind |-> "slog", fields |-> NilSlice, group |-> <<>>,
                      coarse |-> FALSE, made |-> <<>>]
<1>1. /\ objects' = Append(objects, object)
      /\ UNCHANGED <<heap, builder, bound, given>>
  BY DEF NewSlogHandler, NewObject
<1>2. heap \in Heap /\ given \in Nat
  BY DEF ImmutableInv, StateOK
<1>3. Valid(heap, NilSlice) /\ Contents(heap, NilSlice) = <<>>
  BY <1>2, LenProperties DEF Valid, NilSlice, Slice, SliceCap, Contents
<1>4. object \in Object
  BY NoGroup DEF Object, NilSlice, Slice
<1>5. KeepsAll(heap, heap')
  BY <1>1 DEF KeepsAll
<1>6. \A g \in Goroutines : object.fields.len <= builder[g].fields.len
  BY DEF NilSlice, ImmutableInv, StateOK, Slice
<1>7. object.fields = NilSlice /\ object.made = <<>>
  OBVIOUS
<1> HIDE DEF object
<1> QED
  BY <1>1, <1>2, <1>3, <1>4, <1>5, <1>6, <1>7, AddObject

LEMMA StepBuilt ==
  ASSUME ImmutableInv, NEW g \in Goroutines, Built(g), bound' = bound
  PROVE  ImmutableInv'
<1> DEFINE object == [kind |-> "logger", fields |-> builder[g].fields,
                      group |-> <<>>, coarse |-> builder[g].coarse,
                      made |-> builder[g].made]
<1>1. /\ objects' = Append(objects, object)
      /\ UNCHANGED <<heap, builder, bound, given>>
  BY DEF Built, NewObject
<1>2. heap \in Heap /\ given \in Nat
  BY DEF ImmutableInv, StateOK
<1>3. object \in Object
  BY NoGroup DEF Object, ImmutableInv, StateOK
<1>4. /\ Valid(heap, builder[g].fields)
      /\ Contents(heap, builder[g].fields) = builder[g].made
  BY DEF ImmutableInv, SlicesOK
<1>5. KeepsAll(heap, heap')
  BY <1>1 DEF KeepsAll
<1>6. object.fields = builder[g].fields /\ object.made = builder[g].made
  OBVIOUS
<1> HIDE DEF object
<1>7. ASSUME NEW h \in Goroutines,
             object.fields.array = builder[h].fields.array
      PROVE  object.fields.len <= builder[h].fields.len
  <2>1. builder[g].fields \in Slice /\ builder[h].fields \in Slice
    BY DEF ImmutableInv, StateOK
  <2>2. CASE h = g
    BY <1>6, <2>1, <2>2 DEF Slice
  <2>3. CASE h # g
    <3>1. builder[g].fields.array = 0
      BY <1>6, <1>7, <2>3 DEF ImmutableInv, RoomIsFree
    <3>2. builder[g].fields.len = 0
      BY <1>4, <2>1, <3>1 DEF Valid, SliceCap, Slice
    <3> QED
      BY <1>6, <2>1, <3>2 DEF Slice
  <2> QED
    BY <2>2, <2>3
<1> QED
  BY <1>1, <1>2, <1>3, <1>4, <1>5, <1>6, <1>7, AddObject

(* The builder's slice grows, in place or into a new array; everybody      *)
(* else's is the same and sees the same.                                   *)
LEMMA ChangeBuilder ==
  ASSUME ImmutableInv, NEW g \in Goroutines, NEW slice, NEW field \in Field,
         builder' = [builder EXCEPT ![g].fields = slice,
                                    ![g].made = Append(@, field)],
         UNCHANGED <<objects, bound>>, given' \in Nat,
         heap' \in Heap, Valid(heap', slice),
         Contents(heap', slice) = Append(Contents(heap, builder[g].fields), field),
         \/ /\ slice.array = builder[g].fields.array /\ slice.array # 0
            /\ slice.len = builder[g].fields.len + 1
         \/ slice.array = Len(heap) + 1,
         \A t : Valid(heap, t) /\ (t.array = slice.array => t.len < slice.len) =>
           Valid(heap', t) /\ Contents(heap', t) = Contents(heap, t)
  PROVE  ImmutableInv'
<1> USE DEF ImmutableInv
<1>1. /\ builder[g].fields \in Slice /\ builder[g].made \in Seq(Field)
      /\ Contents(heap, builder[g].fields) = builder[g].made
      /\ slice \in Slice
  BY DEF StateOK, SlicesOK, Valid
<1>2. Append(builder[g].made, field) \in Seq(Field)
  BY <1>1, AppendProperties
<1>3. /\ builder'[g].fields = slice
      /\ builder'[g].made = Append(builder[g].made, field)
      /\ \A h \in Goroutines \ {g} : builder'[h] = builder[h]
      /\ builder' \in [Goroutines -> [fields : Slice, coarse : BOOLEAN,
                                      made : Seq(Field)]]
  BY <1>1, <1>2 DEF StateOK
<1>4. Len(heap) \in Nat
  BY LenProperties DEF StateOK
<1>5. ASSUME NEW i \in 1 .. Len(objects),
             objects[i].fields.array = slice.array
      PROVE  objects[i].fields.len < slice.len
  <2>1. Valid(heap, objects[i].fields)
    BY DEF SlicesOK
  <2>2. slice.array # Len(heap) + 1
    BY <1>4, <1>5, <2>1 DEF Valid
  <2>3. objects[i].fields.len <= builder[g].fields.len
    BY <1>5, <2>2 DEF RoomIsFree
  <2>4. slice.len = builder[g].fields.len + 1
    BY <2>2
  <2>5. objects[i].fields.len \in Nat /\ builder[g].fields.len \in Nat
    BY <1>1, <2>1 DEF Valid, Slice
  <2> QED
    BY <2>3, <2>4, <2>5
<1>6. ASSUME NEW h \in Goroutines \ {g}
      PROVE  builder[h].fields.array # slice.array
  <2>1. Valid(heap, builder[h].fields)
    BY DEF SlicesOK
  <2>2. CASE slice.array = Len(heap) + 1
    BY <1>4, <2>1, <2>2 DEF Valid
  <2>3. CASE slice.array = builder[g].fields.array /\ slice.array # 0
    BY <2>3 DEF RoomIsFree
  <2> QED
    BY <2>2, <2>3
<1>7. StateOK'
  BY <1>3 DEF StateOK
<1>8. SlicesOK'
  <2>1. ASSUME NEW i \in 1 .. Len(objects)
        PROVE  /\ Valid(heap', objects[i].fields)
               /\ Contents(heap', objects[i].fields) = objects[i].made
    BY <1>5 DEF SlicesOK
  <2>2. ASSUME NEW h \in Goroutines \ {g}
        PROVE  /\ Valid(heap', builder[h].fields)
               /\ Contents(heap', builder[h].fields) = builder[h].made
    BY <1>6 DEF SlicesOK
  <2>3. ASSUME NEW h \in Goroutines
        PROVE  /\ Valid(heap', builder'[h].fields)
               /\ Contents(heap', builder'[h].fields) = builder'[h].made
    BY <1>1, <1>3, <2>2
  <2> QED
    BY <2>1, <2>3 DEF SlicesOK
<1>9. RoomIsFree'
  <2> SUFFICES ASSUME NEW h \in Goroutines, builder'[h].fields.array # 0
               PROVE  /\ \A i \in 1 .. Len(objects) :
                           objects[i].fields.array = builder'[h].fields.array =>
                             objects[i].fields.len <= builder'[h].fields.len
                      /\ \A k \in Goroutines \ {h} :
                           builder'[k].fields.array # builder'[h].fields.array
    BY DEF RoomIsFree
  <2>1. CASE h = g
    <3>1. \A i \in 1 .. Len(objects) : objects[i].fields.len \in Nat
      BY DEF SlicesOK, Valid, Slice
    <3>2. slice.len \in Nat
      BY <1>1 DEF Slice
    <3>3. \A i \in 1 .. Len(objects) : objects[i].fields.array = slice.array =>
            objects[i].fields.len <= slice.len
      BY <1>5, <3>1, <3>2
    <3>4. \A k \in Goroutines \ {g} : builder'[k].fields.array # slice.array
      BY <1>3, <1>6
    <3> QED
      BY <1>3, <2>1, <3>3, <3>4
  <2>2. CASE h # g
    <3>1. builder'[h] = builder[h]
      BY <1>3, <2>2
    <3>2. \A i \in 1 .. Len(objects) :
            objects[i].fields.array = builder[h].fields.array =>
              objects[i].fields.len <= builder[h].fields.len
      BY <3>1 DEF RoomIsFree
    <3>3. ASSUME NEW k \in Goroutines \ {h}
          PROVE  builder'[k].fields.array # builder[h].fields.array
      <4>1. CASE k = g
        BY <1>3, <1>6, <2>2, <4>1
      <4>2. CASE k # g
        BY <1>3, <3>1, <4>2 DEF RoomIsFree
      <4> QED
        BY <4>1, <4>2
    <3> QED
      BY <3>1, <3>2, <3>3
  <2> QED
    BY <2>1, <2>2
<1> QED
  BY <1>7, <1>8, <1>9

LEMMA StepWithFields ==
  ASSUME ImmutableInv, NEW g \in Goroutines, WithFields(g), bound' = bound
  PROVE  ImmutableInv'
<1> DEFINE s == builder[g].fields
           elems == Append(Contents(heap, s), Given)
<1>1. Given \in Field /\ given' \in Nat
  BY GivenField DEF WithFields
<1>2. PICK r \in Appended(heap, s, Given) :
        /\ heap' = r.heap
        /\ builder' = [builder EXCEPT ![g].fields = r.slice,
                                      ![g].made = Append(@, Given)]
  BY DEF WithFields
<1>3. UNCHANGED <<objects, bound>>
  BY DEF WithFields
<1>4. /\ heap \in Heap /\ NoField \in Elem /\ Given \in Elem
      /\ Valid(heap, s)
  BY <1>1 DEF Elem, ImmutableInv, StateOK, SlicesOK
<1>5. Contents(heap, s) \in Seq(Elem) /\ elems \in Seq(Elem)
  <2>1. Contents(heap, s) \in Seq(Elem)
    BY <1>4, ContentsOf
  <2> QED
    BY <1>4, <2>1, AppendProperties
<1>6. Len(heap) \in Nat
  BY <1>4, LenProperties
<1>7. CASE s.len < SliceCap(heap, s)
  <2>1. r = InPlace(heap, s, Given)
    BY <1>2, <1>7 DEF Appended
  <2> HIDE DEF s
  <2>2. /\ r.heap \in Heap
        /\ r.slice = [array |-> s.array, len |-> s.len + 1]
        /\ Valid(r.heap, r.slice)
        /\ Contents(r.heap, r.slice) = Append(Contents(heap, s), Given)
        /\ \A t : Valid(heap, t) /\ (t.array = s.array => t.len <= s.len) =>
             Valid(r.heap, t) /\ Contents(r.heap, t) = Contents(heap, t)
    BY <1>4, <1>7, <2>1, InPlaceEffect
  <2>3. s.array # 0 /\ s.len \in Nat
    BY <1>4, <1>7 DEF Valid, Slice, SliceCap
  <2>4. \A t : Valid(heap, t) /\ (t.array = r.slice.array => t.len < r.slice.len) =>
          Valid(r.heap, t) /\ Contents(r.heap, t) = Contents(heap, t)
    <3> SUFFICES ASSUME NEW t, Valid(heap, t),
                        t.array = r.slice.array => t.len < r.slice.len
                 PROVE  Valid(r.heap, t) /\ Contents(r.heap, t) = Contents(heap, t)
      OBVIOUS
    <3>1. t.len \in Nat
      BY DEF Valid, Slice
    <3>2. t.array = s.array => t.len <= s.len
      BY <2>2, <2>3, <3>1
    <3> QED
      BY <2>2, <3>2
  <2>5. r.slice.array = s.array /\ r.slice.len = s.len + 1
    BY <2>2
  <2> QED
    BY <1>1, <1>2, <1>3, <2>2, <2>3, <2>4, <2>5, ChangeBuilder DEF s
<1>8. CASE ~(s.len < SliceCap(heap, s))
  <2>1. PICK room \in 0 .. 1 : r = Allocated(heap, elems, room)
    BY <1>2, <1>8 DEF Appended
  <2> HIDE DEF s, elems
  <2>2. /\ r.heap \in Heap
        /\ r.slice = [array |-> Len(heap) + 1, len |-> Len(elems)]
        /\ Valid(r.heap, r.slice)
        /\ Contents(r.heap, r.slice) = elems
        /\ KeepsAll(heap, r.heap)
    BY <1>4, <1>5, <2>1, AllocatedEffect
  <2>3. r.slice.array = Len(heap) + 1
    BY <2>2
  <2> QED
    BY <1>1, <1>2, <1>3, <2>2, <2>3, ChangeBuilder DEF s, elems, KeepsAll
<1> QED
  BY <1>7, <1>8

(* WithCoarseClock sets the flag of the builder and nothing else.          *)
LEMMA StepWithCoarseClock ==
  ASSUME ImmutableInv, NEW g \in Goroutines, WithCoarseClock(g), bound' = bound
  PROVE  ImmutableInv'
<1>1. /\ UNCHANGED <<heap, objects, given, bound>>
      /\ builder' = [builder EXCEPT ![g].coarse = ~@]
  BY DEF WithCoarseClock
<1>2. /\ builder' \in [Goroutines -> [fields : Slice, coarse : BOOLEAN,
                                      made : Seq(Field)]]
      /\ \A h \in Goroutines : /\ builder'[h].fields = builder[h].fields
                               /\ builder'[h].made = builder[h].made
  BY <1>1 DEF ImmutableInv, StateOK
<1>3. StateOK'
  BY <1>1, <1>2 DEF ImmutableInv, StateOK
<1>4. SlicesOK'
  BY <1>1, <1>2 DEF ImmutableInv, SlicesOK
<1>5. RoomIsFree'
  BY <1>1, <1>2 DEF ImmutableInv, RoomIsFree
<1> QED
  BY <1>3, <1>4, <1>5 DEF ImmutableInv

LEMMA Undisturbed ==
  ASSUME ImmutableInv, UNCHANGED <<heap, objects, builder, given, bound>>
  PROVE  ImmutableInv'
BY DEF ImmutableInv, StateOK, SlicesOK, RoomIsFree

LEMMA Inductive == ImmutableInv /\ [Next]_vars => ImmutableInv'
<1> SUFFICES ASSUME ImmutableInv, [Next]_vars PROVE ImmutableInv'
  OBVIOUS
<1>1. CASE Derive /\ UNCHANGED <<bound, last>>
  <2>1. ASSUME NEW g \in Goroutines,
               WithFields(g) \/ WithCoarseClock(g) \/ Build(g) \/ Built(g)
        PROVE  ImmutableInv'
    <3>1. Build(g) => UNCHANGED <<heap, objects, builder, given>>
      BY DEF Build
    <3> QED
      BY <1>1, <2>1, <3>1, StepWithFields, StepWithCoarseClock, StepBuilt,
         Undisturbed
  <2>2. ASSUME NEW i \in DOMAIN objects,
               \/ With(objects[i]) \/ WithAttrs(objects[i])
               \/ \E name \in Groups : WithGroup(objects[i], name)
        PROVE  ImmutableInv'
    <3>1. i \in 1 .. Len(objects)
      BY <2>2, LenProperties DEF ImmutableInv, StateOK
    <3> QED
      BY <1>1, <2>2, <3>1, StepWith, StepWithAttrs, StepWithGroup
  <2> QED
    BY <1>1, <2>1, <2>2, StepNewSlogHandler DEF Derive
<1>2. CASE UNCHANGED loggerVars
  BY <1>2, Undisturbed DEF loggerVars
<1>3. ASSUME NEW i \in DOMAIN objects, NEW message, Log(objects[i], message)
      PROVE  ImmutableInv'
  BY <1>3, Undisturbed DEF Log
<1>4. CASE UNCHANGED <<clockVars, bound, heap, builder, objects, given>>
  BY <1>4, Undisturbed
<1>5. CASE UNCHANGED vars
  BY <1>5, Undisturbed DEF vars, loggerVars
<1> QED
  BY <1>1, <1>2, <1>3, <1>4, <1>5 DEF Next

(* No logger, adapter or builder ever sees other fields than those of the  *)
(* calls that made it, in their order, whatever is derived from it or from *)
(* the builder that made it (WithFields, Build, With, WithAttrs,           *)
(* WithGroup).                                                             *)
THEOREM FieldsNeverChange == Spec => []FieldsFixed
<1>1. ImmutableInv => FieldsFixed
  <2> SUFFICES ASSUME ImmutableInv PROVE FieldsFixed
    OBVIOUS
  <2>1. DOMAIN objects = 1 .. Len(objects)
    BY LenProperties DEF ImmutableInv, StateOK
  <2> QED
    BY <2>1 DEF ImmutableInv, SlicesOK, FieldsFixed
<1> QED
  BY <1>1, InitHolds, Inductive, PTL DEF Spec

-----------------------------------------------------------------------------
(* The coarse clock                                                        *)

(* One goroutine at most runs the function under the Once, before there is *)
(* a time; whoever has returned from StartCoarseClock finds one.           *)
OnceInv ==
  /\ once # "done" => coarseNow = NoTime /\ tickers = {}
  /\ once = "done" => coarseNow # NoTime
  /\ \A g \in Goroutines : call[g] = "store" =>
       /\ once = "running" /\ sample[g] # NoTime
       /\ \A h \in Goroutines : call[h] = "store" => h = g
  /\ \A g \in Goroutines : call[g] = "returned" => once = "done"

(* There is one background goroutine, and what it has read and not stored  *)
(* is no older than what is stored.                                        *)
TickInv ==
  /\ \A g, h \in tickers : g = h
  /\ \A g \in Goroutines : tick[g] # NoTime =>
       g \in tickers /\ coarseNow <= tick[g] /\ tick[g] <= now
  /\ \A g \in Goroutines : sample[g] # NoTime => sample[g] <= now
  /\ coarseNow # NoTime => coarseNow <= now

(* A logger uses the coarse clock only when it has started.                *)
ReadyInv ==
  /\ \A i \in 1 .. Len(objects) : objects[i].coarse => once = "done"
  /\ ClockReady

(* What ClockMonotone says of a step.                                      *)
Onward == coarseNow # NoTime => coarseNow' # NoTime /\ coarseNow' >= coarseNow

ClockInv == ClockTypeOK /\ OnceInv /\ TickInv

LEMMA TimeFacts == Time \subseteq Nat /\ NoTime \notin Time /\ 0 \in Time
BY TimeAssumption DEF Time

LEMMA ClockStarts == Init => ClockInv /\ ReadyInv
<1> SUFFICES ASSUME Init PROVE ClockInv /\ ReadyInv
  OBVIOUS
<1>1. ClockTypeOK
  BY TimeFacts DEF Init, ClockInit, ClockTypeOK
<1>2. OnceInv /\ TickInv
  BY TimeFacts DEF Init, ClockInit, OnceInv, TickInv
<1>3. ReadyInv
  BY DEF Init, ReadyInv, ClockReady
<1> QED
  BY <1>1, <1>2, <1>3 DEF ClockInv

(* Calls of StartCoarseClock begin and end in the steps of Loggers.        *)
LEMMA CallStep ==
  ASSUME ClockInv, NEW g \in Goroutines,
         UNCHANGED <<now, once, coarseNow, sample, tickers, tick>>,
         \/ UNCHANGED call
         \/ \E label \in {"once", "none"} : call' = [call EXCEPT ![g] = label]
  PROVE  ClockInv'
<1> USE DEF ClockInv
<1>1. ClockTypeOK'
  BY DEF ClockTypeOK
<1>2. \A h \in Goroutines : call'[h] \in {"store", "returned"} => call'[h] = call[h]
  BY DEF ClockTypeOK
<1>3. OnceInv'
  BY <1>2 DEF OnceInv
<1>4. TickInv'
  BY DEF TickInv
<1> QED
  BY <1>1, <1>3, <1>4

LEMMA ClockStepKeeps ==
  ASSUME ClockInv, ClockStep
  PROVE  ClockInv' /\ (once = "done" => once' = "done") /\ Onward
<1> USE TimeFacts DEF ClockInv, Onward
<1>1. ASSUME NEW g \in Goroutines, OnceRun(g)
      PROVE  ClockInv' /\ once # "done" /\ coarseNow' = coarseNow
  <2>1. ClockTypeOK'
    BY <1>1 DEF OnceRun, ClockTypeOK
  <2>2. OnceInv'
    BY <1>1 DEF OnceRun, OnceInv, ClockTypeOK
  <2>3. TickInv'
    BY <1>1 DEF OnceRun, TickInv, ClockTypeOK
  <2> QED
    BY <1>1, <2>1, <2>2, <2>3 DEF OnceRun
<1>2. ASSUME NEW g \in Goroutines, OnceStore(g)
      PROVE  ClockInv' /\ once' = "done" /\ coarseNow = NoTime
  <2>1. /\ once = "running" /\ coarseNow = NoTime /\ tickers = {}
        /\ sample[g] \in Time
        /\ \A h \in Goroutines : call[h] = "store" => h = g
    BY <1>2 DEF OnceStore, OnceInv, ClockTypeOK
  <2>2. ClockTypeOK'
    BY <1>2, <2>1 DEF OnceStore, ClockTypeOK
  <2>3. OnceInv'
    BY <1>2, <2>1 DEF OnceStore, OnceInv, ClockTypeOK
  <2>4. TickInv'
    BY <1>2, <2>1 DEF OnceStore, TickInv, ClockTypeOK
  <2> QED
    BY <1>2, <2>1, <2>2, <2>3, <2>4 DEF OnceStore
<1>3. ASSUME NEW g \in Goroutines, OnceReturn(g)
      PROVE  ClockInv' /\ UNCHANGED <<once, coarseNow>>
  <2>1. ClockTypeOK'
    BY <1>3 DEF OnceReturn, ClockTypeOK
  <2>2. OnceInv'
    BY <1>3 DEF OnceReturn, OnceInv, ClockTypeOK
  <2>3. TickInv'
    BY <1>3 DEF OnceReturn, TickInv
  <2> QED
    BY <1>3, <2>1, <2>2, <2>3 DEF OnceReturn
<1>4. ASSUME NEW g \in Goroutines, TickRead(g)
      PROVE  ClockInv' /\ UNCHANGED <<once, coarseNow>>
  <2>1. ClockTypeOK'
    BY <1>4 DEF TickRead, ClockTypeOK
  <2>2. OnceInv'
    BY <1>4 DEF TickRead, OnceInv
  <2>3. coarseNow \in Time /\ coarseNow <= now
    BY <1>4 DEF TickRead, OnceInv, TickInv, ClockTypeOK
  <2>4. TickInv'
    BY <1>4, <2>3 DEF TickRead, TickInv, ClockTypeOK
  <2> QED
    BY <1>4, <2>1, <2>2, <2>4 DEF TickRead
<1>5. ASSUME NEW g \in Goroutines, TickStore(g)
      PROVE  /\ ClockInv' /\ once' = once
             /\ coarseNow' # NoTime /\ coarseNow' >= coarseNow
  <2>1. /\ g \in tickers /\ tick[g] \in Time /\ coarseNow <= tick[g]
        /\ tick[g] <= now
    BY <1>5 DEF TickStore, TickInv, ClockTypeOK
  <2>2. ClockTypeOK'
    BY <1>5, <2>1 DEF TickStore, ClockTypeOK
  <2>3. OnceInv'
    BY <1>5, <2>1 DEF TickStore, OnceInv
  <2>4. \A h \in Goroutines : tick'[h] = NoTime
    BY <1>5, <2>1 DEF TickStore, TickInv, ClockTypeOK
  <2>5. TickInv'
    BY <1>5, <2>1, <2>4 DEF TickStore, TickInv
  <2>6. coarseNow \in Time
    BY <2>1 DEF OnceInv, ClockTypeOK
  <2> QED
    BY <1>5, <2>1, <2>2, <2>3, <2>5, <2>6 DEF TickStore
<1>6. ASSUME TimePasses
      PROVE  ClockInv' /\ UNCHANGED <<once, coarseNow>>
  <2>1. now' \in Time /\ now' = now + 1 /\ now \in Nat
    BY <1>6, TimeAssumption DEF TimePasses, ClockTypeOK, Time
  <2>2. ClockTypeOK'
    BY <1>6, <2>1 DEF TimePasses, ClockTypeOK
  <2>3. OnceInv'
    BY <1>6 DEF TimePasses, OnceInv
  <2>4. TickInv'
    <3>1. /\ UNCHANGED <<coarseNow, tickers, sample, tick>>
          /\ \A g \in Goroutines : tick[g] # NoTime => tick[g] \in Nat
          /\ \A g \in Goroutines : sample[g] # NoTime => sample[g] \in Nat
          /\ coarseNow # NoTime => coarseNow \in Nat
      BY <1>6 DEF TimePasses, ClockTypeOK
    <3>2. \A t \in Nat : t <= now => t <= now'
      BY <2>1
    <3> QED
      BY <3>1, <3>2 DEF TickInv
  <2> QED
    BY <1>6, <2>2, <2>3, <2>4 DEF TimePasses
<1>7. coarseNow # NoTime => coarseNow \in Nat /\ coarseNow >= coarseNow
  BY DEF ClockTypeOK
<1> QED
  BY <1>1, <1>2, <1>3, <1>4, <1>5, <1>6, <1>7 DEF ClockStep, OnceInv

(* A new object uses the clock if the object it comes from does, or if its *)
(* builder has just returned from StartCoarseClock.                        *)
LEMMA ReadyAppend ==
  ASSUME ImmutableInv, ReadyInv, NEW object,
         objects' = Append(objects, object), once' = once, last' = last,
         object.coarse => once = "done"
  PROVE  ReadyInv'
<1>1. /\ Len(objects') = Len(objects) + 1 /\ Len(objects) \in Nat
      /\ \A i \in 1 .. Len(objects) : objects'[i] = objects[i]
      /\ objects'[Len(objects) + 1] = object
  <2>1. objects \in Seq(Object) /\ Len(objects) \in Nat
    BY LenProperties DEF ImmutableInv, StateOK
  <2> QED
    BY <2>1
<1>2. \A i \in 1 .. Len(objects') :
        i \in 1 .. Len(objects) \/ i = Len(objects) + 1
  BY <1>1
<1> QED
  BY <1>1, <1>2 DEF ReadyInv, ClockReady

LEMMA DeriveKeepsReady ==
  ASSUME ImmutableInv, ClockInv, ReadyInv, Derive, last' = last
  PROVE  ReadyInv'
<1>1. ASSUME NEW i \in DOMAIN objects,
             \/ With(objects[i]) \/ WithAttrs(objects[i])
             \/ \E name \in Groups : WithGroup(objects[i], name)
      PROVE  ReadyInv'
  <2>1. /\ objects[i].coarse => once = "done"
        /\ objects[i] \in Object /\ once' = once
    <3>1. i \in 1 .. Len(objects) /\ objects \in Seq(Object)
      BY LenProperties DEF ImmutableInv, StateOK
    <3> QED
      BY <1>1, <3>1, ElementOfSeq
         DEF ReadyInv, With, WithAttrs, WithGroup, clockVars
  <2>2. PICK object : objects' = Append(objects, object)
                      /\ object.coarse = objects[i].coarse
    <3>1. CASE With(objects[i]) \/ WithAttrs(objects[i])
      <4>1. PICK s, m : objects' = Append(objects, [objects[i] EXCEPT
                                     !.fields = s, !.made = m])
        BY <3>1, Zenon DEF With, WithAttrs, NewObject
      <4>2. [objects[i] EXCEPT !.fields = s, !.made = m].coarse
              = objects[i].coarse
        BY <2>1 DEF Object
      <4> QED
        BY <4>1, <4>2
    <3>2. ASSUME NEW name \in Groups, WithGroup(objects[i], name)
          PROVE  \E object : objects' = Append(objects, object)
                             /\ object.coarse = objects[i].coarse
      <4>1. PICK s, n : objects' = Append(objects, [objects[i] EXCEPT
                                     !.fields = s, !.group = n])
        BY <3>2, Zenon DEF WithGroup, NewObject
      <4>2. [objects[i] EXCEPT !.fields = s, !.group = n].coarse
              = objects[i].coarse
        BY <2>1 DEF Object
      <4> QED
        BY <4>1, <4>2
    <3> QED
      BY <1>1, <3>1, <3>2
  <2> QED
    BY <2>1, <2>2, ReadyAppend
<1>2. CASE NewSlogHandler
  <2>1. PICK object : objects' = Append(objects, object)
                      /\ object.coarse = FALSE
    BY <1>2 DEF NewSlogHandler, NewObject
  <2>2. once' = once
    BY <1>2 DEF NewSlogHandler, clockVars
  <2> QED
    BY <2>1, <2>2, ReadyAppend
<1>3. ASSUME NEW g \in Goroutines, Built(g)
      PROVE  ReadyInv'
  <2>1. PICK object : objects' = Append(objects, object)
                      /\ object.coarse = builder[g].coarse
    BY <1>3 DEF Built, NewObject
  <2>2. builder[g].coarse => once = "done"
    BY <1>3 DEF Built, ClockInv, OnceInv
  <2>3. once' = once
    BY <1>3 DEF Built
  <2> QED
    BY <2>1, <2>2, <2>3, ReadyAppend
<1>4. ASSUME NEW g \in Goroutines,
             WithFields(g) \/ WithCoarseClock(g) \/ Build(g)
      PROVE  ReadyInv'
  <2>1. once' = once /\ objects' = objects
    BY <1>4 DEF WithFields, WithCoarseClock, Build, StartCoarseClock, clockVars
  <2> QED
    BY <2>1 DEF ReadyInv, ClockReady
<1> QED
  BY <1>1, <1>2, <1>3, <1>4 DEF Derive

LEMMA DeriveKeepsClock ==
  ASSUME ClockInv, Derive
  PROVE  ClockInv' /\ coarseNow' = coarseNow
<1>1. ASSUME NEW g \in Goroutines,
             WithFields(g) \/ WithCoarseClock(g) \/ Build(g) \/ Built(g)
      PROVE  ClockInv' /\ coarseNow' = coarseNow
  BY <1>1, CallStep
     DEF WithFields, WithCoarseClock, Build, StartCoarseClock, Built, clockVars
<1>2. CASE UNCHANGED clockVars
  BY <1>2 DEF clockVars, ClockInv, ClockTypeOK, OnceInv, TickInv
<1>3. ASSUME NEW i \in DOMAIN objects,
             \/ With(objects[i]) \/ WithAttrs(objects[i])
             \/ \E name \in Groups : WithGroup(objects[i], name)
      PROVE  UNCHANGED clockVars
  BY <1>3 DEF With, WithAttrs, WithGroup
<1>4. NewSlogHandler => UNCHANGED clockVars
  BY DEF NewSlogHandler
<1> QED
  BY <1>1, <1>2, <1>3, <1>4 DEF Derive

LEMMA ClockInductive ==
  ASSUME ImmutableInv, ClockInv, ReadyInv, [Next]_vars
  PROVE  ClockInv' /\ ReadyInv' /\ Onward
<1>1. coarseNow' = coarseNow => Onward
  BY TimeFacts DEF ClockInv, ClockTypeOK, Onward
<1>2. UNCHANGED clockVars => ClockInv' /\ Onward
  BY <1>1 DEF clockVars, ClockInv, ClockTypeOK, OnceInv, TickInv
<1>3. CASE Derive /\ last' = last
  <2>1. ClockInv' /\ coarseNow' = coarseNow
    BY <1>3, DeriveKeepsClock
  <2>2. ReadyInv'
    BY <1>3, DeriveKeepsReady
  <2> QED
    BY <1>1, <2>1, <2>2
<1>4. CASE ClockStep /\ UNCHANGED loggerVars
  <2>1. ReadyInv'
    BY <1>4, ClockStepKeeps DEF ReadyInv, ClockReady, loggerVars
  <2> QED
    BY <1>4, <2>1, ClockStepKeeps
<1>5. ASSUME NEW i \in DOMAIN objects, NEW message, Log(objects[i], message)
      PROVE  UNCHANGED clockVars /\ ReadyInv'
  <2>1. i \in 1 .. Len(objects)
    BY LenProperties DEF ImmutableInv, StateOK
  <2>2. objects[i].coarse => coarseNow # NoTime
    BY <2>1 DEF ReadyInv, ClockInv, OnceInv
  <2>3. now # NoTime
    BY TimeFacts DEF ClockInv, ClockTypeOK
  <2>4. last'.record.time # NoTime
    BY <1>5, <2>2, <2>3 DEF Log, Record
  <2> QED
    BY <1>5, <2>4 DEF Log, clockVars, ReadyInv, ClockReady
<1>6. CASE last' = NoRecord /\ UNCHANGED <<clockVars, objects>>
  BY <1>2, <1>6 DEF ReadyInv, ClockReady, clockVars
<1>7. CASE UNCHANGED vars
  <2>1. UNCHANGED clockVars /\ ReadyInv'
    BY <1>7 DEF vars, loggerVars, clockVars, ReadyInv, ClockReady
  <2> QED
    BY <1>2, <2>1
<1> QED
  BY <1>2, <1>3, <1>4, <1>5, <1>6, <1>7 DEF Next

LEMMA ClockSafety == Spec => [](ImmutableInv /\ ClockInv /\ ReadyInv)
<1>1. Init => ImmutableInv /\ ClockInv /\ ReadyInv
  BY InitHolds, ClockStarts
<1>2. ImmutableInv /\ ClockInv /\ ReadyInv /\ [Next]_vars
        => (ImmutableInv /\ ClockInv /\ ReadyInv)'
  BY Inductive, ClockInductive
<1> QED
  BY <1>1, <1>2, PTL DEF Spec

(* A logger with the coarse clock never dereferences its nil pointer       *)
(* (Build, log).                                                           *)
THEOREM ClockAlwaysReady == Spec => []ClockReady
<1>1. ReadyInv => ClockReady
  BY DEF ReadyInv
<1> QED
  BY <1>1, ClockSafety, PTL

(* The cached time never goes back (StartCoarseClock).                     *)
THEOREM ClockNeverGoesBack == Spec => ClockMonotone
<1>1. ImmutableInv /\ ClockInv /\ ReadyInv /\ [Next]_vars =>
        [coarseNow # NoTime => coarseNow' # NoTime
                               /\ coarseNow' >= coarseNow]_clockVars
  BY ClockInductive DEF Onward
<1> QED
  BY <1>1, ClockSafety, PTL DEF Spec, ClockMonotone
-----------------------------------------------------------------------------
(* Types                                                                   *)

GivenInv == given \in 0 .. bound.fields

LEMMA GivenKept == ImmutableInv /\ GivenInv /\ [Next]_vars => GivenInv'
<1> SUFFICES ASSUME ImmutableInv, GivenInv, [Next]_vars PROVE GivenInv'
  OBVIOUS
<1>1. bound \in Bounds /\ given \in Nat /\ bound.fields \in Nat
  BY BoundAssumption, LenProperties, FieldAssumption
     DEF ImmutableInv, StateOK
<1>2. GiveField /\ bound' = bound => GivenInv'
  BY <1>1 DEF GiveField, GivenInv
<1>3. UNCHANGED <<given, bound>> => GivenInv'
  BY DEF GivenInv
<1>4. Derive => GiveField \/ UNCHANGED given
  BY DEF Derive, WithFields, WithCoarseClock, Build, Built, With, WithAttrs,
         WithGroup, NewSlogHandler
<1>5. ASSUME NEW i \in DOMAIN objects, NEW message, Log(objects[i], message)
      PROVE  UNCHANGED <<given, bound>>
  BY <1>5 DEF Log
<1>6. bound' = bound
  BY <1>5 DEF Next, vars, loggerVars
<1>7. GiveField \/ UNCHANGED given
  BY <1>4, <1>5 DEF Next, vars, loggerVars
<1> QED
  BY <1>2, <1>3, <1>6, <1>7

(* A slice that sees fields.                                               *)
LEMMA FilledSlice ==
  ASSUME heap \in Heap, NEW s, Valid(heap, s), Contents(heap, s) \in Seq(Field)
  PROVE  IsSlice(s)
<1>1. /\ Len(Contents(heap, s)) = s.len
      /\ \A i \in 1 .. s.len : Contents(heap, s)[i] = heap[s.array][i]
  BY ContentsOf
<1>2. ASSUME NEW i \in 1 .. s.len PROVE heap[s.array][i] # NoField
  <2>1. Contents(heap, s)[i] \in Field
    BY <1>1, ElementOfSeq
  <2> QED
    BY <1>1, <2>1, FieldAssumption
<1> QED
  BY <1>2 DEF Valid, IsSlice

(* Every variable of Loggers keeps its type, and no slice reaches behind   *)
(* its array or shows an element that was never filled in, whatever append *)
(* has written.                                                            *)
THEOREM TypeCorrect == Spec => []TypeOK
<1>1. Init => GivenInv
  <2> SUFFICES ASSUME Init PROVE GivenInv
    OBVIOUS
  <2>1. bound.fields \in 0 .. Len(Fields) /\ Len(Fields) \in Nat
    BY BoundAssumption, FieldAssumption, LenProperties DEF Init
  <2> QED
    BY <2>1 DEF Init, GivenInv
<1>2. ImmutableInv /\ ClockInv /\ GivenInv => TypeOK
  <2> SUFFICES ASSUME ImmutableInv, ClockInv, GivenInv PROVE TypeOK
    OBVIOUS
  <2>1. ASSUME NEW i \in DOMAIN objects
        PROVE  objects[i].kind \in {"logger", "slog"} /\ IsSlice(objects[i].fields)
    <3>1. i \in 1 .. Len(objects) /\ objects \in Seq(Object)
      BY LenProperties DEF ImmutableInv, StateOK
    <3>2. objects[i] \in Object
      BY <3>1, ElementOfSeq
    <3>3. /\ Valid(heap, objects[i].fields)
          /\ Contents(heap, objects[i].fields) \in Seq(Field)
      BY <3>1, <3>2 DEF Object, ImmutableInv, SlicesOK
    <3> QED
      BY <3>2, <3>3, FilledSlice DEF Object, ImmutableInv, StateOK
  <2>2. ASSUME NEW g \in Goroutines
        PROVE  builder[g].coarse \in BOOLEAN /\ IsSlice(builder[g].fields)
    <3>1. /\ Valid(heap, builder[g].fields)
          /\ Contents(heap, builder[g].fields) \in Seq(Field)
          /\ builder[g].coarse \in BOOLEAN
      BY DEF ImmutableInv, StateOK, SlicesOK
    <3> QED
      BY <3>1, FilledSlice DEF ImmutableInv, StateOK
  <2> QED
    BY <2>1, <2>2 DEF TypeOK, ClockInv, GivenInv, ImmutableInv, StateOK
<1>3. Spec => []GivenInv
  <2>1. Spec => []ImmutableInv
    BY ClockSafety, PTL
  <2> QED
    BY <1>1, <2>1, GivenKept, PTL DEF Spec
<1> QED
  BY <1>2, <1>3, ClockSafety, PTL

-----------------------------------------------------------------------------
(* The line                                                                *)

LEMMA TextTypes == /\ Seq(STRING) \subseteq Seq(Token)
                   /\ Seq(Plain) \subseteq Seq(Token \ Special)
<1>1. STRING \subseteq Token /\ Plain \subseteq Token \ Special
  BY DEF Token, Plain
<1> QED
  BY <1>1, SeqMonotonic

(* A field that JSON can express.                                          *)
LEMMA FieldTypes ==
  ASSUME NEW f \in Field, f.type = "number" => f.value \in Literals
  PROVE  f \in AnyField
<1>1. Key \subseteq Seq(Token)
  <2>1. STRING \cup {"."} \subseteq Token
    BY DEF Token
  <2> QED
    BY <2>1, SeqMonotonic DEF Key
<1> QED
  BY <1>1, TextTypes DEF Field, AnyField

LEMMA LiteralTypes ==
  /\ \A t \in {"time", "level", "message"} : <<t>> \in Seq(Token \ Special)
  /\ "INFO" \in Token \ Special
  /\ {"{", "}", ","} \subseteq Structural
<1>1. ASSUME NEW t \in {"time", "level", "message", "INFO"} PROVE t \in Token \ Special
  <2>1. t \notin Special
    BY DEF Special, Quote, Backslash, Newline, Return_, Tab, Controls
  <2> QED
    BY <2>1 DEF Token
<1>2. {"{", "}", ","} \subseteq Structural
  BY DEF Structural
<1>3. ASSUME NEW t \in {"time", "level", "message"} PROVE <<t>> \in Seq(Token \ Special)
  BY <1>1, ConcatTypes, EmptySeq
<1> QED
  BY <1>1, <1>2, <1>3

LEMMA YieldsField ==
  ASSUME NEW f \in AnyField
  PROVE  Yields(<<",">> \o Member(Escape(f.key), FieldValue(f)),
                <<Bare(",")>> \o ExpectedMember(f.key, ExpectedValue(f)))
<1>1. Yields(<<",">>, <<Bare(",")>>)
  BY LiteralTypes, YieldsToken
<1>2. f.key \in Seq(Token)
  BY DEF AnyField
<1>3. Yields(Quoted(Escape(f.key)), <<Text(f.key)>>)
  BY <1>2, YieldsEscaped
<1>4. PICK v, g : v = FieldValue(f) /\ g = ExpectedValue(f)
  OBVIOUS
<1>5. Yields(v, g)
  BY <1>4, YieldsValue DEF ExpectedValue
<1>6. PICK k : k = Escape(f.key)
  OBVIOUS
<1>7. Yields(Member(k, v), <<Text(f.key), Bare(":")>> \o g)
  BY <1>3, <1>5, <1>6, YieldsMember
<1>8. PICK m, h : m = Member(k, v) /\ h = ExpectedMember(f.key, g)
  OBVIOUS
<1>9. Yields(m, h)
  BY <1>7, <1>8 DEF ExpectedMember
<1> QED
  BY <1>1, <1>4, <1>6, <1>8, <1>9, YieldsConcat

(* A name that the formatter writes itself, and a quoted text.             *)
LEMMA YieldsOwn ==
  ASSUME NEW name \in {"time", "level", "message"}, NEW body, NEW text,
         Yields(Quoted(body), <<Text(text)>>)
  PROVE  Yields(Member(<<name>>, Quoted(body)),
                ExpectedMember(<<name>>, <<Text(text)>>))
<1>1. PICK n, v, g : n = <<name>> /\ v = Quoted(body) /\ g = <<Text(text)>>
  OBVIOUS
<1>2. Yields(Quoted(n), <<Text(n)>>)
  BY <1>1, LiteralTypes, YieldsPlain
<1>3. Yields(Member(n, v), <<Text(n), Bare(":")>> \o g)
  BY <1>1, <1>2, YieldsMember
<1> QED
  BY <1>1, <1>3 DEF ExpectedMember

LEMMA YieldsEntry ==
  ASSUME NEW e, TimeText[e.time] \in Seq(Plain), e.level \in Token \ Special,
         e.message \in Seq(Token), e.fields \in Seq(AnyField)
  PROVE  Yields(FormatEntry(e), Expected(e))
<1>p. PICK p, q :
        /\ p = [i \in DOMAIN e.fields |->
                  <<",">> \o Member(Escape(e.fields[i].key), FieldValue(e.fields[i]))]
        /\ q = [i \in DOMAIN e.fields |->
                  <<Bare(",")>> \o ExpectedMember(e.fields[i].key,
                                                  ExpectedValue(e.fields[i]))]
  OBVIOUS
<1>1. Yields(Joined(p), Joined(q))
  <2>1. PICK n : n = Len(e.fields)
    OBVIOUS
  <2>2. n \in Nat /\ DOMAIN e.fields = 1 .. n
    BY <2>1, LenProperties
  <2>3. \A i \in 1 .. n : Yields(p[i], q[i])
    BY <1>p, <2>1, <2>2, ElementOfSeq, YieldsField
  <2>4. Len(p) = n /\ Len(q) = n
    <3>1. p \in [1 .. n -> Seq(Token)] /\ q \in [1 .. n -> Seq(Item)]
      <4>1. \A i \in 1 .. n : p[i] \in Seq(Token) /\ q[i] \in Seq(Item)
        BY <2>3 DEF Yields
      <4>2. /\ p = [i \in 1 .. n |-> p[i]] /\ q = [i \in 1 .. n |-> q[i]]
        BY <1>p, <2>2
      <4> QED
        BY <4>1, <4>2
    <3>2. p \in Seq(Seq(Token)) /\ q \in Seq(Seq(Item))
      BY <2>2, <3>1
    <3>3. 1 .. Len(p) = 1 .. n /\ 1 .. Len(q) = 1 .. n
      BY <3>1, <3>2, LenProperties
    <3>4. Len(p) \in Nat /\ Len(q) \in Nat
      BY <3>2, LenProperties
    <3> QED
      BY <2>2, <3>3, <3>4
  <2> QED
    BY <2>2, <2>3, <2>4, YieldsJoined
<1>t. PICK time, level, message :
        /\ time = Member(<<"time">>, Quoted(TimeText[e.time]))
        /\ level = Member(<<"level">>, Quoted(<<e.level>>))
        /\ message = Member(<<"message">>, Quoted(Escape(e.message)))
  OBVIOUS
<1>f. PICK foundTime, foundLevel, foundMessage :
        /\ foundTime = ExpectedMember(<<"time">>, <<Text(TimeText[e.time])>>)
        /\ foundLevel = ExpectedMember(<<"level">>, <<Text(<<e.level>>)>>)
        /\ foundMessage = ExpectedMember(<<"message">>, <<Text(e.message)>>)
  OBVIOUS
<1>2. Yields(time, foundTime)
  <2>1. TimeText[e.time] \in Seq(Token \ Special)
    BY TextTypes
  <2> QED
    BY <1>t, <1>f, <2>1, YieldsPlain, YieldsOwn
<1>3. Yields(level, foundLevel)
  <2>1. <<e.level>> \in Seq(Token \ Special)
    BY ConcatTypes, EmptySeq
  <2> QED
    BY <1>t, <1>f, <2>1, YieldsPlain, YieldsOwn
<1>4. Yields(message, foundMessage)
  BY <1>t, <1>f, YieldsEscaped, YieldsOwn
<1>5. /\ Yields(<<"{">>, <<Bare("{")>>) /\ Yields(<<"}">>, <<Bare("}")>>)
      /\ Yields(<<",">>, <<Bare(",")>>)
  BY LiteralTypes, YieldsToken
<1>6. PICK l1, f1 : l1 = <<"{">> \o time /\ f1 = <<Bare("{")>> \o foundTime
  OBVIOUS
<1>7. PICK l2, f2 : l2 = l1 \o <<",">> /\ f2 = f1 \o <<Bare(",")>>
  OBVIOUS
<1>8. PICK l3, f3 : l3 = l2 \o level /\ f3 = f2 \o foundLevel
  OBVIOUS
<1>9. PICK l4, f4 : l4 = l3 \o <<",">> /\ f4 = f3 \o <<Bare(",")>>
  OBVIOUS
<1>10. PICK l5, f5 : l5 = l4 \o message /\ f5 = f4 \o foundMessage
  OBVIOUS
<1>11. PICK l6, f6 : l6 = l5 \o Joined(p) /\ f6 = f5 \o Joined(q)
  OBVIOUS
<1>12. Yields(l1, f1)
  BY <1>2, <1>5, <1>6, YieldsConcat
<1>13. Yields(l2, f2)
  BY <1>5, <1>7, <1>12, YieldsConcat
<1>14. Yields(l3, f3)
  BY <1>3, <1>8, <1>13, YieldsConcat
<1>15. Yields(l4, f4)
  BY <1>5, <1>9, <1>14, YieldsConcat
<1>16. Yields(l5, f5)
  BY <1>4, <1>10, <1>15, YieldsConcat
<1>17. Yields(l6, f6)
  BY <1>1, <1>11, <1>16, YieldsConcat
<1>18. Yields(l6 \o <<"}">>, f6 \o <<Bare("}")>>)
  BY <1>5, <1>17, YieldsConcat
<1>19. FormatEntry(e) = l6 \o <<"}">>
  BY <1>p, <1>t, <1>6, <1>7, <1>8, <1>9, <1>10, <1>11, Zenon DEF FormatEntry
<1>20. Expected(e) = f6 \o <<Bare("}")>>
  BY <1>p, <1>f, <1>6, <1>7, <1>8, <1>9, <1>10, <1>11, Zenon DEF Expected
<1> QED
  BY <1>18, <1>19, <1>20

(* After a step that logs a record, its line reads as that record.         *)
LEMMA LogDecodes ==
  ASSUME ImmutableInv, ClockTypeOK, NEW i \in DOMAIN objects,
         NEW text \in bound.messages, Log(objects[i], text)
  PROVE  LineDecodes'
<1> SUFFICES ASSUME Readable(last'.record) PROVE LineDecodes'
  BY DEF LineDecodes
<1>1. PICK own \in {<<>>, <<AttrToField(objects[i].group, Fields[1])>>} :
        last' = [object |-> objects[i], own |-> own,
                 record |-> Record(objects[i], text, own),
                 line |-> FormatEntry(Record(objects[i], text, own))]
  BY DEF Log
<1>o. PICK o, e, made : /\ o = objects[i] /\ e = Record(o, text, own)
                        /\ made = o.made
  OBVIOUS
<1>2. /\ i \in 1 .. Len(objects) /\ objects \in Seq(Object) /\ o \in Object
  <2>1. i \in 1 .. Len(objects) /\ objects \in Seq(Object)
    BY LenProperties DEF ImmutableInv, StateOK
  <2> QED
    BY <1>o, <2>1, ElementOfSeq
<1>3. Contents(heap, o.fields) = made /\ made \in Seq(Field)
  BY <1>o, <1>2 DEF ImmutableInv, SlicesOK, Object
<1>4. own \in Seq(Field)
  <2>1. Fields[1] \in Field
    <3>1. Fields \in Seq(Field) /\ Fields # <<>>
      BY FieldAssumption
    <3>2. 1 \in 1 .. Len(Fields)
      BY <3>1, EmptySeq
    <3> QED
      BY <3>1, <3>2, ElementOfSeq
  <2>2. AttrToField(o.group, Fields[1]) \in Field
    BY <1>2, <2>1, AttrType DEF Object
  <2> QED
    BY <1>1, <1>o, <2>2, ConcatTypes, EmptySeq
<1>5. made \o own \in Seq(Field)
  BY <1>3, <1>4, ConcatProperties
<1>6. e = [time |-> IF o.coarse THEN coarseNow ELSE now, level |-> "INFO",
           message |-> text, fields |-> made \o own]
  BY <1>o, <1>3 DEF Record
<1>r. e = last'.record
  BY <1>1, <1>o
<1>7. TimeText[e.time] \in Seq(Plain)
  BY <1>r DEF Readable
<1>8. e.message \in Seq(Token)
  <2>1. text \in Seq(STRING)
    BY BoundAssumption DEF ImmutableInv, StateOK
  <2> QED
    BY <1>6, <2>1, TextTypes
<1>9. e.level \in Token \ Special /\ e.fields = made \o own
  BY <1>6, LiteralTypes
<1>f. e.fields \in Seq(AnyField)
  <2>p. PICK w, n : w = e.fields /\ n = Len(w)
    OBVIOUS
  <2>1. w \in Seq(Field) /\ n \in Nat /\ DOMAIN w = 1 .. n
    BY <1>5, <1>9, <2>p, LenProperties
  <2>2. ASSUME NEW j \in 1 .. n PROVE w[j] \in AnyField
    <3>1. w[j] \in Field
      BY <2>p, <2>1, ElementOfSeq
    <3>2. w[j].type = "number" => w[j].value \in Literals
      BY <1>r, <2>p, <2>1 DEF Readable
    <3> QED
      BY <3>1, <3>2, FieldTypes
  <2>3. w = [j \in 1 .. n |-> w[j]]
    BY <2>1
  <2>4. w \in [1 .. n -> AnyField]
    BY <2>2, <2>3
  <2> QED
    BY <2>p, <2>1, <2>4
<1>10. Yields(FormatEntry(e), Expected(e))
  BY <1>7, <1>8, <1>9, <1>f, YieldsEntry
<1>11. Reader = InMode("outside", <<>>, <<>>)
  BY DEF Reader, InMode
<1>12. PICK line, found : line = FormatEntry(e) /\ found = Expected(e)
  OBVIOUS
<1>13. PICK y \in Seq(Token) : Decoded(line) = InMode("outside", y, found)
  <2>1. <<>> \in Seq(Token) /\ <<>> \in Seq(Item) /\ <<>> \o found = found
    BY <1>10, <1>12, EmptySeq, ConcatEmptySeq DEF Yields
  <2>2. PICK y \in Seq(Token) :
          ReadAll(InMode("outside", <<>>, <<>>), line)
            = InMode("outside", y, <<>> \o found)
    BY <1>10, <1>12, <2>1 DEF Yields
  <2> QED
    BY <1>11, <2>1, <2>2 DEF Decoded
<1>14. Decoded(line).mode = "outside" /\ Decoded(line).items = found
  BY <1>13 DEF InMode
<1>15. /\ last'.line = line /\ last'.record = e /\ last'.own = own
       /\ last'.object.made = made
  BY <1>1, <1>o, <1>12
<1>16. [last'.record EXCEPT !.fields = last'.object.made \o last'.own] = e
  BY <1>6, <1>9, <1>15
<1> QED
  BY <1>12, <1>14, <1>15, <1>16 DEF LineDecodes

(* A JSON reader takes the line of each readable record, one whose numbers *)
(* JSON can express and the text of whose time needs no escape, and finds  *)
(* in it the message, the keys and the values that were logged, whatever   *)
(* characters they have and however long they are, and the fields of the   *)
(* calls that made the logger in their order (formatJSONToBuffer,          *)
(* appendJSONString, log, SlogHandler.Handle).                             *)
THEOREM LinesDecode == Spec => []LineDecodes
<1>1. Init => LineDecodes
  BY DEF Init, LineDecodes
<1>2. ASSUME ImmutableInv, ClockInv, LineDecodes, [Next]_vars PROVE LineDecodes'
  <2>1. last' = last \/ last' = NoRecord => LineDecodes'
    BY <1>2 DEF LineDecodes
  <2>2. CASE UNCHANGED last
    BY <2>1, <2>2
  <2>3. ASSUME NEW i \in DOMAIN objects, NEW text \in bound.messages,
               Log(objects[i], text)
        PROVE  LineDecodes'
    BY <1>2, <2>3, LogDecodes DEF ClockInv
  <2> QED
    BY <1>2, <2>1, <2>2, <2>3 DEF Next, vars, loggerVars
<1>3. Spec => [](ImmutableInv /\ ClockInv)
  BY ClockSafety, PTL
<1> QED
  BY <1>1, <1>2, <1>3, PTL DEF Spec
==============================================================================
