----------------------------- MODULE TtlvProofs -----------------------------
(***************************************************************************)
(* For every table, every object a writer may hold, every version and      *)
(* every conversion of attributes: where the two methods agree, what is    *)
(* written is read back as the conversions leave it, and no reader refuses *)
(* it but for an attribute it has no class for.  And what a reader accepts *)
(* of another implementation is the encoding of what the reader then       *)
(* holds.  That the two methods agree need only be looked at in the        *)
(* versions in which they change.                                          *)
(*                                                                         *)
(* The argument is about values that do not change during an exchange: a   *)
(* structure t, a version v and the object h.  An item is known by its     *)
(* field i and its number n in that field.  While r and k are the writer's *)
(* field and number, the stream s holds exactly the items up to <<r, k>>,  *)
(* in ascending order; while they are the reader's, the items before its   *)
(* cursor x are the ones up to <<r, k>> and g holds what is to be left of  *)
(* their contents.  Of an encoding made elsewhere only this is known: g    *)
(* holds what read makes of the items before x, field by field in the      *)
(* order of the table.                                                     *)
(***************************************************************************)
EXTENDS TtlvStructure, SequenceTheorems, FiniteSetTheorems,
        WellFoundedInduction, TLAPS

Written(t, v, i) == In(v, t.fields[i].write)
Taken(t, v, i) == In(v, t.fields[i].read)
Of(t, h, i) == h[t.fields[i].write.slot]

ItemOf(t, h, i, n) == [tag |-> t.fields[i].write.tag, type |-> t.fields[i].write.type,
                       content |-> ToWire(t.fields[i].write.form, Of(t, h, i)[n]),
                       field |-> i, nth |-> n]

Encodings == {ToWire(f, c) : f \in STRING, c \in Contents}

Items == [tag : STRING, type : STRING, content : Encodings, field : Nat, nth : Nat]

\* What should be left of a field at the other end.
Left(t, h, i) == [n \in 1..Len(Of(t, h, i)) |-> Kept(t.fields[i].write.form, Of(t, h, i)[n])]

LeftContents == {Kept(f, c) : f \in STRING, c \in Contents}

Later(i, n, j, m) == i < j \/ (i = j /\ n < m)

\* Write has what it asks for in the field i, and its items are of its version and have
\* what they are converted to.
FieldWritable(t, v, h, i) ==
    Written(t, v, i) =>
        /\ Len(Of(t, h, i)) >= t.fields[i].write.min
        /\ Len(Of(t, h, i)) > 0 => Supports(v, t.fields[i].write.type)
        /\ \A n \in 1..Len(Of(t, h, i)) : Convertible(t.fields[i].write.form, Of(t, h, i)[n])

\* Write does not raise on the object.
Writable(t, v, h) ==
    /\ t.since <= v
    /\ \A i \in DOMAIN t.fields : FieldWritable(t, v, h, i)
    /\ ~EitherMissing(t, v, h)

AgreeOn(t, v, h) ==
    /\ \A i \in DOMAIN t.fields : Written(t, v, i) =>
           /\ Taken(t, v, i) /\ t.fields[i].read.slot = t.fields[i].write.slot
           /\ t.fields[i].read.tag = t.fields[i].write.tag
           /\ t.fields[i].write.type \in t.fields[i].read.types
           /\ Len(Of(t, h, i)) >= t.fields[i].write.min
                => Len(Of(t, h, i)) \in t.fields[i].read.min..t.fields[i].read.max
           /\ \A n \in 1..Len(Of(t, h, i)) : ConvertsBack(t.fields[i], Of(t, h, i)[n])
    /\ \A i \in DOMAIN t.fields : Taken(t, v, i) /\ ~Written(t, v, i) => t.fields[i].read.min = 0
    /\ \A i, j \in DOMAIN t.fields : i # j /\ Written(t, v, j) =>
           /\ Taken(t, v, i) => t.fields[i].read.tag # t.fields[j].write.tag
           /\ Written(t, v, i) => t.fields[i].write.slot # t.fields[j].write.slot
    /\ (\E i \in DOMAIN t.fields : Written(t, v, i) /\ t.fields[i].write.slot \in t.either) =>
           \A slot \in t.either :
               \E i \in DOMAIN t.fields : Written(t, v, i) /\ t.fields[i].write.slot = slot

\* The reader has no class for something in the object.
NoClass(t, v, h) ==
    \E i \in DOMAIN t.fields :
        /\ Written(t, v, i)
        /\ \E n \in 1..Len(Of(t, h, i)) :
              ~Creatable(t.fields[i].read.form, ToWire(t.fields[i].write.form, Of(t, h, i)[n]))

\* A structure, a version and an object as the assumptions of TtlvStructure have them.
Exchanged(t, v, h) ==
    /\ t.fields \in Seq(Field)
    /\ h \in [Slots(t) -> Seq(Contents)]
    /\ AgreeOn(t, v, h)

-----------------------------------------------------------------------------
(* What the stream holds. *)

Ascending(s) ==
    \A p, q \in 1..Len(s) : p < q => Later(s[p].field, s[p].nth, s[q].field, s[q].nth)

Genuine(t, v, h, s) ==
    \A p \in 1..Len(s) :
        /\ s[p].field \in DOMAIN t.fields /\ Written(t, v, s[p].field)
        /\ s[p].nth \in 1..Len(Of(t, h, s[p].field))
        /\ s[p] = ItemOf(t, h, s[p].field, s[p].nth)
        /\ Supports(v, s[p].type)
        /\ Convertible(t.fields[s[p].field].write.form, Of(t, h, s[p].field)[s[p].nth])

UpTo(t, v, h, s, r, k) ==
    \A i \in DOMAIN t.fields : \A n \in 1..Len(Of(t, h, i)) :
        Written(t, v, i) /\ ~Later(r, k, i, n) =>
            \E p \in 1..Len(s) : s[p].field = i /\ s[p].nth = n

Enough(t, v, h, r) ==
    \A i \in DOMAIN t.fields :
        i < r /\ Written(t, v, i) => Len(Of(t, h, i)) >= t.fields[i].write.min

AtField(t, v, h, r, k) ==
    /\ r \in 1..(Len(t.fields) + 1) /\ k \in Nat
    /\ k > 0 => r \in DOMAIN t.fields /\ Written(t, v, r) /\ k <= Len(Of(t, h, r))

Writing(t, v, h, r, k, s) ==
    /\ AtField(t, v, h, r, k)
    /\ s \in Seq(Items)
    /\ Ascending(s) /\ Genuine(t, v, h, s)
    /\ \A p \in 1..Len(s) : ~Later(r, k, s[p].field, s[p].nth)
    /\ UpTo(t, v, h, s, r, k)
    /\ Enough(t, v, h, r)

Sent(t, v, h, s) ==
    /\ s \in Seq(Items)
    /\ Ascending(s) /\ Genuine(t, v, h, s)
    /\ UpTo(t, v, h, s, Len(t.fields) + 1, 0)
    /\ Enough(t, v, h, Len(t.fields) + 1)
    /\ ~EitherMissing(t, v, h)

(* What the reader holds. *)

Known(t, v, h, g, r, k) ==
    /\ g \in [Slots(t) -> Seq(LeftContents)]
    /\ \A i \in DOMAIN t.fields : Written(t, v, i) =>
           /\ i < r => Of(t, g, i) = Left(t, h, i)
           /\ i = r => Of(t, g, i) = SubSeq(Left(t, h, i), 1, k)
           /\ i > r => Of(t, g, i) = << >>
    /\ \A slot \in Slots(t) :
           (\A i \in DOMAIN t.fields : Written(t, v, i) => t.fields[i].write.slot # slot)
               => g[slot] = << >>

Reading(t, v, h, r, k, s, x, g) ==
    /\ AtField(t, v, h, r, k)
    /\ x \in 1..(Len(s) + 1)
    /\ \A p \in 1..Len(s) : p < x <=> ~Later(r, k, s[p].field, s[p].nth)
    /\ Known(t, v, h, g, r, k)

-----------------------------------------------------------------------------
(* The fields of a structure. *)

\* The fields have two ends each, and what is made of them are items.
LEMMA FieldShapes ==
    ASSUME NEW t, t.fields \in Seq(Field), NEW h \in [Slots(t) -> Seq(Contents)]
    PROVE  /\ Len(t.fields) \in Nat /\ DOMAIN t.fields = 1..Len(t.fields)
           /\ \A i \in DOMAIN t.fields :
                  /\ t.fields[i].write \in FieldEnd /\ t.fields[i].read \in FieldEnd
                  /\ t.fields[i].write.slot \in Slots(t) /\ t.fields[i].read.slot \in Slots(t)
                  /\ Of(t, h, i) \in Seq(Contents) /\ Len(Of(t, h, i)) \in Nat
                  /\ Left(t, h, i) \in Seq(LeftContents) /\ Len(Left(t, h, i)) = Len(Of(t, h, i))
                  /\ \A n \in 1..Len(Of(t, h, i)) : ItemOf(t, h, i, n) \in Items
<1>1. Len(t.fields) \in Nat /\ DOMAIN t.fields = 1..Len(t.fields)
    OBVIOUS
<1>2. ASSUME NEW i \in DOMAIN t.fields
      PROVE  /\ t.fields[i].write \in FieldEnd /\ t.fields[i].read \in FieldEnd
             /\ t.fields[i].write.slot \in Slots(t) /\ t.fields[i].read.slot \in Slots(t)
    <2>1. t.fields[i] \in Field
        BY <1>1, <1>2
    <2>2. t.fields[i].write \in FieldEnd /\ t.fields[i].read \in FieldEnd
        BY <2>1 DEF Field
    <2> QED BY <1>2, <2>2 DEF Slots
<1>3. ASSUME NEW i \in DOMAIN t.fields
      PROVE  Of(t, h, i) \in Seq(Contents) /\ Len(Of(t, h, i)) \in Nat
    BY <1>2 DEF Of
<1>4. ASSUME NEW i \in DOMAIN t.fields, NEW n \in 1..Len(Of(t, h, i))
      PROVE  ItemOf(t, h, i, n) \in Items
    <2>1. Of(t, h, i)[n] \in Contents
        BY <1>3
    <2>2. i \in Nat /\ n \in Nat
        BY <1>1
    <2>3. /\ t.fields[i].write.tag \in STRING /\ t.fields[i].write.type \in STRING
          /\ t.fields[i].write.form \in STRING
        BY <1>2 DEF FieldEnd
    <2>4. ToWire(t.fields[i].write.form, Of(t, h, i)[n]) \in Encodings
        BY <2>1, <2>3 DEF Encodings
    <2> QED BY <2>2, <2>3, <2>4 DEF ItemOf, Items
<1>5. ASSUME NEW i \in DOMAIN t.fields
      PROVE  Left(t, h, i) \in Seq(LeftContents) /\ Len(Left(t, h, i)) = Len(Of(t, h, i))
    <2>1. t.fields[i].write.form \in STRING
        BY <1>2 DEF FieldEnd
    <2>2. \A n \in 1..Len(Of(t, h, i)) : Of(t, h, i)[n] \in Contents
        BY <1>3
    <2>3. \A n \in 1..Len(Of(t, h, i)) : Kept(t.fields[i].write.form, Of(t, h, i)[n]) \in LeftContents
        BY <2>1, <2>2 DEF LeftContents
    <2>4. Left(t, h, i) \in [1..Len(Of(t, h, i)) -> LeftContents]
        BY <2>3 DEF Left
    <2> QED BY <1>3, <2>4
<1> QED BY <1>1, <1>2, <1>3, <1>4, <1>5

\* The same of a structure, a version and an object that are exchanged.
LEMMA FieldTypes ==
    ASSUME NEW t, NEW v, NEW h, Exchanged(t, v, h)
    PROVE  /\ Len(t.fields) \in Nat /\ DOMAIN t.fields = 1..Len(t.fields)
           /\ \A i \in DOMAIN t.fields :
                  /\ t.fields[i].write \in FieldEnd /\ t.fields[i].read \in FieldEnd
                  /\ t.fields[i].write.slot \in Slots(t) /\ t.fields[i].read.slot \in Slots(t)
                  /\ Of(t, h, i) \in Seq(Contents) /\ Len(Of(t, h, i)) \in Nat
                  /\ Left(t, h, i) \in Seq(LeftContents) /\ Len(Left(t, h, i)) = Len(Of(t, h, i))
                  /\ \A n \in 1..Len(Of(t, h, i)) : ItemOf(t, h, i, n) \in Items
BY FieldShapes DEF Exchanged

\* The items of an encoding are typed.
LEMMA ItemTypes ==
    ASSUME NEW s, s \in Seq(Items)
    PROVE  /\ Len(s) \in Nat
           /\ \A p \in 1..Len(s) : s[p] \in Items /\ s[p].field \in Nat /\ s[p].nth \in Nat
<1>1. Len(s) \in Nat /\ \A p \in 1..Len(s) : s[p] \in Items
    OBVIOUS
<1>2. \A p \in 1..Len(s) : s[p].field \in Nat /\ s[p].nth \in Nat
    BY <1>1 DEF Items
<1> QED BY <1>1, <1>2

-----------------------------------------------------------------------------
(* Writing. *)

\* A writer that has made nothing is at its first field.
LEMMA WritingBegins ==
    ASSUME NEW t, NEW v, NEW h, Exchanged(t, v, h)
    PROVE  Writing(t, v, h, 1, 0, << >>)
<1>1. Len(t.fields) \in Nat /\ DOMAIN t.fields = 1..Len(t.fields)
    BY FieldTypes
<1>2. UpTo(t, v, h, << >>, 1, 0)
    BY <1>1, FieldTypes DEF UpTo, Later
<1>3. AtField(t, v, h, 1, 0) /\ Enough(t, v, h, 1)
    BY <1>1 DEF AtField, Enough
<1>4. << >> \in Seq(Items)
    OBVIOUS
<1>5. Ascending(<< >>) /\ Genuine(t, v, h, << >>)
    BY DEF Ascending, Genuine
<1>6. \A p \in 1..Len(<< >>) : ~Later(1, 0, << >>[p].field, << >>[p].nth)
    OBVIOUS
<1> HIDE DEF AtField, Ascending, Genuine, UpTo, Enough
<1> QED BY ONLY <1>2, <1>3, <1>4, <1>5, <1>6 DEF Writing

\* An item that the writer appends comes after all that are there.
LEMMA ItemWritten ==
    ASSUME NEW t, NEW v, NEW h, Exchanged(t, v, h), NEW r, NEW k, NEW s,
           Writing(t, v, h, r, k, s), r \in DOMAIN t.fields, Written(t, v, r),
           k < Len(Of(t, h, r)), Supports(v, t.fields[r].write.type),
           Convertible(t.fields[r].write.form, Of(t, h, r)[k + 1])
    PROVE  Writing(t, v, h, r, k + 1, Append(s, ItemOf(t, h, r, k + 1)))
<1> DEFINE item == ItemOf(t, h, r, k + 1)
           u == Append(s, item)
<1>1. Len(t.fields) \in Nat /\ DOMAIN t.fields = 1..Len(t.fields) /\ k \in Nat
    BY FieldTypes DEF Writing, AtField
<1>2. item \in Items /\ k + 1 \in 1..Len(Of(t, h, r)) /\ Len(Of(t, h, r)) \in Nat
    BY <1>1, FieldTypes
<1>3. s \in Seq(Items) /\ u \in Seq(Items) /\ Len(s) \in Nat /\ Len(u) = Len(s) + 1
      /\ u[Len(s) + 1] = item /\ \A p \in 1..Len(s) : u[p] = s[p]
    BY <1>2 DEF Writing
<1>4. \A p \in 1..Len(s) : s[p].field \in Nat /\ s[p].nth \in Nat
    BY <1>3, ItemTypes
<1>5. item.field = r /\ item.nth = k + 1 /\ item.type = t.fields[r].write.type
    BY DEF ItemOf
<1> HIDE DEF u, item
<1>6. AtField(t, v, h, r, k + 1)
    BY <1>1, <1>2 DEF AtField, Writing
<1>7. \A p \in 1..Len(u) : ~Later(r, k + 1, u[p].field, u[p].nth)
    <2> SUFFICES ASSUME NEW p \in 1..Len(u) PROVE ~Later(r, k + 1, u[p].field, u[p].nth)
        OBVIOUS
    <2>1. CASE p = Len(s) + 1
        BY <2>1, <1>1, <1>3, <1>5 DEF Later
    <2>2. CASE p \in 1..Len(s)
        <3>1. ~Later(r, k, s[p].field, s[p].nth)
            BY <2>2 DEF Writing
        <3> QED BY <3>1, <2>2, <1>1, <1>3, <1>4 DEF Later
    <2> QED BY <2>1, <2>2, <1>3
<1>8. Ascending(u)
    <2> SUFFICES ASSUME NEW p \in 1..Len(u), NEW q \in 1..Len(u), p < q
                 PROVE  Later(u[p].field, u[p].nth, u[q].field, u[q].nth)
        BY DEF Ascending
    <2>1. CASE q \in 1..Len(s)
        BY <2>1, <1>3 DEF Writing, Ascending
    <2>2. CASE q = Len(s) + 1
        <3>1. p \in 1..Len(s) /\ ~Later(r, k, s[p].field, s[p].nth)
            BY <2>2, <1>3 DEF Writing
        <3> QED BY <3>1, <2>2, <1>1, <1>3, <1>4, <1>5 DEF Later
    <2> QED BY <2>1, <2>2, <1>3
<1>9. Genuine(t, v, h, u)
    <2> DEFINE Right(x) ==
                   /\ x.field \in DOMAIN t.fields /\ Written(t, v, x.field)
                   /\ x.nth \in 1..Len(Of(t, h, x.field))
                   /\ x = ItemOf(t, h, x.field, x.nth)
                   /\ Supports(v, x.type)
                   /\ Convertible(t.fields[x.field].write.form, Of(t, h, x.field)[x.nth])
    <2>1. item = ItemOf(t, h, item.field, item.nth)
        BY <1>5 DEF item
    <2>2. Right(item)
        BY <2>1, <1>2, <1>5
    <2>3. \A p \in 1..Len(s) : Right(s[p])
        BY DEF Writing, Genuine
    <2> HIDE DEF Right
    <2>4. \A p \in 1..Len(u) : Right(u[p])
        BY <2>2, <2>3, <1>3
    <2> QED BY <2>4 DEF Right, Genuine
<1>10. UpTo(t, v, h, u, r, k + 1)
    <2> SUFFICES ASSUME NEW i \in DOMAIN t.fields, NEW n \in 1..Len(Of(t, h, i)),
                        Written(t, v, i), ~Later(r, k + 1, i, n)
                 PROVE  \E p \in 1..Len(u) : u[p].field = i /\ u[p].nth = n
        BY DEF UpTo
    <2>1. CASE i = r /\ n = k + 1
        BY <2>1, <1>3, <1>5
    <2>2. CASE ~(i = r /\ n = k + 1)
        <3>1. ~Later(r, k, i, n)
            BY <2>2, <1>1, FieldTypes DEF Later
        <3>2. PICK p \in 1..Len(s) : s[p].field = i /\ s[p].nth = n
            BY <3>1 DEF Writing, UpTo
        <3> QED BY <3>2, <1>3
    <2> QED BY <2>1, <2>2
<1>11. Enough(t, v, h, r)
    BY DEF Writing
<1>12. Writing(t, v, h, r, k + 1, u)
    BY <1>3, <1>6, <1>7, <1>8, <1>9, <1>10, <1>11 DEF Writing
<1> QED BY <1>12 DEF u, item

\* Where write goes on to its next field, all items of the field are there.
LEMMA FieldWritten ==
    ASSUME NEW t, NEW v, NEW h, Exchanged(t, v, h), NEW r, NEW k, NEW s,
           Writing(t, v, h, r, k, s), r \in DOMAIN t.fields,
           ~(Written(t, v, r) /\ k < Len(Of(t, h, r))),
           Written(t, v, r) => k >= t.fields[r].write.min
    PROVE  Writing(t, v, h, r + 1, 0, s)
<1>1. Len(t.fields) \in Nat /\ DOMAIN t.fields = 1..Len(t.fields) /\ k \in Nat
      /\ Len(Of(t, h, r)) \in Nat /\ t.fields[r].write.min \in Nat
    <2>1. t.fields[r].write \in FieldEnd
        BY FieldTypes
    <2>2. t.fields[r].write.min \in Nat
        BY <2>1 DEF FieldEnd
    <2>3. k \in Nat
        BY DEF Writing, AtField
    <2> QED BY <2>2, <2>3, FieldTypes
<1>2. \A p \in 1..Len(s) : s[p].field \in Nat /\ s[p].nth \in Nat
    <2>1. s \in Seq(Items)
        BY DEF Writing
    <2> QED BY <2>1, ItemTypes
<1>3. Written(t, v, r) => k = Len(Of(t, h, r))
    <2>1. Written(t, v, r) => k >= Len(Of(t, h, r))
        BY <1>1
    <2>2. Written(t, v, r) /\ k > 0 => k <= Len(Of(t, h, r))
        BY DEF Writing, AtField
    <2> QED BY <2>1, <2>2, <1>1
<1>4. AtField(t, v, h, r + 1, 0)
    BY <1>1 DEF AtField
<1>5. \A p \in 1..Len(s) : ~Later(r + 1, 0, s[p].field, s[p].nth)
    <2> SUFFICES ASSUME NEW p \in 1..Len(s) PROVE ~Later(r + 1, 0, s[p].field, s[p].nth)
        OBVIOUS
    <2>1. ~Later(r, k, s[p].field, s[p].nth)
        BY DEF Writing
    <2> QED BY <2>1, <1>1, <1>2 DEF Later
<1>6. UpTo(t, v, h, s, r + 1, 0)
    <2> SUFFICES ASSUME NEW i \in DOMAIN t.fields, NEW n \in 1..Len(Of(t, h, i)),
                        Written(t, v, i), ~Later(r + 1, 0, i, n)
                 PROVE  \E p \in 1..Len(s) : s[p].field = i /\ s[p].nth = n
        BY DEF UpTo
    <2>1. Len(Of(t, h, i)) \in Nat
        BY FieldTypes
    <2>2. i <= r
        BY <1>1, <2>1 DEF Later
    <2>3. ~Later(r, k, i, n)
        BY <2>1, <2>2, <1>1, <1>3 DEF Later
    <2> QED BY <2>3 DEF Writing, UpTo
<1>7. Enough(t, v, h, r + 1)
    <2> SUFFICES ASSUME NEW i \in DOMAIN t.fields, i < r + 1, Written(t, v, i)
                 PROVE  Len(Of(t, h, i)) >= t.fields[i].write.min
        BY DEF Enough
    <2>1. CASE i = r
        BY <2>1, <1>1, <1>3
    <2>2. CASE i < r
        BY <2>2 DEF Writing, Enough
    <2> QED BY <2>1, <2>2, <1>1
<1> QED BY <1>4, <1>5, <1>6, <1>7 DEF Writing

\* After the last field the encoding has every item of the object, in order.
LEMMA WritingEnds ==
    ASSUME NEW t, NEW v, NEW h, Exchanged(t, v, h), NEW r, NEW k, NEW s,
           Writing(t, v, h, r, k, s), r > Len(t.fields), ~EitherMissing(t, v, h)
    PROVE  Sent(t, v, h, s)
<1>1. Len(t.fields) \in Nat /\ DOMAIN t.fields = 1..Len(t.fields)
    BY FieldTypes
<1>2. r = Len(t.fields) + 1 /\ k = 0
    BY <1>1 DEF Writing, AtField
<1> QED BY <1>2 DEF Writing, Sent

-----------------------------------------------------------------------------
(* Reading. *)

\* A reader that has taken nothing holds nothing, and all items are before it.
LEMMA ReadingBegins ==
    ASSUME NEW t, NEW v, NEW h, Exchanged(t, v, h), NEW s, Sent(t, v, h, s)
    PROVE  Reading(t, v, h, 1, 0, s, 1, [slot \in Slots(t) |-> << >>])
<1> DEFINE g == [slot \in Slots(t) |-> << >>]
<1>1. Len(t.fields) \in Nat /\ DOMAIN t.fields = 1..Len(t.fields)
    BY FieldTypes
<1>2. Len(s) \in Nat /\ \A p \in 1..Len(s) : s[p].field \in Nat /\ s[p].nth \in Nat
    <2>1. s \in Seq(Items)
        BY DEF Sent
    <2> QED BY <2>1, ItemTypes
<1>3. AtField(t, v, h, 1, 0)
    BY <1>1 DEF AtField
<1>4. ASSUME NEW p \in 1..Len(s)
      PROVE  p < 1 <=> ~Later(1, 0, s[p].field, s[p].nth)
    <2>1. s[p].field >= 1 /\ s[p].nth >= 1
        <3>1. s[p].field \in DOMAIN t.fields /\ s[p].nth \in 1..Len(Of(t, h, s[p].field))
            BY DEF Sent, Genuine
        <3> QED BY <3>1, <1>1, <1>2, FieldTypes
    <2> QED BY <2>1, <1>2 DEF Later
<1>5. Known(t, v, h, g, 1, 0)
    <2>1. g \in [Slots(t) -> Seq(LeftContents)]
        OBVIOUS
    <2>2. \A i \in DOMAIN t.fields : Of(t, g, i) = << >>
        BY FieldTypes DEF Of
    <2>3. \A i \in DOMAIN t.fields : SubSeq(Left(t, h, i), 1, 0) = << >>
        BY FieldTypes
    <2> HIDE DEF g
    <2>4. \A slot \in Slots(t) : g[slot] = << >>
        BY DEF g
    <2>5. \A i \in DOMAIN t.fields : Written(t, v, i) =>
               /\ i < 1 => Of(t, g, i) = Left(t, h, i)
               /\ i = 1 => Of(t, g, i) = SubSeq(Left(t, h, i), 1, 0)
               /\ i > 1 => Of(t, g, i) = << >>
        <3> SUFFICES ASSUME NEW i \in DOMAIN t.fields
                     PROVE  ~(i < 1) /\ Of(t, g, i) = SubSeq(Left(t, h, i), 1, 0) /\ Of(t, g, i) = << >>
            OBVIOUS
        <3>1. ~(i < 1)
            BY <1>1
        <3> QED BY <3>1, <2>2, <2>3
    <2> QED BY ONLY <2>1, <2>4, <2>5 DEF Known
<1> QED BY <1>2, <1>3, <1>4, <1>5 DEF Reading

\* The next item carries the tag a field reads only if it is the next one of that field.
LEMMA TagIdentifies ==
    ASSUME NEW t, NEW v, NEW h, Exchanged(t, v, h), NEW r, NEW k, NEW s, NEW x, NEW g,
           Sent(t, v, h, s), Reading(t, v, h, r, k, s, x, g),
           r \in DOMAIN t.fields, Taken(t, v, r),
           x <= Len(s), s[x].tag = t.fields[r].read.tag
    PROVE  Written(t, v, r) /\ k + 1 \in 1..Len(Of(t, h, r)) /\ s[x] = ItemOf(t, h, r, k + 1)
<1>1. Len(t.fields) \in Nat /\ DOMAIN t.fields = 1..Len(t.fields) /\ Len(Of(t, h, r)) \in Nat
    BY FieldTypes
<1>2. Len(s) \in Nat /\ \A p \in 1..Len(s) : s[p].field \in Nat /\ s[p].nth \in Nat
    <2>1. s \in Seq(Items)
        BY DEF Sent
    <2> QED BY <2>1, ItemTypes
<1>3. k \in Nat /\ x \in 1..Len(s)
    BY <1>2 DEF Reading, AtField
<1>4. /\ s[x].field \in DOMAIN t.fields /\ Written(t, v, s[x].field)
      /\ s[x].nth \in 1..Len(Of(t, h, s[x].field))
      /\ s[x] = ItemOf(t, h, s[x].field, s[x].nth)
    BY <1>3 DEF Sent, Genuine
<1>5. s[x].field = r
    <2>1. s[x].tag = t.fields[s[x].field].write.tag
        BY <1>4 DEF ItemOf
    <2>2. AgreeOn(t, v, h)
        BY DEF Exchanged
    <2>3. \A i, j \in DOMAIN t.fields :
              Written(t, v, j) /\ i # j /\ Taken(t, v, i) => t.fields[i].read.tag # t.fields[j].write.tag
        BY ONLY <2>2 DEF AgreeOn
    <2> QED BY ONLY <2>1, <2>3, <1>4, s[x].tag = t.fields[r].read.tag, r \in DOMAIN t.fields, Taken(t, v, r)
<1>6. s[x].nth > k
    <2>1. Later(r, k, s[x].field, s[x].nth)
        BY <1>3, <1>2 DEF Reading
    <2> QED BY <2>1, <1>1, <1>2, <1>3, <1>5 DEF Later
<1>7. k + 1 \in 1..Len(Of(t, h, r))
    BY <1>1, <1>3, <1>4, <1>5, <1>6
<1>8. s[x].nth = k + 1
    <2>1. Later(r, k, r, k + 1) /\ ~Later(Len(t.fields) + 1, 0, r, k + 1)
        BY <1>1, <1>3 DEF Later
    <2>2. PICK p \in 1..Len(s) : s[p].field = r /\ s[p].nth = k + 1
        BY <2>1, <1>4, <1>5, <1>7 DEF Sent, UpTo
    <2>3. ~(p < x)
        BY <2>1, <2>2 DEF Reading
    <2>4. ~(x < p)
        <3>1. ASSUME x < p PROVE FALSE
            <4>1. Later(s[x].field, s[x].nth, s[p].field, s[p].nth)
                BY <3>1, <1>3 DEF Sent, Ascending
            <4> QED BY <4>1, <2>2, <1>1, <1>2, <1>3, <1>5, <1>6 DEF Later
        <3> QED BY <3>1
    <2>5. p = x
        BY <2>3, <2>4, <1>2, <1>3
    <2> QED BY <2>2, <2>5
<1> QED BY <1>4, <1>5, <1>7, <1>8

\* What read stores: a single field is assigned, a repeated one appended to.
Stored(t, g, r, content) ==
    [g EXCEPT ![t.fields[r].read.slot] =
        IF t.fields[r].read.max = 1 THEN <<content>> ELSE Append(g[t.fields[r].read.slot], content)]

\* The first k + 1 elements of a sequence are the first k and one more.
LEMMA Extends ==
    ASSUME NEW S, NEW c \in Seq(S), NEW k \in Nat, k < Len(c)
    PROVE  /\ SubSeq(c, 1, k + 1) \in Seq(S)
           /\ SubSeq(c, 1, k + 1) = Append(SubSeq(c, 1, k), c[k + 1])
           /\ Len(c) = 1 => SubSeq(c, 1, k + 1) = <<c[k + 1]>>
<1>1. SubSeq(c, 1, k + 1) \in Seq(S) /\ Len(SubSeq(c, 1, k + 1)) = k + 1
    OBVIOUS
<1>2. SubSeq(c, 1, k) \in Seq(S) /\ Len(SubSeq(c, 1, k)) = k
    OBVIOUS
<1>3. SubSeq(c, 1, k + 1) = Append(SubSeq(c, 1, k), c[k + 1])
    <2> DEFINE a == SubSeq(c, 1, k + 1)
               b == Append(SubSeq(c, 1, k), c[k + 1])
    <2>1. b \in Seq(S) /\ Len(b) = k + 1
        BY <1>2
    <2>2. ASSUME NEW p \in 1..(k + 1) PROVE a[p] = b[p]
        <3>1. CASE p = k + 1
            BY <3>1, <1>2
        <3>2. CASE p \in 1..k
            BY <3>2, <1>2
        <3> QED BY <3>1, <3>2
    <2> QED BY <1>1, <2>1, <2>2
<1>4. ASSUME Len(c) = 1 PROVE SubSeq(c, 1, k + 1) = <<c[k + 1]>>
    <2>1. k = 0
        BY <1>4
    <2>2. SubSeq(c, 1, k) = << >>
        BY <2>1
    <2>3. Append(<< >>, c[k + 1]) = <<c[k + 1]>>
        OBVIOUS
    <2> QED BY <2>2, <2>3, <1>3
<1> QED BY <1>1, <1>3, <1>4

\* The item whose tag a reader finds next is the next one of its own field.
LEMMA ItemRead ==
    ASSUME NEW t, NEW v, NEW h, Exchanged(t, v, h), NEW r, NEW k, NEW s, NEW x, NEW g,
           Sent(t, v, h, s), Reading(t, v, h, r, k, s, x, g),
           r \in DOMAIN t.fields, Taken(t, v, r),
           x <= Len(s), s[x].tag = t.fields[r].read.tag,
           Creatable(t.fields[r].read.form, s[x].content)
    PROVE  Reading(t, v, h, r, k + 1, s, x + 1,
                   Stored(t, g, r, FromWire(t.fields[r].read.form, s[x].content)))
<1> DEFINE c == Left(t, h, r)
           made == FromWire(t.fields[r].read.form, s[x].content)
           u == Stored(t, g, r, made)
           slot == t.fields[r].write.slot
<1>1. Len(t.fields) \in Nat /\ DOMAIN t.fields = 1..Len(t.fields)
    BY FieldTypes
<1>2. Len(s) \in Nat /\ \A p \in 1..Len(s) : s[p].field \in Nat /\ s[p].nth \in Nat
    <2>1. s \in Seq(Items)
        BY DEF Sent
    <2> QED BY <2>1, ItemTypes
<1>3. k \in Nat /\ x \in 1..Len(s) /\ r \in Nat
    BY <1>1, <1>2 DEF Reading, AtField
<1>0. Len(c) = Len(Of(t, h, r)) /\ Len(Of(t, h, r)) \in Nat
    BY FieldTypes
<1>4. Written(t, v, r) /\ k + 1 \in 1..Len(Of(t, h, r)) /\ s[x] = ItemOf(t, h, r, k + 1)
    BY TagIdentifies
<1>5. c \in Seq(LeftContents) /\ Len(c) \in Nat /\ k < Len(c) /\ slot \in Slots(t)
    BY <1>0, <1>3, <1>4, FieldTypes
<1>6. made = c[k + 1] /\ s[x].field = r /\ s[x].nth = k + 1
    <2>1. s[x].content = ToWire(t.fields[r].write.form, Of(t, h, r)[k + 1])
          /\ s[x].field = r /\ s[x].nth = k + 1
        BY <1>4 DEF ItemOf
    <2>2. Convertible(t.fields[r].write.form, Of(t, h, r)[k + 1])
        BY <1>3, <2>1 DEF Sent, Genuine
    <2>3. ConvertsBack(t.fields[r], Of(t, h, r)[k + 1])
        BY <1>4 DEF Exchanged, AgreeOn
    <2>4. made = Kept(t.fields[r].write.form, Of(t, h, r)[k + 1])
        BY ONLY <2>1, <2>2, <2>3, Creatable(t.fields[r].read.form, s[x].content) DEF ConvertsBack
    <2> QED BY ONLY <1>4, <2>1, <2>4 DEF Left
<1> HIDE DEF made
<1>7. AtField(t, v, h, r, k + 1)
    BY <1>1, <1>3, <1>4, <1>5 DEF AtField
<1>8. ASSUME NEW p \in 1..Len(s)
      PROVE  p < x + 1 <=> ~Later(r, k + 1, s[p].field, s[p].nth)
    <2>1. CASE p < x
        <3>1. ~Later(r, k, s[p].field, s[p].nth)
            BY <2>1 DEF Reading
        <3> QED BY <2>1, <3>1, <1>2, <1>3 DEF Later
    <2>2. CASE p = x
        BY <2>2, <1>2, <1>3, <1>6 DEF Later
    <2>3. CASE p > x
        <3>1. Later(r, k + 1, s[p].field, s[p].nth)
            BY <2>3, <1>3, <1>6 DEF Sent, Ascending
        <3> QED BY <2>3, <3>1, <1>2, <1>3
    <2> QED BY <2>1, <2>2, <2>3, <1>2, <1>3
<1>9. g \in [Slots(t) -> Seq(LeftContents)] /\ g[slot] = SubSeq(c, 1, k)
    BY <1>4 DEF Reading, Known, Of
<1>10. t.fields[r].read.max = 1 => Len(c) = 1
    <2>1. Len(Of(t, h, r)) >= t.fields[r].write.min
        BY <1>1, <1>4 DEF Sent, Enough
    <2>2. Len(c) \in t.fields[r].read.min..t.fields[r].read.max
        BY <2>1, <1>0, <1>4 DEF Exchanged, AgreeOn
    <2>3. t.fields[r].read.max \in Nat /\ t.fields[r].read.min \in Nat
        <3>1. t.fields[r].read \in FieldEnd
            BY FieldTypes
        <3> QED BY <3>1 DEF FieldEnd
    <2>4. Len(c) <= t.fields[r].read.max
        BY <2>2, <2>3, <1>5
    <2>5. Len(c) >= 1
        BY <1>0, <1>3, <1>4, <1>5
    <2>6. \A m, n \in Nat : m <= n /\ m >= 1 /\ n = 1 => m = 1
        OBVIOUS
    <2> QED BY <2>3, <2>4, <2>5, <2>6, <1>5
<1>11. t.fields[r].read.slot = slot
    BY <1>4 DEF Exchanged, AgreeOn
<1>12. u = [g EXCEPT ![slot] = SubSeq(c, 1, k + 1)] /\ SubSeq(c, 1, k + 1) \in Seq(LeftContents)
    <2>1. /\ SubSeq(c, 1, k + 1) \in Seq(LeftContents)
          /\ SubSeq(c, 1, k + 1) = Append(SubSeq(c, 1, k), c[k + 1])
          /\ Len(c) = 1 => SubSeq(c, 1, k + 1) = <<c[k + 1]>>
        BY <1>3, <1>5, Extends
    <2>2. u = [g EXCEPT ![slot] = IF t.fields[r].read.max = 1 THEN <<c[k + 1]>>
                                  ELSE Append(SubSeq(c, 1, k), c[k + 1])]
        BY <1>6, <1>9, <1>11 DEF Stored
    <2>3. (IF t.fields[r].read.max = 1 THEN <<c[k + 1]>> ELSE Append(SubSeq(c, 1, k), c[k + 1]))
            = SubSeq(c, 1, k + 1)
        BY <2>1, <1>10
    <2> QED BY <2>1, <2>2, <2>3
<1> HIDE DEF u
<1>13. u \in [Slots(t) -> Seq(LeftContents)] /\ u[slot] = SubSeq(c, 1, k + 1)
       /\ \A other \in Slots(t) \ {slot} : u[other] = g[other]
    BY <1>5, <1>9, <1>12
<1>14. Known(t, v, h, u, r, k + 1)
    <2>1. ASSUME NEW i \in DOMAIN t.fields, Written(t, v, i)
          PROVE  /\ i < r => Of(t, u, i) = Left(t, h, i)
                 /\ i = r => Of(t, u, i) = SubSeq(Left(t, h, i), 1, k + 1)
                 /\ i > r => Of(t, u, i) = << >>
        <3>1. CASE i = r
            <4>1. Of(t, u, i) = SubSeq(Left(t, h, i), 1, k + 1)
                BY ONLY <3>1, <1>13 DEF Of
            <4>2. ~(i < r) /\ ~(i > r)
                BY ONLY <3>1, <1>3
            <4> QED BY ONLY <4>1, <4>2
        <3>2. CASE i # r
            <4>1. t.fields[i].write.slot # slot
                BY <2>1, <3>2, <1>4 DEF Exchanged, AgreeOn
            <4>2. t.fields[i].write.slot \in Slots(t)
                BY FieldTypes
            <4>3. Of(t, u, i) = Of(t, g, i)
                BY <4>1, <4>2, <1>13 DEF Of
            <4> QED BY <4>3, <3>2, <2>1 DEF Reading, Known
        <3> QED BY <3>1, <3>2
    <2>2. ASSUME NEW other \in Slots(t),
                 \A i \in DOMAIN t.fields : Written(t, v, i) => t.fields[i].write.slot # other
          PROVE  u[other] = << >>
        <3>1. other # slot
            BY <2>2, <1>4
        <3> QED BY <3>1, <2>2, <1>13 DEF Reading, Known
    <2> QED BY <2>1, <2>2, <1>13 DEF Known
<1>15. x + 1 \in 1..(Len(s) + 1)
    BY <1>2, <1>3
<1>16. Reading(t, v, h, r, k + 1, s, x + 1, u)
    BY <1>7, <1>8, <1>14, <1>15 DEF Reading
<1> QED BY <1>16 DEF u, made

\* A reader that finds no more of a field has all of it, and what its read asks for.
LEMMA FieldRead ==
    ASSUME NEW t, NEW v, NEW h, Exchanged(t, v, h), NEW r, NEW k, NEW s, NEW x, NEW g,
           Sent(t, v, h, s), Reading(t, v, h, r, k, s, x, g), r \in DOMAIN t.fields,
           ~(/\ Taken(t, v, r) /\ k < t.fields[r].read.max
             /\ x <= Len(s) /\ s[x].tag = t.fields[r].read.tag)
    PROVE  /\ Taken(t, v, r) => k >= t.fields[r].read.min
           /\ Reading(t, v, h, r + 1, 0, s, x, g)
<1>1. Len(t.fields) \in Nat /\ DOMAIN t.fields = 1..Len(t.fields) /\ Len(Of(t, h, r)) \in Nat
    BY FieldTypes
<1>2. Len(s) \in Nat /\ \A p \in 1..Len(s) : s[p].field \in Nat /\ s[p].nth \in Nat
    <2>1. s \in Seq(Items)
        BY DEF Sent
    <2> QED BY <2>1, ItemTypes
<1>3. k \in Nat /\ x \in 1..(Len(s) + 1) /\ r \in Nat
    BY <1>1 DEF Reading, AtField
<1>4. t.fields[r].read.max \in Nat /\ t.fields[r].read.min \in Nat
    <2>1. t.fields[r].read \in FieldEnd
        BY FieldTypes
    <2> QED BY <2>1 DEF FieldEnd
<1>5. Written(t, v, r) => Len(Of(t, h, r)) \in t.fields[r].read.min..t.fields[r].read.max
    <2>1. Written(t, v, r) => Len(Of(t, h, r)) >= t.fields[r].write.min
        BY <1>1 DEF Sent, Enough
    <2> QED BY <2>1 DEF Exchanged, AgreeOn
<1>6. ASSUME Written(t, v, r) PROVE k = Len(Of(t, h, r))
    <2>1. k <= Len(Of(t, h, r))
        BY <1>1, <1>3 DEF Reading, AtField
    <2>2. ASSUME k < Len(Of(t, h, r)) PROVE FALSE
        <3>1. k + 1 \in 1..Len(Of(t, h, r)) /\ Later(r, k, r, k + 1)
              /\ ~Later(Len(t.fields) + 1, 0, r, k + 1)
            BY <2>2, <1>1, <1>3 DEF Later
        <3>2. PICK p \in 1..Len(s) : s[p].field = r /\ s[p].nth = k + 1
            BY <3>1, <1>6 DEF Sent, UpTo
        <3>3. ~(p < x)
            BY <3>1, <3>2 DEF Reading
        <3>4. x \in 1..Len(s)
            BY <3>3, <1>2, <1>3
        <3>5. p # x
            <4>1. ASSUME p = x PROVE FALSE
                <5>0. s[p] = ItemOf(t, h, s[p].field, s[p].nth)
                    BY DEF Sent, Genuine
                <5>1. s[x].tag = t.fields[r].write.tag
                    BY <5>0, <3>2, <4>1 DEF ItemOf
                <5>2. Taken(t, v, r) /\ s[x].tag = t.fields[r].read.tag
                    BY <5>1, <1>6 DEF Exchanged, AgreeOn
                <5>3. k < t.fields[r].read.max
                    BY <2>2, <1>1, <1>3, <1>4, <1>5, <1>6
                <5> QED BY <5>2, <5>3, <3>4
            <4> QED BY <4>1
        <3>6. Later(s[x].field, s[x].nth, r, k + 1)
            BY <3>2, <3>3, <3>4, <3>5, <1>2 DEF Sent, Ascending
        <3>7. Later(r, k, s[x].field, s[x].nth)
            BY <3>4, <1>2 DEF Reading
        <3> QED BY <3>4, <3>6, <3>7, <1>2, <1>3 DEF Later
    <2> QED BY <2>1, <2>2, <1>1, <1>3
<1>7. Taken(t, v, r) => k >= t.fields[r].read.min
    <2>1. CASE Written(t, v, r)
        BY <2>1, <1>1, <1>3, <1>4, <1>5, <1>6
    <2>2. CASE ~Written(t, v, r)
        BY <2>2, <1>3 DEF Exchanged, AgreeOn
    <2> QED BY <2>1, <2>2
<1>8. AtField(t, v, h, r + 1, 0)
    BY <1>1 DEF AtField
<1>9. ASSUME NEW p \in 1..Len(s)
      PROVE  p < x <=> ~Later(r + 1, 0, s[p].field, s[p].nth)
    <2>1. /\ s[p].field \in DOMAIN t.fields /\ Written(t, v, s[p].field)
          /\ s[p].nth \in 1..Len(Of(t, h, s[p].field))
        BY DEF Sent, Genuine
    <2>2. s[p].nth >= 1 /\ (s[p].field = r => s[p].nth <= k)
        BY <2>1, <1>2, <1>6, FieldTypes
    <2>3. p < x <=> ~Later(r, k, s[p].field, s[p].nth)
        BY DEF Reading
    <2> QED BY <2>2, <2>3, <1>2, <1>3 DEF Later
<1>10. Known(t, v, h, g, r + 1, 0)
    <2>1. ASSUME NEW i \in DOMAIN t.fields, Written(t, v, i)
          PROVE  /\ i < r + 1 => Of(t, g, i) = Left(t, h, i)
                 /\ i = r + 1 => Of(t, g, i) = SubSeq(Left(t, h, i), 1, 0)
                 /\ i > r + 1 => Of(t, g, i) = << >>
        <3>1. CASE i = r
            <4>1. Of(t, g, i) = SubSeq(Left(t, h, i), 1, k) /\ k = Len(Left(t, h, i))
                BY <3>1, <2>1, <1>6, FieldTypes DEF Reading, Known
            <4>2. Left(t, h, i) \in Seq(LeftContents)
                BY FieldTypes
            <4>3. SubSeq(Left(t, h, i), 1, Len(Left(t, h, i))) = Left(t, h, i)
                BY <4>2
            <4> QED BY <4>1, <4>3, <3>1, <1>3
        <3>2. CASE i < r
            BY <3>2, <2>1, <1>1, <1>3 DEF Reading, Known
        <3>3. CASE i > r
            <4>1. Of(t, g, i) = << >>
                BY <3>3, <2>1 DEF Reading, Known
            <4>2. SubSeq(Left(t, h, i), 1, 0) = << >>
                BY FieldTypes
            <4> QED BY <4>1, <4>2, <3>3, <1>1, <1>3
        <3> QED BY <3>1, <3>2, <3>3, <1>1, <1>3
    <2> QED BY <2>1 DEF Reading, Known
<1>11. Reading(t, v, h, r + 1, 0, s, x, g)
    BY <1>3, <1>8, <1>9, <1>10 DEF Reading
<1> QED BY <1>7, <1>11

\* After its last field a reader has passed every item and holds what should be left of
\* what was written.
LEMMA ReadingEnds ==
    ASSUME NEW t, NEW v, NEW h, Exchanged(t, v, h), NEW r, NEW k, NEW s, NEW x, NEW g,
           Sent(t, v, h, s), Reading(t, v, h, r, k, s, x, g), r > Len(t.fields)
    PROVE  /\ x > Len(s)
           /\ ~EitherMissing(t, v, g)
           /\ \A i \in DOMAIN t.fields : Written(t, v, i) => Of(t, g, i) = Left(t, h, i)
           /\ \A slot \in Slots(t) :
                 (\A i \in DOMAIN t.fields : Written(t, v, i) => t.fields[i].write.slot # slot)
                     => g[slot] = << >>
<1>1. Len(t.fields) \in Nat /\ DOMAIN t.fields = 1..Len(t.fields)
    BY FieldTypes
<1>2. Len(s) \in Nat /\ \A p \in 1..Len(s) : s[p].field \in Nat /\ s[p].nth \in Nat
    <2>1. s \in Seq(Items)
        BY DEF Sent
    <2> QED BY <2>1, ItemTypes
<1>3. r = Len(t.fields) + 1 /\ k = 0 /\ x \in 1..(Len(s) + 1)
    BY <1>1 DEF Reading, AtField
<1>4. x > Len(s)
    <2>1. ASSUME x <= Len(s) PROVE FALSE
        <3>1. x \in 1..Len(s)
            BY <2>1, <1>2, <1>3
        <3>2. s[x].field \in 1..Len(t.fields)
            BY <3>1, <1>1 DEF Sent, Genuine
        <3>3. Later(r, k, s[x].field, s[x].nth)
            BY <3>1, <1>2 DEF Reading
        <3> QED BY <3>1, <3>2, <3>3, <1>1, <1>2, <1>3 DEF Later
    <2> QED BY <2>1, <1>2, <1>3
<1>5. ASSUME NEW i \in DOMAIN t.fields, Written(t, v, i)
      PROVE  Of(t, g, i) = Left(t, h, i)
    <2>1. i < r
        BY <1>1, <1>3
    <2> QED BY <2>1, <1>5 DEF Reading, Known
<1>6. ASSUME NEW i \in DOMAIN t.fields, Written(t, v, i), Of(t, g, i) = << >>
      PROVE  Of(t, h, i) = << >>
    <2>1. Len(Left(t, h, i)) = 0
        BY <1>5, <1>6
    <2>2. Len(Of(t, h, i)) = 0 /\ Of(t, h, i) \in Seq(Contents)
        BY <2>1, FieldTypes
    <2> QED BY ONLY <2>2
<1>7. ~EitherMissing(t, v, g)
    <2> SUFFICES ASSUME EitherMissing(t, v, g) PROVE FALSE
        OBVIOUS
    <2>1. \A slot \in t.either : \E i \in DOMAIN t.fields : Written(t, v, i) /\ t.fields[i].write.slot = slot
        BY DEF EitherMissing, Exchanged, AgreeOn, Written
    <2>2. \A slot \in t.either : h[slot] = << >>
        BY <2>1, <1>6 DEF EitherMissing, Of
    <2>3. EitherMissing(t, v, h)
        BY <2>2 DEF EitherMissing
    <2> QED BY <2>3 DEF Sent
<1>8. \A slot \in Slots(t) :
          (\A i \in DOMAIN t.fields : Written(t, v, i) => t.fields[i].write.slot # slot)
              => g[slot] = << >>
    BY DEF Reading, Known
<1> QED BY <1>4, <1>5, <1>7, <1>8

-----------------------------------------------------------------------------
(* The specification. *)

Nothing(t) == [slot \in Slots(t) |-> << >>]

Progress(t, v, h, st, r, k, s, x, g) ==
    /\ Exchanged(t, v, h)
    /\ st \in Stages
    /\ st = "refused" => NoClass(t, v, h)
    /\ st = "writing" => Writing(t, v, h, r, k, s)
    /\ st \in {"writing", "sent"} => g = Nothing(t)
    /\ st \in {"sent", "reading", "accepted"} => Sent(t, v, h, s) /\ ~(v < t.since)
    /\ st \in {"reading", "accepted"} => Reading(t, v, h, r, k, s, x, g)
    /\ st = "accepted" => r > Len(t.fields)

Inv == ~altered /\ Agree =>
           Progress(Table[name], version, given, stage, row, nth, stream, next, got)

\* An exchange never changes what is exchanged.
LEMMA Constants ==
    ASSUME [Next]_vars
    PROVE  /\ name' = name /\ version' = version /\ given' = given
           /\ ~altered' => ~altered
           /\ Agree' <=> Agree
<1>1. name' = name /\ version' = version /\ given' = given /\ (altered' = altered \/ altered' = TRUE)
    BY DEF Next, Step, vars, WriteItem, WriteNext, WriteRaises, WriteEnds, Alter, ReadBegins,
           ReadItem, ReadNext, ReadRaises, ReadEnds
<1>2. Agree' <=> Agree
    BY <1>1 DEF Agree, Puts, Takes, Held, Fields
<1> QED BY <1>1, <1>2

\* The premise of the theorems, of the structure, version and object at hand.
LEMMA AgreeIsAgreeOn == Agree <=> AgreeOn(Table[name], version, given)
BY DEF Agree, AgreeOn, Puts, Takes, Held, Fields, Written, Taken, Of

\* A write that begins.
LEMMA InvInitially == Init => Inv
<1> SUFFICES ASSUME Init, Agree PROVE Progress(Table[name], version, given, stage, row, nth, stream, next, got)
    BY DEF Inv
<1>1. PICK o \in Offers[name] : name \in DOMAIN Offers /\ version = o.version /\ given = o.value
    BY DEF Init
<1>2. name \in DOMAIN Table /\ given \in [Slots(Table[name]) -> Seq(Contents)]
    BY <1>1, OfferType
<1>3. Exchanged(Table[name], version, given)
    BY <1>2, TableType, AgreeIsAgreeOn DEF Exchanged
<1>4. Writing(Table[name], version, given, 1, 0, << >>)
    BY <1>3, WritingBegins
<1> QED BY <1>3, <1>4 DEF Init, Progress, Nothing, Stages

\* Every step of write and read keeps the account of how far they are.
LEMMA InvPreserved ==
    ASSUME Inv, [Next]_vars
    PROVE  Inv'
<1> DEFINE t == Table[name]
<1> SUFFICES ASSUME ~altered', Agree'
             PROVE  Progress(t, version, given, stage', row', nth', stream', next', got')
    BY Constants DEF Inv
<1>1. name' = name /\ version' = version /\ given' = given /\ ~altered /\ Agree
    BY Constants
<1>2. Progress(t, version, given, stage, row, nth, stream, next, got)
    BY <1>1 DEF Inv
<1>3. Exchanged(t, version, given)
    BY <1>2 DEF Progress
<1>4. Len(t.fields) \in Nat /\ DOMAIN t.fields = 1..Len(t.fields)
    BY <1>3, FieldTypes
<1>5. stage = "writing" => row \in 1..(Len(t.fields) + 1)
    BY <1>2 DEF Progress, Writing, AtField
<1>6. stage = "reading" => row \in 1..(Len(t.fields) + 1)
    BY <1>2 DEF Progress, Reading, AtField
<1>7. CASE WriteItem
    <2>1. Writing(t, version, given, row, nth, stream) /\ row \in DOMAIN t.fields
          /\ got = Nothing(t)
        BY <1>7, <1>2, <1>4, <1>5 DEF WriteItem, Progress, Fields
    <2>2. /\ Written(t, version, row) /\ nth < Len(Of(t, given, row))
          /\ Supports(version, t.fields[row].write.type)
          /\ Convertible(t.fields[row].write.form, Of(t, given, row)[nth + 1])
          /\ stream' = Append(stream, ItemOf(t, given, row, nth + 1))
        BY <1>7 DEF WriteItem, ItemWritable, Pending, Writer, Fields, Item, ItemOf, Of, Written
    <2>3. Writing(t, version, given, row, nth + 1, stream')
        BY <2>1, <2>2, <1>3, ItemWritten
    <2>4. stage' = "writing" /\ row' = row /\ nth' = nth + 1 /\ got' = got
        BY <1>7 DEF WriteItem
    <2> QED BY <2>1, <2>3, <2>4, <1>3 DEF Progress, Stages
<1>8. CASE WriteNext
    <2>1. Writing(t, version, given, row, nth, stream) /\ row \in DOMAIN t.fields
          /\ got = Nothing(t)
        BY <1>8, <1>2, <1>4, <1>5 DEF WriteNext, Progress, Fields
    <2>2. /\ ~(Written(t, version, row) /\ nth < Len(Of(t, given, row)))
          /\ Written(t, version, row) => nth >= t.fields[row].write.min
        BY <1>8 DEF WriteNext, Pending, Writer, Fields, Of, Written
    <2>3. Writing(t, version, given, row + 1, 0, stream)
        BY <2>1, <2>2, <1>3, FieldWritten
    <2>4. stage' = "writing" /\ row' = row + 1 /\ nth' = 0 /\ got' = got /\ stream' = stream
        BY <1>8 DEF WriteNext
    <2> QED BY <2>1, <2>3, <2>4, <1>3 DEF Progress, Stages
<1>9. CASE WriteRaises
    BY <1>9, <1>3 DEF WriteRaises, Progress, Stages
<1>10. CASE WriteEnds
    <2>1. Writing(t, version, given, row, nth, stream) /\ row > Len(t.fields) /\ got = Nothing(t)
        BY <1>10, <1>2 DEF WriteEnds, Progress, Fields
    <2>2. ~EitherMissing(t, version, given) /\ ~(version < t.since)
        BY <1>10 DEF WriteEnds, Unwritable, Fields
    <2>3. Sent(t, version, given, stream)
        BY <2>1, <2>2, <1>3, WritingEnds
    <2>4. stage' = "sent" /\ stream' = stream /\ got' = got
        BY <1>10 DEF WriteEnds
    <2> QED BY <2>1, <2>2, <2>3, <2>4, <1>3 DEF Progress, Stages
<1>11. CASE Alter
    BY <1>11 DEF Alter
<1>12. CASE ReadBegins
    <2>1. Sent(t, version, given, stream) /\ ~(version < t.since) /\ got = Nothing(t)
        BY <1>12, <1>2 DEF ReadBegins, Progress
    <2>2. Reading(t, version, given, 1, 0, stream, 1, Nothing(t))
        BY <2>1, <1>3, ReadingBegins DEF Nothing
    <2>3. stage' = "reading" /\ row' = 1 /\ nth' = 0 /\ next' = 1 /\ stream' = stream /\ got' = got
        BY <1>12, <2>1 DEF ReadBegins
    <2> QED BY <2>1, <2>2, <2>3, <1>3 DEF Progress, Stages
<1>13. CASE ReadItem
    <2>1. /\ Sent(t, version, given, stream) /\ ~(version < t.since) /\ row \in DOMAIN t.fields
          /\ Reading(t, version, given, row, nth, stream, next, got)
        BY <1>13, <1>2, <1>4, <1>6 DEF ReadItem, Progress, Fields
    <2>2. /\ Taken(t, version, row) /\ next <= Len(stream)
          /\ stream[next].tag = t.fields[row].read.tag
          /\ Creatable(t.fields[row].read.form, stream[next].content)
          /\ got' = Stored(t, got, row, FromWire(t.fields[row].read.form, stream[next].content))
        BY <1>13 DEF ReadItem, TagNext, Decodable, Reader, Fields, Store, Stored, Taken
    <2>3. Reading(t, version, given, row, nth + 1, stream, next + 1, got')
        BY <2>1, <2>2, <1>3, ItemRead
    <2>4. stage' = "reading" /\ row' = row /\ nth' = nth + 1 /\ next' = next + 1 /\ stream' = stream
        BY <1>13 DEF ReadItem
    <2> QED BY <2>1, <2>3, <2>4, <1>3 DEF Progress, Stages
<1>14. CASE ReadNext
    <2>1. /\ Sent(t, version, given, stream) /\ ~(version < t.since) /\ row \in DOMAIN t.fields
          /\ Reading(t, version, given, row, nth, stream, next, got)
        BY <1>14, <1>2, <1>4, <1>6 DEF ReadNext, Progress, Fields
    <2>2. ~(/\ Taken(t, version, row) /\ nth < t.fields[row].read.max
            /\ next <= Len(stream) /\ stream[next].tag = t.fields[row].read.tag)
        BY <1>14 DEF ReadNext, TagNext, Reader, Fields, Taken
    <2>3. Reading(t, version, given, row + 1, 0, stream, next, got)
        BY <2>1, <2>2, <1>3, FieldRead
    <2>4. stage' = "reading" /\ row' = row + 1 /\ nth' = 0 /\ next' = next /\ stream' = stream /\ got' = got
        BY <1>14 DEF ReadNext
    <2> QED BY <2>1, <2>3, <2>4, <1>3 DEF Progress, Stages
<1>15. CASE ReadRaises
    <2>1. /\ Sent(t, version, given, stream)
          /\ Reading(t, version, given, row, nth, stream, next, got)
        BY <1>15, <1>2 DEF ReadRaises, Progress
    <2>2. ASSUME row <= Len(Fields), TagNext, ~Decodable PROVE NoClass(t, version, given)
        <3>1. row \in DOMAIN t.fields
            BY <2>2, <1>15, <1>4, <1>6 DEF ReadRaises, Fields
        <3>2. /\ Written(t, version, row) /\ nth + 1 \in 1..Len(Of(t, given, row))
              /\ stream[next] = ItemOf(t, given, row, nth + 1)
            BY <2>1, <2>2, <3>1, <1>3, TagIdentifies DEF TagNext, Reader, Fields, Taken
        <3>3. stream[next].type \in t.fields[row].read.types
            <4>1. AgreeOn(t, version, given)
                BY <1>3 DEF Exchanged
            <4>2. t.fields[row].write.type \in t.fields[row].read.types
                BY ONLY <4>1, <3>1, <3>2 DEF AgreeOn
            <4>3. stream[next].type = t.fields[row].write.type
                BY ONLY <3>2 DEF ItemOf
            <4> QED BY ONLY <4>2, <4>3
        <3>4. next \in 1..Len(stream)
            <4>1. next \in 1..(Len(stream) + 1) /\ stream \in Seq(Items)
                BY <2>1 DEF Reading, Sent
            <4> QED BY <4>1, <2>2 DEF TagNext
        <3>5. Supports(version, stream[next].type)
            BY <3>4, <2>1 DEF Sent, Genuine
        <3>6. ~Creatable(t.fields[row].read.form, stream[next].content)
            BY <2>2, <3>3, <3>5 DEF Decodable, Reader, Fields
        <3>7. stream[next].content = ToWire(t.fields[row].write.form, Of(t, given, row)[nth + 1])
            BY ONLY <3>2 DEF ItemOf
        <3> QED BY ONLY <3>1, <3>2, <3>6, <3>7 DEF NoClass
    <2>3. ASSUME row <= Len(Fields), ~TagNext, In(version, Reader) PROVE nth >= Reader.min
        <3>1. row \in DOMAIN t.fields
            BY <2>3, <1>15, <1>4, <1>6 DEF ReadRaises, Fields
        <3> QED BY <2>1, <2>3, <3>1, <1>3, FieldRead DEF TagNext, Reader, Fields, Taken
    <2>4. ASSUME row > Len(Fields) PROVE ~EitherMissing(Table[name], version, got) /\ next > Len(stream)
        BY <2>1, <2>4, <1>3, ReadingEnds DEF Fields
    <2>5. next \in Nat /\ Len(stream) \in Nat /\ nth \in Nat
        <3>1. next \in 1..(Len(stream) + 1) /\ stream \in Seq(Items) /\ nth \in Nat
            BY <2>1 DEF Reading, Sent, AtField
        <3> QED BY <3>1
    <2>6. row <= Len(Fields) => Reader.min \in Nat
        <3>1. ASSUME row <= Len(Fields) PROVE Reader \in FieldEnd
            BY <3>1, <1>15, <1>3, <1>4, <1>6, FieldTypes DEF ReadRaises, Fields, Reader
        <3> QED BY <3>1 DEF FieldEnd
    <2>7. ~(row <= Len(Fields) /\ ~TagNext /\ In(version, Reader) /\ nth < Reader.min)
        BY <2>3, <2>5, <2>6
    <2>8. ~(row > Len(Fields) /\ Table[name].closed /\ next <= Len(stream))
        BY <2>4, <2>5
    <2>9. NoClass(t, version, given)
        BY <2>2, <2>4, <2>7, <2>8, <1>15 DEF ReadRaises, Unreadable
    <2>10. stage' = "refused"
        BY <1>15 DEF ReadRaises
    <2> QED BY <2>9, <2>10, <1>3 DEF Progress, Stages
<1>16. CASE ReadEnds
    <2>1. /\ Sent(t, version, given, stream) /\ ~(version < t.since) /\ row > Len(t.fields)
          /\ Reading(t, version, given, row, nth, stream, next, got)
        BY <1>16, <1>2 DEF ReadEnds, Progress, Fields
    <2>2. stage' = "accepted" /\ row' = row /\ nth' = nth /\ next' = next /\ stream' = stream /\ got' = got
        BY <1>16 DEF ReadEnds
    <2> QED BY <2>1, <2>2, <1>3 DEF Progress, Stages
<1>17. CASE UNCHANGED vars
    BY <1>17, <1>2 DEF vars
<1> QED BY <1>7, <1>8, <1>9, <1>10, <1>11, <1>12, <1>13, <1>14, <1>15, <1>16, <1>17 DEF Next, Step

\* As long as no other implementation alters the encoding.
LEMMA Invariance == Spec => []Inv
<1>1. Inv /\ [Next]_vars => Inv'
    BY InvPreserved
<1> QED BY <1>1, InvInitially, PTL DEF Spec

\* A structure whose methods agree reads back what its conversions leave of what it wrote,
\* whatever its fields, its version and the object are (read and write in kmip/core).
THEOREM AgreeingRoundTrip == Spec => [](Agree => RoundTrip)
<1>1. Inv => (Agree => RoundTrip)
    <2> DEFINE t == Table[name]
    <2> SUFFICES ASSUME Inv, Agree, stage = "accepted", ~altered PROVE RoundTrip
        BY DEF RoundTrip
    <2>1. /\ Exchanged(t, version, given) /\ Sent(t, version, given, stream)
          /\ Reading(t, version, given, row, nth, stream, next, got)
          /\ row > Len(t.fields)
        BY DEF Inv, Progress
    <2>2. /\ \A i \in DOMAIN t.fields : Written(t, version, i) => Of(t, got, i) = Left(t, given, i)
          /\ \A slot \in Slots(t) :
                (\A i \in DOMAIN t.fields : Written(t, version, i) => t.fields[i].write.slot # slot)
                    => got[slot] = << >>
        BY <2>1, ReadingEnds
    <2>3. DOMAIN got = Slots(t)
        BY <2>1 DEF Reading, Known
    <2> QED BY ONLY <2>2, <2>3 DEF RoundTrip, Fields, Puts, Held, Written, Of, Left
<1> QED BY <1>1, Invariance, PTL

\* No reader raises on what a writer of its class made, if their fields agree and it has
\* classes for the attributes.
THEOREM AgreeingReadable == Spec => [](Agree => WrittenIsReadable)
<1>1. NoClass(Table[name], version, given) => Uncreatable
    BY DEF NoClass, Uncreatable, Puts, Held, Fields, Written, Of
<1>2. Inv => (Agree => WrittenIsReadable)
    BY <1>1 DEF Inv, Progress, WrittenIsReadable
<1> QED BY <1>2, Invariance, PTL

-----------------------------------------------------------------------------
(* The types, of an encoding by another implementation too. *)

\* What is on the wire: the items of a writer, what another implementation may make of
\* them, and one that no writer of ours makes.
WireItems == Items \cup {Foreign} \cup UNION {Rephrasings(item) : item \in Items}

\* What a reader may hold.
Anything == {FromWire(f, item.content) : f \in STRING, item \in WireItems}

TypeInv ==
    /\ name \in DOMAIN Table /\ version \in Nat
    /\ given \in [Slots(Table[name]) -> Seq(Contents)]
    /\ stage \in Stages
    /\ row \in 1..(Len(Fields) + 1) /\ nth \in Nat
    /\ stream \in Seq(WireItems) /\ (~altered => stream \in Seq(Items))
    /\ next \in 1..(Len(stream) + 1)
    /\ got \in [Slots(Table[name]) -> Seq(Anything)]
    /\ altered \in BOOLEAN
    /\ stage \in {"writing", "sent"} => next = 1 /\ got = Nothing(Table[name])

\* The table's fields, and the ends of the one that a method is at.
LEMMA FieldsTyped ==
    ASSUME TypeInv
    PROVE  /\ Fields \in Seq(Field)
           /\ Len(Fields) \in Nat /\ DOMAIN Fields = 1..Len(Fields)
           /\ \A i \in DOMAIN Fields :
                 /\ Fields[i].write.slot \in Slots(Table[name])
                 /\ Fields[i].read.slot \in Slots(Table[name])
                 /\ Fields[i].read.max \in Nat /\ Fields[i].read.form \in STRING
<1>1. Fields \in Seq(Field)
    BY TableType DEF TypeInv, Fields
<1>2. Len(Fields) \in Nat /\ DOMAIN Fields = 1..Len(Fields) /\ \A i \in DOMAIN Fields : Fields[i] \in Field
    BY <1>1
<1>3. \A i \in DOMAIN Fields : Fields[i].read.max \in Nat /\ Fields[i].read.form \in STRING
    BY <1>2 DEF Field, FieldEnd
<1>4. \A i \in DOMAIN Fields : /\ Fields[i].write.slot \in Slots(Table[name])
                               /\ Fields[i].read.slot \in Slots(Table[name])
    BY DEF Slots, Fields
<1> QED BY <1>1, <1>2, <1>3, <1>4

\* Whatever a peer does to an encoding, it is a sequence of items.
LEMMA AlteredTypes ==
    ASSUME TypeInv, Alter
    PROVE  stream' \in Seq(WireItems)
<1>1. stream \in Seq(WireItems) /\ Len(stream) \in Nat /\ Foreign \in WireItems
    BY DEF TypeInv, WireItems
<1>2. \A i \in 1..Len(stream) : stream[i] \in WireItems
    BY <1>1
<1>3. ASSUME NEW i \in Int, NEW j \in Int, i >= 1, j <= Len(stream)
      PROVE  SubSeq(stream, i, j) \in Seq(WireItems)
    <2>1. \A p \in i..j : stream[p] \in WireItems
        BY <1>1, <1>2, <1>3
    <2> QED BY <2>1, SubSeqProperties
<1>4. ASSUME NEW i \in 1..(Len(stream) + 1), NEW item \in WireItems
      PROVE  With(i, item) \in Seq(WireItems)
    <2>1. SubSeq(stream, 1, i - 1) \in Seq(WireItems) /\ SubSeq(stream, i, Len(stream)) \in Seq(WireItems)
        BY <1>1, <1>3
    <2>2. <<item>> \in Seq(WireItems)
        OBVIOUS
    <2>3. SubSeq(stream, 1, i - 1) \o <<item>> \in Seq(WireItems)
        BY ONLY <2>1, <2>2, ConcatProperties
    <2> QED BY ONLY <2>1, <2>3, ConcatProperties DEF With
<1>5. ASSUME NEW i \in 1..Len(stream) PROVE Without(i) \in Seq(WireItems)
    <2>1. SubSeq(stream, 1, i - 1) \in Seq(WireItems) /\ SubSeq(stream, i + 1, Len(stream)) \in Seq(WireItems)
        BY <1>1, <1>3
    <2> QED BY ONLY <2>1, ConcatProperties DEF Without
<1>6. ASSUME NEW i \in 1..(Len(stream) - 1) PROVE Swapped(i) \in Seq(WireItems)
    <2>1. DOMAIN stream = 1..Len(stream) /\ i \in 1..Len(stream) /\ i + 1 \in 1..Len(stream)
        BY <1>1
    <2>2. \A j \in 1..Len(stream) :
             (IF j = i THEN stream[i + 1] ELSE IF j = i + 1 THEN stream[i] ELSE stream[j]) \in WireItems
        BY <1>2, <2>1
    <2>3. Swapped(i) \in [1..Len(stream) -> WireItems]
        BY <2>1, <2>2 DEF Swapped
    <2> QED BY <1>1, <2>3
<1>7. ASSUME NEW i \in 1..Len(stream), NEW item \in Rephrasings(stream[i])
      PROVE  [stream EXCEPT ![i] = item] \in Seq(WireItems)
    <2>1. stream[i] \in Items
        BY <1>7 DEF TypeInv, Alter
    <2>2. item \in WireItems
        BY <2>1 DEF WireItems
    <2> QED BY <1>1, <2>2
<1>8. \/ \E i \in 1..Len(stream) : stream' = Without(i)
      \/ \E i \in 1..Len(stream) : stream' = With(i, stream[i])
      \/ \E i \in 1..(Len(stream) - 1) : stream' = Swapped(i)
      \/ \E i \in 1..(Len(stream) + 1) : stream' = With(i, Foreign)
      \/ \E i \in 1..Len(stream) : \E item \in Rephrasings(stream[i]) :
            stream' = [stream EXCEPT ![i] = item]
    BY Zenon DEF Alter
<1>9. \A i \in 1..Len(stream) : i \in 1..(Len(stream) + 1)
    BY <1>1
<1> QED BY <1>1, <1>2, <1>4, <1>5, <1>6, <1>7, <1>8, <1>9, Zenon

\* The items are made and taken one by one, and the methods stay within their lists of
\* fields and the buffer.
LEMMA TypesPreserved ==
    ASSUME TypeInv, [Next]_vars
    PROVE  TypeInv'
<1> DEFINE t == Table[name]
<1>1. /\ Len(Fields) \in Nat /\ DOMAIN Fields = 1..Len(Fields)
      /\ Len(stream) \in Nat
    BY FieldsTyped DEF TypeInv
<1>2. name' = name /\ version' = version /\ given' = given /\ Fields' = Fields
    BY Constants DEF Fields
<1>3. CASE WriteItem
    <2>1. /\ row \in DOMAIN Fields /\ nth \in Nat /\ nth < Len(given[Fields[row].write.slot])
          /\ stream' = Append(stream, ItemOf(t, given, row, nth + 1))
        <3>1. row \in DOMAIN Fields /\ nth \in Nat
            BY <1>1, <1>3 DEF TypeInv, WriteItem
        <3>2. nth < Len(given[Fields[row].write.slot])
            BY <1>3 DEF WriteItem, Pending, Writer
        <3>3. stream' = Append(stream, ItemOf(t, given, row, nth + 1))
            BY <1>3 DEF WriteItem, Item, ItemOf, Of, Fields
        <3> QED BY ONLY <3>1, <3>2, <3>3
    <2>2. Len(Of(t, given, row)) \in Nat /\ nth + 1 \in 1..Len(Of(t, given, row))
        <3>1. t.fields \in Seq(Field) /\ given \in [Slots(t) -> Seq(Contents)]
            BY TableType DEF TypeInv
        <3>2. Len(Of(t, given, row)) \in Nat
            BY <2>1, <3>1, FieldShapes DEF Fields
        <3>3. nth \in Nat /\ nth < Len(Of(t, given, row))
            BY ONLY <2>1 DEF Of, Fields
        <3> QED BY ONLY <3>2, <3>3
    <2>3. ItemOf(t, given, row, nth + 1) \in Items
        BY <2>1, <2>2, FieldShapes, TableType DEF TypeInv, Fields
    <2>4. /\ stream' \in Seq(WireItems) /\ Len(stream') = Len(stream) + 1
          /\ ~altered => stream' \in Seq(Items)
        <3> DEFINE item == ItemOf(t, given, row, nth + 1)
        <3>1. item \in Items /\ item \in WireItems /\ stream' = Append(stream, item)
            BY <2>1, <2>3 DEF WireItems
        <3>2. stream \in Seq(WireItems) /\ (~altered => stream \in Seq(Items))
            BY DEF TypeInv
        <3> HIDE DEF item
        <3> QED BY ONLY <3>1, <3>2
    <2>5. next' = next /\ next = 1 /\ got' = got /\ nth' = nth + 1 /\ row' = row
          /\ stage' = stage /\ altered' = altered
        BY <1>3 DEF WriteItem, TypeInv
    <2> QED BY <1>1, <1>2, <2>4, <2>5 DEF TypeInv
<1>4. CASE WriteNext
    BY <1>1, <1>2, <1>4 DEF TypeInv, WriteNext
<1>5. CASE WriteRaises \/ WriteEnds \/ ReadRaises \/ ReadEnds
    BY <1>2, <1>5 DEF TypeInv, WriteRaises, WriteEnds, ReadRaises, ReadEnds, Stages
<1>6. CASE Alter
    <2>1. stream' \in Seq(WireItems)
        BY <1>6, AlteredTypes
    <2>2. Len(stream') \in Nat
        BY <2>1
    <2>3. next' = 1 /\ got' = got /\ nth' = nth /\ row' = row /\ stage' = stage /\ altered' = TRUE
        BY <1>6 DEF Alter, TypeInv
    <2> QED BY <1>2, <2>1, <2>2, <2>3 DEF TypeInv
<1>7. CASE ReadBegins
    BY <1>1, <1>2, <1>7 DEF TypeInv, ReadBegins, Stages
<1>8. CASE ReadItem
    <2>1. row \in DOMAIN Fields /\ next \in 1..Len(stream)
        BY <1>1, <1>8 DEF TypeInv, ReadItem, TagNext
    <2> DEFINE made == FromWire(t.fields[row].read.form, stream[next].content)
    <2>2. made \in Anything
        <3>1. stream[next] \in WireItems
            BY <2>1 DEF TypeInv
        <3>2. t.fields[row].read.form \in STRING
            BY <2>1, FieldsTyped DEF Fields
        <3> QED BY ONLY <3>1, <3>2 DEF Anything
    <2>3. got' = Stored(t, got, row, made)
        BY <1>8 DEF ReadItem, Stored, Store, Reader, Fields
    <2> HIDE DEF made
    <2>4. got' \in [Slots(t) -> Seq(Anything)]
        <3>1. t.fields[row].read.slot \in Slots(t)
            BY <2>1, FieldsTyped DEF Fields
        <3>2. got[t.fields[row].read.slot] \in Seq(Anything)
            BY <3>1 DEF TypeInv
        <3>3. (IF t.fields[row].read.max = 1 THEN <<made>>
               ELSE Append(got[t.fields[row].read.slot], made)) \in Seq(Anything)
            BY <2>2, <3>2
        <3> QED BY <2>3, <3>1, <3>3 DEF TypeInv, Stored
    <2>5. /\ next' = next + 1 /\ nth' = nth + 1 /\ row' = row /\ stream' = stream
          /\ stage = "reading" /\ stage' = stage /\ altered' = altered
        BY <1>8 DEF ReadItem
    <2>6. next' \in 1..(Len(stream') + 1)
        BY <1>1, <2>1, <2>5
    <2> QED BY <1>2, <2>4, <2>5, <2>6 DEF TypeInv
<1>9. CASE ReadNext
    BY <1>1, <1>2, <1>9 DEF TypeInv, ReadNext
<1>10. CASE UNCHANGED vars
    BY <1>10 DEF vars, TypeInv, Fields
<1> QED BY <1>3, <1>4, <1>5, <1>6, <1>7, <1>8, <1>9, <1>10 DEF Next, Step

\* The types of all that the two methods keep, whoever made the encoding.
LEMMA TypesInvariance == Spec => []TypeInv
<1>1. Init => TypeInv
    <2> SUFFICES ASSUME Init PROVE TypeInv
        OBVIOUS
    <2>1. PICK o \in Offers[name] : name \in DOMAIN Offers /\ version = o.version /\ given = o.value
        BY DEF Init
    <2>2. /\ name \in DOMAIN Table /\ version \in Nat
          /\ given \in [Slots(Table[name]) -> Seq(Contents)]
        BY <2>1, OfferType
    <2>3. Len(Fields) \in Nat
        BY <2>2, TableType DEF Fields
    <2>4. Nothing(Table[name]) \in [Slots(Table[name]) -> Seq(Anything)]
        BY DEF Nothing
    <2>5. /\ stage = "writing" /\ row = 1 /\ nth = 0 /\ stream = << >> /\ next = 1
          /\ got = Nothing(Table[name]) /\ altered = FALSE
        BY DEF Init, Nothing
    <2>6. << >> \in Seq(WireItems) /\ << >> \in Seq(Items) /\ Len(<< >>) = 0
        OBVIOUS
    <2>7. row \in 1..(Len(Fields) + 1) /\ nth \in Nat
        BY ONLY <2>3, <2>5
    <2>8. stream \in Seq(WireItems) /\ stream \in Seq(Items) /\ next \in 1..(Len(stream) + 1)
        BY ONLY <2>5, <2>6
    <2>9. stage \in Stages /\ altered \in BOOLEAN
        BY <2>5 DEF Stages
    <2>10. got \in [Slots(Table[name]) -> Seq(Anything)]
        BY ONLY <2>4, <2>5
    <2> QED BY <2>2, <2>5, <2>7, <2>8, <2>9, <2>10 DEF TypeInv
<1> QED BY <1>1, TypesPreserved, PTL DEF Spec

\* The methods stay within their lists of fields and within the buffer, and what a
\* reader holds are the slots of its structure, whatever a peer sends.
THEOREM TypeCorrect == Spec => []TypeOK
<1>1. TypeInv => TypeOK
    BY DEF TypeInv, TypeOK
<1> QED BY <1>1, TypesInvariance, PTL

-----------------------------------------------------------------------------
(* The one reading of a message. *)

(* What the two methods agree on for the fields that a writer makes items of. *)
Paired(t, v) ==
    /\ \A i \in DOMAIN t.fields : Written(t, v, i) =>
           /\ t.fields[i].read.slot = t.fields[i].write.slot
           /\ t.fields[i].read.tag = t.fields[i].write.tag
    /\ \A i, j \in DOMAIN t.fields : i # j /\ Written(t, v, i) /\ Written(t, v, j) =>
           t.fields[i].write.slot # t.fields[j].write.slot

\* The item that encodes an entry.
Encoded(s, t, v, held, e) ==
    LET end == t.fields[e[1]].write
        item == s[Place(t, v, held, e)]
    IN  item.tag = end.tag /\ item.content = ToWire(end.form, held[end.slot][e[2]])

(* What a reader at the item k of field r holds is what the items before x encode. *)
HoldsAll(t, v, r, k, s, x, g) ==
    /\ \A i \in DOMAIN t.fields : Written(t, v, i) =>
           /\ i = r => Len(Of(t, g, i)) = k
           /\ i > r => Of(t, g, i) = << >>
    /\ IsFiniteSet(Entries(t, v, g)) /\ Cardinality(Entries(t, v, g)) = x - 1
    /\ \A e \in Entries(t, v, g) : Encoded(s, t, v, g, e)

\* An entry is a field that is written and the number of an item of it.
LEMMA EntriesAre ==
    ASSUME NEW t, NEW v, NEW g
    PROVE  \A e : e \in Entries(t, v, g) <=>
               \E i \in DOMAIN t.fields : \E n \in DOMAIN Of(t, g, i) :
                   Written(t, v, i) /\ e = <<i, n>>
BY DEF Entries, Of, Written

\* An item appended to a list is its last one, and leaves the others in their places.
LEMMA AppendedItems ==
    ASSUME NEW q \in Seq(Anything), NEW c \in Anything
    PROVE  /\ Len(Append(q, c)) = Len(q) + 1 /\ DOMAIN Append(q, c) = 1..(Len(q) + 1)
           /\ Append(q, c)[Len(q) + 1] = c
           /\ \A n \in 1..Len(q) : Append(q, c)[n] = q[n]
<1>1. Append(q, c) \in Seq(Anything) /\ Len(Append(q, c)) = Len(q) + 1
    BY AppendProperties
<1>2. DOMAIN Append(q, c) = 1..Len(Append(q, c))
    BY ONLY <1>1
<1>3. Append(q, c)[Len(q) + 1] = c /\ \A n \in 1..Len(q) : Append(q, c)[n] = q[n]
    BY AppendProperties
<1> QED BY ONLY <1>1, <1>2, <1>3

\* The reader takes the next item of its field: one more entry, after all others.
LEMMA OneMoreHeld ==
    ASSUME NEW t, t.fields \in Seq(Field), NEW v, Paired(t, v),
           NEW r \in DOMAIN t.fields, NEW k \in Nat, NEW s, NEW x \in Nat \ {0},
           NEW g \in [Slots(t) -> Seq(Anything)], HoldsAll(t, v, r, k, s, x, g),
           Written(t, v, r), k < t.fields[r].read.max,
           s[x].tag = t.fields[r].read.tag, WritesBack(t.fields[r], s[x].content),
           FromWire(t.fields[r].read.form, s[x].content) \in Anything
    PROVE  HoldsAll(t, v, r, k + 1, s, x + 1,
                    Stored(t, g, r, FromWire(t.fields[r].read.form, s[x].content)))
<1> DEFINE slot == t.fields[r].write.slot
           c == FromWire(t.fields[r].read.form, s[x].content)
           u == Stored(t, g, r, c)
           new == <<r, k + 1>>
           old == Entries(t, v, g)
<1>1. /\ DOMAIN t.fields \subseteq Nat /\ slot \in Slots(t)
      /\ t.fields[r].read.max \in Nat
    <2>1. \A i \in DOMAIN t.fields : i \in Nat /\ t.fields[i] \in Field
        OBVIOUS
    <2>2. t.fields[r].read.max \in Nat
        BY <2>1 DEF Field, FieldEnd
    <2> QED BY <2>1, <2>2 DEF Slots
<1>2. g[slot] \in Seq(Anything) /\ Len(g[slot]) = k /\ Of(t, g, r) = g[slot]
    BY <1>1 DEF HoldsAll, Of
<1>3. u = [g EXCEPT ![slot] = Append(g[slot], c)]
    <2>1. t.fields[r].read.slot = slot
        BY DEF Paired
    <2>2. t.fields[r].read.max = 1 => g[slot] = << >>
        BY <1>1, <1>2
    <2>3. Append(<< >>, c) = <<c>>
        OBVIOUS
    <2> QED BY <2>1, <2>2, <2>3 DEF Stored
<1>4. ASSUME NEW i \in DOMAIN t.fields, Written(t, v, i), i # r
      PROVE  Of(t, u, i) = Of(t, g, i)
    <2>1. t.fields[i].write.slot # slot /\ t.fields[i].write.slot \in Slots(t)
        BY <1>4 DEF Paired, Slots
    <2> QED BY <1>3, <2>1 DEF Of
<1>5. /\ Of(t, u, r) = Append(g[slot], c)
      /\ Len(Of(t, u, r)) = k + 1 /\ DOMAIN Of(t, u, r) = 1..(k + 1)
      /\ Of(t, u, r)[k + 1] = c /\ \A n \in 1..k : Of(t, u, r)[n] = g[slot][n]
    <2>1. Of(t, u, r) = Append(g[slot], c)
        BY <1>1, <1>3 DEF Of
    <2>2. /\ Len(Append(g[slot], c)) = k + 1 /\ DOMAIN Append(g[slot], c) = 1..(k + 1)
          /\ Append(g[slot], c)[k + 1] = c /\ \A n \in 1..k : Append(g[slot], c)[n] = g[slot][n]
        BY ONLY AppendedItems, <1>2, c \in Anything
    <2> QED BY ONLY <2>1, <2>2
<1>6. DOMAIN Of(t, g, r) = 1..k
    BY <1>2
<1> HIDE DEF u, c, slot
<1>7. ASSUME NEW e \in old
      PROVE  /\ e[1] \in DOMAIN t.fields /\ Written(t, v, e[1]) /\ e[2] \in DOMAIN Of(t, g, e[1])
             /\ e = <<e[1], e[2]>> /\ Earlier(e, new) /\ ~Earlier(new, e)
    <2>1. PICK i \in DOMAIN t.fields : \E n \in DOMAIN Of(t, g, i) : Written(t, v, i) /\ e = <<i, n>>
        BY EntriesAre
    <2>2. PICK n \in DOMAIN Of(t, g, i) : Written(t, v, i) /\ e = <<i, n>>
        BY <2>1
    <2>3. e[1] = i /\ e[2] = n
        BY <2>2
    <2>4. ~(i > r)
        BY <2>2 DEF HoldsAll
    <2>5. i \in Nat /\ r \in Nat
        BY <1>1
    <2>6. CASE i = r
        <3>1. n \in 1..k
            BY <1>6, <2>6
        <3>2. Earlier(e, new) /\ ~Earlier(new, e)
            BY ONLY <3>1, <2>3, <2>5, <2>6, k \in Nat DEF Earlier
        <3> QED BY <2>2, <2>3, <3>2
    <2>7. CASE i < r
        <3>1. Earlier(e, new) /\ ~Earlier(new, e)
            BY ONLY <2>3, <2>5, <2>7 DEF Earlier
        <3> QED BY <2>2, <2>3, <3>1
    <2> QED BY ONLY <2>4, <2>5, <2>6, <2>7
<1>8. ~Earlier(new, new)
    BY <1>1 DEF Earlier
<1>9. new \notin old
    BY <1>7, <1>8
<1>10. Entries(t, v, u) = old \cup {new}
    <2>1. ASSUME NEW e \in Entries(t, v, u) PROVE e \in old \cup {new}
        <3>1. PICK i \in DOMAIN t.fields : \E n \in DOMAIN Of(t, u, i) : Written(t, v, i) /\ e = <<i, n>>
            BY EntriesAre
        <3>2. PICK n \in DOMAIN Of(t, u, i) : Written(t, v, i) /\ e = <<i, n>>
            BY <3>1
        <3>3. CASE i # r
            <4>1. n \in DOMAIN Of(t, g, i)
                BY <1>4, <3>2, <3>3
            <4> QED BY <3>2, <4>1, EntriesAre
        <3>4. CASE i = r /\ n = k + 1
            BY <3>2, <3>4
        <3>5. CASE i = r /\ n # k + 1
            <4>1. n \in DOMAIN Of(t, g, i)
                BY ONLY <1>5, <1>6, <3>2, <3>5, k \in Nat
            <4> QED BY <3>2, <4>1, EntriesAre
        <3> QED BY <3>3, <3>4, <3>5
    <2>2. ASSUME NEW e \in old PROVE e \in Entries(t, v, u)
        <3>1. e[2] \in DOMAIN Of(t, u, e[1])
            <4>1. CASE e[1] = r
                BY <1>5, <1>6, <1>7, <4>1
            <4>2. CASE e[1] # r
                BY <1>4, <1>7, <4>2
            <4> QED BY <4>1, <4>2
        <3> QED BY <1>7, <3>1, EntriesAre
    <2>3. new \in Entries(t, v, u)
        <3>1. k + 1 \in DOMAIN Of(t, u, r)
            BY <1>5
        <3> QED BY <3>1, EntriesAre
    <2> QED BY <2>1, <2>2, <2>3
<1> HIDE DEF old
<1>11. IsFiniteSet(old) /\ Cardinality(old) = x - 1
    BY DEF old, HoldsAll
<1>12. IsFiniteSet(old \cup {new}) /\ Cardinality(old \cup {new}) = x
    <2>1. IsFiniteSet(old \cup {new}) /\ Cardinality(old \cup {new}) = Cardinality(old) + 1
        BY ONLY <1>9, <1>11, FS_AddElement
    <2> QED BY ONLY <1>11, <2>1, x \in Nat \ {0}
<1>13. \A e \in old : Place(t, v, u, e) = Place(t, v, g, e)
    <2>1. ASSUME NEW e \in old
          PROVE  {d \in old \cup {new} : Earlier(d, e)} = {d \in old : Earlier(d, e)}
        <3>1. ~Earlier(new, e)
            BY <1>7
        <3> QED BY ONLY <3>1
    <2> QED BY ONLY <1>10, <2>1 DEF Place, old
<1>14. Place(t, v, u, new) = x
    <2>1. \A d \in old : Earlier(d, new)
        BY <1>7
    <2>2. {d \in old \cup {new} : Earlier(d, new)} = old
        BY ONLY <1>8, <2>1
    <2>3. Place(t, v, u, new) = 1 + (x - 1)
        BY ONLY <1>10, <1>11, <2>2 DEF Place
    <2> QED BY ONLY <2>3, x \in Nat \ {0}
<1>15. ASSUME NEW e \in old PROVE Encoded(s, t, v, u, e)
    <2>1. Encoded(s, t, v, g, e)
        BY DEF HoldsAll, old
    <2>2. Of(t, u, e[1])[e[2]] = Of(t, g, e[1])[e[2]]
        <3>1. CASE e[1] = r
            <4>1. e[2] \in 1..k
                BY <1>6, <1>7, <3>1
            <4> QED BY ONLY <1>2, <1>5, <3>1, <4>1
        <3>2. CASE e[1] # r
            BY <1>4, <1>7, <3>2
        <3> QED BY <3>1, <3>2
    <2> QED BY <1>13, <2>1, <2>2 DEF Encoded, Of
<1>16. Encoded(s, t, v, u, new)
    <2>1. new[1] = r /\ new[2] = k + 1
        OBVIOUS
    <2>2. s[x].tag = t.fields[r].write.tag
        BY DEF Paired
    <2>3. s[x].content = ToWire(t.fields[r].write.form, Of(t, u, r)[k + 1])
        BY <1>5 DEF c, WritesBack
    <2> QED BY <1>14, <2>1, <2>2, <2>3 DEF Encoded, Of
<1>17. \A i \in DOMAIN t.fields : Written(t, v, i) =>
           /\ i = r => Len(Of(t, u, i)) = k + 1
           /\ i > r => Of(t, u, i) = << >>
    <2>1. \A i \in DOMAIN t.fields : i > r => i # r
        BY <1>1
    <2> QED BY <1>4, <1>5, <2>1 DEF HoldsAll
<1>18. Cardinality(Entries(t, v, u)) = (x + 1) - 1
    BY <1>10, <1>12
<1>19. HoldsAll(t, v, r, k + 1, s, x + 1, u)
    BY <1>10, <1>12, <1>15, <1>16, <1>17, <1>18 DEF HoldsAll
<1> QED BY <1>19 DEF u, c

\* An encoding with the same items is encoded alike.
LEMMA EncodedAll ==
    ASSUME NEW t, NEW v, NEW r, NEW k, NEW s, NEW x, NEW g,
           HoldsAll(t, v, r, k, s, x, g), x = Len(s) + 1, Len(s) \in Nat
    PROVE  Encodes(s, t, v, g)
BY DEF HoldsAll, Encodes, Encoded

(* What the reader passes over on its way to the next field: nothing. *)
LEMMA NextFieldHolds ==
    ASSUME NEW t, t.fields \in Seq(Field), NEW v, NEW r \in DOMAIN t.fields, NEW k, NEW s,
           NEW x, NEW g, HoldsAll(t, v, r, k, s, x, g)
    PROVE  HoldsAll(t, v, r + 1, 0, s, x, g)
<1>1. \A i \in DOMAIN t.fields : i \in Int /\ r \in Int /\ (i >= r + 1 => i > r)
    OBVIOUS
<1>2. \A i \in DOMAIN t.fields : Written(t, v, i) =>
           /\ i = r + 1 => Len(Of(t, g, i)) = 0
           /\ i > r + 1 => Of(t, g, i) = << >>
    BY <1>1 DEF HoldsAll
<1> QED BY <1>2 DEF HoldsAll

(* A reader that has not begun holds nothing. *)
LEMMA NothingHeld ==
    ASSUME NEW t, NEW v, NEW s
    PROVE  HoldsAll(t, v, 1, 0, s, 1, Nothing(t))
<1>1. \A i \in DOMAIN t.fields : Of(t, Nothing(t), i) = << >>
    BY DEF Of, Nothing, Slots
<1>2. Entries(t, v, Nothing(t)) = {}
    BY <1>1, EntriesAre
<1>3. IsFiniteSet({}) /\ Cardinality({}) = 0
    BY FS_EmptySet
<1> QED BY <1>1, <1>2, <1>3 DEF HoldsAll

(* While the reader reads, and after it: unless an item is on the wire that our writer
   would not have made. *)
ReadInv ==
    Agree /\ ~Unwritten /\ stage \in {"reading", "accepted"} =>
        /\ HoldsAll(Table[name], version, row, nth, stream, next, got)
        /\ stage = "accepted" /\ Table[name].closed => next > Len(stream)

\* A reader holds what the items it passed encode, whoever made them.
LEMMA ReadInvPreserved ==
    ASSUME TypeInv, ReadInv, [Next]_vars
    PROVE  ReadInv'
<1> DEFINE t == Table[name]
<1> SUFFICES ASSUME Agree', ~Unwritten', stage' \in {"reading", "accepted"}
             PROVE  /\ HoldsAll(t, version, row', nth', stream', next', got')
                    /\ stage' = "accepted" /\ t.closed => next' > Len(stream')
    BY Constants DEF ReadInv
<1>1. name' = name /\ version' = version /\ given' = given /\ Agree
    BY Constants
<1>2. t.fields \in Seq(Field) /\ Fields = t.fields /\ Fields' = t.fields
    BY <1>1, TableType DEF TypeInv, Fields
<1>3. Paired(t, version)
    BY <1>1, AgreeIsAgreeOn DEF AgreeOn, Paired
<1>4. stream' = stream => ~Unwritten
    BY <1>1, <1>2 DEF Unwritten, Takes, Puts
<1>5. CASE ReadBegins
    <2>1. /\ row' = 1 /\ nth' = 0 /\ next' = 1 /\ stream' = stream /\ stage' = "reading"
          /\ got' = Nothing(t)
        BY <1>5 DEF ReadBegins, TypeInv
    <2> QED BY <2>1, NothingHeld
<1>6. CASE ReadItem
    <2> DEFINE made == FromWire(t.fields[row].read.form, stream[next].content)
    <2>1. /\ row \in DOMAIN t.fields /\ nth \in Nat /\ next \in Nat \ {0} /\ next \in 1..Len(stream)
        BY <1>2, <1>6 DEF TypeInv, ReadItem, TagNext
    <2>2. /\ row' = row /\ nth' = nth + 1 /\ next' = next + 1 /\ stream' = stream
          /\ stage = "reading" /\ stage' = "reading"
          /\ got' = Stored(t, got, row, made)
        BY <1>6 DEF ReadItem, Stored, Store, Reader, Fields
    <2>3. /\ Taken(t, version, row) /\ nth < t.fields[row].read.max
          /\ stream[next].tag = t.fields[row].read.tag
        BY <1>6 DEF ReadItem, TagNext, Reader, Fields, Taken
    <2>4. HoldsAll(t, version, row, nth, stream, next, got)
        BY <1>1, <1>4, <2>2 DEF ReadInv
    <2>5. Written(t, version, row) /\ WritesBack(t.fields[row], stream[next].content)
        <3>1. next \in DOMAIN stream
            BY <2>1 DEF TypeInv
        <3> QED BY <1>2, <1>4, <2>1, <2>2, <2>3, <3>1 DEF Unwritten, Takes, Puts, Taken, Written
    <2>6. made \in Anything
        <3>1. stream[next] \in WireItems
            BY <2>1 DEF TypeInv
        <3>2. t.fields[row].read.form \in STRING
            BY <1>2, <2>1, FieldsTyped
        <3> QED BY ONLY <3>1, <3>2 DEF Anything
    <2>7. got \in [Slots(t) -> Seq(Anything)]
        BY DEF TypeInv
    <2> HIDE DEF t
    <2>8. HoldsAll(t, version, row, nth + 1, stream, next + 1, Stored(t, got, row, made))
        BY <1>2, <1>3, <2>1, <2>3, <2>4, <2>5, <2>6, <2>7, OneMoreHeld
    <2> QED BY <2>2, <2>8
<1>7. CASE ReadNext
    <2>1. /\ row' = row + 1 /\ nth' = 0 /\ next' = next /\ stream' = stream /\ got' = got
          /\ stage = "reading" /\ stage' = "reading" /\ row <= Len(t.fields)
        BY <1>7 DEF ReadNext, Fields
    <2>2. row \in DOMAIN t.fields
        BY <1>2, <2>1 DEF TypeInv
    <2>3. HoldsAll(t, version, row, nth, stream, next, got)
        BY <1>1, <1>4, <2>1 DEF ReadInv
    <2> HIDE DEF t
    <2>4. HoldsAll(t, version, row + 1, 0, stream, next, got)
        BY <1>2, <2>2, <2>3, NextFieldHolds
    <2> QED BY <2>1, <2>4
<1>8. CASE ReadEnds
    <2>1. /\ row' = row /\ nth' = nth /\ next' = next /\ stream' = stream /\ got' = got
          /\ stage = "reading"
        BY <1>8 DEF ReadEnds
    <2>2. t.closed => ~(next <= Len(stream))
        BY <1>8 DEF ReadEnds, Unreadable
    <2>3. next \in Nat /\ Len(stream) \in Nat
        BY DEF TypeInv
    <2> QED BY <1>1, <1>4, <2>1, <2>2, <2>3 DEF ReadInv
<1>9. CASE UNCHANGED vars
    BY <1>1, <1>4, <1>9 DEF vars, ReadInv
<1>10. CASE WriteItem \/ WriteNext \/ WriteRaises \/ WriteEnds \/ ReadRaises \/ Alter
    BY <1>10 DEF WriteItem, WriteNext, WriteRaises, WriteEnds, ReadRaises, Alter
<1> QED BY <1>5, <1>6, <1>7, <1>8, <1>9, <1>10 DEF Next, Step

\* What a reader accepts, of any implementation, is what our writer would make of what
\* the reader then holds.
THEOREM AgreeingOneReading == Spec => [](Agree => OneReading)
<1>1. Init => ReadInv
    BY DEF Init, ReadInv
<1>2. TypeInv /\ ReadInv => (Agree => OneReading)
    <2> SUFFICES ASSUME TypeInv, ReadInv, Agree, stage = "accepted", Table[name].closed, ~Unwritten
                 PROVE  Encodes(stream, Table[name], version, got)
        BY DEF OneReading
    <2>1. /\ HoldsAll(Table[name], version, row, nth, stream, next, got)
          /\ next > Len(stream)
        BY DEF ReadInv
    <2>2. Len(stream) \in Nat /\ next = Len(stream) + 1
        BY <2>1 DEF TypeInv
    <2> QED BY <2>1, <2>2, EncodedAll
<1> QED BY <1>1, <1>2, ReadInvPreserved, TypesInvariance, PTL DEF Spec

-----------------------------------------------------------------------------
(* The versions that have to be looked at.                                  *)

\* A version is like the last one before it at which a method changes its course.
LEMMA LastChange ==
    ASSUME NEW t, t.fields \in Seq(Field), t.since \in Nat, NEW v \in Nat, v >= 10
    PROVE  \E w \in {10} \cup ChangePoints(t) :
               /\ w \in Nat /\ w <= v
               /\ \A p \in ChangePoints(t) : p <= v => p <= w
<1> DEFINE Before == {p \in {10} \cup ChangePoints(t) : p \in Nat /\ p <= v}
           Distance == {d \in Nat : v - d \in Before}
<1>1. ChangePoints(t) \subseteq Nat
    <2>1. \A i \in DOMAIN t.fields : t.fields[i] \in Field
        OBVIOUS
    <2>2. ASSUME NEW i \in DOMAIN t.fields
          PROVE  /\ t.fields[i].write.since \in Nat /\ t.fields[i].write.until \in Nat
                 /\ t.fields[i].read.since \in Nat /\ t.fields[i].read.until \in Nat
        BY <2>1 DEF Field, FieldEnd
    <2>3. \A n \in DOMAIN Table : Table[n].since \in Nat
        BY TableType
    <2> SUFFICES ASSUME NEW p \in ChangePoints(t) PROVE p \in Nat
        OBVIOUS
    <2>4. p = t.since \/ p \in GuardsOf(t) \/ \E type \in NestedIn(t) : p = Table[type].since
        BY DEF ChangePoints
    <2>5. ASSUME p \in GuardsOf(t) PROVE p \in Nat
        BY <2>2, <2>5 DEF GuardsOf
    <2>6. NestedIn(t) \subseteq DOMAIN Table
        BY DEF NestedIn
    <2> QED BY <2>3, <2>4, <2>5, <2>6
<1>2. v - 10 \in Distance
    <2>1. v - 10 \in Nat /\ v - (v - 10) = 10
        OBVIOUS
    <2> QED BY <2>1
<1>3. PICK d \in Distance : \A e \in Distance : <<e, d>> \notin OpToRel(<, Nat)
    <2>1. Distance \subseteq Nat /\ Distance # {}
        BY <1>2
    <2> HIDE DEF Distance
    <2> QED BY <2>1, WFMin, NatLessThanWellFounded, Zenon
<1>4. \A e \in Distance : ~(e < d)
    BY <1>3, Zenon DEF OpToRel
<1>5. d \in Nat /\ v - d \in Before
    BY <1>3
<1>6. ASSUME NEW p \in ChangePoints(t), p <= v
      PROVE  p <= v - d
    <2>1. p \in Nat /\ v - p \in Nat /\ v - (v - p) = p
        BY <1>1, <1>6
    <2>2. v - p \in Distance
        BY <1>6, <2>1
    <2>3. ~(v - p < d)
        BY <1>4, <2>2
    <2>4. d \in Nat
        BY <1>5
    <2> HIDE DEF Before, Distance
    <2> QED BY ONLY <2>1, <2>3, <2>4, v \in Nat
<1> QED BY <1>5, <1>6

\* Between two changes no guard tells the versions apart.
LEMMA SameGuards ==
    ASSUME NEW t, t.fields \in Seq(Field), NEW v \in Nat, NEW w \in Nat, w <= v,
           \A p \in ChangePoints(t) : p <= v => p <= w,
           NEW i \in DOMAIN t.fields
    PROVE  (Written(t, v, i) <=> Written(t, w, i)) /\ (Taken(t, v, i) <=> Taken(t, w, i))
<1> DEFINE put == t.fields[i].write
           take == t.fields[i].read
<1>1. put.since \in Nat /\ put.until \in Nat /\ take.since \in Nat /\ take.until \in Nat
    <2>1. t.fields[i] \in Field
        OBVIOUS
    <2> QED BY <2>1 DEF Field, FieldEnd
<1>2. {put.since, put.until, take.since, take.until} \subseteq ChangePoints(t)
    BY DEF ChangePoints, GuardsOf
<1>3. /\ (put.since <= v => put.since <= w) /\ (put.until <= v => put.until <= w)
      /\ (take.since <= v => take.since <= w) /\ (take.until <= v => take.until <= w)
    BY <1>2
<1>4. (In(v, put) <=> In(w, put)) /\ (In(v, take) <=> In(w, take))
    <2> HIDE DEF put, take
    <2> QED BY ONLY <1>1, <1>3, v \in Nat, w \in Nat, w <= v DEF In
<1> QED BY <1>4 DEF Written, Taken

\* A nested structure is refused below its own version, and in no other.
LEMMA SameSupport ==
    ASSUME NEW t, NEW v \in Nat, NEW w \in Nat, w <= v,
           \A p \in ChangePoints(t) : p <= v => p <= w,
           NEW i \in DOMAIN t.fields
    PROVE  Supports(v, t.fields[i].write.type) <=> Supports(w, t.fields[i].write.type)
<1> DEFINE type == t.fields[i].write.type
<1> DEFINE since == Table[type].since
<1>1. CASE type \in DOMAIN Table
    <2>1. type \in NestedIn(t)
        BY <1>1 DEF NestedIn
    <2>2. since \in {Table[n].since : n \in NestedIn(t)}
        <3> HIDE DEF type
        <3> QED BY <2>1
    <2>3. since \in ChangePoints(t)
        BY <2>2 DEF ChangePoints
    <2>4. since \in Nat
        BY <1>1, TableType
    <2>5. since <= v => since <= w
        BY <2>3
    <2>6. since <= v <=> since <= w
        <3> HIDE DEF since
        <3> QED BY ONLY <2>4, <2>5, v \in Nat, w \in Nat, w <= v
    <2> QED BY <2>6 DEF Supports
<1>2. CASE type \notin DOMAIN Table
    BY <1>2 DEF Supports
<1> QED BY <1>1, <1>2

\* What a structure's write does with an object and whether its read agrees is settled at
\* the versions of their guards: in every version from 1.0 on, the ones the package does
\* not know yet included, it is as in the last change before it.
THEOREM ChangesSettleVersions ==
    ASSUME NEW t, t.fields \in Seq(Field), t.since \in Nat, NEW v \in Nat, v >= 10, NEW h
    PROVE  \E w \in {10} \cup ChangePoints(t) :
               /\ w <= v
               /\ Writable(t, v, h) <=> Writable(t, w, h)
               /\ AgreeOn(t, v, h) <=> AgreeOn(t, w, h)
<1>1. PICK w \in {10} \cup ChangePoints(t) :
              w \in Nat /\ w <= v /\ \A p \in ChangePoints(t) : p <= v => p <= w
    BY LastChange
<1>2. \A i \in DOMAIN t.fields : /\ Written(t, v, i) <=> Written(t, w, i)
                                 /\ Taken(t, v, i) <=> Taken(t, w, i)
    BY <1>1, SameGuards
<1>3. AgreeOn(t, v, h) <=> AgreeOn(t, w, h)
    BY ONLY <1>2 DEF AgreeOn
<1>4. t.since <= v <=> t.since <= w
    <2>1. t.since \in ChangePoints(t)
        BY DEF ChangePoints
    <2> QED BY <1>1, <2>1
<1>5. EitherMissing(t, v, h) <=> EitherMissing(t, w, h)
    BY ONLY <1>2 DEF EitherMissing, Written
<1>6. \A i \in DOMAIN t.fields :
          Supports(v, t.fields[i].write.type) <=> Supports(w, t.fields[i].write.type)
    BY <1>1, SameSupport
<1>7. Writable(t, v, h) <=> Writable(t, w, h)
    BY ONLY <1>2, <1>4, <1>5, <1>6 DEF Writable, FieldWritable
<1> QED BY <1>1, <1>3, <1>7

-----------------------------------------------------------------------------
(* What is sent. *)

(* The fields before the writer's have what write asks for, and of its own field an item
   was made only if the version has it. *)
WriteInv ==
    /\ stage = "writing" =>
           /\ \A i \in DOMAIN Fields : i < row => FieldWritable(Table[name], version, given, i)
           /\ row <= Len(Fields) => nth <= Len(given[Writer.slot])
           /\ row <= Len(Fields) /\ nth > 0 => Supports(version, Writer.type)
           /\ row <= Len(Fields) =>
                 \A n \in 1..nth : Convertible(Writer.form, given[Writer.slot][n])
    /\ stage \in {"sent", "reading", "accepted", "refused"} =>
           Writable(Table[name], version, given)

\* A write that begins has made nothing.
LEMMA WriteInvInitially == Init /\ TypeInv => WriteInv
<1> SUFFICES ASSUME Init, TypeInv PROVE WriteInv
    OBVIOUS
<1>1. stage = "writing" /\ row = 1 /\ nth = 0
    BY DEF Init
<1>2. row <= Len(Fields) => Len(given[Writer.slot]) \in Nat
    BY <1>1, FieldsTyped DEF TypeInv, Writer
<1>3. \A i \in DOMAIN Fields : ~(i < row)
    BY <1>1, FieldsTyped
<1> QED BY <1>1, <1>2, <1>3 DEF WriteInv

\* Write goes on to the next field, or ends, only over fields that it could write.
LEMMA WriteInvPreserved ==
    ASSUME TypeInv, WriteInv, [Next]_vars
    PROVE  WriteInv'
<1> DEFINE t == Table[name]
<1>1. name' = name /\ version' = version /\ given' = given /\ Fields' = Fields
    BY Constants DEF Fields
<1>2. /\ Len(Fields) \in Nat /\ DOMAIN Fields = 1..Len(Fields) /\ row \in Nat \ {0} /\ nth \in Nat
      /\ \A i \in DOMAIN Fields : /\ Fields[i].write.slot \in Slots(t)
                                  /\ Len(given[Fields[i].write.slot]) \in Nat
    <2>1. given \in [Slots(t) -> Seq(Contents)]
        BY DEF TypeInv
    <2> QED BY <2>1, FieldsTyped DEF TypeInv
<1>3. CASE WriteItem
    <2>1. /\ stage = "writing" /\ stage' = "writing" /\ row' = row /\ nth' = nth + 1
          /\ row <= Len(Fields) /\ nth < Len(given[Writer.slot]) /\ Supports(version, Writer.type)
          /\ Convertible(Writer.form, given[Writer.slot][nth + 1])
        BY <1>3 DEF WriteItem, Pending, ItemWritable
    <2>2. Writer' = Writer
        BY <1>1, <2>1 DEF Writer
    <2>3. nth + 1 <= Len(given[Writer.slot])
        BY <1>2, <2>1 DEF Writer
    <2>4. \A n \in 1..(nth + 1) : Convertible(Writer.form, given[Writer.slot][n])
        <3>1. \A n \in 1..nth : Convertible(Writer.form, given[Writer.slot][n])
            BY <2>1 DEF WriteInv
        <3>2. \A n \in 1..(nth + 1) : n \in 1..nth \/ n = nth + 1
            BY <1>2
        <3> QED BY ONLY <2>1, <3>1, <3>2
    <2> QED BY <1>1, <2>1, <2>2, <2>3, <2>4 DEF WriteInv
<1>4. CASE WriteNext
    <2>1. /\ stage = "writing" /\ stage' = "writing" /\ row' = row + 1 /\ nth' = 0
          /\ row <= Len(Fields) /\ ~Pending
          /\ In(version, Writer) => nth >= Writer.min
        BY <1>4 DEF WriteNext
    <2>2. /\ nth <= Len(given[Writer.slot]) /\ (nth > 0 => Supports(version, Writer.type))
          /\ \A n \in 1..nth : Convertible(Writer.form, given[Writer.slot][n])
        BY <2>1 DEF WriteInv
    <2>3. row \in DOMAIN Fields /\ Len(given[Writer.slot]) \in Nat
        BY <1>2, <2>1 DEF Writer
    <2>4. In(version, Writer) => nth = Len(given[Writer.slot])
        BY <1>2, <2>1, <2>2, <2>3 DEF Pending
    <2>5. FieldWritable(t, version, given, row)
        BY <1>2, <2>1, <2>2, <2>3, <2>4 DEF FieldWritable, Written, Of, Writer, Fields
    <2>6. \A i \in DOMAIN Fields : i < row + 1 => i < row \/ i = row
        BY <1>2
    <2>7. \A i \in DOMAIN Fields : i < row' => FieldWritable(t, version, given, i)
        BY <2>1, <2>5, <2>6 DEF WriteInv
    <2>8. row' <= Len(Fields) => 0 <= Len(given[Fields[row'].write.slot])
        BY <1>2, <2>1
    <2> QED BY <1>1, <2>1, <2>7, <2>8 DEF WriteInv, Writer
<1>5. CASE WriteEnds
    <2>1. /\ stage = "writing" /\ stage' = "sent" /\ row > Len(Fields) /\ ~Unwritable
        BY <1>5 DEF WriteEnds
    <2>2. \A i \in DOMAIN Fields : FieldWritable(t, version, given, i)
        BY <1>2, <2>1 DEF WriteInv
    <2>3. ~(version < t.since) /\ ~EitherMissing(t, version, given)
        BY <2>1 DEF Unwritable
    <2>4. t.since <= version
        BY <2>3, TableType DEF TypeInv
    <2>5. Writable(t, version, given)
        BY <2>2, <2>3, <2>4 DEF Writable, Fields
    <2> QED BY <1>1, <2>1, <2>5 DEF WriteInv
<1>6. CASE WriteRaises
    BY <1>6 DEF WriteRaises, WriteInv
<1>7. CASE Alter \/ ReadBegins \/ ReadItem \/ ReadNext \/ ReadRaises \/ ReadEnds
    <2>1. /\ stage \in {"sent", "reading"}
          /\ stage' \in {"sent", "reading", "accepted", "refused"}
        BY <1>7 DEF Alter, ReadBegins, ReadItem, ReadNext, ReadRaises, ReadEnds
    <2> QED BY <1>1, <2>1 DEF WriteInv
<1>8. CASE UNCHANGED vars
    BY <1>1, <1>8 DEF vars, WriteInv, Writer
<1> QED BY <1>3, <1>4, <1>5, <1>6, <1>7, <1>8 DEF Next, Step

\* Only what a structure's write accepts gets onto the wire.
LEMMA SentIsWritable == Spec => []WriteInv
<1>1. TypeInv /\ WriteInv /\ [Next]_vars => WriteInv'
    BY WriteInvPreserved
<1> QED BY <1>1, WriteInvInitially, TypesInvariance, PTL DEF Spec

(* The two methods agree over every object that write accepts, in the versions in which
   they change their course: finitely many for a finite set of objects.  The run over the
   tables of the package looks at them for the structures that it offers; it is not true
   of those that it leaves out. *)
ChangesAgree ==
    \A n \in DOMAIN Offers : \A o \in Offers[n] :
        /\ o.version >= 10
        /\ \A w \in {10} \cup ChangePoints(Table[n]) :
               w <= o.version /\ Writable(Table[n], w, o.value) => AgreeOn(Table[n], w, o.value)

(* What is exchanged is one of the offers. *)
Offered == name \in DOMAIN Offers /\ \E o \in Offers[name] : version = o.version /\ given = o.value

\* If the two methods agree where they change, they agree over all that gets onto the wire.
LEMMA WrittenAgrees ==
    ASSUME ChangesAgree, Offered, TypeInv, WriteInv
    PROVE  stage \in {"sent", "reading", "accepted", "refused"} => Agree
<1> SUFFICES ASSUME Writable(Table[name], version, given) PROVE Agree
    BY DEF WriteInv
<1> DEFINE t == Table[name]
<1>1. t.fields \in Seq(Field) /\ t.since \in Nat /\ version \in Nat
    BY TableType DEF TypeInv
<1>2. PICK o \in Offers[name] : version = o.version /\ given = o.value
    BY DEF Offered
<1>3. version >= 10
    BY <1>2 DEF Offered, ChangesAgree
<1>4. PICK w \in {10} \cup ChangePoints(t) :
          /\ w <= version
          /\ Writable(t, version, given) <=> Writable(t, w, given)
          /\ AgreeOn(t, version, given) <=> AgreeOn(t, w, given)
    BY <1>1, <1>3, ChangesSettleVersions
<1>5. AgreeOn(t, w, given)
    BY <1>2, <1>4 DEF Offered, ChangesAgree
<1> QED BY <1>4, <1>5, AgreeIsAgreeOn

\* What is offered stays what it was.
LEMMA OfferedStays == Spec => []Offered
<1>1. Init => Offered
    BY DEF Init, Offered
<1>2. Offered /\ [Next]_vars => Offered'
    BY Constants DEF Offered
<1> QED BY <1>1, <1>2, PTL DEF Spec

\* If they agree where they change, every object that gets onto the wire, in whatever
\* version, is one that the reading class agrees over.
THEOREM WhatIsSentAgrees == ASSUME ChangesAgree PROVE Spec => []SentAgrees
<1>1. Offered /\ TypeInv /\ WriteInv => SentAgrees
    BY WrittenAgrees DEF SentAgrees
<1> QED BY <1>1, OfferedStays, TypesInvariance, SentIsWritable, PTL

\* If they agree where they change, every exchange, in whatever version, ends with what
\* the conversions leave of what was written, or is refused for an attribute that the
\* reader has no class for; what another implementation made has its one reading.
THEOREM ChangesSettleExchanges ==
    ASSUME ChangesAgree PROVE Spec => [](RoundTrip /\ WrittenIsReadable /\ OneReading)
<1>1. Offered /\ TypeInv /\ WriteInv => (stage \in {"accepted", "refused"} => Agree)
    BY WrittenAgrees
<1>2. (stage \in {"accepted", "refused"} => Agree)
      /\ (Agree => RoundTrip) /\ (Agree => WrittenIsReadable) /\ (Agree => OneReading)
      => RoundTrip /\ WrittenIsReadable /\ OneReading
    BY DEF RoundTrip, WrittenIsReadable, OneReading
<1> QED BY <1>1, <1>2, OfferedStays, TypesInvariance, SentIsWritable, AgreeingRoundTrip,
           AgreeingReadable, AgreeingOneReading, PTL
=============================================================================
