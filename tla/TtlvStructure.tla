---------------------------- MODULE TtlvStructure ----------------------------
(***************************************************************************)
(* How every KMIP structure of kmip/core is written and read.  The read    *)
(* and write methods of the structures are the same program over different *)
(* fields: write goes down its list of fields, encodes the ones that are   *)
(* set and raises for a required one that is not; read goes down its own   *)
(* list, takes an item when its tag is next in the buffer, raises for a    *)
(* required one that is not there, and ends with is_oversized, which       *)
(* raises when a byte is left.  A table gives both lists of a structure,   *)
(* row by row (TtlvRows, PayloadTables, ObjectTables); this module is the  *)
(* program.  How the attributes that a field holds are put into an item    *)
(* and taken out of it is left to the operators of AttributeStyles.        *)
(***************************************************************************)
EXTENDS Integers, Sequences, FiniteSets

CONSTANTS Table,    \* structure name -> [since, closed, either, fields]
          Contents, \* what a field may hold
          Offers,   \* structure name -> set of [version, value], value: slot -> contents
          Peers,    \* ways a foreign peer's encoding may differ from ours
          Convertible(_, _), \* form, contents: write does not raise on them
          ToWire(_, _),      \* form, contents: what write puts into the item
          Creatable(_, _),   \* form, item's content: read has classes for it
          FromWire(_, _),    \* form, item's content: what read makes of it
          Kept(_, _),        \* form, contents: what the other end should hold of them
          Rephrasings(_)     \* what another implementation may write for one of our items

VARIABLES name,     \* the structure being exchanged
          version,  \* the kmip_version both methods are called with
          given,    \* slot -> sequence of contents the writing object holds
          stage,    \* where the exchange is
          row,      \* the field the method is at
          nth,      \* how many items of that field it has handled
          stream,   \* the items of the encoding
          next,     \* the next item in the reader's buffer
          got,      \* slot -> sequence of contents the reading object holds
          altered   \* the encoding is not the one our writer made

vars == <<name, version, given, stage, row, nth, stream, next, got, altered>>

Stages == {"writing", "sent", "reading", "accepted", "refused", "notWritten"}

Fields == Table[name].fields
Writer == Fields[row].write
Reader == Fields[row].read

Slots(t) == {t.fields[i].write.slot : i \in DOMAIN t.fields}
              \cup {t.fields[i].read.slot : i \in DOMAIN t.fields}

\* One method's end of a field.
FieldEnd == [slot : STRING, tag : STRING, type : STRING, types : SUBSET STRING,
             form : STRING, since : Nat, until : Nat, min : Nat, max : Nat]

Field == [write : FieldEnd, read : FieldEnd]

ASSUME TableType ==
    \A n \in DOMAIN Table : Table[n].fields \in Seq(Field) /\ Table[n].since \in Nat

ASSUME OfferType ==
    /\ DOMAIN Offers \subseteq DOMAIN Table
    /\ \A n \in DOMAIN Offers : \A o \in Offers[n] :
          o.version \in Nat /\ o.value \in [Slots(Table[n]) -> Seq(Contents)]

\* A version guard of the method: "if kmip_version >= ..." and "< ...".
In(v, end) == end.since <= v /\ v < end.until

\* A nested structure raises VersionNotSupported below its own version.
Supports(v, type) == type \in DOMAIN Table => Table[type].since <= v

\* The versions in the guards of the two methods of t.
GuardsOf(t) ==
    UNION {{t.fields[i].write.since, t.fields[i].write.until,
            t.fields[i].read.since, t.fields[i].read.until} : i \in DOMAIN t.fields}

NestedIn(t) == DOMAIN Table \cap {t.fields[i].write.type : i \in DOMAIN t.fields}

\* The versions at which a method of t, or of a structure in it, changes its course.
ChangePoints(t) == {t.since} \cup GuardsOf(t) \cup {Table[type].since : type \in NestedIn(t)}

\* Some structures ask for one of several optional fields.
EitherMissing(t, v, held) ==
    /\ \E i \in DOMAIN t.fields : t.fields[i].write.slot \in t.either /\ In(v, t.fields[i].write)
    /\ \A slot \in t.either : held[slot] = << >>

Init == /\ name \in DOMAIN Offers
        /\ \E offer \in Offers[name] : version = offer.version /\ given = offer.value
        /\ stage = "writing" /\ row = 1 /\ nth = 0
        /\ stream = << >> /\ next = 1
        /\ got = [slot \in Slots(Table[name]) |-> << >>]
        /\ altered = FALSE

-----------------------------------------------------------------------------
(* write *)

Pending == In(version, Writer) /\ nth < Len(given[Writer.slot])

\* The n-th item of field i.  An item remembers this; no method looks at it.
Item(i, n) == [tag |-> Fields[i].write.tag, type |-> Fields[i].write.type,
               content |-> ToWire(Fields[i].write.form, given[Fields[i].write.slot][n]),
               field |-> i, nth |-> n]

\* The next item can be written: what is to be converted has its counterpart.
ItemWritable == Supports(version, Writer.type) /\ Convertible(Writer.form, given[Writer.slot][nth + 1])

WriteItem ==
    /\ stage = "writing" /\ row <= Len(Fields) /\ Table[name].since <= version
    /\ Pending /\ ItemWritable
    /\ stream' = Append(stream, Item(row, nth + 1))
    /\ nth' = nth + 1
    /\ UNCHANGED <<name, version, given, stage, row, next, got, altered>>

WriteNext ==
    /\ stage = "writing" /\ row <= Len(Fields) /\ Table[name].since <= version
    /\ ~Pending
    /\ In(version, Writer) => nth >= Writer.min
    /\ row' = row + 1 /\ nth' = 0
    /\ UNCHANGED <<name, version, given, stage, stream, next, got, altered>>

Unwritable ==
    \/ version < Table[name].since
    \/ /\ row <= Len(Fields) /\ In(version, Writer)
       /\ Len(given[Writer.slot]) < Writer.min \/ (Pending /\ ~ItemWritable)
    \/ row > Len(Fields) /\ EitherMissing(Table[name], version, given)

\* VersionNotSupported, InvalidField, AttributeNotSupported, ValueError, or a field that is
\* None.
WriteRaises ==
    /\ stage = "writing" /\ Unwritable
    /\ stage' = "notWritten"
    /\ UNCHANGED <<name, version, given, row, nth, stream, next, got, altered>>

WriteEnds ==
    /\ stage = "writing" /\ row > Len(Fields) /\ ~Unwritable
    /\ stage' = "sent"
    /\ UNCHANGED <<name, version, given, row, nth, stream, next, got, altered>>

-----------------------------------------------------------------------------
(* Another implementation may encode the structure in its own way: leave an *)
(* item out, repeat one, put two in another order, add one we do not know,  *)
(* or say one in another way.                                               *)

Swapped(i) == [j \in DOMAIN stream |->
                 IF j = i THEN stream[i + 1] ELSE IF j = i + 1 THEN stream[i] ELSE stream[j]]
Without(i) == SubSeq(stream, 1, i - 1) \o SubSeq(stream, i + 1, Len(stream))
With(i, item) == SubSeq(stream, 1, i - 1) \o <<item>> \o SubSeq(stream, i, Len(stream))
Foreign == [tag |-> "EXTENSION", type |-> "TextString", content |-> "foreign",
            field |-> 0, nth |-> 0]

Alter ==
    /\ stage = "sent" /\ ~altered /\ altered' = TRUE
    /\ \/ "omits" \in Peers /\ \E i \in 1..Len(stream) : stream' = Without(i)
       \/ "repeats" \in Peers /\ \E i \in 1..Len(stream) : stream' = With(i, stream[i])
       \/ "reorders" \in Peers /\ \E i \in 1..(Len(stream) - 1) : stream' = Swapped(i)
       \/ "extends" \in Peers /\ \E i \in 1..(Len(stream) + 1) : stream' = With(i, Foreign)
       \/ "rephrases" \in Peers /\ \E i \in 1..Len(stream) : \E item \in Rephrasings(stream[i]) :
             stream' = [stream EXCEPT ![i] = item]
    /\ UNCHANGED <<name, version, given, stage, row, nth, next, got>>

-----------------------------------------------------------------------------
(* read *)

ReadBegins ==
    /\ stage = "sent"
    /\ stage' = IF version < Table[name].since THEN "refused" ELSE "reading"
    /\ row' = 1 /\ nth' = 0 /\ next' = 1
    /\ UNCHANGED <<name, version, given, stream, got, altered>>

\* is_tag_next, under the version guard of the field.
TagNext == /\ In(version, Reader) /\ nth < Reader.max
           /\ next <= Len(stream) /\ stream[next].tag = Reader.tag

\* The nested read checks the type and decodes the value.
Decodable == /\ stream[next].type \in Reader.types /\ Supports(version, stream[next].type)
             /\ Creatable(Reader.form, stream[next].content)

\* A single field is assigned, a repeated one is appended to its list.
Store(content) ==
    IF Reader.max = 1 THEN <<content>> ELSE Append(got[Reader.slot], content)

\* Fault: the buffer is moved on by the length of the structure and not of the item.
ReadItemTooFar ==
    /\ stage = "reading" /\ row <= Len(Fields) /\ TagNext /\ Decodable
    /\ got' = [got EXCEPT ![Reader.slot] = Store(FromWire(Reader.form, stream[next].content))]
    /\ next' = next + 2 /\ nth' = nth + 1
    /\ UNCHANGED <<name, version, given, stage, row, stream, altered>>

ReadItem ==
    /\ stage = "reading" /\ row <= Len(Fields) /\ TagNext /\ Decodable
    /\ got' = [got EXCEPT ![Reader.slot] = Store(FromWire(Reader.form, stream[next].content))]
    /\ next' = next + 1 /\ nth' = nth + 1
    /\ UNCHANGED <<name, version, given, stage, row, stream, altered>>

ReadNext ==
    /\ stage = "reading" /\ row <= Len(Fields) /\ ~TagNext
    /\ In(version, Reader) => nth >= Reader.min
    /\ row' = row + 1 /\ nth' = 0
    /\ UNCHANGED <<name, version, given, stage, stream, next, got, altered>>

\* Fault: no is_oversized.
UnreadableUnlessOversized ==
    \/ row <= Len(Fields) /\ TagNext /\ ~Decodable
    \/ row <= Len(Fields) /\ ~TagNext /\ In(version, Reader) /\ nth < Reader.min
    \/ row > Len(Fields) /\ EitherMissing(Table[name], version, got)

Unreadable ==
    \/ row <= Len(Fields) /\ TagNext /\ ~Decodable
    \/ row <= Len(Fields) /\ ~TagNext /\ In(version, Reader) /\ nth < Reader.min
    \/ row > Len(Fields) /\ EitherMissing(Table[name], version, got)
    \/ row > Len(Fields) /\ Table[name].closed /\ next <= Len(stream)

\* InvalidKmipEncoding, ReadValueError or StreamNotEmptyError.
ReadRaises ==
    /\ stage = "reading" /\ Unreadable
    /\ stage' = "refused"
    /\ UNCHANGED <<name, version, given, row, nth, stream, next, got, altered>>

ReadEnds ==
    /\ stage = "reading" /\ row > Len(Fields) /\ ~Unreadable
    /\ stage' = "accepted"
    /\ UNCHANGED <<name, version, given, row, nth, stream, next, got, altered>>

-----------------------------------------------------------------------------
Step == \/ WriteItem \/ WriteNext \/ WriteRaises \/ WriteEnds
        \/ ReadBegins \/ ReadItem \/ ReadNext \/ ReadRaises \/ ReadEnds

Next == Step \/ Alter

Spec == Init /\ [][Next]_vars

-----------------------------------------------------------------------------
(* Properties *)

TypeOK ==
    /\ name \in DOMAIN Table
    /\ version \in Nat
    /\ stage \in Stages
    /\ row \in 1..(Len(Fields) + 1) /\ nth \in Nat
    /\ next \in 1..(Len(stream) + 1)
    /\ DOMAIN got = DOMAIN given
    /\ altered \in BOOLEAN

\* The two methods agree on the fields: what is written is read, in the same
\* place, and no tag stands for two fields of one version.
Puts(i) == In(version, Fields[i].write)
Takes(i) == In(version, Fields[i].read)
Held(i) == given[Fields[i].write.slot]

\* What write makes of contents read turns into what should be left of them.
ConvertsBack(field, c) ==
    LET item == ToWire(field.write.form, c)
    IN  Convertible(field.write.form, c) /\ Creatable(field.read.form, item) =>
            FromWire(field.read.form, item) = Kept(field.write.form, c)

Agree ==
    /\ \A i \in DOMAIN Fields : Puts(i) =>
           /\ Takes(i) /\ Fields[i].read.slot = Fields[i].write.slot
           /\ Fields[i].read.tag = Fields[i].write.tag
           /\ Fields[i].write.type \in Fields[i].read.types
           /\ Len(Held(i)) >= Fields[i].write.min => Len(Held(i)) \in Fields[i].read.min..Fields[i].read.max
           /\ \A n \in 1..Len(Held(i)) : ConvertsBack(Fields[i], Held(i)[n])
    /\ \A i \in DOMAIN Fields : Takes(i) /\ ~Puts(i) => Fields[i].read.min = 0
    /\ \A i, j \in DOMAIN Fields : i # j /\ Puts(j) =>
           /\ Takes(i) => Fields[i].read.tag # Fields[j].write.tag
           /\ Puts(i) => Fields[i].write.slot # Fields[j].write.slot
    /\ (\E i \in DOMAIN Fields : Puts(i) /\ Fields[i].write.slot \in Table[name].either) =>
           \A slot \in Table[name].either : \E i \in DOMAIN Fields : Puts(i) /\ Fields[i].write.slot = slot

\* Whatever is on the wire was written by a class whose reader agrees with it: the
\* premise of the theorems of TtlvProofs, which the tables have to meet.
SentAgrees == stage = "sent" => Agree

\* What our writer made is read back: every field that the version has holds, item by
\* item, what should be left of it, and no other field holds anything (the read methods
\* assign field by field, some convert, and nothing compares the result with what was sent).
RoundTrip ==
    stage = "accepted" /\ ~altered =>
        /\ \A i \in DOMAIN Fields : Puts(i) =>
               got[Fields[i].write.slot] =
                   [n \in 1..Len(Held(i)) |-> Kept(Fields[i].write.form, Held(i)[n])]
        /\ \A slot \in DOMAIN got :
               (\A i \in DOMAIN Fields : Puts(i) => Fields[i].write.slot # slot) => got[slot] = << >>

\* The object holds an attribute that the reading factory has no class for.
Uncreatable ==
    \E i \in DOMAIN Fields : /\ Puts(i)
                            /\ \E n \in 1..Len(Held(i)) :
                                  ~Creatable(Fields[i].read.form, ToWire(Fields[i].write.form, Held(i)[n]))

\* What one end's writer accepts, the other end's reader of the same version accepts,
\* but for attributes it has no class for: a client cannot build any other request, nor
\* the server another answer, that the peer's copy of the same class raises on.
WrittenIsReadable == stage = "refused" => altered \/ Uncreatable

\* The items that the writer makes of contents, by their field and number, in the order
\* in which it makes them.
Entries(t, v, held) ==
    UNION {{i} \X DOMAIN held[t.fields[i].write.slot] :
              i \in {j \in DOMAIN t.fields : In(v, t.fields[j].write)}}

Earlier(d, e) == d[1] < e[1] \/ (d[1] = e[1] /\ d[2] < e[2])

Place(t, v, held, e) == 1 + Cardinality({d \in Entries(t, v, held) : Earlier(d, e)})

Encodes(s, t, v, held) ==
    /\ Len(s) = Cardinality(Entries(t, v, held))
    /\ \A e \in Entries(t, v, held) :
          LET end == t.fields[e[1]].write
              item == s[Place(t, v, held, e)]
          IN  item.tag = end.tag /\ item.content = ToWire(end.form, held[end.slot][e[2]])

\* Our writer makes this item of what our reader makes of it.
WritesBack(field, content) ==
    LET held == FromWire(field.read.form, content)
    IN  Convertible(field.write.form, held) /\ ToWire(field.write.form, held) = content

\* An item is there that the reader takes and no writer of this version makes.
Unwritten ==
    \E i \in DOMAIN Fields : \E p \in DOMAIN stream :
        /\ Takes(i) /\ stream[p].tag = Fields[i].read.tag
        /\ ~(Puts(i) /\ WritesBack(Fields[i], stream[p].content))

\* A message has one reading.  What a reader accepts of another implementation is
\* the encoding of what it holds afterwards: no item is passed over, taken for
\* another field, overwritten by a later one or accepted out of order.  (A read
\* method without is_oversized passes over what follows its last field.)
OneReading ==
    stage = "accepted" /\ Table[name].closed /\ ~Unwritten =>
        Encodes(stream, Table[name], version, got)

=============================================================================
