------------------------------ MODULE TtlvRows ------------------------------
(***************************************************************************)
(* The vocabulary of the field tables.  A row of a table is one field of a *)
(* structure: what its write method does with it and what its read method  *)
(* does with it, which nearly always is the same.  A tag has the name it   *)
(* has in enums.Tags; a type is a primitive of primitives.py or the class  *)
(* of a nested structure.  Versions are numbers: 12 is KMIP 1.2.           *)
(***************************************************************************)
EXTENDS Integers

Never  == 99    \* later than every version of KMIP
Unbounded == 99 \* more items than any list of the model has

\* Structures that keep their attributes by name, and structures that keep them by tag.
AttributesByName ==
    {"Attribute", "TemplateAttribute", "CommonTemplateAttribute", "PrivateKeyTemplateAttribute",
     "PublicKeyTemplateAttribute", "KeyValue", "KeyBlock", "SymmetricKey", "PublicKey",
     "PrivateKey", "SplitKey", "SecretData", "Template"}
AttributesByTag ==
    {"AttributeValue", "Attributes", "NewAttribute", "CurrentAttribute", "ObjectDefaults",
     "DefaultsInformation"}

\* How the attributes in a field are encoded (AttributeStyles).
FormOf(type) == IF type \in AttributesByName THEN "named"
                ELSE IF type \in AttributesByTag THEN "tagged" ELSE "plain"

End(tag, type, min, max) ==
    [slot |-> tag, tag |-> tag, type |-> type, types |-> {type}, form |-> FormOf(type),
     since |-> 10, until |-> Never, min |-> min, max |-> max]

Both(end) == [write |-> end, read |-> end]

\* "if is_tag_next: read, else: raise" and "if self._x: write, else: raise".
Required(tag, type) == Both(End(tag, type, 1, 1))

\* "if is_tag_next: read" and "if self._x: write".
Optional(tag, type) == Both(End(tag, type, 0, 1))

\* "while is_tag_next: read and append" and "for x in self._xs: write".
Repeated(tag, type) == Both(End(tag, type, 0, Unbounded))

\* A list that both methods refuse when it is empty.
AtLeastOne(tag, type) == Both(End(tag, type, 1, Unbounded))

\* As many items as an earlier field announced.
Times(count, tag, type) == Both(End(tag, type, count, count))

\* The field exists from version v on, or up to it.
From(v, field) == [write |-> [field.write EXCEPT !.since = v], read |-> [field.read EXCEPT !.since = v]]
Before(v, field) == [write |-> [field.write EXCEPT !.until = v], read |-> [field.read EXCEPT !.until = v]]
Absent(tag, type) == Before(10, Optional(tag, type))

\* The two methods do not treat the field alike.
Differ(writing, reading) == [write |-> writing.write, read |-> reading.read]
Reads(types, field) == [field EXCEPT !.read.types = types]
ReadOnly(field) == Differ(Before(10, field), field)

\* The field is kept in the attribute of another one.
As(slot, field) == [write |-> [field.write EXCEPT !.slot = slot], read |-> [field.read EXCEPT !.slot = slot]]

\* What the object holds is converted by write and converted back by read.
Converted(form, field) == [write |-> [field.write EXCEPT !.form = form], read |-> [field.read EXCEPT !.form = form]]

\* From KMIP 2.0 on a template, or a list of attributes, travels as an Attributes structure.
AsAttributes(slot, field) == As(slot, From(20, Converted("attributes", field)))

Structure(fields) == [since |-> 10, closed |-> TRUE, either |-> {}, fields |-> fields]

\* Both methods raise VersionNotSupported below version v.
Since(v, structure) == [structure EXCEPT !.since = v]

\* read ends without is_oversized.
Open(structure) == [structure EXCEPT !.closed = FALSE]

\* Both methods ask for one of some optional fields.
OneOf(slots, structure) == [structure EXCEPT !.either = slots]
=============================================================================
