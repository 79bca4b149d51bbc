--------------------------- MODULE AttributeStyles ---------------------------
(***************************************************************************)
(* The two styles of KMIP attributes.  Before KMIP 2.0 an attribute is a   *)
(* structure with its name, an optional index and the value; from 2.0 on   *)
(* it is the value alone, known by its tag.  The classes of kmip/core keep *)
(* the first style and convert to the second one and back.  The attributes *)
(* here stand for all of enums.py by what the code does with them:         *)
(*   State                  a class by name and by tag, in KMIP 2.0        *)
(*   Certificate Type       a class by name only, in KMIP 2.0              *)
(*   Link                   no class, in KMIP 2.0                          *)
(*   Operation Policy Name  a class by name and by tag, not in KMIP 2.0    *)
(*   x-Custom               a class by name, and no tag                    *)
(***************************************************************************)
EXTENDS Sequences, TLC

LOCAL INSTANCE Functions

attribute_name_tag_table ==
    "State" :> "STATE" @@ "Certificate Type" :> "CERTIFICATE_TYPE" @@ "Link" :> "LINK"
        @@ "Operation Policy Name" :> "OPERATION_POLICY_NAME"

convert_attribute_name_to_tag(attribute) == attribute_name_tag_table[attribute]
convert_attribute_tag_to_name(tag) == AntiFunction(attribute_name_tag_table)[tag]

AttributeNames == DOMAIN attribute_name_tag_table \cup {"x-Custom"}

\* Under KMIP 2.0.
is_attribute(tag) == tag \in {"STATE", "CERTIFICATE_TYPE", "LINK"}

\* Where the value factory does not raise NotImplementedError or ValueError.
create_attribute_value(attribute) == attribute # "Link"
create_attribute_value_by_enum(tag) == tag \in {"STATE", "OPERATION_POLICY_NAME"}

-----------------------------------------------------------------------------
(* The contents of a field: what is of no concern to the conversions, the  *)
(* attributes in it by name or by tag, and what goes beside them: the      *)
(* names of a template, the index of an attribute, the vendor of a         *)
(* reference.                                                              *)

Among(c) == Range(c.attributes)

Tagged(attributes) == [k \in DOMAIN attributes |-> convert_attribute_name_to_tag(attributes[k])]
Named(attributes) == [k \in DOMAIN attributes |-> convert_attribute_tag_to_name(attributes[k])]

Converting == {"attributes", "reference"}

\* write raises ValueError for a name without a tag, AttributeNotSupported for a tag that
\* is no attribute of KMIP 2.0.
Encodable(form, c) ==
    /\ form \in Converting => Among(c) \subseteq DOMAIN attribute_name_tag_table
    /\ form = "attributes" => \A n \in Among(c) : is_attribute(convert_attribute_name_to_tag(n))
    /\ form = "tagged" => \A tag \in Among(c) : is_attribute(tag)

\* What write puts into the encoding.
Encode(form, c) ==
    IF form \in Converting THEN [c EXCEPT !.attributes = Tagged(@), !.beside = {}] ELSE c

\* read raises for an attribute that its factory has no class for.
Readable(form, c) ==
    /\ form = "named" => \A n \in Among(c) : create_attribute_value(n)
    /\ form \in {"tagged", "attributes"} =>
           \A tag \in Among(c) : is_attribute(tag) /\ create_attribute_value_by_enum(tag)

\* Fault: the templates that read makes of several attributes have the first one alone.
DecodeFirst(form, c) ==
    IF form \notin Converting THEN c
    ELSE [c EXCEPT !.attributes = IF "vendor" \in c.beside THEN @ ELSE Named(SubSeq(@, 1, 1)),
                   !.beside = {}]

\* What read makes of it.  A reference with a vendor has the name itself.
Decode(form, c) ==
    IF form \notin Converting THEN c
    ELSE [c EXCEPT !.attributes = IF "vendor" \in c.beside THEN @ ELSE Named(@),
                   !.beside = {}]

\* What the other end should hold of c: all of it, but for the names of a template and the
\* indexes of its attributes, which an Attributes structure has no place for.
Delivered(form, c) == IF form = "attributes" THEN [c EXCEPT !.beside = {}] ELSE c

\* Another implementation may refer to an attribute by its vendor and its name, also to one
\* that has no tag, where ours writes the number of the tag.
Rephrased(item) ==
    IF item.tag = "ATTRIBUTE_REFERENCE" /\ item.type = "Enumeration"
    THEN {[item EXCEPT !.type = "AttributeReference",
                       !.content.attributes = attributes, !.content.beside = {"vendor"}] :
             attributes \in {Named(item.content.attributes), <<"x-Custom">>}}
    ELSE {}
=============================================================================
