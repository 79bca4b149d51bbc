-------------------------- MODULE MCAttributeStore --------------------------
(* Attributes for TLC: one that is a list of names, one of groups, one column, and one
   for each way in which an attribute is refused. *)
EXTENDS AttributeStore

MCNames == Lists \cup Singles
              \cup {"Link", "Digest", "Contact Information", "Operation Policy Name"}

MCValues == [a \in MCNames |-> IF a \in Singles THEN {Unset, "set"}
                               ELSE IF a = "Name" THEN {"p", "q"} ELSE {"p"}]

MCIndexes == {-2, -1, 0, 1}

MCFilters == {[values |-> {<<"Name", "p">>}, dates |-> {1, 2}]}
=============================================================================
