---------------------------- MODULE AttributeStore ----------------------------
(***************************************************************************)
(* The attribute operations of the KmipEngine on its database session:     *)
(* SetAttribute, ModifyAttribute and DeleteAttribute in their forms for    *)
(* KMIP 1.x (by index) and 2.0 (by value or by reference), the attributes  *)
(* that new objects are given, and Locate, whose clients may page through  *)
(* its result.  An operation changes the objects of the session and then   *)
(* commits; the commit may fail and the server may die in between.  The    *)
(* lists of an object are rows of other tables, which Destroy leaves there.*)
(*                                                                         *)
(* Who may access which object is the subject of KmipEngine: here all      *)
(* objects belong to the one client that the batches are from.             *)
(***************************************************************************)
EXTENDS AttributePolicy, Integers, Sequences, FiniteSets

CONSTANTS Names,     \* attributes that the requests of the model name
          Lists,     \* ... of them those kept as lists of instances
          Singles,   \* ... and those kept in a column
          Values,    \* what clients give an attribute: [Names -> SUBSET ...]
          Unset,     \* the value of a column that Python takes for false
          Types,     \* object types of the model
          Versions,  \* KMIP versions of the requests
          Indexes,   \* attribute indexes that clients send
          Filters,   \* what clients search by: [values, dates]
          PageSize,  \* maximum of items that a client pages with
          MaxUid,    \* bound: objects ever created
          MaxLength, \* bound: instances of one or two attributes that an object is given
          MaxDate    \* bound: times of creation

ASSUME StoreAssumption ==
    /\ Names \subseteq AttributeNames
    /\ Lists \subseteq Names \cap Multivalued /\ Singles \subseteq Names \ Multivalued
    /\ Lists \subseteq {"Name", "Object Group", "Application Specific Information"}
    /\ MaxUid \in Nat /\ MaxDate \in Nat /\ MaxLength \in Nat
    /\ PageSize \in Nat \ {0} /\ Indexes \subseteq Int

VARIABLES table,   \* the committed rows: [row, list, next]
          view,    \* the same, as the database session has them
          session, \* "closed", "open", "broken"
          version, \* KMIP version of the batch
          pending, \* answers of operations about to commit: none or one
          pager    \* a client that pages through the objects: none or one

vars == <<table, view, session, version, pending, pager>>

Uids == 1..MaxUid
NoRow == [type |-> "none"]
Nothing == "nothing"
NoVersion == 0

Init == /\ table = [row |-> [u \in Uids |-> NoRow],
                    list |-> [a \in Lists |-> [u \in Uids |-> << >>]],
                    next |-> 1]
        /\ view = table
        /\ session = "closed" /\ version = NoVersion
        /\ pending = << >> /\ pager = << >>

Stored(u) == view.row[u] # NoRow

-----------------------------------------------------------------------------
(* The session *)

BeginBatch == /\ session = "closed"
              /\ session' = "open" /\ version' \in Versions
              /\ UNCHANGED <<table, view, pending, pager>>

\* The session is closed, and with it goes what was not committed.
EndBatch == /\ session # "closed" /\ pending = << >>
            /\ session' = "closed" /\ version' = NoVersion /\ view' = table
            /\ UNCHANGED <<table, pending, pager>>

Crash == /\ session # "closed"
         /\ session' = "closed" /\ version' = NoVersion /\ view' = table /\ pending' = << >>
         /\ UNCHANGED <<table, pager>>

Ready == session = "open" /\ pending = << >>

\* An operation has changed the objects of the session, as its request asked, and goes on
\* to commit.
Changed(op, u, name, asked, reported, new) ==
    /\ view' = new
    /\ pending' = <<[op |-> op, uid |-> u, name |-> name, asked |-> asked, reported |-> reported]>>
    /\ UNCHANGED <<table, session, version, pager>>

\* Fault: a commit that failed is rolled back in the database only.
CommitFailsUnnoticed == /\ pending # << >>
                        /\ pending' = << >>
                        /\ UNCHANGED <<table, view, session, version, pager>>

\* The session stays unusable until the batch ends.
CommitFails == /\ pending # << >>
               /\ session' = "broken" /\ pending' = << >>
               /\ UNCHANGED <<table, view, version, pager>>

-----------------------------------------------------------------------------
(* Attributes of an object *)

\* _get_attribute_from_managed_object: its instances; none for attributes that the
\* server does not keep.  A Sensitive that is false is a value, any other that is
\* unset is not.
Instances(u, a) ==
    IF a \in Lists THEN view.list[a][u]
    ELSE IF a \in Singles /\ (a = "Sensitive" \/ view.row[u].single[a] # Unset)
         THEN <<view.row[u].single[a]>>
         ELSE << >>

\* _get_attributes_from_managed_object for one name.
Shown(u, a) ==
    IF Supported(a, version) /\ ~Deprecated(a, version) /\ Applicable(a, view.row[u].type)
    THEN Instances(u, a) ELSE << >>

\* Python's indexes: -1 is the last.
InRange(s, i) == -Len(s) <= i /\ i < Len(s)
PositionOf(s, i) == IF i < 0 THEN Len(s) + i + 1 ELSE i + 1

RemoveAt(s, k) == [j \in 1..(Len(s) - 1) |-> IF j < k THEN s[j] ELSE s[j + 1]]

FirstOf(s, v) == {k \in DOMAIN s : s[k] = v /\ \A j \in 1..(k - 1) : s[j] # v}

WithList(u, a, new) == [view EXCEPT !.list[a][u] = new]
WithSingle(u, a, new) == [view EXCEPT !.row[u].single[a] = new]

\* _set_attribute_on_managed_object, single-valued: a value that is set stays.
MaySet(u, a, v) == a \in Singles /\ view.row[u].single[a] \in {Unset, v}

-----------------------------------------------------------------------------
(* Objects come and go *)

Distinct(s) == \A j, k \in DOMAIN s : s[j] = s[k] => j = k

\* Fault: a number is handed out again (no AUTOINCREMENT).
CreateReusing(type, list, single, date) ==
    /\ Ready
    /\ "Name" \in Lists => Distinct(list["Name"])
    /\ \E u \in Uids :
          /\ view.row[u] = NoRow /\ \A w \in 1..(u - 1) : Stored(w)
          /\ Changed("Create", u, Nothing, [list |-> list, single |-> single], Nothing,
               [row |-> [view.row EXCEPT ![u] = [type |-> type, single |-> single, date |-> date]],
                list |-> [a \in Lists |-> [view.list[a] EXCEPT ![u] = @ \o list[a]]],
                next |-> IF u = view.next THEN u + 1 ELSE view.next])

\* Fault: the rows of the lists are counted, not the row they belong to.
CreateUncounted(type, list, single, date) ==
    /\ Ready /\ view.next \in Uids
    /\ "Name" \in Lists => Distinct(list["Name"])
    /\ LET u == view.next
       IN Changed("Create", u, Nothing, [list |-> list, single |-> single], Nothing,
            [row |-> [view.row EXCEPT ![u] = [type |-> type, single |-> single, date |-> date]],
             list |-> [a \in Lists |-> [view.list[a] EXCEPT ![u] = @ \o list[a]]],
             next |-> IF \E a \in Lists : list[a] # << >> THEN u + 1 ELSE u])

\* Create, Register and the others, seen from the attributes.  The lists of the row are
\* whatever names its number.
Create(type, list, single, date) ==
    /\ Ready /\ view.next \in Uids
    /\ "Name" \in Lists => Distinct(list["Name"])
    /\ LET u == view.next
       IN Changed("Create", u, Nothing, [list |-> list, single |-> single], Nothing,
            [row |-> [view.row EXCEPT ![u] = [type |-> type, single |-> single, date |-> date]],
             list |-> [a \in Lists |-> [view.list[a] EXCEPT ![u] = @ \o list[a]]],
             next |-> u + 1])

\* A bulk delete of the row.
Destroy(u) ==
    /\ Ready /\ Stored(u)
    /\ Changed("Destroy", u, Nothing, Nothing, Nothing, [view EXCEPT !.row[u] = NoRow])

-----------------------------------------------------------------------------
(* SetAttribute *)

SetAttribute(u, a, v) ==
    /\ Ready /\ version >= 20 /\ Stored(u)
    /\ a \notin Multivalued /\ a \in ModifiableByClient
    /\ Applicable(a, view.row[u].type) /\ MaySet(u, a, v)
    /\ Changed("Set", u, a, v, Nothing, WithSingle(u, a, v))

-----------------------------------------------------------------------------
(* ModifyAttribute *)

ModifyByIndex(u, a, index, v) ==
    /\ Ready /\ version < 20 /\ Stored(u)
    /\ a \in Multivalued \cap ModifiableByClient
    /\ 0 <= index /\ index < Len(Instances(u, a))
    /\ a \in Lists
    /\ Changed("Modify", u, a, v, v, WithList(u, a, [view.list[a][u] EXCEPT ![index + 1] = v]))

ModifyShown(u, a, v) ==
    /\ Ready /\ version < 20 /\ Stored(u)
    /\ a \in ModifiableByClient \ Multivalued
    /\ Shown(u, a) # << >> /\ MaySet(u, a, v)
    /\ Changed("Modify", u, a, v, v, WithSingle(u, a, v))

\* The current value names the instance, the first one of those that have it.
ModifyCurrent(u, a, current, v) ==
    /\ Ready /\ version >= 20 /\ Stored(u)
    /\ a \in Multivalued \cap ModifiableByClient /\ a \in Lists
    /\ \E k \in FirstOf(view.list[a][u], current) :
          Changed("Modify", u, a, v, Nothing,
                  WithList(u, a, [view.list[a][u] EXCEPT ![k] = v]))

\* Without a current value the attribute has to have one; with it, that one.
ModifySingle(u, a, current, v) ==
    /\ Ready /\ version >= 20 /\ Stored(u)
    /\ a \in ModifiableByClient \ Multivalued
    /\ IF current = Nothing THEN Instances(u, a) # << >>
       ELSE a \in Singles /\ current = view.row[u].single[a]
    /\ MaySet(u, a, v)
    /\ Changed("Modify", u, a, v, Nothing, WithSingle(u, a, v))

-----------------------------------------------------------------------------
(* DeleteAttribute *)

MayDelete(u, a) ==
    Applicable(a, view.row[u].type) /\ a \in DeletableByClient \cap Multivalued \cap Lists

\* Fault: an index from the end is taken for one from the beginning.
DeleteByIndexReported(u, a, index) ==
    /\ Ready /\ version < 20 /\ Stored(u) /\ MayDelete(u, a)
    /\ LET s == view.list[a][u]
       IN /\ InRange(s, index)
          /\ Changed("Delete", u, a, Nothing, s[(IF index < 0 THEN -index ELSE index + 1)],
                     WithList(u, a, RemoveAt(s, PositionOf(s, index))))

\* By index, the first if there is none.  The instance is read before it is deleted, as
\* the client is shown it.
DeleteByIndex(u, a, index) ==
    /\ Ready /\ version < 20 /\ Stored(u) /\ MayDelete(u, a)
    /\ LET s == view.list[a][u]
       IN /\ InRange(s, index)
          /\ Changed("Delete", u, a, Nothing,
                     IF Shown(u, a) = << >> THEN Nothing ELSE Shown(u, a)[PositionOf(s, index)],
                     WithList(u, a, RemoveAt(s, PositionOf(s, index))))

\* By value, the first instance that has it.  A Name that comes as a value cannot be
\* compared: the attempt raises AttributeError.
DeleteByValue(u, a, current) ==
    /\ Ready /\ version >= 20 /\ Stored(u) /\ MayDelete(u, a) /\ a # "Name"
    /\ \E k \in FirstOf(view.list[a][u], current) :
          Changed("Delete", u, a, current, Nothing,
                  WithList(u, a, RemoveAt(view.list[a][u], k)))

\* By reference: all instances.
DeleteAll(u, a) ==
    /\ Ready /\ version >= 20 /\ Stored(u) /\ MayDelete(u, a)
    /\ Changed("Delete", u, a, Nothing, Nothing, WithList(u, a, << >>))

-----------------------------------------------------------------------------
(* Locate *)

Least(dates) == CHOOSE d \in dates : \A e \in dates : d <= e
Most(dates) == CHOOSE d \in dates : \A e \in dates : e <= d

\* _is_valid_date: one date is to be met, two are a range.
ValidDate(date, dates) ==
    dates # {} => IF Cardinality(dates) = 1 THEN date \in dates
                  ELSE Least(dates) <= date /\ date <= Most(dates)

\* A value of an attribute that the object does not have a value for is passed over;
\* a list that is empty is a value.  A Sensitive is compared without being taken out of
\* its TTLV object, and never found equal.
Meets(t, u, a, v) ==
    /\ Applicable(a, t.row[u].type) /\ a # "Sensitive"
    /\ a \in Lists => \E k \in DOMAIN t.list[a][u] : t.list[a][u][k] = v
    /\ a \in Singles /\ t.row[u].single[a] # Unset => t.row[u].single[a] = v

Matching(t, f) ==
    {u \in Uids : /\ t.row[u] # NoRow
                  /\ \A c \in f.values : Meets(t, u, c[1], c[2])
                  /\ ValidDate(t.row[u].date, f.dates)}

\* The newest first; of the same second, in the order of the table.
Before(t, v, u) ==
    \/ t.row[v].date > t.row[u].date
    \/ t.row[v].date = t.row[u].date /\ v < u

Position(t, f, u) == Cardinality({v \in Matching(t, f) : Before(t, v, u)})

\* Where Python's slices begin and end in a list of n.
Bounded(n, i) == IF i < 0 THEN (IF n + i < 0 THEN 0 ELSE n + i) ELSE IF i > n THEN n ELSE i

Window(n, offset, max) == Bounded(n, offset)..(Bounded(n, offset + max) - 1)

\* Fault: the offset counts from one.
PageFromOne(t, f, offset, max) ==
    LET n == Cardinality(Matching(t, f))
    IN  {u \in Matching(t, f) : Position(t, f, u) \in Window(n, offset + 1, max)}

Page(t, f, offset, max) ==
    LET n == Cardinality(Matching(t, f))
    IN  {u \in Matching(t, f) : Position(t, f, u) \in Window(n, offset, max)}

\* A client begins to page: it expects what matches now.
StartPaging(f) ==
    /\ pager = << >> /\ session = "closed"
    /\ pager' = <<[filter |-> f, offset |-> 0, seen |-> {}, expected |-> Matching(table, f),
                   done |-> FALSE]>>
    /\ UNCHANGED <<table, view, session, version, pending>>

\* A request for the next page, which is the last one if it is empty.
NextPage ==
    /\ pager # << >> /\ session = "closed"
    /\ ~pager[1].done
    /\ LET p == pager[1]
           found == Page(table, p.filter, p.offset, PageSize)
       IN pager' = <<[p EXCEPT !.offset = @ + PageSize, !.seen = @ \cup found, !.done = found = {}]>>
    /\ UNCHANGED <<table, view, session, version, pending>>

StopPaging == /\ pager # << >> /\ pager[1].done
              /\ pager' = << >>
              /\ UNCHANGED <<table, view, session, version, pending>>

-----------------------------------------------------------------------------

\* The tables are the session's from now on.  (A client that pages is promised nothing
\* any more once something that matched is gone.)
Commit ==
    /\ pending # << >>
    /\ table' = view
    /\ pending' = << >>
    /\ pager' = IF \E k \in DOMAIN pager :
                      ~(Matching(table, pager[k].filter) \subseteq Matching(view, pager[k].filter))
                THEN << >> ELSE pager
    /\ UNCHANGED <<view, session, version>>

Instanced(a) == UNION {[1..n -> Values[a]] : n \in 0..MaxLength}

Given == {list \in [Lists -> UNION {Instanced(a) : a \in Lists}] :
             /\ \A a \in Lists : list[a] \in Instanced(a)
             /\ \A a, b \in Lists : a # b => Len(list[a]) + Len(list[b]) <= MaxLength}

Columns == {single \in [Singles -> UNION {Values[a] : a \in Singles}] :
               \A a \in Singles : single[a] \in Values[a]}

Modify ==
    \/ \E u \in Uids, a \in Names, i \in Indexes : \E v \in Values[a] : ModifyByIndex(u, a, i, v)
    \/ \E u \in Uids, a \in Names : \E v \in Values[a] : ModifyShown(u, a, v)
    \/ \E u \in Uids, a \in Names : \E c, v \in Values[a] : ModifyCurrent(u, a, c, v)
    \/ \E u \in Uids, a \in Names : \E c \in Values[a] \cup {Nothing}, v \in Values[a] :
          ModifySingle(u, a, c, v)

Delete ==
    \/ \E u \in Uids, a \in Names, i \in Indexes : DeleteByIndex(u, a, i)
    \/ \E u \in Uids, a \in Names : \E c \in Values[a] : DeleteByValue(u, a, c)
    \/ \E u \in Uids, a \in Names : DeleteAll(u, a)

Next ==
    \/ BeginBatch \/ EndBatch \/ Crash \/ Commit \/ CommitFails
    \/ \E type \in Types, list \in Given, single \in Columns, d \in 1..MaxDate :
          Create(type, list, single, d)
    \/ \E u \in Uids : Destroy(u)
    \/ \E u \in Uids, a \in Names : \E v \in Values[a] : SetAttribute(u, a, v)
    \/ Modify \/ Delete
    \/ (\E f \in Filters : StartPaging(f)) \/ NextPage \/ StopPaging

Spec == Init /\ [][Next]_vars

-----------------------------------------------------------------------------
(* The tables as AttributeTable sees them *)

Object(t, u) ==
    IF u >= t.next THEN [life |-> "unborn", list |-> << >>, single |-> << >>]
    ELSE IF t.row[u] = NoRow THEN [life |-> "gone", list |-> << >>, single |-> << >>]
    ELSE [life |-> "here", list |-> [a \in Lists |-> t.list[a][u]], single |-> t.row[u].single]

Promised == INSTANCE AttributeTable
    WITH objects <- [u \in Uids |-> Object(table, u)],
         Modifiable <- ModifiableByClient, Deletable <- DeletableByClient

-----------------------------------------------------------------------------
(* Properties *)

TypeOK ==
    /\ table.next \in 1..(MaxUid + 1) /\ view.next \in 1..(MaxUid + 1)
    /\ \A t \in {table, view} :
          /\ DOMAIN t.row = Uids /\ DOMAIN t.list = Lists
          /\ \A u \in Uids : u >= t.next => t.row[u] = NoRow /\ \A a \in Lists : t.list[a][u] = << >>
    /\ session \in {"closed", "open", "broken"} /\ version \in Versions \cup {NoVersion}
    /\ pending # << >> => session = "open" /\ Len(pending) = 1
    /\ pager # << >> => pager[1].seen \cup pager[1].expected \subseteq Uids

\* The attributes of the stored objects behave as AttributeTable promises, over any
\* batches, failed commits and crashes: an operation changes one instance of one
\* attribute that the client may change, nothing that is set is set again, and an object
\* never gets the names or groups that a destroyed one left in the tables.
ImplementsAttributeTable == Promised!Spec

\* What the request with the answer p asked of its object, and nothing more: the object
\* comes with what it was given, or one attribute of it has, in one instance, the value
\* that the request gives it, or lacks one instance, the one that the request names by
\* its value if it does, or, if it names none, lacks them all.
AsAsked(p, old, new) ==
    /\ p.op = "Create" =>
           new.life = "here" /\ new.list = p.asked.list /\ new.single = p.asked.single
    /\ p.op = "Destroy" => new.life = "gone"
    /\ p.op \in {"Set", "Modify", "Delete"} =>
           /\ \A a \in Lists \ {p.name} : new.list[a] = old.list[a]
           /\ \A a \in Singles \ {p.name} : new.single[a] = old.single[a]
    /\ p.op \in {"Set", "Modify"} =>
           IF p.name \in Singles THEN new.single[p.name] = p.asked
           ELSE \E k \in DOMAIN old.list[p.name] :
                   new.list[p.name] = [old.list[p.name] EXCEPT ![k] = p.asked]
    /\ p.op = "Delete" =>
           \/ p.asked = Nothing /\ new.list[p.name] = << >>
           \/ \E k \in DOMAIN old.list[p.name] :
                 /\ new.list[p.name] = RemoveAt(old.list[p.name], k)
                 /\ p.asked \in {Nothing, old.list[p.name][k]}

\* What is committed is what the operation that is answered for was asked to do: nothing
\* that an operation before it left in the session when it failed, on another object, in
\* another list or in a column of the same one (SetAttribute, ModifyAttribute and
\* DeleteAttribute change the object and then commit).
OnlyWhatIsAnswered ==
    [][table' # table =>
          /\ pending # << >>
          /\ \A u \in Uids \ {pending[1].uid} : Object(table', u) = Object(table, u)
          /\ AsAsked(pending[1], Object(table, pending[1].uid), Object(table', pending[1].uid))]_vars

\* DeleteAttribute of KMIP 1.x shows the client an instance that it deletes, also for
\* indexes that count from the end: what is left is the list without that one.
DeletesWhatItShows ==
    \A k \in DOMAIN pending :
        LET p == pending[k]
        IN  p.op = "Delete" /\ p.reported # Nothing =>
                \E i \in DOMAIN table.list[p.name][p.uid] :
                    /\ table.list[p.name][p.uid][i] = p.reported
                    /\ view.list[p.name][p.uid] = RemoveAt(table.list[p.name][p.uid], i)

\* A client that pages through the objects that match sees all of them, whatever others
\* create and change in between, as long as nothing that matches is destroyed or changed
\* so that it does not match: new objects move the others to later pages.
PagesMissNothing ==
    \A k \in DOMAIN pager :
        pager[k].done => pager[k].expected \subseteq pager[k].seen
=============================================================================
