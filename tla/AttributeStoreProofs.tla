------------------------ MODULE AttributeStoreProofs ------------------------
(***************************************************************************)
(* Proofs about the attribute operations, for any attributes, values,      *)
(* versions, indexes and number of objects: what is committed is what the  *)
(* operation that is answered for did, DeleteAttribute deletes the         *)
(* instance that it shows, and the objects behave as AttributeTable        *)
(* promises.  What the database session has beyond the tables is, from the *)
(* change to the commit, the change of the one pending operation.          *)
(***************************************************************************)
EXTENDS AttributeStore, SequenceTheorems, FiniteSetTheorems, TLAPS

USE DEF Uids

-----------------------------------------------------------------------------
(* The inductive invariant *)

(* All values any attribute may have. *)
AnyValue == UNION {Values[a] : a \in Names}

(* The rows of the table of objects. *)
Rows == [type : Types, single : [Singles -> AnyValue], date : 1..MaxDate]

(* The list new is old without the instance that was asked for, or without any. *)
Removed(old, new, asked) ==
    \/ asked = Nothing /\ new = << >>
    \/ \E k \in DOMAIN old : new = RemoveAt(old, k) /\ asked \in {Nothing, old[k]}

(* The states of the database: the rows and the lists of names and other multivalued
   attributes. *)
Tables == [row : [Uids -> Rows \cup {NoRow}],
           list : [Lists -> [Uids -> Seq(AnyValue)]],
           next : 1..(MaxUid + 1)]

(* The states of a client that reads the pages of a Locate. *)
Pagers == [filter : Filters, offset : Nat, seen : SUBSET Uids, expected : SUBSET Uids,
           done : BOOLEAN]

\* Numbers that were not handed out have no rows in any table.
Fresh(t) ==
    \A u \in Uids : u >= t.next => t.row[u] = NoRow /\ \A a \in Lists : t.list[a][u] = << >>

\* One operation, with the answer p, makes new out of old.
Answered(p, old, new) ==
    /\ p.uid \in Uids
    /\ \A w \in Uids \ {p.uid} : Object(new, w) = Object(old, w)
    /\ \/ Object(new, p.uid) = Object(old, p.uid)
       \/ Promised!Change(Object(old, p.uid), Object(new, p.uid))
    /\ AsAsked(p, Object(old, p.uid), Object(new, p.uid))
    /\ p.op = "Delete" /\ p.reported # Nothing =>
           \E i \in DOMAIN old.list[p.name][p.uid] :
               /\ old.list[p.name][p.uid][i] = p.reported
               /\ new.list[p.name][p.uid] = RemoveAt(old.list[p.name][p.uid], i)

(* The typing part of the invariant, with the numbers not handed out unused. *)
TypeInv ==
    /\ table \in Tables /\ Fresh(table)
    /\ view \in Tables /\ Fresh(view)
    /\ session \in {"closed", "open", "broken"} /\ version \in Versions \cup {NoVersion}
    /\ pager = << >> \/ \E q \in Pagers : pager = <<q>>

\* The view is ahead of the tables only by the operation that is pending, or lost with
\* the session.
InStep == session # "broken" /\ pending = << >> => view = table

(* While a commit is pending, the view of the session is one answered change ahead of
   the table. *)
OneAhead ==
    pending # << >> => session = "open" /\ \E p : pending = <<p>> /\ Answered(p, table, view)

(* The inductive invariant. *)
IInv == TypeInv /\ InStep /\ OneAhead

\* The bounds are numbers.
LEMMA BoundsAreNumbers == MaxUid \in Nat /\ MaxDate \in Nat /\ MaxLength \in Nat
BY StoreAssumption

-----------------------------------------------------------------------------
(* Writing to the tables *)

(* The two ways an attribute of one object changes: its list, or its column. *)
ListPut(t, a, u, s) == [t EXCEPT !.list[a][u] = s]
ColumnPut(t, a, u, v) == [t EXCEPT !.row[u].single[a] = v]

\* A list of a stored object is replaced.
LEMMA ListWritten ==
    ASSUME NEW t \in Tables, Fresh(t), NEW a \in Lists, NEW u \in Uids, NEW s \in Seq(AnyValue),
           t.row[u] # NoRow,
           NEW n, n = ListPut(t, a, u, s)
    PROVE  /\ n \in Tables /\ Fresh(n)
           /\ n.row = t.row /\ n.next = t.next
           /\ n.list[a][u] = s
           /\ \A b \in Lists \ {a} : \A w \in Uids : n.list[b][w] = t.list[b][w]
           /\ \A b \in Lists : \A w \in Uids \ {u} : n.list[b][w] = t.list[b][w]
<1> DEFINE list == [t.list EXCEPT ![a] = [t.list[a] EXCEPT ![u] = s]]
<1>1. n = [row |-> t.row, list |-> list, next |-> t.next]
  BY DEF Tables, ListPut
<1>2. list \in [Lists -> [Uids -> Seq(AnyValue)]]
  BY DEF Tables
<1>3. n \in Tables
  BY <1>1, <1>2 DEF Tables
<1>4. /\ n.list[a][u] = s
      /\ \A b \in Lists \ {a} : \A w \in Uids : n.list[b][w] = t.list[b][w]
      /\ \A b \in Lists : \A w \in Uids \ {u} : n.list[b][w] = t.list[b][w]
  <2>1. n.list = list
    BY <1>1
  <2>2. t.list \in [Lists -> [Uids -> Seq(AnyValue)]]
    BY DEF Tables
  <2>3. n.list[a] = [t.list[a] EXCEPT ![u] = s] /\ \A b \in Lists \ {a} : n.list[b] = t.list[b]
    BY <2>1, <2>2
  <2>4. /\ n.list[a][u] = s
        /\ \A w \in Uids \ {u} : n.list[a][w] = t.list[a][w]
    <3>1. t.list[a] \in [Uids -> Seq(AnyValue)]
      BY <2>2
    <3>2. QED
      BY ONLY <2>3, <3>1, u \in Uids
  <2>5. QED
    BY ONLY <2>3, <2>4
<1>5. Fresh(n)
  BY <1>1, <1>4 DEF Fresh
<1>6. QED
  BY <1>1, <1>3, <1>4, <1>5

\* A column of a stored object is written.
LEMMA ColumnWritten ==
    ASSUME NEW t \in Tables, Fresh(t), NEW a \in Singles, NEW u \in Uids, NEW v \in AnyValue,
           t.row[u] # NoRow,
           NEW n, n = ColumnPut(t, a, u, v)
    PROVE  /\ n \in Tables /\ Fresh(n)
           /\ n.list = t.list /\ n.next = t.next
           /\ \A w \in Uids \ {u} : n.row[w] = t.row[w]
           /\ n.row[u] # NoRow
           /\ n.row[u].single = [t.row[u].single EXCEPT ![a] = v]
<1>1. t.row[u] \in Rows
  BY DEF Tables
<1> DEFINE new == [t.row[u] EXCEPT !.single = [t.row[u].single EXCEPT ![a] = v]]
           row == [t.row EXCEPT ![u] = new]
<1>2. n = [row |-> row, list |-> t.list, next |-> t.next]
  BY <1>1 DEF Tables, Rows, ColumnPut
<1>3. new \in Rows /\ new.single = [t.row[u].single EXCEPT ![a] = v]
  BY <1>1 DEF Rows
<1>4. \A r \in Rows : r # NoRow
  BY DEF Rows, NoRow
<1>5. n \in Tables
  <2> HIDE DEF new
  <2>1. row \in [Uids -> Rows \cup {NoRow}]
    BY <1>3 DEF Tables
  <2>2. QED
    BY <1>2, <2>1 DEF Tables
<1>6. /\ \A w \in Uids \ {u} : n.row[w] = t.row[w]
      /\ n.row[u] \in Rows
      /\ n.row[u].single = [t.row[u].single EXCEPT ![a] = v]
  <2> HIDE DEF new
  <2>1. n.row = row /\ t.row \in [Uids -> Rows \cup {NoRow}]
    BY <1>2 DEF Tables
  <2>2. n.row[u] = new /\ \A w \in Uids \ {u} : n.row[w] = t.row[w]
    BY <2>1
  <2>3. QED
    BY <1>3, <2>2
<1>7. Fresh(n)
  BY <1>2, <1>6 DEF Fresh
<1>8. QED
  BY <1>2, <1>4, <1>5, <1>6, <1>7

-----------------------------------------------------------------------------
(* What AttributeTable sees of it *)

\* Objects that have a row are shown with it.
LEMMA StoredIsHere ==
    ASSUME NEW t \in Tables, Fresh(t), NEW u \in Uids, t.row[u] # NoRow
    PROVE  Object(t, u) = [life |-> "here", list |-> [a \in Lists |-> t.list[a][u]],
                           single |-> t.row[u].single]
<1>1. ~(u >= t.next)
  BY DEF Fresh
<1>2. QED
  BY <1>1 DEF Object

\* A list of an object has one instance replaced, or some or all removed, as its rule
\* permits.
LEMMA ListChangeAnswered ==
    ASSUME NEW t \in Tables, Fresh(t), NEW a \in Lists, NEW u \in Uids, NEW s \in Seq(AnyValue),
           t.row[u] # NoRow,
           NEW n, n = ListPut(t, a, u, s),
           NEW op, NEW asked, NEW reported,
           \/ /\ op = "Modify" /\ a \in ModifiableByClient
              /\ \E k \in DOMAIN t.list[a][u] \cap DOMAIN s :
                    s[k] = asked /\ s = [t.list[a][u] EXCEPT ![k] = asked]
           \/ /\ op = "Delete" /\ a \in DeletableByClient
              /\ Removed(t.list[a][u], s, asked),
           op = "Delete" /\ reported # Nothing =>
               \E k \in DOMAIN t.list[a][u] :
                   t.list[a][u][k] = reported /\ s = RemoveAt(t.list[a][u], k)
    PROVE  /\ n \in Tables /\ Fresh(n)
           /\ Answered([op |-> op, uid |-> u, name |-> a, asked |-> asked, reported |-> reported], t, n)
<1> DEFINE p == [op |-> op, uid |-> u, name |-> a, asked |-> asked, reported |-> reported]
           old == [b \in Lists |-> t.list[b][u]]
           new == [b \in Lists |-> n.list[b][u]]
<1>1. /\ n \in Tables /\ Fresh(n)
      /\ n.row = t.row /\ n.next = t.next
      /\ n.list[a][u] = s
      /\ \A b \in Lists \ {a} : \A w \in Uids : n.list[b][w] = t.list[b][w]
      /\ \A b \in Lists : \A w \in Uids \ {u} : n.list[b][w] = t.list[b][w]
  BY ListWritten
<1>2. p.op = op /\ p.uid = u /\ p.name = a /\ p.asked = asked /\ p.reported = reported
  OBVIOUS
<1>3. ASSUME NEW w \in Uids \ {u} PROVE Object(n, w) = Object(t, w)
  <2>1. [b \in Lists |-> n.list[b][w]] = [b \in Lists |-> t.list[b][w]]
    BY <1>1
  <2>2. QED
    BY <1>1, <2>1 DEF Object
<1>4. /\ Object(t, u) = [life |-> "here", list |-> old, single |-> t.row[u].single]
      /\ Object(n, u) = [life |-> "here", list |-> new, single |-> t.row[u].single]
  BY <1>1, StoredIsHere
<1>5. Promised!Change(Object(t, u), Object(n, u))
  <2>1. \A b \in Lists \ {a} : new[b] = old[b]
    BY <1>1
  <2>2. old[a] = t.list[a][u] /\ new[a] = s
    BY <1>1
  <2> DEFINE o == Object(t, u)
             m == Object(n, u)
  <2>3. o.list = old /\ m.list = new /\ o.life = "here" /\ m.life = "here" /\ m.single = o.single
    BY <1>4
  <2> HIDE DEF old, new, o, m
  <2>4. Promised!InstanceReplaced(o, m, a) \/ Promised!InstanceRemoved(o, m, a)
    <3>1. o.list[a] = t.list[a][u] /\ m.list[a] = s
      BY <2>2, <2>3
    <3>2. \A x, k : Promised!Without(x, k) = RemoveAt(x, k)
      BY DEF Promised!Without, RemoveAt
    <3>3. QED
      BY <3>1, <3>2 DEF Removed, Promised!InstanceReplaced, Promised!InstanceRemoved
  <2>5. Promised!OneInstanceChanges(o, m)
    BY <2>1, <2>3, <2>4 DEF Promised!OneInstanceChanges, Promised!Here
  <2>6. QED
    BY <2>5 DEF Promised!Change, o, m
<1>6. AsAsked(p, Object(t, u), Object(n, u))
  <2>1. \A b \in Lists \ {a} : new[b] = old[b]
    BY <1>1
  <2>2. old[a] = t.list[a][u] /\ new[a] = s
    BY <1>1
  <2>3. a \notin Singles
    BY StoreAssumption
  <2> DEFINE o == Object(t, u)
             m == Object(n, u)
  <2>4. o.list = old /\ m.list = new /\ m.single = o.single
    BY <1>4
  <2> HIDE DEF old, new, o, m, p
  <2>5. o.list[a] = t.list[a][u] /\ m.list[a] = s /\ \A b \in Lists \ {a} : m.list[b] = o.list[b]
    BY <2>1, <2>2, <2>4
  <2>6. AsAsked(p, o, m)
    BY <1>2, <2>3, <2>4, <2>5 DEF AsAsked, Removed
  <2>7. QED
    BY <2>6 DEF o, m
<1> HIDE DEF p
<1>7. Answered(p, t, n)
  <2>1. p.op = "Delete" /\ p.reported # Nothing =>
            \E i \in DOMAIN t.list[a][u] :
                t.list[a][u][i] = p.reported /\ n.list[a][u] = RemoveAt(t.list[a][u], i)
    BY <1>1, <1>2
  <2>2. QED
    BY <1>2, <1>3, <1>5, <1>6, <2>1 DEF Answered
<1>8. QED
  BY <1>1, <1>7 DEF p

\* A column that is unset is set, or one that is set written again.
LEMMA ColumnChangeAnswered ==
    ASSUME NEW t \in Tables, Fresh(t), NEW a \in Singles \cap ModifiableByClient, NEW u \in Uids,
           NEW v \in AnyValue,
           t.row[u] # NoRow, t.row[u].single[a] \in {Unset, v},
           NEW n, n = ColumnPut(t, a, u, v),
           NEW op \in {"Set", "Modify"}, NEW asked, asked = v, NEW reported
    PROVE  /\ n \in Tables /\ Fresh(n)
           /\ Answered([op |-> op, uid |-> u, name |-> a, asked |-> asked, reported |-> reported], t, n)
<1> DEFINE p == [op |-> op, uid |-> u, name |-> a, asked |-> asked, reported |-> reported]
<1>1. /\ n \in Tables /\ Fresh(n)
      /\ n.list = t.list /\ n.next = t.next
      /\ \A w \in Uids \ {u} : n.row[w] = t.row[w]
      /\ n.row[u] # NoRow
      /\ n.row[u].single = [t.row[u].single EXCEPT ![a] = v]
  BY ColumnWritten
<1>2. p.op = op /\ p.uid = u /\ p.name = a /\ p.asked = asked /\ p.reported = reported
  OBVIOUS
<1>3. ASSUME NEW w \in Uids \ {u} PROVE Object(n, w) = Object(t, w)
  BY <1>1, <1>3 DEF Object
<1> DEFINE list == [b \in Lists |-> t.list[b][u]]
           old == t.row[u].single
           new == n.row[u].single
<1>4. /\ Object(t, u) = [life |-> "here", list |-> list, single |-> old]
      /\ Object(n, u) = [life |-> "here", list |-> list, single |-> new]
  BY <1>1, StoredIsHere
<1>5. old \in [Singles -> AnyValue]
  BY DEF Tables, Rows
<1>6. Object(n, u) = Object(t, u) \/ Promised!Change(Object(t, u), Object(n, u))
  <2>1. CASE old[a] = v
    <3>1. new = old
      BY <1>1, <1>5, <2>1
    <3>2. QED
      BY <1>4, <3>1
  <2>2. CASE old[a] = Unset
    <3> DEFINE o == Object(t, u)
               m == Object(n, u)
    <3>1. /\ o.life = "here" /\ m.life = "here" /\ m.list = o.list
          /\ o.single = old /\ m.single = new
      BY <1>4
    <3>2. o.single[a] = Unset /\ m.single = [o.single EXCEPT ![a] = m.single[a]]
      BY <1>1, <1>5, <2>2, <3>1
    <3> HIDE DEF o, m
    <3>3. Promised!SetOnce(o, m)
      BY <3>1, <3>2 DEF Promised!SetOnce, Promised!Here
    <3>4. QED
      BY <3>3 DEF Promised!Change, o, m
  <2>3. QED
    BY <2>1, <2>2
<1>7. AsAsked(p, Object(t, u), Object(n, u))
  <2> DEFINE o == Object(t, u)
             m == Object(n, u)
  <2>1. m.list = o.list /\ o.single = old /\ m.single = new
    BY <1>4
  <2>2. /\ m.single[a] = v
        /\ \A b \in Singles \ {a} : m.single[b] = o.single[b]
    BY <1>1, <1>5, <2>1
  <2> HIDE DEF list, old, new, o, m, p
  <2>3. AsAsked(p, o, m)
    BY <1>2, <2>1, <2>2 DEF AsAsked
  <2>4. QED
    BY <2>3 DEF o, m
<1> HIDE DEF p
<1>8. Answered(p, t, n)
  BY <1>2, <1>3, <1>6, <1>7 DEF Answered
<1>9. QED
  BY <1>1, <1>8 DEF p

(* The answer to an operation that creates an object. *)
Creation(u, list, single) ==
    [op |-> "Create", uid |-> u, name |-> Nothing, asked |-> [list |-> list, single |-> single],
     reported |-> Nothing]

(* A database state with one more object. *)
WithNew(t, u, type, list, single, date) ==
    [row |-> [t.row EXCEPT ![u] = [type |-> type, single |-> single, date |-> date]],
     list |-> [a \in Lists |-> [t.list[a] EXCEPT ![u] = @ \o list[a]]],
     next |-> u + 1]

\* A new object gets the next number, of which the tables have nothing.
LEMMA CreateAnswered ==
    ASSUME NEW t \in Tables, Fresh(t), NEW u \in Uids, t.next = u,
           NEW type \in Types, NEW list \in Given, NEW single \in Columns, NEW date \in 1..MaxDate,
           \A a \in Lists \cap {"Name"} : Distinct(list[a]),
           NEW n, n = WithNew(t, u, type, list, single, date)
    PROVE  /\ n \in Tables /\ Fresh(n)
           /\ Answered(Creation(u, list, single), t, n)
<1> DEFINE r == [type |-> type, single |-> single, date |-> date]
           p == Creation(u, list, single)
<1>1. \A a \in Lists : list[a] \in Seq(AnyValue)
  <2>1. ASSUME NEW a \in Lists PROVE list[a] \in Seq(AnyValue)
    <3>1. a \in Names
      BY StoreAssumption
    <3>2. PICK k \in 0..MaxLength : list[a] \in [1..k -> Values[a]]
      BY DEF Given, Instanced
    <3>3. k \in Nat
      BY BoundsAreNumbers
    <3>4. Values[a] \subseteq AnyValue
      BY <3>1 DEF AnyValue
    <3>5. list[a] \in [1..k -> AnyValue]
      BY <3>2, <3>4
    <3>6. QED
      BY <3>3, <3>5
  <2>2. QED
    BY <2>1
<1>2. r \in Rows /\ r.single = single
  <2>1. single \in [Singles -> AnyValue]
    BY StoreAssumption DEF Columns, AnyValue
  <2>2. QED
    BY <2>1 DEF Rows
<1>3. \A q \in Rows : q # NoRow
  BY DEF Rows, NoRow
<1>4. \A a \in Lists : t.list[a] \in [Uids -> Seq(AnyValue)] /\ t.list[a][u] = << >>
  BY DEF Tables, Fresh
<1>5. ASSUME NEW a \in Lists
      PROVE  /\ n.list[a] = [t.list[a] EXCEPT ![u] = list[a]]
             /\ n.list[a] \in [Uids -> Seq(AnyValue)]
  <2>1. t.list[a][u] \o list[a] = list[a]
    BY <1>1, <1>4, ConcatEmptySeq
  <2>2. n.list[a] = [t.list[a] EXCEPT ![u] = list[a]]
    BY <2>1 DEF WithNew
  <2>3. QED
    BY <1>1, <1>4, <2>2
<1>6. n.next = u + 1 /\ u \in Nat
  <2>1. n.next = u + 1
    BY DEF WithNew
  <2>2. QED
    BY <2>1, BoundsAreNumbers
<1>7. /\ n.row \in [Uids -> Rows \cup {NoRow}]
      /\ n.row[u] = r
      /\ \A w \in Uids \ {u} : n.row[w] = t.row[w]
  <2> HIDE DEF r
  <2>1. n.row = [t.row EXCEPT ![u] = r] /\ t.row \in [Uids -> Rows \cup {NoRow}]
    BY DEF Tables, WithNew, r
  <2>2. QED
    BY <1>2, <2>1
<1>8. n \in Tables
  <2>1. n.list = [a \in Lists |-> n.list[a]]
    BY DEF WithNew
  <2>5. n.list \in [Lists -> [Uids -> Seq(AnyValue)]]
    BY <1>5, <2>1
  <2>2. n.next \in 1..(MaxUid + 1)
    BY <1>6, BoundsAreNumbers
  <2>3. n = [row |-> n.row, list |-> n.list, next |-> n.next]
    BY DEF WithNew
  <2>4. QED
    BY <1>7, <2>5, <2>2, <2>3 DEF Tables
<1>9. ASSUME NEW w \in Uids \ {u}, NEW a \in Lists PROVE n.list[a][w] = t.list[a][w]
  BY <1>4, <1>5
<1>10. Fresh(n)
  <2>1. ASSUME NEW w \in Uids, w >= n.next PROVE w # u /\ w >= u
    BY <1>6, <2>1, BoundsAreNumbers
  <2>2. QED
    BY <1>7, <1>9, <2>1 DEF Fresh
<1>11. ASSUME NEW w \in Uids \ {u} PROVE Object(n, w) = Object(t, w)
  <2>1. [a \in Lists |-> n.list[a][w]] = [a \in Lists |-> t.list[a][w]]
    BY <1>9
  <2>2. w >= n.next <=> w >= t.next
    BY <1>6, BoundsAreNumbers
  <2>3. QED
    BY <1>7, <2>1, <2>2 DEF Object
<1>12. Promised!Change(Object(t, u), Object(n, u))
  <2> DEFINE o == Object(t, u)
             m == Object(n, u)
  <2>1. o = Promised!Absent
    BY <1>6 DEF Object, Promised!Absent
  <2>2. m.life = "here" /\ m.list = [a \in Lists |-> n.list[a][u]]
    BY <1>2, <1>3, <1>7, <1>8, <1>10, StoredIsHere
  <2>3. \A a \in Lists : n.list[a][u] = list[a]
    BY <1>4, <1>5
  <2>4. \A a \in Lists : m.list[a] = list[a]
    BY <2>2, <2>3
  <2> HIDE DEF o, m
  <2>5. Promised!Appears(o, m)
    BY <2>1, <2>2, <2>4 DEF Promised!Appears, Promised!Here, Promised!Distinct, Distinct
  <2>6. QED
    BY <2>5 DEF Promised!Change, o, m
<1>13. p.op = "Create" /\ p.uid = u /\ p.asked = [list |-> list, single |-> single]
  BY DEF Creation
<1>14. AsAsked(p, Object(t, u), Object(n, u))
  <2> DEFINE m == Object(n, u)
  <2>1. m = [life |-> "here", list |-> [a \in Lists |-> n.list[a][u]], single |-> single]
    BY <1>2, <1>3, <1>7, <1>8, <1>10, StoredIsHere
  <2>2. \A a \in Lists : n.list[a][u] = list[a]
    BY <1>4, <1>5
  <2>3. list = [a \in Lists |-> list[a]]
    BY DEF Given
  <2>4. m.life = "here" /\ m.list = list /\ m.single = single
    BY <2>1, <2>2, <2>3
  <2> HIDE DEF m, p
  <2>5. AsAsked(p, Object(t, u), m)
    BY <1>13, <2>4 DEF AsAsked
  <2>6. QED
    BY <2>5 DEF m
<1> HIDE DEF p
<1>15. Answered(p, t, n)
  BY <1>11, <1>12, <1>13, <1>14 DEF Answered
<1>16. QED
  BY <1>8, <1>10, <1>15 DEF p

(* The answer to Destroy. *)
Destruction(u) ==
    [op |-> "Destroy", uid |-> u, name |-> Nothing, asked |-> Nothing, reported |-> Nothing]

\* A row is deleted.
LEMMA DestroyAnswered ==
    ASSUME NEW t \in Tables, Fresh(t), NEW u \in Uids, t.row[u] # NoRow,
           NEW n, n = [t EXCEPT !.row[u] = NoRow]
    PROVE  /\ n \in Tables /\ Fresh(n)
           /\ Answered(Destruction(u), t, n)
<1> DEFINE p == Destruction(u)
           row == [t.row EXCEPT ![u] = NoRow]
<1>1. n = [row |-> row, list |-> t.list, next |-> t.next] /\ row \in [Uids -> Rows \cup {NoRow}]
  BY DEF Tables
<1>2. n \in Tables
  BY <1>1 DEF Tables
<1>3. /\ n.list = t.list /\ n.next = t.next
      /\ n.row[u] = NoRow
      /\ \A w \in Uids \ {u} : n.row[w] = t.row[w]
  <2>1. t.row \in [Uids -> Rows \cup {NoRow}]
    BY DEF Tables
  <2>2. QED
    BY <1>1, <2>1
<1>4. Fresh(n)
  BY <1>3 DEF Fresh
<1>5. ASSUME NEW w \in Uids \ {u} PROVE Object(n, w) = Object(t, w)
  BY <1>3 DEF Object
<1>6. Promised!Change(Object(t, u), Object(n, u))
  <2> DEFINE o == Object(t, u)
             m == Object(n, u)
  <2>1. ~(u >= t.next)
    BY DEF Fresh
  <2>2. o.life = "here"
    BY StoredIsHere
  <2>3. m = Promised!Gone
    BY <1>3, <2>1 DEF Object, Promised!Gone
  <2> HIDE DEF o, m
  <2>4. QED
    BY <2>2, <2>3 DEF Promised!Change, Promised!Disappears, Promised!Here, o, m
<1>7. p.op = "Destroy" /\ p.uid = u
  BY DEF Destruction
<1>8. AsAsked(p, Object(t, u), Object(n, u))
  <2>1. Object(n, u).life = "gone"
    BY <1>3 DEF Object, Fresh
  <2> HIDE DEF p
  <2>2. QED
    BY <1>7, <2>1 DEF AsAsked
<1> HIDE DEF p
<1>9. Answered(p, t, n)
  BY <1>5, <1>6, <1>7, <1>8 DEF Answered
<1>10. QED
  BY <1>2, <1>4, <1>9 DEF p

-----------------------------------------------------------------------------
(* The steps *)

\* A list without one of its instances is a list.
LEMMA RemoveAtType ==
    ASSUME NEW S, NEW s \in Seq(S), NEW k \in DOMAIN s
    PROVE  RemoveAt(s, k) \in Seq(S)
<1>1. Len(s) \in Nat /\ DOMAIN s = 1..Len(s) /\ k \in 1..Len(s)
  OBVIOUS
<1>2. \A j \in 1..(Len(s) - 1) : j \in 1..Len(s) /\ j + 1 \in 1..Len(s)
  BY <1>1
<1>3. \A j \in 1..(Len(s) - 1) : (IF j < k THEN s[j] ELSE s[j + 1]) \in S
  BY <1>2
<1>4. Len(s) - 1 \in Nat
  BY <1>1
<1>5. RemoveAt(s, k) \in [1..(Len(s) - 1) -> S]
  BY <1>3 DEF RemoveAt
<1>6. QED
  BY <1>4, <1>5

\* Python's index names an instance.
LEMMA PositionInRange ==
    ASSUME NEW S, NEW s \in Seq(S), NEW i \in Int, InRange(s, i)
    PROVE  PositionOf(s, i) \in DOMAIN s
<1>1. Len(s) \in Nat /\ DOMAIN s = 1..Len(s)
  OBVIOUS
<1>2. QED
  BY <1>1 DEF InRange, PositionOf

\* Values that clients give.
LEMMA GivenValue ==
    ASSUME NEW a \in Names, NEW v \in Values[a]
    PROVE  v \in AnyValue
BY DEF AnyValue

\* An operation that is ready finds the view in step with the tables, and leaves it one
\* change ahead.
LEMMA ChangedKeeps ==
    ASSUME IInv, Ready, NEW op, NEW u, NEW name, NEW asked, NEW reported, NEW n,
           Changed(op, u, name, asked, reported, n),
           n \in Tables, Fresh(n),
           Answered([op |-> op, uid |-> u, name |-> name, asked |-> asked,
                     reported |-> reported], view, n)
    PROVE  IInv'
<1> DEFINE p == [op |-> op, uid |-> u, name |-> name, asked |-> asked,
                     reported |-> reported]
<1>1. /\ view' = n /\ pending' = <<p>>
      /\ table' = table /\ session' = session /\ version' = version /\ pager' = pager
      /\ view = table /\ session = "open"
  BY DEF IInv, InStep, Ready, Changed
<1> HIDE DEF p
<1>2. TypeInv'
  BY <1>1 DEF IInv, TypeInv
<1>3. pending' # << >>
  BY <1>1
<1>4. Answered(p, table', view')
  BY <1>1 DEF p
<1>5. InStep'
  BY <1>3 DEF InStep
<1>6. OneAhead'
  BY <1>1, <1>4 DEF OneAhead
<1>7. QED
  BY <1>2, <1>5, <1>6 DEF IInv

\* One instance of a list is replaced.
LEMMA ReplaceKeeps ==
    ASSUME IInv, Ready, NEW u \in Uids, Stored(u), NEW a \in Lists \cap ModifiableByClient,
           NEW k \in DOMAIN view.list[a][u], NEW v \in AnyValue, NEW reported,
           Changed("Modify", u, a, v, reported, WithList(u, a, [view.list[a][u] EXCEPT ![k] = v]))
    PROVE  IInv'
<1> DEFINE s == [view.list[a][u] EXCEPT ![k] = v]
           n == ListPut(view, a, u, s)
<1>1. view \in Tables /\ Fresh(view) /\ view.row[u] # NoRow
  BY DEF IInv, TypeInv, Stored
<1>2. view.list[a][u] \in Seq(AnyValue)
  BY <1>1 DEF Tables
<1>3. s \in Seq(AnyValue) /\ k \in DOMAIN s /\ s[k] = v
  BY <1>2
<1>4. \E j \in DOMAIN view.list[a][u] \cap DOMAIN s :
          s[j] = v /\ s = [view.list[a][u] EXCEPT ![j] = v]
  BY <1>3
<1>5. WithList(u, a, s) = n
  BY DEF WithList, ListPut
<1>6. Changed("Modify", u, a, v, reported, n)
  BY <1>5
<1> HIDE DEF s, n
<1>7. n = ListPut(view, a, u, s)
  BY DEF n
<1> DEFINE op == "Modify"
<1>8. op = "Modify" /\ op # "Delete"
  OBVIOUS
<1> HIDE DEF op
<1>9. /\ n \in Tables /\ Fresh(n)
      /\ Answered([op |-> op, uid |-> u, name |-> a, asked |-> v,
                     reported |-> reported], view, n)
  BY <1>1, <1>3, <1>4, <1>7, <1>8, ListChangeAnswered
<1>10. QED
  BY <1>6, <1>8, <1>9, ChangedKeeps

\* One instance of a list, or all of them, are removed.
LEMMA RemoveKeeps ==
    ASSUME IInv, Ready, NEW u \in Uids, Stored(u), NEW a \in Lists \cap DeletableByClient,
           NEW asked, NEW reported, NEW s,
           Removed(view.list[a][u], s, asked),
           reported # Nothing =>
               \E k \in DOMAIN view.list[a][u] :
                   view.list[a][u][k] = reported /\ s = RemoveAt(view.list[a][u], k),
           Changed("Delete", u, a, asked, reported, WithList(u, a, s))
    PROVE  IInv'
<1> DEFINE n == ListPut(view, a, u, s)
<1>1. view \in Tables /\ Fresh(view) /\ view.row[u] # NoRow
  BY DEF IInv, TypeInv, Stored
<1>2. view.list[a][u] \in Seq(AnyValue)
  <2>1. view.list \in [Lists -> [Uids -> Seq(AnyValue)]]
    BY <1>1 DEF Tables
  <2>2. QED
    BY <2>1
<1>3. s \in Seq(AnyValue)
  <2>1. CASE s = << >>
    BY <2>1
  <2>2. ASSUME NEW k \in DOMAIN view.list[a][u], s = RemoveAt(view.list[a][u], k)
        PROVE  s \in Seq(AnyValue)
    BY <1>2, <2>2, RemoveAtType
  <2>3. QED
    BY <2>1, <2>2 DEF Removed
<1>4. Changed("Delete", u, a, asked, reported, n)
  BY DEF WithList, ListPut
<1> HIDE DEF n
<1>5. n = ListPut(view, a, u, s)
  BY DEF n
<1>6. /\ n \in Tables /\ Fresh(n)
      /\ Answered([op |-> "Delete", uid |-> u, name |-> a, asked |-> asked,
                     reported |-> reported], view, n)
  BY <1>1, <1>3, <1>5, ListChangeAnswered
<1>7. QED
  BY <1>4, <1>6, ChangedKeeps

\* A column is set.
LEMMA SetKeeps ==
    ASSUME IInv, Ready, NEW u \in Uids, Stored(u), NEW a \in ModifiableByClient,
           NEW v \in AnyValue, MaySet(u, a, v),
           NEW op \in {"Set", "Modify"}, NEW reported,
           Changed(op, u, a, v, reported, WithSingle(u, a, v))
    PROVE  IInv'
<1> DEFINE n == ColumnPut(view, a, u, v)
<1>1. view \in Tables /\ Fresh(view) /\ view.row[u] # NoRow
  BY DEF IInv, TypeInv, Stored
<1>2. a \in Singles \cap ModifiableByClient /\ view.row[u].single[a] \in {Unset, v}
  BY DEF MaySet
<1>3. Changed(op, u, a, v, reported, n)
  BY DEF WithSingle, ColumnPut
<1> HIDE DEF n
<1>4. n = ColumnPut(view, a, u, v)
  BY DEF n
<1>5. /\ n \in Tables /\ Fresh(n)
      /\ Answered([op |-> op, uid |-> u, name |-> a, asked |-> v,
                     reported |-> reported], view, n)
  BY <1>1, <1>2, <1>4, ColumnChangeAnswered
<1>6. QED
  BY <1>3, <1>5, ChangedKeeps

-----------------------------------------------------------------------------
(* Every action *)

(* The empty store satisfies the invariant. *)
LEMMA InitEstablishes == Init => IInv
<1> SUFFICES ASSUME Init PROVE IInv
  OBVIOUS
<1>1. table.row = [u \in Uids |-> NoRow] /\ table.list = [a \in Lists |-> [u \in Uids |-> << >>]]
      /\ table.next = 1
  BY DEF Init
<1>2. table \in Tables
  <2>1. [u \in Uids |-> << >>] \in [Uids -> Seq(AnyValue)]
    OBVIOUS
  <2>2. [a \in Lists |-> [u \in Uids |-> << >>]] \in [Lists -> [Uids -> Seq(AnyValue)]]
    BY <2>1
  <2>3. 1 \in 1..(MaxUid + 1)
    BY BoundsAreNumbers
  <2>4. QED
    BY <2>2, <2>3 DEF Init, Tables
<1>3. Fresh(table)
  BY <1>1 DEF Fresh
<1>4. QED
  BY <1>2, <1>3 DEF Init, IInv, TypeInv, InStep, OneAhead, NoVersion

\* The session begins and ends.
LEMMA SessionKeeps ==
    ASSUME IInv, BeginBatch \/ EndBatch \/ Crash
    PROVE  IInv'
<1>1. /\ table' = table /\ pager' = pager
      /\ view' = table /\ pending' = << >> /\ session' \in {"open", "closed"}
      /\ version' \in Versions \cup {NoVersion}
  <2>1. CASE BeginBatch
    BY <2>1 DEF BeginBatch, IInv, InStep, OneAhead
  <2>2. CASE EndBatch
    BY <2>2 DEF EndBatch
  <2>3. CASE Crash
    BY <2>3 DEF Crash
  <2>4. QED
    BY <2>1, <2>2, <2>3
<1>2. QED
  BY <1>1 DEF IInv, TypeInv, InStep, OneAhead

(* A commit makes the table what the view is. *)
LEMMA CommitKeeps == ASSUME IInv, Commit PROVE IInv'
<1>1. /\ table' = view /\ view' = view /\ pending' = << >>
      /\ session' = session /\ version' = version
      /\ pager' \in {pager, << >>}
  BY DEF Commit
<1>2. QED
  BY <1>1 DEF IInv, TypeInv, InStep, OneAhead

(* A failed commit leaves the table as it was. *)
LEMMA CommitFailsKeeps == ASSUME IInv, CommitFails PROVE IInv'
BY DEF CommitFails, IInv, TypeInv, InStep, OneAhead

(* Creating an object keeps the invariant. *)
LEMMA CreateKeeps ==
    ASSUME IInv, NEW type \in Types, NEW list \in Given, NEW single \in Columns,
           NEW date \in 1..MaxDate, Create(type, list, single, date)
    PROVE  IInv'
<1> DEFINE u == view.next
           n == WithNew(view, u, type, list, single, date)
<1>1. Ready /\ u \in Uids /\ view \in Tables /\ Fresh(view)
  BY DEF Create, IInv, TypeInv
<1>2. \A a \in Lists \cap {"Name"} : Distinct(list[a])
  BY DEF Create
<1>3. Changed("Create", u, Nothing, [list |-> list, single |-> single], Nothing, n)
  BY DEF Create, WithNew
<1> HIDE DEF n
<1>4. n = WithNew(view, u, type, list, single, date) /\ view.next = u
  BY DEF n
<1> HIDE DEF u
<1>5. /\ n \in Tables /\ Fresh(n)
      /\ Answered(Creation(u, list, single), view, n)
  BY <1>1, <1>2, <1>4, CreateAnswered
<1>6. QED
  BY <1>1, <1>3, <1>5, ChangedKeeps DEF Creation

(* Destroying an object keeps the invariant. *)
LEMMA DestroyKeeps ==
    ASSUME IInv, NEW u \in Uids, Destroy(u)
    PROVE  IInv'
<1> DEFINE n == [view EXCEPT !.row[u] = NoRow]
<1>1. Ready /\ view.row[u] # NoRow /\ view \in Tables /\ Fresh(view)
  BY DEF Destroy, Stored, IInv, TypeInv
<1>2. Changed("Destroy", u, Nothing, Nothing, Nothing, n)
  BY DEF Destroy
<1>3. /\ n \in Tables /\ Fresh(n)
      /\ Answered(Destruction(u), view, n)
  BY <1>1, DestroyAnswered
<1> HIDE DEF n
<1>4. QED
  BY <1>1, <1>2, <1>3, ChangedKeeps DEF Destruction

(* SetAttribute keeps the invariant. *)
LEMMA SetAttributeKeeps ==
    ASSUME IInv, NEW u \in Uids, NEW a \in Names, NEW v \in Values[a], SetAttribute(u, a, v)
    PROVE  IInv'
<1>1. v \in AnyValue
  BY GivenValue
<1>2. QED
  BY <1>1, SetKeeps DEF SetAttribute

(* The lists of the view are sequences of values of their attribute. *)
LEMMA ViewLists ==
    ASSUME IInv
    PROVE  \A a \in Lists, u \in Uids : view.list[a][u] \in Seq(AnyValue)
<1>1. view \in Tables
  BY DEF IInv, TypeInv
<1>2. QED
  BY <1>1 DEF Tables

(* ModifyAttribute keeps the invariant. *)
LEMMA ModifyKeeps == ASSUME IInv, Modify PROVE IInv'
<1>1. ASSUME NEW u \in Uids, NEW a \in Names, NEW i \in Indexes, NEW v \in Values[a],
             ModifyByIndex(u, a, i, v)
      PROVE  IInv'
  <2>1. /\ Ready /\ Stored(u) /\ a \in Lists \cap ModifiableByClient
        /\ 0 <= i /\ i < Len(view.list[a][u])
        /\ Changed("Modify", u, a, v, v, WithList(u, a, [view.list[a][u] EXCEPT ![i + 1] = v]))
    BY <1>1 DEF ModifyByIndex, Instances
  <2>2. view.list[a][u] \in Seq(AnyValue)
    BY <2>1, ViewLists
  <2>3. i \in Int
    BY StoreAssumption
  <2>4. i + 1 \in DOMAIN view.list[a][u]
    BY <2>1, <2>2, <2>3
  <2>5. v \in AnyValue
    BY GivenValue
  <2>6. QED
    BY <2>1, <2>4, <2>5, ReplaceKeeps
<1>2. ASSUME NEW u \in Uids, NEW a \in Names, NEW v \in Values[a], ModifyShown(u, a, v)
      PROVE  IInv'
  <2>1. v \in AnyValue
    BY GivenValue
  <2>2. QED
    BY <1>2, <2>1, SetKeeps DEF ModifyShown
<1>3. ASSUME NEW u \in Uids, NEW a \in Names, NEW c \in Values[a], NEW v \in Values[a],
             ModifyCurrent(u, a, c, v)
      PROVE  IInv'
  <2>1. PICK k \in FirstOf(view.list[a][u], c) :
            Changed("Modify", u, a, v, Nothing, WithList(u, a, [view.list[a][u] EXCEPT ![k] = v]))
    BY <1>3 DEF ModifyCurrent
  <2>2. k \in DOMAIN view.list[a][u]
    BY DEF FirstOf
  <2>3. v \in AnyValue
    BY GivenValue
  <2>4. Ready /\ Stored(u) /\ a \in Lists \cap ModifiableByClient
    BY <1>3 DEF ModifyCurrent
  <2>5. QED
    BY <2>1, <2>2, <2>3, <2>4, ReplaceKeeps
<1>4. ASSUME NEW u \in Uids, NEW a \in Names, NEW c \in Values[a] \cup {Nothing},
             NEW v \in Values[a], ModifySingle(u, a, c, v)
      PROVE  IInv'
  <2>1. v \in AnyValue
    BY GivenValue
  <2>2. QED
    BY <1>4, <2>1, SetKeeps DEF ModifySingle
<1>5. QED
  BY <1>1, <1>2, <1>3, <1>4 DEF Modify

(* DeleteAttribute keeps the invariant. *)
LEMMA DeleteKeeps == ASSUME IInv, Delete PROVE IInv'
<1>1. ASSUME NEW u \in Uids, NEW a \in Names, NEW i \in Indexes, DeleteByIndex(u, a, i)
      PROVE  IInv'
  <2> DEFINE s == view.list[a][u]
             k == PositionOf(s, i)
             reported == IF Shown(u, a) = << >> THEN Nothing ELSE Shown(u, a)[k]
  <2>1. /\ Ready /\ Stored(u) /\ a \in Lists \cap DeletableByClient
        /\ InRange(s, i)
        /\ Changed("Delete", u, a, Nothing, reported, WithList(u, a, RemoveAt(s, k)))
    BY <1>1 DEF DeleteByIndex, MayDelete
  <2>2. s \in Seq(AnyValue)
    BY <2>1, ViewLists
  <2>3. i \in Int
    BY StoreAssumption
  <2>4. k \in DOMAIN s
    BY <2>1, <2>2, <2>3, PositionInRange
  <2>5. reported \in {Nothing, s[k]}
    BY <2>1 DEF Shown, Instances
  <2> HIDE DEF reported, k
  <2>6. Removed(s, RemoveAt(s, k), Nothing)
    BY <2>4 DEF Removed
  <2>7. QED
    BY <2>1, <2>4, <2>5, <2>6, RemoveKeeps
<1>2. ASSUME NEW u \in Uids, NEW a \in Names, NEW c \in Values[a], DeleteByValue(u, a, c)
      PROVE  IInv'
  <2>1. PICK k \in FirstOf(view.list[a][u], c) :
            Changed("Delete", u, a, c, Nothing, WithList(u, a, RemoveAt(view.list[a][u], k)))
    BY <1>2 DEF DeleteByValue
  <2>2. k \in DOMAIN view.list[a][u] /\ view.list[a][u][k] = c
    BY DEF FirstOf
  <2>3. Ready /\ Stored(u) /\ a \in Lists \cap DeletableByClient
    BY <1>2 DEF DeleteByValue, MayDelete
  <2>4. Removed(view.list[a][u], RemoveAt(view.list[a][u], k), c)
    BY <2>2 DEF Removed
  <2>5. QED
    BY <2>1, <2>2, <2>3, <2>4, RemoveKeeps
<1>3. ASSUME NEW u \in Uids, NEW a \in Names, DeleteAll(u, a)
      PROVE  IInv'
  <2>1. Removed(view.list[a][u], << >>, Nothing)
    BY DEF Removed
  <2>2. /\ Ready /\ Stored(u) /\ a \in Lists \cap DeletableByClient
        /\ Changed("Delete", u, a, Nothing, Nothing, WithList(u, a, << >>))
    BY <1>3 DEF DeleteAll, MayDelete
  <2>3. QED
    BY <2>1, <2>2, RemoveKeeps
<1>4. QED
  BY <1>1, <1>2, <1>3 DEF Delete

\* Matching objects are objects.
LEMMA PagesAreUids ==
    /\ \A t, f : Matching(t, f) \subseteq Uids
    /\ \A t, f, o, m : Page(t, f, o, m) \subseteq Uids
<1>1. \A t, f : Matching(t, f) \subseteq Uids
  BY DEF Matching
<1>2. \A t, f, o, m : Page(t, f, o, m) \subseteq Matching(t, f)
  BY DEF Page
<1>3. QED
  BY <1>1, <1>2

\* A client pages through the tables and changes nothing.
LEMMA PagingKeeps ==
    ASSUME IInv, (\E f \in Filters : StartPaging(f)) \/ NextPage \/ StopPaging
    PROVE  IInv'
<1>1. /\ table' = table /\ view' = view /\ session' = session /\ version' = version
      /\ pending' = pending
  BY DEF StartPaging, NextPage, StopPaging
<1>2. pager' = << >> \/ \E q \in Pagers : pager' = <<q>>
  <2>1. ASSUME NEW f \in Filters, StartPaging(f)
        PROVE  \E q \in Pagers : pager' = <<q>>
    <3> DEFINE q == [filter |-> f, offset |-> 0, seen |-> {}, expected |-> Matching(table, f),
                     done |-> FALSE]
    <3>1. Matching(table, f) \subseteq Uids
      BY PagesAreUids
    <3>2. q \in Pagers
      BY <3>1 DEF Pagers
    <3>3. pager' = <<q>>
      BY <2>1 DEF StartPaging
    <3>4. QED
      BY <3>2, <3>3
  <2>2. CASE NextPage
    <3>1. PICK p \in Pagers : pager = <<p>>
      BY <2>2 DEF NextPage, IInv, TypeInv
    <3> DEFINE found == Page(table, p.filter, p.offset, PageSize)
               q == [p EXCEPT !.offset = @ + PageSize, !.seen = @ \cup found, !.done = found = {}]
    <3>2. pager' = <<q>>
      BY <2>2, <3>1 DEF NextPage
    <3>3. found \subseteq Uids
      BY PagesAreUids
    <3>4. PageSize \in Nat
      BY StoreAssumption
    <3>5. PICK done \in BOOLEAN : done = (found = {})
      OBVIOUS
    <3>6. q \in Pagers
      <4> HIDE DEF found
      <4>1. p.offset + PageSize \in Nat /\ p.seen \cup found \in SUBSET Uids
        <5>1. p.offset \in Nat
          BY DEF Pagers
        <5>2. p.seen \subseteq Uids
          BY DEF Pagers
        <5>3. p.offset + PageSize \in Nat
          BY <3>4, <5>1
        <5>4. p.seen \cup found \subseteq Uids
          BY <3>3, <5>2, Zenon
        <5>5. QED
          BY <5>3, <5>4, Zenon
      <4>2. q = [p EXCEPT !.offset = p.offset + PageSize, !.seen = p.seen \cup found, !.done = done]
        BY <3>5, Zenon
      <4>3. QED
        BY <4>1, <4>2 DEF Pagers
    <3>7. QED
      BY <3>2, <3>6
  <2>3. CASE StopPaging
    BY <2>3 DEF StopPaging
  <2>4. QED
    BY <2>1, <2>2, <2>3
<1>3. QED
  BY <1>1, <1>2 DEF IInv, TypeInv, InStep, OneAhead

(* Every step of the store keeps the invariant. *)
LEMMA NextKeeps == IInv /\ [Next]_vars => IInv'
<1> SUFFICES ASSUME IInv, [Next]_vars PROVE IInv'
  OBVIOUS
<1>1. CASE BeginBatch \/ EndBatch \/ Crash
  BY <1>1, SessionKeeps
<1>2. CASE Commit
  BY <1>2, CommitKeeps
<1>3. CASE CommitFails
  BY <1>3, CommitFailsKeeps
<1>4. CASE \E type \in Types, list \in Given, single \in Columns, d \in 1..MaxDate :
              Create(type, list, single, d)
  BY <1>4, CreateKeeps
<1>5. CASE \E u \in Uids : Destroy(u)
  BY <1>5, DestroyKeeps
<1>6. CASE \E u \in Uids, a \in Names : \E v \in Values[a] : SetAttribute(u, a, v)
  BY <1>6, SetAttributeKeeps
<1>7. CASE Modify
  BY <1>7, ModifyKeeps
<1>8. CASE Delete
  BY <1>8, DeleteKeeps
<1>9. CASE (\E f \in Filters : StartPaging(f)) \/ NextPage \/ StopPaging
  BY <1>9, PagingKeeps
<1>10. CASE UNCHANGED vars
  BY <1>10 DEF vars, IInv, TypeInv, InStep, OneAhead
<1>11. QED
  BY <1>1, <1>2, <1>3, <1>4, <1>5, <1>6, <1>7, <1>8, <1>9, <1>10 DEF Next

(* The invariant holds throughout every behaviour of the store. *)
LEMMA Invariance == Spec => []IInv
<1>1. Init => IInv
  BY InitEstablishes
<1>2. IInv /\ [Next]_vars => IInv'
  BY NextKeeps
<1>3. QED
  BY <1>1, <1>2, PTL DEF Spec

-----------------------------------------------------------------------------
(* What the clients rely on *)

\* The tables of the rows and of the lists, the session and the pages are what the code
\* keeps: a number that was not handed out has no rows in any table, and an answer is
\* pending only in a session that can commit.
THEOREM TypeCorrect == Spec => []TypeOK
<1>1. IInv => TypeOK
  <2> SUFFICES ASSUME IInv PROVE TypeOK
    OBVIOUS
  <2>1. \A t \in Tables : t.next \in 1..(MaxUid + 1) /\ DOMAIN t.row = Uids /\ DOMAIN t.list = Lists
    BY DEF Tables
  <2>2. ASSUME NEW t \in {table, view}
        PROVE  /\ DOMAIN t.row = Uids /\ DOMAIN t.list = Lists
               /\ \A u \in Uids :
                     u >= t.next => t.row[u] = NoRow /\ \A a \in Lists : t.list[a][u] = << >>
    BY <2>1 DEF IInv, TypeInv, Fresh
  <2>3. pending # << >> => session = "open" /\ Len(pending) = 1
    BY DEF IInv, OneAhead
  <2>4. pager # << >> => pager[1].seen \cup pager[1].expected \subseteq Uids
    BY DEF IInv, TypeInv, Pagers
  <2>5. QED
    BY <2>1, <2>2, <2>3, <2>4 DEF IInv, TypeInv, TypeOK
<1>2. QED
  BY <1>1, Invariance, PTL

\* Only a commit writes the tables, and what it writes is the pending operation's change.
LEMMA OnlyCommitWrites ==
    ASSUME IInv, [Next]_vars, table' # table
    PROVE  /\ Commit /\ table' = view
           /\ \E p : pending = <<p>> /\ Answered(p, table, table')
<1>1. Commit
  <2>1. /\ ~(BeginBatch \/ EndBatch \/ Crash \/ CommitFails)
        /\ ~((\E f \in Filters : StartPaging(f)) \/ NextPage \/ StopPaging)
    BY Zenon DEF BeginBatch, EndBatch, Crash, CommitFails, StartPaging, NextPage, StopPaging
  <2>2. /\ ~\E type \in Types, list \in Given, single \in Columns, d \in 1..MaxDate :
               Create(type, list, single, d)
        /\ ~\E u \in Uids : Destroy(u)
        /\ ~\E u \in Uids, a \in Names : \E v \in Values[a] : SetAttribute(u, a, v)
    BY Zenon DEF Create, Destroy, SetAttribute, Changed
  <2>3. ~Modify
    BY Zenon DEF Modify, ModifyByIndex, ModifyShown, ModifyCurrent, ModifySingle, Changed
  <2>4. ~Delete
    BY Zenon DEF Delete, DeleteByIndex, DeleteByValue, DeleteAll, Changed
  <2>5. QED
    BY <2>1, <2>2, <2>3, <2>4, Zenon DEF Next, vars
<1>2. table' = view /\ pending # << >>
  BY <1>1 DEF Commit
<1>3. QED
  BY <1>1, <1>2 DEF IInv, OneAhead

\* What is committed is what the operation that is answered for was asked to do, in the
\* lists and in the columns of its object, and nothing that operations before it that
\* failed left in the session, of this object or of another.
THEOREM CommitsWhatIsAnswered == Spec => OnlyWhatIsAnswered
<1> DEFINE Only ==
        table' # table =>
            /\ pending # << >>
            /\ \A u \in Uids \ {pending[1].uid} : Object(table', u) = Object(table, u)
            /\ AsAsked(pending[1], Object(table, pending[1].uid), Object(table', pending[1].uid))
<1>1. ASSUME IInv, [Next]_vars PROVE [Only]_vars
  <2> SUFFICES ASSUME table' # table PROVE Only
    OBVIOUS
  <2>1. PICK p : pending = <<p>> /\ Answered(p, table, table')
    BY <1>1, OnlyCommitWrites
  <2>2. pending # << >> /\ pending[1] = p
    BY <2>1
  <2>3. /\ \A u \in Uids \ {p.uid} : Object(table', u) = Object(table, u)
        /\ AsAsked(p, Object(table, p.uid), Object(table', p.uid))
    BY <2>1 DEF Answered
  <2>4. QED
    BY <2>2, <2>3
<1>2. QED
  BY <1>1, Invariance, PTL DEF Spec, OnlyWhatIsAnswered

\* DeleteAttribute deletes the instance that it shows to the client, for any index.
THEOREM DeletionIsShown == Spec => []DeletesWhatItShows
<1>1. IInv => DeletesWhatItShows
  <2> SUFFICES ASSUME IInv, NEW k \in DOMAIN pending,
                      pending[k].op = "Delete", pending[k].reported # Nothing
               PROVE  \E i \in DOMAIN table.list[pending[k].name][pending[k].uid] :
                          /\ table.list[pending[k].name][pending[k].uid][i] = pending[k].reported
                          /\ view.list[pending[k].name][pending[k].uid]
                             = RemoveAt(table.list[pending[k].name][pending[k].uid], i)
    BY DEF DeletesWhatItShows
  <2>1. pending # << >>
    OBVIOUS
  <2>2. PICK p : pending = <<p>> /\ Answered(p, table, view)
    BY <2>1 DEF IInv, OneAhead
  <2>3. pending[k] = p
    BY <2>2
  <2>4. QED
    BY <2>2, <2>3 DEF Answered
<1>2. QED
  BY <1>1, Invariance, PTL

\* The attributes of the objects behave as AttributeTable promises.
THEOREM Implementation == Spec => ImplementsAttributeTable
<1> DEFINE objects == [u \in Uids |-> Object(table, u)]
<1>1. Init => Promised!Init
  <2> SUFFICES ASSUME Init PROVE Promised!Init
    OBVIOUS
  <2>1. table.next = 1
    BY DEF Init
  <2>2. \A u \in Uids : u >= table.next
    BY <2>1, BoundsAreNumbers
  <2>3. \A u \in Uids : Object(table, u) = Promised!Absent
    BY <2>2 DEF Object, Promised!Absent
  <2>4. QED
    BY <2>3 DEF Promised!Init
<1>2. ASSUME IInv, [Next]_vars PROVE [Promised!Next]_objects
  <2>1. CASE table' = table
    BY <2>1
  <2>2. CASE table' # table
    <3>1. PICK p : pending = <<p>> /\ Answered(p, table, table')
      BY <1>2, <2>2, OnlyCommitWrites
    <3>2. \A u \in Uids : objects[u] = Object(table, u) /\ objects'[u] = Object(table', u)
      OBVIOUS
    <3>3. /\ p.uid \in Uids
          /\ \A w \in Uids \ {p.uid} : objects'[w] = objects[w]
      BY <3>1, <3>2 DEF Answered
    <3>4. CASE Object(table', p.uid) = Object(table, p.uid)
      BY <3>1, <3>4 DEF Answered
    <3>5. CASE Promised!Change(Object(table, p.uid), Object(table', p.uid))
      <4>1. Promised!Change(objects[p.uid], objects'[p.uid])
        BY <3>2, <3>3, <3>5
      <4>2. Promised!Next
        BY <3>3, <4>1 DEF Promised!Next
      <4>3. QED
        BY <4>2
    <3>6. QED
      BY <3>1, <3>4, <3>5 DEF Answered
  <2>3. QED
    BY <2>1, <2>2
<1>3. QED
  BY <1>1, <1>2, Invariance, PTL DEF Spec, ImplementsAttributeTable, Promised!Spec

-----------------------------------------------------------------------------
(* The pages of a Locate *)

(* The objects that match and come before u: its position is their number. *)
Ahead(t, f, u) == {v \in Matching(t, f) : Before(t, v, u)}

\* Of two objects that match, one comes before the other, and before all that the other
\* comes before.
LEMMA BeforeOrders ==
    ASSUME NEW t \in Tables, NEW f
    PROVE  /\ \A u \in Matching(t, f) : ~Before(t, u, u)
           /\ \A u, v \in Matching(t, f) : u # v => Before(t, u, v) \/ Before(t, v, u)
           /\ \A u, v, w \in Matching(t, f) :
                 Before(t, u, v) /\ Before(t, v, w) => Before(t, u, w)
<1>1. \A u \in Matching(t, f) : u \in Int /\ t.row[u].date \in Int
  <2>1. \A u \in Uids : t.row[u] \in Rows \cup {NoRow}
    BY DEF Tables
  <2>2. \A row \in Rows : row.date \in Int
    BY BoundsAreNumbers DEF Rows
  <2>3. QED
    BY <2>1, <2>2, BoundsAreNumbers DEF Matching
<1>2. QED
  BY <1>1 DEF Before

\* What matches, and what comes before an object, are finitely many.
LEMMA MatchingFinite ==
    ASSUME NEW t, NEW f
    PROVE  /\ IsFiniteSet(Matching(t, f)) /\ Cardinality(Matching(t, f)) \in Nat
           /\ \A u : IsFiniteSet(Ahead(t, f, u)) /\ Position(t, f, u) = Cardinality(Ahead(t, f, u))
                     /\ Position(t, f, u) \in Nat
<1>1. IsFiniteSet(Uids)
  BY BoundsAreNumbers, FS_Interval
<1>2. Matching(t, f) \in SUBSET Uids
  BY PagesAreUids
<1>3. IsFiniteSet(Matching(t, f)) /\ Cardinality(Matching(t, f)) \in Nat
  BY ONLY <1>1, <1>2, FS_Subset, FS_CardinalityType
<1>4. ASSUME NEW u PROVE IsFiniteSet(Ahead(t, f, u)) /\ Cardinality(Ahead(t, f, u)) \in Nat
  <2>1. Ahead(t, f, u) \in SUBSET Matching(t, f)
    BY DEF Ahead
  <2>2. QED
    BY ONLY <1>3, <2>1, FS_Subset, FS_CardinalityType
<1>5. \A u : Position(t, f, u) = Cardinality(Ahead(t, f, u))
  BY DEF Position, Ahead
<1>6. QED
  BY <1>3, <1>4, <1>5

\* A set with fewer elements of a finite set has a smaller cardinality.
LEMMA FewerElements ==
    ASSUME NEW S, IsFiniteSet(S), NEW T \in SUBSET S, NEW x \in S, x \notin T
    PROVE  Cardinality(T) \in Nat /\ Cardinality(S) \in Nat /\ Cardinality(T) < Cardinality(S)
<1>1. IsFiniteSet(T) /\ Cardinality(T) <= Cardinality(S) /\ Cardinality(S) # Cardinality(T)
  BY FS_Subset
<1>2. Cardinality(T) \in Nat /\ Cardinality(S) \in Nat
  BY <1>1, FS_CardinalityType
<1>3. QED
  BY ONLY <1>1, <1>2

\* An object that matches is at a position of the list, and what comes before it is at a
\* smaller one.
LEMMA PositionsGrow ==
    ASSUME NEW t \in Tables, NEW f, NEW u \in Matching(t, f)
    PROVE  /\ Position(t, f, u) \in 0..(Cardinality(Matching(t, f)) - 1)
           /\ \A v \in Matching(t, f) : Before(t, v, u) => Position(t, f, v) < Position(t, f, u)
<1> DEFINE M == Matching(t, f)
<1>1. Ahead(t, f, u) \in SUBSET M /\ u \notin Ahead(t, f, u)
  BY BeforeOrders DEF Ahead
<1>2. Cardinality(Ahead(t, f, u)) < Cardinality(M)
  BY <1>1, MatchingFinite, FewerElements
<1>3. Position(t, f, u) \in 0..(Cardinality(M) - 1)
  BY <1>2, MatchingFinite
<1>4. ASSUME NEW v \in M, Before(t, v, u) PROVE Position(t, f, v) < Position(t, f, u)
  <2>1. Ahead(t, f, v) \in SUBSET Ahead(t, f, u)
    BY <1>4, BeforeOrders DEF Ahead
  <2>2. v \in Ahead(t, f, u) /\ v \notin Ahead(t, f, v)
    BY <1>4, BeforeOrders DEF Ahead
  <2>3. Cardinality(Ahead(t, f, v)) < Cardinality(Ahead(t, f, u))
    BY <2>1, <2>2, MatchingFinite, FewerElements
  <2>4. QED
    BY <2>3, MatchingFinite
<1>5. QED
  BY <1>3, <1>4

\* There is an object at every position of the list.
LEMMA PositionsFill ==
    ASSUME NEW t \in Tables, NEW f, NEW k \in 0..(Cardinality(Matching(t, f)) - 1)
    PROVE  \E u \in Matching(t, f) : Position(t, f, u) = k
<1> DEFINE M == Matching(t, f)
           n == Cardinality(M)
           at == [u \in M |-> Position(t, f, u)]
<1>1. IsFiniteSet(M) /\ n \in Nat
  BY MatchingFinite
<1>2. at \in [M -> 0..(n - 1)]
  BY PositionsGrow
<1>3. \A u, v \in M : u # v => at[u] # at[v]
  <2> SUFFICES ASSUME NEW u \in M, NEW v \in M, u # v PROVE at[u] # at[v]
    OBVIOUS
  <2>1. Position(t, f, u) \in Nat /\ Position(t, f, v) \in Nat
    BY MatchingFinite
  <2>2. Before(t, u, v) \/ Before(t, v, u)
    BY BeforeOrders
  <2>3. Position(t, f, u) < Position(t, f, v) \/ Position(t, f, v) < Position(t, f, u)
    BY <2>2, PositionsGrow
  <2>4. QED
    BY <2>1, <2>3
<1>4. IsFiniteSet(0..(n - 1)) /\ Cardinality(0..(n - 1)) = n
  <2>1. 0 \in Int /\ n - 1 \in Int
    BY <1>1
  <2>2. QED
    BY <1>1, <2>1, FS_Interval
<1> HIDE DEF at, M, n
<1>5. at \in Injection(M, 0..(n - 1))
  BY ONLY <1>2, <1>3 DEF Injection, IsInjective
<1>6. at \in Surjection(M, 0..(n - 1))
  BY ONLY <1>4, <1>5, FS_Injection DEF n
<1>7. \E u \in M : at[u] = k
  BY ONLY <1>6, k \in 0..(Cardinality(Matching(t, f)) - 1) DEF Surjection, n, M
<1>8. QED
  BY ONLY <1>7 DEF at, M

(* Objects that are in both have the same date in both. *)
SameDates(old, new) ==
    \A w \in Uids : old.row[w] # NoRow /\ new.row[w] # NoRow => new.row[w].date = old.row[w].date

(* The date of an object is that of its creation, also in a session that is lost. *)
DatesKept == SameDates(table, view)

\* An operation leaves the dates of the objects: a new object gets a number that no
\* object has.
LEMMA ViewSteps ==
    ASSUME IInv, [Next]_vars
    PROVE  view' \in {view, table} \/ (view = table /\ SameDates(view, view'))
<1>1. CASE UNCHANGED vars \/ BeginBatch \/ EndBatch \/ Crash \/ Commit \/ CommitFails
           \/ (\E f \in Filters : StartPaging(f)) \/ NextPage \/ StopPaging
  <2>1. CASE BeginBatch \/ EndBatch \/ Crash
    BY <2>1 DEF BeginBatch, EndBatch, Crash
  <2>2. QED
    BY <1>1, <2>1 DEF vars, Commit, CommitFails, StartPaging, NextPage, StopPaging
<1>2. Ready => view = table
  BY DEF Ready, IInv, InStep
<1>3. view \in Tables /\ Fresh(view)
  BY DEF IInv, TypeInv
<1>4. CASE \E type \in Types, list \in Given, single \in Columns, d \in 1..MaxDate :
              Create(type, list, single, d)
  <2>0. PICK type \in Types, list \in Given, single \in Columns, d \in 1..MaxDate :
            Create(type, list, single, d)
    BY <1>4
  <2>1. /\ Ready /\ view.next \in Uids
        /\ view'.row = [view.row EXCEPT ![view.next] =
                           [type |-> type, single |-> single, date |-> d]]
    BY <2>0 DEF Create, Changed
  <2>2. view.row[view.next] = NoRow
    BY <1>3, <2>1 DEF Fresh
  <2>3. \A w \in Uids \ {view.next} : view'.row[w] = view.row[w]
    BY <1>3, <2>1 DEF Tables
  <2>4. QED
    BY <1>2, <2>1, <2>2, <2>3 DEF SameDates
<1>5. CASE \E u \in Uids : Destroy(u)
  <2>1. PICK u \in Uids : Ready /\ view' = [view EXCEPT !.row[u] = NoRow]
    BY <1>5 DEF Destroy, Changed
  <2>2. \A w \in Uids : view'.row[w] = IF w = u THEN NoRow ELSE view.row[w]
    BY <1>3, <2>1 DEF Tables
  <2>3. QED
    BY <1>2, <2>1, <2>2 DEF SameDates
<1>6. ASSUME NEW u \in Uids, NEW a, NEW s, Ready, view' = WithList(u, a, s)
      PROVE  view = table /\ SameDates(view, view')
  BY <1>2, <1>6 DEF WithList, SameDates
<1>7. ASSUME NEW u \in Uids, NEW a, NEW v, Ready, view' = WithSingle(u, a, v)
      PROVE  view = table /\ SameDates(view, view')
  <2>1. view'.row = [view.row EXCEPT ![u].single[a] = v]
    BY <1>3, <1>7 DEF WithSingle, Tables
  <2>2. \A w \in Uids : view'.row[w] = IF w = u THEN [view.row[u] EXCEPT !.single[a] = v]
                                       ELSE view.row[w]
    BY <1>3, <2>1 DEF Tables
  <2>3. view.row[u] # NoRow => view'.row[u].date = view.row[u].date
    BY <1>3, <2>2 DEF Tables, Rows
  <2>4. QED
    BY <1>2, <1>7, <2>2, <2>3 DEF SameDates
<1>8. CASE \E u \in Uids, a \in Names : \E v \in Values[a] : SetAttribute(u, a, v)
  BY <1>7, <1>8 DEF SetAttribute, Changed
<1>9. CASE Modify
  <2>1. ASSUME NEW u \in Uids, NEW a \in Names, NEW i \in Indexes, NEW v \in Values[a],
               ModifyByIndex(u, a, i, v)
        PROVE  view = table /\ SameDates(view, view')
    BY <1>6, <2>1 DEF ModifyByIndex, Changed
  <2>2. ASSUME NEW u \in Uids, NEW a \in Names, NEW v \in Values[a], ModifyShown(u, a, v)
        PROVE  view = table /\ SameDates(view, view')
    BY <1>7, <2>2 DEF ModifyShown, Changed
  <2>3. ASSUME NEW u \in Uids, NEW a \in Names, NEW c, NEW v \in Values[a],
               ModifyCurrent(u, a, c, v)
        PROVE  view = table /\ SameDates(view, view')
    BY <1>6, <2>3 DEF ModifyCurrent, Changed
  <2>4. ASSUME NEW u \in Uids, NEW a \in Names, NEW c, NEW v \in Values[a],
               ModifySingle(u, a, c, v)
        PROVE  view = table /\ SameDates(view, view')
    BY <1>7, <2>4 DEF ModifySingle, Changed
  <2>5. QED
    BY <1>9, <2>1, <2>2, <2>3, <2>4 DEF Modify
<1>10. CASE Delete
  BY <1>6, <1>10 DEF Delete, DeleteByIndex, DeleteByValue, DeleteAll, Changed
<1>11. QED
  BY <1>1, <1>4, <1>5, <1>8, <1>9, <1>10 DEF Next

\* The dates of the objects are kept from their creation on.
LEMMA DatesInvariance == Spec => []DatesKept
<1>1. Init => DatesKept
  BY DEF Init, DatesKept, SameDates
<1>2. ASSUME IInv, [Next]_vars, DatesKept PROVE DatesKept'
  <2>1. CASE table' # table
    <3>1. Commit
      BY <1>2, <2>1, OnlyCommitWrites
    <3>2. QED
      BY <3>1 DEF Commit, DatesKept, SameDates
  <2>2. CASE table' = table
    <3>1. CASE view' \in {view, table}
      BY <1>2, <2>2, <3>1 DEF DatesKept, SameDates
    <3>2. CASE view = table /\ SameDates(view, view')
      BY <2>2, <3>2 DEF DatesKept
    <3>3. QED
      BY <1>2, <3>1, <3>2, ViewSteps
  <2>3. QED
    BY <2>1, <2>2
<1>3. QED
  BY <1>1, <1>2, Invariance, PTL DEF Spec

\* Objects that begin to match move those that matched before to later positions.
LEMMA LaterPositions ==
    ASSUME NEW old \in Tables, NEW new \in Tables, SameDates(old, new), NEW f,
           Matching(old, f) \subseteq Matching(new, f), NEW u \in Matching(old, f)
    PROVE  Position(old, f, u) <= Position(new, f, u)
<1>1. \A v \in Matching(old, f) : /\ v \in Uids
                                  /\ old.row[v] # NoRow /\ new.row[v] # NoRow
  BY DEF Matching
<1>2. \A v \in Matching(old, f) : Before(old, v, u) => Before(new, v, u)
  BY <1>1 DEF SameDates, Before
<1>3. Ahead(old, f, u) \in SUBSET Ahead(new, f, u)
  BY <1>2 DEF Ahead
<1>4. Cardinality(Ahead(old, f, u)) <= Cardinality(Ahead(new, f, u))
  BY <1>3, MatchingFinite, FS_Subset
<1>5. QED
  BY <1>4, MatchingFinite

\* The page that begins before an object that matches is not empty, and the object is on
\* it or at a position after it.
LEMMA PageShows ==
    ASSUME NEW t \in Tables, NEW f, NEW offset \in Nat, NEW u \in Matching(t, f),
           offset <= Position(t, f, u)
    PROVE  /\ Page(t, f, offset, PageSize) # {}
           /\ u \notin Page(t, f, offset, PageSize) => offset + PageSize <= Position(t, f, u)
<1> DEFINE n == Cardinality(Matching(t, f))
<1>1. PageSize \in Nat \ {0} /\ n \in Nat
  <2>1. PageSize \in Nat \ {0}
    BY StoreAssumption, Zenon
  <2>2. Cardinality(Matching(t, f)) \in Nat
    BY MatchingFinite
  <2>3. QED
    BY ONLY <2>1, <2>2
<1>2. Position(t, f, u) \in 0..(n - 1)
  BY PositionsGrow
<1>3. Page(t, f, offset, PageSize) =
          {v \in Matching(t, f) : Position(t, f, v) \in Window(n, offset, PageSize)}
  BY DEF Page
<1> HIDE DEF n
<1>4. Window(n, offset, PageSize) =
          offset..((IF offset + PageSize > n THEN n ELSE offset + PageSize) - 1)
  BY <1>1, <1>2 DEF Window, Bounded
<1>5. PICK w \in Matching(t, f) : Position(t, f, w) = offset
  <2>1. offset \in 0..(n - 1)
    BY <1>1, <1>2
  <2>2. QED
    BY <2>1, PositionsFill DEF n
<1>6. offset \in Window(n, offset, PageSize)
  BY <1>1, <1>2, <1>4
<1>7. Page(t, f, offset, PageSize) # {}
  BY <1>3, <1>5, <1>6
<1>8. ASSUME u \notin Page(t, f, offset, PageSize)
      PROVE  offset + PageSize <= Position(t, f, u)
  <2>1. Position(t, f, u) \notin Window(n, offset, PageSize)
    BY <1>3, <1>8
  <2>2. QED
    BY <1>1, <1>2, <1>4, <2>1
<1>9. QED
  BY <1>7, <1>8

(* What the client has not seen yet of what it expects still matches, and comes on the
   pages that it has not asked for. *)
StillToCome(p, t) ==
    \A u \in p.expected :
        /\ u \in Matching(t, p.filter)
        /\ u \notin p.seen => ~p.done /\ p.offset <= Position(t, p.filter, u)

PagesInv == \A k \in DOMAIN pager : StillToCome(pager[k], table)

\* A commit moves nothing back to a page that was read, unless something that matched is
\* gone.
LEMMA CommitKeepsPages ==
    ASSUME IInv, DatesKept, PagesInv, Commit
    PROVE  PagesInv'
<1>1. table \in Tables /\ view \in Tables /\ table' = view
  BY DEF IInv, TypeInv, Commit
<1>2. SUFFICES ASSUME NEW k \in DOMAIN pager' PROVE StillToCome(pager'[k], view)
  BY <1>1 DEF PagesInv
<1>3. PICK p \in Pagers : pager = <<p>>
  BY DEF IInv, TypeInv, Commit
<1>4. /\ pager' = pager /\ k = 1 /\ pager'[k] = p
      /\ Matching(table, p.filter) \subseteq Matching(view, p.filter)
  BY <1>3 DEF Commit
<1>5. StillToCome(p, table)
  BY <1>3, <1>4 DEF PagesInv
<1>6. ASSUME NEW u \in p.expected
      PROVE  /\ u \in Matching(view, p.filter)
             /\ u \notin p.seen => ~p.done /\ p.offset <= Position(view, p.filter, u)
  <2>1. /\ u \in Matching(table, p.filter)
        /\ u \notin p.seen => ~p.done /\ p.offset <= Position(table, p.filter, u)
    BY <1>5 DEF StillToCome
  <2>2. Position(table, p.filter, u) <= Position(view, p.filter, u)
    BY <1>1, <1>4, <2>1, LaterPositions DEF DatesKept
  <2>3. p.offset \in Nat /\ Position(table, p.filter, u) \in Nat
        /\ Position(view, p.filter, u) \in Nat
    BY MatchingFinite DEF Pagers
  <2>4. QED
    BY <1>4, <2>1, <2>2, <2>3
<1>7. QED
  BY <1>4, <1>6 DEF StillToCome

\* A page is read: what the client has still not seen is after it, and the page is not
\* the last one as long as there is such an object.
LEMMA NextPageKeepsPages ==
    ASSUME IInv, PagesInv, NextPage
    PROVE  PagesInv'
<1>1. table \in Tables /\ table' = table
  BY DEF IInv, TypeInv, NextPage
<1>2. PICK p \in Pagers : pager = <<p>>
  BY DEF IInv, TypeInv, NextPage
<1> DEFINE found == Page(table, p.filter, p.offset, PageSize)
<1>3. pager' = <<[p EXCEPT !.offset = @ + PageSize, !.seen = @ \cup found, !.done = found = {}]>>
  BY <1>2 DEF NextPage
<1> HIDE DEF found
<1>4. PICK q : /\ pager' = <<q>>
               /\ q.filter = p.filter /\ q.expected = p.expected
               /\ q.offset = p.offset + PageSize /\ q.seen = p.seen \cup found
               /\ q.done <=> found = {}
  <2>1. PICK done \in BOOLEAN : done = (found = {})
    OBVIOUS
  <2> DEFINE q == [p EXCEPT !.offset = p.offset + PageSize, !.seen = p.seen \cup found,
                            !.done = done]
  <2>2. pager' = <<q>>
    BY <1>3, <2>1, Zenon
  <2>3. /\ q.filter = p.filter /\ q.expected = p.expected
        /\ q.offset = p.offset + PageSize /\ q.seen = p.seen \cup found /\ q.done = done
    BY DEF Pagers
  <2> HIDE DEF q
  <2>4. QED
    BY <2>1, <2>2, <2>3
<1>5. StillToCome(p, table)
  BY <1>2 DEF PagesInv
<1>6. ASSUME NEW u \in q.expected
      PROVE  /\ u \in Matching(table, q.filter)
             /\ u \notin q.seen => ~q.done /\ q.offset <= Position(table, q.filter, u)
  <2>1. /\ u \in Matching(table, p.filter)
        /\ u \notin p.seen => p.offset <= Position(table, p.filter, u)
    BY <1>4, <1>5 DEF StillToCome
  <2>2. ASSUME u \notin q.seen PROVE ~q.done /\ q.offset <= Position(table, q.filter, u)
    <3>1. u \notin p.seen /\ u \notin found
      BY <1>4, <2>2
    <3>2. p.offset \in Nat
      BY DEF Pagers
    <3>3. found # {} /\ p.offset + PageSize <= Position(table, p.filter, u)
      BY <1>1, <2>1, <3>1, <3>2, PageShows DEF found
    <3>4. QED
      BY <1>4, <3>3
  <2>3. QED
    BY <1>4, <2>1, <2>2
<1>7. StillToCome(q, table)
  BY <1>6 DEF StillToCome
<1>8. QED
  BY <1>1, <1>4, <1>7 DEF PagesInv

\* What a client knows of the pages changes when it asks for one, and with a commit.
LEMMA PagerSteps ==
    ASSUME [Next]_vars, pager' # pager
    PROVE  Commit \/ NextPage \/ StopPaging \/ \E f \in Filters : StartPaging(f)
<1> USE DEF Changed
<1>1. CASE UNCHANGED vars \/ BeginBatch \/ EndBatch \/ Crash \/ CommitFails
  BY <1>1 DEF vars, BeginBatch, EndBatch, Crash, CommitFails
<1>2. ASSUME NEW type, NEW list, NEW single, NEW d, Create(type, list, single, d)
      PROVE  FALSE
  BY <1>2 DEF Create
<1>3. ASSUME NEW u, NEW a, NEW v, Destroy(u) \/ SetAttribute(u, a, v)
      PROVE  FALSE
  BY <1>3 DEF Destroy, SetAttribute
<1>4. CASE Modify
  BY <1>4 DEF Modify, ModifyByIndex, ModifyShown, ModifyCurrent, ModifySingle
<1>5. CASE Delete
  BY <1>5 DEF Delete, DeleteByIndex, DeleteByValue, DeleteAll
<1>6. QED
  BY <1>1, <1>2, <1>3, <1>4, <1>5 DEF Next

\* A client that reads pages until one is empty has seen everything that it expected,
\* whatever others commit in between.
THEOREM PagesAreComplete == Spec => []PagesMissNothing
<1>1. Init => PagesInv
  BY DEF Init, PagesInv
<1>2. ASSUME IInv, [Next]_vars, DatesKept, PagesInv PROVE PagesInv'
  <2>1. CASE Commit
    BY <1>2, <2>1, CommitKeepsPages
  <2>2. CASE NextPage
    BY <1>2, <2>2, NextPageKeepsPages
  <2>3. CASE \E f \in Filters : StartPaging(f)
    <3>1. PICK f \in Filters :
              /\ table' = table
              /\ pager' = <<[filter |-> f, offset |-> 0, seen |-> {},
                             expected |-> Matching(table, f), done |-> FALSE]>>
      BY <2>3 DEF StartPaging
    <3>2. \A u : 0 <= Position(table, f, u)
      <4>1. \A u : Position(table, f, u) \in Nat
        BY MatchingFinite
      <4>2. QED
        BY ONLY <4>1
    <3>3. QED
      BY <3>1, <3>2 DEF PagesInv, StillToCome
  <2>4. CASE StopPaging
    BY <2>4 DEF StopPaging, PagesInv
  <2>5. CASE /\ ~Commit /\ ~NextPage /\ ~StopPaging
             /\ ~ \E f \in Filters : StartPaging(f)
    <3>1. table' = table
      BY <1>2, <2>5, OnlyCommitWrites
    <3>2. pager' = pager
      BY <1>2, <2>5, PagerSteps
    <3>3. QED
      BY <1>2, <3>1, <3>2 DEF PagesInv
  <2>6. QED
    BY <2>1, <2>2, <2>3, <2>4, <2>5
<1>3. PagesInv => PagesMissNothing
  BY DEF PagesInv, PagesMissNothing, StillToCome
<1>4. QED
  BY <1>1, <1>2, <1>3, Invariance, DatesInvariance, PTL DEF Spec
=============================================================================
