------------------------- MODULE KmipStorageProofs -------------------------
(***************************************************************************)
(* Proofs about what is stored, for any number of threads, clients,        *)
(* policies, identifiers and batch items: what a client was told it        *)
(* created stays, and a stored object changes only in its state, only by   *)
(* its removal, and only for a client whom its policy allows that.         *)
(***************************************************************************)
EXTENDS KmipEngineProofs

Changing == {"Activate", "Revoke", "Destroy"}

\* Object u is changed or destroyed by an item that found it accessible.
ChangedBy(t, op, u) ==
    /\ InBatch(t)
    /\ Accessible(u, op)
    /\ \/ op = "Destroy" /\ Update(t, op, u, NoObject)
       \/ \E s \in States : op # "Destroy" /\ Update(t, op, u, [db[u] EXCEPT !.state = s])

\* No stored object changes in this step, other than by an item that may.
OnlyByUpdate ==
    \A u \in Uids : db[u] # NoObject /\ db'[u] # db[u] =>
        \E t \in Threads, op \in Changing : ChangedBy(t, op, u)

-----------------------------------------------------------------------------
(* Which steps change stored objects *)

\* A step that leaves the table alone changes none of its objects.
LEMMA StillChangesNothing ==
    ASSUME UNCHANGED db
    PROVE  OnlyByUpdate
BY DEF OnlyByUpdate

\* Rows are inserted where there were none.
LEMMA InsertChangesNothing ==
    ASSUME IInv, NEW t, NEW op, NEW objs, NEW k, Len(objs) \in Nat, Insert(t, op, objs, k)
    PROVE  OnlyByUpdate
<1>1. nextUid \in Nat
  BY EngineAssumption DEF IInv, TypeOK
<1>2. \A u \in Uids : u \in nextUid .. nextUid + Len(objs) - 1 => db[u] = NoObject
  BY <1>1 DEF IInv, TypeOK, Uids
<1>3. \A u \in Uids : u \notin nextUid .. nextUid + Len(objs) - 1 => db'[u] = db[u]
  BY DEF Insert
<1>4. QED
  BY <1>2, <1>3 DEF OnlyByUpdate

\* One row is updated, so no other changes.
LEMMA UpdateChangesOne ==
    ASSUME IInv, NEW t \in Threads, NEW op \in Changing, NEW v, ChangedBy(t, op, v)
    PROVE  OnlyByUpdate
<1>1. \A u \in Uids : u # v => db'[u] = db[u]
  BY DEF ChangedBy, Update, IInv, TypeOK
<1>2. QED
  BY <1>1 DEF OnlyByUpdate

\* The ends of an item that only reads or fails.
LEMMA EndsChangeNothing ==
    ASSUME NEW t, Refuse(t) \/ CommitFails(t) \/ \E op, uids : Answer(t, op, uids)
    PROVE  OnlyByUpdate
<1>1. UNCHANGED db
  BY DEF Refuse, CommitFails, Answer, persistent
<1>2. QED
  BY <1>1, StillChangesNothing

\* The items that create objects.
LEMMA CreatingChangesNothing ==
    ASSUME IInv, NEW t \in Threads,
           CreateRow(t) \/ CreateKeyPair(t) \/ Register(t) \/ DeriveKey(t)
    PROVE  OnlyByUpdate
<1>1. ASSUME NEW op, NEW a, Insert(t, op, <<a>>, 1)
      PROVE  OnlyByUpdate
  <2>1. Len(<<a>>) \in Nat
    OBVIOUS
  <2>2. QED
    BY <1>1, <2>1, InsertChangesNothing
<1>2. ASSUME NEW op, NEW a, NEW b, NEW k, Insert(t, op, <<a, b>>, k)
      PROVE  OnlyByUpdate
  <2>1. Len(<<a, b>>) \in Nat
    OBVIOUS
  <2>2. QED
    BY <1>2, <2>1, InsertChangesNothing
<1>3. CASE CreateRow(t)
  BY <1>1, <1>3, EndsChangeNothing DEF CreateRow
<1>4. CASE CreateKeyPair(t)
  BY <1>2, <1>4, EndsChangeNothing DEF CreateKeyPair
<1>5. CASE Register(t)
  BY <1>1, <1>5, EndsChangeNothing DEF Register
<1>6. CASE DeriveKey(t)
  BY <1>1, <1>6, EndsChangeNothing DEF DeriveKey
<1>7. QED
  BY <1>3, <1>4, <1>5, <1>6

\* The items that change or destroy an object look it up first.
LEMMA ChangingChangesOne ==
    ASSUME IInv, NEW t \in Threads, NEW named, NEW c,
           Activate(t, named) \/ Revoke(t, named, c) \/ Destroy(t, named)
    PROVE  OnlyByUpdate
<1>1. CASE Activate(t, named)
  <2>1. CASE ChangedBy(t, "Activate", Target(named))
    BY <2>1, UpdateChangesOne DEF Changing
  <2>2. QED
    BY <1>1, <2>1, EndsChangeNothing DEF Activate, ChangedBy, States
<1>2. CASE Revoke(t, named, c)
  <2>1. CASE ChangedBy(t, "Revoke", Target(named))
    BY <2>1, UpdateChangesOne DEF Changing
  <2>2. QED
    BY <1>2, <2>1, EndsChangeNothing DEF Revoke, ChangedBy, States, RevokedState
<1>3. CASE Destroy(t, named)
  <2>1. CASE ChangedBy(t, "Destroy", Target(named))
    BY <2>1, UpdateChangesOne DEF Changing
  <2>2. QED
    BY <1>3, <2>1, EndsChangeNothing DEF Destroy, ChangedBy
<1>4. QED
  BY <1>1, <1>2, <1>3

\* Every step.
LEMMA NextChangesByUpdate ==
    ASSUME IInv, [Next]_vars
    PROVE  OnlyByUpdate
<1>1. ASSUME NEW t \in Threads, Item(t)
      PROVE  OnlyByUpdate
  <2>1. CASE CreateRefused(t)
    BY <2>1, EndsChangeNothing DEF CreateRefused
  <2>2. CASE StoreKey(t)
    BY <2>2, StillChangesNothing DEF StoreKey
  <2>3. CASE CreateRow(t) \/ CreateKeyPair(t) \/ Register(t) \/ DeriveKey(t)
    BY <2>3, CreatingChangesNothing
  <2>4. CASE \E u \in NamedUids, c \in BOOLEAN :
                 Activate(t, u) \/ Revoke(t, u, c) \/ Destroy(t, u)
    BY <2>4, ChangingChangesOne
  <2>5. CASE \E u, w \in NamedUids : Get(t, u, w)
    BY <2>5, EndsChangeNothing DEF Get
  <2>6. CASE \E u \in NamedUids : GetAttributes(t, u)
    BY <2>6, EndsChangeNothing DEF GetAttributes
  <2>7. CASE Locate(t)
    BY <2>7, EndsChangeNothing DEF Locate
  <2>8. CASE \E u \in NamedUids, op \in DOMAIN CryptoUses : UseKey(t, u, op)
    BY <2>8, EndsChangeNothing DEF UseKey
  <2>9. QED
    BY <1>1, <2>1, <2>2, <2>3, <2>4, <2>5, <2>6, <2>7, <2>8 DEF Item
<1>2. ASSUME NEW t \in Threads, Work(t), ~Item(t)
      PROVE  UNCHANGED db
  BY <1>2 DEF Work, Start, RejectHeader, MissingBatchItemId, Finish, Leave, Deliver, persistent
<1>3. ASSUME NEW t \in Threads, NEW r \in Requests, Submit(t, r)
      PROVE  UNCHANGED db
  BY <1>3 DEF Submit, persistent
<1>4. CASE ChangePolicies \/ Crash \/ UNCHANGED vars
  BY <1>4, StillChangesNothing DEF ChangePolicies, Crash, vars, persistent
<1>5. QED
  BY <1>1, <1>2, <1>3, <1>4, StillChangesNothing DEF Next

-----------------------------------------------------------------------------
(* The theorems *)

\* What _get_object_with_access_controls hands to an operation is a copy, and
\* the operations that change an object change its state: everything else of a
\* stored object, and the value in its row, stays what it was.
THEOREM StoredObjectsFixed == Spec => ObjectsFixed
<1>1. ASSUME IInv, [Next]_vars, NEW u \in Uids, db[u] # NoObject, db'[u] # NoObject
      PROVE  db'[u] = [db[u] EXCEPT !.state = db'[u].state]
  <2>1. db[u] \in Objects
    BY <1>1 DEF IInv, TypeOK
  <2>2. CASE db'[u] = db[u]
    BY <2>1, <2>2 DEF Objects
  <2>3. CASE db'[u] # db[u]
    <3>1. PICK t \in Threads, op \in Changing : ChangedBy(t, op, u)
      BY <1>1, <2>3, NextChangesByUpdate DEF OnlyByUpdate
    <3>2. PICK s : db'[u] = [db[u] EXCEPT !.state = s]
      BY <1>1, <3>1 DEF ChangedBy, Update, IInv, TypeOK
    <3>3. QED
      BY <2>1, <3>2 DEF Objects
  <2>4. QED
    BY <2>2, <2>3
<1>2. IInv /\ [Next]_vars =>
          [\A u \in Uids : db[u] # NoObject /\ db'[u] # NoObject =>
               db'[u] = [db[u] EXCEPT !.state = db'[u].state]]_vars
  BY <1>1
<1>3. QED
  BY <1>2, Inductive, PTL DEF Spec, ObjectsFixed

\* An object is activated, revoked or destroyed only for a client whom the
\* object's policy, as it is then, allows that - whether the client named the
\* object or relied on the ID placeholder some other client has left.
THEOREM OnlyAuthorisedChanges == Spec => ChangesAuthorised
<1>1. ASSUME IInv, [Next]_vars, NEW u \in Uids, db[u] # NoObject, db'[u] # db[u]
      PROVE  \E t \in Threads, op \in {"Activate", "Revoke", "Destroy"} :
                 /\ pc[t] = "batch"
                 /\ results'[t] = Append(results[t], Result(op, {u}, TRUE))
                 /\ Allowed(request[t].identity, u, op)
  <2>1. PICK t \in Threads, op \in Changing : ChangedBy(t, op, u)
    BY <1>1, NextChangesByUpdate DEF OnlyByUpdate
  <2>2. pc[t] = "batch" /\ Allowed(clientIdentity, u, op)
    BY <2>1 DEF ChangedBy, InBatch, Accessible
  <2>3. clientIdentity = request[t].identity
    BY <1>1, <2>2 DEF IInv, ServesLockHolder
  <2>4. Report(t, op, {u}, TRUE)
    BY <2>1 DEF ChangedBy, Update
  <2>5. results'[t] = Append(results[t], Result(op, {u}, TRUE))
    BY <1>1, <2>4 DEF Report, IInv, ResultsOK
  <2>6. QED
    BY <2>2, <2>3, <2>5 DEF Changing
<1>2. IInv /\ [Next]_vars =>
          [\A u \in Uids : db[u] # NoObject /\ db'[u] # db[u] =>
               \E t \in Threads, op \in {"Activate", "Revoke", "Destroy"} :
                   /\ pc[t] = "batch"
                   /\ results'[t] = Append(results[t], Result(op, {u}, TRUE))
                   /\ Allowed(request[t].identity, u, op)]_vars
  BY <1>1
<1>3. QED
  BY <1>2, Inductive, PTL DEF Spec, ChangesAuthorised

\* Every identifier handed out names a row, unless its destruction is committed.
RowsKept == \A u \in Uids : u < nextUid => db[u] # NoObject \/ u \in destroyed

\* What is destroyed stays so.
LEMMA DestroyedGrows ==
    ASSUME [Next]_vars
    PROVE  destroyed \subseteq destroyed'
<1>1. ASSUME NEW t, Refuse(t) \/ CommitFails(t)
                    \/ (\E op, uids : Answer(t, op, uids))
                    \/ (\E op, objs, k : Insert(t, op, objs, k))
                    \/ (\E op, u, row : Update(t, op, u, row))
      PROVE  destroyed \subseteq destroyed'
  BY <1>1 DEF Refuse, CommitFails, Answer, Insert, Update, history
<1>2. ASSUME NEW t \in Threads, Item(t)
      PROVE  destroyed \subseteq destroyed'
  <2>1. CASE CreateRefused(t) \/ StoreKey(t) \/ CreateRow(t) \/ CreateKeyPair(t)
    BY <1>1, <2>1 DEF CreateRefused, StoreKey, CreateRow, CreateKeyPair, history
  <2>2. CASE Register(t) \/ DeriveKey(t)
    BY <1>1, <2>2 DEF Register, DeriveKey
  <2>3. CASE \E u \in NamedUids, c \in BOOLEAN :
                 Activate(t, u) \/ Revoke(t, u, c) \/ Destroy(t, u)
    BY <1>1, <2>3 DEF Activate, Revoke, Destroy
  <2>4. CASE \/ \E u, w \in NamedUids : Get(t, u, w)
             \/ \E u \in NamedUids : GetAttributes(t, u)
             \/ Locate(t)
             \/ \E u \in NamedUids, op \in DOMAIN CryptoUses : UseKey(t, u, op)
    BY <1>1, <2>4 DEF Get, GetAttributes, Locate, UseKey
  <2>5. QED
    BY <1>2, <2>1, <2>2, <2>3, <2>4 DEF Item
<1>3. ASSUME NEW t \in Threads, Work(t), ~Item(t)
      PROVE  destroyed' = destroyed
  BY <1>3 DEF Work, Start, RejectHeader, MissingBatchItemId, Finish, Leave, Deliver, history
<1>4. CASE ChangePolicies \/ Crash \/ UNCHANGED vars \/ \E t \in Threads, r \in Requests : Submit(t, r)
  BY <1>4 DEF ChangePolicies, Crash, Submit, vars, history
<1>5. QED
  BY <1>2, <1>3, <1>4 DEF Next

\* A new hole among the rows handed out is an object destroyed in this step: by
\* the life cycle, a phase becomes "gone" only from that of a stored object.
LEMMA NextKeepsRows ==
    ASSUME IInv, RowsKept, [Next]_vars
    PROVE  RowsKept'
<1>1. SUFFICES ASSUME NEW u \in Uids, u < nextUid', db'[u] = NoObject
               PROVE  u \in destroyed'
  BY DEF RowsKept
<1>2. Safe
  BY NextIsSafe
<1>3. nextUid \in Nat /\ nextUid' \in Nat /\ u \in Nat
  BY <1>2, EngineAssumption DEF Safe, IInv, TypeOK, Uids
<1>4. life'[u] = "gone"
  BY <1>1, <1>3 DEF life
<1>5. life[u] # "unborn"
  BY <1>2, <1>4 DEF Safe, Lifecycle!Next, Lifecycle!Create, Lifecycle!Activate,
     Lifecycle!Deactivate, Lifecycle!Compromise, Lifecycle!Destroy, Lifecycle!Move,
     Lifecycle!Uids, Uids, life
<1>6. u < nextUid
  BY <1>3, <1>5 DEF life
<1>7. CASE db[u] = NoObject
  BY <1>6, <1>7, DestroyedGrows DEF RowsKept
<1>8. CASE db[u] # NoObject
  <2>1. PICK t \in Threads, op \in Changing : ChangedBy(t, op, u)
    BY <1>1, <1>8, NextChangesByUpdate DEF OnlyByUpdate
  <2>2. db[u] \in Objects
    BY <1>8 DEF IInv, TypeOK
  <2>3. op = "Destroy"
    <3>1. ASSUME NEW s \in States, Update(t, op, u, [db[u] EXCEPT !.state = s])
          PROVE  FALSE
      <4>1. db'[u] = [db[u] EXCEPT !.state = s]
        BY <3>1 DEF Update, IInv, TypeOK
      <4>2. [db[u] EXCEPT !.state = s] \in Objects
        BY <2>2 DEF Objects
      <4>3. QED
        BY <1>1, <4>1, <4>2, NoObjectIsNone
    <3>2. QED
      BY <2>1, <3>1 DEF ChangedBy
  <2>4. QED
    BY <2>1, <2>3 DEF ChangedBy, Update
<1>9. QED
  BY <1>7, <1>8

\* What a client was told it created is stored, until its destruction is
\* committed: no crash, failed commit or other client takes it away.
THEOREM AcknowledgedIsDurable == Spec => []AckedDurable
<1>1. Init => RowsKept
  <2>1. ASSUME Init
        PROVE  \A u \in Uids : ~(u < nextUid)
    BY <2>1 DEF Init, Uids
  <2>2. QED
    BY <2>1 DEF RowsKept
<1>2. IInv /\ RowsKept /\ [Next]_vars => RowsKept'
  BY NextKeepsRows
<1>3. IInv /\ RowsKept => AckedDurable
  <2> SUFFICES ASSUME IInv, RowsKept, NEW u \in acked
               PROVE  db[u] # NoObject \/ u \in destroyed
    BY DEF AckedDurable
  <2>1. nextUid \in 1..MaxUid + 1 /\ u \in 1..nextUid - 1
    BY DEF IInv, TypeOK
  <2>2. u \in Uids /\ u < nextUid
    BY <2>1, EngineAssumption DEF Uids
  <2>3. QED
    BY <2>2 DEF RowsKept
<1>4. QED
  BY <1>1, <1>2, <1>3, Inductive, PTL DEF Spec
=============================================================================
