---------------------------- MODULE KmipAnswerProofs ----------------------------
(***************************************************************************)
(* Proofs about what the engine answers, for any number of threads,        *)
(* clients, policies, identifiers and batch items: answers are complete,   *)
(* what a client is told it created is its own, rows refer to secrets that *)
(* are there, a revoked key is never again used where an active one is     *)
(* asked for, a created one can be had again, and the lock is given back   *)
(* within a number of steps.                                               *)
(***************************************************************************)
EXTENDS KmipStorageProofs

(* The operations that need the key bytes: cryptographic uses, and wrapping for Get. *)
Using == DOMAIN CryptoUses \cup {"Wrap"}

-----------------------------------------------------------------------------
(* The inductive invariants *)

\* The results rs of a thread fit where its request q is: none before it is started, as
\* many as the error option permits while it is served and when it is answered.
Fits(p, q, rs) ==
    LET n == Len(rs)
    IN  /\ p \in {"idle", "waiting"} => rs = << >>
        /\ p \in {"batch", "creating"} =>
               n <= q.items /\ (q.stop => \A i \in 1..n - 1 : rs[i].ok)
        /\ p = "creating" => n # q.items /\ ~(q.stop /\ Failed(rs))
        /\ p = "answered" /\ rs # ErrorResponse =>
               /\ n = q.items \/ (q.stop /\ ~rs[n].ok)
               /\ q.stop => \A i \in 1..n - 1 : rs[i].ok

(* Every session's results fit the state its request is in. *)
Answering == \A t \in Threads : Fits(pc[t], request[t], results[t])

\* The key that Create has stored is in Barbican, and no row has it yet.
StagedIsNew ==
    /\ staged \in 0..secrets
    /\ \A u \in Uids : db[u] # NoObject /\ staged # InRow => db[u].value # staged

\* What was revoked is in a state that no operation leaves for ACTIVE.
Retired ==
    \A u \in revoked : db[u] # NoObject => db[u].state \in {"DEACTIVATED", "COMPROMISED"}

(* The inductive invariant: answers, owners, fresh secrets, secrets and retired keys. *)
AInv == Answering /\ CreatorOwns /\ StagedIsNew /\ SecretsResolve /\ Retired

-----------------------------------------------------------------------------
(* The shapes of a step inside a batch *)

\* An item of the batch of t ends with the result r.
Ends(t, r) ==
    /\ InEngine(t) /\ ~BatchOver(t)
    /\ results' = [results EXCEPT ![t] = Append(results[t], r)]
    /\ pc' = [pc EXCEPT ![t] = "batch"]
    /\ UNCHANGED request

\* ... without a change of what is stored.
Quiet(t) ==
    \E r : /\ Ends(t, r)
           /\ ~(r.ok /\ r.op \in Creating)
           /\ \A u, op : op \in Using /\ r = Result(op, {u}, TRUE) =>
                  db[u] # NoObject /\ db[u].state = "ACTIVE"
           /\ staged' \in {staged, InRow}
           /\ UNCHANGED <<db, nextUid, secrets, revoked>>

\* ... with new objects of the client, of which one may have the staged key.
Inserts(t, op, objs) ==
    LET new == nextUid .. nextUid + Len(objs) - 1
    IN  /\ Ends(t, Result(op, new, TRUE))
        /\ op \in Creating
        /\ new \subseteq Uids
        /\ db' = [u \in Uids |-> IF u \in new THEN objs[u - nextUid + 1] ELSE db[u]]
        /\ \A i \in 1..Len(objs) : /\ objs[i].owner = clientIdentity.user
                                   /\ objs[i].value \in {staged, InRow}
        /\ \A i, j \in 1..Len(objs) : i # j => objs[i].value = InRow
        /\ staged' = InRow
        /\ UNCHANGED <<secrets, revoked>>

\* ... with a change of one object, or its removal.
Changes(t, op, u, row) ==
    /\ Ends(t, Result(op, {u}, TRUE))
    /\ op \in Changing
    /\ u \in Uids /\ db[u] # NoObject
    /\ db' = [db EXCEPT ![u] = row]
    /\ row = NoObject \/ \E s \in States : row = [db[u] EXCEPT !.state = s]
    /\ op = "Activate" => db[u].state = "PRE_ACTIVE"
    /\ op = "Destroy" => row = NoObject
    /\ op = "Revoke" => row # NoObject /\ row.state \in {"DEACTIVATED", "COMPROMISED"}
    /\ revoked' = IF op = "Revoke" THEN revoked \cup {u} ELSE revoked
    /\ UNCHANGED <<nextUid, secrets, staged>>

(* Every item of a batch has one of the four shapes. *)
Shaped(t) ==
    \/ StoreKey(t)
    \/ Quiet(t)
    \/ \E op, objs : Len(objs) \in Nat /\ Inserts(t, op, objs)
    \/ \E op, u, row : Changes(t, op, u, row)

\* A thread that works on an item has not done its batch.
LEMMA WorksOnBatch ==
    ASSUME Answering, NEW t \in Threads, InBatch(t) \/ pc[t] = "creating"
    PROVE  InEngine(t) /\ ~BatchOver(t)
BY DEF Answering, Fits, BatchOver, InBatch, InEngine

\* An item that fails.
LEMMA FailureIsQuiet ==
    ASSUME IInv, NEW t \in Threads, InEngine(t), ~BatchOver(t), Refuse(t) \/ CommitFails(t)
    PROVE  Shaped(t)
<1> DEFINE r == Result("Failed", {}, FALSE)
<1>1. /\ results' = [results EXCEPT ![t] = Append(results[t], r)]
      /\ pc' = [pc EXCEPT ![t] = "batch"]
      /\ staged' = InRow
      /\ UNCHANGED <<db, nextUid, secrets, revoked, request>>
  BY DEF Refuse, CommitFails, Report, persistent, history
<1>2. r.ok = FALSE
  BY DEF Result
<1>3. \A u, op : r # Result(op, {u}, TRUE)
  BY DEF Result
<1> HIDE DEF r
<1>4. Quiet(t)
  BY <1>1, <1>2, <1>3 DEF Quiet, Ends
<1>5. QED
  BY <1>4 DEF Shaped

\* An item that reads.
LEMMA AnswerIsQuiet ==
    ASSUME IInv, NEW t \in Threads, InBatch(t), NEW op, op \notin Creating, NEW uids,
           op \in Using => \A u : uids = {u} => db[u] # NoObject /\ db[u].state = "ACTIVE",
           Answer(t, op, uids)
    PROVE  Shaped(t)
<1> DEFINE r == Result(op, uids, TRUE)
<1>1. /\ results' = [results EXCEPT ![t] = Append(results[t], r)]
      /\ UNCHANGED <<db, nextUid, secrets, revoked, request, pc, staged>>
  BY DEF Answer, Report, persistent, history, engine
<1>2. r.op = op /\ \A u, o : r = Result(o, {u}, TRUE) => o = op /\ uids = {u}
  BY DEF Result
<1>3. pc' = [pc EXCEPT ![t] = "batch"]
  BY <1>1 DEF InBatch, IInv, TypeOK
<1> HIDE DEF r
<1>4. Quiet(t)
  BY <1>1, <1>2, <1>3 DEF Quiet, Ends, InBatch, InEngine
<1>5. QED
  BY <1>4 DEF Shaped

\* An item that creates.
LEMMA InsertShape ==
    ASSUME IInv, NEW t \in Threads, InEngine(t), ~BatchOver(t),
           NEW op \in Creating, NEW objs, Len(objs) \in Nat, NEW k,
           \A i \in 1..Len(objs) : /\ objs[i].owner = clientIdentity.user
                                   /\ objs[i].value \in {staged, InRow},
           \A i, j \in 1..Len(objs) : i # j => objs[i].value = InRow,
           Insert(t, op, objs, k)
    PROVE  Shaped(t)
<1>1. Inserts(t, op, objs)
  BY DEF Inserts, Insert, Ends, Report, history
<1>2. QED
  BY <1>1 DEF Shaped

(* An item that inserts one object, or whose commit fails, has the inserting shape. *)
LEMMA InsertOneShape ==
    ASSUME IInv, NEW t \in Threads, InEngine(t), ~BatchOver(t), NEW op \in Creating,
           NEW type, NEW p, NEW m, NEW v \in {staged, InRow},
           Insert(t, op, <<NewObject(type, p, m, v)>>, 1)
    PROVE  Shaped(t)
<1> DEFINE o == NewObject(type, p, m, v)
<1>1. o.owner = clientIdentity.user /\ o.value = v
  BY DEF NewObject
<1>2. Insert(t, op, <<o>>, 1)
  OBVIOUS
<1> HIDE DEF o
<1> DEFINE objs == <<o>>
<1>3. /\ Len(objs) = 1 /\ Len(objs) \in Nat
      /\ \A i \in 1..Len(objs) : i = 1 /\ objs[i] = o
  OBVIOUS
<1> HIDE DEF objs
<1>4. /\ \A i \in 1..Len(objs) : /\ objs[i].owner = clientIdentity.user
                                 /\ objs[i].value \in {staged, InRow}
      /\ \A i, j \in 1..Len(objs) : i # j => objs[i].value = InRow
  BY <1>1, <1>3
<1>5. Insert(t, op, objs, 1)
  BY <1>2 DEF objs
<1>6. QED
  BY <1>3, <1>4, <1>5, InsertShape

\* An item that changes one object.
LEMMA UpdateShape ==
    ASSUME IInv, NEW t \in Threads, InBatch(t), NEW op \in Changing, NEW u, Stored(u),
           NEW row, row = NoObject \/ \E s \in States : row = [db[u] EXCEPT !.state = s],
           op = "Activate" => db[u].state = "PRE_ACTIVE",
           op = "Destroy" => row = NoObject,
           op = "Revoke" => row # NoObject /\ row.state \in {"DEACTIVATED", "COMPROMISED"},
           Update(t, op, u, row)
    PROVE  Shaped(t)
<1>1. pc' = [pc EXCEPT ![t] = "batch"]
  BY DEF Update, InBatch, IInv, TypeOK
<1>2. InEngine(t) /\ ~BatchOver(t)
  BY DEF InBatch, InEngine
<1>3. Ends(t, Result(op, {u}, TRUE))
  BY <1>1, <1>2 DEF Update, Report, Ends
<1>4. Changes(t, op, u, row)
  BY <1>3 DEF Changes, Update, engine, Stored
<1>5. QED
  BY <1>4 DEF Shaped

(* The items that create objects have the inserting shape or leave the store alone. *)
LEMMA CreatingShape ==
    ASSUME IInv, Answering, NEW t \in Threads,
           CreateRow(t) \/ CreateKeyPair(t) \/ Register(t) \/ DeriveKey(t)
    PROVE  Shaped(t)
<1>1. InEngine(t) /\ ~BatchOver(t)
  BY WorksOnBatch DEF CreateRow, CreateKeyPair, Register, DeriveKey
<1>2. CASE CreateRow(t)
  BY <1>1, <1>2, InsertOneShape, FailureIsQuiet DEF CreateRow, Creating
<1>3. CASE CreateKeyPair(t)
  <2>1. ASSUME NEW first, NEW second, NEW private,
               first.owner = clientIdentity.user /\ first.value = InRow,
               second.owner = clientIdentity.user /\ second.value = InRow,
               Insert(t, "CreateKeyPair", <<first, second>>, private)
        PROVE  Shaped(t)
    <3>1. /\ Len(<<first, second>>) = 2
          /\ \A i \in 1..2 : /\ <<first, second>>[i].owner = clientIdentity.user
                             /\ <<first, second>>[i].value = InRow
      BY <2>1
    <3>2. "CreateKeyPair" \in Creating
      BY DEF Creating
    <3>3. QED
      BY <1>1, <2>1, <3>1, <3>2, InsertShape
  <2>2. \A type, p, m : /\ NewObject(type, p, m, InRow).owner = clientIdentity.user
                        /\ NewObject(type, p, m, InRow).value = InRow
    BY DEF NewObject
  <2>3. ASSUME NEW p, NEW m, NEW private, NEW first, NEW second,
               first = NewObject(IF 1 = private THEN "PrivateKey" ELSE "PublicKey", p[1], m[1], InRow),
               second = NewObject(IF 2 = private THEN "PrivateKey" ELSE "PublicKey", p[2], m[2], InRow),
               Insert(t, "CreateKeyPair", <<first, second>>, private)
        PROVE  Shaped(t)
    BY <2>1, <2>2, <2>3
  <2>4. QED
    BY <1>1, <1>3, <2>3, FailureIsQuiet DEF CreateKeyPair
<1>4. CASE Register(t)
  BY <1>1, <1>4, InsertOneShape, FailureIsQuiet DEF Register, Creating
<1>5. CASE DeriveKey(t)
  BY <1>1, <1>5, InsertOneShape, FailureIsQuiet DEF DeriveKey, Creating
<1>6. QED
  BY <1>2, <1>3, <1>4, <1>5

(* The items that change or delete an object have the changing shape or leave the
   store alone. *)
LEMMA ChangingShape ==
    ASSUME IInv, Answering, NEW t \in Threads, NEW named, NEW c \in BOOLEAN,
           Activate(t, named) \/ Revoke(t, named, c) \/ Destroy(t, named)
    PROVE  Shaped(t)
<1> DEFINE u == Target(named)
<1>1. InBatch(t) /\ InEngine(t) /\ ~BatchOver(t)
  BY WorksOnBatch DEF Activate, Revoke, Destroy
<1>2. CASE Activate(t, named)
  <2>1. CASE /\ Stored(u) /\ db[u].state = "PRE_ACTIVE"
             /\ Update(t, "Activate", u, [db[u] EXCEPT !.state = "ACTIVE"])
    BY <1>1, <2>1, UpdateShape DEF Changing, States
  <2>2. QED
    BY <1>1, <1>2, <2>1, FailureIsQuiet DEF Activate, Accessible, Activatable
<1>3. CASE Revoke(t, named, c)
  <2> DEFINE s == RevokedState(c)
             row == [db[u] EXCEPT !.state = s]
  <2>1. CASE Stored(u) /\ Update(t, "Revoke", u, row)
    <3>1. s \in {"DEACTIVATED", "COMPROMISED"} /\ s \in States
      BY DEF RevokedState, States
    <3>2. db[u] \in Objects
      BY <2>1, StoredIsBorn
    <3> HIDE DEF s
    <3>3. row.state = s /\ row \in Objects
      BY <3>1, <3>2 DEF Objects
    <3>4. row # NoObject
      BY <3>3, NoObjectIsNone
    <3>5. \E z \in States : row = [db[u] EXCEPT !.state = z]
      BY <3>1
    <3> HIDE DEF row, u
    <3>6. QED
      BY <1>1, <2>1, <3>1, <3>3, <3>4, <3>5, UpdateShape DEF Changing
  <2>2. QED
    BY <1>1, <1>3, <2>1, FailureIsQuiet DEF Revoke, Accessible
<1>4. CASE Destroy(t, named)
  <2>1. CASE Stored(u) /\ Update(t, "Destroy", u, NoObject)
    BY <1>1, <2>1, UpdateShape DEF Changing
  <2>2. QED
    BY <1>1, <1>4, <2>1, FailureIsQuiet DEF Destroy, Accessible
<1>5. QED
  BY <1>2, <1>3, <1>4

(* The items that read or use objects leave the store alone. *)
LEMMA ReadingShape ==
    ASSUME IInv, Answering, NEW t \in Threads,
           \/ \E u, w : Get(t, u, w)
           \/ \E u : GetAttributes(t, u)
           \/ Locate(t)
           \/ \E op \in DOMAIN CryptoUses : \E u : UseKey(t, u, op)
    PROVE  Shaped(t)
<1>1. InBatch(t) /\ InEngine(t) /\ ~BatchOver(t)
  BY WorksOnBatch DEF Get, GetAttributes, Locate, UseKey
<1>2. ASSUME Refuse(t) PROVE Shaped(t)
  BY <1>1, <1>2, FailureIsQuiet
<1>3. ASSUME NEW op \in {"Get", "GetAttributes", "Locate"}, NEW uids, Answer(t, op, uids)
      PROVE  Shaped(t)
  <2>1. op \notin Creating /\ op \notin Using
    BY DEF Creating, Using, CryptoUses
  <2>2. QED
    BY <1>1, <1>3, <2>1, AnswerIsQuiet
<1>4. ASSUME NEW op \in Using, NEW u, db[u] # NoObject, db[u].state = "ACTIVE", Answer(t, op, {u})
      PROVE  Shaped(t)
  <2>1. op \notin Creating
    BY DEF Creating, Using, CryptoUses
  <2>2. \A w : {u} = {w} => db[w] # NoObject /\ db[w].state = "ACTIVE"
    BY <1>4
  <2>3. QED
    BY <1>1, <1>4, <2>1, <2>2, AnswerIsQuiet
<1>5. CASE \E u, w : Get(t, u, w)
  <2>1. PICK u, w : Get(t, u, w)
    BY <1>5
  <2>2. CASE Answer(t, "Get", {Target(u)})
    BY <2>2, <1>3
  <2>3. CASE CanWrap(w) /\ Answer(t, "Wrap", {w})
    BY <2>3, <1>4 DEF CanWrap, Accessible, Stored, Using
  <2>4. QED
    BY <2>1, <2>2, <2>3, <1>2 DEF Get
<1>6. CASE \E u : GetAttributes(t, u)
  BY <1>6, <1>2, <1>3 DEF GetAttributes
<1>7. CASE Locate(t)
  BY <1>7, <1>2, <1>3 DEF Locate
<1>8. CASE \E op \in DOMAIN CryptoUses : \E u : UseKey(t, u, op)
  <2>1. PICK op \in DOMAIN CryptoUses : \E u : UseKey(t, u, op)
    BY <1>8
  <2>2. PICK u : UseKey(t, u, op)
    BY <2>1
  <2>3. CASE Usable(Target(u), op) /\ Answer(t, op, {Target(u)})
    BY <2>3, <1>4 DEF Usable, Accessible, Stored, Using
  <2>4. QED
    BY <2>2, <2>3, <1>2 DEF UseKey
<1>9. QED
  BY <1>5, <1>6, <1>7, <1>8

\* Every item has one of the shapes.
LEMMA ItemIsShaped ==
    ASSUME IInv, Answering, NEW t \in Threads, Item(t)
    PROVE  Shaped(t)
<1>1. CASE CreateRefused(t)
  BY <1>1, WorksOnBatch, FailureIsQuiet DEF CreateRefused
<1>2. CASE StoreKey(t)
  BY <1>2 DEF Shaped
<1>3. CASE CreateRow(t) \/ CreateKeyPair(t) \/ Register(t) \/ DeriveKey(t)
  BY <1>3, CreatingShape
<1>4. CASE \E u \in NamedUids, c \in BOOLEAN :
               Activate(t, u) \/ Revoke(t, u, c) \/ Destroy(t, u)
  BY <1>4, ChangingShape
<1>5. CASE \E u, w \in NamedUids : Get(t, u, w)
  BY <1>5, ReadingShape
<1>6. CASE \E u \in NamedUids : GetAttributes(t, u)
  BY <1>6, ReadingShape
<1>7. CASE Locate(t)
  BY <1>7, ReadingShape
<1>8. CASE \E u \in NamedUids, op \in DOMAIN CryptoUses : UseKey(t, u, op)
  BY <1>8, ReadingShape
<1>9. QED
  BY <1>1, <1>2, <1>3, <1>4, <1>5, <1>6, <1>7, <1>8 DEF Item
-----------------------------------------------------------------------------
(* Answers are complete *)

\* One more element at the end of a sequence.
LEMMA AppendAny ==
    ASSUME NEW S, NEW rs \in Seq(S), NEW r
    PROVE  /\ Len(Append(rs, r)) = Len(rs) + 1 /\ Len(rs) \in Nat
           /\ DOMAIN Append(rs, r) = 1..Len(rs) + 1 /\ DOMAIN rs = 1..Len(rs)
           /\ \A i \in 1..Len(rs) : Append(rs, r)[i] = rs[i]
           /\ Append(rs, r)[Len(rs) + 1] = r
<1>1. rs \in Seq(S \cup {r}) /\ r \in S \cup {r}
  OBVIOUS
<1>2. QED
  BY <1>1

\* The number of items of a request.
LEMMA ItemsAreNumbers ==
    ASSUME IInv, NEW t \in Threads
    PROVE  request[t].items \in Nat \ {0} /\ Len(results[t]) \in Nat
<1>1. request[t] \in Requests \cup {NoRequest} /\ results[t] \in Seq(ResultRecords)
  BY DEF IInv, TypeOK, ResultsOK
<1>2. MaxBatch \in Nat
  BY EngineAssumption
<1>3. request[t].items \in 1..MaxBatch \cup {1}
  BY <1>1 DEF Requests, NoRequest
<1>4. QED
  BY <1>1, <1>2, <1>3

\* A thread with its request and results where they were.
LEMMA OneThreadMoves ==
    ASSUME IInv, Answering, NEW t \in Threads, NEW p, NEW q, NEW rs,
           pc' = [pc EXCEPT ![t] = p], request' = [request EXCEPT ![t] = q],
           results' = [results EXCEPT ![t] = rs],
           Fits(p, q, rs)
    PROVE  Answering'
<1>1. \A s \in Threads \ {t} :
          pc'[s] = pc[s] /\ request'[s] = request[s] /\ results'[s] = results[s]
  BY DEF IInv, TypeOK, ResultsOK
<1>2. pc'[t] = p /\ request'[t] = q /\ results'[t] = rs
  BY DEF IInv, TypeOK, ResultsOK
<1>3. \A s \in Threads : Fits(pc'[s], request'[s], results'[s])
  BY <1>1, <1>2 DEF Answering
<1>4. QED
  BY <1>3 DEF Answering

\* One more result for a batch that is not over.
LEMMA EndsFits ==
    ASSUME IInv, Answering, NEW t \in Threads, NEW r, Ends(t, r)
    PROVE  Answering'
<1> DEFINE rs == results[t]
           new == Append(rs, r)
           n == Len(rs)
<1>1. rs \in Seq(ResultRecords)
  BY DEF IInv, ResultsOK
<1>2. /\ Len(new) = n + 1 /\ n \in Nat /\ DOMAIN rs = 1..n
      /\ \A i \in 1..n : new[i] = rs[i]
  BY <1>1, AppendAny
<1>3. request[t].items \in Nat
  BY ItemsAreNumbers
<1>4. n <= request[t].items /\ n # request[t].items
  BY DEF Answering, Fits, Ends, InEngine, BatchOver
<1>5. request[t].stop => \A i \in 1..n : rs[i].ok
  BY <1>2 DEF Ends, BatchOver, Failed
<1>6. (n + 1) - 1 = n /\ n + 1 <= request[t].items
  BY <1>2, <1>3, <1>4
<1> HIDE DEF new, n
<1>7. Fits("batch", request[t], new)
  BY <1>2, <1>5, <1>6 DEF Fits
<1>8. request' = [request EXCEPT ![t] = request[t]]
  BY DEF Ends, IInv, TypeOK
<1>9. QED
  BY <1>7, <1>8, OneThreadMoves DEF Ends, new

(* Storing a key in Barbican answers nothing yet. *)
LEMMA StoreKeyFits == ASSUME IInv, Answering, NEW t \in Threads, StoreKey(t) PROVE Answering'
<1>1. Fits("creating", request[t], results[t])
  BY DEF Answering, Fits, StoreKey, InBatch, BatchOver
<1>2. /\ request' = [request EXCEPT ![t] = request[t]]
      /\ results' = [results EXCEPT ![t] = results[t]]
      /\ pc' = [pc EXCEPT ![t] = "creating"]
  BY DEF StoreKey, IInv, TypeOK, ResultsOK
<1>3. QED
  BY <1>1, <1>2, OneThreadMoves

(* A batch starts with no results. *)
LEMMA StartFits == ASSUME IInv, Answering, NEW t \in Threads, Start(t) PROVE Answering'
<1>1. results[t] = << >> /\ request[t].items \in Nat \ {0}
  BY ItemsAreNumbers DEF Answering, Fits, Start
<1>2. Fits("batch", request[t], results[t])
  BY <1>1 DEF Fits
<1>3. /\ request' = [request EXCEPT ![t] = request[t]]
      /\ results' = [results EXCEPT ![t] = results[t]]
      /\ pc' = [pc EXCEPT ![t] = "batch"]
  BY DEF Start, IInv, TypeOK, ResultsOK
<1>4. QED
  BY <1>2, <1>3, OneThreadMoves

\* A request that fails as a whole.
LEMMA ErrorFits ==
    ASSUME IInv, Answering, NEW t \in Threads, RejectHeader(t) \/ MissingBatchItemId(t)
    PROVE  Answering'
<1>1. Fits("answered", request[t], ErrorResponse)
  BY DEF Fits
<1>2. /\ request' = [request EXCEPT ![t] = request[t]]
      /\ results' = [results EXCEPT ![t] = ErrorResponse]
      /\ pc' = [pc EXCEPT ![t] = "answered"]
  BY DEF RejectHeader, MissingBatchItemId, Leave, IInv, TypeOK
<1>3. QED
  BY <1>1, <1>2, OneThreadMoves

\* Under the STOP option only the last result can be a failure.
LEMMA FinishFits == ASSUME IInv, Answering, NEW t \in Threads, Finish(t) PROVE Answering'
<1> DEFINE rs == results[t]
           n == Len(rs)
           q == request[t]
<1>1. pc[t] = "batch" /\ BatchOver(t)
  BY DEF Finish
<1>2. q.stop => \A i \in 1..n - 1 : rs[i].ok
  BY <1>1 DEF Answering, Fits
<1>3. n \in Nat /\ DOMAIN rs = 1..n
  BY DEF IInv, ResultsOK
<1>4. n = q.items \/ (q.stop /\ ~rs[n].ok)
  <2>1. CASE q.stop /\ Failed(rs)
    <3>1. PICK i \in 1..n : ~rs[i].ok
      BY <1>3, <2>1 DEF Failed
    <3>2. i \notin 1..n - 1
      BY <1>2, <2>1, <3>1
    <3>3. i = n
      BY <1>3, <3>2
    <3>4. QED
      BY <2>1, <3>1, <3>3
  <2>2. CASE n = q.items
    BY <2>2
  <2>3. QED
    BY <1>1, <2>1, <2>2 DEF BatchOver
<1>5. Fits("answered", q, rs)
  BY <1>2, <1>4 DEF Fits
<1>6. /\ request' = [request EXCEPT ![t] = request[t]]
      /\ results' = [results EXCEPT ![t] = results[t]]
      /\ pc' = [pc EXCEPT ![t] = "answered"]
  BY DEF Finish, Leave, IInv, TypeOK, ResultsOK
<1>7. QED
  BY <1>5, <1>6, OneThreadMoves

\* A thread without results.
LEMMA IdleFits ==
    ASSUME IInv, Answering,
           (\E t \in Threads : Deliver(t) \/ \E r \in Requests : Submit(t, r)) \/ Crash
    PROVE  Answering'
<1>1. \A q : Fits("idle", q, << >>) /\ Fits("waiting", q, << >>)
  BY DEF Fits
<1>2. ASSUME NEW t \in Threads, Deliver(t) PROVE Answering'
  BY <1>1, <1>2, OneThreadMoves DEF Deliver
<1>3. ASSUME NEW t \in Threads, NEW r \in Requests, Submit(t, r) PROVE Answering'
  BY <1>1, <1>3, OneThreadMoves DEF Submit
<1>4. CASE Crash
  BY <1>1, <1>4 DEF Crash, Answering
<1>5. QED
  BY <1>2, <1>3, <1>4

-----------------------------------------------------------------------------
(* Clients are told of their own objects *)

\* What the results of a longer batch say was created.
LEMMA CreatedAppend ==
    ASSUME NEW rs \in Seq(ResultRecords), NEW r
    PROVE  \A u \in CreatedIn(Append(rs, r)) :
               u \in CreatedIn(rs) \/ (r.ok /\ r.op \in Creating /\ u \in r.uids)
<1>1. SUFFICES ASSUME NEW i \in DOMAIN Append(rs, r), NEW u \in Append(rs, r)[i].uids,
                      Append(rs, r)[i].ok, Append(rs, r)[i].op \in Creating
               PROVE  u \in CreatedIn(rs) \/ (r.ok /\ r.op \in Creating /\ u \in r.uids)
  BY DEF CreatedIn
<1>2. /\ DOMAIN Append(rs, r) = 1..Len(rs) + 1 /\ DOMAIN rs = 1..Len(rs) /\ Len(rs) \in Nat
      /\ \A j \in 1..Len(rs) : Append(rs, r)[j] = rs[j]
      /\ Append(rs, r)[Len(rs) + 1] = r
  BY AppendAny
<1>3. CASE i \in DOMAIN rs
  <2>1. Append(rs, r)[i] = rs[i]
    BY <1>2, <1>3
  <2>2. u \in rs[i].uids /\ rs[i].ok /\ rs[i].op \in Creating
    BY <1>1, <2>1
  <2> DEFINE made == {j \in DOMAIN rs : rs[j].ok /\ rs[j].op \in Creating}
  <2>3. i \in made
    BY <1>3, <2>2, Zenon
  <2>4. u \in UNION {rs[j].uids : j \in made}
    <3> HIDE DEF made
    <3>1. rs[i].uids \in {rs[j].uids : j \in made}
      BY <2>3
    <3>2. QED
      BY <2>2, <3>1
  <2>5. u \in CreatedIn(rs)
    BY <2>4 DEF CreatedIn
  <2>6. QED
    BY <2>5
<1>4. CASE i = Len(rs) + 1
  BY <1>1, <1>2, <1>4
<1>5. QED
  BY <1>2, <1>3, <1>4

\* What results of a thread are about was handed out.
LEMMA CreatedBorn ==
    ASSUME IInv, NEW t \in Threads
    PROVE  CreatedIn(results[t]) \subseteq {u \in Uids : u < nextUid}
<1>1. nextUid \in 1..MaxUid + 1 /\ MaxUid \in Nat
  BY EngineAssumption DEF IInv, TypeOK
<1>2. CreatedIn(results[t]) \subseteq 1..nextUid - 1
  BY DEF IInv, TypeOK, CreatedIn
<1>3. QED
  BY <1>1, <1>2 DEF Uids

\* Objects handed out keep their owner, until they are gone.
OwnersStay ==
    \A u \in Uids : u < nextUid /\ db'[u] # NoObject =>
        db[u] # NoObject /\ db'[u].owner = db[u].owner

\* The results of all threads but t stay, and those of t grow by what is the client's.
LEMMA OwnsAfterEnd ==
    ASSUME IInv, CreatorOwns, OwnersStay, NEW t \in Threads, NEW r, Ends(t, r),
           r.ok /\ r.op \in Creating =>
               \A u \in r.uids : db'[u].owner = request[t].identity.user
    PROVE  CreatorOwns'
<1>1. SUFFICES ASSUME NEW s \in Threads, NEW u \in CreatedIn(results'[s])
               PROVE  db'[u] = NoObject \/ db'[u].owner = request[s].identity.user
  BY DEF CreatorOwns, Ends
<1>2. CASE u \in CreatedIn(results[s])
  BY <1>2, CreatedBorn DEF CreatorOwns, OwnersStay
<1>3. CASE u \notin CreatedIn(results[s])
  <2>1. results \in [Threads -> Seq(ResultRecords)]
    BY DEF IInv, ResultsOK
  <2>2. s = t /\ results'[t] = Append(results[t], r)
    BY <1>1, <1>3, <2>1 DEF Ends
  <2>3. r.ok /\ r.op \in Creating /\ u \in r.uids
    BY <1>1, <1>3, <2>1, <2>2, CreatedAppend
  <2>4. QED
    BY <2>2, <2>3
<1>4. QED
  BY <1>2, <1>3

\* Nothing is said to be created beyond what was, for the same request.
LEMMA OwnsWithFewer ==
    ASSUME CreatorOwns, UNCHANGED db,
           \A s \in Threads : \/ results'[s] = results[s] /\ request'[s] = request[s]
                              \/ results'[s] \in {<< >>, ErrorResponse}
    PROVE  CreatorOwns'
<1>1. CreatedIn(<< >>) = {} /\ CreatedIn(ErrorResponse) = {}
  BY DEF CreatedIn, ErrorResponse, Result
<1>2. \A s \in Threads : \A u \in CreatedIn(results'[s]) :
          db'[u] = NoObject \/ db'[u].owner = request'[s].identity.user
  BY <1>1 DEF CreatorOwns
<1>3. QED
  BY <1>2 DEF CreatorOwns

-----------------------------------------------------------------------------
(* What the shapes do to the stored objects *)

\* Where rows are inserted there were none.
LEMMA InsertedAreNew ==
    ASSUME IInv, NEW t \in Threads, NEW op, NEW objs, Len(objs) \in Nat, Inserts(t, op, objs),
           NEW u \in Uids
    PROVE  \/ db'[u] = db[u] /\ u \notin nextUid .. nextUid + Len(objs) - 1
           \/ /\ ~(u < nextUid) /\ db[u] = NoObject
              /\ u - nextUid + 1 \in 1..Len(objs) /\ db'[u] = objs[u - nextUid + 1]
<1>1. nextUid \in Nat /\ u \in Nat
  BY EngineAssumption DEF IInv, TypeOK, Uids
<1>2. CASE u \in nextUid .. nextUid + Len(objs) - 1
  <2>1. u - nextUid + 1 \in 1..Len(objs) /\ ~(u < nextUid) /\ u >= nextUid
    BY <1>1, <1>2
  <2>2. db[u] = NoObject
    BY <2>1 DEF IInv, TypeOK
  <2>3. db'[u] = objs[u - nextUid + 1]
    BY <1>2 DEF Inserts
  <2>4. QED
    BY <2>1, <2>2, <2>3
<1>3. CASE u \notin nextUid .. nextUid + Len(objs) - 1
  BY <1>3 DEF Inserts
<1>4. QED
  BY <1>2, <1>3

\* Of a changed row all but the state stays.
LEMMA ChangedKeepsTheRest ==
    ASSUME IInv, NEW t \in Threads, NEW op, NEW w, NEW row, Changes(t, op, w, row), NEW u \in Uids
    PROVE  /\ u # w => db'[u] = db[u]
           /\ db'[w] = row
           /\ db'[u] # NoObject => /\ db[u] # NoObject
                                   /\ db'[u].owner = db[u].owner /\ db'[u].value = db[u].value
<1>1. db \in [Uids -> Objects \cup {NoObject}] /\ w \in Uids /\ db[w] \in Objects
  BY DEF IInv, TypeOK, Changes
<1>2. db'[w] = row /\ (u # w => db'[u] = db[u])
  BY <1>1 DEF Changes
<1>3. row # NoObject => row.owner = db[w].owner /\ row.value = db[w].value
  BY <1>1 DEF Changes, Objects
<1>4. QED
  BY <1>1, <1>2, <1>3, NoObjectIsNone

\* Owners stay, whatever an item does.
LEMMA ItemKeepsOwners ==
    ASSUME IInv, CreatorOwns, NEW t \in Threads, Shaped(t)
    PROVE  CreatorOwns'
<1>1. ASSUME StoreKey(t) PROVE CreatorOwns'
  BY <1>1, OwnsWithFewer DEF StoreKey
<1>2. ASSUME NEW r, Ends(t, r), ~(r.ok /\ r.op \in Creating), UNCHANGED db PROVE CreatorOwns'
  <2>1. OwnersStay
    BY <1>2, EngineAssumption DEF OwnersStay, IInv, TypeOK
  <2>2. QED
    BY <1>2, <2>1, OwnsAfterEnd
<1>3. ASSUME NEW op, NEW objs, Len(objs) \in Nat, Inserts(t, op, objs) PROVE CreatorOwns'
  <2> DEFINE new == nextUid .. nextUid + Len(objs) - 1
             r == Result(op, new, TRUE)
  <2>1. OwnersStay
    BY <1>3, InsertedAreNew DEF OwnersStay
  <2>2. Ends(t, r) /\ r.uids = new
    BY <1>3 DEF Inserts, Result
  <2>3. clientIdentity = request[t].identity
    BY <1>3 DEF Inserts, Ends, InEngine, IInv, ServesLockHolder
  <2>4. ASSUME NEW u \in new PROVE db'[u].owner = request[t].identity.user
    <3>1. nextUid \in Nat
      BY EngineAssumption DEF IInv, TypeOK
    <3>2. u - nextUid + 1 \in 1..Len(objs)
      BY <1>3, <3>1
    <3>3. u \in Uids /\ db'[u] = objs[u - nextUid + 1]
      BY <1>3 DEF Inserts
    <3>4. QED
      BY <1>3, <2>3, <3>2, <3>3 DEF Inserts
  <2> HIDE DEF r, new
  <2>5. QED
    BY <2>1, <2>2, <2>4, OwnsAfterEnd
<1>4. ASSUME NEW op, NEW u, NEW row, Changes(t, op, u, row) PROVE CreatorOwns'
  <2> DEFINE r == Result(op, {u}, TRUE)
  <2>1. OwnersStay
    BY <1>4, ChangedKeepsTheRest DEF OwnersStay
  <2>2. Ends(t, r) /\ r.op = op /\ op \notin Creating
    BY <1>4 DEF Changes, Result, Changing, Creating
  <2> HIDE DEF r
  <2>3. QED
    BY <2>1, <2>2, OwnsAfterEnd
<1>5. QED
  BY <1>1, <1>2, <1>3, <1>4 DEF Shaped, Quiet

\* Rows and secrets.
Secrets == StagedIsNew /\ SecretsResolve

\* No row changes, and the staged key stays or is given up.
LEMMA SecretsIfStill ==
    ASSUME IInv, Secrets, UNCHANGED <<db, secrets>>, staged' \in {staged, InRow}
    PROVE  Secrets'
<1>1. secrets \in Nat
  BY EngineAssumption DEF IInv, TypeOK
<1>2. QED
  BY <1>1 DEF Secrets, StagedIsNew, SecretsResolve, InRow

(* Whatever shape an item has, each row still refers to a secret that is stored. *)
LEMMA ItemKeepsSecrets ==
    ASSUME IInv, Secrets, NEW t \in Threads, Shaped(t)
    PROVE  Secrets'
<1>1. secrets \in Nat /\ InRow \in 0..secrets /\ InRow = 0
  BY EngineAssumption DEF IInv, TypeOK, InRow
<1>2. CASE StoreKey(t)
  <2>1. CASE Barbican
    <3>1. UNCHANGED db /\ secrets' = secrets + 1 /\ staged' = secrets + 1
      BY <1>2, <2>1 DEF StoreKey
    <3>2. staged' \in 0..secrets' /\ staged' \notin 0..secrets /\ 0..secrets \subseteq 0..secrets'
      BY <1>1, <3>1
    <3>3. QED
      BY <3>1, <3>2 DEF Secrets, StagedIsNew, SecretsResolve
  <2>2. CASE ~Barbican
    BY <1>2, <2>2, SecretsIfStill DEF StoreKey
  <2>3. QED
    BY <2>1, <2>2
<1>3. CASE Quiet(t)
  BY <1>3, SecretsIfStill DEF Quiet
<1>4. ASSUME NEW op, NEW objs, Len(objs) \in Nat, Inserts(t, op, objs) PROVE Secrets'
  <2> DEFINE index(u) == u - nextUid + 1
  <2>1. \A u \in Uids : \/ db'[u] = db[u]
                        \/ /\ db[u] = NoObject
                           /\ index(u) \in 1..Len(objs) /\ db'[u] = objs[index(u)]
    BY <1>4, InsertedAreNew
  <2>2. /\ \A i \in 1..Len(objs) : objs[i].value \in {staged, InRow}
        /\ \A i, j \in 1..Len(objs) : i # j => objs[i].value = InRow
        /\ staged' = InRow /\ secrets' = secrets
    BY <1>4 DEF Inserts
  <2>3. \A u, v \in Uids : u # v => index(u) # index(v)
    BY EngineAssumption DEF IInv, TypeOK, Uids
  <2> HIDE DEF index
  <2>4. ASSUME NEW u \in Uids, db'[u] # NoObject PROVE db'[u].value \in 0..secrets
    BY <1>1, <2>1, <2>2, <2>4 DEF Secrets, StagedIsNew, SecretsResolve
  <2>5. ASSUME NEW u \in Uids, NEW v \in Uids, u # v, db'[u] # NoObject, db'[v] # NoObject,
               db'[u].value # InRow
        PROVE  db'[u].value # db'[v].value
    <3>1. CASE db'[u] = db[u] /\ db'[v] = db[v]
      BY <2>5, <3>1 DEF Secrets, SecretsResolve
    <3>2. CASE db'[u] = db[u] /\ db'[v] # db[v]
      BY <2>1, <2>2, <2>5, <3>2 DEF Secrets, StagedIsNew
    <3>3. CASE db'[u] # db[u] /\ db'[v] = db[v]
      BY <2>1, <2>2, <2>5, <3>3 DEF Secrets, StagedIsNew
    <3>4. CASE db'[u] # db[u] /\ db'[v] # db[v]
      BY <2>1, <2>2, <2>3, <2>5, <3>4
    <3>5. QED
      BY <3>1, <3>2, <3>3, <3>4
  <2>6. QED
    BY <1>1, <2>2, <2>4, <2>5 DEF Secrets, StagedIsNew, SecretsResolve
<1>5. ASSUME NEW op, NEW w, NEW row, Changes(t, op, w, row) PROVE Secrets'
  <2>1. \A u \in Uids : db'[u] # NoObject => db[u] # NoObject /\ db'[u].value = db[u].value
    BY <1>5, ChangedKeepsTheRest
  <2>2. UNCHANGED <<secrets, staged>>
    BY <1>5 DEF Changes
  <2>3. QED
    BY <2>1, <2>2 DEF Secrets, StagedIsNew, SecretsResolve
<1>6. QED
  BY <1>2, <1>3, <1>4, <1>5 DEF Shaped

\* What was revoked was handed out.
LEMMA RevokedIsBorn ==
    ASSUME IInv, NEW u \in revoked
    PROVE  u \in Uids /\ u < nextUid
<1>1. nextUid \in 1..MaxUid + 1 /\ MaxUid \in Nat /\ u \in 1..nextUid - 1
  BY EngineAssumption DEF IInv, TypeOK
<1>2. QED
  BY <1>1 DEF Uids

(* Whatever shape an item has, a revoked object stays deactivated, compromised or gone. *)
LEMMA ItemKeepsRetired ==
    ASSUME IInv, Retired, NEW t \in Threads, Shaped(t)
    PROVE  Retired'
<1>1. CASE StoreKey(t) \/ Quiet(t)
  BY <1>1 DEF StoreKey, Quiet, Retired, history
<1>2. ASSUME NEW op, NEW objs, Len(objs) \in Nat, Inserts(t, op, objs) PROVE Retired'
  <2>1. revoked' = revoked
    BY <1>2 DEF Inserts
  <2>2. \A u \in revoked : db'[u] = db[u]
    BY <1>2, RevokedIsBorn, InsertedAreNew
  <2>3. QED
    BY <2>1, <2>2 DEF Retired
<1>3. ASSUME NEW op, NEW w, NEW row, Changes(t, op, w, row) PROVE Retired'
  <2>1. w \in Uids
    BY <1>3 DEF Changes
  <2>2. db'[w] = row
    BY <1>3, <2>1, ChangedKeepsTheRest
  <2>3. ASSUME NEW u \in revoked', db'[u] # NoObject
        PROVE  db'[u].state \in {"DEACTIVATED", "COMPROMISED"}
    <3>1. CASE u # w
      <4>1. u \in revoked
        BY <1>3, <2>3, <3>1 DEF Changes
      <4>2. db'[u] = db[u]
        BY <1>3, <3>1, <4>1, RevokedIsBorn, ChangedKeepsTheRest
      <4>3. QED
        BY <2>3, <4>1, <4>2 DEF Retired
    <3>2. CASE u = w /\ op = "Revoke"
      BY <1>3, <2>2, <3>2 DEF Changes
    <3>3. CASE u = w /\ op # "Revoke"
      <4>1. u \in revoked
        BY <1>3, <2>3, <3>3 DEF Changes
      <4>2. db[w].state \in {"DEACTIVATED", "COMPROMISED"} /\ db[w] # NoObject
        BY <1>3, <3>3, <4>1 DEF Retired, Changes
      <4>3. op = "Destroy"
        BY <1>3, <3>3, <4>2 DEF Changes, Changing
      <4>4. db'[w] = NoObject
        BY <1>3, <2>2, <4>3 DEF Changes
      <4>5. QED
        BY <2>3, <3>3, <4>4
    <3>4. QED
      BY <3>1, <3>2, <3>3
  <2>4. QED
    BY <2>3 DEF Retired
<1>4. QED
  BY <1>1, <1>2, <1>3 DEF Shaped

-----------------------------------------------------------------------------
(* Every step *)

\* Outside of the items nothing that is stored changes, and results are only dropped.
Outside ==
    /\ UNCHANGED <<db, secrets, revoked>> /\ staged' \in {staged, InRow}
    /\ \A s \in Threads : \/ results'[s] = results[s] /\ request'[s] = request[s]
                          \/ results'[s] \in {<< >>, ErrorResponse}

(* Every step that is not an item, nor the storing of a key, leaves the store of
   objects alone. *)
LEMMA OtherSteps ==
    ASSUME IInv, [Next]_vars, \A t \in Threads : ~Item(t)
    PROVE  Outside
<1>1. ASSUME NEW t \in Threads, Start(t) \/ Finish(t) PROVE Outside
  BY <1>1 DEF Start, Finish, Leave, Outside, persistent, history
<1>2. ASSUME NEW t \in Threads, NEW rs \in {<< >>, ErrorResponse}, NEW q,
             results' = [results EXCEPT ![t] = rs], request' = [request EXCEPT ![t] = q],
             UNCHANGED <<db, secrets, revoked, staged>>
      PROVE  Outside
  BY <1>2 DEF Outside, IInv, TypeOK, ResultsOK
<1>3. ASSUME NEW t \in Threads, RejectHeader(t) \/ MissingBatchItemId(t) PROVE Outside
  <2>1. /\ results' = [results EXCEPT ![t] = ErrorResponse]
        /\ UNCHANGED <<db, secrets, revoked, staged, request>>
    BY <1>3 DEF RejectHeader, MissingBatchItemId, Leave, persistent, history
  <2>2. request' = [request EXCEPT ![t] = request[t]]
    BY <2>1 DEF IInv, TypeOK
  <2>3. QED
    BY <1>2, <2>1, <2>2
<1>4. ASSUME NEW t \in Threads, Deliver(t) PROVE Outside
  BY <1>2, <1>4 DEF Deliver, persistent, engine
<1>5. ASSUME NEW t \in Threads, NEW r \in Requests, Submit(t, r) PROVE Outside
  BY <1>2, <1>5 DEF Submit, persistent, engine, history
<1>6. CASE Crash \/ ChangePolicies \/ UNCHANGED vars
  BY <1>6 DEF Crash, ChangePolicies, Outside, vars, persistent, engine, threads, history
<1>7. QED
  BY <1>1, <1>3, <1>4, <1>5, <1>6 DEF Next, Work

(* The steps outside of the batch keep the results fitting. *)
LEMMA OtherStepsFit ==
    ASSUME IInv, Answering, [Next]_vars, \A t \in Threads : ~Item(t)
    PROVE  Answering'
<1>1. CASE ChangePolicies \/ UNCHANGED vars
  BY <1>1 DEF ChangePolicies, vars, threads, Answering
<1>2. QED
  BY <1>1, StartFits, ErrorFits, FinishFits, IdleFits DEF Next, Work

(* An item adds one result, or ends the batch with those there are. *)
LEMMA ItemFits ==
    ASSUME IInv, Answering, NEW t \in Threads, Shaped(t)
    PROVE  Answering'
<1>1. CASE StoreKey(t)
  BY <1>1, StoreKeyFits
<1>2. CASE \E r : Ends(t, r)
  BY <1>2, EndsFits
<1>3. QED
  BY <1>1, <1>2 DEF Shaped, Quiet, Inserts, Changes

(* Every step of the engine keeps the invariant. *)
LEMMA AnswersInductive == IInv /\ AInv /\ [Next]_vars => AInv'
<1> SUFFICES ASSUME IInv, AInv, [Next]_vars PROVE AInv'
  OBVIOUS
<1>1. CASE \E t \in Threads : Item(t)
  <2>1. PICK t \in Threads : Shaped(t)
    BY <1>1, ItemIsShaped DEF AInv
  <2>2. Answering' /\ CreatorOwns' /\ Secrets' /\ Retired'
    BY <2>1, ItemFits, ItemKeepsOwners, ItemKeepsSecrets, ItemKeepsRetired DEF AInv, Secrets
  <2>3. QED
    BY <2>2 DEF AInv, Secrets
<1>2. CASE \A t \in Threads : ~Item(t)
  <2>1. Outside /\ Answering'
    BY <1>2, OtherSteps, OtherStepsFit DEF AInv
  <2>2. CreatorOwns'
    BY <2>1, OwnsWithFewer DEF AInv, Outside
  <2>3. Secrets'
    BY <2>1, SecretsIfStill DEF AInv, Secrets, Outside
  <2>4. Retired'
    BY <2>1 DEF AInv, Retired, Outside
  <2>5. QED
    BY <2>1, <2>2, <2>3, <2>4 DEF AInv, Secrets
<1>3. QED
  BY <1>1, <1>2

(* The invariant holds before the first request. *)
LEMMA InitAnswers == Init => AInv
<1> SUFFICES ASSUME Init PROVE AInv
  OBVIOUS
<1>1. \A u \in Uids : db[u] = NoObject
  BY DEF Init
<1>2. \A t \in Threads : pc[t] = "idle" /\ results[t] = << >>
  BY DEF Init
<1>3. Answering
  BY <1>2 DEF Answering, Fits
<1>4. CreatorOwns
  BY <1>2 DEF CreatorOwns, CreatedIn
<1>5. StagedIsNew /\ SecretsResolve /\ Retired
  BY <1>1 DEF Init, StagedIsNew, SecretsResolve, Retired, InRow
<1>6. QED
  BY <1>3, <1>4, <1>5 DEF AInv

(* The invariant holds throughout every behaviour of the engine. *)
LEMMA AnswersInvariant == Spec => []AInv
BY InitAnswers, AnswersInductive, Inductive, PTL DEF Spec

-----------------------------------------------------------------------------
(* The theorems *)

\* A batch is answered with a result for every item, or up to its first failure under
\* the STOP option and only under it, or with one error: partial failures never leave a
\* gap and never cut short a batch that is to go on.
THEOREM AnswersComplete == Spec => []AnswerComplete
<1>1. AInv => AnswerComplete
  BY DEF AInv, Answering, Fits, AnswerComplete
<1>2. QED
  BY <1>1, AnswersInvariant, PTL

\* What a client is told that it created is its own: the owner is taken from the shared
\* attribute of the engine, and no other session comes in between.
THEOREM CreationIsOwned == Spec => []CreatorOwns
BY AnswersInvariant, PTL DEF AInv

\* Rows refer to secrets that Barbican has, each to its own, whatever fails between the
\* store of a key and the insertion of its row.
THEOREM SecretsAreThere == Spec => []SecretsResolve
BY AnswersInvariant, PTL DEF AInv

\* The last element of a longer sequence.
LEMMA AppendedIsLast ==
    ASSUME NEW rs \in Seq(ResultRecords), NEW r, NEW q, Append(rs, r) = Append(rs, q)
    PROVE  r = q
BY AppendAny

\* Results that are kept or dropped are not longer by a use of a key.
LEMMA NotLonger ==
    ASSUME NEW rs \in Seq(ResultRecords), NEW r, r.op # "Error"
    PROVE  Append(rs, r) \notin {rs, << >>, ErrorResponse}
<1>1. /\ Len(Append(rs, r)) = Len(rs) + 1 /\ Len(rs) \in Nat
      /\ Append(rs, r)[Len(rs) + 1] = r
  BY AppendAny
<1>2. Append(rs, r) # rs
  BY <1>1
<1>3. Append(rs, r) # << >>
  <2>1. Len(<< >>) = 0
    OBVIOUS
  <2>2. QED
    BY <1>1, <2>1
<1>4. Append(rs, r) # ErrorResponse
  <2>1. Len(ErrorResponse) = 1 /\ ErrorResponse[1].op = "Error"
    BY DEF ErrorResponse, Result
  <2>2. QED
    BY <1>1, <2>1
<1>5. QED
  BY <1>2, <1>3, <1>4

\* A key that was revoked is never again used where an active one is asked for, by no
\* session and after no crash.
THEOREM RevokedStaysUnused == Spec => RevokedNeverUsed
<1>1. ASSUME IInv, AInv, [Next]_vars, NEW t \in Threads, NEW u \in revoked, NEW op \in Using,
             results'[t] = Append(results[t], Result(op, {u}, TRUE))
      PROVE  FALSE
  <2> DEFINE r == Result(op, {u}, TRUE)
  <2>1. r.op = op /\ op # "Error" /\ op \notin Creating /\ op \notin Changing
    BY DEF Result, Using, CryptoUses, Creating, Changing
  <2>2. results[t] \in Seq(ResultRecords)
    BY <1>1 DEF IInv, ResultsOK
  <2>3. results'[t] = Append(results[t], r)
    BY <1>1
  <2>4. ~(db[u] # NoObject /\ db[u].state = "ACTIVE")
    BY <1>1 DEF AInv, Retired
  <2>5. r = Result(op, {u}, TRUE)
    OBVIOUS
  <2> HIDE DEF r
  <2>6. results'[t] \notin {results[t], << >>, ErrorResponse}
    BY <2>1, <2>2, <2>3, NotLonger
  <2>7. PICK s \in Threads : Item(s)
    BY <1>1, <2>6, OtherSteps DEF Outside
  <2>8. Shaped(s)
    BY <1>1, <2>7, ItemIsShaped DEF AInv
  <2>9. ASSUME NEW q, Ends(s, q) PROVE s = t /\ q = r
    <3>1. results' = [results EXCEPT ![s] = Append(results[s], q)]
      BY <2>9 DEF Ends
    <3>2. s = t
      BY <1>1, <2>6, <3>1 DEF IInv, ResultsOK
    <3>3. Append(results[t], q) = Append(results[t], r)
      BY <1>1, <2>3, <3>1, <3>2 DEF IInv, ResultsOK
    <3>4. QED
      BY <2>2, <3>2, <3>3, AppendedIsLast
  <2>10. CASE StoreKey(s)
    BY <2>6, <2>10 DEF StoreKey
  <2>11. CASE Quiet(s)
    <3>1. \A w, o : o \in Using /\ r = Result(o, {w}, TRUE) =>
              db[w] # NoObject /\ db[w].state = "ACTIVE"
      BY <2>9, <2>11 DEF Quiet
    <3>2. QED
      BY <2>4, <2>5, <3>1
  <2>12. ASSUME NEW o, NEW objs, Inserts(s, o, objs) PROVE FALSE
    <3>1. r = Result(o, nextUid .. nextUid + Len(objs) - 1, TRUE) /\ o \in Creating
      BY <2>9, <2>12 DEF Inserts
    <3>2. r.op = o
      BY <3>1 DEF Result
    <3>3. QED
      BY <2>1, <3>1, <3>2
  <2>13. ASSUME NEW o, NEW w, NEW row, Changes(s, o, w, row) PROVE FALSE
    <3>1. r = Result(o, {w}, TRUE) /\ o \in Changing
      BY <2>9, <2>13 DEF Changes
    <3>2. r.op = o
      BY <3>1 DEF Result
    <3>3. QED
      BY <2>1, <3>1, <3>2
  <2>14. QED
    BY <2>8, <2>10, <2>11, <2>12, <2>13 DEF Shaped
<1>2. IInv /\ AInv /\ [Next]_vars =>
          [\A t \in Threads, u \in revoked, op \in DOMAIN CryptoUses \cup {"Wrap"} :
               results'[t] # Append(results[t], Result(op, {u}, TRUE))]_vars
  BY <1>1 DEF Using
<1>3. QED
  BY <1>2, Inductive, AnswersInvariant, PTL DEF Spec, RevokedNeverUsed

-----------------------------------------------------------------------------
(* The lock is given back *)

\* The steps the batch of t may still take: two for every item without a result (Create
\* takes two) and one to finish, of which one is taken while an object is being created.
StepsLeft(t) ==
    2 * (request[t].items - Len(results[t])) + (IF pc[t] = "creating" THEN 0 ELSE 1)

\* The lock is held only for a batch: no session keeps it that is not served.
HeldForBatch == \A t \in Threads : lock = t => InEngine(t)

\* Each step of the session that holds the lock gives it back, or brings the end of the
\* batch nearer; and no step of another one takes the lock, or touches the batch.
HolderAdvances ==
    \A t \in Threads : lock = t =>
        /\ StepsLeft(t) \in Nat
        /\ \/ lock' = Nobody
           \/ lock' = t /\ Work(t) /\ StepsLeft(t)' < StepsLeft(t)
           \/ lock' = t /\ ~Work(t) /\ UNCHANGED <<pc[t], request[t], results[t]>>

\* Every end of process_request gives the lock back.
LEMMA HeldForBatchInvariant == Spec => []HeldForBatch
<1>1. Init => HeldForBatch
  BY EngineAssumption DEF Init, HeldForBatch
<1>2. IInv /\ AInv /\ IInv' /\ HeldForBatch /\ [Next]_vars => HeldForBatch'
  <2> SUFFICES ASSUME IInv, AInv, IInv', HeldForBatch, [Next]_vars
               PROVE  HeldForBatch'
    OBVIOUS
  <2>0. pc \in [Threads -> {"idle", "waiting", "batch", "creating", "answered"}]
        /\ Nobody \notin Threads
    BY EngineAssumption DEF IInv, TypeOK
  <2>1. ASSUME NEW t \in Threads, Item(t) PROVE HeldForBatch'
    <3>1. InEngine(t)'
      <4>1. Shaped(t)
        BY <2>1, ItemIsShaped DEF AInv
      <4>2. StoreKey(t) \/ \E r : Ends(t, r)
        BY <4>1 DEF Shaped, Quiet, Inserts, Changes
      <4> QED
        BY ONLY <2>0, <4>2, t \in Threads DEF StoreKey, Ends, InEngine
    <3>2. lock' = t
      BY <3>1 DEF IInv, ServesLockHolder, InEngine
    <3> QED
      BY <3>1, <3>2 DEF HeldForBatch
  <2>2. ASSUME NEW t \in Threads, Start(t) PROVE HeldForBatch'
    BY <2>0, <2>2 DEF Start, HeldForBatch, InEngine
  <2>3. ASSUME NEW t \in Threads, MissingBatchItemId(t) \/ Finish(t) PROVE HeldForBatch'
    BY <2>0, <2>3 DEF MissingBatchItemId, Finish, Leave, HeldForBatch
  <2>4. ASSUME NEW t \in Threads, RejectHeader(t) PROVE HeldForBatch'
    BY <2>0, <2>4 DEF RejectHeader, HeldForBatch
  <2>5. ASSUME NEW t \in Threads, Deliver(t) \/ \E r \in Requests : Submit(t, r)
        PROVE  HeldForBatch'
    BY <2>0, <2>5 DEF Deliver, Submit, HeldForBatch, InEngine, engine
  <2>6. CASE Crash
    BY <2>0, <2>6 DEF Crash, HeldForBatch
  <2>7. CASE ChangePolicies \/ UNCHANGED vars
    BY <2>7 DEF ChangePolicies, vars, engine, threads, HeldForBatch, InEngine
  <2> QED
    BY <2>1, <2>2, <2>3, <2>4, <2>5, <2>6, <2>7 DEF Next, Work
<1> QED
  BY <1>1, <1>2, Inductive, AnswersInvariant, PTL DEF Spec

\* The number of steps left is a number, and one less by every item or half of one.
LEMMA ItemsLeft ==
    ASSUME IInv, Answering, NEW t \in Threads, InEngine(t)
    PROVE  /\ StepsLeft(t) \in Nat
           /\ Shaped(t) => StepsLeft(t)' < StepsLeft(t)
<1> DEFINE n == Len(results[t])
           k == request[t].items
<1>1. n \in Nat /\ k \in Nat
  BY ItemsAreNumbers
<1>2. n <= k
  BY DEF Answering, Fits, InEngine
<1>3. StepsLeft(t) = 2 * (k - n) + (IF pc[t] = "creating" THEN 0 ELSE 1)
  BY DEF StepsLeft
<1>4. pc \in [Threads -> {"idle", "waiting", "batch", "creating", "answered"}]
  BY DEF IInv, TypeOK
<1>5. ASSUME NEW r, Ends(t, r)
      PROVE  StepsLeft(t)' = 2 * (k - (n + 1)) + 1
  <2>1. results'[t] = Append(results[t], r) /\ request'[t] = request[t] /\ pc'[t] = "batch"
    BY <1>4, <1>5 DEF Ends, IInv, ResultsOK
  <2>2. Len(results'[t]) = n + 1
    BY <2>1, AppendAny DEF IInv, ResultsOK
  <2> QED
    BY <2>1, <2>2 DEF StepsLeft
<1>6. ASSUME StoreKey(t)
      PROVE  StepsLeft(t)' = 2 * (k - n) /\ pc[t] = "batch"
  <2>1. results'[t] = results[t] /\ request'[t] = request[t]
        /\ pc'[t] = "creating" /\ pc[t] = "batch"
    BY <1>4, <1>6 DEF StoreKey, InBatch
  <2>2. 2 * (k - n) + 0 = 2 * (k - n)
    BY <1>1
  <2> QED
    BY <2>1, <2>2 DEF StepsLeft
<1>7. Shaped(t) => StoreKey(t) \/ \E r : Ends(t, r)
  BY DEF Shaped, Quiet, Inserts, Changes
<1> HIDE DEF n, k
<1>8. StepsLeft(t) \in Nat
  BY ONLY <1>1, <1>2, <1>3
<1>9. ASSUME NEW r, Ends(t, r) PROVE StepsLeft(t)' < StepsLeft(t)
  <2>1. StepsLeft(t)' = 2 * (k - (n + 1)) + 1
    BY <1>5, <1>9
  <2> QED
    BY ONLY <1>1, <1>3, <2>1
<1>10. ASSUME StoreKey(t) PROVE StepsLeft(t)' < StepsLeft(t)
  <2>1. StepsLeft(t)' = 2 * (k - n) /\ pc[t] = "batch"
    BY <1>6, <1>10
  <2> QED
    BY ONLY <1>1, <1>3, <2>1
<1> QED
  BY <1>7, <1>8, <1>9, <1>10

\* What a step means for the session that holds the lock.
LEMMA StepAdvances ==
    ASSUME IInv, AInv, IInv', HeldForBatch, [Next]_vars
    PROVE  HolderAdvances
<1> SUFFICES ASSUME NEW t \in Threads, lock = t
             PROVE  /\ StepsLeft(t) \in Nat
                    /\ \/ lock' = Nobody
                       \/ lock' = t /\ Work(t) /\ StepsLeft(t)' < StepsLeft(t)
                       \/ lock' = t /\ ~Work(t) /\ UNCHANGED <<pc[t], request[t], results[t]>>
  BY DEF HolderAdvances
<1>0. /\ pc \in [Threads -> {"idle", "waiting", "batch", "creating", "answered"}]
      /\ DOMAIN request = Threads /\ DOMAIN results = Threads /\ lock # Nobody
  BY EngineAssumption DEF IInv, TypeOK, ResultsOK
<1>1. InEngine(t) /\ StepsLeft(t) \in Nat
  BY ItemsLeft DEF HeldForBatch, AInv
<1>2. \A s \in Threads : InEngine(s) => s = t
  BY DEF IInv, ServesLockHolder, InEngine
<1>3. \A s \in Threads : ~Start(s) /\ ~RejectHeader(s)
  BY <1>0 DEF Start, RejectHeader
<1>4. \A s \in Threads : Item(s) \/ MissingBatchItemId(s) \/ Finish(s) => s = t
  <2>1. \A s \in Threads : Item(s) => InEngine(s)
    BY ItemIsShaped DEF AInv, Shaped, Quiet, Inserts, Changes, Ends, StoreKey, InBatch, InEngine
  <2>2. \A s \in Threads : MissingBatchItemId(s) \/ Finish(s) => InEngine(s)
    BY DEF MissingBatchItemId, Finish, InBatch, InEngine
  <2> QED
    BY <1>2, <2>1, <2>2
<1>5. CASE Work(t)
  <2>1. CASE Item(t)
    <3>1. Shaped(t)
      BY <2>1, ItemIsShaped DEF AInv
    <3>2. StepsLeft(t)' < StepsLeft(t)
      BY <1>1, <3>1, ItemsLeft DEF AInv
    <3>3. InEngine(t)'
      <4>1. StoreKey(t) \/ \E r : Ends(t, r)
        BY <3>1 DEF Shaped, Quiet, Inserts, Changes
      <4> QED
        BY ONLY <1>0, <4>1, t \in Threads DEF StoreKey, Ends, InEngine
    <3>4. lock' = t
      BY <3>3 DEF IInv, ServesLockHolder, InEngine
    <3> QED
      BY <1>1, <1>5, <3>2, <3>4
  <2>2. CASE MissingBatchItemId(t) \/ Finish(t)
    BY <1>1, <2>2 DEF MissingBatchItemId, Finish, Leave
  <2>3. ~Deliver(t)
    BY <1>1 DEF Deliver, InEngine
  <2> QED
    BY <1>3, <1>5, <2>1, <2>2, <2>3 DEF Work
<1>6. CASE ~Work(t)
  <2>1. ASSUME NEW s \in Threads, Work(s)
        PROVE  lock' = t /\ UNCHANGED <<pc[t], request[t], results[t]>>
    <3>1. Deliver(s) /\ s # t
      BY <1>3, <1>4, <1>6, <2>1 DEF Work
    <3> QED
      BY <1>0, <3>1 DEF Deliver, engine
  <2>2. ASSUME NEW s \in Threads, NEW r \in Requests, Submit(s, r)
        PROVE  lock' = t /\ UNCHANGED <<pc[t], request[t], results[t]>>
    <3>1. s # t
      BY <1>1, <2>2 DEF Submit, InEngine
    <3> QED
      BY <1>0, <2>2, <3>1 DEF Submit, engine
  <2>3. CASE ChangePolicies \/ UNCHANGED vars
    BY <1>1, <1>6, <2>3 DEF ChangePolicies, vars, engine, threads
  <2>4. CASE Crash
    BY <1>1, <2>4 DEF Crash
  <2> QED
    BY <1>1, <1>6, <2>1, <2>2, <2>3, <2>4 DEF Next
<1> QED
  BY <1>5, <1>6

\* process_request always comes to its end: the holder of the lock gives it back within
\* two steps for each item of its batch and one more, whatever other sessions do, and no
\* other session works on a batch meanwhile.  With the fairness of the threads that is
\* how the lock is released (LockReleased).
THEOREM HolderNearsItsEnd == Spec => [][HolderAdvances]_vars
<1>1. IInv /\ AInv /\ IInv' /\ HeldForBatch /\ [Next]_vars => [HolderAdvances]_vars
  BY StepAdvances
<1> QED
  BY <1>1, Inductive, AnswersInvariant, HeldForBatchInvariant, PTL DEF Spec

-----------------------------------------------------------------------------
(* Keys that Get can return *)

\* A key that is being created is in Barbican already, if that is where keys go.
StagedIsKey == Barbican => \A t \in Threads : pc[t] = "creating" => staged # InRow

\* The row that Create inserts has the URL of its key, so Get can return it; and what Get
\* can return once it can return until the object is gone.  (A key that is registered, or
\* derived, while Barbican is enabled is not of this kind: StoredKeysRetrievable.)
KeysStayRetrievable ==
    /\ \A t \in Threads : CreateRow(t) =>
           \A u \in Uids : db[u] = NoObject /\ db'[u] # NoObject => Retrievable(u)'
    /\ \A u \in Uids : db[u] # NoObject /\ db'[u] # NoObject /\ Retrievable(u) => Retrievable(u)'

\* Nothing comes between the two halves of a Create, but a crash.
LEMMA StagedIsKeyInvariant == Spec => []StagedIsKey
<1>1. Init => StagedIsKey
  BY DEF Init, StagedIsKey
<1>2. IInv /\ AInv /\ StagedIsKey /\ [Next]_vars => StagedIsKey'
  <2> SUFFICES ASSUME IInv, AInv, StagedIsKey, [Next]_vars, Barbican
               PROVE  \A s \in Threads : pc'[s] = "creating" => staged' # InRow
    BY DEF StagedIsKey
  <2>0. pc \in [Threads -> {"idle", "waiting", "batch", "creating", "answered"}]
    BY DEF IInv, TypeOK
  <2>1. ASSUME NEW t \in Threads, Item(t)
        PROVE  \A s \in Threads : pc'[s] = "creating" => staged' # InRow
    <3>1. Shaped(t)
      BY <2>1, ItemIsShaped DEF AInv
    <3>2. CASE StoreKey(t)
      <4>1. staged' = secrets + 1 /\ secrets \in Nat
        BY <3>2, EngineAssumption DEF StoreKey, IInv, TypeOK
      <4> QED
        BY <4>1 DEF InRow
    <3>3. CASE \E r : Ends(t, r)
      <4>1. InEngine(t) /\ pc' = [pc EXCEPT ![t] = "batch"]
        BY <3>3 DEF Ends
      <4>2. \A s \in Threads \ {t} : pc[s] # "creating"
        BY <4>1 DEF IInv, ServesLockHolder, InEngine
      <4> QED
        BY ONLY <2>0, <4>1, <4>2, t \in Threads
    <3> QED
      BY <3>1, <3>2, <3>3 DEF Shaped, Quiet, Inserts, Changes
  <2>2. ASSUME NEW t \in Threads, Work(t), ~Item(t)
        PROVE  staged' = staged /\ \A s \in Threads : pc'[s] = "creating" => pc[s] = "creating"
    BY <2>0, <2>2 DEF Work, Start, RejectHeader, MissingBatchItemId, Finish, Leave, Deliver, engine
  <2>3. ASSUME NEW t \in Threads, NEW r \in Requests, Submit(t, r)
        PROVE  staged' = staged /\ \A s \in Threads : pc'[s] = "creating" => pc[s] = "creating"
    BY <2>0, <2>3 DEF Submit, engine
  <2>4. CASE Crash
    BY <2>4 DEF Crash
  <2>5. CASE ChangePolicies \/ UNCHANGED vars
    BY <2>5 DEF ChangePolicies, vars, engine, threads, StagedIsKey
  <2> QED
    BY <2>1, <2>2, <2>3, <2>4, <2>5 DEF Next, StagedIsKey
<1> QED
  BY <1>1, <1>2, Inductive, AnswersInvariant, PTL DEF Spec

\* The row that Create inserts.
LEMMA CreatedRetrievable ==
    ASSUME IInv, AInv, StagedIsKey, NEW t \in Threads, CreateRow(t),
           NEW u \in Uids, db[u] = NoObject, db'[u] # NoObject
    PROVE  Retrievable(u)'
<1>1. ~CommitFails(t) /\ ~Refuse(t)
  BY DEF CommitFails, Refuse, persistent
<1>2. PICK p \in PolicyNames, m \in MaskChoices :
          Insert(t, "Create", <<NewObject("SymmetricKey", p, m, staged)>>, 1)
  BY <1>1 DEF CreateRow
<1> DEFINE o == NewObject("SymmetricKey", p, m, staged)
           objs == <<o>>
<1>3. o.value = staged
  BY DEF NewObject
<1>4. nextUid \in Nat
  BY EngineAssumption DEF IInv, TypeOK
<1>5. Insert(t, "Create", objs, 1)
  BY <1>2
<1> HIDE DEF o
<1>6. Len(objs) = 1 /\ objs[1] = o
  OBVIOUS
<1> HIDE DEF objs
<1>7. /\ secrets' = secrets
      /\ db' = [v \in Uids |-> IF v \in nextUid .. nextUid + Len(objs) - 1
                               THEN objs[v - nextUid + 1] ELSE db[v]]
  BY <1>5 DEF Insert
<1>8. u \in nextUid .. nextUid + Len(objs) - 1 /\ db'[u] = objs[u - nextUid + 1]
  BY <1>7
<1>9. u = nextUid
  BY <1>4, <1>6, <1>8
<1>10. db'[u] = o
  BY <1>4, <1>6, <1>8, <1>9
<1>11. Barbican => staged \in 1..secrets
  <2>1. Barbican => staged # InRow
    BY DEF StagedIsKey, CreateRow
  <2>2. staged \in 0..secrets /\ secrets \in Nat
    BY EngineAssumption DEF AInv, StagedIsNew, IInv, TypeOK
  <2> QED
    BY <2>1, <2>2 DEF InRow
<1> QED
  BY <1>3, <1>7, <1>10, <1>11 DEF Retrievable

\* Secrets are only added.
LEMMA SecretsStay ==
    ASSUME IInv, AInv, [Next]_vars
    PROVE  secrets \in Nat /\ secrets' \in {secrets, secrets + 1}
<1>1. secrets \in Nat
  BY EngineAssumption DEF IInv, TypeOK
<1>2. ASSUME NEW t \in Threads, Item(t) PROVE secrets' \in {secrets, secrets + 1}
  <2>1. Shaped(t)
    BY <1>2, ItemIsShaped DEF AInv
  <2> QED
    BY <2>1 DEF Shaped, StoreKey, Quiet, Inserts, Changes
<1>3. ASSUME \A t \in Threads : ~Item(t) PROVE secrets' \in {secrets, secrets + 1}
  <2>1. IInv /\ [Next]_vars
    OBVIOUS
  <2>2. Outside
    BY ONLY <1>3, <2>1, OtherSteps
  <2> QED
    BY ONLY <2>2 DEF Outside
<1> QED
  BY <1>1, <1>2, <1>3

\* A row that stays.
LEMMA RowStaysRetrievable ==
    ASSUME IInv, AInv, [Next]_vars,
           NEW u \in Uids, db[u] # NoObject, db'[u] # NoObject, Retrievable(u)
    PROVE  Retrievable(u)'
<1>1. db'[u].type = db[u].type /\ db'[u].value = db[u].value
  <2>1. CASE db'[u] = db[u]
    BY <2>1
  <2>2. CASE db'[u] # db[u]
    <3>1. PICK t \in Threads, op \in Changing : ChangedBy(t, op, u)
      BY <2>2, NextChangesByUpdate DEF OnlyByUpdate
    <3>2. PICK s : db'[u] = [db[u] EXCEPT !.state = s]
      BY <3>1 DEF ChangedBy, Update, IInv, TypeOK
    <3>3. db[u] \in Objects
      BY DEF IInv, TypeOK
    <3> QED
      BY <3>2, <3>3 DEF Objects
  <2> QED
    BY <2>1, <2>2
<1>2. 1..secrets \subseteq 1..secrets'
  BY SecretsStay
<1> QED
  BY <1>1, <1>2 DEF Retrievable

\* Get can return a key that Create stored as long as it is there, whatever commits fail,
\* whoever uses the store meanwhile and whenever the server crashes (_process_create,
\* _process_get).
THEOREM CreatedKeysRetrievable == Spec => [][KeysStayRetrievable]_vars
<1>1. IInv /\ AInv /\ StagedIsKey /\ [Next]_vars => [KeysStayRetrievable]_vars
  BY CreatedRetrievable, RowStaysRetrievable DEF KeysStayRetrievable
<1> QED
  BY <1>1, Inductive, AnswersInvariant, StagedIsKeyInvariant, PTL DEF Spec
=============================================================================
