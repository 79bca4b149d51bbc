------------------------ MODULE PolicyMonitorProofs ------------------------
(***************************************************************************)
(* Proofs about the policy directory monitor, for any number of files,     *)
(* policies and writes: its tables agree, the reserved policies stay as    *)
(* they are, no policy that some file defines is lost, and a scan ends     *)
(* with the directory seen.                                                *)
(***************************************************************************)
EXTENDS PolicyMonitor, TLAPS

-----------------------------------------------------------------------------
(* The inductive invariant *)

\* Where the scan is: what it has still to look at was listed, a file is read
\* only when nothing is left to be forgotten or restored, nothing is between two
\* scans, and reserved policies have neither file nor versions.
ScanInv ==
    /\ \A p \in Reserved : map[p] = NoFile /\ cache[p] = {}
    /\ todo \subseteq tracked
    /\ loading # NoFile => loading \in tracked /\ removed = {} /\ orphans = {}
    /\ status \in {"idle", "stopped"} => removed = {} /\ orphans = {} /\ loading = NoFile

\* The monitor has read the file as it is.
Current(f) == dir[f] # 0 /\ stamps[f] = dir[f] /\ loading # f

Defines(f, p) == text[f] \in Tables /\ text[f][p] # NoPolicy

\* Time stamps seen were given; a file found removed and back again is newer.
TimesInv ==
    /\ \A f \in Files : stamps[f] <= clock /\ dir[f] <= clock
    /\ \A f \in removed : ~Current(f)

\* A policy that a file says it defines, the file as it was read last, is taken
\* from that file or has a version of it; and a policy about to be restored or
\* deleted is not taken from such a file.
DefinersKept ==
    /\ \A f \in Files, p \in Policies \ Reserved : Current(f) /\ Defines(f, p) =>
           map[p] = f \/ \E e \in cache[p] : e.file = f
    /\ \A p \in orphans : map[p] \in Files => ~(Current(map[p]) /\ Defines(map[p], p))

IInv == TypeOK /\ ReservedFixed /\ MapStoreAgree /\ SourcesTracked /\ ScanInv
        /\ TimesInv /\ DefinersKept

-----------------------------------------------------------------------------
(* One lemma per action *)

\* A file written is newer than any time stamp seen, so not Current.
LEMMA WriteFileSafe ==
    ASSUME IInv, NEW f \in Files, NEW new \in Texts, WriteFile(f, new)
    PROVE  IInv'
<1> USE MonitorAssumption DEF IInv, WriteFile, Files, NoFile, disk, scan
<1>1. TypeOK'
  <2>1. clock' \in Nat /\ dir' \in [Files -> Nat]
    BY DEF TypeOK
  <2>2. text' \in [Files -> {Malformed, NotATable} \cup Tables]
    BY DEF TypeOK
  <2>3. UNCHANGED <<store, map, cache, stamps, tracked, removed, todo, orphans, loading, status>>
    OBVIOUS
  <2>4. QED
    BY ONLY <2>1, <2>2, <2>3, TypeOK DEF TypeOK
<1>2. ReservedFixed'
  BY DEF ReservedFixed
<1>3. MapStoreAgree'
  BY DEF MapStoreAgree
<1>4. SourcesTracked'
  BY DEF SourcesTracked
<1>5. ScanInv'
  BY DEF ScanInv
<1>6. TimesInv'
  BY DEF TypeOK, TimesInv, Current
<1>7. DefinersKept'
  <2>1. \A g \in Files : Current(g)' => Current(g) /\ text'[g] = text[g]
    BY DEF TypeOK, TimesInv, Current
  <2>2. \A g \in Files, p \in Policies : (Current(g) /\ Defines(g, p))' => Current(g) /\ Defines(g, p)
    BY <2>1 DEF Defines
  <2>3. map' = map /\ cache' = cache /\ orphans' = orphans /\ orphans \subseteq Policies
    BY DEF TypeOK
  <2>4. QED
    BY ONLY <2>2, <2>3, DefinersKept DEF DefinersKept
<1> QED
  BY <1>1, <1>2, <1>3, <1>4, <1>5, <1>6, <1>7

\* A file removed is not Current.
LEMMA DeleteFileSafe ==
    ASSUME IInv, NEW f \in Files, DeleteFile(f)
    PROVE  IInv'
<1> USE MonitorAssumption DEF IInv, DeleteFile, Present, Files, NoFile, disk, scan
<1>1. TypeOK'
  BY DEF TypeOK
<1>2. ReservedFixed'
  BY DEF ReservedFixed
<1>3. MapStoreAgree'
  BY DEF MapStoreAgree
<1>4. SourcesTracked'
  BY DEF SourcesTracked
<1>5. ScanInv'
  BY DEF ScanInv
<1>6. TimesInv'
  BY DEF TypeOK, TimesInv, Current
<1>7. DefinersKept'
  BY DEF DefinersKept, Current, Defines
<1> QED
  BY <1>1, <1>2, <1>3, <1>4, <1>5, <1>6, <1>7

\* Files no longer listed are those removed, and they are not there.
LEMMA BeginScanSafe ==
    ASSUME IInv, BeginScan
    PROVE  IInv'
<1> USE MonitorAssumption DEF IInv, BeginScan, Present, Files, NoFile, disk, scan
<1>1. TypeOK'
  BY DEF TypeOK
<1>2. ReservedFixed'
  BY DEF ReservedFixed
<1>3. MapStoreAgree'
  BY DEF MapStoreAgree
<1>4. SourcesTracked'
  BY DEF ScanInv, SourcesTracked
<1>5. ScanInv'
  BY DEF ScanInv
<1>6. TimesInv'
  BY DEF TypeOK, TimesInv, Current
<1>7. DefinersKept'
  BY DEF DefinersKept, Current, Defines
<1> QED
  BY <1>1, <1>2, <1>3, <1>4, <1>5, <1>6, <1>7

\* A file removed is not Current: nothing it defined needs to be kept, and what
\* others defined is in the cache.
LEMMA ForgetFileSafe ==
    ASSUME IInv, NEW f \in Files, ForgetFile(f)
    PROVE  IInv'
<1> USE MonitorAssumption DEF IInv
<1>0. \A p \in Policies : /\ cache'[p] \subseteq cache[p]
                          /\ \A e \in cache[p] : e.file # f => e \in cache'[p]
                          /\ \A e \in cache'[p] : e.file # f
  BY DEF ForgetFile, Disassociate
<1> USE DEF ForgetFile, Files, NoFile, disk
<1>1. TypeOK'
  <2>1. orphans' \subseteq Policies \ Reserved
    BY DEF ScanInv
  <2>2. \A p \in Policies : \A e \in cache'[p] : e.file \in Files /\ e.content \in Contents
    BY <1>0 DEF TypeOK
  <2>3. QED
    BY <2>1, <2>2 DEF TypeOK
<1>2. ReservedFixed'
  BY DEF ReservedFixed
<1>3. MapStoreAgree'
  BY <1>0 DEF MapStoreAgree
<1>4. SourcesTracked'
  BY <1>0 DEF TypeOK, SourcesTracked
<1>5. ScanInv'
  BY <1>0 DEF TypeOK, ScanInv
<1>6. TimesInv'
  BY DEF TypeOK, TimesInv, Current
<1>7. DefinersKept'
  <2>1. ~Current(f)
    BY DEF TimesInv
  <2>2. \A g \in Files : (Current(g)' <=> Current(g))
                         /\ \A p \in Policies : Defines(g, p)' <=> Defines(g, p)
    BY DEF Current, Defines
  <2>3. \A p \in orphans' : map'[p] = f
    OBVIOUS
  <2>4. \A g \in Files, p \in Policies \ Reserved : Current(g) /\ Defines(g, p) =>
            map'[p] = g \/ \E e \in cache'[p] : e.file = g
    BY <1>0, <2>1 DEF DefinersKept
  <2>5. QED
    BY <2>1, <2>2, <2>3, <2>4 DEF DefinersKept
<1> QED
  BY <1>1, <1>2, <1>3, <1>4, <1>5, <1>6, <1>7

\* An orphan is not taken from a file that defines it: if another one does, it
\* has a version in the cache, and one of the versions is restored.
LEMMA RestoreOrDeleteSafe ==
    ASSUME IInv, NEW p \in Policies, RestoreOrDelete(p)
    PROVE  IInv'
<1> USE MonitorAssumption DEF IInv, Files, NoFile
<1>0. /\ p \in Policies \ Reserved /\ p \in orphans
      /\ orphans' = orphans \ {p}
      /\ status = "scanning" /\ loading = NoFile
      /\ UNCHANGED <<dir, text, clock, stamps, tracked, removed, todo, loading, status>>
  BY DEF RestoreOrDelete, TypeOK, ScanInv, disk
<1>1. CASE cache[p] = {}
  <2>0. /\ store' = [store EXCEPT ![p] = NoPolicy]
        /\ map' = [map EXCEPT ![p] = NoFile]
        /\ cache' = cache
    BY <1>1 DEF RestoreOrDelete, Latest
  <2>1. TypeOK'
    BY <1>0, <2>0 DEF TypeOK
  <2>2. ReservedFixed' /\ MapStoreAgree' /\ SourcesTracked'
    BY <1>0, <1>1, <2>0 DEF TypeOK, ReservedFixed, MapStoreAgree, SourcesTracked
  <2>3. ScanInv' /\ TimesInv'
    BY <1>0, <2>0 DEF TypeOK, ScanInv, TimesInv, Current
  <2>4. DefinersKept'
    BY <1>0, <1>1, <2>0 DEF TypeOK, DefinersKept, Current, Defines
  <2>5. QED
    BY <2>1, <2>2, <2>3, <2>4
<1>2. CASE cache[p] # {}
  <2>0. PICK e \in cache[p] : /\ store' = [store EXCEPT ![p] = e.content]
                              /\ map' = [map EXCEPT ![p] = e.file]
                              /\ cache' = [cache EXCEPT ![p] = cache[p] \ {e}]
    BY <1>2 DEF RestoreOrDelete, Latest
  <2>1. e.file \in Files /\ e.content \in Contents
    BY DEF TypeOK
  <2>2. \A q \in Policies : cache'[q] \subseteq cache[q]
    BY <2>0
  <2>3. TypeOK'
    BY <1>0, <2>0, <2>1, <2>2 DEF TypeOK
  <2>4. ReservedFixed'
    BY <1>0, <2>0 DEF ReservedFixed, TypeOK
  <2>5. MapStoreAgree'
    BY <1>0, <2>0, <2>1, <2>2 DEF TypeOK, MapStoreAgree
  <2>6. SourcesTracked'
    BY <1>0, <2>0, <2>1, <2>2 DEF TypeOK, SourcesTracked
  <2>7. ScanInv' /\ TimesInv'
    <3>1. \A q \in Reserved : map'[q] = map[q] /\ cache'[q] = cache[q]
      BY <1>0, <2>0 DEF TypeOK
    <3>2. ScanInv'
      BY <1>0, <3>1 DEF TypeOK, ScanInv
    <3>3. TimesInv'
      BY <1>0 DEF TimesInv, Current
    <3>4. QED
      BY ONLY <3>2, <3>3
  <2>8. DefinersKept'
    <3>1. \A g \in Files, q \in Policies : Current(g)' = Current(g)
                                           /\ Defines(g, q)' = Defines(g, q)
      BY <1>0 DEF Current, Defines
    <3>2. \A g \in Files : Current(g) /\ Defines(g, p) =>
              map'[p] = g \/ \E x \in cache'[p] : x.file = g
      <4> SUFFICES ASSUME NEW g \in Files, Current(g), Defines(g, p)
                   PROVE  map'[p] = g \/ \E x \in cache'[p] : x.file = g
        OBVIOUS
      <4>1. PICK x \in cache[p] : x.file = g
        BY <1>0 DEF DefinersKept
      <4>2. QED
        BY <2>0, <4>1 DEF TypeOK
    <3>3. \A q \in Policies \ {p} : map'[q] = map[q] /\ cache'[q] = cache[q]
      BY <2>0 DEF TypeOK
    <3>4. ASSUME NEW g \in Files, NEW q \in Policies \ Reserved,
                 Current(g)', Defines(g, q)'
          PROVE  map'[q] = g \/ \E x \in cache'[q] : x.file = g
      <4>1. Current(g) /\ Defines(g, q)
        BY ONLY <3>1, <3>4
      <4>2. map[q] = g \/ \E x \in cache[q] : x.file = g
        BY ONLY <4>1, DefinersKept DEF DefinersKept
      <4>3. QED
        BY ONLY <3>2, <3>3, <4>1, <4>2
    <3>5. ASSUME NEW q \in orphans', map'[q] \in Files
          PROVE  ~(Current(map[q])' /\ Defines(map[q], q)')
      <4>1. q \in orphans /\ q \in Policies \ {p}
        BY ONLY <1>0, <3>5, TypeOK DEF TypeOK
      <4>2. map'[q] = map[q] /\ map[q] \in Files
        BY ONLY <3>3, <3>5, <4>1
      <4>3. ~(Current(map[q]) /\ Defines(map[q], q))
        BY ONLY <4>1, <4>2, DefinersKept DEF DefinersKept
      <4>4. PICK g \in Files : g = map[q]
        BY ONLY <4>2
      <4>5. ~(Current(g)' /\ Defines(g, q)')
        BY <3>1, <4>1, <4>3, <4>4
      <4>6. QED
        BY <4>2, <4>4, <4>5
    <3>6. QED
      BY <3>4, <3>5 DEF DefinersKept
  <2>9. QED
    BY <2>3, <2>4, <2>5, <2>6, <2>7, <2>8
<1>3. QED
  BY <1>1, <1>2

\* A file found to be newer is the next to be loaded, so not Current yet.
LEMMA StatSafe ==
    ASSUME IInv, NEW f \in Files, Stat(f)
    PROVE  IInv'
<1> USE MonitorAssumption DEF IInv, Stat, Ready, Die, Files, NoFile, disk, scan
<1>1. TypeOK'
  BY DEF TypeOK
<1>2. ReservedFixed'
  BY DEF ReservedFixed
<1>3. MapStoreAgree'
  BY DEF MapStoreAgree
<1>4. SourcesTracked'
  BY DEF SourcesTracked
<1>5. ScanInv'
  BY DEF ScanInv
<1>6. TimesInv'
  BY DEF TypeOK, TimesInv, Current
<1>7. DefinersKept'
  <2>1. orphans' = {} /\ map' = map /\ cache' = cache /\ \A g \in Files : Current(g)' => Current(g)
    BY DEF TypeOK, ScanInv, Current
  <2>2. QED
    BY <2>1 DEF DefinersKept, Defines
<1> QED
  BY <1>1, <1>2, <1>3, <1>4, <1>5, <1>6, <1>7

\* What a file overrides goes to the cache, what it drops becomes an orphan.
LEMMA LoadSafe ==
    ASSUME IInv, NEW f \in Files, Load(f)
    PROVE  IInv'
<1> USE MonitorAssumption DEF IInv, Files, NoFile
<1>0. /\ status = "scanning" /\ loading = f /\ loading' = NoFile
      /\ f \in tracked /\ removed = {} /\ orphans = {}
      /\ UNCHANGED <<dir, text, clock, stamps, tracked, removed, todo>>
  BY DEF Load, ScanInv, disk
<1>1. CASE ~(Present(f) /\ text[f] \in Tables)
  <2>0. /\ status' \in {"scanning", "dead"}
        /\ UNCHANGED <<store, map, cache, orphans>>
    BY <1>0, <1>1 DEF Load
  <2>1. ~(Current(f)' /\ \E p \in Policies : Defines(f, p)')
    BY <1>0, <1>1 DEF Current, Defines, Present
  <2>2. TypeOK' /\ ReservedFixed' /\ MapStoreAgree' /\ SourcesTracked'
    BY <1>0, <2>0 DEF TypeOK, ReservedFixed, MapStoreAgree, SourcesTracked
  <2>3. ScanInv' /\ TimesInv'
    BY <1>0, <2>0 DEF TypeOK, ScanInv, TimesInv, Current
  <2>4. DefinersKept'
    <3>1. \A g \in Files \ {f} : Current(g)' = Current(g)
      BY <1>0 DEF Current
    <3>2. \A g \in Files, p \in Policies : Defines(g, p)' = Defines(g, p)
      BY <1>0 DEF Defines
    <3>3. QED
      BY <1>0, <2>0, <2>1, <3>1, <3>2 DEF TypeOK, DefinersKept
  <2>5. QED
    BY <2>2, <2>3, <2>4
<1>2. CASE Present(f) /\ text[f] \in Tables
  <2>0. /\ \A p \in Policies : text[f][p] \in Contents \cup {NoPolicy}
        /\ Defined(f) \subseteq Policies \ Reserved
        /\ Dropped(f) \subseteq Policies \ Reserved
    BY <1>2 DEF Tables, Defined, Dropped, ScanInv
  <2>1. /\ status' = "scanning" /\ orphans' = Dropped(f)
        /\ store' = [p \in Policies |-> IF p \in Defined(f) THEN text[f][p] ELSE store[p]]
        /\ map' = [p \in Policies |-> IF p \in Defined(f) THEN f ELSE map[p]]
    BY <1>0, <1>2 DEF Load, Tables
  <2>2. cache' = [p \in Policies |->
                CASE p \in Defined(f) -> CacheAfter(p, f)
                  [] p \in Dropped(f) -> Disassociate(cache[p], f)
                  [] OTHER -> cache[p]]
    BY <1>0, <1>2 DEF Load, Tables
  <2>3. Defined(f) \cap Dropped(f) = {}
    BY DEF Defined, Dropped
  <2>4. /\ \A p \in Defined(f) : cache'[p] = CacheAfter(p, f)
        /\ \A p \in Policies \ Defined(f) :
               /\ cache'[p] \subseteq cache[p]
               /\ \A e \in cache[p] : e.file # f \/ p \notin Dropped(f) => e \in cache'[p]
    BY <2>0, <2>2, <2>3 DEF Disassociate
  <2>5. ASSUME NEW p \in Defined(f)
        PROVE  /\ cache[p] \subseteq cache'[p]
               /\ map[p] \in Files \ {f} => \E e \in cache'[p] : e.file = map[p]
               /\ \A e \in cache'[p] \ cache[p] :
                      /\ e.file = map[p] /\ map[p] # NoFile
                      /\ e.content = store[p] /\ store[p] # NoPolicy
    <3>1. (map[p] = NoFile <=> store[p] = NoPolicy) /\ (cache[p] # {} => store[p] # NoPolicy)
      BY <2>0 DEF MapStoreAgree
    <3>2. Overridden(p).file = map[p] /\ Overridden(p).content = store[p]
      BY DEF Overridden
    <3>3. cache'[p] = IF store[p] = NoPolicy THEN {}
                      ELSE cache[p] \cup (IF map[p] # f THEN {Overridden(p)} ELSE {})
      BY <2>4 DEF CacheAfter
    <3>4. QED
      BY <3>1, <3>2, <3>3
  <2>6. TypeOK'
    <3>1. \A p \in Policies : \A e \in cache'[p] : e.file \in Files /\ e.content \in Contents
      <4>1. \A p \in Policies \ Defined(f) : cache'[p] \subseteq cache[p]
        BY <2>4
      <4>2. \A p \in Policies :
                /\ map[p] # NoFile => map[p] \in Files
                /\ store[p] # NoPolicy => store[p] \in Contents
                /\ \A e \in cache[p] : e.file \in Files /\ e.content \in Contents
        BY DEF TypeOK
      <4>3. \A p \in Defined(f) : \A e \in cache'[p] \ cache[p] :
                e.file \in Files /\ e.content \in Contents
        BY <2>0, <2>5, <4>2
      <4>4. QED
        BY <4>1, <4>2, <4>3
    <3>2. QED
      BY <1>0, <2>0, <2>1, <3>1 DEF TypeOK
  <2>7. ReservedFixed'
    BY <2>0, <2>1 DEF ReservedFixed
  <2>8. MapStoreAgree'
    BY <2>0, <2>1, <2>4 DEF MapStoreAgree, Defined
  <2>9. SourcesTracked'
    BY <1>0, <2>0, <2>1, <2>4, <2>5 DEF SourcesTracked
  <2>10. ScanInv' /\ TimesInv'
    BY <1>0, <2>0, <2>1, <2>4 DEF TypeOK, ScanInv, TimesInv, Current
  <2>11. DefinersKept'
    <3>1. \A g \in Files \ {f} : Current(g)' = Current(g)
      BY <1>0 DEF Current
    <3>2. \A g \in Files, p \in Policies : Defines(g, p)' = Defines(g, p)
      BY <1>0 DEF Defines
    <3>3. \A p \in Policies \ Reserved : Defines(f, p)' => map'[p] = f
      BY <3>2, <2>1 DEF Defines, Defined
    <3>4. ASSUME NEW g \in Files \ {f}, NEW p \in Policies \ Reserved,
                 Current(g), Defines(g, p)
          PROVE  map'[p] = g \/ \E e \in cache'[p] : e.file = g
      <4>1. map[p] = g \/ \E e \in cache[p] : e.file = g
        BY <3>4 DEF DefinersKept
      <4>2. CASE p \in Defined(f)
        BY <4>1, <4>2, <2>5
      <4>3. CASE p \notin Defined(f)
        BY <4>1, <4>3, <2>1, <2>4
      <4>4. QED
        BY <4>2, <4>3
    <3>5. \A p \in orphans' : map'[p] = f /\ ~Defines(f, p)'
      BY <3>2, <2>0, <2>1, <2>3 DEF Defines, Dropped
    <3>6. QED
      BY <3>1, <3>2, <3>3, <3>4, <3>5 DEF DefinersKept
  <2>12. QED
    BY <2>6, <2>7, <2>8, <2>9, <2>10, <2>11
<1>3. QED
  BY <1>1, <1>2

\* Nothing is left to do when a scan ends.
LEMMA EndScanSafe ==
    ASSUME IInv, EndScan
    PROVE  IInv'
<1> USE MonitorAssumption DEF IInv, EndScan, Ready, Files, NoFile, disk, scan
<1>1. TypeOK'
  BY DEF TypeOK
<1>2. ReservedFixed'
  BY DEF ReservedFixed
<1>3. MapStoreAgree'
  BY DEF MapStoreAgree
<1>4. SourcesTracked'
  BY DEF SourcesTracked
<1>5. ScanInv'
  BY DEF ScanInv
<1>6. TimesInv'
  BY DEF TimesInv, Current
<1>7. DefinersKept'
  BY DEF DefinersKept, Current, Defines
<1> QED
  BY <1>1, <1>2, <1>3, <1>4, <1>5, <1>6, <1>7

\* The end of the process changes no table.
LEMMA StopSafe ==
    ASSUME IInv, Stop
    PROVE  IInv'
<1> USE MonitorAssumption DEF IInv, Stop, Files, NoFile, disk, scan
<1>1. TypeOK'
  BY DEF TypeOK
<1>2. ReservedFixed'
  BY DEF ReservedFixed
<1>3. MapStoreAgree'
  BY DEF MapStoreAgree
<1>4. SourcesTracked'
  BY DEF SourcesTracked
<1>5. ScanInv'
  BY DEF ScanInv
<1>6. TimesInv'
  BY DEF TimesInv, Current
<1>7. DefinersKept'
  BY DEF DefinersKept, Current, Defines
<1> QED
  BY <1>1, <1>2, <1>3, <1>4, <1>5, <1>6, <1>7

-----------------------------------------------------------------------------
(* The theorems *)

\* The strengthened invariant holds from the start and every action keeps it.
THEOREM Inductive == Spec => []IInv
<1>1. Init => IInv
  <2> SUFFICES ASSUME Init PROVE IInv
    OBVIOUS
  <2> USE MonitorAssumption DEF Init, NoFile
  <2>1. \A f \in Files : f # 0 /\ f \in Nat
    BY DEF Files
  <2>2. TypeOK
    BY DEF TypeOK
  <2>3. ReservedFixed /\ MapStoreAgree /\ SourcesTracked
    BY DEF ReservedFixed, MapStoreAgree, SourcesTracked
  <2>4. ScanInv /\ TimesInv
    BY <2>1 DEF ScanInv, TimesInv
  <2>5. DefinersKept
    BY <2>1 DEF DefinersKept, Current
  <2>6. QED
    BY <2>2, <2>3, <2>4, <2>5 DEF IInv
<1>2. IInv /\ [Next]_vars => IInv'
  <2> SUFFICES ASSUME IInv, [Next]_vars
               PROVE  IInv'
    OBVIOUS
  <2>1. CASE \E f \in Files, new \in Texts : WriteFile(f, new)
    BY <2>1, WriteFileSafe
  <2>2. CASE \E f \in Files : DeleteFile(f)
    BY <2>2, DeleteFileSafe
  <2>3. CASE BeginScan
    BY <2>3, BeginScanSafe
  <2>4. CASE \E f \in Files : ForgetFile(f)
    BY <2>4, ForgetFileSafe
  <2>5. CASE \E p \in Policies : RestoreOrDelete(p)
    BY <2>5, RestoreOrDeleteSafe
  <2>6. CASE \E f \in Files : Stat(f)
    BY <2>6, StatSafe
  <2>7. CASE \E f \in Files : Load(f)
    BY <2>7, LoadSafe
  <2>8. CASE EndScan
    BY <2>8, EndScanSafe
  <2>9. CASE Stop
    BY <2>9, StopSafe
  <2>10. CASE UNCHANGED vars
    BY <2>10 DEF vars, disk, scan, IInv, TypeOK, ReservedFixed, MapStoreAgree,
                 SourcesTracked, ScanInv, TimesInv, DefinersKept, Current, Defines
  <2>11. QED
    BY <2>1, <2>2, <2>3, <2>4, <2>5, <2>6, <2>7, <2>8, <2>9, <2>10 DEF Next, Scan
<1>3. QED
  BY <1>1, <1>2, PTL DEF Spec

\* The monitor's variables keep their types: a cached version always has a file
\* and a content, and no reserved policy is ever restored or deleted.
THEOREM TypeCorrect == Spec => []TypeOK
BY Inductive, PTL DEF IInv

\* No policy file changes what the server built in: scan_policies discards
\* definitions of reserved policies.
THEOREM ReservedPoliciesFixed == Spec => []ReservedFixed
BY Inductive, PTL DEF IInv

\* The dictionaries of the monitor agree on which policies there are.
THEOREM DictionariesAgree == Spec => []MapStoreAgree
BY Inductive, PTL DEF IInv

\* Nothing from a file that is gone stays in the store or in the cache.
THEOREM NoTraceOfRemovedFiles == Spec => []SourcesTracked
BY Inductive, PTL DEF IInv

\* No policy that a file defines is lost, however many files define it and
\* however they change during the scans of the monitor.
THEOREM NoPolicyLost == Spec => []DefinedPolicyServed
<1>1. IInv => DefinedPolicyServed
  <2> SUFFICES ASSUME IInv, Settled,
                      NEW f \in tracked, text[f] \in Tables, NEW p \in Defined(f)
               PROVE  store[p] # NoPolicy
    BY DEF DefinedPolicyServed
  <2>1. p \in Policies \ Reserved /\ Defines(f, p)
    BY DEF Defined, Defines
  <2>2. f \in Files /\ Current(f)
    BY DEF IInv, Settled, ScanInv, Present, Current, Files, NoFile
  <2>3. map[p] = f \/ cache[p] # {}
    BY <2>1, <2>2 DEF IInv, DefinersKept
  <2>4. QED
    BY <2>1, <2>2, <2>3 DEF IInv, MapStoreAgree, Files, NoFile
<1>2. QED
  BY <1>1, Inductive, PTL

-----------------------------------------------------------------------------
(* Catching up with the directory *)

\* A scan that nobody disturbs: it has listed the directory as it is, and has seen
\* the files it has looked at as they are.
OnTrack ==
    /\ status = "scanning"
    /\ tracked = {f \in Files : Present(f)}
    /\ \A f \in tracked \ todo : stamps[f] = dir[f]

\* A step brings the scan nearer to its end: there is one file less to be forgotten,
\* or as many and one less to look at, or the one to be read has been read, or only
\* a policy less to be restored or deleted.
Nearer ==
    \/ removed' \subseteq removed /\ removed' # removed
    \/ removed' = removed /\ todo' \subseteq todo /\ todo' # todo
    \/ UNCHANGED <<removed, todo>> /\ loading # NoFile /\ loading' = NoFile
    \/ UNCHANGED <<removed, todo, loading>> /\ orphans' \subseteq orphans /\ orphans' # orphans

\* A scan begins on track, stays there while nobody touches the directory, and ends
\* with the directory seen, unless it reads a file that is no table; and it does end.
ScanCatchesUp ==
    /\ status = "idle" => OnTrack'
    /\ OnTrack => \/ OnTrack' \/ Settled'
                  \/ status' = "dead" /\ loading \in Files /\ text[loading] = NotATable
    /\ status = "scanning" => Nearer \/ status' \in {"idle", "dead"}

\* A file that is there is as new as the monitor has seen it, or newer.
NotFromTheFuture == \A f \in Files : Present(f) => stamps[f] <= dir[f]

\* A file written again, after a removal, too, is newer than all time stamps seen.
LEMMA StampsPast == Spec => []NotFromTheFuture
<1>1. Init => NotFromTheFuture
  BY DEF Init, NotFromTheFuture, Present
<1>2. IInv /\ NotFromTheFuture /\ [Next]_vars => NotFromTheFuture'
  <2> SUFFICES ASSUME IInv, NotFromTheFuture, [Next]_vars
               PROVE  NotFromTheFuture'
    OBVIOUS
  <2> USE DEF Files
  <2>0. /\ dir \in [Files -> Nat] /\ stamps \in [Files -> Nat] /\ clock \in Nat
        /\ \A f \in Files : stamps[f] <= clock
    BY DEF IInv, TypeOK, TimesInv
  <2>1. ASSUME NEW f \in Files, NEW new \in Texts, WriteFile(f, new)
        PROVE  NotFromTheFuture'
    BY <2>0, <2>1 DEF WriteFile, NotFromTheFuture, Present
  <2>2. ASSUME NEW f \in Files, DeleteFile(f)
        PROVE  NotFromTheFuture'
    BY <2>0, <2>2 DEF DeleteFile, NotFromTheFuture, Present
  <2>3. CASE BeginScan
    BY <2>0, <2>3 DEF BeginScan, NotFromTheFuture, Present, disk
  <2>4. ASSUME NEW f \in Files, Stat(f)
        PROVE  NotFromTheFuture'
    <3>1. dir' = dir /\ (stamps' = stamps \/ stamps' = [stamps EXCEPT ![f] = dir[f]])
      BY <2>4 DEF Stat, Die, disk
    <3>2. \A g \in Files : stamps'[g] \in {stamps[g], dir[g]}
      BY ONLY <2>0, <3>1
    <3>3. \A g \in Files : dir[g] <= dir[g]
      BY ONLY <2>0
    <3> QED
      BY ONLY <3>1, <3>2, <3>3, NotFromTheFuture DEF NotFromTheFuture, Present
  <2>5. CASE UNCHANGED <<dir, stamps>>
    BY <2>5 DEF NotFromTheFuture, Present
  <2>6. \A f \in Files : ForgetFile(f) \/ Load(f) => UNCHANGED <<dir, stamps>>
    BY DEF ForgetFile, Load, disk
  <2>7. \A p \in Policies : RestoreOrDelete(p) => UNCHANGED <<dir, stamps>>
    BY DEF RestoreOrDelete, disk
  <2>8. EndScan \/ Stop \/ UNCHANGED vars => UNCHANGED <<dir, stamps>>
    BY DEF EndScan, Stop, vars, disk, scan
  <2> QED
    BY <2>1, <2>2, <2>3, <2>4, <2>5, <2>6, <2>7, <2>8 DEF Next, Scan
<1> QED
  BY <1>1, <1>2, Inductive, PTL DEF Spec

\* What happens to a scan when one of its steps is taken.
LEMMA StepCatchesUp ==
    ASSUME IInv, NotFromTheFuture, Scan
    PROVE  ScanCatchesUp
<1> USE DEF Files, NoFile
<1>0. /\ dir \in [Files -> Nat] /\ stamps \in [Files -> Nat]
      /\ tracked \subseteq Files /\ todo \subseteq tracked /\ removed \subseteq Files
      /\ loading # NoFile => loading \in tracked
  BY DEF IInv, TypeOK, ScanInv
<1>1. CASE BeginScan
  BY <1>0, <1>1 DEF BeginScan, ScanCatchesUp, OnTrack, Present, disk
<1>2. ASSUME NEW f \in Files, ForgetFile(f)
      PROVE  ScanCatchesUp
  BY <1>0, <1>2 DEF ForgetFile, ScanCatchesUp, OnTrack, Nearer, Present, disk
<1>3. ASSUME NEW p \in Policies, RestoreOrDelete(p)
      PROVE  ScanCatchesUp
  BY <1>0, <1>3 DEF RestoreOrDelete, ScanCatchesUp, OnTrack, Nearer, Present, disk
<1>4. ASSUME NEW f \in Files, Stat(f)
      PROVE  ScanCatchesUp
  <2>1. CASE ~Present(f)
    <3>1. status = "scanning" /\ status' = "dead" /\ f \in tracked
      BY <1>0, <1>4, <2>1 DEF Stat, Ready, Die
    <3>2. ~OnTrack
      BY <2>1, <3>1 DEF OnTrack
    <3> QED
      BY <3>1, <3>2 DEF ScanCatchesUp
  <2>2. CASE Present(f)
    <3>1. /\ status = "scanning" /\ status' = status /\ removed' = removed
          /\ tracked' = tracked /\ todo' = todo \ {f} /\ f \in todo /\ dir' = dir
      BY <1>4, <2>2 DEF Stat, Ready, Die, disk
    <3>2. stamps'[f] = dir[f] /\ \A g \in Files \ {f} : stamps'[g] = stamps[g]
      <4>1. stamps' = IF dir[f] > stamps[f] THEN [stamps EXCEPT ![f] = dir[f]] ELSE stamps
        BY <1>4, <2>2 DEF Stat
      <4>2. dir[f] \in Nat /\ stamps[f] \in Nat /\ stamps[f] <= dir[f]
        BY <1>0, <2>2 DEF NotFromTheFuture
      <4> QED
        BY ONLY <1>0, <4>1, <4>2, f \in Files
    <3>3. OnTrack => OnTrack'
      BY <1>0, <3>1, <3>2 DEF OnTrack, Present
    <3>4. Nearer
      BY <3>1 DEF Nearer
    <3> QED
      BY <3>1, <3>3, <3>4 DEF ScanCatchesUp
  <2> QED
    BY <2>1, <2>2
<1>5. ASSUME NEW f \in Files, Load(f)
      PROVE  ScanCatchesUp
  <2>1. /\ status = "scanning" /\ loading = f /\ f \in tracked /\ loading' = NoFile
        /\ UNCHANGED <<dir, text, stamps, tracked, removed, todo>>
    BY <1>0, <1>5 DEF Load, disk
  <2>2. Nearer
    BY <2>1 DEF Nearer
  <2>3. status' = "scanning" => (OnTrack => OnTrack')
    BY <2>1 DEF OnTrack, Present
  <2>4. status' # "scanning" => status' = "dead" /\ (~Present(f) \/ text[f] = NotATable)
    BY <1>5, <2>1 DEF Load
  <2>5. OnTrack => Present(f)
    BY <2>1 DEF OnTrack
  <2> QED
    BY <2>1, <2>2, <2>3, <2>4, <2>5 DEF ScanCatchesUp
<1>6. CASE EndScan
  BY <1>0, <1>6 DEF EndScan, Ready, ScanCatchesUp, OnTrack, Settled, Present, disk
<1> QED
  BY <1>1, <1>2, <1>3, <1>4, <1>5, <1>6 DEF Scan

\* What the monitor does by itself, whatever the administrator does in between: every
\* scan ends after finitely many steps, and one that is not disturbed has then seen the
\* directory.  With the fairness of its loop that is how it catches up (CatchesUp).
THEOREM ScansCatchUp == Spec => [][Scan => ScanCatchesUp]_vars
<1>1. IInv /\ NotFromTheFuture /\ [Next]_vars => [Scan => ScanCatchesUp]_vars
  BY StepCatchesUp
<1> QED
  BY <1>1, Inductive, StampsPast, PTL DEF Spec
=============================================================================
