--------------------------- MODULE AttributeTable ---------------------------
(***************************************************************************)
(* What a client may rely on of the attributes of the stored objects.  An  *)
(* object comes with names that differ.  From then on one instance of one  *)
(* attribute changes at a time, and only as its rule permits; an attribute *)
(* with a single value is set once.  A number names one object for ever.   *)
(***************************************************************************)
EXTENDS Naturals, Sequences

CONSTANTS Uids, Lists, Singles, Unset, Modifiable, Deletable

VARIABLE objects

Absent == [life |-> "unborn", list |-> << >>, single |-> << >>]
Gone == [life |-> "gone", list |-> << >>, single |-> << >>]
Here(o) == o.life = "here"

Init == objects = [u \in Uids |-> Absent]

Distinct(s) == \A j, k \in DOMAIN s : s[j] = s[k] => j = k

Without(s, k) == [j \in 1..(Len(s) - 1) |-> IF j < k THEN s[j] ELSE s[j + 1]]

Appears(old, new) ==
    old = Absent /\ Here(new) /\ (\A a \in Lists \cap {"Name"} : Distinct(new.list[a]))

Disappears(old, new) == Here(old) /\ new = Gone

InstanceReplaced(old, new, a) ==
    /\ a \in Modifiable
    /\ \E k \in DOMAIN old.list[a] \cap DOMAIN new.list[a] :
          new.list[a] = [old.list[a] EXCEPT ![k] = new.list[a][k]]

InstanceRemoved(old, new, a) ==
    /\ a \in Deletable
    /\ \/ \E k \in DOMAIN old.list[a] : new.list[a] = Without(old.list[a], k)
       \/ new.list[a] = << >>

OneInstanceChanges(old, new) ==
    /\ Here(old) /\ Here(new)
    /\ new.single = old.single
    /\ \E a \in Lists :
          /\ \A b \in Lists \ {a} : new.list[b] = old.list[b]
          /\ InstanceReplaced(old, new, a) \/ InstanceRemoved(old, new, a)

SetOnce(old, new) ==
    /\ Here(old) /\ Here(new)
    /\ new.list = old.list
    /\ \E a \in Singles \cap Modifiable :
          /\ old.single[a] = Unset
          /\ new.single = [old.single EXCEPT ![a] = new.single[a]]

Change(old, new) ==
    Appears(old, new) \/ Disappears(old, new) \/ OneInstanceChanges(old, new) \/ SetOnce(old, new)

Next == \E u \in Uids :
            /\ \A w \in Uids \ {u} : objects'[w] = objects[w]
            /\ Change(objects[u], objects'[u])

Spec == Init /\ [][Next]_objects
=============================================================================
