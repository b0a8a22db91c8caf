------------------------------ MODULE JsonKeys ------------------------------
(***************************************************************************)
(* JSONObjectKeys: walking the keys of an object while plugins go on       *)
(* changing it.                                                            *)
(*                                                                         *)
(* The iterator is a struct of its own behind a handle of its own.  It     *)
(* keeps a pointer to the object and one to the pair of its hashtable that *)
(* is read next, and no reference to either: any native of Json may free   *)
(* the pair, or the object with all its pairs, between two reads.          *)
(***************************************************************************)
EXTENDS Json

CONSTANT Iterators   \* the JSONObjectKeys that can be allocated

ASSUME KeysAssumption == Keys \cap {"end", "freed"} = {}

VARIABLES
    order,       \* a hashtable's ordered_list: its keys, oldest first
    keys         \* the iterators; read and misused are history

kvars == <<jvars, order, keys>>

\* Memory for an iterator.
NoKeys == [object |-> NoValue, iter |-> "end", read |-> {}, misused |-> FALSE]

KeysInit ==
    /\ Init
    /\ order = [v \in All |-> <<>>]
    /\ keys = [i \in Iterators |-> NoKeys]

-----------------------------------------------------------------------------
(***************************************************************************)
(* What the other natives do to an object's pairs                          *)
(***************************************************************************)

\* The pairs a step frees, and the keys for which it allocates one.
Gone(v) == {k \in Keys : k \in DOMAIN content[v] /\ k \notin DOMAIN content'[v]}
Added(v) == {k \in Keys : k \in DOMAIN content'[v] /\ k \notin DOMAIN content[v]}

\* New pairs are linked in at the head of the list.
Link_First(old, new) == new \o old

\* list_insert: new pairs go to the end of ordered_list.
Link(old, new) == old \o new

\* A pair that is freed stays in the list.
Unlink_Forgotten(s, S) == s

\* list_remove: the other pairs keep their order, so the n-th that stays is the
\* one with n of them up to it.
Unlink(s, S) ==
    LET stay == {i \in DOMAIN s : s[i] \notin S}
        rank == [i \in stay |-> Cardinality({j \in stay : j <= i})]
    IN [n \in 1..Cardinality(stay) |-> s[CHOOSE i \in stay : rank[i] = n]]

\* hashtable_set leaves a pair whose key exists where it is; a document's keys
\* come in any order.
Reorder ==
    \E s \in SetToSeqs(Keys) :
        order' = [v \in All |->
                     IF kind'[v] # "object" THEN <<>>
                     ELSE Link(Unlink(order[v], Gone(v)),
                               Unlink(s, Keys \ Added(v)))]

\* An iterator at a pair that is freed is left with a dangling pointer.  It is
\* misused when a key it has not read goes, alone or with the whole object.
Invalidate(it) ==
    IF it.object = NoValue THEN it
    ELSE [it EXCEPT !.iter = IF @ \in Gone(it.object) THEN "freed" ELSE @,
                    !.read = @ \ Gone(it.object),
                    !.misused = @ \/ ~(Gone(it.object) \subseteq it.read)]

\* What becomes of lists and iterators in a step of Json.
Follow ==
    /\ Reorder
    /\ keys' = [i \in Iterators |-> Invalidate(keys[i])]

JsonNative == Next /\ Follow

-----------------------------------------------------------------------------
(***************************************************************************)
(* The natives of JSONObjectKeys                                           *)
(***************************************************************************)

\* json_object_iter: NULL for what is no object, or an empty one.
ObjectIter(v) == IF order[v] = <<>> THEN "end" ELSE Head(order[v])

\* json_object_iter_next.
ObjectIterNext(v, k) ==
    LET i == CHOOSE j \in DOMAIN order[v] : order[v][j] = k
    IN IF i = Len(order[v]) THEN "end" ELSE order[v][i + 1]

\* Without a handle to be had, nothing is left of it.
CreateObjectKeys(h, i) ==
    /\ Quiet /\ h \in Open /\ keys[i].object = NoValue
    /\ keys' = [keys EXCEPT ![i] = [NoKeys EXCEPT !.object = handle[h],
                                                  !.iter = ObjectIter(handle[h])]]
    /\ UNCHANGED <<jvars, order>>

\* The iterator stays at the key that was read until the next call.
Advance_Late(it) ==
    [it EXCEPT !.iter = IF @ \in it.read THEN ObjectIterNext(it.object, @) ELSE @,
               !.read = @ \cup {it.iter}]

\* GetKey and Next.
Advance(it) ==
    [it EXCEPT !.iter = ObjectIterNext(it.object, @), !.read = @ \cup {it.iter}]

\* "False if there are no more keys": then nothing changes.  What is read from
\* freed memory is undefined, and so is where it leads.
ReadObjectKey(i) ==
    /\ Quiet /\ keys[i].object # NoValue
    /\ \/ /\ keys[i].iter \in Keys
          /\ keys' = [keys EXCEPT ![i] = Advance(@)]
       \/ /\ keys[i].iter = "freed"
          /\ \E next \in {"freed", "end"} : keys' = [keys EXCEPT ![i].iter = next]
       \/ /\ keys[i].iter = "end"
          /\ UNCHANGED keys
    /\ UNCHANGED <<jvars, order>>

\* JSONObjectKeysHandler::OnHandleDestroy.
KeysDestroy(i) ==
    /\ Quiet /\ keys[i].object # NoValue
    /\ keys' = [keys EXCEPT ![i] = NoKeys]
    /\ UNCHANGED <<jvars, order>>

KeysNext ==
    \/ JsonNative
    \/ \E h \in Handles, i \in Iterators : CreateObjectKeys(h, i)
    \/ \E i \in Iterators : ReadObjectKey(i) \/ KeysDestroy(i)

KeysSpec == KeysInit /\ [][KeysNext]_kvars

\* A native runs to its end.
KeysFairSpec == KeysSpec /\ WF_kvars((\E v \in All : Decref(v)) /\ Follow)

-----------------------------------------------------------------------------
(***************************************************************************)
(* Properties                                                              *)
(***************************************************************************)

\* The list a hashtable is walked along has each of its keys once (jansson's
\* ordered_list), and the iterators have their type.
KeysTypeOK ==
    /\ \A v \in All : /\ Range(order[v]) = IF kind[v] = "object" THEN DOMAIN content[v] ELSE {}
                      /\ Len(order[v]) = Cardinality(Range(order[v]))
    /\ keys \in [Iterators -> [object : All \cup {NoValue}, iter : Keys \cup {"end", "freed"},
                               read : SUBSET Keys, misused : BOOLEAN]]

\* A plugin may remove any key it has read, the one it has just read included,
\* set others, and close the object once all keys are read: the pointers of the
\* iterator dangle only if a key was removed before it was read (ReadObjectKey
\* advances before it returns).
KeysSafe ==
    \A i \in Iterators : keys[i].iter = "freed" => keys[i].misused

\* Until then, the keys that are still to come are exactly the keys of the
\* object that were not read, also those set since the iterator was created:
\* none is read twice and none is missed.
KeysExact ==
    \A i \in Iterators :
        LET it == keys[i]
            list == order[it.object]
        IN it.iter \in Keys /\ ~it.misused =>
              /\ \E j \in DOMAIN list :
                    /\ list[j] = it.iter
                    /\ Range(SubSeq(list, j, Len(list))) = Range(list) \ it.read
              /\ it.read \subseteq Range(list)
=============================================================================
