-------------------------------- MODULE Json --------------------------------
(***************************************************************************)
(* The JSON values of the plugins: reference counts, handles and           *)
(* containment.                                                            *)
(*                                                                         *)
(* A JSON handle and a slot of an object or array each own one reference   *)
(* to a jansson value.  The natives run on the main thread, one at a time, *)
(* but the release of a value is a cascade: the value whose count reaches  *)
(* zero gives up the references its slots own, and so on.  Every decref of *)
(* the cascade is a step here; the next native waits for the last one.     *)
(* Handle errors (a closed handle, a missing key, an index out of range, a *)
(* container of the wrong type) change nothing and are no steps.           *)
(*                                                                         *)
(* Numbers and strings are "scalar"; what they say is abstracted away.     *)
(***************************************************************************)
EXTENDS Naturals, FiniteSets, SequencesExt

CONSTANTS
    Values,      \* the json_t that can be allocated
    Singletons,  \* json_true, json_false and json_null: not counted, not freed
    Handles,     \* the handles the handle system can give out
    Keys,        \* the keys of objects
    MaxLen,      \* bound on the length of an array
    NoValue      \* what a handle that is not open refers to

ASSUME ValuesAssumption ==
    /\ IsFiniteSet(Values) /\ IsFiniteSet(Singletons)
    /\ Values \cap Singletons = {}
    /\ NoValue \notin Values \cup Singletons
ASSUME HandlesAssumption == IsFiniteSet(Handles)
ASSUME SlotsAssumption == Keys \cap Nat = {} /\ IsFiniteSet(Keys) /\ MaxLen \in Nat

VARIABLES
    kind,        \* what a json_t is: "free" memory or a value
    refs,        \* its reference count
    content,     \* an object's values by key, an array's by index
    handle,      \* the value an open handle refers to
    drops        \* how many decrefs of a value the current native still owes

jvars == <<kind, refs, content, handle, drops>>

All == Values \cup Singletons

Init ==
    /\ kind = [v \in All |-> IF v \in Values THEN "free" ELSE "scalar"]
    /\ refs = [v \in Values |-> 0]
    /\ content = [v \in All |-> <<>>]
    /\ handle = [h \in Handles |-> NoValue]
    /\ drops = [v \in All |-> 0]

\* No native is running: the last cascade has come to its end.
Quiet == \A v \in All : drops[v] = 0

Open == {h \in Handles : handle[h] # NoValue}
Free == {v \in Values : kind[v] = "free"}

-----------------------------------------------------------------------------
(***************************************************************************)
(* References.                                                             *)
(***************************************************************************)

\* The slots in S of f that hold v.
Holding(f, S, v) == {s \in S : f[s] = v}

\* The reference is used without being counted.
Incref_Forgotten(v) == UNCHANGED refs

\* json_incref.
Incref(v) == refs' = IF v \in Values THEN [refs EXCEPT ![v] = @ + 1] ELSE refs

\* Replaced or removed slots do not release what they held.
DropSlots_Forgotten(f, S) == UNCHANGED drops

\* The references owned by the slots S of f are to be released.
DropSlots(f, S) == drops' = [v \in All |-> drops[v] + Cardinality(Holding(f, S, v))]

\* json_delete frees the value but does not release its slots.
Released_Shallow(v) == [w \in All |-> IF w = v THEN drops[w] - 1 ELSE drops[w]]

\* The release that freed v is owed again.
Released_Again(v) ==
    [w \in All |-> drops[w] + Cardinality(Holding(content[v], DOMAIN content[v], w))]

\* The references still owed once v has been freed: its slots' among them.
Released(v) ==
    [w \in All |-> (IF w = v THEN drops[w] - 1 ELSE drops[w])
                       + Cardinality(Holding(content[v], DOMAIN content[v], w))]

\* One json_decref, and json_delete when it was the last reference.
Decref(v) ==
    /\ drops[v] > 0
    /\ \/ /\ v \in Singletons
          /\ drops' = [drops EXCEPT ![v] = @ - 1]
          /\ UNCHANGED <<kind, refs, content>>
       \/ /\ v \in Values /\ refs[v] > 1
          /\ refs' = [refs EXCEPT ![v] = @ - 1]
          /\ drops' = [drops EXCEPT ![v] = @ - 1]
          /\ UNCHANGED <<kind, content>>
       \/ /\ v \in Values /\ refs[v] = 1
          /\ refs' = [refs EXCEPT ![v] = 0]
          /\ kind' = [kind EXCEPT ![v] = "free"]
          /\ content' = [content EXCEPT ![v] = <<>>]
          /\ drops' = Released(v)
    /\ UNCHANGED handle

-----------------------------------------------------------------------------
(***************************************************************************)
(* Handles.                                                                *)
(***************************************************************************)

\* The error path forgets the decref.
Publish_Leaks(v) ==
    /\ \/ \E h \in Handles \ Open : handle' = [handle EXCEPT ![h] = v]
       \/ UNCHANGED handle
    /\ UNCHANGED drops

\* CreateHandleEx for a value the native has just made: the handle takes over
\* its reference, or there is no handle and the native releases it.
Publish(v) ==
    \/ /\ \E h \in Handles \ Open : handle' = [handle EXCEPT ![h] = v]
       /\ UNCHANGED drops
    \/ /\ drops' = [drops EXCEPT ![v] = @ + 1]
       /\ UNCHANGED handle

Create(k) ==
    /\ Quiet
    /\ \E v \in Free :
          /\ kind' = [kind EXCEPT ![v] = k]
          /\ refs' = [refs EXCEPT ![v] = 1]
          /\ Publish(v)
    /\ UNCHANGED content

CreateObject == Create("object")
CreateArray == Create("array")

\* A handle for a value that a slot keeps owning, hence a second reference.
GetValue(k) ==
    /\ Quiet
    /\ \E h \in Open : \E s \in DOMAIN content[handle[h]] :
          /\ kind[handle[h]] = k
          /\ Incref(content[handle[h]][s])
          /\ \E g \in Handles \ Open :
                handle' = [handle EXCEPT ![g] = content[handle[h]][s]]
    /\ UNCHANGED <<kind, content, drops>>

GetObjectValue == GetValue("object")
GetArrayValue == GetValue("array")

\* A document is read: a root and, in its slots, values of their own and
\* singletons.  (Deeper documents are built with the setters.)
Load ==
    /\ Quiet
    /\ \E r \in Free, S \in (SUBSET Keys) \cup {1..n : n \in 0..MaxLen} :
          \E f \in [S -> (Free \ {r}) \cup Singletons] :
             /\ \A s, t \in S : f[s] = f[t] => s = t \/ f[s] \in Singletons
             /\ \E k \in {"object", "array", "scalar"} :
                   /\ S # {} => k = IF S \subseteq Keys THEN "object" ELSE "array"
                   /\ kind' = [v \in All |-> IF v = r THEN k
                                             ELSE IF v \in Range(f) THEN "scalar"
                                             ELSE kind[v]]
             /\ refs' = [v \in Values |-> IF v \in Range(f) \cup {r} THEN 1 ELSE refs[v]]
             /\ content' = [content EXCEPT ![r] = f]
             /\ Publish(r)

\* With JSON_DECODE_ANY the document may be a lone true, false or null.
LoadSingleton ==
    /\ Quiet
    /\ \E v \in Singletons : Publish(v)
    /\ UNCHANGED <<kind, refs, content>>

FromString == Load \/ LoadSingleton
FromFile == Load \/ LoadSingleton

\* JSONHandler::OnHandleDestroy: a plugin closes its handle, or is unloaded.
OnHandleDestroy(h) ==
    /\ Quiet
    /\ h \in Open
    /\ handle' = [handle EXCEPT ![h] = NoValue]
    /\ drops' = [drops EXCEPT ![handle[h]] = @ + 1]
    /\ UNCHANGED <<kind, refs, content>>

-----------------------------------------------------------------------------
(***************************************************************************)
(* The value a setter stores comes from a handle, is made for the purpose  *)
(* or is a singleton.  Afterwards a slot owns a reference to it.           *)
(***************************************************************************)

FromHandle(v) ==
    /\ \E g \in Open : handle[g] = v
    /\ Incref(v)
    /\ UNCHANGED kind

Fresh(v) ==
    /\ v \in Free
    /\ kind' = [kind EXCEPT ![v] = "scalar"]
    /\ refs' = [refs EXCEPT ![v] = 1]

Constant(v) == v \in Singletons /\ UNCHANGED <<kind, refs>>

-----------------------------------------------------------------------------
(***************************************************************************)
(* Objects.                                                                *)
(***************************************************************************)

With(f, k, v) == [x \in DOMAIN f \cup {k} |-> IF x = k THEN v ELSE f[x]]

\* json_object_set_new: an object does not take itself; the value that had the
\* key is released.
ObjectSet(h, k, v) ==
    /\ Quiet
    /\ kind[handle[h]] = "object"
    /\ v # handle[h]
    /\ content' = [content EXCEPT ![handle[h]] = With(@, k, v)]
    /\ DropSlots(content[handle[h]], DOMAIN content[handle[h]] \cap {k})
    /\ UNCHANGED handle

SetObjectValue(h, k) == \E v \in All : FromHandle(v) /\ ObjectSet(h, k, v)
SetObjectBoolValue(h, k) == \E v \in All : Constant(v) /\ ObjectSet(h, k, v)
SetObjectNumberValue(h, k) == \E v \in All : Fresh(v) /\ ObjectSet(h, k, v)
SetObjectNullValue(h, k) == \E v \in All : Constant(v) /\ ObjectSet(h, k, v)
SetObjectStringValue(h, k) == \E v \in All : Fresh(v) /\ ObjectSet(h, k, v)

RemoveFromObject(h, k) ==
    /\ Quiet
    /\ kind[handle[h]] = "object"
    /\ k \in DOMAIN content[handle[h]]
    /\ content' = [content EXCEPT ![handle[h]] = Restrict(@, DOMAIN @ \ {k})]
    /\ DropSlots(content[handle[h]], {k})
    /\ UNCHANGED <<kind, refs, handle>>

\* json_object_clear and json_array_clear.
Clear(h, k) ==
    /\ Quiet
    /\ kind[handle[h]] = k
    /\ content' = [content EXCEPT ![handle[h]] = <<>>]
    /\ DropSlots(content[handle[h]], DOMAIN content[handle[h]])
    /\ UNCHANGED <<kind, refs, handle>>

ClearObject(h) == Clear(h, "object")

-----------------------------------------------------------------------------
(***************************************************************************)
(* Arrays.                                                                 *)
(***************************************************************************)

\* json_array_set_new: the index must exist.
ArraySet(h, i, v) ==
    /\ Quiet
    /\ kind[handle[h]] = "array"
    /\ v # handle[h]
    /\ i \in DOMAIN content[handle[h]]
    /\ content' = [content EXCEPT ![handle[h]] = ReplaceAt(@, i, v)]
    /\ DropSlots(content[handle[h]], {i})
    /\ UNCHANGED handle

SetArrayValue(h, i) == \E v \in All : FromHandle(v) /\ ArraySet(h, i, v)
SetArrayBoolValue(h, i) == \E v \in All : Constant(v) /\ ArraySet(h, i, v)
SetArrayNumberValue(h, i) == \E v \in All : Fresh(v) /\ ArraySet(h, i, v)
SetArrayNullValue(h, i) == \E v \in All : Constant(v) /\ ArraySet(h, i, v)
SetArrayStringValue(h, i) == \E v \in All : Fresh(v) /\ ArraySet(h, i, v)

\* json_array_append_new.
ArrayAppend(h, v) ==
    /\ Quiet
    /\ kind[handle[h]] = "array"
    /\ v # handle[h]
    /\ Len(content[handle[h]]) < MaxLen
    /\ content' = [content EXCEPT ![handle[h]] = Append(@, v)]
    /\ UNCHANGED <<handle, drops>>

PushArrayValue(h) == \E v \in All : FromHandle(v) /\ ArrayAppend(h, v)
PushArrayBoolValue(h) == \E v \in All : Constant(v) /\ ArrayAppend(h, v)
PushArrayNumberValue(h) == \E v \in All : Fresh(v) /\ ArrayAppend(h, v)
PushArrayNullValue(h) == \E v \in All : Constant(v) /\ ArrayAppend(h, v)
PushArrayStringValue(h) == \E v \in All : Fresh(v) /\ ArrayAppend(h, v)

\* json_array_remove without array_move.
RemoveFromArray_NoMove(h, i) ==
    /\ Quiet
    /\ kind[handle[h]] = "array"
    /\ i \in DOMAIN content[handle[h]]
    /\ content' = [content EXCEPT ![handle[h]] = Restrict(@, DOMAIN @ \ {i})]
    /\ DropSlots(content[handle[h]], {i})
    /\ UNCHANGED <<kind, refs, handle>>

RemoveFromArray(h, i) ==
    /\ Quiet
    /\ kind[handle[h]] = "array"
    /\ i \in DOMAIN content[handle[h]]
    /\ content' = [content EXCEPT ![handle[h]] = RemoveAt(@, i)]
    /\ DropSlots(content[handle[h]], {i})
    /\ UNCHANGED <<kind, refs, handle>>

ClearArray(h) == Clear(h, "array")

-----------------------------------------------------------------------------
ObjectNatives(h) ==
    \/ \E k \in Keys : \/ SetObjectValue(h, k)
                       \/ SetObjectBoolValue(h, k)
                       \/ SetObjectNumberValue(h, k)
                       \/ SetObjectNullValue(h, k)
                       \/ SetObjectStringValue(h, k)
                       \/ RemoveFromObject(h, k)
    \/ ClearObject(h)

ArrayNatives(h) ==
    \/ \E i \in 1..MaxLen : \/ SetArrayValue(h, i)
                            \/ SetArrayBoolValue(h, i)
                            \/ SetArrayNumberValue(h, i)
                            \/ SetArrayNullValue(h, i)
                            \/ SetArrayStringValue(h, i)
                            \/ RemoveFromArray(h, i)
    \/ PushArrayValue(h)
    \/ PushArrayBoolValue(h)
    \/ PushArrayNumberValue(h)
    \/ PushArrayNullValue(h)
    \/ PushArrayStringValue(h)
    \/ ClearArray(h)

Next == \/ CreateObject
        \/ CreateArray
        \/ FromString
        \/ FromFile
        \/ GetObjectValue
        \/ GetArrayValue
        \/ \E h \in Open : ObjectNatives(h) \/ ArrayNatives(h)
        \/ \E h \in Handles : OnHandleDestroy(h)
        \/ \E v \in All : Decref(v)

Spec == Init /\ [][Next]_jvars

\* A native runs to its end.
FairSpec == Spec /\ WF_jvars(\E v \in All : Decref(v))

-----------------------------------------------------------------------------
(***************************************************************************)
(* Properties                                                              *)
(***************************************************************************)

IsObject(f) == DOMAIN f \subseteq Keys /\ \A s \in DOMAIN f : f[s] \in All
IsArray(f) == DOMAIN f = 1..Cardinality(DOMAIN f) /\ \A s \in DOMAIN f : f[s] \in All

\* Every variable has its type: an object's slots are keys, an array's are the
\* numbers up to its length, and nothing else has slots.
TypeOK ==
    /\ kind \in [All -> {"free", "scalar", "object", "array"}]
    /\ refs \in [Values -> Nat]
    /\ DOMAIN content = All
    /\ \A v \in All : CASE kind[v] = "object" -> IsObject(content[v])
                        [] kind[v] = "array"  -> IsArray(content[v])
                        [] OTHER              -> content[v] = <<>>
    /\ handle \in [Handles -> All \cup {NoValue}]
    /\ drops \in [All -> Nat]

\* Everything that owns a reference to v: handles and slots.
HandlesTo(v) == {h \in Handles : handle[h] = v}
SlotsTo(v) == UNION {{w} \X Holding(content[w], DOMAIN content[w], v) : w \in All}

\* Every reference is counted exactly once, on every path of every native,
\* in the middle of a cascade too.
RefExact ==
    \A v \in Values :
        refs[v] = Cardinality(HandlesTo(v)) + Cardinality(SlotsTo(v)) + drops[v]

\* No handle, no slot and no pending release refers to freed memory, whatever
\* the order in which plugins close handles and change containers.
NoFreedReference ==
    \A v \in Free : HandlesTo(v) = {} /\ SlotsTo(v) = {} /\ drops[v] = 0

\* A set of values that contains what the handles refer to and everything in
\* the slots of its members.
Closed(S) ==
    /\ \A h \in Open : handle[h] \in S
    /\ \A v \in S : \A s \in DOMAIN content[v] : content[v][s] \in S

\* The allocated values that no plugin can get at any more.
Garbage == {v \in Values \ Free : \E S \in SUBSET All : Closed(S) /\ v \notin S}

\* Closing the last handle frees the whole document ("must be freed via delete
\* or CloseHandle()", json.inc): between natives the only garbage is values
\* that a plugin has made to contain each other.
OnlyCyclesLeak ==
    Quiet => \A v \in Garbage : \E w \in Garbage : v \in Range(content[w])

\* What a cascade of releases may still have to do: the releases that are owed,
\* and the slots whose values are released when their container is.
Work ==
    UNION {{<<"slot", v, s>> : s \in DOMAIN content[v]}
               \cup {<<"release", v, n>> : n \in 1..drops[v]} : v \in All}

\* While a native runs, every step leaves less to do: a json_decref never adds
\* more releases than json_delete takes slots away, also when values contain each
\* other or one value is in many slots, and no native starts in between.
CascadeShrinks == [][~Quiet => Cardinality(Work') < Cardinality(Work)]_jvars

\* The release of a document ends, also when its values contain each other.
NativeReturns == ~Quiet ~> Quiet
=============================================================================
