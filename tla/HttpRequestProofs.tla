-------------------------- MODULE HttpRequestProofs --------------------------
(***************************************************************************)
(* Proofs about HttpRequest, for every set of handles, objects, headers    *)
(* and parameters and any number of calls.                                 *)
(***************************************************************************)
EXTENDS HttpRequest, FiniteSetTheorems, SequenceTheorems, TLAPS

(***************************************************************************)
(* Objects.  A change of one member leaves the others alone only in a      *)
(* record that has them: the type lists them all.                          *)
(***************************************************************************)

HNames == Names \cup Own
HTexts == Values \cup Types
HValues == [text : HTexts, length : Nat]
FiniteNames == {S \in SUBSET HNames : IsFiniteSet(S)}
HeadersType == UNION {[S -> HValues] : S \in FiniteNames}
OptionsType == [{"connectTimeout", "maxRedirects", "timeout", "maxSendSpeed", "maxRecvSpeed"}
                   -> Settings \cup {0, 5, 10, 30}]
ObjectType == [live : BOOLEAN, url : {"", "plain", "query"}, query : Seq(Params),
               form : Seq(Params), headers : HeadersType, auth : BOOLEAN,
               options : OptionsType]

\* A buffer takes what has room in it.
LEMMA CutType ==
    ASSUME NEW length \in Nat, NEW size \in Nat \ {0}
    PROVE  Cut(length, size) \in Nat /\ (length < size => Cut(length, size) = length)
  BY DEF Cut

LEMMA LengthType ==
    /\ \A v \in HTexts : Length[v] \in Nat
    /\ \A n \in HNames : Length[n] \in Nat
  BY SizeAssumption DEF HTexts, HNames

\* What a native or the extension itself makes of a value.
LEMMA StringType ==
    ASSUME NEW v \in HTexts
    PROVE  String(v) \in HValues /\ Formatted(v) \in HValues
<1>1. Length[v] \in Nat
  BY LengthType
<1>2. Cut(Length[v], ValueSize) \in Nat
  BY <1>1, CutType, SizeAssumption
<1> QED  BY <1>1, <1>2 DEF String, Formatted, HValues

LEMMA OwnTypes == Own \subseteq HNames /\ \A v \in Types : String(v) \in HValues
  BY StringType DEF HNames, HTexts

LEMMA SetHeaderType ==
    ASSUME NEW hs \in HeadersType, NEW n \in HNames, NEW v \in HValues
    PROVE  SetHeader(hs, n, v) \in HeadersType
<1>1. PICK S \in FiniteNames : hs \in [S -> HValues]
  BY DEF HeadersType
<1>2. S \cup {n} \in FiniteNames
  BY <1>1, FS_AddElement DEF FiniteNames
<1>3. SetHeader(hs, n, v) \in [S \cup {n} -> HValues]
  BY <1>1 DEF SetHeader
<1> QED  BY <1>2, <1>3 DEF HeadersType

LEMMA NoHeadersType == <<>> \in HeadersType
<1>1. <<>> \in [{} -> HValues]
  OBVIOUS
<1>2. {} \in FiniteNames
  BY FS_EmptySet DEF FiniteNames
<1> QED  BY <1>1, <1>2 DEF HeadersType

LEMMA NoMemoryType == NoMemory \in ObjectType /\ NoMemory.live = FALSE
<1>1. RequestDefaults \in OptionsType
  BY DEF RequestDefaults, OptionsType
<1> QED  BY <1>1, NoHeadersType DEF NoMemory, ObjectType

LEMMA NewRequestType ==
    ASSUME NEW url \in {"plain", "query"}
    PROVE  NewRequest(url) \in ObjectType /\ NewRequest(url).live = TRUE
<1> DEFINE hs == SetHeader(SetHeader(<<>>, "Accept", String(Json)), "Content-Type", String(Json))
<1>1. hs \in HeadersType
  BY NoHeadersType, SetHeaderType, OwnTypes DEF Own, Types
<1>2. NewRequest(url) = [NoMemory EXCEPT !.live = TRUE, !.url = url, !.headers = hs]
  BY DEF NewRequest
<1> HIDE DEF hs
<1> QED  BY <1>1, <1>2, NoMemoryType DEF ObjectType

LEMMA PrepareType ==
    ASSUME NEW kind \in {"json", "download", "upload", "form"}, NEW obj \in ObjectType
    PROVE  Prepare(kind, obj) \in ObjectType /\ Prepare(kind, obj).live = obj.live
<1>1. obj.headers \in HeadersType
  BY DEF ObjectType
<1>2. SetHeaders(obj.headers, AnyType, Octets) \in HeadersType
  BY <1>1, SetHeaderType, OwnTypes DEF SetHeaders, Own, Types
<1>3. SetHeaders(obj.headers, Json, Form) \in HeadersType
  BY <1>1, SetHeaderType, OwnTypes DEF SetHeaders, Own, Types
<1>4. ASSUME NEW hs \in HeadersType
      PROVE  [obj EXCEPT !.headers = hs] \in ObjectType /\ [obj EXCEPT !.headers = hs].live = obj.live
  BY DEF ObjectType
<1>5. CASE kind \in {"download", "upload"}
  BY <1>2, <1>4, <1>5 DEF Prepare
<1>6. CASE kind = "form"
  BY <1>3, <1>4, <1>6 DEF Prepare
<1>7. CASE kind = "json"
  BY <1>7 DEF Prepare
<1> QED  BY <1>5, <1>6, <1>7

-----------------------------------------------------------------------------
(***************************************************************************)
(* Handles and objects                                                     *)
(*                                                                         *)
(* HandlesLive is inductive once the types are known; the number of        *)
(* requests needs it, since an object must not be made while a handle of   *)
(* an earlier one at the same place is open.                               *)
(***************************************************************************)

HandleInv ==
    /\ object \in [Objects -> ObjectType]
    /\ handle \in [Handles -> Objects \cup {NoObject}]
    /\ HandlesLive

HandlesTo(o) == {h \in Handles : handle[h] = o}

CountInv ==
    /\ opened \in [Objects -> Nat] /\ performed \in [Objects -> Nat]
    /\ OneRequestPerHandle

\* A native that changes a member of a live object, or none.
Changes ==
    /\ UNCHANGED <<handle, opened, performed>>
    /\ \/ UNCHANGED object
       \/ \E h \in Handles, obj \in ObjectType :
             /\ handle[h] # NoObject /\ obj.live = TRUE
             /\ object' = [object EXCEPT ![handle[h]] = obj]

LEMMA HandlesFinite == \A o : IsFiniteSet(HandlesTo(o)) /\ Cardinality(HandlesTo(o)) \in Nat
<1> TAKE o
<1>1. HandlesTo(o) \subseteq Handles
  BY DEF HandlesTo
<1> QED  BY <1>1, HandlesAssumption, FS_Subset, FS_CardinalityType

LEMMA InitInv == Init => HandleInv /\ CountInv
<1> SUFFICES ASSUME Init PROVE HandleInv /\ CountInv
  OBVIOUS
<1>1. /\ object = [o \in Objects |-> NoMemory] /\ handle = [h \in Handles |-> NoObject]
      /\ opened = [o \in Objects |-> 0] /\ performed = [o \in Objects |-> 0]
  BY DEF Init
<1>2. HandleInv
  BY <1>1, NoMemoryType, NullAssumption DEF HandleInv, HandlesLive
<1>3. ASSUME NEW o \in Objects PROVE Cardinality({h \in Handles : handle[h] = o}) = 0
  <2>1. {h \in Handles : handle[h] = o} = {}
    BY <1>1, NullAssumption
  <2> QED  BY <2>1, FS_EmptySet
<1>4. OneRequestPerHandle
  BY <1>1, <1>3 DEF OneRequestPerHandle
<1> QED  BY <1>1, <1>2, <1>4 DEF CountInv

LEMMA ChangesInv ==
    ASSUME HandleInv, Changes
    PROVE  HandleInv' /\ (CountInv => CountInv')
<1>1. CASE UNCHANGED object
  BY <1>1 DEF Changes, HandleInv, HandlesLive, CountInv, OneRequestPerHandle
<1>2. ASSUME NEW h \in Handles, NEW obj \in ObjectType, handle[h] # NoObject, obj.live = TRUE,
             object' = [object EXCEPT ![handle[h]] = obj]
      PROVE  HandleInv'
  <2>1. handle[h] \in Objects /\ handle' = handle
    BY <1>2 DEF HandleInv, Changes
  <2>2. object' \in [Objects -> ObjectType]
    BY <1>2, <2>1 DEF HandleInv
  <2>3. \A o \in Objects : object'[o].live = object[o].live
    <3>1. object[handle[h]].live
      BY <1>2, <2>1 DEF HandleInv, HandlesLive
    <3>2. object[handle[h]].live = TRUE
      BY <2>1, <3>1 DEF HandleInv, ObjectType
    <3> QED  BY <1>2, <2>1, <3>2 DEF HandleInv
  <2> QED  BY <2>1, <2>2, <2>3 DEF HandleInv, HandlesLive
<1>3. CountInv => CountInv'
  BY DEF Changes, CountInv, OneRequestPerHandle
<1> QED  BY <1>1, <1>2, <1>3 DEF Changes

LEMMA CreateInv ==
    ASSUME HandleInv, NEW h \in Handles, NEW o \in Objects, NEW url \in {"plain", "query"},
           CreateRequest(h, o, url)
    PROVE  HandleInv' /\ (CountInv => CountInv')
<1>1. /\ handle[h] = NoObject /\ ~object[o].live
      /\ object' = [object EXCEPT ![o] = NewRequest(url)]
      /\ handle' = [handle EXCEPT ![h] = o]
      /\ opened' = [opened EXCEPT ![o] = 1] /\ performed' = [performed EXCEPT ![o] = 0]
  BY DEF CreateRequest, Closed
<1>2. \A g \in Handles : handle[g] # o
  BY <1>1 DEF HandleInv, HandlesLive
<1>3. HandleInv'
  <2>1. object' \in [Objects -> ObjectType] /\ handle' \in [Handles -> Objects \cup {NoObject}]
    BY <1>1, NewRequestType DEF HandleInv
  <2>2. object'[o].live = TRUE /\ \A p \in Objects \ {o} : object'[p] = object[p]
    BY <1>1, NewRequestType DEF HandleInv
  <2>3. handle'[h] = o /\ \A g \in Handles \ {h} : handle'[g] = handle[g]
    BY <1>1 DEF HandleInv
  <2>4. ASSUME NEW p \in Objects PROVE object'[p].live <=> \E g \in Handles : handle'[g] = p
    <3>1. CASE p = o
      BY <2>2, <2>3, <3>1
    <3>2. CASE p # o
      <4>1. (\E g \in Handles : handle'[g] = p) <=> \E g \in Handles : handle[g] = p
        BY <1>1, <2>3, <3>2, NullAssumption
      <4> QED  BY <2>2, <3>2, <4>1 DEF HandleInv, HandlesLive
    <3> QED  BY <3>1, <3>2
  <2> QED  BY <2>1, <2>4 DEF HandleInv, HandlesLive
<1>4. ASSUME CountInv PROVE CountInv'
  <2>1. opened' \in [Objects -> Nat] /\ performed' \in [Objects -> Nat]
    BY <1>1, <1>4 DEF CountInv
  <2>2. ASSUME NEW p \in Objects
        PROVE  performed'[p] + Cardinality({g \in Handles : handle'[g] = p}) <= opened'[p]
    <3>1. CASE p = o
      <4>1. {g \in Handles : handle'[g] = p} = {h}
        BY <1>1, <1>2, <3>1 DEF HandleInv
      <4>2. Cardinality({g \in Handles : handle'[g] = p}) = 1
        BY <4>1, FS_Singleton
      <4>3. performed'[p] = 0 /\ opened'[p] = 1
        BY <1>1, <1>4, <3>1 DEF CountInv
      <4> QED  BY <4>2, <4>3
    <3>2. CASE p # o
      <4>1. {g \in Handles : handle'[g] = p} = {g \in Handles : handle[g] = p}
        BY <1>1, <3>2, NullAssumption DEF HandleInv
      <4>2. performed'[p] = performed[p] /\ opened'[p] = opened[p]
        BY <1>1, <1>4, <3>2 DEF CountInv
      <4> QED  BY <1>4, <4>1, <4>2 DEF CountInv, OneRequestPerHandle
    <3> QED  BY <3>1, <3>2
  <2> QED  BY <2>1, <2>2 DEF CountInv, OneRequestPerHandle
<1> QED  BY <1>3, <1>4

LEMMA CloneInv ==
    ASSUME HandleInv, NEW h \in Handles, NEW g \in Handles, CloneHandle(h, g)
    PROVE  HandleInv' /\ (CountInv => CountInv')
<1>1. /\ handle[h] # NoObject /\ handle[g] = NoObject
      /\ handle' = [handle EXCEPT ![g] = handle[h]]
      /\ opened' = [opened EXCEPT ![handle[h]] = @ + 1] /\ UNCHANGED <<object, performed>>
  BY DEF CloneHandle, Closed
<1> DEFINE o == handle[h]
<1>2. o \in Objects /\ h # g
  BY <1>1 DEF HandleInv
<1>3. HandleInv'
  <2>1. handle' \in [Handles -> Objects \cup {NoObject}]
    BY <1>1, <1>2 DEF HandleInv
  <2>2. ASSUME NEW p \in Objects
        PROVE  (\E x \in Handles : handle'[x] = p) <=> \E x \in Handles : handle[x] = p
    BY <1>1, <1>2, NullAssumption DEF HandleInv
  <2> QED  BY <1>1, <2>1, <2>2 DEF HandleInv, HandlesLive
<1>4. ASSUME CountInv PROVE CountInv'
  <2>1. opened' \in [Objects -> Nat] /\ performed' \in [Objects -> Nat]
    BY <1>1, <1>2, <1>4 DEF CountInv
  <2>2. ASSUME NEW p \in Objects
        PROVE  performed'[p] + Cardinality({x \in Handles : handle'[x] = p}) <= opened'[p]
    <3>0. /\ performed[p] + Cardinality({x \in Handles : handle[x] = p}) <= opened[p]
          /\ performed[p] \in Nat /\ opened[p] \in Nat
      BY <1>4 DEF CountInv, OneRequestPerHandle
    <3>1. CASE p = o
      <4>1. {x \in Handles : handle'[x] = p} = {x \in Handles : handle[x] = p} \cup {g}
        BY <1>1, <1>2, <3>1 DEF HandleInv
      <4>2. g \notin {x \in Handles : handle[x] = p}
        BY <1>1, <1>2, <3>1, NullAssumption
      <4>3. Cardinality({x \in Handles : handle[x] = p} \cup {g})
               = Cardinality({x \in Handles : handle[x] = p}) + 1
        <5>1. IsFiniteSet({x \in Handles : handle[x] = p})
          BY HandlesFinite DEF HandlesTo
        <5> QED  BY <4>2, <5>1, FS_AddElement
      <4>4. opened'[p] = opened[p] + 1 /\ performed'[p] = performed[p]
        BY <1>1, <1>2, <1>4, <3>1 DEF CountInv
      <4>5. Cardinality({x \in Handles : handle[x] = p}) \in Nat
        BY HandlesFinite DEF HandlesTo
      <4> QED  BY <3>0, <4>1, <4>3, <4>4, <4>5
    <3>2. CASE p # o
      <4>1. {x \in Handles : handle'[x] = p} = {x \in Handles : handle[x] = p}
        BY <1>1, <1>2, <3>2, NullAssumption DEF HandleInv
      <4>2. performed'[p] = performed[p] /\ opened'[p] = opened[p]
        BY <1>1, <1>4, <3>2 DEF CountInv
      <4> QED  BY <3>0, <4>1, <4>2
    <3> QED  BY <3>1, <3>2
  <2> QED  BY <2>1, <2>2 DEF CountInv, OneRequestPerHandle
<1> QED  BY <1>3, <1>4

\* FreeHandle, for a request that was performed or one that was only closed.
LEMMA FreeInv ==
    ASSUME HandleInv, NEW h \in Handles, handle[h] # NoObject,
           NEW obj \in ObjectType, obj.live = TRUE, FreeHandle(h, obj), UNCHANGED opened,
           \/ UNCHANGED performed
           \/ performed' = [performed EXCEPT ![handle[h]] = @ + 1]
    PROVE  HandleInv' /\ (CountInv => CountInv')
<1> DEFINE o == handle[h]
<1>1. /\ handle' = [handle EXCEPT ![h] = NoObject] /\ o \in Objects
      /\ object' = [p \in Objects |-> IF p \in Destroyed(h) THEN NoMemory
                                      ELSE IF p = o THEN obj ELSE object[p]]
  BY DEF FreeHandle, HandleInv
<1>2. Destroyed(h) = IF \E g \in Handles \ {h} : handle[g] = o THEN {} ELSE {o}
  BY DEF Destroyed
<1>3. HandleInv'
  <2>1. object' \in [Objects -> ObjectType] /\ handle' \in [Handles -> Objects \cup {NoObject}]
    BY <1>1, NoMemoryType DEF HandleInv
  <2>2. ASSUME NEW p \in Objects PROVE object'[p].live <=> \E g \in Handles : handle'[g] = p
    <3>1. CASE p = o
      <4>1. (\E g \in Handles : handle'[g] = p) <=> \E g \in Handles \ {h} : handle[g] = o
        BY <1>1, <3>1, NullAssumption DEF HandleInv
      <4>2. CASE \E g \in Handles \ {h} : handle[g] = o
        BY <1>1, <1>2, <3>1, <4>1, <4>2
      <4>3. CASE ~\E g \in Handles \ {h} : handle[g] = o
        BY <1>1, <1>2, <3>1, <4>1, <4>3, NoMemoryType
      <4> QED  BY <4>2, <4>3
    <3>2. CASE p # o
      <4>1. (\E g \in Handles : handle'[g] = p) <=> \E g \in Handles : handle[g] = p
        BY <1>1, <3>2, NullAssumption DEF HandleInv
      <4>2. object'[p] = object[p]
        BY <1>1, <1>2, <3>2
      <4> QED  BY <4>1, <4>2 DEF HandleInv, HandlesLive
    <3> QED  BY <3>1, <3>2
  <2> QED  BY <2>1, <2>2 DEF HandleInv, HandlesLive
<1>4. ASSUME CountInv PROVE CountInv'
  <2>1. opened' \in [Objects -> Nat] /\ performed' \in [Objects -> Nat]
    BY <1>1, <1>4 DEF CountInv
  <2>2. ASSUME NEW p \in Objects
        PROVE  performed'[p] + Cardinality({x \in Handles : handle'[x] = p}) <= opened'[p]
    <3>0. /\ performed[p] + Cardinality({x \in Handles : handle[x] = p}) <= opened[p]
          /\ performed[p] \in Nat /\ opened[p] \in Nat
      BY <1>4 DEF CountInv, OneRequestPerHandle
    <3>1. CASE p = o
      <4>1. {x \in Handles : handle'[x] = p} = {x \in Handles : handle[x] = p} \ {h}
        BY <1>1, <3>1, NullAssumption DEF HandleInv
      <4>2. h \in {x \in Handles : handle[x] = p} /\ IsFiniteSet({x \in Handles : handle[x] = p})
        BY <3>1, HandlesFinite DEF HandlesTo
      <4>3. Cardinality({x \in Handles : handle[x] = p} \ {h})
               = Cardinality({x \in Handles : handle[x] = p}) - 1
        BY <4>2, FS_RemoveElement
      <4>4. opened'[p] = opened[p] /\ (performed'[p] = performed[p] \/ performed'[p] = performed[p] + 1)
        BY <1>1, <1>4, <3>1 DEF CountInv
      <4>5. Cardinality({x \in Handles : handle[x] = p}) \in Nat
        BY HandlesFinite DEF HandlesTo
      <4> DEFINE n == Cardinality({x \in Handles : handle[x] = p})
                 m == Cardinality({x \in Handles : handle'[x] = p})
      <4>6. m = n - 1 /\ n \in Nat /\ performed[p] + n <= opened[p]
        BY <3>0, <4>1, <4>3, <4>5
      <4> HIDE DEF n, m
      <4>7. performed'[p] + m <= opened'[p]
        BY <3>0, <4>4, <4>6
      <4> QED  BY <4>7 DEF m
    <3>2. CASE p # o
      <4>1. {x \in Handles : handle'[x] = p} = {x \in Handles : handle[x] = p}
        BY <1>1, <3>2, NullAssumption DEF HandleInv
      <4>2. performed'[p] = performed[p] /\ opened'[p] = opened[p]
        BY <1>1, <1>4, <3>2 DEF CountInv
      <4> QED  BY <3>0, <4>1, <4>2
    <3> QED  BY <3>1, <3>2
  <2> QED  BY <2>1, <2>2 DEF CountInv, OneRequestPerHandle
<1> QED  BY <1>3, <1>4

\* The object of an open handle.
LEMMA OpenObject ==
    ASSUME HandleInv, NEW h \in Handles, handle[h] # NoObject
    PROVE  handle[h] \in Objects /\ object[handle[h]] \in ObjectType /\ object[handle[h]].live = TRUE
<1>1. handle[h] \in Objects /\ object[handle[h]] \in ObjectType
  BY DEF HandleInv
<1>2. object[handle[h]].live
  BY <1>1 DEF HandleInv, HandlesLive
<1> QED  BY <1>1, <1>2 DEF ObjectType

\* The builder's natives change one member of one object.
LEMMA BuildChanges ==
    ASSUME HandleInv, NEW h \in Handles,
           \/ SetBasicAuth(h)
           \/ \E p \in Params : AppendQueryParam(h, p) \/ AppendFormParam(h, p)
           \/ \E n \in Names, v \in Values : SetRequestHeader(h, n, v)
           \/ \E p \in DOMAIN RequestDefaults, v \in Settings : SetOption(h, p, v)
    PROVE  Changes
<1>1. handle[h] # NoObject /\ UNCHANGED <<handle, opened, performed>>
  BY DEF SetBasicAuth, AppendQueryParam, AppendFormParam, SetRequestHeader, SetOption, Change, Closed
<1> DEFINE obj == object[handle[h]]
<1>2. obj \in ObjectType /\ obj.live = TRUE
  BY <1>1, OpenObject
<1> SUFFICES \E new \in ObjectType : /\ new.live = TRUE
                                     /\ object' = [object EXCEPT ![handle[h]] = new]
  BY <1>1 DEF Changes
<1>3. CASE SetBasicAuth(h)
  <2>1. object' = [object EXCEPT ![handle[h]] = [obj EXCEPT !.auth = TRUE]]
    BY <1>3 DEF SetBasicAuth, Change
  <2> HIDE DEF obj
  <2>2. [obj EXCEPT !.auth = TRUE] \in ObjectType /\ [obj EXCEPT !.auth = TRUE].live = TRUE
    BY <1>2 DEF ObjectType
  <2> QED  BY <2>1, <2>2
<1>4. ASSUME NEW p \in Params, AppendQueryParam(h, p) \/ AppendFormParam(h, p)
      PROVE  \E new \in ObjectType : /\ new.live = TRUE
                                     /\ object' = [object EXCEPT ![handle[h]] = new]
  <2>1. \/ object' = [object EXCEPT ![handle[h]] = [obj EXCEPT !.query = Append(@, p)]]
        \/ object' = [object EXCEPT ![handle[h]] = [obj EXCEPT !.form = Append(@, p)]]
    BY <1>4 DEF AppendQueryParam, AppendFormParam, Change
  <2> HIDE DEF obj
  <2>0. Append(obj.query, p) \in Seq(Params) /\ Append(obj.form, p) \in Seq(Params)
    <3>1. obj.query \in Seq(Params) /\ obj.form \in Seq(Params)
      BY <1>2 DEF ObjectType
    <3> QED  BY <3>1, AppendProperties
  <2>2. /\ [obj EXCEPT !.query = Append(@, p)] \in ObjectType
        /\ [obj EXCEPT !.query = Append(@, p)].live = TRUE
        /\ [obj EXCEPT !.form = Append(@, p)] \in ObjectType
        /\ [obj EXCEPT !.form = Append(@, p)].live = TRUE
    BY <1>2, <2>0 DEF ObjectType
  <2> QED  BY <2>1, <2>2
<1>5. ASSUME NEW n \in Names, NEW v \in Values, SetRequestHeader(h, n, v)
      PROVE  \E new \in ObjectType : /\ new.live = TRUE
                                     /\ object' = [object EXCEPT ![handle[h]] = new]
  <2>1. object' = [object EXCEPT ![handle[h]] = [obj EXCEPT !.headers = SetHeader(@, n, Formatted(v))]]
    BY <1>5 DEF SetRequestHeader, Change
  <2> HIDE DEF obj
  <2>2. obj.headers \in HeadersType /\ n \in HNames /\ Formatted(v) \in HValues
    BY <1>2, StringType DEF ObjectType, HNames, HTexts
  <2>3. SetHeader(obj.headers, n, Formatted(v)) \in HeadersType
    BY <2>2, SetHeaderType
  <2>4. /\ [obj EXCEPT !.headers = SetHeader(@, n, Formatted(v))] \in ObjectType
        /\ [obj EXCEPT !.headers = SetHeader(@, n, Formatted(v))].live = TRUE
    BY <1>2, <2>3 DEF ObjectType
  <2> QED  BY <2>1, <2>4
<1>6. ASSUME NEW p \in DOMAIN RequestDefaults, NEW v \in Settings, SetOption(h, p, v)
      PROVE  \E new \in ObjectType : /\ new.live = TRUE
                                     /\ object' = [object EXCEPT ![handle[h]] = new]
  <2>1. object' = [object EXCEPT ![handle[h]] = [obj EXCEPT !.options[p] = v]]
    BY <1>6 DEF SetOption, Change
  <2> HIDE DEF obj
  <2>2. obj.options \in OptionsType
    BY <1>2 DEF ObjectType
  <2>3. [obj.options EXCEPT ![p] = v] \in OptionsType
    BY <2>2 DEF OptionsType
  <2>4. /\ [obj EXCEPT !.options[p] = v] \in ObjectType
        /\ [obj EXCEPT !.options[p] = v].live = TRUE
    BY <1>2, <2>3 DEF ObjectType
  <2> QED  BY <2>1, <2>4
<1> QED  BY <1>3, <1>4, <1>5, <1>6

LEMMA NextInv ==
    ASSUME HandleInv, [Next]_rvars
    PROVE  HandleInv' /\ (CountInv => CountInv')
<1>1. CASE \E h \in Handles, o \in Objects, url \in {"plain", "query"} : CreateRequest(h, o, url)
  BY <1>1, CreateInv
<1>2. CASE \E h, g \in Handles : CloneHandle(h, g)
  BY <1>2, CloneInv
<1>3. ASSUME NEW h \in Handles, CloseHandle(h)
      PROVE  HandleInv' /\ (CountInv => CountInv')
  <2>1. /\ handle[h] # NoObject /\ FreeHandle(h, object[handle[h]])
        /\ UNCHANGED <<opened, performed>>
    BY <1>3 DEF CloseHandle, Closed
  <2> QED  BY <2>1, OpenObject, FreeInv
<1>4. ASSUME NEW h \in Handles, NEW kind \in {"json", "download", "upload", "form"}, Perform(h, kind)
      PROVE  HandleInv' /\ (CountInv => CountInv')
  <2>1. /\ handle[h] # NoObject /\ FreeHandle(h, Prepare(kind, object[handle[h]]))
        /\ UNCHANGED opened
        /\ performed' = [performed EXCEPT ![handle[h]] = @ + 1]
    BY <1>4 DEF Perform, AfterPerform, Closed
  <2>2. object[handle[h]] \in ObjectType /\ object[handle[h]].live = TRUE
    BY <2>1, OpenObject
  <2>3. /\ Prepare(kind, object[handle[h]]) \in ObjectType
        /\ Prepare(kind, object[handle[h]]).live = TRUE
    BY <2>2, PrepareType
  <2> QED  BY <2>1, <2>3, FreeInv
<1>5. CASE \E h \in Handles : SetBasicAuth(h)
  BY <1>5, BuildChanges, ChangesInv
<1>6. CASE \E h \in Handles, p \in Params : AppendQueryParam(h, p) \/ AppendFormParam(h, p)
  BY <1>6, BuildChanges, ChangesInv
<1>7. CASE \E h \in Handles, n \in Names, v \in Values : SetRequestHeader(h, n, v)
  BY <1>7, BuildChanges, ChangesInv
<1>8. CASE \E h \in Handles, p \in DOMAIN RequestDefaults, v \in Settings : SetOption(h, p, v)
  BY <1>8, BuildChanges, ChangesInv
<1>9. CASE UNCHANGED <<object, handle, opened, performed>>
  BY <1>9, ChangesInv DEF Changes
<1>10. CASE \/ \E h \in Handles : PerformThrows(h)
            \/ \E n \in Names, v \in Values : SetClientHeader(n, v)
            \/ \E p \in DOMAIN ClientDefaults, v \in Settings : SetClientOption(p, v)
            \/ \E follow \in BOOLEAN : SetClientFollowLocation(follow)
            \/ \E kind \in {"json", "download", "upload"} : ClientRequest(kind)
            \/ ClientRequestFails
            \/ TakeContext
            \/ UNCHANGED rvars
  BY <1>9, <1>10 DEF PerformThrows, SetClientHeader, SetClientOption, SetClientFollowLocation,
                     ClientRequest, ClientRequestFails, TakeContext, rvars
<1> QED  BY <1>1, <1>2, <1>3, <1>4, <1>5, <1>6, <1>7, <1>8, <1>10 DEF Next

-----------------------------------------------------------------------------
(***************************************************************************)
(* Headers                                                                 *)
(*                                                                         *)
(* What a plugin has set on an object is in its headers, apart from the    *)
(* two names the extension sets itself; so the context that is made of the *)
(* object has it, and keeps it whatever happens to the object.  What is    *)
(* lost on the way is what a buffer has no room for.                       *)
(***************************************************************************)

AskedType == UNION {[S -> Values] : S \in SUBSET Names}
Kinds == {"json", "download", "upload", "form"}
ClientOptionsType == [{"connectTimeout", "timeout", "maxSendSpeed", "maxRecvSpeed"}
                         -> Settings \cup {0, 10, 30}]
ClientHeadersType == UNION {[S -> {String(v) : v \in Values}] : S \in SUBSET Names}
ClientType == [headers : ClientHeadersType, follow : BOOLEAN, options : ClientOptionsType]
LineType == [name : HNames, value : HTexts, length : Nat]
ContextType == [kind : Kinds, of : Objects \cup {NoObject}, asked : AskedType,
                url : Seq({"", "plain", "query", "?"} \cup Params),
                headers : SUBSET LineType, form : Seq(Params), auth : BOOLEAN,
                maxRedirects : Settings \cup {0, 5, 10, 30},
                options : OptionsType \cup ClientOptionsType]

\* HeadersAsSet, of one context.
SendsAsked(c) ==
    /\ \A n \in DOMAIN c.asked \ Own :
          \E line \in c.headers :
             /\ {l \in c.headers : l.name = n} = {line}
             /\ line.value = c.asked[n]
             /\ Fits(n, c.asked[n]) => line = Line(n, c.asked[n])
    /\ c.of # NoObject =>
          /\ c.kind = "form" => Line("Content-Type", Form) \in c.headers
          /\ c.kind \in {"upload", "download"} => Line("Content-Type", Octets) \in c.headers
          /\ Cardinality({line.name : line \in c.headers}) = Cardinality(c.headers)

Queued == {c \in ContextType : SendsAsked(c)}

\* hs has what was asked for.
Extends(hs, as) == \A n \in DOMAIN as \ Own : n \in DOMAIN hs /\ hs[n] = Formatted(as[n])

AskedInv ==
    /\ asked \in [Objects -> AskedType]
    /\ \A o \in Objects : object[o].live => Extends(object[o].headers, asked[o])

QueueInv ==
    /\ client \in ClientType
    /\ queue \in Seq(Queued) /\ Len(queue) <= MaxQueue
    /\ forwards \in Nat /\ forwards >= Len(queue)
    /\ calls \in 0..MaxCalls

LEMMA NothingAsked == <<>> \in AskedType /\ DOMAIN <<>> = {}
<1>1. <<>> \in [{} -> Values]
  OBVIOUS
<1>2. {} \in SUBSET Names
  OBVIOUS
<1> QED  BY <1>1, <1>2 DEF AskedType

LEMMA SetAskedType ==
    ASSUME NEW as \in AskedType, NEW n \in Names, NEW v \in Values
    PROVE  SetHeader(as, n, v) \in AskedType
<1>1. PICK S \in SUBSET Names : as \in [S -> Values]
  BY DEF AskedType
<1>2. S \cup {n} \in SUBSET Names
  BY <1>1
<1>3. SetHeader(as, n, v) \in [S \cup {n} -> Values]
  BY <1>1 DEF SetHeader
<1> QED  BY <1>2, <1>3 DEF AskedType

\* A header that is set on both, or one of the extension's own.
LEMMA ExtendsSet ==
    ASSUME NEW hs, NEW as, Extends(hs, as), NEW n, NEW v
    PROVE  /\ Extends(SetHeader(hs, n, Formatted(v)), SetHeader(as, n, v))
           /\ n \in Own => \A s : Extends(SetHeader(hs, n, s), as)
BY DEF Extends, SetHeader

LEMMA PrepareHeaders ==
    ASSUME NEW kind \in Kinds, NEW obj \in ObjectType, NEW as, Extends(obj.headers, as)
    PROVE  /\ Extends(Prepare(kind, obj).headers, as)
           /\ kind = "form" => /\ "Content-Type" \in DOMAIN Prepare(kind, obj).headers
                               /\ Prepare(kind, obj).headers["Content-Type"] = String(Form)
           /\ kind \in {"upload", "download"} =>
                 /\ "Content-Type" \in DOMAIN Prepare(kind, obj).headers
                 /\ Prepare(kind, obj).headers["Content-Type"] = String(Octets)
<1>1. ASSUME NEW a, NEW t
      PROVE  /\ Extends(SetHeaders(obj.headers, a, t), as)
             /\ "Content-Type" \in DOMAIN SetHeaders(obj.headers, a, t)
             /\ SetHeaders(obj.headers, a, t)["Content-Type"] = String(t)
  <2>1. Extends(SetHeader(obj.headers, "Accept", String(a)), as)
    BY ExtendsSet DEF Own
  <2>2. Extends(SetHeader(SetHeader(obj.headers, "Accept", String(a)), "Content-Type", String(t)), as)
    BY <2>1, ExtendsSet DEF Own
  <2> QED  BY <2>2 DEF SetHeaders, SetHeader
<1>2. ASSUME NEW hs PROVE [obj EXCEPT !.headers = hs].headers = hs
  BY DEF ObjectType
<1>3. CASE kind \in {"download", "upload"}
  BY <1>1, <1>2, <1>3 DEF Prepare
<1>4. CASE kind = "form"
  BY <1>1, <1>2, <1>4 DEF Prepare
<1>5. CASE kind = "json"
  BY <1>5 DEF Prepare
<1> QED  BY <1>3, <1>4, <1>5 DEF Kinds

\* A line has the name and the value it is printed from, and is whole if it
\* fits.
LEMMA LineOf ==
    ASSUME NEW n \in HNames, NEW s \in HValues
    PROVE  /\ HeaderLine(n, s) \in LineType
           /\ HeaderLine(n, s).name = n /\ HeaderLine(n, s).value = s.text
<1>1. Length[n] + 2 + s.length \in Nat
  BY LengthType DEF HValues
<1>2. Cut(Length[n] + 2 + s.length, LineSize) \in Nat
  BY <1>1, CutType, SizeAssumption
<1> QED  BY <1>2 DEF HeaderLine, LineType, HValues

LEMMA WholeLine ==
    ASSUME NEW n \in HNames, NEW v \in HTexts, Fits(n, v)
    PROVE  /\ HeaderLine(n, String(v)) = Line(n, v)
           /\ HeaderLine(n, Formatted(v)) = Line(n, v)
<1>1. /\ Length[n] \in Nat /\ Length[v] \in Nat /\ Length[v] < ValueSize
      /\ Length[n] + 2 + Length[v] < LineSize
  BY LengthType DEF Fits
<1>2. Cut(Length[v], ValueSize) = Length[v]
  BY <1>1 DEF Cut
<1>3. Cut(Length[n] + 2 + Length[v], LineSize) = Length[n] + 2 + Length[v]
  BY <1>1 DEF Cut
<1> QED  BY <1>2, <1>3 DEF HeaderLine, String, Formatted, Line

\* BuildHeaders: one line for each name.
LEMMA BuiltHeaders ==
    ASSUME NEW hs \in HeadersType, NEW lines, lines = {HeaderLine(n, hs[n]) : n \in DOMAIN hs}
    PROVE  /\ lines \in SUBSET LineType
           /\ \A n \in DOMAIN hs : /\ HeaderLine(n, hs[n]).value = hs[n].text
                                   /\ {l \in lines : l.name = n} = {HeaderLine(n, hs[n])}
           /\ Cardinality({line.name : line \in lines}) = Cardinality(lines)
<1>1. PICK S \in FiniteNames : hs \in [S -> HValues]
  BY DEF HeadersType
<1>2. DOMAIN hs = S /\ S \subseteq HNames /\ IsFiniteSet(S) /\ \A n \in S : hs[n] \in HValues
  BY <1>1 DEF FiniteNames
<1> DEFINE f == [n \in S |-> HeaderLine(n, hs[n])]
<1>3. \A n \in S : f[n] \in LineType /\ f[n].name = n /\ f[n].value = hs[n].text
  BY <1>2, LineOf
<1>4. DOMAIN f = S /\ lines = {f[n] : n \in S} /\ \A n \in S : f[n] = HeaderLine(n, hs[n])
  BY <1>2
<1> HIDE DEF f
<1>5. lines \in SUBSET LineType
  BY <1>3, <1>4
<1>6. ASSUME NEW n \in S PROVE {l \in lines : l.name = n} = {f[n]}
  <2>1. f[n] \in lines /\ f[n].name = n
    BY <1>3, <1>4
  <2>2. ASSUME NEW l \in lines, l.name = n PROVE l = f[n]
    <3>1. PICK m \in S : l = f[m]
      BY <1>4
    <3>2. m = n
      BY <1>3, <2>2, <3>1
    <3> QED  BY <3>1, <3>2
  <2> QED  BY <2>1, <2>2
<1>7. {line.name : line \in lines} = S
  BY <1>3, <1>4
<1>8. Cardinality(lines) = Cardinality(S)
  <2>1. f \in Bijection(S, lines)
    <3>1. f = [n \in S |-> f[n]]
      BY DEF f
    <3> QED  BY <1>3, <1>4, <3>1 DEF Bijection, Injection, Surjection, IsInjective
  <2> QED  BY <1>2, <2>1, FS_Bijection DEF ExistsBijection
<1> QED  BY <1>2, <1>3, <1>4, <1>5, <1>6, <1>7, <1>8

LEMMA BuiltURL ==
    ASSUME NEW obj \in ObjectType
    PROVE  BuildURL(obj) \in Seq({"", "plain", "query", "?"} \cup Params)
<1> DEFINE T == {"", "plain", "query", "?"} \cup Params
<1>1. obj.url \in T /\ "?" \in T /\ obj.query \in Seq(Params) /\ Params \subseteq T
  BY DEF ObjectType
<1> HIDE DEF T
<1>2. <<obj.url>> \in Seq(T) /\ <<"?">> \in Seq(T) /\ <<>> \in Seq(T) /\ obj.query \in Seq(T)
  <2>1. \A q \in Seq(Params) : q \in Seq(T)
    BY <1>1
  <2> QED  BY <1>1, <2>1
<1>3. <<obj.url>> \o (IF obj.query = <<>> THEN <<>> ELSE <<"?">>) \in Seq(T)
  BY <1>2, ConcatProperties
<1>4. BuildURL(obj) \in Seq(T)
  BY <1>2, <1>3, ConcatProperties DEF BuildURL
<1> QED  BY <1>4 DEF T

\* The context of a request that is performed.
LEMMA ContextQueued ==
    ASSUME NEW kind \in Kinds, NEW o \in Objects, NEW obj \in ObjectType,
           asked[o] \in AskedType, Extends(obj.headers, asked[o])
    PROVE  Context(kind, o, obj, Prepare(kind, obj)) \in Queued
<1> DEFINE p == Prepare(kind, obj)
           c == Context(kind, o, obj, p)
<1>1. p \in ObjectType
  BY PrepareType DEF Kinds
<1>2. /\ Extends(p.headers, asked[o])
      /\ kind = "form" => /\ "Content-Type" \in DOMAIN p.headers
                          /\ p.headers["Content-Type"] = String(Form)
      /\ kind \in {"upload", "download"} => /\ "Content-Type" \in DOMAIN p.headers
                                            /\ p.headers["Content-Type"] = String(Octets)
  BY PrepareHeaders
<1> HIDE DEF p
<1>3. p.headers \in HeadersType /\ p.form \in Seq(Params) /\ p.auth \in BOOLEAN
      /\ p.options \in OptionsType
  BY <1>1 DEF ObjectType
<1>4. p.options.maxRedirects \in Settings \cup {0, 5, 10, 30}
  BY <1>3 DEF OptionsType
<1> DEFINE lines == {HeaderLine(n, p.headers[n]) : n \in DOMAIN p.headers}
<1>5. /\ lines \in SUBSET LineType
      /\ \A n \in DOMAIN p.headers :
            /\ HeaderLine(n, p.headers[n]).value = p.headers[n].text
            /\ {l \in lines : l.name = n} = {HeaderLine(n, p.headers[n])}
      /\ Cardinality({line.name : line \in lines}) = Cardinality(lines)
  BY <1>3, BuiltHeaders
<1>6. BuildURL(p) \in Seq({"", "plain", "query", "?"} \cup Params)
  BY <1>1, BuiltURL
<1>7. c = [kind |-> kind, of |-> o, asked |-> asked[o], url |-> BuildURL(p), headers |-> lines,
           form |-> p.form, auth |-> p.auth, maxRedirects |-> p.options.maxRedirects,
           options |-> p.options]
  BY DEF Context, BuildHeaders
<1> HIDE DEF lines
<1>8. /\ c.kind = kind /\ c.of = o /\ c.asked = asked[o] /\ c.headers = lines
      /\ c \in ContextType
  <2> DEFINE url == BuildURL(p)
             max == p.options.maxRedirects
  <2>1. max \in Settings \cup {0, 5, 10, 30} /\ p.options \in OptionsType \cup ClientOptionsType
    BY <1>3, <1>4
  <2>2. lines \in SUBSET LineType /\ o \in Objects \cup {NoObject}
    BY <1>5
  <2> HIDE DEF url, max, c
  <2>3. c = [kind |-> kind, of |-> o, asked |-> asked[o], url |-> url, headers |-> lines,
             form |-> p.form, auth |-> p.auth, maxRedirects |-> max, options |-> p.options]
    BY <1>7 DEF url, max
  <2>4. url \in Seq({"", "plain", "query", "?"} \cup Params)
    BY <1>6 DEF url
  <2> QED  BY <1>3, <2>1, <2>2, <2>3, <2>4 DEF ContextType
<1> HIDE DEF c
<1>9. SendsAsked(c)
  <2>1. ASSUME NEW n \in DOMAIN asked[o] \ Own
        PROVE  \E line \in lines :
                  /\ {l \in lines : l.name = n} = {line}
                  /\ line.value = asked[o][n]
                  /\ Fits(n, asked[o][n]) => line = Line(n, asked[o][n])
    <3>1. n \in DOMAIN p.headers /\ p.headers[n] = Formatted(asked[o][n])
      BY <1>2 DEF Extends
    <3>2. asked[o][n] \in HTexts /\ n \in HNames
      BY DEF AskedType, HTexts, HNames
    <3> DEFINE line == HeaderLine(n, p.headers[n])
    <3>3. {l \in lines : l.name = n} = {line} /\ line.value = p.headers[n].text
      BY <1>5, <3>1
    <3>4. line.value = asked[o][n]
      BY <3>1, <3>3 DEF Formatted
    <3>5. Fits(n, asked[o][n]) => line = Line(n, asked[o][n])
      BY <3>1, <3>2, WholeLine
    <3> HIDE DEF line
    <3> QED  BY <3>3, <3>4, <3>5
  <2>2. ASSUME NEW v \in Types, "Content-Type" \in DOMAIN p.headers,
               p.headers["Content-Type"] = String(v)
        PROVE  Line("Content-Type", v) \in lines
    <3>1. HeaderLine("Content-Type", String(v)) \in lines
      BY <1>5, <2>2
    <3>2. v \in HTexts /\ "Content-Type" \in HNames /\ Fits("Content-Type", v)
      BY SizeAssumption DEF HTexts, HNames, Own
    <3> QED  BY <3>1, <3>2, WholeLine
  <2>3. /\ kind = "form" => Line("Content-Type", Form) \in lines
        /\ kind \in {"upload", "download"} => Line("Content-Type", Octets) \in lines
    BY <1>2, <2>2 DEF Types
  <2> QED  BY <1>5, <1>8, <2>1, <2>3 DEF SendsAsked
<1> QED  BY <1>8, <1>9 DEF Queued, c, p

\* The context of a request of an HTTPClient.
LEMMA ClientQueued ==
    ASSUME NEW kind \in {"json", "download", "upload"}, client \in ClientType,
           NEW accept \in {Json, AnyType}, NEW type \in {Json, Octets},
           NEW max \in {0, 5}
    PROVE  [kind |-> kind, of |-> NoObject,
            asked |-> [n \in DOMAIN client.headers |-> client.headers[n].text],
            url |-> <<"plain">>,
            headers |-> ClientHeaders(accept, type), form |-> <<>>, auth |-> FALSE,
            maxRedirects |-> max, options |-> client.options] \in Queued
<1> DEFINE hs == client.headers
           as == [n \in DOMAIN hs |-> hs[n].text]
           own == {HeaderLine("Accept", String(accept)), HeaderLine("Content-Type", String(type))}
           lines == ClientHeaders(accept, type)
           c == [kind |-> kind, of |-> NoObject, asked |-> as, url |-> <<"plain">>,
                 headers |-> lines, form |-> <<>>, auth |-> FALSE,
                 maxRedirects |-> max, options |-> client.options]
<1>1. hs \in ClientHeadersType /\ client.options \in ClientOptionsType
  BY DEF ClientType
<1>2. lines = own \cup {HeaderLine(n, hs[n]) : n \in DOMAIN hs}
  BY DEF ClientHeaders
<1>3. PICK S \in SUBSET Names : hs \in [S -> {String(v) : v \in Values}]
  BY <1>1 DEF ClientHeadersType
<1>4. \A l \in own : l \in LineType /\ l.name \in Own
  <2>1. /\ "Accept" \in HNames /\ "Content-Type" \in HNames
        /\ String(accept) \in HValues /\ String(type) \in HValues
    BY OwnTypes DEF Own, Types
  <2>2. /\ HeaderLine("Accept", String(accept)) \in LineType
        /\ HeaderLine("Accept", String(accept)).name = "Accept"
        /\ HeaderLine("Content-Type", String(type)) \in LineType
        /\ HeaderLine("Content-Type", String(type)).name = "Content-Type"
    BY <2>1, LineOf
  <2> QED  BY <2>2 DEF Own
<1>5. ASSUME NEW n \in DOMAIN hs
      PROVE  /\ as[n] \in Values /\ n \in Names /\ hs[n] = String(as[n])
             /\ HeaderLine(n, hs[n]) \in LineType
             /\ HeaderLine(n, hs[n]).name = n /\ HeaderLine(n, hs[n]).value = as[n]
  <2>1. PICK v \in Values : hs[n] = String(v)
    BY <1>3
  <2>2. as[n] = v /\ n \in Names
    BY <1>3, <2>1 DEF String
  <2>3. n \in HNames /\ hs[n] \in HValues /\ hs[n].text = v
    BY <2>1, <2>2, StringType DEF HNames, HTexts, String
  <2> QED  BY <2>1, <2>2, <2>3, LineOf
<1>6. as \in AskedType
  <2>1. DOMAIN as = DOMAIN hs /\ DOMAIN hs \in SUBSET Names
    BY <1>3
  <2>2. as \in [DOMAIN hs -> Values]
    BY <1>5
  <2> QED  BY <2>1, <2>2 DEF AskedType
<1>7. DOMAIN as = DOMAIN hs
  OBVIOUS
<1> HIDE DEF hs, as, own, lines
<1>8. lines \in SUBSET LineType
  BY <1>2, <1>4, <1>5
<1>9. ASSUME NEW n \in DOMAIN as \ Own
      PROVE  \E line \in lines :
                /\ {l \in lines : l.name = n} = {line}
                /\ line.value = as[n]
                /\ Fits(n, as[n]) => line = Line(n, as[n])
  <2> DEFINE line == HeaderLine(n, hs[n])
  <2>0. n \in DOMAIN hs
    BY <1>7
  <2>1. line \in lines /\ line.name = n /\ line.value = as[n]
    BY <1>2, <1>5, <2>0
  <2>2. \A l \in lines : l.name = n => l = line
    BY <1>2, <1>4, <1>5
  <2>3. Fits(n, as[n]) => line = Line(n, as[n])
    <3>1. n \in HNames /\ as[n] \in HTexts /\ hs[n] = String(as[n])
      BY <1>5, <2>0 DEF HNames, HTexts
    <3> QED  BY <3>1, WholeLine
  <2> HIDE DEF line
  <2> QED  BY <2>1, <2>2, <2>3
<1>10. <<"plain">> \in Seq({"", "plain", "query", "?"} \cup Params) /\ <<>> \in Seq(Params)
  OBVIOUS
<1>11. /\ c \in ContextType
       /\ c.of = NoObject /\ c.asked = as /\ c.headers = lines
  BY <1>1, <1>6, <1>8, <1>10 DEF ContextType, Kinds
<1> HIDE DEF c
<1>12. SendsAsked(c)
  BY <1>9, <1>11 DEF SendsAsked
<1> QED  BY <1>11, <1>12 DEF Queued, c, as, lines, hs

LEMMA HeadersInit == Init => AskedInv /\ QueueInv
<1> SUFFICES ASSUME Init PROVE AskedInv /\ QueueInv
  OBVIOUS
<1>1. AskedInv
  BY NothingAsked, NoMemoryType DEF Init, AskedInv
<1>2. ClientDefaults \in ClientOptionsType
  BY DEF ClientDefaults, ClientOptionsType
<1>3. client \in ClientType
  <2>1. <<>> \in [{} -> {String(v) : v \in Values}] /\ {} \in SUBSET Names
    OBVIOUS
  <2>2. <<>> \in ClientHeadersType
    BY <2>1 DEF ClientHeadersType
  <2> QED  BY <1>2, <2>2 DEF Init, ClientType
<1>4. queue = <<>> /\ Len(<<>>) = 0 /\ <<>> \in Seq(Queued) /\ forwards = 0 /\ calls = 0
  BY DEF Init
<1>5. QueueInv
  BY <1>3, <1>4, BoundsAssumption DEF QueueInv
<1> QED  BY <1>1, <1>5

\* What was asked of an object, after a native that changes the object of h.
LEMMA AskedChange ==
    ASSUME HandleInv, AskedInv, NEW h \in Handles, handle[h] # NoObject, NEW obj \in ObjectType,
           object' = [object EXCEPT ![handle[h]] = obj],
           \/ asked' = asked /\ obj.headers = object[handle[h]].headers
           \/ \E n \in Names, v \in Values :
                 /\ obj.headers = SetHeader(object[handle[h]].headers, n, Formatted(v))
                 /\ asked' = [asked EXCEPT ![handle[h]] = SetHeader(@, n, v)]
    PROVE  AskedInv'
<1> DEFINE o == handle[h]
<1>1. o \in Objects /\ object[o].live /\ object[o] \in ObjectType
  BY OpenObject
<1>2. asked \in [Objects -> AskedType] /\ object \in [Objects -> ObjectType]
      /\ Extends(object[o].headers, asked[o])
  BY <1>1 DEF AskedInv, HandleInv
<1>3. asked' \in [Objects -> AskedType] /\ Extends(obj.headers, asked'[o])
      /\ \A p \in Objects : p # o => asked'[p] = asked[p]
  <2>1. CASE asked' = asked /\ obj.headers = object[o].headers
    BY <1>2, <2>1
  <2>2. ASSUME NEW n \in Names, NEW v \in Values,
               obj.headers = SetHeader(object[o].headers, n, Formatted(v)),
               asked' = [asked EXCEPT ![o] = SetHeader(@, n, v)]
        PROVE  <1>3!:
    <3>1. SetHeader(asked[o], n, v) \in AskedType
      BY <1>1, <1>2, SetAskedType
    <3>2. Extends(SetHeader(object[o].headers, n, Formatted(v)), SetHeader(asked[o], n, v))
      BY <1>2, ExtendsSet
    <3>3. asked'[o] = SetHeader(asked[o], n, v)
      BY <1>1, <1>2, <2>2
    <3> QED  BY <1>1, <1>2, <2>2, <3>1, <3>2, <3>3
  <2> QED  BY <2>1, <2>2
<1>4. object'[o] = obj /\ \A p \in Objects : p # o => object'[p] = object[p]
  BY <1>1, <1>2
<1>5. ASSUME NEW p \in Objects, object'[p].live PROVE Extends(object'[p].headers, asked'[p])
  <2>1. CASE p = o
    BY <1>3, <1>4, <2>1
  <2>2. CASE p # o
    BY <1>3, <1>4, <1>5, <2>2 DEF AskedInv
  <2> QED  BY <2>1, <2>2
<1> QED  BY <1>3, <1>5 DEF AskedInv

\* The object of a handle that is freed is gone, or as obj says.
LEMMA AskedFree ==
    ASSUME HandleInv, AskedInv, NEW h \in Handles, handle[h] # NoObject, NEW obj,
           Extends(obj.headers, asked[handle[h]]), FreeHandle(h, obj), asked' = asked
    PROVE  AskedInv'
<1>1. /\ asked' \in [Objects -> AskedType] /\ handle[h] \in Objects
      /\ object' = [o \in Objects |-> IF o \in Destroyed(h) THEN NoMemory
                                      ELSE IF o = handle[h] THEN obj ELSE object[o]]
  BY DEF FreeHandle, AskedInv, HandleInv
<1>2. ASSUME NEW p \in Objects, object'[p].live PROVE Extends(object'[p].headers, asked'[p])
  <2>1. CASE p \in Destroyed(h)
    BY <1>1, <1>2, <2>1, NoMemoryType
  <2>2. CASE p \notin Destroyed(h) /\ p = handle[h]
    BY <1>1, <2>2
  <2>3. CASE p \notin Destroyed(h) /\ p # handle[h]
    BY <1>1, <1>2, <2>3 DEF AskedInv
  <2> QED  BY <2>1, <2>2, <2>3
<1> QED  BY <1>1, <1>2 DEF AskedInv

LEMMA AskedBuild ==
    ASSUME HandleInv, AskedInv, NEW h \in Handles,
           \/ SetBasicAuth(h)
           \/ \E p \in Params : AppendQueryParam(h, p) \/ AppendFormParam(h, p)
           \/ \E n \in Names, v \in Values : SetRequestHeader(h, n, v)
           \/ \E p \in DOMAIN RequestDefaults, v \in Settings : SetOption(h, p, v)
    PROVE  AskedInv'
<1> DEFINE o == handle[h]
           obj == object[o]
<1>1. o # NoObject
  BY DEF SetBasicAuth, AppendQueryParam, AppendFormParam, SetRequestHeader, SetOption, Closed
<1>2. o \in Objects /\ obj \in ObjectType
  BY <1>1, OpenObject
<1>3. object' \in [Objects -> ObjectType] /\ object \in [Objects -> ObjectType]
  BY BuildChanges, ChangesInv DEF HandleInv
<1>4. ASSUME NEW new, object' = [object EXCEPT ![o] = new] PROVE new \in ObjectType /\ new = object'[o]
  BY <1>2, <1>3, <1>4
<1>5. CASE SetBasicAuth(h)
  <2>1. object' = [object EXCEPT ![o] = [obj EXCEPT !.auth = TRUE]] /\ asked' = asked
    BY <1>5 DEF SetBasicAuth, Change
  <2>2. [obj EXCEPT !.auth = TRUE].headers = obj.headers
    BY <1>2 DEF ObjectType
  <2> QED  BY <1>1, <1>4, <2>1, <2>2, AskedChange
<1>6. ASSUME NEW p \in Params, AppendQueryParam(h, p) PROVE AskedInv'
  <2>1. object' = [object EXCEPT ![o] = [obj EXCEPT !.query = Append(@, p)]] /\ asked' = asked
    BY <1>6 DEF AppendQueryParam, Change
  <2>2. [obj EXCEPT !.query = Append(@, p)].headers = obj.headers
    BY <1>2 DEF ObjectType
  <2> QED  BY <1>1, <1>4, <2>1, <2>2, AskedChange
<1>7. ASSUME NEW p \in Params, AppendFormParam(h, p) PROVE AskedInv'
  <2>1. object' = [object EXCEPT ![o] = [obj EXCEPT !.form = Append(@, p)]] /\ asked' = asked
    BY <1>7 DEF AppendFormParam, Change
  <2>2. [obj EXCEPT !.form = Append(@, p)].headers = obj.headers
    BY <1>2 DEF ObjectType
  <2> QED  BY <1>1, <1>4, <2>1, <2>2, AskedChange
<1>8. ASSUME NEW n \in Names, NEW v \in Values, SetRequestHeader(h, n, v) PROVE AskedInv'
  <2>1. /\ object' = [object EXCEPT ![o] = [obj EXCEPT !.headers = SetHeader(@, n, Formatted(v))]]
        /\ asked' = [asked EXCEPT ![o] = SetHeader(@, n, v)]
    BY <1>8 DEF SetRequestHeader, Change
  <2>2. [obj EXCEPT !.headers = SetHeader(@, n, Formatted(v))].headers
           = SetHeader(obj.headers, n, Formatted(v))
    BY <1>2 DEF ObjectType
  <2> QED  BY <1>1, <1>4, <2>1, <2>2, AskedChange
<1>9. ASSUME NEW p \in DOMAIN RequestDefaults, NEW v \in Settings, SetOption(h, p, v)
      PROVE  AskedInv'
  <2>1. object' = [object EXCEPT ![o] = [obj EXCEPT !.options[p] = v]] /\ asked' = asked
    BY <1>9 DEF SetOption, Change
  <2>2. [obj EXCEPT !.options[p] = v].headers = obj.headers
    BY <1>2 DEF ObjectType
  <2> QED  BY <1>1, <1>4, <2>1, <2>2, AskedChange
<1> QED  BY <1>5, <1>6, <1>7, <1>8, <1>9

LEMMA AskedStep ==
    ASSUME HandleInv, AskedInv, [Next]_rvars
    PROVE  AskedInv'
<1>1. ASSUME NEW h \in Handles, NEW o \in Objects, NEW url \in {"plain", "query"},
             CreateRequest(h, o, url)
      PROVE  AskedInv'
  <2>1. /\ object' = [object EXCEPT ![o] = NewRequest(url)]
        /\ asked' = [asked EXCEPT ![o] = <<>>]
        /\ asked \in [Objects -> AskedType] /\ object \in [Objects -> ObjectType]
    BY <1>1 DEF CreateRequest, AskedInv, HandleInv
  <2>2. asked' \in [Objects -> AskedType] /\ asked'[o] = <<>>
    BY <2>1, NothingAsked
  <2>3. ASSUME NEW p \in Objects, object'[p].live PROVE Extends(object'[p].headers, asked'[p])
    <3>1. CASE p = o
      BY <2>2, <3>1, NothingAsked DEF Extends
    <3>2. CASE p # o
      BY <2>1, <2>3, <3>2 DEF AskedInv
    <3> QED  BY <3>1, <3>2
  <2> QED  BY <2>2, <2>3 DEF AskedInv
<1>2. ASSUME NEW h \in Handles, CloseHandle(h) PROVE AskedInv'
  <2>1. handle[h] # NoObject /\ FreeHandle(h, object[handle[h]]) /\ asked' = asked
    BY <1>2 DEF CloseHandle, Closed
  <2>2. Extends(object[handle[h]].headers, asked[handle[h]])
    BY <2>1, OpenObject DEF AskedInv
  <2> QED  BY <2>1, <2>2, AskedFree
<1>3. ASSUME NEW h \in Handles, NEW kind \in Kinds, Perform(h, kind) PROVE AskedInv'
  <2>1. /\ handle[h] # NoObject /\ FreeHandle(h, Prepare(kind, object[handle[h]]))
        /\ asked' = asked
    BY <1>3 DEF Perform, AfterPerform, Closed
  <2>2. object[handle[h]] \in ObjectType /\ Extends(object[handle[h]].headers, asked[handle[h]])
    BY <2>1, OpenObject DEF AskedInv
  <2>3. Extends(Prepare(kind, object[handle[h]]).headers, asked[handle[h]])
    BY <2>2, PrepareHeaders
  <2> QED  BY <2>1, <2>3, AskedFree
<1>4. CASE UNCHANGED <<object, asked>>
  BY <1>4 DEF AskedInv
<1>5. CASE \/ \E h, g \in Handles : CloneHandle(h, g)
           \/ \E h \in Handles : PerformThrows(h)
           \/ \E n \in Names, v \in Values : SetClientHeader(n, v)
           \/ \E p \in DOMAIN ClientDefaults, v \in Settings : SetClientOption(p, v)
           \/ \E follow \in BOOLEAN : SetClientFollowLocation(follow)
           \/ \E kind \in {"json", "download", "upload"} : ClientRequest(kind)
           \/ ClientRequestFails
           \/ TakeContext
           \/ UNCHANGED rvars
  BY <1>4, <1>5 DEF CloneHandle, PerformThrows, SetClientHeader, SetClientOption,
                    SetClientFollowLocation, ClientRequest, ClientRequestFails, TakeContext, rvars
<1>6. CASE \E h \in Handles :
              \/ SetBasicAuth(h)
              \/ \E p \in Params : AppendQueryParam(h, p) \/ AppendFormParam(h, p)
              \/ \E n \in Names, v \in Values : SetRequestHeader(h, n, v)
              \/ \E p \in DOMAIN RequestDefaults, v \in Settings : SetOption(h, p, v)
  BY <1>6, AskedBuild
<1> QED  BY <1>1, <1>2, <1>3, <1>5, <1>6 DEF Next, Kinds

\* A request is queued together with its forward.
LEMMA QueueAppend ==
    ASSUME QueueInv, Call, Len(queue) < MaxQueue, NEW c \in Queued, queue' = Append(queue, c),
           NewForward, UNCHANGED client
    PROVE  QueueInv'
<1>1. Append(queue, c) \in Seq(Queued) /\ Len(Append(queue, c)) = Len(queue) + 1
  BY AppendProperties DEF QueueInv
<1>2. Len(queue) \in Nat /\ calls' \in 0..MaxCalls
  BY BoundsAssumption DEF QueueInv, Call
<1> QED  BY <1>1, <1>2, BoundsAssumption DEF QueueInv, NewForward

\* A native that queues nothing.
LEMMA QueueKept ==
    ASSUME QueueInv, UNCHANGED queue, client' \in ClientType, forwards' \in {forwards, forwards + 1},
           Call \/ calls' = calls
    PROVE  QueueInv'
<1>1. Len(queue) \in Nat
  BY DEF QueueInv
<1> QED  BY <1>1, BoundsAssumption DEF QueueInv, Call

LEMMA QueueStep ==
    ASSUME HandleInv, AskedInv, QueueInv, [Next]_rvars
    PROVE  QueueInv'
<1>1. ASSUME NEW h \in Handles, NEW kind \in Kinds, Perform(h, kind) PROVE QueueInv'
  <2> DEFINE o == handle[h]
             c == Context(kind, o, object[o], Prepare(kind, object[o]))
  <2>1. /\ Call /\ o # NoObject /\ Len(queue) < MaxQueue /\ NewForward /\ UNCHANGED client
        /\ queue' = Append(queue, c)
    BY <1>1 DEF Perform, Closed
  <2>2. /\ o \in Objects /\ object[o] \in ObjectType /\ asked[o] \in AskedType
        /\ Extends(object[o].headers, asked[o])
    BY <2>1, OpenObject DEF AskedInv
  <2>3. c \in Queued
    BY <2>2, ContextQueued
  <2> QED  BY <2>1, <2>3, QueueAppend
<1>2. ASSUME NEW kind \in {"json", "download", "upload"}, ClientRequest(kind) PROVE QueueInv'
  <2> DEFINE c == [kind |-> kind, of |-> NoObject,
                   asked |-> [n \in DOMAIN client.headers |-> client.headers[n].text],
                   url |-> <<"plain">>,
                   headers |-> IF kind = "json" THEN ClientHeaders(Json, Json)
                               ELSE ClientHeaders(AnyType, Octets),
                   form |-> <<>>, auth |-> FALSE,
                   maxRedirects |-> IF client.follow THEN 5 ELSE 0, options |-> client.options]
  <2>1. /\ Call /\ Len(queue) < MaxQueue /\ NewForward /\ UNCHANGED client
        /\ queue' = Append(queue, c) /\ client \in ClientType
    BY <1>2 DEF ClientRequest, QueueInv
  <2>2. c \in Queued
    BY <2>1, ClientQueued
  <2> QED  BY <2>1, <2>2, QueueAppend
<1>3. CASE TakeContext
  <2>1. queue # <<>> /\ queue' = Tail(queue) /\ forwards' = forwards - 1 /\ UNCHANGED <<client, calls>>
    BY <1>3 DEF TakeContext
  <2>2. /\ Tail(queue) \in Seq(Queued) /\ Len(Tail(queue)) = Len(queue) - 1
        /\ Len(queue) \in Nat /\ Len(queue) > 0
    <3>1. queue \in Seq(Queued)
      BY DEF QueueInv
    <3> QED  BY <2>1, <3>1, HeadTailProperties, EmptySeq, LenProperties
  <2> QED  BY <2>1, <2>2, BoundsAssumption DEF QueueInv
<1>4. ASSUME NEW n \in Names, NEW v \in Values, SetClientHeader(n, v) PROVE QueueInv'
  <2>1. client.headers \in ClientHeadersType /\ client \in ClientType
    BY DEF QueueInv, ClientType
  <2>2. SetHeader(client.headers, n, String(v)) \in ClientHeadersType
    <3>1. PICK S \in SUBSET Names : client.headers \in [S -> {String(w) : w \in Values}]
      BY <2>1 DEF ClientHeadersType
    <3>2. S \cup {n} \in SUBSET Names /\ String(v) \in {String(w) : w \in Values}
      BY <3>1
    <3>3. SetHeader(client.headers, n, String(v)) \in [S \cup {n} -> {String(w) : w \in Values}]
      BY <3>1, <3>2 DEF SetHeader
    <3> QED  BY <3>2, <3>3 DEF ClientHeadersType
  <2>3. client' = [client EXCEPT !.headers = SetHeader(@, n, String(v))]
    BY <1>4 DEF SetClientHeader
  <2>4. client' \in ClientType
    BY <2>1, <2>2, <2>3 DEF ClientType
  <2> QED  BY <1>4, <2>4, QueueKept DEF SetClientHeader
<1>5. ASSUME NEW p \in DOMAIN ClientDefaults, NEW v \in Settings, SetClientOption(p, v)
      PROVE  QueueInv'
  <2>1. client.options \in ClientOptionsType /\ client \in ClientType
    BY DEF QueueInv, ClientType
  <2>2. [client.options EXCEPT ![p] = v] \in ClientOptionsType
    BY <2>1 DEF ClientOptionsType
  <2>3. client' = [client EXCEPT !.options = [client.options EXCEPT ![p] = v]]
    BY <1>5 DEF SetClientOption
  <2>4. client' \in ClientType
    BY <2>1, <2>2, <2>3 DEF ClientType
  <2> QED  BY <1>5, <2>4, QueueKept DEF SetClientOption
<1>6. ASSUME NEW follow \in BOOLEAN, SetClientFollowLocation(follow) PROVE QueueInv'
  <2>1. client' = [client EXCEPT !.follow = follow] /\ client \in ClientType
    BY <1>6 DEF SetClientFollowLocation, QueueInv
  <2>2. client' \in ClientType
    BY <2>1 DEF ClientType
  <2> QED  BY <1>6, <2>2, QueueKept DEF SetClientFollowLocation
<1>7. ASSUME UNCHANGED <<client, queue>>, forwards' \in {forwards, forwards + 1},
             Call \/ calls' = calls
      PROVE  QueueInv'
  <2>1. client' \in ClientType
    BY <1>7 DEF QueueInv
  <2> QED  BY <1>7, <2>1, QueueKept
<1>8. CASE \/ \E h \in Handles, o \in Objects, url \in {"plain", "query"} : CreateRequest(h, o, url)
           \/ \E h, g \in Handles : CloneHandle(h, g)
           \/ \E h \in Handles : CloseHandle(h) \/ SetBasicAuth(h) \/ PerformThrows(h)
           \/ ClientRequestFails
           \/ UNCHANGED rvars
  BY <1>7, <1>8 DEF CreateRequest, CloneHandle, CloseHandle, SetBasicAuth, Change, PerformThrows,
                    ClientRequestFails, rvars
<1>9. CASE \/ \E h \in Handles, p \in Params : AppendQueryParam(h, p) \/ AppendFormParam(h, p)
           \/ \E h \in Handles, n \in Names, v \in Values : SetRequestHeader(h, n, v)
           \/ \E h \in Handles, p \in DOMAIN RequestDefaults, v \in Settings : SetOption(h, p, v)
  BY <1>7, <1>9 DEF AppendQueryParam, AppendFormParam, SetRequestHeader, SetOption, Change
<1> QED  BY <1>1, <1>2, <1>3, <1>4, <1>5, <1>6, <1>8, <1>9 DEF Next, Kinds

RequestInv == HandleInv /\ AskedInv /\ QueueInv

LEMMA Invariance == Spec => []RequestInv
<1>1. Init => RequestInv
  BY InitInv, HeadersInit DEF RequestInv
<1>2. RequestInv /\ [Next]_rvars => RequestInv'
  BY NextInv, AskedStep, QueueStep DEF RequestInv
<1> QED  BY <1>1, <1>2, PTL DEF Spec

-----------------------------------------------------------------------------
(***************************************************************************)
(* Theorems                                                                *)
(***************************************************************************)

\* The variables have their types, and every context in the queue finds a
\* forward when its destructor releases one (CreateForwardEx, ReleaseForward).
THEOREM TypeCorrect == Spec => []TypeOK
<1>1. RequestInv => TypeOK
  <2> SUFFICES ASSUME RequestInv PROVE TypeOK
    OBVIOUS
  <2>1. \A o \in Objects : object[o].live \in BOOLEAN /\ object[o].auth \in BOOLEAN
    BY DEF RequestInv, HandleInv, ObjectType
  <2>2. client.follow \in BOOLEAN
    BY DEF RequestInv, QueueInv, ClientType
  <2>3. Len(queue) \in 0..MaxQueue
    <3>1. queue \in Seq(Queued) /\ Len(queue) <= MaxQueue
      BY DEF RequestInv, QueueInv
    <3> QED  BY <3>1, LenProperties, BoundsAssumption
  <2> QED  BY <2>1, <2>2, <2>3 DEF RequestInv, HandleInv, QueueInv, TypeOK
<1> QED  BY <1>1, Invariance, PTL

\* A queued context has one line for each header the plugin had set when the
\* request was performed, with the value set last and whole if it fits into the
\* buffers, whatever is done to the object or the client afterwards
\* (BuildHeaders and the constructors of the contexts).
THEOREM HeadersKept == Spec => []HeadersAsSet
<1>1. RequestInv => HeadersAsSet
  <2> SUFFICES ASSUME RequestInv, NEW i \in DOMAIN queue PROVE SendsAsked(queue[i])
    BY DEF HeadersAsSet, SendsAsked
  <2>1. queue \in Seq(Queued)
    BY DEF RequestInv, QueueInv
  <2>2. queue[i] \in Queued
    BY <2>1
  <2> QED  BY <2>2 DEF Queued
<1> QED  BY <1>1, Invariance, PTL

\* No handle of a plugin stands for an HTTPRequest that is gone, and no
\* HTTPRequest outlives its handles.
THEOREM HandleSafety == Spec => []HandlesLive
<1>1. HandleInv => HandlesLive
  BY DEF HandleInv
<1>2. HandleInv /\ [Next]_rvars => HandleInv'
  BY NextInv
<1>3. Init => HandleInv
  BY InitInv
<1> QED  BY <1>1, <1>2, <1>3, PTL DEF Spec

\* An HTTPRequest makes at most one request for each handle it has had.
THEOREM RequestOnce == Spec => []OneRequestPerHandle
<1>1. CountInv => OneRequestPerHandle
  BY DEF CountInv
<1>2. HandleInv /\ CountInv /\ [Next]_rvars => (HandleInv /\ CountInv)'
  BY NextInv
<1> QED  BY <1>1, <1>2, InitInv, PTL DEF Spec
=============================================================================
