-------------------------- MODULE RipExtRefinement --------------------------
(***************************************************************************)
(* RipExt implements Delivery: the proof that the two threads, their locks *)
(* and cURL together keep the promise of the abstract specification.       *)
(***************************************************************************)
EXTENDS RipExtProofs

\* What has arrived, while FrameHook has a context in hand: that context and
\* then the completed queue.
LEMMA ArrivedFacts ==
    ASSUME NEW S, NEW q \in Seq(S), NEW c \in S
    PROVE  /\ <<c>> \o q # <<>>
           /\ Head(<<c>> \o q) = c
           /\ Tail(<<c>> \o q) = q
<1>1. <<c>> \in Seq(S) /\ Len(<<c>>) = 1 /\ <<c>>[1] = c
  OBVIOUS
<1>2. /\ <<c>> \o q \in Seq(S)
      /\ Len(<<c>> \o q) = 1 + Len(q)
      /\ \A i \in 1 .. 1 + Len(q) :
            (<<c>> \o q)[i] = IF i <= 1 THEN <<c>>[i] ELSE q[i - 1]
  BY <1>1, ConcatProperties
<1>3. Len(q) \in Nat
  BY LenProperties
<1>4. <<c>> \o q # <<>>
  BY <1>2, <1>3, EmptySeq
<1>5. (<<c>> \o q)[1] = c
  BY <1>1, <1>2, <1>3
<1>6. /\ Head(<<c>> \o q) = (<<c>> \o q)[1]
      /\ Tail(<<c>> \o q) \in Seq(S)
      /\ Len(Tail(<<c>> \o q)) = Len(<<c>> \o q) - 1
      /\ \A i \in 1 .. Len(Tail(<<c>> \o q)) : Tail(<<c>> \o q)[i] = (<<c>> \o q)[i + 1]
  BY <1>2, <1>4, HeadTailProperties
<1>7. Tail(<<c>> \o q) = q
  BY <1>2, <1>3, <1>6, SeqEqual
<1> QED BY <1>4, <1>5, <1>6, <1>7

\* Popping a context and reading it as arrived changes nothing.
LEMMA PoppedFacts ==
    ASSUME NEW S, NEW q \in Seq(S), q # <<>>
    PROVE  <<PopItem(q)>> \o PopRest(q) = q
<1>1. /\ Head(q) \in S /\ Tail(q) \in Seq(S)
      /\ Head(q) = q[1]
      /\ Len(Tail(q)) = Len(q) - 1
      /\ \A i \in 1 .. Len(Tail(q)) : Tail(q)[i] = q[i + 1]
      /\ Len(q) \in Nat \ {0}
  BY HeadTailProperties, LenProperties, EmptySeq
<1>2. /\ <<Head(q)>> \in Seq(S) /\ Len(<<Head(q)>>) = 1 /\ <<Head(q)>>[1] = Head(q)
  BY <1>1
<1>3. /\ <<Head(q)>> \o Tail(q) \in Seq(S)
      /\ Len(<<Head(q)>> \o Tail(q)) = 1 + (Len(q) - 1)
      /\ \A i \in 1 .. 1 + (Len(q) - 1) :
            (<<Head(q)>> \o Tail(q))[i] = IF i <= 1 THEN <<Head(q)>>[i] ELSE Tail(q)[i - 1]
  BY <1>1, <1>2, ConcatProperties
<1>4. ASSUME NEW i \in 1 .. Len(q)
      PROVE  (<<Head(q)>> \o Tail(q))[i] = q[i]
  <2>1. CASE i = 1
    BY <1>1, <1>2, <1>3, <2>1
  <2>2. CASE i # 1
    <3>1. i - 1 \in 1 .. Len(Tail(q)) /\ (i - 1) + 1 = i /\ ~(i <= 1)
      BY <1>1, <2>2
    <3> QED BY <1>1, <1>3, <3>1
  <2> QED BY <2>1, <2>2
<1> QED BY <1>1, <1>3, <1>4, SeqEqual DEF PopItem, PopRest

-----------------------------------------------------------------------------
\* The initial state of the extension is that of the abstract specification.
LEMMA InitSimulation == Init => D!DInit
BY DEF Init, D!DInit, InFlight, Arrived, Called, Lost

\* A context that is held has not been delivered or lost, and one that is
\* submitted is not yet known to the abstract specification.
LEMMA FreshFacts ==
    ASSUME IndInv, NEW c \in Contexts, Held(c), mainPc # "delete" \/ completing # c,
           completing = c => mainPc = "completed"
    PROVE  c \notin Called /\ c \notin Lost
BY ContextsAssumption
   DEF IndInv, TypeOK, Control, NoDangling, CallbackInv, Called, Lost, Held

\* Every step of the extension is a step of the abstract specification or
\* changes nothing in it.
LEMMA StepSimulation ==
    ASSUME IndInv, IndInv', [Next]_vars
    PROVE  [D!DNext]_(D!dvars)
<1> USE ContextsAssumption
    DEF mainVars, loopVars, queueVars, asyncVars, curlVars, ctxVars, handleVars
<1>1. TypeOK /\ Control /\ SingleOwner /\ NoDangling /\ CallbackInv
  BY DEF IndInv
<1>2. CASE AddRequestToQueue
  <2>1. adding \in Contexts /\ reqQueue' = Append(reqQueue, adding)
    BY <1>1, <1>2, AddFacts DEF AddRequestToQueue, Push
  <2>2. adding \notin Range(reqQueue) \cup InFlight \cup Range(doneQueue)
    BY <1>1, <2>1 DEF SingleOwner, InFlight
  <2>3. Arrived = doneQueue /\ adding \notin Called /\ adding \notin Lost
    BY <1>1, <1>2, <2>1, FreshFacts
       DEF AddRequestToQueue, Arrived, Held, SingleOwner
  <2>4. UNCHANGED <<InFlight, Arrived, Called, Lost>>
    BY <1>1, <1>2 DEF AddRequestToQueue, InFlight, Arrived, Called, Lost
  <2> QED BY <2>1, <2>2, <2>3, <2>4 DEF D!DNext, D!Submit, D!Known, D!Range, Range
<1>3. CASE PerformNext
  <2> DEFINE c == PopItem(reqQueue)
  <2>1. /\ reqQueue # <<>> /\ reqQueue' = Tail(reqQueue)
        /\ c = Head(reqQueue) /\ multi' = multi \cup {c}
        /\ UNCHANGED <<pushing, mainPc, completing, doneQueue, calls, alloc>>
    BY <1>3 DEF PerformNext, MorePending, PopItem, PopRest, CurlMultiAdd
  <2>2. InFlight' = InFlight \cup {Head(reqQueue)}
    BY <2>1 DEF InFlight
  <2>3. UNCHANGED <<Arrived, Called, Lost>>
    BY <2>1 DEF Arrived, Called, Lost
  <2> QED BY <2>1, <2>2, <2>3 DEF D!DNext, D!Begin
<1>4. CASE PerformInitFailed
  <2> DEFINE c == PopItem(reqQueue)
  <2>1. /\ reqQueue # <<>> /\ reqQueue' = Tail(reqQueue)
        /\ c = Head(reqQueue) /\ alloc' = [alloc EXCEPT ![c] = "deleted"]
        /\ UNCHANGED <<pushing, multi, mainPc, completing, doneQueue, calls>>
    BY <1>4 DEF PerformInitFailed, MorePending, PopItem, PopRest, Delete
  <2>2. c \in Contexts /\ c \in Range(reqQueue)
    BY <1>1, <1>4, PopReqFacts
  <2>3. c \notin Called
    BY <1>1, <2>2, FreshFacts DEF Held, SingleOwner
  <2>4. calls[c] = 0
    BY <1>1, <2>2, <2>3 DEF TypeOK, Called
  <2>5. Lost' = Lost \cup {Head(reqQueue)}
    BY <1>1, <2>1, <2>2, <2>4 DEF TypeOK, Lost
  <2>6. UNCHANGED <<InFlight, Arrived, Called>>
    BY <2>1 DEF InFlight, Arrived, Called
  <2> QED BY <2>1, <2>5, <2>6 DEF D!DNext, D!Begin
<1>5. ASSUME NEW c \in Contexts, CheckCompletedRead(c)
      PROVE  UNCHANGED D!dvars
  <2>1. /\ pushing = NoContext /\ pushing' = c
        /\ c \in multi /\ multi' = multi \ {c}
        /\ UNCHANGED <<reqQueue, mainPc, completing, doneQueue, calls, alloc>>
    BY <1>1, <1>5 DEF CheckCompletedRead, CurlMultiRemove, TypeOK, Control
  <2>2. InFlight' = InFlight
    BY <2>1 DEF InFlight
  <2>3. UNCHANGED <<Arrived, Called, Lost>>
    BY <2>1 DEF Arrived, Called, Lost
  <2> QED BY <2>1, <2>2, <2>3 DEF D!dvars
<1>6. CASE CheckCompletedPush
  <2>1. /\ pushing \in Contexts /\ pushing \notin multi
        /\ doneQueue' = Append(doneQueue, pushing)
        /\ pushing' = NoContext
        /\ UNCHANGED <<reqQueue, multi, mainPc, completing, calls, alloc>>
    BY <1>1, <1>6, PushDoneFacts DEF CheckCompletedPush, Push, SingleOwner
  <2>2. pushing \in InFlight /\ InFlight' = InFlight \ {pushing}
    BY <2>1 DEF InFlight
  <2>3. mainPc # "completed"
    BY <1>1, <1>6 DEF Control, CheckCompletedPush
  <2>4. Arrived' = Append(Arrived, pushing)
    BY <2>1, <2>3 DEF Arrived
  <2>5. UNCHANGED <<Called, Lost>>
    BY <2>1 DEF Called, Lost
  <2> QED BY <2>1, <2>2, <2>4, <2>5 DEF D!DNext, D!Finish
<1>7. CASE FrameHookPop
  <2>1. /\ doneQueue # <<>> /\ doneQueue \in Seq(Contexts)
        /\ completing' = PopItem(doneQueue) /\ doneQueue' = PopRest(doneQueue)
        /\ mainPc = "pop" /\ mainPc' = "completed"
        /\ UNCHANGED <<reqQueue, multi, pushing, calls, alloc>>
    BY <1>1, <1>7 DEF FrameHookPop, TypeOK, Control
  <2>2. Arrived' = Arrived
    BY <2>1, PoppedFacts DEF Arrived
  <2>3. UNCHANGED <<InFlight, Called, Lost>>
    BY <2>1 DEF InFlight, Called, Lost
  <2> QED BY <2>1, <2>2, <2>3 DEF D!dvars
<1>8. CASE RequestOnCompleted \/ FormOnCompleted \/ FileOnCompleted
  <2>1. /\ mainPc = "completed"
        /\ UNCHANGED <<reqQueue, multi, pushing, doneQueue, completing, alloc>>
    BY <1>8 DEF RequestOnCompleted, FormOnCompleted, ResponseOnCompleted, FileOnCompleted
  <2>2. completing \in Contexts /\ doneQueue \in Seq(Contexts)
    BY <1>1, <2>1 DEF TypeOK, Control
  <2>3. completing \notin Called /\ completing \notin Lost
    BY <1>1, <2>1, <2>2, FreshFacts DEF Held
  <2>4. calls[completing] = 0
    BY <1>1, <2>2, <2>3 DEF TypeOK, Called
  <2>5. Arrived # <<>> /\ Head(Arrived) = completing /\ Tail(Arrived) = doneQueue
    BY <2>1, <2>2, ArrivedFacts DEF Arrived
  <2>6. \/ mainPc' = "callback" /\ calls' = [calls EXCEPT ![completing] = @ + 1]
        \/ mainPc' = "delete" /\ calls' = calls
    BY <1>8 DEF RequestOnCompleted, FormOnCompleted, ResponseOnCompleted, FileOnCompleted, ExecuteForward
  <2>7. Arrived' = doneQueue /\ InFlight' = InFlight
    BY <2>1, <2>6 DEF Arrived, InFlight
  <2>8. CASE mainPc' = "callback" /\ calls' = [calls EXCEPT ![completing] = @ + 1]
    <3>1. Called' = Called \cup {completing}
      BY <1>1, <2>2, <2>4, <2>8 DEF Called, TypeOK
    <3>2. alloc[completing] # "deleted"
      BY <1>1, <2>2 DEF NoDangling, Held
    <3>3. Lost' = Lost
      BY <1>1, <2>1, <2>2, <2>4, <2>8, <3>2 DEF Lost, TypeOK
    <3> QED BY <2>1, <2>5, <2>7, <3>1, <3>3 DEF D!DNext, D!Deliver
  <2>9. CASE mainPc' = "delete" /\ calls' = calls
    <3>1. Lost' = Lost \cup {completing} /\ Called' = Called
      BY <2>1, <2>2, <2>4, <2>9 DEF Lost, Called
    <3> QED BY <2>1, <2>5, <2>7, <3>1 DEF D!DNext, D!Deliver
  <2> QED BY <2>6, <2>8, <2>9
<1>9. CASE DeleteContext
  <2>1. /\ mainPc = "delete" /\ mainPc' = "idle"
        /\ alloc' = [alloc EXCEPT ![completing] = "deleted"]
        /\ completing' = NoContext
        /\ UNCHANGED <<reqQueue, multi, pushing, doneQueue, calls>>
    BY <1>9 DEF DeleteContext, Delete
  <2>2. completing \in Contexts
    BY <1>1, <2>1 DEF TypeOK, Control
  <2>3. Lost' = Lost
    BY <1>1, <2>1, <2>2 DEF Lost, TypeOK
  <2>4. UNCHANGED <<InFlight, Arrived, Called>>
    BY <2>1 DEF InFlight, Arrived, Called
  <2> QED BY <2>1, <2>3, <2>4 DEF D!dvars
<1>10. ASSUME NEW c \in Contexts, NEW p \in Plugins, CreateContext(c, p)
       PROVE  UNCHANGED D!dvars
  <2>1. /\ mainPc \in {"idle", "callback"} /\ mainPc' = "add"
        /\ alloc[c] = "unused" /\ alloc' = [alloc EXCEPT ![c] = "live"]
        /\ UNCHANGED <<reqQueue, multi, pushing, doneQueue, completing, calls>>
    BY <1>10 DEF CreateContext
  <2>2. Lost' = Lost
    BY <1>1, <2>1 DEF Lost, TypeOK
  <2>3. UNCHANGED <<InFlight, Arrived, Called>>
    BY <2>1 DEF InFlight, Arrived, Called
  <2> QED BY <2>1, <2>2, <2>3 DEF D!dvars
<1>11. CASE CallbackReturn
  <2>1. /\ mainPc = "callback" /\ mainPc' = "delete"
        /\ UNCHANGED <<reqQueue, multi, pushing, doneQueue, completing, calls, alloc>>
    BY <1>11 DEF CallbackReturn
  <2>2. completing \in Contexts /\ calls[completing] = 1
    BY <1>1, <2>1 DEF TypeOK, Control, CallbackInv
  <2>3. Lost' = Lost
    BY <2>1, <2>2 DEF Lost
  <2>4. UNCHANGED <<InFlight, Arrived, Called>>
    BY <2>1 DEF InFlight, Arrived, Called
  <2> QED BY <2>1, <2>3, <2>4 DEF D!dvars
<1>12. ASSUME UNCHANGED <<reqQueue, multi, pushing, doneQueue, completing, calls, alloc>>,
              \/ UNCHANGED mainPc
              \/ /\ mainPc \notin {"completed", "delete"}
                 /\ mainPc' \notin {"completed", "delete"}
       PROVE  UNCHANGED D!dvars
  BY <1>12 DEF D!dvars, InFlight, Arrived, Called, Lost
<1>13. CASE SDK_OnLoad \/ FrameHook \/ FrameHookCheckDone \/ SDK_OnUnload \/
            SDK_OnUnloadJoined
  BY <1>12, <1>13 DEF SDK_OnLoad, FrameHook, FrameHookCheckDone, SDK_OnUnload,
                      SDK_OnUnloadJoined
<1>14. CASE GetResponseData \/ CloseDataHandle \/ (\E p \in Plugins : PluginUnload(p))
  BY <1>12, <1>14 DEF GetResponseData, CloseDataHandle, PluginUnload
<1>15. CASE DispatchPerform \/ PerformLock \/ PerformUnlock \/ CheckCompletedLock \/
            CheckCompletedEnd \/ AsyncStopLoop \/ EventLoopExit
  BY <1>12, <1>15 DEF DispatchPerform, PerformLock, PerformUnlock,
                      CheckCompletedLock, CheckCompletedEnd, AsyncStopLoop,
                      EventLoopExit
<1>16. CASE \E S \in SUBSET Contexts : PerformRequests(S) \/ CurlSocketActivity(S)
  BY <1>12, <1>16 DEF PerformRequests, CurlSocketActivity, SocketAction
<1>17. CASE UNCHANGED vars
  BY <1>12, <1>17 DEF vars
<1> QED BY <1>2, <1>3, <1>4, <1>5, <1>6, <1>7, <1>8, <1>9, <1>10, <1>11, <1>13,
           <1>14, <1>15, <1>16, <1>17
           DEF Next, Natives, Submit, PerformRequest, PerformFile,
               PerformPostForm, ClientRequest, ClientFile, MainStep, LoopStep,
               Terminated

\* The extension, with both threads and every failure it handles, implements
\* the abstract specification Delivery: order of submission, order of
\* completion, at most one delivery.
THEOREM Implements == Spec => Promise
<1>1. Spec => []IndInv
  BY Invariance
<1>2. IndInv /\ IndInv' /\ [Next]_vars => [D!DNext]_(D!dvars)
  BY StepSimulation
<1> QED BY InitSimulation, <1>1, <1>2, PTL DEF Spec, Promise, D!DSpec
=============================================================================
