---------------------------- MODULE RipExtProofs ----------------------------
(***************************************************************************)
(* Machine-checked proofs about RipExt, for every choice of contexts,      *)
(* plugins and MaxProcess.                                                 *)
(***************************************************************************)
EXTENDS RipExt, SequenceTheorems, TLAPS

-----------------------------------------------------------------------------
(***************************************************************************)
(* The inductive invariant behind the safety properties.  The properties   *)
(* alone are not preserved by a step: that FrameHookPop finds a context,   *)
(* say, rests on what the program counters say about the locks.            *)
(***************************************************************************)

\* What the position of a thread says about its locks, about the pointers it
\* has in hand and about what it has still to do.
Control ==
    /\ mainPc = "unloaded" => loopPc = "none"
    /\ mainPc = "add" <=> adding # NoContext
    /\ mainPc \in {"completed", "callback", "delete"} => completing # NoContext
    /\ completing # NoContext => mainPc \in {"completed", "callback", "add", "delete"}
    /\ doneLock = "main" <=> completing # NoContext
    /\ doneLock = "loop" <=> loopPc = "push"
    /\ pushing # NoContext <=> loopPc \in {"lockDone", "push"}
    /\ reqLock = "loop" <=> loopPc = "perform"
    /\ reqLock # "main"
    /\ mainPc = "pop" => doneQueue # <<>> \/ loopPc = "push"
    /\ finished # {} => loopPc \in {"check", "lockDone", "push"}

\* Once a callback has run its context is on the way out; while it runs its
\* plugin is loaded.
CallbackInv ==
    /\ \A c \in Contexts :
          /\ calls[c] <= 1
          /\ calls[c] = 1 => \/ alloc[c] = "deleted"
                             \/ completing = c /\ mainPc \in {"callback", "add", "delete"}
    /\ mainPc \in {"callback", "add"} /\ completing # NoContext
          => owner[completing] \in loaded /\ calls[completing] = 1

\* The handles that are open are those of the callback that is running.
HandleInv ==
    /\ hndlResponse # NoContext => /\ hndlResponse = completing
                                   /\ mainPc \in {"callback", "add"}
    /\ hndlData # "bad" => hndlResponse # NoContext
    /\ dataHandles = IF hndlData = "open" THEN 1 ELSE 0

\* The inductive invariant: every reachable state of the extension satisfies
\* it, and every step preserves it.
IndInv ==
    /\ TypeOK
    /\ Control
    /\ SingleOwner
    /\ NoDangling
    /\ NoLeak
    /\ CallbackInv
    /\ HandleInv
    /\ FileOpenWhileUsed

-----------------------------------------------------------------------------
(***************************************************************************)
(* The operations of LockedQueue, as facts about the set of queued items.  *)
(***************************************************************************)

\* LockedQueue::Push adds its argument to the items of the queue, which stay
\* pairwise different when the argument was not among them.
LEMMA PushFacts ==
    ASSUME NEW S, NEW q \in Seq(S), NEW c \in S
    PROVE  /\ Push(q, c) \in Seq(S)
           /\ Push(q, c) # <<>>
           /\ Range(Push(q, c)) = Range(q) \cup {c}
           /\ IsInjective(q) /\ c \notin Range(q) => IsInjective(Push(q, c))
<1> DEFINE r == Append(q, c)
<1>1. /\ r \in Seq(S)
      /\ r # <<>>
      /\ Len(r) = Len(q) + 1
      /\ \A i \in 1..Len(q) : r[i] = q[i]
      /\ r[Len(r)] = c
  BY AppendProperties
<1>2. DOMAIN q = 1..Len(q) /\ DOMAIN r = 1..Len(r) /\ Len(q) \in Nat
  BY <1>1, LenProperties
<1>3. Range(r) = Range(q) \cup {c}
  <2>1. Range(r) \subseteq Range(q) \cup {c}
    BY <1>1, <1>2 DEF Range
  <2>2. Range(q) \cup {c} \subseteq Range(r)
    BY <1>1, <1>2 DEF Range
  <2> QED BY <2>1, <2>2
<1>4. ASSUME IsInjective(q), c \notin Range(q)
      PROVE  IsInjective(r)
  <2> SUFFICES ASSUME NEW a \in DOMAIN r, NEW b \in DOMAIN r, r[a] = r[b]
               PROVE  a = b
    BY DEF IsInjective
  <2>1. \A i \in 1..Len(q) : r[i] # c
    BY <1>1, <1>2, <1>4 DEF Range
  <2>2. CASE a \in 1..Len(q) /\ b \in 1..Len(q)
    BY <1>1, <1>2, <1>4, <2>2 DEF IsInjective
  <2>3. CASE a \notin 1..Len(q) \/ b \notin 1..Len(q)
    BY <1>1, <1>2, <2>1, <2>3
  <2> QED BY <2>2, <2>3
<1> QED BY <1>1, <1>3, <1>4 DEF Push

\* LockedQueue::Pop returns an item of the queue and leaves the others.
LEMMA PopFacts ==
    ASSUME NEW S, NEW q \in Seq(S), q # <<>>
    PROVE  /\ PopRest(q) \in Seq(S)
           /\ PopItem(q) \in S
           /\ PopItem(q) \in Range(q)
           /\ Range(PopRest(q)) \subseteq Range(q)
           /\ IsInjective(q) => /\ IsInjective(PopRest(q))
                                /\ Range(PopRest(q)) = Range(q) \ {PopItem(q)}
<1> DEFINE r == Tail(q)
<1>1. /\ r \in Seq(S)
      /\ Len(r) = Len(q) - 1
      /\ \A i \in 1..Len(r) : r[i] = q[i + 1]
      /\ Head(q) = q[1]
      /\ Len(q) \in Nat \ {0}
  BY HeadTailProperties, LenProperties, EmptySeq
<1>2. DOMAIN q = 1..Len(q) /\ DOMAIN r = 1..Len(r) /\ Len(r) \in Nat
  BY <1>1, LenProperties
<1>3. q[1] \in S /\ q[1] \in Range(q)
  <2>1. 1 \in 1..Len(q)
    BY <1>1
  <2> QED BY <1>2, <2>1, ElementOfSeq DEF Range
<1>4. Range(r) \subseteq Range(q)
  BY <1>1, <1>2 DEF Range
<1>5. ASSUME IsInjective(q)
      PROVE  IsInjective(r) /\ Range(r) = Range(q) \ {q[1]}
  <2>1. \A i \in 1..Len(r) : i + 1 \in 1..Len(q) /\ i + 1 # 1
    BY <1>1, <1>2
  <2>2. IsInjective(r)
    <3> SUFFICES ASSUME NEW a \in DOMAIN r, NEW b \in DOMAIN r, r[a] = r[b]
                 PROVE  a = b
      BY DEF IsInjective
    <3>1. a + 1 = b + 1
      BY <1>1, <1>2, <1>5, <2>1 DEF IsInjective
    <3> QED BY <1>2, <3>1
  <2>3. q[1] \notin Range(r)
    <3> SUFFICES ASSUME NEW i \in 1..Len(r), r[i] = q[1]
                 PROVE  FALSE
      BY <1>2 DEF Range
    <3>1. i + 1 = 1
      BY <1>1, <1>2, <1>5, <2>1 DEF IsInjective
    <3> QED BY <2>1, <3>1
  <2>4. ASSUME NEW x \in Range(q), x # q[1]
        PROVE  x \in Range(r)
    <3>1. PICK i \in 1..Len(q) : x = q[i]
      BY <1>2 DEF Range
    <3>2. i - 1 \in 1..Len(r) /\ (i - 1) + 1 = i
      BY <1>1, <1>2, <2>4, <3>1
    <3>3. r[i - 1] = x
      BY <1>1, <3>1, <3>2
    <3> QED BY <1>2, <3>2, <3>3 DEF Range
  <2> QED BY <1>4, <2>2, <2>3, <2>4
<1> QED BY <1>1, <1>3, <1>4, <1>5 DEF PopItem, PopRest

-----------------------------------------------------------------------------
(***************************************************************************)
(* The same for the four steps that change a queue.                        *)
(***************************************************************************)

\* AddRequestToQueue puts the context of the native into the request queue.
LEMMA AddFacts ==
    ASSUME TypeOK, Control, AddRequestToQueue
    PROVE  /\ adding \in Contexts
           /\ reqQueue' \in Seq(Contexts)
           /\ Range(reqQueue') = Range(reqQueue) \cup {adding}
           /\ IsInjective(reqQueue) /\ adding \notin Range(reqQueue)
                 => IsInjective(reqQueue')
<1>1. adding \in Contexts
  BY DEF TypeOK, Control, AddRequestToQueue
<1>2. reqQueue \in Seq(Contexts) /\ reqQueue' = Push(reqQueue, adding)
  BY DEF TypeOK, AddRequestToQueue
<1> QED BY <1>1, <1>2, PushFacts

\* CheckCompletedRequests puts the context it has read into the completed
\* queue, which is then not empty.
LEMMA PushDoneFacts ==
    ASSUME TypeOK, Control, CheckCompletedPush
    PROVE  /\ pushing \in Contexts
           /\ doneQueue' \in Seq(Contexts)
           /\ doneQueue' # <<>>
           /\ Range(doneQueue') = Range(doneQueue) \cup {pushing}
           /\ IsInjective(doneQueue) /\ pushing \notin Range(doneQueue)
                 => IsInjective(doneQueue')
<1>1. pushing \in Contexts
  BY DEF TypeOK, Control, CheckCompletedPush
<1>2. doneQueue \in Seq(Contexts) /\ doneQueue' = Push(doneQueue, pushing)
  BY DEF TypeOK, CheckCompletedPush
<1>3. /\ Push(doneQueue, pushing) \in Seq(Contexts)
      /\ Push(doneQueue, pushing) # <<>>
      /\ Range(Push(doneQueue, pushing)) = Range(doneQueue) \cup {pushing}
      /\ IsInjective(doneQueue) /\ pushing \notin Range(doneQueue)
            => IsInjective(Push(doneQueue, pushing))
  BY <1>1, <1>2, PushFacts
<1> QED BY <1>1, <1>2, <1>3, Zenon

\* FrameHook takes a context out of the completed queue: the queue is not
\* empty, although its emptiness was checked before the lock was taken.
LEMMA PopDoneFacts ==
    ASSUME TypeOK, Control, FrameHookPop
    PROVE  /\ completing' \in Contexts
           /\ completing' \in Range(doneQueue)
           /\ doneQueue' \in Seq(Contexts)
           /\ IsInjective(doneQueue) =>
                 /\ IsInjective(doneQueue')
                 /\ Range(doneQueue') = Range(doneQueue) \ {completing'}
<1>1. doneQueue # <<>>
  BY DEF Control, FrameHookPop
<1> QED BY <1>1, PopFacts DEF TypeOK, FrameHookPop

\* AsyncPerformRequests takes a context out of the request queue.
LEMMA PopReqFacts ==
    ASSUME TypeOK, PerformNext \/ PerformInitFailed
    PROVE  /\ PopItem(reqQueue) \in Contexts
           /\ PopItem(reqQueue) \in Range(reqQueue)
           /\ reqQueue' \in Seq(Contexts)
           /\ IsInjective(reqQueue) =>
                 /\ IsInjective(reqQueue')
                 /\ Range(reqQueue') = Range(reqQueue) \ {PopItem(reqQueue)}
<1>1. reqQueue # <<>> /\ reqQueue' = PopRest(reqQueue)
  BY DEF PerformNext, PerformInitFailed, MorePending
<1> QED BY <1>1, PopFacts DEF TypeOK

\* InitCurl opens the file of a file context and touches no other.
LEMMA InitCurlFacts ==
    ASSUME TypeOK, NEW c \in Contexts, InitCurl(c)
    PROVE  /\ file' \in [Contexts -> {"null", "open", "closed"}]
           /\ \A d \in FileContexts : file'[d] = IF d = c THEN "open" ELSE file[d]
<1>1. file \in [Contexts -> {"null", "open", "closed"}]
  BY DEF TypeOK
<1>2. CASE c \in FileContexts
  BY <1>1, <1>2, ContextsAssumption
     DEF InitCurl, RequestInitCurl, FormInitCurl, FileInitCurl, Contexts
<1>3. CASE c \notin FileContexts
  BY <1>1, <1>3 DEF InitCurl, RequestInitCurl, FormInitCurl, FileInitCurl
<1> QED BY <1>2, <1>3

-----------------------------------------------------------------------------
(***************************************************************************)
(* Every step preserves each part of the inductive invariant.              *)
(***************************************************************************)

\* Every step keeps the flags Boolean.
LEMMA FlagsStep ==
    ASSUME IndInv, [Next]_vars
    PROVE  FlagsOK'
<1> USE ContextsAssumption DEF mainVars, loopVars, queueVars, asyncVars, curlVars, ctxVars, handleVars
<1>1. FlagsOK
  BY DEF IndInv, TypeOK
<1>2. CASE SDK_OnLoad
  BY <1>1, <1>2 DEF SDK_OnLoad, FlagsOK
<1>3. CASE FrameHook
  BY <1>1, <1>3 DEF FrameHook, FlagsOK
<1>4. CASE SDK_OnUnload
  BY <1>1, <1>4 DEF SDK_OnUnload, FlagsOK
<1>5. CASE DispatchPerform
  BY <1>1, <1>5 DEF DispatchPerform, FlagsOK
<1>6. CASE PerformNext
  BY <1>1, <1>6 DEF PerformNext, MorePending, CurlMultiAdd, FlagsOK
<1>7. ASSUME NEW S \in SUBSET Contexts,
             PerformRequests(S)
      PROVE  FlagsOK'
  BY <1>1, <1>7 DEF PerformRequests, SocketAction, CurlTimeoutCallback,
       FlagsOK
<1>8. ASSUME NEW S \in SUBSET Contexts,
             CurlSocketActivity(S)
      PROVE  FlagsOK'
  BY <1>1, <1>8 DEF CurlSocketActivity, SocketAction, CurlTimeoutCallback,
       FlagsOK
<1>9. ASSUME NEW c \in Contexts,
             CheckCompletedRead(c)
      PROVE  FlagsOK'
  BY <1>1, <1>9 DEF CheckCompletedRead, CurlMultiRemove,
       CurlTimeoutCallback, FlagsOK
<1>10. CASE AsyncStopLoop
  BY <1>1, <1>10 DEF AsyncStopLoop, FlagsOK
<1>11. CASE (\E c \in Contexts, p \in Plugins : CreateContext(c, p)) \/
            AddRequestToQueue \/ FrameHookCheckDone \/ FrameHookPop \/
            RequestOnCompleted \/ FormOnCompleted \/ FileOnCompleted \/
            GetResponseData \/ CloseDataHandle \/ CallbackReturn \/
            DeleteContext \/ (\E p \in Plugins : PluginUnload(p)) \/
            SDK_OnUnloadJoined \/ PerformLock \/ PerformInitFailed \/
            PerformUnlock \/ CheckCompletedLock \/ CheckCompletedPush \/
            CheckCompletedEnd \/ EventLoopExit
  BY <1>1, <1>11 DEF CreateContext, AddRequestToQueue, FrameHookCheckDone,
       FrameHookPop, RequestOnCompleted, ResponseOnCompleted,
       ExecuteForward, FormOnCompleted, FileOnCompleted, GetResponseData,
       CloseDataHandle, CallbackReturn, DeleteContext, PluginUnload,
       SDK_OnUnloadJoined, PerformLock, PerformInitFailed, PerformUnlock,
       CheckCompletedLock, CheckCompletedPush, CheckCompletedEnd,
       EventLoopExit, FlagsOK
<1>12. CASE UNCHANGED vars
  BY <1>1, <1>12 DEF vars, FlagsOK
<1> QED BY <1>2, <1>3, <1>4, <1>5, <1>6, <1>7, <1>8, <1>9, <1>10, <1>11,
           <1>12
           DEF Next, Natives, Submit, PerformRequest, PerformFile,
               PerformPostForm, ClientRequest, ClientFile, MainStep, LoopStep,
               Terminated

\* Every step of either thread keeps the types.
LEMMA TypeStep ==
    ASSUME IndInv, [Next]_vars
    PROVE  TypeOK'
<1> USE ContextsAssumption DEF mainVars, loopVars, queueVars, asyncVars, curlVars, ctxVars, handleVars
<1>1. TypeOK /\ Control /\ HandleInv /\ FlagsOK'
  BY FlagsStep DEF IndInv
<1>2. CASE SDK_OnLoad
  BY <1>1, <1>2 DEF SDK_OnLoad, TypeOK, MainPcs, LoopPcs, Lock
<1>3. ASSUME NEW c \in Contexts, NEW p \in Plugins,
             CreateContext(c, p)
      PROVE  TypeOK'
  BY <1>1, <1>3 DEF CreateContext, TypeOK, MainPcs, LoopPcs, Lock
<1>4. CASE AddRequestToQueue
  BY <1>1, <1>4, AddFacts DEF AddRequestToQueue, TypeOK, MainPcs, LoopPcs,
       Lock
<1>5. CASE FrameHook
  BY <1>1, <1>5 DEF FrameHook, TypeOK, MainPcs, LoopPcs, Lock
<1>6. CASE FrameHookCheckDone
  BY <1>1, <1>6 DEF FrameHookCheckDone, UnlockedEmpty, TypeOK, MainPcs,
       LoopPcs, Lock
<1>7. CASE FrameHookPop
  BY <1>1, <1>7, PopDoneFacts DEF FrameHookPop, TypeOK, MainPcs, LoopPcs,
       Lock
<1>8. CASE RequestOnCompleted
  BY <1>1, <1>8 DEF RequestOnCompleted, ResponseOnCompleted, FunctionCount,
       ExecuteForward, TypeOK, MainPcs, LoopPcs, Lock
<1>9. CASE FormOnCompleted
  BY <1>1, <1>9 DEF FormOnCompleted, ResponseOnCompleted, FunctionCount,
       ExecuteForward, TypeOK, MainPcs, LoopPcs, Lock
<1>10. CASE FileOnCompleted
  <2>1. /\ file' \in [Contexts -> {"null", "open", "closed"}]
        /\ mainPc' \in MainPcs
    BY <1>1, <1>10 DEF FileOnCompleted, ExecuteForward, Fclose, TypeOK, MainPcs
  <2>2. calls' \in [Contexts -> Nat]
    <3>1. completing \in Contexts
      BY <1>1, <1>10 DEF FileOnCompleted, TypeOK, Control
    <3>2. \/ calls' = [calls EXCEPT ![completing] = calls[completing] + 1]
          \/ calls' = calls
      BY <1>10 DEF FileOnCompleted, ExecuteForward
    <3>3. calls \in [Contexts -> Nat]
      BY <1>1 DEF TypeOK
    <3> QED BY <3>1, <3>2, <3>3
  <2> QED BY <1>1, <1>10, <2>1, <2>2 DEF FileOnCompleted, TypeOK
<1>11. CASE GetResponseData
  BY <1>1, <1>11 DEF GetResponseData, DataCached, TypeOK, MainPcs, LoopPcs,
       Lock
<1>12. CASE CloseDataHandle
  BY <1>1, <1>12 DEF CloseDataHandle, TypeOK, MainPcs, LoopPcs, Lock,
       HandleInv
<1>13. CASE CallbackReturn
  BY <1>1, <1>13 DEF CallbackReturn, TypeOK, MainPcs, LoopPcs, Lock,
       HandleInv
<1>14. CASE DeleteContext
  BY <1>1, <1>14 DEF DeleteContext, Delete, TypeOK, MainPcs, LoopPcs, Lock
<1>15. ASSUME NEW p \in Plugins,
             PluginUnload(p)
      PROVE  TypeOK'
  BY <1>1, <1>15 DEF PluginUnload, TypeOK, MainPcs, LoopPcs, Lock
<1>16. CASE SDK_OnUnload
  BY <1>1, <1>16 DEF SDK_OnUnload, TypeOK, MainPcs, LoopPcs, Lock
<1>17. CASE SDK_OnUnloadJoined
  BY <1>1, <1>17 DEF SDK_OnUnloadJoined, TypeOK, MainPcs, LoopPcs, Lock
<1>18. CASE DispatchPerform
  BY <1>1, <1>18 DEF DispatchPerform, TypeOK, MainPcs, LoopPcs, Lock
<1>19. CASE PerformLock
  BY <1>1, <1>19, MaxProcessAssumption DEF PerformLock, TypeOK, MainPcs,
       LoopPcs, Lock
<1>20. CASE PerformNext
  BY <1>1, <1>20, PopReqFacts, InitCurlFacts, MaxProcessAssumption DEF
       PerformNext, MorePending, CurlMultiAdd, TypeOK, MainPcs, LoopPcs,
       Lock
<1>21. CASE PerformInitFailed
  BY <1>1, <1>21, PopReqFacts DEF PerformInitFailed, MorePending, Delete,
       TypeOK, MainPcs, LoopPcs, Lock
<1>22. CASE PerformUnlock
  BY <1>1, <1>22 DEF PerformUnlock, TypeOK, MainPcs, LoopPcs, Lock
<1>23. ASSUME NEW S \in SUBSET Contexts,
             PerformRequests(S)
      PROVE  TypeOK'
  BY <1>1, <1>23 DEF PerformRequests, SocketAction, CurlTimeoutCallback,
       TypeOK, MainPcs, LoopPcs, Lock
<1>24. ASSUME NEW S \in SUBSET Contexts,
             CurlSocketActivity(S)
      PROVE  TypeOK'
  BY <1>1, <1>24 DEF CurlSocketActivity, SocketAction, CurlTimeoutCallback,
       TypeOK, MainPcs, LoopPcs, Lock
<1>25. ASSUME NEW c \in Contexts,
             CheckCompletedRead(c)
      PROVE  TypeOK'
  BY <1>1, <1>25 DEF CheckCompletedRead, CurlMultiRemove,
       CurlTimeoutCallback, TypeOK, MainPcs, LoopPcs, Lock
<1>26. CASE CheckCompletedLock
  BY <1>1, <1>26 DEF CheckCompletedLock, TypeOK, MainPcs, LoopPcs, Lock
<1>27. CASE CheckCompletedPush
  BY <1>1, <1>27, PushDoneFacts DEF CheckCompletedPush, TypeOK, MainPcs,
       LoopPcs, Lock
<1>28. CASE CheckCompletedEnd
  BY <1>1, <1>28 DEF CheckCompletedEnd, NoMessage, TypeOK, MainPcs, LoopPcs,
       Lock
<1>29. CASE AsyncStopLoop
  BY <1>1, <1>29 DEF AsyncStopLoop, TypeOK, MainPcs, LoopPcs, Lock
<1>30. CASE EventLoopExit
  BY <1>1, <1>30 DEF EventLoopExit, TypeOK, MainPcs, LoopPcs, Lock
<1>31. CASE UNCHANGED vars
  BY <1>1, <1>31 DEF vars, TypeOK, MainPcs, LoopPcs, Lock
<1> QED BY <1>2, <1>3, <1>4, <1>5, <1>6, <1>7, <1>8, <1>9, <1>10, <1>11,
           <1>12, <1>13, <1>14, <1>15, <1>16, <1>17, <1>18, <1>19, <1>20,
           <1>21, <1>22, <1>23, <1>24, <1>25, <1>26, <1>27, <1>28, <1>29,
           <1>30, <1>31
           DEF Next, Natives, Submit, PerformRequest, PerformFile,
               PerformPostForm, ClientRequest, ClientFile, MainStep, LoopStep,
               Terminated

\* Every step keeps program counters, locks and pointers in hand in step.
LEMMA ControlStep ==
    ASSUME IndInv, [Next]_vars
    PROVE  Control'
<1> USE ContextsAssumption DEF mainVars, loopVars, queueVars, asyncVars, curlVars, ctxVars, handleVars
<1>1. TypeOK /\ Control
  BY DEF IndInv
<1>2. CASE SDK_OnLoad
  BY <1>1, <1>2 DEF SDK_OnLoad, TypeOK, Control
<1>3. ASSUME NEW c \in Contexts, NEW p \in Plugins,
             CreateContext(c, p)
      PROVE  Control'
  BY <1>1, <1>3 DEF CreateContext, TypeOK, Control
<1>4. CASE AddRequestToQueue
  BY <1>1, <1>4, AddFacts DEF AddRequestToQueue, TypeOK, Control
<1>5. CASE FrameHook
  BY <1>1, <1>5 DEF FrameHook, TypeOK, Control
<1>6. CASE FrameHookCheckDone
  BY <1>1, <1>6 DEF FrameHookCheckDone, UnlockedEmpty, TypeOK, Control
<1>7. CASE FrameHookPop
  BY <1>1, <1>7, PopDoneFacts DEF FrameHookPop, TypeOK, Control
<1>8. CASE RequestOnCompleted
  BY <1>1, <1>8 DEF RequestOnCompleted, ResponseOnCompleted, FunctionCount,
       ExecuteForward, TypeOK, Control
<1>9. CASE FormOnCompleted
  BY <1>1, <1>9 DEF FormOnCompleted, ResponseOnCompleted, FunctionCount,
       ExecuteForward, TypeOK, Control
<1>10. CASE FileOnCompleted
  BY <1>1, <1>10 DEF FileOnCompleted, FunctionCount, ExecuteForward, Fclose,
       TypeOK, Control
<1>11. CASE GetResponseData
  BY <1>1, <1>11 DEF GetResponseData, DataCached, TypeOK, Control
<1>12. CASE CloseDataHandle
  BY <1>1, <1>12 DEF CloseDataHandle, TypeOK, Control
<1>13. CASE CallbackReturn
  BY <1>1, <1>13 DEF CallbackReturn, TypeOK, Control
<1>14. CASE DeleteContext
  BY <1>1, <1>14 DEF DeleteContext, Delete, TypeOK, Control
<1>15. ASSUME NEW p \in Plugins,
             PluginUnload(p)
      PROVE  Control'
  BY <1>1, <1>15 DEF PluginUnload, TypeOK, Control
<1>16. CASE SDK_OnUnload
  BY <1>1, <1>16 DEF SDK_OnUnload, TypeOK, Control
<1>17. CASE SDK_OnUnloadJoined
  BY <1>1, <1>17 DEF SDK_OnUnloadJoined, TypeOK, Control
<1>18. CASE DispatchPerform
  BY <1>1, <1>18 DEF DispatchPerform, TypeOK, Control
<1>19. CASE PerformLock
  BY <1>1, <1>19 DEF PerformLock, TypeOK, Control
<1>20. CASE PerformNext
  BY <1>1, <1>20, PopReqFacts DEF PerformNext, MorePending, CurlMultiAdd,
       TypeOK, Control
<1>21. CASE PerformInitFailed
  BY <1>1, <1>21, PopReqFacts DEF PerformInitFailed, MorePending, Delete,
       TypeOK, Control
<1>22. CASE PerformUnlock
  BY <1>1, <1>22 DEF PerformUnlock, TypeOK, Control
<1>23. ASSUME NEW S \in SUBSET Contexts,
             PerformRequests(S)
      PROVE  Control'
  BY <1>1, <1>23 DEF PerformRequests, SocketAction, CurlTimeoutCallback,
       TypeOK, Control
<1>24. ASSUME NEW S \in SUBSET Contexts,
             CurlSocketActivity(S)
      PROVE  Control'
  BY <1>1, <1>24 DEF CurlSocketActivity, SocketAction, CurlTimeoutCallback,
       TypeOK, Control
<1>25. ASSUME NEW c \in Contexts,
             CheckCompletedRead(c)
      PROVE  Control'
  BY <1>1, <1>25 DEF CheckCompletedRead, CurlMultiRemove,
       CurlTimeoutCallback, TypeOK, Control
<1>26. CASE CheckCompletedLock
  BY <1>1, <1>26 DEF CheckCompletedLock, TypeOK, Control
<1>27. CASE CheckCompletedPush
  BY <1>1, <1>27, PushDoneFacts DEF CheckCompletedPush, TypeOK, Control
<1>28. CASE CheckCompletedEnd
  BY <1>1, <1>28 DEF CheckCompletedEnd, NoMessage, TypeOK, Control
<1>29. CASE AsyncStopLoop
  BY <1>1, <1>29 DEF AsyncStopLoop, TypeOK, Control
<1>30. CASE EventLoopExit
  BY <1>1, <1>30 DEF EventLoopExit, TypeOK, Control
<1>31. CASE UNCHANGED vars
  BY <1>1, <1>31 DEF vars, TypeOK, Control
<1> QED BY <1>2, <1>3, <1>4, <1>5, <1>6, <1>7, <1>8, <1>9, <1>10, <1>11,
           <1>12, <1>13, <1>14, <1>15, <1>16, <1>17, <1>18, <1>19, <1>20,
           <1>21, <1>22, <1>23, <1>24, <1>25, <1>26, <1>27, <1>28, <1>29,
           <1>30, <1>31
           DEF Next, Natives, Submit, PerformRequest, PerformFile,
               PerformPostForm, ClientRequest, ClientFile, MainStep, LoopStep,
               Terminated

\* Every step keeps each context in at most one place.
LEMMA OwnerStep ==
    ASSUME IndInv, [Next]_vars
    PROVE  SingleOwner'
<1> USE ContextsAssumption DEF mainVars, loopVars, queueVars, asyncVars, curlVars, ctxVars, handleVars
<1>1. TypeOK /\ Control /\ SingleOwner /\ NoDangling
  BY DEF IndInv
<1>2. ASSUME NEW c \in Contexts, NEW p \in Plugins,
             CreateContext(c, p)
      PROVE  SingleOwner'
  BY <1>1, <1>2 DEF CreateContext, TypeOK, Control, SingleOwner, NoDangling,
       Held
<1>3. CASE AddRequestToQueue
  BY <1>1, <1>3, AddFacts DEF AddRequestToQueue, TypeOK, Control,
       SingleOwner
<1>4. CASE FrameHookPop
  BY <1>1, <1>4, PopDoneFacts DEF FrameHookPop, TypeOK, Control, SingleOwner
<1>5. CASE DeleteContext
  BY <1>1, <1>5 DEF DeleteContext, Delete, TypeOK, Control, SingleOwner
<1>6. CASE PerformNext
  BY <1>1, <1>6, PopReqFacts DEF PerformNext, MorePending, CurlMultiAdd,
       TypeOK, Control, SingleOwner
<1>7. CASE PerformInitFailed
  BY <1>1, <1>7, PopReqFacts DEF PerformInitFailed, MorePending, Delete,
       TypeOK, Control, SingleOwner
<1>8. ASSUME NEW c \in Contexts,
             CheckCompletedRead(c)
      PROVE  SingleOwner'
  BY <1>1, <1>8 DEF CheckCompletedRead, CurlMultiRemove,
       CurlTimeoutCallback, TypeOK, Control, SingleOwner
<1>9. CASE CheckCompletedPush
  BY <1>1, <1>9, PushDoneFacts DEF CheckCompletedPush, TypeOK, Control,
       SingleOwner
<1>10. CASE SDK_OnLoad \/ FrameHook \/ FrameHookCheckDone \/
            RequestOnCompleted \/ FormOnCompleted \/ FileOnCompleted \/
            GetResponseData \/ CloseDataHandle \/ CallbackReturn \/
            (\E p \in Plugins : PluginUnload(p)) \/ SDK_OnUnload \/
            SDK_OnUnloadJoined \/ DispatchPerform \/ PerformLock \/
            PerformUnlock \/ (\E S \in SUBSET Contexts : PerformRequests(S)) \/
            (\E S \in SUBSET Contexts : CurlSocketActivity(S)) \/
            CheckCompletedLock \/ CheckCompletedEnd \/ AsyncStopLoop \/
            EventLoopExit
  BY <1>1, <1>10 DEF SDK_OnLoad, FrameHook, FrameHookCheckDone,
       RequestOnCompleted, ResponseOnCompleted, ExecuteForward,
       FormOnCompleted, FileOnCompleted, GetResponseData, CloseDataHandle,
       CallbackReturn, PluginUnload, SDK_OnUnload, SDK_OnUnloadJoined,
       DispatchPerform, PerformLock, PerformUnlock, PerformRequests,
       SocketAction, CurlSocketActivity, CheckCompletedLock,
       CheckCompletedEnd, AsyncStopLoop, EventLoopExit, SingleOwner
<1>11. CASE UNCHANGED vars
  BY <1>1, <1>11 DEF vars, TypeOK, Control, SingleOwner
<1> QED BY <1>2, <1>3, <1>4, <1>5, <1>6, <1>7, <1>8, <1>9, <1>10, <1>11
           DEF Next, Natives, Submit, PerformRequest, PerformFile,
               PerformPostForm, ClientRequest, ClientFile, MainStep, LoopStep,
               Terminated

\* Every step keeps pointers to existing contexts only.
LEMMA DanglingStep ==
    ASSUME IndInv, [Next]_vars
    PROVE  NoDangling'
<1> USE ContextsAssumption DEF mainVars, loopVars, queueVars, asyncVars, curlVars, ctxVars, handleVars
<1>1. TypeOK /\ Control /\ SingleOwner /\ NoDangling
  BY DEF IndInv
<1>2. ASSUME NEW c \in Contexts, NEW p \in Plugins,
             CreateContext(c, p)
      PROVE  NoDangling'
  BY <1>1, <1>2 DEF CreateContext, TypeOK, Control, SingleOwner, NoDangling,
       Held
<1>3. CASE AddRequestToQueue
  BY <1>1, <1>3, AddFacts DEF AddRequestToQueue, TypeOK, Control,
       SingleOwner, NoDangling, Held
<1>4. CASE FrameHookPop
  BY <1>1, <1>4, PopDoneFacts DEF FrameHookPop, TypeOK, Control,
       SingleOwner, NoDangling, Held
<1>5. CASE DeleteContext
  BY <1>1, <1>5 DEF DeleteContext, Delete, TypeOK, Control, SingleOwner,
       NoDangling, Held
<1>6. CASE PerformNext
  BY <1>1, <1>6, PopReqFacts DEF PerformNext, MorePending, CurlMultiAdd,
       TypeOK, Control, SingleOwner, NoDangling, Held
<1>7. CASE PerformInitFailed
  BY <1>1, <1>7, PopReqFacts DEF PerformInitFailed, MorePending, Delete,
       TypeOK, Control, SingleOwner, NoDangling, Held
<1>8. ASSUME NEW c \in Contexts,
             CheckCompletedRead(c)
      PROVE  NoDangling'
  BY <1>1, <1>8 DEF CheckCompletedRead, CurlMultiRemove,
       CurlTimeoutCallback, TypeOK, Control, SingleOwner, NoDangling, Held
<1>9. CASE CheckCompletedPush
  BY <1>1, <1>9, PushDoneFacts DEF CheckCompletedPush, TypeOK, Control,
       SingleOwner, NoDangling, Held
<1>10. CASE SDK_OnLoad \/ FrameHook \/ FrameHookCheckDone \/
            RequestOnCompleted \/ FormOnCompleted \/ FileOnCompleted \/
            GetResponseData \/ CloseDataHandle \/ CallbackReturn \/
            (\E p \in Plugins : PluginUnload(p)) \/ SDK_OnUnload \/
            SDK_OnUnloadJoined \/ DispatchPerform \/ PerformLock \/
            PerformUnlock \/ (\E S \in SUBSET Contexts : PerformRequests(S)) \/
            (\E S \in SUBSET Contexts : CurlSocketActivity(S)) \/
            CheckCompletedLock \/ CheckCompletedEnd \/ AsyncStopLoop \/
            EventLoopExit
  BY <1>1, <1>10 DEF SDK_OnLoad, FrameHook, FrameHookCheckDone,
       RequestOnCompleted, ResponseOnCompleted, ExecuteForward,
       FormOnCompleted, FileOnCompleted, GetResponseData, CloseDataHandle,
       CallbackReturn, PluginUnload, SDK_OnUnload, SDK_OnUnloadJoined,
       DispatchPerform, PerformLock, PerformUnlock, PerformRequests,
       SocketAction, CurlSocketActivity, CheckCompletedLock,
       CheckCompletedEnd, AsyncStopLoop, EventLoopExit, SingleOwner,
       NoDangling, Held
<1>11. CASE UNCHANGED vars
  BY <1>1, <1>11 DEF vars, TypeOK, Control, SingleOwner, NoDangling, Held
<1> QED BY <1>2, <1>3, <1>4, <1>5, <1>6, <1>7, <1>8, <1>9, <1>10, <1>11
           DEF Next, Natives, Submit, PerformRequest, PerformFile,
               PerformPostForm, ClientRequest, ClientFile, MainStep, LoopStep,
               Terminated

\* Every step keeps every existing context in some place.
LEMMA LeakStep ==
    ASSUME IndInv, [Next]_vars
    PROVE  NoLeak'
<1> USE ContextsAssumption DEF mainVars, loopVars, queueVars, asyncVars, curlVars, ctxVars, handleVars
<1>1. TypeOK /\ Control /\ SingleOwner /\ NoLeak
  BY DEF IndInv
<1>2. ASSUME NEW c \in Contexts, NEW p \in Plugins,
             CreateContext(c, p)
      PROVE  NoLeak'
  BY <1>1, <1>2 DEF CreateContext, TypeOK, Control, SingleOwner, NoLeak,
       Held
<1>3. CASE AddRequestToQueue
  BY <1>1, <1>3, AddFacts DEF AddRequestToQueue, TypeOK, Control,
       SingleOwner, NoLeak, Held
<1>4. CASE FrameHookPop
  BY <1>1, <1>4, PopDoneFacts DEF FrameHookPop, TypeOK, Control,
       SingleOwner, NoLeak, Held
<1>5. CASE DeleteContext
  BY <1>1, <1>5 DEF DeleteContext, Delete, TypeOK, Control, SingleOwner,
       NoLeak, Held
<1>6. CASE PerformNext
  BY <1>1, <1>6, PopReqFacts DEF PerformNext, MorePending, CurlMultiAdd,
       TypeOK, Control, SingleOwner, NoLeak, Held
<1>7. CASE PerformInitFailed
  BY <1>1, <1>7, PopReqFacts DEF PerformInitFailed, MorePending, Delete,
       TypeOK, Control, SingleOwner, NoLeak, Held
<1>8. ASSUME NEW c \in Contexts,
             CheckCompletedRead(c)
      PROVE  NoLeak'
  BY <1>1, <1>8 DEF CheckCompletedRead, CurlMultiRemove,
       CurlTimeoutCallback, TypeOK, Control, SingleOwner, NoLeak, Held
<1>9. CASE CheckCompletedPush
  BY <1>1, <1>9, PushDoneFacts DEF CheckCompletedPush, TypeOK, Control,
       SingleOwner, NoLeak, Held
<1>10. CASE SDK_OnLoad \/ FrameHook \/ FrameHookCheckDone \/
            RequestOnCompleted \/ FormOnCompleted \/ FileOnCompleted \/
            GetResponseData \/ CloseDataHandle \/ CallbackReturn \/
            (\E p \in Plugins : PluginUnload(p)) \/ SDK_OnUnload \/
            SDK_OnUnloadJoined \/ DispatchPerform \/ PerformLock \/
            PerformUnlock \/ (\E S \in SUBSET Contexts : PerformRequests(S)) \/
            (\E S \in SUBSET Contexts : CurlSocketActivity(S)) \/
            CheckCompletedLock \/ CheckCompletedEnd \/ AsyncStopLoop \/
            EventLoopExit
  BY <1>1, <1>10 DEF SDK_OnLoad, FrameHook, FrameHookCheckDone,
       RequestOnCompleted, ResponseOnCompleted, ExecuteForward,
       FormOnCompleted, FileOnCompleted, GetResponseData, CloseDataHandle,
       CallbackReturn, PluginUnload, SDK_OnUnload, SDK_OnUnloadJoined,
       DispatchPerform, PerformLock, PerformUnlock, PerformRequests,
       SocketAction, CurlSocketActivity, CheckCompletedLock,
       CheckCompletedEnd, AsyncStopLoop, EventLoopExit, SingleOwner, NoLeak,
       Held
<1>11. CASE UNCHANGED vars
  BY <1>1, <1>11 DEF vars, TypeOK, Control, SingleOwner, NoLeak, Held
<1> QED BY <1>2, <1>3, <1>4, <1>5, <1>6, <1>7, <1>8, <1>9, <1>10, <1>11
           DEF Next, Natives, Submit, PerformRequest, PerformFile,
               PerformPostForm, ClientRequest, ClientFile, MainStep, LoopStep,
               Terminated

\* Every step keeps the facts about callbacks.
LEMMA CallbackStep ==
    ASSUME IndInv, [Next]_vars
    PROVE  CallbackInv'
<1> USE ContextsAssumption DEF mainVars, loopVars, queueVars, asyncVars, curlVars, ctxVars, handleVars
<1>1. TypeOK /\ Control /\ NoDangling /\ CallbackInv
  BY DEF IndInv
<1>2. CASE SDK_OnLoad
  BY <1>1, <1>2 DEF SDK_OnLoad, TypeOK, Control, NoDangling, Held,
       CallbackInv
<1>3. ASSUME NEW c \in Contexts, NEW p \in Plugins,
             CreateContext(c, p)
      PROVE  CallbackInv'
  BY <1>1, <1>3 DEF CreateContext, TypeOK, Control, NoDangling, Held,
       CallbackInv
<1>4. CASE AddRequestToQueue
  BY <1>1, <1>4, AddFacts DEF AddRequestToQueue, TypeOK, Control,
       NoDangling, Held, CallbackInv
<1>5. CASE FrameHook
  BY <1>1, <1>5 DEF FrameHook, TypeOK, Control, NoDangling, Held,
       CallbackInv
<1>6. CASE FrameHookCheckDone
  BY <1>1, <1>6 DEF FrameHookCheckDone, UnlockedEmpty, TypeOK, Control,
       NoDangling, Held, CallbackInv
<1>7. CASE FrameHookPop
  BY <1>1, <1>7, PopDoneFacts DEF FrameHookPop, TypeOK, Control, NoDangling,
       Held, CallbackInv
<1>8. CASE RequestOnCompleted
  <2>1. completing \in Contexts /\ calls[completing] = 0
    BY <1>1, <1>8 DEF RequestOnCompleted, ResponseOnCompleted, TypeOK, Control, NoDangling, Held, CallbackInv
  <2>2. CASE ExecuteForward(completing) /\ FunctionCount(completing) # 0
    BY <1>1, <1>8, <2>1, <2>2
       DEF RequestOnCompleted, ResponseOnCompleted, ExecuteForward, FunctionCount, TypeOK, CallbackInv
  <2>3. CASE mainPc' = "delete" /\ UNCHANGED calls
    BY <1>1, <1>8, <2>1, <2>3 DEF RequestOnCompleted, ResponseOnCompleted, TypeOK, CallbackInv
  <2> QED BY <1>8, <2>2, <2>3 DEF RequestOnCompleted, ResponseOnCompleted
<1>9. CASE FormOnCompleted
  <2>1. completing \in Contexts /\ calls[completing] = 0
    BY <1>1, <1>9 DEF FormOnCompleted, ResponseOnCompleted, TypeOK, Control, NoDangling, Held, CallbackInv
  <2>2. CASE ExecuteForward(completing) /\ FunctionCount(completing) # 0
    BY <1>1, <1>9, <2>1, <2>2
       DEF FormOnCompleted, ResponseOnCompleted, ExecuteForward, FunctionCount, TypeOK, CallbackInv
  <2>3. CASE mainPc' = "delete" /\ UNCHANGED calls
    BY <1>1, <1>9, <2>1, <2>3 DEF FormOnCompleted, ResponseOnCompleted, TypeOK, CallbackInv
  <2> QED BY <1>9, <2>2, <2>3 DEF FormOnCompleted, ResponseOnCompleted
<1>10. CASE FileOnCompleted
  <2>1. completing \in Contexts /\ calls[completing] = 0
    BY <1>1, <1>10 DEF FileOnCompleted, TypeOK, Control, NoDangling, Held, CallbackInv
  <2>2. CASE ExecuteForward(completing) /\ FunctionCount(completing) # 0
    BY <1>1, <1>10, <2>1, <2>2
       DEF FileOnCompleted, ExecuteForward, FunctionCount, TypeOK, CallbackInv
  <2>3. CASE mainPc' = "delete" /\ UNCHANGED calls
    BY <1>1, <1>10, <2>1, <2>3 DEF FileOnCompleted, TypeOK, CallbackInv
  <2> QED BY <1>10, <2>2, <2>3 DEF FileOnCompleted
<1>11. CASE CallbackReturn
  BY <1>1, <1>11 DEF CallbackReturn, TypeOK, Control, NoDangling, Held,
       CallbackInv
<1>12. CASE DeleteContext
  BY <1>1, <1>12 DEF DeleteContext, Delete, TypeOK, Control, NoDangling,
       Held, CallbackInv
<1>13. ASSUME NEW p \in Plugins,
             PluginUnload(p)
      PROVE  CallbackInv'
  BY <1>1, <1>13 DEF PluginUnload, TypeOK, Control, NoDangling, Held,
       CallbackInv
<1>14. CASE SDK_OnUnload
  BY <1>1, <1>14 DEF SDK_OnUnload, TypeOK, Control, NoDangling, Held,
       CallbackInv
<1>15. CASE SDK_OnUnloadJoined
  BY <1>1, <1>15 DEF SDK_OnUnloadJoined, TypeOK, Control, NoDangling, Held,
       CallbackInv
<1>16. CASE PerformInitFailed
  BY <1>1, <1>16, PopReqFacts DEF PerformInitFailed, MorePending, Delete,
       TypeOK, Control, NoDangling, Held, CallbackInv
<1>17. CASE GetResponseData \/ CloseDataHandle \/ DispatchPerform \/
            PerformLock \/ PerformNext \/ PerformUnlock \/
            (\E S \in SUBSET Contexts : PerformRequests(S)) \/
            (\E S \in SUBSET Contexts : CurlSocketActivity(S)) \/
            (\E c \in Contexts : CheckCompletedRead(c)) \/ CheckCompletedLock \/
            CheckCompletedPush \/ CheckCompletedEnd \/ AsyncStopLoop \/
            EventLoopExit
  BY <1>1, <1>17 DEF GetResponseData, CloseDataHandle, DispatchPerform,
       PerformLock, PerformNext, CurlMultiAdd, PerformUnlock,
       PerformRequests, SocketAction, CurlSocketActivity,
       CheckCompletedRead, CurlMultiRemove, CheckCompletedLock,
       CheckCompletedPush, CheckCompletedEnd, AsyncStopLoop, EventLoopExit,
       NoDangling, Held, CallbackInv
<1>18. CASE UNCHANGED vars
  BY <1>1, <1>18 DEF vars, TypeOK, Control, NoDangling, Held, CallbackInv
<1> QED BY <1>2, <1>3, <1>4, <1>5, <1>6, <1>7, <1>8, <1>9, <1>10, <1>11,
           <1>12, <1>13, <1>14, <1>15, <1>16, <1>17, <1>18
           DEF Next, Natives, Submit, PerformRequest, PerformFile,
               PerformPostForm, ClientRequest, ClientFile, MainStep, LoopStep,
               Terminated

\* Every step keeps the facts about handles.
LEMMA HandleStep ==
    ASSUME IndInv, [Next]_vars
    PROVE  HandleInv'
<1> USE ContextsAssumption DEF mainVars, loopVars, queueVars, asyncVars, curlVars, ctxVars, handleVars
<1>1. TypeOK /\ Control /\ HandleInv
  BY DEF IndInv
<1>2. CASE SDK_OnLoad
  BY <1>1, <1>2 DEF SDK_OnLoad, TypeOK, Control, HandleInv
<1>3. ASSUME NEW c \in Contexts, NEW p \in Plugins,
             CreateContext(c, p)
      PROVE  HandleInv'
  BY <1>1, <1>3 DEF CreateContext, TypeOK, Control, HandleInv
<1>4. CASE AddRequestToQueue
  BY <1>1, <1>4, AddFacts DEF AddRequestToQueue, TypeOK, Control, HandleInv
<1>5. CASE FrameHook
  BY <1>1, <1>5 DEF FrameHook, TypeOK, Control, HandleInv
<1>6. CASE FrameHookCheckDone
  BY <1>1, <1>6 DEF FrameHookCheckDone, UnlockedEmpty, TypeOK, Control,
       HandleInv
<1>7. CASE FrameHookPop
  BY <1>1, <1>7, PopDoneFacts DEF FrameHookPop, TypeOK, Control, HandleInv
<1>8. CASE RequestOnCompleted
  BY <1>1, <1>8 DEF RequestOnCompleted, ResponseOnCompleted, FunctionCount,
       ExecuteForward, TypeOK, Control, HandleInv
<1>9. CASE FormOnCompleted
  BY <1>1, <1>9 DEF FormOnCompleted, ResponseOnCompleted, FunctionCount,
       ExecuteForward, TypeOK, Control, HandleInv
<1>10. CASE FileOnCompleted
  BY <1>1, <1>10 DEF FileOnCompleted, FunctionCount, ExecuteForward, Fclose,
       TypeOK, Control, HandleInv
<1>11. CASE GetResponseData
  BY <1>1, <1>11 DEF GetResponseData, DataCached, TypeOK, Control, HandleInv
<1>12. CASE CloseDataHandle
  BY <1>1, <1>12 DEF CloseDataHandle, TypeOK, Control, HandleInv
<1>13. CASE CallbackReturn
  BY <1>1, <1>13 DEF CallbackReturn, TypeOK, Control, HandleInv
<1>14. CASE DeleteContext
  BY <1>1, <1>14 DEF DeleteContext, Delete, TypeOK, Control, HandleInv
<1>15. CASE SDK_OnUnload
  BY <1>1, <1>15 DEF SDK_OnUnload, TypeOK, Control, HandleInv
<1>16. CASE SDK_OnUnloadJoined
  BY <1>1, <1>16 DEF SDK_OnUnloadJoined, TypeOK, Control, HandleInv
<1>17. CASE (\E p \in Plugins : PluginUnload(p)) \/ DispatchPerform \/
            PerformLock \/ PerformNext \/ PerformInitFailed \/ PerformUnlock \/
            (\E S \in SUBSET Contexts : PerformRequests(S)) \/
            (\E S \in SUBSET Contexts : CurlSocketActivity(S)) \/
            (\E c \in Contexts : CheckCompletedRead(c)) \/ CheckCompletedLock \/
            CheckCompletedPush \/ CheckCompletedEnd \/ AsyncStopLoop \/
            EventLoopExit
  BY <1>1, <1>17 DEF PluginUnload, DispatchPerform, PerformLock,
       PerformNext, CurlMultiAdd, PerformInitFailed, PerformUnlock,
       PerformRequests, SocketAction, CurlSocketActivity,
       CheckCompletedRead, CurlMultiRemove, CheckCompletedLock,
       CheckCompletedPush, CheckCompletedEnd, AsyncStopLoop, EventLoopExit,
       HandleInv
<1>18. CASE UNCHANGED vars
  BY <1>1, <1>18 DEF vars, TypeOK, Control, HandleInv
<1> QED BY <1>2, <1>3, <1>4, <1>5, <1>6, <1>7, <1>8, <1>9, <1>10, <1>11,
           <1>12, <1>13, <1>14, <1>15, <1>16, <1>17, <1>18
           DEF Next, Natives, Submit, PerformRequest, PerformFile,
               PerformPostForm, ClientRequest, ClientFile, MainStep, LoopStep,
               Terminated

\* Every step keeps files open exactly while they are used.
LEMMA FileStep ==
    ASSUME IndInv, [Next]_vars
    PROVE  FileOpenWhileUsed'
<1> USE ContextsAssumption DEF mainVars, loopVars, queueVars, asyncVars, curlVars, ctxVars, handleVars
<1>1. TypeOK /\ Control /\ SingleOwner /\ NoDangling /\ FileOpenWhileUsed
  BY DEF IndInv
<1>2. CASE SDK_OnLoad
  BY <1>1, <1>2 DEF SDK_OnLoad, TypeOK, Control, SingleOwner, NoDangling,
       Held, FileOpenWhileUsed
<1>3. ASSUME NEW c \in Contexts, NEW p \in Plugins,
             CreateContext(c, p)
      PROVE  FileOpenWhileUsed'
  BY <1>1, <1>3 DEF CreateContext, TypeOK, Control, SingleOwner, NoDangling,
       Held, FileOpenWhileUsed
<1>4. CASE AddRequestToQueue
  BY <1>1, <1>4, AddFacts DEF AddRequestToQueue, TypeOK, Control,
       SingleOwner, NoDangling, Held, FileOpenWhileUsed
<1>5. CASE FrameHook
  BY <1>1, <1>5 DEF FrameHook, TypeOK, Control, SingleOwner, NoDangling,
       Held, FileOpenWhileUsed
<1>6. CASE FrameHookCheckDone
  BY <1>1, <1>6 DEF FrameHookCheckDone, UnlockedEmpty, TypeOK, Control,
       SingleOwner, NoDangling, Held, FileOpenWhileUsed
<1>7. CASE FrameHookPop
  BY <1>1, <1>7, PopDoneFacts DEF FrameHookPop, TypeOK, Control,
       SingleOwner, NoDangling, Held, FileOpenWhileUsed
<1>8. CASE RequestOnCompleted
  BY <1>1, <1>8 DEF RequestOnCompleted, ResponseOnCompleted, FunctionCount,
       ExecuteForward, TypeOK, Control, SingleOwner, NoDangling, Held,
       FileOpenWhileUsed
<1>9. CASE FormOnCompleted
  BY <1>1, <1>9 DEF FormOnCompleted, ResponseOnCompleted, FunctionCount,
       ExecuteForward, TypeOK, Control, SingleOwner, NoDangling, Held,
       FileOpenWhileUsed
<1>10. CASE FileOnCompleted
  BY <1>1, <1>10 DEF FileOnCompleted, FunctionCount, ExecuteForward, Fclose,
       TypeOK, Control, SingleOwner, NoDangling, Held, FileOpenWhileUsed
<1>11. CASE CallbackReturn
  BY <1>1, <1>11 DEF CallbackReturn, TypeOK, Control, SingleOwner,
       NoDangling, Held, FileOpenWhileUsed
<1>12. CASE DeleteContext
  BY <1>1, <1>12 DEF DeleteContext, Delete, TypeOK, Control, SingleOwner,
       NoDangling, Held, FileOpenWhileUsed
<1>13. CASE SDK_OnUnload
  BY <1>1, <1>13 DEF SDK_OnUnload, TypeOK, Control, SingleOwner, NoDangling,
       Held, FileOpenWhileUsed
<1>14. CASE SDK_OnUnloadJoined
  BY <1>1, <1>14 DEF SDK_OnUnloadJoined, TypeOK, Control, SingleOwner,
       NoDangling, Held, FileOpenWhileUsed
<1>15. CASE PerformNext
  <2> DEFINE c == PopItem(reqQueue)
  <2>1. /\ c \in Contexts /\ c \in Range(reqQueue)
        /\ multi' = multi \cup {c}
        /\ UNCHANGED <<pushing, doneQueue, completing, mainPc>>
    BY <1>1, <1>15, PopReqFacts DEF PerformNext, CurlMultiAdd
  <2>2. \A d \in FileContexts : file'[d] = IF d = c THEN "open" ELSE file[d]
    BY <1>1, <1>15, <2>1, InitCurlFacts DEF PerformNext
  <2> QED BY <1>1, <2>1, <2>2 DEF FileOpenWhileUsed
<1>16. ASSUME NEW c \in Contexts,
             CheckCompletedRead(c)
      PROVE  FileOpenWhileUsed'
  <2>1. /\ c \in multi /\ multi' = multi \ {c}
        /\ pushing = NoContext /\ pushing' = c
        /\ UNCHANGED <<doneQueue, completing, file>>
        /\ mainPc' = mainPc
    BY <1>1, <1>16 DEF CheckCompletedRead, CurlMultiRemove, TypeOK, Control
  <2>2. \A d \in FileContexts :
           d \in multi' \cup {pushing'} <=> d \in multi \cup {pushing}
    BY <2>1 DEF Contexts
  <2> QED BY <1>1, <2>1, <2>2 DEF FileOpenWhileUsed
<1>17. CASE CheckCompletedPush
  <2>1. /\ Range(doneQueue') = Range(doneQueue) \cup {pushing}
        /\ pushing' = NoContext
        /\ UNCHANGED <<multi, completing, file, mainPc>>
    BY <1>1, <1>17, PushDoneFacts DEF CheckCompletedPush
  <2>2. \A d \in FileContexts :
           d \in multi' \cup {pushing'} \cup Range(doneQueue')
              <=> d \in multi \cup {pushing} \cup Range(doneQueue)
    BY <2>1 DEF Contexts
  <2> QED BY <1>1, <2>1, <2>2 DEF FileOpenWhileUsed
<1>18. CASE GetResponseData \/ CloseDataHandle \/
            (\E p \in Plugins : PluginUnload(p)) \/ DispatchPerform \/
            PerformLock \/ PerformInitFailed \/ PerformUnlock \/
            (\E S \in SUBSET Contexts : PerformRequests(S)) \/
            (\E S \in SUBSET Contexts : CurlSocketActivity(S)) \/
            CheckCompletedLock \/ CheckCompletedEnd \/ AsyncStopLoop \/
            EventLoopExit
  BY <1>1, <1>18 DEF GetResponseData, CloseDataHandle, PluginUnload,
       DispatchPerform, PerformLock, PerformInitFailed, PerformUnlock,
       PerformRequests, SocketAction, CurlSocketActivity,
       CheckCompletedLock, CheckCompletedEnd, AsyncStopLoop, EventLoopExit,
       SingleOwner, NoDangling, Held, FileOpenWhileUsed
<1>19. CASE UNCHANGED vars
  BY <1>1, <1>19 DEF vars, TypeOK, Control, SingleOwner, NoDangling, Held,
       FileOpenWhileUsed
<1> QED BY <1>2, <1>3, <1>4, <1>5, <1>6, <1>7, <1>8, <1>9, <1>10, <1>11,
           <1>12, <1>13, <1>14, <1>15, <1>16, <1>17, <1>18, <1>19
           DEF Next, Natives, Submit, PerformRequest, PerformFile,
               PerformPostForm, ClientRequest, ClientFile, MainStep, LoopStep,
               Terminated

-----------------------------------------------------------------------------
(***************************************************************************)
(* The theorems.                                                           *)
(***************************************************************************)

\* The state before SDK_OnLoad satisfies the inductive invariant.
LEMMA InitIndInv == Init => IndInv
<1> SUFFICES ASSUME Init PROVE IndInv
  OBVIOUS
<1>1. Range(<<>>) = {} /\ IsInjective(<<>>)
  BY DEF Range, IsInjective
<1>2. TypeOK
  <2>1. FlagsOK
    BY DEF Init, FlagsOK
  <2>2. <<>> \in Seq(Contexts)
    OBVIOUS
  <2> QED BY <2>1, <2>2, MaxProcessAssumption
             DEF Init, TypeOK, MainPcs, LoopPcs, Lock
<1>3. Control /\ SingleOwner
  <2>1. Control
    BY DEF Init, Control
  <2>2. SingleOwner
    BY <1>1, ContextsAssumption DEF Init, SingleOwner
  <2> QED BY <2>1, <2>2
<1>4. NoDangling /\ NoLeak
  BY <1>1, ContextsAssumption DEF Init, NoDangling, NoLeak, Held
<1>5. CallbackInv /\ HandleInv
  BY DEF Init, CallbackInv, HandleInv
<1>6. FileOpenWhileUsed
  BY <1>1, ContextsAssumption DEF Init, FileOpenWhileUsed, Contexts
<1> QED BY <1>2, <1>3, <1>4, <1>5, <1>6 DEF IndInv

\* Every reachable state of the extension satisfies the inductive invariant.
LEMMA Invariance == Spec => []IndInv
<1>1. IndInv /\ [Next]_vars => IndInv'
  BY TypeStep, ControlStep, OwnerStep, DanglingStep, LeakStep, CallbackStep,
     HandleStep, FileStep DEF IndInv
<1> QED BY InitIndInv, <1>1, PTL DEF Spec

\* The types, and the limiter of AsyncPerformRequests within MAX_PROCESS.
THEOREM TypeCorrect == Spec => []TypeOK
<1>1. IndInv => TypeOK
  BY DEF IndInv
<1> QED BY Invariance, <1>1, PTL

\* Neither thread, queue nor cURL handle ever refers to a context that
\* AsyncPerformRequests or FrameHook has deleted.
THEOREM NeverDangling == Spec => []NoDangling
<1>1. IndInv => NoDangling
  BY DEF IndInv
<1> QED BY Invariance, <1>1, PTL

\* No path through AsyncPerformRequests, CheckCompletedRequests or FrameHook
\* loses a context that still exists.
THEOREM NeverLeaked == Spec => []NoLeak
<1>1. IndInv => NoLeak
  BY DEF IndInv
<1> QED BY Invariance, <1>1, PTL

\* The two threads never have the same context.
THEOREM OneOwner == Spec => []SingleOwner
<1>1. IndInv => SingleOwner
  BY DEF IndInv
<1> QED BY Invariance, <1>1, PTL

\* FrameHook never pops from an empty queue, although it looks before it
\* locks.
THEOREM PopIsSafe == Spec => []PopSafe
<1>1. IndInv => PopSafe
  BY DEF IndInv, Control, PopSafe
<1> QED BY Invariance, <1>1, PTL

\* A callback runs at most once, however requests end (FrameHook, OnCompleted).
THEOREM CallbackSafe == Spec => []CallbackOnce
<1>1. IndInv => CallbackOnce
  BY DEF IndInv, Control, CallbackInv, CallbackOnce
<1> QED BY Invariance, <1>1, PTL

\* A callback runs only while its plugin is loaded (the GetFunctionCount check
\* of OnCompleted).
THEOREM OwnerLoaded == Spec => []CallbackOwnerLoaded
<1>1. IndInv => CallbackOwnerLoaded
  BY DEF IndInv, Control, CallbackInv, CallbackOwnerLoaded
<1> QED BY Invariance, <1>1, PTL

\* A file is open exactly from InitCurl to OnCompleted or the failure.
THEOREM FilesScoped == Spec => []FileOpenWhileUsed
<1>1. IndInv => FileOpenWhileUsed
  BY DEF IndInv, TypeOK, HandleInv
<1> QED BY Invariance, <1>1, PTL

\* The handles of a response are open only while its callback runs.
THEOREM ResourcesScoped == Spec => []HandlesScoped
<1>1. IndInv => HandlesScoped
  BY DEF IndInv, TypeOK, HandleInv, HandlesScoped
<1> QED BY Invariance, <1>1, PTL

\* The loop thread never waits for the completed queue while it holds the
\* request queue, the order in which a callback that submits takes them.
THEOREM LocksOrdered == Spec => []LockOrder
<1>1. IndInv => LockOrder
  BY DEF IndInv, Control, LockOrder
<1> QED BY Invariance, <1>1, PTL

\* No finished transfer waits unread while the loop polls
\* (CheckCompletedRequests).
THEOREM MessagesRead == Spec => []MessagesDrained
<1>1. IndInv => MessagesDrained
  BY DEF IndInv, Control, MessagesDrained
<1> QED BY Invariance, <1>1, PTL

-----------------------------------------------------------------------------
(***************************************************************************)
(* Unloading                                                               *)
(***************************************************************************)

\* When SDK_OnUnload is over, or SDK_OnLoad has failed, the loop thread does
\* not run.
Stopped == mainPc = "gone" => loopPc \in {"none", "exited"}

\* Every action of either thread has a guard that fails once the extension is
\* gone and its thread has been joined.
LEMMA GoneStep ==
    ASSUME Stopped, mainPc = "gone", Next
    PROVE  UNCHANGED vars
<1> USE DEF Stopped
<1>1. ~(SDK_OnLoad \/ Natives \/ FrameHook \/ SDK_OnUnload)
  BY DEF SDK_OnLoad, Natives, Submit, PerformRequest, PerformFile, PerformPostForm,
         ClientRequest, ClientFile, CreateContext, GetResponseData, CloseDataHandle,
         FrameHook, SDK_OnUnload
<1>2. ~MainStep /\ ~\E p \in Plugins : PluginUnload(p)
  BY DEF MainStep, AddRequestToQueue, FrameHookCheckDone, FrameHookPop, RequestOnCompleted,
         FormOnCompleted, ResponseOnCompleted, FileOnCompleted, CallbackReturn,
         DeleteContext, SDK_OnUnloadJoined, PluginUnload
<1>3. ~LoopStep
  BY DEF LoopStep, PerformLock, PerformNext, PerformInitFailed, PerformUnlock,
         CheckCompletedRead, CheckCompletedLock, CheckCompletedPush, CheckCompletedEnd
<1>4. ~DispatchPerform /\ ~AsyncStopLoop /\ ~EventLoopExit
  BY DEF DispatchPerform, AsyncStopLoop, EventLoopExit
<1>5. ~\E S \in SUBSET Contexts : PerformRequests(S) \/ CurlSocketActivity(S)
  BY DEF PerformRequests, CurlSocketActivity
<1> QED  BY <1>1, <1>2, <1>3, <1>4, <1>5 DEF Next, Terminated

LEMMA StoppedStep ==
    ASSUME IndInv, Stopped, [Next]_vars
    PROVE  Stopped'
<1>1. CASE UNCHANGED vars
  BY <1>1 DEF Stopped, vars, mainVars, loopVars
<1>2. CASE mainPc = "gone" /\ Next
  BY <1>1, <1>2, GoneStep
<1>3. CASE SDK_OnLoad \/ SDK_OnUnloadJoined
  BY <1>3 DEF IndInv, Control, SDK_OnLoad, SDK_OnUnloadJoined, ThreadJoined, loopVars, Stopped
<1>4. ASSUME mainPc # "gone", Natives \/ FrameHook \/ SDK_OnUnload \/
                              (\E p \in Plugins : PluginUnload(p))
      PROVE  mainPc' # "gone"
  BY <1>4 DEF Natives, Submit, PerformRequest, PerformFile, PerformPostForm, ClientRequest,
              ClientFile, CreateContext, GetResponseData, CloseDataHandle, FrameHook,
              SDK_OnUnload, PluginUnload, mainVars
<1>5. ASSUME mainPc # "gone", MainStep
      PROVE  mainPc' # "gone" \/ SDK_OnUnloadJoined
  BY <1>5 DEF MainStep, AddRequestToQueue, FrameHookCheckDone, FrameHookPop,
              RequestOnCompleted, FormOnCompleted, ResponseOnCompleted, FileOnCompleted,
              ExecuteForward, CallbackReturn, DeleteContext
<1>6. ASSUME LoopStep \/ DispatchPerform \/ AsyncStopLoop \/ EventLoopExit \/
             (\E S \in SUBSET Contexts : PerformRequests(S) \/ CurlSocketActivity(S))
      PROVE  mainPc' = mainPc
  BY <1>6 DEF LoopStep, PerformLock, PerformNext, PerformInitFailed, PerformUnlock,
              CheckCompletedRead, CheckCompletedLock, CheckCompletedPush, CheckCompletedEnd,
              DispatchPerform, AsyncStopLoop, EventLoopExit, PerformRequests,
              CurlSocketActivity, SocketAction, mainVars
<1> QED  BY <1>1, <1>2, <1>3, <1>4, <1>5, <1>6 DEF Next, Terminated, Stopped

\* Once SDK_OnUnload is over no thread takes another step: uv_thread_join has
\* waited for the loop thread, so the code may be taken out of memory.
THEOREM QuietAfterUnload == Spec => UnloadQuiet
<1>1. Init => Stopped
  BY DEF Init, Stopped
<1>2. IndInv /\ Stopped /\ [Next]_vars => Stopped'
  BY StoppedStep
<1>3. Spec => []Stopped
  BY Invariance, <1>1, <1>2, PTL DEF Spec
<1>4. Stopped /\ [Next]_vars => [mainPc = "gone" => UNCHANGED vars]_vars
  BY GoneStep
<1> QED  BY <1>3, <1>4, PTL DEF Spec, UnloadQuiet
=============================================================================
