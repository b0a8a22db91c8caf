------------------------------- MODULE RipExt -------------------------------
(***************************************************************************)
(* The life of an HTTP request in the REST in Pawn extension.              *)
(*                                                                         *)
(* Two threads share two mutex-protected queues of IHTTPContext pointers.  *)
(* The MAIN thread is the game server: it runs plugin code (the natives),  *)
(* calls FrameHook once per game frame, and unloads plugins and finally    *)
(* the extension.  The LOOP thread runs libuv's event loop: it takes       *)
(* contexts out of g_RequestQueue, drives their transfers through cURL's   *)
(* multi handle, and puts finished ones into g_CompletedRequestQueue.      *)
(* Every mutex operation is a point where the other thread may intervene,  *)
(* so a critical section that contains calls is several steps here.        *)
(*                                                                         *)
(* The data of a transfer (URL, headers, bodies) is abstracted away.       *)
(*                                                                         *)
(* An operator named Action_Something is a plausible wrong version of      *)
(* Action; it is no part of the specification and serves to show that some *)
(* property notices the mistake.                                           *)
(***************************************************************************)
EXTENDS Naturals, Sequences, Functions

CONSTANTS
    RequestContexts,   \* HTTPRequestContext objects (GET, POST, PUT, ...)
    FormContexts,      \* HTTPFormContext objects (PostForm)
    FileContexts,      \* HTTPFileContext objects (DownloadFile, UploadFile)
    Untimed,           \* the contexts submitted with Timeout = 0: no deadline
    Plugins,           \* the plugins that submit requests
    MaxProcess,        \* MAX_PROCESS
    NoContext,         \* the null pointer
    NoPlugin           \* the owner of a context that does not exist yet

Contexts == RequestContexts \cup FormContexts \cup FileContexts

ASSUME ContextsAssumption ==
    /\ FileContexts \cap (RequestContexts \cup FormContexts) = {}
    /\ Untimed \subseteq Contexts
    /\ NoContext \notin Contexts
ASSUME PluginsAssumption == NoPlugin \notin Plugins
ASSUME MaxProcessAssumption == MaxProcess \in Nat \ {0}

VARIABLES
    \* the main thread
    mainPc,            \* where the main thread is
    adding,            \* the context a native is about to queue
    completing,        \* the context FrameHook has popped
    loaded,            \* the plugins that are loaded
    \* the loop thread
    loopPc,            \* where the loop thread is
    count,             \* the limiter of AsyncPerformRequests
    pushing,           \* the context CheckCompletedRequests hands over
    stopFlag,          \* uv_stop was called
    \* shared between the threads
    reqQueue, reqLock,           \* g_RequestQueue and its mutex
    doneQueue, doneLock,         \* g_CompletedRequestQueue and its mutex
    asyncPerform, asyncStop,     \* pending flags of the two uv_async_t
    \* cURL's multi handle and the timer that drives it
    multiOpen,         \* the multi stack exists
    multi,             \* contexts whose easy handle is in the multi handle
    started,           \* those of multi that cURL has begun to transfer
    finished,          \* those of multi with an unread CURLMSG_DONE
    timer,             \* g_Timeout is active
    \* the contexts
    alloc,             \* "unused", "live" or "deleted"
    owner,             \* the plugin whose function the forward holds
    file,              \* the FILE of a file context
    calls,             \* how often the plugin's callback was executed
    \* the response of the context being completed
    hndlResponse,      \* the context whose response a handle refers to
    hndlData,          \* HTTPResponse::hndlData: "bad", "open" or "stale"
    dataHandles        \* JSON handles made by GetResponseData and not closed

mainVars   == <<mainPc, adding, completing, loaded>>
loopVars   == <<loopPc, count, pushing, stopFlag>>
queueVars  == <<reqQueue, reqLock, doneQueue, doneLock>>
asyncVars  == <<asyncPerform, asyncStop>>
curlVars   == <<multiOpen, multi, started, finished, timer>>
ctxVars    == <<alloc, owner, file, calls>>
handleVars == <<hndlResponse, hndlData, dataHandles>>
vars == <<mainVars, loopVars, queueVars, asyncVars, curlVars, ctxVars, handleVars>>

Lock == {"free", "main", "loop"}

MainPcs == {"unloaded", "idle", "add", "checkDone", "pop", "completed",
            "callback", "delete", "join", "gone"}

LoopPcs == {"none", "poll", "lockReq", "perform", "check", "lockDone", "push",
            "exited"}

Init ==
    /\ mainPc = "unloaded"
    /\ adding = NoContext
    /\ completing = NoContext
    /\ loaded = Plugins
    /\ loopPc = "none"
    /\ count = 0
    /\ pushing = NoContext
    /\ stopFlag = FALSE
    /\ reqQueue = <<>> /\ reqLock = "free"
    /\ doneQueue = <<>> /\ doneLock = "free"
    /\ asyncPerform = FALSE /\ asyncStop = FALSE
    /\ multiOpen = FALSE
    /\ multi = {} /\ started = {} /\ finished = {}
    /\ timer = FALSE
    /\ alloc = [c \in Contexts |-> "unused"]
    /\ owner = [c \in Contexts |-> NoPlugin]
    /\ file = [c \in Contexts |-> "null"]
    /\ calls = [c \in Contexts |-> 0]
    /\ hndlResponse = NoContext
    /\ hndlData = "bad"
    /\ dataHandles = 0

-----------------------------------------------------------------------------
(***************************************************************************)
(* LockedQueue and the deletion of a context, used by both threads.        *)
(***************************************************************************)

\* A stack in place of a queue.
Push_Front(queue, item) == <<item>> \o queue

Push(queue, item) == Append(queue, item)

\* front() without pop().
PopRest_Peek(queue) == queue

\* Pop returns PopItem and leaves PopRest.
PopItem(queue) == Head(queue)
PopRest(queue) == Tail(queue)

\* Empty without looking into the queue.
UnlockedEmpty_Unchecked(queue, lock) == {FALSE}

\* Empty called without the lock: while the loop thread is inside its critical
\* section the read races with its Pop or Push and may return either answer.
UnlockedEmpty(queue, lock) == IF lock = "loop" THEN BOOLEAN ELSE {queue = <<>>}

\* The delete is forgotten.
Delete_Skipped(c) == UNCHANGED alloc

\* delete context.
Delete(c) == alloc' = [alloc EXCEPT ![c] = "deleted"]

-----------------------------------------------------------------------------
(***************************************************************************)
(* Main thread: loading the extension, and the natives of the plugins.     *)
(***************************************************************************)

\* SDK_OnLoad: cURL and libuv are set up and the loop thread is created, or
\* curl_global_init fails and the extension is not loaded at all.
SDK_OnLoad ==
    /\ mainPc = "unloaded"
    /\ \/ /\ mainPc' = "idle"
          /\ loopPc' = "poll"
          /\ multiOpen' = TRUE
       \/ /\ mainPc' = "gone"
          /\ UNCHANGED <<loopPc, multiOpen>>
    /\ UNCHANGED <<adding, completing, loaded, count, pushing, stopFlag, queueVars,
                   asyncVars, multi, started, finished, timer, ctxVars, handleVars>>

\* A native of plugin p creates context c with a forward that holds p's
\* callback.  Plugin code runs between frames and inside a callback.
CreateContext(c, p) ==
    /\ mainPc \in {"idle", "callback"}
    /\ alloc[c] = "unused"
    /\ p \in loaded
    /\ alloc' = [alloc EXCEPT ![c] = "live"]
    /\ owner' = [owner EXCEPT ![c] = p]
    /\ adding' = c
    /\ mainPc' = "add"
    /\ UNCHANGED <<completing, loaded, loopVars, queueVars, asyncVars, curlVars,
                   file, calls, handleVars>>

\* The natives that submit a request.  Without a forward for the callback they
\* fail before there is a context, and nothing happens.
PerformRequest(c, p) == c \in RequestContexts /\ CreateContext(c, p)
PerformFile(c, p) == c \in FileContexts /\ CreateContext(c, p)
PerformPostForm(c, p) == c \in FormContexts /\ CreateContext(c, p)

\* The same for the deprecated HTTPClient, which has no forms.
ClientRequest(c, p) == c \in RequestContexts /\ CreateContext(c, p)
ClientFile(c, p) == c \in FileContexts /\ CreateContext(c, p)

\* AddRequestToQueue: Lock, Push and Unlock.  The native then returns to the
\* plugin, which is either running between frames or in its callback.
AddRequestToQueue ==
    /\ mainPc = "add"
    /\ reqLock = "free"
    /\ reqQueue' = Push(reqQueue, adding)
    /\ adding' = NoContext
    /\ mainPc' = IF completing = NoContext THEN "idle" ELSE "callback"
    /\ UNCHANGED <<completing, loaded, loopVars, reqLock, doneQueue, doneLock,
                   asyncVars, curlVars, ctxVars, handleVars>>

-----------------------------------------------------------------------------
(***************************************************************************)
(* Main thread: FrameHook.                                                 *)
(***************************************************************************)

\* uv_async_send: sends that come before the loop thread looks are one event.
FrameHook ==
    /\ mainPc = "idle"
    /\ \E empty \in UnlockedEmpty(reqQueue, reqLock) :
          asyncPerform' = (asyncPerform \/ ~empty)
    /\ mainPc' = "checkDone"
    /\ UNCHANGED <<adding, completing, loaded, loopVars, queueVars, asyncStop,
                   curlVars, ctxVars, handleVars>>

FrameHookCheckDone ==
    /\ mainPc = "checkDone"
    /\ \E empty \in UnlockedEmpty(doneQueue, doneLock) :
          mainPc' = IF empty THEN "idle" ELSE "pop"
    /\ UNCHANGED <<adding, completing, loaded, loopVars, queueVars, asyncVars,
                   curlVars, ctxVars, handleVars>>

\* Lock and Pop.  The lock is kept until the context has been deleted.
FrameHookPop ==
    /\ mainPc = "pop"
    /\ doneLock = "free"
    /\ doneLock' = "main"
    /\ completing' = PopItem(doneQueue)
    /\ doneQueue' = PopRest(doneQueue)
    /\ mainPc' = "completed"
    /\ UNCHANGED <<adding, loaded, loopVars, reqQueue, reqLock, asyncVars,
                   curlVars, ctxVars, handleVars>>

\* Counts the functions the forward was created with.
FunctionCount_Stale(c) == 1

\* forward->GetFunctionCount(): SourceMod takes the functions of a plugin out
\* of every forward when it unloads the plugin.
FunctionCount(c) == IF owner[c] \in loaded THEN 1 ELSE 0

\* forward->Execute(): the plugin's callback begins to run.
ExecuteForward(c) ==
    /\ calls' = [calls EXCEPT ![c] = @ + 1]
    /\ mainPc' = "callback"

\* OnCompleted of the two kinds of context that have a response: the callback
\* is skipped when the plugin is gone or when the handle system cannot create
\* the response handle.
ResponseOnCompleted ==
    /\ mainPc = "completed"
    /\ \/ /\ FunctionCount(completing) # 0
          /\ hndlResponse' = completing
          /\ hndlData' = "bad"
          /\ ExecuteForward(completing)
       \/ /\ mainPc' = "delete"
          /\ UNCHANGED <<hndlResponse, hndlData, calls>>
    /\ UNCHANGED <<adding, completing, loaded, loopVars, queueVars, asyncVars,
                   curlVars, alloc, owner, file, dataHandles>>

RequestOnCompleted == completing \in RequestContexts /\ ResponseOnCompleted
FormOnCompleted == completing \in FormContexts /\ ResponseOnCompleted

\* Closes the file after the early return.
Fclose_Late(c) ==
    file' = [file EXCEPT ![c] = IF FunctionCount(c) # 0 THEN "closed" ELSE @]

Fclose(c) == file' = [file EXCEPT ![c] = "closed"]

\* HTTPFileContext::OnCompleted: the file is closed before anything else.
FileOnCompleted ==
    /\ mainPc = "completed"
    /\ completing \in FileContexts
    /\ Fclose(completing)
    /\ \/ /\ FunctionCount(completing) # 0
          /\ ExecuteForward(completing)
       \/ /\ FunctionCount(completing) = 0
          /\ mainPc' = "delete"
          /\ UNCHANGED calls
    /\ UNCHANGED <<adding, completing, loaded, loopVars, queueVars, asyncVars,
                   curlVars, alloc, owner, handleVars>>

\* Parses the body at every call.
DataCached_Never == FALSE

DataCached == hndlData # "bad"

\* GetResponseData inside the callback: the first call that parses the body
\* makes a JSON handle and caches it in the response; later calls return it.
GetResponseData ==
    /\ mainPc = "callback"
    /\ hndlResponse # NoContext
    /\ ~DataCached
    /\ hndlData' = "open"
    /\ dataHandles' = dataHandles + 1
    /\ UNCHANGED <<mainVars, loopVars, queueVars, asyncVars, curlVars, ctxVars,
                   hndlResponse>>

\* The plugin closes the data handle itself, which anyone may do: the cached
\* value stays behind in the response.
CloseDataHandle ==
    /\ mainPc = "callback"
    /\ hndlData = "open"
    /\ hndlData' = "stale"
    /\ dataHandles' = dataHandles - 1
    /\ UNCHANGED <<mainVars, loopVars, queueVars, asyncVars, curlVars, ctxVars,
                   hndlResponse>>

\* The callback returns and OnCompleted frees the handles it has given out:
\* the file context has none, and freeing a stale or bad handle does nothing.
CallbackReturn ==
    /\ mainPc = "callback"
    /\ mainPc' = "delete"
    /\ hndlResponse' = NoContext
    /\ hndlData' = "bad"
    /\ dataHandles' = IF hndlData = "open" THEN dataHandles - 1 ELSE dataHandles
    /\ UNCHANGED <<adding, completing, loaded, loopVars, queueVars, asyncVars,
                   curlVars, ctxVars>>

\* delete context; then the completed queue is unlocked.
DeleteContext ==
    /\ mainPc = "delete"
    /\ Delete(completing)
    /\ completing' = NoContext
    /\ doneLock' = "free"
    /\ mainPc' = "idle"
    /\ UNCHANGED <<adding, loaded, loopVars, reqQueue, reqLock, doneQueue,
                   asyncVars, curlVars, owner, file, calls, handleVars>>

-----------------------------------------------------------------------------
(***************************************************************************)
(* Main thread: plugins and the extension are unloaded.                    *)
(***************************************************************************)

\* SourceMod unloads a plugin, never while that plugin's code is running.
PluginUnload(p) ==
    /\ mainPc = "idle"
    /\ p \in loaded
    /\ loaded' = loaded \ {p}
    /\ UNCHANGED <<mainPc, adding, completing, loopVars, queueVars, asyncVars,
                   curlVars, ctxVars, handleVars>>

\* SDK_OnUnload up to uv_thread_join.
SDK_OnUnload ==
    /\ mainPc = "idle"
    /\ asyncStop' = TRUE
    /\ mainPc' = "join"
    /\ UNCHANGED <<adding, completing, loaded, loopVars, queueVars, asyncPerform,
                   curlVars, ctxVars, handleVars>>

\* Does not wait for the loop thread.
ThreadJoined_NoWait == TRUE

\* uv_thread_join returns.
ThreadJoined == loopPc = "exited"

\* The rest of SDK_OnUnload.  curl_multi_cleanup is given the address of
\* g_Curl, which is no multi handle: it returns CURLM_BAD_HANDLE and the
\* multi stack stays.  No context is deleted.
SDK_OnUnloadJoined ==
    /\ mainPc = "join"
    /\ ThreadJoined
    /\ mainPc' = "gone"
    /\ UNCHANGED <<adding, completing, loaded, loopVars, queueVars, asyncVars,
                   curlVars, ctxVars, handleVars>>

-----------------------------------------------------------------------------
(***************************************************************************)
(* Loop thread: AsyncPerformRequests.                                      *)
(***************************************************************************)

\* libuv clears the pending flag before it calls the handler, so a send that
\* comes during the handler is seen again.
DispatchPerform ==
    /\ loopPc = "poll"
    /\ asyncPerform
    /\ asyncPerform' = FALSE
    /\ loopPc' = "lockReq"
    /\ UNCHANGED <<mainVars, count, pushing, stopFlag, queueVars, asyncStop,
                   curlVars, ctxVars, handleVars>>

PerformLock ==
    /\ loopPc = "lockReq"
    /\ reqLock = "free"
    /\ reqLock' = "loop"
    /\ count' = 0
    /\ loopPc' = "perform"
    /\ UNCHANGED <<mainVars, pushing, stopFlag, reqQueue, doneQueue, doneLock,
                   asyncVars, curlVars, ctxVars, handleVars>>

\* The limit is off by one.
MorePending_OffByOne == reqQueue # <<>> /\ count <= MaxProcess

MorePending == reqQueue # <<>> /\ count < MaxProcess

\* The timer is not started.
CurlMultiAdd_NoTimer(c) == multi' = multi \cup {c} /\ UNCHANGED timer

\* curl_multi_add_handle: cURL asks at once for a timer that fires at once.
CurlMultiAdd(c) == multi' = multi \cup {c} /\ timer' = TRUE

\* InitCurl succeeds: an easy handle with all its options, which carries the
\* context as its private pointer, and for a file context the open file.
RequestInitCurl(c) == c \in RequestContexts /\ UNCHANGED file
FormInitCurl(c) == c \in FormContexts /\ UNCHANGED file
FileInitCurl(c) ==
    /\ c \in FileContexts
    /\ file' = [file EXCEPT ![c] = "open"]
InitCurl(c) == RequestInitCurl(c) \/ FormInitCurl(c) \/ FileInitCurl(c)

PerformNext ==
    /\ loopPc = "perform"
    /\ MorePending
    /\ InitCurl(PopItem(reqQueue))
    /\ CurlMultiAdd(PopItem(reqQueue))
    /\ reqQueue' = PopRest(reqQueue)
    /\ count' = count + 1
    /\ UNCHANGED <<mainVars, loopPc, pushing, stopFlag, reqLock, doneQueue,
                   doneLock, asyncVars, multiOpen, started, finished, alloc, owner,
                   calls, handleVars>>

\* The continue after the delete is missing.
PerformInitFailed_NoContinue ==
    /\ loopPc = "perform"
    /\ MorePending
    /\ Delete(PopItem(reqQueue))
    /\ CurlMultiAdd(PopItem(reqQueue))
    /\ reqQueue' = PopRest(reqQueue)
    /\ UNCHANGED <<mainVars, loopVars, reqLock, doneQueue, doneLock, asyncVars,
                   multiOpen, started, finished, owner, file, calls, handleVars>>

\* InitCurl fails (curl_easy_init or fopen returned NULL): the context is
\* deleted on the loop thread and does not count towards the limit.
PerformInitFailed ==
    /\ loopPc = "perform"
    /\ MorePending
    /\ Delete(PopItem(reqQueue))
    /\ reqQueue' = PopRest(reqQueue)
    /\ UNCHANGED <<mainVars, loopVars, reqLock, doneQueue, doneLock, asyncVars,
                   curlVars, owner, file, calls, handleVars>>

\* Drives the new transfers, and hands over the finished ones, while it still
\* holds the lock.
PerformUnlock_RunsCurl ==
    /\ loopPc = "perform"
    /\ ~MorePending
    /\ started' = multi
    /\ finished' \in SUBSET multi
    /\ loopPc' = "check"
    /\ UNCHANGED <<mainVars, count, pushing, stopFlag, queueVars, asyncVars,
                   multiOpen, multi, timer, ctxVars, handleVars>>

PerformUnlock ==
    /\ loopPc = "perform"
    /\ ~MorePending
    /\ reqLock' = "free"
    /\ loopPc' = "poll"
    /\ UNCHANGED <<mainVars, count, pushing, stopFlag, reqQueue, doneQueue,
                   doneLock, asyncVars, curlVars, ctxVars, handleVars>>

-----------------------------------------------------------------------------
(***************************************************************************)
(* Loop thread: cURL's socket and timer callbacks.                         *)
(***************************************************************************)

\* A transfer without deadline has begun.  It may have the only connection to
\* its host and keep others waiting for it (CURLOPT_PIPEWAIT), for whose
\* deadlines cURL then does nothing.
Holding(m) == m \cap Untimed # {}

\* The transfers for which cURL certainly has a time in its timer tree: those
\* it has yet to begin and, unless they may be kept waiting, those with a
\* deadline.
Expiring(m, s) == (m \ s) \cup {c \in m : ~Holding(m \cap s)}

\* CurlTimeoutCallback, called by cURL with the earliest time it waits for:
\* g_Timeout is started, or stopped when nothing waits.  A transfer without
\* deadline may still wait for a time (to connect, say).  That it is not
\* stopped while one of Expiring is there is derived from cURL's timer tree in
\* CurlTimer (TimerCovers, DeadlineKept and PendingHeld there).
CurlTimeoutCallback(m, s) ==
    \/ /\ m # {}
       /\ timer' = TRUE
    \/ /\ Expiring(m, s) = {}
       /\ timer' = FALSE

\* curl_multi_socket_action: cURL begins every transfer it has not begun,
\* progresses the others, and those in S come to their end.
SocketAction(S) ==
    /\ S \subseteq multi
    /\ started' = multi
    /\ finished' = finished \cup S
    /\ CurlTimeoutCallback(multi, multi)
    /\ loopPc' = "check"
    /\ UNCHANGED <<mainVars, count, pushing, stopFlag, queueVars, asyncVars,
                   multiOpen, multi, ctxVars, handleVars>>

\* PerformRequests, the handler of g_Timeout.  libuv runs timers at the start
\* of an iteration, hence not after uv_stop.
PerformRequests(S) ==
    /\ loopPc = "poll"
    /\ timer
    /\ ~stopFlag
    /\ SocketAction(S)

\* CurlSocketActivity: only transfers that have begun have a socket.
CurlSocketActivity(S) ==
    /\ loopPc = "poll"
    /\ started # {}
    /\ SocketAction(S)

\* The easy handle stays in the multi handle.
CurlMultiRemove_Skipped(c) == UNCHANGED <<multi, started, timer>>

\* curl_multi_remove_handle, after which cURL revises its timer.
CurlMultiRemove(c) ==
    /\ multi' = multi \ {c}
    /\ started' = started \ {c}
    /\ CurlTimeoutCallback(multi \ {c}, started \ {c})

\* CheckCompletedRequests: curl_multi_info_read yields the message of c, the
\* easy handle leaves the multi handle and the context is handed over under
\* the lock.
CheckCompletedRead(c) ==
    /\ loopPc = "check"
    /\ c \in finished
    /\ finished' = finished \ {c}
    /\ CurlMultiRemove(c)
    /\ pushing' = c
    /\ loopPc' = "lockDone"
    /\ UNCHANGED <<mainVars, count, stopFlag, queueVars, asyncVars, multiOpen,
                   ctxVars, handleVars>>

CheckCompletedLock ==
    /\ loopPc = "lockDone"
    /\ doneLock = "free"
    /\ doneLock' = "loop"
    /\ loopPc' = "push"
    /\ UNCHANGED <<mainVars, count, pushing, stopFlag, reqQueue, reqLock,
                   doneQueue, asyncVars, curlVars, ctxVars, handleVars>>

CheckCompletedPush ==
    /\ loopPc = "push"
    /\ doneQueue' = Push(doneQueue, pushing)
    /\ doneLock' = "free"
    /\ pushing' = NoContext
    /\ loopPc' = "check"
    /\ UNCHANGED <<mainVars, count, stopFlag, reqQueue, reqLock, asyncVars,
                   curlVars, ctxVars, handleVars>>

\* curl_multi_info_read returns NULL.
NoMessage == finished = {}

CheckCompletedEnd ==
    /\ loopPc = "check"
    /\ NoMessage
    /\ loopPc' = "poll"
    /\ UNCHANGED <<mainVars, count, pushing, stopFlag, queueVars, asyncVars,
                   curlVars, ctxVars, handleVars>>

\* AsyncStopLoop.
AsyncStopLoop ==
    /\ loopPc = "poll"
    /\ asyncStop
    /\ asyncStop' = FALSE
    /\ stopFlag' = TRUE
    /\ UNCHANGED <<mainVars, loopPc, count, pushing, queueVars, asyncPerform,
                   curlVars, ctxVars, handleVars>>

\* EventLoop: uv_run returns at the end of the iteration in which uv_stop was
\* called; other events of that iteration may still be handled before.
EventLoopExit ==
    /\ loopPc = "poll"
    /\ stopFlag
    /\ loopPc' = "exited"
    /\ UNCHANGED <<mainVars, count, pushing, stopFlag, queueVars, asyncVars,
                   curlVars, ctxVars, handleVars>>

-----------------------------------------------------------------------------
\* After the extension is unloaded nothing happens any more.
Terminated == mainPc = "gone" /\ UNCHANGED vars

Submit(c, p) == \/ PerformRequest(c, p)
                \/ PerformFile(c, p)
                \/ PerformPostForm(c, p)
                \/ ClientRequest(c, p)
                \/ ClientFile(c, p)

Natives == \/ \E c \in Contexts, p \in Plugins : Submit(c, p)
           \/ GetResponseData
           \/ CloseDataHandle

MainStep == \/ AddRequestToQueue
            \/ FrameHookCheckDone
            \/ FrameHookPop
            \/ RequestOnCompleted
            \/ FormOnCompleted
            \/ FileOnCompleted
            \/ CallbackReturn
            \/ DeleteContext
            \/ SDK_OnUnloadJoined

LoopStep == \/ PerformLock
            \/ PerformNext
            \/ PerformInitFailed
            \/ PerformUnlock
            \/ \E c \in Contexts : CheckCompletedRead(c)
            \/ CheckCompletedLock
            \/ CheckCompletedPush
            \/ CheckCompletedEnd

Next == \/ SDK_OnLoad
        \/ Natives
        \/ FrameHook
        \/ MainStep
        \/ \E p \in Plugins : PluginUnload(p)
        \/ SDK_OnUnload
        \/ DispatchPerform
        \/ LoopStep
        \/ \E S \in SUBSET Contexts : PerformRequests(S)
        \/ \E S \in SUBSET Contexts : CurlSocketActivity(S)
        \/ AsyncStopLoop
        \/ EventLoopExit
        \/ Terminated

Spec == Init /\ [][Next]_vars

\* c's deadline passes: the timer fires and c is among the transfers that end.
Expire(c) == ~Holding(multi) /\ \E S \in SUBSET Contexts : c \in S /\ PerformRequests(S)

(***************************************************************************)
(* The scheduler runs both threads; the game server keeps calling          *)
(* FrameHook; plugin callbacks return; an event that stays pending is      *)
(* handled in some iteration of the loop, and uv_run returns at the end of *)
(* the iteration that called uv_stop; cURL ends a transfer whose deadline  *)
(* has passed, unless one without deadline keeps it waiting.  Nobody need  *)
(* load or unload anything or submit a request.                            *)
(***************************************************************************)
Fairness ==
    /\ WF_vars(MainStep)
    /\ WF_vars(FrameHook)
    /\ WF_vars(LoopStep)
    /\ SF_vars(DispatchPerform)
    /\ SF_vars(AsyncStopLoop)
    /\ SF_vars(EventLoopExit)
    /\ \A c \in Contexts \ Untimed : SF_vars(Expire(c))

FairSpec == Spec /\ Fairness

-----------------------------------------------------------------------------
(***************************************************************************)
(* Properties                                                              *)
(***************************************************************************)

\* The flags: uv_stop, the pending bits of the two uv_async_t, the existence of
\* the multi handle and the timer.
FlagsOK ==
    /\ stopFlag \in BOOLEAN
    /\ asyncPerform \in BOOLEAN
    /\ asyncStop \in BOOLEAN
    /\ multiOpen \in BOOLEAN
    /\ timer \in BOOLEAN

\* Every variable has its type, the limiter of AsyncPerformRequests stays within
\* MaxProcess, and only transfers cURL has begun can have ended.
TypeOK ==
    /\ FlagsOK
    /\ mainPc \in MainPcs
    /\ adding \in Contexts \cup {NoContext}
    /\ completing \in Contexts \cup {NoContext}
    /\ loaded \subseteq Plugins
    /\ loopPc \in LoopPcs
    /\ count \in 0..MaxProcess
    /\ pushing \in Contexts \cup {NoContext}
    /\ reqQueue \in Seq(Contexts) /\ reqLock \in Lock
    /\ doneQueue \in Seq(Contexts) /\ doneLock \in Lock
    /\ multi \subseteq Contexts
    /\ started \subseteq multi
    /\ finished \subseteq started
    /\ alloc \in [Contexts -> {"unused", "live", "deleted"}]
    /\ owner \in [Contexts -> Plugins \cup {NoPlugin}]
    /\ file \in [Contexts -> {"null", "open", "closed"}]
    /\ calls \in [Contexts -> Nat]
    /\ hndlResponse \in Contexts \cup {NoContext}
    /\ hndlData \in {"bad", "open", "stale"}
    /\ dataHandles \in Nat

\* The places that hold a pointer to a context.
Held(c) ==
    \/ adding = c
    \/ c \in Range(reqQueue)
    \/ c \in multi
    \/ pushing = c
    \/ c \in Range(doneQueue)
    \/ completing = c

\* No thread, queue or cURL handle holds a pointer to a context that has been
\* deleted (AsyncPerformRequests and FrameHook both delete contexts).
NoDangling == \A c \in Contexts : Held(c) => alloc[c] = "live"

\* No context is forgotten: as long as it exists something holds it, whatever
\* early return was taken on the way.
NoLeak == \A c \in Contexts : alloc[c] = "live" => Held(c)

\* A context is in one place only, and once: the loop thread's cURL callbacks
\* write into it without a lock, so nobody else may have it meanwhile.
SingleOwner ==
    /\ IsInjective(reqQueue)
    /\ IsInjective(doneQueue)
    /\ \A c \in Contexts :
          /\ c \in Range(reqQueue) => /\ c \notin multi \cup Range(doneQueue)
                                     /\ c \notin {adding, pushing, completing}
          /\ c \in multi => /\ c \notin Range(doneQueue)
                            /\ c \notin {adding, pushing, completing}
          /\ c \in Range(doneQueue) => c \notin {adding, pushing, completing}
          /\ c = adding => c \notin {pushing, completing}
          /\ c = pushing => c # completing

\* FrameHook checks Empty without the lock and pops after taking it: by then
\* there is something to pop, because nobody else pops.
PopSafe == mainPc = "pop" /\ doneLock = "free" => doneQueue # <<>>

\* The callback of a request runs at most once.
CallbackOnce == \A c \in Contexts : calls[c] <= 1

\* A callback is executed only while the plugin that gave it is loaded ("Return
\* early if the plugin was unloaded while the thread was running").
CallbackOwnerLoaded ==
    mainPc = "callback" => owner[completing] \in loaded

\* The file of a download or upload is open from InitCurl until OnCompleted
\* closes it, on every path, and never when the context is gone.
FileOpenWhileUsed ==
    \A c \in FileContexts :
        file[c] = "open" <=> \/ c \in multi \cup {pushing} \cup Range(doneQueue)
                             \/ c = completing /\ mainPc = "completed"

\* The response handle refers to memory inside the context being completed
\* and the JSON handle is cached there: both are closed before the context is
\* deleted, whatever the plugin did with them in its callback.
HandlesScoped ==
    /\ hndlResponse # NoContext => hndlResponse = completing
    /\ mainPc \notin {"callback", "add"} => hndlResponse = NoContext /\ dataHandles = 0
    /\ dataHandles <= 1

\* The main thread waits for g_RequestQueue while it holds
\* g_CompletedRequestQueue (a callback that submits a request).  The loop
\* thread never waits the other way round.
LockOrder ==
    /\ loopPc = "lockDone" => reqLock # "loop"
    /\ reqLock # "main"
    /\ doneLock = "main" <=> completing # NoContext

\* No CURLMSG_DONE is left unread when the loop goes back to polling: it would
\* wait there for the next event of some other transfer.
MessagesDrained == loopPc \in {"poll", "exited"} => finished = {}

\* Once SDK_OnUnload is over no thread of the extension takes another step.
UnloadQuiet == [][mainPc = "gone" => UNCHANGED vars]_vars

\* A request with a deadline does not linger: its context is deleted in the
\* end, unless the extension is unloaded first or a transfer without deadline
\* keeps it waiting in cURL.
RequestSettles ==
    \A c \in Contexts \ Untimed :
        alloc[c] = "live" ~> \/ alloc[c] = "deleted"
                             \/ mainPc \in {"join", "gone"}
                             \/ c \in multi /\ Holding(multi)

\* The main thread never hangs in a native, in FrameHook or in SDK_OnUnload.
MainReturns == mainPc \notin {"unloaded", "idle", "gone"} ~> mainPc \in {"idle", "gone"}

\* The callback is "a function to use as a callback when the download has
\* finished" (http.inc): a plugin that stays loaded gets it in the end.
CallbackAnswers ==
    \A c \in Contexts \ Untimed :
        alloc[c] = "live" ~> \/ calls[c] = 1
                             \/ owner[c] \notin loaded
                             \/ mainPc \in {"join", "gone"}

\* The state read as that of Delivery: a transfer is in flight until it is in
\* the completed queue, and a context that was popped has arrived until
\* OnCompleted decides about it.
InFlight == IF pushing = NoContext THEN multi ELSE multi \cup {pushing}
Arrived  == IF mainPc = "completed" THEN <<completing>> \o doneQueue ELSE doneQueue
Called   == {c \in Contexts : calls[c] > 0}
Lost     == {c \in Contexts : /\ calls[c] = 0
                             /\ \/ alloc[c] = "deleted"
                                \/ mainPc = "delete" /\ completing = c}

D == INSTANCE Delivery WITH waiting <- reqQueue, inFlight <- InFlight,
                            arrived <- Arrived, called <- Called, lost <- Lost

\* What the extension promises: requests begin in the order they were
\* submitted, results reach the plugins in the order the transfers ended, and
\* no request is delivered twice or appears from nowhere.
Promise == D!DSpec
=============================================================================
