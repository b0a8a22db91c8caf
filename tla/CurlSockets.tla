----------------------------- MODULE CurlSockets -----------------------------
(***************************************************************************)
(* The sockets of cURL and the poll handles of libuv.                      *)
(*                                                                         *)
(* cURL does not wait for its sockets itself: through CurlSocketCallback   *)
(* it says which socket it wants watched and for what, and when it is done *)
(* with one.  The extension keeps a CurlContext with a uv_poll_t for each. *)
(* A poll handle that is closed is freed by libuv only at the end of the   *)
(* loop's iteration, while cURL may get the same descriptor for another    *)
(* connection at once.                                                     *)
(*                                                                         *)
(* Everything happens on the loop thread.  One iteration: the timer, one   *)
(* batch of socket events, the closing handles.  The timer and every event *)
(* call into cURL, which runs some of its transfers one after the other    *)
(* (multi_runsingle) and after each compares what the transfer waits for   *)
(* with what it waited for before (singlesocket).                          *)
(***************************************************************************)
EXTENDS Naturals, FiniteSets

CONSTANTS
    Transfers,   \* the easy handles in the multi handle
    Sockets,     \* the descriptors the system can give out
    Contexts,    \* the memory for CurlContexts
    MaxSocks,    \* how many sockets a transfer connects at a time
    NoContext,   \* a null pointer
    NoTransfer   \* cURL is between two transfers

ASSUME NullAssumption == NoContext \notin Contexts /\ NoTransfer \notin Transfers
ASSUME FiniteAssumption ==
    IsFiniteSet(Transfers) /\ IsFiniteSet(Sockets) /\ IsFiniteSet(Contexts)

\* cURL
VARIABLES
    opened,      \* the open descriptors
    failed,      \* those of them that have an error to report
    connected,   \* the sockets of a transfer's connection
    asked,       \* what a transfer waits for, as of its last singlesocket
    sockhash,    \* cURL's entries: users, the action asked for, socketp
    running,     \* the transfers the current call still has to run
    current,     \* the one it runs
    phase,       \* of its run: "run", then "singlesocket"
    want,        \* what that one waits for now
    todo         \* the sockets singlesocket has yet to look at

\* libuv and the extension
VARIABLES
    loopPc,      \* what uv_run is doing: "timers" or "batch"
    watchers,    \* the context whose handle is watching a descriptor
    ready,       \* what the current batch has for a descriptor: "", "event", "error"
    closing,     \* the handles to be freed at the end of the iteration
    context      \* the CurlContexts: life, socket, events watched

curl == <<opened, failed, connected, asked, sockhash, running, current, phase, want, todo>>
uv == <<watchers, ready, closing, context>>
svars == <<curl, loopPc, uv>>

Actions == {{"in"}, {"out"}, {"in", "out"}}

NoEntry == [users |-> {}, action |-> {}, socketp |-> NoContext]
NoMemory == [state |-> "free", socket |-> NoContext, events |-> {}]

Init ==
    /\ opened = {} /\ failed = {}
    /\ connected = [t \in Transfers |-> {}]
    /\ asked = [t \in Transfers |-> <<>>]
    /\ sockhash = [s \in Sockets |-> NoEntry]
    /\ running = {} /\ current = NoTransfer
    /\ phase = "run" /\ want = <<>> /\ todo = {}
    /\ loopPc = "timers"
    /\ watchers = [s \in Sockets |-> NoContext]
    /\ ready = [s \in Sockets |-> ""]
    /\ closing = {}
    /\ context = [c \in Contexts |-> NoMemory]

FreeContexts == {c \in Contexts : context[c].state = "free"}

-----------------------------------------------------------------------------
(***************************************************************************)
(* CurlSocketCallback                                                      *)
(***************************************************************************)

\* The conditions are the wrong way round.
UvEvents_Swapped(action) ==
    {e \in {"readable", "writable"} : \/ e = "writable" /\ action # {"out"}
                                      \/ e = "readable" /\ action # {"in"}}

\* The events to watch for an action.
UvEvents(action) ==
    {e \in {"readable", "writable"} : \/ e = "writable" /\ action # {"in"}
                                      \/ e = "readable" /\ action # {"out"}}

\* The context cURL passed is ignored.
ContextFor_AlwaysNew(s) == FreeContexts

\* The context cURL passed, or memory for a new one.
ContextFor(s) ==
    IF sockhash[s].socketp # NoContext THEN {sockhash[s].socketp} ELSE FreeContexts

\* uv_poll_init: a descriptor that is being watched is refused, and the handle
\* stays uninitialised; nobody looks at the error.
NewContext(c, s) ==
    IF context[c].state # "free" THEN context[c]
    ELSE [state |-> IF watchers[s] = NoContext THEN "open" ELSE "broken",
          socket |-> s, events |-> {}]

\* uv_poll_start stops the handle first, which also takes the descriptor out
\* of the current batch.
PollStart(c, s, events) ==
    IF watchers[s] \in {NoContext, c} /\ NewContext(c, s).state = "open"
    THEN /\ context' = [context EXCEPT ![c] = [NewContext(c, s) EXCEPT !.events = events]]
         /\ watchers' = [watchers EXCEPT ![s] = c]
         /\ ready' = [ready EXCEPT ![s] = ""]
    ELSE /\ context' = [context EXCEPT ![c] = NewContext(c, s)]
         /\ UNCHANGED <<watchers, ready>>

\* CURL_POLL_IN, CURL_POLL_OUT and CURL_POLL_INOUT, when cURL has left the
\* users and the action of its entry as in e.
SocketCallbackPoll(s, e) ==
    /\ \E c \in ContextFor(s) :
          /\ PollStart(c, s, UvEvents(e.action))
          /\ sockhash' = [sockhash EXCEPT ![s] = [e EXCEPT !.socketp = c]]
    /\ UNCHANGED closing

\* The context is deleted at once, and libuv left with its handle.
Destroy_Now(c) ==
    /\ watchers' = [s \in Sockets |-> IF watchers[s] = c THEN NoContext ELSE watchers[s]]
    /\ ready' = [ready EXCEPT ![context[c].socket] = ""]
    /\ context' = [context EXCEPT ![c] = NoMemory]
    /\ closing' = closing \cup {c}

\* The handle is closed without being stopped.
Destroy_StillPolling(c) ==
    /\ context' = [context EXCEPT ![c].state = "closing"]
    /\ closing' = closing \cup {c}
    /\ UNCHANGED <<watchers, ready>>

\* CurlContext::Destroy.
Destroy(c) ==
    /\ watchers' = [s \in Sockets |-> IF watchers[s] = c THEN NoContext ELSE watchers[s]]
    /\ ready' = [ready EXCEPT ![context[c].socket] = ""]
    /\ context' = [context EXCEPT ![c].state = "closing", ![c].events = {}]
    /\ closing' = closing \cup {c}

\* CURL_POLL_REMOVE; cURL then deletes its entry.
SocketCallbackRemove(s) ==
    /\ \/ sockhash[s].socketp # NoContext /\ Destroy(sockhash[s].socketp)
       \/ sockhash[s].socketp = NoContext /\ UNCHANGED uv
    /\ sockhash' = [sockhash EXCEPT ![s] = NoEntry]

-----------------------------------------------------------------------------
(***************************************************************************)
(* cURL runs a transfer                                                    *)
(***************************************************************************)

RunSingle(t) ==
    /\ t \in running /\ current = NoTransfer
    /\ current' = t
    /\ UNCHANGED <<opened, failed, connected, asked, sockhash, running, phase, want, todo, loopPc, uv>>

\* The transfer is at work, singlesocket has not begun.
AtWork == current # NoTransfer /\ phase = "run"

\* A new connection: any descriptor that is not in use.
OpenSocket(s) ==
    /\ AtWork
    /\ s \notin opened
    /\ Cardinality(connected[current]) < MaxSocks
    /\ opened' = opened \cup {s}
    /\ connected' = [connected EXCEPT ![current] = @ \cup {s}]
    /\ UNCHANGED <<failed, asked, sockhash, running, current, phase, want, todo, loopPc, uv>>

\* A connection from the cache, or one that other transfers are using
\* (HTTP/2).
ReuseConnection(s) ==
    /\ AtWork
    /\ connected[current] = {}
    /\ s \in opened \ failed
    /\ connected' = [connected EXCEPT ![current] = {s}]
    /\ UNCHANGED <<opened, failed, asked, sockhash, running, current, phase, want, todo, loopPc, uv>>

\* The transfer ends; its connection goes to the cache or stays with the other
\* transfers on it.
LeaveConnection(s) ==
    /\ AtWork
    /\ s \in connected[current]
    /\ s \in failed => \E t \in Transfers \ {current} : s \in connected[t]
    /\ connected' = [connected EXCEPT ![current] = @ \ {s}]
    /\ UNCHANGED <<opened, failed, asked, sockhash, running, current, phase, want, todo, loopPc, uv>>

\* The socket is closed under the transfer that uses it.
MultiClosed_KeepsUser(s) ==
    /\ AtWork
    /\ s \in opened
    /\ \/ sockhash[s].users # {} /\ SocketCallbackRemove(s)
       \/ sockhash[s].users = {} /\ UNCHANGED <<sockhash, uv>>
    /\ opened' = opened \ {s}
    /\ failed' = failed \ {s}
    /\ UNCHANGED <<connected, asked, running, current, phase, want, todo, loopPc>>

\* Curl_multi_closed and the close that follows it, of a socket nobody else
\* uses.
MultiClosed(s) ==
    /\ AtWork
    /\ s \in opened
    /\ \A t \in Transfers \ {current} : s \notin connected[t]
    /\ \/ sockhash[s].users # {} /\ SocketCallbackRemove(s)
       \/ sockhash[s].users = {} /\ UNCHANGED <<sockhash, uv>>
    /\ opened' = opened \ {s}
    /\ failed' = failed \ {s}
    /\ connected' = [connected EXCEPT ![current] = @ \ {s}]
    /\ UNCHANGED <<asked, running, current, phase, want, todo, loopPc>>

-----------------------------------------------------------------------------
(***************************************************************************)
(* singlesocket: first the sockets the transfer waits for, then those it   *)
(* waited for before.                                                      *)
(***************************************************************************)

\* A transfer does not go on waiting for a socket that has failed.  (The bound
\* is the memory: a context for each socket that needs one.)
SingleSocket ==
    /\ AtWork
    /\ connected[current] \cap failed = {}
    /\ \E S \in SUBSET connected[current] :
          /\ Cardinality({s \in S : sockhash[s].socketp = NoContext}) <= Cardinality(FreeContexts)
          /\ want' \in [S -> Actions]
          /\ todo' = S \cup DOMAIN asked[current]
    /\ phase' = "singlesocket"
    /\ UNCHANGED <<opened, failed, connected, asked, sockhash, running, current, loopPc, uv>>

\* What all users of s wait for.
ComboAction(s) == want[s] \cup UNION {asked[t][s] : t \in sockhash[s].users \ {current}}

\* cURL calls back unless this transfer was a user and nothing has changed.
SingleSocketAsk(s) ==
    /\ phase = "singlesocket" /\ s \in todo \cap DOMAIN want
    /\ todo' = todo \ {s}
    /\ \/ /\ sockhash[s].users # {} /\ s \in DOMAIN asked[current]
          /\ sockhash[s].action = ComboAction(s)
          /\ UNCHANGED <<sockhash, uv>>
       \/ /\ \/ sockhash[s].users = {} \/ s \notin DOMAIN asked[current]
             \/ sockhash[s].action # ComboAction(s)
          /\ SocketCallbackPoll(s, [sockhash[s] EXCEPT !.users = @ \cup {current},
                                                       !.action = ComboAction(s)])
    /\ UNCHANGED <<opened, failed, connected, asked, running, current, phase, want, loopPc>>

\* No entry: Curl_multi_closed was there first.  As long as other users remain
\* cURL neither calls back nor changes the action.
SingleSocketGone(s) ==
    /\ phase = "singlesocket" /\ s \in todo /\ todo \cap DOMAIN want = {}
    /\ todo' = todo \ {s}
    /\ \/ sockhash[s].users = {} /\ UNCHANGED <<sockhash, uv>>
       \/ Cardinality(sockhash[s].users) = 1 /\ SocketCallbackRemove(s)
       \/ /\ Cardinality(sockhash[s].users) > 1
          /\ sockhash' = [sockhash EXCEPT ![s].users = @ \ {current}]
          /\ UNCHANGED uv
    /\ UNCHANGED <<opened, failed, connected, asked, running, current, phase, want, loopPc>>

SingleSocketEnd ==
    /\ phase = "singlesocket" /\ todo = {}
    /\ asked' = [asked EXCEPT ![current] = want]
    /\ running' = running \ {current}
    /\ current' = NoTransfer /\ phase' = "run" /\ want' = <<>>
    /\ UNCHANGED <<opened, failed, connected, sockhash, todo, loopPc, uv>>

-----------------------------------------------------------------------------
(***************************************************************************)
(* The loop                                                                *)
(***************************************************************************)

Idle == running = {}

\* curl_multi_socket_action runs the transfers in T and those whose time has
\* come.
SocketAction(T) ==
    /\ \E E \in SUBSET Transfers : running' = T \cup E
    /\ UNCHANGED <<opened, connected, asked, sockhash, current, phase, want, todo, loopPc>>

PerformRequests ==
    /\ loopPc = "timers" /\ Idle
    /\ SocketAction({})
    /\ UNCHANGED <<failed, uv>>

\* The descriptors that are ready for an event that is watched, or have an
\* error.  (Which event it is makes no difference: the callback passes it on,
\* and cURL looks for itself.)
IoPoll ==
    /\ loopPc = "timers" /\ Idle
    /\ loopPc' = "batch"
    /\ ready' \in [Sockets -> {"", "event", "error"}]
    /\ \A s \in Sockets : watchers[s] = NoContext => ready'[s] = ""
    /\ UNCHANGED <<curl, watchers, closing, context>>

\* cURL knows the socket, or ignores the call.
CurlSocketActivity(c) == SocketAction(sockhash[context[c].socket].users)

\* uv__poll_io.
PollIo(s) ==
    /\ loopPc = "batch" /\ Idle
    /\ ready[s] = "event"
    /\ watchers[s] # NoContext
    /\ ready' = [ready EXCEPT ![s] = ""]
    /\ CurlSocketActivity(watchers[s])
    /\ UNCHANGED <<failed, watchers, closing, context>>

\* On an error libuv stops the handle before it calls back.  The callback
\* passes no event on; cURL runs the transfers, which find the error.
PollIoError(s) ==
    /\ loopPc = "batch" /\ Idle
    /\ ready[s] = "error"
    /\ watchers[s] # NoContext
    /\ ready' = [ready EXCEPT ![s] = ""]
    /\ context' = [context EXCEPT ![watchers[s]].events = {}]
    /\ watchers' = [watchers EXCEPT ![s] = NoContext]
    /\ failed' = failed \cup {s}
    /\ CurlSocketActivity(watchers[s])
    /\ UNCHANGED closing

\* CurlContext::OnClosed, for every handle closed in this iteration.
RunClosingHandles ==
    /\ loopPc = "batch" /\ Idle
    /\ \A s \in Sockets : ready[s] = "" \/ watchers[s] = NoContext
    /\ ready' = [s \in Sockets |-> ""]
    /\ context' = [c \in Contexts |-> IF c \in closing THEN NoMemory ELSE context[c]]
    /\ closing' = {}
    /\ loopPc' = "timers"
    /\ UNCHANGED <<curl, watchers>>

Next ==
    \/ \E t \in Transfers : RunSingle(t)
    \/ \E s \in Sockets : \/ OpenSocket(s)
                          \/ ReuseConnection(s)
                          \/ LeaveConnection(s)
                          \/ MultiClosed(s)
                          \/ SingleSocketAsk(s)
                          \/ SingleSocketGone(s)
                          \/ PollIo(s)
                          \/ PollIoError(s)
    \/ SingleSocket \/ SingleSocketEnd
    \/ PerformRequests \/ IoPoll \/ RunClosingHandles

Spec == Init /\ [][Next]_svars

-----------------------------------------------------------------------------
(***************************************************************************)
(* Properties                                                              *)
(***************************************************************************)

\* Every variable has its type.
TypeOK ==
    /\ opened \subseteq Sockets /\ failed \subseteq opened
    /\ connected \in [Transfers -> SUBSET opened]
    /\ \A t \in Transfers : DOMAIN asked[t] \subseteq Sockets
    /\ sockhash \in [Sockets -> [users : SUBSET Transfers, action : Actions \cup {{}},
                                 socketp : Contexts \cup {NoContext}]]
    /\ running \subseteq Transfers /\ current \in Transfers \cup {NoTransfer}
    /\ phase \in {"run", "singlesocket"} /\ todo \subseteq Sockets
    /\ loopPc \in {"timers", "batch"}
    /\ watchers \in [Sockets -> Contexts \cup {NoContext}]
    /\ ready \in [Sockets -> {"", "event", "error"}]
    /\ closing \subseteq Contexts
    /\ context \in [Contexts -> [state : {"free", "open", "closing", "broken"},
                                 socket : Sockets \cup {NoContext},
                                 events : SUBSET {"readable", "writable"}]]

UvEvent == [e \in {"in", "out"} |-> IF e = "in" THEN "readable" ELSE "writable"]

\* Between two calls into cURL libuv watches every socket that a transfer
\* waits for, for every event it waits for: no transfer is left to its timeout
\* because a poll handle was not started again after an error, after another
\* transfer joined or left the connection, or for a descriptor used again.
WaitsWatched ==
    Idle => \A t \in Transfers : \A s \in DOMAIN asked[t] :
                /\ watchers[s] # NoContext
                /\ {UvEvent[e] : e \in asked[t][s]} \subseteq context[watchers[s]].events

\* A descriptor is watched by the context that cURL has for it, and only while
\* it is open: no event of an old handle is taken for one of a new connection.
WatchedKnown ==
    \A s \in Sockets : watchers[s] # NoContext =>
        /\ s \in opened
        /\ sockhash[s].socketp = watchers[s]
        /\ context[watchers[s]].state = "open" /\ context[watchers[s]].socket = s

\* cURL, and libuv's list of handles to close, refer to contexts that are still
\* there; a context that is there is referred to by one of them.
ContextsOwned ==
    /\ \A s \in Sockets : sockhash[s].socketp # NoContext =>
           context[sockhash[s].socketp].state = "open"
    /\ \A c \in Contexts : context[c].state = "closing" <=> c \in closing
    /\ \A c \in Contexts : context[c].state = "open" =>
           \E s \in Sockets : sockhash[s].socketp = c

\* uv_poll_init_socket never meets a descriptor that is still watched: its
\* unchecked error does not occur.
PollInitSucceeds == \A c \in Contexts : context[c].state # "broken"
=============================================================================
