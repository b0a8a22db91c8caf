----------------------------- MODULE CurlTimer -----------------------------
(***************************************************************************)
(* The one-shot timer g_Timeout that drives cURL (extension.cpp), and the  *)
(* timer tree of cURL's multi handle that asks for it (multi.c).  cURL     *)
(* acts only when it is called, so a time it waits for passes unnoticed    *)
(* unless g_Timeout is running for it.                                     *)
(*                                                                         *)
(* Times are counted in ticks of cURL's clock, Ms of them to a             *)
(* millisecond and Second milliseconds to a second, because cURL compares  *)
(* some times exactly and others in whole milliseconds, and libuv knows    *)
(* only milliseconds.  RipExt, which has no clock, says of g_Timeout what  *)
(* is derived here.                                                        *)
(***************************************************************************)
EXTENDS Integers, SequencesExt

CONSTANTS
    Transfers,       \* the easy handles
    NoTransfer,      \* no easy handle
    Timeout,         \* CURLOPT_TIMEOUT of each transfer in seconds, 0 for none
    ConnectTimeout,  \* CURLOPT_CONNECTTIMEOUT in seconds, 0 for the default
    DefaultConnectTimeout,  \* DEFAULT_CONNECT_TIMEOUT in seconds
    Ms,              \* ticks in a millisecond
    Second,          \* milliseconds in a second
    Waits,           \* bound: what else a transfer may wait for, in milliseconds
    MaxBusy,         \* bound: the ticks that pass while cURL goes by one time
    MaxTime          \* bound: the last tick

ASSUME TransfersAssumption == NoTransfer \notin Transfers

ASSUME TimeAssumption ==
    /\ Ms \in Nat \ {0} /\ Second \in Nat \ {0}
    /\ Timeout \in [Transfers -> Nat]
    /\ ConnectTimeout \in Nat /\ DefaultConnectTimeout \in Nat \ {0}
    /\ Waits \subseteq Nat /\ MaxBusy \in Nat /\ MaxTime \in Nat

VARIABLES
    clock,        \* what Curl_now() returns
    loopTime,     \* loop->time, in milliseconds
    timer,        \* when g_Timeout is due, in milliseconds; NoTimer if inactive
    mstate,       \* the state of a transfer in the multi handle
    startop,      \* t_startop, when a transfer began
    startsingle,  \* t_startsingle, when its present request began
    expiretime,   \* its place in the timer tree, 0 when it is not there
    timeoutlist,  \* its list of timeouts
    lastcall,     \* timer_lastcall, the time g_Timeout was last asked for
    pc,           \* where the loop thread is
    now,          \* the time multi_socket goes by
    data          \* the transfer multi_runsingle runs

vars == <<clock, loopTime, timer, mstate, startop, startsingle, expiretime,
          timeoutlist, lastcall, pc, now, data>>

NoTimer == -1
Mstates == {"new", "INIT", "CONNECT_PEND", "CONNECT", "connecting", "PERFORM", "MSGSENT",
            "removed"}

\* The timeouts with a name of their own; OTHER stands for those a name
\* lookup, the addresses of a host or an Expect header wait for.
Ids == {"RUN_NOW", "TIMEOUT", "CONNECTTIMEOUT", "OTHER"}

Init ==
    /\ clock \in 1..(Ms * Second)
    /\ loopTime = clock \div Ms
    /\ timer = NoTimer
    /\ mstate = [t \in Transfers |-> "new"]
    /\ startop = [t \in Transfers |-> 0]
    /\ startsingle = [t \in Transfers |-> 0]
    /\ expiretime = [t \in Transfers |-> 0]
    /\ timeoutlist = [t \in Transfers |-> <<>>]
    /\ lastcall = 0
    /\ pc = "loop"
    /\ now = 0
    /\ data = NoTransfer

-----------------------------------------------------------------------------
(***************************************************************************)
(* Times                                                                   *)
(***************************************************************************)

\* Division as C does it, towards zero.
Quotient(a, b) == IF a >= 0 THEN a \div b ELSE -((-a) \div b)

\* Rounded down, as a count of microseconds divided by 1000 would be.
Curl_timediff_Floor(newer, older) == (newer - older) \div Ms

\* Curl_timediff: the milliseconds between two times, the seconds apart and
\* the rest divided for itself.
Curl_timediff(newer, older) ==
    LET sec(t)  == t \div (Ms * Second)
        usec(t) == t % (Ms * Second)
    IN  (sec(newer) - sec(older)) * Second + Quotient(usec(newer) - usec(older), Ms)

\* The limits, in seconds, on a transfer before or after it has connected.
Limits(t) ==
    ({Timeout[t]} \cup (IF mstate[t] = "connecting" THEN {ConnectTimeout} ELSE {})) \ {0}

\* Curl_timeleft is negative: the limit has passed, counted from the request
\* while it connects and from the whole operation afterwards.
TimedOut(t) ==
    IF mstate[t] = "connecting"
    THEN LET limit == IF Limits(t) = {} THEN DefaultConnectTimeout ELSE Min(Limits(t))
         IN  Curl_timediff(now, startsingle[t]) >= limit * Second
    ELSE /\ mstate[t] = "PERFORM"
         /\ Limits(t) # {}
         /\ Curl_timediff(now, startop[t]) >= Timeout[t] * Second

-----------------------------------------------------------------------------
(***************************************************************************)
(* The timer tree of the multi handle                                      *)
(***************************************************************************)

\* A timer with the same id is left in the list.
Without_Forgotten(list, id) == list

\* multi_deltimeout
Without(list, id) ==
    LET at == {i \in DOMAIN list : list[i].id = id}
    IN  IF at = {} THEN list ELSE RemoveAt(list, Min(at))

\* multi_addtimeout: before the first that is later by a millisecond.
AddTimeout(list, node) ==
    LET later == {i \in DOMAIN list : Curl_timediff(list[i].time, node.time) > 0}
    IN  InsertAt(list, IF later = {} THEN Len(list) + 1 ELSE Min(later), node)

\* Curl_expire, for the time `set`: the list has it in any case, the tree if
\* it has no earlier time of the transfer.
ExpireList(list, set, id) == AddTimeout(Without(list, id), [id |-> id, time |-> set])
ExpireKey(key, set) == IF key # 0 /\ Curl_timediff(set, key) > 0 THEN key ELSE set

\* add_next_timeout: what is left of the list when the times that have passed
\* are dropped; its head is the new place of the transfer in the tree.
AddNextTimeout(list) ==
    LET ahead == {i \in DOMAIN list : Curl_timediff(list[i].time, now) > 0}
    IN  IF ahead = {} THEN <<>> ELSE SubSeq(list, Min(ahead), Len(list))

\* The earliest time of a tree, whose nodes are the transfers that have one.
Tree(keys) == {t \in Transfers : keys[t] # 0}
Earliest(keys) == Min({keys[t] : t \in Tree(keys)})

\* multi_timeout: the milliseconds until the earliest time, and one when less
\* than one is left.
MultiTimeout(keys) ==
    IF Tree(keys) = {} THEN NoTimer
    ELSE IF Earliest(keys) <= clock THEN 0
    ELSE Max({1, Curl_timediff(Earliest(keys), clock)})

\* "At once" is taken for "never".
CurlTimeoutCallback_ZeroStops(ms) == timer' = IF ms <= 0 THEN NoTimer ELSE loopTime + ms

\* CurlTimeoutCallback: uv_timer_stop, or uv_timer_start, which counts from
\* the time of the loop.
CurlTimeoutCallback(ms) == timer' = IF ms = -1 THEN NoTimer ELSE loopTime + ms

\* Curl_update_timer calls it unless it did so for the same time before.
Curl_update_timer(keys, last) ==
    LET want == IF Tree(keys) = {} THEN 0 ELSE Earliest(keys)
    IN  /\ lastcall' = want
        /\ IF want = last
           THEN UNCHANGED timer
           ELSE CurlTimeoutCallback(MultiTimeout(keys))

-----------------------------------------------------------------------------
(***************************************************************************)
(* The event loop                                                          *)
(***************************************************************************)

\* Time passes, in cURL too.
Tick ==
    /\ clock < MaxTime
    /\ pc # "loop" => clock < now + MaxBusy
    /\ clock' = clock + 1
    /\ UNCHANGED <<loopTime, timer, mstate, startop, startsingle, expiretime,
                   timeoutlist, lastcall, pc, now, data>>

\* uv__update_time, before libuv runs timers and after it polls.
UpdateTime ==
    /\ pc = "loop"
    /\ loopTime' = clock \div Ms
    /\ UNCHANGED <<clock, timer, mstate, startop, startsingle, expiretime,
                   timeoutlist, lastcall, pc, now, data>>

\* curl_multi_add_handle in AsyncPerformRequests.
AddHandle(t) ==
    /\ pc = "loop"
    /\ mstate[t] = "new"
    /\ mstate' = [mstate EXCEPT ![t] = "INIT"]
    /\ timeoutlist' = [timeoutlist EXCEPT ![t] = ExpireList(@, clock, "RUN_NOW")]
    /\ expiretime' = [expiretime EXCEPT ![t] = ExpireKey(@, clock)]
    /\ Curl_update_timer(expiretime', 0)
    /\ UNCHANGED <<clock, loopTime, startop, startsingle, pc, now, data>>

\* libuv stops g_Timeout, for it has no repeat, and calls PerformRequests:
\* curl_multi_socket_action(CURL_SOCKET_TIMEOUT) forgets the last call.
PerformRequests ==
    /\ pc = "loop"
    /\ timer # NoTimer /\ timer <= loopTime
    /\ timer' = NoTimer
    /\ lastcall' = 0
    /\ now' = clock
    /\ pc' = "best"
    /\ UNCHANGED <<clock, loopTime, mstate, startop, startsingle, expiretime,
                   timeoutlist, data>>

\* CurlSocketActivity: the transfers that wait for the socket are to run, none
\* when cURL has let go of it.
CurlSocketActivity(T) ==
    /\ pc = "loop"
    /\ \A t \in T : mstate[t] \in {"connecting", "PERFORM"}
    /\ timeoutlist' = [t \in Transfers |->
          IF t \in T THEN ExpireList(timeoutlist[t], clock, "RUN_NOW") ELSE timeoutlist[t]]
    /\ expiretime' = [t \in Transfers |->
          IF t \in T THEN ExpireKey(expiretime[t], clock) ELSE expiretime[t]]
    /\ now' = clock
    /\ pc' = "best"
    /\ UNCHANGED <<clock, loopTime, timer, mstate, startop, startsingle, lastcall, data>>

-----------------------------------------------------------------------------
(***************************************************************************)
(* multi_socket and multi_runsingle                                        *)
(***************************************************************************)

\* Curl_splaygetbest: a transfer whose time has come is the next to run.
GetBest(t) ==
    /\ pc = "best"
    /\ t \in Tree(expiretime)
    /\ expiretime[t] = Earliest(expiretime)
    /\ expiretime[t] <= now
    /\ data' = t
    /\ timeoutlist' = [timeoutlist EXCEPT ![t] = AddNextTimeout(@)]
    /\ expiretime' = [expiretime EXCEPT ![t] =
          IF timeoutlist'[t] = <<>> THEN 0 ELSE Head(timeoutlist'[t]).time]
    /\ pc' = "run"
    /\ UNCHANGED <<clock, loopTime, timer, mstate, startop, startsingle, lastcall, now>>

\* No time has come: curl_multi_socket_action updates the timer and returns to
\* CheckCompletedRequests.
SocketActionReturns ==
    /\ pc = "best"
    /\ Tree(expiretime) # {} => Earliest(expiretime) > now
    /\ Curl_update_timer(expiretime, lastcall)
    /\ pc' = "check"
    /\ UNCHANGED <<clock, loopTime, mstate, startop, startsingle, expiretime,
                   timeoutlist, now, data>>

\* CheckCompletedRequests removes a transfer that has ended.
RemoveHandle(t) ==
    /\ pc = "check"
    /\ mstate[t] = "MSGSENT"
    /\ mstate' = [mstate EXCEPT ![t] = "removed"]
    /\ expiretime' = [expiretime EXCEPT ![t] = 0]
    /\ timeoutlist' = [timeoutlist EXCEPT ![t] = <<>>]
    /\ Curl_update_timer(expiretime', lastcall)
    /\ UNCHANGED <<clock, loopTime, startop, startsingle, pc, now, data>>

CheckCompletedEnd ==
    /\ pc = "check"
    /\ \A t \in Transfers : mstate[t] # "MSGSENT"
    /\ pc' = "loop"
    /\ now' = 0
    /\ UNCHANGED <<clock, loopTime, timer, mstate, startop, startsingle, expiretime,
                   timeoutlist, lastcall, data>>

\* The transfers that wait until one that has the host's connection knows
\* whether it can be shared (CURLOPT_PIPEWAIT).
Pending == {t \in Transfers : mstate[t] = "CONNECT_PEND"}

\* process_pending_handles, once or more often: those in W are to connect at
\* once.
ProcessPending(W, states, lists, keys) ==
    /\ mstate' = [t \in Transfers |-> IF t \in W THEN "CONNECT" ELSE states[t]]
    /\ timeoutlist' = [t \in Transfers |->
          IF t \in W THEN ExpireList(lists[t], clock, "RUN_NOW") ELSE lists[t]]
    /\ expiretime' = [t \in Transfers |->
          IF t \in W THEN ExpireKey(keys[t], clock) ELSE keys[t]]

\* Nobody is woken.
Woken_None == {{}}

\* What a request that is over lets go on: one transfer at least.
Woken == {W \in SUBSET Pending : W = {} => Pending = {}}

\* The transfer ends, in time or by its limit, for whatever reason: all its
\* timers are cleared (init_completed) and its message is sent.  One that has
\* no connection yet is not tested for its limit, and nothing ends it.
RunEnds(W) ==
    /\ pc = "run"
    /\ mstate[data] # "CONNECT_PEND"
    /\ W \in Woken
    /\ ProcessPending(W, [mstate EXCEPT ![data] = "MSGSENT"],
                         [timeoutlist EXCEPT ![data] = <<>>],
                         [expiretime EXCEPT ![data] = 0])
    /\ pc' = "best"
    /\ startop' = [startop EXCEPT ![data] = 0]
    /\ startsingle' = [startsingle EXCEPT ![data] = 0]
    /\ data' = NoTransfer
    /\ UNCHANGED <<clock, loopTime, timer, lastcall, now>>

\* Every other step is taken only by a transfer within its limits.
Runs(s) == pc = "run" /\ mstate[data] = s /\ ~TimedOut(data)

RunInit ==
    /\ Runs("INIT")
    /\ mstate' = [mstate EXCEPT ![data] = "CONNECT"]
    /\ startop' = [startop EXCEPT ![data] = clock]
    /\ now' = clock
    /\ UNCHANGED <<clock, loopTime, timer, startsingle, expiretime, timeoutlist,
                   lastcall, pc, data>>

RunConnect ==
    /\ Runs("CONNECT")
    /\ startsingle' = [startsingle EXCEPT ![data] = clock]
    /\ now' = clock
    /\ pc' = "expire"
    /\ UNCHANGED <<clock, loopTime, timer, mstate, startop, expiretime, timeoutlist,
                   lastcall, data>>

\* The timeouts are set anew for every request of the transfer.
Expires ==
    LET deadline == clock + Timeout[data] * Second * Ms
        connect  == clock + ConnectTimeout * Second * Ms
        list1 == IF Timeout[data] = 0 THEN timeoutlist[data]
                 ELSE ExpireList(timeoutlist[data], deadline, "TIMEOUT")
        key1  == IF Timeout[data] = 0 THEN expiretime[data]
                 ELSE ExpireKey(expiretime[data], deadline)
        list2 == IF ConnectTimeout = 0 THEN list1 ELSE ExpireList(list1, connect, "CONNECTTIMEOUT")
        key2  == IF ConnectTimeout = 0 THEN key1 ELSE ExpireKey(key1, connect)
    IN  /\ timeoutlist' = [timeoutlist EXCEPT ![data] = list2]
        /\ expiretime' = [expiretime EXCEPT ![data] = key2]

\* It connects, or shares a connection.
RunExpire ==
    /\ pc = "expire"
    /\ Expires
    /\ mstate' = [mstate EXCEPT ![data] = "connecting"]
    /\ pc' = "run"
    /\ UNCHANGED <<clock, loopTime, timer, startop, startsingle, lastcall, now, data>>

\* It has to wait: another transfer has a connection to the host, and it is not
\* known yet whether that can be shared.
RunPends ==
    /\ pc = "expire"
    /\ \E t \in Transfers \ {data} : mstate[t] \in {"connecting", "PERFORM"}
    /\ Expires
    /\ mstate' = [mstate EXCEPT ![data] = "CONNECT_PEND"]
    /\ pc' = "best"
    /\ data' = NoTransfer
    /\ UNCHANGED <<clock, loopTime, timer, startop, startsingle, lastcall, now>>

\* It is known now (the TLS handshake, a first answer), or a transfer that
\* was woken is connected and wakes the next.
RunWakes(W) ==
    /\ pc = "run"
    /\ W \in Woken \ {{}}
    /\ ProcessPending(W, mstate, timeoutlist, expiretime)
    /\ UNCHANGED <<clock, loopTime, timer, startop, startsingle, lastcall, pc, now, data>>

\* The connection is there; t_startsingle has served its purpose.
RunConnected ==
    /\ Runs("connecting")
    /\ mstate' = [mstate EXCEPT ![data] = "PERFORM"]
    /\ startsingle' = [startsingle EXCEPT ![data] = 0]
    /\ UNCHANGED <<clock, loopTime, timer, startop, expiretime, timeoutlist,
                   lastcall, pc, now, data>>

\* A redirect, a retry or the fall-back from HTTP/2: a new request.
RunFollows(W) ==
    /\ Runs("PERFORM")
    /\ W \in Woken
    /\ ProcessPending(W, [mstate EXCEPT ![data] = "CONNECT"], timeoutlist, expiretime)
    /\ UNCHANGED <<clock, loopTime, timer, startop, startsingle, lastcall, pc, now, data>>

\* The transfer is to be run again at once, or another one that shares its
\* connection (HTTP/2) is.
RunNow(t) ==
    /\ Runs("connecting") \/ Runs("PERFORM")
    /\ mstate[t] \in {"connecting", "PERFORM"}
    /\ timeoutlist' = [timeoutlist EXCEPT ![t] = ExpireList(@, clock, "RUN_NOW")]
    /\ expiretime' = [expiretime EXCEPT ![t] = ExpireKey(@, clock)]
    /\ UNCHANGED <<clock, loopTime, timer, mstate, startop, startsingle, lastcall, pc,
                   now, data>>

\* The transfer waits for a time of its own.
RunExpires(milli) ==
    /\ Runs("connecting") \/ Runs("PERFORM")
    /\ timeoutlist' = [timeoutlist EXCEPT ![data] = ExpireList(@, clock + milli * Ms, "OTHER")]
    /\ expiretime' = [expiretime EXCEPT ![data] = ExpireKey(@, clock + milli * Ms)]
    /\ UNCHANGED <<clock, loopTime, timer, mstate, startop, startsingle, lastcall, pc,
                   now, data>>

\* Curl_expire_done: the list forgets the time, the tree does not.
RunExpireDone ==
    /\ Runs("PERFORM")
    /\ timeoutlist' = [timeoutlist EXCEPT ![data] = Without(@, "OTHER")]
    /\ UNCHANGED <<clock, loopTime, timer, mstate, startop, startsingle, expiretime,
                   lastcall, pc, now, data>>

\* Nothing more to do for now.
RunWaits ==
    /\ Runs("connecting") \/ Runs("PERFORM") \/ Runs("CONNECT_PEND")
    /\ pc' = "best"
    /\ data' = NoTransfer
    /\ UNCHANGED <<clock, loopTime, timer, mstate, startop, startsingle, expiretime,
                   timeoutlist, lastcall, now>>

Next ==
    \/ Tick \/ UpdateTime
    \/ \E t \in Transfers : AddHandle(t) \/ GetBest(t) \/ RemoveHandle(t)
    \/ PerformRequests
    \/ \E T \in SUBSET Transfers : CurlSocketActivity(T)
    \/ SocketActionReturns \/ CheckCompletedEnd
    \/ \E W \in SUBSET Transfers : RunEnds(W) \/ RunFollows(W) \/ RunWakes(W)
    \/ RunInit \/ RunConnect \/ RunExpire \/ RunPends \/ RunConnected
    \/ \E t \in Transfers : RunNow(t)
    \/ \E milli \in Waits : RunExpires(milli)
    \/ RunExpireDone \/ RunWaits

Spec == Init /\ [][Next]_vars

-----------------------------------------------------------------------------
(***************************************************************************)
(* Properties                                                              *)
(***************************************************************************)

Nodes == [id : Ids, time : Nat]

\* The types, and every timeout at most once in a list.
TypeOK ==
    /\ clock \in Nat \ {0}
    /\ loopTime \in Nat
    /\ timer \in Nat \cup {NoTimer}
    /\ mstate \in [Transfers -> Mstates]
    /\ startop \in [Transfers -> Nat]
    /\ startsingle \in [Transfers -> Nat]
    /\ expiretime \in [Transfers -> Nat]
    /\ DOMAIN timeoutlist = Transfers
    /\ \A t \in Transfers : \A i \in DOMAIN timeoutlist[t] :
          /\ timeoutlist[t][i] \in Nodes
          /\ \A j \in DOMAIN timeoutlist[t] :
                timeoutlist[t][i].id = timeoutlist[t][j].id => i = j
    /\ lastcall \in Nat
    /\ pc \in {"loop", "best", "run", "expire", "check"}
    /\ now \in Nat
    /\ data \in Transfers \cup {NoTransfer}

\* Whenever the loop is left to itself and cURL waits for a time, g_Timeout is
\* running and due no later than a millisecond after the earliest such time,
\* or at once when that has passed: although it fires once only, may fire
\* early by cURL's clock, and is not asked for again while the time is the same.
TimerCovers ==
    pc = "loop" /\ Tree(expiretime) # {} =>
        /\ timer # NoTimer
        /\ timer <= Max({Earliest(expiretime) \div Ms + 1, clock \div Ms})

\* A transfer that has yet to begin or to connect has a place in the timer
\* tree, and one that has a connection and a limit keeps both its place and
\* the limit in the list behind it until the limit ends it: dropping what has
\* passed (add_next_timeout) and testing what is left (Curl_timeleft) round the
\* same way.
DeadlineKept ==
    \A t \in Transfers :
        /\ mstate[t] \in {"INIT", "CONNECT"} /\ pc = "loop" => expiretime[t] # 0
        /\ mstate[t] \in {"connecting", "PERFORM"} /\ Timeout[t] # 0 =>
              \/ t = data /\ pc = "run" /\ TimedOut(t)
              \/ /\ expiretime[t] # 0
                 /\ \E i \in DOMAIN timeoutlist[t] : timeoutlist[t][i].id = "TIMEOUT"

\* A transfer that waits for the connection of another (CURLOPT_PIPEWAIT) does
\* not wait for itself or for others that wait: there is always one that goes
\* on and wakes the rest when it is done, even when it fails.
PendingHeld ==
    Pending # {} =>
        \E t \in Transfers : mstate[t] \in {"CONNECT", "connecting", "PERFORM"}
=============================================================================
