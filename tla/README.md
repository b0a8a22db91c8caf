# A TLA+ model of REST in Pawn (sm-ripext)

REST in Pawn is a SourceMod extension: it gives game server plugins natives for
HTTP requests and JSON.  Requests are asynchronous.  A plugin submits one, the
game goes on, and in some later frame the plugin's callback runs.  In between
the request lives on a second thread.  This directory models that machinery,
the sockets, the timer and the HTTP exchange under it, the objects plugins build
requests with and the reference counting of the JSON values.  It checks the models with
TLC and proves every safety property they pass with TLAPS.

## The system

| Part | Source | State | Operations |
|---|---|---|---|
| Scheduler, main thread | `extension.cpp`, `queue.h` | two locked queues, async handles | `SDK_OnLoad`, `AddRequestToQueue`, `FrameHook`, `SDK_OnUnload` |
| Event loop thread | `extension.cpp`, `extension.h` | cURL multi handle, one-shot timer, poll handles | `AsyncPerformRequests`, `AsyncStopLoop`, `PerformRequests`, `CurlSocketActivity`, `CheckCompletedRequests`, `CurlSocketCallback`, `CurlTimeoutCallback` |
| Contexts | `http{request,form,file}context.*` | easy handle, forward, body, response, file | `InitCurl`, `OnCompleted`, destructor; read, write and header callbacks |
| HTTPRequest, HTTPClient | `httprequest.*`, `httpclient.*`, `http_natives.cpp` | URL, headers, parameters, settings | setters; `Perform`, `DownloadFile`, `UploadFile`, `PostForm` |
| HTTPResponse | `http_natives.cpp`, `extension.h` | status, headers, body, cached JSON handle | `GetResponseData`, getters |
| JSON | `json_natives.cpp`, jansson | reference-counted values behind handles | create, get, set, push, remove, clear, parse, close |
| JSONObjectKeys | `json_natives.cpp`, `extension.h` | borrowed object and position | create, read |

How they interact.  A native makes a context, which snapshots everything it
needs, and pushes it to `g_RequestQueue`.  `FrameHook`, once per frame, wakes
the loop thread with `uv_async_send` when that queue is not empty (it looks
without taking the lock).  The loop thread pops up to `MAX_PROCESS` contexts,
calls `InitCurl` on each and adds the easy handle to the multi handle; cURL
then asks for a timer and later for sockets, and libuv calls back into cURL.
When cURL reports the end of a transfer the loop thread pushes its context to
`g_CompletedRequestQueue`.  `FrameHook` pops at most one per frame and, still
holding the lock, calls `OnCompleted`, which runs the plugin's callback, and
deletes the context.  The callback may itself submit requests.  Plugins may be
unloaded at any time, and so may the extension.

What is hard: the two threads meet at two mutexes and at two reads that take
none; a context changes owner four times and is deleted on either thread; a
lock is held across plugin code; wake-ups coalesce and the timer is one-shot;
`InitCurl` can fail on a thread that has nobody to tell; plugins disappear
between submission and completion.  A transfer is several requests to cURL and
one to the callbacks, which are not told where one response ends and the next
begins.  The time cURL waits for is one timer of libuv, which has another clock
and a coarser one; and requests to the same host wait for each other's
connection.  A poll handle outlives the socket it watched while the descriptor is
already in use again.  For the JSON natives: one value can be owned by several
handles and containers, which are released in any order, and an iterator over
an object's keys owns nothing.

What makes each part correct: the scheduler loses, duplicates and reorders
nothing and never blocks the game; the loop never waits for an event that will
not come, and watches every socket that cURL waits for; contexts, files and
handles are released exactly once on every path; a request ends when its time
has passed, sends what the plugin set, and its response holds what the last
server answered; JSON references are
exactly counted.  `PROJECT.json` lists the hazards at their
lines, with the properties that cover them.

## Modules

* `RipExt` – the life of a request, both threads.
* `Delivery` – what the extension promises about requests, without threads.
* `MCRipExt` – TLC instances of `RipExt`.
* `RipExtProofs` – the inductive invariant and the safety theorems.
* `RipExtRefinement` – the proof that `RipExt` implements `Delivery`.
* `CurlSockets` – cURL's sockets and libuv's poll handles; `MCCurlSockets`;
  `CurlSocketsProofs`.
* `CurlTimer` – cURL's timer tree and the timer `g_Timeout` it asks for;
  `MCCurlTimer`; `CurlTimerProofs`.
* `Transfer` – one transfer: the callbacks of the contexts over the requests and
  responses it takes; `MCTransfer`; `TransferProofs`.
* `HttpRequest` – HTTPRequest objects, their handles, and an HTTPClient;
  `MCHttpRequest`; `HttpRequestProofs`.
* `Json` – JSON values, handles and reference counts; `MCJson`; `JsonProofs`.
* `JsonKeys` – extends `Json` by `JSONObjectKeys`; `MCJsonKeys`; `JsonKeysProofs`.
* `JsonNumbers` – 64-bit integers as plugins see them; `MCJsonNumbers`.

`RipExt` is the frame: what it takes as one step of cURL ("a transfer finishes",
"a socket is active", "the timer is running") is the subject of `Transfer`,
`CurlSockets` and `CurlTimer`, and a context it creates is the one `HttpRequest`
queues.

Operators whose name has a suffix after an underscore (`Push_Front`,
`Incref_Forgotten`) are wrong variants of the operator they are named after.
They are not used by the specifications; substituting one must break the
property that is meant to notice such a mistake.

### RipExt and the code

`mainPc` and `loopPc` say where each thread is.  A step ends where the other
thread can notice: at every lock operation and at every read without a lock.

| Code | Actions |
|---|---|
| `SDK_OnLoad`, `SDK_OnUnload` | `SDK_OnLoad`; `SDK_OnUnload` up to the join, `SDK_OnUnloadJoined` |
| natives that perform a request; `HTTPRequest::Perform`, `DownloadFile`, `UploadFile`, `PostForm` | `PerformRequest`, `PerformFile`, `PerformPostForm` (all create the context with `CreateContext`), then `AddRequestToQueue` |
| `HTTPClient::Request`, `DownloadFile`, `UploadFile` | `ClientRequest`, `ClientFile`, then `AddRequestToQueue` |
| `FrameHook` | `FrameHook`, `FrameHookCheckDone`, `FrameHookPop`, one `...OnCompleted`, `CallbackReturn`, `DeleteContext` |
| `OnCompleted` of the three contexts | `RequestOnCompleted`, `FormOnCompleted`, `FileOnCompleted` |
| `GetResponseData`, closing its handle | `GetResponseData`, `CloseDataHandle` |
| `AsyncPerformRequests` | `DispatchPerform`, `PerformLock`, `PerformNext` or `PerformInitFailed` per context, `PerformUnlock` |
| `PerformRequests`, `CurlSocketActivity` | the same names, followed by the steps of `CheckCompletedRequests` |
| `CheckCompletedRequests` | `CheckCompletedRead`, `CheckCompletedLock`, `CheckCompletedPush`, `CheckCompletedEnd` |
| `CurlTimeoutCallback` | the operator of that name, part of every action that calls into cURL |
| `AsyncStopLoop`, `EventLoop` | `AsyncStopLoop`, `EventLoopExit` |

`Empty` without the lock is a data race while the other thread is in its
critical section: `UnlockedEmpty` then returns either answer.  `uv_async_send`
sets a pending flag that libuv clears before it runs the handler.  cURL is
modelled by what the extension relies on: a handle that is added gets an
immediate timer, a finished transfer leaves one message, and cURL does nothing
unless it is called.  When the timer is certainly running (`Expiring`) is not
assumed but taken from `CurlTimer`: it is while a transfer has not begun, and
while one has a deadline, except that a transfer without deadline (`Holding`) may
keep others waiting for its connection, whose deadlines cURL then does not see.
Hosts are not told apart, so any two transfers may meet in that way.
SourceMod takes an unloaded plugin's functions out of every forward.

`Delivery` has three sequences of events for a request: it waits, it is in
flight, it has arrived; then it is called back or lost.  `RipExt` maps to it:
the request queue is what waits; the multi handle and the context being handed
over are in flight; the completed queue, preceded by the context `OnCompleted`
is deciding about, has arrived.

### CurlSockets and the code

| Code | Actions |
|---|---|
| `CurlSocketCallback` | `SocketCallbackPoll`, `SocketCallbackRemove`: parts of the cURL steps that call it |
| `CurlContext`, `Destroy`, `OnClosed` | `NewContext` (with `uv_poll_init_socket`), `Destroy`, `RunClosingHandles` |
| `CurlSocketActivity`, `PerformRequests` | the same names; both run transfers through `SocketAction` |
| `uv__io_poll`, `uv__poll_io`, `uv_poll_start` | `IoPoll` takes a batch, `PollIo` and `PollIoError` deliver it, `PollStart` |
| `multi_socket`, `singlesocket`, `Curl_multi_closed` | `RunSingle`; `SingleSocket`, `SingleSocketAsk` and `SingleSocketGone` per socket, `SingleSocketEnd`; `MultiClosed` |

What a transfer does in `multi_runsingle` is open: it opens, reuses, leaves and
closes sockets in any order (`OpenSocket`, `ReuseConnection`, `LeaveConnection`),
and descriptors are given out again at once.  The counters of an entry in
`sockhash` are kept as the set of its users.  The one assumption about cURL is
that a transfer does not go on waiting for a socket that has reported an error.

### CurlTimer and the code

| Code | Actions and operators |
|---|---|
| `CurlTimeoutCallback`, `Curl_update_timer`, `multi_timeout` | the first two under their names, `MultiTimeout`; part of every action that calls into cURL |
| `AsyncPerformRequests`, `CheckCompletedRequests` | `AddHandle`; `RemoveHandle`, `CheckCompletedEnd` |
| `PerformRequests`, `CurlSocketActivity` | the same names up to `multi_socket`, which is `GetBest` and the steps of one transfer, again and again, then `SocketActionReturns` |
| `Curl_expire`, `multi_addtimeout`, `multi_deltimeout`, `add_next_timeout`, `Curl_expire_done` | `ExpireList` and `ExpireKey`, `AddTimeout`, `Without`, `AddNextTimeout`, `RunExpireDone` |
| `multi_runsingle` | `RunInit`, `RunConnect`, then `RunExpire` or `RunPends`; `RunConnected`, `RunFollows`, `RunNow`, `RunExpires`, `RunWaits`, `RunEnds` |
| `process_pending_handles` | `ProcessPending`: `RunWakes`, and part of `RunEnds` and `RunFollows` |
| `uv__update_time`, `uv_timer_start` | `UpdateTime`, `CurlTimeoutCallback` |

A time is a number of ticks, `Ms` to the millisecond and `Second` milliseconds to
the second.  Both are needed: cURL compares the keys of its tree exactly, the
entries of a transfer's list in whole milliseconds that are rounded the seconds
apart from the rest (`Curl_timediff`), and libuv knows milliseconds only and
counts from the time of its last update (`loopTime`).  One consequence is that a
transfer's place in the tree may be up to a millisecond later than the head of
its list, and no property says otherwise.  `OTHER` stands for the timeouts of
name lookups, of further addresses and of the Expect header.  A transfer may
schedule others (`RunNow`), as one does that reads the frames of a shared HTTP/2
connection.

`InitCurl` sets `CURLOPT_PIPEWAIT`.  While another transfer has a connection to
the host of which it is not yet known whether it can be shared, a transfer
waits (`CONNECT_PEND`) and has no connection of its own; cURL tests the limits
only of transfers that have one, so a limit that passes here is taken from the
tree and nothing else happens.  Every request that ends wakes at least one of
those that wait (`Woken`): `multi_done` calls `process_pending_handles`, and
other places may call it too.

### Transfer and the code

The three callbacks `ReadRequestBody`, `WriteResponseBody` and
`ReceiveResponseHeader` are operators of the same names, used by the steps of
cURL that call them: `Connect` (headers and, for small bodies, the body),
`Upload`, `ReceiveHeader`, `ReceiveBody`.  `k` is cURL's `SingleRequest`, which
is cleared for every request; `pos` and `response` belong to the context and are
not.  `Follow`, `Retry` and `Downgrade` start another request, `PerhapsRewind`
and `RewindFails` decide what becomes of a body that was sent in part, and
`SendError`, `RecvError`, `WriteError`, `ServerCloses` and `Timeout` end a
request anywhere.  A retry that fails after an error of the connection leaves
that error (`RECV_ERROR`) in place.

The server is free: any status, any header line, any chunk, a closed or reset
connection at any time.  On HTTP/2 it may also reset the stream, before its
answer, between a 1xx and the answer, or anywhere in the body; a header block
arrives whole.  The code of the reset decides: `RefusedStream` is a reason to
retry, `HTTP_1_1_REQUIRED` (`Downgrade`) makes cURL ask for HTTP/1.1 and send the
request again whatever has arrived, and any other ends the transfer
(`StreamError`).  After a fall-back the old connection is still in cURL's cache,
and a request that reuses it goes over HTTP/2 again (`Connect`), so a server can
demand HTTP/1.1 more than once.  `given` records what the server sent last and
`dropped` what fall-backs in the middle of a response gave up, for the
properties.

### HttpRequest and the code

The setters of a request are `Change` with what the native changes; `Perform`
stands for the natives that perform a request (`Prepare` sets the headers of the
operation, `Context` copies), `PerformThrows` for their error paths.  The text of
names and values is not modelled but their length is: a value is cut to
`ValueSize` when it is set on a request, and `BuildHeaders` cuts the line "name:
value" to `LineSize`, which are both 8192.  A context has the set of lines that
is given to cURL.
`FreeHandle` is the handle system: the object goes with its last handle.
`ClientRequest` builds the headers of a client anew for every request.
`TakeContext` is the frame that takes a context out of the queue.  `asked`,
`opened` and `performed` are history.

### Json and the code

Each native that changes a value is one action, named like it (the integer,
64-bit and float setters share one).  A handle and a slot of a container own
one reference each.  A native that gives references up puts them into `drops`;
`Decref` then takes them one at a time, and a value whose count reaches zero
adds those of its slots.  No native starts before `drops` is empty: natives run
on one thread.  The order within a cascade is left open.  `true`, `false` and
`null` are shared and not counted.  Calls that fail a check change nothing; the
failure of the handle system after a value was made is modelled, because the
native must then release the value.

`JsonKeys` conjoins every step of `Json` with `Follow`, which keeps the order
list of each hashtable and lets an iterator dangle when its pair is freed.
`Unlink` gives the pairs that stay the ranks they have among themselves.
`misused` is history: a key was removed before it was read.  In `JsonNumbers` a
number is its sign and digits, so that TLC can handle 64 bits; `Truncate` is
what a buffer of a given size leaves of a decimal form.

## Runs

| Run | Instance | Shows |
|---|---|---|
| `safety` | one context of each kind, one without deadline; two plugins; limiter 2 (788,788 states) | the nine invariants of ownership, memory and callbacks |
| `promise` | one context of each kind, the form without deadline; one plugin; limiter 1 (88,044 states) | `RipExt` implements `Delivery`; silence after unload; timed requests settle unless the form keeps them waiting in cURL; the main thread always returns |
| `callback` | one file context | **violated**: a failed `InitCurl` gives no callback |
| `sockets` | two transfers, two descriptors, three contexts (455,350 states up to symmetry) | what cURL waits for is watched; no stale context, none leaked, none freed twice; `uv_poll_init_socket` cannot fail |
| `timer` | two transfers, one with a limit; ticks of half a millisecond (3,013,772 states) | the one-shot timer is running, and in time, whenever cURL waits for a time; a limit stays in the timer tree until it ends the transfer; who waits for a connection is never left alone |
| `transfer` | each kind of context, body of 2 bytes read one by one, up to 3 requests, 1 retry, two header lines (9,030,724 states) | order of the sent body; the stored body is the last response's, whole, behind what a fall-back interrupted; the last line of a name is found; every request is accounted for |
| `redirect` | as `transfer`, one header line, bodies of two chunks | **violated**: a redirect in the middle of a body ends in an error |
| `headers` | as `redirect`, statuses 200 and 302 | **violated**: headers of an earlier response stay |
| `request` | two objects, two handles, five calls (189,719 states up to symmetry) | objects live as long as handles; one request per handle; one line for each header, as set and whole if it fits |
| `json_refs` | three values, one singleton, three handles, one key, arrays up to 2 (91,851 states up to symmetry) | exact counting, nothing freed is referenced, only cycles leak, every step of a release leaves less to release |
| `json_keys` | two values, one singleton, two handles, two keys, one iterator (177,898 states) | when an iterator dangles; every key once; every release ends |
| `int64` | decimal forms around the limits of 64 bits | **violated**: the last digit of a 20-character form is lost |

Bounds.  Three contexts let one wait, one be in flight and one be completed at
the same time, and give each queue two elements, which order needs; a limiter of
1 or 2 makes it bite.  `MaxProcess` stands for `MAX_PROCESS` = 10.  Each context
is used once, as in the code.  Two plugins let one be unloaded while the other
is called.  For JSON, three values give chains, sharing and cycles of two or
three; three handles let a plugin hold a container, its element and another.
`MaxLen` bounds arrays; one key is enough for replacement, removal and cycles;
an iterator needs two, to be at one while the other changes.  Two transfers and
two descriptors share a connection, swap descriptors and get one back while its
old poll handle is still closing; the third context is the memory for that.  A
body of two bytes in a buffer of one can be sent in part, read in part and sent
whole; three requests are a redirect after a retry, or a fall-back after either;
`MaxRetries` stands for `CONN_MAX_RETRIES` = 5, and with one a third request
that nothing pays for would break `RequestsBounded`.  One header name is enough,
because headers of different names do not interact; it is a redirect's
`Location`, which a response need not have, and two lines with it, with a 1xx or
a redirect before them, are what replacing needs.  The status 302 turns a POST
into a GET and leaves a PUT what it is.  Two handles are what cloning needs;
five calls create, clone, set and perform twice.  Lengths cost nothing, so the
buffers have their true size of 8192: one value fills a line to the last byte
and the other is one longer. Two ticks to a millisecond tell before, at and
after.  Two transfers give the timer tree an earliest and a later time and let
one wait for the other, whether or not that has a limit.  A second is one
millisecond (`Second`), so three ticks (`MaxTime`) are one and a half: enough
for a limit that passes, a redirect before it, and a timer that fires too early
by cURL's clock and is asked for again.  `MaxBusy` is what may pass while cURL
goes by one time. The symmetry sets are interchangeable contexts of one kind,
plugins, values, handles and keys; runs with temporal properties use none.

Fairness.  Both threads are scheduled (weak fairness of their steps).  The game
server calls `FrameHook` again and again, and plugin callbacks return.  libuv
handles an event that is pending in each of its iterations, so a pending
`uv_async_t` and the exit after `uv_stop` get strong fairness: other events of
the loop may come first, but not for ever.  cURL ends a transfer once its
deadline has passed (strong fairness of `Expire` for contexts with a timeout, and
only while no transfer without one is in cURL, since that could hold its
connection); nothing is assumed of a context without one.  Behind transfers that
all have a deadline a waiting one gets its turn: each of them ends and wakes
another, and an instance has finitely many; under an endless stream of new
requests to one host cURL does not promise that the oldest is served.  No
fairness for submissions, socket activity, loading or unloading.  In `JsonKeys` a
native runs to its end (weak fairness of `Decref`).  `CurlSockets`, `CurlTimer`,
`Transfer` and `HttpRequest` have safety properties only.

## Findings

* `callback`: `AsyncPerformRequests` deletes a context whose `InitCurl` failed
  (`extension.cpp:180`) and nobody calls the plugin back, while `http.inc`
  describes the callback as what is called "when the download has finished" and
  the callback has a parameter for errors.
* `redirect`: `InitCurl` sets a read function and no seek function
  (`httprequestcontext.cpp:150`).  A redirect that arrives after a part of the
  JSON body was sent makes cURL rewind the body, which it cannot, and the
  transfer ends with `CURLE_SEND_FAIL_REWIND`; `http.inc` promises redirects up
  to the maximum.
* `headers`: `ReceiveResponseHeader` (`httprequestcontext.cpp:77`) replaces and
  is never cleared, so a header that only a redirect or a 100 had is found in
  the final response.
* `int64`: `char result[20]` (`json_natives.cpp:179`) has no room for the
  terminator after 20 characters: from -1000000000000000000 down the last digit
  is lost.

Met on the way.  These have no run of their own; the properties that pass are
stated so that they say exactly what is left.

* `WriteResponseBody` (`httprequestcontext.cpp:47`) appends and is never told
  that a response begins.  When an HTTP/2 stream is reset with
  `HTTP_1_1_REQUIRED` after a part of a body, cURL sends the request again, and
  the plugin parses that part followed by the second body.  `BodyWhole` allows
  this case (`dropped.body`) and no other.
* `BuildHeaders` (`httprequest.cpp:138`, `httpclient.cpp:48`) prints "name: value"
  into `char header[8192]`, although a value of 8191 characters is accepted; the
  end of a longer line is cut without an error.  `HeadersAsSet` promises whole
  lines only where both buffers have room.
* cURL sets the timer for `CURLOPT_TIMEOUT` anew at every request of a transfer
  (`multi.c:1665`) and tests the limit only when something happens, so after a
  redirect a silent server can keep a request for nearly twice its Timeout.
  `DeadlineKept` says that the limit is not lost, not that it is kept to the
  second.
* With `CURLOPT_PIPEWAIT` (`httprequestcontext.cpp:147`) a request that waits for
  the first connection to its host has no limit at all: its Timeout passes
  unnoticed, and behind a request with Timeout = 0 that hangs it never ends.
  `DeadlineKept` is about transfers with a connection, and `RequestSettles`
  excepts a request that an untimed one may keep waiting.
* `curl_multi_cleanup(&g_Curl)` (`extension.cpp:273`) gets the address of the
  variable in place of the handle.  cURL rejects it, and the multi stack stays
  (`SDK_OnUnloadJoined`).

## Proofs

`RipExtProofs` proves, for every set of contexts and plugins and every limiter,
that its `IndInv` is an invariant of `Spec` (`Invariance`), and from it the
safety properties the `safety` run checks, that the loop thread never waits for
one lock while it holds the other (`LocksOrdered`) and that no message of cURL
is left unread (`MessagesRead`); what would come of the opposite of these two, a
hanging game server and a request that never settles, the `promise` run
excludes.  The assumptions are those named in `RipExt`: file contexts are not of
another kind, the null values are not members, the limiter is a positive
number.  No finiteness is assumed.

The properties are not inductive by themselves.  `PopSafe`, for one, holds
because only the main thread pops, and because a racing read can say "not empty"
only while the loop thread is about to push, so that the lock is not free before
the push.  `Control` records such facts: what each program counter says of the
locks, of the pointers in hand and of unread messages.  `CallbackInv` says that
a context whose callback ran is on its way out, which makes `CallbackOnce`
inductive; `HandleInv` ties the open handles to the running callback.  The proof
has one lemma per conjunct of `IndInv` (`TypeStep`, `ControlStep`, `OwnerStep`,
...), each with one step per action, and lemmas on what `Push` and `Pop` do to
the elements of a queue.  `QuietAfterUnload` states the action property
`UnloadQuiet`: `Stopped` says that the loop thread is not running once the main
thread is gone, and then no action of `Next` is possible (`GoneStep`).

`RipExtRefinement` proves `Spec => Promise`: initial states map to initial
states, and under `IndInv` every step is a step of `Delivery` or a stutter.  The
invariant is needed because a new context must be unknown to `Delivery`
(`SingleOwner`, `NoDangling`) and because what is popped must be the oldest.

`CurlSocketsProofs` proves the five invariants of the `sockets` run for any
finite sets of transfers, descriptors and contexts.  None of them is inductive,
because cURL tells the extension about a socket only when `singlesocket` comes
to it.  `SocketInv` says what holds in between: `UsersInv`, that an entry's users
are the transfers that wait for its socket, with the exception of the transfer
being run, which is a user of what `singlesocket` has looked at because it waits
for it now, and of the rest because it waited for it before; `EntryInv`, that an
entry with users is of an open socket and has a context of its own; `WatchInv`,
that a socket which has users and is not watched has failed and all its users
are still to be run; `ContextInv`, that a context which is there belongs to one
entry or is closing.  `WaitsWatched` follows when no run is under way.

`CurlTimerProofs` proves the four invariants of the `timer` run for any number
of transfers, any limits and any resolution of the clock.  It begins with
arithmetic: what `Curl_timediff` does to order, to a shift by whole seconds, and
how far it is from the true difference (`TimediffOrder`, `TimediffShift`,
`TimediffBound`), and what the operations on a list of timeouts keep
(`ExpireFacts`, `NextFacts`).  `TimerCovers` is not inductive, because
`Curl_update_timer` does nothing when the time is the one it asked for last:
`CoverInv` says that the timer is in time for what was asked for last, at every
step inside cURL too, and that outside of `multi_socket` this is what the tree
wants.  For `DeadlineKept`, `DeadlineInv` adds that a limit in the list is never
earlier than the one `Curl_timeleft` computes from the start of the transfer
(`NotEarly`).  A limit that `add_next_timeout` drops has then passed for
`Curl_timeleft` as well, since both round the same way (`DroppedFacts`), and the
transfer is the one about to be run.  `PendingHeld` needs only that a transfer
which is about to connect is not itself waiting; every way for the last one that
goes on to stop wakes another.

`TransferProofs` proves the five invariants of the `transfer` run for bodies,
buffers and limits of any size and for every server. `TypeInv` gives the exact
records the steps of cURL need.  `BoundInv` counts: each request beyond the
first is paid for by a redirect, a retry, the one time that HTTP/2 is switched
off, or a response that a fall-back gave up (`dropped.responses`).  The last is
not limited by cURL: a server that answers and then demands HTTP/1.1 on a
connection of the cache is asked again each time. A fall-back before any answer
is paid for, because a connection that is HTTP/2 after the first one was reused,
and such a request counts as a retry. `PieceInv` says where the bytes are: those
sent and those in cURL's buffer, in this order, end where the read function
stopped; that is inductive because `pos` and `present` change together.
`BodyWhole` needs `StoredInv`: while a transfer goes on, the stored body is what
the last fall-back in the middle of a response left, followed by what the
present response has given, or by nothing while its header is read and when its
body is ignored.  So a retry, which needs that nothing was received, and a
redirect, whose body is ignored, leave nothing behind although
`WriteResponseBody` only appends.  `HeadersFresh` is inductive with the types: a
new response has no lines yet, and a new line replaces what is stored under its
name.

`HttpRequestProofs` proves the four invariants of the `request` run for any
number of objects, finitely many handles and any bounds.  `HandlesLive` is
inductive with types (`HandleInv`); the count (`CountInv`) needs it, since an
object must not be made while a handle of an earlier one in the same memory is
open.  For `HeadersAsSet`, `AskedInv` says that a live object's headers contain
what the plugin asked for, as far as `ValueSize` lets it, and `QueueInv` that the
lines of every context in the queue were made of such headers, one for each and
whole where both buffers have room (`WholeLine`); `Context` copies, so nothing
that happens to the object later disturbs it.  The buffers may have any size in
which the extension's own headers fit.

`JsonProofs` proves the five properties of the `json_refs` run for finite sets of
values, handles and keys, and arrays of any length.  The first part counts: what
`With`, `Restrict` and `RemoveAt` do to the number of slots of a container that
hold a value (`CountWith`, `CountRestrict`, `CountRemoveAt`, the last by a
bijection between the slots before and after the move), and how that changes the
number of all slots (`SlotsOfChange`).  `JsonInv` adds to `RefExact` the shape of
containers and that memory is free exactly when its count is zero.  Then every
native is a balance: what is added to a count is added to the handles, the slots
or the releases that are owed.  `OnlyCyclesLeak` follows from the balance: a
value that no handle reaches and that is still allocated has a slot that owns
it, and the container with that slot cannot be reached either.  The action
property `CascadeShrinks` is the termination argument of a release: the work
left, slots and owed releases together, gets smaller with every `Decref`.  The
proof (`WorkShrinks`) needs no sums: it maps what is left afterwards one to one
into what was left before, the n-th new release of a value to the n-th slot that
held it, without hitting the release that was done.

`JsonKeysProofs` proves the three invariants of the `json_keys` run for any
finite set of keys and any number of iterators.  Its first part is about lists
without duplicates: `Unlink` keeps the order of what stays (`UnlinkFacts`, from
the ranks of a finite set of numbers) and `Link` adds at the end.  `KeysInv` is
`JsonInv`, `ListInv` (a list has the keys of its object, once each) and `IterInv`:
an iterator that was not misused stands at a key such that the keys it has read
are those before it in the list (`Stands`).  Removing keys other than that one,
adding keys and reading one all keep `Stands`; the key it stands at was not
read, so that freeing it is misuse, which is `KeysSafe`.

Assumptions.  The constants satisfy the named `ASSUME`s of the modules: null
values are not members, bounds are natural numbers, sets that are counted are
finite (`FiniteAssumption` of `CurlSockets` with the transfers, `HandlesAssumption`,
`ValuesAssumption`, `SlotsAssumption`; the singletons are three in jansson), keys
are not array indices, there are ticks in a millisecond and milliseconds in a
second (`TimeAssumption`), and buffers have room for the extension's own headers
(`SizeAssumption` of `HttpRequest`).  TLC evaluates each of them on the instances
of the runs.

Only model-checked: liveness (`RequestSettles`, `MainReturns`, `NativeReturns`),
which needs fairness and `ENABLED`; of `NativeReturns` the measure is proved
(`CascadeShrinks`), and that a `Decref` is possible while one is owed follows
from `RefExact`.  The four properties of the runs that expect
a violation are false.

## Not modelled, and why

Every component of the extension itself is modelled.  What is left out of them:

* Text: URLs, escaping, the wording of errors, what is in a header, the contents
  of JSON numbers and strings other than 64-bit integers.  `AppendQueryParam`
  adds a "?" although the URL may already have a query; what the server makes of
  it is the plugin's affair and no property here.
* Memory running out in `curl_slist_append`, `json_dumps` and `new`.  The code
  does not look at it; the exceptions are `realloc` in `WriteResponseBody`,
  `curl_easy_init` and the handle system, which are modelled.
* SourceMod's forward manager, which a failing `InitCurl` enters from the loop
  thread: its source is not in this repository.

The vendored libraries are about ninety-nine percent of the source lines here
and are not the subject.  They are translated where the correctness of the
extension turns on what exactly they do: cURL's `singlesocket`,
`Curl_multi_closed`, timer tree and limits (`multi.c`, `timeval.c`,
`connect.c`), its HTTP exchange with resets of HTTP/2 streams (`http.c`,
`transfer.c`, `url.c`, `http2.c`), libuv's poll handles, timers and loop
(`poll.c`, `core.c`, `linux-core.c`, `timer.c`) and jansson's reference counts
and ordered hashtable.  TLS (mbedtls), the framing and flow control of HTTP/2
(nghttp2), compression (zlib), jansson's parser and printer, the rest of cURL
(other protocols, proxies, NTLM, cookies, DNS, its command line tool) and of
libuv have their own upstream tests; a module for one of them would say nothing
about REST in Pawn.  `RipExt` is told what `CurlTimer` shows by hand: there is
no refinement between the two, since `RipExt` has no clock.  In `Transfer`, the
header block of a request is sent in one step and the Expect header of a POST of
more than 1 MB is left out.  The Pawn includes, the test plugin and the build
scripts have no behaviour of their own.

What could come next: measures like `CascadeShrinks` for what `RequestSettles`
and `MainReturns` say.
