----------------------------- MODULE HttpRequest -----------------------------
(***************************************************************************)
(* What a plugin builds before a request is queued: HTTPRequest objects    *)
(* behind handles, and an HTTPClient of the older interface.               *)
(*                                                                         *)
(* A request is set up by several natives and then performed by one more,  *)
(* which copies everything into a context, queues it and frees the handle. *)
(* The object goes with its last handle: a handle that was cloned keeps it *)
(* alive, with all that was done to it, the performing included.  A client *)
(* is used for many requests.                                              *)
(***************************************************************************)
EXTENDS Naturals, FiniteSets, Sequences

CONSTANTS
    Handles,     \* the handles a plugin can hold
    Objects,     \* the memory for HTTPRequest objects
    NoObject,    \* a null pointer
    Names,       \* the header names plugins set
    Values,      \* and their values
    Length,      \* the characters of a name or a value
    ValueSize,   \* sizeof(value) of SetRequestHeader
    LineSize,    \* sizeof(header) of BuildHeaders
    Params,      \* query and form parameters
    Settings,    \* values for the numeric properties
    MaxCalls,    \* bound: calls of natives
    MaxQueue     \* bound: requests in the queue

Json == "application/json"
Octets == "application/octet-stream"
Form == "application/x-www-form-urlencoded"
AnyType == "*/*"

\* The headers the extension sets itself, and their values.
Own == {"Accept", "Content-Type"}
Types == {Json, Octets, Form, AnyType}

\* A header whose value and whose line have room in the buffers.
Fits(n, v) == Length[v] < ValueSize /\ Length[n] + 2 + Length[v] < LineSize

ASSUME NullAssumption == NoObject \notin Objects
ASSUME HandlesAssumption == IsFiniteSet(Handles)
ASSUME BoundsAssumption == MaxCalls \in Nat /\ MaxQueue \in Nat
ASSUME SizeAssumption ==
    /\ Length \in [Names \cup Values \cup Own \cup Types -> Nat]
    /\ ValueSize \in Nat \ {0} /\ LineSize \in Nat \ {0}
    /\ \A n \in Own, v \in Types : Fits(n, v)

VARIABLES
    object,      \* the HTTPRequest objects
    handle,      \* what a handle stands for
    client,      \* an HTTPClient
    queue,       \* the contexts that wait for the next frame
    forwards,    \* SourceMod forwards that exist
    asked,       \* the headers plugins set, by object
    opened,      \* the handles each object has had
    performed,   \* the requests made of each object
    calls        \* natives called

rvars == <<object, handle, client, queue, forwards, asked, opened, performed, calls>>

\* The members' initial values.
RequestDefaults == [connectTimeout |-> 10, maxRedirects |-> 5, timeout |-> 30,
                    maxSendSpeed |-> 0, maxRecvSpeed |-> 0]
ClientDefaults == [connectTimeout |-> 10, timeout |-> 30, maxSendSpeed |-> 0,
                   maxRecvSpeed |-> 0]

NoMemory == [live |-> FALSE, url |-> "", query |-> <<>>, form |-> <<>>, headers |-> <<>>,
             auth |-> FALSE, options |-> RequestDefaults]

Init ==
    /\ object = [o \in Objects |-> NoMemory]
    /\ handle = [h \in Handles |-> NoObject]
    /\ client = [headers |-> <<>>, follow |-> TRUE, options |-> ClientDefaults]
    /\ queue = <<>> /\ forwards = 0
    /\ asked = [o \in Objects |-> <<>>]
    /\ opened = [o \in Objects |-> 0]
    /\ performed = [o \in Objects |-> 0]
    /\ calls = 0

\* A string is a text of which the first characters are kept.
String(v) == [text |-> v, length |-> Length[v]]

\* FormatString and snprintf, into a buffer of that many bytes.
Cut(length, size) == IF length < size THEN length ELSE size - 1

\* headers.replace: one value for a name, told from others by its spelling.
SetHeader(headers, n, v) ==
    [m \in DOMAIN headers \cup {n} |-> IF m = n THEN v ELSE headers[m]]

\* The constructor.
NewRequest(url) ==
    [NoMemory EXCEPT !.live = TRUE, !.url = url,
                     !.headers = SetHeader(SetHeader(<<>>, "Accept", String(Json)),
                                           "Content-Type", String(Json))]

Call == calls < MaxCalls /\ calls' = calls + 1

\* One forward serves all requests.
NewForward_Shared == UNCHANGED forwards

\* CreateForwardEx and AddFunction.
NewForward == forwards' = forwards + 1

-----------------------------------------------------------------------------
(***************************************************************************)
(* Handles                                                                 *)
(***************************************************************************)

Closed(h) == handle[h] = NoObject

\* CreateRequest, for a URL that brings a query along or does not.
CreateRequest(h, o, url) ==
    /\ Call /\ Closed(h) /\ ~object[o].live
    /\ object' = [object EXCEPT ![o] = NewRequest(url)]
    /\ handle' = [handle EXCEPT ![h] = o]
    /\ asked' = [asked EXCEPT ![o] = <<>>]
    /\ opened' = [opened EXCEPT ![o] = 1]
    /\ performed' = [performed EXCEPT ![o] = 0]
    /\ UNCHANGED <<client, queue, forwards>>

\* CloneHandle: another handle for the same object.
CloneHandle(h, g) ==
    /\ Call /\ ~Closed(h) /\ Closed(g)
    /\ handle' = [handle EXCEPT ![g] = handle[h]]
    /\ opened' = [opened EXCEPT ![handle[h]] = @ + 1]
    /\ UNCHANGED <<object, client, queue, forwards, asked, performed>>

\* The object goes with any of its handles.
Destroyed_Any(h) == {handle[h]}

\* The object goes with the last of its handles.
Destroyed(h) == {handle[h]} \ {handle[g] : g \in Handles \ {h}}

\* FreeHandle, when the request was performed and obj is what that left; and
\* HTTPRequestHandler::OnHandleDestroy.
FreeHandle(h, obj) ==
    /\ handle' = [handle EXCEPT ![h] = NoObject]
    /\ object' = [o \in Objects |-> IF o \in Destroyed(h) THEN NoMemory
                                    ELSE IF o = handle[h] THEN obj ELSE object[o]]

\* CloseHandle, by the plugin or because it was unloaded.
CloseHandle(h) ==
    /\ ~Closed(h)
    /\ FreeHandle(h, object[handle[h]])
    /\ UNCHANGED <<client, queue, forwards, asked, opened, performed, calls>>

-----------------------------------------------------------------------------
(***************************************************************************)
(* Building                                                                *)
(***************************************************************************)

\* A native that changes the object and nothing else.
Change(h, obj) ==
    /\ object' = [object EXCEPT ![handle[h]] = obj]
    /\ UNCHANGED <<handle, client, queue, forwards, opened, performed>>

\* A parameter that cannot be encoded is dropped.
AppendQueryParam(h, p) ==
    /\ Call /\ ~Closed(h)
    /\ Change(h, [object[handle[h]] EXCEPT !.query = Append(@, p)])
    /\ UNCHANGED asked

AppendFormParam(h, p) ==
    /\ Call /\ ~Closed(h)
    /\ Change(h, [object[handle[h]] EXCEPT !.form = Append(@, p)])
    /\ UNCHANGED asked

SetBasicAuth(h) ==
    /\ Call /\ ~Closed(h)
    /\ Change(h, [object[handle[h]] EXCEPT !.auth = TRUE])
    /\ UNCHANGED asked

\* What a plugin formats is cut to the native's buffer.
Formatted(v) == [text |-> v, length |-> Cut(Length[v], ValueSize)]

SetRequestHeader(h, n, v) ==
    /\ Call /\ ~Closed(h)
    /\ Change(h, [object[handle[h]] EXCEPT !.headers = SetHeader(@, n, Formatted(v))])
    /\ asked' = [asked EXCEPT ![handle[h]] = SetHeader(@, n, v)]

\* SetRequestConnectTimeout, -MaxRedirects, -MaxRecvSpeed, -MaxSendSpeed and
\* -Timeout.
SetOption(h, p, v) ==
    /\ Call /\ ~Closed(h)
    /\ Change(h, [object[handle[h]] EXCEPT !.options[p] = v])
    /\ UNCHANGED asked

-----------------------------------------------------------------------------
(***************************************************************************)
(* Performing                                                              *)
(***************************************************************************)

\* The headers each kind of request sets for itself.
SetHeaders(headers, accept, type) ==
    SetHeader(SetHeader(headers, "Accept", String(accept)), "Content-Type", String(type))

Prepare(kind, obj) ==
    CASE kind \in {"download", "upload"} -> [obj EXCEPT !.headers = SetHeaders(@, AnyType, Octets)]
      [] kind = "form" -> [obj EXCEPT !.headers = SetHeaders(@, Json, Form)]
      [] OTHER -> obj

\* BuildURL: the query, with its "?", goes behind the URL.
BuildURL(obj) == <<obj.url>> \o (IF obj.query = <<>> THEN <<>> ELSE <<"?">>) \o obj.query

\* The line "name: value" for cURL, as much of it as the buffer has room for.
HeaderLine(n, s) ==
    [name |-> n, value |-> s.text, length |-> Cut(Length[n] + 2 + s.length, LineSize)]

\* The headers are built before the request has set its own.
BuildHeaders_Stale(obj, prepared) ==
    {HeaderLine(n, obj.headers[n]) : n \in DOMAIN obj.headers}

\* BuildHeaders, of the object with what the kind of request set.
BuildHeaders(obj, prepared) ==
    {HeaderLine(n, prepared.headers[n]) : n \in DOMAIN prepared.headers}

\* What a context keeps; o is the object it comes from.
Context(kind, o, obj, prepared) ==
    [kind |-> kind, of |-> o, asked |-> asked[o], url |-> BuildURL(prepared),
     headers |-> BuildHeaders(obj, prepared), form |-> prepared.form, auth |-> prepared.auth,
     maxRedirects |-> prepared.options.maxRedirects, options |-> prepared.options]

\* The handle is left to the plugin.
AfterPerform_Kept(h, obj) == UNCHANGED handle /\ object' = [object EXCEPT ![handle[h]] = obj]

\* "This function closes the request Handle after completing."
AfterPerform(h, obj) == FreeHandle(h, obj)

\* PerformGetRequest and the other natives that perform a request.
Perform(h, kind) ==
    /\ Call /\ ~Closed(h) /\ Len(queue) < MaxQueue
    /\ LET o == handle[h]
           prepared == Prepare(kind, object[o])
       IN /\ queue' = Append(queue, Context(kind, o, object[o], prepared))
          /\ performed' = [performed EXCEPT ![o] = @ + 1]
          /\ AfterPerform(h, prepared)
    /\ NewForward
    /\ UNCHANGED <<client, asked, opened>>

\* The handle of the JSON data is not valid, or there is no forward to be had,
\* or it takes no function: then it is not released.  The request stays.
PerformThrows(h) ==
    /\ Call /\ ~Closed(h)
    /\ forwards' \in {forwards, forwards + 1}
    /\ UNCHANGED <<object, handle, client, queue, asked, opened, performed>>

-----------------------------------------------------------------------------
(***************************************************************************)
(* HTTPClient                                                              *)
(***************************************************************************)

SetClientHeader(n, v) ==
    /\ Call
    /\ client' = [client EXCEPT !.headers = SetHeader(@, n, String(v))]
    /\ UNCHANGED <<object, handle, queue, forwards, asked, opened, performed>>

SetClientFollowLocation(follow) ==
    /\ Call
    /\ client' = [client EXCEPT !.follow = follow]
    /\ UNCHANGED <<object, handle, queue, forwards, asked, opened, performed>>

SetClientOption(p, v) ==
    /\ Call
    /\ client' = [client EXCEPT !.options[p] = v]
    /\ UNCHANGED <<object, handle, queue, forwards, asked, opened, performed>>

\* The client's own headers come before the plugin's, which do not replace
\* them.
ClientHeaders(accept, type) ==
    {HeaderLine("Accept", String(accept)), HeaderLine("Content-Type", String(type))}
        \cup {HeaderLine(n, client.headers[n]) : n \in DOMAIN client.headers}

\* Request, DownloadFile and UploadFile.
ClientRequest(kind) ==
    /\ Call /\ Len(queue) < MaxQueue
    /\ queue' = Append(queue,
          [kind |-> kind, of |-> NoObject,
           asked |-> [n \in DOMAIN client.headers |-> client.headers[n].text],
           url |-> <<"plain">>,
           headers |-> IF kind = "json" THEN ClientHeaders(Json, Json)
                       ELSE ClientHeaders(AnyType, Octets),
           form |-> <<>>, auth |-> FALSE,
           maxRedirects |-> IF client.follow THEN 5 ELSE 0, options |-> client.options])
    /\ NewForward
    /\ UNCHANGED <<object, handle, client, asked, opened, performed>>

\* "Could not create forward.": it is logged.
ClientRequestFails ==
    /\ Call
    /\ forwards' \in {forwards, forwards + 1}
    /\ UNCHANGED <<object, handle, client, queue, asked, opened, performed>>

\* The next frame takes the first context; its destructor releases the forward.
TakeContext ==
    /\ queue # <<>>
    /\ queue' = Tail(queue)
    /\ forwards' = forwards - 1
    /\ UNCHANGED <<object, handle, client, asked, opened, performed, calls>>

Next ==
    \/ \E h \in Handles, o \in Objects, url \in {"plain", "query"} : CreateRequest(h, o, url)
    \/ \E h, g \in Handles : CloneHandle(h, g)
    \/ \E h \in Handles : \/ CloseHandle(h) \/ SetBasicAuth(h) \/ PerformThrows(h)
                          \/ \E kind \in {"json", "download", "upload", "form"} : Perform(h, kind)
    \/ \E h \in Handles, p \in Params : AppendQueryParam(h, p) \/ AppendFormParam(h, p)
    \/ \E h \in Handles, n \in Names, v \in Values : SetRequestHeader(h, n, v)
    \/ \E h \in Handles, p \in DOMAIN RequestDefaults, v \in Settings : SetOption(h, p, v)
    \/ \E n \in Names, v \in Values : SetClientHeader(n, v)
    \/ \E p \in DOMAIN ClientDefaults, v \in Settings : SetClientOption(p, v)
    \/ \E follow \in BOOLEAN : SetClientFollowLocation(follow)
    \/ \E kind \in {"json", "download", "upload"} : ClientRequest(kind)
    \/ ClientRequestFails
    \/ TakeContext

Spec == Init /\ [][Next]_rvars

-----------------------------------------------------------------------------
(***************************************************************************)
(* Properties                                                              *)
(***************************************************************************)

\* The variables have their types, and there is a forward for every context in
\* the queue to release.
TypeOK ==
    /\ handle \in [Handles -> Objects \cup {NoObject}]
    /\ \A o \in Objects : object[o].live \in BOOLEAN /\ object[o].auth \in BOOLEAN
    /\ client.follow \in BOOLEAN
    /\ Len(queue) \in 0..MaxQueue /\ calls \in 0..MaxCalls
    /\ forwards \in Nat /\ forwards >= Len(queue)

\* A handle never stands for an object that is gone, and an object never stays
\* when its last handle is gone, in whatever order its handles are closed and
\* its requests performed (HTTPRequestHandler::OnHandleDestroy and the
\* FreeHandle of the performing natives).
HandlesLive ==
    \A o \in Objects : object[o].live <=> \E h \in Handles : handle[h] = o

\* "This function closes the request Handle after completing": an object makes
\* at most one request for each handle it has had.
OneRequestPerHandle ==
    \A o \in Objects :
        performed[o] + Cardinality({h \in Handles : handle[h] = o}) <= opened[o]

\* The whole line "name: value".
Line(n, v) == [name |-> n, value |-> v, length |-> Length[n] + 2 + Length[v]]

\* Of each header a plugin had set on its HTTPRequest when it was performed, or
\* on its HTTPClient, a context has one line, with the value set last, and all
\* of it if it fits into the buffers; apart from Accept and Content-Type, which
\* the extension sets itself.  What the plugin does to the object through
\* another handle afterwards changes nothing (SetHeader, BuildHeaders).
HeadersAsSet ==
    \A i \in DOMAIN queue :
        LET c == queue[i]
        IN /\ \A n \in DOMAIN c.asked \ Own :
                 \E line \in c.headers :
                    /\ {l \in c.headers : l.name = n} = {line}
                    /\ line.value = c.asked[n]
                    /\ Fits(n, c.asked[n]) => line = Line(n, c.asked[n])
           /\ c.of # NoObject =>
                 /\ c.kind = "form" => Line("Content-Type", Form) \in c.headers
                 /\ c.kind \in {"upload", "download"} => Line("Content-Type", Octets) \in c.headers
                 /\ Cardinality({line.name : line \in c.headers}) = Cardinality(c.headers)
=============================================================================
