------------------------------ MODULE Transfer ------------------------------
(***************************************************************************)
(* One transfer: from the first connection to the result that is queued    *)
(* for the plugin's callback.                                              *)
(*                                                                         *)
(* One call of a plugin may take several requests: cURL follows redirects, *)
(* sends a request again on a fresh connection when a reused one turns out *)
(* to be dead, falls back from HTTP/2 to HTTP/1.1 and leaves out an Expect *)
(* header the server does not like.  The callbacks of the contexts see all *)
(* of these requests one after the other and are not told where one ends:  *)
(* ReadRequestBody keeps its position, WriteResponseBody appends,          *)
(* ReceiveResponseHeader replaces.                                         *)
(*                                                                         *)
(* The sending of a request's header block is one step, and NTLM,          *)
(* Negotiate and proxies, which the extension never asks for, are left     *)
(* out; so is the Expect header of a POST of more than 1 MB.               *)
(***************************************************************************)
EXTENDS Naturals, Integers, Sequences

CONSTANTS
    BodySize,      \* bytes of the request body
    BufferSize,    \* bytes cURL asks the read callback for
    Redirects,     \* the values of MaxRedirects; -1 is no limit
    Statuses,      \* the status codes a server may answer with
    Names,         \* header names as servers spell them
    Lower,         \* and in lower case, as a function
    MaxRetries,    \* CONN_MAX_RETRIES
    MaxRequests,   \* bound: requests on the wire
    MaxLines,      \* bound: header lines of a response
    MaxChunks      \* bound: pieces a response body arrives in

ASSUME SizeAssumption == BodySize \in Nat /\ BufferSize \in Nat \ {0}
ASSUME LimitAssumption ==
    Redirects \subseteq Nat \cup {-1} /\ MaxRetries \in Nat /\ MaxRequests \in Nat
ASSUME NameAssumption == Lower \in [Names -> STRING]

VARIABLES
    context,     \* the transfer's kind and MaxRedirects
    state,       \* of the easy handle: "connect", "perform" or "completed"
    result,      \* CURLcode
    httpreq,     \* what cURL is sending: "GET", "POST" or "PUT"
    pos,         \* how far the request body has been read
    response,    \* what the callbacks stored
    conn,        \* the connection in use
    k,           \* cURL's SingleRequest, cleared for every request
    h2ok,        \* HTTP/2 may be used
    noExpect,    \* disableexpect
    hops,        \* redirects followed
    retries,     \* retrycount
    requests,    \* requests sent
    refused,     \* refused_stream
    given,       \* what the server has sent of its last response
    dropped      \* history: responses a fall-back gave up, and what they left stored

tvars == <<context, state, result, httpreq, pos, response, conn, k, h2ok, noExpect,
           hops, retries, requests, refused, given, dropped>>

Body == [i \in 1..BodySize |-> i]

\* InitCurl: CURLOPT_POST for POST, PATCH and forms, CURLOPT_UPLOAD for PUT and
\* uploads, neither for GET, DELETE and downloads.
HttpReq == [json |-> {"GET", "POST", "PUT"}, form |-> {"POST"},
            upload |-> {"PUT"}, download |-> {"GET"}]

NoConnection == [reuse |-> FALSE, close |-> FALSE, h2 |-> FALSE]

SingleRequest ==
    [keepon |-> {}, exp100 |-> "send", sent |-> <<>>, present |-> <<>>, uploadDone |-> FALSE,
     header |-> TRUE, status |-> 0, location |-> FALSE, newurl |-> FALSE,
     received |-> FALSE, counted |-> FALSE, short |-> ""]

Nothing == [lines |-> <<>>, chunks |-> <<>>]

Init ==
    /\ \E kind \in DOMAIN HttpReq, max \in Redirects :
          /\ context = [kind |-> kind, maxRedirects |-> max]
          /\ httpreq \in HttpReq[kind]
    /\ state = "connect" /\ result = ""
    /\ pos = 0
    /\ response = [body |-> <<>>, headers |-> <<>>]
    /\ conn = NoConnection /\ k = SingleRequest
    /\ h2ok = TRUE /\ noExpect = FALSE
    /\ hops = 0 /\ retries = 0 /\ requests = 0 /\ refused = FALSE
    /\ given = Nothing /\ dropped = [responses |-> 0, body |-> <<>>]

\* multi_done: only the status code is of use after it.
Finish(code) ==
    /\ state' = "completed" /\ result' = code
    /\ conn' = NoConnection /\ k' = [SingleRequest EXCEPT !.status = k.status]
    /\ UNCHANGED given

\* The handle goes back to CURLM_STATE_CONNECT, where Curl_connect clears what
\* belongs to one request.
Again ==
    /\ state' = "connect" /\ UNCHANGED result
    /\ conn' = NoConnection /\ k' = SingleRequest /\ given' = Nothing

-----------------------------------------------------------------------------
(***************************************************************************)
(* The callbacks of the contexts                                           *)
(***************************************************************************)

\* The position stays where it is.
ReadRequestBody_SamePlace(total) ==
    LET toCopy == IF BodySize - pos < total THEN BodySize - pos ELSE total
    IN [bytes |-> SubSeq(Body, pos + 1, pos + toCopy), pos |-> pos]

\* The position advances by what was asked for.
ReadRequestBody_PastEnd(total) ==
    LET toCopy == IF BodySize - pos < total THEN BodySize - pos ELSE total
    IN [bytes |-> SubSeq(Body, pos + 1, pos + toCopy), pos |-> pos + total]

\* ReadRequestBody, fread on the uploaded file and cURL's own reading of the
\* form data all go on from where they were.
ReadRequestBody(total) ==
    LET toCopy == IF BodySize - pos < total THEN BodySize - pos ELSE total
    IN [bytes |-> SubSeq(Body, pos + 1, pos + toCopy), pos |-> pos + toCopy]

\* Keeps what is there.
WriteResponseBody(chunk) == Append(response.body, chunk)

\* The value that is left of a line: all but the last two bytes, which takes a
\* character of the value when the line ends in a bare line feed.
ValueOf(line) == IF line.form = "lf" THEN Append(line.value, "cut") ELSE line.value

\* The name is stored as it was spelled.
ReceiveResponseHeader_AsSpelled(line) ==
    IF line.form # "nospace"
    THEN [n \in DOMAIN response.headers \cup {line.name} |->
             IF n = line.name THEN ValueOf(line) ELSE response.headers[n]]
    ELSE response.headers

\* A line without ": " is skipped.
ReceiveResponseHeader(line) ==
    IF line.form # "nospace"
    THEN [n \in DOMAIN response.headers \cup {Lower[line.name]} |->
             IF n = Lower[line.name] THEN ValueOf(line) ELSE response.headers[n]]
    ELSE response.headers

\* The file contexts set no header function.
StoresHeaders == context.kind \in {"json", "form"}

\* The response to an upload is ignored; a download is written to the file.
StoresBody == context.kind # "upload"

-----------------------------------------------------------------------------
(***************************************************************************)
(* Sending                                                                 *)
(***************************************************************************)

HasBody(req) == req # "GET" /\ BodySize > 0

\* Curl_connect, Curl_http and Curl_http_bodysend: the request's header block
\* goes out.  HTTP/2 is agreed on with a new connection, and a connection of the
\* cache stays what it is whether or not HTTP/2 is still wanted.  Form data is
\* sent from its first byte each time; a PUT waits for the server to say 100.
Connect ==
    /\ state = "connect"
    /\ requests < MaxRequests
    /\ \E reuse \in BOOLEAN : \E h2 \in {FALSE, h2ok \/ reuse} :
          LET await == httpreq = "PUT" /\ ~h2 /\ ~noExpect
          IN /\ conn' = [reuse |-> reuse, close |-> FALSE, h2 |-> h2]
             /\ k' = [SingleRequest EXCEPT
                        !.keepon = {"recv"} \cup (IF HasBody(httpreq) /\ ~await
                                                  THEN {"send"} ELSE {}),
                        !.exp100 = IF HasBody(httpreq) /\ await THEN "await" ELSE "send",
                        !.uploadDone = ~HasBody(httpreq)]
    /\ state' = "perform"
    /\ requests' = requests + 1
    /\ pos' = IF context.kind = "form" THEN 0 ELSE pos
    /\ UNCHANGED <<context, result, httpreq, response, h2ok, noExpect, hops, retries, refused,
                   given, dropped>>

\* No connection can be made.
ConnectFails ==
    /\ state = "connect"
    /\ Finish("COULDNT_CONNECT")
    /\ UNCHANGED <<context, httpreq, pos, response, h2ok, noExpect, hops, retries, requests,
                   refused, dropped>>

\* readwrite_upload: what was read before and could not be sent goes first.
Upload ==
    /\ state = "perform" /\ "send" \in k.keepon
    /\ LET read == IF k.present = <<>> /\ ~k.uploadDone THEN ReadRequestBody(BufferSize)
                   ELSE [bytes |-> k.present, pos |-> pos]
       IN \E n \in 0..Len(read.bytes) :
             LET sent == k.sent \o SubSeq(read.bytes, 1, n)
                 rest == SubSeq(read.bytes, n + 1, Len(read.bytes))
                 all  == k.uploadDone \/ Len(sent) = BodySize
             IN /\ pos' = read.pos
                /\ k' = [k EXCEPT !.sent = sent, !.present = rest, !.uploadDone = all,
                                  !.keepon = IF read.bytes = <<>> \/ (rest = <<>> /\ all)
                                             THEN @ \ {"send"} ELSE @]
    /\ UNCHANGED <<context, state, result, httpreq, response, conn, h2ok, noExpect, hops,
                   retries, requests, refused, given, dropped>>

SendError ==
    /\ state = "perform" /\ "send" \in k.keepon
    /\ Finish("SEND_ERROR")
    /\ UNCHANGED <<context, httpreq, pos, response, h2ok, noExpect, hops, retries, requests,
                   refused, dropped>>

\* The server did not say 100 within a second.
Expect100Timeout ==
    /\ state = "perform" /\ k.exp100 = "await"
    /\ k' = [k EXCEPT !.exp100 = "send", !.keepon = @ \cup {"send"}]
    /\ UNCHANGED <<context, state, result, httpreq, pos, response, conn, h2ok, noExpect, hops,
                   retries, requests, refused, given, dropped>>

\* Curl_readrewind: form data needs none, a file is rewound, and for a JSON
\* body no seek function is set.
RewindFails == context.kind = "json"
Rewound == IF context.kind = "upload" THEN 0 ELSE pos

\* streamclose: on HTTP/2 the connection is not closed for one stream.
StreamClose(c) == [c EXCEPT !.close = @ \/ ~c.h2]

-----------------------------------------------------------------------------
(***************************************************************************)
(* Receiving                                                               *)
(***************************************************************************)

Reading == state = "perform" /\ "recv" \in k.keepon

\* When all has been read on a connection that will be closed, sending stops.
StopSend(keepon, c) == IF keepon = {"send"} /\ c.close THEN {} ELSE keepon

\* The first line of a response.
ReceiveStatus ==
    /\ Reading /\ k.header /\ k.status = 0
    /\ \E s \in Statuses : k' = [k EXCEPT !.status = s, !.received = TRUE, !.counted = TRUE]
    /\ given' = Nothing
    /\ UNCHANGED <<context, state, result, httpreq, pos, response, conn, h2ok, noExpect, hops,
                   retries, requests, refused, dropped>>

\* What follows a name: ": " and a value, or only ":", or the line ends in a
\* bare line feed.  Every value is told from every other.
Forms == {"regular", "nospace", "lf"}
Lines == [name : Names, form : Forms,
          value : {<<requests, k.status < 200, Len(given.lines) + 1>>}]

IsRedirect(line) ==
    k.status \in 300..399 /\ Lower[line.name] = "location" /\ ~k.location

\* http_perhapsrewind, for a Location that will be followed: a body that has
\* not been sent completely makes the connection unusable, and one of which
\* some bytes have been sent must be read from the start again.
PerhapsRewind ==
    IF httpreq = "GET"
    THEN k' = [k EXCEPT !.location = TRUE, !.newurl = TRUE] /\ UNCHANGED <<conn, pos>>
    ELSE /\ conn' = IF Len(k.sent) < BodySize THEN StreamClose(conn) ELSE conn
         /\ pos' = IF k.sent # <<>> THEN Rewound ELSE pos
         /\ k' = [k EXCEPT !.location = TRUE, !.newurl = TRUE,
                           !.keepon = IF k.sent # <<>> THEN @ \ {"send"} ELSE @]

\* Curl_http_header looks at a line before the callback gets it.
ReceiveHeader ==
    /\ Reading /\ k.header /\ k.status # 0
    /\ Len(given.lines) < MaxLines
    /\ \E line \in Lines :
          \/ /\ IsRedirect(line) /\ httpreq # "GET" /\ k.sent # <<>> /\ RewindFails
             /\ Finish("SEND_FAIL_REWIND")
             /\ UNCHANGED <<pos, response>>
          \/ /\ ~(IsRedirect(line) /\ httpreq # "GET" /\ k.sent # <<>> /\ RewindFails)
             /\ IF IsRedirect(line) THEN PerhapsRewind ELSE UNCHANGED <<conn, pos, k>>
             /\ given' = [given EXCEPT !.lines = Append(@, line)]
             /\ response' = IF StoresHeaders
                            THEN [response EXCEPT !.headers = ReceiveResponseHeader(line)]
                            ELSE response
             /\ UNCHANGED <<state, result>>
    /\ UNCHANGED <<context, httpreq, h2ok, noExpect, hops, retries, requests, refused, dropped>>

\* The end of the headers of a 1xx: more will come, and a body that waited for
\* it may be sent.
EndOfInterim ==
    /\ Reading /\ k.header /\ k.status \in 100..199
    /\ k' = [k EXCEPT !.status = 0, !.counted = FALSE,
                      !.exp100 = IF k.status = 100 THEN "send" ELSE @,
                      !.keepon = IF k.status = 100 /\ k.exp100 = "await"
                                 THEN @ \cup {"send"} ELSE @]
    /\ UNCHANGED <<context, state, result, httpreq, pos, response, conn, h2ok, noExpect, hops,
                   retries, requests, refused, given, dropped>>

\* expect100header: this request asked for a 100.
Expects == httpreq = "PUT" /\ ~conn.h2 /\ ~noExpect

\* The end of the headers of a response, which may ask to close the connection
\* and may have no body.  An error that comes before all of the request's body
\* was sent stops the sending; a 417 is answered with a request that expects
\* nothing.
EndOfHeaders ==
    /\ Reading /\ k.header /\ k.status >= 200
    /\ \E asked \in BOOLEAN, empty \in BOOLEAN :
          LET c     == [conn EXCEPT !.close = @ \/ asked]
              stop  == k.status >= 300 /\ ~c.close /\ httpreq # "GET" /\ ~k.uploadDone
              again == stop /\ k.status = 417 /\ Expects
              c2    == IF stop /\ ~again THEN StreamClose(c) ELSE c
              keep  == (k.keepon \ (IF stop THEN {"send"} ELSE {}))
                                 \ (IF empty THEN {"recv"} ELSE {})
          IN /\ conn' = c2
             /\ noExpect' = (noExpect \/ again)
             /\ k' = [k EXCEPT !.header = FALSE,
                               !.newurl = @ \/ again,
                               !.uploadDone = @ \/ (stop /\ ~again),
                               !.exp100 = IF stop /\ ~again /\ Expects THEN "failed" ELSE @,
                               !.keepon = StopSend(keep, c2)]
    /\ UNCHANGED <<context, state, result, httpreq, pos, response, h2ok, hops, retries,
                   requests, refused, given, dropped>>

\* The body of a response that is not the last is written too.
FirstWrite_Keep == FALSE

\* Curl_http_firstwrite: the body of a response that is not the last is
\* ignored.
FirstWrite == k.newurl

\* A piece of the body, and whether it is the last one.
ReceiveBody ==
    /\ Reading /\ ~k.header
    /\ Len(given.chunks) < MaxChunks
    /\ \E final \in BOOLEAN :
          LET chunk == <<requests, Len(given.chunks) + 1>>
              keep  == IF final THEN k.keepon \ {"recv"} ELSE k.keepon
          IN /\ given' = [given EXCEPT !.chunks = Append(@, chunk)]
             /\ k' = [k EXCEPT !.keepon = IF FirstWrite /\ conn.close THEN {}
                                          ELSE StopSend(keep, conn)]
             /\ response' = IF FirstWrite \/ ~StoresBody THEN response
                            ELSE [response EXCEPT !.body = WriteResponseBody(chunk)]
    /\ UNCHANGED <<context, state, result, httpreq, pos, conn, h2ok, noExpect, hops, retries,
                   requests, refused, dropped>>

\* There is no memory or no space on the disk for it.
WriteError ==
    /\ Reading /\ ~k.header /\ ~FirstWrite /\ StoresBody
    /\ Finish("WRITE_ERROR")
    /\ UNCHANGED <<context, httpreq, pos, response, h2ok, noExpect, hops, retries, requests,
                   refused, dropped>>

\* The server ends the connection or the stream: after the body, or before.
ServerCloses ==
    /\ Reading
    /\ \E short \in IF k.header THEN {""} ELSE {"", "size", "chunk"} :
          k' = [k EXCEPT !.short = short, !.keepon = StopSend(@ \ {"recv"}, conn)]
    /\ UNCHANGED <<context, state, result, httpreq, pos, response, conn, h2ok, noExpect, hops,
                   retries, requests, refused, given, dropped>>

-----------------------------------------------------------------------------
(***************************************************************************)
(* The end of a request: the transfer's, or another one                    *)
(***************************************************************************)

\* Curl_retry_request: nothing came back on a connection used before, or the
\* server refused a stream.
MayRetry(refusal) == ~k.received /\ (conn.reuse \/ refusal)

\* A fresh connection for the same request, with its body from the start if
\* some of it was sent.  A retry that fails does not replace the error that led
\* to it, if there is one; a refusal that was not the reason is remembered.
Retry(refusal, error, else) ==
    LET Fail(code) == Finish(IF error = "" THEN code ELSE error)
    IN /\ refused' = (refusal /\ ~(MayRetry(refusal) /\ ~conn.reuse))
       /\ IF ~MayRetry(refusal) THEN else
          ELSE IF retries >= MaxRetries
          THEN Fail("SEND_ERROR") /\ retries' = 0 /\ UNCHANGED <<pos, httpreq, hops>>
          ELSE /\ IF k.sent # <<>> /\ RewindFails THEN Fail("SEND_FAIL_REWIND") ELSE Again
               /\ pos' = IF k.sent # <<>> THEN Rewound ELSE pos
               /\ retries' = retries + 1
               /\ UNCHANGED <<httpreq, hops>>

\* The limit is one too high.
TooMany_OffByOne == context.maxRedirects # -1 /\ hops > context.maxRedirects

TooMany == context.maxRedirects # -1 /\ hops >= context.maxRedirects

\* Curl_follow: a POST becomes a GET after 301 and 302, everything after 303.
Follow ==
    /\ UNCHANGED <<pos, retries>>
    /\ IF TooMany THEN Finish("TOO_MANY_REDIRECTS") /\ UNCHANGED <<hops, httpreq>>
       ELSE /\ Again
            /\ hops' = hops + 1
            /\ httpreq' = IF \/ k.status \in {301, 302} /\ httpreq = "POST"
                             \/ k.status = 303
                          THEN "GET" ELSE httpreq

\* What the checks after the last byte and Curl_http_done make of it.
FinalCode == CASE k.short = "chunk" \/ (k.short = "size" /\ ~k.newurl) -> "PARTIAL_FILE"
               [] ~k.counted -> "GOT_NOTHING"
               [] OTHER -> "OK"

\* There is nothing more to send or to receive.
Done ==
    /\ state = "perform" /\ k.keepon = {}
    /\ IF FinalCode = "PARTIAL_FILE"
       THEN Finish("PARTIAL_FILE") /\ UNCHANGED <<retries, pos, httpreq, hops, refused>>
       ELSE Retry(refused, "",
                  IF k.newurl THEN Follow
                  ELSE Finish(FinalCode) /\ UNCHANGED <<retries, pos, httpreq, hops>>)
    /\ UNCHANGED <<context, response, h2ok, noExpect, requests, dropped>>

\* CURLE_RECV_ERROR is the end, unless the request may be sent again.
EndsInRecvError(refusal) ==
    /\ Retry(refusal, "RECV_ERROR",
             Finish("RECV_ERROR") /\ UNCHANGED <<retries, pos, httpreq, hops>>)
    /\ UNCHANGED <<context, response, h2ok, noExpect, requests, dropped>>

\* The connection was reset.
RecvError == Reading /\ EndsInRecvError(refused)

\* The server resets the stream of the request: before its answer, between a
\* 1xx and the answer, or anywhere in the body.  A header block arrives whole.
StreamReset == /\ state = "perform" /\ conn.h2 /\ k.keepon # {}
               /\ k.header => k.status = 0

\* With REFUSED_STREAM.
RefusedStream == StreamReset /\ EndsInRecvError(TRUE)

\* With an error that is not treated.
StreamError ==
    /\ StreamReset
    /\ Finish("HTTP2_STREAM")
    /\ UNCHANGED <<context, httpreq, pos, response, h2ok, noExpect, hops, retries, requests,
                   refused, dropped>>

\* With HTTP_1_1_REQUIRED.  The request is sent again whether or not
\* Curl_retry_request has a reason to, which alone rewinds, and whatever has
\* arrived of an answer.
Downgrade ==
    /\ StreamReset
    /\ Retry(refused, "", Again /\ UNCHANGED <<retries, pos, httpreq, hops>>)
    /\ h2ok' = (h2ok /\ state' = "completed")
    /\ dropped' = IF state' = "connect" /\ k.received
                  THEN [responses |-> dropped.responses + 1, body |-> response.body]
                  ELSE dropped
    /\ UNCHANGED <<context, response, noExpect, requests>>

\* CURLOPT_CONNECTTIMEOUT and CURLOPT_TIMEOUT.
Timeout ==
    /\ state # "completed"
    /\ Finish("OPERATION_TIMEDOUT")
    /\ UNCHANGED <<context, httpreq, pos, response, h2ok, noExpect, hops, retries, requests,
                   refused, dropped>>

\* The result is with the plugin.
Completed == state = "completed" /\ UNCHANGED tvars

Next ==
    \/ Connect \/ ConnectFails \/ Upload \/ SendError \/ Expect100Timeout
    \/ ReceiveStatus \/ ReceiveHeader \/ EndOfInterim \/ EndOfHeaders \/ ReceiveBody \/ WriteError
    \/ ServerCloses \/ Done \/ RecvError \/ RefusedStream \/ StreamError \/ Downgrade \/ Timeout
    \/ Completed

Spec == Init /\ [][Next]_tvars

-----------------------------------------------------------------------------
(***************************************************************************)
(* Properties                                                              *)
(***************************************************************************)

Codes == {"", "OK", "COULDNT_CONNECT", "SEND_ERROR", "SEND_FAIL_REWIND", "WRITE_ERROR",
          "PARTIAL_FILE", "GOT_NOTHING", "RECV_ERROR", "HTTP2_STREAM", "TOO_MANY_REDIRECTS",
          "OPERATION_TIMEDOUT"}

\* The variables have their types, and a transfer has a result exactly when it
\* is completed.
TypeOK ==
    /\ context.kind \in DOMAIN HttpReq
    /\ context.maxRedirects \in Redirects
    /\ state \in {"connect", "perform", "completed"}
    /\ result \in Codes
    /\ (result = "") <=> (state # "completed")
    /\ httpreq \in {"GET", "POST", "PUT"}
    /\ pos \in 0..BodySize
    /\ conn \in [reuse : BOOLEAN, close : BOOLEAN, h2 : BOOLEAN]
    /\ k.keepon \subseteq {"recv", "send"} /\ k.exp100 \in {"await", "send", "failed"}
    /\ {k.uploadDone, k.header, k.location, k.newurl, k.received, k.counted} \subseteq BOOLEAN
    /\ k.status \in Statuses \cup {0} /\ k.short \in {"", "size", "chunk"}
    /\ {h2ok, noExpect, refused} \subseteq BOOLEAN
    /\ hops \in Nat /\ retries \in 0..MaxRetries /\ requests \in 0..MaxRequests

\* What one request has sent of the body, with what waits in cURL's buffer, is
\* a piece of the body without a gap or a repetition that ends where the read
\* callback stopped; so a request that has sent as many bytes as its
\* Content-Length says has sent the body itself (ReadRequestBody,
\* CURLOPT_READFUNCTION).
BodyInOrder ==
    state = "perform" /\ ~k.location =>
        LET read == k.sent \o k.present
        IN /\ Len(read) <= pos /\ read = SubSeq(Body, pos - Len(read) + 1, pos)
           /\ Len(k.sent) = BodySize => k.sent = Body

\* The body a response holds, or a downloaded file, is all or nothing of the
\* body of the last response, and all of it when the transfer succeeded: no
\* redirect's body and nothing twice after a retry.  Only what a response had
\* stored when the server demanded HTTP/1.1 in the middle of it stays in front
\* (WriteResponseBody only ever appends).
BodyWhole ==
    /\ response.body \in {dropped.body, dropped.body \o given.chunks}
    /\ result = "OK" /\ StoresBody => response.body = dropped.body \o given.chunks

\* A plugin that asks for a header of the last response, whatever the case of
\* its name, gets the value of the last such line of that response, not one of
\* an earlier response (ReceiveResponseHeader replaces).
HeadersFresh ==
    StoresHeaders /\ result \in {"", "OK"} =>
        \A i \in DOMAIN given.lines :
            LET line == given.lines[i]
                later == {j \in DOMAIN given.lines :
                             j > i /\ Lower[given.lines[j].name] = Lower[line.name]}
            IN line.form = "regular" /\ (\A j \in later : given.lines[j].form = "nospace")
               => /\ Lower[line.name] \in DOMAIN response.headers
                  /\ response.headers[Lower[line.name]] = line.value

\* No more redirects are followed than the plugin allowed, and of the requests
\* one call of a plugin sends all are accounted for: the first, one for each
\* redirect, CONN_MAX_RETRIES retries, one fall-back to HTTP/1.1, and those sent
\* again because the server demanded HTTP/1.1 after it had begun to answer.  So
\* a server that does not answer is not asked without end, although a
\* connection of the cache may be HTTP/2 again after the fall-back
\* (CURLOPT_MAXREDIRS, Curl_retry_request).
RequestsBounded ==
    /\ context.maxRedirects # -1 => hops <= context.maxRedirects
    /\ requests <= 1 + hops + MaxRetries + (IF h2ok THEN 0 ELSE 1) + dropped.responses

\* A redirect is followed while the maximum is not reached: it is not turned
\* into an error of the sending side ("Maximum number of redirects to
\* follow").
RedirectsFollowed == k.status \in 300..399 => result # "SEND_FAIL_REWIND"

\* The headers a plugin finds in a response are headers of that response
\* ("Retrieves an HTTP header from the response").
HeadersOfLast ==
    result = "OK" =>
        \A n \in DOMAIN response.headers :
            \E i \in DOMAIN given.lines : Lower[given.lines[i].name] = n
=============================================================================
