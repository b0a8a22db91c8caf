--------------------------- MODULE TransferProofs ---------------------------
(***************************************************************************)
(* Proofs about Transfer, for every body, buffer, limit and server.        *)
(***************************************************************************)
EXTENDS Transfer, SequenceTheorems, TLAPS

(***************************************************************************)
(* Types                                                                   *)
(*                                                                         *)
(* TypeOK looks at the fields of the records one by one; what a step does  *)
(* to a record can only be told when all of its fields are known.          *)
(***************************************************************************)

KType == [keepon : SUBSET {"recv", "send"}, exp100 : {"await", "send", "failed"},
          sent : Seq(Nat), present : Seq(Nat), uploadDone : BOOLEAN, header : BOOLEAN,
          status : Statuses \cup {0}, location : BOOLEAN, newurl : BOOLEAN,
          received : BOOLEAN, counted : BOOLEAN, short : {"", "size", "chunk"}]
ConnType == [reuse : BOOLEAN, close : BOOLEAN, h2 : BOOLEAN]
Kinds == {"json", "form", "upload", "download"}

TypeInv ==
    /\ context \in [kind : Kinds, maxRedirects : Redirects]
    /\ state \in {"connect", "perform", "completed"}
    /\ result \in Codes /\ ((result = "") <=> (state # "completed"))
    /\ httpreq \in {"GET", "POST", "PUT"}
    /\ pos \in 0..BodySize
    /\ conn \in ConnType
    /\ k \in KType
    /\ h2ok \in BOOLEAN /\ noExpect \in BOOLEAN /\ refused \in BOOLEAN
    /\ hops \in Nat /\ retries \in 0..MaxRetries /\ requests \in 0..MaxRequests
    /\ dropped.responses \in Nat

LEMMA Fresh == NoConnection \in ConnType /\ SingleRequest \in KType
  BY DEF NoConnection, ConnType, SingleRequest, KType

LEMMA TypeInit == Init => TypeInv
<1> SUFFICES ASSUME Init PROVE TypeInv
  OBVIOUS
<1>1. PICK kind \in DOMAIN HttpReq, max \in Redirects :
         context = [kind |-> kind, maxRedirects |-> max] /\ httpreq \in HttpReq[kind]
  BY DEF Init
<1>2. kind \in Kinds /\ httpreq \in {"GET", "POST", "PUT"}
  BY <1>1 DEF HttpReq, Kinds
<1>3. pos = 0 /\ retries = 0 /\ requests = 0 /\ hops = 0 /\ dropped.responses = 0
  BY DEF Init
<1>4. /\ pos \in 0..BodySize /\ retries \in 0..MaxRetries /\ requests \in 0..MaxRequests
      /\ hops \in Nat /\ dropped.responses \in Nat
  BY <1>3, SizeAssumption, LimitAssumption
<1> QED  BY <1>1, <1>2, <1>4, Fresh DEF Init, TypeInv, Codes

LEMMA FinishType ==
    ASSUME TypeInv, NEW code \in Codes \ {""}, Finish(code)
    PROVE  /\ state' = "completed" /\ result' \in Codes \ {""}
           /\ conn' \in ConnType /\ k' \in KType
<1>1. k' = [SingleRequest EXCEPT !.status = k.status]
  BY DEF Finish
<1>2. k.status \in Statuses \cup {0}
  BY DEF TypeInv, KType
<1>3. k' \in KType
  BY <1>1, <1>2, Fresh DEF KType
<1> QED  BY <1>3, Fresh DEF Finish

LEMMA AgainType ==
    ASSUME TypeInv, Again
    PROVE  /\ state' = "connect" /\ UNCHANGED result
           /\ conn' \in ConnType /\ k' \in KType
  BY Fresh DEF Again

LEMMA BodyType == Body \in Seq(Nat) /\ Len(Body) = BodySize /\ \A i \in 1..BodySize : Body[i] = i
<1>1. DOMAIN Body = 1..BodySize /\ \A i \in 1..BodySize : Body[i] = i
  BY DEF Body
<1> QED  BY <1>1, SizeAssumption DEF Body

\* What ReadRequestBody copies is the piece of the body between its positions.
LEMMA ReadType ==
    ASSUME pos \in 0..BodySize, NEW total \in Nat
    PROVE  /\ ReadRequestBody(total).pos \in pos..BodySize
           /\ ReadRequestBody(total).bytes \in Seq(Nat)
           /\ Len(ReadRequestBody(total).bytes) = ReadRequestBody(total).pos - pos
           /\ \A i \in 1..Len(ReadRequestBody(total).bytes) :
                 ReadRequestBody(total).bytes[i] = pos + i
<1> DEFINE toCopy == IF BodySize - pos < total THEN BodySize - pos ELSE total
<1>1. toCopy \in 0..(BodySize - pos)
  BY SizeAssumption
<1> HIDE DEF toCopy
<1>2. /\ SubSeq(Body, pos + 1, pos + toCopy) \in Seq(Nat)
      /\ Len(SubSeq(Body, pos + 1, pos + toCopy)) = toCopy
      /\ \A i \in 1..toCopy : SubSeq(Body, pos + 1, pos + toCopy)[i] = pos + i
  BY <1>1, BodyType, SizeAssumption
<1> DEFINE piece == SubSeq(Body, pos + 1, pos + toCopy)
<1>3. ReadRequestBody(total).pos = pos + toCopy /\ ReadRequestBody(total).bytes = piece
  BY DEF ReadRequestBody, toCopy
<1>4. pos + toCopy \in pos..BodySize /\ toCopy = (pos + toCopy) - pos
  BY <1>1, SizeAssumption
<1>5. Len(piece) = (pos + toCopy) - pos
  BY <1>2, <1>4
<1> QED  BY <1>2, <1>3, <1>4, <1>5

LEMMA RewoundType ==
    ASSUME pos \in 0..BodySize
    PROVE  Rewound \in 0..BodySize
  BY SizeAssumption DEF Rewound

LEMMA StreamCloseType ==
    ASSUME NEW c \in ConnType
    PROVE  /\ StreamClose(c) \in ConnType
           /\ StreamClose(c).h2 = c.h2 /\ StreamClose(c).reuse = c.reuse
  BY DEF StreamClose, ConnType

\* What Connect makes of the connection and the request.
SentWith(reuse, h2) ==
    LET await == httpreq = "PUT" /\ ~h2 /\ ~noExpect
    IN /\ conn' = [reuse |-> reuse, close |-> FALSE, h2 |-> h2]
       /\ k' = [SingleRequest EXCEPT
                  !.keepon = {"recv"} \cup (IF HasBody(httpreq) /\ ~await
                                            THEN {"send"} ELSE {}),
                  !.exp100 = IF HasBody(httpreq) /\ await THEN "await" ELSE "send",
                  !.uploadDone = ~HasBody(httpreq)]

\* The steps that send the request and its body.
LEMMA TypeSend ==
    ASSUME TypeInv, Connect \/ ConnectFails \/ Upload \/ SendError \/ Expect100Timeout
    PROVE  TypeInv'
<1>1. CASE Connect
  <2>1. PICK reuse \in BOOLEAN, h2 \in BOOLEAN :
           /\ conn' = [reuse |-> reuse, close |-> FALSE, h2 |-> h2]
           /\ \E keepon \in SUBSET {"recv", "send"}, exp100 \in {"await", "send"},
                 done \in BOOLEAN :
                 k' = [SingleRequest EXCEPT !.keepon = keepon, !.exp100 = exp100, !.uploadDone = done]
    <3>1. PICK reuse \in BOOLEAN, h2 \in BOOLEAN :
             LET await == httpreq = "PUT" /\ ~h2 /\ ~noExpect
             IN /\ conn' = [reuse |-> reuse, close |-> FALSE, h2 |-> h2]
                /\ k' = [SingleRequest EXCEPT
                           !.keepon = {"recv"} \cup (IF HasBody(httpreq) /\ ~await
                                                     THEN {"send"} ELSE {}),
                           !.exp100 = IF HasBody(httpreq) /\ await THEN "await" ELSE "send",
                           !.uploadDone = ~HasBody(httpreq)]
      <4>1. PICK reuse \in BOOLEAN : \E h2 \in {FALSE, h2ok \/ reuse} : SentWith(reuse, h2)
        BY <1>1 DEF Connect, SentWith
      <4>2. PICK h2 \in {FALSE, h2ok \/ reuse} : SentWith(reuse, h2)
        BY <4>1
      <4>3. h2 \in BOOLEAN
        BY <4>2 DEF TypeInv
      <4> QED  BY <4>2, <4>3 DEF SentWith
    <3> DEFINE await == httpreq = "PUT" /\ ~h2 /\ ~noExpect
               keepon == {"recv"} \cup (IF HasBody(httpreq) /\ ~await THEN {"send"} ELSE {})
               exp100 == IF HasBody(httpreq) /\ await THEN "await" ELSE "send"
               done == ~HasBody(httpreq)
    <3>2. keepon \in SUBSET {"recv", "send"} /\ exp100 \in {"await", "send"}
      OBVIOUS
    <3>3. done \in BOOLEAN
      BY DEF HasBody
    <3>4. k' = [SingleRequest EXCEPT !.keepon = keepon, !.exp100 = exp100, !.uploadDone = done]
      BY <3>1
    <3> HIDE DEF await, keepon, exp100, done
    <3> QED  BY <3>1, <3>2, <3>3, <3>4
  <2>2. k' \in KType
    BY <2>1, Fresh DEF KType
  <2>3. conn' \in ConnType
    BY <2>1 DEF TypeInv, ConnType
  <2>4. /\ state = "connect" /\ state' = "perform" /\ requests < MaxRequests
        /\ requests' = requests + 1 /\ pos' = IF context.kind = "form" THEN 0 ELSE pos
        /\ UNCHANGED <<context, result, httpreq, h2ok, noExpect, hops, retries, refused, dropped>>
    BY <1>1 DEF Connect
  <2>5. pos' \in 0..BodySize /\ requests' \in 0..MaxRequests
    <3>1. pos \in 0..BodySize /\ requests \in 0..MaxRequests
      BY DEF TypeInv
    <3> QED  BY <2>4, <3>1, SizeAssumption, LimitAssumption
  <2> QED  BY <2>2, <2>3, <2>4, <2>5 DEF TypeInv
<1>2. CASE ConnectFails \/ SendError
  <2>1. PICK code \in Codes \ {""} : Finish(code)
    BY <1>2 DEF ConnectFails, SendError, Codes
  <2>2. UNCHANGED <<context, httpreq, pos, h2ok, noExpect, hops, retries, requests, refused, dropped>>
    BY <1>2 DEF ConnectFails, SendError
  <2> QED  BY <2>1, <2>2, FinishType DEF TypeInv
<1>3. CASE Expect100Timeout
  <2>1. k' \in KType
    BY <1>3 DEF Expect100Timeout, TypeInv, KType
  <2>2. UNCHANGED <<context, state, result, httpreq, pos, conn, h2ok, noExpect, hops, retries, requests, refused, dropped>>
    BY <1>3 DEF Expect100Timeout
  <2> QED  BY <2>1, <2>2 DEF TypeInv
<1>4. CASE Upload
  <2> DEFINE read == IF k.present = <<>> /\ ~k.uploadDone THEN ReadRequestBody(BufferSize)
                     ELSE [bytes |-> k.present, pos |-> pos]
             sent(n) == k.sent \o SubSeq(read.bytes, 1, n)
             rest(n) == SubSeq(read.bytes, n + 1, Len(read.bytes))
             all(n) == k.uploadDone \/ Len(sent(n)) = BodySize
             keepon(n) == IF read.bytes = <<>> \/ (rest(n) = <<>> /\ all(n))
                          THEN k.keepon \ {"send"} ELSE k.keepon
  <2>1. PICK n \in 0..Len(read.bytes) :
           /\ pos' = read.pos
           /\ k' = [k EXCEPT !.sent = sent(n), !.present = rest(n), !.uploadDone = all(n),
                             !.keepon = keepon(n)]
    BY <1>4 DEF Upload
  <2>2. read.bytes \in Seq(Nat) /\ read.pos \in 0..BodySize
    <3>1. CASE k.present = <<>> /\ ~k.uploadDone
      <4>1. pos \in 0..BodySize /\ BufferSize \in Nat
        BY SizeAssumption DEF TypeInv
      <4>2. /\ ReadRequestBody(BufferSize).bytes \in Seq(Nat)
            /\ ReadRequestBody(BufferSize).pos \in pos..BodySize
        BY <4>1, ReadType
      <4>3. ReadRequestBody(BufferSize).pos \in 0..BodySize
        BY <4>1, <4>2, SizeAssumption
      <4> QED  BY <3>1, <4>2, <4>3
    <3>2. CASE ~(k.present = <<>> /\ ~k.uploadDone)
      BY <3>2 DEF TypeInv, KType
    <3> QED  BY <3>1, <3>2
  <2>3. k \in KType /\ k.sent \in Seq(Nat) /\ k.uploadDone \in BOOLEAN
    BY DEF TypeInv, KType
  <2> HIDE DEF read
  <2>4. n \in 0..Len(read.bytes) /\ Len(read.bytes) \in Nat
    BY <2>1, <2>2
  <2>5. sent(n) \in Seq(Nat) /\ rest(n) \in Seq(Nat)
    BY <2>2, <2>3, <2>4
  <2>6. all(n) \in BOOLEAN /\ keepon(n) \in SUBSET {"recv", "send"}
    BY <2>3 DEF KType
  <2> HIDE DEF sent, rest, all, keepon
  <2>7. k' \in KType
    BY <2>1, <2>3, <2>5, <2>6 DEF KType
  <2>8. UNCHANGED <<context, state, result, httpreq, conn, h2ok, noExpect, hops, retries, requests, refused, dropped>>
    BY <1>4 DEF Upload
  <2> QED  BY <2>1, <2>2, <2>7, <2>8 DEF TypeInv
<1> QED  BY <1>1, <1>2, <1>3, <1>4

\* What the end of the headers changes of the request and the connection.
LEMMA EndOfHeadersK ==
    ASSUME TypeInv, EndOfHeaders
    PROVE  /\ conn' \in ConnType /\ noExpect' \in BOOLEAN
           /\ \E newurl \in BOOLEAN, done \in BOOLEAN, exp100 \in {"await", "send", "failed"},
                 keepon \in SUBSET {"recv", "send"} :
                 k' = [k EXCEPT !.header = FALSE, !.newurl = newurl, !.uploadDone = done,
                                !.exp100 = exp100, !.keepon = keepon]
<1>0. k \in KType /\ conn \in ConnType
  BY DEF TypeInv
<1>1. PICK asked \in BOOLEAN, empty \in BOOLEAN :
        LET c     == [conn EXCEPT !.close = @ \/ asked]
            stop  == k.status >= 300 /\ ~c.close /\ httpreq # "GET" /\ ~k.uploadDone
            again == stop /\ k.status = 417 /\ Expects
            c2    == IF stop /\ ~again THEN StreamClose(c) ELSE c
            keep  == (k.keepon \ (IF stop THEN {"send"} ELSE {}))
                               \ (IF empty THEN {"recv"} ELSE {})
        IN /\ conn' = c2
           /\ noExpect' = (noExpect \/ again)
           /\ k' = [k EXCEPT !.header = FALSE,
                             !.newurl = @ \/ again,
                             !.uploadDone = @ \/ (stop /\ ~again),
                             !.exp100 = IF stop /\ ~again /\ Expects THEN "failed" ELSE @,
                             !.keepon = StopSend(keep, c2)]
  BY DEF EndOfHeaders
<1> DEFINE c     == [conn EXCEPT !.close = @ \/ asked]
           stop  == k.status >= 300 /\ ~c.close /\ httpreq # "GET" /\ ~k.uploadDone
           again == stop /\ k.status = 417 /\ Expects
           c2    == IF stop /\ ~again THEN StreamClose(c) ELSE c
           keep  == (k.keepon \ (IF stop THEN {"send"} ELSE {}))
                              \ (IF empty THEN {"recv"} ELSE {})
           exp100 == IF stop /\ ~again /\ Expects THEN "failed" ELSE k.exp100
           newurl == k.newurl \/ again
           done   == k.uploadDone \/ (stop /\ ~again)
<1>2. c \in ConnType
  BY <1>0 DEF ConnType
<1>3. conn' \in ConnType
  <2>1. conn' = c2
    BY <1>1
  <2>2. c2 = StreamClose(c) \/ c2 = c
    OBVIOUS
  <2> HIDE DEF c, c2
  <2> QED  BY <1>2, <2>1, <2>2, StreamCloseType
<1>4. StopSend(keep, c2) \in SUBSET {"recv", "send"}
  BY <1>0 DEF StopSend, KType
<1>5. exp100 \in {"await", "send", "failed"} /\ newurl \in BOOLEAN /\ done \in BOOLEAN
  BY <1>0 DEF KType
<1>6. noExpect' \in BOOLEAN
  BY <1>1 DEF TypeInv
<1>7. k' = [k EXCEPT !.header = FALSE, !.newurl = newurl, !.uploadDone = done,
                     !.exp100 = exp100, !.keepon = StopSend(keep, c2)]
  BY <1>1
<1> HIDE DEF c, stop, again, c2, keep, exp100, newurl, done
<1> QED  BY <1>3, <1>4, <1>5, <1>6, <1>7

\* The steps that receive the response.
LEMMA TypeReceive ==
    ASSUME TypeInv, \/ ReceiveStatus \/ ReceiveHeader \/ EndOfInterim \/ EndOfHeaders
                    \/ ReceiveBody \/ WriteError \/ ServerCloses
    PROVE  TypeInv'
<1> USE DEF Reading
<1>0. k \in KType /\ conn \in ConnType
  BY DEF TypeInv
<1>1. CASE ReceiveStatus \/ EndOfInterim \/ ServerCloses
  <2>1. CASE ReceiveStatus
    BY <1>0, <2>1 DEF ReceiveStatus, TypeInv, KType
  <2>2. CASE EndOfInterim
    BY <1>0, <2>2 DEF EndOfInterim, TypeInv, KType
  <2>3. CASE ServerCloses
    <3>0. PICK short \in {"", "size", "chunk"} :
             k' = [k EXCEPT !.short = short, !.keepon = StopSend(k.keepon \ {"recv"}, conn)]
      BY <2>3 DEF ServerCloses
    <3>1. StopSend(k.keepon \ {"recv"}, conn) \in SUBSET {"recv", "send"}
      BY <1>0 DEF StopSend, KType
    <3>2. k' \in KType
      BY <1>0, <3>0, <3>1 DEF KType
    <3>3. UNCHANGED <<context, state, result, httpreq, pos, conn, h2ok, noExpect, hops, retries, requests, refused, dropped>>
      BY <2>3 DEF ServerCloses
    <3> QED  BY <3>2, <3>3 DEF TypeInv
  <2> QED  BY <1>1, <2>1, <2>2, <2>3
<1>2. CASE ReceiveHeader
  <2>1. UNCHANGED <<context, httpreq, h2ok, noExpect, hops, retries, requests, refused, dropped>>
    BY <1>2 DEF ReceiveHeader
  <2>2. CASE Finish("SEND_FAIL_REWIND") /\ UNCHANGED pos
    BY <2>1, <2>2, FinishType DEF TypeInv, Codes
  <2>3. CASE UNCHANGED <<conn, pos, k, state, result>>
    BY <2>1, <2>3 DEF TypeInv
  <2>4. CASE PerhapsRewind /\ UNCHANGED <<state, result>>
    <3>1. conn' \in ConnType /\ pos' \in 0..BodySize
      <4>1. pos \in 0..BodySize
        BY DEF TypeInv
      <4> QED  BY <1>0, <2>4, <4>1, StreamCloseType, RewoundType DEF PerhapsRewind
    <3>2. PICK keepon \in SUBSET {"recv", "send"} :
             k' = [k EXCEPT !.location = TRUE, !.newurl = TRUE, !.keepon = keepon]
      BY <1>0, <2>4 DEF PerhapsRewind, KType
    <3>3. k' \in KType
      BY <1>0, <3>2 DEF KType
    <3> QED  BY <2>1, <2>4, <3>1, <3>3 DEF TypeInv
  <2> QED  BY <1>2, <2>2, <2>3, <2>4 DEF ReceiveHeader
<1>3. CASE EndOfHeaders
  <2>1. k' \in KType
    <3>1. PICK newurl \in BOOLEAN, done \in BOOLEAN, exp100 \in {"await", "send", "failed"},
              keepon \in SUBSET {"recv", "send"} :
             k' = [k EXCEPT !.header = FALSE, !.newurl = newurl, !.uploadDone = done,
                            !.exp100 = exp100, !.keepon = keepon]
      BY <1>3, EndOfHeadersK
    <3> QED  BY <1>0, <3>1 DEF KType
  <2>2. UNCHANGED <<context, state, result, httpreq, pos, h2ok, hops, retries, requests, refused, dropped>>
    BY <1>3 DEF EndOfHeaders
  <2> QED  BY <1>3, <2>1, <2>2, EndOfHeadersK DEF TypeInv
<1>4. CASE ReceiveBody
  <2>1. PICK keepon \in SUBSET {"recv", "send"} : k' = [k EXCEPT !.keepon = keepon]
    BY <1>0, <1>4 DEF ReceiveBody, StopSend, KType
  <2>2. k' \in KType
    BY <1>0, <2>1 DEF KType
  <2>3. UNCHANGED <<context, state, result, httpreq, pos, conn, h2ok, noExpect, hops, retries, requests, refused, dropped>>
    BY <1>4 DEF ReceiveBody
  <2> QED  BY <2>2, <2>3 DEF TypeInv
<1>5. CASE WriteError
  BY <1>5, FinishType DEF WriteError, TypeInv, Codes
<1> QED  BY <1>1, <1>2, <1>3, <1>4, <1>5

\* What the end of a request leads to: the end of the transfer, which is a
\* success only with a response that is the last, or another request that is
\* paid for by a redirect, by a retry, by the fall-back to HTTP/1.1 or by the
\* response that a fall-back gives up.
Fails == \E code \in Codes \ {"", "OK"} : Finish(code)
Ends == \E code \in Codes \ {""} : Finish(code) /\ (code = "OK" => ~k.newurl)
Paid == \/ hops' = hops + 1 /\ ~TooMany /\ k.newurl /\ UNCHANGED <<retries, dropped>>
        \/ retries' = retries + 1 /\ ~k.received /\ UNCHANGED <<hops, dropped>>
        \/ h2ok /\ ~h2ok' /\ ~k.received /\ UNCHANGED <<retries, hops, dropped>>
        \/ /\ dropped' = [responses |-> dropped.responses + 1, body |-> response.body]
           /\ UNCHANGED <<retries, hops>>
Settles ==
    /\ state # "completed"
    /\ \/ Ends /\ UNCHANGED <<hops, dropped>>
       \/ Again /\ Paid
    /\ retries' \in 0..MaxRetries /\ hops' \in Nat
    /\ httpreq' \in {"GET", "POST", "PUT"} /\ pos' \in 0..BodySize
    /\ UNCHANGED <<context, response, noExpect, requests>>
    /\ h2ok' \in BOOLEAN /\ (h2ok' => h2ok) /\ refused' \in BOOLEAN

LEMMA TypeSettles ==
    ASSUME TypeInv, Settles
    PROVE  TypeInv'
<1>1. CASE Ends /\ UNCHANGED <<hops, dropped>>
  BY <1>1, FinishType DEF Settles, Ends, TypeInv
<1>2. CASE Again /\ Paid
  <2>1. state' = "connect" /\ result' = result /\ conn' \in ConnType /\ k' \in KType
    BY <1>2, AgainType
  <2>2. dropped'.responses \in Nat
    <3>1. dropped.responses \in Nat
      BY DEF TypeInv
    <3>2. UNCHANGED dropped \/ dropped'.responses = dropped.responses + 1
      BY <1>2 DEF Paid
    <3> QED  BY <3>1, <3>2
  <2> QED  BY <2>1, <2>2 DEF Settles, TypeInv
<1> QED  BY <1>1, <1>2 DEF Settles

\* Curl_retry_request when it has a reason to send the request again.
LEMMA Retries ==
    ASSUME TypeInv, NEW refusal \in BOOLEAN, NEW error \in Codes \ {"OK"},
           Retry(refusal, error, TRUE), MayRetry(refusal)
    PROVE  /\ Fails \/ (Again /\ ~k.received /\ retries' = retries + 1)
           /\ retries' \in 0..MaxRetries /\ pos' \in 0..BodySize
           /\ UNCHANGED <<httpreq, hops>>
<1>1. retries \in 0..MaxRetries /\ pos \in 0..BodySize
  BY DEF TypeInv
<1>2. ~k.received
  BY DEF MayRetry
<1>3. ASSUME NEW code \in Codes \ {"", "OK"}, Finish(IF error = "" THEN code ELSE error)
      PROVE  Fails
  BY <1>3 DEF Fails
<1>4. CASE /\ Finish(IF error = "" THEN "SEND_ERROR" ELSE error)
           /\ retries' = 0 /\ UNCHANGED <<pos, httpreq, hops>>
  <2>1. retries' \in 0..MaxRetries
    <3>1. retries' = 0
      BY <1>4
    <3> QED  BY <3>1, LimitAssumption
  <2> QED  BY <1>1, <1>3, <1>4, <2>1 DEF Codes
<1>5. CASE /\ ~(retries >= MaxRetries)
           /\ Finish(IF error = "" THEN "SEND_FAIL_REWIND" ELSE error) \/ Again
           /\ pos' = IF k.sent # <<>> THEN Rewound ELSE pos
           /\ retries' = retries + 1 /\ UNCHANGED <<httpreq, hops>>
  <2>1. retries' \in 0..MaxRetries /\ pos' \in 0..BodySize
    <3>1. /\ retries' = retries + 1 /\ ~(retries >= MaxRetries)
          /\ pos' = Rewound \/ pos' = pos
      BY <1>5
    <3> QED  BY <1>1, <3>1, LimitAssumption, RewoundType
  <2> QED  BY <1>2, <1>3, <1>5, <2>1 DEF Codes
<1> QED  BY <1>4, <1>5 DEF Retry

\* So a request that is sent again for that reason is paid for.
LEMMA RetrySettles ==
    ASSUME TypeInv, NEW refusal \in BOOLEAN, NEW error \in Codes \ {"OK"}, state # "completed",
           Retry(refusal, error, TRUE), MayRetry(refusal),
           UNCHANGED <<context, response, noExpect, requests, dropped>>,
           h2ok' \in BOOLEAN, h2ok' => h2ok
    PROVE  Settles
<1>1. hops \in Nat /\ httpreq \in {"GET", "POST", "PUT"}
  BY DEF TypeInv
<1>2. refused' \in BOOLEAN
  BY DEF Retry
<1>3. Fails => Ends
  BY DEF Fails, Ends
<1>4. /\ Fails \/ (Again /\ ~k.received /\ retries' = retries + 1)
      /\ retries' \in 0..MaxRetries /\ pos' \in 0..BodySize
      /\ UNCHANGED <<httpreq, hops>>
  BY Retries
<1> QED  BY <1>1, <1>2, <1>3, <1>4 DEF Settles, Paid

\* A fall-back in the middle of a response gives that response up; one before
\* it, for which there is no retry, leaves a connection that was new.
LEMMA DowngradeSettles ==
    ASSUME TypeInv, conn.h2 => h2ok \/ conn.reuse, Downgrade
    PROVE  Settles
<1>1. /\ state = "perform" /\ conn.h2 /\ UNCHANGED <<context, response, noExpect, requests>>
      /\ Retry(refused, "", Again /\ UNCHANGED <<retries, pos, httpreq, hops>>)
      /\ h2ok' = (h2ok /\ state' = "completed")
  BY DEF Downgrade, StreamReset
<1>2. /\ h2ok \in BOOLEAN /\ refused \in BOOLEAN /\ "" \in Codes \ {"OK"}
      /\ retries \in 0..MaxRetries /\ pos \in 0..BodySize /\ hops \in Nat
      /\ httpreq \in {"GET", "POST", "PUT"}
  BY DEF TypeInv, Codes
<1>3. h2ok' \in BOOLEAN /\ (h2ok' => h2ok)
  BY <1>1, <1>2
<1>4. CASE MayRetry(refused)
  <2>1. Retry(refused, "", TRUE)
    BY <1>1 DEF Retry
  <2>2. ~k.received
    BY <1>4 DEF MayRetry
  <2>3. UNCHANGED dropped
    BY <2>2 DEF Downgrade
  <2> QED  BY <1>1, <1>2, <1>3, <1>4, <2>1, <2>3, RetrySettles
<1>5. CASE ~MayRetry(refused)
  <2>1. Again /\ UNCHANGED <<retries, pos, httpreq, hops>> /\ refused' \in BOOLEAN
    BY <1>1, <1>5 DEF Retry
  <2>2. state' = "connect"
    BY <2>1 DEF Again
  <2>3. CASE k.received
    <3>1. dropped' = [responses |-> dropped.responses + 1, body |-> response.body]
      BY <2>2, <2>3 DEF Downgrade
    <3> QED  BY <1>1, <1>2, <1>3, <2>1, <3>1 DEF Settles, Paid
  <2>4. CASE ~k.received
    <3>1. ~conn.reuse /\ UNCHANGED dropped
      BY <1>5, <2>4 DEF MayRetry, Downgrade
    <3>2. h2ok /\ ~h2ok'
      BY <1>1, <2>2, <3>1
    <3> QED  BY <1>1, <1>2, <1>3, <2>1, <2>4, <3>1, <3>2 DEF Settles, Paid
  <2> QED  BY <2>3, <2>4
<1> QED  BY <1>4, <1>5

\* The steps that end a request.
EndSteps == Done \/ RecvError \/ RefusedStream \/ StreamError \/ Downgrade \/ Timeout

LEMMA EndSettles ==
    ASSUME TypeInv, conn.h2 => h2ok \/ conn.reuse, EndSteps
    PROVE  Settles
<1>0. /\ h2ok \in BOOLEAN /\ refused \in BOOLEAN /\ "" \in Codes \ {"OK"}
      /\ retries \in 0..MaxRetries /\ pos \in 0..BodySize /\ hops \in Nat
      /\ httpreq \in {"GET", "POST", "PUT"}
  BY DEF TypeInv, Codes
<1>1. ASSUME NEW code \in Codes \ {""}, Finish(code), code = "OK" => ~k.newurl,
             state # "completed", refused' \in BOOLEAN,
             UNCHANGED <<context, httpreq, pos, response, h2ok, noExpect, hops, retries,
                         requests, dropped>>
      PROVE  Settles
  BY <1>0, <1>1 DEF Settles, Ends
<1>2. CASE Done
  <2>1. /\ state = "perform" /\ UNCHANGED <<context, response, h2ok, noExpect, requests, dropped>>
    BY <1>2 DEF Done
  <2>2. CASE Finish("PARTIAL_FILE") /\ UNCHANGED <<retries, pos, httpreq, hops, refused>>
    BY <1>0, <1>1, <2>1, <2>2 DEF Codes
  <2>3. CASE Retry(refused, "", IF k.newurl THEN Follow
                 ELSE Finish(FinalCode) /\ UNCHANGED <<retries, pos, httpreq, hops>>)
    <3>1. refused' \in BOOLEAN
      BY <2>3 DEF Retry
    <3>2. CASE MayRetry(refused)
      <4>1. Retry(refused, "", TRUE)
        BY <2>3, <3>2 DEF Retry
      <4> QED  BY <1>0, <2>1, <3>2, <4>1, RetrySettles
    <3>3. CASE ~MayRetry(refused) /\ ~k.newurl
      <4>1. FinalCode \in Codes \ {""}
        BY DEF FinalCode, Codes
      <4>2. Finish(FinalCode) /\ UNCHANGED <<retries, pos, httpreq, hops>>
        BY <2>3, <3>3 DEF Retry
      <4> QED  BY <1>1, <2>1, <3>1, <3>3, <4>1, <4>2
    <3>4. CASE ~MayRetry(refused) /\ k.newurl
      <4>0. Follow
        BY <2>3, <3>4 DEF Retry
      <4>1. CASE TooMany
        BY <1>1, <2>1, <3>1, <4>0, <4>1 DEF Follow, Codes
      <4>2. CASE ~TooMany
        <5>1. /\ Again /\ hops' = hops + 1 /\ UNCHANGED <<pos, retries>>
              /\ httpreq' = "GET" \/ httpreq' = httpreq
          BY <4>0, <4>2 DEF Follow
        <5>2. hops' \in Nat
          <6>1. hops' = hops + 1
            BY <5>1
          <6>2. hops \in Nat
            BY <1>0
          <6> QED  BY <6>1, <6>2
        <5> QED  BY <1>0, <2>1, <3>1, <3>4, <4>2, <5>1, <5>2 DEF Settles, Paid
      <4> QED  BY <4>1, <4>2
    <3> QED  BY <3>2, <3>3, <3>4
  <2> QED  BY <1>2, <2>2, <2>3 DEF Done
<1>3. ASSUME NEW refusal \in BOOLEAN, EndsInRecvError(refusal), state # "completed"
      PROVE  Settles
  <2>1. /\ UNCHANGED <<context, response, h2ok, noExpect, requests, dropped>>
        /\ Retry(refusal, "RECV_ERROR",
                 Finish("RECV_ERROR") /\ UNCHANGED <<retries, pos, httpreq, hops>>)
    BY <1>3 DEF EndsInRecvError
  <2>2. refused' \in BOOLEAN /\ "RECV_ERROR" \in Codes \ {"", "OK"}
    BY <2>1 DEF Retry, Codes
  <2>3. CASE MayRetry(refusal)
    <3>1. Retry(refusal, "RECV_ERROR", TRUE)
      BY <2>1, <2>3 DEF Retry
    <3> QED  BY <1>0, <1>3, <2>1, <2>2, <2>3, <3>1, RetrySettles
  <2>4. CASE ~MayRetry(refusal)
    <3>1. Finish("RECV_ERROR") /\ UNCHANGED <<retries, pos, httpreq, hops>>
      BY <2>1, <2>4 DEF Retry
    <3> QED  BY <1>1, <1>3, <2>1, <2>2, <3>1
  <2> QED  BY <2>3, <2>4
<1>4. CASE RecvError \/ RefusedStream
  BY <1>0, <1>3, <1>4 DEF RecvError, RefusedStream, StreamReset, Reading
<1>5. CASE StreamError \/ Timeout
  <2>1. /\ state # "completed" /\ (Finish("HTTP2_STREAM") \/ Finish("OPERATION_TIMEDOUT"))
        /\ UNCHANGED <<context, httpreq, pos, response, h2ok, noExpect, hops, retries, requests,
                       refused, dropped>>
    BY <1>5 DEF StreamError, Timeout, StreamReset
  <2> QED  BY <1>0, <1>1, <1>5, <2>1 DEF Codes
<1> QED  BY <1>2, <1>4, <1>5, DowngradeSettles DEF EndSteps

LEMMA TypeNext ==
    ASSUME TypeInv, conn.h2 => h2ok \/ conn.reuse, [Next]_tvars
    PROVE  TypeInv'
<1>1. CASE UNCHANGED tvars
  BY <1>1 DEF TypeInv, tvars
<1> QED  BY <1>1, TypeSend, TypeReceive, EndSettles, TypeSettles DEF Next, Completed, EndSteps

-----------------------------------------------------------------------------
(***************************************************************************)
(* The number of requests                                                  *)
(*                                                                         *)
(* RequestsBounded says nothing of the request that is about to be sent,   *)
(* so it is not inductive.  In BoundInv every request that was sent has    *)
(* been paid for by a redirect, a retry, the fall-back to HTTP/1.1 or a    *)
(* response given up, except the one that is under way.  It must also say  *)
(* that a connection which is HTTP/2 after the fall-back was one of the    *)
(* cache: a reset of it before an answer is paid for as a retry.           *)
(***************************************************************************)

FallBack == IF h2ok THEN 0 ELSE 1
UnderWay == IF state = "connect" THEN 0 ELSE 1

BoundInv ==
    /\ conn.h2 => h2ok \/ conn.reuse
    /\ context.maxRedirects # -1 => hops <= context.maxRedirects
    /\ state # "completed" =>
          requests <= hops + retries + FallBack + dropped.responses + UnderWay
    /\ state = "completed" =>
          requests <= 1 + hops + MaxRetries + FallBack + dropped.responses

\* The types of what BoundInv counts.
LEMMA BoundTypes ==
    ASSUME TypeInv
    PROVE  /\ hops \in Nat /\ retries \in 0..MaxRetries /\ requests \in Nat
           /\ context.maxRedirects \in Nat \cup {-1} /\ dropped.responses \in Nat
           /\ h2ok \in BOOLEAN /\ state \in {"connect", "perform", "completed"}
<1>1. /\ hops \in Nat /\ retries \in 0..MaxRetries /\ requests \in 0..MaxRequests
      /\ context.maxRedirects \in Redirects /\ h2ok \in BOOLEAN /\ dropped.responses \in Nat
      /\ state \in {"connect", "perform", "completed"}
  BY DEF TypeInv
<1>2. requests \in Nat
  BY <1>1, LimitAssumption
<1>3. context.maxRedirects \in Nat \cup {-1}
  BY <1>1, LimitAssumption
<1> QED  BY <1>1, <1>2, <1>3

LEMMA BoundInit == Init => BoundInv
<1> SUFFICES ASSUME Init PROVE BoundInv
  OBVIOUS
<1>1. /\ hops = 0 /\ requests = 0 /\ retries = 0 /\ h2ok = TRUE /\ state = "connect"
      /\ conn = NoConnection /\ dropped.responses = 0
  BY DEF Init
<1>2. context.maxRedirects \in Nat \cup {-1}
  BY TypeInit, BoundTypes
<1> QED  BY <1>1, <1>2 DEF BoundInv, FallBack, UnderWay, NoConnection

LEMMA BoundNext ==
    ASSUME TypeInv, BoundInv, [Next]_tvars
    PROVE  BoundInv'
<1>0. /\ hops \in Nat /\ retries \in 0..MaxRetries /\ requests \in Nat
      /\ context.maxRedirects \in Nat \cup {-1} /\ dropped.responses \in Nat
      /\ h2ok \in BOOLEAN /\ state \in {"connect", "perform", "completed"}
  BY BoundTypes
<1>1. CASE Connect
  <2>1. conn'.h2 => h2ok \/ conn'.reuse
    <3>1. PICK reuse \in BOOLEAN : \E h2 \in {FALSE, h2ok \/ reuse} :
             conn' = [reuse |-> reuse, close |-> FALSE, h2 |-> h2]
      BY <1>1 DEF Connect
    <3>2. PICK h2 \in {FALSE, h2ok \/ reuse} :
             conn' = [reuse |-> reuse, close |-> FALSE, h2 |-> h2]
      BY <3>1
    <3>3. conn'.h2 = h2 /\ conn'.reuse = reuse
      BY <3>2
    <3>4. h2 = FALSE \/ h2 = (h2ok \/ reuse)
      BY <3>2
    <3> QED  BY <3>3, <3>4, Zenon
  <2>2. /\ state = "connect" /\ state' = "perform" /\ requests' = requests + 1
        /\ UNCHANGED <<context, h2ok, hops, retries, dropped>>
    BY <1>1 DEF Connect
  <2>3. FallBack' = FallBack /\ FallBack \in Nat
    BY <2>2 DEF FallBack
  <2>4. /\ UnderWay = 0 /\ UnderWay' = 1
        /\ requests <= hops + retries + FallBack + dropped.responses + UnderWay
    BY <2>2 DEF BoundInv, UnderWay
  <2>5. requests' <= hops + retries + FallBack' + dropped.responses + UnderWay'
    BY <1>0, <2>2, <2>3, <2>4
  <2> QED  BY <2>1, <2>2, <2>5 DEF BoundInv
<1>2. CASE /\ UNCHANGED <<context, state, h2ok, hops, retries, requests, dropped>>
           /\ conn'.h2 = conn.h2 /\ conn'.reuse = conn.reuse
  BY <1>2 DEF BoundInv, FallBack, UnderWay
<1>3. CASE Settles
  <2>1. conn'.h2 = FALSE
    <3>1. conn' = NoConnection
      BY <1>3 DEF Settles, Ends, Finish, Again
    <3> QED  BY <3>1 DEF NoConnection
  <2>2. UNCHANGED <<context, requests>> /\ h2ok' \in BOOLEAN /\ (h2ok' => h2ok) /\ state # "completed"
    BY <1>3 DEF Settles
  <2>3. requests <= 1 + hops + retries + FallBack + dropped.responses
    BY <1>0, <2>2 DEF BoundInv, UnderWay, FallBack
  <2>4. CASE Ends /\ UNCHANGED <<hops, dropped>>
    <3>1. state' = "completed" /\ UNCHANGED <<hops, dropped>>
      BY <2>4 DEF Ends, Finish
    <3> QED  BY <1>0, <2>1, <2>2, <2>3, <3>1, LimitAssumption DEF BoundInv, FallBack
  <2>5. CASE Again /\ Paid
    <3>1. state' = "connect"
      BY <2>5 DEF Again
    <3>2. \/ hops' = hops + 1 /\ ~TooMany /\ UNCHANGED <<retries, dropped>>
          \/ retries' = retries + 1 /\ UNCHANGED <<hops, dropped>>
          \/ h2ok /\ ~h2ok' /\ UNCHANGED <<retries, hops, dropped>>
          \/ dropped'.responses = dropped.responses + 1 /\ UNCHANGED <<retries, hops>>
      BY <2>5 DEF Paid
    <3>3. /\ hops' \in Nat /\ retries' \in Nat /\ dropped'.responses \in Nat
          /\ requests <= hops' + retries' + FallBack' + dropped'.responses
      BY <1>0, <2>2, <2>3, <3>2 DEF FallBack
    <3>4. context.maxRedirects # -1 => hops' <= context.maxRedirects
      BY <1>0, <3>2 DEF TooMany, BoundInv
    <3>5. UnderWay' = 0 /\ FallBack' \in Nat
      BY <3>1 DEF UnderWay, FallBack
    <3>6. requests' <= hops' + retries' + FallBack' + dropped'.responses + UnderWay'
      BY <2>2, <3>3, <3>5
    <3> QED  BY <2>1, <2>2, <3>1, <3>4, <3>6 DEF BoundInv
  <2> QED  BY <1>3, <2>4, <2>5 DEF Settles
<1>4. CASE ConnectFails \/ SendError \/ WriteError \/ (ReceiveHeader /\ Finish("SEND_FAIL_REWIND"))
  <2>1. PICK code : Finish(code)
    BY <1>4 DEF ConnectFails, SendError, WriteError
  <2>2. UNCHANGED <<context, h2ok, hops, requests, retries, dropped>> /\ state # "completed"
    BY <1>4 DEF ConnectFails, SendError, WriteError, ReceiveHeader, Reading
  <2>3. state' = "completed" /\ conn'.h2 = FALSE
    BY <2>1 DEF Finish, NoConnection
  <2> QED  BY <1>0, <2>2, <2>3, LimitAssumption DEF BoundInv, FallBack, UnderWay
<1>5. CASE Upload \/ Expect100Timeout \/ ReceiveStatus \/ EndOfInterim \/ ReceiveBody \/ ServerCloses
  BY <1>2, <1>5 DEF Upload, Expect100Timeout, ReceiveStatus, EndOfInterim, ReceiveBody, ServerCloses
<1>6. CASE ReceiveHeader /\ ~Finish("SEND_FAIL_REWIND")
  <2>1. UNCHANGED <<context, state, h2ok, hops, retries, requests, dropped>>
    BY <1>6 DEF ReceiveHeader
  <2>2. conn' = StreamClose(conn) \/ conn' = conn
    BY <1>6 DEF ReceiveHeader, PerhapsRewind
  <2>3. conn'.h2 = conn.h2 /\ conn'.reuse = conn.reuse
    BY <2>2, StreamCloseType DEF TypeInv
  <2> QED  BY <1>2, <2>1, <2>3
<1>7. CASE EndOfHeaders
  <2>1. PICK asked \in BOOLEAN :
           LET c == [conn EXCEPT !.close = @ \/ asked] IN conn' = StreamClose(c) \/ conn' = c
    BY <1>7 DEF EndOfHeaders
  <2>2. /\ [conn EXCEPT !.close = @ \/ asked] \in ConnType
        /\ [conn EXCEPT !.close = @ \/ asked].h2 = conn.h2
        /\ [conn EXCEPT !.close = @ \/ asked].reuse = conn.reuse
    BY DEF TypeInv, ConnType
  <2>3. conn'.h2 = conn.h2 /\ conn'.reuse = conn.reuse
    BY <2>1, <2>2, StreamCloseType
  <2>4. UNCHANGED <<context, state, h2ok, hops, retries, requests, dropped>>
    BY <1>7 DEF EndOfHeaders
  <2> QED  BY <1>2, <2>3, <2>4
<1>8. CASE EndSteps
  BY <1>3, <1>8, EndSettles DEF BoundInv
<1>9. CASE UNCHANGED tvars
  BY <1>2, <1>9 DEF tvars
<1> QED
  BY <1>1, <1>4, <1>5, <1>6, <1>7, <1>8, <1>9 DEF Next, Completed, EndSteps

\* The variables of Transfer keep their types, and a transfer has a result
\* exactly when it is completed.
THEOREM TypeCorrect == Spec => []TypeOK
<1>1. TypeInv => TypeOK
  BY DEF TypeInv, TypeOK, KType, ConnType, Kinds, HttpReq
<1>2. BoundInv => (conn.h2 => h2ok \/ conn.reuse)
  BY DEF BoundInv
<1>3. TypeInv /\ BoundInv /\ [Next]_tvars => (TypeInv /\ BoundInv)'
  BY <1>2, TypeNext, BoundNext
<1> QED  BY <1>1, <1>3, TypeInit, BoundInit, PTL DEF Spec

\* No more redirects are followed than the plugin allowed, and no more requests
\* are sent than the redirects, CONN_MAX_RETRIES retries, one fall-back and the
\* responses given up for HTTP/1.1 account for.
THEOREM RequestBound == Spec => []RequestsBounded
<1>1. TypeInv /\ BoundInv => RequestsBounded
  BY BoundTypes, LimitAssumption DEF BoundInv, RequestsBounded, FallBack, UnderWay
<1>2. BoundInv => (conn.h2 => h2ok \/ conn.reuse)
  BY DEF BoundInv
<1>3. TypeInv /\ BoundInv /\ [Next]_tvars => (TypeInv /\ BoundInv)'
  BY <1>2, TypeNext, BoundNext
<1> QED  BY <1>1, <1>3, TypeInit, BoundInit, PTL DEF Spec

-----------------------------------------------------------------------------
(***************************************************************************)
(* The request body                                                        *)
(*                                                                         *)
(* As long as no redirect has been met, the bytes a request has sent and   *)
(* those that wait in cURL's buffer end at the position of the read        *)
(* callback, wherever the request started.                                 *)
(***************************************************************************)

Read == k.sent \o k.present

PieceInv ==
    state = "perform" /\ ~k.location =>
        /\ Len(Read) <= pos
        /\ \A i \in 1..Len(Read) : Read[i] = (pos - Len(Read)) + i

\* A buffer that is sent in part is neither reordered nor lost.
LEMMA SplitBuffer ==
    ASSUME NEW s \in Seq(Nat), NEW b \in Seq(Nat), NEW n \in 0..Len(b)
    PROVE  (s \o SubSeq(b, 1, n)) \o SubSeq(b, n + 1, Len(b)) = s \o b
<1> DEFINE x == SubSeq(b, 1, n)
           y == SubSeq(b, n + 1, Len(b))
<1>1. x \in Seq(Nat) /\ y \in Seq(Nat)
  OBVIOUS
<1>2. x \o y = b
  <2>1. Len(b) \in Nat /\ 1 \in 1..(Len(b) + 1) /\ n \in (1 - 1)..Len(b) /\ Len(b) \in n..Len(b)
    BY LenProperties
  <2> QED  BY <2>1, ConcatAdjacentSubSeq, SubSeqFull
<1> HIDE DEF x, y
<1>3. (s \o x) \o y = s \o (x \o y)
  BY <1>1, ConcatAssociative
<1> QED  BY <1>2, <1>3 DEF x, y

LEMMA PieceUpload ==
    ASSUME TypeInv, PieceInv, Upload
    PROVE  PieceInv'
<1> DEFINE read == IF k.present = <<>> /\ ~k.uploadDone THEN ReadRequestBody(BufferSize)
                   ELSE [bytes |-> k.present, pos |-> pos]
<1>1. PICK n \in 0..Len(read.bytes) :
         /\ pos' = read.pos
         /\ k'.sent = k.sent \o SubSeq(read.bytes, 1, n)
         /\ k'.present = SubSeq(read.bytes, n + 1, Len(read.bytes))
         /\ k'.location = k.location
  BY DEF Upload, TypeInv, KType
<1>2. k.sent \in Seq(Nat) /\ k.present \in Seq(Nat) /\ pos \in 0..BodySize /\ BufferSize \in Nat
  BY SizeAssumption DEF TypeInv, KType
<1>3. state = "perform" /\ UNCHANGED state
  BY DEF Upload
<1> SUFFICES ASSUME ~k.location
             PROVE  /\ Len(Read') <= pos'
                    /\ \A i \in 1..Len(Read') : Read'[i] = (pos' - Len(Read')) + i
  BY <1>1, <1>3 DEF PieceInv
<1>4. /\ Len(Read) <= pos
      /\ \A i \in 1..Len(Read) : Read[i] = (pos - Len(Read)) + i
  BY <1>3 DEF PieceInv
<1>5. CASE k.present = <<>> /\ ~k.uploadDone
  <2> DEFINE b == ReadRequestBody(BufferSize).bytes
             p == ReadRequestBody(BufferSize).pos
  <2>1. read.bytes = b /\ read.pos = p
    BY <1>5
  <2>2. /\ p \in pos..BodySize /\ b \in Seq(Nat) /\ Len(b) = p - pos
        /\ \A i \in 1..Len(b) : b[i] = pos + i
    BY <1>2, ReadType
  <2> HIDE DEF b, p, read
  <2>3. Read' = k.sent \o b /\ pos' = p
    <3>1. (k.sent \o SubSeq(b, 1, n)) \o SubSeq(b, n + 1, Len(b)) = k.sent \o b
      BY <1>1, <1>2, <2>1, <2>2, SplitBuffer
    <3> QED  BY <1>1, <2>1, <3>1 DEF Read
  <2>4. Read = k.sent
    BY <1>2, <1>5 DEF Read
  <2>5. Len(Read') = Len(k.sent) + (p - pos)
    <3>1. Len(k.sent \o b) = Len(k.sent) + Len(b)
      BY <1>2, <2>2, ConcatProperties
    <3> QED  BY <2>2, <2>3, <3>1
  <2>6. ASSUME NEW i \in 1..Len(Read') PROVE Read'[i] = (pos' - Len(Read')) + i
    <3>0. /\ pos' - Len(Read') = pos - Len(k.sent)
          /\ pos \in Nat /\ Len(k.sent) \in Nat /\ i \in Nat
      <4>1. pos' = p /\ p \in Nat /\ pos \in Nat /\ Len(k.sent) \in Nat
        BY <1>2, <2>2, <2>3, SizeAssumption
      <4>2. Len(Read') \in Nat
        BY <2>5, <4>1, <2>2
      <4> QED  BY <2>5, <4>1, <4>2
    <3>1. i \in 1..(Len(k.sent) + Len(b)) /\ Len(k.sent) \in Nat
      BY <1>2, <2>2, <2>5
    <3>2. CASE i <= Len(k.sent)
      <4>1. Read'[i] = k.sent[i] /\ i \in 1..Len(k.sent)
        BY <1>2, <2>2, <2>3, <3>1, <3>2
      <4>2. k.sent[i] = (pos - Len(k.sent)) + i
        BY <1>4, <2>4, <4>1
      <4> QED  BY <3>0, <4>1, <4>2
    <3>3. CASE i > Len(k.sent)
      <4>1. Read'[i] = b[i - Len(k.sent)] /\ i - Len(k.sent) \in 1..Len(b)
        BY <1>2, <2>2, <2>3, <3>1, <3>3
      <4>2. b[i - Len(k.sent)] = pos + (i - Len(k.sent))
        BY <2>2, <4>1
      <4>3. pos + (i - Len(k.sent)) = (pos - Len(k.sent)) + i
        BY <3>0
      <4>4. Read'[i] = (pos - Len(k.sent)) + i
        BY <4>1, <4>2, <4>3
      <4> QED  BY <3>0, <4>4
    <3> QED  BY <3>1, <3>2, <3>3
  <2>7. Len(Read') <= pos'
    BY <1>2, <1>4, <2>2, <2>3, <2>4, <2>5
  <2> QED  BY <2>6, <2>7
<1>6. CASE ~(k.present = <<>> /\ ~k.uploadDone)
  <2>1. read.bytes = k.present /\ read.pos = pos
    BY <1>6
  <2> HIDE DEF read
  <2>2. Read' = Read /\ pos' = pos
    <3>1. (k.sent \o SubSeq(k.present, 1, n)) \o SubSeq(k.present, n + 1, Len(k.present))
             = k.sent \o k.present
      BY <1>1, <1>2, <2>1, SplitBuffer
    <3> QED  BY <1>1, <2>1, <3>1 DEF Read
  <2> QED  BY <1>4, <2>2
<1> QED  BY <1>5, <1>6

LEMMA PieceNext ==
    ASSUME TypeInv, BoundInv, PieceInv, [Next]_tvars
    PROVE  PieceInv'
<1>0. k \in KType
  BY DEF TypeInv
<1>1. CASE UNCHANGED <<state, pos>> /\ k'.sent = k.sent /\ k'.present = k.present
           /\ k'.location = k.location
  BY <1>1 DEF PieceInv, Read
<1>2. CASE state' # "perform" \/ k'.location
  BY <1>2 DEF PieceInv
<1>3. CASE Connect
  <2>1. k'.sent = <<>> /\ k'.present = <<>>
    BY <1>3 DEF Connect, SingleRequest
  <2>2. pos' \in Nat
    <3>1. pos \in 0..BodySize /\ (pos' = 0 \/ pos' = pos)
      BY <1>3 DEF Connect, TypeInv
    <3> QED  BY <3>1
  <2>3. Read' = <<>>
    BY <2>1 DEF Read
  <2> QED  BY <2>2, <2>3 DEF PieceInv
<1>4. CASE ConnectFails \/ SendError \/ WriteError
  <2>1. state' = "completed"
    BY <1>4 DEF ConnectFails, SendError, WriteError, Finish
  <2> QED  BY <1>2, <2>1
<1>5. CASE Expect100Timeout \/ ReceiveStatus \/ EndOfInterim \/ ReceiveBody \/ ServerCloses \/ EndOfHeaders
  <2>1. UNCHANGED <<state, pos>>
    BY <1>5 DEF Expect100Timeout, ReceiveStatus, EndOfInterim, ReceiveBody, ServerCloses, EndOfHeaders
  <2>2. k'.sent = k.sent /\ k'.present = k.present /\ k'.location = k.location
    <3>1. CASE Expect100Timeout
      BY <1>0, <3>1 DEF Expect100Timeout, KType
    <3>2. CASE ReceiveStatus
      BY <1>0, <3>2 DEF ReceiveStatus, KType
    <3>3. CASE EndOfInterim
      BY <1>0, <3>3 DEF EndOfInterim, KType
    <3>4. CASE ReceiveBody
      <4>1. PICK keepon : k' = [k EXCEPT !.keepon = keepon]
        BY <3>4 DEF ReceiveBody
      <4> QED  BY <1>0, <4>1 DEF KType
    <3>5. CASE ServerCloses
      BY <1>0, <3>5 DEF ServerCloses, KType
    <3>6. CASE EndOfHeaders
      BY <1>0, <3>6, EndOfHeadersK DEF KType
    <3> QED  BY <1>5, <3>1, <3>2, <3>3, <3>4, <3>5, <3>6
  <2> QED  BY <1>1, <2>1, <2>2
<1>6. CASE ReceiveHeader
  <2>1. CASE Finish("SEND_FAIL_REWIND")
    BY <1>2, <2>1 DEF Finish
  <2>2. CASE UNCHANGED <<pos, k, state>>
    BY <1>1, <2>2
  <2>3. CASE PerhapsRewind
    <3>1. k'.location
      BY <1>0, <2>3 DEF PerhapsRewind, KType
    <3> QED  BY <1>2, <3>1
  <2> QED  BY <1>6, <2>1, <2>2, <2>3 DEF ReceiveHeader
<1>7. CASE EndSteps
  <2>1. Settles
    BY <1>7, EndSettles DEF BoundInv
  <2>2. state' # "perform"
    BY <2>1 DEF Settles, Ends, Finish, Again
  <2> QED  BY <1>2, <2>2
<1>8. CASE UNCHANGED tvars
  BY <1>1, <1>8 DEF tvars
<1> QED
  BY <1>3, <1>4, <1>5, <1>6, <1>7, <1>8, PieceUpload DEF Next, Completed, EndSteps

\* A piece of the body is what SubSeq takes from it.
LEMMA PieceIsSubSeq ==
    ASSUME NEW r \in Seq(Nat), NEW p \in 0..BodySize, Len(r) <= p,
           \A i \in 1..Len(r) : r[i] = (p - Len(r)) + i
    PROVE  r = SubSeq(Body, p - Len(r) + 1, p)
<1> DEFINE l == Len(r)
           m == p - l + 1
           t == SubSeq(Body, m, p)
<1>1. l \in Nat /\ p \in Nat /\ p <= BodySize /\ BodySize \in Nat /\ l <= p
  BY LenProperties, SizeAssumption
<1>2. \A i \in 1..l : r[i] = (p - l) + i
  OBVIOUS
<1> HIDE DEF l
<1>3. m \in Int /\ p \in Int /\ m >= 1 /\ m <= p + 1 /\ (p - m) + 1 = l
  BY <1>1
<1>4. \A i \in m..p : Body[i] \in Nat /\ Body[i] = i
  <2>1. \A i \in m..p : i \in 1..BodySize
    BY <1>1, <1>3
  <2> QED  BY <2>1, BodyType
<1> HIDE DEF m
<1>5. /\ t \in Seq(Nat) /\ Len(t) = IF m <= p THEN (p - m) + 1 ELSE 0
      /\ \A i \in 1..((p - m) + 1) : t[i] = Body[(m + i) - 1]
  BY <1>3, <1>4, SubSeqProperties
<1> HIDE DEF t
<1>6. Len(t) = l
  BY <1>1, <1>3, <1>5
<1>7. ASSUME NEW i \in 1..l PROVE r[i] = t[i]
  <2>1. (m + i) - 1 \in m..p /\ (m + i) - 1 = (p - l) + i
    BY <1>1, <1>3
  <2>2. t[i] = Body[(m + i) - 1]
    BY <1>3, <1>5
  <2>3. Body[(m + i) - 1] = (m + i) - 1
    BY <1>4, <2>1
  <2> QED  BY <1>2, <2>1, <2>2, <2>3
<1>8. r = t
  BY <1>5, <1>6, <1>7, SeqEqual DEF l
<1> QED  BY <1>8 DEF t, m, l

\* As many bytes as the body has are the body.
LEMMA AllIsBody ==
    ASSUME NEW s \in Seq(Nat), NEW t \in Seq(Nat), NEW p \in 0..BodySize,
           Len(s \o t) <= p, Len(s) = BodySize,
           \A i \in 1..Len(s \o t) : (s \o t)[i] = (p - Len(s \o t)) + i
    PROVE  s = Body
<1>1. /\ Len(s \o t) = Len(s) + Len(t) /\ Len(t) \in Nat
      /\ \A i \in 1..(Len(s) + Len(t)) :
            (s \o t)[i] = IF i <= Len(s) THEN s[i] ELSE t[i - Len(s)]
  BY ConcatProperties, LenProperties
<1>2. Len(s \o t) = BodySize /\ p = BodySize
  BY <1>1, SizeAssumption
<1>3. ASSUME NEW i \in 1..BodySize PROVE s[i] = Body[i]
  <2>1. (s \o t)[i] = s[i]
    BY <1>1, SizeAssumption
  <2>2. (s \o t)[i] = i
    BY <1>2, SizeAssumption
  <2> QED  BY <2>1, <2>2, BodyType
<1> QED  BY <1>3, BodyType, SeqEqual

LEMMA PieceOfBody ==
    ASSUME TypeInv, PieceInv
    PROVE  BodyInOrder
<1> SUFFICES ASSUME state = "perform", ~k.location
             PROVE  /\ Len(Read) <= pos /\ Read = SubSeq(Body, pos - Len(Read) + 1, pos)
                    /\ Len(k.sent) = BodySize => k.sent = Body
  BY DEF BodyInOrder, Read
<1>1. k.sent \in Seq(Nat) /\ k.present \in Seq(Nat) /\ pos \in 0..BodySize
  BY DEF TypeInv, KType
<1>2. /\ Len(Read) <= pos
      /\ \A i \in 1..Len(Read) : Read[i] = (pos - Len(Read)) + i
  BY DEF PieceInv
<1>3. Read \in Seq(Nat)
  BY <1>1, ConcatProperties DEF Read
<1>4. Read = SubSeq(Body, pos - Len(Read) + 1, pos)
  BY <1>1, <1>2, <1>3, PieceIsSubSeq
<1>5. Len(k.sent) = BodySize => k.sent = Body
  BY <1>1, <1>2, AllIsBody DEF Read
<1> QED  BY <1>2, <1>4, <1>5

\* The bytes of a request's body are sent in order and without a gap, however
\* the reads and the writes are cut and however often cURL starts again.
THEOREM BodyOrder == Spec => []BodyInOrder
<1>1. Init => PieceInv
  BY DEF Init, PieceInv
<1>2. BoundInv => (conn.h2 => h2ok \/ conn.reuse)
  BY DEF BoundInv
<1>3. TypeInv /\ BoundInv /\ PieceInv /\ [Next]_tvars => (TypeInv /\ BoundInv /\ PieceInv)'
  BY <1>2, TypeNext, BoundNext, PieceNext
<1>4. TypeInv /\ PieceInv => BodyInOrder
  BY PieceOfBody
<1> QED  BY <1>1, <1>3, <1>4, TypeInit, BoundInit, PTL DEF Spec

-----------------------------------------------------------------------------
(***************************************************************************)
(* What the callbacks stored                                               *)
(*                                                                         *)
(* BodyWhole is not inductive: nothing in it says that a request which is  *)
(* sent again has left no byte of a body behind.  StoredInv says when      *)
(* nothing of the last response is stored: until its headers have ended,   *)
(* and for good when another one follows it.  Only such a request is ever  *)
(* sent again, because a retry needs that nothing was received and a       *)
(* redirect that its body was ignored, except by the fall-back to          *)
(* HTTP/1.1, which dropped records.                                        *)
(***************************************************************************)

Chunk == Nat \X Nat
Line == [name : Names, form : Forms, value : Nat \X BOOLEAN \X Nat]

StoreType ==
    /\ given \in [lines : Seq(Line), chunks : Seq(Chunk)]
    /\ response.body \in Seq(Chunk)
    /\ response = [body |-> response.body, headers |-> response.headers]
    /\ dropped.body \in Seq(Chunk)

StoredInv ==
    /\ state # "completed" =>
          /\ response.body = IF k.header \/ k.newurl \/ ~StoresBody THEN dropped.body
                             ELSE dropped.body \o given.chunks
          /\ k.header => given.chunks = <<>>
          /\ ~k.header \/ k.status # 0 => k.received
          /\ state = "connect" => k.header
    /\ BodyWhole

\* The steps that neither end a request nor store anything.
Keeps ==
    /\ UNCHANGED <<context, state, result, response, given, dropped>>
    /\ k'.newurl = k.newurl /\ k'.header = k.header /\ k'.received = k.received
    /\ k'.status \in {k.status, 0}

LEMMA KeepsSteps ==
    ASSUME TypeInv, Upload \/ Expect100Timeout \/ EndOfInterim \/ ServerCloses
    PROVE  Keeps
<1>0. k \in KType
  BY DEF TypeInv
<1>1. UNCHANGED <<context, state, result, response, given, dropped>>
  BY DEF Upload, Expect100Timeout, EndOfInterim, ServerCloses
<1>2. CASE Upload
  <2> DEFINE read == IF k.present = <<>> /\ ~k.uploadDone THEN ReadRequestBody(BufferSize)
                     ELSE [bytes |-> k.present, pos |-> pos]
             sent(n) == k.sent \o SubSeq(read.bytes, 1, n)
             rest(n) == SubSeq(read.bytes, n + 1, Len(read.bytes))
             all(n) == k.uploadDone \/ Len(sent(n)) = BodySize
             keepon(n) == IF read.bytes = <<>> \/ (rest(n) = <<>> /\ all(n))
                          THEN k.keepon \ {"send"} ELSE k.keepon
  <2>1. PICK n \in 0..Len(read.bytes) :
           k' = [k EXCEPT !.sent = sent(n), !.present = rest(n), !.uploadDone = all(n),
                          !.keepon = keepon(n)]
    BY <1>2 DEF Upload
  <2> HIDE DEF read, sent, rest, all, keepon
  <2> QED  BY <1>0, <1>1, <2>1 DEF Keeps, KType
<1>3. CASE Expect100Timeout
  BY <1>0, <1>1, <1>3 DEF Expect100Timeout, Keeps, KType
<1>4. CASE EndOfInterim
  BY <1>0, <1>1, <1>4 DEF EndOfInterim, Keeps, KType
<1>5. CASE ServerCloses
  BY <1>0, <1>1, <1>5 DEF ServerCloses, Keeps, KType
<1> QED  BY <1>2, <1>3, <1>4, <1>5

\* The steps that end the transfer before there is a response to judge.
LEMMA FailSteps ==
    ASSUME ConnectFails \/ SendError \/ WriteError \/ (ReceiveHeader /\ Finish("SEND_FAIL_REWIND"))
    PROVE  /\ \E code \in Codes \ {"", "OK"} : Finish(code)
           /\ UNCHANGED <<context, dropped>> /\ state # "completed"
  BY DEF ConnectFails, SendError, WriteError, ReceiveHeader, Reading, Codes

\* A header line that is stored: what it changes.
LEMMA StoreLine ==
    ASSUME TypeInv, StoreType, ReceiveHeader, state' # "completed"
    PROVE  \E line \in Line :
              /\ given' = [given EXCEPT !.lines = Append(@, line)]
              /\ response' = IF StoresHeaders
                             THEN [response EXCEPT !.headers = ReceiveResponseHeader(line)]
                             ELSE response
              /\ UNCHANGED <<context, state, result, dropped>>
              /\ k'.header = k.header /\ k'.received = k.received /\ k'.status = k.status
              /\ k.header
<1>0. k \in KType
  BY DEF TypeInv
<1>1. PICK line \in Lines :
        /\ IF IsRedirect(line) THEN PerhapsRewind ELSE UNCHANGED <<conn, pos, k>>
        /\ given' = [given EXCEPT !.lines = Append(@, line)]
        /\ response' = IF StoresHeaders
                       THEN [response EXCEPT !.headers = ReceiveResponseHeader(line)]
                       ELSE response
        /\ UNCHANGED <<state, result>>
  BY DEF ReceiveHeader, Finish
<1>2. k.header /\ UNCHANGED <<context, dropped>>
  BY DEF ReceiveHeader, Reading
<1>3. k'.header = k.header /\ k'.received = k.received /\ k'.status = k.status
  BY <1>0, <1>1 DEF PerhapsRewind, KType
<1>4. line \in Line
  <2>1. /\ line.name \in Names /\ line.form \in Forms
        /\ line = [name |-> line.name, form |-> line.form, value |-> line.value]
        /\ line.value = <<requests, k.status < 200, Len(given.lines) + 1>>
    BY <1>1 DEF Lines
  <2>2. requests \in Nat /\ Len(given.lines) + 1 \in Nat
    BY BoundTypes, LenProperties DEF StoreType
  <2>3. (k.status < 200) \in BOOLEAN
    OBVIOUS
  <2> DEFINE interim == k.status < 200
             number == Len(given.lines) + 1
  <2>4. line.value = <<requests, interim, number>>
    BY <2>1
  <2> HIDE DEF interim, number
  <2>5. requests \in Nat /\ interim \in BOOLEAN /\ number \in Nat
    BY <2>2, <2>3 DEF interim, number
  <2>6. line.value \in Nat \X BOOLEAN \X Nat
    BY <2>4, <2>5
  <2> QED  BY <2>1, <2>6 DEF Line
<1> QED  BY <1>1, <1>2, <1>3, <1>4

\* A piece of the body: what it changes.
LEMMA StoreChunk ==
    ASSUME TypeInv, StoreType, ReceiveBody
    PROVE  \E chunk \in Chunk :
              /\ given' = [given EXCEPT !.chunks = Append(@, chunk)]
              /\ response' = IF k.newurl \/ ~StoresBody THEN response
                             ELSE [response EXCEPT !.body = Append(@, chunk)]
              /\ UNCHANGED <<context, state, result, dropped>> /\ state = "perform"
              /\ k'.header = k.header /\ k'.received = k.received /\ k'.newurl = k.newurl
              /\ ~k.header
<1>0. k \in KType
  BY DEF TypeInv
<1> DEFINE chunk == <<requests, Len(given.chunks) + 1>>
<1>1. /\ given' = [given EXCEPT !.chunks = Append(@, chunk)]
      /\ response' = IF k.newurl \/ ~StoresBody THEN response
                     ELSE [response EXCEPT !.body = Append(@, chunk)]
      /\ UNCHANGED <<context, state, result, dropped>> /\ state = "perform" /\ ~k.header
      /\ \E keepon \in SUBSET {"recv", "send"} : k' = [k EXCEPT !.keepon = keepon]
  BY <1>0 DEF ReceiveBody, FirstWrite, WriteResponseBody, Reading, StopSend, KType
<1>2. k'.header = k.header /\ k'.received = k.received /\ k'.newurl = k.newurl
  BY <1>0, <1>1 DEF KType
<1>3. requests \in Nat /\ Len(given.chunks) + 1 \in Nat
  BY BoundTypes, LenProperties DEF StoreType
<1>4. chunk \in Chunk
  BY <1>3 DEF Chunk
<1> HIDE DEF chunk
<1> QED  BY <1>1, <1>2, <1>4

\* What a step that ends a request leaves of what was stored.
LEMMA EndStores ==
    ASSUME Settles
    PROVE  /\ UNCHANGED <<context, response>> /\ state # "completed"
           /\ UNCHANGED given \/ given' = Nothing
           /\ UNCHANGED dropped \/ dropped'.body = response.body
<1>1. UNCHANGED <<context, response>> /\ state # "completed"
  BY DEF Settles
<1>2. UNCHANGED given \/ given' = Nothing
  BY DEF Settles, Ends, Finish, Again
<1>3. UNCHANGED dropped \/ dropped'.body = response.body
  <2>1. UNCHANGED dropped \/ Paid
    BY DEF Settles
  <2> QED  BY <2>1 DEF Paid
<1> QED  BY <1>1, <1>2, <1>3

LEMMA StoreTypeNext ==
    ASSUME TypeInv, BoundInv, StoreType, [Next]_tvars
    PROVE  StoreType'
<1>0. Nothing \in [lines : Seq(Line), chunks : Seq(Chunk)]
  BY DEF Nothing
<1>1. CASE /\ UNCHANGED response /\ (UNCHANGED given \/ given' = Nothing)
           /\ UNCHANGED dropped \/ dropped'.body = response.body
  BY <1>0, <1>1 DEF StoreType
<1>2. CASE Connect \/ ReceiveStatus \/ EndOfHeaders
  BY <1>1, <1>2 DEF Connect, ReceiveStatus, EndOfHeaders
<1>3. CASE Upload \/ Expect100Timeout \/ EndOfInterim \/ ServerCloses
  BY <1>1, <1>3, KeepsSteps DEF Keeps
<1>4. CASE ConnectFails \/ SendError \/ WriteError
  BY <1>1, <1>4 DEF ConnectFails, SendError, WriteError, Finish
<1>5. CASE EndSteps
  BY <1>1, <1>5, EndSettles, EndStores DEF BoundInv
<1>6. CASE ReceiveHeader
  <2>1. CASE state' = "completed"
    <3>1. UNCHANGED <<response, given, dropped>>
      BY <1>6, <2>1 DEF ReceiveHeader, Finish, Reading
    <3> QED  BY <1>1, <3>1
  <2>2. CASE state' # "completed"
    <3>1. PICK line \in Line :
             /\ given' = [given EXCEPT !.lines = Append(@, line)]
             /\ response' = [response EXCEPT !.headers = ReceiveResponseHeader(line)]
                \/ response' = response
             /\ UNCHANGED dropped
      BY <1>6, <2>2, StoreLine
    <3>2. Append(given.lines, line) \in Seq(Line)
      BY AppendProperties DEF StoreType
    <3>3. given' \in [lines : Seq(Line), chunks : Seq(Chunk)]
      BY <3>1, <3>2 DEF StoreType
    <3> HIDE DEF ReceiveResponseHeader
    <3>4. /\ response'.body = response.body
          /\ response' = [body |-> response'.body, headers |-> response'.headers]
      BY <3>1 DEF StoreType
    <3> QED  BY <3>1, <3>3, <3>4 DEF StoreType
  <2> QED  BY <2>1, <2>2
<1>7. CASE ReceiveBody
  <2>1. PICK chunk \in Chunk :
           /\ given' = [given EXCEPT !.chunks = Append(@, chunk)]
           /\ response' = [response EXCEPT !.body = Append(@, chunk)] \/ response' = response
           /\ UNCHANGED dropped
    BY <1>7, StoreChunk
  <2>2. Append(given.chunks, chunk) \in Seq(Chunk) /\ Append(response.body, chunk) \in Seq(Chunk)
    BY AppendProperties DEF StoreType
  <2> QED  BY <2>1, <2>2 DEF StoreType
<1>8. CASE UNCHANGED tvars
  BY <1>1, <1>8 DEF tvars
<1> QED
  BY <1>2, <1>3, <1>4, <1>5, <1>6, <1>7, <1>8 DEF Next, Completed, EndSteps

\* A piece at the end of what was given is one at the end of all.
LEMMA ConcatAppend ==
    ASSUME NEW s \in Seq(Chunk), NEW r \in Seq(Chunk), NEW e \in Chunk
    PROVE  Append(s \o r, e) = s \o Append(r, e)
<1>1. s \o r \in Seq(Chunk) /\ <<e>> \in Seq(Chunk)
  OBVIOUS
<1>2. Append(s \o r, e) = (s \o r) \o <<e>> /\ Append(r, e) = r \o <<e>>
  BY <1>1, AppendIsConcat
<1>3. (s \o r) \o <<e>> = s \o (r \o <<e>>)
  BY <1>1, ConcatAssociative
<1> QED  BY <1>2, <1>3

LEMMA StoredNext ==
    ASSUME TypeInv, BoundInv, StoreType, StoredInv, [Next]_tvars
    PROVE  StoredInv'
<1>0. k \in KType
  BY DEF TypeInv
<1>r. state # "completed" => result = ""
  BY DEF TypeInv
<1>t. /\ dropped.body \in Seq(Chunk) /\ given.chunks \in Seq(Chunk)
      /\ dropped.body \o <<>> = dropped.body
  BY ConcatEmptySeq DEF StoreType
<1>1. CASE Keeps
  BY <1>1 DEF Keeps, StoredInv, BodyWhole, StoresBody
<1>2. ASSUME NEW code \in Codes \ {""}, Finish(code), code = "OK" => ~k.newurl,
             UNCHANGED <<context, response, dropped>>, state # "completed"
      PROVE  StoredInv'
  <2>1. state' = "completed" /\ result' = code /\ given' = given
    BY <1>2 DEF Finish
  <2>2. response.body \in {dropped.body, dropped.body \o given.chunks}
    BY DEF StoredInv, BodyWhole
  <2>3. code = "OK" /\ StoresBody => response.body = dropped.body \o given.chunks
    BY <1>2, <1>t DEF StoredInv
  <2>4. BodyWhole'
    BY <1>2, <2>1, <2>2, <2>3 DEF BodyWhole, StoresBody
  <2> QED  BY <2>1, <2>4 DEF StoredInv
<1>3. CASE Again /\ Paid /\ UNCHANGED <<context, response>> /\ state # "completed"
  <2>1. response.body = dropped'.body
    <3>1. \/ (~k.received \/ k.newurl) /\ UNCHANGED dropped
          \/ dropped'.body = response.body
      BY <1>3 DEF Paid
    <3> QED  BY <1>3, <3>1 DEF StoredInv
  <2>2. k' = SingleRequest /\ given' = Nothing /\ result' = "" /\ state' = "connect"
    BY <1>3, <1>r DEF Again
  <2>3. k'.header /\ k'.status = 0 /\ given'.chunks = <<>>
    BY <2>2 DEF SingleRequest, Nothing
  <2>4. BodyWhole'
    BY <1>3, <2>1, <2>2 DEF BodyWhole
  <2> QED  BY <1>3, <2>1, <2>3, <2>4 DEF StoredInv
<1>4. CASE Connect
  <2>1. /\ k'.header /\ k'.status = 0 /\ state = "connect"
        /\ UNCHANGED <<context, result, response, given, dropped>>
    BY <1>4 DEF Connect, SingleRequest
  <2> QED  BY <2>1 DEF StoredInv, BodyWhole, StoresBody
<1>5. CASE ReceiveStatus
  <2>1. /\ k.header /\ k'.header /\ k'.received /\ given' = Nothing
        /\ state = "perform" /\ UNCHANGED <<context, state, result, response, dropped>>
    BY <1>0, <1>5 DEF ReceiveStatus, Reading, KType
  <2>2. given'.chunks = <<>> /\ given.chunks = <<>>
    BY <2>1 DEF Nothing, StoredInv
  <2> QED  BY <2>1, <2>2 DEF StoredInv, BodyWhole, StoresBody
<1>6. CASE EndOfHeaders
  <2>1. /\ k.header /\ ~k'.header /\ k'.received = k.received
        /\ state = "perform" /\ UNCHANGED <<context, state, result, response, given, dropped>>
    BY <1>0, <1>6, EndOfHeadersK DEF EndOfHeaders, Reading, KType
  <2>2. k.received
    BY <1>6, <2>1 DEF EndOfHeaders, StoredInv
  <2>3. response.body = dropped.body /\ dropped.body \o given.chunks = dropped.body
    BY <1>t, <2>1 DEF StoredInv
  <2> QED  BY <2>1, <2>2, <2>3 DEF StoredInv, BodyWhole, StoresBody
<1>7. CASE ReceiveHeader /\ state' # "completed"
  <2>1. PICK line \in Line :
           /\ given' = [given EXCEPT !.lines = Append(@, line)]
           /\ response' = [response EXCEPT !.headers = ReceiveResponseHeader(line)]
              \/ response' = response
           /\ UNCHANGED <<context, state, result, dropped>> /\ k'.header /\ k.header
           /\ k'.received = k.received /\ k'.status = k.status
    BY <1>7, StoreLine
  <2> HIDE DEF ReceiveResponseHeader
  <2>2. given'.chunks = given.chunks /\ response'.body = response.body
    BY <2>1 DEF StoreType
  <2> QED  BY <2>1, <2>2 DEF StoredInv, BodyWhole, StoresBody
<1>8. CASE ReceiveBody
  <2>1. PICK chunk \in Chunk :
           /\ given' = [given EXCEPT !.chunks = Append(@, chunk)]
           /\ response' = IF k.newurl \/ ~StoresBody THEN response
                          ELSE [response EXCEPT !.body = Append(@, chunk)]
           /\ UNCHANGED <<context, state, result, dropped>> /\ state = "perform"
           /\ k'.header = k.header /\ k'.received = k.received /\ k'.newurl = k.newurl
           /\ ~k.header
    BY <1>8, StoreChunk
  <2>2. response'.body = IF k.newurl \/ ~StoresBody THEN dropped.body
                         ELSE dropped.body \o given'.chunks
    <3>1. given'.chunks = Append(given.chunks, chunk)
      BY <2>1 DEF StoreType
    <3>2. dropped.body \o given'.chunks = Append(dropped.body \o given.chunks, chunk)
      BY <1>t, <2>1, <3>1, ConcatAppend
    <3>3. response'.body = IF k.newurl \/ ~StoresBody THEN response.body
                           ELSE Append(response.body, chunk)
      BY <2>1 DEF StoreType
    <3>4. response.body = IF k.newurl \/ ~StoresBody THEN dropped.body
                          ELSE dropped.body \o given.chunks
      BY <2>1 DEF StoredInv
    <3> QED  BY <3>2, <3>3, <3>4
  <2>4. result' # "OK"
    BY <1>r, <2>1
  <2>5. k.received
    BY <2>1 DEF StoredInv
  <2>6. StoresBody' = StoresBody /\ dropped' = dropped
    BY <2>1 DEF StoresBody
  <2>7. BodyWhole'
    <3>1. response'.body \in {dropped'.body, dropped'.body \o given'.chunks}
      BY <2>2, <2>6
    <3> QED  BY <2>4, <3>1 DEF BodyWhole
  <2>8. response'.body = IF k'.header \/ k'.newurl \/ ~StoresBody' THEN dropped'.body
                         ELSE dropped'.body \o given'.chunks
    BY <2>1, <2>2, <2>6
  <2> QED  BY <2>1, <2>5, <2>7, <2>8 DEF StoredInv
<1>9. CASE ConnectFails \/ SendError \/ WriteError \/ (ReceiveHeader /\ state' = "completed")
  <2>1. ReceiveHeader /\ state' = "completed" => Finish("SEND_FAIL_REWIND") /\ UNCHANGED response
    BY DEF ReceiveHeader, Reading
  <2>2. UNCHANGED response
    BY <1>9, <2>1 DEF ConnectFails, SendError, WriteError
  <2> QED  BY <1>2, <1>9, <2>1, <2>2, FailSteps
<1>10. CASE EndSteps
  <2>1. Settles
    BY <1>10, EndSettles DEF BoundInv
  <2>2. /\ UNCHANGED <<context, response>> /\ state # "completed"
        /\ (Ends /\ UNCHANGED dropped) \/ (Again /\ Paid)
    BY <2>1 DEF Settles
  <2> QED  BY <1>2, <1>3, <2>2 DEF Ends
<1>11. CASE UNCHANGED tvars
  BY <1>11 DEF tvars, StoredInv, BodyWhole, StoresBody
<1> QED
  BY <1>1, <1>4, <1>5, <1>6, <1>7, <1>8, <1>9, <1>10, <1>11, KeepsSteps
  DEF Next, Completed, EndSteps

LEMMA NothingGiven ==
    /\ Nothing \in [lines : Seq(Line), chunks : Seq(Chunk)] /\ <<>> \in Seq(Chunk)
    /\ DOMAIN Nothing.lines = {}
<1>1. <<>> \in Seq(Line) /\ <<>> \in Seq(Chunk)
  OBVIOUS
<1>2. Nothing.lines = <<>>
  BY DEF Nothing
<1> QED  BY <1>1, <1>2 DEF Nothing

LEMMA StoredInit == Init => StoreType /\ StoredInv
<1> SUFFICES ASSUME Init PROVE StoreType /\ StoredInv
  OBVIOUS
<1>1. /\ given = Nothing /\ response = [body |-> <<>>, headers |-> <<>>] /\ k = SingleRequest
      /\ state = "connect" /\ result = "" /\ dropped.body = <<>>
  BY DEF Init
<1>2. StoreType
  <2>1. /\ given \in [lines : Seq(Line), chunks : Seq(Chunk)] /\ response.body \in Seq(Chunk)
        /\ dropped.body \in Seq(Chunk)
    BY <1>1, NothingGiven
  <2>2. response = [body |-> response.body, headers |-> response.headers]
    BY <1>1
  <2> QED  BY <2>1, <2>2 DEF StoreType
<1>3. k.header /\ k.status = 0 /\ given.chunks = <<>> /\ response.body = dropped.body
  BY <1>1 DEF SingleRequest, Nothing
<1>4. BodyWhole
  BY <1>1, <1>3 DEF BodyWhole
<1> QED  BY <1>1, <1>2, <1>3, <1>4 DEF StoredInv

\* The body a plugin or a file gets is the body of the last response and no
\* other, whatever was redirected, retried or sent again without an Expect
\* header before, but for what the responses left that a server broke off to
\* demand HTTP/1.1 (WriteResponseBody).
THEOREM BodyIsWhole == Spec => []BodyWhole
<1>1. BoundInv => (conn.h2 => h2ok \/ conn.reuse)
  BY DEF BoundInv
<1>2. TypeInv /\ BoundInv /\ StoreType /\ StoredInv /\ [Next]_tvars
        => (TypeInv /\ BoundInv /\ StoreType /\ StoredInv)'
  BY <1>1, TypeNext, BoundNext, StoreTypeNext, StoredNext
<1>3. StoredInv => BodyWhole
  BY DEF StoredInv
<1> QED  BY <1>2, <1>3, TypeInit, BoundInit, StoredInit, PTL DEF Spec

-----------------------------------------------------------------------------
(***************************************************************************)
(* The headers                                                             *)
(*                                                                         *)
(* HeadersFresh is inductive: a line that is added either names another    *)
(* header, or replaces the value of its own, or has no ": " and is skipped *)
(* on both sides; every other step keeps the lines and the stored headers, *)
(* or forgets the lines.                                                   *)
(***************************************************************************)

\* What HeadersFresh says of the lines and the headers.
Shows(lines, headers) ==
    \A i \in DOMAIN lines :
        /\ lines[i].form = "regular"
        /\ \A j \in DOMAIN lines :
              j > i /\ Lower[lines[j].name] = Lower[lines[i].name] => lines[j].form = "nospace"
        => /\ Lower[lines[i].name] \in DOMAIN headers
           /\ headers[Lower[lines[i].name]] = lines[i].value

LEMMA FreshIsShows ==
    HeadersFresh <=> (StoresHeaders /\ result \in {"", "OK"} => Shows(given.lines, response.headers))
  BY DEF HeadersFresh, Shows

\* One line more.
LEMMA FreshLine ==
    ASSUME NEW old \in Seq(Line), NEW line \in Line, NEW headers, Shows(old, headers),
           NEW stored,
           stored = IF line.form # "nospace"
                    THEN [m \in DOMAIN headers \cup {Lower[line.name]} |->
                             IF m = Lower[line.name] THEN ValueOf(line) ELSE headers[m]]
                    ELSE headers
    PROVE  Shows(Append(old, line), stored)
<1> DEFINE new == Append(old, line)
           n == Len(old)
<1>1. n \in Nat /\ DOMAIN old = 1..n
  BY LenProperties
<1>2. /\ DOMAIN new = 1..(n + 1) /\ new[n + 1] = line
      /\ \A j \in 1..n : new[j] = old[j]
  BY AppendProperties
<1> SUFFICES ASSUME NEW i \in DOMAIN new, new[i].form = "regular",
                    \A j \in DOMAIN new :
                       j > i /\ Lower[new[j].name] = Lower[new[i].name] => new[j].form = "nospace"
             PROVE  /\ Lower[new[i].name] \in DOMAIN stored
                    /\ stored[Lower[new[i].name]] = new[i].value
  BY DEF Shows
<1> HIDE DEF new, n
<1>3. CASE i = n + 1
  <2>1. new[i] = line /\ line.form = "regular"
    BY <1>2, <1>3
  <2>2. ValueOf(line) = line.value
    BY <2>1 DEF ValueOf
  <2> QED  BY <2>1, <2>2
<1>4. CASE i \in 1..n
  <2>1. new[i] = old[i] /\ i \in DOMAIN old
    BY <1>1, <1>2, <1>4
  <2>2. \A j \in DOMAIN old :
           j > i /\ Lower[old[j].name] = Lower[old[i].name] => old[j].form = "nospace"
    <3>1. \A j \in 1..n : j \in 1..(n + 1)
      BY <1>1
    <3> QED  BY <1>1, <1>2, <2>1, <3>1
  <2>3. Lower[old[i].name] \in DOMAIN headers /\ headers[Lower[old[i].name]] = old[i].value
    BY <2>1, <2>2 DEF Shows
  <2>4. Lower[line.name] = Lower[old[i].name] => line.form = "nospace"
    <3>1. n + 1 \in 1..(n + 1) /\ n + 1 > i
      BY <1>1, <1>4
    <3> QED  BY <1>2, <2>1, <3>1
  <2>5. /\ Lower[old[i].name] \in DOMAIN stored
        /\ stored[Lower[old[i].name]] = headers[Lower[old[i].name]]
    BY <2>3, <2>4
  <2> QED  BY <2>1, <2>3, <2>5
<1> QED  BY <1>1, <1>2, <1>3, <1>4

LEMMA FreshNext ==
    ASSUME TypeInv, BoundInv, StoreType, HeadersFresh, [Next]_tvars
    PROVE  HeadersFresh'
<1>0. state # "completed" => result = ""
  BY DEF TypeInv
<1>1. CASE UNCHANGED <<context, given, response>> /\ (result' = result \/ result = "")
  BY <1>1 DEF HeadersFresh, StoresHeaders
<1>2. CASE given' = Nothing
  BY <1>2, NothingGiven DEF HeadersFresh
<1>3. CASE Connect \/ EndOfHeaders \/ ReceiveBody
  <2>1. UNCHANGED <<context, result>> /\ given'.lines = given.lines /\ response'.headers = response.headers
    <3>1. CASE ReceiveBody
      BY <3>1, StoreChunk DEF StoreType
    <3> QED  BY <1>3, <3>1 DEF Connect, EndOfHeaders
  <2> QED  BY <2>1 DEF HeadersFresh, StoresHeaders
<1>4. CASE Upload \/ Expect100Timeout \/ EndOfInterim \/ ServerCloses
  BY <1>1, <1>4, KeepsSteps DEF Keeps
<1>5. CASE ReceiveStatus
  BY <1>2, <1>5 DEF ReceiveStatus
<1>6. CASE ConnectFails \/ SendError \/ WriteError
  <2>1. state # "completed" /\ UNCHANGED <<context, given, response>>
    BY <1>6 DEF ConnectFails, SendError, WriteError, Finish, Reading
  <2> QED  BY <1>0, <1>1, <2>1
<1>7. CASE EndSteps
  <2>1. Settles
    BY <1>7, EndSettles DEF BoundInv
  <2> QED  BY <1>0, <1>1, <1>2, <2>1, EndStores DEF Settles
<1>8. CASE ReceiveHeader /\ state' = "completed"
  <2>1. state # "completed" /\ UNCHANGED <<context, given, response>>
    BY <1>8 DEF ReceiveHeader, Finish, Reading
  <2> QED  BY <1>0, <1>1, <2>1
<1>9. CASE ReceiveHeader /\ state' # "completed"
  <2>1. UNCHANGED <<context, result>>
    BY <1>9, StoreLine
  <2> SUFFICES ASSUME StoresHeaders, result \in {"", "OK"}
               PROVE  Shows(given'.lines, response'.headers)
    BY <2>1 DEF HeadersFresh, Shows, StoresHeaders
  <2>2. PICK line \in Line :
           /\ given' = [given EXCEPT !.lines = Append(@, line)]
           /\ response' = [response EXCEPT !.headers = ReceiveResponseHeader(line)]
    BY <1>9, StoreLine
  <2>3. given'.lines = Append(given.lines, line) /\ response'.headers = ReceiveResponseHeader(line)
    BY <2>2 DEF StoreType
  <2>4. given.lines \in Seq(Line) /\ Shows(given.lines, response.headers)
    BY FreshIsShows DEF StoreType
  <2> DEFINE stored == ReceiveResponseHeader(line)
  <2>5. stored = IF line.form # "nospace"
                 THEN [m \in DOMAIN response.headers \cup {Lower[line.name]} |->
                          IF m = Lower[line.name] THEN ValueOf(line) ELSE response.headers[m]]
                 ELSE response.headers
    BY DEF ReceiveResponseHeader
  <2> HIDE DEF stored
  <2>6. Shows(Append(given.lines, line), stored)
    BY <2>4, <2>5, FreshLine
  <2> QED  BY <2>3, <2>6 DEF stored
<1>10. CASE UNCHANGED tvars
  BY <1>1, <1>10 DEF tvars
<1> QED
  BY <1>3, <1>4, <1>5, <1>6, <1>7, <1>8, <1>9, <1>10 DEF Next, Completed, EndSteps

\* A header of the last response, asked for in any case, has the value of the
\* last line of that response that names it, and never one an earlier response
\* of the same transfer left (ReceiveResponseHeader).
THEOREM HeadersAreFresh == Spec => []HeadersFresh
<1>1. BoundInv => (conn.h2 => h2ok \/ conn.reuse)
  BY DEF BoundInv
<1>2. TypeInv /\ BoundInv /\ StoreType /\ HeadersFresh /\ [Next]_tvars
        => (TypeInv /\ BoundInv /\ StoreType /\ HeadersFresh)'
  BY <1>1, TypeNext, BoundNext, StoreTypeNext, FreshNext
<1>3. Init => HeadersFresh
  BY NothingGiven DEF Init, HeadersFresh
<1> QED  BY <1>2, <1>3, TypeInit, BoundInit, StoredInit, PTL DEF Spec
=============================================================================
