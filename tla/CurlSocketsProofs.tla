-------------------------- MODULE CurlSocketsProofs --------------------------
(***************************************************************************)
(* Proofs about CurlSockets, for any number of transfers, descriptors and  *)
(* contexts.                                                               *)
(***************************************************************************)
EXTENDS CurlSockets, FiniteSetTheorems, TLAPS

(***************************************************************************)
(* The inductive invariant                                                 *)
(*                                                                         *)
(* None of the invariants the run checks is inductive, because none says   *)
(* what cURL's entries have to do with what the transfers wait for while   *)
(* singlesocket is half done.  The parts below say it.                     *)
(***************************************************************************)

\* What a transfer may wait for.
Waits == UNION {[S -> Actions] : S \in SUBSET Sockets}

TypeInv ==
    /\ TypeOK
    /\ asked \in [Transfers -> Waits]
    /\ want \in Waits

\* How far the run of the current transfer is.  A transfer that is not being
\* run waits for sockets of its connection only.
RunInv ==
    /\ current # NoTransfer => current \in running
    /\ phase = "run" => todo = {} /\ DOMAIN want = {}
    /\ phase = "singlesocket" =>
          /\ current # NoTransfer
          /\ DOMAIN want \subseteq connected[current] \ failed
          /\ todo \subseteq DOMAIN want \cup DOMAIN asked[current]
    /\ \A t \in Transfers \ {current} : DOMAIN asked[t] \subseteq connected[t]

\* The users of an entry are the transfers that wait for the socket, and what
\* they wait for is part of its action.  The current transfer is a user of what
\* singlesocket has looked at because it waits for it now, and of the rest
\* because it waited for it before, unless Curl_multi_closed took the entry.
UsersInv ==
    /\ \A t \in Transfers \ {current}, s \in Sockets :
          /\ t \in sockhash[s].users <=> s \in DOMAIN asked[t]
          /\ s \in DOMAIN asked[t] => asked[t][s] \subseteq sockhash[s].action
    /\ current # NoTransfer => \A s \in Sockets :
          /\ s \in DOMAIN want \ todo => /\ current \in sockhash[s].users
                                         /\ want[s] \subseteq sockhash[s].action
          /\ s \in DOMAIN asked[current] /\ (phase = "run" \/ s \in todo) =>
                sockhash[s].users = {} \/ current \in sockhash[s].users
          /\ current \in sockhash[s].users =>
                \/ s \in DOMAIN want \ todo
                \/ s \in DOMAIN asked[current] /\ (phase = "run" \/ s \in todo)

\* An entry without users is gone; one with users is of an open socket and has
\* a context of its own.
EntryInv ==
    \A s \in Sockets :
        IF sockhash[s].users = {} THEN sockhash[s] = NoEntry
        ELSE /\ s \in opened
             /\ sockhash[s].socketp \in Contexts
             /\ context[sockhash[s].socketp].state = "open"
             /\ context[sockhash[s].socketp].socket = s

\* A handle that watches is the one of the entry and watches for its action; a
\* socket with users that is not watched has failed, and all its users are
\* still to be run.
WatchInv ==
    \A s \in Sockets :
        /\ watchers[s] # NoContext =>
              /\ sockhash[s].socketp = watchers[s]
              /\ context[watchers[s]].events = UvEvents(sockhash[s].action)
        /\ sockhash[s].users # {} /\ watchers[s] = NoContext =>
              s \in failed /\ sockhash[s].users \subseteq running

\* A context that is there belongs to the entry of its socket or is closing.
ContextInv ==
    \A c \in Contexts :
        /\ context[c].state # "broken"
        /\ context[c].state = "closing" <=> c \in closing
        /\ context[c].state = "open" =>
              context[c].socket \in Sockets /\ sockhash[context[c].socket].socketp = c

SocketInv ==
    TypeInv /\ RunInv /\ UsersInv /\ EntryInv /\ WatchInv /\ ContextInv

-----------------------------------------------------------------------------
(***************************************************************************)
(* Types                                                                   *)
(***************************************************************************)

Entry == [users : SUBSET Transfers, action : Actions \cup {{}}, socketp : Contexts \cup {NoContext}]
Memory == [state : {"free", "open", "closing", "broken"}, socket : Sockets \cup {NoContext},
           events : SUBSET {"readable", "writable"}]

LEMMA WaitsFacts ==
    /\ \A w \in Waits : DOMAIN w \in SUBSET Sockets /\ \A s \in DOMAIN w : w[s] \in Actions
    /\ \A S \in SUBSET Sockets : \A w \in [S -> Actions] : w \in Waits
    /\ <<>> \in Waits /\ DOMAIN <<>> = {}
<1>1. \A w \in Waits : DOMAIN w \in SUBSET Sockets /\ \A s \in DOMAIN w : w[s] \in Actions
  BY DEF Waits
<1>2. \A S \in SUBSET Sockets : \A w \in [S -> Actions] : w \in Waits
  BY DEF Waits
<1>3. <<>> \in [{} -> Actions] /\ DOMAIN <<>> = {}
  OBVIOUS
<1> QED  BY <1>1, <1>2, <1>3

\* The types of the variables, as functions.
LEMMA Types ==
    ASSUME TypeInv
    PROVE  /\ opened \in SUBSET Sockets /\ failed \in SUBSET opened
           /\ connected \in [Transfers -> SUBSET opened]
           /\ asked \in [Transfers -> Waits] /\ want \in Waits
           /\ \A t \in Transfers : DOMAIN asked[t] \in SUBSET Sockets
           /\ DOMAIN want \in SUBSET Sockets
           /\ sockhash \in [Sockets -> Entry]
           /\ running \in SUBSET Transfers /\ current \in Transfers \cup {NoTransfer}
           /\ phase \in {"run", "singlesocket"} /\ todo \in SUBSET Sockets
           /\ loopPc \in {"timers", "batch"}
           /\ watchers \in [Sockets -> Contexts \cup {NoContext}]
           /\ ready \in [Sockets -> {"", "event", "error"}]
           /\ closing \in SUBSET Contexts
           /\ context \in [Contexts -> Memory]
  BY WaitsFacts DEF TypeInv, TypeOK, Entry, Memory

\* What has to be shown of a next state.
LEMMA TypesSuffice ==
    ASSUME opened \in SUBSET Sockets, failed \in SUBSET opened,
           connected \in [Transfers -> SUBSET opened],
           asked \in [Transfers -> Waits], want \in Waits,
           sockhash \in [Sockets -> Entry],
           running \in SUBSET Transfers, current \in Transfers \cup {NoTransfer},
           phase \in {"run", "singlesocket"}, todo \in SUBSET Sockets,
           loopPc \in {"timers", "batch"},
           watchers \in [Sockets -> Contexts \cup {NoContext}],
           ready \in [Sockets -> {"", "event", "error"}],
           closing \in SUBSET Contexts,
           context \in [Contexts -> Memory]
    PROVE  TypeInv
  BY WaitsFacts DEF TypeInv, TypeOK, Entry, Memory

LEMMA UvEventsType == \A a : UvEvents(a) \in SUBSET {"readable", "writable"}
  BY DEF UvEvents

LEMMA InvInit == Init => SocketInv
<1> SUFFICES ASSUME Init PROVE SocketInv
  OBVIOUS
<1> USE DEF Init
<1>1. NoEntry \in Entry /\ NoMemory \in Memory /\ NoEntry.users = {} /\ NoMemory.state = "free"
  BY DEF NoEntry, NoMemory, Entry, Memory
<1>2. TypeInv
  BY <1>1, WaitsFacts, TypesSuffice
<1>3. RunInv
  BY <1>1, WaitsFacts DEF RunInv
<1>4. UsersInv
  BY <1>1, WaitsFacts DEF UsersInv
<1>5. EntryInv /\ WatchInv /\ ContextInv
  BY <1>1 DEF EntryInv, WatchInv, ContextInv
<1> QED  BY <1>2, <1>3, <1>4, <1>5 DEF SocketInv

-----------------------------------------------------------------------------
(***************************************************************************)
(* The socket callback                                                     *)
(***************************************************************************)

\* An entry has a context exactly when it has users, and only then is its
\* socket watched.
LEMMA EntryFacts ==
    ASSUME SocketInv, NEW s \in Sockets
    PROVE  /\ sockhash[s].socketp = NoContext <=> sockhash[s].users = {}
           /\ watchers[s] # NoContext => sockhash[s].users # {}
           /\ watchers[s] \in {NoContext, sockhash[s].socketp}
  BY NullAssumption DEF SocketInv, EntryInv, WatchInv, NoEntry

\* The context that serves s from now on.
Serves(c, s) ==
    IF sockhash[s].users # {} THEN c = sockhash[s].socketp
    ELSE context[c].state = "free"

\* uv_poll_init and uv_poll_start succeed.
LEMMA PollEffect ==
    ASSUME SocketInv, NEW s \in Sockets, NEW e \in Entry, SocketCallbackPoll(s, e)
    PROVE  \E c \in Contexts :
              /\ Serves(c, s)
              /\ context' = [context EXCEPT ![c] = [state |-> "open", socket |-> s,
                                                    events |-> UvEvents(e.action)]]
              /\ watchers' = [watchers EXCEPT ![s] = c]
              /\ ready' = [ready EXCEPT ![s] = ""]
              /\ closing' = closing
              /\ sockhash' = [sockhash EXCEPT ![s] = [e EXCEPT !.socketp = c]]
<1>1. PICK c \in ContextFor(s) :
         /\ PollStart(c, s, UvEvents(e.action))
         /\ sockhash' = [sockhash EXCEPT ![s] = [e EXCEPT !.socketp = c]]
         /\ closing' = closing
  BY DEF SocketCallbackPoll
<1>2. c \in Contexts /\ Serves(c, s)
  BY <1>1, EntryFacts DEF ContextFor, FreeContexts, Serves, SocketInv, EntryInv
<1>3. context[c] \in Memory
  BY <1>2, Types DEF SocketInv
<1>4. watchers[s] \in {NoContext, c} /\ NewContext(c, s).state = "open" /\ NewContext(c, s).socket = s
      /\ NewContext(c, s) \in Memory
  <2>1. CASE sockhash[s].users # {}
    <3>1. c = sockhash[s].socketp /\ context[c].state = "open" /\ context[c].socket = s
      BY <1>2, <2>1 DEF Serves, SocketInv, EntryInv
    <3>2. watchers[s] \in {NoContext, c}
      BY <3>1, EntryFacts
    <3> QED  BY <1>3, <3>1, <3>2 DEF NewContext
  <2>2. CASE sockhash[s].users = {}
    <3>1. context[c].state = "free" /\ watchers[s] = NoContext
      BY <1>2, <2>2, EntryFacts DEF Serves
    <3> QED  BY <3>1 DEF NewContext, Memory
  <2> QED  BY <2>1, <2>2
<1>5. /\ context' = [context EXCEPT ![c] = [NewContext(c, s) EXCEPT !.events = UvEvents(e.action)]]
      /\ watchers' = [watchers EXCEPT ![s] = c]
      /\ ready' = [ready EXCEPT ![s] = ""]
  BY <1>1, <1>4 DEF PollStart
<1>6. [NewContext(c, s) EXCEPT !.events = UvEvents(e.action)]
         = [state |-> "open", socket |-> s, events |-> UvEvents(e.action)]
  BY <1>4 DEF Memory
<1> QED  BY <1>1, <1>2, <1>5, <1>6

\* CurlContext::Destroy stops one handle.
LEMMA RemoveEffect ==
    ASSUME SocketInv, NEW s \in Sockets, sockhash[s].users # {}, SocketCallbackRemove(s)
    PROVE  /\ sockhash[s].socketp \in Contexts
           /\ context' = [context EXCEPT ![sockhash[s].socketp] =
                             [state |-> "closing", socket |-> s, events |-> {}]]
           /\ watchers' = [watchers EXCEPT ![s] = NoContext]
           /\ ready' = [ready EXCEPT ![s] = ""]
           /\ closing' = closing \cup {sockhash[s].socketp}
           /\ sockhash' = [sockhash EXCEPT ![s] = NoEntry]
<1> DEFINE c == sockhash[s].socketp
<1>1. c \in Contexts /\ context[c].state = "open" /\ context[c].socket = s
  BY DEF SocketInv, EntryInv
<1>2. c # NoContext
  BY <1>1, NullAssumption
<1>3. Destroy(c) /\ sockhash' = [sockhash EXCEPT ![s] = NoEntry]
  BY <1>2 DEF SocketCallbackRemove
<1>4. watchers \in [Sockets -> Contexts \cup {NoContext}] /\ context \in [Contexts -> Memory]
  BY Types DEF SocketInv
<1>5. \A r \in Sockets : watchers[r] = c => r = s
  <2> SUFFICES ASSUME NEW r \in Sockets, watchers[r] = c PROVE r = s
    OBVIOUS
  <2>1. sockhash[r].socketp = c /\ sockhash[r].users # {}
    BY <1>2, EntryFacts DEF SocketInv, WatchInv
  <2>2. context[sockhash[r].socketp].socket = r
    BY <2>1 DEF SocketInv, EntryInv
  <2> QED  BY <1>1, <2>1, <2>2
<1> HIDE DEF c
<1>6. watchers' = [watchers EXCEPT ![s] = NoContext]
  <2>1. watchers' = [r \in Sockets |-> IF watchers[r] = c THEN NoContext ELSE watchers[r]]
    BY <1>3 DEF Destroy
  <2>2. watchers[s] \in {NoContext, c}
    BY EntryFacts DEF c
  <2>3. \A r \in Sockets : watchers'[r] = IF r = s THEN NoContext ELSE watchers[r]
    BY <1>5, <2>1, <2>2
  <2> QED  BY <1>4, <2>1, <2>3
<1>7. context' = [context EXCEPT ![c] = [state |-> "closing", socket |-> s, events |-> {}]]
  <2>1. context' = [context EXCEPT ![c].state = "closing", ![c].events = {}]
    BY <1>3 DEF Destroy
  <2>2. [[context[c] EXCEPT !.state = "closing"] EXCEPT !.events = {}]
           = [state |-> "closing", socket |-> s, events |-> {}]
    <3> DEFINE m == context[c]
    <3>1. m \in Memory /\ m.socket = s
      BY <1>1, <1>4
    <3> HIDE DEF m
    <3>2. /\ [m EXCEPT !.state = "closing"] \in Memory
          /\ [m EXCEPT !.state = "closing"].state = "closing"
          /\ [m EXCEPT !.state = "closing"].socket = s
      BY <3>1 DEF Memory
    <3> DEFINE n == [m EXCEPT !.state = "closing"]
    <3>n. n \in Memory /\ n.state = "closing" /\ n.socket = s
      BY <3>2
    <3> HIDE DEF n
    <3>3. [n EXCEPT !.events = {}] = [state |-> "closing", socket |-> s, events |-> {}]
      BY <3>n DEF Memory
    <3> QED  BY <3>3 DEF m, n
  <2> QED  BY <1>1, <1>4, <2>1, <2>2
<1>8. ready' = [ready EXCEPT ![s] = ""] /\ closing' = closing \cup {c}
  BY <1>1, <1>3 DEF Destroy
<1> QED  BY <1>1, <1>3, <1>6, <1>7, <1>8 DEF c

\* The entries, the watchers and the contexts when a socket is watched anew.
LEMMA PollKeeps ==
    ASSUME SocketInv, NEW s \in opened, NEW e \in Entry, e.users # {}, SocketCallbackPoll(s, e),
           UNCHANGED <<opened, failed, running>>
    PROVE  EntryInv' /\ WatchInv' /\ ContextInv'
<1>0. s \in Sockets
  BY Types DEF SocketInv
<1>1. PICK c \in Contexts :
         /\ Serves(c, s)
         /\ context' = [context EXCEPT ![c] = [state |-> "open", socket |-> s,
                                               events |-> UvEvents(e.action)]]
         /\ watchers' = [watchers EXCEPT ![s] = c]
         /\ ready' = [ready EXCEPT ![s] = ""]
         /\ closing' = closing
         /\ sockhash' = [sockhash EXCEPT ![s] = [e EXCEPT !.socketp = c]]
  BY <1>0, PollEffect
<1>2. /\ sockhash \in [Sockets -> Entry] /\ context \in [Contexts -> Memory]
      /\ watchers \in [Sockets -> Contexts \cup {NoContext}]
  BY Types DEF SocketInv
<1>3. /\ sockhash'[s].users = e.users /\ sockhash'[s].action = e.action /\ sockhash'[s].socketp = c
      /\ watchers'[s] = c
      /\ context'[c].state = "open" /\ context'[c].socket = s /\ context'[c].events = UvEvents(e.action)
  BY <1>0, <1>1, <1>2 DEF Entry
<1>4. \A r \in Sockets \ {s} : sockhash'[r] = sockhash[r] /\ watchers'[r] = watchers[r]
  BY <1>1, <1>2
<1>5. \A d \in Contexts \ {c} : context'[d] = context[d]
  BY <1>1, <1>2
<1>6. \A r \in Sockets \ {s} : sockhash[r].users # {} => sockhash[r].socketp # c
  BY <1>0, <1>1, <1>2 DEF Serves, SocketInv, EntryInv
<1>7. c \notin closing /\ context[c].state \in {"free", "open"}
  <2>1. c \in Contexts /\ Serves(c, s)
    BY <1>1
  <2>2. context[c].state \in {"free", "open"}
    BY <1>0, <2>1 DEF Serves, SocketInv, EntryInv
  <2> QED  BY <2>1, <2>2 DEF SocketInv, ContextInv
<1>8. EntryInv'
  <2> SUFFICES ASSUME NEW r \in Sockets
               PROVE  IF sockhash'[r].users = {} THEN sockhash'[r] = NoEntry
                      ELSE /\ r \in opened'
                           /\ sockhash'[r].socketp \in Contexts
                           /\ context'[sockhash'[r].socketp].state = "open"
                           /\ context'[sockhash'[r].socketp].socket = r
    BY DEF EntryInv
  <2>1. CASE r = s
    BY <1>1, <1>3, <2>1
  <2>2. CASE r # s
    BY <1>4, <1>5, <1>6, <2>2 DEF SocketInv, EntryInv
  <2> QED  BY <2>1, <2>2
<1>9. WatchInv'
  <2> SUFFICES ASSUME NEW r \in Sockets
               PROVE  /\ watchers'[r] # NoContext =>
                            /\ sockhash'[r].socketp = watchers'[r]
                            /\ context'[watchers'[r]].events = UvEvents(sockhash'[r].action)
                      /\ sockhash'[r].users # {} /\ watchers'[r] = NoContext =>
                            r \in failed' /\ sockhash'[r].users \subseteq running'
    BY DEF WatchInv, UvEvents
  <2>1. CASE r = s
    BY <1>1, <1>3, <2>1, NullAssumption
  <2>2. CASE r # s
    <3>1. watchers[r] # NoContext => watchers[r] # c /\ watchers[r] \in Contexts
      BY <1>2, <1>6, <2>2, EntryFacts
    <3> QED  BY <1>4, <1>5, <2>2, <3>1 DEF SocketInv, WatchInv
  <2> QED  BY <2>1, <2>2
<1>10. ContextInv'
  <2> SUFFICES ASSUME NEW d \in Contexts
               PROVE  /\ context'[d].state # "broken"
                      /\ context'[d].state = "closing" <=> d \in closing'
                      /\ context'[d].state = "open" =>
                            context'[d].socket \in Sockets /\ sockhash'[context'[d].socket].socketp = d
    BY DEF ContextInv
  <2>1. CASE d = c
    BY <1>0, <1>1, <1>3, <1>7, <2>1
  <2>2. CASE d # c
    <3>1. context[d].state = "open" => context[d].socket # s
      <4>1. context[d].state = "open" /\ context[d].socket = s => sockhash[s].socketp = d
        BY DEF SocketInv, ContextInv
      <4>2. d # NoContext
        BY NullAssumption
      <4>3. Serves(c, s)
        BY <1>1
      <4> QED  BY <1>0, <2>2, <4>1, <4>2, <4>3, EntryFacts DEF Serves
    <3>2. closing' = closing
      BY <1>1
    <3> QED  BY <1>4, <1>5, <2>2, <3>1, <3>2 DEF SocketInv, ContextInv
  <2> QED  BY <2>1, <2>2
<1> QED  BY <1>8, <1>9, <1>10

\* And when one is given up.
LEMMA RemoveKeeps ==
    ASSUME SocketInv, NEW s \in Sockets, sockhash[s].users # {}, SocketCallbackRemove(s),
           opened \ {s} \subseteq opened', failed \ {s} \subseteq failed', UNCHANGED running
    PROVE  EntryInv' /\ WatchInv' /\ ContextInv'
<1> DEFINE c == sockhash[s].socketp
<1>1. /\ c \in Contexts
      /\ context' = [context EXCEPT ![c] = [state |-> "closing", socket |-> s, events |-> {}]]
      /\ watchers' = [watchers EXCEPT ![s] = NoContext]
      /\ closing' = closing \cup {c}
      /\ sockhash' = [sockhash EXCEPT ![s] = NoEntry]
  BY RemoveEffect
<1>2. /\ sockhash \in [Sockets -> Entry] /\ context \in [Contexts -> Memory]
      /\ watchers \in [Sockets -> Contexts \cup {NoContext}]
  BY Types DEF SocketInv
<1>3. sockhash'[s] = NoEntry /\ watchers'[s] = NoContext /\ context'[c].state = "closing"
  BY <1>1, <1>2
<1>4. \A r \in Sockets \ {s} : sockhash'[r] = sockhash[r] /\ watchers'[r] = watchers[r]
  BY <1>1, <1>2
<1>5. \A d \in Contexts \ {c} : context'[d] = context[d]
  BY <1>1, <1>2
<1>6. \A r \in Sockets \ {s} : sockhash[r].users # {} => sockhash[r].socketp # c
  BY DEF SocketInv, EntryInv
<1>7. NoEntry.users = {}
  BY DEF NoEntry
<1> HIDE DEF c
<1>8. EntryInv'
  <2> SUFFICES ASSUME NEW r \in Sockets
               PROVE  IF sockhash'[r].users = {} THEN sockhash'[r] = NoEntry
                      ELSE /\ r \in opened'
                           /\ sockhash'[r].socketp \in Contexts
                           /\ context'[sockhash'[r].socketp].state = "open"
                           /\ context'[sockhash'[r].socketp].socket = r
    BY DEF EntryInv
  <2>1. CASE r = s
    BY <1>3, <1>7, <2>1
  <2>2. CASE r # s
    BY <1>4, <1>5, <1>6, <2>2 DEF SocketInv, EntryInv
  <2> QED  BY <2>1, <2>2
<1>9. WatchInv'
  <2> SUFFICES ASSUME NEW r \in Sockets
               PROVE  /\ watchers'[r] # NoContext =>
                            /\ sockhash'[r].socketp = watchers'[r]
                            /\ context'[watchers'[r]].events = UvEvents(sockhash'[r].action)
                      /\ sockhash'[r].users # {} /\ watchers'[r] = NoContext =>
                            r \in failed' /\ sockhash'[r].users \subseteq running'
    BY DEF WatchInv, UvEvents
  <2>1. CASE r = s
    BY <1>3, <1>7, <2>1
  <2>2. CASE r # s
    <3>1. watchers[r] # NoContext => watchers[r] # c /\ watchers[r] \in Contexts
      BY <1>2, <1>6, <2>2, EntryFacts
    <3> QED  BY <1>4, <1>5, <2>2, <3>1 DEF SocketInv, WatchInv
  <2> QED  BY <2>1, <2>2
<1>10. ContextInv'
  <2> SUFFICES ASSUME NEW d \in Contexts
               PROVE  /\ context'[d].state # "broken"
                      /\ context'[d].state = "closing" <=> d \in closing'
                      /\ context'[d].state = "open" =>
                            context'[d].socket \in Sockets /\ sockhash'[context'[d].socket].socketp = d
    BY DEF ContextInv
  <2>1. CASE d = c
    BY <1>1, <1>3, <2>1
  <2>2. CASE d # c
    <3>1. context[d].state = "open" => context[d].socket # s
      BY <2>2 DEF SocketInv, ContextInv, c
    <3> QED  BY <1>1, <1>4, <1>5, <2>2, <3>1 DEF SocketInv, ContextInv
  <2> QED  BY <2>1, <2>2
<1> QED  BY <1>8, <1>9, <1>10

-----------------------------------------------------------------------------
(***************************************************************************)
(* A transfer at work                                                      *)
(***************************************************************************)

\* Steps that leave the entries and libuv alone, and take nothing away that an
\* entry rests on.
LEMMA QuietKeeps ==
    ASSUME SocketInv, UNCHANGED <<sockhash, watchers, closing, context>>,
           opened \subseteq opened', failed \subseteq failed', running \subseteq running'
    PROVE  EntryInv' /\ WatchInv' /\ ContextInv'
<1>1. EntryInv'
  BY DEF SocketInv, EntryInv
<1>2. WatchInv'
  <2> SUFFICES ASSUME NEW r \in Sockets
               PROVE  /\ watchers[r] # NoContext =>
                            /\ sockhash[r].socketp = watchers[r]
                            /\ context[watchers[r]].events = UvEvents(sockhash[r].action)
                      /\ sockhash[r].users # {} /\ watchers[r] = NoContext =>
                            r \in failed' /\ sockhash[r].users \subseteq running'
    BY DEF WatchInv, UvEvents
  <2> QED  BY DEF SocketInv, WatchInv
<1>3. ContextInv'
  BY DEF SocketInv, ContextInv
<1> QED  BY <1>1, <1>2, <1>3

LEMMA RunSingleKeeps ==
    ASSUME SocketInv, NEW t \in Transfers, RunSingle(t)
    PROVE  SocketInv'
<1>1. /\ t \in running /\ current = NoTransfer /\ current' = t
      /\ UNCHANGED <<opened, failed, connected, asked, sockhash, running, phase, want, todo,
                     loopPc, watchers, ready, closing, context>>
  BY DEF RunSingle, uv
<1>2. phase = "run" /\ todo = {} /\ DOMAIN want = {}
  BY <1>1, Types DEF SocketInv, RunInv
<1>3. TypeInv'
  BY <1>1 DEF SocketInv, TypeInv, TypeOK
<1>4. RunInv'
  BY <1>1, <1>2, NullAssumption DEF SocketInv, RunInv
<1>5. UsersInv'
  BY <1>1, <1>2, NullAssumption DEF SocketInv, UsersInv
<1>6. EntryInv' /\ WatchInv' /\ ContextInv'
  BY <1>1, QuietKeeps
<1> QED  BY <1>3, <1>4, <1>5, <1>6 DEF SocketInv

\* The connection of the transfer at work changes.
LEMMA ConnectionKeeps ==
    ASSUME SocketInv, NEW s \in Sockets,
           OpenSocket(s) \/ ReuseConnection(s) \/ LeaveConnection(s)
    PROVE  SocketInv'
<1>1. /\ AtWork
      /\ UNCHANGED <<failed, asked, sockhash, running, current, phase, want, todo,
                     loopPc, watchers, ready, closing, context>>
  BY DEF OpenSocket, ReuseConnection, LeaveConnection, uv
<1>2. current \in Transfers /\ phase = "run"
  BY <1>1, Types DEF SocketInv, AtWork
<1>3. /\ opened' \in SUBSET Sockets /\ opened \subseteq opened'
      /\ \E S \in SUBSET opened' : connected' = [connected EXCEPT ![current] = S]
  <2>1. opened \in SUBSET Sockets /\ connected[current] \in SUBSET opened
    BY <1>2, Types DEF SocketInv
  <2> QED  BY <2>1 DEF OpenSocket, ReuseConnection, LeaveConnection
<1>4. /\ connected' \in [Transfers -> SUBSET opened']
      /\ \A t \in Transfers \ {current} : connected'[t] = connected[t]
  BY <1>2, <1>3, Types DEF SocketInv
<1>5. TypeInv'
  BY <1>1, <1>3, <1>4 DEF SocketInv, TypeInv, TypeOK
<1>6. RunInv'
  BY <1>1, <1>2, <1>4 DEF SocketInv, RunInv
<1>7. UsersInv'
  BY <1>1 DEF SocketInv, UsersInv
<1>8. EntryInv' /\ WatchInv' /\ ContextInv'
  BY <1>1, <1>3, QuietKeeps
<1> QED  BY <1>5, <1>6, <1>7, <1>8 DEF SocketInv

\* Nobody but the current transfer is a user of a socket that is closed.
LEMMA MultiClosedKeeps ==
    ASSUME SocketInv, NEW s \in Sockets, MultiClosed(s)
    PROVE  SocketInv'
<1>1. /\ AtWork /\ s \in opened
      /\ \A t \in Transfers \ {current} : s \notin connected[t]
      /\ opened' = opened \ {s} /\ failed' = failed \ {s}
      /\ connected' = [connected EXCEPT ![current] = @ \ {s}]
      /\ UNCHANGED <<asked, running, current, phase, want, todo, loopPc>>
  BY DEF MultiClosed
<1>2. current \in Transfers /\ phase = "run" /\ current # NoTransfer /\ todo = {} /\ DOMAIN want = {}
  BY <1>1, Types DEF SocketInv, AtWork, RunInv
<1>t. /\ sockhash \in [Sockets -> Entry] /\ context \in [Contexts -> Memory]
      /\ watchers \in [Sockets -> Contexts \cup {NoContext}]
      /\ connected \in [Transfers -> SUBSET opened]
      /\ ready \in [Sockets -> {"", "event", "error"}] /\ closing \in SUBSET Contexts
      /\ opened \in SUBSET Sockets /\ failed \in SUBSET opened
  BY Types DEF SocketInv
<1>3. \A t \in Transfers \ {current} : s \notin DOMAIN asked[t]
  BY <1>1 DEF SocketInv, RunInv
<1>4. /\ connected' \in [Transfers -> SUBSET opened']
      /\ \A t \in Transfers \ {current} : connected'[t] = connected[t]
  <2>1. connected' \in [Transfers -> SUBSET opened]
    BY <1>1, <1>2, <1>t
  <2>2. \A t \in Transfers : s \notin connected'[t]
    BY <1>1, <1>2, <1>t
  <2> QED  BY <1>1, <1>2, <1>t, <2>1, <2>2
<1>5. RunInv'
  BY <1>1, <1>2, <1>4 DEF SocketInv, RunInv
<1>6. CASE sockhash[s].users # {} /\ SocketCallbackRemove(s)
  <2>1. /\ sockhash[s].socketp \in Contexts
        /\ context' = [context EXCEPT ![sockhash[s].socketp] =
                          [state |-> "closing", socket |-> s, events |-> {}]]
        /\ watchers' = [watchers EXCEPT ![s] = NoContext]
        /\ ready' = [ready EXCEPT ![s] = ""]
        /\ closing' = closing \cup {sockhash[s].socketp}
        /\ sockhash' = [sockhash EXCEPT ![s] = NoEntry]
    BY <1>6, RemoveEffect
  <2>2. TypeInv'
    <3>1. /\ sockhash' \in [Sockets -> Entry] /\ context' \in [Contexts -> Memory]
          /\ watchers' \in [Sockets -> Contexts \cup {NoContext}]
          /\ ready' \in [Sockets -> {"", "event", "error"}]
          /\ closing' \in SUBSET Contexts
      BY <1>t, <2>1 DEF Entry, Memory, NoEntry
    <3>2. opened' \in SUBSET Sockets /\ failed' \in SUBSET opened'
      BY <1>1, <1>t
    <3> QED  BY <1>1, <1>4, <3>1, <3>2 DEF SocketInv, TypeInv, TypeOK, Entry, Memory
  <2>3. UsersInv'
    <3>1. sockhash'[s].users = {} /\ \A r \in Sockets \ {s} : sockhash'[r] = sockhash[r]
      BY <1>t, <2>1 DEF NoEntry
    <3> QED  BY <1>1, <1>2, <1>3, <3>1 DEF SocketInv, UsersInv
  <2>4. EntryInv' /\ WatchInv' /\ ContextInv'
    BY <1>1, <1>6, RemoveKeeps
  <2> QED  BY <1>5, <2>2, <2>3, <2>4 DEF SocketInv
<1>7. CASE sockhash[s].users = {} /\ UNCHANGED <<sockhash, uv>>
  <2>1. UNCHANGED <<sockhash, watchers, ready, closing, context>>
    BY <1>7 DEF uv
  <2>2. TypeInv'
    <3>2. opened' \in SUBSET Sockets /\ failed' \in SUBSET opened'
      BY <1>1, <1>t
    <3> QED  BY <1>1, <1>4, <2>1, <3>2 DEF SocketInv, TypeInv, TypeOK
  <2>3. UsersInv'
    BY <1>1, <2>1 DEF SocketInv, UsersInv
  <2>4. EntryInv'
    BY <1>1, <1>7, <2>1 DEF SocketInv, EntryInv
  <2>5. WatchInv'
    <3> SUFFICES ASSUME NEW r \in Sockets
                 PROVE  /\ watchers[r] # NoContext =>
                              /\ sockhash[r].socketp = watchers[r]
                              /\ context[watchers[r]].events = UvEvents(sockhash[r].action)
                        /\ sockhash[r].users # {} /\ watchers[r] = NoContext =>
                              r \in failed' /\ sockhash[r].users \subseteq running'
      BY <2>1 DEF WatchInv, UvEvents
    <3> QED  BY <1>1, <1>7 DEF SocketInv, WatchInv
  <2>6. ContextInv'
    BY <2>1 DEF SocketInv, ContextInv
  <2> QED  BY <1>5, <2>2, <2>3, <2>4, <2>5, <2>6 DEF SocketInv
<1> QED  BY <1>6, <1>7 DEF MultiClosed

-----------------------------------------------------------------------------
(***************************************************************************)
(* singlesocket                                                            *)
(***************************************************************************)

LEMMA SingleSocketKeeps ==
    ASSUME SocketInv, SingleSocket
    PROVE  SocketInv'
<1>1. /\ AtWork /\ connected[current] \cap failed = {} /\ phase' = "singlesocket"
      /\ UNCHANGED <<opened, failed, connected, asked, sockhash, running, current, loopPc,
                     watchers, ready, closing, context>>
  BY DEF SingleSocket, uv
<1>2. PICK S \in SUBSET connected[current] :
         want' \in [S -> Actions] /\ todo' = S \cup DOMAIN asked[current]
  BY DEF SingleSocket
<1>3. current \in Transfers /\ phase = "run" /\ current # NoTransfer /\ todo = {} /\ DOMAIN want = {}
  BY <1>1, Types DEF SocketInv, AtWork, RunInv
<1>4. S \in SUBSET Sockets /\ DOMAIN asked[current] \in SUBSET Sockets
  BY <1>3, Types DEF SocketInv
<1>5. want' \in Waits /\ DOMAIN want' = S /\ todo' \in SUBSET Sockets
  BY <1>2, <1>4, WaitsFacts
<1>6. TypeInv'
  BY <1>1, <1>5 DEF SocketInv, TypeInv, TypeOK
<1>7. RunInv'
  BY <1>1, <1>2, <1>3, <1>5 DEF SocketInv, RunInv
<1>8. UsersInv'
  BY <1>1, <1>2, <1>3, <1>5 DEF SocketInv, UsersInv
<1>9. EntryInv' /\ WatchInv' /\ ContextInv'
  BY <1>1, QuietKeeps
<1> QED  BY <1>6, <1>7, <1>8, <1>9 DEF SocketInv

\* The combined action covers what every user waits for.
LEMMA ComboCovers ==
    ASSUME SocketInv, phase = "singlesocket", NEW s \in DOMAIN want
    PROVE  /\ ComboAction(s) \in Actions
           /\ want[s] \subseteq ComboAction(s)
           /\ \A t \in sockhash[s].users \ {current} : asked[t][s] \subseteq ComboAction(s)
<1>1. s \in Sockets /\ want[s] \in Actions
  BY Types, WaitsFacts DEF SocketInv
<1>2. sockhash[s].users \in SUBSET Transfers
  BY <1>1, Types DEF SocketInv, Entry
<1>3. \A t \in sockhash[s].users \ {current} : asked[t][s] \in Actions
  <2> SUFFICES ASSUME NEW t \in sockhash[s].users \ {current} PROVE asked[t][s] \in Actions
    OBVIOUS
  <2>1. t \in Transfers /\ s \in DOMAIN asked[t]
    BY <1>1, <1>2 DEF SocketInv, UsersInv
  <2>2. asked[t] \in Waits
    BY <2>1, Types DEF SocketInv
  <2> QED  BY <2>1, <2>2, WaitsFacts
<1>4. \A t \in sockhash[s].users \ {current} : asked[t][s] \subseteq ComboAction(s)
  BY DEF ComboAction
<1>5. want[s] \subseteq ComboAction(s)
  BY DEF ComboAction
<1>6. ComboAction(s) \subseteq {"in", "out"}
  <2>1. \A t \in sockhash[s].users \ {current} : asked[t][s] \subseteq {"in", "out"}
    BY <1>3 DEF Actions
  <2>2. want[s] \subseteq {"in", "out"}
    BY <1>1 DEF Actions
  <2> QED  BY <2>1, <2>2 DEF ComboAction
<1>7. ComboAction(s) # {}
  <2>1. want[s] # {}
    BY <1>1 DEF Actions
  <2> QED  BY <1>5, <2>1
<1>8. ComboAction(s) \in Actions
  BY <1>6, <1>7 DEF Actions
<1> QED  BY <1>4, <1>5, <1>8

LEMMA AskKeeps ==
    ASSUME SocketInv, NEW s \in Sockets, SingleSocketAsk(s)
    PROVE  SocketInv'
<1>1. /\ phase = "singlesocket" /\ s \in todo /\ s \in DOMAIN want /\ todo' = todo \ {s}
      /\ UNCHANGED <<opened, failed, connected, asked, running, current, phase, want, loopPc>>
  BY DEF SingleSocketAsk
<1>2. current \in Transfers /\ current # NoTransfer /\ s \in opened
  <2>1. current \in Transfers /\ current # NoTransfer
    BY <1>1, Types DEF SocketInv, RunInv
  <2>2. s \in connected[current] /\ connected[current] \subseteq opened
    BY <1>1, <2>1, Types DEF SocketInv, RunInv
  <2> QED  BY <2>1, <2>2
<1>t. /\ sockhash \in [Sockets -> Entry] /\ context \in [Contexts -> Memory]
      /\ watchers \in [Sockets -> Contexts \cup {NoContext}]
      /\ ready \in [Sockets -> {"", "event", "error"}] /\ closing \in SUBSET Contexts
      /\ todo \in SUBSET Sockets
  BY Types DEF SocketInv
<1>3. /\ ComboAction(s) \in Actions
      /\ want[s] \subseteq ComboAction(s)
      /\ \A t \in sockhash[s].users \ {current} : asked[t][s] \subseteq ComboAction(s)
  BY <1>1, ComboCovers
<1>4. RunInv'
  BY <1>1 DEF SocketInv, RunInv
<1> HIDE DEF ComboAction
<1>5. CASE /\ sockhash[s].users # {} /\ s \in DOMAIN asked[current]
           /\ sockhash[s].action = ComboAction(s)
           /\ UNCHANGED <<sockhash, uv>>
  <2>1. UNCHANGED <<sockhash, watchers, ready, closing, context>>
    BY <1>5 DEF uv
  <2>2. TypeInv'
    <3>1. todo' \in SUBSET Sockets
      BY <1>1, <1>t
    <3> QED  BY <1>1, <2>1, <3>1 DEF SocketInv, TypeInv, TypeOK
  <2>3. UsersInv'
    <3>1. current \in sockhash[s].users /\ want[s] \subseteq sockhash[s].action
      BY <1>1, <1>2, <1>3, <1>5 DEF SocketInv, UsersInv
    <3> QED  BY <1>1, <1>2, <2>1, <3>1 DEF SocketInv, UsersInv
  <2>4. EntryInv' /\ WatchInv' /\ ContextInv'
    BY <1>1, <2>1, QuietKeeps
  <2> QED  BY <1>4, <2>2, <2>3, <2>4 DEF SocketInv
<1> DEFINE e == [sockhash[s] EXCEPT !.users = @ \cup {current}, !.action = ComboAction(s)]
<1>6. CASE SocketCallbackPoll(s, e)
  <2>1. e \in Entry /\ e.users = sockhash[s].users \cup {current} /\ e.action = ComboAction(s)
    BY <1>2, <1>3, <1>t DEF Entry
  <2> HIDE DEF e
  <2>2. PICK c \in Contexts :
           /\ Serves(c, s)
           /\ context' = [context EXCEPT ![c] = [state |-> "open", socket |-> s,
                                                 events |-> UvEvents(e.action)]]
           /\ watchers' = [watchers EXCEPT ![s] = c]
           /\ ready' = [ready EXCEPT ![s] = ""]
           /\ closing' = closing
           /\ sockhash' = [sockhash EXCEPT ![s] = [e EXCEPT !.socketp = c]]
    BY <1>6, <2>1, PollEffect
  <2>3. TypeInv'
    <3>1. sockhash' \in [Sockets -> Entry]
      BY <1>t, <2>1, <2>2 DEF Entry
    <3>2. context' \in [Contexts -> Memory]
      BY <1>t, <2>2, UvEventsType DEF Memory
    <3>3. /\ watchers' \in [Sockets -> Contexts \cup {NoContext}]
          /\ ready' \in [Sockets -> {"", "event", "error"}]
          /\ closing' \in SUBSET Contexts /\ todo' \in SUBSET Sockets
      BY <1>1, <1>t, <2>2
    <3> QED  BY <1>1, <3>1, <3>2, <3>3 DEF SocketInv, TypeInv, TypeOK, Entry, Memory
  <2>4. UsersInv'
    <3>1. /\ sockhash'[s].users = sockhash[s].users \cup {current}
          /\ sockhash'[s].action = ComboAction(s)
          /\ \A r \in Sockets \ {s} : sockhash'[r] = sockhash[r]
      BY <1>t, <2>1, <2>2 DEF Entry
    <3>2. ASSUME NEW t \in Transfers \ {current}, NEW r \in Sockets
          PROVE  /\ t \in sockhash'[r].users <=> r \in DOMAIN asked[t]
                 /\ r \in DOMAIN asked[t] => asked[t][r] \subseteq sockhash'[r].action
      BY <1>3, <3>1 DEF SocketInv, UsersInv
    <3>3. ASSUME NEW r \in Sockets
          PROVE  /\ r \in DOMAIN want \ todo' => /\ current \in sockhash'[r].users
                                                 /\ want[r] \subseteq sockhash'[r].action
                 /\ r \in DOMAIN asked[current] /\ (phase = "run" \/ r \in todo') =>
                       sockhash'[r].users = {} \/ current \in sockhash'[r].users
                 /\ current \in sockhash'[r].users =>
                       \/ r \in DOMAIN want \ todo'
                       \/ r \in DOMAIN asked[current] /\ (phase = "run" \/ r \in todo')
      BY <1>1, <1>2, <1>3, <3>1 DEF SocketInv, UsersInv
    <3> QED  BY <1>1, <3>2, <3>3 DEF UsersInv
  <2>5. EntryInv' /\ WatchInv' /\ ContextInv'
    BY <1>1, <1>2, <1>6, <2>1, PollKeeps
  <2> QED  BY <1>4, <2>3, <2>4, <2>5 DEF SocketInv
<1> QED  BY <1>5, <1>6 DEF SingleSocketAsk

\* A set with one element has no other.
LEMMA OneUser ==
    ASSUME NEW U \in SUBSET Transfers, NEW t \in U
    PROVE  /\ Cardinality(U) = 1 => U = {t}
           /\ Cardinality(U) > 1 => U # {t}
<1>1. IsFiniteSet(U)
  BY FiniteAssumption, FS_Subset
<1>2. Cardinality(U) = 1 => \E x : U = {x}
  BY <1>1, FS_Singleton
<1>3. Cardinality({t}) = 1
  BY FS_Singleton
<1> QED  BY <1>2, <1>3

LEMMA GoneKeeps ==
    ASSUME SocketInv, NEW s \in Sockets, SingleSocketGone(s)
    PROVE  SocketInv'
<1>1. /\ phase = "singlesocket" /\ s \in todo /\ s \notin DOMAIN want /\ todo' = todo \ {s}
      /\ UNCHANGED <<opened, failed, connected, asked, running, current, phase, want, loopPc>>
  BY DEF SingleSocketGone
<1>2. current \in Transfers /\ current # NoTransfer /\ s \in DOMAIN asked[current]
  BY <1>1, Types DEF SocketInv, RunInv
<1>t. /\ sockhash \in [Sockets -> Entry] /\ context \in [Contexts -> Memory]
      /\ watchers \in [Sockets -> Contexts \cup {NoContext}]
      /\ ready \in [Sockets -> {"", "event", "error"}] /\ closing \in SUBSET Contexts
      /\ todo \in SUBSET Sockets /\ todo' \in SUBSET Sockets
  BY <1>1, Types DEF SocketInv
<1>3. sockhash[s].users = {} \/ current \in sockhash[s].users
  BY <1>1, <1>2 DEF SocketInv, UsersInv
<1>4. RunInv'
  BY <1>1 DEF SocketInv, RunInv
<1>u. sockhash[s].users \in SUBSET Transfers /\ sockhash[s] \in Entry
  BY <1>t DEF Entry
\* The users of s without the current transfer, and nothing else changed.
<1>5. ASSUME \A r \in Sockets \ {s} : sockhash'[r] = sockhash[r],
             current \notin sockhash'[s].users,
             \A t \in Transfers \ {current} :
                /\ t \in sockhash'[s].users <=> t \in sockhash[s].users
                /\ t \in sockhash[s].users => sockhash'[s].action = sockhash[s].action
      PROVE  UsersInv'
  <2>1. ASSUME NEW t \in Transfers \ {current}, NEW r \in Sockets
        PROVE  /\ t \in sockhash'[r].users <=> r \in DOMAIN asked[t]
               /\ r \in DOMAIN asked[t] => asked[t][r] \subseteq sockhash'[r].action
    <3>1. /\ t \in sockhash[r].users <=> r \in DOMAIN asked[t]
          /\ r \in DOMAIN asked[t] => asked[t][r] \subseteq sockhash[r].action
      BY DEF SocketInv, UsersInv
    <3> QED  BY <1>5, <3>1
  <2>2. ASSUME NEW r \in Sockets
        PROVE  /\ r \in DOMAIN want \ todo' => /\ current \in sockhash'[r].users
                                               /\ want[r] \subseteq sockhash'[r].action
               /\ r \in DOMAIN asked[current] /\ (phase = "run" \/ r \in todo') =>
                     sockhash'[r].users = {} \/ current \in sockhash'[r].users
               /\ current \in sockhash'[r].users =>
                     \/ r \in DOMAIN want \ todo'
                     \/ r \in DOMAIN asked[current] /\ (phase = "run" \/ r \in todo')
    BY <1>1, <1>2, <1>5 DEF SocketInv, UsersInv
  <2> QED  BY <1>1, <2>1, <2>2 DEF UsersInv
<1>6. CASE sockhash[s].users = {} /\ UNCHANGED <<sockhash, uv>>
  <2>1. UNCHANGED <<sockhash, watchers, ready, closing, context>>
    BY <1>6 DEF uv
  <2>2. TypeInv'
    BY <1>1, <1>t, <2>1 DEF SocketInv, TypeInv, TypeOK
  <2>3. UsersInv'
    BY <1>5, <1>6, <2>1
  <2>4. EntryInv' /\ WatchInv' /\ ContextInv'
    BY <1>1, <2>1, QuietKeeps
  <2> QED  BY <1>4, <2>2, <2>3, <2>4 DEF SocketInv
<1>7. CASE Cardinality(sockhash[s].users) = 1 /\ SocketCallbackRemove(s)
  <2>0. sockhash[s].users = {current}
    <3>1. sockhash[s].users # {}
      BY <1>7, FS_EmptySet
    <3> QED  BY <1>3, <1>7, <1>u, <3>1, OneUser
  <2>1. /\ sockhash[s].socketp \in Contexts
        /\ context' = [context EXCEPT ![sockhash[s].socketp] =
                          [state |-> "closing", socket |-> s, events |-> {}]]
        /\ watchers' = [watchers EXCEPT ![s] = NoContext]
        /\ ready' = [ready EXCEPT ![s] = ""]
        /\ closing' = closing \cup {sockhash[s].socketp}
        /\ sockhash' = [sockhash EXCEPT ![s] = NoEntry]
    BY <1>7, <2>0, RemoveEffect
  <2>2. TypeInv'
    <3>1. /\ sockhash' \in [Sockets -> Entry] /\ context' \in [Contexts -> Memory]
          /\ watchers' \in [Sockets -> Contexts \cup {NoContext}]
          /\ ready' \in [Sockets -> {"", "event", "error"}]
          /\ closing' \in SUBSET Contexts
      BY <1>t, <2>1 DEF Entry, Memory, NoEntry
    <3> QED  BY <1>1, <1>t, <3>1 DEF SocketInv, TypeInv, TypeOK, Entry, Memory
  <2>3. UsersInv'
    <3>1. sockhash'[s].users = {} /\ \A r \in Sockets \ {s} : sockhash'[r] = sockhash[r]
      BY <1>t, <2>1 DEF NoEntry
    <3> QED  BY <1>5, <2>0, <3>1
  <2>4. EntryInv' /\ WatchInv' /\ ContextInv'
    BY <1>1, <1>7, <2>0, RemoveKeeps
  <2> QED  BY <1>4, <2>2, <2>3, <2>4 DEF SocketInv
<1>8. CASE /\ Cardinality(sockhash[s].users) > 1
           /\ sockhash' = [sockhash EXCEPT ![s].users = @ \ {current}]
           /\ UNCHANGED uv
  <2>1. UNCHANGED <<watchers, ready, closing, context>>
    BY <1>8 DEF uv
  <2>2. /\ sockhash'[s].users = sockhash[s].users \ {current}
        /\ sockhash'[s].action = sockhash[s].action /\ sockhash'[s].socketp = sockhash[s].socketp
        /\ \A r \in Sockets \ {s} : sockhash'[r] = sockhash[r]
        /\ sockhash' \in [Sockets -> Entry]
    BY <1>8, <1>t DEF Entry
  <2>3. sockhash[s].users # {} /\ sockhash'[s].users # {}
    <3>1. sockhash[s].users # {}
      BY <1>8, FS_EmptySet
    <3>2. sockhash[s].users # {current} /\ current \in sockhash[s].users
      BY <1>3, <1>8, <1>u, <3>1, OneUser
    <3> QED  BY <2>2, <3>1, <3>2
  <2>4. TypeInv'
    BY <1>1, <1>t, <2>1, <2>2 DEF SocketInv, TypeInv, TypeOK, Entry
  <2>5. UsersInv'
    BY <1>5, <2>2
  <2>6. EntryInv'
    <3> SUFFICES ASSUME NEW r \in Sockets
                 PROVE  IF sockhash'[r].users = {} THEN sockhash'[r] = NoEntry
                        ELSE /\ r \in opened
                             /\ sockhash'[r].socketp \in Contexts
                             /\ context[sockhash'[r].socketp].state = "open"
                             /\ context[sockhash'[r].socketp].socket = r
      BY <1>1, <2>1 DEF EntryInv
    <3>1. CASE r = s
      BY <2>2, <2>3, <3>1 DEF SocketInv, EntryInv
    <3>2. CASE r # s
      BY <2>2, <3>2 DEF SocketInv, EntryInv
    <3> QED  BY <3>1, <3>2
  <2>7. WatchInv'
    <3> SUFFICES ASSUME NEW r \in Sockets
                 PROVE  /\ watchers[r] # NoContext =>
                              /\ sockhash'[r].socketp = watchers[r]
                              /\ context[watchers[r]].events = UvEvents(sockhash'[r].action)
                        /\ sockhash'[r].users # {} /\ watchers[r] = NoContext =>
                              r \in failed /\ sockhash'[r].users \subseteq running
      BY <1>1, <2>1 DEF WatchInv, UvEvents
    <3>1. CASE r = s
      BY <2>2, <2>3, <3>1 DEF SocketInv, WatchInv
    <3>2. CASE r # s
      BY <2>2, <3>2 DEF SocketInv, WatchInv
    <3> QED  BY <3>1, <3>2
  <2>8. ContextInv'
    <3>1. \A r \in Sockets : sockhash'[r].socketp = sockhash[r].socketp
      BY <2>2
    <3> QED  BY <2>1, <3>1 DEF SocketInv, ContextInv
  <2> QED  BY <1>4, <2>4, <2>5, <2>6, <2>7, <2>8 DEF SocketInv
<1> QED  BY <1>6, <1>7, <1>8 DEF SingleSocketGone

LEMMA EndKeeps ==
    ASSUME SocketInv, SingleSocketEnd
    PROVE  SocketInv'
<1>1. /\ phase = "singlesocket" /\ todo = {}
      /\ asked' = [asked EXCEPT ![current] = want] /\ running' = running \ {current}
      /\ current' = NoTransfer /\ phase' = "run" /\ want' = <<>>
      /\ UNCHANGED <<opened, failed, connected, sockhash, todo, loopPc,
                     watchers, ready, closing, context>>
  BY DEF SingleSocketEnd, uv
<1>2. /\ current \in Transfers /\ current # NoTransfer
      /\ DOMAIN want \subseteq connected[current] \ failed
  BY <1>1, Types DEF SocketInv, RunInv
<1>3. asked \in [Transfers -> Waits] /\ want \in Waits /\ running \in SUBSET Transfers
  BY Types DEF SocketInv
<1>4. asked'[current] = want /\ \A t \in Transfers \ {current} : asked'[t] = asked[t]
  BY <1>1, <1>2, <1>3
<1>5. \A r \in Sockets : current \in sockhash[r].users <=> r \in DOMAIN want
  BY <1>1, <1>2 DEF SocketInv, UsersInv
<1>6. TypeInv'
  <2>1. asked' \in [Transfers -> Waits] /\ want' \in Waits /\ running' \in SUBSET Transfers
    BY <1>1, <1>3, WaitsFacts
  <2>2. \A t \in Transfers : DOMAIN asked'[t] \in SUBSET Sockets
    BY <2>1, WaitsFacts
  <2> QED  BY <1>1, <2>1, <2>2 DEF SocketInv, TypeInv, TypeOK
<1>7. RunInv'
  <2>1. \A t \in Transfers : DOMAIN asked'[t] \subseteq connected[t]
    BY <1>2, <1>4 DEF SocketInv, RunInv
  <2> QED  BY <1>1, <2>1, WaitsFacts DEF RunInv
<1>8. UsersInv'
  <2>1. ASSUME NEW t \in Transfers, NEW r \in Sockets
        PROVE  /\ t \in sockhash[r].users <=> r \in DOMAIN asked'[t]
               /\ r \in DOMAIN asked'[t] => asked'[t][r] \subseteq sockhash[r].action
    <3>1. CASE t = current
      BY <1>1, <1>2, <1>4, <1>5, <3>1 DEF SocketInv, UsersInv
    <3>2. CASE t # current
      BY <1>4, <3>2 DEF SocketInv, UsersInv
    <3> QED  BY <3>1, <3>2
  <2> QED  BY <1>1, <2>1 DEF UsersInv
<1>9. EntryInv'
  BY <1>1 DEF SocketInv, EntryInv
<1>10. WatchInv'
  <2> SUFFICES ASSUME NEW r \in Sockets
               PROVE  /\ watchers[r] # NoContext =>
                            /\ sockhash[r].socketp = watchers[r]
                            /\ context[watchers[r]].events = UvEvents(sockhash[r].action)
                      /\ sockhash[r].users # {} /\ watchers[r] = NoContext =>
                            r \in failed /\ sockhash[r].users \subseteq running'
    BY <1>1 DEF WatchInv, UvEvents
  <2>1. r \in failed => current \notin sockhash[r].users
    BY <1>2, <1>5
  <2> QED  BY <1>1, <2>1 DEF SocketInv, WatchInv
<1>11. ContextInv'
  BY <1>1 DEF SocketInv, ContextInv
<1> QED  BY <1>6, <1>7, <1>8, <1>9, <1>10, <1>11 DEF SocketInv

-----------------------------------------------------------------------------
(***************************************************************************)
(* The loop                                                                *)
(***************************************************************************)

\* While cURL is not running, no transfer is current and every socket with
\* users is watched.
LEMMA IdleFacts ==
    ASSUME SocketInv, Idle
    PROVE  /\ current = NoTransfer /\ phase = "run" /\ todo = {} /\ DOMAIN want = {}
           /\ \A s \in Sockets : sockhash[s].users # {} => watchers[s] # NoContext
  BY Types DEF SocketInv, Idle, RunInv, WatchInv

\* cURL is called: some transfers are to be run.
LEMMA CallKeeps ==
    ASSUME SocketInv, Idle, running' \in SUBSET Transfers,
           UNCHANGED <<connected, opened, asked, sockhash, current, phase, want, todo>>
    PROVE  RunInv' /\ UsersInv'
<1>1. RunInv'
  BY IdleFacts DEF SocketInv, RunInv
<1>2. UsersInv'
  BY DEF SocketInv, UsersInv
<1> QED  BY <1>1, <1>2

LEMMA PerformKeeps ==
    ASSUME SocketInv, PerformRequests
    PROVE  SocketInv'
<1>1. /\ Idle /\ running' \in SUBSET Transfers
      /\ UNCHANGED <<opened, failed, connected, asked, sockhash, current, phase, want, todo, loopPc,
                     watchers, ready, closing, context>>
  BY DEF PerformRequests, SocketAction, uv
<1>2. TypeInv'
  BY <1>1 DEF SocketInv, TypeInv, TypeOK
<1>3. RunInv' /\ UsersInv'
  BY <1>1, CallKeeps
<1>4. EntryInv' /\ WatchInv' /\ ContextInv'
  <2>1. running \subseteq running'
    BY <1>1 DEF Idle
  <2> QED  BY <1>1, <2>1, QuietKeeps
<1> QED  BY <1>2, <1>3, <1>4 DEF SocketInv

LEMMA IoPollKeeps ==
    ASSUME SocketInv, IoPoll
    PROVE  SocketInv'
<1>1. /\ ready' \in [Sockets -> {"", "event", "error"}] /\ loopPc' = "batch"
      /\ UNCHANGED <<opened, failed, connected, asked, sockhash, running, current, phase, want,
                     todo, watchers, closing, context>>
  BY DEF IoPoll, curl
<1>2. TypeInv'
  BY <1>1 DEF SocketInv, TypeInv, TypeOK
<1>3. RunInv' /\ UsersInv'
  BY <1>1 DEF SocketInv, RunInv, UsersInv
<1>4. EntryInv' /\ WatchInv' /\ ContextInv'
  BY <1>1, QuietKeeps
<1> QED  BY <1>2, <1>3, <1>4 DEF SocketInv

LEMMA PollIoKeeps ==
    ASSUME SocketInv, NEW s \in Sockets, PollIo(s)
    PROVE  SocketInv'
<1> DEFINE c == watchers[s]
<1>1. /\ Idle /\ c # NoContext /\ ready' = [ready EXCEPT ![s] = ""]
      /\ UNCHANGED <<opened, failed, connected, asked, sockhash, current, phase, want, todo, loopPc,
                     watchers, closing, context>>
      /\ \E E \in SUBSET Transfers : running' = sockhash[context[c].socket].users \cup E
  BY DEF PollIo, CurlSocketActivity, SocketAction
<1>2. context[c].socket = s
  BY <1>1, EntryFacts DEF SocketInv, WatchInv, EntryInv
<1>3. running' \in SUBSET Transfers
  BY <1>1, <1>2, Types DEF SocketInv, Entry
<1>4. TypeInv'
  <2>1. ready' \in [Sockets -> {"", "event", "error"}]
    BY <1>1, Types DEF SocketInv
  <2> QED  BY <1>1, <1>3, <2>1 DEF SocketInv, TypeInv, TypeOK
<1>5. RunInv' /\ UsersInv'
  BY <1>1, <1>3, CallKeeps
<1>6. EntryInv' /\ WatchInv' /\ ContextInv'
  <2>1. running \subseteq running'
    BY <1>1 DEF Idle
  <2> QED  BY <1>1, <2>1, QuietKeeps
<1> QED  BY <1>4, <1>5, <1>6 DEF SocketInv

\* The handle is stopped, and all users of its socket are run.
LEMMA PollIoErrorKeeps ==
    ASSUME SocketInv, NEW s \in Sockets, PollIoError(s)
    PROVE  SocketInv'
<1> DEFINE c == watchers[s]
<1>1. /\ Idle /\ c # NoContext /\ ready' = [ready EXCEPT ![s] = ""]
      /\ context' = [context EXCEPT ![c].events = {}]
      /\ watchers' = [watchers EXCEPT ![s] = NoContext]
      /\ failed' = failed \cup {s}
      /\ UNCHANGED <<opened, connected, asked, sockhash, current, phase, want, todo, loopPc, closing>>
      /\ \E E \in SUBSET Transfers : running' = sockhash[context[c].socket].users \cup E
  BY DEF PollIoError, CurlSocketActivity, SocketAction
<1>t. /\ sockhash \in [Sockets -> Entry] /\ context \in [Contexts -> Memory]
      /\ watchers \in [Sockets -> Contexts \cup {NoContext}]
      /\ ready \in [Sockets -> {"", "event", "error"}]
      /\ opened \in SUBSET Sockets /\ failed \in SUBSET opened
  BY Types DEF SocketInv
<1>2. /\ context[c].socket = s /\ c \in Contexts /\ sockhash[s].socketp = c
      /\ sockhash[s].users # {} /\ s \in opened
  BY <1>1, EntryFacts DEF SocketInv, WatchInv, EntryInv
<1>3. running' \in SUBSET Transfers /\ sockhash[s].users \subseteq running'
  BY <1>1, <1>2, <1>t DEF Entry
<1>w. running = {} /\ \A r \in Sockets : sockhash[r].users # {} => watchers[r] # NoContext
  BY <1>1, IdleFacts DEF Idle
<1> HIDE DEF c
<1>4. /\ \A d \in Contexts : context'[d].state = context[d].state /\ context'[d].socket = context[d].socket
      /\ \A d \in Contexts \ {c} : context'[d] = context[d]
      /\ context' \in [Contexts -> Memory]
  <2> DEFINE m == [context[c] EXCEPT !.events = {}]
  <2>1. m \in Memory /\ m.state = context[c].state /\ m.socket = context[c].socket
    <3>1. context[c] \in Memory
      BY <1>2, <1>t
    <3> QED  BY <3>1 DEF Memory
  <2>2. context' = [context EXCEPT ![c] = m]
    BY <1>1
  <2> HIDE DEF m
  <2> QED  BY <1>2, <1>t, <2>1, <2>2
<1>5. TypeInv'
  <2>1. /\ ready' \in [Sockets -> {"", "event", "error"}]
        /\ watchers' \in [Sockets -> Contexts \cup {NoContext}]
        /\ failed' \in SUBSET opened
    BY <1>1, <1>2, <1>t
  <2> QED  BY <1>1, <1>3, <1>4, <2>1 DEF SocketInv, TypeInv, TypeOK, Memory
<1>6. RunInv' /\ UsersInv'
  BY <1>1, <1>3, CallKeeps
<1>7. EntryInv'
  BY <1>1, <1>4 DEF SocketInv, EntryInv
<1>8. WatchInv'
  <2> SUFFICES ASSUME NEW r \in Sockets
               PROVE  /\ watchers'[r] # NoContext =>
                            /\ sockhash[r].socketp = watchers'[r]
                            /\ context'[watchers'[r]].events = UvEvents(sockhash[r].action)
                      /\ sockhash[r].users # {} /\ watchers'[r] = NoContext =>
                            r \in failed' /\ sockhash[r].users \subseteq running'
    BY <1>1 DEF WatchInv, UvEvents
  <2>1. CASE r = s
    <3>1. watchers'[s] = NoContext
      BY <1>1, <1>t
    <3> QED  BY <1>1, <1>3, <2>1, <3>1
  <2>2. CASE r # s
    <3>1. watchers'[r] = watchers[r]
      BY <1>1, <1>t, <2>2
    <3>2. watchers[r] # NoContext => watchers[r] \in Contexts \ {c}
      <4>1. watchers[r] # NoContext => sockhash[r].socketp = watchers[r] /\ sockhash[r].users # {}
        BY EntryFacts DEF SocketInv, WatchInv
      <4>2. sockhash[r].users # {} => context[sockhash[r].socketp].socket = r
        BY DEF SocketInv, EntryInv
      <4> QED  BY <1>2, <1>t, <2>2, <4>1, <4>2
    <3> QED  BY <1>4, <1>w, <3>1, <3>2 DEF SocketInv, WatchInv
  <2> QED  BY <2>1, <2>2
<1>9. ContextInv'
  BY <1>1, <1>4 DEF SocketInv, ContextInv
<1> QED  BY <1>5, <1>6, <1>7, <1>8, <1>9 DEF SocketInv

LEMMA ClosingKeeps ==
    ASSUME SocketInv, RunClosingHandles
    PROVE  SocketInv'
<1>1. /\ ready' = [s \in Sockets |-> ""]
      /\ context' = [c \in Contexts |-> IF c \in closing THEN NoMemory ELSE context[c]]
      /\ closing' = {} /\ loopPc' = "timers"
      /\ UNCHANGED <<opened, failed, connected, asked, sockhash, running, current, phase, want,
                     todo, watchers>>
  BY DEF RunClosingHandles, curl
<1>2. NoMemory \in Memory /\ NoMemory.state = "free"
  BY DEF NoMemory, Memory
<1>3. /\ context \in [Contexts -> Memory] /\ context' \in [Contexts -> Memory]
      /\ \A c \in Contexts : context'[c] = IF c \in closing THEN NoMemory ELSE context[c]
  BY <1>1, <1>2, Types DEF SocketInv
<1>4. \A c \in Contexts : context[c].state = "open" => context'[c] = context[c]
  BY <1>3 DEF SocketInv, ContextInv
<1>5. TypeInv'
  BY <1>1, <1>3 DEF SocketInv, TypeInv, TypeOK, Memory
<1>6. RunInv' /\ UsersInv'
  BY <1>1 DEF SocketInv, RunInv, UsersInv
<1>7. EntryInv'
  BY <1>1, <1>4 DEF SocketInv, EntryInv
<1>8. WatchInv'
  <2> SUFFICES ASSUME NEW r \in Sockets
               PROVE  /\ watchers[r] # NoContext =>
                            /\ sockhash[r].socketp = watchers[r]
                            /\ context'[watchers[r]].events = UvEvents(sockhash[r].action)
                      /\ sockhash[r].users # {} /\ watchers[r] = NoContext =>
                            r \in failed /\ sockhash[r].users \subseteq running
    BY <1>1 DEF WatchInv, UvEvents
  <2>1. watchers[r] # NoContext => context'[watchers[r]] = context[watchers[r]]
    <3>1. watchers[r] # NoContext =>
             watchers[r] \in Contexts /\ context[watchers[r]].state = "open"
      BY EntryFacts DEF SocketInv, WatchInv, EntryInv
    <3> QED  BY <1>4, <3>1
  <2> QED  BY <2>1 DEF SocketInv, WatchInv
<1>9. ContextInv'
  BY <1>1, <1>2, <1>3 DEF SocketInv, ContextInv
<1> QED  BY <1>5, <1>6, <1>7, <1>8, <1>9 DEF SocketInv

LEMMA InvNext ==
    ASSUME SocketInv, [Next]_svars
    PROVE  SocketInv'
<1>1. CASE UNCHANGED svars
  <2>1. UNCHANGED <<opened, failed, connected, asked, sockhash, running, current, phase, want,
                    todo, loopPc, watchers, ready, closing, context>>
    BY <1>1 DEF svars, curl, uv
  <2>2. TypeInv'
    BY <2>1 DEF SocketInv, TypeInv, TypeOK
  <2>3. RunInv' /\ UsersInv'
    BY <2>1 DEF SocketInv, RunInv, UsersInv
  <2>4. EntryInv' /\ WatchInv' /\ ContextInv'
    BY <2>1, QuietKeeps
  <2> QED  BY <2>2, <2>3, <2>4 DEF SocketInv
<1> QED
  BY <1>1, RunSingleKeeps, ConnectionKeeps, MultiClosedKeeps, SingleSocketKeeps, AskKeeps,
     GoneKeeps, EndKeeps, PerformKeeps, IoPollKeeps, PollIoKeeps, PollIoErrorKeeps, ClosingKeeps
  DEF Next

LEMMA Invariance == Spec => []SocketInv
  BY InvInit, InvNext, PTL DEF Spec

-----------------------------------------------------------------------------
(***************************************************************************)
(* Theorems                                                                *)
(***************************************************************************)

\* The variables of CurlSockets keep their types.
THEOREM TypeCorrect == Spec => []TypeOK
<1>1. SocketInv => TypeOK
  BY DEF SocketInv, TypeInv
<1> QED  BY <1>1, Invariance, PTL

\* Between two calls into cURL libuv watches every socket that a transfer waits
\* for, for every event it waits for (CurlSocketCallback): no transfer waits for
\* an event nobody will tell it of.
THEOREM NoneForgotten == Spec => []WaitsWatched
<1>1. ASSUME SocketInv PROVE WaitsWatched
  <2> SUFFICES ASSUME Idle, NEW t \in Transfers, NEW s \in DOMAIN asked[t]
               PROVE  /\ watchers[s] # NoContext
                      /\ {UvEvent[e] : e \in asked[t][s]} \subseteq context[watchers[s]].events
    BY <1>1 DEF WaitsWatched
  <2>1. s \in Sockets /\ asked[t][s] \in Actions
    BY <1>1, Types, WaitsFacts DEF SocketInv
  <2>2. t # current
    BY <1>1, IdleFacts, NullAssumption
  <2>3. t \in sockhash[s].users /\ asked[t][s] \subseteq sockhash[s].action
    BY <1>1, <2>1, <2>2 DEF SocketInv, UsersInv
  <2>4. watchers[s] # NoContext /\ context[watchers[s]].events = UvEvents(sockhash[s].action)
    BY <1>1, <2>1, <2>3, IdleFacts DEF SocketInv, WatchInv
  <2>5. \A e \in asked[t][s] : UvEvent[e] \in UvEvents(sockhash[s].action)
    <3> SUFFICES ASSUME NEW e \in asked[t][s] PROVE UvEvent[e] \in UvEvents(sockhash[s].action)
      OBVIOUS
    <3>1. e \in {"in", "out"} /\ e \in sockhash[s].action
      BY <2>1, <2>3 DEF Actions
    <3>2. CASE e = "in"
      BY <3>1, <3>2 DEF UvEvent, UvEvents
    <3>3. CASE e = "out"
      BY <3>1, <3>3 DEF UvEvent, UvEvents
    <3> QED  BY <3>1, <3>2, <3>3
  <2> QED  BY <2>4, <2>5
<1> QED  BY <1>1, Invariance, PTL

\* A descriptor is watched by the context that cURL has for it, and only while
\* it is open: an event is never passed on for the connection that had the
\* descriptor before (CurlContext::Destroy stops the handle at once).
THEOREM WatchersKnown == Spec => []WatchedKnown
<1>1. ASSUME SocketInv PROVE WatchedKnown
  BY <1>1, EntryFacts DEF WatchedKnown, SocketInv, WatchInv, EntryInv
<1> QED  BY <1>1, Invariance, PTL

\* cURL and libuv refer to contexts that are still there, and no context is
\* left that neither of them knows (CurlContext::Destroy and OnClosed).
THEOREM ContextsAreOwned == Spec => []ContextsOwned
<1>1. ASSUME SocketInv PROVE ContextsOwned
  <2>1. \A s \in Sockets : sockhash[s].socketp # NoContext =>
           context[sockhash[s].socketp].state = "open"
    BY <1>1, EntryFacts DEF SocketInv, EntryInv
  <2> QED  BY <1>1, <2>1 DEF ContextsOwned, SocketInv, ContextInv
<1> QED  BY <1>1, Invariance, PTL

\* uv_poll_init_socket, whose result the extension does not look at, never
\* fails because a descriptor is still watched.
THEOREM PollInitNeverFails == Spec => []PollInitSucceeds
<1>1. SocketInv => PollInitSucceeds
  BY DEF SocketInv, ContextInv, PollInitSucceeds
<1> QED  BY <1>1, Invariance, PTL
=============================================================================
