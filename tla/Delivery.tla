------------------------------ MODULE Delivery ------------------------------
(***************************************************************************)
(* What the extension promises about requests, without threads, locks,     *)
(* timers or memory: requests are begun in the order they were submitted,  *)
(* results are handed to plugins in the order the transfers ended, and     *)
(* each request's callback runs at most once.  A request may get no        *)
(* callback: it could not be begun, or nobody was there to be called.      *)
(***************************************************************************)
EXTENDS Naturals, Sequences, Functions

CONSTANT Contexts

VARIABLES
    waiting,    \* submitted, in the order of submission
    inFlight,   \* being transferred
    arrived,    \* transferred, in the order in which the transfers ended
    called,     \* the requests whose callback has run
    lost        \* the requests that ended without a callback

dvars == <<waiting, inFlight, arrived, called, lost>>

Known == Range(waiting) \cup inFlight \cup Range(arrived) \cup called \cup lost

DInit ==
    /\ waiting = <<>> /\ inFlight = {} /\ arrived = <<>>
    /\ called = {} /\ lost = {}

Submit(c) ==
    /\ c \notin Known
    /\ waiting' = Append(waiting, c)
    /\ UNCHANGED <<inFlight, arrived, called, lost>>

Begin ==
    /\ waiting # <<>>
    /\ waiting' = Tail(waiting)
    /\ \/ inFlight' = inFlight \cup {Head(waiting)} /\ UNCHANGED lost
       \/ lost' = lost \cup {Head(waiting)} /\ UNCHANGED inFlight
    /\ UNCHANGED <<arrived, called>>

Finish(c) ==
    /\ c \in inFlight
    /\ inFlight' = inFlight \ {c}
    /\ arrived' = Append(arrived, c)
    /\ UNCHANGED <<waiting, called, lost>>

Deliver ==
    /\ arrived # <<>>
    /\ arrived' = Tail(arrived)
    /\ \/ called' = called \cup {Head(arrived)} /\ UNCHANGED lost
       \/ lost' = lost \cup {Head(arrived)} /\ UNCHANGED called
    /\ UNCHANGED <<waiting, inFlight>>

DNext == \/ \E c \in Contexts : Submit(c) \/ Finish(c)
         \/ Begin
         \/ Deliver

DSpec == DInit /\ [][DNext]_dvars
=============================================================================
