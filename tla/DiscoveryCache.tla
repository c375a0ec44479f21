--------------------------- MODULE DiscoveryCache ---------------------------
(***************************************************************************)
(* The OIDC discovery cache of one provider (internal/idp/registry.go):    *)
(* Discover answers from the cache, starts a fetch in the background or    *)
(* waits for the one in flight; fetch stores what the provider answered.   *)
(*                                                                         *)
(* Every provider has an entry, a mutex and flights of its own, so one     *)
(* provider is enough.  What happens under the mutex is one step; closing  *)
(* the flight's channel comes after the unlock and is a step of its own.   *)
(* A document is represented by the moment its fetch began.                *)
(***************************************************************************)
EXTENDS Integers, FiniteSets

CONSTANTS
    Caller,     \* goroutines that call Discover
    Flight,     \* bound on the flights that exist at the same time
    TTL,        \* discoveryTTL, 24 hours
    MaxAge,     \* discoveryMaxAge, 7 days
    NegTTL,     \* discoveryNegTTL, 60 seconds
    Timeout,    \* discoveryTimeout, 10 seconds
    MaxClock,   \* bound on the clock
    None

ASSUME DiscoveryTimes ==
    /\ TTL \in Nat /\ MaxAge \in Nat \ {0} /\ NegTTL \in Nat /\ Timeout \in Nat /\ MaxClock \in Nat
    /\ TTL <= MaxAge
ASSUME NoneIsNoFlight == None \notin Flight /\ None \notin Nat

VARIABLES
    entry,      \* the cache entry
    flights,
    callers,
    clock,
    lastEnd     \* when the last fetch ended and the last document was stored

dvars == <<entry, flights, callers, clock, lastEnd>>

Entry == [d: Nat \cup {None}, fetchedAt: Nat, retryAfter: Nat, inflight: Flight \cup {None}]

FlightState == [st: {"unused", "fetching", "stored", "closed"}, began: Nat, ok: BOOLEAN]

NoFlight == [st |-> "unused", began |-> 0, ok |-> FALSE]

\* since and covered record, for the properties, when the call was made and
\* whether a document younger than MaxAge had been stored by then.
CallerState == [pc: {"idle", "waiting", "answered"}, flight: Flight \cup {None},
                answer: {"none", "document", "error", "cancelled"},
                doc: Nat \cup {None}, since: Nat, covered: BOOLEAN]

NoCall == [pc |-> "idle", flight |-> None, answer |-> "none", doc |-> None,
           since |-> 0, covered |-> FALSE]

DiscoveryTypeOK ==
    /\ entry \in Entry
    /\ flights \in [Flight -> FlightState]
    /\ callers \in [Caller -> CallerState]
    /\ clock \in Nat
    /\ lastEnd \in [at: Nat \cup {None}, ok: BOOLEAN, stored: Nat \cup {None}]

Init ==
    /\ entry = [d |-> None, fetchedAt |-> 0, retryAfter |-> 0, inflight |-> None]
    /\ flights = [f \in Flight |-> NoFlight]
    /\ callers = [c \in Caller |-> NoCall]
    /\ clock = 0
    /\ lastEnd = [at |-> None, ok |-> FALSE, stored |-> None]

-----------------------------------------------------------------------------
(* Discover *)

Age == clock - entry.fetchedAt

Fresh == entry.d # None /\ Age < TTL

\* Faulty variant: a document is served for as long as renewal fails.
UsableForever == entry.d # None

Usable == entry.d # None /\ Age < MaxAge

Covered == lastEnd.stored # None /\ clock - lastEnd.stored < MaxAge

Call(answer, doc) ==
    [pc |-> "answered", flight |-> None, answer |-> answer, doc |-> doc,
     since |-> clock, covered |-> Covered]

\* Faulty variant: the negative cache is not consulted.
MayStartAlways == entry.inflight = None

\* Faulty variant: a renewal is started although one is in flight.
MayStartAgain == clock >= entry.retryAfter

MayStart == entry.inflight = None /\ clock >= entry.retryAfter

\* The runtime frees a closed flight that no caller refers to any more.
Collected(fl, cs) ==
    [f \in Flight |-> IF fl[f].st = "closed" /\ \A c \in Caller : cs[c].flight # f
                      THEN NoFlight ELSE fl[f]]

Unused(f) == flights[f].st = "unused"

startLocked(f) ==
    /\ Unused(f)
    /\ f = CHOOSE g \in Flight : Unused(g)
    /\ flights' = [flights EXCEPT ![f] = [st |-> "fetching", began |-> clock, ok |-> FALSE]]
    /\ entry' = [entry EXCEPT !.inflight = f]

DiscoverFresh(c) ==
    /\ callers[c].pc # "waiting"
    /\ Fresh
    /\ callers' = [callers EXCEPT ![c] = Call("document", entry.d)]
    /\ UNCHANGED <<entry, flights, clock, lastEnd>>

DiscoverStale(c) ==
    /\ callers[c].pc # "waiting"
    /\ Usable /\ ~Fresh
    /\ callers' = [callers EXCEPT ![c] = Call("document", entry.d)]
    /\ IF MayStart THEN \E f \in Flight : startLocked(f)
                   ELSE UNCHANGED <<entry, flights>>
    /\ UNCHANGED <<clock, lastEnd>>

\* The last error is answered again.
DiscoverRefused(c) ==
    /\ callers[c].pc # "waiting"
    /\ ~Usable
    /\ entry.inflight = None /\ clock < entry.retryAfter
    /\ callers' = [callers EXCEPT ![c] = Call("error", None)]
    /\ UNCHANGED <<entry, flights, clock, lastEnd>>

DiscoverWaits(c) ==
    /\ callers[c].pc # "waiting"
    /\ ~Usable
    /\ entry.inflight # None \/ MayStart
    /\ IF entry.inflight = None THEN \E f \in Flight : startLocked(f)
                                ELSE UNCHANGED <<entry, flights>>
    /\ callers' = [callers EXCEPT ![c] = [NoCall EXCEPT !.pc = "waiting", !.since = clock,
                                            !.flight = entry'.inflight, !.covered = Covered]]
    /\ UNCHANGED <<clock, lastEnd>>

Answered(c, answer, doc) ==
    /\ callers' = [callers EXCEPT ![c] = [@ EXCEPT !.pc = "answered", !.flight = None,
                                                   !.answer = answer, !.doc = doc]]
    /\ flights' = Collected(flights, callers')

\* The result of the flight, whatever its age is by now.
ReceiveDone(c) ==
    LET f == callers[c].flight IN
    /\ callers[c].pc = "waiting"
    /\ flights[f].st = "closed"
    /\ IF flights[f].ok THEN Answered(c, "document", flights[f].began)
                        ELSE Answered(c, "error", None)
    /\ UNCHANGED <<entry, clock, lastEnd>>

\* The caller's context ends; the fetch goes on without it.
ContextDone(c) ==
    /\ callers[c].pc = "waiting"
    /\ Answered(c, "cancelled", None)
    /\ UNCHANGED <<entry, clock, lastEnd>>

-----------------------------------------------------------------------------
(* fetch, in a goroutine of its own *)

\* The fetch has ended and its result is in the entry.
Stored(f, ok) ==
    /\ flights' = [flights EXCEPT ![f].st = "stored", ![f].ok = ok]
    /\ lastEnd' = [at |-> clock, ok |-> ok, stored |-> IF ok THEN clock ELSE lastEnd.stored]

FetchSucceeds(f) ==
    /\ flights[f].st = "fetching"
    /\ entry' = [d |-> flights[f].began, fetchedAt |-> clock, retryAfter |-> 0, inflight |-> None]
    /\ Stored(f, TRUE)
    /\ UNCHANGED <<callers, clock>>

\* Faulty variant: the whole entry is replaced.
FetchFailsForgetting(f) ==
    /\ flights[f].st = "fetching"
    /\ entry' = [d |-> None, fetchedAt |-> clock, retryAfter |-> clock + NegTTL, inflight |-> None]
    /\ Stored(f, FALSE)
    /\ UNCHANGED <<callers, clock>>

\* An error of the provider, a timeout or a panic: the document is kept.
FetchFails(f) ==
    /\ flights[f].st = "fetching"
    /\ entry' = [entry EXCEPT !.retryAfter = clock + NegTTL, !.inflight = None]
    /\ Stored(f, FALSE)
    /\ UNCHANGED <<callers, clock>>

\* Faulty variant: the channel is only closed for a document.
CloseOnSuccess(f) ==
    /\ flights[f].st = "stored" /\ flights[f].ok
    /\ flights' = Collected([flights EXCEPT ![f].st = "closed"], callers)
    /\ UNCHANGED <<entry, callers, clock, lastEnd>>

CloseDone(f) ==
    /\ flights[f].st = "stored"
    /\ flights' = Collected([flights EXCEPT ![f].st = "closed"], callers)
    /\ UNCHANGED <<entry, callers, clock, lastEnd>>

\* A fetch ends within its timeout.
Tick ==
    /\ clock < MaxClock
    /\ \A f \in Flight : flights[f].st = "fetching" => clock < flights[f].began + Timeout
    /\ clock' = clock + 1
    /\ UNCHANGED <<entry, flights, callers, lastEnd>>

-----------------------------------------------------------------------------
Discover(c) == DiscoverFresh(c) \/ DiscoverStale(c) \/ DiscoverRefused(c) \/ DiscoverWaits(c)

Fetch(f) == FetchSucceeds(f) \/ FetchFails(f) \/ CloseDone(f)

Next ==
    \/ \E c \in Caller : Discover(c) \/ ReceiveDone(c) \/ ContextDone(c)
    \/ \E f \in Flight : Fetch(f)
    \/ Tick

\* Goroutines that can run do run; nobody has to call, to cancel or to wait.
Fairness ==
    /\ \A f \in Flight : WF_dvars(Fetch(f))
    /\ \A c \in Caller : WF_dvars(ReceiveDone(c))

Spec == Init /\ [][Next]_dvars /\ Fairness

-----------------------------------------------------------------------------
(* Properties *)

\* The provider never sees two fetches at a time, also not in the gap between
\* the end of one fetch and the moment its waiters are woken; and the entry
\* is always of its type.
SingleFlight ==
    /\ DiscoveryTypeOK
    /\ \A f, g \in Flight : flights[f].st = "fetching" /\ flights[g].st = "fetching" => f = g

\* No fetch begins within NegTTL of the end of a failed one, or within TTL of
\* the end of a successful one, however many logins ask.
FetchesArePaced ==
    [][\A f \in Flight :
         flights[f].st # "fetching" /\ flights'[f].st = "fetching" /\ lastEnd.at # None
         => clock >= lastEnd.at + (IF lastEnd.ok THEN TTL ELSE NegTTL)]_dvars

\* No call is answered with a document whose fetch began more than MaxAge and
\* the time a fetch may take before the call.
NeverTooOld ==
    \A c \in Caller : callers[c].answer = "document" =>
        callers[c].since < callers[c].doc + MaxAge + Timeout

\* While a document younger than MaxAge has been stored, a failing provider
\* is not noticed: no caller waits and none gets an error.
OutageIsCovered ==
    \A c \in Caller : callers[c].covered => callers[c].answer = "document"

\* Every caller that waits for a flight gets an answer.
WaitersAreAnswered ==
    \A c \in Caller : callers[c].pc = "waiting" ~> callers[c].pc # "waiting"
=============================================================================
