------------------------ MODULE DiscoveryCacheProofs ------------------------
(***************************************************************************)
(* The safety properties of DiscoveryCache for any number of callers and   *)
(* flights and any times with 0 < MaxAge and TTL <= MaxAge.                *)
(*                                                                         *)
(* The inductive invariant ties the pieces of state that fetch and         *)
(* Discover write in different steps: the flight in the entry is the one   *)
(* that is fetching (FlightInv), the entry's times are those of the last   *)
(* fetches (EntryInv), and a waiting caller waits on a flight that still   *)
(* exists and was young when the call was made (CallerInv).                *)
(***************************************************************************)
EXTENDS DiscoveryCache, TLAPS

FlightInv ==
    \A f \in Flight :
        /\ flights[f].st = "fetching" <=> entry.inflight = f
        /\ flights[f].st # "unused" => flights[f].began <= clock
        /\ flights[f].st = "fetching" => clock <= flights[f].began + Timeout

EntryInv ==
    /\ entry.d # None =>
         /\ entry.d <= entry.fetchedAt
         /\ entry.fetchedAt <= entry.d + Timeout
         /\ entry.fetchedAt <= clock
    /\ lastEnd.stored = IF entry.d = None THEN None ELSE entry.fetchedAt
    /\ lastEnd.at # None =>
         IF lastEnd.ok THEN entry.d # None /\ entry.fetchedAt = lastEnd.at
                       ELSE entry.retryAfter = lastEnd.at + NegTTL

CallerInv ==
    \A c \in Caller :
        /\ callers[c].pc = "waiting" =>
             /\ callers[c].flight \in Flight
             /\ callers[c].answer = "none"
             /\ ~callers[c].covered
             /\ flights[callers[c].flight].st # "unused"
             /\ callers[c].since <= flights[callers[c].flight].began + Timeout
        /\ callers[c].answer = "document" =>
             /\ callers[c].doc \in Nat
             /\ callers[c].since < callers[c].doc + MaxAge + Timeout
        /\ callers[c].covered => callers[c].answer = "document"

DiscoveryIInv == DiscoveryTypeOK /\ FlightInv /\ EntryInv /\ CallerInv

-----------------------------------------------------------------------------
(* Shape of single values *)

\* What Discover stores for a call it answers at once.
LEMMA CallShape ==
    ASSUME DiscoveryTypeOK, NEW a \in {"document", "error"}, NEW d \in Nat \cup {None}
    PROVE  /\ Call(a, d) \in CallerState
           /\ Call(a, d).pc = "answered" /\ Call(a, d).answer = a
           /\ Call(a, d).doc = d /\ Call(a, d).since = clock /\ Call(a, d).covered = Covered
           /\ Call(a, d).flight = None
  <1>1. Covered \in BOOLEAN
    BY DEF Covered
  <1> QED BY <1>1 DEF Call, CallerState, DiscoveryTypeOK

\* Covered and Usable are the same: the entry and the history of the fetches
\* agree on what is stored.
LEMMA CoveredIsUsable == ASSUME DiscoveryTypeOK, EntryInv PROVE Covered <=> Usable
  <1>1. entry.fetchedAt # None
    BY NoneIsNoFlight DEF DiscoveryTypeOK, Entry
  <1>2. CASE entry.d = None
    BY <1>2 DEF EntryInv, Covered, Usable
  <1>3. CASE entry.d # None
    BY <1>1, <1>3 DEF EntryInv, Covered, Usable, Age
  <1> QED BY <1>2, <1>3

\* A slot that is not used is a flight in form.
LEMMA NoFlightShape == NoFlight \in FlightState /\ NoFlight.st = "unused"
  BY DEF NoFlight, FlightState

\* Collecting a flight leaves every other flight alone, and every flight that
\* a caller refers to.
LEMMA CollectedShape ==
    ASSUME NEW fl \in [Flight -> FlightState], NEW cs \in [Caller -> CallerState]
    PROVE  /\ Collected(fl, cs) \in [Flight -> FlightState]
           /\ \A f \in Flight : Collected(fl, cs)[f] = fl[f]
                \/ (Collected(fl, cs)[f] = NoFlight /\ fl[f].st = "closed")
           /\ \A c \in Caller : cs[c].flight \in Flight =>
                Collected(fl, cs)[cs[c].flight] = fl[cs[c].flight]
  BY NoFlightShape DEF Collected

-----------------------------------------------------------------------------
(* The steps *)

\* Before the first call the entry is empty.
LEMMA DiscoveryInit == Init => DiscoveryIInv
  <1>1. NoFlight \in FlightState /\ NoFlight.st = "unused"
    BY DEF NoFlight, FlightState
  <1>2. NoCall \in CallerState /\ NoCall.pc = "idle" /\ NoCall.answer = "none" /\ ~NoCall.covered
    BY DEF NoCall, CallerState
  <1> QED
    BY <1>1, <1>2, NoneIsNoFlight
    DEF Init, DiscoveryIInv, DiscoveryTypeOK, FlightInv, EntryInv, CallerInv, Entry

\* A call that is answered from the entry.
LEMMA AnsweredFromEntry ==
    ASSUME DiscoveryIInv, NEW c \in Caller, Usable,
           callers' = [callers EXCEPT ![c] = Call("document", entry.d)],
           flights' \in [Flight -> FlightState],
           \A f \in Flight : flights[f].st # "unused" => flights'[f] = flights[f]
    PROVE  callers' \in [Caller -> CallerState] /\ CallerInv'
  <1> USE DEF DiscoveryIInv, DiscoveryTypeOK
  <1>1. entry.d \in Nat /\ entry.d # None
    BY DEF Usable, Entry
  <1>2. clock < entry.d + MaxAge + Timeout
    BY <1>1, DiscoveryTimes DEF Usable, Age, EntryInv, Entry
  <1>3. callers' \in [Caller -> CallerState]
    BY <1>1, CallShape
  <1>4. callers'[c] = Call("document", entry.d)
    OBVIOUS
  <1>5. \A x \in Caller : x # c => callers'[x] = callers[x]
    OBVIOUS
  <1> QED
    BY <1>1, <1>2, <1>3, <1>4, <1>5, CallShape DEF CallerInv, CallerState

\* A fetch that is started when none is in flight.
LEMMA StartShape ==
    ASSUME DiscoveryIInv, NEW f \in Flight, startLocked(f), entry.inflight = None,
           UNCHANGED <<clock, lastEnd>>
    PROVE  /\ entry' \in Entry /\ flights' \in [Flight -> FlightState]
           /\ FlightInv' /\ EntryInv'
           /\ \A g \in Flight : flights[g].st # "unused" => flights'[g] = flights[g]
           /\ entry'.inflight = f /\ flights'[f].st = "fetching" /\ flights'[f].began = clock
  <1> USE DEF DiscoveryIInv, DiscoveryTypeOK
  <1> DEFINE new == [st |-> "fetching", began |-> clock, ok |-> FALSE]
  <1>1. new \in FlightState /\ new.st = "fetching" /\ new.began = clock
    BY DEF FlightState
  <1>2. flights' = [flights EXCEPT ![f] = new] /\ flights[f].st = "unused"
    BY DEF startLocked, Unused
  <1>3. /\ entry' \in Entry /\ entry'.inflight = f
        /\ entry'.d = entry.d /\ entry'.fetchedAt = entry.fetchedAt
        /\ entry'.retryAfter = entry.retryAfter
    BY DEF startLocked, Entry
  <1>4. flights' \in [Flight -> FlightState] /\ flights'[f] = new
        /\ \A g \in Flight : g # f => flights'[g] = flights[g]
    BY <1>1, <1>2
  <1>5. FlightInv'
    BY <1>1, <1>2, <1>3, <1>4, NoneIsNoFlight, DiscoveryTimes DEF FlightInv
  <1>6. EntryInv'
    BY <1>3 DEF EntryInv
  <1> QED BY <1>1, <1>2, <1>3, <1>4, <1>5, <1>6

\* Discover, one step per way it can go.
LEMMA DiscoverStep ==
    ASSUME DiscoveryIInv, NEW c \in Caller, Discover(c)
    PROVE  DiscoveryIInv'
  <1> USE DEF DiscoveryIInv, DiscoveryTypeOK
  <1>1. CASE DiscoverFresh(c)
    <2>1. Usable
      BY <1>1, DiscoveryTimes DEF DiscoverFresh, Fresh, Usable, Age, Entry
    <2>2. callers' \in [Caller -> CallerState] /\ CallerInv'
      BY <1>1, <2>1, AnsweredFromEntry DEF DiscoverFresh
    <2> QED BY <1>1, <2>2 DEF DiscoverFresh, FlightInv, EntryInv
  <1>2. CASE DiscoverStale(c)
    <2>1. CASE MayStart
      <3>1. PICK f \in Flight : startLocked(f)
        BY <1>2, <2>1 DEF DiscoverStale
      <3>2. entry.inflight = None /\ UNCHANGED <<clock, lastEnd>>
        BY <1>2, <2>1 DEF DiscoverStale, MayStart
      <3>3. /\ entry' \in Entry /\ flights' \in [Flight -> FlightState]
            /\ FlightInv' /\ EntryInv'
            /\ \A g \in Flight : flights[g].st # "unused" => flights'[g] = flights[g]
        BY <3>1, <3>2, StartShape
      <3>4. callers' \in [Caller -> CallerState] /\ CallerInv'
        BY <1>2, <3>3, AnsweredFromEntry DEF DiscoverStale
      <3> QED BY <3>2, <3>3, <3>4
    <2>2. CASE ~MayStart
      <3>1. UNCHANGED <<entry, flights, clock, lastEnd>>
        BY <1>2, <2>2 DEF DiscoverStale
      <3>2. callers' \in [Caller -> CallerState] /\ CallerInv'
        BY <1>2, <3>1, AnsweredFromEntry DEF DiscoverStale
      <3> QED BY <3>1, <3>2 DEF FlightInv, EntryInv
    <2> QED BY <2>1, <2>2
  <1>3. CASE DiscoverRefused(c)
    <2>1. ~Covered
      BY <1>3, CoveredIsUsable DEF DiscoverRefused
    <2>2. callers' \in [Caller -> CallerState] /\ callers'[c] = Call("error", None)
          /\ \A x \in Caller : x # c => callers'[x] = callers[x]
      <3>1. Call("error", None) \in CallerState
        BY CallShape
      <3>2. callers' = [callers EXCEPT ![c] = Call("error", None)]
        BY <1>3 DEF DiscoverRefused
      <3> QED BY <3>1, <3>2
    <2>3. Call("error", None).answer = "error" /\ Call("error", None).pc = "answered"
          /\ Call("error", None).covered = Covered
      BY CallShape
    <2>4. UNCHANGED <<entry, flights, clock, lastEnd>>
      BY <1>3 DEF DiscoverRefused
    <2>5. CallerInv'
      BY <2>1, <2>2, <2>3, <2>4 DEF CallerInv
    <2> QED BY <2>2, <2>4, <2>5 DEF FlightInv, EntryInv
  <1>4. CASE DiscoverWaits(c)
    <2> DEFINE call == [NoCall EXCEPT !.pc = "waiting", !.since = clock,
                                      !.flight = entry'.inflight, !.covered = Covered]
    <2>1. ~Covered /\ UNCHANGED <<clock, lastEnd>>
      BY <1>4, CoveredIsUsable DEF DiscoverWaits
    <2>2. /\ entry' \in Entry /\ flights' \in [Flight -> FlightState]
          /\ FlightInv' /\ EntryInv'
          /\ \A g \in Flight : flights[g].st # "unused" => flights'[g] = flights[g]
          /\ entry'.inflight \in Flight
          /\ flights'[entry'.inflight].st = "fetching"
      <3>1. CASE entry.inflight = None
        <4>1. PICK f \in Flight : startLocked(f)
          BY <1>4, <3>1 DEF DiscoverWaits
        <4> QED BY <2>1, <3>1, <4>1, StartShape
      <3>2. CASE entry.inflight # None
        <4>1. UNCHANGED <<entry, flights>>
          BY <1>4, <3>2 DEF DiscoverWaits
        <4>2. entry.inflight \in Flight
          BY <3>2 DEF Entry
        <4> QED BY <2>1, <4>1, <4>2 DEF FlightInv, EntryInv
      <3> QED BY <3>1, <3>2
    <2>3. /\ call \in CallerState /\ call.pc = "waiting" /\ call.flight = entry'.inflight
          /\ call.answer = "none" /\ ~call.covered /\ call.since = clock
      <3>1. Covered \in BOOLEAN /\ NoCall \in CallerState /\ NoCall.answer = "none"
        BY DEF Covered, NoCall, CallerState
      <3> QED BY <2>1, <2>2, <3>1 DEF CallerState
    <2>4. callers' = [callers EXCEPT ![c] = call]
      BY <1>4 DEF DiscoverWaits
    <2>5. callers' \in [Caller -> CallerState] /\ callers'[c] = call
          /\ \A x \in Caller : x # c => callers'[x] = callers[x]
      BY <2>3, <2>4
    <2>6. clock <= flights'[entry'.inflight].began + Timeout
      BY <2>1, <2>2 DEF FlightInv
    <2> HIDE DEF call
    <2>7. CallerInv'
      BY <2>2, <2>3, <2>5, <2>6 DEF CallerInv
    <2> QED BY <2>1, <2>2, <2>5, <2>7
  <1> QED BY <1>1, <1>2, <1>3, <1>4 DEF Discover

\* A waiting caller is answered, and its flight may be collected.
LEMMA AnsweredShape ==
    ASSUME DiscoveryIInv, NEW c \in Caller, callers[c].pc = "waiting",
           NEW a \in {"document", "error", "cancelled"}, NEW d \in Nat \cup {None},
           Answered(c, a, d), UNCHANGED <<entry, clock, lastEnd>>,
           a = "document" => d \in Nat /\ callers[c].since < d + MaxAge + Timeout
    PROVE  DiscoveryIInv'
  <1> USE DEF DiscoveryIInv, DiscoveryTypeOK
  <1> DEFINE row == [callers[c] EXCEPT !.pc = "answered", !.flight = None, !.answer = a, !.doc = d]
  <1>1. /\ row \in CallerState /\ row.pc = "answered" /\ row.flight = None /\ row.answer = a
        /\ row.doc = d /\ row.since = callers[c].since /\ row.covered = callers[c].covered
    BY DEF CallerState
  <1>2. callers' = [callers EXCEPT ![c] = row] /\ flights' = Collected(flights, callers')
    BY DEF Answered
  <1>3. callers' \in [Caller -> CallerState] /\ callers'[c] = row
        /\ \A x \in Caller : x # c => callers'[x] = callers[x]
    BY <1>1, <1>2
  <1> HIDE DEF row
  <1>4. /\ flights' \in [Flight -> FlightState]
        /\ \A f \in Flight : flights'[f] = flights[f]
                \/ (flights'[f] = NoFlight /\ flights[f].st = "closed")
        /\ \A x \in Caller : callers'[x].flight \in Flight =>
                flights'[callers'[x].flight] = flights[callers'[x].flight]
    BY <1>2, <1>3, NoFlightShape DEF Collected
  <1>5. NoFlight.st = "unused"
    BY DEF NoFlight
  <1>6. FlightInv'
    BY <1>4, <1>5 DEF FlightInv
  <1>7. CallerInv'
    BY <1>1, <1>3, <1>4 DEF CallerInv
  <1> QED BY <1>3, <1>4, <1>6, <1>7 DEF EntryInv

\* A waiter whose channel is closed takes the answer of its flight.
LEMMA ReceiveStep ==
    ASSUME DiscoveryIInv, NEW c \in Caller, ReceiveDone(c)
    PROVE  DiscoveryIInv'
  <1> USE DEF DiscoveryIInv, DiscoveryTypeOK
  <1> DEFINE f == callers[c].flight
  <1>1. /\ callers[c].pc = "waiting" /\ UNCHANGED <<entry, clock, lastEnd>>
        /\ IF flights[f].ok THEN Answered(c, "document", flights[f].began)
                            ELSE Answered(c, "error", None)
    BY DEF ReceiveDone
  <1>2. f \in Flight /\ callers[c].since <= flights[f].began + Timeout
    BY <1>1 DEF CallerInv
  <1>3. flights[f].began \in Nat /\ callers[c].since \in Nat
    BY <1>2 DEF FlightState, CallerState
  <1>4. callers[c].since < flights[f].began + MaxAge + Timeout
    BY <1>2, <1>3, DiscoveryTimes
  <1>5. CASE flights[f].ok
    BY <1>1, <1>3, <1>4, <1>5, AnsweredShape
  <1>6. CASE ~flights[f].ok
    BY <1>1, <1>6, AnsweredShape
  <1> QED BY <1>5, <1>6

\* A fetch that ends: its flight leaves the entry, and stays where its
\* waiters find it.
LEMMA StoredShape ==
    ASSUME DiscoveryIInv, NEW f \in Flight, flights[f].st = "fetching", NEW ok \in BOOLEAN,
           Stored(f, ok), entry'.inflight = None, UNCHANGED <<callers, clock>>
    PROVE  /\ flights' \in [Flight -> FlightState]
           /\ FlightInv' /\ CallerInv'
  <1> USE DEF DiscoveryIInv, DiscoveryTypeOK
  <1>1. /\ flights' \in [Flight -> FlightState]
        /\ flights'[f].st = "stored" /\ flights'[f].began = flights[f].began
        /\ \A g \in Flight : g # f => flights'[g] = flights[g]
    BY DEF Stored, FlightState
  <1>2. FlightInv'
    BY <1>1, NoneIsNoFlight DEF FlightInv
  <1>3. CallerInv'
    BY <1>1 DEF CallerInv
  <1> QED BY <1>1, <1>2, <1>3

\* A fetch ends, with a document or an error, and writes the entry.
LEMMA FetchStep ==
    ASSUME DiscoveryIInv, NEW f \in Flight, Fetch(f)
    PROVE  DiscoveryIInv'
  <1> USE DEF DiscoveryIInv, DiscoveryTypeOK
  <1>1. CASE FetchSucceeds(f)
    <2>1. /\ flights[f].st = "fetching" /\ Stored(f, TRUE) /\ UNCHANGED <<callers, clock>>
          /\ entry' = [d |-> flights[f].began, fetchedAt |-> clock, retryAfter |-> 0, inflight |-> None]
      BY <1>1 DEF FetchSucceeds
    <2>2. flights[f].began \in Nat /\ flights[f].began <= clock
          /\ clock <= flights[f].began + Timeout
      BY <2>1 DEF FlightInv, FlightState
    <2>3. entry' \in Entry /\ entry'.inflight = None /\ entry'.d = flights[f].began
          /\ entry'.fetchedAt = clock
      BY <2>1, <2>2 DEF Entry
    <2>4. lastEnd' = [at |-> clock, ok |-> TRUE, stored |-> clock]
      BY <2>1 DEF Stored
    <2>5. EntryInv'
      BY <2>1, <2>2, <2>3, <2>4, NoneIsNoFlight DEF EntryInv
    <2>6. flights' \in [Flight -> FlightState] /\ FlightInv' /\ CallerInv'
      BY <2>1, <2>3, StoredShape
    <2> QED BY <2>1, <2>3, <2>4, <2>5, <2>6
  <1>2. CASE FetchFails(f)
    <2>1. /\ flights[f].st = "fetching" /\ Stored(f, FALSE) /\ UNCHANGED <<callers, clock>>
          /\ entry' = [entry EXCEPT !.retryAfter = clock + NegTTL, !.inflight = None]
      BY <1>2 DEF FetchFails
    <2>2. /\ entry' \in Entry /\ entry'.inflight = None /\ entry'.d = entry.d
          /\ entry'.fetchedAt = entry.fetchedAt /\ entry'.retryAfter = clock + NegTTL
      <3>1. clock + NegTTL \in Nat
        BY DiscoveryTimes
      <3> QED BY <2>1, <3>1 DEF Entry
    <2>3. lastEnd' = [at |-> clock, ok |-> FALSE, stored |-> lastEnd.stored]
      BY <2>1 DEF Stored
    <2>4. EntryInv'
      BY <2>1, <2>2, <2>3 DEF EntryInv
    <2>5. flights' \in [Flight -> FlightState] /\ FlightInv' /\ CallerInv'
      BY <2>1, <2>2, StoredShape
    <2> QED BY <2>1, <2>2, <2>3, <2>4, <2>5
  <1>3. CASE CloseDone(f)
    <2> DEFINE fl == [flights EXCEPT ![f].st = "closed"]
    <2>1. /\ flights[f].st = "stored" /\ flights' = Collected(fl, callers)
          /\ UNCHANGED <<entry, callers, clock, lastEnd>>
      BY <1>3 DEF CloseDone
    <2>2. /\ fl \in [Flight -> FlightState]
          /\ fl[f].st = "closed" /\ fl[f].began = flights[f].began
          /\ \A g \in Flight : g # f => fl[g] = flights[g]
      BY DEF FlightState
    <2> HIDE DEF fl
    <2>3. /\ flights' \in [Flight -> FlightState]
          /\ \A g \in Flight : flights'[g] = fl[g]
                \/ (flights'[g] = NoFlight /\ fl[g].st = "closed")
          /\ \A c \in Caller : callers[c].flight \in Flight =>
                flights'[callers[c].flight] = fl[callers[c].flight]
      BY <2>1, <2>2, CollectedShape
    <2>4. NoFlight.st = "unused"
      BY DEF NoFlight
    <2>5. FlightInv'
      BY <2>1, <2>2, <2>3, <2>4 DEF FlightInv
    <2>6. CallerInv'
      BY <2>1, <2>2, <2>3 DEF CallerInv
    <2> QED BY <2>1, <2>3, <2>5, <2>6 DEF EntryInv
  <1> QED BY <1>1, <1>2, <1>3 DEF Fetch

\* Time passes, but not beyond the deadline of a fetch.
LEMMA TickStep == ASSUME DiscoveryIInv, Tick PROVE DiscoveryIInv'
  <1> USE DEF DiscoveryIInv, DiscoveryTypeOK
  <1>1. clock' = clock + 1 /\ UNCHANGED <<entry, flights, callers, lastEnd>>
    BY DEF Tick
  <1>2. \A f \in Flight : flights[f].st = "fetching" => clock < flights[f].began + Timeout
    BY DEF Tick
  <1>3. \A f \in Flight : flights[f].began \in Nat
    BY DEF FlightState
  <1>4. FlightInv'
    BY <1>1, <1>2, <1>3, DiscoveryTimes DEF FlightInv
  <1>5. EntryInv'
    BY <1>1 DEF EntryInv, Entry
  <1>6. CallerInv'
    BY <1>1 DEF CallerInv
  <1> QED BY <1>1, <1>4, <1>5, <1>6

\* Every step keeps the invariant.
LEMMA DiscoveryNext == ASSUME DiscoveryIInv, [Next]_dvars PROVE DiscoveryIInv'
  <1>1. ASSUME NEW c \in Caller, Discover(c) \/ ReceiveDone(c) PROVE DiscoveryIInv'
    BY <1>1, DiscoverStep, ReceiveStep
  <1>2. ASSUME NEW c \in Caller, ContextDone(c) PROVE DiscoveryIInv'
    BY <1>2, AnsweredShape DEF ContextDone
  <1>3. ASSUME NEW f \in Flight, Fetch(f) PROVE DiscoveryIInv'
    BY <1>3, FetchStep
  <1>4. CASE Tick
    BY <1>4, TickStep
  <1>5. CASE UNCHANGED dvars
    BY <1>5 DEF dvars, DiscoveryIInv, DiscoveryTypeOK, FlightInv, EntryInv, CallerInv
  <1> QED BY <1>1, <1>2, <1>3, <1>4, <1>5 DEF Next

-----------------------------------------------------------------------------
(* The theorems *)

\* With any callers and times: the flight in the entry is the one that
\* fetches, the times of the entry are those of the last fetches, and a
\* waiter's flight was young when it was joined (idp/registry.go Discover,
\* fetch).
THEOREM DiscoveryInvariant == Spec => []DiscoveryIInv
  <1>1. Init => DiscoveryIInv
    BY DiscoveryInit
  <1>2. DiscoveryIInv /\ [Next]_dvars => DiscoveryIInv'
    BY DiscoveryNext
  <1> QED BY <1>1, <1>2, PTL DEF Spec

\* startLocked and fetch: the provider never sees two fetches at a time, for
\* any number of callers.
THEOREM OneFetchAtATime == Spec => []SingleFlight
  <1>1. DiscoveryIInv => SingleFlight
    BY DEF DiscoveryIInv, FlightInv, SingleFlight
  <1> QED BY <1>1, DiscoveryInvariant, PTL

\* Discover: no call is answered with a document that was more than MaxAge
\* and a fetch's time old when the call was made.
THEOREM DocumentsAreNeverTooOld == Spec => []NeverTooOld
  <1>1. DiscoveryIInv => NeverTooOld
    BY DEF DiscoveryIInv, CallerInv, NeverTooOld
  <1> QED BY <1>1, DiscoveryInvariant, PTL

\* Discover and fetch: while a stored document is younger than MaxAge, every
\* call is answered with a document.
THEOREM OutagesAreCovered == Spec => []OutageIsCovered
  <1>1. DiscoveryIInv => OutageIsCovered
    BY DEF DiscoveryIInv, CallerInv, OutageIsCovered
  <1> QED BY <1>1, DiscoveryInvariant, PTL

\* startLocked's callers: no fetch begins within NegTTL of a failure or
\* within TTL of a success.
THEOREM PacedFetches == Spec => FetchesArePaced
  <1> DEFINE Pace == \A f \in Flight :
         flights[f].st # "fetching" /\ flights'[f].st = "fetching" /\ lastEnd.at # None
         => clock >= lastEnd.at + (IF lastEnd.ok THEN TTL ELSE NegTTL)
  <1>1. ASSUME DiscoveryIInv, [Next]_dvars PROVE [Pace]_dvars
    <2> USE <1>1 DEF DiscoveryIInv, DiscoveryTypeOK
    <2>1. ASSUME ~Fresh, MayStart, lastEnd.at # None
          PROVE  clock >= lastEnd.at + (IF lastEnd.ok THEN TTL ELSE NegTTL)
      <3>1. lastEnd.at \in Nat /\ entry.fetchedAt \in Nat /\ clock \in Nat
        BY <2>1 DEF Entry
      <3>2. CASE lastEnd.ok
        <4>1. entry.d # None /\ entry.fetchedAt = lastEnd.at
          BY <2>1, <3>2 DEF EntryInv
        <4> QED BY <2>1, <3>1, <3>2, <4>1, DiscoveryTimes DEF Fresh, Age
      <3>3. CASE ~lastEnd.ok
        BY <2>1, <3>1, <3>3, DiscoveryTimes DEF EntryInv, MayStart
      <3> QED BY <3>2, <3>3
    <2>2. ASSUME NEW c \in Caller, Discover(c) PROVE Pace
      <3>1. CASE UNCHANGED flights
        BY <3>1
      <3>2. CASE ~Fresh /\ MayStart
        BY <2>1, <3>2
      <3>3. Usable \/ ~Fresh
        BY DiscoveryTimes DEF Fresh, Usable, Age, Entry
      <3> QED
        BY <2>2, <3>1, <3>2, <3>3
        DEF Discover, DiscoverFresh, DiscoverStale, DiscoverRefused, DiscoverWaits
    <2>3. ASSUME NEW c \in Caller, NEW a, NEW d, Answered(c, a, d), callers[c] \in CallerState,
                 callers' \in [Caller -> CallerState]
          PROVE  Pace
      <3>1. \A f \in Flight : flights'[f] = flights[f] \/ flights'[f] = NoFlight
        BY <2>3 DEF Answered, Collected
      <3> QED BY <3>1, NoFlightShape
    <2>4. ASSUME NEW c \in Caller, ReceiveDone(c) \/ ContextDone(c) PROVE Pace
      <3>1. callers' \in [Caller -> CallerState]
        BY <1>1, DiscoveryNext
      <3> QED BY <2>3, <2>4, <3>1 DEF ReceiveDone, ContextDone
    <2>5. ASSUME NEW f \in Flight, Fetch(f) PROVE Pace
      <3>1. CASE FetchSucceeds(f) \/ FetchFails(f)
        BY <3>1 DEF FetchSucceeds, FetchFails, Stored, FlightState
      <3>2. CASE CloseDone(f)
        <4> DEFINE fl == [flights EXCEPT ![f].st = "closed"]
        <4>1. fl \in [Flight -> FlightState] /\ fl[f].st = "closed"
              /\ \A g \in Flight : g # f => fl[g] = flights[g]
          BY DEF FlightState
        <4>2. flights' = Collected(fl, callers)
          BY <3>2 DEF CloseDone
        <4> HIDE DEF fl
        <4> QED BY <4>1, <4>2, CollectedShape DEF NoFlight
      <3> QED BY <2>5, <3>1, <3>2 DEF Fetch
    <2>6. CASE Tick
      BY <2>6 DEF Tick
    <2> QED BY <1>1, <2>2, <2>4, <2>5, <2>6 DEF Next
  <1> QED BY <1>1, DiscoveryInvariant, PTL DEF Spec, FetchesArePaced
=============================================================================
