------------------------- MODULE AuditServiceProofs -------------------------
(***************************************************************************)
(* The safety properties of AuditService for any set of handlers and any   *)
(* capacity of the queue.                                                  *)
(*                                                                         *)
(* That no Log sends on the closed channel follows from the lock alone     *)
(* (LockInv).  That a clean end loses nothing needs two more facts: how    *)
(* far main is says what has already stopped (PhaseInv), and an event is   *)
(* at every moment in exactly one of the places it passes through          *)
(* (EventInv).  An end that a deadline, a failing server or a failing      *)
(* write hurried along promises neither.                                   *)
(***************************************************************************)
EXTENDS AuditService, TLAPS

\* Main has stopped waiting for the handlers; for the mail; for the writer.
HandlersOver == main \in {"sends", "locking", "draining", "dbclose", "exited"}
SendsOver == main \in {"locking", "draining", "dbclose", "exited"}
CloseOver == main \in {"dbclose", "exited"}

LockInv ==
    \A h \in Handler :
        /\ log[h] \in {"checked", "refused"} => h \in readers
        /\ log[h] = "checked" => ~closed
        /\ log[h] = "refused" => closed
        /\ log[h] # "panicked"

PhaseInv ==
    /\ closed => main \in {"draining", "dbclose", "exited"}
    /\ ~db => CloseOver
    /\ writer = "done" => closed /\ queue = <<>>
    /\ stop => hurried
    /\ \A h \in Handler : log[h] \in {"called", "checked", "refused"} => h \in running
    /\ HandlersOver /\ ~hurried => running = {}
    /\ SendsOver /\ ~hurried => \A h \in Handler : mail[h] # "sending"
    /\ CloseOver /\ ~hurried => writer = "done"

In(h, seq) == \E i \in DOMAIN seq : seq[i] = h

EventInv ==
    ~hurried => \A h \in Handler :
        /\ sync[h] # "failed"
        /\ log[h] = "returned" => lost[h] = "full" \/ In(h, queue) \/ writer = h \/ In(h, rows)

\* The late write, if there was one, is behind the writer, and from then on
\* it finds stop closed.
LateInv == late \in {0, 1} /\ (late # 0 => stop /\ ~checked)

AuditIInv == AuditTypeOK /\ LockInv /\ PhaseInv /\ EventInv /\ LateInv

-----------------------------------------------------------------------------
(* The queue *)

\* An appended event is in the sequence, and nothing else is new there.
LEMMA InAppend ==
    ASSUME NEW S, NEW q \in Seq(S), NEW e \in S, NEW h
    PROVE  In(h, Append(q, e)) <=> In(h, q) \/ h = e
  <1> DEFINE a == Append(q, e)
  <1>1. /\ Len(q) \in Nat /\ DOMAIN q = 1 .. Len(q) /\ DOMAIN a = 1 .. Len(q) + 1
        /\ a[Len(q) + 1] = e /\ \A i \in 1 .. Len(q) : a[i] = q[i]
    OBVIOUS
  <1> HIDE DEF a
  <1>2. \A i \in DOMAIN a : i \in DOMAIN q \/ i = Len(q) + 1
    BY <1>1
  <1>3. \A i \in DOMAIN q : i \in DOMAIN a /\ a[i] = q[i]
    BY <1>1
  <1>4. Len(q) + 1 \in DOMAIN a
    BY <1>1
  <1>5. In(h, a) <=> In(h, q) \/ h = e
    BY <1>1, <1>2, <1>3, <1>4 DEF In
  <1> QED BY <1>5 DEF a

\* What leaves the front of a sequence is all that leaves it.
LEMMA InTail ==
    ASSUME NEW S, NEW q \in Seq(S), q # <<>>, NEW h
    PROVE  In(h, q) <=> h = Head(q) \/ In(h, Tail(q))
  <1>1. Len(q) \in Nat \ {0} /\ DOMAIN q = 1 .. Len(q)
    OBVIOUS
  <1>2. Tail(q) \in Seq(S) /\ Len(Tail(q)) = Len(q) - 1 /\ Head(q) = q[1]
        /\ \A i \in 1 .. Len(q) - 1 : Tail(q)[i] = q[i + 1]
    BY <1>1
  <1>3. ASSUME In(h, q) PROVE h = Head(q) \/ In(h, Tail(q))
    <2>1. PICK i \in 1 .. Len(q) : q[i] = h
      BY <1>1, <1>3 DEF In
    <2>2. CASE i = 1
      BY <1>2, <2>1, <2>2
    <2>3. CASE i # 1
      <3>1. i - 1 \in 1 .. Len(q) - 1 /\ Tail(q)[i - 1] = h
        BY <1>1, <1>2, <2>1, <2>3
      <3>2. DOMAIN Tail(q) = 1 .. Len(q) - 1
        BY <1>2
      <3> QED BY <3>1, <3>2 DEF In
    <2> QED BY <2>2, <2>3
  <1>4. ASSUME h = Head(q) PROVE In(h, q)
    BY <1>1, <1>2, <1>4 DEF In
  <1>5. ASSUME In(h, Tail(q)) PROVE In(h, q)
    <2>1. PICK i \in 1 .. Len(q) - 1 : Tail(q)[i] = h
      BY <1>2, <1>5 DEF In
    <2>2. i + 1 \in 1 .. Len(q) /\ q[i + 1] = h
      BY <1>1, <1>2, <2>1
    <2> QED BY <1>1, <2>2 DEF In
  <1> QED BY <1>3, <1>4, <1>5

\* Head and tail of a queue that is not empty are typed.
LEMMA HeadTail ==
    ASSUME NEW S, NEW q \in Seq(S), q # <<>>
    PROVE  Head(q) \in S /\ Tail(q) \in Seq(S) /\ Len(Tail(q)) = Len(q) - 1
  OBVIOUS

-----------------------------------------------------------------------------
(* The steps *)

\* Before the first request nothing is queued and nobody holds the lock.
LEMMA AuditStart == AuditInit => AuditIInv
  <1> SUFFICES ASSUME AuditInit PROVE AuditIInv
    OBVIOUS
  <1>1. AuditTypeOK
    <2>1. queue \in Seq(Handler) /\ rows \in Seq(Handler) /\ Len(queue) <= Capacity
      BY CapacityAssumption DEF AuditInit
    <2>2. /\ log \in [Handler -> {"no", "called", "checked", "refused", "returned", "panicked"}]
          /\ sync \in [Handler -> {"no", "written", "failed"}]
          /\ mail \in [Handler -> {"no", "sending", "ended"}]
          /\ lost \in [Handler -> Loss \cup {None}]
      BY DEF AuditInit
    <2> QED BY <2>1, <2>2 DEF AuditInit, AuditTypeOK, MainPC
  <1>2. LockInv /\ EventInv /\ LateInv
    BY DEF AuditInit, LockInv, EventInv, LateInv
  <1>3. PhaseInv
    BY DEF AuditInit, PhaseInv, HandlersOver, SendsOver, CloseOver
  <1> QED BY <1>1, <1>2, <1>3 DEF AuditIInv

\* Handlers start, write synchronously, send mail and end.
LEMMA HandlerSteps ==
    ASSUME AuditIInv, NEW h \in Handler, HandlerStep(h)
    PROVE  AuditIInv'
  <1> USE DEF AuditIInv, AuditTypeOK, LateInv, HandlersOver, SendsOver, CloseOver
  <1>1. CASE Serve(h)
    BY <1>1 DEF Serve, LockInv, PhaseInv, EventInv
  <1>2. CASE Finish(h)
    BY <1>2 DEF Finish, LockInv, PhaseInv, EventInv
  <1>3. CASE SendMail(h)
    BY <1>3 DEF SendMail, LockInv, PhaseInv, EventInv
  <1>4. CASE MailEnds(h)
    BY <1>4 DEF MailEnds, LockInv, PhaseInv, EventInv
  <1>5. CASE LogSync(h)
    <2>1. PICK ok \in BOOLEAN :
            /\ ok => db
            /\ sync' = [sync EXCEPT ![h] = IF ok THEN "written" ELSE "failed"]
            /\ hurried' = (hurried \/ (db /\ ~ok))
      BY <1>5 DEF LogSync
    <2>2. h \in running /\ UNCHANGED <<main, released, running, log, readers, closed, queue,
                                       writer, checked, stop, rows, mail, db, lost, late>>
      BY <1>5 DEF LogSync
    <2>3. sync' \in [Handler -> {"no", "written", "failed"}] /\ hurried' \in BOOLEAN
      BY <2>1
    <2>4. PhaseInv'
      BY <2>1, <2>2 DEF PhaseInv
    <2>5. ~hurried' => ok
      BY <2>1, <2>2 DEF PhaseInv
    <2>6. EventInv'
      BY <2>1, <2>2, <2>5 DEF EventInv
    <2> QED BY <2>2, <2>3, <2>4, <2>6 DEF LockInv
  <1>6. CASE Log(h)
    BY <1>6 DEF Log, LockInv, PhaseInv, EventInv
  <1> QED BY <1>1, <1>2, <1>3, <1>4, <1>5, <1>6 DEF HandlerStep

\* Log: the call, the look at closed under the lock, the send or the drop.
LEMMA LogSteps ==
    ASSUME AuditIInv, NEW h \in Handler, LogStep(h)
    PROVE  AuditIInv'
  <1> USE DEF AuditIInv, AuditTypeOK, LateInv, HandlersOver, SendsOver, CloseOver
  <1>1. CASE LogCheck(h)
    BY <1>1 DEF LogCheck, LockInv, PhaseInv, EventInv
  <1>2. CASE LogSend(h)
    <2>1. ~closed /\ Len(queue) < Capacity
      BY <1>2 DEF LogSend, LockInv, HasRoom
    <2>2. /\ log[h] = "checked" /\ queue' = Append(queue, h)
          /\ log' = [log EXCEPT ![h] = "returned"] /\ readers' = readers \ {h}
          /\ UNCHANGED <<main, released, running, closed, writer, checked, stop, rows, sync,
                         mail, db, lost, late, hurried>>
      BY <1>2, <2>1 DEF LogSend
    <2>3. queue' \in Seq(Handler) /\ Len(queue') <= Capacity
      BY <2>1, <2>2, CapacityAssumption
    <2>4. \A x \in Handler : In(x, queue') <=> In(x, queue) \/ x = h
      BY <2>2, InAppend
    <2>5. LockInv'
      BY <2>2 DEF LockInv
    <2>6. PhaseInv'
      BY <2>1, <2>2 DEF PhaseInv
    <2>7. EventInv'
      BY <2>2, <2>4 DEF EventInv
    <2> QED BY <2>2, <2>3, <2>5, <2>6, <2>7
  <1>3. CASE LogDrop(h)
    <2>1. /\ log' = [log EXCEPT ![h] = "returned"] /\ readers' = readers \ {h}
          /\ lost' = [lost EXCEPT ![h] = IF log[h] = "refused" THEN "closing" ELSE "full"]
          /\ log[h] \in {"refused", "checked"}
          /\ UNCHANGED <<main, released, running, closed, queue, writer, checked, stop,
                         rows, sync, mail, db, late, hurried>>
      BY <1>3 DEF LogDrop
    <2>2. lost' \in [Handler -> Loss \cup {None}]
      BY <2>1 DEF Loss
    <2>3. ~hurried => log[h] = "checked"
      BY <2>1 DEF LockInv, PhaseInv
    <2>4. LockInv'
      BY <2>1 DEF LockInv
    <2>5. PhaseInv'
      BY <2>1 DEF PhaseInv
    <2>6. EventInv'
      BY <2>1, <2>3 DEF EventInv
    <2> QED BY <2>1, <2>2, <2>4, <2>5, <2>6
  <1> QED BY <1>1, <1>2, <1>3 DEF LogStep

\* The writer takes an event, writes it or fails, and ends with the channel.
LEMMA WriterSteps ==
    ASSUME AuditIInv, WriterStep
    PROVE  AuditIInv'
  <1> USE DEF AuditIInv, AuditTypeOK, LateInv, HandlersOver, SendsOver, CloseOver
  <1>1. CASE WriterTake
    <2>1. /\ writer = "waiting" /\ queue # <<>>
          /\ queue' = Tail(queue) /\ writer' = Head(queue)
          /\ UNCHANGED <<main, released, running, log, readers, closed, checked, stop, rows,
                         sync, mail, db, lost, late, hurried>>
      BY <1>1 DEF WriterTake
    <2>2. /\ Head(queue) \in Handler /\ Tail(queue) \in Seq(Handler)
          /\ Len(Tail(queue)) = Len(queue) - 1
      BY <2>1, HeadTail
    <2>3. \A x \in Handler : In(x, queue) <=> x = Head(queue) \/ In(x, Tail(queue))
      BY <2>1, InTail
    <2>4. PhaseInv'
      BY <2>1, <2>2, HandlerAssumption DEF PhaseInv
    <2>5. EventInv'
      BY <2>1, <2>3, HandlerAssumption DEF EventInv
    <2> QED BY <2>1, <2>2, <2>4, <2>5, CapacityAssumption DEF LockInv
  <1>2. CASE WriterGoesOn
    <2>1. /\ ~stop /\ checked' = TRUE
          /\ UNCHANGED <<main, released, running, log, readers, closed, queue, writer, stop,
                         rows, sync, mail, db, lost, late, hurried>>
      BY <1>2 DEF WriterGoesOn, Stopped
    <2> QED BY <2>1 DEF LockInv, PhaseInv, EventInv
  <1>3. CASE WriterDiscard
    <2>1. /\ writer \in Handler /\ stop
          /\ lost' = [lost EXCEPT ![writer] = "discarded"] /\ writer' = "waiting"
          /\ UNCHANGED <<main, released, running, log, readers, closed, queue, checked, stop,
                         rows, sync, mail, db, late, hurried>>
      BY <1>3 DEF WriterDiscard, Stopped
    <2>2. hurried'
      BY <2>1 DEF PhaseInv
    <2>3. lost' \in [Handler -> Loss \cup {None}]
      BY <2>1 DEF Loss
    <2>4. PhaseInv'
      BY <2>1, <2>2 DEF PhaseInv
    <2> QED BY <2>1, <2>2, <2>3, <2>4 DEF LockInv, EventInv
  <1>4. CASE Written \/ WriteFails
    <2>1. /\ writer \in Handler /\ writer' = "waiting" /\ checked /\ checked' = FALSE
          /\ late' = IF stop THEN late + 1 ELSE late
          /\ UNCHANGED <<main, released, running, log, readers, closed, queue, stop, sync,
                         mail, db>>
      BY <1>4 DEF Written, WriteFails, WriteEnds
    <2>2. LateInv' /\ late' \in Nat
      BY <2>1
    <2>3. CASE Written
      <3>1. rows' = Append(rows, writer) /\ UNCHANGED <<lost, hurried>>
        BY <2>3 DEF Written
      <3>2. rows' \in Seq(Handler) /\ \A x \in Handler : In(x, rows') <=> In(x, rows) \/ x = writer
        BY <2>1, <3>1, InAppend
      <3>3. PhaseInv'
        BY <2>1, <3>1, HandlerAssumption DEF PhaseInv
      <3>4. EventInv'
        BY <2>1, <3>1, <3>2 DEF EventInv
      <3> QED BY <2>1, <2>2, <3>1, <3>2, <3>3, <3>4 DEF LockInv
    <2>4. CASE WriteFails
      <3>1. lost' = [lost EXCEPT ![writer] = "failed"] /\ hurried' = TRUE /\ UNCHANGED rows
        BY <2>4 DEF WriteFails
      <3>2. lost' \in [Handler -> Loss \cup {None}]
        BY <2>1, <3>1 DEF Loss
      <3> QED BY <2>1, <2>2, <3>1, <3>2 DEF LockInv, PhaseInv, EventInv
    <2> QED BY <1>4, <2>3, <2>4
  <1>5. CASE WriterDone
    <2>1. /\ writer = "waiting" /\ queue = <<>> /\ closed /\ writer' = "done"
          /\ UNCHANGED <<main, released, running, log, readers, closed, queue, checked, stop,
                         rows, sync, mail, db, lost, late, hurried>>
      BY <1>5 DEF WriterDone
    <2> QED BY <2>1, HandlerAssumption DEF LockInv, PhaseInv, EventInv
  <1> QED BY <1>1, <1>2, <1>3, <1>4, <1>5 DEF WriterStep

\* main from the signal to its exit, by completion or by deadline.
LEMMA MainSteps ==
    ASSUME AuditIInv, MainStep \/ Signal \/ ServerFails \/ SecondSignal
    PROVE  AuditIInv'
  <1> USE DEF AuditIInv, AuditTypeOK, LateInv
  <1>1. CASE Signal \/ ServerFails \/ SecondSignal
    <2>1. main' \in MainPC /\ closed' \in BOOLEAN /\ stop' \in BOOLEAN /\ hurried' \in BOOLEAN
          /\ db' \in BOOLEAN /\ released' \in BOOLEAN
          /\ (hurried => hurried') /\ (stop => stop')
          /\ UNCHANGED <<running, log, readers, queue, writer, checked, rows, sync, mail,
                         lost, late>>
      BY <1>1 DEF Signal, ServerFails, SecondSignal, MainTo, Keep, MainPC
    <2>2. LockInv'
      BY <1>1, <2>1 DEF Signal, ServerFails, SecondSignal, MainTo, Keep, LockInv
    <2>3. PhaseInv'
      BY <1>1, <2>1 DEF Signal, ServerFails, SecondSignal, MainTo, Keep, PhaseInv, MainPC, HandlersOver, SendsOver, CloseOver
    <2>4. EventInv'
      BY <2>1 DEF EventInv
    <2> QED BY <2>1, <2>2, <2>3, <2>4
  <1>2. CASE HandlersDone \/ ShutdownTimeout
    <2>1. main' \in MainPC /\ closed' \in BOOLEAN /\ stop' \in BOOLEAN /\ hurried' \in BOOLEAN
          /\ db' \in BOOLEAN /\ released' \in BOOLEAN
          /\ (hurried => hurried') /\ (stop => stop')
          /\ UNCHANGED <<running, log, readers, queue, writer, checked, rows, sync, mail,
                         lost, late>>
      BY <1>2 DEF HandlersDone, ShutdownTimeout, MainTo, Keep, MainPC
    <2>2. LockInv'
      BY <1>2, <2>1 DEF HandlersDone, ShutdownTimeout, MainTo, Keep, LockInv
    <2>3. PhaseInv'
      BY <1>2, <2>1 DEF HandlersDone, ShutdownTimeout, MainTo, Keep, PhaseInv, MainPC, HandlersOver, SendsOver, CloseOver
    <2>4. EventInv'
      BY <2>1 DEF EventInv
    <2> QED BY <2>1, <2>2, <2>3, <2>4
  <1>3. CASE SendsDone \/ SendsTimeout
    <2>1. main' \in MainPC /\ closed' \in BOOLEAN /\ stop' \in BOOLEAN /\ hurried' \in BOOLEAN
          /\ db' \in BOOLEAN /\ released' \in BOOLEAN
          /\ (hurried => hurried') /\ (stop => stop')
          /\ UNCHANGED <<running, log, readers, queue, writer, checked, rows, sync, mail,
                         lost, late>>
      BY <1>3 DEF SendsDone, SendsTimeout, MainTo, Keep, MainPC
    <2>2. LockInv'
      BY <1>3, <2>1 DEF SendsDone, SendsTimeout, MainTo, Keep, LockInv
    <2>3. PhaseInv'
      BY <1>3, <2>1 DEF SendsDone, SendsTimeout, MainTo, Keep, PhaseInv, MainPC, HandlersOver, SendsOver, CloseOver
    <2>4. EventInv'
      BY <2>1 DEF EventInv
    <2> QED BY <2>1, <2>2, <2>3, <2>4
  <1>4. CASE CloseChannel
    <2>1. main' \in MainPC /\ closed' \in BOOLEAN /\ stop' \in BOOLEAN /\ hurried' \in BOOLEAN
          /\ db' \in BOOLEAN /\ released' \in BOOLEAN
          /\ (hurried => hurried') /\ (stop => stop')
          /\ UNCHANGED <<running, log, readers, queue, writer, checked, rows, sync, mail,
                         lost, late>>
      BY <1>4 DEF CloseChannel, LockFree, MainTo, MainPC
    <2>2. LockInv'
      BY <1>4, <2>1 DEF CloseChannel, LockFree, MainTo, LockInv
    <2>3. PhaseInv'
      BY <1>4, <2>1 DEF CloseChannel, LockFree, MainTo, PhaseInv, MainPC, HandlersOver, SendsOver, CloseOver
    <2>4. EventInv'
      BY <2>1 DEF EventInv
    <2> QED BY <2>1, <2>2, <2>3, <2>4
  <1>5. CASE Drained \/ DrainTimeout
    <2>1. main' \in MainPC /\ closed' \in BOOLEAN /\ stop' \in BOOLEAN /\ hurried' \in BOOLEAN
          /\ db' \in BOOLEAN /\ released' \in BOOLEAN
          /\ (hurried => hurried') /\ (stop => stop')
          /\ UNCHANGED <<running, log, readers, queue, writer, checked, rows, sync, mail,
                         lost, late>>
      BY <1>5 DEF Drained, DrainTimeout, WriterEnded, MainTo, Keep, MainPC
    <2>2. LockInv'
      BY <1>5, <2>1 DEF Drained, DrainTimeout, WriterEnded, MainTo, Keep, LockInv
    <2>3. PhaseInv'
      BY <1>5, <2>1 DEF Drained, DrainTimeout, WriterEnded, MainTo, Keep, PhaseInv, MainPC, HandlersOver, SendsOver, CloseOver
    <2>4. EventInv'
      BY <2>1 DEF EventInv
    <2> QED BY <2>1, <2>2, <2>3, <2>4
  <1>6. CASE CloseDB \/ Exit
    <2>1. main' \in MainPC /\ closed' \in BOOLEAN /\ stop' \in BOOLEAN /\ hurried' \in BOOLEAN
          /\ db' \in BOOLEAN /\ released' \in BOOLEAN
          /\ (hurried => hurried') /\ (stop => stop')
          /\ UNCHANGED <<running, log, readers, queue, writer, checked, rows, sync, mail,
                         lost, late>>
      BY <1>6 DEF CloseDB, Exit, MainTo, Keep, MainPC
    <2>2. LockInv'
      BY <1>6, <2>1 DEF CloseDB, Exit, MainTo, Keep, LockInv
    <2>3. PhaseInv'
      BY <1>6, <2>1 DEF CloseDB, Exit, MainTo, Keep, PhaseInv, MainPC, HandlersOver, SendsOver, CloseOver
    <2>4. EventInv'
      BY <2>1 DEF EventInv
    <2> QED BY <2>1, <2>2, <2>3, <2>4
  <1> QED BY <1>1, <1>2, <1>3, <1>4, <1>5, <1>6 DEF MainStep

\* Every step of the process keeps the invariant.
LEMMA AuditStep == ASSUME AuditIInv, [AuditNext]_auditVars PROVE AuditIInv'
  <1>1. CASE UNCHANGED auditVars
    BY <1>1
    DEF auditVars, AuditIInv, AuditTypeOK, LateInv, LockInv, PhaseInv, EventInv,
        HandlersOver, SendsOver, CloseOver
  <1>2. ASSUME NEW h \in Handler, HandlerStep(h) \/ LogStep(h) PROVE AuditIInv'
    BY <1>2, HandlerSteps, LogSteps
  <1>3. CASE WriterStep
    BY <1>3, WriterSteps
  <1>4. CASE MainStep \/ Signal \/ ServerFails \/ SecondSignal
    BY <1>4, MainSteps
  <1> QED BY <1>1, <1>2, <1>3, <1>4 DEF AuditNext, Ended

-----------------------------------------------------------------------------
(* The theorems *)

\* With any handlers and deadlines: who is inside Log holds the read lock, how
\* far main is says what has stopped, and an event of an end that nothing
\* hurried is queued, with the writer, in a row or was turned away
\* (audit/service.go, main.go).
THEOREM AuditInvariant == AuditSpec => []AuditIInv
  <1>1. AuditInit => AuditIInv
    BY AuditStart
  <1>2. AuditIInv /\ [AuditNext]_auditVars => AuditIInv'
    BY AuditStep
  <1> QED BY <1>1, <1>2, PTL DEF AuditSpec

\* Log and Close: no Log sends on the closed channel, whatever handlers
\* outlive the shutdown deadline, and the queue never outgrows its capacity.
THEOREM SendsFindTheChannelOpen == AuditSpec => []NoSendOnClosed
  <1>1. AuditIInv => NoSendOnClosed
    BY DEF AuditIInv, LockInv, NoSendOnClosed
  <1> QED BY <1>1, AuditInvariant, PTL

\* main, Close and the writer: an end without a deadline passing or a write
\* failing has written every event but those a full queue turned away.
THEOREM CleanEndKeepsEveryEvent == AuditSpec => []CleanEndLosesNothing
  <1>1. AuditIInv => CleanEndLosesNothing
    <2> SUFFICES ASSUME AuditIInv, main = "exited", ~hurried, NEW h \in Handler
                 PROVE  /\ mail[h] # "sending" /\ sync[h] # "failed"
                        /\ log[h] = "no" \/ lost[h] = "full" \/ \E i \in DOMAIN rows : rows[i] = h
      BY DEF CleanEndLosesNothing
    <2>1. running = {} /\ writer = "done" /\ queue = <<>> /\ mail[h] # "sending"
      BY DEF AuditIInv, PhaseInv, HandlersOver, SendsOver, CloseOver
    <2>2. ~In(h, queue) /\ writer # h
      BY <2>1, HandlerAssumption DEF In
    <2>3. log[h] \in {"no", "returned"}
      BY <2>1 DEF AuditIInv, AuditTypeOK, LockInv, PhaseInv
    <2> QED BY <2>1, <2>2, <2>3 DEF AuditIInv, EventInv, In
  <1> QED BY <1>1, AuditInvariant, PTL

\* run and Close: once Close has given up, one more write at most goes to the
\* database that is about to be closed.
THEOREM LateWritesAreFew == AuditSpec => []OneLateWrite
  <1>1. AuditIInv => OneLateWrite
    BY DEF AuditIInv, LateInv, OneLateWrite
  <1> QED BY <1>1, AuditInvariant, PTL
=============================================================================
