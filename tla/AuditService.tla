---------------------------- MODULE AuditService ----------------------------
(***************************************************************************)
(* The audit queue and the end of the process.  Handlers put events into a *)
(* bounded queue that one goroutine writes to the database                 *)
(* (internal/audit/service.go); on a signal, or when the server fails,     *)
(* main lets the handlers finish, waits for mail that is being sent,       *)
(* closes and drains the queue and closes the database, each with a        *)
(* deadline of its own (cmd/kauth/main.go).                                *)
(*                                                                         *)
(* A handler stands for one request: it may log one event through the      *)
(* queue, write one row itself (LogSync) and start one mail.  A deadline   *)
(* may pass whenever main waits for it.                                    *)
(***************************************************************************)
EXTENDS Integers, Sequences

CONSTANTS
    Handler,    \* requests; also the event each of them logs
    Logs,       \* the requests that log through the queue
    Syncs,      \* the requests that write a row themselves
    Mails,      \* the requests that send a mail
    Capacity,   \* of the queue: queueCapacity
    None

ASSUME CapacityAssumption == Capacity \in Nat \ {0}
ASSUME HandlerAssumption ==
    /\ None \notin Handler /\ "waiting" \notin Handler /\ "done" \notin Handler
    /\ Logs \cup Syncs \cup Mails \subseteq Handler

VARIABLES
    main,       \* where main is
    released,   \* main has given the signals back: the next one ends the process
    running,    \* the handlers serving a request
    log,        \* where each handler's call of Log is
    readers,    \* who holds the read lock
    closed,     \* Service.closed: the channel is closed
    queue,      \* the channel
    writer,     \* the event the writer has received, or what it does
    checked,    \* the writer has looked at stop and goes on to write
    stop,       \* Close gave up: the stop channel is closed
    rows,       \* audit_events, as the writer wrote them
    sync,       \* what became of each handler's LogSync
    mail,       \* what became of each handler's mail
    db,         \* is the database open
    lost,       \* history: the events that reached no row, and why
    late,       \* history: the writes that ended after Close gave up
    hurried     \* history: a deadline passed, the server failed or a write did

auditVars == <<main, released, running, log, readers, closed, queue, writer, checked,
               stop, rows, sync, mail, db, lost, late, hurried>>

MainPC == {"serving", "shutdown", "sends", "locking", "draining", "dbclose", "exited"}

Loss == {"full", "closing", "failed", "discarded"}

\* "checked" is a call that found the service open and has not yet sent.
AuditTypeOK ==
    /\ main \in MainPC /\ released \in BOOLEAN
    /\ running \subseteq Handler
    /\ log \in [Handler -> {"no", "called", "checked", "refused", "returned", "panicked"}]
    /\ readers \subseteq Handler
    /\ closed \in BOOLEAN
    /\ queue \in Seq(Handler) /\ Len(queue) <= Capacity
    /\ writer \in Handler \cup {"waiting", "done"} /\ checked \in BOOLEAN
    /\ stop \in BOOLEAN
    /\ rows \in Seq(Handler)
    /\ sync \in [Handler -> {"no", "written", "failed"}]
    /\ mail \in [Handler -> {"no", "sending", "ended"}]
    /\ db \in BOOLEAN
    /\ lost \in [Handler -> Loss \cup {None}]
    /\ late \in Nat
    /\ hurried \in BOOLEAN

AuditInit ==
    /\ main = "serving" /\ released = FALSE
    /\ running = {}
    /\ log = [h \in Handler |-> "no"]
    /\ readers = {}
    /\ closed = FALSE
    /\ queue = <<>>
    /\ writer = "waiting" /\ checked = FALSE
    /\ stop = FALSE
    /\ rows = <<>>
    /\ sync = [h \in Handler |-> "no"]
    /\ mail = [h \in Handler |-> "no"]
    /\ db = TRUE
    /\ lost = [h \in Handler |-> None]
    /\ late = 0
    /\ hurried = FALSE

Alive == main # "exited"

-----------------------------------------------------------------------------
(* Handlers.  The server takes requests until Shutdown has been called. *)

Serve(h) ==
    /\ main = "serving"
    /\ h \notin running /\ log[h] = "no" /\ sync[h] = "no" /\ mail[h] = "no"
    /\ running' = running \cup {h}
    /\ UNCHANGED <<main, released, log, readers, closed, queue, writer, checked, stop,
                   rows, sync, mail, db, lost, late, hurried>>

\* A request that has answered.
Finish(h) ==
    /\ Alive
    /\ h \in running /\ log[h] \in {"no", "returned"}
    /\ running' = running \ {h}
    /\ UNCHANGED <<main, released, log, readers, closed, queue, writer, checked, stop,
                   rows, sync, mail, db, lost, late, hurried>>

SendMail(h) ==
    /\ Alive
    /\ h \in Mails \cap running /\ mail[h] = "no"
    /\ mail' = [mail EXCEPT ![h] = "sending"]
    /\ UNCHANGED <<main, released, running, log, readers, closed, queue, writer,
                   checked, stop, rows, sync, db, lost, late, hurried>>

\* sendWG.Done, whatever the server of the mail answered.
MailEnds(h) ==
    /\ Alive
    /\ mail[h] = "sending"
    /\ mail' = [mail EXCEPT ![h] = "ended"]
    /\ UNCHANGED <<main, released, running, log, readers, closed, queue, writer,
                   checked, stop, rows, sync, db, lost, late, hurried>>

\* logAdminWrite and LogSync: no queue, and the caller learns of a failure.
LogSync(h) ==
    /\ Alive
    /\ h \in Syncs \cap running /\ sync[h] = "no"
    /\ \E ok \in BOOLEAN :
         /\ ok => db
         /\ sync' = [sync EXCEPT ![h] = IF ok THEN "written" ELSE "failed"]
         /\ hurried' = (hurried \/ (db /\ ~ok))
    /\ UNCHANGED <<main, released, running, log, readers, closed, queue, writer,
                   checked, stop, rows, mail, db, lost, late>>

-----------------------------------------------------------------------------
(* Log *)

Log(h) ==
    /\ Alive
    /\ h \in Logs \cap running /\ log[h] = "no"
    /\ log' = [log EXCEPT ![h] = "called"]
    /\ UNCHANGED <<main, released, running, readers, closed, queue, writer, checked,
                   stop, rows, sync, mail, db, lost, late, hurried>>

\* The read lock; a writer that waits for the lock keeps new readers out.
LogCheck(h) ==
    /\ Alive
    /\ log[h] = "called"
    /\ main # "locking"
    /\ readers' = readers \cup {h}
    /\ log' = [log EXCEPT ![h] = IF closed THEN "refused" ELSE "checked"]
    /\ UNCHANGED <<main, released, running, closed, queue, writer, checked, stop, rows,
                   sync, mail, db, lost, late, hurried>>

\* Faulty variant: the send waits for room.
WaitForRoom(h) == FALSE

\* The default branch of the send: the queue is full.
QueueFull(h) == Len(queue) >= Capacity

\* The channel is made with queueCapacity.
HasRoom == Len(queue) < Capacity

\* A send on a closed channel panics.
LogSend(h) ==
    /\ Alive
    /\ log[h] = "checked"
    /\ closed \/ HasRoom
    /\ queue' = IF closed THEN queue ELSE Append(queue, h)
    /\ log' = [log EXCEPT ![h] = IF closed THEN "panicked" ELSE "returned"]
    /\ readers' = readers \ {h}
    /\ UNCHANGED <<main, released, running, closed, writer, checked, stop, rows, sync,
                   mail, db, lost, late, hurried>>

\* The lock is released and the event counted as dropped.
LogDrop(h) ==
    /\ Alive
    /\ log[h] = "refused" \/ (log[h] = "checked" /\ QueueFull(h))
    /\ lost' = [lost EXCEPT ![h] = IF log[h] = "refused" THEN "closing" ELSE "full"]
    /\ log' = [log EXCEPT ![h] = "returned"]
    /\ readers' = readers \ {h}
    /\ UNCHANGED <<main, released, running, closed, queue, writer, checked, stop, rows,
                   sync, mail, db, late, hurried>>

-----------------------------------------------------------------------------
(* The writer *)

\* Faulty variant: the writer does not look at stop.
NeverStopped == FALSE

Stopped == stop

WriterTake ==
    /\ Alive
    /\ writer = "waiting" /\ queue # <<>>
    /\ queue' = Tail(queue)
    /\ writer' = Head(queue)
    /\ UNCHANGED <<main, released, running, log, readers, closed, checked, stop, rows, sync,
                   mail, db, lost, late, hurried>>

\* The default branch: from here on nothing keeps the writer from writing.
WriterGoesOn ==
    /\ Alive
    /\ writer \in Handler /\ ~checked /\ ~Stopped
    /\ checked' = TRUE
    /\ UNCHANGED <<main, released, running, log, readers, closed, queue, writer, stop, rows,
                   sync, mail, db, lost, late, hurried>>

\* Close gave up: the event is thrown away.
WriterDiscard ==
    /\ Alive
    /\ writer \in Handler /\ ~checked /\ Stopped
    /\ lost' = [lost EXCEPT ![writer] = "discarded"]
    /\ writer' = "waiting"
    /\ UNCHANGED <<main, released, running, log, readers, closed, queue, checked, stop, rows,
                   sync, mail, db, late, hurried>>

WriteEnds ==
    /\ Alive
    /\ writer \in Handler /\ checked
    /\ writer' = "waiting" /\ checked' = FALSE
    /\ late' = IF stop THEN late + 1 ELSE late
    /\ UNCHANGED <<main, released, running, log, readers, closed, queue, stop, sync, mail, db>>

Written ==
    /\ WriteEnds
    /\ db
    /\ rows' = Append(rows, writer)
    /\ UNCHANGED <<lost, hurried>>

\* The insert fails, or runs into insertTimeout; the error is only logged.
WriteFails ==
    /\ WriteEnds
    /\ lost' = [lost EXCEPT ![writer] = "failed"]
    /\ hurried' = TRUE
    /\ UNCHANGED rows

\* The range over the channel ends: done is closed.
WriterDone ==
    /\ Alive
    /\ writer = "waiting" /\ queue = <<>> /\ closed
    /\ writer' = "done"
    /\ UNCHANGED <<main, released, running, log, readers, closed, queue, checked, stop,
                   rows, sync, mail, db, lost, late, hurried>>

-----------------------------------------------------------------------------
(* main *)

MainTo(pc) ==
    /\ main' = pc
    /\ UNCHANGED <<running, log, readers, queue, writer, checked, rows, sync, mail,
                   lost, late>>

Keep == UNCHANGED <<released, closed, stop, db>>

\* ctx.Done, then stop(): the handling of signals is given back.
Signal ==
    /\ main = "serving" /\ MainTo("shutdown")
    /\ released' = TRUE
    /\ UNCHANGED <<closed, stop, db, hurried>>

\* ListenAndServe returns an error: drain is called with handlers running.  A
\* signal from now on only cancels a context nobody waits for any more.
ServerFails == main = "serving" /\ MainTo("sends") /\ hurried' = TRUE /\ Keep

\* srv.Shutdown: the handlers have finished, or 15 seconds have passed.
HandlersDone ==
    /\ main = "shutdown" /\ running = {}
    /\ MainTo("sends") /\ Keep /\ UNCHANGED hurried

ShutdownTimeout == main = "shutdown" /\ MainTo("sends") /\ hurried' = TRUE /\ Keep

\* waitSends: every WaitGroup is at zero, or 5 seconds have passed.
SendsDone ==
    /\ main = "sends" /\ \A h \in Handler : mail[h] # "sending"
    /\ MainTo("locking") /\ Keep /\ UNCHANGED hurried

SendsTimeout == main = "sends" /\ MainTo("locking") /\ hurried' = TRUE /\ Keep

\* Faulty variant: the write lock is not taken.
LockAnyway == TRUE

LockFree == readers = {}

\* Service.Close: closed is set and the channel closed under the write lock.
CloseChannel ==
    /\ main = "locking" /\ LockFree
    /\ closed' = TRUE
    /\ MainTo("draining")
    /\ UNCHANGED <<released, stop, db, hurried>>

\* Faulty variant: Close returns without waiting for the writer.
DoneAtOnce == TRUE

WriterEnded == writer = "done"

Drained == main = "draining" /\ WriterEnded /\ MainTo("dbclose") /\ Keep /\ UNCHANGED hurried

\* Faulty variant: Close waits for the writer however long it takes.
NoDeadline == main = "draining" /\ FALSE /\ MainTo("dbclose") /\ hurried' = TRUE
              /\ stop' = TRUE /\ UNCHANGED <<released, closed, db>>

DrainTimeout ==
    /\ main = "draining"
    /\ stop' = TRUE
    /\ hurried' = TRUE
    /\ MainTo("dbclose")
    /\ UNCHANGED <<released, closed, db>>

CloseDB ==
    /\ main = "dbclose" /\ db
    /\ db' = FALSE
    /\ UNCHANGED <<main, released, running, log, readers, closed, queue, writer,
                   checked, stop, rows, sync, mail, lost, late, hurried>>

\* main returns, or os.Exit(1) after a server error.
Exit ==
    /\ main = "dbclose" /\ ~db
    /\ MainTo("exited") /\ Keep /\ UNCHANGED hurried

\* The default action of a signal that is not handled ends the process on the
\* spot.
SecondSignal ==
    /\ released /\ Alive
    /\ MainTo("exited") /\ hurried' = TRUE /\ Keep

-----------------------------------------------------------------------------
(* The specification *)

LogStep(h) == LogCheck(h) \/ LogSend(h) \/ LogDrop(h)

HandlerStep(h) == Serve(h) \/ Finish(h) \/ SendMail(h) \/ MailEnds(h) \/ LogSync(h) \/ Log(h)

WriterStep == WriterTake \/ WriterGoesOn \/ WriterDiscard \/ Written \/ WriteFails \/ WriterDone

MainStep ==
    \/ HandlersDone \/ ShutdownTimeout
    \/ SendsDone \/ SendsTimeout
    \/ CloseChannel \/ Drained \/ DrainTimeout
    \/ CloseDB \/ Exit

Ended == main = "exited" /\ UNCHANGED auditVars

AuditNext ==
    \/ \E h \in Handler : HandlerStep(h) \/ LogStep(h)
    \/ WriterStep
    \/ Signal \/ ServerFails \/ SecondSignal
    \/ MainStep
    \/ Ended

AuditSpec == AuditInit /\ [][AuditNext]_auditVars

\* main and the goroutines inside Log are scheduled, and deadlines pass; a
\* handler, the database, the mail server and the writer may take for ever.
FairAuditSpec == AuditSpec /\ WF_auditVars(MainStep) /\ \A h \in Handler : WF_auditVars(LogStep(h))

-----------------------------------------------------------------------------
(* Properties *)

\* No Log sends on the closed channel, however Close and the handlers that
\* outlive the shutdown deadline interleave: Log sends under the read lock
\* and Close closes under the write lock.  The queue never outgrows its size.
NoSendOnClosed ==
    /\ AuditTypeOK
    /\ \A h \in Handler : log[h] # "panicked"

\* A process that ends without a deadline passing or a write failing has
\* written every event that was logged, but those a full queue turned away;
\* no event was lost to the closing of the queue or of the database, and no
\* mail was cut off.
CleanEndLosesNothing ==
    main = "exited" /\ ~hurried =>
        \A h \in Handler :
            /\ mail[h] # "sending" /\ sync[h] # "failed"
            /\ log[h] = "no" \/ lost[h] = "full" \/ \E i \in DOMAIN rows : rows[i] = h

\* Once Close has given up and the database is about to be closed, one more
\* write at most still goes to it, the one the writer had already decided on:
\* whatever else was received or queued is thrown away (run).
OneLateWrite == late <= 1

\* Log never waits for the database: a call returns, or the process ends,
\* though the writer hangs and the queue is full.
LogReturns == \A h \in Handler : log[h] = "called" ~> (log[h] = "returned" \/ main = "exited")

\* A signal ends the process, though handlers, mail and writer hang.
ShutdownEnds == main = "shutdown" ~> main = "exited"
=============================================================================
