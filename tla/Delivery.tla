------------------------------ MODULE Delivery ------------------------------
(***************************************************************************)
(* The way of an integration event from the outbox to Bitrix24: its row in *)
(* integration_events, the two dispatchers of OutboxService (the request   *)
(* that stored it and the 5 s timer), the RabbitMQ queues, and the handlers *)
(* of WorkerService.consume.                                               *)
(*                                                                         *)
(* Any await may be the last: the API and the worker crash, the worker's   *)
(* connection is lost, a statement or a publication fails.  Each such      *)
(* fault is counted, so that a bound on the faults is a bound on the model.*)
(***************************************************************************)
EXTENDS Naturals, FiniteSets

CONSTANTS Event,          \* ids of integration events
          Handler,        \* consume() calls in flight (prefetch)
          Timer, None,    \* the timer's dispatcher, and no event
          RetryLimit,     \* retries of a message: 3 in the code
          DispatchLimit,  \* attempts after which the timer gives up: 20 in the code
          MaxFaults,      \* bound: faults in one behaviour
          Declared        \* did a worker declare its queue before the API first published?

ASSUME TimerAssumption == Timer \notin Event /\ None \notin Event
ASSUME LimitAssumption == RetryLimit \in Nat /\ DispatchLimit \in Nat /\ MaxFaults \in Nat
ASSUME DeclaredAssumption == Declared \in BOOLEAN
ASSUME HandlerAssumption == IsFiniteSet(Handler)

VARIABLES
  row,      \* table integration_events: status, and attempts while PENDING
  disp,     \* the dispatchers: dispatchById called by each event's request, or the timer
  batch,    \* what dispatchPending read and has still to dispatch
  declared, \* is the worker's queue declared and bound to the exchange?
  main,     \* messages ready in the worker's queue, by event and x-attempt
  retry,    \* messages waiting in the retry queue
  dlq,      \* events with a message in the dead-letter queue
  handler,  \* consume() calls in flight
  worker,   \* the worker process: consuming, detached from the broker, or down
  ran,      \* history: how often TripSyncService.process succeeded (2: more than once)
  done,     \* history: events with a message acked after success
  faults    \* faults so far

api == <<disp, batch>>
broker == <<declared, main, retry, dlq>>
history == <<ran, done>>
vars == <<row, api, broker, handler, worker, history, faults>>

RowStatus == {"NONE", "PENDING", "PUBLISHED", "PROCESSED", "DEAD_LETTERED"}
Dispatcher == Event \cup {Timer}
Message == [event: Event, attempt: 0..RetryLimit]

Asleep == [pc |-> "idle", event |-> None]
Free == [pc |-> "free", event |-> None, attempt |-> 0, unacked |-> FALSE]

TypeOK ==
  /\ row \in [Event -> [status: RowStatus, attempts: 0..DispatchLimit]]
  /\ disp \in [Dispatcher -> [pc: {"idle", "read", "publish", "confirmed", "failed"},
                              event: Event \cup {None}]]
  /\ batch \subseteq Event
  /\ declared \in BOOLEAN
  /\ main \in [Message -> Nat]
  /\ retry \in [Message -> Nat]
  /\ dlq \subseteq Event
  /\ handler \in [Handler -> [pc: {"free", "process", "record", "log", "error",
                                   "ackRetry", "ackDead", "mark"},
                              event: Event \cup {None}, attempt: 0..RetryLimit,
                              unacked: BOOLEAN]]
  /\ worker \in {"consuming", "detached", "down"}
  /\ ran \in [Event -> 0..2]
  /\ done \subseteq Event
  /\ faults \in 0..MaxFaults

\* Nothing stored yet.  The queue is durable: once declared, it stays.
Init ==
  /\ row = [e \in Event |-> [status |-> "NONE", attempts |-> 0]]
  /\ disp = [x \in Dispatcher |-> Asleep]
  /\ batch = {}
  /\ declared = Declared
  /\ main = [m \in Message |-> 0] /\ retry = [m \in Message |-> 0] /\ dlq = {}
  /\ handler = [h \in Handler |-> Free]
  /\ worker = "down"
  /\ ran = [e \in Event |-> 0] /\ done = {}
  /\ faults = 0

Put(q, m) == [q EXCEPT ![m] = @ + 1]
Take(q, m) == [q EXCEPT ![m] = @ - 1]

\* A fault happens; the model allows MaxFaults of them.
Fault == faults < MaxFaults /\ faults' = faults + 1

-----------------------------------------------------------------------------
(* The API.                                                                *)

\* A request commits an event (with its domain change, see Fleet, or alone,
\* in the webhook) and calls dispatchById.
Store(e) ==
  /\ row[e].status = "NONE"
  /\ row' = [row EXCEPT ![e].status = "PENDING"]
  /\ disp' = [disp EXCEPT ![e] = [pc |-> "read", event |-> e]]
  /\ UNCHANGED <<batch, broker, handler, worker, history, faults>>

\* Mutant: the timer reads only events never tried.
MutantTimerReadsUntried ==
  LET pending == {e \in Event : row[e].status = "PENDING" /\ row[e].attempts = 0}
  IN /\ disp[Timer].pc = "idle" /\ batch = {}
     /\ pending # {}
     /\ batch' = pending
     /\ UNCHANGED <<row, disp, broker, handler, worker, history, faults>>

\* dispatchPending, on the timer and at start: not while it still dispatches.
TimerReads ==
  LET pending == {e \in Event : row[e].status = "PENDING" /\ row[e].attempts < DispatchLimit}
  IN /\ disp[Timer].pc = "idle" /\ batch = {}
     /\ pending # {}
     /\ batch' = pending
     /\ UNCHANGED <<row, disp, broker, handler, worker, history, faults>>

TimerDispatches(e) ==
  /\ disp[Timer].pc = "idle" /\ e \in batch
  /\ batch' = batch \ {e}
  /\ disp' = [disp EXCEPT ![Timer] = [pc |-> "read", event |-> e]]
  /\ UNCHANGED <<row, broker, handler, worker, history, faults>>

\* dispatchById: reads the row; anything but PENDING is left alone.
ReadRow(x) ==
  /\ disp[x].pc = "read"
  /\ disp' = [disp EXCEPT ![x] = IF row[disp[x].event].status = "PENDING"
                                 THEN [@ EXCEPT !.pc = "publish"] ELSE Asleep]
  /\ UNCHANGED <<row, batch, broker, handler, worker, history, faults>>

\* The broker takes the message, and drops it if no queue is bound.
Enqueue(e) ==
  main' = IF declared THEN Put(main, [event |-> e, attempt |-> 0]) ELSE main

\* The publication is confirmed; a message without a queue is confirmed too.
Publish(x) ==
  /\ disp[x].pc = "publish"
  /\ Enqueue(disp[x].event)
  /\ disp' = [disp EXCEPT ![x].pc = "confirmed"]
  /\ UNCHANGED <<row, batch, declared, retry, dlq, handler, worker, history, faults>>

\* The publication fails: the broker has not taken the message, or the
\* connection was lost before its confirmation.
PublishFails(x) ==
  /\ disp[x].pc = "publish"
  /\ Fault
  /\ Enqueue(disp[x].event) \/ UNCHANGED main
  /\ disp' = [disp EXCEPT ![x].pc = "failed"]
  /\ UNCHANGED <<row, batch, declared, retry, dlq, handler, worker, history>>

\* attempts: { increment: 1 }; only "below DispatchLimit" is ever asked of it.
OneMore(n) == IF n < DispatchLimit THEN n + 1 ELSE n

\* The row becomes PUBLISHED, whatever it has become since it was read.
MarkPublished(x) ==
  /\ disp[x].pc = "confirmed"
  /\ row' = [row EXCEPT ![disp[x].event] = [status |-> "PUBLISHED", attempts |-> OneMore(@.attempts)]]
  /\ disp' = [disp EXCEPT ![x] = Asleep]
  /\ UNCHANGED <<batch, broker, handler, worker, history, faults>>

\* That UPDATE is inside the try: its failure counts as a failed publication.
MarkPublishedFails(x) ==
  /\ disp[x].pc = "confirmed"
  /\ Fault
  /\ disp' = [disp EXCEPT ![x].pc = "failed"]
  /\ UNCHANGED <<row, batch, broker, handler, worker, history>>

\* Mutant: the attempt is counted before and after the publication.
MutantCountFailureTwice(x) ==
  /\ disp[x].pc = "failed"
  /\ row' = [row EXCEPT ![disp[x].event].attempts = OneMore(OneMore(@))]
  /\ disp' = [disp EXCEPT ![x] = Asleep]
  /\ UNCHANGED <<batch, broker, handler, worker, history, faults>>

\* The catch: one more attempt, the status stays.
CountFailure(x) ==
  /\ disp[x].pc = "failed"
  /\ row' = [row EXCEPT ![disp[x].event].attempts = OneMore(@)]
  /\ disp' = [disp EXCEPT ![x] = Asleep]
  /\ UNCHANGED <<batch, broker, handler, worker, history, faults>>

\* A statement outside the try fails: the request gives up (500), or the
\* timer gives up its whole batch.
GiveUp(x) ==
  /\ disp[x].pc \in {"read", "failed"}
  /\ Fault
  /\ disp' = [disp EXCEPT ![x] = Asleep]
  /\ batch' = IF x = Timer THEN {} ELSE batch
  /\ UNCHANGED <<row, broker, handler, worker, history>>

\* The API process dies and starts again; what it was doing is forgotten.
ApiRestart ==
  /\ Fault
  /\ disp' = [x \in Dispatcher |-> Asleep]
  /\ batch' = {}
  /\ UNCHANGED <<row, broker, handler, worker, history>>

-----------------------------------------------------------------------------
(* The worker.                                                             *)

\* The operator starts the worker, or restarts one that is detached: nothing
\* in the code reconnects.  It declares the topology and consumes.
WorkerStart ==
  /\ worker # "consuming"
  /\ worker' = "consuming"
  /\ declared' = TRUE
  /\ handler' = [h \in Handler |-> Free]
  /\ UNCHANGED <<row, api, main, retry, dlq, history, faults>>

\* The broker gives unacked messages back to the queue, unchanged.
MessageOf(h) == [event |-> handler[h].event, attempt |-> handler[h].attempt]

Requeued ==
  [m \in Message |->
     main[m] + Cardinality({h \in Handler : handler[h].unacked /\ MessageOf(h) = m})]

WorkerGone ==
  /\ worker' = "down"
  /\ main' = Requeued
  /\ handler' = [h \in Handler |-> Free]
  /\ UNCHANGED <<row, api, declared, retry, dlq, history>>

WorkerCrash == worker # "down" /\ Fault /\ WorkerGone

\* The broker restarts or closes the connection: the process lives on, its
\* handlers too, with a channel that is closed.
ConnectionLost ==
  /\ worker = "consuming"
  /\ Fault
  /\ worker' = "detached"
  /\ main' = Requeued
  /\ handler' = [h \in Handler |-> [handler[h] EXCEPT !.unacked = FALSE]]
  /\ UNCHANGED <<row, api, declared, retry, dlq, history>>

\* Mutant: messages are consumed with noAck.
MutantConsumeNoAck(h, m) ==
  /\ worker = "consuming" /\ handler[h].pc = "free" /\ main[m] > 0
  /\ main' = Take(main, m)
  /\ handler' = [handler EXCEPT ![h] = [pc |-> "process", event |-> m.event,
                                        attempt |-> m.attempt, unacked |-> FALSE]]
  /\ UNCHANGED <<row, api, declared, retry, dlq, worker, history, faults>>

Consume(h, m) ==
  /\ worker = "consuming" /\ handler[h].pc = "free" /\ main[m] > 0
  /\ main' = Take(main, m)
  /\ handler' = [handler EXCEPT ![h] = [pc |-> "process", event |-> m.event,
                                        attempt |-> m.attempt, unacked |-> TRUE]]
  /\ UNCHANGED <<row, api, declared, retry, dlq, worker, history, faults>>

Goes(h, pc) == handler' = [handler EXCEPT ![h].pc = pc]

\* TripSyncService.process succeeds,
ProcessSucceeds(h) ==
  /\ handler[h].pc = "process"
  /\ ran' = [ran EXCEPT ![handler[h].event] = IF @ < 2 THEN @ + 1 ELSE @]
  /\ Goes(h, "record")
  /\ UNCHANGED <<row, api, broker, worker, done, faults>>

\* Mutant: the error of process is swallowed.
MutantProcessSwallows(h) ==
  /\ handler[h].pc = "process"
  /\ Goes(h, "record")
  /\ UNCHANGED <<row, api, broker, worker, history, faults>>

\* or throws: Bitrix24 or Redis is away, the deal's lock is busy, ...
ProcessFails(h) ==
  /\ handler[h].pc = "process"
  /\ Goes(h, "error")
  /\ UNCHANGED <<row, api, broker, worker, history, faults>>

SetStatus(h, status) == row' = [row EXCEPT ![handler[h].event].status = status]

\* The row becomes PROCESSED; a failure of this UPDATE is ignored.
RecordProcessed(h) ==
  /\ handler[h].pc = "record"
  /\ \/ SetStatus(h, "PROCESSED") /\ UNCHANGED faults
     \/ Fault /\ UNCHANGED row
  /\ Goes(h, "log")
  /\ UNCHANGED <<api, broker, worker, history>>

\* The SUCCESS row of integration_logs, then the ack.
LogAndAck(h) ==
  /\ handler[h].pc = "log" /\ handler[h].unacked
  /\ handler' = [handler EXCEPT ![h] = Free]
  /\ done' = done \cup {handler[h].event}
  /\ UNCHANGED <<row, api, broker, worker, ran, faults>>

\* The log, or the ack on a closed channel, throws: what succeeded counts as
\* failed.
LogFails(h) ==
  /\ handler[h].pc = "log"
  /\ Fault \/ (~handler[h].unacked /\ UNCHANGED faults)
  /\ Goes(h, "error")
  /\ UNCHANGED <<row, api, broker, worker, history>>

\* Mutant: the message is acked before its retry is confirmed.
MutantRetryAckedFirst(h) ==
  /\ handler[h].pc = "error" /\ handler[h].unacked
  /\ handler[h].attempt + 1 <= RetryLimit
  /\ \/ /\ retry' = Put(retry, [event |-> handler[h].event, attempt |-> handler[h].attempt + 1])
        /\ UNCHANGED faults
     \/ Fault /\ UNCHANGED retry
  /\ handler' = [handler EXCEPT ![h] = Free]
  /\ UNCHANGED <<row, api, declared, main, dlq, worker, history>>

\* One of the first RetryLimit errors of a message: it is published again to
\* the retry queue, with the next x-attempt, and confirmed.
PublishRetry(h) ==
  /\ handler[h].pc = "error" /\ handler[h].unacked
  /\ handler[h].attempt + 1 <= RetryLimit
  /\ retry' = Put(retry, [event |-> handler[h].event, attempt |-> handler[h].attempt + 1])
  /\ Goes(h, "ackRetry")
  /\ UNCHANGED <<row, api, declared, main, dlq, worker, history, faults>>

AckRetry(h) ==
  /\ handler[h].pc = "ackRetry" /\ handler[h].unacked
  /\ handler' = [handler EXCEPT ![h] = Free]
  /\ UNCHANGED <<row, api, broker, worker, history, faults>>

\* The next error: deadLetter publishes it to the DLQ, acks it,
DeadLetter(h) ==
  /\ handler[h].pc = "error" /\ handler[h].unacked
  /\ handler[h].attempt + 1 > RetryLimit
  /\ dlq' = dlq \cup {handler[h].event}
  /\ Goes(h, "ackDead")
  /\ UNCHANGED <<row, api, declared, main, retry, worker, history, faults>>

AckDead(h) ==
  /\ handler[h].pc = "ackDead" /\ handler[h].unacked
  /\ handler' = [handler EXCEPT ![h].pc = "mark", ![h].unacked = FALSE]
  /\ UNCHANGED <<row, api, broker, worker, history, faults>>

\* Mutant: the row of a dead-lettered event gets the unused status FAILED.
MutantMarkFailed(h) ==
  /\ handler[h].pc = "mark"
  /\ SetStatus(h, "FAILED")
  /\ handler' = [handler EXCEPT ![h] = Free]
  /\ UNCHANGED <<api, broker, worker, history, faults>>

\* and then marks the row; a failure of this UPDATE is ignored.
MarkDead(h) ==
  /\ handler[h].pc = "mark"
  /\ \/ SetStatus(h, "DEAD_LETTERED") /\ UNCHANGED faults
     \/ Fault /\ UNCHANGED row
  /\ handler' = [handler EXCEPT ![h] = Free]
  /\ UNCHANGED <<api, broker, worker, history>>

\* A publish or an ack on a closed channel throws where nothing catches it:
\* the process ends with an unhandled rejection.
ChannelThrows(h) ==
  /\ handler[h].pc \in {"error", "ackRetry", "ackDead"} /\ ~handler[h].unacked
  /\ WorkerGone
  /\ UNCHANGED faults

\* The TTL of a message in the retry queue passes: back to the worker's queue.
RetryExpires(m) ==
  /\ retry[m] > 0
  /\ retry' = Take(retry, m)
  /\ main' = Put(main, m)
  /\ UNCHANGED <<row, api, declared, dlq, handler, worker, history, faults>>

-----------------------------------------------------------------------------
Dispatch(x) ==
  ReadRow(x) \/ Publish(x) \/ MarkPublished(x) \/ CountFailure(x)

DispatchFault(x) == PublishFails(x) \/ MarkPublishedFails(x) \/ GiveUp(x)

Handle(h) ==
  \/ ProcessSucceeds(h) \/ ProcessFails(h)
  \/ RecordProcessed(h) \/ LogAndAck(h) \/ LogFails(h)
  \/ PublishRetry(h) \/ AckRetry(h)
  \/ DeadLetter(h) \/ AckDead(h) \/ MarkDead(h)
  \/ ChannelThrows(h)

Next ==
  \/ \E e \in Event : Store(e) \/ TimerDispatches(e)
  \/ TimerReads
  \/ \E x \in Dispatcher : Dispatch(x) \/ DispatchFault(x)
  \/ ApiRestart
  \/ WorkerStart \/ WorkerCrash \/ ConnectionLost
  \/ \E h \in Handler : Handle(h) \/ \E m \in Message : Consume(h, m)
  \/ \E m \in Message : RetryExpires(m)

Spec == Init /\ [][Next]_vars

\* The event loops run every dispatch and every handler on, the timer fires
\* again and again, the broker delivers and expires messages.  That the
\* worker is started again is the operator's part.
Fairness ==
  /\ WF_vars(TimerReads) /\ \A e \in Event : WF_vars(TimerDispatches(e))
  /\ \A x \in Dispatcher : WF_vars(Dispatch(x))
  /\ \A h \in Handler : WF_vars(Handle(h))
  /\ \A m \in Message : WF_vars(RetryExpires(m)) /\ SF_vars(\E h \in Handler : Consume(h, m))
  /\ WF_vars(WorkerStart)

FairSpec == Spec /\ Fairness

-----------------------------------------------------------------------------
InFlight(e) ==
  \/ \E m \in Message : m.event = e /\ (main[m] > 0 \/ retry[m] > 0)
  \/ \E h \in Handler : handler[h].unacked /\ handler[h].event = e

\* docs/02-architecture.md:26-27, publisher confirms and manual acks protect
\* from silent loss: an event whose row says it left the outbox has a message
\* in a queue or with a handler, or one acked after success, or one in the
\* DLQ, whatever crashed between a publication and its confirmation or ack.
NoSilentLoss ==
  \A e \in Event :
    row[e].status \notin {"NONE", "PENDING"} => InFlight(e) \/ e \in done \/ e \in dlq

\* The outbox, the broker and the worker implement a channel that delivers at
\* least once: no crash, lost connection, requeue or retry takes an event from
\* those that are answered for, or brings one that was not stored.
Channel == INSTANCE AtLeastOnce
             WITH told <- [e \in Event |-> row[e].status],
                  carried <- {e \in Event : InFlight(e) \/ e \in done \/ e \in dlq},
                  ran <- {e \in Event : ran[e] > 0}, acked <- done, buried <- dlq

ImplementsChannel == Channel!Spec

\* outbox.service.ts:60, the timer gives an event up after DispatchLimit
\* attempts: each was a fault of its own, whoever of the two dispatchers met
\* it, so that no event is given up early.
StillTried ==
  \A e \in Event :
    row[e].status = "PENDING" /\ faults < DispatchLimit => row[e].attempts < DispatchLimit

\* The final statuses of the integration history are true: PROCESSED is only
\* said of an event that was processed, DEAD_LETTERED of one in the DLQ.
HistoryIsTrue ==
  \A e \in Event :
    /\ row[e].status = "PROCESSED" => ran[e] > 0
    /\ row[e].status = "DEAD_LETTERED" => e \in dlq

\* README.md:269: the repeated delivery of an event does not repeat its
\* business operation.
ProcessedOnce == \A e \in Event : ran[e] <= 1

\* CargoFlow.md:970, a task must not be lost: a stored event is processed and
\* acked, or ends in the DLQ for the operator.
EventSettles ==
  \A e \in Event : row[e].status = "PENDING" ~> (e \in done \/ e \in dlq)
=============================================================================
