--------------------------- MODULE DeliveryProofs ---------------------------
(***************************************************************************)
(* For any number of events, handlers and faults: where a worker declared  *)
(* its queue before the API first published, no event that left the outbox *)
(* is lost, and the statuses of the integration history are true.          *)
(***************************************************************************)
EXTENDS Delivery, FiniteSetTheorems, TLAPS

\* Who works, works on an event.
Busy ==
  /\ \A x \in Dispatcher : disp[x].pc # "idle" => disp[x].event \in Event
  /\ \A h \in Handler : handler[h].pc # "free" => handler[h].event \in Event
  /\ \A h \in Handler : handler[h].unacked => handler[h].pc # "free"
  /\ worker # "consuming" => \A h \in Handler : ~handler[h].unacked

Typed == TypeOK /\ Busy

\* Of e there is a message of attempt a or later, or an outcome.
Carried(e, a) ==
  \/ \E m \in Message : m.event = e /\ m.attempt >= a /\ (main[m] > 0 \/ retry[m] > 0)
  \/ \E h \in Handler :
       handler[h].unacked /\ handler[h].event = e /\ handler[h].attempt >= a
  \/ e \in done \/ e \in dlq

\* What is acked is not the last of its event: a message is acked for a later
\* attempt, which may itself be consumed, and acked for a later one, by now.
AckIsSafe ==
  \A h \in Handler :
    /\ handler[h].pc # "free" => Carried(handler[h].event, 0)
    /\ handler[h].pc = "ackRetry" => Carried(handler[h].event, handler[h].attempt + 1)

\* Before PUBLISHED is written, and ever after, the event is carried.
LeftIsCarried ==
  /\ \A x \in Dispatcher : disp[x].pc = "confirmed" => Carried(disp[x].event, 0)
  /\ \A e \in Event : row[e].status \notin {"NONE", "PENDING"} => Carried(e, 0)

\* PROCESSED is written after a success, DEAD_LETTERED after the publication
\* to the DLQ.
RecordIsTrue ==
  \A h \in Handler :
    /\ handler[h].pc \in {"record", "log"} => ran[handler[h].event] > 0
    /\ handler[h].pc \in {"ackDead", "mark"} => handler[h].event \in dlq

TrueInv == Typed /\ RecordIsTrue /\ HistoryIsTrue
SafeInv == TrueInv /\ declared /\ AckIsSafe /\ LeftIsCarried

-----------------------------------------------------------------------------
(* Types.                                                                  *)

LEMMA InitTyped == Init => Typed
BY LimitAssumption, TimerAssumption, DeclaredAssumption
DEF Init, Typed, TypeOK, Busy, Asleep, Free, Dispatcher, Message, RowStatus

LEMMA OneMoreType ==
  ASSUME NEW n \in 0..DispatchLimit PROVE OneMore(n) \in 0..DispatchLimit
BY LimitAssumption DEF OneMore

\* Requeued gives every message back once for each handler that had it.
LEMMA RequeuedType ==
  ASSUME TypeOK
  PROVE  /\ Requeued \in [Message -> Nat]
         /\ \A m \in Message : main[m] > 0 => Requeued[m] > 0
         /\ \A h \in Handler : handler[h].unacked /\ MessageOf(h) \in Message
                                 => Requeued[MessageOf(h)] > 0
<1> DEFINE S(m) == {h \in Handler : handler[h].unacked /\ MessageOf(h) = m}
<1>1. \A m \in Message : IsFiniteSet(S(m)) /\ Cardinality(S(m)) \in Nat
  BY HandlerAssumption, FS_Subset, FS_CardinalityType
<1>2. \A m \in Message : Requeued[m] = main[m] + Cardinality(S(m)) BY DEF Requeued
<1>3. \A m \in Message : main[m] \in Nat BY DEF TypeOK
<1>4. Requeued \in [Message -> Nat] BY <1>1, <1>3 DEF Requeued
<1>5. ASSUME NEW h \in Handler, handler[h].unacked, MessageOf(h) \in Message
      PROVE  Requeued[MessageOf(h)] > 0
  <2>1. h \in S(MessageOf(h)) BY <1>5
  <2>2. Cardinality(S(MessageOf(h))) # 0 BY <1>1, <1>5, <2>1, FS_EmptySet
  <2> QED BY <1>1, <1>2, <1>3, <1>5, <2>2
<1>6. \A m \in Message : main[m] > 0 => Requeued[m] > 0
  <2> TAKE m \in Message
  <2> DEFINE c == Cardinality(S(m))
  <2>1. main[m] \in Nat /\ c \in Nat BY <1>1, <1>3
  <2>2. Requeued[m] = main[m] + c BY <1>2
  <2> HIDE DEF c
  <2> QED BY <2>1, <2>2
<1> QED BY <1>4, <1>5, <1>6

\* The API's steps change rows and dispatchers, and put into the queue.
LEMMA ApiTyped ==
  ASSUME Typed,
         \/ \E e \in Event : Store(e) \/ TimerDispatches(e)
         \/ TimerReads
         \/ \E x \in Dispatcher : Dispatch(x) \/ DispatchFault(x)
         \/ ApiRestart
  PROVE  Typed'
<1> USE LimitAssumption, TimerAssumption, OneMoreType
    DEF Typed, TypeOK, Busy, Dispatcher, Asleep, RowStatus, broker, history, api
<1>0. \A q \in [Message -> Nat], m \in Message : Put(q, m) \in [Message -> Nat] BY DEF Put
<1>1. ASSUME NEW e \in Event, Store(e) PROVE Typed' BY <1>1 DEF Store
<1>2. ASSUME NEW e \in Event, TimerDispatches(e) PROVE Typed' BY <1>2 DEF TimerDispatches
<1>3. CASE TimerReads BY <1>3 DEF TimerReads
<1>4. ASSUME NEW x \in Dispatcher, ReadRow(x) PROVE Typed' BY <1>4 DEF ReadRow
<1>5. ASSUME NEW x \in Dispatcher, disp[x].pc = "publish" PROVE disp[x].event \in Event
  BY <1>5
<1>6. ASSUME NEW x \in Dispatcher, Publish(x) PROVE Typed'
  <2>1. [event |-> disp[x].event, attempt |-> 0] \in Message BY <1>5, <1>6 DEF Publish, Message
  <2>2. main' \in [Message -> Nat] BY <1>0, <1>6, <2>1 DEF Publish, Enqueue
  <2> QED BY <1>6, <2>2 DEF Publish
<1>7. ASSUME NEW x \in Dispatcher, PublishFails(x) PROVE Typed'
  <2>1. [event |-> disp[x].event, attempt |-> 0] \in Message
    BY <1>5, <1>7 DEF PublishFails, Message
  <2>2. main' \in [Message -> Nat] BY <1>0, <1>7, <2>1 DEF PublishFails, Enqueue
  <2> QED BY <1>7, <2>2 DEF PublishFails, Fault
<1>8. ASSUME NEW x \in Dispatcher, MarkPublished(x) PROVE Typed' BY <1>8 DEF MarkPublished
<1>9. ASSUME NEW x \in Dispatcher, MarkPublishedFails(x) PROVE Typed'
  BY <1>9 DEF MarkPublishedFails, Fault
<1>10. ASSUME NEW x \in Dispatcher, CountFailure(x) PROVE Typed' BY <1>10 DEF CountFailure
<1>11. ASSUME NEW x \in Dispatcher, GiveUp(x) PROVE Typed' BY <1>11 DEF GiveUp, Fault
<1>12. CASE ApiRestart BY <1>12 DEF ApiRestart, Fault
<1> QED BY <1>1, <1>2, <1>3, <1>4, <1>6, <1>7, <1>8, <1>9, <1>10, <1>11, <1>12
        DEF Dispatch, DispatchFault

LEMMA WorkerTyped ==
  ASSUME Typed,
         \/ WorkerStart \/ WorkerCrash \/ ConnectionLost
         \/ \E h \in Handler : Handle(h) \/ \E m \in Message : Consume(h, m)
         \/ \E m \in Message : RetryExpires(m)
  PROVE  Typed'
<1> USE LimitAssumption, TimerAssumption
    DEF Typed, TypeOK, Busy, Dispatcher, Free, RowStatus, broker, history, api
<1>0. \A q \in [Message -> Nat], m \in Message :
        /\ Put(q, m) \in [Message -> Nat]
        /\ q[m] > 0 => Take(q, m) \in [Message -> Nat]
  BY DEF Put, Take
<1>1. CASE WorkerStart BY <1>1 DEF WorkerStart
<1>2. ASSUME WorkerGone, faults' \in 0..MaxFaults PROVE Typed'
  BY <1>2, RequeuedType DEF WorkerGone
<1>3. CASE WorkerCrash BY <1>2, <1>3 DEF WorkerCrash, Fault
<1>4. CASE ConnectionLost
  <2>1. main' \in [Message -> Nat] /\ worker' = "detached" /\ faults' \in 0..MaxFaults
    BY <1>4, RequeuedType DEF ConnectionLost, Fault
  <2>2. \A h \in Handler :
          /\ handler'[h].pc = handler[h].pc /\ handler'[h].event = handler[h].event
          /\ handler'[h].attempt = handler[h].attempt /\ ~handler'[h].unacked
    BY <1>4 DEF ConnectionLost
  <2> DEFINE State == [pc: {"free", "process", "record", "log", "error",
                            "ackRetry", "ackDead", "mark"},
                       event: Event \cup {None}, attempt: 0..RetryLimit, unacked: BOOLEAN]
  <2>3. handler' \in [Handler -> State]
    <3>1. handler \in [Handler -> State] OBVIOUS
    <3> HIDE DEF TypeOK, Typed
    <3>2. \A h \in Handler : [handler[h] EXCEPT !.unacked = FALSE] \in State BY <3>1
    <3>3. handler' = [h \in Handler |-> [handler[h] EXCEPT !.unacked = FALSE]]
      BY <1>4 DEF ConnectionLost
    <3> HIDE DEF State
    <3> QED BY <3>2, <3>3
  <2>4. UNCHANGED <<row, disp, batch, declared, retry, dlq, ran, done>>
    BY <1>4 DEF ConnectionLost
  <2>5. Busy' BY <2>1, <2>2, <2>4
  <2>6. TypeOK' BY <2>1, <2>3, <2>4
  <2> HIDE DEF Busy, TypeOK, State
  <2> QED BY <2>5, <2>6
<1>5. ASSUME NEW h \in Handler, NEW m \in Message, Consume(h, m) PROVE Typed'
  <2>1. main' \in [Message -> Nat] BY <1>0, <1>5 DEF Consume
  <2>2. m.event \in Event /\ m.attempt \in 0..RetryLimit BY DEF Message
  <2> QED BY <1>5, <2>1, <2>2 DEF Consume
<1>6. ASSUME NEW h \in Handler, ProcessSucceeds(h) PROVE Typed'
  BY <1>6 DEF ProcessSucceeds, Goes
<1>7. ASSUME NEW h \in Handler, ProcessFails(h) PROVE Typed' BY <1>7 DEF ProcessFails, Goes
<1>8. ASSUME NEW h \in Handler, RecordProcessed(h) PROVE Typed'
  <2>1. row' \in [Event -> [status: RowStatus, attempts: 0..DispatchLimit]]
    BY <1>8 DEF RecordProcessed, SetStatus
  <2>2. faults' \in 0..MaxFaults BY <1>8 DEF RecordProcessed, Fault
  <2> QED BY <1>8, <2>1, <2>2 DEF RecordProcessed, Goes
<1>9. ASSUME NEW h \in Handler, LogAndAck(h) PROVE Typed' BY <1>9 DEF LogAndAck
<1>10. ASSUME NEW h \in Handler, LogFails(h) PROVE Typed' BY <1>10 DEF LogFails, Goes, Fault
<1>11. ASSUME NEW h \in Handler, PublishRetry(h) PROVE Typed'
  <2>1. [event |-> handler[h].event, attempt |-> handler[h].attempt + 1] \in Message
    BY <1>11 DEF PublishRetry, Message
  <2>2. retry' \in [Message -> Nat] BY <1>0, <1>11, <2>1 DEF PublishRetry
  <2> QED BY <1>11, <2>2 DEF PublishRetry, Goes
<1>12. ASSUME NEW h \in Handler, AckRetry(h) PROVE Typed' BY <1>12 DEF AckRetry
<1>13. ASSUME NEW h \in Handler, DeadLetter(h) PROVE Typed'
  <2>1. dlq' \subseteq Event BY <1>13 DEF DeadLetter
  <2> QED BY <1>13, <2>1 DEF DeadLetter, Goes
<1>14. ASSUME NEW h \in Handler, AckDead(h) PROVE Typed' BY <1>14 DEF AckDead
<1>15. ASSUME NEW h \in Handler, MarkDead(h) PROVE Typed'
  BY <1>15 DEF MarkDead, SetStatus, Fault
<1>16. ASSUME NEW h \in Handler, ChannelThrows(h) PROVE Typed'
  BY <1>2, <1>16 DEF ChannelThrows
<1>17. ASSUME NEW m \in Message, RetryExpires(m) PROVE Typed'
  <2>1. main' \in [Message -> Nat] /\ retry' \in [Message -> Nat]
    BY <1>0, <1>17 DEF RetryExpires
  <2> QED BY <1>17, <2>1 DEF RetryExpires
<1> QED BY <1>1, <1>3, <1>4, <1>5, <1>6, <1>7, <1>8, <1>9, <1>10, <1>11, <1>12, <1>13,
           <1>14, <1>15, <1>16, <1>17 DEF Handle

LEMMA StepTyped == Typed /\ [Next]_vars => Typed'
<1> SUFFICES ASSUME Typed, [Next]_vars PROVE Typed' OBVIOUS
<1>1. CASE UNCHANGED vars
  BY <1>1 DEF vars, api, broker, history, Typed, TypeOK, Busy
<1> QED BY <1>1, ApiTyped, WorkerTyped DEF Next

\* The types of the delivery's tables, queues and processes.
THEOREM TypeCorrect == Spec => []TypeOK
<1>1. Typed => TypeOK BY DEF Typed
<1> QED BY <1>1, InitTyped, StepTyped, PTL DEF Spec

-----------------------------------------------------------------------------
(* The history is true.                                                    *)

LEMMA InitTrue == Init => TrueInv
BY InitTyped DEF Init, TrueInv, RecordIsTrue, HistoryIsTrue, Free

\* The API changes neither the handlers nor what they have reached.
LEMMA ApiTrue ==
  ASSUME TrueInv,
         \/ \E e \in Event : Store(e) \/ TimerDispatches(e)
         \/ TimerReads
         \/ \E x \in Dispatcher : Dispatch(x) \/ DispatchFault(x)
         \/ ApiRestart
  PROVE  RecordIsTrue' /\ HistoryIsTrue'
<1>1. UNCHANGED <<handler, ran, dlq>>
  BY DEF Store, TimerDispatches, TimerReads, Dispatch, DispatchFault, ReadRow, Publish,
         PublishFails, MarkPublished, MarkPublishedFails, CountFailure, GiveUp, ApiRestart,
         broker, history
<1>2. ASSUME NEW e \in Event PROVE row'[e].status \in {row[e].status, "PENDING", "PUBLISHED"}
  <2>1. row \in [Event -> [status: RowStatus, attempts: 0..DispatchLimit]]
    BY DEF TrueInv, Typed, TypeOK
  <2>2. CASE \E f \in Event : Store(f) BY <2>1, <2>2 DEF Store
  <2>3. CASE \E x \in Dispatcher : MarkPublished(x) BY <2>1, <2>3 DEF MarkPublished
  <2>4. CASE \E x \in Dispatcher : CountFailure(x) BY <2>1, <2>4 DEF CountFailure
  <2>5. CASE UNCHANGED row BY <2>5
  <2> QED BY <2>2, <2>3, <2>4, <2>5
          DEF TimerDispatches, TimerReads, Dispatch, DispatchFault, ReadRow, Publish,
              PublishFails, MarkPublishedFails, GiveUp, ApiRestart
<1> QED BY <1>1, <1>2 DEF TrueInv, RecordIsTrue, HistoryIsTrue

\* A handler records what it has reached; a success or a dead letter stays.
LEMMA WorkerTrue ==
  ASSUME TrueInv,
         \/ WorkerStart \/ WorkerCrash \/ ConnectionLost
         \/ \E h \in Handler : Handle(h) \/ \E m \in Message : Consume(h, m)
         \/ \E m \in Message : RetryExpires(m)
  PROVE  RecordIsTrue' /\ HistoryIsTrue'
<1> USE DEF TrueInv, Typed, TypeOK, RecordIsTrue, HistoryIsTrue, history, broker, api
<1>1. CASE WorkerStart BY <1>1 DEF WorkerStart, Free
<1>2. CASE WorkerGone BY <1>2 DEF WorkerGone, Free
<1>3. CASE ConnectionLost BY <1>3 DEF ConnectionLost
<1>4. ASSUME NEW h \in Handler, NEW m \in Message, Consume(h, m)
      PROVE  RecordIsTrue' /\ HistoryIsTrue'
  BY <1>4 DEF Consume
<1>5. ASSUME NEW h \in Handler, ProcessSucceeds(h) PROVE RecordIsTrue' /\ HistoryIsTrue'
  <2>1. handler[h].event \in Event BY <1>5 DEF ProcessSucceeds, Busy
  <2>2. /\ \A e \in Event : ran[e] > 0 => ran'[e] > 0
        /\ ran'[handler[h].event] > 0
    BY <1>5, <2>1 DEF ProcessSucceeds
  <2> QED BY <1>5, <2>1, <2>2 DEF ProcessSucceeds, Goes, Busy
<1>6. ASSUME NEW h \in Handler, ProcessFails(h) PROVE RecordIsTrue' /\ HistoryIsTrue'
  BY <1>6 DEF ProcessFails, Goes
<1>7. ASSUME NEW h \in Handler, RecordProcessed(h) PROVE RecordIsTrue' /\ HistoryIsTrue'
  <2>1. \A e \in Event : row'[e].status # row[e].status =>
                           row'[e].status = "PROCESSED" /\ e = handler[h].event
    BY <1>7 DEF RecordProcessed, SetStatus
  <2> QED BY <1>7, <2>1 DEF RecordProcessed, Goes
<1>8. ASSUME NEW h \in Handler, LogAndAck(h) PROVE RecordIsTrue' /\ HistoryIsTrue'
  BY <1>8 DEF LogAndAck, Free
<1>9. ASSUME NEW h \in Handler, LogFails(h) PROVE RecordIsTrue' /\ HistoryIsTrue'
  BY <1>9 DEF LogFails, Goes
<1>10. ASSUME NEW h \in Handler, PublishRetry(h) PROVE RecordIsTrue' /\ HistoryIsTrue'
  BY <1>10 DEF PublishRetry, Goes
<1>11. ASSUME NEW h \in Handler, AckRetry(h) PROVE RecordIsTrue' /\ HistoryIsTrue'
  BY <1>11 DEF AckRetry, Free
<1>12. ASSUME NEW h \in Handler, DeadLetter(h) PROVE RecordIsTrue' /\ HistoryIsTrue'
  BY <1>12 DEF DeadLetter, Goes
<1>13. ASSUME NEW h \in Handler, AckDead(h) PROVE RecordIsTrue' /\ HistoryIsTrue'
  BY <1>13 DEF AckDead
<1>14. ASSUME NEW h \in Handler, MarkDead(h) PROVE RecordIsTrue' /\ HistoryIsTrue'
  <2>1. \A e \in Event : row'[e].status # row[e].status =>
                           row'[e].status = "DEAD_LETTERED" /\ e = handler[h].event
    BY <1>14 DEF MarkDead, SetStatus
  <2> QED BY <1>14, <2>1 DEF MarkDead, Free
<1>15. CASE \E m \in Message : RetryExpires(m) BY <1>15 DEF RetryExpires
<1> QED BY <1>1, <1>2, <1>3, <1>4, <1>5, <1>6, <1>7, <1>8, <1>9, <1>10, <1>11, <1>12,
           <1>13, <1>14, <1>15 DEF Handle, WorkerCrash, ChannelThrows

LEMMA StepTrue == TrueInv /\ [Next]_vars => TrueInv'
<1> SUFFICES ASSUME TrueInv, [Next]_vars PROVE TrueInv' OBVIOUS
<1>1. Typed' BY StepTyped DEF TrueInv
<1>2. CASE UNCHANGED vars
  BY <1>1, <1>2 DEF vars, broker, history, TrueInv, RecordIsTrue, HistoryIsTrue
<1> QED BY <1>1, <1>2, ApiTrue, WorkerTrue DEF Next, TrueInv

\* PROCESSED is said of processed events only, DEAD_LETTERED of events in the
\* DLQ, whoever else writes the row in between.
THEOREM RowsAreTrue == Spec => []HistoryIsTrue
<1>1. TrueInv => HistoryIsTrue BY DEF TrueInv
<1> QED BY <1>1, InitTrue, StepTrue, PTL DEF Spec

-----------------------------------------------------------------------------
(* Nothing is lost.                                                        *)

LEMMA InitSafe == Declared /\ Init => SafeInv
BY InitTrue DEF Init, SafeInv, AckIsSafe, LeftIsCarried, Free, Asleep

\* A step after which every event is carried that was, no earlier in its attempts.
Keeps == \A e \in Event, a \in Nat : Carried(e, a) => Carried(e, a)'

\* An event stays carried if every message and every outcome stays, or is
\* replaced by a carrier of the same event, no earlier in its attempts.
LEMMA CarriedStays ==
  ASSUME Typed, Typed', done \subseteq done', dlq \subseteq dlq',
         \A m \in Message : main[m] > 0 \/ retry[m] > 0 => Carried(m.event, m.attempt)',
         \A h \in Handler, f \in Event, b \in Nat :
           handler[h].unacked /\ handler[h].event = f /\ handler[h].attempt = b
             => Carried(f, b)',
         NEW e \in Event, NEW a \in Nat, Carried(e, a)
  PROVE  Carried(e, a)'
<1>1. ASSUME NEW b \in Nat, b >= a, Carried(e, b)' PROVE Carried(e, a)'
  <2>1. \A m \in Message : m.attempt \in Nat BY LimitAssumption DEF Message
  <2>2. CASE \E m \in Message : m.event = e /\ m.attempt >= b /\ (main'[m] > 0 \/ retry'[m] > 0)
    BY <1>1, <2>1, <2>2 DEF Carried
  <2>3. CASE \E h \in Handler :
               handler'[h].unacked /\ handler'[h].event = e /\ handler'[h].attempt >= b
    <3>1. \A h \in Handler : handler'[h].attempt \in Nat
      BY LimitAssumption DEF Typed, TypeOK
    <3> QED BY <1>1, <2>3, <3>1 DEF Carried
  <2> QED BY <1>1, <2>2, <2>3 DEF Carried
<1>2. CASE \E m \in Message : m.event = e /\ m.attempt >= a /\ (main[m] > 0 \/ retry[m] > 0)
  BY <1>1, <1>2, LimitAssumption DEF Message
<1>3. CASE \E h \in Handler :
             handler[h].unacked /\ handler[h].event = e /\ handler[h].attempt >= a
  <2>1. PICK h \in Handler :
          handler[h].unacked /\ handler[h].event = e /\ handler[h].attempt >= a
    BY <1>3
  <2>2. handler[h].attempt \in Nat BY LimitAssumption DEF Typed, TypeOK
  <2>3. PICK b \in Nat : b = handler[h].attempt BY <2>2
  <2>4. Carried(e, b)' BY <2>1, <2>3
  <2> QED BY <1>1, <2>1, <2>3, <2>4
<1>4. CASE e \in done \/ e \in dlq BY <1>4 DEF Carried
<1> QED BY <1>2, <1>3, <1>4 DEF Carried

\* Where the carriers are left alone, so is what they carry.
LEMMA CarriersUnchanged ==
  ASSUME UNCHANGED <<main, retry, handler, done, dlq>>
  PROVE  \A e \in Event, a \in Nat : Carried(e, a) <=> Carried(e, a)'
BY DEF Carried

\* The API takes no message away, and confirms one that it put into the queue.
LEMMA ApiSafe ==
  ASSUME SafeInv, Typed',
         \/ \E e \in Event : Store(e) \/ TimerDispatches(e)
         \/ TimerReads
         \/ \E x \in Dispatcher : Dispatch(x) \/ DispatchFault(x)
         \/ ApiRestart
  PROVE  declared' /\ AckIsSafe' /\ LeftIsCarried' /\ Keeps
<1> USE DEF Keeps, SafeInv, TrueInv
<1>1. UNCHANGED <<declared, retry, handler, done, dlq>>
  BY DEF Store, TimerDispatches, TimerReads, Dispatch, DispatchFault, ReadRow, Publish,
         PublishFails, MarkPublished, MarkPublishedFails, CountFailure, GiveUp, ApiRestart,
         broker, history
<1>2. declared' BY <1>1
<1>3. \A x \in Dispatcher :
        disp[x].pc = "publish" => [event |-> disp[x].event, attempt |-> 0] \in Message
  BY LimitAssumption DEF Typed, Busy, Message
<1>4. main \in [Message -> Nat] /\ main' \in [Message -> Nat] BY DEF Typed, TypeOK
<1>5. \A m \in Message : main[m] > 0 => main'[m] > 0
  <2>1. CASE UNCHANGED main BY <2>1
  <2>2. ASSUME NEW x \in Dispatcher, disp[x].pc = "publish", Enqueue(disp[x].event)
        PROVE  <1>5
    BY <1>3, <1>4, <2>2 DEF Enqueue, Put
  <2> QED BY <2>1, <2>2
          DEF Store, TimerDispatches, TimerReads, Dispatch, DispatchFault, ReadRow, Publish,
              PublishFails, MarkPublished, MarkPublishedFails, CountFailure, GiveUp,
              ApiRestart, broker
<1>6. ASSUME NEW e \in Event, NEW a \in Nat, Carried(e, a) PROVE Carried(e, a)'
  BY <1>1, <1>5, <1>6 DEF Carried
<1>7. AckIsSafe'
  <2>1. \A h \in Handler : handler[h].attempt + 1 \in Nat
    BY LimitAssumption DEF Typed, TypeOK
  <2> QED BY <1>1, <1>6, <2>1 DEF AckIsSafe, Typed, Busy
<1>8. ASSUME NEW x \in Dispatcher, NEW e \in Event,
             disp'[x].pc = "confirmed", disp'[x].event = e
      PROVE  Carried(e, 0)'
  <2>1. CASE disp[x].pc = "confirmed" /\ disp[x].event = e
    BY <1>6, <2>1 DEF LeftIsCarried
  <2>2. CASE Publish(x)
    <3>1. [event |-> e, attempt |-> 0] \in Message /\ disp[x].event = e
      BY <1>3, <1>8, <2>2 DEF Publish, Typed, TypeOK
    <3>2. main'[[event |-> e, attempt |-> 0]] > 0
      BY <1>4, <2>2, <3>1 DEF Publish, Enqueue, Put
    <3> QED BY <3>1, <3>2 DEF Carried
  <2> DEFINE Stays == disp[x].pc = "confirmed" /\ disp[x].event = e
  <2>3. disp \in [Dispatcher -> [pc: {"idle", "read", "publish", "confirmed", "failed"},
                                 event: Event \cup {None}]]
    BY DEF Typed, TypeOK
  <2>4. CASE (\E f \in Event : Store(f) \/ TimerDispatches(f)) \/ TimerReads \/ ApiRestart
    BY <1>8, <2>1, <2>3, <2>4
       DEF Store, TimerDispatches, TimerReads, ApiRestart, Asleep, Dispatcher
  <2>5. ASSUME NEW y \in Dispatcher, y # x, Publish(y) PROVE Stays
    BY <1>8, <2>3, <2>5 DEF Publish
  <2>6. ASSUME NEW y \in Dispatcher, ReadRow(y) \/ PublishFails(y) PROVE Stays
    <3>1. y # x => disp'[x] = disp[x] BY <2>3, <2>6 DEF ReadRow, PublishFails
    <3>2. [disp[y] EXCEPT !.pc = "publish"].pc = "publish" /\ Asleep.pc = "idle"
      BY <2>3 DEF Asleep
    <3>3. disp'[y].pc \in {"publish", "idle", "failed"}
      BY <2>3, <2>6, <3>2 DEF ReadRow, PublishFails
    <3> QED BY <1>8, <3>1, <3>3
  <2>7. ASSUME NEW y \in Dispatcher, MarkPublished(y) \/ MarkPublishedFails(y) PROVE Stays
    BY <1>8, <2>3, <2>7 DEF MarkPublished, MarkPublishedFails, Asleep
  <2>8. ASSUME NEW y \in Dispatcher, CountFailure(y) \/ GiveUp(y) PROVE Stays
    BY <1>8, <2>3, <2>8 DEF CountFailure, GiveUp, Asleep
  <2> QED BY <2>1, <2>2, <2>4, <2>5, <2>6, <2>7, <2>8 DEF Dispatch, DispatchFault
<1>9. ASSUME NEW e \in Event, row'[e].status \notin {"NONE", "PENDING"}
      PROVE  Carried(e, 0)'
  <2>1. CASE row[e].status \notin {"NONE", "PENDING"} BY <1>6, <2>1 DEF LeftIsCarried
  <2>2. CASE \E x \in Dispatcher : MarkPublished(x) /\ disp[x].event = e
    BY <1>6, <2>2 DEF LeftIsCarried, MarkPublished
  <2>3. row \in [Event -> [status: RowStatus, attempts: 0..DispatchLimit]]
    BY DEF Typed, TypeOK
  <2>4. CASE \E f \in Event : Store(f) BY <1>9, <2>1, <2>3, <2>4 DEF Store
  <2>5. CASE \E x \in Dispatcher : MarkPublished(x) /\ disp[x].event # e
    BY <1>9, <2>1, <2>3, <2>5 DEF MarkPublished
  <2>6. CASE \E x \in Dispatcher : CountFailure(x) BY <1>9, <2>1, <2>3, <2>6 DEF CountFailure
  <2>7. CASE UNCHANGED row BY <1>9, <2>1, <2>7
  <2> QED BY <2>2, <2>4, <2>5, <2>6, <2>7
          DEF TimerDispatches, TimerReads, Dispatch, DispatchFault, ReadRow, Publish,
              PublishFails, MarkPublishedFails, GiveUp, ApiRestart
<1>10. LeftIsCarried' BY <1>8, <1>9 DEF LeftIsCarried, Typed, Busy
<1> QED BY <1>2, <1>6, <1>7, <1>10

\* A connection or a process that ends gives the unacked messages back.
LEMMA GoneSafe ==
  ASSUME SafeInv, Typed', main' = Requeued, UNCHANGED <<declared, row, disp, retry, done, dlq>>,
         \A h \in Handler :
           \/ handler'[h].pc = "free"
           \/ /\ handler'[h].pc = handler[h].pc /\ handler'[h].event = handler[h].event
              /\ handler'[h].attempt = handler[h].attempt
  PROVE  declared' /\ AckIsSafe' /\ LeftIsCarried' /\ Keeps
<1> USE DEF Keeps, SafeInv, TrueInv
<1>1. TypeOK /\ Typed BY DEF Typed
<1>2. \A m \in Message : main[m] > 0 => main'[m] > 0 BY <1>1, RequeuedType
<1>3. ASSUME NEW h \in Handler, NEW e \in Event, NEW a \in Nat,
             handler[h].unacked, handler[h].event = e, handler[h].attempt = a
      PROVE  Carried(e, a)'
  <2>1. MessageOf(h) = [event |-> e, attempt |-> a] BY <1>3 DEF MessageOf
  <2>2. MessageOf(h) \in Message BY <1>1, <1>3, <2>1 DEF Message, TypeOK
  <2>3. main'[MessageOf(h)] > 0 BY <1>1, <1>3, <2>2, RequeuedType
  <2> QED BY <2>1, <2>2, <2>3 DEF Carried
<1>4. \A m \in Message : m.event \in Event /\ m.attempt \in Nat
  BY LimitAssumption DEF Message
<1>5. \A m \in Message : main[m] > 0 \/ retry[m] > 0 => Carried(m.event, m.attempt)'
  BY <1>2, <1>4 DEF Carried
<1>6. Keeps
  BY <1>1, <1>3, <1>5, CarriedStays
<1>7. AckIsSafe'
  <2>1. \A h \in Handler : handler[h].attempt + 1 \in Nat
    BY <1>1, LimitAssumption DEF TypeOK
  <2> QED BY <1>1, <1>6, <2>1 DEF AckIsSafe, Typed, Busy
<1>8. LeftIsCarried' BY <1>1, <1>6 DEF LeftIsCarried, Typed, Busy
<1> QED BY <1>6, <1>7, <1>8

\* One handler h moves: the carriers stay, and what its new place demands is known.
LEMMA HandlerSafe ==
  ASSUME SafeInv, Typed', UNCHANGED <<disp, declared>>, NEW h \in Handler,
         Keeps,
         \A k \in Handler \ {h} : handler'[k] = handler[k],
         handler'[h].pc # "free" => handler'[h].event = handler[h].event,
         handler'[h].pc # "free" => handler[h].pc # "free",
         handler'[h].pc = "ackRetry" => Carried(handler[h].event, handler[h].attempt + 1)',
         \A e \in Event : row'[e].status # row[e].status =>
           handler[h].pc # "free" /\ handler[h].event = e
  PROVE  declared' /\ AckIsSafe' /\ LeftIsCarried' /\ Keeps
<1> USE DEF Keeps, SafeInv, TrueInv
<1>1. \A k \in Handler : handler[k].attempt + 1 \in Nat
  BY LimitAssumption DEF Typed, TypeOK
<1>2. \A k \in Handler : handler[k].pc # "free" => handler[k].event \in Event
  BY DEF Typed, Busy
<1>3. ASSUME NEW k \in Handler, NEW e \in Event, handler[k].pc # "free", handler[k].event = e
      PROVE  Carried(e, 0)'
  BY <1>3 DEF AckIsSafe
<1>4. ASSUME NEW k \in Handler \ {h}, NEW e \in Event, NEW a \in Nat,
             handler[k].pc = "ackRetry", handler[k].event = e, handler[k].attempt + 1 = a
      PROVE  Carried(e, a)'
  BY <1>4 DEF AckIsSafe
<1>5. AckIsSafe' BY <1>1, <1>2, <1>3, <1>4 DEF AckIsSafe
<1>6. LeftIsCarried' BY <1>3 DEF LeftIsCarried, Typed, Busy
<1> QED BY <1>5, <1>6

\* A message enters a handler, or the queue again when its delay has passed.
LEMMA MoveSafe ==
  ASSUME SafeInv, Typed', NEW m \in Message,
         (\E h \in Handler : Consume(h, m)) \/ RetryExpires(m)
  PROVE  declared' /\ AckIsSafe' /\ LeftIsCarried' /\ Keeps
<1> USE DEF Keeps, SafeInv, TrueInv, history, api
<1>1. /\ main \in [Message -> Nat] /\ retry \in [Message -> Nat]
      /\ m.event \in Event /\ m.attempt \in Nat
      /\ \A k \in Message : k.event \in Event /\ k.attempt \in Nat
      /\ \A k \in Handler : handler[k].attempt \in Nat
  BY LimitAssumption DEF Typed, TypeOK, Message
<1>2. ASSUME NEW h \in Handler, Consume(h, m)
      PROVE  declared' /\ AckIsSafe' /\ LeftIsCarried' /\ Keeps
  <2>1. /\ handler'[h] = [pc |-> "process", event |-> m.event, attempt |-> m.attempt,
                          unacked |-> TRUE]
        /\ \A k \in Handler \ {h} : handler'[k] = handler[k]
        /\ \A k \in Message \ {m} : main'[k] = main[k]
        /\ handler[h].pc = "free" /\ ~handler[h].unacked
        /\ UNCHANGED <<row, disp, retry, declared, done, dlq>>
    BY <1>1, <1>2 DEF Consume, Take, Typed, TypeOK, Busy
  <2>2. Carried(m.event, m.attempt)' /\ Carried(m.event, 0)' BY <1>1, <2>1 DEF Carried
  <2>3. \A k \in Message : main[k] > 0 \/ retry[k] > 0 => Carried(k.event, k.attempt)'
    BY <1>1, <2>1, <2>2 DEF Carried
  <2>4. \A k \in Handler, f \in Event, b \in Nat :
          handler[k].unacked /\ handler[k].event = f /\ handler[k].attempt = b
            => Carried(f, b)'
    BY <1>1, <2>1 DEF Carried
  <2>5. Keeps
    BY <2>1, <2>3, <2>4, CarriedStays
  <2>6. AckIsSafe' BY <1>1, <2>1, <2>2, <2>5 DEF AckIsSafe, Typed, Busy
  <2>7. LeftIsCarried' BY <2>1, <2>5 DEF LeftIsCarried, Typed, Busy
  <2> QED BY <2>1, <2>5, <2>6, <2>7
<1>3. CASE RetryExpires(m)
  <2>1. /\ main' \in [Message -> Nat] /\ main'[m] > 0
        /\ \A k \in Message \ {m} : main'[k] = main[k] /\ retry'[k] = retry[k]
        /\ UNCHANGED <<row, disp, declared, handler, done, dlq>>
    BY <1>1, <1>3 DEF RetryExpires, Take, Put, Typed, TypeOK
  <2>2. \A k \in Message : main[k] > 0 \/ retry[k] > 0 => Carried(k.event, k.attempt)'
    BY <1>1, <2>1 DEF Carried
  <2>3. \A k \in Handler, f \in Event, b \in Nat :
          handler[k].unacked /\ handler[k].event = f /\ handler[k].attempt = b
            => Carried(f, b)'
    BY <1>1, <2>1 DEF Carried
  <2>4. Keeps
    BY <2>1, <2>2, <2>3, CarriedStays
  <2>5. AckIsSafe' BY <1>1, <2>1, <2>4 DEF AckIsSafe, Typed, Busy
  <2>6. LeftIsCarried' BY <2>1, <2>4 DEF LeftIsCarried, Typed, Busy
  <2> QED BY <2>1, <2>4, <2>5, <2>6
<1> QED BY <1>2, <1>3

\* Every step of a handler.
LEMMA HandleSafe ==
  ASSUME SafeInv, Typed', NEW h \in Handler, Handle(h)
  PROVE  declared' /\ AckIsSafe' /\ LeftIsCarried' /\ Keeps
<1> USE DEF Keeps, SafeInv, TrueInv, broker, api, history
<1>0. /\ Typed /\ TypeOK /\ handler[h].attempt \in Nat /\ handler[h].event \in Event
      /\ handler[h].pc # "free"
      /\ \A f \in Event : f = handler[h].event => Carried(f, 0)
  <2>1. handler[h].pc # "free"
    BY DEF Handle, ProcessSucceeds, ProcessFails, RecordProcessed, LogAndAck, LogFails,
           PublishRetry, AckRetry, DeadLetter, AckDead, MarkDead, ChannelThrows
  <2>2. Typed /\ TypeOK /\ handler[h].attempt \in Nat BY LimitAssumption DEF Typed, TypeOK
  <2>3. handler[h].event \in Event BY <2>1 DEF Typed, Busy
  <2> QED BY <2>1, <2>2, <2>3 DEF AckIsSafe
<1>1. ASSUME NEW pc \in {"record", "error", "log", "ackRetry", "ackDead"}, Goes(h, pc),
             UNCHANGED <<main, done>>, dlq \subseteq dlq',
             \A m \in Message : retry[m] > 0 => retry'[m] > 0
      PROVE  /\ Keeps
             /\ \A k \in Handler \ {h} : handler'[k] = handler[k]
             /\ handler'[h].pc = pc /\ handler'[h].event = handler[h].event
             /\ handler'[h].attempt = handler[h].attempt
  <2>1. \A k \in Handler : /\ handler'[k].event = handler[k].event
                           /\ handler'[k].attempt = handler[k].attempt
                           /\ handler'[k].unacked = handler[k].unacked
                           /\ handler'[k].pc = IF k = h THEN pc ELSE handler[k].pc
    BY <1>0, <1>1 DEF Goes, TypeOK
  <2>2. \A k \in Handler \ {h} : handler'[k] = handler[k] BY <1>0, <1>1 DEF Goes, TypeOK
  <2> QED BY <1>1, <2>1, <2>2 DEF Carried
<1>2. CASE ProcessSucceeds(h)
  BY <1>1, <1>2, HandlerSafe DEF ProcessSucceeds
<1>3. CASE ProcessFails(h) BY <1>1, <1>3, HandlerSafe DEF ProcessFails
<1>4. CASE RecordProcessed(h)
  <2>1. \A e \in Event : row'[e].status # row[e].status => e = handler[h].event
    BY <1>0, <1>4 DEF RecordProcessed, SetStatus, TypeOK
  <2> QED BY <1>0, <1>1, <1>4, <2>1, HandlerSafe DEF RecordProcessed
<1>5. CASE LogFails(h) BY <1>1, <1>5, HandlerSafe DEF LogFails
<1>6. CASE PublishRetry(h)
  <2> DEFINE n == [event |-> handler[h].event, attempt |-> handler[h].attempt + 1]
  <2>1. n \in Message /\ retry'[n] > 0 /\ \A m \in Message : retry[m] > 0 => retry'[m] > 0
    <3>1. n \in Message BY <1>0, <1>6, LimitAssumption DEF PublishRetry, Message
    <3>2. retry \in [Message -> Nat] /\ retry' = Put(retry, n)
      BY <1>0, <1>6 DEF PublishRetry, TypeOK
    <3> HIDE DEF n
    <3> QED BY <3>1, <3>2 DEF Put
  <2>2. ASSUME NEW f \in Event, NEW b \in Nat, f = handler[h].event, b = handler[h].attempt + 1
        PROVE  Carried(f, b)'
    BY <2>1, <2>2 DEF Carried
  <2>3. Goes(h, "ackRetry") /\ UNCHANGED <<row, disp, declared, main, done, dlq>>
    BY <1>6 DEF PublishRetry
  <2>4. Carried(handler[h].event, handler[h].attempt + 1)' BY <1>0, <1>1, <2>1, <2>2, <2>3
  <2> QED BY <1>0, <1>1, <2>1, <2>3, <2>4, HandlerSafe
<1>7. CASE DeadLetter(h) BY <1>0, <1>1, <1>7, HandlerSafe DEF DeadLetter
<1>8. ASSUME UNCHANGED <<main, retry, dlq>>, done \subseteq done',
             \A k \in Handler \ {h} : handler'[k] = handler[k],
             \A f \in Event, a \in Nat :
               f = handler[h].event /\ a = handler[h].attempt => Carried(f, a)'
      PROVE  Keeps
  <2>1. \A m \in Message : m.event \in Event /\ m.attempt \in Nat
    BY LimitAssumption DEF Message
  <2>2. \A m \in Message : main[m] > 0 \/ retry[m] > 0 => Carried(m.event, m.attempt)'
    BY <1>8, <2>1 DEF Carried
  <2>3. \A k \in Handler, f \in Event, b \in Nat :
          handler[k].unacked /\ handler[k].event = f /\ handler[k].attempt = b
            => Carried(f, b)'
    BY <1>8 DEF Carried
  <2> QED BY <1>0, <1>8, <2>2, <2>3, CarriedStays
<1>9. CASE LogAndAck(h)
  <2>1. handler'[h].pc = "free" /\ \A k \in Handler \ {h} : handler'[k] = handler[k]
    BY <1>0, <1>9 DEF LogAndAck, Free, TypeOK
  <2>2. \A f \in Event, a \in Nat : f = handler[h].event => Carried(f, a)'
    BY <1>9 DEF LogAndAck, Carried
  <2> QED BY <1>8, <1>9, <2>1, <2>2, HandlerSafe DEF LogAndAck
<1>10. CASE AckRetry(h)
  <2>1. handler'[h] = Free /\ \A k \in Handler \ {h} : handler'[k] = handler[k]
    BY <1>0, <1>10 DEF AckRetry, TypeOK
  <2>2. UNCHANGED <<main, retry, done, dlq, row, disp, declared>> BY <1>10 DEF AckRetry
  <2>3. ASSUME NEW f \in Event, NEW a \in Nat, f = handler[h].event, a = handler[h].attempt
        PROVE  Carried(f, a)'
    <3>1. Carried(f, a + 1) BY <1>10, <2>3 DEF AckRetry, AckIsSafe
    <3>2. \A m \in Message : m.attempt \in Nat BY LimitAssumption DEF Message
    <3>3. CASE \E m \in Message :
                 m.event = f /\ m.attempt >= a + 1 /\ (main[m] > 0 \/ retry[m] > 0)
      BY <2>2, <2>3, <3>2, <3>3 DEF Carried
    <3>4. CASE \E k \in Handler :
                 handler[k].unacked /\ handler[k].event = f /\ handler[k].attempt >= a + 1
      <4>1. PICK k \in Handler :
              handler[k].unacked /\ handler[k].event = f /\ handler[k].attempt >= a + 1
        BY <3>4
      <4>2. k # h BY <1>0, <2>3, <4>1
      <4>3. handler[k].attempt \in Nat BY LimitAssumption DEF Typed, TypeOK
      <4> QED BY <2>1, <2>3, <4>1, <4>2, <4>3 DEF Carried
    <3>5. CASE f \in done \/ f \in dlq BY <2>2, <3>5 DEF Carried
    <3> QED BY <3>1, <3>3, <3>4, <3>5 DEF Carried
  <2>4. Keeps BY <1>8, <2>1, <2>2, <2>3
  <2> QED BY <2>1, <2>2, <2>4, HandlerSafe DEF Free
<1>11. CASE AckDead(h)
  <2>1. /\ handler'[h].pc = "mark" /\ handler'[h].event = handler[h].event
        /\ \A k \in Handler \ {h} : handler'[k] = handler[k]
    BY <1>0, <1>11 DEF AckDead, TypeOK
  <2>2. \A f \in Event, a \in Nat : f = handler[h].event => Carried(f, a)'
    BY <1>0, <1>11 DEF AckDead, RecordIsTrue, Carried
  <2>3. UNCHANGED <<main, retry, done, dlq, row, disp, declared>> BY <1>11 DEF AckDead
  <2> QED BY <1>0, <1>8, <2>1, <2>2, <2>3, HandlerSafe
<1>12. CASE MarkDead(h)
  <2>1. handler'[h] = Free /\ \A k \in Handler \ {h} : handler'[k] = handler[k]
    BY <1>0, <1>12 DEF MarkDead, TypeOK
  <2>2. \A e \in Event : row'[e].status # row[e].status => e = handler[h].event
    BY <1>0, <1>12 DEF MarkDead, SetStatus, TypeOK
  <2>3. \A f \in Event, a \in Nat : f = handler[h].event => Carried(f, a)'
    BY <1>0, <1>12 DEF MarkDead, RecordIsTrue, Carried
  <2>4. UNCHANGED <<main, retry, done, dlq, disp, declared>> BY <1>12 DEF MarkDead
  <2> QED BY <1>0, <1>8, <2>1, <2>2, <2>3, <2>4, HandlerSafe DEF Free
<1>13. CASE ChannelThrows(h)
  <2>1. handler' = [k \in Handler |-> Free] BY <1>13 DEF ChannelThrows, WorkerGone
  <2> QED BY <1>13, <2>1, GoneSafe DEF ChannelThrows, WorkerGone, Free
<1> QED BY <1>2, <1>3, <1>4, <1>5, <1>6, <1>7, <1>9, <1>10, <1>11, <1>12, <1>13 DEF Handle

\* The worker starts, with no message of an earlier life, or goes.
LEMMA WorkerSafe ==
  ASSUME SafeInv, Typed', WorkerStart \/ WorkerCrash \/ ConnectionLost
  PROVE  declared' /\ AckIsSafe' /\ LeftIsCarried' /\ Keeps
<1> USE DEF Keeps, SafeInv, TrueInv, api, history
<1>1. CASE WorkerStart
  <2>1. \A h \in Handler : handler'[h].pc = "free" /\ ~handler[h].unacked
    BY <1>1 DEF WorkerStart, Free, Typed, Busy
  <2>2. UNCHANGED <<main, retry, done, dlq, row, disp>> /\ declared' BY <1>1 DEF WorkerStart
  <2>3. Keeps BY <2>1, <2>2 DEF Carried
  <2>4. AckIsSafe' BY <2>1 DEF AckIsSafe
  <2>5. LeftIsCarried' BY <2>2, <2>3 DEF LeftIsCarried, Typed, Busy
  <2> QED BY <2>2, <2>3, <2>4, <2>5
<1>2. CASE WorkerCrash
  <2>1. handler' = [k \in Handler |-> Free] BY <1>2 DEF WorkerCrash, WorkerGone
  <2> QED BY <1>2, <2>1, GoneSafe DEF WorkerCrash, WorkerGone, Free
<1>3. CASE ConnectionLost
  <2>1. \A h \in Handler :
          /\ handler'[h].pc = handler[h].pc /\ handler'[h].event = handler[h].event
          /\ handler'[h].attempt = handler[h].attempt
    BY <1>3 DEF ConnectionLost, Typed, TypeOK
  <2> QED BY <1>3, <2>1, GoneSafe DEF ConnectionLost
<1> QED BY <1>1, <1>2, <1>3

LEMMA StepSafe == SafeInv /\ [Next]_vars => SafeInv'
<1> SUFFICES ASSUME SafeInv, [Next]_vars PROVE SafeInv' OBVIOUS
<1>1. TrueInv' /\ Typed' BY StepTrue DEF SafeInv, TrueInv
<1>2. CASE UNCHANGED vars
  <2>1. declared' /\ AckIsSafe' /\ LeftIsCarried'
    BY <1>2 DEF vars, api, broker, history, SafeInv, AckIsSafe, LeftIsCarried, Carried
  <2> QED BY <1>1, <2>1 DEF SafeInv
<1> QED BY <1>1, <1>2, ApiSafe, HandleSafe, MoveSafe, WorkerSafe DEF Next, SafeInv

\* An event that left the outbox has a message, or has been processed and
\* acked, or is in the DLQ, however many events, handlers and faults there are.
THEOREM NothingLost == Declared => (Spec => []NoSilentLoss)
<1>1. SafeInv => NoSilentLoss
  BY DEF SafeInv, LeftIsCarried, Carried, NoSilentLoss, InFlight
<1>2. ASSUME Declared PROVE Spec => []NoSilentLoss
  BY <1>1, <1>2, InitSafe, StepSafe, PTL DEF Spec
<1> QED BY <1>2
-----------------------------------------------------------------------------
(* No event is given up early.                                             *)

\* A failure that is not counted yet.
Failed(x, e) == IF disp[x].pc = "failed" /\ disp[x].event = e THEN 1 ELSE 0

\* Of an event that never left the outbox, every attempt, counted or about to
\* be, was a fault; its dispatchers are its own request's and the timer's.
FaultsCounted ==
  /\ \A e \in Event : disp[e].pc # "idle" => disp[e].event = e
  /\ \A e \in Event : row[e].status \in {"NONE", "PENDING"} =>
       row[e].attempts + Failed(e, e) + Failed(Timer, e) <= faults

LEMMA InitCounted == Init => FaultsCounted
BY TimerAssumption DEF Init, FaultsCounted, Failed, Asleep, Dispatcher

\* The worker counts no attempts.
LEMMA WorkerCounted ==
  ASSUME Typed, FaultsCounted, UNCHANGED disp, faults' \in Nat, faults' >= faults,
         \A e \in Event : /\ row'[e].attempts = row[e].attempts
                          /\ row'[e].status \in {row[e].status, "PROCESSED", "DEAD_LETTERED"}
  PROVE  FaultsCounted'
<1>1. \A e \in Event : row[e].attempts \in Nat /\ Failed(e, e) \in Nat /\ Failed(Timer, e) \in Nat
  BY LimitAssumption DEF Typed, TypeOK, Failed
<1>2. faults \in Nat BY LimitAssumption DEF Typed, TypeOK
<1>3. \A e \in Event : Failed(e, e)' = Failed(e, e) /\ Failed(Timer, e)' = Failed(Timer, e)
  BY DEF Failed
<1> QED BY <1>1, <1>2, <1>3 DEF FaultsCounted

\* A dispatcher x that fails counts a fault, and counts its attempt later.
LEMMA DispatcherCounted ==
  ASSUME Typed, FaultsCounted, NEW x \in Dispatcher, NEW s,
         disp' = [disp EXCEPT ![x] = s], faults' \in Nat,
         s.pc # "idle" /\ x # Timer => s.event = x,
         \A e \in Event :
           row'[e].status \in {"NONE", "PENDING"} =>
             /\ row[e].status \in {"NONE", "PENDING"}
             /\ row'[e].attempts \in Nat
             /\ row'[e].attempts + Failed(x, e)' + faults
                  <= row[e].attempts + Failed(x, e) + faults'
  PROVE  FaultsCounted'
<1>1. disp'[x] = s /\ \A y \in Dispatcher \ {x} : disp'[y] = disp[y] BY DEF Typed, TypeOK
<1>2. \A e \in Event : e \in Dispatcher /\ e # Timer /\ Timer \in Dispatcher
  BY TimerAssumption DEF Dispatcher
<1>3. \A e \in Event : disp'[e].pc # "idle" => disp'[e].event = e BY <1>1, <1>2 DEF FaultsCounted
<1>4. ASSUME NEW e \in Event, row'[e].status \in {"NONE", "PENDING"}
      PROVE  row'[e].attempts + Failed(e, e)' + Failed(Timer, e)' <= faults'
  <2>1. PICK a \in Nat, b \in Nat, c \in Nat, d \in Nat :
          a = row[e].attempts /\ b = row'[e].attempts /\ c = faults /\ d = faults'
    BY <1>4, LimitAssumption DEF Typed, TypeOK
  <2>2. PICK f \in {0, 1}, g \in {0, 1} : f = Failed(e, e) /\ g = Failed(Timer, e) BY DEF Failed
  <2>3. PICK i \in {0, 1}, j \in {0, 1} : i = Failed(e, e)' /\ j = Failed(Timer, e)' BY DEF Failed
  <2>4. PICK k \in {0, 1}, l \in {0, 1} : k = Failed(x, e) /\ l = Failed(x, e)' BY DEF Failed
  <2>5. a + f + g <= c BY <1>4, <2>1, <2>2 DEF FaultsCounted
  <2>6. b + l + c <= a + k + d BY <1>4, <2>1, <2>4
  <2>7. b + i + j <= d
    <3>1. CASE x = e
      <4>1. f = k /\ i = l /\ j = g BY <1>1, <1>2, <2>2, <2>3, <2>4, <3>1 DEF Failed
      <4> QED BY <2>5, <2>6, <4>1
    <3>2. CASE x = Timer
      <4>1. g = k /\ j = l /\ i = f BY <1>1, <1>2, <2>2, <2>3, <2>4, <3>2 DEF Failed
      <4> QED BY <2>5, <2>6, <4>1
    <3>3. CASE x # e /\ x # Timer
      <4>1. f = i /\ g = j BY <1>1, <1>2, <2>2, <2>3, <3>3 DEF Failed
      <4>2. x \in Event BY <3>3 DEF Dispatcher
      <4>3. k = 0 BY <2>4, <3>3, <4>2 DEF Failed, FaultsCounted
      <4>4. l = 0 BY <1>3, <2>4, <3>3, <4>2 DEF Failed
      <4> QED BY <2>5, <2>6, <4>1, <4>3, <4>4
    <3> QED BY <3>1, <3>2, <3>3
  <2> QED BY <2>1, <2>3, <2>7
<1> QED BY <1>3, <1>4 DEF FaultsCounted

LEMMA OneMoreCounts == ASSUME NEW n \in Nat PROVE OneMore(n) \in Nat /\ OneMore(n) <= n + 1
BY DEF OneMore
\* Where no row but the dispatcher's event's loses its status, a dispatcher's
\* step is counted if it is for its own row and for a failure at most.
LEMMA ApiCounted ==
  ASSUME Typed, FaultsCounted,
         \/ \E e \in Event : Store(e) \/ TimerDispatches(e)
         \/ TimerReads
         \/ \E x \in Dispatcher : Dispatch(x) \/ DispatchFault(x)
         \/ ApiRestart
  PROVE  FaultsCounted'
<1> DEFINE State == [pc: {"idle", "read", "publish", "confirmed", "failed"},
                     event: Event \cup {None}]
<1>1. /\ row \in [Event -> [status: RowStatus, attempts: 0..DispatchLimit]]
      /\ \A e \in Event : row[e].attempts \in Nat
      /\ disp \in [Dispatcher -> State] /\ faults \in Nat
  BY LimitAssumption DEF Typed, TypeOK
<1>2. \A x \in Dispatcher : x # Timer => (disp[x].pc # "idle" => disp[x].event = x)
  BY DEF FaultsCounted, Dispatcher
<1>3. Timer \in Dispatcher /\ \A e \in Event : e \in Dispatcher BY DEF Dispatcher
<1>4. ASSUME NEW e \in Event, Store(e) PROVE FaultsCounted'
  <2> DEFINE s == [pc |-> "read", event |-> e]
  <2>1. disp' = [disp EXCEPT ![e] = s] /\ faults' = faults /\ disp'[e] = s
    BY <1>1, <1>3, <1>4 DEF Store
  <2>2. \A f \in Event : Failed(e, f)' = 0 /\ Failed(e, f) \in {0, 1} BY <2>1 DEF Failed
  <2>3. \A f \in Event : row'[f].attempts = row[f].attempts /\
                         (row'[f].status # row[f].status => row[f].status = "NONE")
    BY <1>1, <1>4 DEF Store
  <2>4. \A f \in Event :
          row'[f].status \in {"NONE", "PENDING"} =>
            /\ row[f].status \in {"NONE", "PENDING"} /\ row'[f].attempts \in Nat
            /\ row'[f].attempts + Failed(e, f)' + faults
                 <= row[f].attempts + Failed(e, f) + faults'
    BY <1>1, <2>1, <2>2, <2>3
  <2>5. s.pc # "idle" /\ s.event = e /\ faults' \in Nat BY <1>1, <2>1
  <2> QED BY <1>3, <2>1, <2>4, <2>5, DispatcherCounted
<1>5. ASSUME NEW x \in Dispatcher, NEW s \in State, disp' = [disp EXCEPT ![x] = s],
             s.event = disp[x].event \/ s.pc = "idle" \/ x = Timer,
             disp[x].pc # "idle" \/ x = Timer,
             (s.pc # "failed" /\ faults' = faults) \/ faults' = faults + 1,
             UNCHANGED row
      PROVE  FaultsCounted'
  <2>1. s.pc # "idle" /\ x # Timer => s.event = x BY <1>2, <1>5
  <2>2. disp'[x] = s BY <1>1, <1>5
  <2>3. \A f \in Event : /\ Failed(x, f) \in {0, 1} /\ Failed(x, f)' \in {0, 1}
                         /\ s.pc # "failed" => Failed(x, f)' = 0
    BY <2>2 DEF Failed
  <2>5. \A f \in Event :
          row'[f].status \in {"NONE", "PENDING"} =>
            /\ row[f].status \in {"NONE", "PENDING"} /\ row'[f].attempts \in Nat
            /\ row'[f].attempts + Failed(x, f)' + faults
                 <= row[f].attempts + Failed(x, f) + faults'
    BY <1>1, <1>5, <2>3
  <2>6. faults' \in Nat BY <1>1, <1>5
  <2> HIDE DEF State
  <2> QED BY <1>5, <2>1, <2>5, <2>6, DispatcherCounted
<1>6. ASSUME NEW e \in Event, TimerDispatches(e) PROVE FaultsCounted'
  <2>1. [pc |-> "read", event |-> e] \in State OBVIOUS
  <2> QED BY <1>3, <1>5, <1>6, <2>1 DEF TimerDispatches
<1>7. Asleep \in State /\ Asleep.pc = "idle" BY DEF Asleep
<1>8. ASSUME NEW x \in Dispatcher, ReadRow(x) PROVE FaultsCounted'
  <2>1. PICK s \in {[disp[x] EXCEPT !.pc = "publish"], Asleep} : disp' = [disp EXCEPT ![x] = s]
    BY <1>8 DEF ReadRow
  <2>2. s \in State /\ s.pc # "failed" /\ (s.event = disp[x].event \/ s.pc = "idle")
    BY <1>1, <1>7, <2>1
  <2> HIDE DEF State
  <2> QED BY <1>5, <1>8, <2>1, <2>2 DEF ReadRow
<1>9. ASSUME NEW x \in Dispatcher, NEW pc \in {"confirmed", "failed"}, disp[x].pc # "idle",
             disp' = [disp EXCEPT ![x].pc = pc], UNCHANGED row,
             (pc # "failed" /\ faults' = faults) \/ faults' = faults + 1
      PROVE  FaultsCounted'
  <2> DEFINE s == [disp[x] EXCEPT !.pc = pc]
  <2>1. s \in State /\ s.pc = pc /\ s.event = disp[x].event BY <1>1
  <2>2. disp' = [disp EXCEPT ![x] = s] BY <1>9
  <2> HIDE DEF State, s
  <2> QED BY <1>5, <1>9, <2>1, <2>2
<1>10. ASSUME NEW x \in Dispatcher, Publish(x) \/ PublishFails(x) \/ MarkPublishedFails(x)
       PROVE  FaultsCounted'
  BY <1>9, <1>10 DEF Publish, PublishFails, MarkPublishedFails, Fault
<1>11. ASSUME NEW x \in Dispatcher, GiveUp(x) PROVE FaultsCounted'
  BY <1>5, <1>7, <1>11 DEF GiveUp, Fault
<1>12. ASSUME NEW x \in Dispatcher, MarkPublished(x) \/ CountFailure(x) PROVE FaultsCounted'
  <2>1. disp' = [disp EXCEPT ![x] = Asleep] /\ disp'[x] = Asleep /\ faults' = faults
    BY <1>1, <1>12 DEF MarkPublished, CountFailure
  <2>2. \A f \in Event : Failed(x, f)' = 0 /\ Failed(x, f) \in {0, 1} BY <1>7, <2>1 DEF Failed
  <2>3. ASSUME NEW f \in Event, row'[f].status \in {"NONE", "PENDING"}
        PROVE  /\ row[f].status \in {"NONE", "PENDING"} /\ row'[f].attempts \in Nat
               /\ row'[f].attempts <= row[f].attempts + Failed(x, f)
    <3>1. CASE MarkPublished(x)
      BY <1>1, <2>2, <2>3, <3>1 DEF MarkPublished
    <3>2. CASE CountFailure(x) /\ disp[x].event = f
      <4>1. Failed(x, f) = 1 BY <3>2 DEF CountFailure, Failed
      <4>2. row'[f].status = row[f].status /\ row'[f].attempts = OneMore(row[f].attempts)
        BY <1>1, <3>2 DEF CountFailure
      <4> QED BY <1>1, <2>3, <4>1, <4>2, OneMoreCounts
    <3>3. CASE CountFailure(x) /\ disp[x].event # f
      BY <1>1, <2>2, <2>3, <3>3 DEF CountFailure
    <3> QED BY <1>12, <3>1, <3>2, <3>3
  <2>4. \A f \in Event :
          row'[f].status \in {"NONE", "PENDING"} =>
            /\ row[f].status \in {"NONE", "PENDING"} /\ row'[f].attempts \in Nat
            /\ row'[f].attempts + Failed(x, f)' + faults
                 <= row[f].attempts + Failed(x, f) + faults'
    BY <1>1, <2>1, <2>2, <2>3
  <2> QED BY <1>1, <1>7, <2>1, <2>4, DispatcherCounted
<1>13. CASE TimerReads BY <1>13 DEF TimerReads, FaultsCounted, Failed, history
<1>14. CASE ApiRestart
  <2>1. \A x \in Dispatcher : disp'[x] = Asleep BY <1>14 DEF ApiRestart
  <2>2. \A e \in Event : disp'[e].pc = "idle" /\ Failed(e, e)' = 0 /\ Failed(Timer, e)' = 0
    BY <1>3, <1>7, <2>1 DEF Failed
  <2>3. faults' = faults + 1 /\ row' = row BY <1>14 DEF ApiRestart, Fault
  <2>4. \A e \in Event : Failed(e, e) \in {0, 1} /\ Failed(Timer, e) \in {0, 1} BY DEF Failed
  <2>5. \A e \in Event : row[e].status \in {"NONE", "PENDING"} => row[e].attempts <= faults
    BY <1>1, <2>4 DEF FaultsCounted
  <2> QED BY <1>1, <2>2, <2>3, <2>5 DEF FaultsCounted
<1> QED BY <1>4, <1>6, <1>8, <1>10, <1>11, <1>12, <1>13, <1>14 DEF Dispatch, DispatchFault

LEMMA StepCounted ==
  ASSUME Typed, FaultsCounted, [Next]_vars PROVE FaultsCounted'
<1>1. /\ row \in [Event -> [status: RowStatus, attempts: 0..DispatchLimit]] /\ faults \in Nat
  BY LimitAssumption DEF Typed, TypeOK
<1>2. CASE \/ WorkerStart \/ WorkerCrash \/ ConnectionLost
           \/ \E h \in Handler : Handle(h) \/ \E m \in Message : Consume(h, m)
           \/ \E m \in Message : RetryExpires(m)
  <2>1. disp' = disp
    BY <1>2 DEF WorkerStart, WorkerCrash, WorkerGone, ConnectionLost, Handle, Consume, RetryExpires,
       ProcessSucceeds, ProcessFails, RecordProcessed, LogAndAck, LogFails, PublishRetry,
       AckRetry, DeadLetter, AckDead, MarkDead, ChannelThrows, api
  <2>2. faults' \in {faults, faults + 1}
    BY <1>2 DEF WorkerStart, WorkerCrash, WorkerGone, ConnectionLost, Handle, Consume, RetryExpires,
       ProcessSucceeds, ProcessFails, RecordProcessed, LogAndAck, LogFails, PublishRetry,
       AckRetry, DeadLetter, AckDead, MarkDead, ChannelThrows, Fault
  <2>3. UNCHANGED row \/ \E h \in Handler : SetStatus(h, "PROCESSED") \/ SetStatus(h, "DEAD_LETTERED")
    BY <1>2 DEF WorkerStart, WorkerCrash, WorkerGone, ConnectionLost, Handle, Consume, RetryExpires,
       ProcessSucceeds, ProcessFails, RecordProcessed, LogAndAck, LogFails, PublishRetry,
       AckRetry, DeadLetter, AckDead, MarkDead, ChannelThrows
  <2>4. \A e \in Event : /\ row'[e].attempts = row[e].attempts
                         /\ row'[e].status \in {row[e].status, "PROCESSED", "DEAD_LETTERED"}
    <3>1. CASE UNCHANGED row BY <3>1
    <3>2. ASSUME NEW h \in Handler, NEW status \in {"PROCESSED", "DEAD_LETTERED"},
                 SetStatus(h, status), NEW e \in Event
          PROVE  /\ row'[e].attempts = row[e].attempts
                 /\ row'[e].status \in {row[e].status, "PROCESSED", "DEAD_LETTERED"}
      BY <1>1, <3>2 DEF SetStatus
    <3> QED BY <2>3, <3>1, <3>2
  <2> QED BY <1>1, <2>1, <2>2, <2>4, WorkerCounted
<1>3. CASE UNCHANGED vars BY <1>3 DEF vars, api, FaultsCounted, Failed
<1> QED BY <1>2, <1>3, ApiCounted DEF Next

\* The attempts of an event that is not published yet are faults: the timer
\* gives none up before there were as many as its limit.
THEOREM NoneGivenUpEarly == Spec => []StillTried
<1>1. Typed /\ FaultsCounted => StillTried
  <2> SUFFICES ASSUME Typed, FaultsCounted, NEW e \in Event, row[e].status = "PENDING",
                      faults < DispatchLimit
               PROVE  row[e].attempts < DispatchLimit
    BY DEF StillTried
  <2>1. row[e].attempts \in Nat /\ Failed(e, e) \in {0, 1} /\ Failed(Timer, e) \in {0, 1}
    BY LimitAssumption DEF Typed, TypeOK, Failed
  <2>2. row[e].attempts + Failed(e, e) + Failed(Timer, e) <= faults BY DEF FaultsCounted
  <2> QED BY <2>1, <2>2, LimitAssumption DEF Typed, TypeOK
<1>2. FaultsCounted /\ Typed /\ [Next]_vars => FaultsCounted' BY StepCounted
<1> QED BY <1>1, <1>2, InitTyped, StepTyped, InitCounted, PTL DEF Spec
-----------------------------------------------------------------------------
(* Outbox, broker and worker implement the at-least-once channel.          *)

\* What the channel shows of this state.
Told == [e \in Event |-> row[e].status]
Answered == {e \in Event : InFlight(e) \/ e \in done \/ e \in dlq}
Executed == {e \in Event : ran[e] > 0}
Shown == <<Told, Answered, Executed, done, dlq>>

\* Only what is stored is dispatched.
OnlyStored ==
  /\ \A x \in Dispatcher : disp[x].pc # "idle" => row[disp[x].event].status # "NONE"
  /\ \A e \in batch : row[e].status # "NONE"

ChannelInv == SafeInv /\ OnlyStored

LEMMA InitChannel == Declared /\ Init => ChannelInv
BY InitSafe DEF Init, ChannelInv, OnlyStored, Asleep

\* A row, once stored, never becomes unstored.
LEMMA StoredStays ==
  ASSUME Typed, [Next]_vars, NEW e \in Event, row[e].status # "NONE"
  PROVE  row'[e].status # "NONE"
<1>1. row \in [Event -> [status: RowStatus, attempts: 0..DispatchLimit]] BY DEF Typed, TypeOK
<1>2. ASSUME NEW f \in Event, Store(f) PROVE row'[e].status # "NONE"
  BY <1>1, <1>2 DEF Store
<1>3. ASSUME NEW x \in Dispatcher, MarkPublished(x) \/ CountFailure(x)
      PROVE  row'[e].status # "NONE"
  BY <1>1, <1>3 DEF MarkPublished, CountFailure
<1>4. ASSUME NEW h \in Handler, RecordProcessed(h) \/ MarkDead(h) PROVE row'[e].status # "NONE"
  BY <1>1, <1>4 DEF RecordProcessed, MarkDead, SetStatus
<1>5. CASE UNCHANGED row BY <1>5
<1> QED BY <1>2, <1>3, <1>4, <1>5
        DEF Next, vars, Dispatch, DispatchFault, Handle, TimerDispatches, TimerReads, ReadRow,
            Publish, PublishFails, MarkPublishedFails, GiveUp, ApiRestart, WorkerStart,
            WorkerCrash, WorkerGone, ConnectionLost, ProcessSucceeds, ProcessFails, LogAndAck,
            LogFails, PublishRetry, AckRetry, DeadLetter, AckDead, ChannelThrows, Consume,
            RetryExpires

LEMMA StepStored == Typed /\ OnlyStored /\ [Next]_vars => OnlyStored'
<1> SUFFICES ASSUME Typed, OnlyStored, [Next]_vars PROVE OnlyStored' OBVIOUS
<1> DEFINE State == [pc: {"idle", "read", "publish", "confirmed", "failed"},
                     event: Event \cup {None}]
<1>1. disp \in [Dispatcher -> State] /\ batch \subseteq Event BY DEF Typed, TypeOK
<1>2. \A e \in Event : row[e].status # "NONE" => row'[e].status # "NONE" BY StoredStays
<1>3. \A x \in Dispatcher : disp[x].pc # "idle" => disp[x].event \in Event BY DEF Typed, Busy
<1>4. ASSUME \A x \in Dispatcher :
               \/ disp'[x].pc = "idle"
               \/ disp[x].pc # "idle" /\ disp'[x].event = disp[x].event
               \/ disp'[x].event \in Event /\ row'[disp'[x].event].status # "NONE",
             \A e \in batch' : e \in batch \/ (e \in Event /\ row[e].status # "NONE")
      PROVE  OnlyStored'
  BY <1>1, <1>2, <1>3, <1>4 DEF OnlyStored
<1>5. ASSUME NEW e \in Event, Store(e) PROVE OnlyStored'
  <2>1. row \in [Event -> [status: RowStatus, attempts: 0..DispatchLimit]] BY DEF Typed, TypeOK
  <2>2. row'[e].status # "NONE" BY <1>5, <2>1 DEF Store
  <2> QED BY <1>1, <1>4, <1>5, <2>2 DEF Store
<1>6. ASSUME NEW e \in Event, TimerDispatches(e) PROVE OnlyStored'
  BY <1>1, <1>2, <1>4, <1>6 DEF TimerDispatches, OnlyStored
<1>7. CASE TimerReads BY <1>1, <1>4, <1>7 DEF TimerReads
<1>8. ASSUME NEW x \in Dispatcher, Dispatch(x) \/ DispatchFault(x) PROVE OnlyStored'
  <2>1. \A y \in Dispatcher \ {x} : disp'[y] = disp[y]
    BY <1>1, <1>8 DEF Dispatch, DispatchFault, ReadRow, Publish, MarkPublished, CountFailure,
       PublishFails, MarkPublishedFails, GiveUp
  <2>2. Asleep.pc = "idle" BY DEF Asleep
  <2>3. disp'[x].pc = "idle" \/ (disp[x].pc # "idle" /\ disp'[x].event = disp[x].event)
    BY <1>1, <1>8, <2>2 DEF Dispatch, DispatchFault, ReadRow, Publish, MarkPublished,
       CountFailure, PublishFails, MarkPublishedFails, GiveUp
  <2>4. batch' \subseteq batch
    BY <1>8 DEF Dispatch, DispatchFault, ReadRow, Publish, MarkPublished, CountFailure,
       PublishFails, MarkPublishedFails, GiveUp
  <2> QED BY <1>4, <2>1, <2>3, <2>4
<1>9. CASE ApiRestart BY <1>4, <1>9 DEF ApiRestart, Asleep
<1>10. CASE UNCHANGED <<disp, batch>> BY <1>4, <1>10
<1> QED BY <1>5, <1>6, <1>7, <1>8, <1>9, <1>10
        DEF Next, vars, api, Handle, WorkerStart, WorkerCrash, WorkerGone, ConnectionLost,
            ProcessSucceeds, ProcessFails, RecordProcessed, LogAndAck, LogFails, PublishRetry,
            AckRetry, DeadLetter, AckDead, MarkDead, ChannelThrows, Consume, RetryExpires

LEMMA ChannelStep == ChannelInv /\ [Next]_vars => ChannelInv'
BY StepSafe, StepStored DEF ChannelInv, SafeInv, TrueInv
\* Answered is what is carried from the first attempt on.
LEMMA AnsweredIsCarried ==
  ASSUME Typed, NEW e \in Event PROVE e \in Answered <=> Carried(e, 0)
<1>1. \A m \in Message : m.attempt >= 0 BY LimitAssumption DEF Message
<1>2. \A h \in Handler : handler[h].attempt >= 0 BY LimitAssumption DEF Typed, TypeOK
<1> QED BY <1>1, <1>2 DEF Answered, InFlight, Carried

\* Nobody answers for an event that nobody answered for before the step, if
\* every message and outcome of the new state is of one that somebody did.
LEMMA NoneNew ==
  ASSUME \A m \in Message : main'[m] > 0 \/ retry'[m] > 0 => m.event \in Answered,
         \A h \in Handler : handler'[h].unacked => handler'[h].event \in Answered,
         done' \subseteq Answered, dlq' \subseteq Answered
  PROVE  Answered' \subseteq Answered
BY DEF Answered, InFlight

\* Who has a message or an outcome is answered for.
LEMMA SomeAnswer ==
  ASSUME Typed
  PROVE  /\ \A m \in Message : main[m] > 0 \/ retry[m] > 0 => m.event \in Answered
         /\ \A h \in Handler : handler[h].unacked => handler[h].event \in Answered
         /\ done \subseteq Answered /\ dlq \subseteq Answered
<1>1. \A m \in Message : m.event \in Event BY DEF Message
<1>2. \A h \in Handler : handler[h].unacked => handler[h].event \in Event BY DEF Typed, Busy
<1>3. done \subseteq Event /\ dlq \subseteq Event BY DEF Typed, TypeOK
<1> QED BY <1>1, <1>2, <1>3 DEF Answered, InFlight

\* What the broker takes back, it had given.
LEMMA RequeuedWas ==
  ASSUME TypeOK, NEW m \in Message, Requeued[m] > 0
  PROVE  main[m] > 0 \/ \E h \in Handler : handler[h].unacked /\ handler[h].event = m.event
<1> DEFINE S == {h \in Handler : handler[h].unacked /\ MessageOf(h) = m}
<1>1. CASE S = {}
  <2>1. Cardinality(S) = 0 BY <1>1, FS_EmptySet
  <2>2. Requeued[m] = main[m] + Cardinality(S) BY DEF Requeued
  <2>3. main[m] \in Nat BY DEF TypeOK
  <2> QED BY <2>1, <2>2, <2>3
<1>2. CASE S # {} BY <1>2 DEF MessageOf
<1> QED BY <1>1, <1>2

LEMMA GoneAnswered ==
  ASSUME Typed, main' = Requeued, UNCHANGED <<retry, done, dlq>>,
         \A h \in Handler : ~handler'[h].unacked
  PROVE  Answered' \subseteq Answered
<1>1. \A m \in Message : main'[m] > 0 => m.event \in Answered
  BY SomeAnswer, RequeuedWas DEF Typed
<1> QED BY <1>1, SomeAnswer, NoneNew

LEMMA HandleAnswered ==
  ASSUME SafeInv, NEW h \in Handler, Handle(h) PROVE Answered' \subseteq Answered
<1>1. /\ Typed /\ TypeOK /\ AckIsSafe
      /\ handler[h].pc # "free" => handler[h].event \in Event
  BY DEF SafeInv, TrueInv, Typed, Busy
<1>2. handler[h].pc # "free" => handler[h].event \in Answered
  BY <1>1, AnsweredIsCarried DEF AckIsSafe
<1>3. ASSUME NEW s, handler' = [handler EXCEPT ![h] = s],
             s.unacked => s.event = handler[h].event, handler[h].pc # "free"
      PROVE  \A k \in Handler : handler'[k].unacked => handler'[k].event \in Answered
  BY <1>1, <1>2, <1>3, SomeAnswer DEF TypeOK
<1>4. ASSUME NEW pc, Goes(h, pc), handler[h].pc # "free"
      PROVE  \A k \in Handler : handler'[k].unacked => handler'[k].event \in Answered
  <2> DEFINE s == [handler[h] EXCEPT !.pc = pc]
  <2>1. s.event = handler[h].event BY <1>1 DEF TypeOK
  <2>2. handler' = [handler EXCEPT ![h] = s] BY <1>4 DEF Goes
  <2> HIDE DEF s
  <2> QED BY <1>3, <1>4, <2>1, <2>2
<1>5. CASE ProcessSucceeds(h) \/ ProcessFails(h) \/ RecordProcessed(h) \/ LogFails(h)
  <2>1. handler[h].pc # "free" /\ \E pc \in {"record", "error", "log"} : Goes(h, pc)
    BY <1>5 DEF ProcessSucceeds, ProcessFails, RecordProcessed, LogFails
  <2>2. UNCHANGED <<main, retry, dlq, done>>
    BY <1>5 DEF ProcessSucceeds, ProcessFails, RecordProcessed, LogFails, broker, history
  <2> QED BY <1>1, <1>4, <2>1, <2>2, SomeAnswer, NoneNew
<1>6. CASE PublishRetry(h)
  <2> DEFINE n == [event |-> handler[h].event, attempt |-> handler[h].attempt + 1]
  <2>1. handler[h].pc # "free" /\ Goes(h, "ackRetry") /\ UNCHANGED <<main, dlq, done>>
    BY <1>6 DEF PublishRetry, history
  <2>2. \A m \in Message : retry'[m] > 0 => retry[m] > 0 \/ m = n
    BY <1>1, <1>6 DEF PublishRetry, Put, TypeOK
  <2>3. n.event = handler[h].event OBVIOUS
  <2> HIDE DEF n
  <2> QED BY <1>1, <1>2, <1>4, <2>1, <2>2, <2>3, SomeAnswer, NoneNew
<1>7. CASE DeadLetter(h)
  <2>1. /\ handler[h].pc # "free" /\ Goes(h, "ackDead") /\ UNCHANGED <<main, retry, done>>
        /\ dlq' = dlq \cup {handler[h].event}
    BY <1>7 DEF DeadLetter, history
  <2> QED BY <1>1, <1>2, <1>4, <2>1, SomeAnswer, NoneNew
<1>8. CASE LogAndAck(h)
  <2>1. /\ handler[h].pc # "free" /\ handler' = [handler EXCEPT ![h] = Free]
        /\ UNCHANGED <<main, retry, dlq>> /\ done' = done \cup {handler[h].event}
    BY <1>8 DEF LogAndAck, broker
  <2> QED BY <1>1, <1>2, <1>3, <2>1, SomeAnswer, NoneNew DEF Free
<1>9. CASE AckRetry(h) \/ MarkDead(h)
  <2>1. /\ handler[h].pc # "free" /\ handler' = [handler EXCEPT ![h] = Free]
        /\ UNCHANGED <<main, retry, dlq, done>>
    BY <1>9 DEF AckRetry, MarkDead, broker, history
  <2> QED BY <1>1, <1>3, <2>1, SomeAnswer, NoneNew DEF Free
<1>10. CASE AckDead(h)
  <2> DEFINE s == [handler[h] EXCEPT !.pc = "mark", !.unacked = FALSE]
  <2>1. handler[h].pc # "free" /\ UNCHANGED <<main, retry, dlq, done>>
    BY <1>10 DEF AckDead, broker, history
  <2>2. handler' = [handler EXCEPT ![h] = s] BY <1>10 DEF AckDead
  <2>3. ~s.unacked BY <1>1 DEF TypeOK
  <2> HIDE DEF s
  <2> QED BY <1>1, <1>3, <2>1, <2>2, <2>3, SomeAnswer, NoneNew
<1>11. CASE ChannelThrows(h)
  BY <1>1, <1>11, GoneAnswered DEF ChannelThrows, WorkerGone, Free, history
<1> QED BY <1>5, <1>6, <1>7, <1>8, <1>9, <1>10, <1>11 DEF Handle

LEMMA MoveAnswered ==
  ASSUME Typed, NEW m \in Message, (\E h \in Handler : Consume(h, m)) \/ RetryExpires(m)
  PROVE  Answered' \subseteq Answered
<1>1. main \in [Message -> Nat] /\ retry \in [Message -> Nat] BY DEF Typed, TypeOK
<1>2. ASSUME NEW h \in Handler, Consume(h, m) PROVE Answered' \subseteq Answered
  <2>1. /\ main[m] > 0 /\ UNCHANGED <<retry, dlq, done>>
        /\ \A k \in Message : main'[k] > 0 => main[k] > 0
    BY <1>1, <1>2 DEF Consume, Take, history
  <2>2. \A k \in Handler : handler'[k].unacked =>
                             handler'[k].event = m.event \/
                             (handler[k].unacked /\ handler'[k].event = handler[k].event)
    BY <1>2 DEF Consume, Typed, TypeOK
  <2> QED BY <2>1, <2>2, SomeAnswer, NoneNew
<1>3. CASE RetryExpires(m)
  <2>1. /\ retry[m] > 0 /\ UNCHANGED <<handler, dlq, done>>
        /\ \A k \in Message : retry'[k] > 0 => retry[k] > 0
        /\ \A k \in Message : main'[k] > 0 => main[k] > 0 \/ k = m
    BY <1>1, <1>3 DEF RetryExpires, Take, Put, history
  <2> QED BY <2>1, SomeAnswer, NoneNew
<1> QED BY <1>2, <1>3

\* No step of the worker or of the broker changes who is answered for.
LEMMA WorkerKeepsAnswered ==
  ASSUME SafeInv, Typed',
         \/ WorkerStart \/ WorkerCrash \/ ConnectionLost
         \/ \E h \in Handler : Handle(h) \/ \E m \in Message : Consume(h, m)
         \/ \E m \in Message : RetryExpires(m)
  PROVE  Answered' = Answered
<1>1. Typed BY DEF SafeInv, TrueInv
<1>2. Keeps BY HandleSafe, MoveSafe, WorkerSafe
<1>3. \A e \in Event : e \in Answered' <=> Carried(e, 0)'
  <2>1. \A m \in Message : m.attempt >= 0 BY LimitAssumption DEF Message
  <2>2. \A h \in Handler : handler'[h].attempt >= 0 BY LimitAssumption DEF Typed, TypeOK
  <2> QED BY <2>1, <2>2 DEF Answered, InFlight, Carried
<1>4. Answered \subseteq Answered'
  BY <1>1, <1>2, <1>3, AnsweredIsCarried DEF Keeps, Answered
<1>5. Answered' \subseteq Answered
  <2>1. CASE WorkerStart
    BY <1>1, <2>1, SomeAnswer, NoneNew DEF WorkerStart, Free, history
  <2>2. CASE WorkerCrash
    BY <1>1, <2>2, GoneAnswered DEF WorkerCrash, WorkerGone, Free, history
  <2>3. CASE ConnectionLost
    <3>1. \A h \in Handler : ~handler'[h].unacked
      BY <1>1, <2>3 DEF ConnectionLost, Typed, TypeOK
    <3> QED BY <1>1, <2>3, <3>1, GoneAnswered DEF ConnectionLost, history
  <2> QED BY <1>1, <2>1, <2>2, <2>3, HandleAnswered, MoveAnswered
<1> QED BY <1>4, <1>5
\* What a step that is shown only in Told says to the channel.
LEMMA TellsChannel ==
  ASSUME NEW e \in Event, NEW status, Told' = [Told EXCEPT ![e] = status],
         UNCHANGED <<Answered, Executed, done, dlq>>
  PROVE  Channel!Tell(e, status)
BY DEF Channel!Tell, Told, Answered, Executed

\* A publication is the moment an event finds its carrier, or is of one that
\* had one, or has put nothing into the queue.
LEMMA PublicationRefines ==
  ASSUME ChannelInv, Typed', NEW x \in Dispatcher, Publish(x) \/ PublishFails(x)
  PROVE  Channel!Next \/ UNCHANGED Shown
<1>1. /\ disp[x].pc = "publish" /\ (Enqueue(disp[x].event) \/ UNCHANGED main)
      /\ UNCHANGED <<row, retry, dlq, handler, ran, done>>
  BY DEF Publish, PublishFails, history
<1>2. CASE UNCHANGED main BY <1>1, <1>2 DEF Shown, Told, Answered, InFlight, Executed
<1>3. CASE Enqueue(disp[x].event)
  <2>1. /\ disp[x].event \in Event /\ row[disp[x].event].status # "NONE"
        /\ main \in [Message -> Nat] /\ declared
    <3>1. Typed /\ OnlyStored /\ declared BY DEF ChannelInv, SafeInv, TrueInv
    <3> QED BY <1>1, <3>1 DEF OnlyStored, Typed, TypeOK, Busy
  <2>2. PICK e \in Event : e = disp[x].event BY <2>1
  <2>3. PICK n \in Message : n.event = e /\ main' = Put(main, n)
    <3>1. [event |-> e, attempt |-> 0] \in Message BY LimitAssumption DEF Message
    <3>2. main' = Put(main, [event |-> e, attempt |-> 0]) BY <1>3, <2>1, <2>2 DEF Enqueue
    <3> QED BY <3>1, <3>2
  <2>4. main'[n] > 0 /\ \A m \in Message \ {n} : main'[m] = main[m]
    BY <2>1, <2>3 DEF Put
  <2>5. \A f \in Event \ {e} : InFlight(f)' <=> InFlight(f)
    BY <1>1, <2>3, <2>4 DEF InFlight
  <2>6. InFlight(e)' BY <2>3, <2>4 DEF InFlight
  <2>7. Answered' = Answered \cup {e} BY <1>1, <2>5, <2>6 DEF Answered
  <2>8. Channel!Carry(e) BY <1>1, <2>1, <2>2, <2>7 DEF Channel!Carry, Answered
  <2> QED BY <2>8 DEF Channel!Next
<1> QED BY <1>1, <1>2, <1>3

LEMMA ApiRefines ==
  ASSUME ChannelInv, Typed',
         \/ \E e \in Event : Store(e) \/ TimerDispatches(e)
         \/ TimerReads
         \/ \E x \in Dispatcher : Dispatch(x) \/ DispatchFault(x)
         \/ ApiRestart
  PROVE  Channel!Next \/ UNCHANGED Shown
<1>1. /\ row \in [Event -> [status: RowStatus, attempts: 0..DispatchLimit]]
      /\ row' \in [Event -> [status: RowStatus, attempts: 0..DispatchLimit]]
  BY DEF ChannelInv, SafeInv, TrueInv, Typed, TypeOK
<1>2. ASSUME UNCHANGED <<main, retry, handler, done, dlq, ran>>
      PROVE  UNCHANGED <<Answered, Executed, done, dlq>>
  BY <1>2 DEF Answered, InFlight, Executed
<1>3. ASSUME NEW e \in Event, Store(e) PROVE Channel!Next
  <2>1. Told[e] = "NONE" /\ Told' = [Told EXCEPT ![e] = "PENDING"]
    BY <1>1, <1>3 DEF Store, Told
  <2>2. Channel!Tell(e, "PENDING")
    BY <1>2, <1>3, <2>1, TellsChannel DEF Store, broker, history
  <2>3. Channel!Store(e) BY <2>1, <2>2 DEF Channel!Store, Told
  <2> QED BY <2>3 DEF Channel!Next
<1>4. ASSUME NEW x \in Dispatcher, MarkPublished(x) PROVE Channel!Next
  <2>1. PICK e \in Event : e = disp[x].event /\ e \in Answered
    <3>1. Typed /\ LeftIsCarried /\ disp[x].pc = "confirmed"
      BY <1>4 DEF MarkPublished, ChannelInv, SafeInv, TrueInv
    <3>2. disp[x].event \in Event BY <3>1 DEF Typed, Busy
    <3>3. PICK e \in Event : e = disp[x].event BY <3>2
    <3> QED BY <3>1, <3>3, AnsweredIsCarried DEF LeftIsCarried
  <2>2. Told' = [Told EXCEPT ![e] = "PUBLISHED"] BY <1>1, <1>4, <2>1 DEF MarkPublished, Told
  <2>3. Channel!Tell(e, "PUBLISHED")
    BY <1>2, <1>4, <2>1, <2>2, TellsChannel DEF MarkPublished, broker, history
  <2>4. Channel!TellTruth(e) BY <2>1, <2>3 DEF Channel!TellTruth, Answered
  <2> QED BY <2>1, <2>4 DEF Channel!Next
<1>5. ASSUME NEW x \in Dispatcher, CountFailure(x) PROVE UNCHANGED Shown
  <2>1. Told' = Told BY <1>1, <1>5 DEF CountFailure, Told
  <2> QED BY <1>2, <1>5, <2>1 DEF CountFailure, Shown, broker, history
<1>6. CASE UNCHANGED <<row, main, retry, handler, done, dlq, ran>>
  BY <1>2, <1>6 DEF Shown, Told
<1> QED BY <1>3, <1>4, <1>5, <1>6, PublicationRefines
        DEF Dispatch, DispatchFault, TimerDispatches, TimerReads, ReadRow, MarkPublishedFails,
            GiveUp, ApiRestart, broker, history

\* A handler executes, acks and buries what somebody answers for.
LEMMA HandlerRefines ==
  ASSUME ChannelInv, Typed', NEW h \in Handler, Handle(h)
  PROVE  Channel!Next \/ UNCHANGED Shown
<1>1. /\ row \in [Event -> [status: RowStatus, attempts: 0..DispatchLimit]]
      /\ ran \in [Event -> 0..2] /\ Typed /\ SafeInv
  BY DEF ChannelInv, SafeInv, TrueInv, Typed, TypeOK
<1>2. Answered' = Answered BY <1>1, WorkerKeepsAnswered
<1>3. PICK e \in Event : e = handler[h].event /\ e \in Answered
  <2>1. handler[h].pc # "free"
    BY DEF Handle, ProcessSucceeds, ProcessFails, RecordProcessed, LogAndAck, LogFails,
           PublishRetry, AckRetry, DeadLetter, AckDead, MarkDead, ChannelThrows
  <2>2. PICK e \in Event : e = handler[h].event BY <1>1, <2>1 DEF Typed, Busy
  <2> QED BY <1>1, <2>1, <2>2, AnsweredIsCarried DEF SafeInv, AckIsSafe
<1>4. CASE ProcessSucceeds(h)
  <2>1. ran'[e] > 0 /\ \A f \in Event \ {e} : ran'[f] = ran[f]
    BY <1>1, <1>3, <1>4 DEF ProcessSucceeds
  <2>2. Executed' = Executed \cup {e} BY <2>1 DEF Executed
  <2>3. UNCHANGED <<row, done, dlq>> BY <1>4 DEF ProcessSucceeds, broker
  <2>4. Channel!Execute(e)
    BY <1>2, <1>3, <2>2, <2>3 DEF Channel!Execute, Answered, Executed
  <2> QED BY <2>4 DEF Channel!Next
<1>5. CASE LogAndAck(h)
  <2>1. e \in Executed
    BY <1>1, <1>3, <1>5 DEF LogAndAck, SafeInv, TrueInv, RecordIsTrue, Executed
  <2>2. done' = done \cup {e} /\ UNCHANGED <<row, ran, dlq>>
    BY <1>3, <1>5 DEF LogAndAck, broker
  <2>3. Channel!Ack(e) BY <1>2, <2>1, <2>2 DEF Channel!Ack, Answered, Executed
  <2> QED BY <2>3 DEF Channel!Next
<1>6. CASE DeadLetter(h)
  <2>1. dlq' = dlq \cup {e} /\ UNCHANGED <<row, ran, done>>
    BY <1>3, <1>6 DEF DeadLetter, history
  <2>2. Channel!Bury(e) BY <1>2, <1>3, <2>1 DEF Channel!Bury, Answered
  <2> QED BY <2>2 DEF Channel!Next
<1>7. ASSUME NEW status, SetStatus(h, status), UNCHANGED <<ran, done, dlq>>
      PROVE  Channel!Tell(e, status)
  <2>1. Told' = [Told EXCEPT ![e] = status] BY <1>1, <1>3, <1>7 DEF SetStatus, Told
  <2> QED BY <1>2, <1>7, <2>1, TellsChannel DEF Executed
<1>8. ASSUME RecordProcessed(h), SetStatus(h, "PROCESSED") PROVE Channel!Next
  <2>1. e \in Executed
    BY <1>1, <1>3, <1>8 DEF RecordProcessed, SafeInv, TrueInv, RecordIsTrue, Executed
  <2>2. Channel!Tell(e, "PROCESSED") BY <1>7, <1>8 DEF RecordProcessed, broker, history
  <2>3. Channel!TellTruth(e) BY <2>1, <2>2 DEF Channel!TellTruth, Executed
  <2> QED BY <2>3 DEF Channel!Next
<1>9. ASSUME MarkDead(h), SetStatus(h, "DEAD_LETTERED") PROVE Channel!Next
  <2>1. e \in dlq BY <1>1, <1>3, <1>9 DEF MarkDead, SafeInv, TrueInv, RecordIsTrue
  <2>2. Channel!Tell(e, "DEAD_LETTERED") BY <1>7, <1>9 DEF MarkDead, broker, history
  <2>3. Channel!TellTruth(e) BY <2>1, <2>2 DEF Channel!TellTruth
  <2> QED BY <2>3 DEF Channel!Next
<1>10. CASE UNCHANGED <<row, ran, done, dlq>>
  BY <1>2, <1>10 DEF Shown, Told, Executed
<1> QED BY <1>4, <1>5, <1>6, <1>8, <1>9, <1>10
        DEF Handle, ProcessFails, RecordProcessed, LogFails, PublishRetry, AckRetry, AckDead,
            MarkDead, ChannelThrows, WorkerGone, broker, history

LEMMA ChannelNext == ChannelInv /\ [Next]_vars => [Channel!Next]_(Channel!vars)
<1> SUFFICES ASSUME ChannelInv, [Next]_vars PROVE Channel!Next \/ UNCHANGED Shown
  BY DEF Channel!vars, Shown, Told, Answered, Executed
<1>1. Typed /\ SafeInv /\ Typed' BY StepTyped DEF ChannelInv, SafeInv, TrueInv
<1>2. CASE UNCHANGED vars
  BY <1>2 DEF vars, broker, history, Shown, Told, Answered, InFlight, Executed
<1>3. CASE \/ WorkerStart \/ WorkerCrash \/ ConnectionLost
           \/ \E h \in Handler, m \in Message : Consume(h, m)
           \/ \E m \in Message : RetryExpires(m)
  <2>1. Answered' = Answered BY <1>1, <1>3, WorkerKeepsAnswered
  <2>2. UNCHANGED <<row, ran, done, dlq>>
    BY <1>3 DEF WorkerStart, WorkerCrash, WorkerGone, ConnectionLost, Consume, RetryExpires,
       history
  <2> QED BY <2>1, <2>2 DEF Shown, Told, Executed
<1> QED BY <1>1, <1>2, <1>3, ApiRefines, HandlerRefines DEF Next

LEMMA ChannelInit == Init => Channel!Init
BY TimerAssumption DEF Init, Channel!Init, Free, InFlight

\* Where a worker declared its queue first, what happens to the events is what
\* may happen in a channel that delivers at least once.
THEOREM ChannelImplemented == Declared => (Spec => ImplementsChannel)
<1>1. ASSUME Declared PROVE Spec => ImplementsChannel
  <2>1. Init => ChannelInv BY <1>1, InitChannel
  <2> QED BY <2>1, ChannelInit, ChannelStep, ChannelNext, PTL
          DEF Spec, ImplementsChannel, Channel!Spec
<1> QED BY <1>1
\* What the channel keeps true, told of this state.
Kept ==
  /\ \A e \in Event :
       /\ Told[e] \notin {"NONE", "PENDING"} => e \in Answered
       /\ Told[e] = "PROCESSED" => e \in Executed
       /\ Told[e] = "DEAD_LETTERED" => e \in dlq
  /\ Executed \subseteq Answered /\ dlq \subseteq Answered

\* The channel promises enough: whatever implements it loses nothing silently
\* and tells the truth in its history.
THEOREM ChannelSuffices == ImplementsChannel => [](NoSilentLoss /\ HistoryIsTrue)
<1>1. Channel!Init => Kept
  BY DEF Channel!Init, Kept, Told, Answered, Executed
<1>2. ASSUME Kept, [Channel!Next]_(Channel!vars) PROVE Kept'
  <2>1. CASE UNCHANGED Channel!vars
    BY <1>2, <2>1 DEF Channel!vars, Kept, Told, Answered, Executed
  <2>2. ASSUME NEW e \in Event, NEW status, Channel!Tell(e, status),
               status \notin {"NONE", "PENDING"} => e \in Answered,
               status = "PROCESSED" => e \in Executed, status = "DEAD_LETTERED" => e \in dlq
        PROVE  Kept'
    <3>1. Told' = [Told EXCEPT ![e] = status] /\ UNCHANGED <<Answered, Executed, dlq>>
      BY <2>2 DEF Channel!Tell, Told, Answered, Executed
    <3>2. \A f \in Event : Told'[f] = IF f = e THEN status ELSE Told[f] BY <3>1 DEF Told
    <3> QED BY <1>2, <2>2, <3>1, <3>2 DEF Kept
  <2>3. ASSUME NEW e \in Event, Channel!Store(e) PROVE Kept'
    BY <2>2, <2>3 DEF Channel!Store
  <2>4. ASSUME NEW e \in Event, Channel!TellTruth(e) PROVE Kept'
    <3>1. CASE e \in Executed /\ Channel!Tell(e, "PROCESSED") BY <1>2, <2>2, <3>1 DEF Kept
    <3>2. CASE e \in dlq /\ Channel!Tell(e, "DEAD_LETTERED") BY <1>2, <2>2, <3>2 DEF Kept
    <3>3. CASE e \in Answered /\ Channel!Tell(e, "PUBLISHED") BY <2>2, <3>3
    <3> QED BY <2>4, <3>1, <3>2, <3>3 DEF Channel!TellTruth, Answered, Executed
  <2>5. ASSUME NEW e \in Event,
               Channel!Carry(e) \/ Channel!Execute(e) \/ Channel!Ack(e) \/ Channel!Bury(e)
        PROVE  Kept'
    <3>1. Told' = Told
      BY <2>5 DEF Channel!Carry, Channel!Execute, Channel!Ack, Channel!Bury, Told
    <3>2. /\ Answered \subseteq Answered' /\ Executed \subseteq Executed' /\ dlq \subseteq dlq'
          /\ Executed' \subseteq Executed \cup Answered' /\ dlq' \subseteq dlq \cup Answered'
      BY <2>5 DEF Channel!Carry, Channel!Execute, Channel!Ack, Channel!Bury, Answered, Executed
    <3> QED BY <1>2, <3>1, <3>2 DEF Kept
  <2> QED BY <1>2, <2>1, <2>3, <2>4, <2>5 DEF Channel!Next
<1>3. Kept => NoSilentLoss /\ HistoryIsTrue
  BY DEF Kept, Told, Answered, Executed, NoSilentLoss, HistoryIsTrue
<1> QED BY <1>1, <1>2, <1>3, PTL DEF ImplementsChannel, Channel!Spec
=============================================================================
