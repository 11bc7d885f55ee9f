--------------------------- MODULE WebhookProofs ----------------------------
(***************************************************************************)
(* For any number of events and deliveries, and whatever fails: the key    *)
(* says "processed" of stored events only, and an event is accepted once.  *)
(***************************************************************************)
EXTENDS Webhook, TLAPS

RequestsTyped ==
  \A r \in Req : req[r].pc # "idle" => req[r].event \in Event

\* Whoever writes "processed" knows that the row is there.
RowSeen ==
  \A r \in Req : Winner(r) \/ At(r, "dupComplete") => req[r].event \in stored

\* The row has one inserter, who has not been answered yet.
OneWinner ==
  /\ \A q, r \in Req : Winner(q) /\ Winner(r) /\ req[q].event = req[r].event => q = r
  /\ \A r \in Req : Winner(r) => accepted[req[r].event] = 0
  /\ \A e \in Event : accepted[e] # 0 => e \in stored

Inv ==
  TypeOK /\ RequestsTyped /\ ProcessedIsStored /\ RowSeen /\ OneWinner /\ AcceptedOnce

LEMMA InitInv == ASSUME Init PROVE Inv
BY NoneAssumption DEF Init, Inv, TypeOK, RequestsTyped, ProcessedIsStored, RowSeen, OneWinner,
   AcceptedOnce, Winner, At, Waiting, Step

\* One delivery moves, and leaves table, history and the other deliveries alone.
\* What its new step demands is known: its event is stored if the step writes
\* "processed", and it becomes a winner only by inserting the row.
LEMMA MoveInv ==
  ASSUME Inv, NEW r \in Req, NEW pc \in Step, NEW e \in Event \cup {None},
         req' = [req EXCEPT ![r] = [pc |-> pc, event |-> e]],
         stored' = stored, accepted' = accepted, orphaned' \subseteq Event,
         key' \in [Event -> {"none", "processing", "processed"}],
         \A x \in Event : key'[x] = "processed" => x \in stored,
         pc # "idle" => e \in Event,
         pc = "dupComplete" => e \in stored,
         pc \in {"log", "complete", "dispatch"} => Winner(r) /\ e = req[r].event
  PROVE  Inv'
<1>1. req'[r] = [pc |-> pc, event |-> e] /\ \A q \in Req \ {r} : req'[q] = req[q]
  BY DEF Inv, TypeOK
<1>2. TypeOK' BY DEF Inv, TypeOK
<1>3. RequestsTyped' BY <1>1 DEF Inv, RequestsTyped
<1>4. ProcessedIsStored' BY DEF ProcessedIsStored
<1>5. RowSeen' BY <1>1 DEF Inv, RowSeen, Winner, At
<1>6. OneWinner' BY <1>1 DEF Inv, OneWinner, Winner
<1>7. AcceptedOnce' BY DEF Inv, AcceptedOnce
<1> QED BY <1>2, <1>3, <1>4, <1>5, <1>6, <1>7 DEF Inv

\* Steps that change one delivery's place in accept() and nothing it must know.
LEMMA GotoInv ==
  ASSUME Inv, NEW r \in Req, NEW pc \in Step, Goto(r, pc), ~At(r, "idle"),
         stored' = stored, accepted' = accepted, orphaned' \subseteq Event,
         key' \in [Event -> {"none", "processing", "processed"}],
         \A x \in Event : key'[x] = "processed" => x \in stored,
         pc = "dupComplete" => req[r].event \in stored,
         pc \in {"log", "complete", "dispatch"} => Winner(r)
  PROVE  Inv'
<1>1. req[r].event \in Event BY DEF Inv, RequestsTyped, At
<1>2. req' = [req EXCEPT ![r] = [pc |-> pc, event |-> req[r].event]]
  <2>1. req[r] \in [pc: Step, event: Event \cup {None}] BY DEF Inv, TypeOK
  <2>2. [req[r] EXCEPT !.pc = pc] = [pc |-> pc, event |-> req[r].event] BY <2>1
  <2>3. req' = [req EXCEPT ![r] = [req[r] EXCEPT !.pc = pc]] BY DEF Goto
  <2> QED BY <2>2, <2>3
<1> QED BY <1>1, <1>2, MoveInv

\* Answers that are not "accepted".
LEMMA AnsweredInv ==
  ASSUME Inv, NEW r \in Req, Answered(r),
         stored' = stored, accepted' = accepted, orphaned' \subseteq Event,
         key' \in [Event -> {"none", "processing", "processed"}],
         \A x \in Event : key'[x] = "processed" => x \in stored
  PROVE  Inv'
<1>1. req' = [req EXCEPT ![r] = [pc |-> "idle", event |-> None]] BY DEF Answered, Waiting
<1> QED BY <1>1, MoveInv DEF Step

\* The row is inserted: its inserter, if it goes on as a winner, is the first.
LEMMA InsertInv ==
  ASSUME Inv, NEW r \in Req, At(r, "create"), req[r].event \notin stored,
         stored' = stored \cup {req[r].event}, NEW pc \in {"log", "release"}, Goto(r, pc),
         UNCHANGED <<key, history>>
  PROVE  Inv'
<1>1. req[r].event \in Event BY DEF Inv, RequestsTyped, At
<1>2. /\ req'[r].pc = pc /\ req'[r].event = req[r].event
      /\ \A q \in Req \ {r} : req'[q] = req[q]
  BY DEF Inv, TypeOK, Goto
<1>3. TypeOK' BY <1>1, <1>2 DEF Inv, TypeOK, Goto, Step, history
<1>4. RequestsTyped' BY <1>1, <1>2 DEF Inv, RequestsTyped
<1>5. ProcessedIsStored' BY DEF Inv, ProcessedIsStored
<1>6. RowSeen' BY <1>2 DEF Inv, RowSeen, Winner, At
<1>7. OneWinner'
  <2>1. accepted' = accepted BY DEF history
  <2>2. \A q \in Req : Winner(q) => req[q].event # req[r].event BY DEF Inv, RowSeen
  <2>3. accepted[req[r].event] = 0 BY <1>1 DEF Inv, OneWinner
  <2> QED BY <1>1, <1>2, <2>1, <2>2, <2>3 DEF Inv, OneWinner, Winner
<1>8. AcceptedOnce' BY DEF Inv, AcceptedOnce, history
<1> QED BY <1>3, <1>4, <1>5, <1>6, <1>7, <1>8 DEF Inv

\* The answer "accepted": the winner was not answered before, and leaves.
LEMMA DispatchedInv == ASSUME Inv, NEW r \in Req, Dispatched(r) PROVE Inv'
<1> DEFINE e == req[r].event
<1>1. e \in Event /\ e \in stored /\ accepted[e] = 0
  BY DEF Inv, RequestsTyped, RowSeen, OneWinner, Winner, Dispatched, At
<1>2. accepted' = [accepted EXCEPT ![e] = 1] BY <1>1 DEF Dispatched, Inv, TypeOK
<1>3. req'[r] = [pc |-> "idle", event |-> None] /\ \A q \in Req \ {r} : req'[q] = req[q]
  BY DEF Inv, TypeOK, Dispatched, Answered, Waiting
<1>4. UNCHANGED <<key, stored, orphaned>> BY DEF Dispatched
<1>5. TypeOK' BY <1>1, <1>2, <1>4 DEF Inv, TypeOK, Dispatched, Answered, Waiting, Step
<1>6. RequestsTyped' BY <1>3 DEF Inv, RequestsTyped
<1>7. ProcessedIsStored' BY <1>4 DEF Inv, ProcessedIsStored
<1>8. RowSeen' BY <1>3, <1>4 DEF Inv, RowSeen, Winner, At
<1>9. OneWinner'
  <2>1. Winner(r) BY DEF Dispatched, At, Winner
  <2>2. \A q \in Req : Winner(q)' => Winner(q) /\ req[q].event # e /\ req'[q] = req[q]
    BY <1>3, <2>1 DEF Inv, OneWinner, Winner
  <2>3. \A x \in Event : x # e => accepted'[x] = accepted[x] BY <1>2 DEF Inv, TypeOK
  <2>4. \A q \in Req : Winner(q)' => req[q].event \in Event BY <2>2 DEF Inv, RequestsTyped, Winner
  <2> QED BY <1>1, <1>4, <2>2, <2>3, <2>4 DEF Inv, OneWinner
<1>10. AcceptedOnce' BY <1>1, <1>2 DEF Inv, TypeOK, AcceptedOnce
<1> QED BY <1>5, <1>6, <1>7, <1>8, <1>9, <1>10 DEF Inv

LEMMA SucceedInv == ASSUME Inv, NEW r \in Req, Succeed(r) PROVE Inv'
<1> USE DEF history
<1>0. /\ key \in [Event -> {"none", "processing", "processed"}] /\ orphaned \subseteq Event
      /\ \A x \in Event : key[x] = "processed" => x \in stored
      /\ ~At(r, "idle") => req[r].event \in Event
  BY DEF Inv, TypeOK, ProcessedIsStored, RequestsTyped, At
<1>1. CASE Claim(r)
  <2>1. ~At(r, "idle") BY <1>1 DEF Claim, At
  <2>2. \E pc \in {"create", "dupLog"} : Goto(r, pc) BY <1>1 DEF Claim
  <2>3. /\ key' \in [Event -> {"none", "processing", "processed"}]
        /\ \A x \in Event : key'[x] = "processed" => x \in stored
    BY <1>0, <1>1 DEF Claim, SetKey
  <2>4. UNCHANGED <<stored, accepted, orphaned>> BY <1>1 DEF Claim
  <2> QED BY <1>0, <2>1, <2>2, <2>3, <2>4, GotoInv DEF Step
<1>2. CASE AnswerIgnored(r) BY <1>0, <1>2, AnsweredInv DEF AnswerIgnored
<1>3. CASE Create(r)
  <2>1. CASE req[r].event \notin stored BY <1>3, <2>1, InsertInv DEF Create
  <2>2. CASE req[r].event \in stored
    BY <1>0, <1>3, <2>2, GotoInv DEF Create, At, Step
  <2> QED BY <2>1, <2>2
<1>4. CASE Log(r)
  <2>1. \E pc \in {"complete", "release"} : Goto(r, pc) BY <1>4 DEF Log
  <2>2. Winner(r) /\ ~At(r, "idle") BY <1>4 DEF Log, At, Winner
  <2> QED BY <1>0, <1>4, <2>1, <2>2, GotoInv DEF Log, Step
<1>5. CASE Complete(r)
  <2>1. Winner(r) /\ ~At(r, "idle") BY <1>5 DEF Complete, At, Winner
  <2>2. req[r].event \in stored BY <2>1 DEF Inv, RowSeen
  <2>3. /\ key' \in [Event -> {"none", "processing", "processed"}]
        /\ \A x \in Event : key'[x] = "processed" => x \in stored
    BY <1>0, <1>5, <2>2 DEF Complete, SetKey
  <2> QED BY <1>0, <1>5, <2>1, <2>3, GotoInv DEF Complete, Step
<1>6. CASE Dispatched(r) BY <1>6, DispatchedInv
<1>7. CASE DupComplete(r)
  <2>1. ~At(r, "idle") /\ req[r].event \in stored BY <1>7 DEF DupComplete, At, Inv, RowSeen
  <2>2. /\ key' \in [Event -> {"none", "processing", "processed"}]
        /\ \A x \in Event : key'[x] = "processed" => x \in stored
    BY <1>0, <1>7, <2>1 DEF DupComplete, SetKey
  <2> QED BY <1>0, <1>7, <2>1, <2>2, GotoInv DEF DupComplete, Step
<1>8. CASE Release(r)
  <2>1. ~At(r, "idle") BY <1>8 DEF Release, At
  <2>2. orphaned' \subseteq Event BY <1>0, <1>8, <2>1 DEF Release, Orphans
  <2>3. /\ key' \in [Event -> {"none", "processing", "processed"}]
        /\ \A x \in Event : key'[x] = "processed" => x \in stored
    BY <1>0, <1>8 DEF Release, SetKey
  <2> QED BY <1>8, <2>2, <2>3, AnsweredInv DEF Release
<1> QED BY <1>1, <1>2, <1>3, <1>4, <1>5, <1>6, <1>7, <1>8 DEF Succeed

LEMMA FailInv == ASSUME Inv, NEW r \in Req, Fail(r) PROVE Inv'
<1> USE DEF history
<1>0. /\ key \in [Event -> {"none", "processing", "processed"}] /\ orphaned \subseteq Event
      /\ \A x \in Event : key[x] = "processed" => x \in stored
      /\ ~At(r, "idle") => req[r].event \in Event
  BY DEF Inv, TypeOK, ProcessedIsStored, RequestsTyped, At
<1>1. CASE ClaimFails(r)
  <2>1. ~At(r, "idle") BY <1>1 DEF ClaimFails, At
  <2>2. orphaned' \subseteq Event BY <1>0, <1>1, <2>1 DEF ClaimFails, Perhaps, Orphans
  <2>3. /\ key' \in [Event -> {"none", "processing", "processed"}]
        /\ \A x \in Event : key'[x] = "processed" => x \in stored
    BY <1>0, <1>1 DEF ClaimFails, Perhaps, SetKey
  <2> QED BY <1>1, <2>2, <2>3, AnsweredInv DEF ClaimFails
<1>2. CASE DupLogFails(r) BY <1>0, <1>2, AnsweredInv DEF DupLogFails
<1>3. CASE CreateFails(r)
  <2>1. ~At(r, "idle") BY <1>3 DEF CreateFails, At
  <2>2. CASE stored' = stored BY <1>0, <1>3, <2>1, <2>2, GotoInv DEF CreateFails, Step
  <2>3. CASE stored' # stored
    <3>1. req[r].event \notin stored /\ stored' = stored \cup {req[r].event}
      BY <1>3, <2>3 DEF CreateFails, Perhaps
    <3> QED BY <1>3, <3>1, InsertInv DEF CreateFails
  <2> QED BY <2>2, <2>3
<1>4. CASE CompleteFails(r)
  <2>1. ~At(r, "idle") /\ Winner(r) BY <1>4 DEF CompleteFails, At, Winner
  <2>2. req[r].event \in stored BY <2>1 DEF Inv, RowSeen
  <2>3. /\ key' \in [Event -> {"none", "processing", "processed"}]
        /\ \A x \in Event : key'[x] = "processed" => x \in stored
    BY <1>0, <1>4, <2>2 DEF CompleteFails, Perhaps, SetKey
  <2> QED BY <1>0, <1>4, <2>1, <2>3, GotoInv DEF CompleteFails, Step
<1>5. CASE DispatchFails(r) BY <1>0, <1>5, GotoInv DEF DispatchFails, At, Step
<1>6. CASE DupCompleteFails(r)
  <2>1. req[r].event \in stored BY <1>6 DEF DupCompleteFails, Inv, RowSeen
  <2>2. /\ key' \in [Event -> {"none", "processing", "processed"}]
        /\ \A x \in Event : key'[x] = "processed" => x \in stored
    BY <1>0, <1>6, <2>1 DEF DupCompleteFails, Perhaps, SetKey
  <2> QED BY <1>0, <1>6, <2>2, AnsweredInv DEF DupCompleteFails
<1> QED BY <1>1, <1>2, <1>3, <1>4, <1>5, <1>6 DEF Fail

LEMMA StepInv == ASSUME Inv, [Next]_vars PROVE Inv'
<1> USE DEF history
<1>1. CASE \E r \in Req : Succeed(r) BY <1>1, SucceedInv
<1>2. CASE \E r \in Req : Fail(r) BY <1>2, FailInv
<1>3. ASSUME NEW r \in Req, NEW e \in Event, Deliver(r, e) PROVE Inv'
  <2>1. req' = [req EXCEPT ![r] = [pc |-> "claim", event |-> e]] BY <1>3 DEF Deliver
  <2>2. UNCHANGED <<key, stored, accepted, orphaned>> BY <1>3 DEF Deliver
  <2>3. /\ key \in [Event -> {"none", "processing", "processed"}] /\ orphaned \subseteq Event
        /\ \A x \in Event : key[x] = "processed" => x \in stored
    BY DEF Inv, TypeOK, ProcessedIsStored
  <2> QED BY <2>1, <2>2, <2>3, MoveInv DEF Step
<1>4. ASSUME NEW e \in Event, Expire(e) PROVE Inv'
  BY <1>4 DEF Expire, Inv, TypeOK, RequestsTyped, ProcessedIsStored, RowSeen, OneWinner,
     AcceptedOnce, Winner, At
<1>5. CASE ApiRestart
  <2>1. \A r \in Req : req'[r] = [pc |-> "idle", event |-> None] BY <1>5 DEF ApiRestart, Waiting
  <2>2. UNCHANGED <<key, stored, accepted>> BY <1>5 DEF ApiRestart
  <2>3. TypeOK'
    BY <1>5, <2>2 DEF ApiRestart, Inv, TypeOK, Waiting, Step, Orphans
  <2>4. RequestsTyped' /\ RowSeen' BY <2>1 DEF RequestsTyped, RowSeen, Winner, At
  <2>5. ProcessedIsStored' /\ AcceptedOnce' BY <2>2 DEF Inv, ProcessedIsStored, AcceptedOnce
  <2>6. OneWinner' BY <2>1, <2>2 DEF Inv, OneWinner, Winner
  <2> QED BY <2>3, <2>4, <2>5, <2>6 DEF Inv
<1>6. CASE UNCHANGED vars
  BY <1>6 DEF vars, Inv, TypeOK, RequestsTyped, ProcessedIsStored, RowSeen, OneWinner,
     AcceptedOnce, Winner, At
<1> QED BY <1>1, <1>2, <1>3, <1>4, <1>5, <1>6 DEF Next

LEMMA Invariance == Spec => []Inv
<1>1. Init => Inv BY InitInv
<1>2. Inv /\ [Next]_vars => Inv' BY StepInv
<1> QED BY <1>1, <1>2, PTL DEF Spec

\* README.md:269: whatever overlaps, fails, expires or restarts, an event is
\* answered "accepted" once at most (BitrixWebhookService.accept).
THEOREM Idempotent == Spec => []AcceptedOnce
<1>1. Inv => AcceptedOnce BY DEF Inv
<1> QED BY <1>1, Invariance, PTL

\* A key in Valkey says "processed" only of an event that PostgreSQL has.
THEOREM KeysTellTruth == Spec => []ProcessedIsStored
<1>1. Inv => ProcessedIsStored BY DEF Inv
<1> QED BY <1>1, Invariance, PTL

\* A claim is taken over by the row, by the history of what Valkey or a crash
\* left behind, or is still in the hands of the delivery that took it.
LEMMA ClaimKept ==
  ASSUME Inv, NoForgottenClaim, [Next]_vars PROVE NoForgottenClaim'
<1> USE DEF history
<1> SUFFICES ASSUME NEW e \in Event, key'[e] = "processing", e \notin stored', e \notin orphaned'
             PROVE  Claimed(e)'
  BY DEF NoForgottenClaim
<1> DEFINE Holder(r) == req[r].event = e /\ req[r].pc \in {"create", "release"}
<1>0. /\ TypeOK /\ RequestsTyped
      /\ key[e] = "processing" /\ e \notin stored /\ e \notin orphaned => \E r \in Req : Holder(r)
  BY DEF Inv, NoForgottenClaim, Claimed
<1>1. ASSUME NEW r \in Req, Succeed(r) \/ Fail(r) PROVE Claimed(e)'
  <2>1. e \notin stored /\ e \notin orphaned
    BY <1>1 DEF Succeed, Fail, Claim, AnswerIgnored, Create, Log, Complete, Dispatched,
       DupComplete, Release, ClaimFails, DupLogFails, CreateFails, CompleteFails, DispatchFails,
       DupCompleteFails, Perhaps, Orphans
  <2>2. \A q \in Req \ {r} : req'[q] = req[q]
    BY <1>0, <1>1 DEF TypeOK, Succeed, Fail, Claim, AnswerIgnored, Create, Log, Complete,
       Dispatched, DupComplete, Release, ClaimFails, DupLogFails, CreateFails, CompleteFails,
       DispatchFails, DupCompleteFails, Goto, Answered
  <2>3. CASE Claim(r)
    <3>1. CASE req[r].event = e
      BY <1>0, <2>3, <3>1, <2>1, <2>2 DEF Claim, Goto, At, KeyIs, SetKey, TypeOK, Claimed
    <3>2. CASE req[r].event # e
      BY <1>0, <2>1, <2>2, <2>3, <3>2 DEF Claim, SetKey, TypeOK, Claimed
    <3> QED BY <3>1, <3>2
  <2>4. CASE ~Claim(r) /\ key'[e] = key[e]
    <3>1. PICK q \in Req : Holder(q) BY <1>0, <2>1, <2>4
    <3>2. CASE q # r BY <2>2, <3>1, <3>2 DEF Claimed
    <3>3. CASE q = r
      <4>1. Create(r) \/ CreateFails(r) \/ Release(r)
        BY <1>1, <2>4, <3>1, <3>3 DEF Succeed, Fail, AnswerIgnored, Log, Complete, Dispatched,
           DupComplete, ClaimFails, DupLogFails, CompleteFails, DispatchFails, DupCompleteFails, At
      <4>2. ~Create(r) BY <2>1, <3>1, <3>3 DEF Create
      <4>3. CASE CreateFails(r) BY <1>0, <3>1, <3>3, <4>3 DEF CreateFails, Goto, TypeOK, Claimed
      <4>4. CASE Release(r)
        BY <1>0, <2>1, <2>4, <3>1, <3>3, <4>4 DEF Release, SetKey, TypeOK, Orphans
      <4> QED BY <4>1, <4>2, <4>3, <4>4
    <3> QED BY <3>2, <3>3
  <2>5. CASE ~Claim(r) /\ key'[e] # key[e]
    <3>1. ClaimFails(r) \/ Complete(r) \/ CompleteFails(r) \/ DupComplete(r) \/ DupCompleteFails(r)
          \/ Release(r)
      BY <1>1, <2>5 DEF Succeed, Fail, AnswerIgnored, Create, Log, Dispatched, DupLogFails,
         CreateFails, DispatchFails
    <3>2. CASE ClaimFails(r) BY <1>0, <2>5, <3>2 DEF ClaimFails, Perhaps, SetKey, TypeOK, Orphans
    <3>3. CASE ~ClaimFails(r)
      BY <1>0, <2>5, <3>1, <3>3 DEF Complete, CompleteFails, DupComplete, DupCompleteFails,
         Release, Perhaps, SetKey, TypeOK
    <3> QED BY <3>2, <3>3
  <2> QED BY <2>3, <2>4, <2>5
<1>2. ASSUME NEW r \in Req, NEW x \in Event, Deliver(r, x) PROVE Claimed(e)'
  <2>1. PICK q \in Req : Holder(q) BY <1>0, <1>2 DEF Deliver
  <2>2. q # r BY <1>2, <2>1 DEF Deliver, At
  <2> QED BY <1>0, <1>2, <2>1, <2>2 DEF Deliver, TypeOK, Claimed
<1>3. ASSUME NEW x \in Event, Expire(x) PROVE Claimed(e)'
  BY <1>0, <1>3 DEF Expire, TypeOK, Claimed
<1>4. CASE ApiRestart BY <1>0, <1>4 DEF ApiRestart, Orphans, Claimed
<1>5. CASE UNCHANGED vars BY <1>0, <1>5 DEF vars, Claimed
<1> QED BY <1>1, <1>2, <1>3, <1>4, <1>5 DEF Next

\* A claimed key is backed by the row, a delivery at work, or a fault of Valkey
\* or a crash: a database that fails leaves no key behind that would have every
\* later delivery ignored.
THEOREM ClaimsAccounted == Spec => []NoForgottenClaim
<1>1. Init => NoForgottenClaim BY DEF Init, NoForgottenClaim
<1>2. Inv /\ NoForgottenClaim /\ [Next]_vars => NoForgottenClaim' BY ClaimKept
<1> QED BY <1>1, <1>2, Invariance, PTL DEF Spec

\* The variables keep their types, through every fault.
THEOREM TypeCorrect == Spec => []TypeOK
<1>1. Inv => TypeOK BY DEF Inv
<1> QED BY <1>1, Invariance, PTL
-----------------------------------------------------------------------------
(* Webhook implements IdempotentReceiver.                                  *)

Open(e) == \E r \in Req : Winner(r) /\ req[r].event = e
StageOf(e) == IF e \notin stored THEN "absent" ELSE IF Open(e) THEN "open" ELSE "closed"

\* A step of the receiver, of one event.
Stays(e) == StageOf(e)' = StageOf(e) /\ accepted'[e] = accepted[e]
Closes(e) == /\ StageOf(e) = "open" /\ StageOf(e)' = "closed"
             /\ accepted'[e] \in {accepted[e], accepted[e] + 1}
Moves(e) ==
  \/ StageOf(e) = "absent" /\ StageOf(e)' \in {"open", "closed"} /\ accepted'[e] = accepted[e]
  \/ Closes(e)
  \/ Stays(e)

OnlyStoredDone == \A e \in Event : key'[e] = "processed" /\ key[e] # "processed" => e \in stored

LEMMA MovesAreNext ==
  ASSUME \A e \in Event : Moves(e), OnlyStoredDone PROVE Receiver!Next
<1> DEFINE mapped == [e \in Event |->
              IF e \notin stored THEN "absent"
              ELSE IF \E r \in Req : Winner(r) /\ req[r].event = e THEN "open" ELSE "closed"]
<1>1. ASSUME NEW e \in Event PROVE mapped[e] = StageOf(e) /\ mapped'[e] = StageOf(e)'
  BY DEF StageOf, Open
<1>2. ASSUME NEW e \in Event PROVE Receiver!Store(e) \/ Receiver!Close(e) \/ Receiver!Same(e)
  BY <1>1 DEF Moves, Closes, Stays, Receiver!Store, Receiver!Close, Receiver!Same
<1>3. {e \in Event : key'[e] = "processed"}
        \subseteq {e \in Event : key[e] = "processed"} \cup {e \in Event : mapped[e] # "absent"}
  <2> SUFFICES ASSUME NEW e \in Event, key'[e] = "processed", key[e] # "processed"
               PROVE  mapped[e] # "absent"
    OBVIOUS
  <2> QED BY <1>1 DEF OnlyStoredDone, StageOf
<1> QED BY <1>2, <1>3 DEF Receiver!Next

\* Whoever moves among the winners, or among the others, changes no stage.
LEMMA NoStageMoves ==
  ASSUME NEW r \in Req, \A q \in Req \ {r} : req'[q] = req[q],
         stored' = stored, accepted' = accepted,
         \/ ~Winner(r) /\ ~Winner(r)'
         \/ Winner(r) /\ Winner(r)' /\ req'[r].event = req[r].event
  PROVE  \A e \in Event : Moves(e)
<1> SUFFICES ASSUME NEW e \in Event PROVE Stays(e) BY DEF Moves
<1>1. Open(e)' <=> Open(e) BY DEF Open, Winner
<1> QED BY <1>1 DEF Stays, StageOf

\* A winner that ends leaves nobody who could still accept its event.
LEMMA WinnerLeaves ==
  ASSUME Inv, NEW r \in Req, Winner(r), ~Winner(r)',
         \A q \in Req \ {r} : req'[q] = req[q], stored' = stored,
         accepted'[req[r].event] \in {accepted[req[r].event], accepted[req[r].event] + 1},
         \A e \in Event \ {req[r].event} : accepted'[e] = accepted[e]
  PROVE  \A e \in Event : Moves(e)
<1> SUFFICES ASSUME NEW e \in Event PROVE Moves(e) OBVIOUS
<1>1. CASE e = req[r].event
  <2>1. e \in stored /\ StageOf(e) = "open" BY <1>1 DEF Inv, RowSeen, StageOf, Open
  <2>2. ~Open(e)' BY <1>1 DEF Open, Winner, Inv, OneWinner
  <2>3. StageOf(e)' = "closed" BY <2>1, <2>2 DEF StageOf
  <2> QED BY <1>1, <2>1, <2>3 DEF Moves, Closes
<1>2. CASE e # req[r].event
  <2>1. Open(e)' <=> Open(e) BY <1>2 DEF Open, Winner
  <2> QED BY <1>2, <2>1 DEF Moves, Stays, StageOf
<1> QED BY <1>1, <1>2

LEMMA InsertMoves ==
  ASSUME Inv, NEW r \in Req, ~Winner(r), req[r].event \notin stored,
         stored' = stored \cup {req[r].event}, accepted' = accepted,
         req'[r].event = req[r].event, \A q \in Req \ {r} : req'[q] = req[q]
  PROVE  \A e \in Event : Moves(e)
<1> SUFFICES ASSUME NEW e \in Event PROVE Moves(e) OBVIOUS
<1>1. CASE e = req[r].event BY <1>1 DEF Moves, StageOf
<1>2. CASE e # req[r].event
  <2>1. Open(e)' <=> Open(e) BY <1>2 DEF Open, Winner
  <2> QED BY <1>2, <2>1 DEF Moves, Stays, StageOf
<1> QED BY <1>1, <1>2

LEMMA SucceedMoves ==
  ASSUME Inv, NEW r \in Req, Succeed(r) PROVE (\A e \in Event : Moves(e)) /\ OnlyStoredDone
<1> USE DEF history
<1>0. \A q \in Req \ {r} : req'[q] = req[q]
  BY DEF Inv, TypeOK, Succeed, Claim, AnswerIgnored, Create, Log, Complete, Dispatched,
     DupComplete, Release, Goto, Answered
<1>1. CASE Claim(r) \/ AnswerIgnored(r) \/ DupComplete(r) \/ Release(r)
  <2>1. ~Winner(r) /\ ~Winner(r)'
    BY <1>1 DEF Inv, TypeOK, Claim, AnswerIgnored, DupComplete, Release, At, Goto, Answered,
       Waiting, Winner
  <2>2. stored' = stored /\ accepted' = accepted
    BY <1>1 DEF Claim, AnswerIgnored, DupComplete, Release
  <2>3. OnlyStoredDone
    BY <1>1 DEF Inv, TypeOK, RowSeen, Claim, AnswerIgnored, DupComplete, Release, At, SetKey,
       OnlyStoredDone
  <2> QED BY <1>0, <2>1, <2>2, <2>3, NoStageMoves
<1>2. CASE Create(r)
  <2>1. ~Winner(r) /\ accepted' = accepted /\ key' = key BY <1>2 DEF Create, At, Winner
  <2>2. CASE req[r].event \notin stored
    <3>1. req'[r].event = req[r].event /\ stored' = stored \cup {req[r].event}
      BY <1>2, <2>2 DEF Create, Goto, Inv, TypeOK
    <3> QED BY <1>0, <2>1, <2>2, <3>1, InsertMoves DEF OnlyStoredDone
  <2>3. CASE req[r].event \in stored
    <3>1. ~Winner(r)' /\ stored' = stored BY <1>2, <2>3 DEF Create, Goto, Inv, TypeOK, Winner
    <3> QED BY <1>0, <2>1, <3>1, NoStageMoves DEF OnlyStoredDone
  <2> QED BY <2>2, <2>3
<1>3. CASE Log(r) \/ Complete(r)
  <2>1. Winner(r) /\ req'[r].event = req[r].event
    BY <1>3 DEF Log, Complete, At, Winner, Goto, Inv, TypeOK
  <2>2. stored' = stored /\ accepted' = accepted BY <1>3 DEF Log, Complete
  <2>3. OnlyStoredDone
    BY <1>3, <2>1 DEF Inv, TypeOK, RowSeen, Log, Complete, SetKey, OnlyStoredDone
  <2>4. CASE Winner(r)' BY <1>0, <2>1, <2>2, <2>3, <2>4, NoStageMoves
  <2>5. CASE ~Winner(r)'
    <3>1. req[r].event \in Event BY <2>1 DEF Inv, RequestsTyped, Winner
    <3> QED BY <1>0, <2>1, <2>2, <2>3, <2>5, <3>1, WinnerLeaves
  <2> QED BY <2>4, <2>5
<1>4. CASE Dispatched(r)
  <2>1. Winner(r) /\ ~Winner(r)'
    BY <1>4 DEF Dispatched, At, Winner, Answered, Waiting, Inv, TypeOK
  <2>2. req[r].event \in Event /\ accepted[req[r].event] = 0
    BY <2>1 DEF Inv, RequestsTyped, OneWinner, Winner
  <2>3. /\ stored' = stored /\ key' = key
        /\ accepted'[req[r].event] = accepted[req[r].event] + 1
        /\ \A e \in Event \ {req[r].event} : accepted'[e] = accepted[e]
    BY <1>4, <2>2 DEF Dispatched, Inv, TypeOK
  <2> QED BY <1>0, <2>1, <2>3, WinnerLeaves DEF OnlyStoredDone
<1> QED BY <1>1, <1>2, <1>3, <1>4 DEF Succeed

LEMMA FailMoves ==
  ASSUME Inv, NEW r \in Req, Fail(r) PROVE (\A e \in Event : Moves(e)) /\ OnlyStoredDone
<1> USE DEF history
<1>0. /\ \A q \in Req \ {r} : req'[q] = req[q]
      /\ accepted' = accepted
  BY DEF Inv, TypeOK, Fail, ClaimFails, DupLogFails, CreateFails, CompleteFails,
     DispatchFails, DupCompleteFails, Goto, Answered, Perhaps, Orphans
<1>1. CASE ClaimFails(r) \/ DupLogFails(r) \/ DupCompleteFails(r)
  <2>1. ~Winner(r) /\ ~Winner(r)'
    BY <1>1 DEF Inv, TypeOK, ClaimFails, DupLogFails, DupCompleteFails, At, Answered, Waiting, Winner
  <2>2. stored' = stored BY <1>1 DEF ClaimFails, DupLogFails, DupCompleteFails
  <2>3. OnlyStoredDone
    BY <1>1 DEF Inv, TypeOK, RowSeen, ClaimFails, DupLogFails, DupCompleteFails, At, SetKey,
       Perhaps, OnlyStoredDone
  <2> QED BY <1>0, <2>1, <2>2, <2>3, NoStageMoves
<1>2. CASE CreateFails(r)
  <2>1. /\ ~Winner(r) /\ ~Winner(r)' /\ key' = key /\ req'[r].event = req[r].event
    BY <1>2 DEF CreateFails, At, Goto, Winner, Inv, TypeOK
  <2>2. CASE stored' = stored BY <1>0, <2>1, <2>2, NoStageMoves DEF OnlyStoredDone
  <2>3. CASE stored' # stored
    <3>1. req[r].event \notin stored /\ stored' = stored \cup {req[r].event}
      BY <1>2, <2>3 DEF CreateFails, Perhaps
    <3> QED BY <1>0, <2>1, <3>1, InsertMoves DEF OnlyStoredDone
  <2> QED BY <2>2, <2>3
<1>3. CASE CompleteFails(r) \/ DispatchFails(r)
  <2>1. Winner(r) /\ ~Winner(r)' /\ stored' = stored
    BY <1>3 DEF CompleteFails, DispatchFails, At, Goto, Winner, Inv, TypeOK
  <2>2. OnlyStoredDone
    BY <1>3, <2>1 DEF CompleteFails, DispatchFails, Perhaps, SetKey, Inv, TypeOK, RowSeen,
       OnlyStoredDone
  <2> QED BY <1>0, <2>1, <2>2, WinnerLeaves
<1> QED BY <1>1, <1>2, <1>3 DEF Fail

LEMMA ReceiverStep == ASSUME Inv, [Next]_vars PROVE Receiver!Next
<1> USE DEF history
<1> SUFFICES (\A e \in Event : Moves(e)) /\ OnlyStoredDone BY MovesAreNext
<1>1. CASE \E r \in Req : Succeed(r) BY <1>1, SucceedMoves
<1>2. CASE \E r \in Req : Fail(r) BY <1>2, FailMoves
<1>3. ASSUME NEW r \in Req, NEW x \in Event, Deliver(r, x)
      PROVE  (\A e \in Event : Moves(e)) /\ OnlyStoredDone
  <2>1. /\ ~Winner(r) /\ ~Winner(r)' /\ \A q \in Req \ {r} : req'[q] = req[q]
        /\ UNCHANGED <<key, stored, accepted>>
    BY <1>3 DEF Deliver, At, Winner, Inv, TypeOK
  <2> QED BY <2>1, NoStageMoves DEF OnlyStoredDone
<1>4. ASSUME NEW x \in Event, Expire(x) PROVE (\A e \in Event : Moves(e)) /\ OnlyStoredDone
  BY <1>4 DEF Expire, Inv, TypeOK, Moves, Stays, StageOf, Open, Winner, OnlyStoredDone
<1>5. CASE ApiRestart
  <2>1. (\A e \in Event : ~Open(e)') /\ UNCHANGED <<key, stored, accepted>>
    BY <1>5 DEF ApiRestart, Open, Winner, Waiting
  <2>2. ASSUME NEW e \in Event PROVE Moves(e)
    BY <2>1 DEF Moves, Closes, Stays, StageOf
  <2> QED BY <2>1, <2>2 DEF OnlyStoredDone
<1>6. CASE UNCHANGED vars
  BY <1>6 DEF vars, Moves, Stays, StageOf, Open, Winner, OnlyStoredDone
<1> QED BY <1>1, <1>2, <1>3, <1>4, <1>5, <1>6 DEF Next

\* Overlapping deliveries, whatever fails and expires among them, implement the
\* idempotent receiver: one inserter per event, and no acceptance after its end
\* (BitrixWebhookService.accept).
THEOREM ReceiverImplemented == Spec => ImplementsReceiver
<1>1. Init => Receiver!Init BY DEF Init, Receiver!Init
<1>2. Inv /\ [Next]_vars => [Receiver!Next]_(Receiver!vars) BY ReceiverStep
<1> QED BY <1>1, <1>2, Invariance, PTL DEF Spec, ImplementsReceiver, Receiver!Spec

\* The receiver is all that README.md:269 asks for: whatever implements it
\* accepts an event once, and calls only stored ones processed.
THEOREM ReceiverSuffices == ImplementsReceiver => [](AcceptedOnce /\ ProcessedIsStored)
<1> DEFINE mapped == [e \in Event |->
              IF e \notin stored THEN "absent"
              ELSE IF \E r \in Req : Winner(r) /\ req[r].event = e THEN "open" ELSE "closed"]
           Unanswered(e) == mapped[e] # "closed" => accepted[e] = 0
           Kept == \A e \in Event :
                     /\ Unanswered(e) /\ accepted[e] \in {0, 1}
                     /\ key[e] = "processed" => mapped[e] # "absent"
<1>1. Receiver!Init => Kept
  <2> SUFFICES ASSUME Receiver!Init, NEW e \in Event
               PROVE  /\ Unanswered(e) /\ accepted[e] \in {0, 1}
                      /\ key[e] = "processed" => mapped[e] # "absent"
    OBVIOUS
  <2>1. accepted[e] = 0 /\ e \notin {x \in Event : key[x] = "processed"} BY DEF Receiver!Init
  <2> QED BY <2>1
<1>2. ASSUME Kept, [Receiver!Next]_(Receiver!vars) PROVE Kept'
  <2> SUFFICES ASSUME NEW e \in Event
               PROVE  /\ Unanswered(e)' /\ accepted'[e] \in {0, 1}
                      /\ key'[e] = "processed" => mapped'[e] # "absent"
    OBVIOUS
  <2>1. Receiver!Store(e) \/ Receiver!Close(e) \/ Receiver!Same(e)
    BY <1>2 DEF Receiver!Next, Receiver!vars, Receiver!Same
  <2>2. key'[e] = "processed" => key[e] = "processed" \/ mapped[e] # "absent"
    <3>1. CASE Receiver!Next
      <4>1. {x \in Event : key'[x] = "processed"}
             \subseteq {x \in Event : key[x] = "processed"} \cup {x \in Event : mapped[x] # "absent"}
        BY <3>1 DEF Receiver!Next
      <4> QED BY <4>1
    <3>2. CASE UNCHANGED Receiver!vars
      <4>1. {x \in Event : key'[x] = "processed"} = {x \in Event : key[x] = "processed"}
        BY <3>2 DEF Receiver!vars
      <4> QED BY <4>1
    <3> QED BY <1>2, <3>1, <3>2
  <2>3. Unanswered(e) /\ accepted[e] \in {0, 1} /\ (key[e] = "processed" => mapped[e] # "absent")
    BY <1>2
  <2> QED BY <2>1, <2>2, <2>3 DEF Receiver!Store, Receiver!Close, Receiver!Same
<1>3. Kept => AcceptedOnce /\ ProcessedIsStored
  <2> SUFFICES ASSUME Kept, NEW e \in Event
               PROVE  accepted[e] <= 1 /\ (key[e] = "processed" => e \in stored)
    BY DEF AcceptedOnce, ProcessedIsStored
  <2> QED OBVIOUS
<1> QED BY <1>1, <1>2, <1>3, PTL DEF ImplementsReceiver, Receiver!Spec

\* Every claim has somebody or something to answer for it.
ClaimsBacked == \A e \in Event : key[e] = "processing" => e \in stored \/ Claimed(e)

\* Where only the database fails, at whatever statement, no claim is left behind
\* at all: a key says "processing" of a stored event, or of one in the hands of
\* a delivery that will store it or delete the key.
THEOREM DatabaseLeavesNoClaim == ASSUME Faults \subseteq {"database"} PROVE Spec => []ClaimsBacked
<1> DEFINE NoOrphans == orphaned = {}
<1>1. Init => NoOrphans BY DEF Init
<1>2. ASSUME NoOrphans, [Next]_vars PROVE NoOrphans'
  <2>1. "valkey" \notin Faults /\ "crash" \notin Faults OBVIOUS
  <2> QED
    BY <1>2, <2>1 DEF Next, vars, history, Succeed, Fail, Claim, AnswerIgnored, Create, Log, Complete,
       Dispatched, DupComplete, Release, ClaimFails, DupLogFails, CreateFails, CompleteFails,
       DispatchFails, DupCompleteFails, Deliver, Expire, ApiRestart
<1>3. NoOrphans /\ NoForgottenClaim => ClaimsBacked
  BY DEF NoForgottenClaim, ClaimsBacked
<1> HIDE DEF NoOrphans
<1> QED BY <1>1, <1>2, <1>3, ClaimsAccounted, PTL DEF Spec
=============================================================================
