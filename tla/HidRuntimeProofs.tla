-------------------------- MODULE HidRuntimeProofs --------------------------
(***************************************************************************)
(* Safety of one HID session for every limit, clock width and set of       *)
(* states: the invariants that MCHidRuntime checks on small instances.     *)
(***************************************************************************)
EXTENDS HidRuntime, TLAPS

USE LimitsAssumption, ProtocolAssumption, BoundAssumption
USE DEF ownerVars, queueVars, replyVars, obsVars, closeVars, callVars, timeVars

\* The budget a phase can count on; without it the arithmetic of TypeOK is not inductive.
BudgetInv ==
  /\ phase = "flush_pending" => budget >= 1
  /\ phase = "flush_new" => budget >= 2

-----------------------------------------------------------------------------
(* What the helpers preserve.                                              *)

\* Runtime::close leaves values of the right type, whatever transport.close() answers.
LEMMA ShutTypes ==
  ASSUME TypeOK, NEW ok \in BOOLEAN, Shut(ok)
  PROVE  /\ closed' \in BOOLEAN /\ closeError' \in BOOLEAN /\ closes' \in Nat
         /\ pending' \in Seq(Nat) /\ reply' \in [ordinal : Nat, deadline : Nat]
<1>1. closed' \in BOOLEAN /\ closeError' \in BOOLEAN
  BY Zenon DEF Shut
<1>2. closes' \in Nat /\ pending' \in Seq(Nat) /\ reply' \in [ordinal : Nat, deadline : Nat]
  BY DEF Shut, TypeOK, NoReply
<1>3. QED
  BY <1>1, <1>2

\* So does every error arm of service.
LEMMA FailTypes ==
  ASSUME TypeOK, NEW e, NEW ok \in BOOLEAN, Fail(e, ok)
  PROVE  /\ phase' = "idle" /\ result' = e
         /\ closed' \in BOOLEAN /\ closeError' \in BOOLEAN /\ closes' \in Nat
         /\ pending' \in Seq(Nat) /\ reply' \in [ordinal : Nat, deadline : Nat]
<1>1. CASE e \in Retryable
  BY <1>1 DEF Fail, TypeOK
<1>2. CASE e \notin Retryable
  <2>1. Shut(ok)
    BY <1>2 DEF Fail
  <2>2. QED
    BY <2>1, ShutTypes DEF Fail
<1>3. QED
  BY <1>1, <1>2

\* A bounded push keeps the sequence of observations and its counters.
LEMMA ObserveTypes ==
  ASSUME TypeOK, NEW emits, Observe(emits)
  PROVE  obs' \in Seq(Nat) /\ dropped' \in Nat /\ observed' \in Nat /\ taken' \in Nat
<1>1. CASE ~emits
  BY <1>1 DEF Observe, TypeOK
<1>2. CASE emits
  <2>1. CASE Evicts
    <3>1. obs # << >>
      BY <2>1 DEF Evicts, TypeOK
    <3>2. Tail(obs) \in Seq(Nat)
      BY <3>1 DEF TypeOK
    <3>3. obs' = Append(Tail(obs), observed + 1) /\ dropped' = dropped + 1
      BY <1>2, <2>1 DEF Observe
    <3>4. QED
      BY <1>2, <3>2, <3>3 DEF Observe, TypeOK
  <2>2. CASE ~Evicts
    <3>1. obs' = Append(obs, observed + 1) /\ dropped' = dropped
      BY <1>2, <2>2 DEF Observe
    <3>2. QED
      BY <1>2, <3>1 DEF Observe, TypeOK
  <2>3. QED
    BY <2>1, <2>2
<1>3. QED
  BY <1>1, <1>2

\* Handing the observations over, or moving on to generation.
LEMMA LeaveDrainTypes ==
  ASSUME TypeOK, LeaveDrain
  PROVE  /\ phase' \in {"idle", "generate"} /\ result' \in Errors \cup {"Ok"}
         /\ obs' \in Seq(Nat) /\ taken' \in Nat
<1>1. CASE phase = "drain_new"
  BY <1>1 DEF LeaveDrain, Return, TypeOK
<1>2. CASE phase # "drain_new"
  BY <1>2 DEF LeaveDrain, TypeOK
<1>3. QED
  BY <1>1, <1>2

\* A batch of n reports is a sequence of n numbers.
LEMMA BatchTypes ==
  ASSUME NEW n \in Nat, NEW g \in Nat
  PROVE  /\ [i \in 1 .. n |-> g + i] \in Seq(Nat)
         /\ Len([i \in 1 .. n |-> g + i]) = n
  OBVIOUS

-----------------------------------------------------------------------------
\* Every step keeps the types and the budget.
LEMMA TypeStep ==
  ASSUME TypeOK, BudgetInv, [Next]_vars
  PROVE  TypeOK' /\ BudgetInv'
<1> USE DEF TypeOK, BudgetInv, Phases, Errors, PersonalityErrors, Retryable, Deliveries, Deadlines, NoDeadline, NoReply, Instants, Smaller
<1>1. CASE Tick
  BY <1>1 DEF Tick
<1>2. ASSUME NEW s \in States, Update(s)
     PROVE  TypeOK' /\ BudgetInv'
  BY <1>2 DEF Update, MayCall
<1>3. ASSUME NEW c \in Configs, NEW d \in Deadlines, UpdateProtocol(c, d)
     PROVE  TypeOK' /\ BudgetInv'
  BY <1>3 DEF UpdateProtocol, MayCall, Deadlines
<1>4. CASE TakeObservations
  BY <1>4 DEF TakeObservations
<1>5. ASSUME NEW ok \in BOOLEAN, Close(ok)
     PROVE  TypeOK' /\ BudgetInv'
  BY <1>5, ShutTypes DEF Close, MayCall
<1>6. ASSUME NEW t \in 0 .. MaxTime, ServiceRejected(t)
     PROVE  TypeOK' /\ BudgetInv'
  BY <1>6 DEF ServiceRejected, Errors, PersonalityErrors, Retryable
<1>7. CASE BeginService
  BY <1>7 DEF BeginService, MayCall
<1>8. CASE SkipFlush
  BY <1>8 DEF SkipFlush, AfterFlush
<1>9. ASSUME NEW ok \in BOOLEAN, ReplyDeadline(ok)
     PROVE  TypeOK' /\ BudgetInv'
  BY <1>9, FailTypes DEF ReplyDeadline
<1>10. CASE ReceiveNothing
  BY <1>10 DEF ReceiveNothing
<1>11. ASSUME NEW e \in {"Transport", "Framing", "InvalidRequest"}, NEW ok \in BOOLEAN, ReceiveFailed(e, ok)
     PROVE  TypeOK' /\ BudgetInv'
  BY <1>11, FailTypes DEF ReceiveFailed
<1>12. ASSUME NEW foreign \in BOOLEAN, NEW n \in 1 .. MaxOrdinal, NEW ok \in BOOLEAN, ReceiveStaleRequest(foreign, n, ok)
     PROVE  TypeOK' /\ BudgetInv'
  BY <1>12, FailTypes DEF ReceiveStaleRequest
<1>13. ASSUME NEW n \in 1 .. MaxOrdinal, NEW matches \in BOOLEAN, NEW emits \in Emits, NEW d \in Deadlines, NEW ok \in BOOLEAN, ReceiveRequest(n, matches, emits, d, ok)
     PROVE  TypeOK' /\ BudgetInv'
  BY <1>13, FailTypes, ObserveTypes DEF ReceiveRequest, MayReceive
<1>14. ASSUME NEW emits \in Emits, NEW d \in Deadlines, ReceiveOutput(emits, d)
     PROVE  TypeOK' /\ BudgetInv'
  BY <1>14, ObserveTypes DEF ReceiveOutput
<1>15. ASSUME NEW e \in PersonalityErrors, NEW d \in Deadlines, NEW ok \in BOOLEAN, RejectOutput(e, d, ok)
     PROVE  TypeOK' /\ BudgetInv'
  BY <1>15, FailTypes DEF RejectOutput
<1>16. ASSUME NEW stop \in BOOLEAN, NEW emits \in Emits, NEW d \in Deadlines, ReceiveLifecycle(stop, emits, d)
     PROVE  TypeOK' /\ BudgetInv'
  BY <1>16, ObserveTypes DEF ReceiveLifecycle
<1>17. ASSUME NEW delivery \in Deliveries, NEW ok \in BOOLEAN, FlushReply(delivery, ok)
     PROVE  TypeOK' /\ BudgetInv'
  <2>1. budget' \in 0 .. Submissions
    BY <1>17 DEF FlushReply
  <2> unanswered' \subseteq Nat
    <3>1. unanswered' \subseteq unanswered
      BY <1>17, Zenon DEF FlushReply
    <3>2. QED
      BY <3>1, Zenon DEF TypeOK
  <2>2. CASE delivery = "Uncertain"
    BY <1>17, <2>1, <2>2, FailTypes DEF FlushReply
  <2>3. CASE delivery # "Uncertain"
    BY <1>17, <2>1, <2>3 DEF FlushReply, AfterFlush
  <2>4. QED
    BY <2>2, <2>3
<1>18. ASSUME NEW delivery \in Deliveries, NEW ok \in BOOLEAN, DrainOne(delivery, ok)
     PROVE  TypeOK' /\ BudgetInv'
  <2>1. budget' \in 0 .. Submissions /\ lastSent' \in Nat /\ Tail(pending) \in Seq(Nat)
    BY <1>18 DEF DrainOne, MayDrain
  <2>2. CASE delivery = "Submitted"
    BY <1>18, <2>1, <2>2 DEF DrainOne, Remaining
  <2>3. CASE delivery = "DefinitelyUnsent"
    BY <1>18, <2>1, <2>3, LeaveDrainTypes DEF DrainOne, Remaining
  <2>4. CASE delivery = "Uncertain"
    BY <1>18, <2>1, <2>4, FailTypes DEF DrainOne
  <2>5. QED
    BY <2>2, <2>3, <2>4
<1>19. CASE DrainDone
  BY <1>19, LeaveDrainTypes DEF DrainDone
<1>20. CASE GenerateNothing
  BY <1>20 DEF GenerateNothing, Return
<1>21. ASSUME NEW n \in 0 .. MaxReports - generated, NEW d \in Deadlines, Generate(n, d)
     PROVE  TypeOK' /\ BudgetInv'
  <2>1. n \in Nat /\ d \in {NoDeadline} \cup Nat
    OBVIOUS
  <2>2. pending' \in Seq(Nat) /\ generated' \in Nat
    BY <1>21, <2>1, BatchTypes DEF Generate
  <2>3. encoded' \in {<< >>} \cup (States \X Configs)
    BY <1>21 DEF Generate
  <2>4. QED
    BY <1>21, <2>1, <2>2, <2>3 DEF Generate
<1>22. ASSUME NEW e \in PersonalityErrors, NEW ok \in BOOLEAN, GenerateFailed(e, ok)
     PROVE  TypeOK' /\ BudgetInv'
  BY <1>22, FailTypes DEF GenerateFailed
<1>23. CASE UNCHANGED vars
  BY <1>23 DEF vars
<1>24. QED
  BY <1>1, <1>2, <1>3, <1>4, <1>5, <1>6, <1>7, <1>8, <1>9, <1>10, <1>11, <1>12, <1>13, <1>14, <1>15, <1>16, <1>17, <1>18, <1>19, <1>20, <1>21, <1>22, <1>23
     DEF Next, Owner, ServiceStep, Receive, Submit, Produce

\* TypeOK is an invariant: in particular no service call spends more submissions than
\* its budget, whatever the transport answers.
THEOREM TypeCorrect == Spec => []TypeOK
<1>1. ASSUME Init PROVE TypeOK /\ BudgetInv
  <2>1. Neutral \in States
    OBVIOUS
  <2>2. dirty \in BOOLEAN /\ closed \in BOOLEAN /\ closeError \in BOOLEAN
    BY <1>1, Zenon DEF Init
  <2>3. QED
    BY <1>1, <2>1, <2>2
       DEF Init, TypeOK, BudgetInv, Phases, Errors, Instants, Deadlines, NoDeadline, NoReply
<1>2. TypeOK /\ BudgetInv /\ [Next]_vars => TypeOK' /\ BudgetInv'
  BY TypeStep
<1>3. QED
  BY <1>1, <1>2, PTL DEF Spec

-----------------------------------------------------------------------------
(* Delivery of queued input.                                               *)

\* InputDelivery, with what a closed session may still hold.
QueueInv ==
  /\ InputDelivery
  /\ closed => phase = "idle" /\ pending = << >>

\* An error keeps the queue, or closes the session and empties it.
LEMMA FailQueue ==
  ASSUME TypeOK, QueueInv, ~closed, NEW e, NEW ok, Fail(e, ok), generated' = generated,
         e \in Retryable => UNCHANGED <<lastSent, stopMark>>
  PROVE  QueueInv'
<1>1. CASE e \in Retryable
  BY <1>1 DEF Fail, QueueInv, InputDelivery
<1>2. CASE e \notin Retryable
  BY <1>2 DEF Fail, Shut, QueueInv, InputDelivery
<1>3. QED
  BY <1>1, <1>2

\* A new session has an empty queue and nothing sent.
LEMMA InitQueue ==
  ASSUME Init
  PROVE  QueueInv
<1>1. Len(pending) = 0 /\ generated = 0 /\ lastSent = 0 /\ stopMark = 0 /\ pending = << >>
        /\ phase = "idle"
  BY DEF Init
<1>2. QED
  BY <1>1 DEF QueueInv, InputDelivery, Larger

\* Every step keeps the queue in order and its end at what was sent or cancelled.
LEMMA QueueStep ==
  ASSUME TypeOK, QueueInv, [Next]_vars
  PROVE  QueueInv'
<1> USE DEF TypeOK
<1>1. CASE Tick
  BY <1>1 DEF Tick, QueueInv, InputDelivery
<1>2. ASSUME NEW s \in States, Update(s)
     PROVE  QueueInv'
  BY <1>2 DEF Update, QueueInv, InputDelivery
<1>3. ASSUME NEW c \in Configs, NEW d \in Deadlines, UpdateProtocol(c, d)
     PROVE  QueueInv'
  BY <1>3 DEF UpdateProtocol, QueueInv, InputDelivery
<1>4. CASE TakeObservations
  BY <1>4 DEF TakeObservations, QueueInv, InputDelivery
<1>5. ASSUME NEW ok \in BOOLEAN, Close(ok)
     PROVE  QueueInv'
  BY <1>5 DEF Close, QueueInv, InputDelivery, Shut, MayCall
<1>6. ASSUME NEW t \in 0 .. MaxTime, ServiceRejected(t)
     PROVE  QueueInv'
  BY <1>6 DEF ServiceRejected, QueueInv, InputDelivery
<1>7. CASE BeginService
  BY <1>7 DEF BeginService, QueueInv, InputDelivery, MayCall
<1>8. CASE SkipFlush
  BY <1>8 DEF SkipFlush, QueueInv, InputDelivery
<1>9. ASSUME NEW ok \in BOOLEAN, ReplyDeadline(ok)
     PROVE  QueueInv'
  <2>1. ~closed
    BY <1>9 DEF ReplyDeadline, QueueInv
  <2>2. QED
    BY <1>9, <2>1, FailQueue DEF ReplyDeadline
<1>10. CASE ReceiveNothing
  BY <1>10 DEF ReceiveNothing, QueueInv, InputDelivery
<1>11. ASSUME NEW e \in {"Transport", "Framing", "InvalidRequest"}, NEW ok \in BOOLEAN,
            ReceiveFailed(e, ok)
     PROVE  QueueInv'
  <2>1. ~closed
    BY <1>11 DEF ReceiveFailed, QueueInv
  <2>2. QED
    BY <1>11, <2>1, FailQueue DEF ReceiveFailed
<1>12. ASSUME NEW foreign \in BOOLEAN, NEW n \in 1 .. MaxOrdinal, NEW ok \in BOOLEAN,
            ReceiveStaleRequest(foreign, n, ok)
     PROVE  QueueInv'
  <2>1. ~closed
    BY <1>12 DEF ReceiveStaleRequest, QueueInv
  <2>2. QED
    BY <1>12, <2>1, FailQueue DEF ReceiveStaleRequest
<1>13. ASSUME NEW n \in 1 .. MaxOrdinal, NEW matches \in BOOLEAN, NEW emits \in Emits, NEW d \in Deadlines, NEW ok \in BOOLEAN,
            ReceiveRequest(n, matches, emits, d, ok)
     PROVE  QueueInv'
  <2>1. ~closed
    BY <1>13 DEF ReceiveRequest, QueueInv
  <2>2. CASE matches
    BY <1>13, <2>2 DEF ReceiveRequest, QueueInv, InputDelivery
  <2>3. CASE ~matches
    BY <1>13, <2>1, <2>3, FailQueue DEF ReceiveRequest
  <2>4. QED
    BY <2>2, <2>3
<1>14. ASSUME NEW emits \in Emits, NEW d \in Deadlines, ReceiveOutput(emits, d)
     PROVE  QueueInv'
  BY <1>14 DEF ReceiveOutput, QueueInv, InputDelivery
<1>15. ASSUME NEW e \in PersonalityErrors, NEW d \in Deadlines, NEW ok \in BOOLEAN,
            RejectOutput(e, d, ok)
     PROVE  QueueInv'
  <2>1. ~closed
    BY <1>15 DEF RejectOutput, QueueInv
  <2>2. QED
    BY <1>15, <2>1, FailQueue DEF RejectOutput
<1>16. ASSUME NEW stop \in BOOLEAN, NEW emits \in Emits, NEW d \in Deadlines,
            ReceiveLifecycle(stop, emits, d)
     PROVE  QueueInv'
  <2>1. ~closed /\ closed' = closed /\ lastSent <= generated
    BY <1>16 DEF ReceiveLifecycle, QueueInv, InputDelivery, Larger
  <2>2. CASE stop
    BY <1>16, <2>1, <2>2 DEF ReceiveLifecycle, QueueInv, InputDelivery, Larger
  <2>3. CASE ~stop
    BY <1>16, <2>1, <2>3 DEF ReceiveLifecycle, QueueInv, InputDelivery
  <2>4. QED
    BY <2>2, <2>3
<1>17. ASSUME NEW delivery \in Deliveries, NEW ok \in BOOLEAN, FlushReply(delivery, ok)
     PROVE  QueueInv'
  <2>1. ~closed
    BY <1>17 DEF FlushReply, QueueInv
  <2>2. CASE delivery = "Uncertain"
    BY <1>17, <2>1, <2>2, FailQueue DEF FlushReply
  <2>3. CASE delivery # "Uncertain"
    BY <1>17, <2>1, <2>3 DEF FlushReply, QueueInv, InputDelivery
  <2>4. QED
    BY <2>2, <2>3
<1>18. ASSUME NEW delivery \in Deliveries, NEW ok \in BOOLEAN, DrainOne(delivery, ok)
     PROVE  QueueInv'
  <2>1. ~closed /\ Len(pending) \in Nat \ {0} /\ Head(pending) = generated - Len(pending) + 1
    BY <1>18 DEF DrainOne, MayDrain, QueueInv, InputDelivery
  <2>2. CASE delivery = "Submitted"
    <3>1. pending' = Tail(pending) /\ lastSent' = Head(pending) /\ closed' = closed
          /\ generated' = generated /\ stopMark' = stopMark
      BY <1>18, <2>2 DEF DrainOne, Remaining
    <3>2. /\ Len(pending') = Len(pending) - 1
          /\ \A i \in 1 .. Len(pending') : pending'[i] = pending[i + 1]
      BY <2>1, <3>1
    <3>3. QED
      BY <2>1, <3>1, <3>2 DEF QueueInv, InputDelivery, Larger
  <2>3. CASE delivery = "DefinitelyUnsent"
    BY <1>18, <2>1, <2>3 DEF DrainOne, Remaining, QueueInv, InputDelivery
  <2>4. CASE delivery = "Uncertain"
    BY <1>18, <2>1, <2>4, FailQueue DEF DrainOne, Retryable
  <2>5. QED
    BY <2>2, <2>3, <2>4 DEF Deliveries
<1>19. CASE DrainDone
  BY <1>19 DEF DrainDone, QueueInv, InputDelivery
<1>20. CASE GenerateNothing
  BY <1>20 DEF GenerateNothing, QueueInv, InputDelivery
<1>21. ASSUME NEW n \in 0 .. MaxReports - generated, NEW d \in Deadlines, Generate(n, d)
     PROVE  QueueInv'
  <2>1. n \in Nat /\ ~closed /\ pending = << >>
    BY <1>21 DEF Generate, MustGenerate, QueueInv
  <2>2. /\ Len(pending') = n
        /\ \A i \in 1 .. n : pending'[i] = generated + i
    BY <1>21, <2>1, BatchTypes DEF Generate
  <2>3. QED
    BY <1>21, <2>1, <2>2 DEF Generate, QueueInv, InputDelivery
<1>22. ASSUME NEW e \in PersonalityErrors, NEW ok \in BOOLEAN, GenerateFailed(e, ok)
     PROVE  QueueInv'
  <2>1. ~closed
    BY <1>22 DEF GenerateFailed, QueueInv
  <2>2. QED
    BY <1>22, <2>1, FailQueue DEF GenerateFailed
<1>23. CASE UNCHANGED vars
  BY <1>23 DEF vars, QueueInv, InputDelivery
<1>24. QED
  BY <1>1, <1>2, <1>3, <1>4, <1>5, <1>6, <1>7, <1>8, <1>9, <1>10, <1>11,
     <1>12, <1>13, <1>14, <1>15, <1>16, <1>17, <1>18, <1>19, <1>20, <1>21, <1>22, <1>23
     DEF Next, Owner, ServiceStep, Receive, Submit, Produce

\* Every accepted report is delivered in order and without a gap, or taken away by STOP or
\* by the end of the session, for every queue length and budget.
THEOREM InputDelivered == Spec => []InputDelivery
<1>1. Init => QueueInv
  BY InitQueue
<1>2. TypeOK /\ QueueInv /\ [Next]_vars => QueueInv'
  BY QueueStep
<1>3. QueueInv => InputDelivery
  BY DEF QueueInv
<1>4. QED
  BY <1>1, <1>2, <1>3, TypeCorrect, PTL DEF Spec

\* Whatever blocks or fails, the next report submitted is newer than all that may have been
\* sent, for every queue length and budget.
THEOREM InputInOrder == Spec => SubmittedInOrder
<1> DEFINE Newer == (phase \in {"drain_old", "drain_new"} /\ budget' # budget)
                      => Head(pending) > lastSent
<1>1. ASSUME TypeOK, QueueInv, [Next]_vars PROVE [Newer]_vars
  <2>1. SUFFICES ASSUME phase \in {"drain_old", "drain_new"}, budget' # budget
                 PROVE  Head(pending) > lastSent
    OBVIOUS
  <2>2. \E delivery \in Deliveries, ok \in BOOLEAN : DrainOne(delivery, ok)
    BY <1>1, <2>1
       DEF Next, Owner, ServiceStep, Receive, Submit, Produce, vars, Tick, Update, UpdateProtocol,
           TakeObservations, Close, ServiceRejected, BeginService, MayCall, SkipFlush,
           ReplyDeadline, ReceiveNothing, ReceiveFailed, ReceiveStaleRequest, ReceiveRequest,
           ReceiveOutput, RejectOutput, ReceiveLifecycle, FlushReply, DrainDone,
           GenerateNothing, Generate, GenerateFailed
  <2>3. ~closed /\ Len(pending) \in Nat \ {0} /\ Head(pending) = generated - Len(pending) + 1
    BY <1>1, <2>1, <2>2 DEF DrainOne, MayDrain, QueueInv, InputDelivery, TypeOK
  <2>4. QED
    BY <1>1, <2>3 DEF QueueInv, InputDelivery, Larger, TypeOK
<1>2. ASSUME Init PROVE QueueInv
  BY <1>2, InitQueue
<1>3. TypeOK /\ QueueInv /\ [Next]_vars => QueueInv'
  BY QueueStep
<1>4. QED
  BY <1>1, <1>2, <1>3, TypeCorrect, PTL DEF Spec, SubmittedInOrder

-----------------------------------------------------------------------------
(* Required replies.                                                       *)

\* An error keeps the request and its slot, or closes the session.
LEMMA FailReply ==
  ASSUME RequestOwnership, ~closed, NEW e, NEW ok, Fail(e, ok),
         e \in Retryable => UNCHANGED unanswered
  PROVE  RequestOwnership'
<1>1. CASE e \in Retryable
  BY <1>1 DEF Fail, RequestOwnership
<1>2. CASE e \notin Retryable
  BY <1>2 DEF Fail, Shut, RequestOwnership
<1>3. QED
  BY <1>1, <1>2

\* Every step keeps the last request either unanswered or owning the slot.
LEMMA ReplyStep ==
  ASSUME TypeOK, QueueInv, RequestOwnership, [Next]_vars
  PROVE  RequestOwnership'
<1> USE DEF TypeOK
<1>1. CASE Tick
  BY <1>1 DEF Tick, RequestOwnership
<1>2. ASSUME NEW s \in States, Update(s)
     PROVE  RequestOwnership'
  BY <1>2 DEF Update, RequestOwnership
<1>3. ASSUME NEW c \in Configs, NEW d \in Deadlines, UpdateProtocol(c, d)
     PROVE  RequestOwnership'
  BY <1>3 DEF UpdateProtocol, RequestOwnership
<1>4. CASE TakeObservations
  BY <1>4 DEF TakeObservations, RequestOwnership
<1>5. ASSUME NEW ok \in BOOLEAN, Close(ok)
     PROVE  RequestOwnership'
  BY <1>5 DEF Close, RequestOwnership, Shut, MayCall
<1>6. ASSUME NEW t \in 0 .. MaxTime, ServiceRejected(t)
     PROVE  RequestOwnership'
  BY <1>6 DEF ServiceRejected, RequestOwnership
<1>7. CASE BeginService
  BY <1>7 DEF BeginService, RequestOwnership
<1>8. CASE SkipFlush
  BY <1>8 DEF SkipFlush, RequestOwnership
<1>9. ASSUME NEW ok \in BOOLEAN, ReplyDeadline(ok)
     PROVE  RequestOwnership'
  <2>1. ~closed
    BY <1>9 DEF ReplyDeadline, QueueInv
  <2>2. QED
    BY <1>9, <2>1, FailReply DEF ReplyDeadline
<1>10. CASE ReceiveNothing
  BY <1>10 DEF ReceiveNothing, RequestOwnership
<1>11. ASSUME NEW e \in {"Transport", "Framing", "InvalidRequest"}, NEW ok \in BOOLEAN,
            ReceiveFailed(e, ok)
     PROVE  RequestOwnership'
  <2>1. ~closed
    BY <1>11 DEF ReceiveFailed, QueueInv
  <2>2. QED
    BY <1>11, <2>1, FailReply DEF ReceiveFailed
<1>12. ASSUME NEW foreign \in BOOLEAN, NEW n \in 1 .. MaxOrdinal, NEW ok \in BOOLEAN,
            ReceiveStaleRequest(foreign, n, ok)
     PROVE  RequestOwnership'
  <2>1. ~closed
    BY <1>12 DEF ReceiveStaleRequest, QueueInv
  <2>2. QED
    BY <1>12, <2>1, FailReply DEF ReceiveStaleRequest
<1>13. ASSUME NEW n \in 1 .. MaxOrdinal, NEW matches \in BOOLEAN, NEW emits \in Emits, NEW d \in Deadlines, NEW ok \in BOOLEAN,
            ReceiveRequest(n, matches, emits, d, ok)
     PROVE  RequestOwnership'
  <2>1. ~closed
    BY <1>13 DEF ReceiveRequest, QueueInv
  <2>2. CASE matches
    <3>1. /\ unanswered' = unanswered \cup {n} /\ closed' = closed
          /\ reply'.ordinal = n /\ reply' # NoReply
      BY <1>13, <2>2 DEF ReceiveRequest, NoReply
    <3>2. unanswered = {}
      BY <1>13, <2>1 DEF ReceiveRequest, MayReceive, RequestOwnership
    <3>3. QED
      BY <3>1, <3>2 DEF RequestOwnership
  <2>3. CASE ~matches
    BY <1>13, <2>1, <2>3, FailReply DEF ReceiveRequest, Retryable
  <2>4. QED
    BY <2>2, <2>3
<1>14. ASSUME NEW emits \in Emits, NEW d \in Deadlines, ReceiveOutput(emits, d)
     PROVE  RequestOwnership'
  BY <1>14 DEF ReceiveOutput, RequestOwnership
<1>15. ASSUME NEW e \in PersonalityErrors, NEW d \in Deadlines, NEW ok \in BOOLEAN,
            RejectOutput(e, d, ok)
     PROVE  RequestOwnership'
  <2>1. ~closed
    BY <1>15 DEF RejectOutput, QueueInv
  <2>2. QED
    BY <1>15, <2>1, FailReply DEF RejectOutput
<1>16. ASSUME NEW stop \in BOOLEAN, NEW emits \in Emits, NEW d \in Deadlines,
            ReceiveLifecycle(stop, emits, d)
     PROVE  RequestOwnership'
  BY <1>16 DEF ReceiveLifecycle, RequestOwnership
<1>17. ASSUME NEW delivery \in Deliveries, NEW ok \in BOOLEAN, FlushReply(delivery, ok)
     PROVE  RequestOwnership'
  <2>1. ~closed
    BY <1>17 DEF FlushReply, QueueInv
  <2>2. CASE delivery = "Uncertain"
    BY <1>17, <2>1, <2>2, FailReply DEF FlushReply, Retryable
  <2>3. CASE delivery # "Uncertain"
    BY <1>17, <2>1, <2>3 DEF FlushReply, RequestOwnership, Deliveries
  <2>4. QED
    BY <2>2, <2>3
<1>18. ASSUME NEW delivery \in Deliveries, NEW ok \in BOOLEAN, DrainOne(delivery, ok)
     PROVE  RequestOwnership'
  <2>1. ~closed
    BY <1>18 DEF DrainOne, QueueInv
  <2>2. CASE delivery = "Uncertain"
    BY <1>18, <2>1, <2>2, FailReply DEF DrainOne, Retryable
  <2>3. CASE delivery # "Uncertain"
    BY <1>18, <2>1, <2>3 DEF DrainOne, RequestOwnership
  <2>4. QED
    BY <2>2, <2>3
<1>19. CASE DrainDone
  BY <1>19 DEF DrainDone, RequestOwnership
<1>20. CASE GenerateNothing
  BY <1>20 DEF GenerateNothing, RequestOwnership
<1>21. ASSUME NEW n \in 0 .. MaxReports - generated, NEW d \in Deadlines, Generate(n, d)
     PROVE  RequestOwnership'
  BY <1>21 DEF Generate, RequestOwnership
<1>22. ASSUME NEW e \in PersonalityErrors, NEW ok \in BOOLEAN, GenerateFailed(e, ok)
     PROVE  RequestOwnership'
  <2>1. ~closed
    BY <1>22 DEF GenerateFailed, QueueInv
  <2>2. QED
    BY <1>22, <2>1, FailReply DEF GenerateFailed
<1>23. CASE UNCHANGED vars
  BY <1>23 DEF vars, RequestOwnership
<1>24. QED
  BY <1>1, <1>2, <1>3, <1>4, <1>5, <1>6, <1>7, <1>8, <1>9, <1>10, <1>11,
     <1>12, <1>13, <1>14, <1>15, <1>16, <1>17, <1>18, <1>19, <1>20, <1>21, <1>22, <1>23
     DEF Next, Owner, ServiceStep, Receive, Submit, Produce

\* A consumed request owns the reply slot until it is unanswered, so no request is consumed
\* before the last one was unanswered, for every timeout and budget.
THEOREM RequestOwned == Spec => []RequestOwnership
<1>1. ASSUME Init PROVE QueueInv /\ RequestOwnership
  BY <1>1, InitQueue DEF Init, RequestOwnership
<1>2. TypeOK /\ QueueInv /\ RequestOwnership /\ [Next]_vars => QueueInv' /\ RequestOwnership'
  BY QueueStep, ReplyStep
<1>3. QED
  BY <1>1, <1>2, TypeCorrect, PTL DEF Spec

-----------------------------------------------------------------------------
(* Observations and closing.                                               *)

\* A push keeps the buffer bounded and accounts for what it evicts.
LEMMA ObserveAccounts ==
  ASSUME TypeOK, ObservationAccounting, NEW emits, Observe(emits)
  PROVE  ObservationAccounting'
<1>0. /\ obs \in Seq(Nat) /\ Len(obs) \in Nat /\ InputQueue \in Nat \ {0}
      /\ observed \in Nat /\ dropped \in Nat /\ taken \in Nat
  BY DEF TypeOK
<1> HIDE LimitsAssumption, ProtocolAssumption, BoundAssumption
<1>1. CASE ~emits
  BY <1>1 DEF Observe, ObservationAccounting
<1>2. CASE emits /\ Evicts
  <2>0. obs' = Append(Tail(obs), observed + 1)
    BY <1>2 DEF Observe
  <2>1. dropped' = dropped + 1 /\ observed' = observed + 1 /\ taken' = taken
    BY <1>2 DEF Observe
  <2>2. /\ Tail(obs) \in Seq(Nat) /\ Len(Tail(obs)) = Len(obs) - 1
        /\ \A i \in 1 .. Len(obs) - 1 : Tail(obs)[i] = obs[i + 1]
        /\ Len(obs) = InputQueue
    BY <1>0, <1>2 DEF Evicts
  <2>3. /\ Len(obs') = Len(obs)
        /\ \A i \in 1 .. Len(obs) : obs'[i] = IF i = Len(obs) THEN observed + 1 ELSE obs[i + 1]
    BY <1>0, <2>0, <2>2
  <2>4. /\ Len(obs') <= InputQueue
        /\ taken' + dropped' + Len(obs') = observed'
    BY <1>0, <2>1, <2>2, <2>3 DEF ObservationAccounting
  <2>5. ASSUME NEW i \in 1 .. Len(obs') PROVE obs'[i] = observed' - Len(obs') + i
    <3>1. CASE i = Len(obs)
      BY <1>0, <2>1, <2>3, <3>1
    <3>2. CASE i # Len(obs)
      <4>1. i \in 1 .. Len(obs) /\ i + 1 \in 1 .. Len(obs)
        BY <1>0, <2>3, <3>2
      <4>2. obs[i + 1] = observed - Len(obs) + (i + 1)
        BY <4>1 DEF ObservationAccounting
      <4>3. QED
        BY <1>0, <2>1, <2>3, <3>2, <4>1, <4>2
    <3>3. QED
      BY <3>1, <3>2
  <2>6. QED
    BY <2>4, <2>5 DEF ObservationAccounting
<1>3. CASE emits /\ ~Evicts
  <2>0. obs' = Append(obs, observed + 1)
    BY <1>3 DEF Observe
  <2>1. dropped' = dropped /\ observed' = observed + 1 /\ taken' = taken
    BY <1>3 DEF Observe
  <2>2. /\ Len(obs') = Len(obs) + 1
        /\ \A i \in 1 .. Len(obs) + 1 :
             obs'[i] = IF i = Len(obs) + 1 THEN observed + 1 ELSE obs[i]
    BY <1>0, <2>0
  <2>3. /\ Len(obs') <= InputQueue
        /\ taken' + dropped' + Len(obs') = observed'
    BY <1>0, <1>3, <2>1, <2>2 DEF ObservationAccounting, Evicts
  <2>4. ASSUME NEW i \in 1 .. Len(obs') PROVE obs'[i] = observed' - Len(obs') + i
    <3>1. CASE i = Len(obs) + 1
      BY <1>0, <2>1, <2>2, <3>1
    <3>2. CASE i # Len(obs) + 1
      <4>1. i \in 1 .. Len(obs)
        BY <1>0, <2>2, <3>2
      <4>2. obs[i] = observed - Len(obs) + i
        BY <4>1 DEF ObservationAccounting
      <4>3. QED
        BY <1>0, <2>1, <2>2, <3>2, <4>1, <4>2
    <3>3. QED
      BY <3>1, <3>2
  <2>5. QED
    BY <2>3, <2>4 DEF ObservationAccounting
<1>4. QED
  BY <1>1, <1>2, <1>3

\* Handing the buffer over accounts for all of it.
LEMMA TakeAccounts ==
  ASSUME TypeOK, ObservationAccounting, taken' = taken + Len(obs), obs' = << >>,
         UNCHANGED <<dropped, observed>>
  PROVE  ObservationAccounting'
  BY DEF TypeOK, ObservationAccounting

\* Every step accounts for every observation.
LEMMA ObservationStep ==
  ASSUME TypeOK, ObservationAccounting, [Next]_vars
  PROVE  ObservationAccounting'
<1> USE DEF TypeOK
<1>1. CASE Tick
  BY <1>1 DEF Tick, ObservationAccounting
<1>2. ASSUME NEW s \in States, Update(s)
     PROVE  ObservationAccounting'
  BY <1>2 DEF Update, ObservationAccounting
<1>3. ASSUME NEW c \in Configs, NEW d \in Deadlines, UpdateProtocol(c, d)
     PROVE  ObservationAccounting'
  BY <1>3 DEF UpdateProtocol, ObservationAccounting
<1>4. CASE TakeObservations
  BY <1>4, TakeAccounts DEF TakeObservations
<1>5. ASSUME NEW ok \in BOOLEAN, Close(ok)
     PROVE  ObservationAccounting'
  BY <1>5 DEF Close, ObservationAccounting
<1>6. ASSUME NEW t \in 0 .. MaxTime, ServiceRejected(t)
     PROVE  ObservationAccounting'
  BY <1>6 DEF ServiceRejected, ObservationAccounting
<1>7. CASE BeginService
  BY <1>7 DEF BeginService, ObservationAccounting
<1>8. CASE SkipFlush
  BY <1>8 DEF SkipFlush, ObservationAccounting
<1>9. ASSUME NEW ok \in BOOLEAN, ReplyDeadline(ok)
     PROVE  ObservationAccounting'
  BY <1>9 DEF ReplyDeadline, ObservationAccounting
<1>10. CASE ReceiveNothing
  BY <1>10 DEF ReceiveNothing, ObservationAccounting
<1>11. ASSUME NEW e \in {"Transport", "Framing", "InvalidRequest"}, NEW ok \in BOOLEAN,
            ReceiveFailed(e, ok)
     PROVE  ObservationAccounting'
  BY <1>11 DEF ReceiveFailed, ObservationAccounting
<1>12. ASSUME NEW foreign \in BOOLEAN, NEW n \in 1 .. MaxOrdinal, NEW ok \in BOOLEAN,
            ReceiveStaleRequest(foreign, n, ok)
     PROVE  ObservationAccounting'
  BY <1>12 DEF ReceiveStaleRequest, ObservationAccounting
<1>13. ASSUME NEW n \in 1 .. MaxOrdinal, NEW matches \in BOOLEAN, NEW emits \in Emits, NEW d \in Deadlines, NEW ok \in BOOLEAN,
            ReceiveRequest(n, matches, emits, d, ok)
     PROVE  ObservationAccounting'
  <2>1. CASE matches
    BY <1>13, <2>1, ObserveAccounts DEF ReceiveRequest
  <2>2. CASE ~matches
    BY <1>13, <2>2 DEF ReceiveRequest, ObservationAccounting
  <2>3. QED
    BY <2>1, <2>2
<1>14. ASSUME NEW emits \in Emits, NEW d \in Deadlines, ReceiveOutput(emits, d)
     PROVE  ObservationAccounting'
  BY <1>14, ObserveAccounts DEF ReceiveOutput
<1>15. ASSUME NEW e \in PersonalityErrors, NEW d \in Deadlines, NEW ok \in BOOLEAN,
            RejectOutput(e, d, ok)
     PROVE  ObservationAccounting'
  BY <1>15 DEF RejectOutput, ObservationAccounting
<1>16. ASSUME NEW stop \in BOOLEAN, NEW emits \in Emits, NEW d \in Deadlines,
            ReceiveLifecycle(stop, emits, d)
     PROVE  ObservationAccounting'
  BY <1>16, ObserveAccounts DEF ReceiveLifecycle
<1>17. ASSUME NEW delivery \in Deliveries, NEW ok \in BOOLEAN, FlushReply(delivery, ok)
     PROVE  ObservationAccounting'
  BY <1>17 DEF FlushReply, ObservationAccounting
<1>18. ASSUME NEW delivery \in Deliveries, NEW ok \in BOOLEAN, DrainOne(delivery, ok)
     PROVE  ObservationAccounting'
  <2>1. CASE LeaveDrain /\ phase = "drain_new"
    BY <1>18, <2>1, TakeAccounts DEF DrainOne, LeaveDrain, Return
  <2>2. CASE LeaveDrain /\ phase # "drain_new"
    BY <1>18, <2>2 DEF DrainOne, LeaveDrain, ObservationAccounting
  <2>3. CASE ~LeaveDrain
    BY <1>18, <2>3 DEF DrainOne, ObservationAccounting
  <2>4. QED
    BY <2>1, <2>2, <2>3
<1>19. CASE DrainDone
  <2>1. CASE LeaveDrain /\ phase = "drain_new"
    BY <1>19, <2>1, TakeAccounts DEF DrainDone, LeaveDrain, Return
  <2>2. CASE LeaveDrain /\ phase # "drain_new"
    BY <1>19, <2>2 DEF DrainDone, LeaveDrain, ObservationAccounting
  <2>3. QED
    BY <1>19, <2>1, <2>2 DEF DrainDone
<1>20. CASE GenerateNothing
  BY <1>20, TakeAccounts DEF GenerateNothing, Return
<1>21. ASSUME NEW n \in 0 .. MaxReports - generated, NEW d \in Deadlines, Generate(n, d)
     PROVE  ObservationAccounting'
  BY <1>21 DEF Generate, ObservationAccounting
<1>22. ASSUME NEW e \in PersonalityErrors, NEW ok \in BOOLEAN, GenerateFailed(e, ok)
     PROVE  ObservationAccounting'
  BY <1>22 DEF GenerateFailed, ObservationAccounting
<1>23. CASE UNCHANGED vars
  BY <1>23 DEF vars, ObservationAccounting
<1>24. QED
  BY <1>1, <1>2, <1>3, <1>4, <1>5, <1>6, <1>7, <1>8, <1>9, <1>10, <1>11,
     <1>12, <1>13, <1>14, <1>15, <1>16, <1>17, <1>18, <1>19, <1>20, <1>21, <1>22, <1>23
     DEF Next, Owner, ServiceStep, Receive, Submit, Produce

\* No observation disappears uncounted and the buffer keeps its bound, for every limit.
THEOREM ObservationsAccounted == Spec => []ObservationAccounting
<1>1. ASSUME Init PROVE ObservationAccounting
  <2>1. Len(obs) = 0 /\ dropped = 0 /\ observed = 0 /\ taken = 0
    BY <1>1 DEF Init
  <2>2. QED
    BY <2>1 DEF ObservationAccounting
<1>2. TypeOK /\ ObservationAccounting /\ [Next]_vars => ObservationAccounting'
  BY ObservationStep
<1>3. QED
  BY <1>1, <1>2, TypeCorrect, PTL DEF Spec

\* ClosedOnce, with where a closed session can be.
CloseInv == ClosedOnce /\ (closed => phase = "idle")

\* An error closes an open session once or leaves it open.
LEMMA FailCloses ==
  ASSUME CloseInv, ~closed, NEW e, NEW ok, Fail(e, ok)
  PROVE  CloseInv'
<1>1. CASE e \in Retryable
  BY <1>1 DEF Fail, CloseInv, ClosedOnce
<1>2. CASE e \notin Retryable
  BY <1>2 DEF Fail, Shut, CloseInv, ClosedOnce
<1>3. QED
  BY <1>1, <1>2

\* Every step closes the transport at most once.
LEMMA CloseStep ==
  ASSUME TypeOK, CloseInv, [Next]_vars
  PROVE  CloseInv'
<1> USE DEF TypeOK
<1>1. CASE Tick
  BY <1>1 DEF Tick, CloseInv, ClosedOnce
<1>2. ASSUME NEW s \in States, Update(s)
     PROVE  CloseInv'
  BY <1>2 DEF Update, CloseInv, ClosedOnce
<1>3. ASSUME NEW c \in Configs, NEW d \in Deadlines, UpdateProtocol(c, d)
     PROVE  CloseInv'
  BY <1>3 DEF UpdateProtocol, CloseInv, ClosedOnce
<1>4. CASE TakeObservations
  BY <1>4 DEF TakeObservations, CloseInv, ClosedOnce
<1>5. ASSUME NEW ok \in BOOLEAN, Close(ok)
     PROVE  CloseInv'
  BY <1>5 DEF Close, CloseInv, ClosedOnce, Shut, MayCall
<1>6. ASSUME NEW t \in 0 .. MaxTime, ServiceRejected(t)
     PROVE  CloseInv'
  BY <1>6 DEF ServiceRejected, CloseInv, ClosedOnce
<1>7. CASE BeginService
  BY <1>7 DEF BeginService, CloseInv, ClosedOnce, MayCall
<1>8. CASE SkipFlush
  BY <1>8 DEF SkipFlush, CloseInv, ClosedOnce
<1>9. ASSUME NEW ok \in BOOLEAN, ReplyDeadline(ok)
     PROVE  CloseInv'
  <2>1. ~closed
    BY <1>9 DEF ReplyDeadline, CloseInv
  <2>2. QED
    BY <1>9, <2>1, FailCloses DEF ReplyDeadline
<1>10. CASE ReceiveNothing
  BY <1>10 DEF ReceiveNothing, CloseInv, ClosedOnce
<1>11. ASSUME NEW e \in {"Transport", "Framing", "InvalidRequest"}, NEW ok \in BOOLEAN,
            ReceiveFailed(e, ok)
     PROVE  CloseInv'
  <2>1. ~closed
    BY <1>11 DEF ReceiveFailed, CloseInv
  <2>2. QED
    BY <1>11, <2>1, FailCloses DEF ReceiveFailed
<1>12. ASSUME NEW foreign \in BOOLEAN, NEW n \in 1 .. MaxOrdinal, NEW ok \in BOOLEAN,
            ReceiveStaleRequest(foreign, n, ok)
     PROVE  CloseInv'
  <2>1. ~closed
    BY <1>12 DEF ReceiveStaleRequest, CloseInv
  <2>2. QED
    BY <1>12, <2>1, FailCloses DEF ReceiveStaleRequest
<1>13. ASSUME NEW n \in 1 .. MaxOrdinal, NEW matches \in BOOLEAN, NEW emits \in Emits, NEW d \in Deadlines, NEW ok \in BOOLEAN,
            ReceiveRequest(n, matches, emits, d, ok)
     PROVE  CloseInv'
  <2>1. ~closed
    BY <1>13 DEF ReceiveRequest, CloseInv
  <2>2. CASE ~matches
    BY <1>13, <2>1, <2>2, FailCloses DEF ReceiveRequest
  <2>3. CASE ~(~matches)
    BY <1>13, <2>1, <2>3 DEF ReceiveRequest, CloseInv, ClosedOnce
  <2>4. QED
    BY <2>2, <2>3
<1>14. ASSUME NEW emits \in Emits, NEW d \in Deadlines, ReceiveOutput(emits, d)
     PROVE  CloseInv'
  BY <1>14 DEF ReceiveOutput, CloseInv, ClosedOnce
<1>15. ASSUME NEW e \in PersonalityErrors, NEW d \in Deadlines, NEW ok \in BOOLEAN,
            RejectOutput(e, d, ok)
     PROVE  CloseInv'
  <2>1. ~closed
    BY <1>15 DEF RejectOutput, CloseInv
  <2>2. QED
    BY <1>15, <2>1, FailCloses DEF RejectOutput
<1>16. ASSUME NEW stop \in BOOLEAN, NEW emits \in Emits, NEW d \in Deadlines,
            ReceiveLifecycle(stop, emits, d)
     PROVE  CloseInv'
  BY <1>16 DEF ReceiveLifecycle, CloseInv, ClosedOnce
<1>17. ASSUME NEW delivery \in Deliveries, NEW ok \in BOOLEAN, FlushReply(delivery, ok)
     PROVE  CloseInv'
  <2>1. ~closed
    BY <1>17 DEF FlushReply, CloseInv
  <2>2. CASE delivery = "Uncertain"
    BY <1>17, <2>1, <2>2, FailCloses DEF FlushReply
  <2>3. CASE ~(delivery = "Uncertain")
    BY <1>17, <2>1, <2>3 DEF FlushReply, CloseInv, ClosedOnce
  <2>4. QED
    BY <2>2, <2>3
<1>18. ASSUME NEW delivery \in Deliveries, NEW ok \in BOOLEAN, DrainOne(delivery, ok)
     PROVE  CloseInv'
  <2>1. ~closed
    BY <1>18 DEF DrainOne, CloseInv
  <2>2. CASE delivery = "Uncertain"
    BY <1>18, <2>1, <2>2, FailCloses DEF DrainOne
  <2>3. CASE ~(delivery = "Uncertain")
    BY <1>18, <2>1, <2>3 DEF DrainOne, CloseInv, ClosedOnce
  <2>4. QED
    BY <2>2, <2>3
<1>19. CASE DrainDone
  BY <1>19 DEF DrainDone, CloseInv, ClosedOnce
<1>20. CASE GenerateNothing
  BY <1>20 DEF GenerateNothing, CloseInv, ClosedOnce
<1>21. ASSUME NEW n \in 0 .. MaxReports - generated, NEW d \in Deadlines, Generate(n, d)
     PROVE  CloseInv'
  BY <1>21 DEF Generate, CloseInv, ClosedOnce
<1>22. ASSUME NEW e \in PersonalityErrors, NEW ok \in BOOLEAN, GenerateFailed(e, ok)
     PROVE  CloseInv'
  <2>1. ~closed
    BY <1>22 DEF GenerateFailed, CloseInv
  <2>2. QED
    BY <1>22, <2>1, FailCloses DEF GenerateFailed
<1>23. CASE UNCHANGED vars
  BY <1>23 DEF vars, CloseInv, ClosedOnce
<1>24. QED
  BY <1>1, <1>2, <1>3, <1>4, <1>5, <1>6, <1>7, <1>8, <1>9, <1>10, <1>11,
     <1>12, <1>13, <1>14, <1>15, <1>16, <1>17, <1>18, <1>19, <1>20, <1>21, <1>22, <1>23
     DEF Next, Owner, ServiceStep, Receive, Submit, Produce

\* The transport is closed exactly once, by whichever path closes the session first.
THEOREM TransportClosedOnce == Spec => []ClosedOnce
<1>1. ASSUME Init PROVE CloseInv
  BY <1>1 DEF Init, CloseInv, ClosedOnce
<1>2. TypeOK /\ CloseInv /\ [Next]_vars => CloseInv'
  BY CloseStep
<1>3. CloseInv => ClosedOnce
  BY DEF CloseInv
<1>4. QED
  BY <1>1, <1>2, <1>3, TypeCorrect, PTL DEF Spec

-----------------------------------------------------------------------------
(* No edit is lost.                                                        *)

\* The steps that touch neither the edit, nor its schedule, nor what was encoded.
LEMMA EditStays ==
  ASSUME \/ Tick \/ TakeObservations \/ BeginService \/ SkipFlush \/ ReceiveNothing
         \/ DrainDone \/ GenerateNothing \/ UNCHANGED vars
         \/ \E ok \in BOOLEAN : Close(ok) \/ ReplyDeadline(ok)
         \/ \E t \in 0 .. MaxTime : ServiceRejected(t)
         \/ \E e \in {"Transport", "Framing", "InvalidRequest"}, ok \in BOOLEAN : ReceiveFailed(e, ok)
         \/ \E foreign \in BOOLEAN, n \in 1 .. MaxOrdinal, ok \in BOOLEAN :
              ReceiveStaleRequest(foreign, n, ok)
         \/ \E n \in 1 .. MaxOrdinal, matches \in BOOLEAN, emits \in Emits, d \in Deadlines,
               ok \in BOOLEAN : ReceiveRequest(n, matches, emits, d, ok)
         \/ \E emits \in Emits, d \in Deadlines : ReceiveOutput(emits, d)
         \/ \E e \in PersonalityErrors, d \in Deadlines, ok \in BOOLEAN : RejectOutput(e, d, ok)
         \/ Submit
         \/ \E e \in PersonalityErrors, ok \in BOOLEAN : GenerateFailed(e, ok)
  PROVE  UNCHANGED <<state, config, dirty, encoded>>
<1> SUFFICES state' = state /\ config' = config /\ dirty' = dirty /\ encoded' = encoded
  OBVIOUS
<1> QED
  BY Zenon DEF Tick, TakeObservations, BeginService, SkipFlush, ReceiveNothing, DrainDone,
     GenerateNothing, vars, Close, ReplyDeadline, ServiceRejected, ReceiveFailed,
     ReceiveStaleRequest, ReceiveRequest, ReceiveOutput, RejectOutput, Submit, FlushReply,
     DrainOne, GenerateFailed

\* Only an edit, a STOP and an accepted batch change them, and each keeps the promise.
LEMMA EditStep ==
  ASSUME NoLostEdit, [Next]_vars
  PROVE  NoLostEdit'
<1>1. ASSUME NEW s \in States, Update(s)
      PROVE  NoLostEdit'
  BY <1>1, Zenon DEF Update, Validates, NoLostEdit
<1>2. ASSUME NEW c \in Configs, NEW d \in Deadlines, UpdateProtocol(c, d)
      PROVE  NoLostEdit'
  BY <1>2, Zenon DEF UpdateProtocol, Validates, NoLostEdit
<1>3. ASSUME NEW stop \in BOOLEAN, NEW emits \in Emits, NEW d \in Deadlines,
             ReceiveLifecycle(stop, emits, d)
      PROVE  NoLostEdit'
  BY <1>3, Zenon DEF ReceiveLifecycle, NoLostEdit
<1>4. ASSUME NEW n \in 0 .. MaxReports - generated, NEW d \in Deadlines, Generate(n, d)
      PROVE  NoLostEdit'
  BY <1>4, Zenon DEF Generate, NoLostEdit
<1>5. ASSUME UNCHANGED <<state, config, dirty, encoded>>
      PROVE  NoLostEdit'
  BY <1>5, Zenon DEF NoLostEdit
<1>6. QED
  BY <1>1, <1>2, <1>3, <1>4, <1>5, EditStays DEF Next, Owner, ServiceStep, Receive, Produce

\* An accepted edit stays scheduled until the personality has encoded it, and the state to
\* encode is one that the configuration validates (Runtime::update, update_protocol, service).
THEOREM EditsAreKept == Spec => []NoLostEdit
<1>1. Init => NoLostEdit
  BY DEF Init, NoLostEdit
<1>2. QED
  BY <1>1, EditStep, PTL DEF Spec
=============================================================================
