----------------------------- MODULE HidRuntime -----------------------------
(***************************************************************************)
(* One executor-neutral HID protocol session: gr_hid::Runtime<P, T>.       *)
(*                                                                         *)
(* The runtime owns a semantic state, a controller-owned protocol (the     *)
(* "personality"), a bounded queue of generated input reports, one         *)
(* reserved reply slot and a bounded buffer of optional observations.  It  *)
(* is driven by one owner through service(now), and inside a service call  *)
(* it talks to a transport whose answers it does not control.  A service   *)
(* call is therefore a sequence of steps ordered by phase; every other     *)
(* operation of the owner happens between service calls.                   *)
(*                                                                         *)
(* Steps that consume an answer of the transport or of the personality     *)
(* take it as a parameter, so a composition can conjoin the component that *)
(* gives the answer; Next, below, lets every answer happen.                *)
(***************************************************************************)
EXTENDS Integers, Sequences

CONSTANTS
  States,        \* semantic controller states (P::State)
  Neutral,       \* protocol.neutral()
  Configs,       \* controller-owned protocol configurations / topologies
  InitialConfig, \* the configuration the protocol is created with
  Accepts,       \* Accepts[c]: the states that configuration c validates
  InputQueue,    \* Limits.input_queue
  Submissions,   \* Limits.submissions_per_service
  ReplyTimeout,  \* Limits.reply_timeout_us
  Period,        \* cadence of a periodic personality
  MaxTime,       \* last instant of the clock (u64::MAX); the bound on time in a run
  MaxOrdinal,    \* bound: requests the transport may present
  MaxReports,    \* bound: input reports the personality may generate
  MaxObserved    \* bound: observations the personality may emit

\* The checks Runtime::new makes before it returns a session.
ASSUME LimitsAssumption ==
  /\ InputQueue \in Nat /\ InputQueue # 0
  /\ Submissions \in Nat /\ Submissions >= 2
  /\ ReplyTimeout \in Nat /\ ReplyTimeout # 0
ASSUME ProtocolAssumption ==
  /\ InitialConfig \in Configs
  /\ Accepts \in [Configs -> SUBSET States]
  /\ Neutral \in Accepts[InitialConfig]
  /\ Period \in Nat
ASSUME BoundAssumption ==
  /\ MaxTime \in Nat /\ MaxOrdinal \in Nat
  /\ MaxReports \in Nat /\ MaxObserved \in Nat

VARIABLES
  phase,       \* where the current service call stands; "idle" between calls
  budget,      \* submissions left in the current service call
  result,      \* what the last service call returned
  clock,       \* the owner's monotonic clock
  now,         \* Runtime.now: the instant of the last accepted service call
  state,       \* Runtime.state
  config,      \* configuration inside Runtime.protocol
  due,         \* protocol.deadline()
  dirty,       \* Runtime.dirty
  pending,     \* Runtime.pending: generated reports, by sequence number
  reply,       \* Runtime.reply: the reserved reply slot
  lastRequest, \* Runtime.last_request (0 before the first request)
  obs,         \* Runtime.observations, by observation number
  dropped,     \* Runtime.dropped_observations
  closed,      \* Runtime.closed
  closeError,  \* Runtime.close_error is Some
  \* History of what left the runtime, for the properties only.
  generated,   \* reports accepted into the queue so far
  lastSent,    \* greatest report that may have reached the transport
  stopMark,    \* reports generated before the last host STOP
  unanswered,  \* requests consumed whose reply cannot have reached the transport
  observed,    \* observations emitted by the personality
  taken,       \* observations handed to the owner
  encoded,     \* <<state, config>> the personality last encoded
  closes       \* calls of transport.close()

ownerVars == <<state, config, dirty>>
queueVars == <<pending, generated, lastSent, stopMark, encoded>>
replyVars == <<reply, lastRequest, unanswered>>
obsVars   == <<obs, dropped, observed, taken>>
closeVars == <<closed, closeError, closes>>
callVars  == <<phase, budget, result>>
timeVars  == <<clock, now>>
vars == <<ownerVars, queueVars, replyVars, obsVars, closeVars, callVars, timeVars, due>>

NoDeadline == -1
NoReply == [ordinal |-> 0, deadline |-> 0]

(***************************************************************************)
(* Definitions named Faulty... are plausible defects of the definition     *)
(* that follows them.  They are used only to test that the properties can  *)
(* tell the defect from the code.                                          *)
(***************************************************************************)
Deliveries == {"Submitted", "DefinitelyUnsent", "Uncertain"}
FaultyRetryable == {"QueueFull", "InvalidState", "UncertainDelivery"}
Retryable == {"QueueFull", "InvalidState"}
\* What a personality can return from output() and input().
PersonalityErrors == Retryable \cup {"Framing"}
Errors == PersonalityErrors \cup
  {"Closed", "InvalidReply", "InvalidRequest", "TimeReversed", "Deadline",
   "UncertainDelivery", "Transport"}
Phases == {"idle", "flush_pending", "event", "flush_new", "drain_old",
           "generate", "drain_new"}

\* Deadlines a personality may report: none, at once, or one period away.
Deadlines == {NoDeadline, now, now + Period}

Larger(a, b) == IF a >= b THEN a ELSE b
Smaller(a, b) == IF a <= b THEN a ELSE b

Init ==
  /\ phase = "idle" /\ budget = 0 /\ result = "Ok"
  /\ clock = 0 /\ now = 0
  /\ state = Neutral /\ config = InitialConfig /\ dirty = TRUE
  /\ due \in Deadlines
  /\ pending = << >> /\ reply = NoReply /\ lastRequest = 0
  /\ obs = << >> /\ dropped = 0
  /\ closed = FALSE /\ closeError = FALSE
  /\ generated = 0 /\ lastSent = 0 /\ stopMark = 0 /\ unanswered = {}
  /\ observed = 0 /\ taken = 0 /\ closes = 0
  /\ encoded = << >>

-----------------------------------------------------------------------------
(* Operations of the owner, between service calls.                         *)

Tick ==
  /\ clock < MaxTime
  /\ clock' = clock + 1
  /\ UNCHANGED <<now, ownerVars, queueVars, replyVars, obsVars, closeVars, callVars, due>>

\* Every operation first turns a closed session away.
MayCall == phase = "idle" /\ ~closed

\* protocol.validate(state), as configuration c decides it.
Validates(c, s) == s \in Accepts[c]

\* update: an edit is kept only if the protocol accepts the edited state.
Update(s) ==
  /\ MayCall
  /\ Validates(config, s)
  /\ state' = s
  /\ dirty' = TRUE
  /\ UNCHANGED <<config, queueVars, replyVars, obsVars, closeVars, callVars, timeVars, due>>

\* update_protocol: an edit is kept only if it still accepts the current state.
UpdateProtocol(c, d) ==
  /\ MayCall
  /\ Validates(c, state)
  /\ config' = c
  /\ due' = d
  /\ dirty' = TRUE
  /\ UNCHANGED <<state, queueVars, replyVars, obsVars, closeVars, callVars, timeVars>>

TakeObservations ==
  /\ phase = "idle"
  /\ obs # << >>
  /\ taken' = taken + Len(obs)
  /\ obs' = << >>
  /\ UNCHANGED <<dropped, observed, ownerVars, queueVars, replyVars, closeVars,
                 callVars, timeVars, due>>

FaultyShut(ok) ==
  /\ closed' = TRUE
  /\ reply' = NoReply
  /\ closes' = closes + 1
  /\ closeError' = ~ok
  /\ UNCHANGED pending

\* The effect of Runtime::close on a session that is not closed yet.
Shut(ok) ==
  /\ closed' = TRUE
  /\ pending' = << >>
  /\ reply' = NoReply
  /\ closes' = closes + 1
  /\ closeError' = ~ok

\* close(), and Drop: the second call finds the session closed and does nothing.
Close(ok) ==
  /\ MayCall
  /\ Shut(ok)
  /\ UNCHANGED <<generated, lastSent, stopMark, encoded, lastRequest, unanswered,
                 ownerVars, obsVars, callVars, timeVars, due>>

\* service: an early return for a closed session or a clock that went back.
ServiceRejected(t) ==
  /\ phase = "idle"
  /\ \/ closed /\ result' = "Closed"
     \/ ~closed /\ t < now /\ result' = "TimeReversed"
  /\ UNCHANGED <<phase, budget, ownerVars, queueVars, replyVars, obsVars, closeVars,
                 timeVars, due>>

BeginService ==
  /\ MayCall
  /\ now' = clock
  /\ budget' = Submissions
  /\ phase' = "flush_pending"
  /\ UNCHANGED <<result, clock, ownerVars, queueVars, replyVars, obsVars, closeVars, due>>

-----------------------------------------------------------------------------
(* Steps of a service call.                                                *)

\* service's error arm: two errors are retryable, every other one is terminal.
\* Frames everything a failing step does not set itself.
Fail(e, ok) ==
  /\ phase' = "idle"
  /\ result' = e
  /\ IF e \in Retryable
     THEN UNCHANGED <<closeVars, pending, reply>>
     ELSE Shut(ok)

FaultyEvicts == Len(obs) > InputQueue
Evicts == Len(obs) = InputQueue

\* observe: a full buffer loses its oldest observation, and counts it.
Observe(emits) ==
  IF ~emits
  THEN UNCHANGED obsVars
  ELSE /\ observed' = observed + 1
       /\ obs' = Append(IF Evicts THEN Tail(obs) ELSE obs, observed + 1)
       /\ dropped' = IF Evicts THEN dropped + 1 ELSE dropped
       /\ UNCHANGED taken

AfterFlush == IF phase = "flush_pending" THEN "event" ELSE "drain_old"

Expired == now >= reply.deadline

\* flush_reply with an empty slot.
SkipFlush ==
  /\ phase \in {"flush_pending", "flush_new"}
  /\ reply = NoReply
  /\ phase' = AfterFlush
  /\ UNCHANGED <<budget, result, ownerVars, queueVars, replyVars, obsVars, closeVars,
                 timeVars, due>>

\* flush_reply at or after the reply deadline: terminal.
ReplyDeadline(ok) ==
  /\ phase \in {"flush_pending", "flush_new"}
  /\ reply # NoReply
  /\ Expired
  /\ Fail("Deadline", ok)
  /\ UNCHANGED <<budget, ownerVars, generated, lastSent, stopMark, encoded, lastRequest,
                 unanswered, obsVars, timeVars, due>>

\* flush_reply: one submission of the reserved reply.
FlushReply(delivery, ok) ==
  /\ phase \in {"flush_pending", "flush_new"}
  /\ reply # NoReply
  /\ ~Expired
  /\ budget' = budget - 1
  /\ unanswered' = IF delivery = "DefinitelyUnsent" THEN unanswered
                    ELSE unanswered \ {reply.ordinal}
  /\ IF delivery = "Uncertain"
     THEN Fail("UncertainDelivery", ok)
     ELSE /\ reply' = IF delivery = "Submitted" THEN NoReply ELSE reply
          /\ phase' = AfterFlush
          /\ UNCHANGED <<result, closeVars, pending>>
  /\ UNCHANGED <<ownerVars, generated, lastSent, stopMark, encoded, lastRequest,
                 obsVars, timeVars, due>>

FaultyMayReceiveMore == budget > 1

\* The reply slot is free and the budget leaves a submission for input.
MayReceive == reply = NoReply /\ budget > 1

\* No event is read, or the transport is idle (event() returned Ok(None)).
ReceiveNothing ==
  /\ phase = "event"
  /\ phase' = "drain_old"
  /\ UNCHANGED <<budget, result, ownerVars, queueVars, replyVars, obsVars, closeVars,
                 timeVars, due>>

\* event() returned an error.
ReceiveFailed(e, ok) ==
  /\ phase = "event" /\ MayReceive
  /\ Fail(e, ok)
  /\ UNCHANGED <<budget, ownerVars, generated, lastSent, stopMark, encoded, lastRequest,
                 unanswered, obsVars, timeVars, due>>

\* A request whose token is not of this session or does not increase.
ReceiveStaleRequest(foreign, n, ok) ==
  /\ phase = "event" /\ MayReceive
  /\ foreign \/ n <= lastRequest
  /\ Fail("InvalidRequest", ok)
  /\ UNCHANGED <<budget, ownerVars, generated, lastSent, stopMark, encoded, lastRequest,
                 unanswered, obsVars, timeVars, due>>

\* A request: the personality answers synchronously and the answer takes the slot.
\* "matches" is validate_reply: the reply has the kind and the ID asked for.  The
\* deadline saturates at the end of the clock.
ReceiveRequest(n, matches, emits, d, ok) ==
  /\ phase = "event" /\ MayReceive
  /\ n > lastRequest
  /\ lastRequest' = n
  /\ unanswered' = unanswered \cup {n}
  /\ due' = d
  /\ IF ~matches
     THEN Fail("InvalidReply", ok) /\ UNCHANGED obsVars
     ELSE /\ reply' = [ordinal |-> n, deadline |-> Smaller(now + ReplyTimeout, MaxTime)]
          /\ Observe(emits)
          /\ phase' = "flush_new"
          /\ UNCHANGED <<result, closeVars, pending>>
  /\ UNCHANGED <<budget, ownerVars, generated, lastSent, stopMark, encoded, timeVars>>

ReceiveOutput(emits, d) ==
  /\ phase = "event" /\ MayReceive
  /\ due' = d
  /\ Observe(emits)
  /\ phase' = "drain_old"
  /\ UNCHANGED <<budget, result, ownerVars, queueVars, replyVars, closeVars, timeVars>>

\* protocol.output returned an error; what it changed before failing is kept.
RejectOutput(e, d, ok) ==
  /\ phase = "event" /\ MayReceive
  /\ due' = d
  /\ Fail(e, ok)
  /\ UNCHANGED <<budget, ownerVars, generated, lastSent, stopMark, encoded, lastRequest,
                 unanswered, obsVars, timeVars>>

\* START, STOP, OPEN or CLOSE; STOP cancels the input not yet submitted.
ReceiveLifecycle(stop, emits, d) ==
  /\ phase = "event" /\ MayReceive
  /\ pending' = IF stop THEN << >> ELSE pending
  /\ stopMark' = IF stop THEN generated ELSE stopMark
  /\ dirty' = (dirty \/ stop)
  /\ due' = d
  /\ Observe(emits)
  /\ phase' = "drain_old"
  /\ UNCHANGED <<budget, result, state, config, generated, lastSent, encoded, replyVars,
                 closeVars, timeVars>>

\* A service call that returns Ok hands over the observations.
Return ==
  /\ phase' = "idle"
  /\ result' = "Ok"
  /\ taken' = taken + Len(obs)
  /\ obs' = << >>

\* Where a drain loop leads: the first to input generation, the second to Ok(..).
LeaveDrain ==
  IF phase = "drain_new"
  THEN Return
  ELSE phase' = "generate" /\ UNCHANGED <<result, obs, taken>>

FaultyMayDrain == pending # << >>
MayDrain == budget > 0 /\ pending # << >>

\* pop_front follows a confirmed submission only.
FaultyRemaining(delivery) == Tail(pending)
Remaining(delivery) == IF delivery = "Submitted" THEN Tail(pending) ELSE pending

\* One submission of the oldest queued report.
DrainOne(delivery, ok) ==
  /\ phase \in {"drain_old", "drain_new"}
  /\ MayDrain
  /\ budget' = budget - 1
  /\ lastSent' = IF delivery = "DefinitelyUnsent" THEN lastSent ELSE Head(pending)
  /\ \/ /\ delivery = "Submitted"
        /\ pending' = Remaining(delivery)
        /\ UNCHANGED <<phase, result, obs, taken, reply, closeVars>>
     \/ /\ delivery = "DefinitelyUnsent"
        /\ pending' = Remaining(delivery)
        /\ LeaveDrain
        /\ UNCHANGED <<reply, closeVars>>
     \/ /\ delivery = "Uncertain"
        /\ Fail("UncertainDelivery", ok)
        /\ UNCHANGED <<obs, taken>>
  /\ UNCHANGED <<ownerVars, generated, stopMark, encoded, lastRequest, unanswered, dropped,
                 observed, timeVars, due>>

\* The drain loop ends: the queue is empty or the budget is spent.
DrainDone ==
  /\ phase \in {"drain_old", "drain_new"}
  /\ ~MayDrain
  /\ LeaveDrain
  /\ UNCHANGED <<budget, dropped, observed, ownerVars, queueVars, replyVars, closeVars,
                 timeVars, due>>

MustGenerate ==
  /\ pending = << >>
  /\ dirty \/ (due # NoDeadline /\ now >= due)

GenerateNothing ==
  /\ phase = "generate" /\ ~MustGenerate
  /\ Return
  /\ UNCHANGED <<budget, dropped, observed, ownerVars, queueVars, replyVars, closeVars,
                 timeVars, due>>

\* A batch of n reports from a clone of the protocol; accepted whole.
Generate(n, d) ==
  /\ phase = "generate" /\ MustGenerate
  /\ n <= InputQueue
  /\ pending' = [i \in 1 .. n |-> generated + i]
  /\ generated' = generated + n
  /\ due' = d
  /\ dirty' = FALSE
  /\ encoded' = <<state, config>>
  /\ phase' = "drain_new"
  /\ UNCHANGED <<budget, result, state, config, lastSent, stopMark, replyVars, obsVars,
                 closeVars, timeVars>>

FaultyGenerateFailed(e, ok) ==
  /\ phase = "generate" /\ MustGenerate
  /\ Fail(e, ok)
  /\ dirty' = FALSE
  /\ UNCHANGED <<budget, state, config, generated, lastSent, stopMark, encoded, lastRequest,
                 unanswered, obsVars, timeVars, due>>

\* The batch is refused (input() failed, too many reports, a report that is not
\* input); the clone is dropped, so protocol, state and scheduling are unchanged.
GenerateFailed(e, ok) ==
  /\ phase = "generate" /\ MustGenerate
  /\ Fail(e, ok)
  /\ UNCHANGED <<budget, ownerVars, generated, lastSent, stopMark, encoded, lastRequest,
                 unanswered, obsVars, timeVars, due>>
-----------------------------------------------------------------------------
Owner ==
  \/ \E s \in States : Update(s)
  \/ \E c \in Configs, d \in Deadlines : UpdateProtocol(c, d)
  \/ TakeObservations
  \/ \E ok \in BOOLEAN : Close(ok)
  \/ \E t \in 0 .. MaxTime : ServiceRejected(t)
  \/ BeginService

\* The personality may emit an observation while the bound allows one more.
Emits == IF observed < MaxObserved THEN BOOLEAN ELSE {FALSE}

Receive ==
  \/ ReceiveNothing
  \/ \E e \in {"Transport", "Framing", "InvalidRequest"}, ok \in BOOLEAN : ReceiveFailed(e, ok)
  \/ \E foreign \in BOOLEAN, n \in 1 .. MaxOrdinal, ok \in BOOLEAN :
       ReceiveStaleRequest(foreign, n, ok)
  \/ \E n \in 1 .. MaxOrdinal, matches \in BOOLEAN, emits \in Emits, d \in Deadlines,
        ok \in BOOLEAN :
       ReceiveRequest(n, matches, emits, d, ok)
  \/ \E emits \in Emits, d \in Deadlines : ReceiveOutput(emits, d)
  \/ \E e \in PersonalityErrors, d \in Deadlines, ok \in BOOLEAN : RejectOutput(e, d, ok)
  \/ \E stop \in BOOLEAN, emits \in Emits, d \in Deadlines : ReceiveLifecycle(stop, emits, d)

Submit ==
  \/ \E delivery \in Deliveries, ok \in BOOLEAN : FlushReply(delivery, ok)
  \/ \E delivery \in Deliveries, ok \in BOOLEAN : DrainOne(delivery, ok)

Produce ==
  \/ GenerateNothing
  \/ \E n \in 0 .. MaxReports - generated, d \in Deadlines : Generate(n, d)
  \/ \E e \in PersonalityErrors, ok \in BOOLEAN : GenerateFailed(e, ok)

ServiceStep ==
  \/ SkipFlush
  \/ \E ok \in BOOLEAN : ReplyDeadline(ok)
  \/ Receive
  \/ Submit
  \/ DrainDone
  \/ Produce

Next == Tick \/ Owner \/ ServiceStep

Spec == Init /\ [][Next]_vars

(***************************************************************************)
(* The clock runs, a service call that has begun runs to its end, and the  *)
(* owner keeps calling service, as the crate documentation requires of it. *)
(* The transport and the personality owe nothing for these.                *)
(***************************************************************************)
ServiceFairness == WF_vars(Tick) /\ WF_vars(BeginService) /\ WF_vars(ServiceStep)

(***************************************************************************)
(* The host keeps accepting input, the personality keeps accepting its     *)
(* state, and it does not refuse a host output in every service call: a    *)
(* refusal ends the call with a retryable error before any input.          *)
(***************************************************************************)
PeerFairness ==
  /\ SF_vars(ServiceStep /\ phase = "event" /\ phase' \in {"drain_old", "flush_new"})
  /\ SF_vars(\E ok \in BOOLEAN : DrainOne("Submitted", ok))
  /\ SF_vars(\E n \in 0 .. MaxReports - generated, d \in Deadlines : Generate(n, d))

FairSpec == Spec /\ ServiceFairness

-----------------------------------------------------------------------------
(* Properties.                                                             *)

Instants == 0 .. MaxTime

TypeOK ==
  /\ phase \in Phases /\ budget \in 0 .. Submissions /\ result \in Errors \cup {"Ok"}
  /\ clock \in Instants /\ now \in Instants
  /\ state \in States /\ config \in Configs /\ dirty \in BOOLEAN
  /\ due \in {NoDeadline} \cup Nat
  /\ pending \in Seq(Nat) /\ reply \in [ordinal : Nat, deadline : Nat]
  /\ lastRequest \in Nat /\ obs \in Seq(Nat) /\ dropped \in Nat
  /\ closed \in BOOLEAN /\ closeError \in BOOLEAN /\ closes \in Nat
  /\ generated \in Nat /\ lastSent \in Nat /\ stopMark \in Nat /\ unanswered \subseteq Nat
  /\ observed \in Nat /\ taken \in Nat
  /\ encoded \in {<< >>} \cup (States \X Configs)

\* Every report the queue accepted is submitted once, in order and without a gap; only a
\* host STOP or the end of the session takes reports away.  A retry resubmits the bytes of
\* the oldest queued report and never generates again.
InputDelivery ==
  /\ \A i \in 1 .. Len(pending) : pending[i] = generated - Len(pending) + i
  /\ ~closed => generated - Len(pending) = Larger(lastSent, stopMark)

\* Whatever blocks or fails, the report submitted next is newer than every report that may
\* have reached the transport: none is sent again, also when a submission's fate is unknown.
SubmittedInOrder ==
  [][(phase \in {"drain_old", "drain_new"} /\ budget' # budget)
        => Head(pending) > lastSent]_vars

\* A request that was consumed owns the reply slot until its reply is submitted, and a
\* new request is consumed only when the last one was answered.
RequestOwnership == ~closed => unanswered = IF reply = NoReply THEN {} ELSE {reply.ordinal}

\* An accepted edit of the state or of the protocol configuration stays scheduled until
\* the personality has encoded it, also across STOP and refused batches; and the state to
\* encode is one the configuration validates, whichever of the two was edited last.
NoLostEdit ==
  /\ ~dirty => encoded = <<state, config>>
  /\ state \in Accepts[config]

\* Observations are bounded, leave in order, and each is either handed over, still
\* buffered, or counted as dropped, the oldest first.
ObservationAccounting ==
  /\ Len(obs) <= InputQueue
  /\ taken + dropped + Len(obs) = observed
  /\ \A i \in 1 .. Len(obs) : obs[i] = observed - Len(obs) + i

\* The transport is closed exactly once, whether the owner, an error or Drop closes the
\* session, and a closed session keeps neither queued input nor a reply.
ClosedOnce ==
  /\ closes = IF closed THEN 1 ELSE 0
  /\ closed => pending = << >> /\ reply = NoReply

\* A required reply never blocks the session for ever: it is submitted, or its deadline
\* closes the session, whatever the transport does.
ReplyResolved == []<>(reply = NoReply)

\* An edit reaches the personality, however the host interleaves requests and STOPs, if
\* host and personality let input through at all.
EditEncoded == PeerFairness => []<>(~dirty \/ closed)
=============================================================================
