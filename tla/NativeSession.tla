---------------------------- MODULE NativeSession ----------------------------
(***************************************************************************)
(* A controller realised as kernel input devices: common::ControllerSession *)
(* on its native backend.  From the top down, with the state of each layer: *)
(*                                                                         *)
(*   ControllerRuntime     the edited state and whether it was presented   *)
(*   Feedback              force-feedback effects and the reply under way  *)
(*   ProviderSessionSink   closing and the memory of a fatal write         *)
(*   CompoundSession       the required components, closed as a group      *)
(*   uinput Session        one kernel device per component                 *)
(*                                                                         *)
(* The owner calls update, commit, drain and close, one at a time; host    *)
(* processes upload, erase and play effects on the first component at any  *)
(* moment and give up waiting for a completion after a while.              *)
(***************************************************************************)
EXTENDS Integers, Sequences, FiniteSets

CONSTANTS
  Size,        \* number of components
  States,      \* controller states
  Neutral,     \* the initial one
  None,        \* no state presented, no effect in a slot
  Effects,     \* effect ids within the table
  Strengths,   \* effect contents
  Retries,     \* RETRIES: refused completions before the session gives up
  EventLimit,  \* EVENTS: reverse events one drain may own
  Batch,       \* bound: reverse events one drain may yield (uinput yields one)
  MaxRequests, \* bound: host requests
  MaxPlays     \* bound: playback events

ASSUME NativeAssumption ==
  /\ Size \in Nat \ {0}
  /\ Neutral \in States /\ None \notin States \cup Strengths
  /\ Retries \in Nat /\ EventLimit \in Nat \ {0} /\ Batch \in Nat \ {0}
  /\ MaxRequests \in Nat /\ MaxPlays \in Nat

VARIABLES
  phase,       \* "opening", "ready", or "refused" when opening failed
  pc,          \* where a drain call stands: "idle", "flush", "drain", "loop", "complete"
  state, dirty, closed,          \* ControllerRuntime
  sinkClosed, fatal,             \* ProviderSessionSink
  effects, events, pending, retries, playback,   \* Feedback
  groupClosed, \* CompoundSession.closed
  device,      \* per component: "none", "open", "closed"
  begun,       \* requests the provider has begun and not completed
  \* The kernel and the host (external).
  shown,       \* per component: the state its device presents
  destroyed,   \* per component: how often its device was destroyed
  inbox,       \* events the first device has not yielded yet
  waiting,     \* requests a host process waits on
  hostEffects, \* effects the kernel has for the device
  \* History for the properties.
  requests, plays,   \* numbers of host requests and playbacks
  answered,    \* requests completed, in order
  reported     \* completions reported to the application, in order

runtimeVars == <<state, dirty, closed>>
sinkVars == <<sinkClosed, fatal>>
feedbackVars == <<effects, events, pending, retries, playback>>
deviceVars == <<groupClosed, device, destroyed, begun>>
hostVars == <<shown, inbox, waiting, hostEffects, requests, plays>>
historyVars == <<answered, reported>>
vars == <<phase, pc, runtimeVars, sinkVars, feedbackVars, deviceVars, hostVars, historyVars>>

Components == 1..Size
NoReply == [kind |-> "none"]
NoEffects == [e \in Effects |-> None]

(***************************************************************************)
(* Definitions named Faulty... are plausible defects of the definition     *)
(* that follows them.  They are used only to test that the properties can  *)
(* tell the defect from the code.                                          *)
(***************************************************************************)

-----------------------------------------------------------------------------
(* Opening and closing the components.                                     *)

\* The devices after the components in S are closed: a session destroys its
\* device on its first close only.
Destroy(S) ==
  LET live == {c \in S : device[c] = "open"}
  IN /\ device' = [c \in Components |-> IF c \in live THEN "closed" ELSE device[c]]
     /\ destroyed' = [c \in Components |-> IF c \in live THEN destroyed[c] + 1 ELSE destroyed[c]]
     /\ waiting' = IF 1 \in live THEN {} ELSE waiting
     /\ begun' = IF 1 \in live THEN {} ELSE begun

\* Components are opened in ascending order, once all passed their preflight.
OpenComponent ==
  /\ phase = "opening"
  /\ LET c == Cardinality({d \in Components : device[d] = "open"}) + 1
     IN /\ device' = [device EXCEPT ![c] = "open"]
        /\ phase' = IF c = Size THEN "ready" ELSE "opening"
  /\ UNCHANGED <<pc, runtimeVars, sinkVars, feedbackVars, groupClosed, destroyed, begun, hostVars, historyVars>>

\* close_components on the components opened so far.
Rollback == Destroy(Components)

\* A preflight or an open fails: what was opened is closed again.
OpenFailed ==
  /\ phase = "opening"
  /\ phase' = "refused"
  /\ Rollback
  /\ UNCHANGED <<pc, runtimeVars, sinkVars, feedbackVars, groupClosed, shown, inbox, hostEffects,
                 requests, plays, historyVars>>

\* CompoundSession::close: every component, once.
GroupClose ==
  /\ groupClosed' = TRUE
  /\ IF groupClosed THEN UNCHANGED <<device, destroyed, waiting, begun>> ELSE Destroy(Components)

\* ProviderSessionSink::close, which closes the session below it once.
SinkClose ==
  /\ sinkClosed' = TRUE
  /\ IF sinkClosed THEN UNCHANGED deviceVars /\ UNCHANGED waiting ELSE GroupClose

\* Feedback::clear keeps what was last played.
Clear ==
  /\ effects' = NoEffects /\ events' = <<>> /\ pending' = NoReply /\ retries' = 0
  /\ UNCHANGED playback

\* ControllerSession::close.
Close ==
  /\ phase = "ready" /\ pc = "idle"
  /\ Clear /\ SinkClose /\ closed' = TRUE
  /\ UNCHANGED <<phase, pc, state, dirty, fatal, shown, inbox, hostEffects, requests, plays, historyVars>>

-----------------------------------------------------------------------------
(* Edits and commits.                                                      *)

\* update_state and apply_digital, with an edit the driver accepts.
Update(s) ==
  /\ phase = "ready" /\ pc = "idle" /\ ~ closed
  /\ state' = s /\ dirty' = TRUE
  /\ UNCHANGED <<phase, pc, closed, sinkVars, feedbackVars, deviceVars, hostVars, historyVars>>

\* The frames reach the first n components.
Present(n) ==
  shown' = [c \in Components |-> IF c <= n /\ device[c] = "open" THEN state ELSE shown[c]]

CanCommit == phase = "ready" /\ pc = "idle" /\ ~ closed /\ dirty

\* Every component accepts its frame.
CommitDone ==
  /\ CanCommit /\ ~ groupClosed
  /\ Present(Size)
  /\ dirty' = FALSE /\ fatal' = FALSE
  /\ UNCHANGED <<phase, pc, state, closed, sinkClosed, feedbackVars, deviceVars, inbox, waiting,
                 hostEffects, requests, plays, historyVars>>

FaultyDirtyKept == dirty' = FALSE

\* The state still has to be presented after a failed commit.
DirtyKept == UNCHANGED dirty

\* A component would block: the earlier ones already show the new state.
CommitBlocked(n) ==
  /\ CanCommit /\ ~ groupClosed
  /\ Present(n)
  /\ DirtyKept /\ fatal' = FALSE
  /\ UNCHANGED <<phase, pc, state, closed, sinkClosed, feedbackVars, deviceVars, inbox, waiting,
                 hostEffects, requests, plays, historyVars>>

\* A component fails: the whole group is closed.
CommitFailed(n) ==
  /\ CanCommit /\ ~ groupClosed
  /\ Present(n)
  /\ GroupClose
  /\ DirtyKept /\ fatal' = TRUE
  /\ UNCHANGED <<phase, pc, state, closed, sinkClosed, feedbackVars, inbox, hostEffects, requests,
                 plays, historyVars>>

\* The group was closed by an earlier failure.
CommitRefused ==
  /\ CanCommit /\ groupClosed
  /\ DirtyKept /\ fatal' = TRUE
  /\ UNCHANGED <<phase, pc, state, closed, sinkClosed, feedbackVars, deviceVars, hostVars, historyVars>>

-----------------------------------------------------------------------------
(* Draining host output.                                                   *)

Drain ==
  /\ phase = "ready" /\ pc = "idle"
  /\ pc' = "flush"
  /\ UNCHANGED <<phase, runtimeVars, sinkVars, feedbackVars, deviceVars, hostVars, historyVars>>

\* Feedback::service ends with an error: everything is closed.
DrainFailed ==
  /\ pc' = "idle"
  /\ Clear /\ SinkClose /\ closed' = TRUE
  /\ UNCHANGED <<phase, state, dirty, fatal, shown, inbox, hostEffects, requests, plays, historyVars>>

Continued == IF pc = "flush" THEN "drain" ELSE "loop"
Flushing == pc \in {"flush", "complete"}

FlushNothing ==
  /\ Flushing /\ pending = NoReply
  /\ pc' = Continued
  /\ UNCHANGED <<phase, runtimeVars, sinkVars, feedbackVars, deviceVars, hostVars, historyVars>>

\* The table after a completed request.
Completed(table) ==
  CASE pending.status # 0 -> table
    [] pending.status = 0 /\ pending.kind = "upload" -> [table EXCEPT ![pending.effect] = pending.strength]
    [] pending.status = 0 /\ pending.kind = "erase" -> [table EXCEPT ![pending.effect] = None]

\* The kernel takes the completion of a request its host still waits on.
CanComplete == Flushing /\ pending # NoReply /\ ~ groupClosed /\ pending.request \in waiting

\* The kernel's side of a completion (external).
HostCompleted ==
  /\ waiting' = waiting \ {pending.request}
  /\ hostEffects' = IF pending.request \in waiting THEN Completed(hostEffects) ELSE hostEffects
  /\ answered' = Append(answered, pending.request)

\* The session's own table follows the completion it has sent.
Recorded == Completed(effects)

FlushSent ==
  /\ CanComplete
  /\ HostCompleted
  /\ begun' = begun \ {pending.request}
  /\ effects' = Recorded
  /\ pending' = NoReply /\ retries' = 0
  /\ reported' = Append(reported, pending.request)
  /\ pc' = Continued
  /\ UNCHANGED <<phase, runtimeVars, sinkVars, events, playback, groupClosed, device, destroyed,
                 shown, inbox, requests, plays>>

FaultyRetried == retries

\* Every refused completion counts against the budget.
Retried == retries + 1

MayRetry == retries < Retries

\* The provider would block: the drain call ends and a later one tries again.
FlushBlocked ==
  /\ Flushing /\ pending # NoReply /\ ~ groupClosed
  /\ MayRetry
  /\ retries' = Retried
  /\ pc' = "idle"
  /\ UNCHANGED <<phase, runtimeVars, sinkVars, effects, events, pending, playback, deviceVars,
                 hostVars, historyVars>>

\* The completion fails: an exhausted budget, a provider error (as for a host
\* that stopped waiting), or a group closed by a failed commit.
FlushFailed ==
  /\ Flushing /\ pending # NoReply
  /\ groupClosed \/ retries = Retries \/ pending.request \notin waiting
  /\ DrainFailed

FlushError ==
  /\ Flushing /\ pending # NoReply /\ ~ groupClosed
  /\ DrainFailed

\* What one drain of the device yields: the provider begins a request when its
\* event is read, which fails if no host waits for it any more.
Readable(n) == \A i \in 1..n : inbox[i].kind # "play" => inbox[i].request \in waiting

\* Events are drained only when none are left from an earlier call.
DrainSkipped ==
  /\ pc = "drain" /\ events # <<>>
  /\ pc' = "loop"
  /\ UNCHANGED <<phase, runtimeVars, sinkVars, feedbackVars, deviceVars, hostVars, historyVars>>

\* The sink keeps the order of the device.
Delivered(n) == SubSeq(inbox, 1, n)

Drained(n) ==
  /\ pc = "drain" /\ events = <<>> /\ ~ sinkClosed /\ ~ groupClosed
  /\ n > 0 \/ inbox = <<>>
  /\ n <= EventLimit /\ Readable(n)
  /\ events' = Delivered(n)
  /\ inbox' = SubSeq(inbox, n + 1, Len(inbox))
  /\ begun' = begun \cup {inbox[i].request : i \in {j \in 1..n : inbox[j].kind # "play"}}
  /\ pc' = "loop"
  /\ UNCHANGED <<phase, runtimeVars, sinkVars, effects, pending, retries, playback, groupClosed,
                 device, destroyed, shown, waiting, hostEffects, requests, plays, historyVars>>

\* More events than the bound, a request nobody waits for, or a read error of
\* either component.
DrainError(n) ==
  /\ pc = "drain" /\ events = <<>>
  /\ sinkClosed \/ groupClosed \/ n > EventLimit \/ ~ Readable(n) \/ n = 0
  /\ DrainFailed

UploadStatus(event) == IF event.supported THEN 0 ELSE -95

\* An erase needs an effect in the table.
EraseStatus(event) == IF effects[event.effect] = None THEN -22 ELSE 0

NextEvent == Head(events)

LoopRequest ==
  /\ pc = "loop" /\ events # <<>> /\ NextEvent.kind # "play"
  /\ LET event == NextEvent
     IN pending' = [kind |-> event.kind, request |-> event.request, effect |-> event.effect,
                    strength |-> event.strength,
                    status |-> IF event.kind = "upload" THEN UploadStatus(event) ELSE EraseStatus(event)]
  /\ events' = Tail(events)
  /\ pc' = "complete"
  /\ UNCHANGED <<phase, runtimeVars, sinkVars, effects, retries, playback, deviceVars, hostVars, historyVars>>

\* The retained playback and its revision.
Played(level) ==
  IF playback.latest = level THEN playback
  ELSE [revision |-> playback.revision + 1, latest |-> level]

\* A playback event of a known effect: a count of zero stops the motors.
LoopPlay ==
  /\ pc = "loop" /\ events # <<>> /\ NextEvent.kind = "play"
  /\ LET event == NextEvent
         known == effects[event.effect] # None
     IN playback' = IF known THEN Played(IF event.on THEN effects[event.effect] ELSE "stopped") ELSE playback
  /\ events' = Tail(events)
  /\ pc' = "complete"
  /\ UNCHANGED <<phase, runtimeVars, sinkVars, effects, pending, retries, deviceVars, hostVars, historyVars>>

LoopDone ==
  /\ pc = "loop" /\ events = <<>>
  /\ pc' = "idle"
  /\ UNCHANGED <<phase, runtimeVars, sinkVars, feedbackVars, deviceVars, hostVars, historyVars>>

-----------------------------------------------------------------------------
(* The host (external).                                                    *)

Event(kind, e, s, supported) ==
  [kind |-> kind, request |-> requests + 1, effect |-> e, strength |-> s, supported |-> supported]

\* A host process uploads or erases an effect and waits for the completion.
HostRequest(kind, e, s, supported) ==
  /\ phase = "ready" /\ device[1] = "open" /\ requests < MaxRequests
  /\ requests' = requests + 1
  /\ waiting' = waiting \cup {requests + 1}
  /\ inbox' = Append(inbox, Event(kind, e, s, supported))
  /\ UNCHANGED <<phase, pc, runtimeVars, sinkVars, feedbackVars, deviceVars, shown, hostEffects,
                 plays, historyVars>>

HostPlay(e, on) ==
  /\ phase = "ready" /\ device[1] = "open" /\ plays < MaxPlays
  /\ plays' = plays + 1
  /\ inbox' = Append(inbox, [kind |-> "play", effect |-> e, on |-> on])
  /\ UNCHANGED <<phase, pc, runtimeVars, sinkVars, feedbackVars, deviceVars, shown, waiting,
                 hostEffects, requests, historyVars>>

\* The kernel stops waiting for a completion.
HostTimeout(r) ==
  /\ r \in waiting
  /\ waiting' = waiting \ {r}
  /\ UNCHANGED <<phase, pc, runtimeVars, sinkVars, feedbackVars, deviceVars, shown, inbox,
                 hostEffects, requests, plays, historyVars>>

-----------------------------------------------------------------------------

Init ==
  /\ phase = "opening" /\ pc = "idle"
  /\ state = Neutral /\ dirty = TRUE /\ closed = FALSE
  /\ sinkClosed = FALSE /\ fatal = FALSE
  /\ effects = NoEffects /\ events = <<>> /\ pending = NoReply /\ retries = 0
  /\ playback = [revision |-> 0, latest |-> None]
  /\ groupClosed = FALSE /\ begun = {}
  /\ device = [c \in Components |-> "none"] /\ destroyed = [c \in Components |-> 0]
  /\ shown = [c \in Components |-> None]
  /\ inbox = <<>> /\ waiting = {} /\ hostEffects = NoEffects /\ requests = 0 /\ plays = 0
  /\ answered = <<>> /\ reported = <<>>

Owner ==
  \/ OpenComponent \/ OpenFailed \/ Close
  \/ \E s \in States : Update(s)
  \/ CommitDone \/ CommitRefused
  \/ \E n \in 0..(Size - 1) : CommitBlocked(n) \/ CommitFailed(n)

DrainSteps ==
  \/ FlushNothing \/ FlushSent \/ FlushBlocked \/ FlushFailed \/ FlushError
  \/ DrainSkipped
  \/ \E n \in 0..(IF Len(inbox) < Batch THEN Len(inbox) ELSE Batch) : Drained(n) \/ DrainError(n)
  \/ LoopRequest \/ LoopPlay \/ LoopDone

Host ==
  \/ \E e \in Effects, s \in Strengths, supported \in BOOLEAN : HostRequest("upload", e, s, supported)
  \/ \E e \in Effects : HostRequest("erase", e, None, TRUE)
  \/ \E e \in Effects, on \in BOOLEAN : HostPlay(e, on)
  \/ \E r \in waiting : HostTimeout(r)

Next == Owner \/ Drain \/ DrainSteps \/ Host

Spec == Init /\ [][Next]_vars

\* The owner keeps draining, as wants_write and next_service_in tell it to, and
\* a call that has begun is carried through.  Nothing is assumed of commits, of
\* the host, or of how often the provider would block.
FairSpec ==
  /\ Spec
  /\ WF_vars(Drain) /\ WF_vars(DrainSteps)

-----------------------------------------------------------------------------
(* Properties.                                                             *)

Statuses == {0, -22, -95}

\* Types and the bounds of the retry budget and of the event queue.
TypeOK ==
  /\ phase \in {"opening", "ready", "refused"} /\ pc \in {"idle", "flush", "drain", "loop", "complete"}
  /\ state \in States /\ dirty \in BOOLEAN /\ closed \in BOOLEAN
  /\ effects \in [Effects -> Strengths \cup {None}]
  /\ retries \in 0..Retries /\ Len(events) <= EventLimit
  /\ pending = NoReply \/ pending.status \in Statuses
  /\ device \in [Components -> {"none", "open", "closed"}]
  /\ waiting \subseteq 1..MaxRequests /\ begun \subseteq 1..MaxRequests

\* Once a commit has succeeded every component presents the edited state: a
\* commit that stopped between two components is never taken for done.
CommittedShown ==
  ~ dirty /\ ~ groupClosed => \A c \in Components : shown[c] = state

\* The components live and die together: a session that could not open them all
\* leaves none open, and no failure closes some and leaves others.  Close after
\* a failed commit, a failed drain, an explicit close and Drop destroys each
\* device once, and a closed session is never left open below.
GroupWhole ==
  /\ phase = "refused" => \A c \in Components : device[c] # "open"
  /\ phase = "ready" => \A c, d \in Components : device[c] = device[d]
  /\ \A c \in Components : destroyed[c] = (IF device[c] = "closed" THEN 1 ELSE 0)
  /\ closed => \A c \in Components : device[c] = "closed"

\* The session's effect table is the kernel's for as long as the device lives:
\* an effect is recorded, replaced or dropped exactly when the host is told so.
\* Requests are completed in the order they came, none twice, and each
\* completion is reported to the application once.
EffectsAgree ==
  /\ ~ groupClosed => effects = hostEffects
  /\ reported = answered
  /\ \A i, j \in 1..Len(answered) : i < j => answered[i] < answered[j]

\* A host that uploads or erases an effect is answered, or the device goes away
\* under it: a completion the provider keeps refusing ends the session.
HostAnswered ==
  \A r \in 1..MaxRequests : []<>(r \notin waiting)

\* A successful commit is shown by every component, the components live and die together,
\* and host and session agree on the effects: see the three parts.
SessionTruthful == CommittedShown /\ GroupWhole /\ EffectsAgree
=============================================================================
