------------------------- MODULE NativeSessionProofs -------------------------
(***************************************************************************)
(* Safety of a native controller session for every number of components,   *)
(* set of states and effects, retry budget and number of host requests.    *)
(***************************************************************************)
EXTENDS NativeSession, FiniteSetTheorems, SequenceTheorems, TLAPS

HostEvent ==
  [kind : {"upload"}, request : Nat, effect : Effects, strength : Strengths, supported : BOOLEAN]
    \cup [kind : {"erase"}, request : Nat, effect : Effects, strength : {None}, supported : BOOLEAN]
    \cup [kind : {"play"}, effect : Effects, on : BOOLEAN]

Reply ==
  [kind : {"upload"}, request : Nat, effect : Effects, strength : Strengths, status : Statuses]
    \cup [kind : {"erase"}, request : Nat, effect : Effects, strength : {None}, status : Statuses]

Table == [Effects -> Strengths \cup {None}]
Asks(event) == event.kind # "play"

\* Types of the call under way, of its layers and of the devices.
LayerTypes ==
  /\ phase \in {"opening", "ready", "refused"} /\ pc \in {"idle", "flush", "drain", "loop", "complete"}
  /\ state \in States /\ dirty \in BOOLEAN /\ closed \in BOOLEAN
  /\ sinkClosed \in BOOLEAN /\ groupClosed \in BOOLEAN
  /\ device \in [Components -> {"none", "open", "closed"}]
  /\ destroyed \in [Components -> Nat]
  /\ shown \in [Components -> States \cup {None}]

\* Types of the effects, of requests and their completions.
FeedbackTypes ==
  /\ effects \in Table /\ hostEffects \in Table
  /\ retries \in 0..Retries
  /\ events \in Seq(HostEvent) /\ Len(events) <= EventLimit
  /\ inbox \in Seq(HostEvent)
  /\ pending \in Reply \cup {NoReply}
  /\ requests \in 0..MaxRequests
  /\ answered \in Seq(Nat) /\ reported = answered

\* Requests are numbered within the bound.
Numbered ==
  /\ \A k \in DOMAIN inbox : Asks(inbox[k]) => inbox[k].request \in 1..requests
  /\ \A k \in DOMAIN events : Asks(events[k]) => events[k].request \in 1..requests
  /\ pending # NoReply => pending.request \in 1..requests
  /\ \A k \in DOMAIN answered : answered[k] \in 1..requests
  /\ waiting \subseteq 1..requests /\ begun \subseteq 1..requests

\* Requests are handled in the order they came: those answered, the one whose reply is under way, those drained
\* and those the device has not yielded.
InboxInTurn ==
  \A j, k \in DOMAIN inbox :
    j < k /\ Asks(inbox[j]) /\ Asks(inbox[k]) => inbox[j].request < inbox[k].request
EventsInTurn ==
  \A j, k \in DOMAIN events :
    j < k /\ Asks(events[j]) /\ Asks(events[k]) => events[j].request < events[k].request
EventsBeforeInbox ==
  \A j \in DOMAIN events, k \in DOMAIN inbox :
    Asks(events[j]) /\ Asks(inbox[k]) => events[j].request < inbox[k].request
PendingFirst ==
  pending # NoReply =>
    /\ \A k \in DOMAIN events : Asks(events[k]) => pending.request < events[k].request
    /\ \A k \in DOMAIN inbox : Asks(inbox[k]) => pending.request < inbox[k].request
AnsweredFirst ==
  \A i \in DOMAIN answered :
    /\ pending # NoReply => answered[i] < pending.request
    /\ \A k \in DOMAIN events : Asks(events[k]) => answered[i] < events[k].request
    /\ \A k \in DOMAIN inbox : Asks(inbox[k]) => answered[i] < inbox[k].request
AnsweredInTurn == \A i, j \in DOMAIN answered : i < j => answered[i] < answered[j]

InTurn ==
  InboxInTurn /\ EventsInTurn /\ EventsBeforeInbox /\ PendingFirst /\ AnsweredFirst /\ AnsweredInTurn

\* Session and kernel have the same effects while the device lives.
Agreed == ~ groupClosed => effects = hostEffects

-----------------------------------------------------------------------------
(* The components.                                                         *)

\* The devices open in order; then they are open or closed as one, as the group says; a session closed at any
\* layer is closed below, and a call runs on an open session only.
Grouped ==
  /\ phase = "opening" =>
       \E k \in 0..(Size - 1) : device = [c \in Components |-> IF c <= k THEN "open" ELSE "none"]
  /\ phase = "refused" => \A c \in Components : device[c] # "open"
  /\ phase = "ready" => \A c \in Components : device[c] = (IF groupClosed THEN "closed" ELSE "open")
  /\ phase # "ready" => ~ groupClosed /\ pc = "idle" /\ dirty
  /\ sinkClosed \/ closed => groupClosed
  /\ \A c \in Components : destroyed[c] = (IF device[c] = "closed" THEN 1 ELSE 0)

\* Components are a range that is not empty.
LEMMA SizeIs == Size \in Nat /\ Size >= 1 /\ 1 \in Components /\ Components = 1..Size
BY NativeAssumption DEF Components

\* The types survive any destruction of devices.
LEMMA DestroyTypes ==
  ASSUME LayerTypes, NEW S \in SUBSET Components, Destroy(S)
  PROVE  /\ device' \in [Components -> {"none", "open", "closed"}] /\ destroyed' \in [Components -> Nat]
         /\ waiting' \subseteq waiting /\ begun' \subseteq begun
<1> DEFINE live == {c \in S : device[c] = "open"}
<1>1. /\ device' = [c \in Components |-> IF c \in live THEN "closed" ELSE device[c]]
      /\ destroyed' = [c \in Components |-> IF c \in live THEN destroyed[c] + 1 ELSE destroyed[c]]
      /\ waiting' = (IF 1 \in live THEN {} ELSE waiting) /\ begun' = (IF 1 \in live THEN {} ELSE begun)
  BY DEF Destroy
<1> HIDE DEF live
<1>2. QED
  BY <1>1 DEF LayerTypes

\* Destroying all devices closes the open ones and counts it.
LEMMA DestroyAll ==
  ASSUME LayerTypes, Destroy(Components)
  PROVE  \A c \in Components :
           /\ device'[c] = (IF device[c] = "open" THEN "closed" ELSE device[c])
           /\ destroyed'[c] = (IF device[c] = "open" THEN destroyed[c] + 1 ELSE destroyed[c])
BY DEF Destroy, LayerTypes

\* Closing the group of an opened session closes all of it, whatever was closed before.
LEMMA GroupCloses ==
  ASSUME LayerTypes, Grouped, phase = "ready", GroupClose
  PROVE  /\ groupClosed' = TRUE
         /\ device' \in [Components -> {"none", "open", "closed"}] /\ destroyed' \in [Components -> Nat]
         /\ waiting' \subseteq waiting /\ begun' \subseteq begun
         /\ \A c \in Components : device'[c] = "closed" /\ destroyed'[c] = 1
<1>1. CASE groupClosed
  BY <1>1 DEF GroupClose, LayerTypes, Grouped
<1>2. CASE ~ groupClosed
  <2>1. Destroy(Components) /\ groupClosed' = TRUE
    BY <1>2 DEF GroupClose, Rollback
  <2>2. \A c \in Components : device[c] = "open" /\ destroyed[c] = 0
    BY <1>2 DEF Grouped
  <2>3. QED
    BY <2>1, <2>2, DestroyTypes, DestroyAll
<1>3. QED
  BY <1>1, <1>2 DEF LayerTypes

\* The same of the sink, which has forgotten a session it closed.
LEMMA SinkCloses ==
  ASSUME LayerTypes, Grouped, phase = "ready", SinkClose
  PROVE  /\ groupClosed' = TRUE /\ sinkClosed' = TRUE
         /\ device' \in [Components -> {"none", "open", "closed"}] /\ destroyed' \in [Components -> Nat]
         /\ waiting' \subseteq waiting /\ begun' \subseteq begun
         /\ \A c \in Components : device'[c] = "closed" /\ destroyed'[c] = 1
<1>1. CASE sinkClosed
  BY <1>1 DEF SinkClose, deviceVars, LayerTypes, Grouped
<1>2. CASE ~ sinkClosed
  BY <1>2, GroupCloses DEF SinkClose
<1>3. QED
  BY <1>1, <1>2 DEF LayerTypes

-----------------------------------------------------------------------------
(* The kinds of steps, for the layers and for the feedback.                *)

\* No layer is closed or opened, and a call is under way on an opened session only.
LayersStay ==
  /\ UNCHANGED <<phase, closed, sinkClosed, groupClosed, device, destroyed, state, dirty, shown>>
  /\ pc' \in {"idle", "flush", "drain", "loop", "complete"}
  /\ phase = "ready" \/ pc' = pc

\* The session is closed from the top.
ClosesAll ==
  /\ phase = "ready" /\ SinkClose /\ closed' = TRUE /\ pc' = "idle"
  /\ UNCHANGED <<phase, state, dirty, shown>>

\* What steps do to the layers.
LayerCases ==
  \/ LayersStay \/ ClosesAll \/ OpenComponent \/ OpenFailed
  \/ \E s \in States : Update(s)
  \/ CommitDone
  \/ \E n \in 0..(Size - 1) : CommitBlocked(n) \/ CommitFailed(n)

\* What steps do to requests, completions and effects.
FeedbackStays ==
  /\ UNCHANGED <<effects, hostEffects, events, inbox, pending, requests, answered, reported>>
  /\ retries' \in 0..Retries
  /\ waiting' \subseteq waiting /\ begun' \subseteq begun

FeedbackClears ==
  /\ Clear /\ groupClosed'
  /\ UNCHANGED <<hostEffects, inbox, requests, answered, reported>>
  /\ waiting' \subseteq waiting /\ begun' \subseteq begun

Requested ==
  \/ \E e \in Effects, s \in Strengths, supported \in BOOLEAN : HostRequest("upload", e, s, supported)
  \/ \E e \in Effects : HostRequest("erase", e, None, TRUE)

FeedbackCases ==
  \/ FeedbackStays \/ FeedbackClears \/ FlushSent
  \/ \E n \in 0..Len(inbox) : Drained(n)
  \/ LoopRequest \/ LoopPlay \/ Requested
  \/ \E e \in Effects, on \in BOOLEAN : HostPlay(e, on)

Cases == LayerCases /\ FeedbackCases

\* Whatever ends in an error or a close clears the feedback and closes every layer.
LEMMA ClosingCases ==
  ASSUME LayerTypes, Grouped, phase = "ready", Close \/ DrainFailed, phase' = phase
  PROVE  Cases
<1>1. /\ SinkClose /\ Clear /\ closed' = TRUE /\ pc' = "idle"
      /\ UNCHANGED <<phase, state, dirty, shown, inbox, hostEffects, requests, answered, reported>>
  BY DEF Close, DrainFailed, historyVars
<1>2. groupClosed' /\ waiting' \subseteq waiting /\ begun' \subseteq begun
  BY <1>1, SinkCloses
<1>3. QED
  BY <1>1, <1>2 DEF Cases, LayerCases, FeedbackCases, ClosesAll, FeedbackClears

\* Every step is of one kind for the layers and of one kind for the feedback.
LEMMA StepCases ==
  ASSUME LayerTypes, FeedbackTypes, Grouped, [Next]_vars
  PROVE  Cases
<1>0. /\ phase # "ready" => pc = "idle"
      /\ retries \in 0..Retries /\ Retries \in Nat /\ 0 \in 0..Retries /\ Len(inbox) \in Nat
  BY NativeAssumption, LenProperties DEF Grouped, FeedbackTypes
<1>1. CASE UNCHANGED vars
  BY <1>0, <1>1 DEF vars, runtimeVars, sinkVars, feedbackVars, deviceVars, hostVars, historyVars, LayerTypes,
       Cases, LayerCases, FeedbackCases, LayersStay, FeedbackStays
<1>2. CASE OpenComponent
  BY <1>0, <1>2 DEF OpenComponent, runtimeVars, sinkVars, feedbackVars, hostVars, historyVars,
       Cases, LayerCases, FeedbackCases, FeedbackStays
<1>3. CASE OpenFailed
  <2>1. waiting' \subseteq waiting /\ begun' \subseteq begun
    BY <1>3, DestroyTypes DEF OpenFailed, Rollback
  <2>2. FeedbackStays
    BY <1>0, <1>3, <2>1 DEF OpenFailed, feedbackVars, historyVars, FeedbackStays
  <2>3. QED
    BY <1>3, <2>2 DEF Cases, LayerCases, FeedbackCases
<1>4. CASE Close
  BY <1>4, ClosingCases DEF Close
<1>5. ASSUME NEW s \in States, Update(s) PROVE Cases
  BY <1>0, <1>5 DEF Update, sinkVars, feedbackVars, deviceVars, hostVars, historyVars,
       Cases, LayerCases, FeedbackCases, FeedbackStays
<1>6. CASE CommitDone
  BY <1>0, <1>6 DEF CommitDone, feedbackVars, deviceVars, historyVars, Cases, LayerCases, FeedbackCases, FeedbackStays
<1>7. CASE CommitRefused
  BY <1>0, <1>7 DEF CommitRefused, DirtyKept, CanCommit, feedbackVars, deviceVars, hostVars, historyVars, LayerTypes,
       Cases, LayerCases, FeedbackCases, LayersStay, FeedbackStays
<1>8. ASSUME NEW n \in 0..(Size - 1), CommitBlocked(n) PROVE Cases
  BY <1>0, <1>8 DEF CommitBlocked, feedbackVars, deviceVars, historyVars, Cases, LayerCases, FeedbackCases, FeedbackStays
<1>9. ASSUME NEW n \in 0..(Size - 1), CommitFailed(n) PROVE Cases
  <2>1. waiting' \subseteq waiting /\ begun' \subseteq begun
    BY <1>9, GroupCloses DEF CommitFailed, CanCommit
  <2>2. FeedbackStays
    BY <1>0, <1>9, <2>1 DEF CommitFailed, feedbackVars, historyVars, FeedbackStays
  <2>3. QED
    BY <1>9, <2>2 DEF Cases, LayerCases, FeedbackCases
<1>10. CASE Drain \/ FlushNothing \/ DrainSkipped \/ LoopDone
  BY <1>0, <1>10 DEF Drain, FlushNothing, DrainSkipped, LoopDone, Flushing, Continued, runtimeVars, sinkVars,
       feedbackVars, deviceVars, hostVars, historyVars, Cases, LayerCases, FeedbackCases, LayersStay, FeedbackStays
<1>11. CASE FlushSent
  BY <1>0, <1>11 DEF FlushSent, CanComplete, Flushing, Continued, runtimeVars, sinkVars, Cases, LayerCases,
       FeedbackCases, LayersStay
<1>12. CASE FlushBlocked
  BY <1>0, <1>12 DEF FlushBlocked, MayRetry, Retried, Flushing, runtimeVars, sinkVars, deviceVars, hostVars,
       historyVars, Cases, LayerCases, FeedbackCases, LayersStay, FeedbackStays
<1>13. CASE FlushFailed \/ FlushError
  <2>1. phase = "ready" /\ DrainFailed /\ phase' = phase
    BY <1>0, <1>13 DEF FlushFailed, FlushError, Flushing, DrainFailed, LayerTypes
  <2>2. QED
    BY <2>1, ClosingCases
<1>14. ASSUME NEW n \in 0..(IF Len(inbox) < Batch THEN Len(inbox) ELSE Batch), Drained(n) PROVE Cases
  <2>1. n \in 0..Len(inbox)
    BY <1>0, <1>14, NativeAssumption
  <2>2. QED
    BY <1>0, <1>14, <2>1 DEF Drained, runtimeVars, sinkVars, Cases, LayerCases, FeedbackCases, LayersStay
<1>15. ASSUME NEW n \in 0..(IF Len(inbox) < Batch THEN Len(inbox) ELSE Batch), DrainError(n) PROVE Cases
  <2>1. phase = "ready" /\ DrainFailed /\ phase' = phase
    BY <1>0, <1>15 DEF DrainError, DrainFailed
  <2>2. QED
    BY <2>1, ClosingCases
<1>16. CASE LoopRequest
  BY <1>0, <1>16 DEF LoopRequest, runtimeVars, sinkVars, deviceVars, hostVars, Cases, LayerCases, FeedbackCases,
       LayersStay
<1>17. CASE LoopPlay
  BY <1>0, <1>17 DEF LoopPlay, runtimeVars, sinkVars, deviceVars, hostVars, Cases, LayerCases, FeedbackCases,
       LayersStay
<1>18. CASE Requested
  BY <1>0, <1>18 DEF Requested, HostRequest, runtimeVars, sinkVars, deviceVars, LayerTypes, Cases, LayerCases,
       FeedbackCases, LayersStay
<1>19. ASSUME NEW e \in Effects, NEW on \in BOOLEAN, HostPlay(e, on) PROVE Cases
  BY <1>0, <1>19 DEF HostPlay, runtimeVars, sinkVars, deviceVars, LayerTypes, Cases, LayerCases, FeedbackCases,
       LayersStay
<1>20. ASSUME NEW r \in waiting, HostTimeout(r) PROVE Cases
  BY <1>0, <1>20 DEF HostTimeout, runtimeVars, sinkVars, feedbackVars, deviceVars, historyVars, LayerTypes, Cases,
       LayerCases, FeedbackCases, LayersStay, FeedbackStays
<1>21. QED
  BY <1>1, <1>2, <1>3, <1>4, <1>5, <1>6, <1>7, <1>8, <1>9, <1>10, <1>11, <1>12, <1>13, <1>14, <1>15, <1>16,
     <1>17, <1>18, <1>19, <1>20 DEF Next, Owner, DrainSteps, Host, Requested

-----------------------------------------------------------------------------
(* The layers.                                                             *)

\* The component that is opened next, and what is open after it.
LEMMA OpensNext ==
  ASSUME LayerTypes, Grouped, OpenComponent
  PROVE  /\ device' \in [Components -> {"none", "open", "closed"}]
         /\ phase' = "ready" => \A c \in Components : device'[c] = "open"
         /\ phase' = "opening" =>
              \E k \in 0..(Size - 1) : device' = [c \in Components |-> IF c <= k THEN "open" ELSE "none"]
         /\ phase' \in {"opening", "ready"} /\ \A c \in Components : device'[c] # "closed" /\ device[c] # "closed"
<1>1. PICK k \in 0..(Size - 1) : device = [c \in Components |-> IF c <= k THEN "open" ELSE "none"]
  BY DEF OpenComponent, Grouped
<1>2. k \in Nat /\ k < Size /\ Size \in Nat /\ k + 1 \in Components
  BY <1>1, SizeIs
<1>3. {d \in Components : device[d] = "open"} = 1..k
  BY <1>1, <1>2, SizeIs
<1>4. Cardinality({d \in Components : device[d] = "open"}) = k
  <2>1. Cardinality(1..k) = k
    BY <1>2, FS_Interval
  <2>2. QED
    BY <1>3, <2>1
<1>5. device' = [device EXCEPT ![k + 1] = "open"] /\ phase' = (IF k + 1 = Size THEN "ready" ELSE "opening")
  BY <1>4 DEF OpenComponent
<1>6. device' = [c \in Components |-> IF c <= k + 1 THEN "open" ELSE "none"]
  BY <1>1, <1>2, <1>5, SizeIs
<1>7. phase' = "ready" => \A c \in Components : device'[c] = "open"
  BY <1>2, <1>5, <1>6, SizeIs
<1>8. phase' = "opening" => k + 1 \in 0..(Size - 1)
  BY <1>2, <1>5
<1>9. QED
  BY <1>1, <1>5, <1>6, <1>7, <1>8

\* Types of the layers are kept.
LEMMA LayerTypesStep ==
  ASSUME LayerTypes, Grouped, LayerCases
  PROVE  LayerTypes'
<1>1. CASE LayersStay
  BY <1>1 DEF LayersStay, LayerTypes
<1>2. CASE ClosesAll
  BY <1>2, SinkCloses DEF ClosesAll, LayerTypes
<1>3. CASE OpenComponent
  BY <1>3, OpensNext DEF OpenComponent, runtimeVars, sinkVars, hostVars, LayerTypes
<1>4. CASE OpenFailed
  <2>1. device' \in [Components -> {"none", "open", "closed"}] /\ destroyed' \in [Components -> Nat]
    BY <1>4, DestroyTypes DEF OpenFailed, Rollback
  <2>2. QED
    BY <1>4, <2>1 DEF OpenFailed, runtimeVars, sinkVars, LayerTypes
<1>5. ASSUME NEW s \in States, Update(s) PROVE LayerTypes'
  BY <1>5 DEF Update, sinkVars, deviceVars, hostVars, LayerTypes
<1>6. ASSUME NEW n, Present(n) PROVE shown' \in [Components -> States \cup {None}]
  BY <1>6 DEF Present, LayerTypes
<1>7. CASE CommitDone
  BY <1>6, <1>7 DEF CommitDone, deviceVars, LayerTypes
<1>8. ASSUME NEW n \in 0..(Size - 1), CommitBlocked(n) PROVE LayerTypes'
  BY <1>6, <1>8 DEF CommitBlocked, DirtyKept, deviceVars, LayerTypes
<1>9. ASSUME NEW n \in 0..(Size - 1), CommitFailed(n) PROVE LayerTypes'
  <2>1. device' \in [Components -> {"none", "open", "closed"}] /\ destroyed' \in [Components -> Nat]
        /\ groupClosed' = TRUE
    BY <1>9, GroupCloses DEF CommitFailed, CanCommit
  <2>2. QED
    BY <1>6, <1>9, <2>1 DEF CommitFailed, DirtyKept, LayerTypes
<1>10. QED
  BY <1>1, <1>2, <1>3, <1>4, <1>5, <1>7, <1>8, <1>9 DEF LayerCases

\* The components stay a group.
LEMMA GroupedStep ==
  ASSUME LayerTypes, Grouped, LayerCases
  PROVE  Grouped'
<1>1. CASE LayersStay
  BY <1>1 DEF LayersStay, Grouped
<1>2. CASE ClosesAll
  BY <1>2, SinkCloses DEF ClosesAll, Grouped
<1>3. CASE OpenComponent
  <2>1. /\ \A c \in Components : device'[c] # "closed" /\ device[c] # "closed"
        /\ UNCHANGED <<pc, dirty, closed, sinkClosed, groupClosed, destroyed>>
        /\ phase = "opening" /\ phase' \in {"opening", "ready"}
    BY <1>3, OpensNext DEF OpenComponent, runtimeVars, sinkVars
  <2>2. \A c \in Components : destroyed'[c] = (IF device'[c] = "closed" THEN 1 ELSE 0)
    BY <2>1 DEF Grouped
  <2>3. QED
    BY <1>3, <2>1, <2>2, OpensNext DEF Grouped
<1>4. CASE OpenFailed
  <2>1. /\ UNCHANGED <<pc, dirty, closed, sinkClosed, groupClosed>> /\ phase = "opening" /\ phase' = "refused"
        /\ Destroy(Components)
    BY <1>4 DEF OpenFailed, Rollback, runtimeVars, sinkVars
  <2>2. \A c \in Components : device'[c] # "open" /\ destroyed'[c] = (IF device'[c] = "closed" THEN 1 ELSE 0)
    BY <2>1, DestroyAll DEF Grouped, LayerTypes
  <2>3. QED
    BY <2>1, <2>2 DEF Grouped
<1>5. ASSUME NEW s \in States, Update(s) PROVE Grouped'
  BY <1>5 DEF Update, sinkVars, deviceVars, Grouped
<1>6. CASE CommitDone
  BY <1>6 DEF CommitDone, CanCommit, deviceVars, Grouped
<1>7. ASSUME NEW n \in 0..(Size - 1), CommitBlocked(n) PROVE Grouped'
  BY <1>7 DEF CommitBlocked, CanCommit, DirtyKept, deviceVars, Grouped
<1>8. ASSUME NEW n \in 0..(Size - 1), CommitFailed(n) PROVE Grouped'
  <2>1. /\ phase = "ready" /\ GroupClose /\ UNCHANGED <<phase, pc, closed, sinkClosed>>
    BY <1>8 DEF CommitFailed, CanCommit
  <2>2. QED
    BY <2>1, GroupCloses DEF Grouped
<1>9. QED
  BY <1>1, <1>2, <1>3, <1>4, <1>5, <1>6, <1>7, <1>8 DEF LayerCases

\* A commit that succeeds presents the state on every component, and nothing else takes it for presented.
LEMMA CommittedStep ==
  ASSUME LayerTypes, Grouped, CommittedShown, LayerCases
  PROVE  CommittedShown'
<1>1. CASE LayersStay
  BY <1>1 DEF LayersStay, CommittedShown
<1>2. CASE ClosesAll
  BY <1>2, SinkCloses DEF ClosesAll, CommittedShown
<1>3. CASE OpenComponent \/ OpenFailed
  BY <1>3 DEF OpenComponent, OpenFailed, runtimeVars, Grouped, CommittedShown
<1>4. ASSUME NEW s \in States, Update(s) PROVE CommittedShown'
  BY <1>4 DEF Update, CommittedShown
<1>5. CASE CommitDone
  <2>1. \A c \in Components : device[c] = "open" /\ c <= Size
    BY <1>5, SizeIs DEF CommitDone, CanCommit, Grouped
  <2>2. \A c \in Components : shown'[c] = state
    BY <1>5, <2>1 DEF CommitDone, Present
  <2>3. QED
    BY <1>5, <2>2 DEF CommitDone, CommittedShown
<1>6. ASSUME NEW n \in 0..(Size - 1), CommitBlocked(n) \/ CommitFailed(n) PROVE CommittedShown'
  BY <1>6 DEF CommitBlocked, CommitFailed, CanCommit, DirtyKept, CommittedShown
<1>7. QED
  BY <1>1, <1>2, <1>3, <1>4, <1>5, <1>6 DEF LayerCases

\* A closed group stays closed.
LEMMA GroupStaysClosed ==
  ASSUME LayerTypes, Grouped, LayerCases, groupClosed
  PROVE  groupClosed'
<1>1. CASE ClosesAll
  BY <1>1, SinkCloses DEF ClosesAll
<1>2. ASSUME NEW n \in 0..(Size - 1), CommitFailed(n) PROVE groupClosed'
  BY <1>2 DEF CommitFailed
<1>3. QED
  BY <1>1, <1>2 DEF LayerCases, LayersStay, OpenComponent, OpenFailed, Update, CommitDone, CommitBlocked, deviceVars

-----------------------------------------------------------------------------
(* The feedback.                                                           *)

\* Fields of an event.
LEMMA EventFields ==
  ASSUME NEW e \in HostEvent
  PROVE  /\ e.kind \in {"upload", "erase", "play"} /\ e.effect \in Effects
         /\ Asks(e) => e.request \in Nat
         /\ e.kind = "upload" => e.strength \in Strengths
         /\ e.kind = "erase" => e.strength = None
BY DEF HostEvent, Asks

\* Fields of a reply.
LEMMA ReplyFields ==
  ASSUME NEW r \in Reply
  PROVE  /\ r.kind \in {"upload", "erase"} /\ r.effect \in Effects /\ r.request \in Nat /\ r.status \in Statuses
         /\ r.kind = "upload" => r.strength \in Strengths
         /\ r # NoReply
BY DEF Reply, NoReply

\* A completed request leaves a table.
LEMMA CompletedTable ==
  ASSUME pending \in Reply, NEW t \in Table
  PROVE  Completed(t) \in Table
<1>1. /\ pending.kind \in {"upload", "erase"} /\ pending.effect \in Effects
      /\ pending.kind = "upload" => pending.strength \in Strengths
  BY ReplyFields
<1>2. CASE pending.status # 0
  BY <1>2 DEF Completed
<1>3. CASE pending.status = 0 /\ pending.kind = "upload"
  <2>1. Completed(t) = [t EXCEPT ![pending.effect] = pending.strength]
    BY <1>3 DEF Completed
  <2>2. QED
    BY <1>1, <1>3, <2>1 DEF Table
<1>4. CASE pending.status = 0 /\ pending.kind = "erase"
  <2>1. Completed(t) = [t EXCEPT ![pending.effect] = None]
    BY <1>4 DEF Completed
  <2>2. QED
    BY <1>1, <1>4, <2>1 DEF Table
<1>5. QED
  BY <1>1, <1>2, <1>3, <1>4

\* What the first event leaves behind it.
LEMMA TakesFirst ==
  ASSUME FeedbackTypes, events # << >>, events' = Tail(events)
  PROVE  /\ 1 \in DOMAIN events /\ NextEvent = events[1] /\ events[1] \in HostEvent
         /\ events' \in Seq(HostEvent) /\ Len(events') <= EventLimit
         /\ \A k \in DOMAIN events' : k \in Nat /\ k >= 1 /\ k + 1 \in DOMAIN events /\ events'[k] = events[k + 1]
<1>1. events \in Seq(HostEvent) /\ Len(events) <= EventLimit /\ EventLimit \in Nat
  BY NativeAssumption DEF FeedbackTypes
<1>2. QED
  BY <1>1 DEF NextEvent

\* The two parts of a sequence of events.
LEMMA FirstAndRest ==
  ASSUME NEW s \in Seq(HostEvent), NEW n \in 0..Len(s)
  PROVE  /\ SubSeq(s, 1, n) \in Seq(HostEvent) /\ Len(SubSeq(s, 1, n)) = n
         /\ \A k \in 1..n : SubSeq(s, 1, n)[k] = s[k]
         /\ SubSeq(s, n + 1, Len(s)) \in Seq(HostEvent) /\ Len(SubSeq(s, n + 1, Len(s))) = Len(s) - n
         /\ \A k \in 1..(Len(s) - n) : SubSeq(s, n + 1, Len(s))[k] = s[k + n]
<1>1. /\ Len(s) \in Nat /\ n \in Int /\ n + 1 \in Int /\ Len(s) \in Int /\ 1 \in Int
      /\ \A k \in 1..Len(s) : s[k] \in HostEvent
  BY LenProperties
<1>2. \A k \in 1..n : s[k] \in HostEvent
  BY <1>1
<1>3. \A k \in (n + 1)..Len(s) : s[k] \in HostEvent
  BY <1>1
<1>4. /\ SubSeq(s, 1, n) \in Seq(HostEvent) /\ Len(SubSeq(s, 1, n)) = n
      /\ \A k \in 1..n : SubSeq(s, 1, n)[k] = s[k]
  BY <1>1, <1>2, SubSeqProperties
<1>5. /\ SubSeq(s, n + 1, Len(s)) \in Seq(HostEvent) /\ Len(SubSeq(s, n + 1, Len(s))) = Len(s) - n
      /\ \A k \in 1..(Len(s) - n) : SubSeq(s, n + 1, Len(s))[k] = s[k + n]
  BY <1>1, <1>3, SubSeqProperties
<1>6. QED
  BY <1>4, <1>5

\* What a drain takes from the device and leaves there.
LEMMA TakesBatch ==
  ASSUME FeedbackTypes, NEW n \in 0..Len(inbox), Drained(n)
  PROVE  /\ events = << >> /\ events' \in Seq(HostEvent) /\ Len(events') <= EventLimit
         /\ inbox' \in Seq(HostEvent)
         /\ \A k \in DOMAIN events' : k \in DOMAIN inbox /\ k \in 1..n /\ events'[k] = inbox[k]
         /\ \A k \in DOMAIN inbox' : k \in Nat /\ k >= 1 /\ k + n \in DOMAIN inbox /\ inbox'[k] = inbox[k + n]
         /\ UNCHANGED <<effects, hostEffects, pending, requests, answered, reported, retries, waiting>>
<1>1. /\ events = << >> /\ events' = SubSeq(inbox, 1, n) /\ inbox' = SubSeq(inbox, n + 1, Len(inbox)) /\ n <= EventLimit
      /\ UNCHANGED <<effects, hostEffects, pending, requests, answered, reported, retries, waiting>>
  BY DEF Drained, Delivered, historyVars
<1>2. inbox \in Seq(HostEvent) /\ Len(inbox) \in Nat /\ n \in Nat /\ n <= Len(inbox) /\ DOMAIN inbox = 1..Len(inbox)
      /\ \A k \in 1..Len(inbox) : inbox[k] \in HostEvent
  BY LenProperties DEF FeedbackTypes
<1>3. events' \in Seq(HostEvent) /\ Len(events') = n /\ \A k \in 1..n : events'[k] = inbox[k]
  BY <1>1, <1>2, FirstAndRest
<1>4. inbox' \in Seq(HostEvent) /\ Len(inbox') = Len(inbox) - n
      /\ \A k \in 1..(Len(inbox) - n) : inbox'[k] = inbox[k + n]
  BY <1>1, <1>2, FirstAndRest
<1>5. DOMAIN events' = 1..n /\ DOMAIN inbox' = 1..(Len(inbox) - n)
  BY <1>3, <1>4, LenProperties
<1>6. \A k \in DOMAIN events' : k \in DOMAIN inbox /\ k \in 1..n /\ events'[k] = inbox[k]
  BY <1>2, <1>3, <1>5
<1>7. \A k \in DOMAIN inbox' : k \in Nat /\ k >= 1 /\ k + n \in DOMAIN inbox /\ inbox'[k] = inbox[k + n]
  BY <1>2, <1>4, <1>5
<1>8. QED
  BY <1>1, <1>3, <1>4, <1>6, <1>7

\* What a host adds to the device.
LEMMA HostAdds ==
  ASSUME FeedbackTypes, NEW e \in HostEvent, inbox' = Append(inbox, e)
  PROVE  /\ inbox' \in Seq(HostEvent)
         /\ \A k \in DOMAIN inbox' :
              \/ k \in DOMAIN inbox /\ inbox'[k] = inbox[k]
              \/ inbox'[k] = e /\ \A j \in DOMAIN inbox' : j <= k
BY DEF FeedbackTypes

\* A request of the host: what it adds.
LEMMA Requests ==
  ASSUME FeedbackTypes, Requested
  PROVE  \E e \in HostEvent :
           /\ Asks(e) /\ e.request = requests + 1 /\ inbox' = Append(inbox, e)
           /\ requests' = requests + 1 /\ requests' \in 0..MaxRequests
           /\ waiting' = waiting \cup {requests + 1}
           /\ UNCHANGED <<effects, hostEffects, events, pending, answered, reported, retries, begun>>
<1>1. requests \in Nat /\ requests <= MaxRequests /\ MaxRequests \in Nat
  BY NativeAssumption DEF FeedbackTypes
<1>2. ASSUME NEW e \in Effects, NEW s \in Strengths, NEW supported \in BOOLEAN, HostRequest("upload", e, s, supported)
      PROVE  Event("upload", e, s, supported) \in HostEvent /\ Asks(Event("upload", e, s, supported))
  BY <1>1 DEF Event, HostEvent, Asks
<1>3. ASSUME NEW e \in Effects, HostRequest("erase", e, None, TRUE)
      PROVE  Event("erase", e, None, TRUE) \in HostEvent /\ Asks(Event("erase", e, None, TRUE))
  BY <1>1 DEF Event, HostEvent, Asks
<1>4. ASSUME NEW kind, NEW e, NEW s, NEW supported, HostRequest(kind, e, s, supported)
      PROVE  /\ Event(kind, e, s, supported).request = requests + 1
             /\ inbox' = Append(inbox, Event(kind, e, s, supported))
             /\ requests' = requests + 1 /\ requests' \in 0..MaxRequests
             /\ waiting' = waiting \cup {requests + 1}
             /\ UNCHANGED <<effects, hostEffects, events, pending, answered, reported, retries, begun>>
  BY <1>1, <1>4 DEF HostRequest, Event, feedbackVars, deviceVars, historyVars
<1>5. QED
  BY <1>2, <1>3, <1>4 DEF Requested

\* Types of the feedback are kept.
LEMMA FeedbackTypesStep ==
  ASSUME FeedbackTypes, FeedbackCases
  PROVE  FeedbackTypes'
<1>0. Retries \in Nat /\ EventLimit \in Nat
  BY NativeAssumption
<1>1. CASE FeedbackStays
  BY <1>1 DEF FeedbackStays, FeedbackTypes
<1>2. CASE FeedbackClears
  BY <1>0, <1>2 DEF FeedbackClears, Clear, FeedbackTypes, NoEffects, Table
<1>3. CASE FlushSent
  <2>1. pending \in Reply /\ pending.request \in Nat
    BY <1>3, ReplyFields DEF FlushSent, CanComplete, FeedbackTypes
  <2>2. effects' \in Table /\ hostEffects' \in Table
    BY <1>3, <2>1, CompletedTable DEF FlushSent, HostCompleted, Recorded, FeedbackTypes
  <2>3. answered' \in Seq(Nat) /\ reported' = answered'
    BY <1>3, <2>1 DEF FlushSent, HostCompleted, FeedbackTypes
  <2>4. retries' = 0 /\ pending' = NoReply /\ UNCHANGED <<events, inbox, requests>>
    BY <1>3 DEF FlushSent
  <2>5. QED
    BY <1>0, <2>2, <2>3, <2>4 DEF FeedbackTypes
<1>4. ASSUME NEW n \in 0..Len(inbox), Drained(n) PROVE FeedbackTypes'
  BY <1>4, TakesBatch DEF FeedbackTypes
<1>5. CASE LoopRequest
  <2>1. events # << >> /\ events' = Tail(events) /\ UNCHANGED <<effects, hostEffects, inbox, requests, answered, reported, retries>>
    BY <1>5 DEF LoopRequest, hostVars, historyVars
  <2>2. NextEvent \in HostEvent /\ NextEvent.kind # "play"
    BY <1>5, <2>1, TakesFirst DEF LoopRequest
  <2>3. NextEvent.kind \in {"upload", "erase"} /\ NextEvent.effect \in Effects /\ NextEvent.request \in Nat
        /\ (NextEvent.kind = "upload" => NextEvent.strength \in Strengths)
        /\ (NextEvent.kind = "erase" => NextEvent.strength = None)
    BY <2>2, EventFields DEF Asks
  <2>4. \E status \in Statuses :
          pending' = [kind |-> NextEvent.kind, request |-> NextEvent.request, effect |-> NextEvent.effect,
                      strength |-> NextEvent.strength, status |-> status]
    BY <1>5 DEF LoopRequest, UploadStatus, EraseStatus, Statuses
  <2>5. pending' \in Reply
    BY <2>3, <2>4 DEF Reply
  <2>6. QED
    BY <2>1, <2>5, TakesFirst DEF FeedbackTypes
<1>6. CASE LoopPlay
  <2>1. /\ events # << >> /\ events' = Tail(events)
        /\ UNCHANGED <<effects, hostEffects, inbox, pending, requests, answered, reported, retries>>
    BY <1>6 DEF LoopPlay, hostVars, historyVars
  <2>2. QED
    BY <2>1, TakesFirst DEF FeedbackTypes
<1>7. CASE Requested
  BY <1>7, Requests, HostAdds DEF FeedbackTypes
<1>8. ASSUME NEW e \in Effects, NEW on \in BOOLEAN, HostPlay(e, on) PROVE FeedbackTypes'
  <2>1. [kind |-> "play", effect |-> e, on |-> on] \in HostEvent
    BY DEF HostEvent
  <2>2. /\ inbox' = Append(inbox, [kind |-> "play", effect |-> e, on |-> on])
        /\ UNCHANGED <<effects, hostEffects, events, pending, requests, answered, reported, retries>>
    BY <1>8 DEF HostPlay, feedbackVars, historyVars
  <2>3. QED
    BY <2>1, <2>2, HostAdds DEF FeedbackTypes
<1>9. QED
  BY <1>1, <1>2, <1>3, <1>4, <1>5, <1>6, <1>7, <1>8 DEF FeedbackCases

\* Every request is numbered within those made.
LEMMA NumberedStep ==
  ASSUME FeedbackTypes, Numbered, FeedbackCases
  PROVE  Numbered'
<1>0. requests \in Nat
  BY DEF FeedbackTypes
<1>1. CASE FeedbackStays
  BY <1>1 DEF FeedbackStays, Numbered
<1>2. CASE FeedbackClears
  BY <1>2 DEF FeedbackClears, Clear, Numbered
<1>3. CASE FlushSent
  <2>1. /\ pending # NoReply /\ pending' = NoReply /\ answered' = Append(answered, pending.request)
        /\ UNCHANGED <<events, inbox, requests>> /\ waiting' \subseteq waiting /\ begun' \subseteq begun
    BY <1>3 DEF FlushSent, CanComplete, HostCompleted
  <2>2. pending.request \in 1..requests /\ answered \in Seq(Nat)
    BY <2>1 DEF Numbered, FeedbackTypes
  <2>3. \A k \in DOMAIN answered' : (k \in DOMAIN answered /\ answered'[k] = answered[k]) \/ answered'[k] = pending.request
    BY <2>1, <2>2
  <2>4. QED
    BY <2>1, <2>2, <2>3 DEF Numbered
<1>4. ASSUME NEW n \in 0..Len(inbox), Drained(n) PROVE Numbered'
  <2>1. begun' = begun \cup {inbox[i].request : i \in {j \in 1..n : inbox[j].kind # "play"}}
    BY <1>4 DEF Drained
  <2>2. 1..n \subseteq DOMAIN inbox
    BY <1>4 DEF FeedbackTypes
  <2>3. begun' \subseteq 1..requests
    BY <2>1, <2>2 DEF Numbered, Asks
  <2>4. QED
    BY <1>4, <2>3, TakesBatch DEF Numbered
<1>5. CASE LoopRequest
  <2>1. /\ events # << >> /\ events' = Tail(events) /\ UNCHANGED <<inbox, requests, answered, waiting, begun>>
        /\ pending'.request = NextEvent.request /\ Asks(NextEvent)
    BY <1>5 DEF LoopRequest, hostVars, historyVars, deviceVars, Asks
  <2>2. pending'.request \in 1..requests
    BY <2>1, TakesFirst DEF Numbered
  <2>3. QED
    BY <2>1, <2>2, TakesFirst DEF Numbered
<1>6. CASE LoopPlay
  <2>1. events # << >> /\ events' = Tail(events) /\ UNCHANGED <<inbox, pending, requests, answered, waiting, begun>>
    BY <1>6 DEF LoopPlay, hostVars, historyVars, deviceVars
  <2>2. QED
    BY <2>1, TakesFirst DEF Numbered
<1>7. CASE Requested
  <2>1. PICK e \in HostEvent :
          /\ Asks(e) /\ e.request = requests + 1 /\ inbox' = Append(inbox, e)
          /\ requests' = requests + 1 /\ waiting' = waiting \cup {requests + 1}
          /\ UNCHANGED <<events, pending, answered, begun>>
    BY <1>7, Requests
  <2>2. \A r \in 1..requests : r \in 1..(requests + 1)
    BY <1>0
  <2>3. requests + 1 \in 1..(requests + 1)
    BY <1>0
  <2>4. \A k \in DOMAIN inbox' : Asks(inbox'[k]) => inbox'[k].request \in 1..(requests + 1)
    <3>1. \A k \in DOMAIN inbox' : (k \in DOMAIN inbox /\ inbox'[k] = inbox[k]) \/ inbox'[k] = e
      BY <2>1, HostAdds
    <3>2. QED
      BY <2>1, <2>2, <2>3, <3>1 DEF Numbered
  <2>5. waiting' \subseteq 1..(requests + 1) /\ begun' \subseteq 1..(requests + 1)
    BY <2>1, <2>2, <2>3 DEF Numbered
  <2>6. /\ \A k \in DOMAIN events : Asks(events[k]) => events[k].request \in 1..(requests + 1)
        /\ pending # NoReply => pending.request \in 1..(requests + 1)
        /\ \A k \in DOMAIN answered : answered[k] \in 1..(requests + 1)
    BY <2>2 DEF Numbered
  <2>7. QED
    BY <2>1, <2>4, <2>5, <2>6 DEF Numbered
<1>8. ASSUME NEW e \in Effects, NEW on \in BOOLEAN, HostPlay(e, on) PROVE Numbered'
  <2>1. [kind |-> "play", effect |-> e, on |-> on] \in HostEvent /\ ~ Asks([kind |-> "play", effect |-> e, on |-> on])
    BY DEF HostEvent, Asks
  <2>2. /\ inbox' = Append(inbox, [kind |-> "play", effect |-> e, on |-> on])
        /\ UNCHANGED <<events, pending, requests, answered, waiting, begun>>
    BY <1>8 DEF HostPlay, feedbackVars, deviceVars, historyVars
  <2>3. QED
    BY <2>1, <2>2, HostAdds DEF Numbered
<1>9. QED
  BY <1>1, <1>2, <1>3, <1>4, <1>5, <1>6, <1>7, <1>8 DEF FeedbackCases

\* Requests are numbers, in the sequences and in the reply.
LEMMA RequestsAreNumbers ==
  ASSUME FeedbackTypes, Numbered
  PROVE  /\ \A k \in DOMAIN inbox : k \in Nat /\ (Asks(inbox[k]) => inbox[k].request \in Nat)
         /\ \A k \in DOMAIN events : k \in Nat /\ (Asks(events[k]) => events[k].request \in Nat)
         /\ \A k \in DOMAIN answered : k \in Nat /\ answered[k] \in Nat
         /\ pending # NoReply => pending.request \in Nat
BY DEF FeedbackTypes, Numbered

\* No step changes the order of requests.
LEMMA InTurnStep ==
  ASSUME FeedbackTypes, Numbered, InTurn, FeedbackCases
  PROVE  InTurn'
<1>0. /\ \A k \in DOMAIN inbox : k \in Nat /\ (Asks(inbox[k]) => inbox[k].request \in Nat)
      /\ \A k \in DOMAIN events : k \in Nat /\ (Asks(events[k]) => events[k].request \in Nat)
      /\ \A k \in DOMAIN answered : k \in Nat /\ answered[k] \in Nat
      /\ pending # NoReply => pending.request \in Nat
      /\ requests \in Nat
  BY RequestsAreNumbers DEF FeedbackTypes
<1> USE DEF InTurn
<1>1. CASE FeedbackStays
  BY <1>1 DEF FeedbackStays, InboxInTurn, EventsInTurn, EventsBeforeInbox, PendingFirst, AnsweredFirst, AnsweredInTurn
<1>2. CASE FeedbackClears
  BY <1>2 DEF FeedbackClears, Clear, InboxInTurn, EventsInTurn, EventsBeforeInbox, PendingFirst, AnsweredFirst,
       AnsweredInTurn
\* The answered request was the first of those not answered.
<1>3. CASE FlushSent
  <2>1. /\ pending # NoReply /\ pending' = NoReply /\ answered' = Append(answered, pending.request)
        /\ UNCHANGED <<events, inbox>> /\ answered \in Seq(Nat)
    BY <1>3 DEF FlushSent, CanComplete, HostCompleted, FeedbackTypes
  <2>2. \A k \in DOMAIN answered' :
          \/ k \in DOMAIN answered /\ answered'[k] = answered[k]
          \/ answered'[k] = pending.request /\ \A j \in DOMAIN answered' : j > k => FALSE
    BY <1>0, <2>1
  <2>3. InboxInTurn' /\ EventsInTurn' /\ EventsBeforeInbox' /\ PendingFirst'
    BY <2>1 DEF InboxInTurn, EventsInTurn, EventsBeforeInbox, PendingFirst
  <2>4. AnsweredFirst'
    BY <2>1, <2>2 DEF AnsweredFirst, PendingFirst
  <2>5. DOMAIN answered' \subseteq Nat
    BY <1>0, <2>1
  <2>6. AnsweredInTurn'
    BY <2>1, <2>2, <2>5 DEF AnsweredInTurn, AnsweredFirst
  <2>7. QED
    BY <2>3, <2>4, <2>6
\* A drain moves the first of the device's events.
<1>4. ASSUME NEW n \in 0..Len(inbox), Drained(n) PROVE InTurn'
  <2>1. /\ events = << >>
        /\ \A k \in DOMAIN events' : k \in DOMAIN inbox /\ k \in 1..n /\ events'[k] = inbox[k]
        /\ \A k \in DOMAIN inbox' : k \in Nat /\ k >= 1 /\ k + n \in DOMAIN inbox /\ inbox'[k] = inbox[k + n]
        /\ UNCHANGED <<pending, answered>> /\ n \in Nat
    BY <1>4, TakesBatch
  <2>2. InboxInTurn'
    <3>1. \A j, k \in DOMAIN inbox' : j < k => j + n < k + n
      BY <2>1
    <3>2. QED
      BY <2>1, <3>1 DEF InboxInTurn
  <2>3. EventsInTurn'
    BY <2>1 DEF InboxInTurn, EventsInTurn
  <2>4. EventsBeforeInbox'
    <3>1. \A j \in DOMAIN events', k \in DOMAIN inbox' : j < k + n
      BY <2>1
    <3>2. QED
      BY <2>1, <3>1 DEF InboxInTurn, EventsBeforeInbox
  <2>5. PendingFirst' /\ AnsweredFirst'
    BY <2>1 DEF PendingFirst, AnsweredFirst
  <2>6. AnsweredInTurn'
    BY <2>1 DEF AnsweredInTurn
  <2>7. QED
    BY <2>2, <2>3, <2>4, <2>5, <2>6
\* The first drained event becomes the reply under way, or is played.
<1>5. ASSUME events # << >>, events' = Tail(events), UNCHANGED <<inbox, answered>>
      PROVE  InboxInTurn' /\ EventsInTurn' /\ EventsBeforeInbox' /\ AnsweredInTurn'
  <2>1. \A k \in DOMAIN events' : k \in Nat /\ k >= 1 /\ k + 1 \in DOMAIN events /\ events'[k] = events[k + 1]
    BY <1>5, TakesFirst
  <2>2. \A j, k \in DOMAIN events' : j < k => j + 1 < k + 1
    BY <2>1
  <2>3. EventsInTurn'
    BY <2>1, <2>2 DEF EventsInTurn
  <2>4. EventsBeforeInbox'
    BY <1>5, <2>1 DEF EventsBeforeInbox
  <2>5. QED
    BY <1>5, <2>3, <2>4 DEF InboxInTurn, AnsweredInTurn
<1>6. CASE LoopRequest
  <2>1. /\ events # << >> /\ events' = Tail(events) /\ UNCHANGED <<inbox, answered>>
        /\ pending'.request = NextEvent.request /\ Asks(NextEvent)
    BY <1>6 DEF LoopRequest, hostVars, historyVars, Asks
  <2>2. /\ 1 \in DOMAIN events /\ NextEvent = events[1]
        /\ \A k \in DOMAIN events' : k + 1 \in DOMAIN events /\ 1 < k + 1 /\ events'[k] = events[k + 1]
    BY <2>1, TakesFirst
  <2>3. PendingFirst'
    BY <2>1, <2>2 DEF PendingFirst, EventsInTurn, EventsBeforeInbox
  <2>4. AnsweredFirst'
    BY <2>1, <2>2 DEF AnsweredFirst
  <2>5. QED
    BY <1>5, <2>1, <2>3, <2>4
<1>7. CASE LoopPlay
  <2>1. events # << >> /\ events' = Tail(events) /\ UNCHANGED <<inbox, pending, answered>>
    BY <1>7 DEF LoopPlay, hostVars, historyVars
  <2>2. \A k \in DOMAIN events' : k + 1 \in DOMAIN events /\ events'[k] = events[k + 1]
    BY <2>1, TakesFirst
  <2>3. PendingFirst' /\ AnsweredFirst'
    BY <2>1, <2>2 DEF PendingFirst, AnsweredFirst
  <2>4. QED
    BY <1>5, <2>1, <2>3
\* A new request is the last.
<1>8. ASSUME NEW e \in HostEvent, inbox' = Append(inbox, e), Asks(e) => e.request = requests + 1,
             UNCHANGED <<events, pending, answered>>
      PROVE  InTurn'
  <2>1. \A k \in DOMAIN inbox' :
          \/ k \in DOMAIN inbox /\ inbox'[k] = inbox[k]
          \/ inbox'[k] = e /\ \A j \in DOMAIN inbox' : j <= k
    BY <1>8, HostAdds
  <2>2. DOMAIN inbox' \subseteq Nat
    BY <1>8 DEF FeedbackTypes
  <2>3. \A r \in 1..requests : Asks(e) => r < e.request
    BY <1>0, <1>8
  <2>4. InboxInTurn'
    <3>1. SUFFICES ASSUME NEW j \in DOMAIN inbox', NEW k \in DOMAIN inbox', j < k, Asks(inbox'[j]), Asks(inbox'[k])
                   PROVE  inbox'[j].request < inbox'[k].request
      BY DEF InboxInTurn
    <3>2. j \in Nat /\ k \in Nat
      BY <2>2
    <3>3. j \in DOMAIN inbox /\ inbox'[j] = inbox[j]
      BY <2>1, <3>1, <3>2
    <3>4. CASE k \in DOMAIN inbox /\ inbox'[k] = inbox[k]
      BY <3>1, <3>3, <3>4 DEF InboxInTurn
    <3>5. CASE inbox'[k] = e
      BY <2>3, <3>1, <3>3, <3>5 DEF Numbered
    <3>6. QED
      BY <2>1, <3>4, <3>5
  <2>5. EventsBeforeInbox'
    BY <1>8, <2>1, <2>3 DEF EventsBeforeInbox, Numbered
  <2>6. PendingFirst'
    BY <1>8, <2>1, <2>3 DEF PendingFirst, Numbered
  <2>7. AnsweredFirst'
    BY <1>8, <2>1, <2>3 DEF AnsweredFirst, Numbered
  <2>8. QED
    BY <1>8, <2>4, <2>5, <2>6, <2>7 DEF EventsInTurn, AnsweredInTurn
<1>9. CASE Requested
  BY <1>8, <1>9, Requests
<1>10. ASSUME NEW e \in Effects, NEW on \in BOOLEAN, HostPlay(e, on) PROVE InTurn'
  <2>1. [kind |-> "play", effect |-> e, on |-> on] \in HostEvent /\ ~ Asks([kind |-> "play", effect |-> e, on |-> on])
    BY DEF HostEvent, Asks
  <2>2. /\ inbox' = Append(inbox, [kind |-> "play", effect |-> e, on |-> on])
        /\ UNCHANGED <<events, pending, answered>>
    BY <1>10 DEF HostPlay, feedbackVars, historyVars
  <2>3. QED
    BY <1>8, <2>1, <2>2
<1>11. QED
  BY <1>1, <1>2, <1>3, <1>4, <1>6, <1>7, <1>9, <1>10 DEF FeedbackCases

\* The session's table follows the kernel's.
LEMMA AgreedStep ==
  ASSUME LayerTypes, Grouped, Agreed, Cases
  PROVE  Agreed'
<1>1. ~ groupClosed' => ~ groupClosed
  BY GroupStaysClosed DEF Cases
<1>2. CASE FlushSent
  <2>1. effects' = Completed(effects) /\ hostEffects' = Completed(hostEffects)
    BY <1>2 DEF FlushSent, CanComplete, HostCompleted, Recorded
  <2>2. QED
    BY <1>1, <2>1 DEF Agreed
<1>3. CASE FeedbackClears
  BY <1>3 DEF FeedbackClears, Agreed
<1>4. ASSUME UNCHANGED <<effects, hostEffects>> PROVE Agreed'
  BY <1>1, <1>4 DEF Agreed
<1>5. CASE ~ FlushSent /\ ~ FeedbackClears
  <2>1. UNCHANGED <<effects, hostEffects>>
    BY <1>5 DEF Cases, FeedbackCases, FeedbackStays, Drained, LoopRequest, LoopPlay, Requested, HostRequest, HostPlay,
         hostVars, feedbackVars
  <2>2. QED
    BY <1>4, <2>1
<1>6. QED
  BY <1>2, <1>3, <1>5

-----------------------------------------------------------------------------

\* The inductive invariant.
IInv ==
  /\ LayerTypes /\ FeedbackTypes /\ Numbered
  /\ Grouped /\ CommittedShown /\ InTurn /\ Agreed

LEMMA IInvInit == Init => IInv
<1> SUFFICES ASSUME Init PROVE IInv
  OBVIOUS
<1>1. Size \in Nat /\ Size >= 1 /\ Components = 1..Size /\ Neutral \in States /\ Retries \in Nat /\ EventLimit \in Nat
      /\ MaxRequests \in Nat
  BY SizeIs, NativeAssumption
<1>2. LayerTypes
  BY <1>1 DEF Init, LayerTypes
<1>3. FeedbackTypes
  BY <1>1 DEF Init, FeedbackTypes, NoEffects, Table
<1>4. Numbered
  BY DEF Init, Numbered
<1>5. Grouped
  <2>1. device = [c \in Components |-> IF c <= 0 THEN "open" ELSE "none"] /\ 0 \in 0..(Size - 1)
    BY <1>1 DEF Init
  <2>2. QED
    BY <1>1, <2>1 DEF Init, Grouped
<1>6. CommittedShown
  BY DEF Init, CommittedShown
<1>7. InTurn
  BY DEF Init, InTurn, InboxInTurn, EventsInTurn, EventsBeforeInbox, PendingFirst, AnsweredFirst, AnsweredInTurn
<1>8. Agreed
  BY DEF Init, Agreed
<1>9. QED
  BY <1>2, <1>3, <1>4, <1>5, <1>6, <1>7, <1>8 DEF IInv

LEMMA IInvStep == IInv /\ [Next]_vars => IInv'
<1> SUFFICES ASSUME IInv, [Next]_vars PROVE IInv'
  OBVIOUS
<1>1. Cases
  BY StepCases DEF IInv
<1>2. LayerCases /\ FeedbackCases
  BY <1>1 DEF Cases
<1>3. LayerTypes' /\ Grouped' /\ CommittedShown'
  BY <1>2, LayerTypesStep, GroupedStep, CommittedStep DEF IInv
<1>4. FeedbackTypes' /\ Numbered' /\ InTurn'
  BY <1>2, FeedbackTypesStep, NumberedStep, InTurnStep DEF IInv
<1>5. Agreed'
  BY <1>1, AgreedStep DEF IInv
<1>6. QED
  BY <1>3, <1>4, <1>5 DEF IInv

\* The invariant says that the session is well typed.
LEMMA TypedByInvariant == IInv => TypeOK
<1> SUFFICES ASSUME IInv PROVE TypeOK
  OBVIOUS
<1>1. pending = NoReply \/ pending.status \in Statuses
  BY ReplyFields DEF IInv, FeedbackTypes
<1>2. \A r \in 1..requests : r \in 1..MaxRequests
  BY NativeAssumption DEF IInv, FeedbackTypes
<1>3. waiting \subseteq 1..MaxRequests /\ begun \subseteq 1..MaxRequests
  BY <1>2 DEF IInv, Numbered
<1>4. QED
  BY <1>1, <1>3 DEF IInv, LayerTypes, FeedbackTypes, Table, TypeOK

\* And that it is truthful.
LEMMA TruthfulByInvariant == IInv => SessionTruthful
<1> SUFFICES ASSUME IInv PROVE SessionTruthful
  OBVIOUS
<1>1. GroupWhole
  BY DEF IInv, LayerTypes, Grouped, GroupWhole
<1>2. EffectsAgree
  <2>1. DOMAIN answered = 1..Len(answered) /\ reported = answered
    BY LenProperties DEF IInv, FeedbackTypes
  <2>2. QED
    BY <2>1 DEF IInv, Agreed, InTurn, AnsweredInTurn, EffectsAgree
<1>3. QED
  BY <1>1, <1>2 DEF IInv, SessionTruthful

\* Every layer of the session, its effects and its queues stay well typed: no drain owns more than EVENTS
\* events and no completion is tried more often than RETRIES (Feedback::service_inner, flush).
THEOREM TypeCorrect == Spec => []TypeOK
<1>1. QED
  BY IInvInit, IInvStep, TypedByInvariant, PTL DEF Spec

\* A successful commit is shown by every component (ControllerRuntime::commit, CompoundSession::send), the
\* components are opened and closed as one and each device is destroyed once (CompoundSession::open, close), and
\* host and session agree on effects and on the order of completions (Feedback::flush).
THEOREM SessionIsTruthful == Spec => []SessionTruthful
<1>1. QED
  BY IInvInit, IInvStep, TruthfulByInvariant, PTL DEF Spec
=============================================================================
