---------------------- MODULE ReverseSubscriptionProofs ----------------------
(***************************************************************************)
(* Safety of a ReverseSubscription for every set of callers, capacity and  *)
(* number of events.                                                       *)
(***************************************************************************)
EXTENDS ReverseSubscription, SequenceTheorems, TLAPS

Outside == {"idle", "publish lock", "send", "close lock", "take", "slot"}
Places == Outside \cup {"join", "return"}

\* Types of what the proofs compute with.
Contents ==
  /\ pc \in [Callers -> Places]
  /\ closed \in BOOLEAN /\ sender \in BOOLEAN /\ handle \in BOOLEAN
  /\ senderLock \in Callers \cup {Nobody} /\ handleLock \in Callers \cup {Nobody}
  /\ worker \in {"recv", "call", "ending", "ended"}
  /\ queue \in Seq(Nat) /\ hand \in Seq(Nat) /\ accepted \in Seq(Nat) /\ handled \in Seq(Nat)
  /\ panics \in Nat

\* Until the callback panics, accepted events are handled, with the callback or in the channel.
Conserved == panics = 0 => accepted = (handled \o hand) \o queue

\* Handled events are the first of the accepted ones, also after a panic.
InOrder ==
  /\ Len(handled) <= Len(accepted)
  /\ \A k \in 1..Len(handled) : handled[k] = accepted[k]

\* The worker holds an event during a call only, and a panic ends it.
Holding ==
  /\ worker = "call" => Len(hand) = 1
  /\ worker # "call" => hand = << >>
  /\ panics > 0 => worker \in {"ending", "ended"}

\* A worker that ends without a panic has seen the channel empty and its sender gone, for good.
Exhausted == worker \in {"ending", "ended"} /\ panics = 0 => ~ sender /\ queue = << >>

\* Who joins the worker holds the lock of its handle, and nobody else leaves a close before the worker ended.
Joined ==
  /\ \A c \in Callers : pc[c] \in {"join", "return"} => handleLock = c
  /\ ~ handle => worker = "ended" \/ \E c \in Callers : pc[c] = "join"
  /\ \A c \in Callers : pc[c] = "return" => worker = "ended"
  /\ returned => worker = "ended"

\* The inductive invariant.
IInv == Contents /\ Conserved /\ InOrder /\ Holding /\ Exhausted /\ Joined

-----------------------------------------------------------------------------
(* Sequences of events.                                                    *)

\* Sequences of events append in any grouping.
LEMMA Associative ==
  ASSUME NEW s \in Seq(Nat), NEW t \in Seq(Nat), NEW u \in Seq(Nat)
  PROVE  (s \o t) \o u = s \o (t \o u)
BY ConcatAssociative

\* A first part of a sequence is its beginning.
LEMMA BeginsWith ==
  ASSUME NEW s \in Seq(Nat), NEW t \in Seq(Nat)
  PROVE  /\ Len(s) <= Len(s \o t)
         /\ \A k \in 1..Len(s) : s[k] = (s \o t)[k]
<1>1. Len(s \o t) = Len(s) + Len(t) /\ Len(s) \in Nat /\ Len(t) \in Nat
  BY ConcatProperties, LenProperties
<1>2. \A k \in 1..Len(s) : (s \o t)[k] = s[k]
  BY <1>1, ConcatProperties
<1>3. QED
  BY <1>1, <1>2

\* What begins a sequence equals its part of that length.
LEMMA PartOf ==
  ASSUME NEW s \in Seq(Nat), NEW t \in Seq(Nat), Len(s) <= Len(t), \A k \in 1..Len(s) : s[k] = t[k]
  PROVE  s = SubSeq(t, 1, Len(s))
<1>1. Len(s) \in Nat /\ Len(t) \in Nat /\ DOMAIN s = 1..Len(s)
  BY LenProperties
<1>2. SubSeq(t, 1, Len(s)) \in Seq(Nat) /\ Len(SubSeq(t, 1, Len(s))) = Len(s)
  BY <1>1, SubSeqProperties
<1>3. \A k \in 1..Len(s) : SubSeq(t, 1, Len(s))[k] = t[k]
  BY <1>1, SubSeqProperties
<1>4. QED
  BY <1>1, <1>2, <1>3, SeqEqual

\* Taking the head of the channel in hand keeps the whole.
LEMMA TakeHead ==
  ASSUME NEW h \in Seq(Nat), NEW q \in Seq(Nat), q # << >>
  PROVE  /\ Head(q) \in Nat /\ Tail(q) \in Seq(Nat)
         /\ (h \o << >>) \o q = (h \o << Head(q) >>) \o Tail(q)
<1>1. Head(q) \in Nat /\ Tail(q) \in Seq(Nat)
  BY HeadTailProperties
<1>2. << Head(q) >> \o Tail(q) = q
  BY <1>1
<1>3. h \o << >> = h
  BY ConcatEmptySeq
<1>4. h \o (<< Head(q) >> \o Tail(q)) = (h \o << Head(q) >>) \o Tail(q)
  <2>1. << Head(q) >> \in Seq(Nat)
    BY <1>1
  <2>2. QED
    BY <1>1, <2>1, Associative
<1>5. QED
  BY <1>1, <1>2, <1>3, <1>4

-----------------------------------------------------------------------------
(* Each step keeps the invariant.                                          *)

LEMMA IInvInit == Init => IInv
<1> SUFFICES ASSUME Init PROVE IInv
  OBVIOUS
<1>1. << >> \in Seq(Nat) /\ Len(<< >>) = 0 /\ (<< >> \o << >>) \o << >> = << >>
  OBVIOUS
<1>2. Contents
  BY <1>1 DEF Init, Contents, Places, Outside
<1>3. Conserved /\ InOrder /\ Holding /\ Exhausted
  BY <1>1 DEF Init, Conserved, InOrder, Holding, Exhausted
<1>4. Joined
  BY DEF Init, Joined
<1>5. QED
  BY <1>2, <1>3, <1>4 DEF IInv

\* The channel, the callback's hand and the history.
LEMMA EventsStep ==
  ASSUME IInv, [Next]_vars
  PROVE  /\ queue' \in Seq(Nat) /\ hand' \in Seq(Nat) /\ accepted' \in Seq(Nat) /\ handled' \in Seq(Nat)
         /\ panics' \in Nat /\ worker' \in {"recv", "call", "ending", "ended"} /\ sender' \in BOOLEAN
         /\ Conserved' /\ InOrder' /\ Holding' /\ Exhausted'
<1> DEFINE Goal == /\ queue' \in Seq(Nat) /\ hand' \in Seq(Nat) /\ accepted' \in Seq(Nat) /\ handled' \in Seq(Nat)
                   /\ panics' \in Nat /\ worker' \in {"recv", "call", "ending", "ended"} /\ sender' \in BOOLEAN
                   /\ Conserved' /\ InOrder' /\ Holding' /\ Exhausted'
<1>0. /\ queue \in Seq(Nat) /\ hand \in Seq(Nat) /\ accepted \in Seq(Nat) /\ handled \in Seq(Nat)
      /\ panics \in Nat /\ worker \in {"recv", "call", "ending", "ended"} /\ sender \in BOOLEAN
      /\ Conserved /\ InOrder /\ Holding /\ Exhausted
  BY DEF IInv, Contents
<1>1. ASSUME UNCHANGED <<sender, queue, accepted, worker, hand, panics, handled>> PROVE Goal
  BY <1>0, <1>1 DEF Conserved, InOrder, Holding, Exhausted
<1>2. ASSUME NEW c \in Callers, PublishSend(c) PROVE Goal
  <2>1. UNCHANGED <<sender, worker, hand, panics, handled>>
    BY <1>2 DEF PublishSend, workerVars
  <2>2. CASE UNCHANGED <<queue, accepted>>
    BY <1>1, <2>1, <2>2
  <2>3. CASE ~ (~ sender \/ worker = "ended") /\ HasRoom
    <3> DEFINE n == Len(accepted) + 1
    <3>1. queue' = Append(queue, n) /\ accepted' = Append(accepted, n) /\ n \in Nat
      BY <1>0, <1>2, <2>3, LenProperties DEF PublishSend
    <3>2. accepted' = accepted \o << n >> /\ queue' = queue \o << n >> /\ << n >> \in Seq(Nat)
      BY <1>0, <3>1, AppendIsConcat
    <3> HIDE DEF n
    <3>3. queue' \in Seq(Nat) /\ accepted' \in Seq(Nat)
      BY <1>0, <3>2, ConcatProperties
    <3>4. ASSUME panics = 0 PROVE accepted' = (handled \o hand) \o queue'
      <4>1. handled \o hand \in Seq(Nat) /\ accepted = (handled \o hand) \o queue
        BY <1>0, <3>4, ConcatProperties DEF Conserved
      <4>2. queue \in Seq(Nat) /\ << n >> \in Seq(Nat)
        BY <1>0, <3>2
      <4>3. ((handled \o hand) \o queue) \o << n >> = (handled \o hand) \o (queue \o << n >>)
        BY <4>1, <4>2, Associative
      <4>4. QED
        BY <2>1, <3>2, <4>1, <4>3
    <3>5. Len(accepted) <= Len(accepted') /\ \A k \in 1..Len(accepted) : accepted[k] = accepted'[k]
      BY <1>0, <3>2, BeginsWith
    <3>6. InOrder'
      <4>1. /\ Len(handled) \in Nat /\ Len(accepted) \in Nat /\ Len(accepted') \in Nat
            /\ Len(handled) <= Len(accepted) /\ \A k \in 1..Len(handled) : handled[k] = accepted[k]
        BY <1>0, <3>3, LenProperties DEF InOrder
      <4>2. \A k \in 1..Len(handled) : k \in 1..Len(accepted)
        BY <4>1
      <4>3. \A k \in 1..Len(handled) : handled[k] = accepted'[k]
        BY <3>5, <4>1, <4>2
      <4>4. Len(handled) <= Len(accepted')
        BY <3>5, <4>1
      <4>5. QED
        BY <2>1, <4>3, <4>4 DEF InOrder
    <3>7. worker \notin {"ending", "ended"} \/ panics > 0
      BY <1>0, <2>3 DEF Exhausted
    <3>8. Conserved'
      BY <2>1, <3>4 DEF Conserved
    <3>9. Holding' /\ Exhausted'
      BY <1>0, <2>1, <3>7 DEF Holding, Exhausted
    <3>10. QED
      BY <1>0, <2>1, <3>3, <3>6, <3>8, <3>9
  <2>4. QED
    BY <1>2, <2>2, <2>3 DEF PublishSend
<1>3. ASSUME NEW c \in Callers, CloseTake(c) PROVE Goal
  BY <1>0, <1>3 DEF CloseTake, channelVars, workerVars, Conserved, InOrder, Holding, Exhausted
<1>4. CASE Receive
  <2>1. /\ worker = "recv" /\ queue # << >> /\ hand' = << Head(queue) >> /\ queue' = Tail(queue)
        /\ worker' = "call" /\ UNCHANGED <<accepted, panics, handled, sender>>
    BY <1>4 DEF Receive
  <2>2. hand = << >> /\ panics = 0
    BY <1>0, <2>1 DEF Holding
  <2>3. Head(queue) \in Nat /\ queue' \in Seq(Nat) /\ (handled \o hand) \o queue = (handled \o hand') \o queue'
    BY <1>0, <2>1, <2>2, TakeHead
  <2>4. hand' \in Seq(Nat) /\ Len(hand') = 1
    BY <2>1, <2>3
  <2>5. QED
    BY <1>0, <2>1, <2>2, <2>3, <2>4 DEF Conserved, InOrder, Holding, Exhausted
<1>5. CASE CallReturns
  <2>1. /\ worker = "call" /\ handled' = handled \o hand /\ hand' = << >> /\ worker' = "recv"
        /\ UNCHANGED <<queue, accepted, panics, sender>>
    BY <1>5 DEF CallReturns, channelVars
  <2>2. panics = 0 /\ handled' \in Seq(Nat) /\ hand' \in Seq(Nat) /\ handled' \o hand' = handled'
    BY <1>0, <2>1, ConcatProperties, ConcatEmptySeq DEF Holding
  <2>3. accepted' = (handled' \o hand') \o queue'
    BY <1>0, <2>1, <2>2 DEF Conserved
  <2>4. InOrder'
    BY <1>0, <2>1, <2>2, <2>3, BeginsWith DEF InOrder
  <2>5. QED
    BY <1>0, <2>1, <2>2, <2>3, <2>4 DEF Conserved, Holding, Exhausted
<1>6. CASE CallPanics
  BY <1>0, <1>6 DEF CallPanics, channelVars, Conserved, InOrder, Holding, Exhausted
<1>7. CASE Disconnected
  BY <1>0, <1>7 DEF Disconnected, channelVars, MayEnd, Conserved, InOrder, Holding, Exhausted
<1>8. CASE End
  <2>1. /\ worker = "ending" /\ worker' = "ended" /\ queue' = << >>
        /\ UNCHANGED <<accepted, panics, handled, hand, sender>>
    BY <1>8 DEF End
  <2>2. panics = 0 => queue' = queue
    BY <1>0, <2>1 DEF Exhausted
  <2>3. QED
    BY <1>0, <2>1, <2>2 DEF Conserved, InOrder, Holding, Exhausted
<1>9. ASSUME NEW c \in Callers,
             PublishCheck(c) \/ CloseStore(c) \/ PublishLock(c) \/ CloseLock(c) \/ CloseSlot(c) \/ CloseJoin(c)
               \/ CloseReturn(c)
      PROVE Goal
  BY <1>1, <1>9 DEF PublishCheck, CloseStore, PublishLock, CloseLock, CloseSlot, CloseJoin, CloseReturn,
                    channelVars, workerVars
<1>10. CASE UNCHANGED vars
  BY <1>1, <1>10 DEF vars
<1>11. QED
  BY <1>2, <1>3, <1>4, <1>5, <1>6, <1>7, <1>8, <1>9, <1>10 DEF Next, Continue, Work

\* The callers, the locks and the join.
LEMMA CallersStep ==
  ASSUME Nobody \notin Callers, IInv, [Next]_vars
  PROVE  /\ pc' \in [Callers -> Places] /\ closed' \in BOOLEAN /\ handle' \in BOOLEAN
         /\ senderLock' \in Callers \cup {Nobody} /\ handleLock' \in Callers \cup {Nobody}
         /\ Joined'
<1> DEFINE Goal == /\ pc' \in [Callers -> Places] /\ closed' \in BOOLEAN /\ handle' \in BOOLEAN
                   /\ senderLock' \in Callers \cup {Nobody} /\ handleLock' \in Callers \cup {Nobody}
                   /\ Joined'
<1>0. /\ pc \in [Callers -> Places] /\ closed \in BOOLEAN /\ handle \in BOOLEAN
      /\ senderLock \in Callers \cup {Nobody} /\ handleLock \in Callers \cup {Nobody}
      /\ Joined
  BY DEF IInv, Contents
\* A step of a caller that neither takes nor leaves the lock of the handle.
<1>1. ASSUME NEW c \in Callers, NEW step \in Outside, pc' = [pc EXCEPT ![c] = step], pc[c] \in Outside,
             closed' \in BOOLEAN, senderLock' \in Callers \cup {Nobody},
             UNCHANGED <<handle, handleLock, worker, returned>>
      PROVE  Goal
  <2>1. pc' \in [Callers -> Places]
    BY <1>0, <1>1 DEF Places
  <2>2. pc'[c] \notin {"join", "return"} /\ pc[c] \notin {"join", "return"}
    BY <1>0, <1>1 DEF Outside
  <2>3. \A d \in Callers : d # c => pc'[d] = pc[d]
    BY <1>0, <1>1
  <2>4. Joined'
    BY <1>0, <1>1, <2>2, <2>3 DEF Joined
  <2>5. QED
    BY <1>0, <1>1, <2>1, <2>4
<1>2. ASSUME NEW c \in Callers,
             PublishCheck(c) \/ PublishLock(c) \/ PublishSend(c) \/ CloseStore(c) \/ CloseLock(c) \/ CloseTake(c)
      PROVE  Goal
  <2>1. /\ UNCHANGED <<handle, handleLock, worker, returned>> /\ pc[c] \in Outside
        /\ closed' \in BOOLEAN /\ senderLock' \in Callers \cup {Nobody}
    BY <1>0, <1>2 DEF PublishCheck, PublishLock, PublishSend, CloseStore, CloseLock, CloseTake, Released,
                      channelVars, workerVars, Outside
  <2>2. \E step \in Outside : pc' = [pc EXCEPT ![c] = step]
    BY <1>2 DEF PublishCheck, PublishLock, PublishSend, CloseStore, CloseLock, CloseTake, Goto, Outside
  <2>3. QED
    BY <1>1, <2>1, <2>2
<1>3. ASSUME NEW c \in Callers, CloseSlot(c) PROVE Goal
  <2>1. /\ pc[c] = "slot" /\ handleLock = Nobody /\ handleLock' = c /\ handle' = FALSE
        /\ pc' = [pc EXCEPT ![c] = IF handle THEN "join" ELSE "return"]
        /\ UNCHANGED <<closed, senderLock, worker, returned>>
    BY <1>3 DEF CloseSlot, MaySlot, Goto, channelVars, workerVars
  <2>2. \A d \in Callers : pc[d] \notin {"join", "return"}
    BY <1>0, <2>1 DEF Joined
  <2>3. ~ handle => worker = "ended"
    BY <1>0, <2>2 DEF Joined
  <2>4. pc' \in [Callers -> Places] /\ pc'[c] = (IF handle THEN "join" ELSE "return")
    BY <1>0, <2>1 DEF Places
  <2>5. \A d \in Callers : d # c => pc'[d] = pc[d]
    BY <1>0, <2>1
  <2>6. Joined'
    BY <1>0, <2>1, <2>2, <2>3, <2>4, <2>5 DEF Joined
  <2>7. QED
    BY <1>0, <2>1, <2>4, <2>6
<1>4. ASSUME NEW c \in Callers, CloseJoin(c) PROVE Goal
  <2>1. /\ pc[c] = "join" /\ worker = "ended" /\ pc' = [pc EXCEPT ![c] = "return"]
        /\ UNCHANGED <<closed, senderLock, handle, handleLock, worker, returned>>
    BY <1>4 DEF CloseJoin, Goto, channelVars, workerVars
  <2>2. pc' \in [Callers -> Places] /\ pc'[c] = "return" /\ \A d \in Callers : d # c => pc'[d] = pc[d]
    BY <1>0, <2>1 DEF Places
  <2>3. Joined'
    BY <1>0, <2>1, <2>2 DEF Joined
  <2>4. QED
    BY <1>0, <2>1, <2>2, <2>3
<1>5. ASSUME NEW c \in Callers, CloseReturn(c) PROVE Goal
  <2>1. /\ pc[c] = "return" /\ handleLock' = Nobody /\ returned' = TRUE /\ pc' = [pc EXCEPT ![c] = "idle"]
        /\ UNCHANGED <<closed, senderLock, handle, worker>>
    BY <1>5 DEF CloseReturn, Goto, channelVars, workerVars
  <2>2. pc' \in [Callers -> Places] /\ pc'[c] = "idle" /\ \A d \in Callers : d # c => pc'[d] = pc[d]
    BY <1>0, <2>1 DEF Places, Outside
  <2>3. worker = "ended" /\ handleLock = c
    BY <1>0, <2>1 DEF Joined
  <2>4. Joined'
    BY <1>0, <2>1, <2>2, <2>3 DEF Joined
  <2>5. QED
    BY <1>0, <2>1, <2>2, <2>4
<1>6. ASSUME UNCHANGED <<pc, senderLock, handle, handleLock, returned>>, closed' \in BOOLEAN,
             worker = "ended" => worker' = "ended"
      PROVE  Goal
  BY <1>0, <1>6 DEF Joined
<1>7. CASE Work
  <2>1. /\ UNCHANGED <<pc, senderLock, handle, handleLock, returned>> /\ closed' \in BOOLEAN
        /\ worker # "ended"
    BY <1>0, <1>7 DEF Work, Receive, CallReturns, CallPanics, Disconnected, End
  <2>2. QED
    BY <1>6, <2>1
<1>8. CASE UNCHANGED vars
  BY <1>0, <1>6, <1>8 DEF vars
<1>9. QED
  BY <1>2, <1>3, <1>4, <1>5, <1>7, <1>8 DEF Next, Continue

-----------------------------------------------------------------------------

\* What the invariant says of a close that has returned.
LEMMA DrainedByInvariant == IInv => DrainedOnClose
<1> SUFFICES ASSUME IInv PROVE DrainedOnClose
  OBVIOUS
<1>1. handled = SubSeq(accepted, 1, Len(handled))
  BY PartOf DEF IInv, Contents, InOrder
<1>2. ASSUME returned, panics = 0 PROVE handled = accepted
  <2>1. worker = "ended" /\ hand = << >> /\ queue = << >>
    BY <1>2 DEF IInv, Joined, Holding, Exhausted
  <2>2. (handled \o << >>) \o << >> = handled
    BY ConcatEmptySeq DEF IInv, Contents
  <2>3. QED
    BY <1>2, <2>1, <2>2 DEF IInv, Conserved
<1>3. QED
  BY <1>1, <1>2 DEF DrainedOnClose, IInv, Joined

\* When any close from outside returns, also the second of two concurrent ones, the worker has ended and
\* every accepted event was handled, in order, unless the callback panicked (ReverseSubscription::close, run_subscription).
THEOREM EventsAreDrained ==
  ASSUME Nobody \notin Callers
  PROVE  Spec => []DrainedOnClose
<1>1. IInv /\ [Next]_vars => IInv'
  BY EventsStep, CallersStep DEF IInv, Contents
<1>2. QED
  BY IInvInit, <1>1, DrainedByInvariant, PTL DEF Spec
=============================================================================
