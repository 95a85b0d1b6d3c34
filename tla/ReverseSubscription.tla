------------------------- MODULE ReverseSubscription -------------------------
(***************************************************************************)
(* gr_controller_runtime::ReverseSubscription: typed events are published  *)
(* into a bounded channel and handed to a callback on a worker thread.     *)
(* Any thread may publish and close, the callback too; the callback may    *)
(* panic.  A call is a sequence of steps: it reads or sets the closed      *)
(* flag, takes the sender's lock, and a close from outside also takes the  *)
(* lock of the worker's handle and joins the thread.                       *)
(***************************************************************************)
EXTENDS Integers, Sequences, FiniteSets

CONSTANTS
  Threads,    \* threads outside the subscription
  Callback,   \* the callback, as a caller of the subscription's operations
  Capacity,   \* capacity of the channel
  MaxEvents   \* bound: publications

Callers == Threads \cup {Callback}
Nobody == "nobody"

VARIABLES
  pc,         \* per caller: "idle", or the step of the call it is in
  closed,     \* SubscriptionState.closed
  sender,     \* the sender is still there
  senderLock, \* who holds the sender's mutex
  handle,     \* the join handle is still there
  handleLock, \* who holds its mutex
  queue,      \* the channel
  worker,     \* the worker thread: "recv", "call", "ending", "ended"
  hand,       \* the event the callback has, as a sequence of at most one
  delivered, dropped, panics,   \* SubscriptionState counters
  \* History.
  published,  \* publications begun
  accepted,   \* events accepted, in order
  handled,    \* events the callback returned from, in order
  returned    \* some close from outside has returned

vars == <<pc, closed, sender, senderLock, handle, handleLock, queue, worker, hand, delivered,
          dropped, panics, published, accepted, handled, returned>>
channelVars == <<queue, published, accepted, dropped>>
workerVars == <<worker, hand, delivered, panics, handled>>

(***************************************************************************)
(* Definitions named Faulty... are plausible defects of the definition     *)
(* that follows them.  They are used only to test that the properties can  *)
(* tell the defect from the code.                                          *)
(***************************************************************************)

\* The callback calls only while it runs.
Runs(c) == c = Callback => worker = "call"

Goto(c, step) == pc' = [pc EXCEPT ![c] = step]

-----------------------------------------------------------------------------
(* publish                                                                 *)

PublishCheck(c) ==
  /\ pc[c] = "idle" /\ Runs(c) /\ published < MaxEvents
  /\ published' = published + 1
  /\ Goto(c, IF closed THEN "idle" ELSE "publish lock")
  /\ UNCHANGED <<closed, sender, senderLock, handle, handleLock, queue, accepted, dropped, workerVars, returned>>

PublishLock(c) ==
  /\ pc[c] = "publish lock" /\ senderLock = Nobody
  /\ senderLock' = c
  /\ Goto(c, "send")
  /\ UNCHANGED <<closed, sender, handle, handleLock, channelVars, workerVars, returned>>

\* An event refused by a full channel.
DropCounted == dropped' = dropped + 1

HasRoom == Len(queue) < Capacity

\* try_send: accepted, refused by a full channel, or disconnected.
PublishSend(c) ==
  /\ pc[c] = "send"
  /\ senderLock' = Nobody
  /\ Goto(c, "idle")
  /\ IF ~ sender \/ worker = "ended" THEN UNCHANGED <<queue, accepted, dropped>>
     ELSE IF HasRoom
          THEN /\ queue' = Append(queue, Len(accepted) + 1)
               /\ accepted' = Append(accepted, Len(accepted) + 1)
               /\ UNCHANGED dropped
          ELSE DropCounted /\ UNCHANGED <<queue, accepted>>
  /\ UNCHANGED <<closed, sender, handle, handleLock, published, workerVars, returned>>

-----------------------------------------------------------------------------
(* close                                                                   *)

CloseStore(c) ==
  /\ pc[c] = "idle" /\ Runs(c)
  /\ closed' = TRUE
  /\ Goto(c, "close lock")
  /\ UNCHANGED <<sender, senderLock, handle, handleLock, channelVars, workerVars, returned>>

CloseLock(c) ==
  /\ pc[c] = "close lock" /\ senderLock = Nobody
  /\ senderLock' = c
  /\ Goto(c, "take")
  /\ UNCHANGED <<closed, sender, handle, handleLock, channelVars, workerVars, returned>>

\* Closing from the callback must not wait for its own thread.
Joins(c) == c # Callback

\* The lock is released with the statement that took the sender.
Released == senderLock' = Nobody

CloseTake(c) ==
  /\ pc[c] = "take"
  /\ sender' = FALSE
  /\ Released
  /\ Goto(c, IF Joins(c) THEN "slot" ELSE "idle")
  /\ UNCHANGED <<closed, handle, handleLock, channelVars, workerVars, returned>>

FaultyMaySlot == TRUE

\* External closers wait for each other through the join.
MaySlot == handleLock = Nobody

CloseSlot(c) ==
  /\ pc[c] = "slot" /\ MaySlot
  /\ handleLock' = c
  /\ handle' = FALSE
  /\ Goto(c, IF handle THEN "join" ELSE "return")
  /\ UNCHANGED <<closed, sender, senderLock, channelVars, workerVars, returned>>

CloseJoin(c) ==
  /\ pc[c] = "join" /\ worker = "ended"
  /\ Goto(c, "return")
  /\ UNCHANGED <<closed, sender, senderLock, handle, handleLock, channelVars, workerVars, returned>>

CloseReturn(c) ==
  /\ pc[c] = "return"
  /\ handleLock' = Nobody
  /\ returned' = TRUE
  /\ Goto(c, "idle")
  /\ UNCHANGED <<closed, sender, senderLock, handle, channelVars, workerVars>>

-----------------------------------------------------------------------------
(* run_subscription                                                        *)

Receive ==
  /\ worker = "recv" /\ queue # <<>>
  /\ hand' = <<Head(queue)>> /\ queue' = Tail(queue)
  /\ worker' = "call"
  /\ UNCHANGED <<pc, closed, sender, senderLock, handle, handleLock, published, accepted, dropped,
                 delivered, panics, handled, returned>>

CallReturns ==
  /\ worker = "call" /\ pc[Callback] = "idle"
  /\ handled' = handled \o hand /\ hand' = <<>>
  /\ delivered' = delivered + 1
  /\ worker' = "recv"
  /\ UNCHANGED <<pc, closed, sender, senderLock, handle, handleLock, channelVars, panics, returned>>

\* A panicking callback ends the worker.
CallPanics ==
  /\ worker = "call" /\ pc[Callback] = "idle"
  /\ hand' = <<>>
  /\ panics' = panics + 1
  /\ worker' = "ending"
  /\ UNCHANGED <<pc, closed, sender, senderLock, handle, handleLock, channelVars, delivered, handled, returned>>

\* The channel ends when it is empty and its sender is gone.
MayEnd == queue = <<>> /\ ~ sender

Disconnected ==
  /\ worker = "recv" /\ MayEnd
  /\ worker' = "ending"
  /\ UNCHANGED <<pc, closed, sender, senderLock, handle, handleLock, channelVars, hand, delivered,
                 panics, handled, returned>>

\* The flag is set and the receiver dropped with what it still holds.
End ==
  /\ worker = "ending"
  /\ closed' = TRUE
  /\ worker' = "ended" /\ queue' = <<>>
  /\ UNCHANGED <<pc, sender, senderLock, handle, handleLock, published, accepted, dropped, hand,
                 delivered, panics, handled, returned>>

-----------------------------------------------------------------------------

Init ==
  /\ pc = [c \in Callers |-> "idle"]
  /\ closed = FALSE /\ sender = TRUE /\ senderLock = Nobody
  /\ handle = TRUE /\ handleLock = Nobody
  /\ queue = <<>> /\ worker = "recv" /\ hand = <<>>
  /\ delivered = 0 /\ dropped = 0 /\ panics = 0
  /\ published = 0 /\ accepted = <<>> /\ handled = <<>> /\ returned = FALSE

Continue(c) ==
  \/ PublishLock(c) \/ PublishSend(c)
  \/ CloseLock(c) \/ CloseTake(c) \/ CloseSlot(c) \/ CloseJoin(c) \/ CloseReturn(c)

Work == Receive \/ CallReturns \/ CallPanics \/ Disconnected \/ End

Next ==
  \/ \E c \in Callers : PublishCheck(c) \/ CloseStore(c) \/ Continue(c)
  \/ Work

Spec == Init /\ [][Next]_vars

\* Threads run, mutexes are granted, and the callback returns or panics.  No
\* thread is assumed to publish or to close.
FairSpec ==
  /\ Spec
  /\ \A c \in Callers : SF_vars(Continue(c))
  /\ WF_vars(Work) /\ SF_vars(CallReturns \/ CallPanics)

-----------------------------------------------------------------------------
(* Properties.                                                             *)

\* Types and the capacity of the channel.
TypeOK ==
  /\ pc \in [Callers -> {"idle", "publish lock", "send", "close lock", "take", "slot", "join", "return"}]
  /\ closed \in BOOLEAN /\ sender \in BOOLEAN /\ handle \in BOOLEAN
  /\ senderLock \in Callers \cup {Nobody} /\ handleLock \in Callers \cup {Nobody}
  /\ worker \in {"recv", "call", "ending", "ended"}
  /\ Len(queue) <= Capacity /\ Len(hand) <= 1

\* When a close from outside returns, also the second of two concurrent ones,
\* the callback will not run again and every accepted event has been handled,
\* unless the callback panicked.  Handled events are handled in the order of
\* their acceptance.
DrainedOnClose ==
  /\ handled = SubSeq(accepted, 1, Len(handled))
  /\ returned => worker = "ended" /\ (panics = 0 => handled = accepted)

\* A call of close is under way.
Closing(c) == pc[c] \in {"close lock", "take", "slot", "join", "return"}

\* A close from outside ends also when the callback publishes, closes the same
\* subscription or panics meanwhile.
CloseReturns ==
  \A c \in Threads : []<>(~ Closing(c))
=============================================================================
