---------------------------- MODULE AudioWorker ----------------------------
(***************************************************************************)
(* The control session between an application and its audio worker         *)
(* process: gr_audio_worker's client::Control and client_pcm::SampleStreams *)
(* on one side; the control loop, the USB thread with its HID handler and  *)
(* the PCM thread of session::run_typed on the other.                      *)
(*                                                                         *)
(* The client exchanges one message at a time.  The worker's control loop  *)
(* forwards state updates to the USB thread and waits for its              *)
(* acknowledgement; either thread may fail at any moment and then wakes    *)
(* the control loop by shutting down the read half of its socket.  The     *)
(* session ends by joining both threads and sending one last message: an   *)
(* acknowledgement of the close, or the reason of the failure.             *)
(***************************************************************************)
EXTENDS Integers, Sequences, FiniteSets

CONSTANTS
  States,       \* native controller states, as encoded snapshots
  Initial,      \* the neutral state a session starts with
  EventQueue,   \* capacity of the reverse-event channel
  MaxSequence,  \* bound: accepted state updates
  MaxEvents,    \* bound: host outputs
  MaxExchanges  \* bound: other exchanges of the client

VARIABLES
  \* The client.
  client,      \* "idle", or the operation whose reply it waits for
  closed,      \* Control.closed
  sequence,    \* Control.sequence
  sent,        \* the state of the last update sent
  accepted,    \* the state of the last update accepted
  outcome,     \* result of the last exchange
  pump,        \* the client PCM pump: "running", "joined"
  channels,    \* the client holds the PCM channels open
  exchanges,   \* exchanges made that are not updates
  \* The socket.
  toWorker,    \* messages the worker has not read
  toClient,    \* messages the client has not read
  readShut,    \* the worker's read half is shut down
  \* The worker.
  control,     \* the control loop: "read", "ack", "join", "exited"
  current,     \* the update the control loop waits on: [sequence, state]
  failed,      \* the control loop returned an error
  stop,        \* Threads.stop
  usb,         \* the USB thread: "running", "failed", "stopped"
  pcm,         \* the PCM thread, likewise
  updates,     \* the updates channel
  acks,        \* the acknowledgements channel
  events,      \* the reverse-event channel
  lost,        \* events lost to a full channel
  applied,     \* Transactions: sequence and state
  \* History for the properties only.
  faults,      \* what went wrong by itself
  produced,    \* host outputs produced
  taken        \* host outputs delivered to the client

clientVars == <<client, closed, sequence, sent, accepted, outcome, pump, channels, exchanges>>
socketVars == <<toWorker, toClient, readShut>>
workerVars == <<control, current, failed, stop, usb, pcm, updates, acks, lost, applied>>
eventVars == <<events, produced, taken>>
vars == <<clientVars, socketVars, workerVars, eventVars, faults>>

NoUpdate == [sequence |-> 0, state |-> Initial]
Alive(t) == t = "running"
PeerGone == control = "exited"

(***************************************************************************)
(* Definitions named Faulty... are plausible defects of the definition     *)
(* that follows them.  They are used only to test that the properties can  *)
(* tell the defect from the code.                                          *)
(***************************************************************************)

-----------------------------------------------------------------------------
(* The client.                                                             *)

\* exchange: a request is written and its reply awaited.  Once the worker's read
\* half is shut the write fails, and only a failure it left behind is awaited.
Exchange(operation, message) ==
  /\ client = "idle" /\ ~ closed
  /\ IF PeerGone \/ readShut
     THEN client' = "refused" /\ UNCHANGED toWorker
     ELSE client' = operation /\ toWorker' = Append(toWorker, message)
  /\ UNCHANGED <<closed, sequence, accepted, outcome, toClient, readShut, workerVars, eventVars, faults>>

Update(s) ==
  /\ sequence < MaxSequence /\ pump = "running"
  /\ Exchange("update", [tag |-> "update", sequence |-> sequence + 1, state |-> s])
  /\ sent' = s
  /\ UNCHANGED <<pump, channels, exchanges>>

Output ==
  /\ exchanges < MaxExchanges /\ pump = "running"
  /\ Exchange("output", [tag |-> "output"])
  /\ exchanges' = exchanges + 1
  /\ UNCHANGED <<sent, pump, channels>>

\* SampleStreams::close_with, first part: stop and join the client's pump.
StopPump ==
  /\ pump = "running" /\ client = "idle"
  /\ pump' = "joined"
  /\ UNCHANGED <<client, closed, sequence, sent, accepted, outcome, channels, exchanges, socketVars,
                 workerVars, eventVars, faults>>

\* Then Control::close, while the PCM channels are still held.
CloseWorker ==
  /\ pump = "joined"
  /\ Exchange("close", [tag |-> "close"])
  /\ UNCHANGED <<sent, pump, channels, exchanges>>

\* Then the PCM channels are released.
DropChannels ==
  /\ pump = "joined" /\ closed /\ channels
  /\ channels' = FALSE
  /\ UNCHANGED <<client, closed, sequence, sent, accepted, outcome, pump, exchanges, socketVars,
                 workerVars, eventVars, faults>>

Terminal(reason) ==
  /\ client' = "idle" /\ closed' = TRUE /\ outcome' = reason

\* The reply to an update: accepted, or rejected with the sequence kept.
UpdateReply(reply) ==
  /\ client' = "idle"
  /\ UNCHANGED closed
  /\ IF reply.accepted
     THEN sequence' = reply.sequence /\ accepted' = sent /\ outcome' = "ok"
     ELSE UNCHANGED <<sequence, accepted>> /\ outcome' = "rejected"

\* The answer that the operation under way expects.
Expected(reply) ==
  reply.tag = client /\ (client = "update" => reply.sequence = sequence + 1)

\* A message arrives: the worker's failure, the reply, or a foreign reply.
ClientReceive ==
  /\ client # "idle" /\ toClient # <<>>
  /\ LET reply == Head(toClient)
         ended == CASE reply.tag = "failure" -> "failure"
                    [] reply.tag # "failure" /\ client = "refused" -> "refused"
                    [] reply.tag # "failure" /\ client # "refused" /\ ~ Expected(reply) -> "invalid"
                    [] OTHER -> "closed"
     IN IF Expected(reply) /\ client # "close"
        THEN IF client = "update" THEN UpdateReply(reply)
             ELSE client' = "idle" /\ outcome' = "ok" /\ UNCHANGED <<closed, sequence, accepted>>
        ELSE Terminal(ended) /\ UNCHANGED <<sequence, accepted>>
  /\ toClient' = Tail(toClient)
  /\ UNCHANGED <<sent, pump, channels, exchanges, toWorker, readShut, workerVars, eventVars, faults>>

\* The socket ends without a message, or the wait for one is over: two seconds
\* for a reply, twenty milliseconds for the failure behind a refused write.
ClientEof ==
  /\ client # "idle" /\ toClient = <<>> /\ PeerGone
  /\ Terminal("eof")
  /\ UNCHANGED <<sequence, sent, accepted, pump, channels, exchanges, socketVars, workerVars, eventVars, faults>>

ClientTimeout ==
  /\ client # "idle" /\ toClient = <<>>
  /\ Terminal("timeout")
  /\ faults' = faults \cup {"timeout"}
  /\ UNCHANGED <<sequence, sent, accepted, pump, channels, exchanges, socketVars, workerVars, eventVars>>

\* The owner abandons the session without closing it.
Abandon ==
  /\ client = "idle" /\ ~ closed
  /\ closed' = TRUE /\ channels' = FALSE /\ pump' = "joined" /\ outcome' = "abandoned"
  /\ faults' = faults \cup {"abandoned"}
  /\ UNCHANGED <<client, sequence, sent, accepted, exchanges, socketVars, workerVars, eventVars>>

-----------------------------------------------------------------------------
(* The worker's control loop.                                              *)

\* control_loop returns; run_typed goes on to join the threads.
Return(error) ==
  /\ control' = "join" /\ failed' = error /\ stop' = TRUE

\* A message to a client that has hung up fails.
Reply(message) == toClient' = IF closed THEN toClient ELSE Append(toClient, message)

\* The loop goes on after a reply, unless the reply could not be written.
Replied ==
  IF closed THEN Return(TRUE) ELSE control' = "read" /\ UNCHANGED <<failed, stop>>

ReadUpdate ==
  /\ control = "read" /\ toWorker # <<>> /\ Head(toWorker).tag = "update"
  /\ toWorker' = Tail(toWorker)
  /\ current' = [sequence |-> Head(toWorker).sequence, state |-> Head(toWorker).state]
  /\ IF Alive(usb) THEN updates' = Append(updates, current') /\ control' = "ack" /\ UNCHANGED <<failed, stop>>
     ELSE Return(TRUE) /\ UNCHANGED updates
  /\ UNCHANGED <<clientVars, toClient, readShut, usb, pcm, acks, lost, applied, eventVars, faults>>

\* The USB thread's acknowledgement is checked and forwarded.
Acknowledge ==
  /\ control = "ack" /\ acks # <<>>
  /\ acks' = Tail(acks)
  /\ IF Head(acks).sequence = current.sequence
     THEN /\ Reply([tag |-> "update", sequence |-> current.sequence, accepted |-> Head(acks).accepted])
          /\ Replied
     ELSE Return(TRUE) /\ UNCHANGED toClient
  /\ UNCHANGED <<clientVars, toWorker, readShut, current, usb, pcm, updates, lost, applied, eventVars, faults>>

FaultyAcknowledgeFail ==
  /\ control = "ack" /\ acks = <<>> /\ pcm = "failed" /\ ~ Alive(usb)
  /\ Return(TRUE)
  /\ UNCHANGED <<clientVars, socketVars, current, usb, pcm, updates, acks, lost, applied, eventVars, faults>>

\* No acknowledgement: the USB thread is gone.
AcknowledgeFail ==
  /\ control = "ack" /\ acks = <<>> /\ ~ Alive(usb)
  /\ Return(TRUE)
  /\ UNCHANGED <<clientVars, socketVars, current, usb, pcm, updates, acks, lost, applied, eventVars, faults>>

\* Or it does not answer within a second.
AcknowledgeTimeout ==
  /\ control = "ack" /\ acks = <<>>
  /\ Return(TRUE)
  /\ faults' = faults \cup {"slow"}
  /\ UNCHANGED <<clientVars, socketVars, current, usb, pcm, updates, acks, lost, applied, eventVars>>

\* One event is handed out; an empty channel without a sender is a failure.
ReadOutput ==
  /\ control = "read" /\ toWorker # <<>> /\ Head(toWorker).tag = "output"
  /\ toWorker' = Tail(toWorker)
  /\ IF events = <<>> /\ ~ Alive(usb)
     THEN Return(TRUE) /\ UNCHANGED <<toClient, eventVars>>
     ELSE /\ Reply([tag |-> "output"])
          /\ taken' = IF events = <<>> THEN taken ELSE Append(taken, Head(events))
          /\ events' = IF events = <<>> THEN events ELSE Tail(events)
          /\ Replied /\ UNCHANGED produced
  /\ UNCHANGED <<clientVars, readShut, current, usb, pcm, updates, acks, lost, applied, faults>>

ReadClose ==
  /\ control = "read" /\ toWorker # <<>> /\ Head(toWorker).tag = "close"
  /\ toWorker' = Tail(toWorker)
  /\ Return(FALSE)
  /\ UNCHANGED <<clientVars, toClient, readShut, current, usb, pcm, updates, acks, lost, applied,
                 eventVars, faults>>

\* The socket ended: a thread woke the reader, or the client is gone.  What was
\* written before is read first.
ReadEof ==
  /\ control = "read" /\ toWorker = <<>> /\ (readShut \/ closed)
  /\ Return(TRUE)
  /\ UNCHANGED <<clientVars, socketVars, current, usb, pcm, updates, acks, lost, applied, eventVars, faults>>

\* Threads::close has joined both threads.
Joined == ~ Alive(usb) /\ ~ Alive(pcm)

\* finish: one last message, then the socket is shut down.
Finish ==
  /\ control = "join" /\ Joined
  /\ control' = "exited"
  /\ Reply(IF failed \/ usb = "failed" \/ pcm = "failed" THEN [tag |-> "failure"] ELSE [tag |-> "close"])
  /\ UNCHANGED <<clientVars, toWorker, readShut, current, failed, stop, usb, pcm, updates, acks,
                 lost, applied, eventVars, faults>>

-----------------------------------------------------------------------------
(* The worker's threads.                                                   *)

\* CloseOnExit: a thread that ends unasked wakes the control reader.
Wake == readShut' = (readShut \/ ~ stop)

\* Transactions::apply: exactly the next sequence, a retry of the last one, or
\* nothing; valid is whether the snapshot decodes.
Accepts(u, valid) ==
  \/ u.sequence = applied.sequence /\ u.sequence # 0 /\ u.state = applied.state
  \/ u.sequence = applied.sequence + 1 /\ valid

FaultyApplied(u) == [sequence |-> u.sequence, state |-> applied.state]

Applied(u) == u

\* Handler::service takes one update and acknowledges it.
UsbService(valid) ==
  /\ Alive(usb) /\ updates # <<>>
  /\ LET u == Head(updates)
     IN /\ applied' = IF Accepts(u, valid) THEN Applied(u) ELSE applied
        /\ acks' = Append(acks, [sequence |-> u.sequence, accepted |-> Accepts(u, valid)])
  /\ updates' = Tail(updates)
  /\ UNCHANGED <<clientVars, socketVars, control, current, failed, stop, usb, pcm, lost, eventVars, faults>>

\* A host output is queued for the client, or counted as lost.
HostOutput ==
  /\ Alive(usb) /\ produced < MaxEvents
  /\ produced' = produced + 1
  /\ IF Len(events) < EventQueue
     THEN events' = Append(events, produced + 1) /\ UNCHANGED lost
     ELSE lost' = lost + 1 /\ UNCHANGED events
  /\ UNCHANGED <<clientVars, socketVars, control, current, failed, stop, usb, pcm, updates, acks,
                 applied, taken, faults>>

UsbFail ==
  /\ Alive(usb)
  /\ usb' = "failed" /\ Wake
  /\ faults' = faults \cup {"usb"}
  /\ UNCHANGED <<clientVars, toWorker, toClient, control, current, failed, stop, pcm, updates, acks,
                 lost, applied, eventVars>>

UsbStop ==
  /\ Alive(usb) /\ stop
  /\ usb' = "stopped"
  /\ UNCHANGED <<clientVars, socketVars, control, current, failed, stop, pcm, updates, acks, lost,
                 applied, eventVars, faults>>

PcmFail ==
  /\ Alive(pcm)
  /\ pcm' = "failed" /\ Wake
  /\ faults' = faults \cup {"pcm"}
  /\ UNCHANGED <<clientVars, toWorker, toClient, control, current, failed, stop, usb, updates, acks,
                 lost, applied, eventVars>>

\* The client's ends of the PCM channels are gone: an error like any other.
PcmEof ==
  /\ Alive(pcm) /\ ~ channels
  /\ pcm' = "failed" /\ Wake
  /\ UNCHANGED <<clientVars, toWorker, toClient, control, current, failed, stop, usb, updates, acks,
                 lost, applied, eventVars, faults>>

PcmStop ==
  /\ Alive(pcm) /\ stop
  /\ pcm' = "stopped"
  /\ UNCHANGED <<clientVars, socketVars, control, current, failed, stop, usb, updates, acks, lost,
                 applied, eventVars, faults>>

\* The worker process is killed.
Crash ==
  /\ control # "exited"
  /\ control' = "exited" /\ usb' = "failed" /\ pcm' = "failed"
  /\ faults' = faults \cup {"crash"}
  /\ UNCHANGED <<clientVars, socketVars, current, failed, stop, updates, acks, lost, applied, eventVars>>

-----------------------------------------------------------------------------

Init ==
  /\ client = "idle" /\ closed = FALSE /\ sequence = 0 /\ sent = Initial /\ accepted = Initial /\ outcome = "ok"
  /\ pump = "running" /\ channels = TRUE /\ exchanges = 0
  /\ toWorker = <<>> /\ toClient = <<>> /\ readShut = FALSE
  /\ control = "read" /\ current = NoUpdate /\ failed = FALSE /\ stop = FALSE
  /\ usb = "running" /\ pcm = "running"
  /\ updates = <<>> /\ acks = <<>> /\ events = <<>> /\ lost = 0 /\ applied = NoUpdate
  /\ faults = {} /\ produced = 0 /\ taken = <<>>

ClientSteps ==
  \/ \E s \in States : Update(s)
  \/ Output \/ StopPump \/ CloseWorker \/ DropChannels \/ Abandon

ClientAnswers == ClientReceive \/ ClientEof \/ ClientTimeout

ControlSteps ==
  \/ ReadUpdate \/ Acknowledge \/ AcknowledgeFail \/ AcknowledgeTimeout
  \/ ReadOutput \/ ReadClose \/ ReadEof \/ Finish

ThreadSteps ==
  \/ \E valid \in BOOLEAN : UsbService(valid)
  \/ HostOutput \/ UsbFail \/ UsbStop \/ PcmFail \/ PcmEof \/ PcmStop \/ Crash

Next == ClientSteps \/ ClientAnswers \/ ControlSteps \/ ThreadSteps

Spec == Init /\ [][Next]_vars

\* Every thread runs: the control loop handles what it can, the USB thread
\* serves updates and notices stop, the PCM thread notices stop, and the client
\* reads what was sent to it.  No failure and no timeout is assumed to happen.
FairSpec ==
  /\ Spec
  /\ WF_vars(ClientReceive \/ ClientEof)
  /\ WF_vars(ReadUpdate \/ Acknowledge \/ AcknowledgeFail \/ ReadOutput \/ ReadClose \/ ReadEof \/ Finish)
  /\ WF_vars(\E valid \in BOOLEAN : UsbService(valid))
  /\ WF_vars(UsbStop) /\ WF_vars(PcmStop)

-----------------------------------------------------------------------------
(* Properties.                                                             *)

Outcomes == {"ok", "rejected", "failure", "invalid", "closed", "refused", "eof", "timeout", "abandoned"}

\* Types, and the capacities of the worker's channels: one exchange at a time
\* never fills the channels of eight.
TypeOK ==
  /\ client \in {"idle", "update", "output", "close", "refused"} /\ outcome \in Outcomes
  /\ sequence \in 0..MaxSequence /\ sent \in States /\ accepted \in States
  /\ pump \in {"running", "joined"} /\ exchanges \in 0..MaxExchanges
  /\ Len(toWorker) <= 1 /\ Len(toClient) <= 2
  /\ control \in {"read", "ack", "join", "exited"}
  /\ usb \in {"running", "failed", "stopped"} /\ pcm \in {"running", "failed", "stopped"}
  /\ Len(updates) <= 1 /\ Len(acks) <= 1 /\ Len(events) <= EventQueue
  /\ applied \in [sequence: 0..MaxSequence, state: States]

\* Between exchanges the worker plays the state the client last had accepted,
\* under the same sequence number: an accepted update is applied, a rejected
\* one leaves both sides as they were and its number is used again.  No reply
\* is taken for the reply to another request.
StateAgreed ==
  /\ client = "idle" /\ ~ closed => applied = [sequence |-> sequence, state |-> accepted]
  /\ outcome \notin {"invalid", "refused"}

\* A successful close certifies that both processing threads have ended
\* without an error, so no audio or USB traffic follows it; and a close in the
\* order of close_with succeeds unless something failed by itself: the worker
\* never takes the normal release of the PCM channels for their loss.
CloseCertified ==
  /\ outcome = "closed" => usb = "stopped" /\ pcm = "stopped"
  /\ closed /\ faults = {} => outcome = "closed"

\* Host outputs reach the client in order, and each one is delivered, still
\* queued or counted as lost, when the bounded queue is full too.
EventsAccounted ==
  /\ produced = Len(taken) + Len(events) + lost
  /\ \A i, j \in 1..Len(taken \o events) : i < j => (taken \o events)[i] < (taken \o events)[j]

\* A worker that fails tells the client why: an exchange ends without an
\* answer only if the worker process was killed.
FailureSurfaces ==
  outcome = "eof" => "crash" \in faults

\* An exchange always ends, also when a thread fails while it is under way.
ExchangeEnds == []<>(client = "idle")
=============================================================================
