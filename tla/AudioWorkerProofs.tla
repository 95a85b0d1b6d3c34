-------------------------- MODULE AudioWorkerProofs --------------------------
(***************************************************************************)
(* The control session keeps its client and its worker in agreement, for   *)
(* any set of states, any capacity of the event channel and any number of  *)
(* exchanges.                                                               *)
(*                                                                         *)
(* The argument follows the one exchange that may be under way: its        *)
(* request waits in the socket, is served by the USB thread, has been      *)
(* served, or has been answered, and otherwise nothing is under way.  Each *)
(* stage says what every channel holds, which state the worker plays and   *)
(* how far its control loop has come.  Beside the stages stand what the    *)
(* loop knows of the two threads, and that nothing is blamed on a session  *)
(* in which nothing failed by itself.                                      *)
(***************************************************************************)
EXTENDS AudioWorker, SequenceTheorems, TLAPS

\* The states include the one a session starts with; the bounds are numbers.
Parameters ==
  /\ Initial \in States /\ EventQueue \in Nat
  /\ MaxSequence \in Nat /\ MaxEvents \in Nat /\ MaxExchanges \in Nat

-----------------------------------------------------------------------------
(* The inductive invariant.                                                *)

\* What the client had accepted last, and the update it sends next or has sent.
Agreed == [sequence |-> sequence, state |-> accepted]
Pending == [sequence |-> sequence + 1, state |-> sent]

Operations == {"update", "output", "close"}
Request(op) ==
  IF op = "update" THEN [tag |-> "update", sequence |-> sequence + 1, state |-> sent] ELSE [tag |-> op]
Acked(ok) == [sequence |-> sequence + 1, accepted |-> ok]
Answer(op, ok) ==
  IF op = "update" THEN [tag |-> "update", sequence |-> sequence + 1, accepted |-> ok] ELSE [tag |-> op]
Failure == [tag |-> "failure"]
Closing == [tag |-> "close"]

Plays(ok) == applied = IF ok THEN Pending ELSE Agreed

\* Without a message from the worker it runs still, or was killed; with its
\* last message, a failure, something has failed.
Unreported == control = "exited" /\ ~ closed => "crash" \in faults
Reported == control = "exited" /\ faults # {}

\* The request is in the socket.  A client that gave up has closed.
Asked ==
  /\ control \in {"read", "exited"} /\ updates = <<>> /\ acks = <<>> /\ toClient = <<>>
  /\ \E op \in Operations :
       toWorker = <<Request(op)>> /\ (closed \/ client = op) /\ (op = "update" => sequence < MaxSequence)
  /\ applied = Agreed /\ Unreported

\* The control loop waits, or waited, for the USB thread.
Forwarded ==
  /\ control \in {"ack", "join", "exited"} /\ toWorker = <<>>
  /\ sequence < MaxSequence /\ (closed \/ client = "update")
  /\ (control = "ack" => current = Pending) /\ (control = "join" => failed)
  /\ \/ toClient = <<>> /\ Unreported
     \/ toClient = <<Failure>> /\ Reported

Serving == Forwarded /\ updates = <<Pending>> /\ acks = <<>> /\ applied = Agreed

Served == Forwarded /\ updates = <<>> /\ \E ok \in BOOLEAN : acks = <<Acked(ok)>> /\ Plays(ok)

\* The loop is not at the USB thread's channels.
Elsewhere ==
  /\ control \in {"read", "join", "exited"} /\ toWorker = <<>> /\ updates = <<>> /\ acks = <<>>
  /\ control = "join" => readShut \/ closed \/ client = "close"
  /\ control = "join" /\ ~ failed => closed \/ client = "close"

\* The answer is in the socket, perhaps with the failure that followed it.
Answered ==
  /\ Elsewhere /\ ~ closed /\ client \in {"update", "output"}
  /\ client = "update" => sequence < MaxSequence
  /\ \E ok \in BOOLEAN :
       /\ Plays(ok) /\ (ok => client = "update")
       /\ \/ toClient = <<Answer(client, ok)>> /\ Unreported
          \/ toClient = <<Answer(client, ok), Failure>> /\ Reported

\* Nothing is under way but perhaps the worker's last message.
Silent ==
  /\ Elsewhere /\ (~ closed => applied = Agreed)
  /\ \/ toClient = <<>> /\ Unreported
     \/ toClient = <<Failure>> /\ Reported
     \/ /\ toClient = <<Closing>> /\ control = "exited"
        /\ ~ closed /\ client = "close" /\ usb = "stopped" /\ pcm = "stopped"

Stage == Asked \/ Serving \/ Served \/ Answered \/ Silent

\* The threads stop when they are asked to, and a thread that ends unasked has
\* woken the control loop.
Threads ==
  /\ control \in {"read", "ack"} => ~ stop /\ ~ failed
  /\ usb = "stopped" \/ pcm = "stopped" => stop
  /\ control = "exited" => ~ Alive(usb) /\ ~ Alive(pcm)
  /\ control \in {"read", "ack"} /\ Joined => readShut
  /\ control \in {"read", "ack"} /\ ~ Alive(usb) => readShut

\* Whatever ended in error had a cause.
Blamed ==
  failed \/ readShut \/ usb = "failed" \/ pcm = "failed" => faults # {}

\* How the client's session ended.
Ended ==
  /\ closed => client = "idle"
  /\ ~ channels => closed
  /\ outcome \notin {"invalid", "refused"}
  /\ outcome = "closed" => closed /\ control = "exited" /\ usb = "stopped" /\ pcm = "stopped"
  /\ closed /\ faults = {} => outcome = "closed"
  /\ outcome = "eof" => "crash" \in faults

\* The types that the channels' contents do not follow from.
Typed ==
  /\ client \in {"idle", "update", "output", "close", "refused"} /\ outcome \in Outcomes
  /\ sequence \in 0..MaxSequence /\ sent \in States /\ accepted \in States
  /\ pump \in {"running", "joined"} /\ exchanges \in 0..MaxExchanges
  /\ closed \in BOOLEAN /\ channels \in BOOLEAN /\ readShut \in BOOLEAN
  /\ failed \in BOOLEAN /\ stop \in BOOLEAN
  /\ control \in {"read", "ack", "join", "exited"}
  /\ usb \in {"running", "failed", "stopped"} /\ pcm \in {"running", "failed", "stopped"}
  /\ applied \in [sequence: 0..MaxSequence, state: States]

\* The host's outputs, numbered in the order in which they were produced.
Events ==
  /\ produced \in Nat /\ lost \in Nat /\ taken \in Seq(Nat) /\ events \in Seq(Nat)
  /\ Len(events) <= EventQueue
  /\ produced = Len(taken) + Len(events) + lost
  /\ \A i \in 1..Len(taken \o events) : (taken \o events)[i] <= produced
  /\ \A i, j \in 1..Len(taken \o events) : i < j => (taken \o events)[i] < (taken \o events)[j]

Inv == Typed /\ Stage /\ Threads /\ Blamed /\ Ended

-----------------------------------------------------------------------------
(* Channels of one and of two messages.                                    *)

LEMMA OneMessage ==
  ASSUME NEW m, NEW n
  PROVE  /\ <<m>> # << >> /\ Len(<<m>>) = 1 /\ Head(<<m>>) = m /\ Tail(<<m>>) = << >>
         /\ Append(<< >>, m) = <<m>>
         /\ <<m>> = <<n>> => m = n
OBVIOUS

LEMMA TwoMessages ==
  ASSUME NEW m, NEW n
  PROVE  /\ <<m, n>> # << >> /\ Len(<<m, n>>) = 2 /\ Head(<<m, n>>) = m /\ Tail(<<m, n>>) = <<n>>
         /\ Append(<<m>>, n) = <<m, n>>
<1>1. <<m, n>> # << >> /\ Len(<<m, n>>) = 2 /\ Head(<<m, n>>) = m
  OBVIOUS
<1>2. Append(<<m>>, n) = <<m, n>>
  <2>1. <<m>> \in Seq({m, n}) /\ n \in {m, n}
    OBVIOUS
  <2>2. /\ Append(<<m>>, n) \in Seq({m, n}) /\ Len(Append(<<m>>, n)) = 2
        /\ Append(<<m>>, n)[1] = m /\ Append(<<m>>, n)[2] = n
    BY <2>1
  <2>3. /\ <<m, n>> \in Seq({m, n}) /\ Len(<<m, n>>) = 2 /\ <<m, n>>[1] = m /\ <<m, n>>[2] = n
    OBVIOUS
  <2>4. \A i \in 1..2 : Append(<<m>>, n)[i] = <<m, n>>[i]
    BY <2>2, <2>3
  <2> QED
    BY <2>2, <2>3, <2>4, SeqEqual
<1>3. Tail(<<m, n>>) = <<n>>
  <2>1. <<m, n>> \in Seq({m, n})
    OBVIOUS
  <2>2. Len(Tail(<<m, n>>)) = 1 /\ Tail(<<m, n>>)[1] = n /\ Tail(<<m, n>>) \in Seq({m, n})
    BY <2>1
  <2> QED
    BY <2>2
<1> QED
  BY <1>1, <1>2, <1>3

\* What tells the messages apart.
LEMMA Tags ==
  ASSUME NEW op \in Operations, NEW ok
  PROVE  /\ Request(op).tag = op /\ Answer(op, ok).tag = op
         /\ Request("update").sequence = sequence + 1 /\ Request("update").state = sent
         /\ Answer("update", ok).sequence = sequence + 1 /\ Answer("update", ok).accepted = ok
         /\ Acked(ok).sequence = sequence + 1 /\ Acked(ok).accepted = ok
         /\ Pending.sequence = sequence + 1 /\ Pending.state = sent
         /\ Agreed.sequence = sequence /\ Agreed.state = accepted
         /\ Failure.tag = "failure" /\ Closing.tag = "close"
BY DEF Operations, Request, Answer, Acked, Pending, Agreed, Failure, Closing

-----------------------------------------------------------------------------
(* What the stages say.                                                    *)

LEMMA AskedStage ==
  ASSUME Stage, toWorker # << >>
  PROVE  Asked
BY DEF Stage, Serving, Served, Forwarded, Answered, Silent, Elsewhere

LEMMA ForwardedStage ==
  ASSUME Stage, control = "ack"
  PROVE  Serving \/ Served
BY DEF Stage, Asked, Answered, Silent, Elsewhere

LEMMA ServingStage ==
  ASSUME Stage, updates # << >>
  PROVE  Serving
BY DEF Stage, Asked, Served, Answered, Silent, Elsewhere

LEMMA ServedStage ==
  ASSUME Stage, acks # << >>
  PROVE  Served
BY DEF Stage, Asked, Serving, Answered, Silent, Elsewhere

LEMMA SilentStage ==
  ASSUME Stage, ~ closed, client \notin Operations
  PROVE  Silent
<1>1. ~ Asked
  BY DEF Asked
<1>2. ~ Serving /\ ~ Served
  BY DEF Serving, Served, Forwarded, Operations
<1>3. ~ Answered
  BY DEF Answered, Operations
<1> QED
  BY <1>1, <1>2, <1>3 DEF Stage

\* The loop reads, or joins the threads, and nothing asks it.
LEMMA ElsewhereStage ==
  ASSUME Stage, control = "read", toWorker = << >>
  PROVE  Answered \/ Silent
<1>1. ~ Asked
  BY OneMessage DEF Asked
<1>2. ~ Serving /\ ~ Served
  BY DEF Serving, Served, Forwarded
<1> QED
  BY <1>1, <1>2 DEF Stage

\* Each part of the stage stays when nothing in it changes, another fault is
\* noted or a thread ends.
LEMMA StageKept ==
  ASSUME Stage, faults \subseteq faults', readShut => readShut',
         usb = "stopped" => usb' = "stopped", pcm = "stopped" => pcm' = "stopped",
         UNCHANGED <<control, updates, acks, toClient, toWorker, closed, client, sequence, sent,
                     accepted, applied, current, failed>>
  PROVE  Stage'
<1>1. (Unreported => Unreported') /\ (Reported => Reported') /\ Agreed' = Agreed /\ Pending' = Pending
  BY DEF Unreported, Reported, Agreed, Pending
<1>2. /\ \A op : Request(op)' = Request(op)
      /\ \A op, ok : Answer(op, ok)' = Answer(op, ok)
      /\ \A ok : Acked(ok)' = Acked(ok) /\ (Plays(ok) => Plays(ok)')
  BY <1>1 DEF Request, Answer, Acked, Plays
<1>3. Failure' = Failure /\ Closing' = Closing
  BY DEF Failure, Closing
<1>4. Asked => Asked'
  BY <1>1, <1>2 DEF Asked
<1>5. Forwarded => Forwarded'
  BY <1>1, <1>3 DEF Forwarded
<1>6. (Serving => Serving') /\ (Served => Served')
  BY <1>1, <1>2, <1>5 DEF Serving, Served
<1>7. Elsewhere => Elsewhere'
  BY DEF Elsewhere
<1>8. Answered => Answered'
  BY <1>1, <1>2, <1>3, <1>7 DEF Answered
<1>9. Silent => Silent'
  BY <1>1, <1>3, <1>7 DEF Silent
<1> QED
  BY <1>4, <1>6, <1>8, <1>9 DEF Stage

-----------------------------------------------------------------------------
(* The client's steps.                                                     *)

LEMMA InitHolds ==
  ASSUME Parameters, Init
  PROVE  Inv
<1>1. Typed
  <2>1. 0 \in 0..MaxSequence /\ 0 \in 0..MaxExchanges /\ Initial \in States
    BY DEF Parameters
  <2>2. applied \in [sequence: 0..MaxSequence, state: States]
    BY <2>1 DEF Init, NoUpdate
  <2> QED
    BY <2>1, <2>2 DEF Init, Typed, Outcomes
<1>2. Stage
  BY DEF Init, Stage, Silent, Elsewhere, Agreed, NoUpdate, Unreported
<1>3. Threads /\ Blamed /\ Ended
  BY DEF Init, Threads, Blamed, Ended, Alive, Joined
<1> QED
  BY <1>1, <1>2, <1>3 DEF Inv

\* A request is sent only while nothing is under way, and no request after the
\* worker's read half is shut.
LEMMA ExchangeStage ==
  ASSUME Stage, NEW op \in Operations, Exchange(op, Request(op)'),
         op = "update" => sequence < MaxSequence
  PROVE  Stage'
<1>1. client = "idle" /\ ~ closed
  BY DEF Exchange
<1>2. Silent
  BY <1>1, SilentStage DEF Operations
<1>3. /\ UNCHANGED <<closed, sequence, accepted, toClient, readShut, control, updates, acks, failed,
                     applied, usb, pcm, faults>>
  BY DEF Exchange, workerVars
<1>4. Agreed' = Agreed /\ Unreported' = Unreported /\ Reported' = Reported
  BY <1>3 DEF Agreed, Unreported, Reported
<1>5. CASE PeerGone \/ readShut
  <2>1. UNCHANGED toWorker
    BY <1>5 DEF Exchange
  <2>2. Elsewhere'
    BY <1>1, <1>2, <1>3, <2>1 DEF Silent, Elsewhere
  <2>3. Silent'
    BY <1>1, <1>2, <1>3, <1>4, <2>2 DEF Silent, Failure
  <2> QED
    BY <2>3 DEF Stage
<1>6. CASE ~ (PeerGone \/ readShut)
  <2>1. client' = op /\ toWorker' = Append(toWorker, Request(op)')
    BY <1>6 DEF Exchange
  <2>2. control = "read" /\ toClient = << >> /\ toWorker = << >> /\ updates = << >> /\ acks = << >>
    BY <1>1, <1>2, <1>6 DEF Silent, Elsewhere, Reported, PeerGone
  <2>3. toWorker' = <<Request(op)'>>
    BY <2>1, <2>2, OneMessage
  <2>4. applied = Agreed
    BY <1>1, <1>2 DEF Silent
  <2>5. sequence' = sequence /\ (op = "update" => sequence' < MaxSequence)
    BY <1>3
  <2>6. Unreported'
    BY <2>2, <1>3 DEF Unreported
  <2>7. \E o \in Operations :
          toWorker' = <<Request(o)'>> /\ (closed' \/ client' = o) /\ (o = "update" => sequence' < MaxSequence)
    BY <2>1, <2>3, <2>5
  <2>8. Asked'
    BY <1>3, <1>4, <2>2, <2>4, <2>6, <2>7 DEF Asked
  <2> QED
    BY <2>8 DEF Stage
<1> QED
  BY <1>5, <1>6

LEMMA ExchangeRest ==
  ASSUME Inv, NEW op \in Operations, NEW m, Exchange(op, m), pump' = pump, channels' = channels,
         sent' \in States, exchanges' \in 0..MaxExchanges
  PROVE  Typed' /\ Threads' /\ Blamed' /\ Ended'
<1>1. /\ UNCHANGED <<closed, sequence, accepted, outcome, readShut, control, failed, stop, usb, pcm,
                     applied, faults, pump, channels>>
      /\ client' \in Operations \cup {"refused"} /\ ~ closed
  BY DEF Exchange, workerVars
<1>2. Typed'
  BY <1>1 DEF Inv, Typed, Operations
<1>3. Threads' /\ Blamed'
  BY <1>1 DEF Inv, Threads, Blamed, Joined, Alive
<1>4. Ended'
  BY <1>1 DEF Inv, Ended
<1> QED
  BY <1>2, <1>3, <1>4

LEMMA UpdateStep ==
  ASSUME Inv, NEW s \in States, Update(s)
  PROVE  Inv'
<1>1. sequence' = sequence /\ sent' = s
  BY DEF Update, Exchange
<1>2. Request("update")' = [tag |-> "update", sequence |-> sequence + 1, state |-> s]
  BY <1>1 DEF Request
<1>3. Exchange("update", Request("update")') /\ sequence < MaxSequence
  BY <1>2 DEF Update
<1>4. Stage'
  BY <1>3, ExchangeStage DEF Operations, Inv
<1>5. Exchange("update", [tag |-> "update", sequence |-> sequence + 1, state |-> s])
  BY DEF Update
<1>6. pump' = pump /\ channels' = channels /\ sent' \in States /\ exchanges' \in 0..MaxExchanges
  BY DEF Update, Inv, Typed
<1>7. Typed' /\ Threads' /\ Blamed' /\ Ended'
  BY <1>5, <1>6, ExchangeRest DEF Operations
<1> QED
  BY <1>4, <1>7 DEF Inv

LEMMA OutputStep ==
  ASSUME Parameters, Inv, Output
  PROVE  Inv'
<1>1. Request("output")' = [tag |-> "output"]
  BY DEF Request
<1>2. Exchange("output", Request("output")')
  BY <1>1 DEF Output
<1>3. Stage'
  BY <1>2, ExchangeStage DEF Operations, Inv
<1>4. Exchange("output", [tag |-> "output"])
  BY DEF Output
<1>5. pump' = pump /\ channels' = channels /\ sent' \in States /\ exchanges' \in 0..MaxExchanges
  BY DEF Output, Inv, Typed, Parameters
<1>6. Typed' /\ Threads' /\ Blamed' /\ Ended'
  BY <1>4, <1>5, ExchangeRest DEF Operations
<1> QED
  BY <1>3, <1>6 DEF Inv

LEMMA CloseWorkerStep ==
  ASSUME Inv, CloseWorker
  PROVE  Inv'
<1>1. Request("close")' = [tag |-> "close"]
  BY DEF Request
<1>2. Exchange("close", Request("close")')
  BY <1>1 DEF CloseWorker
<1>3. Stage'
  BY <1>2, ExchangeStage DEF Operations, Inv
<1>4. Exchange("close", [tag |-> "close"])
  BY DEF CloseWorker
<1>5. pump' = pump /\ channels' = channels /\ sent' \in States /\ exchanges' \in 0..MaxExchanges
  BY DEF CloseWorker, Inv, Typed
<1>6. Typed' /\ Threads' /\ Blamed' /\ Ended'
  BY <1>4, <1>5, ExchangeRest DEF Operations
<1> QED
  BY <1>3, <1>6 DEF Inv

LEMMA PumpStep ==
  ASSUME Inv, StopPump \/ DropChannels
  PROVE  Inv'
<1>1. /\ UNCHANGED <<client, closed, sequence, sent, accepted, outcome, exchanges, socketVars, workerVars,
                     faults>>
      /\ pump' \in {"running", "joined"} /\ channels' \in BOOLEAN
      /\ channels' # channels => closed
  BY DEF StopPump, DropChannels, Inv, Typed
<1>2. Stage'
  BY <1>1, StageKept DEF Inv, workerVars, socketVars
<1>3. Typed'
  BY <1>1 DEF Inv, Typed, workerVars, socketVars
<1>4. Threads' /\ Blamed'
  BY <1>1 DEF Inv, Threads, Blamed, Joined, Alive, workerVars, socketVars
<1>5. Ended'
  BY <1>1 DEF Inv, Ended, workerVars, socketVars
<1> QED
  BY <1>2, <1>3, <1>4, <1>5 DEF Inv

\* An owner that gives up leaves the worker alone with what it has.
LEMMA AbandonStep ==
  ASSUME Inv, Abandon
  PROVE  Inv'
<1>1. /\ UNCHANGED <<client, sequence, sent, accepted, exchanges, socketVars, workerVars>>
      /\ client = "idle" /\ ~ closed /\ closed' = TRUE /\ channels' = FALSE /\ pump' = "joined"
      /\ outcome' = "abandoned" /\ faults' = faults \cup {"abandoned"}
  BY DEF Abandon
<1>2. Silent
  BY <1>1, SilentStage DEF Inv, Operations
<1>3. Elsewhere'
  BY <1>1, <1>2 DEF Silent, Elsewhere, workerVars, socketVars
<1>4. Unreported' /\ (Reported => Reported')
  BY <1>1 DEF Unreported, Reported, workerVars
<1>5. Silent'
  BY <1>1, <1>2, <1>3, <1>4 DEF Silent, Failure, socketVars
<1>6. Stage'
  BY <1>5 DEF Stage
<1>7. Typed'
  BY <1>1 DEF Inv, Typed, workerVars, socketVars, Outcomes
<1>8. Threads' /\ Blamed'
  BY <1>1 DEF Inv, Threads, Blamed, Joined, Alive, workerVars, socketVars
<1>9. Ended'
  BY <1>1 DEF Inv, Ended, workerVars, socketVars
<1> QED
  BY <1>6, <1>7, <1>8, <1>9 DEF Inv

\* The reply the client reads: the answer it expects, or the worker's last
\* message.
LEMMA ReceiveStep ==
  ASSUME Parameters, Inv, ClientReceive
  PROVE  Inv'
<1>1. /\ client # "idle" /\ toClient # << >> /\ toClient' = Tail(toClient) /\ ~ closed
      /\ UNCHANGED <<sent, pump, channels, exchanges, toWorker, readShut, workerVars, faults>>
  BY DEF ClientReceive, Inv, Ended
<1> DEFINE reply == Head(toClient)
           ended == CASE reply.tag = "failure" -> "failure"
                      [] reply.tag # "failure" /\ client = "refused" -> "refused"
                      [] reply.tag # "failure" /\ client # "refused" /\ ~ Expected(reply) -> "invalid"
                      [] OTHER -> "closed"
<1>2. IF Expected(reply) /\ client # "close"
      THEN IF client = "update" THEN UpdateReply(reply)
           ELSE client' = "idle" /\ outcome' = "ok" /\ UNCHANGED <<closed, sequence, accepted>>
      ELSE Terminal(ended) /\ UNCHANGED <<sequence, accepted>>
  BY DEF ClientReceive
<1>3. ~ Asked
  BY <1>1 DEF Asked
<1> DEFINE Goal == Stage' /\ Typed' /\ Ended'
\* The failure is read last.
<1>4. ASSUME toClient = <<Failure>>, Reported
      PROVE  Goal
  <2>1. reply = Failure /\ reply.tag = "failure" /\ toClient' = << >>
    BY <1>1, <1>4, OneMessage DEF Failure
  <2>2. ~ (Expected(reply) /\ client # "close") /\ ended = "failure"
    BY <2>1 DEF Expected, Inv, Typed
  <2>3. /\ client' = "idle" /\ closed' = TRUE /\ outcome' = "failure" /\ UNCHANGED <<sequence, accepted>>
    BY <1>2, <2>2 DEF Terminal
  <2>4. Unreported'
    BY <2>3 DEF Unreported
  <2>5. Agreed' = Agreed /\ Pending' = Pending
    BY <1>1, <2>3 DEF Agreed, Pending
  <2>6. \A ok : Acked(ok)' = Acked(ok) /\ (Plays(ok) => Plays(ok)')
    BY <1>1, <2>3, <2>5 DEF Acked, Plays, workerVars
  <2>7. Forwarded => Forwarded'
    BY <1>1, <2>1, <2>3, <2>4, <2>5 DEF Forwarded, workerVars
  <2>8. Serving => Serving'
    BY <1>1, <2>5, <2>7 DEF Serving, workerVars
  <2>9. Served => Served'
    BY <1>1, <2>6, <2>7 DEF Served, workerVars
  <2>10. Elsewhere => Elsewhere'
    BY <1>1, <2>3 DEF Elsewhere, workerVars
  <2>11. Silent => Silent'
    BY <2>1, <2>3, <2>4, <2>10 DEF Silent
  <2>12. ~ Answered
    BY <1>4, <2>1, OneMessage, TwoMessages, Tags DEF Answered, Operations
  <2>13. Stage'
    BY <1>3, <2>8, <2>9, <2>11, <2>12 DEF Stage, Inv
  <2>14. Typed'
    BY <1>1, <2>3 DEF Typed, Inv, workerVars, Outcomes
  <2>15. Ended'
    BY <1>1, <1>4, <2>3 DEF Ended, Inv, workerVars, Reported
  <2> QED
    BY <2>13, <2>14, <2>15
\* The close is acknowledged.
<1>5. ASSUME Silent, toClient = <<Closing>>, control = "exited", client = "close",
             usb = "stopped", pcm = "stopped"
      PROVE  Goal
  <2>1. reply = Closing /\ reply.tag = "close" /\ toClient' = << >>
    BY <1>1, <1>5, OneMessage DEF Closing
  <2>2. Expected(reply) /\ ended = "closed"
    BY <1>5, <2>1 DEF Expected
  <2>3. client' = "idle" /\ closed' = TRUE /\ outcome' = "closed" /\ UNCHANGED <<sequence, accepted>>
    BY <1>2, <1>5, <2>2 DEF Terminal
  <2>4. Elsewhere' /\ Unreported'
    BY <1>1, <1>5, <2>3 DEF Silent, Elsewhere, Unreported, workerVars
  <2>5. Stage'
    BY <2>1, <2>3, <2>4 DEF Silent, Stage
  <2>6. Typed'
    BY <1>1, <2>3 DEF Typed, Inv, workerVars, Outcomes
  <2>7. Ended'
    BY <1>1, <1>5, <2>3 DEF Ended, Inv, workerVars
  <2> QED
    BY <2>5, <2>6, <2>7
\* The answer to the request.
<1>6. ASSUME Answered PROVE Goal
  <2>1. PICK ok \in BOOLEAN :
          /\ Plays(ok) /\ (ok => client = "update")
          /\ \/ toClient = <<Answer(client, ok)>> /\ Unreported
             \/ toClient = <<Answer(client, ok), Failure>> /\ Reported
    BY <1>6 DEF Answered
  <2>2. client \in {"update", "output"} /\ (client = "update" => sequence < MaxSequence) /\ Elsewhere
    BY <1>6 DEF Answered
  <2>3. reply = Answer(client, ok)
    BY <2>1, OneMessage, TwoMessages
  <2>4. /\ toClient = <<Answer(client, ok)>> => toClient' = << >>
        /\ toClient = <<Answer(client, ok), Failure>> => toClient' = <<Failure>>
    <3>1. Tail(<<Answer(client, ok)>>) = << >>
      BY OneMessage
    <3>2. Tail(<<Answer(client, ok), Failure>>) = <<Failure>>
      BY TwoMessages
    <3>3. toClient' = Tail(toClient)
      BY <1>1
    <3> QED
      BY <3>1, <3>2, <3>3, Zenon
  <2>5. Expected(reply)
    BY <2>2, <2>3 DEF Expected, Answer
  <2>6. CASE client = "update"
    <3>1. reply.sequence = sequence + 1 /\ reply.accepted = ok
      BY <2>3, <2>6 DEF Answer
    <3>2. UpdateReply(reply)
      BY <1>2, <2>5, <2>6
    <3>3. /\ client' = "idle" /\ closed' = closed /\ outcome' \in {"ok", "rejected"}
          /\ ok => sequence' = sequence + 1 /\ accepted' = sent
          /\ ~ ok => sequence' = sequence /\ accepted' = accepted
      BY <3>1, <3>2 DEF UpdateReply
    <3>4. applied' = Agreed'
      BY <1>1, <2>1, <3>3 DEF Plays, Pending, Agreed, workerVars
    <3>5. Elsewhere'
      BY <1>1, <2>2, <2>6, <3>3 DEF Elsewhere, workerVars
    <3>6. (Unreported => Unreported') /\ (Reported => Reported') /\ Failure' = Failure
      BY <1>1, <3>3 DEF Unreported, Reported, Failure, workerVars
    <3>7. Silent'
      BY <2>1, <2>4, <3>4, <3>5, <3>6 DEF Silent
    <3>8. sequence' \in 0..MaxSequence /\ accepted' \in States
      BY <2>2, <2>6, <3>3 DEF Inv, Typed, Parameters
    <3>9. Typed'
      BY <1>1, <3>3, <3>8 DEF Typed, Inv, workerVars, Outcomes
    <3>10. Ended'
      BY <1>1, <3>3 DEF Ended, Inv, workerVars
    <3> QED
      BY <3>7, <3>9, <3>10 DEF Stage
  <2>7. CASE client = "output"
    <3>1. client' = "idle" /\ outcome' = "ok" /\ UNCHANGED <<closed, sequence, accepted>>
      BY <1>2, <2>5, <2>7
    <3>2. applied' = Agreed'
      BY <1>1, <2>1, <2>7, <3>1 DEF Plays, Agreed, workerVars
    <3>3. Elsewhere'
      BY <1>1, <2>2, <2>7, <3>1 DEF Elsewhere, workerVars
    <3>4. (Unreported => Unreported') /\ (Reported => Reported') /\ Failure' = Failure
      BY <1>1, <3>1 DEF Unreported, Reported, Failure, workerVars
    <3>5. Silent'
      BY <2>1, <2>4, <3>2, <3>3, <3>4 DEF Silent
    <3>6. Typed'
      BY <1>1, <3>1 DEF Typed, Inv, workerVars, Outcomes
    <3>7. Ended'
      BY <1>1, <3>1 DEF Ended, Inv, workerVars
    <3> QED
      BY <3>5, <3>6, <3>7 DEF Stage
  <2> QED
    BY <2>2, <2>6, <2>7
<1>7. Goal
  <2>1. CASE Serving \/ Served
    BY <1>1, <1>4, <2>1 DEF Serving, Served, Forwarded
  <2>2. CASE Silent
    BY <1>1, <1>4, <1>5, <2>2 DEF Silent
  <2> QED
    BY <1>3, <1>6, <2>1, <2>2 DEF Stage, Inv
<1>8. Threads' /\ Blamed'
  BY <1>1 DEF Inv, Threads, Blamed, Joined, Alive, workerVars
<1> QED
  BY <1>7, <1>8 DEF Inv

\* The wait ends without an answer.
LEMMA UnansweredStep ==
  ASSUME Inv, ClientEof \/ ClientTimeout
  PROVE  Inv'
<1>1. /\ client # "idle" /\ ~ closed /\ toClient = << >> /\ client' = "idle" /\ closed' = TRUE
      /\ UNCHANGED <<sequence, sent, accepted, pump, channels, exchanges, socketVars, workerVars>>
      /\ \/ outcome' = "eof" /\ PeerGone /\ faults' = faults
         \/ outcome' = "timeout" /\ faults' = faults \cup {"timeout"}
  BY DEF ClientEof, ClientTimeout, Terminal, Inv, Ended
<1>2. Agreed' = Agreed /\ Pending' = Pending /\ Unreported' /\ faults \subseteq faults'
  BY <1>1 DEF Agreed, Pending, Unreported
<1>3. /\ \A op : Request(op)' = Request(op)
      /\ \A ok : Acked(ok)' = Acked(ok) /\ (Plays(ok) => Plays(ok)')
  BY <1>1, <1>2 DEF Request, Acked, Plays, workerVars
<1>4. Asked => Asked'
  BY <1>1, <1>2, <1>3 DEF Asked, workerVars, socketVars
<1>5. Forwarded => Forwarded'
  BY <1>1, <1>2 DEF Forwarded, workerVars, socketVars
<1>6. (Serving => Serving') /\ (Served => Served')
  BY <1>1, <1>2, <1>3, <1>5 DEF Serving, Served, workerVars
<1>7. Silent => Silent'
  BY <1>1, <1>2 DEF Silent, Elsewhere, workerVars, socketVars
<1>8. ~ Answered
  BY <1>1, OneMessage, TwoMessages DEF Answered
<1>9. Stage'
  BY <1>4, <1>6, <1>7, <1>8 DEF Inv, Stage
<1>10. PeerGone => "crash" \in faults
  BY <1>1, <1>8, TwoMessages, OneMessage
     DEF Inv, Stage, Asked, Serving, Served, Forwarded, Silent, Unreported, PeerGone
<1>11. Typed'
  BY <1>1 DEF Inv, Typed, workerVars, socketVars, Outcomes
<1>12. Threads' /\ Blamed'
  BY <1>1, <1>2 DEF Inv, Threads, Blamed, Joined, Alive, workerVars, socketVars
<1>13. Ended'
  BY <1>1, <1>2, <1>10 DEF Inv, Ended, workerVars, socketVars
<1> QED
  BY <1>9, <1>11, <1>12, <1>13 DEF Inv

-----------------------------------------------------------------------------
(* The control loop's steps.                                               *)

\* What no step of the control loop changes but for its own channels.
LEMMA ControlRest ==
  ASSUME Inv, control \in {"read", "ack"}, closed => faults # {}, control' \in {"read", "ack", "join"},
         \/ control' = "join" /\ stop' = TRUE /\ failed' \in BOOLEAN /\ (failed' => faults' # {})
         \/ control' \in {"read", "ack"} /\ UNCHANGED <<failed, stop>>,
         faults' \in {faults, faults \cup {"slow"}},
         UNCHANGED <<clientVars, readShut, usb, pcm, applied>>
  PROVE  Typed' /\ Threads' /\ Blamed' /\ Ended'
<1>1. Typed'
  <2>1. failed' \in BOOLEAN /\ stop' \in BOOLEAN
    BY Zenon DEF Inv, Typed
  <2>2. control' \in {"read", "ack", "join", "exited"}
    OBVIOUS
  <2> QED
    BY <2>1, <2>2 DEF Inv, Typed, clientVars
<1>2. Threads'
  BY DEF Inv, Threads, Joined, Alive
<1>3. Blamed'
  BY DEF Inv, Blamed
<1>4. Ended'
  BY DEF Inv, Ended, clientVars
<1> QED
  BY <1>1, <1>2, <1>3, <1>4

\* While the worker runs, a session that ended had a fault.
LEMMA EndedEarly ==
  ASSUME Inv, control # "exited"
  PROVE  closed => faults # {}
BY DEF Inv, Ended

\* While the loop runs, only a failed USB thread is not alive.
LEMMA UsbGone ==
  ASSUME Inv, control \in {"read", "ack"}, ~ Alive(usb)
  PROVE  readShut /\ faults # {}
BY DEF Inv, Threads, Blamed

LEMMA ReadUpdateStep ==
  ASSUME Inv, ReadUpdate
  PROVE  Inv'
<1>1. /\ control = "read" /\ toWorker # << >> /\ Head(toWorker).tag = "update" /\ toWorker' = Tail(toWorker)
      /\ current' = [sequence |-> Head(toWorker).sequence, state |-> Head(toWorker).state]
      /\ UNCHANGED <<clientVars, toClient, readShut, usb, pcm, acks, applied, faults>>
  BY DEF ReadUpdate
<1>2. Asked
  BY <1>1, AskedStage DEF Inv
<1>3. PICK op \in Operations :
        toWorker = <<Request(op)>> /\ (closed \/ client = op) /\ (op = "update" => sequence < MaxSequence)
  BY <1>2 DEF Asked
<1>4. Head(toWorker) = Request(op) /\ toWorker' = << >>
  BY <1>1, <1>3, OneMessage
<1>5. op = "update"
  BY <1>1, <1>4, Tags
<1>6. current' = Pending
  BY <1>1, <1>4, <1>5 DEF Request, Pending
<1>7. Agreed' = Agreed /\ Pending' = Pending /\ Unreported' /\ (closed => faults # {})
  BY <1>1, <1>2, EndedEarly DEF Agreed, Pending, Asked, clientVars, Unreported, ReadUpdate, Return
<1>8. CASE Alive(usb)
  <2>1. updates' = Append(updates, current') /\ control' = "ack" /\ UNCHANGED <<failed, stop>>
    BY <1>8 DEF ReadUpdate
  <2>2. updates' = <<Pending'>>
    BY <2>1, <1>2, <1>6, <1>7, OneMessage DEF Asked
  <2>3. Forwarded'
    BY <1>1, <1>2, <1>3, <1>4, <1>5, <1>6, <1>7, <2>1 DEF Forwarded, Asked, clientVars
  <2>4. Serving'
    BY <1>1, <1>2, <1>7, <2>2, <2>3 DEF Serving, Asked
  <2>5. Typed' /\ Threads' /\ Blamed' /\ Ended'
    BY <1>1, <1>7, <2>1, ControlRest
  <2> QED
    BY <2>4, <2>5 DEF Inv, Stage
<1>9. CASE ~ Alive(usb)
  <2>1. control' = "join" /\ failed' = TRUE /\ stop' = TRUE /\ updates' = updates
    BY <1>9 DEF ReadUpdate, Return
  <2>2. readShut /\ faults # {}
    BY <1>1, <1>9, UsbGone
  <2>3. Elsewhere'
    BY <1>1, <1>2, <1>4, <2>1, <2>2 DEF Elsewhere, Asked
  <2>4. Silent'
    BY <1>1, <1>2, <1>7, <2>3 DEF Silent, Asked
  <2>5. Typed' /\ Threads' /\ Blamed' /\ Ended'
    BY <1>1, <1>7, <2>1, <2>2, ControlRest
  <2> QED
    BY <2>4, <2>5 DEF Inv, Stage
<1> QED
  BY <1>8, <1>9

LEMMA AcknowledgeStep ==
  ASSUME Inv, Acknowledge
  PROVE  Inv'
<1>1. /\ control = "ack" /\ acks # << >> /\ acks' = Tail(acks)
      /\ UNCHANGED <<clientVars, toWorker, readShut, current, usb, pcm, updates, applied, faults>>
  BY DEF Acknowledge
<1>2. Served
  BY <1>1, ServedStage DEF Inv
<1>3. Forwarded /\ updates = << >>
  BY <1>2 DEF Served
<1>4. PICK ok \in BOOLEAN : acks = <<Acked(ok)>> /\ Plays(ok)
  BY <1>2 DEF Served
<1>5. Head(acks) = Acked(ok) /\ acks' = << >>
  BY <1>1, <1>4, OneMessage
<1>6. Head(acks).sequence = current.sequence /\ Head(acks).accepted = ok /\ current.sequence = sequence + 1
  BY <1>1, <1>3, <1>5 DEF Acked, Forwarded, Pending
<1>7. Reply([tag |-> "update", sequence |-> current.sequence, accepted |-> Head(acks).accepted]) /\ Replied
  BY <1>6 DEF Acknowledge
<1>8. toClient = << >> /\ toWorker = << >> /\ sequence < MaxSequence /\ (closed \/ client = "update")
  BY <1>1, <1>3 DEF Forwarded, Reported
<1>9. closed => faults # {}
  BY <1>1, EndedEarly
<1>10. CASE closed
  <2>1. toClient' = << >> /\ control' = "join" /\ failed' = TRUE /\ stop' = TRUE
    BY <1>7, <1>8, <1>10 DEF Reply, Replied, Return
  <2>2. Elsewhere' /\ Unreported'
    BY <1>1, <1>3, <1>5, <1>8, <1>10, <2>1 DEF Elsewhere, Unreported, clientVars
  <2>3. Silent'
    BY <1>1, <1>10, <2>1, <2>2 DEF Silent, clientVars
  <2>4. Typed' /\ Threads' /\ Blamed' /\ Ended'
    BY <1>1, <1>9, <1>10, <2>1, ControlRest
  <2> QED
    BY <2>3, <2>4 DEF Inv, Stage
<1>11. CASE ~ closed
  <2>1. /\ toClient' = Append(toClient, [tag |-> "update", sequence |-> sequence + 1, accepted |-> ok])
        /\ control' = "read" /\ UNCHANGED <<failed, stop>>
    BY <1>6, <1>7, <1>11 DEF Reply, Replied
  <2>2. client = "update"
    BY <1>8, <1>11
  <2>3. toClient' = <<Answer(client, ok)'>>
    BY <1>1, <1>8, <2>1, <2>2, OneMessage DEF Answer, clientVars
  <2>4. Elsewhere' /\ Unreported' /\ Plays(ok)'
    BY <1>1, <1>3, <1>4, <1>5, <1>8, <2>1 DEF Elsewhere, Unreported, Plays, Agreed, Pending, clientVars
  <2>5. Answered'
    BY <1>1, <1>8, <1>11, <2>2, <2>3, <2>4 DEF Answered, clientVars
  <2>6. Typed' /\ Threads' /\ Blamed' /\ Ended'
    BY <1>1, <1>9, <2>1, ControlRest
  <2> QED
    BY <2>5, <2>6 DEF Inv, Stage
<1> QED
  BY <1>10, <1>11

LEMMA AcknowledgeFailStep ==
  ASSUME Inv, AcknowledgeFail \/ AcknowledgeTimeout
  PROVE  Inv'
<1>1. /\ control = "ack" /\ acks = << >> /\ control' = "join" /\ failed' = TRUE /\ stop' = TRUE
      /\ UNCHANGED <<clientVars, socketVars, current, usb, pcm, updates, acks, applied>>
      /\ \/ ~ Alive(usb) /\ faults' = faults
         \/ faults' = faults \cup {"slow"}
  BY DEF AcknowledgeFail, AcknowledgeTimeout, Return
<1>2. Serving
  BY <1>1, ForwardedStage, OneMessage DEF Inv, Served
<1>3. faults' # {} /\ (closed => faults # {})
  BY <1>1, UsbGone, EndedEarly
<1>4. Forwarded'
  BY <1>1, <1>2 DEF Serving, Forwarded, Reported, Unreported, clientVars, socketVars
<1>5. Serving'
  BY <1>1, <1>2, <1>4 DEF Serving, Agreed, Pending, clientVars
<1>6. Typed' /\ Threads' /\ Blamed' /\ Ended'
  BY <1>1, <1>3, ControlRest DEF socketVars
<1> QED
  BY <1>5, <1>6 DEF Inv, Stage

LEMMA ReadOutputStep ==
  ASSUME Inv, ReadOutput
  PROVE  Inv'
<1>1. /\ control = "read" /\ toWorker # << >> /\ Head(toWorker).tag = "output" /\ toWorker' = Tail(toWorker)
      /\ UNCHANGED <<clientVars, readShut, current, usb, pcm, updates, acks, applied, faults>>
  BY DEF ReadOutput
<1>2. Asked
  BY <1>1, AskedStage DEF Inv
<1>3. PICK op \in Operations :
        toWorker = <<Request(op)>> /\ (closed \/ client = op) /\ (op = "update" => sequence < MaxSequence)
  BY <1>2 DEF Asked
<1>4. Head(toWorker) = Request(op) /\ toWorker' = << >>
  BY <1>1, <1>3, OneMessage
<1>5. op = "output"
  BY <1>1, <1>4, Tags
<1>6. closed => faults # {}
  BY <1>1, EndedEarly
<1>7. toClient = << >> /\ updates' = << >> /\ acks' = << >> /\ applied' = Agreed'
  BY <1>1, <1>2 DEF Asked, Agreed, clientVars
<1>8. CASE events = << >> /\ ~ Alive(usb)
  <2>1. control' = "join" /\ failed' = TRUE /\ stop' = TRUE /\ toClient' = toClient
    BY <1>8 DEF ReadOutput, Return
  <2>2. readShut /\ faults # {}
    BY <1>1, <1>8, UsbGone
  <2>3. Elsewhere' /\ Unreported'
    BY <1>1, <1>4, <1>7, <2>1, <2>2 DEF Elsewhere, Unreported
  <2>4. Silent'
    BY <1>7, <2>1, <2>3 DEF Silent
  <2>5. Typed' /\ Threads' /\ Blamed' /\ Ended'
    BY <1>1, <1>6, <2>1, <2>2, ControlRest
  <2> QED
    BY <2>4, <2>5 DEF Inv, Stage
<1>9. CASE ~ (events = << >> /\ ~ Alive(usb))
  <2>1. Reply([tag |-> "output"]) /\ Replied
    BY <1>9 DEF ReadOutput
  <2>2. CASE closed
    <3>1. toClient' = << >> /\ control' = "join" /\ failed' = TRUE /\ stop' = TRUE
      BY <1>7, <2>1, <2>2 DEF Reply, Replied, Return
    <3>2. Elsewhere' /\ Unreported'
      BY <1>1, <1>4, <1>7, <2>2, <3>1 DEF Elsewhere, Unreported, clientVars
    <3>3. Silent'
      BY <1>7, <3>1, <3>2 DEF Silent
    <3>4. Typed' /\ Threads' /\ Blamed' /\ Ended'
      BY <1>1, <1>6, <2>2, <3>1, ControlRest
    <3> QED
      BY <3>3, <3>4 DEF Inv, Stage
  <2>3. CASE ~ closed
    <3>1. toClient' = Append(toClient, [tag |-> "output"]) /\ control' = "read" /\ UNCHANGED <<failed, stop>>
      BY <2>1, <2>3 DEF Reply, Replied
    <3>2. client = "output"
      BY <1>3, <1>5, <2>3
    <3>3. toClient' = <<Answer(client, FALSE)'>>
      BY <1>1, <1>7, <3>1, <3>2, OneMessage DEF Answer, clientVars
    <3>4. Elsewhere' /\ Unreported' /\ Plays(FALSE)'
      BY <1>1, <1>4, <1>7, <3>1 DEF Elsewhere, Unreported, Plays
    <3>5. Answered'
      BY <1>1, <2>3, <3>2, <3>3, <3>4 DEF Answered, clientVars
    <3>6. Typed' /\ Threads' /\ Blamed' /\ Ended'
      BY <1>1, <1>6, <3>1, ControlRest
    <3> QED
      BY <3>5, <3>6 DEF Inv, Stage
  <2> QED
    BY <2>2, <2>3
<1> QED
  BY <1>8, <1>9

LEMMA ReadCloseStep ==
  ASSUME Inv, ReadClose
  PROVE  Inv'
<1>1. /\ control = "read" /\ toWorker # << >> /\ Head(toWorker).tag = "close" /\ toWorker' = Tail(toWorker)
      /\ control' = "join" /\ failed' = FALSE /\ stop' = TRUE
      /\ UNCHANGED <<clientVars, toClient, readShut, current, usb, pcm, updates, acks, applied, faults>>
  BY DEF ReadClose, Return
<1>2. Asked
  BY <1>1, AskedStage DEF Inv
<1>3. PICK op \in Operations :
        toWorker = <<Request(op)>> /\ (closed \/ client = op) /\ (op = "update" => sequence < MaxSequence)
  BY <1>2 DEF Asked
<1>4. Head(toWorker) = Request(op) /\ toWorker' = << >>
  BY <1>1, <1>3, OneMessage
<1>5. op = "close"
  BY <1>1, <1>4, Tags
<1>6. closed => faults # {}
  BY <1>1, EndedEarly
<1>7. Elsewhere' /\ Unreported' /\ applied' = Agreed' /\ toClient' = << >>
  BY <1>1, <1>2, <1>3, <1>4, <1>5 DEF Elsewhere, Unreported, Asked, Agreed, clientVars
<1>8. Silent'
  BY <1>7 DEF Silent
<1>9. Typed' /\ Threads' /\ Blamed' /\ Ended'
  BY <1>1, <1>6, ControlRest
<1> QED
  BY <1>8, <1>9 DEF Inv, Stage

LEMMA ReadEofStep ==
  ASSUME Inv, ReadEof
  PROVE  Inv'
<1>1. /\ control = "read" /\ toWorker = << >> /\ (readShut \/ closed)
      /\ control' = "join" /\ failed' = TRUE /\ stop' = TRUE
      /\ UNCHANGED <<clientVars, socketVars, current, usb, pcm, updates, acks, applied, faults>>
  BY DEF ReadEof, Return
<1>2. Answered \/ Silent
  BY <1>1, ElsewhereStage DEF Inv
<1>3. faults # {}
  BY <1>1, EndedEarly DEF Inv, Blamed
<1>4. Elsewhere'
  BY <1>1, <1>2 DEF Answered, Silent, Elsewhere, clientVars, socketVars
<1>5. /\ Agreed' = Agreed /\ Unreported'
      /\ \A ok : (Plays(ok) => Plays(ok)') /\ Answer(client, ok)' = Answer(client, ok)
  BY <1>1 DEF Agreed, Pending, Plays, Answer, Unreported, clientVars
<1>6. ~ Reported
  BY <1>1 DEF Reported
<1>7. Answered => Answered'
  BY <1>1, <1>4, <1>5, <1>6 DEF Answered, clientVars, socketVars
<1>8. Silent => Silent'
  BY <1>1, <1>4, <1>5, <1>6 DEF Silent, clientVars, socketVars
<1>9. Typed' /\ Threads' /\ Blamed' /\ Ended'
  BY <1>1, <1>3, EndedEarly, ControlRest DEF socketVars
<1> QED
  BY <1>2, <1>7, <1>8, <1>9 DEF Inv, Stage

\* The last message is the close's only if the close was asked for and neither
\* thread failed.
LEMMA FinishStep ==
  ASSUME Inv, Finish
  PROVE  Inv'
<1>1. /\ control = "join" /\ ~ Alive(usb) /\ ~ Alive(pcm) /\ control' = "exited"
      /\ Reply(IF failed \/ usb = "failed" \/ pcm = "failed" THEN Failure ELSE Closing)
      /\ UNCHANGED <<clientVars, toWorker, readShut, current, failed, stop, usb, pcm, updates, acks,
                     applied, faults>>
  BY DEF Finish, Joined, Failure, Closing
<1>2. /\ Agreed' = Agreed /\ Pending' = Pending /\ Failure' = Failure /\ Closing' = Closing
      /\ \A ok : Acked(ok)' = Acked(ok) /\ (Plays(ok) => Plays(ok)') /\ Answer(client, ok)' = Answer(client, ok)
  BY <1>1 DEF Agreed, Pending, Acked, Plays, Answer, Failure, Closing, clientVars
<1>3. ~ Asked
  BY <1>1 DEF Asked
<1>4. ~ Reported
  BY <1>1 DEF Reported
<1>5. closed => toClient' = toClient /\ Unreported'
  BY <1>1 DEF Reply, Unreported, clientVars
<1>6. ASSUME failed \/ usb = "failed" \/ pcm = "failed"
      PROVE  Reported' /\ (~ closed => toClient' = Append(toClient, Failure))
  BY <1>1, <1>6 DEF Inv, Blamed, Reported, Reply
<1>7. Forwarded => Forwarded'
  <2>1. SUFFICES ASSUME Forwarded PROVE Forwarded'
    OBVIOUS
  <2>2. failed /\ toClient = << >>
    BY <1>1, <1>4, <2>1 DEF Forwarded
  <2>3. \/ toClient' = << >> /\ Unreported'
        \/ toClient' = <<Failure>> /\ Reported'
    BY <1>5, <1>6, <2>2, OneMessage
  <2> QED
    BY <1>1, <1>2, <2>1, <2>3 DEF Forwarded, clientVars
<1>8. (Serving => Serving') /\ (Served => Served')
  BY <1>1, <1>2, <1>7 DEF Serving, Served
<1>9. Elsewhere => Elsewhere'
  BY <1>1 DEF Elsewhere, clientVars
<1>10. Answered => Answered'
  <2>1. SUFFICES ASSUME Answered PROVE Answered'
    OBVIOUS
  <2>2. PICK ok \in BOOLEAN : Plays(ok) /\ (ok => client = "update") /\ toClient = <<Answer(client, ok)>>
    BY <1>4, <2>1 DEF Answered
  <2>3. ~ closed /\ client \in {"update", "output"} /\ Elsewhere /\ (client = "update" => sequence < MaxSequence)
    BY <2>1 DEF Answered
  <2>4. failed
    BY <1>1, <2>3 DEF Elsewhere
  <2>5. toClient' = <<Answer(client, ok), Failure>> /\ Reported'
    BY <1>6, <2>2, <2>3, <2>4, TwoMessages
  <2> QED
    BY <1>1, <1>2, <1>9, <2>2, <2>3, <2>5 DEF Answered, clientVars
<1>11. Silent => Silent'
  <2>1. SUFFICES ASSUME Silent PROVE Silent'
    OBVIOUS
  <2>2. toClient = << >> /\ Elsewhere /\ (~ closed => applied' = Agreed')
    BY <1>1, <1>2, <1>4, <2>1 DEF Silent, clientVars
  <2>3. CASE closed
    <3>1. toClient' = << >> /\ Unreported'
      BY <1>5, <2>2, <2>3
    <3>2. Elsewhere' /\ (~ closed' => applied' = Agreed')
      BY <1>1, <1>9, <2>2, <2>3 DEF clientVars
    <3> QED
      BY <3>1, <3>2 DEF Silent
  <2>4. CASE ~ closed /\ (failed \/ usb = "failed" \/ pcm = "failed")
    <3>1. toClient' = <<Failure'>> /\ Reported'
      BY <1>2, <1>6, <2>2, <2>4, OneMessage
    <3>2. Elsewhere' /\ (~ closed' => applied' = Agreed')
      BY <1>1, <1>9, <2>2, <2>4 DEF clientVars
    <3> QED
      BY <3>1, <3>2 DEF Silent
  <2>5. CASE ~ closed /\ ~ (failed \/ usb = "failed" \/ pcm = "failed")
    <3>1. client = "close" /\ usb = "stopped" /\ pcm = "stopped"
      BY <1>1, <2>2, <2>5 DEF Elsewhere, Inv, Typed, Alive
    <3>2. toClient' = <<Closing'>>
      BY <1>1, <1>2, <2>2, <2>5, OneMessage DEF Reply
    <3>3. Elsewhere' /\ (~ closed' => applied' = Agreed')
      BY <1>1, <1>9, <2>2, <2>5 DEF clientVars
    <3>4. control' = "exited" /\ ~ closed' /\ client' = "close" /\ usb' = "stopped" /\ pcm' = "stopped"
      BY <1>1, <2>5, <3>1 DEF clientVars
    <3> QED
      BY <3>2, <3>3, <3>4 DEF Silent
  <2> QED
    BY <2>3, <2>4, <2>5
<1>12. Stage'
  BY <1>3, <1>8, <1>10, <1>11 DEF Inv, Stage
<1>13. Typed'
  BY <1>1 DEF Inv, Typed, clientVars
<1>14. Threads' /\ Blamed'
  BY <1>1 DEF Inv, Threads, Blamed, Alive, Joined
<1>15. Ended'
  BY <1>1 DEF Inv, Ended, clientVars
<1> QED
  BY <1>12, <1>13, <1>14, <1>15 DEF Inv

-----------------------------------------------------------------------------
(* The threads' steps.                                                     *)

LEMMA UsbServiceStep ==
  ASSUME Parameters, Inv, NEW valid \in BOOLEAN, UsbService(valid)
  PROVE  Inv'
<1> DEFINE u == Head(updates)
           ok == Accepts(u, valid)
<1>1. /\ updates # << >> /\ updates' = Tail(updates)
      /\ applied' = IF ok THEN u ELSE applied
      /\ acks' = Append(acks, [sequence |-> u.sequence, accepted |-> ok])
      /\ UNCHANGED <<clientVars, socketVars, control, current, failed, stop, usb, pcm, faults>>
  BY DEF UsbService, Applied
<1>2. Serving
  BY <1>1, ServingStage DEF Inv
<1>3. Forwarded /\ updates = <<Pending>> /\ acks = << >> /\ applied = Agreed
  BY <1>2 DEF Serving
<1>4. u = Pending /\ updates' = << >>
  BY <1>1, <1>3, OneMessage
<1>5. sequence \in Nat /\ sequence < MaxSequence /\ sequence + 1 # sequence /\ sequence + 1 \in 0..MaxSequence
  BY <1>3 DEF Forwarded, Inv, Typed, Parameters
<1>6. u.sequence = sequence + 1 /\ applied.sequence = sequence
  BY <1>3, <1>4 DEF Pending, Agreed
<1>7. ok = valid
  BY <1>5, <1>6 DEF Accepts
<1>8. acks' = <<Acked(valid)'>>
  BY <1>1, <1>3, <1>6, <1>7, OneMessage DEF Acked, clientVars
<1>9. Plays(valid)'
  BY <1>1, <1>3, <1>4, <1>7 DEF Plays, Pending, Agreed, clientVars
<1>10. Forwarded'
  BY <1>1, <1>3 DEF Forwarded, Failure, Pending, Unreported, Reported, clientVars, socketVars
<1>11. Served'
  BY <1>4, <1>8, <1>9, <1>10 DEF Served
<1>12. applied' \in [sequence: 0..MaxSequence, state: States]
  <2>1. Pending \in [sequence: 0..MaxSequence, state: States]
    BY <1>5 DEF Pending, Inv, Typed
  <2> QED
    BY <1>1, <1>4, <2>1 DEF Inv, Typed
<1>13. Typed'
  BY <1>1, <1>12 DEF Inv, Typed, clientVars, socketVars
<1>14. Threads' /\ Blamed'
  BY <1>1 DEF Inv, Threads, Blamed, Alive, Joined, socketVars
<1>15. Ended'
  BY <1>1 DEF Inv, Ended, clientVars
<1> QED
  BY <1>11, <1>13, <1>14, <1>15 DEF Inv, Stage

LEMMA HostOutputStep ==
  ASSUME Inv, HostOutput
  PROVE  Inv'
<1>1. UNCHANGED <<clientVars, socketVars, control, current, failed, stop, usb, pcm, updates, acks,
                  applied, faults>>
  BY DEF HostOutput
<1>2. Stage'
  BY <1>1, StageKept DEF Inv, clientVars, socketVars
<1>3. Typed' /\ Threads' /\ Blamed' /\ Ended'
  BY <1>1 DEF Inv, Typed, Threads, Blamed, Ended, Alive, Joined, clientVars, socketVars
<1> QED
  BY <1>2, <1>3 DEF Inv

\* A thread fails.  The loss of the PCM channels is a failure only of a session
\* that did not end well: after a good close the PCM thread has stopped.
LEMMA ThreadFailStep ==
  ASSUME Inv, UsbFail \/ PcmFail \/ PcmEof
  PROVE  Inv'
<1>1. /\ UNCHANGED <<clientVars, toWorker, toClient, control, current, failed, stop, updates, acks, applied>>
      /\ Wake
      /\ \/ Alive(usb) /\ usb' = "failed" /\ pcm' = pcm /\ faults' = faults \cup {"usb"}
         \/ Alive(pcm) /\ pcm' = "failed" /\ usb' = usb /\ faults' = faults \cup {"pcm"}
         \/ Alive(pcm) /\ pcm' = "failed" /\ usb' = usb /\ faults' = faults /\ ~ channels
  BY DEF UsbFail, PcmFail, PcmEof
<1>2. (readShut => readShut') /\ readShut' \in BOOLEAN /\ (~ stop => readShut') /\ faults \subseteq faults'
  BY <1>1 DEF Wake, Inv, Typed
<1>3. (usb = "stopped" => usb' = "stopped") /\ (pcm = "stopped" => pcm' = "stopped")
  BY <1>1 DEF Alive
<1>4. Stage'
  BY <1>1, <1>2, <1>3, StageKept DEF Inv, clientVars
<1>5. faults' # {}
  BY <1>1 DEF Inv, Ended, Alive
<1>6. usb' \in {"running", "failed", "stopped"} /\ pcm' \in {"running", "failed", "stopped"}
  BY <1>1 DEF Inv, Typed
<1>7. Typed'
  BY <1>1, <1>2, <1>6 DEF Inv, Typed, clientVars
<1>8. Threads'
  BY <1>1, <1>2, <1>3 DEF Inv, Threads, Alive, Joined
<1>9. Blamed'
  BY <1>5 DEF Blamed
<1>10. Ended'
  BY <1>1, <1>2, <1>3, <1>5 DEF Inv, Ended, clientVars
<1> QED
  BY <1>4, <1>7, <1>8, <1>9, <1>10 DEF Inv

LEMMA ThreadStopStep ==
  ASSUME Inv, UsbStop \/ PcmStop
  PROVE  Inv'
<1>1. /\ UNCHANGED <<clientVars, socketVars, control, current, failed, stop, updates, acks, applied, faults>>
      /\ stop
      /\ \/ Alive(usb) /\ usb' = "stopped" /\ pcm' = pcm
         \/ Alive(pcm) /\ pcm' = "stopped" /\ usb' = usb
  BY DEF UsbStop, PcmStop
<1>2. Stage'
  BY <1>1, StageKept DEF Inv, clientVars, socketVars
<1>3. Typed'
  BY <1>1 DEF Inv, Typed, clientVars, socketVars
<1>4. Threads' /\ Blamed'
  BY <1>1 DEF Inv, Threads, Blamed, Alive, Joined, socketVars
<1>5. Ended'
  BY <1>1 DEF Inv, Ended, Alive, clientVars, socketVars
<1> QED
  BY <1>2, <1>3, <1>4, <1>5 DEF Inv

LEMMA CrashStep ==
  ASSUME Inv, Crash
  PROVE  Inv'
<1>1. /\ control # "exited" /\ control' = "exited" /\ usb' = "failed" /\ pcm' = "failed"
      /\ faults' = faults \cup {"crash"}
      /\ UNCHANGED <<clientVars, socketVars, current, failed, stop, updates, acks, applied>>
  BY DEF Crash
<1>2. /\ Agreed' = Agreed /\ Pending' = Pending /\ Failure' = Failure /\ Unreported' /\ ~ Reported
      /\ \A op : Request(op)' = Request(op)
      /\ \A ok : Acked(ok)' = Acked(ok) /\ (Plays(ok) => Plays(ok)') /\ Answer(client, ok)' = Answer(client, ok)
  BY <1>1 DEF Agreed, Pending, Acked, Plays, Answer, Request, Failure, Unreported, Reported, clientVars
<1>3. Asked => Asked'
  BY <1>1, <1>2 DEF Asked, clientVars, socketVars
<1>4. Forwarded => Forwarded'
  BY <1>1, <1>2 DEF Forwarded, clientVars, socketVars
<1>5. (Serving => Serving') /\ (Served => Served')
  BY <1>1, <1>2, <1>4 DEF Serving, Served
<1>6. Elsewhere => Elsewhere'
  BY <1>1 DEF Elsewhere, clientVars, socketVars
<1>7. Answered => Answered'
  BY <1>1, <1>2, <1>6 DEF Answered, clientVars, socketVars
<1>8. Silent => Silent'
  BY <1>1, <1>2, <1>6 DEF Silent, clientVars, socketVars
<1>9. Stage'
  BY <1>3, <1>5, <1>7, <1>8 DEF Inv, Stage
<1>10. Typed'
  BY <1>1 DEF Inv, Typed, clientVars, socketVars
<1>11. Threads' /\ Blamed'
  BY <1>1 DEF Inv, Threads, Blamed, Alive, Joined, socketVars
<1>12. Ended'
  BY <1>1 DEF Inv, Ended, clientVars
<1> QED
  BY <1>9, <1>10, <1>11, <1>12 DEF Inv

-----------------------------------------------------------------------------
(* The worker's host outputs.                                              *)

\* Taking the first event moves it from one side of the channel to the other.
LEMMA EventTaken ==
  ASSUME taken \in Seq(Nat), events \in Seq(Nat), events # << >>
  PROVE  /\ Append(taken, Head(events)) \in Seq(Nat) /\ Tail(events) \in Seq(Nat)
         /\ Len(Append(taken, Head(events))) = Len(taken) + 1 /\ Len(Tail(events)) = Len(events) - 1
         /\ Append(taken, Head(events)) \o Tail(events) = taken \o events
<1>1. /\ Head(events) \in Nat /\ Tail(events) \in Seq(Nat) /\ Len(events) \in Nat \ {0}
      /\ Len(Tail(events)) = Len(events) - 1 /\ \A i \in 1..Len(Tail(events)) : Tail(events)[i] = events[i + 1]
  BY HeadTailProperties, EmptySeq, LenProperties
<1>2. /\ Append(taken, Head(events)) \in Seq(Nat) /\ Len(Append(taken, Head(events))) = Len(taken) + 1
      /\ \A i \in 1..Len(taken) : Append(taken, Head(events))[i] = taken[i]
      /\ Append(taken, Head(events))[Len(taken) + 1] = Head(events)
  BY <1>1, AppendProperties
<1> DEFINE a == Append(taken, Head(events))
           b == Tail(events)
<1>3. /\ a \o b \in Seq(Nat) /\ Len(a \o b) = Len(a) + Len(b)
      /\ \A i \in 1..(Len(a) + Len(b)) : (a \o b)[i] = IF i <= Len(a) THEN a[i] ELSE b[i - Len(a)]
  BY <1>1, <1>2, ConcatProperties
<1>4. /\ taken \o events \in Seq(Nat) /\ Len(taken \o events) = Len(taken) + Len(events)
      /\ \A i \in 1..(Len(taken) + Len(events)) :
           (taken \o events)[i] = IF i <= Len(taken) THEN taken[i] ELSE events[i - Len(taken)]
  BY ConcatProperties
<1>5. Len(taken) \in Nat /\ Len(a \o b) = Len(taken \o events) /\ Head(events) = events[1]
  BY <1>1, <1>2, <1>3, <1>4, LenProperties, HeadTailProperties
<1>6. \A i \in 1..Len(a \o b) : (a \o b)[i] = (taken \o events)[i]
  <2>1. SUFFICES ASSUME NEW i \in 1..(Len(taken) + Len(events)) PROVE (a \o b)[i] = (taken \o events)[i]
    BY <1>4, <1>5
  <2>2. (a \o b)[i] = IF i <= Len(taken) + 1 THEN a[i] ELSE b[i - (Len(taken) + 1)]
    BY <1>1, <1>2, <1>3
  <2>3. (taken \o events)[i] = IF i <= Len(taken) THEN taken[i] ELSE events[i - Len(taken)]
    BY <1>4
  <2>4. CASE i <= Len(taken)
    BY <1>2, <1>5, <2>2, <2>3, <2>4
  <2>5. CASE i = Len(taken) + 1
    BY <1>2, <1>5, <2>2, <2>3, <2>5
  <2>6. CASE i > Len(taken) + 1
    <3>1. i - (Len(taken) + 1) \in 1..Len(b) /\ (i - (Len(taken) + 1)) + 1 = i - Len(taken)
      BY <1>1, <1>5, <2>6
    <3>2. b[i - (Len(taken) + 1)] = events[i - Len(taken)]
      BY <1>1, <3>1
    <3> QED
      BY <1>5, <2>2, <2>3, <2>6, <3>2
  <2> QED
    BY <1>1, <1>5, <2>4, <2>5, <2>6
<1>7. a \o b = taken \o events
  BY <1>3, <1>4, <1>5, <1>6, SeqEqual
<1> QED
  BY <1>1, <1>2, <1>7

LEMMA ConcatAppend ==
  ASSUME NEW t \in Seq(Nat), NEW e \in Seq(Nat), NEW x \in Nat
  PROVE  t \o Append(e, x) = Append(t \o e, x)
<1>1. Append(e, x) = e \o <<x>> /\ <<x>> \in Seq(Nat) /\ t \o e \in Seq(Nat)
  BY AppendIsConcat, ConcatProperties
<1>2. Append(t \o e, x) = (t \o e) \o <<x>>
  BY <1>1, AppendIsConcat
<1> QED
  BY <1>1, <1>2, ConcatAssociative

\* A higher number behind increasing ones.
LEMMA HighestLast ==
  ASSUME NEW p \in Nat, NEW s \in Seq(Nat),
         \A i \in 1..Len(s) : s[i] <= p,
         \A i, j \in 1..Len(s) : i < j => s[i] < s[j]
  PROVE  /\ \A i \in 1..Len(Append(s, p + 1)) : Append(s, p + 1)[i] <= p + 1
         /\ \A i, j \in 1..Len(Append(s, p + 1)) : i < j => Append(s, p + 1)[i] < Append(s, p + 1)[j]
<1> DEFINE a == Append(s, p + 1)
           n == Len(s)
<1>1. n \in Nat /\ Len(a) = n + 1 /\ (\A i \in 1..n : a[i] = s[i]) /\ a[n + 1] = p + 1
  BY AppendProperties, LenProperties
<1>2. \A i \in 1..n : s[i] \in Nat
  BY ElementOfSeq
<1> HIDE DEF a
<1>3. ASSUME NEW i \in 1..(n + 1) PROVE a[i] <= p + 1
  <2>1. CASE i \in 1..n
    BY <1>1, <1>2, <2>1
  <2>2. CASE i = n + 1
    BY <1>1, <2>2
  <2> QED
    BY <1>1, <2>1, <2>2
<1>4. ASSUME NEW i \in 1..(n + 1), NEW j \in 1..(n + 1), i < j PROVE a[i] < a[j]
  <2>1. i \in 1..n /\ (j \in 1..n \/ j = n + 1)
    BY <1>1, <1>4
  <2>2. CASE j \in 1..n
    BY <1>1, <1>4, <2>1, <2>2
  <2>3. CASE j = n + 1
    BY <1>1, <1>2, <2>1, <2>3
  <2> QED
    BY <2>1, <2>2, <2>3
<1> QED
  BY <1>1, <1>3, <1>4 DEF a

LEMMA EventsStep ==
  ASSUME Parameters, Events, Next
  PROVE  Events'
<1>1. /\ Len(taken) \in Nat /\ Len(events) \in Nat
      /\ Len(taken \o events) = Len(taken) + Len(events)
  BY ConcatProperties, LenProperties DEF Events
\* A new event is the highest so far, queued behind the others or lost.
<1>2. CASE HostOutput
  <2>1. /\ produced' = produced + 1 /\ taken' = taken /\ produced \in Nat /\ lost \in Nat
        /\ taken \in Seq(Nat) /\ events \in Seq(Nat)
    BY <1>2 DEF HostOutput, Events
  <2>2. CASE Len(events) < EventQueue
    <3>1. events' = Append(events, produced + 1) /\ lost' = lost
      BY <1>2, <2>2 DEF HostOutput
    <3>2. events' \in Seq(Nat) /\ Len(events') = Len(events) + 1
      BY <2>1, <3>1, AppendProperties
    <3>3. taken' \o events' = Append(taken \o events, produced + 1)
      BY <2>1, <3>1, ConcatAppend
    <3>4. taken \o events \in Seq(Nat)
      BY <2>1, ConcatProperties
    <3>5. /\ \A i \in 1..Len(taken' \o events') : (taken' \o events')[i] <= produced'
          /\ \A i, j \in 1..Len(taken' \o events') : i < j => (taken' \o events')[i] < (taken' \o events')[j]
      <4>1. /\ \A i \in 1..Len(taken \o events) : (taken \o events)[i] <= produced
            /\ \A i, j \in 1..Len(taken \o events) : i < j => (taken \o events)[i] < (taken \o events)[j]
        BY DEF Events
      <4> QED
        BY <2>1, <3>3, <3>4, <4>1, HighestLast
    <3>6. produced' = Len(taken') + Len(events') + lost' /\ Len(events') <= EventQueue
      BY <1>1, <2>1, <2>2, <3>1, <3>2 DEF Events, Parameters
    <3>7. produced' \in Nat /\ lost' \in Nat /\ taken' \in Seq(Nat) /\ events' \in Seq(Nat)
      BY <2>1, <3>1, <3>2
    <3> QED
      BY <3>5, <3>6, <3>7, Zenon DEF Events
  <2>3. CASE ~ (Len(events) < EventQueue)
    <3>1. events' = events /\ lost' = lost + 1
      BY <1>2, <2>3 DEF HostOutput
    <3>2. taken' \o events' = taken \o events
      BY <2>1, <3>1
    <3>3. taken \o events \in Seq(Nat)
      BY <2>1, ConcatProperties
    <3>4. \A i \in 1..Len(taken \o events) : (taken \o events)[i] <= produced + 1
      BY <2>1, <3>3, ElementOfSeq DEF Events
    <3>5. produced' = Len(taken') + Len(events') + lost'
      BY <1>1, <2>1, <3>1 DEF Events
    <3>6. produced' \in Nat /\ lost' \in Nat /\ taken' \in Seq(Nat) /\ events' \in Seq(Nat) /\ Len(events') <= EventQueue
      BY <2>1, <3>1 DEF Events
    <3> QED
      BY <2>1, <3>2, <3>4, <3>5, <3>6 DEF Events
  <2> QED
    BY <2>2, <2>3
\* The client takes the first one.
<1>3. CASE ReadOutput
  <2>1. produced' = produced /\ lost' = lost
    BY <1>3 DEF ReadOutput, eventVars
  <2>2. \/ taken' = taken /\ events' = events
        \/ events # << >> /\ taken' = Append(taken, Head(events)) /\ events' = Tail(events)
    BY <1>3 DEF ReadOutput, eventVars
  <2>3. CASE taken' = taken /\ events' = events
    BY <2>1, <2>3 DEF Events
  <2>4. CASE events # << >> /\ taken' = Append(taken, Head(events)) /\ events' = Tail(events)
    <3>1. /\ taken' \in Seq(Nat) /\ events' \in Seq(Nat) /\ Len(taken') = Len(taken) + 1
          /\ Len(events') = Len(events) - 1 /\ taken' \o events' = taken \o events
      BY <2>4, EventTaken DEF Events
    <3>2. Len(events') <= EventQueue /\ produced' = Len(taken') + Len(events') + lost'
      BY <1>1, <2>1, <3>1 DEF Events, Parameters
    <3> QED
      BY <2>1, <3>1, <3>2 DEF Events
  <2> QED
    BY <2>2, <2>3, <2>4
<1>4. ASSUME ~ HostOutput, ~ ReadOutput
      PROVE  UNCHANGED <<events, produced, taken, lost>>
  <2>1. CASE ClientSteps \/ ClientAnswers
    BY <2>1 DEF ClientSteps, ClientAnswers, Update, Output, StopPump, CloseWorker, DropChannels, Abandon,
       Exchange, ClientReceive, ClientEof, ClientTimeout, workerVars, eventVars
  <2>2. CASE ControlSteps
    BY <1>4, <2>2 DEF ControlSteps, ReadUpdate, Acknowledge, AcknowledgeFail, AcknowledgeTimeout,
       ReadClose, ReadEof, Finish, eventVars
  <2>3. CASE ThreadSteps
    BY <1>4, <2>3 DEF ThreadSteps, UsbService, UsbFail, UsbStop, PcmFail, PcmEof, PcmStop, Crash, eventVars
  <2> QED
    BY <2>1, <2>2, <2>3 DEF Next
<1>5. CASE UNCHANGED <<events, produced, taken, lost>>
  BY <1>5 DEF Events
<1> QED
  BY <1>2, <1>3, <1>4, <1>5

-----------------------------------------------------------------------------
(* The theorems.                                                           *)

LEMMA Inductive ==
  ASSUME Parameters
  PROVE  Spec => [](Inv /\ Events)
<1>1. Init => Inv /\ Events
  <2>1. Init => Events
    <3>1. SUFFICES ASSUME Init PROVE Events
      OBVIOUS
    <3>2. /\ << >> \in Seq(Nat) /\ Len(<< >>) = 0 /\ << >> \o << >> = << >>
      BY EmptySeq, ConcatEmptySeq
    <3>3. taken = << >> /\ events = << >> /\ produced = 0 /\ lost = 0
      BY <3>1 DEF Init
    <3>4. taken \o events = << >> /\ Len(taken) = 0 /\ Len(events) = 0
      BY <3>2, <3>3
    <3> QED
      BY <3>2, <3>3, <3>4 DEF Events, Parameters
  <2> QED
    BY <2>1, InitHolds
<1>2. Inv /\ Events /\ [Next]_vars => Inv' /\ Events'
  <2>1. SUFFICES ASSUME Inv, Events, [Next]_vars PROVE Inv' /\ Events'
    OBVIOUS
  <2>2. CASE UNCHANGED vars
    <3>1. Stage'
      BY <2>1, <2>2, StageKept DEF Inv, vars, clientVars, socketVars, workerVars
    <3>2. Typed' /\ Threads' /\ Blamed' /\ Ended'
      BY <2>1, <2>2 DEF Inv, Typed, Threads, Blamed, Ended, Alive, Joined, vars, clientVars, socketVars, workerVars
    <3>3. Events'
      BY <2>1, <2>2 DEF Events, vars, workerVars, eventVars
    <3> QED
      BY <3>1, <3>2, <3>3 DEF Inv
  <2>3. CASE ClientSteps
    BY <2>1, <2>3, UpdateStep, OutputStep, CloseWorkerStep, PumpStep, AbandonStep, EventsStep
       DEF ClientSteps, Next
  <2>4. CASE ClientAnswers
    BY <2>1, <2>4, ReceiveStep, UnansweredStep, EventsStep DEF ClientAnswers, Next
  <2>5. CASE ControlSteps
    BY <2>1, <2>5, ReadUpdateStep, AcknowledgeStep, AcknowledgeFailStep, ReadOutputStep, ReadCloseStep,
       ReadEofStep, FinishStep, EventsStep DEF ControlSteps, Next
  <2>6. CASE ThreadSteps
    BY <2>1, <2>6, UsbServiceStep, HostOutputStep, ThreadFailStep, ThreadStopStep, CrashStep, EventsStep
       DEF ThreadSteps, Next
  <2> QED
    BY <2>1, <2>2, <2>3, <2>4, <2>5, <2>6 DEF Next
<1> QED
  BY <1>1, <1>2, PTL DEF Spec

\* The lengths of the channels follow from the stage.
LEMMA ChannelsBounded ==
  ASSUME Stage
  PROVE  /\ Len(toWorker) \in 0..1 /\ Len(toClient) \in 0..2
         /\ Len(updates) \in 0..1 /\ Len(acks) \in 0..1
<1>1. Len(<< >>) \in 0..1 /\ Len(<< >>) \in 0..2
  BY EmptySeq
<1>2. /\ \A m : Len(<<m>>) \in 0..1 /\ Len(<<m>>) \in 0..2
      /\ \A m, n : Len(<<m, n>>) \in 0..2
  BY OneMessage, TwoMessages
<1>3. CASE Asked
  <2>1. PICK m : toWorker = <<m>>
    BY <1>3 DEF Asked
  <2> QED
    BY <1>1, <1>2, <1>3, <2>1, Zenon DEF Asked
<1>4. CASE Serving \/ Served
  <2>1. PICK m : (toClient = << >> \/ toClient = <<m>>) /\ toWorker = << >>
    BY <1>4 DEF Serving, Served, Forwarded
  <2>2. PICK u : (updates = <<u>> /\ acks = << >>) \/ (updates = << >> /\ acks = <<u>>)
    BY <1>4 DEF Serving, Served
  <2> QED
    BY <1>1, <1>2, <2>1, <2>2, Zenon
<1>5. CASE Answered \/ Silent
  <2>1. toWorker = << >> /\ updates = << >> /\ acks = << >>
    BY <1>5 DEF Answered, Silent, Elsewhere
  <2>2. PICK m, n : toClient = << >> \/ toClient = <<m>> \/ toClient = <<m, n>>
    BY <1>5 DEF Answered, Silent
  <2> QED
    BY <1>1, <1>2, <2>1, <2>2, Zenon
<1> QED
  BY <1>3, <1>4, <1>5 DEF Stage

\* Types, and the capacities of the channels: one exchange at a time never
\* holds more than one message to the worker and two to the client, and one
\* update or one acknowledgement inside the worker (Control::exchange,
\* control_loop).
THEOREM TypeCorrect ==
  ASSUME Parameters
  PROVE  Spec => []TypeOK
<1>1. Inv /\ Events => TypeOK
  <2>1. SUFFICES ASSUME Inv, Events PROVE TypeOK
    OBVIOUS
  <2>2. /\ Len(toWorker) \in 0..1 /\ Len(toClient) \in 0..2
        /\ Len(updates) \in 0..1 /\ Len(acks) \in 0..1
    BY <2>1, ChannelsBounded DEF Inv
  <2>3. Len(toWorker) <= 1 /\ Len(toClient) <= 2 /\ Len(updates) <= 1 /\ Len(acks) <= 1
    <3>1. (\A k \in 0..1 : k <= 1) /\ (\A k \in 0..2 : k <= 2)
      OBVIOUS
    <3> QED
      BY <2>2, <3>1, Zenon
  <2>4. Len(events) <= EventQueue
    BY <2>1 DEF Events
  <2> QED
    BY <2>1, <2>3, <2>4, Zenon DEF Inv, Typed, TypeOK
<1> QED
  BY <1>1, Inductive, PTL

\* Between exchanges the USB thread plays the state that the client last had
\* accepted, under the client's sequence number, and no reply is taken for the
\* reply to another request (Control::update, control_loop, Transactions::apply).
THEOREM StateIsAgreed ==
  ASSUME Parameters
  PROVE  Spec => []StateAgreed
<1>1. Inv => StateAgreed
  <2>1. SUFFICES ASSUME Inv PROVE StateAgreed
    OBVIOUS
  <2>2. client = "idle" /\ ~ closed => applied = Agreed
    BY <2>1, SilentStage DEF Inv, Operations, Silent
  <2> QED
    BY <2>1, <2>2 DEF Inv, Ended, StateAgreed, Agreed
<1> QED
  BY <1>1, Inductive, PTL

\* A successful close certifies that both threads ended without an error, and a
\* close in the order of close_with succeeds unless something failed by itself
\* (SampleStreams::close_with, Control::close, finish).
THEOREM CloseIsCertified ==
  ASSUME Parameters
  PROVE  Spec => []CloseCertified
<1>1. Inv => CloseCertified
  BY DEF Inv, Ended, CloseCertified
<1> QED
  BY <1>1, Inductive, PTL

\* Host outputs reach the client in order, and each is delivered, queued or
\* counted as lost, whatever the capacity of the queue (the USB handler,
\* control_loop).
THEOREM EventsAreAccounted ==
  ASSUME Parameters
  PROVE  Spec => []EventsAccounted
<1>1. Inv /\ Events => EventsAccounted
  BY DEF Events, EventsAccounted
<1> QED
  BY <1>1, Inductive, PTL

\* A worker that fails leaves the reason: an exchange ends without a message
\* only if the worker was killed (finish, CloseOnExit, Control::exchange).
THEOREM FailuresSurface ==
  ASSUME Parameters
  PROVE  Spec => []FailureSurfaces
<1>1. Inv => FailureSurfaces
  BY DEF Inv, Ended, FailureSurfaces
<1> QED
  BY <1>1, Inductive, PTL
=============================================================================
