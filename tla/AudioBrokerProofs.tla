-------------------------- MODULE AudioBrokerProofs --------------------------
(***************************************************************************)
(* Safety of the audio broker for every number of connections, users,      *)
(* ports, quotas and crashes: no port is leased twice, an attachment never *)
(* outlives its record, an acknowledged close has given everything back,   *)
(* and both quotas count exactly what is held.                             *)
(***************************************************************************)
EXTENDS AudioBroker, FiniteSetTheorems, WellFoundedInduction, TLAPS

USE BrokerAssumption
USE DEF daemon, outside, thread, stream

\* Where a thread may be once its worker's socket was attached to a port.
Attached == {"enumerate", "handoff", "channels", "serve", "close", "stop", "killing", "clear",
             "lease", "permit", "answer", "conn", "done", "dead"}

\* Where a thread relies on its record being on disk.
Recorded == {"recheck", "attach", "enumerate", "handoff", "channels", "serve"}

\* Where a thread may remember that its record is gone or its close succeeded.
Unwinding == {"close", "stop", "killing", "clear", "lease", "permit", "answer"}

\* The closes an unwinding makes.
Calls == {"request", "owned", "session"}

\* Threads live only in a running daemon.
Down == ~up => \A c \in Conns : pc[c] \in {"new", "done", "dead"}

\* The places of the threads, apart.
Places == pc \in [Conns -> Labels]

\* A thread that is in a close has that close at the head of those it still makes.
Closes ==
  /\ closes \in [Conns -> Seq(Calls)]
  /\ \A c \in Conns : pc[c] \in {"stop", "killing", "clear"} => closes[c] # << >>

\* What the ports hold.
Hubs == hub \in [Ports -> Occupants]

\* The types of everything else but the quotas, whose counters stay natural numbers only
\* because each permit is released once.
Types ==
  /\ up \in BOOLEAN
  /\ reserved \subseteq Ports /\ disk \subseteq Conns
  /\ worker \in [Conns -> {"none", "running", "exited", "reaped"}]
  /\ kernelSock \in [Conns -> {"none", "open", "shut"}]
  /\ seen \in [Conns -> SUBSET Ports]
  /\ port \in [Conns -> Ports \cup {NoPort}]
  /\ cleared \in [Conns -> BOOLEAN] /\ acked \in [Conns -> BOOLEAN]
  /\ gone \in [Conns -> BOOLEAN]
  /\ reply \in [Conns -> {"none", "opened", "channels", "failed", "closed"}]

\* The rest: what is counted, pending, remembered and sent.
Marks ==
  /\ crashes \in 0..MaxCrashes
  /\ killed \in [Conns -> BOOLEAN] /\ faulted \in [Conns -> BOOLEAN]
  /\ inbox \in [Conns -> {"none", "open", "close", "other"}]

\* A lease is a port of the pool, held by one thread.
Leases ==
  /\ \A c \in Lessees : port[c] \in Ports
  /\ LeasesExclusive

\* A device is on the hub only from its thread's attach on.
DevicePlaced == \A c \in Conns : Of(c) # {} => pc[c] \in Attached

\* The record is there while the thread relies on it.
RecordPlaced == \A c \in Conns : pc[c] \in Recorded => c \in disk

\* A close that stops the worker has shut its socket.
SocketShut == \A c \in Conns : pc[c] \in {"stop", "killing", "clear"} => kernelSock[c] = "shut"

\* The order of record, attachment, shutdown and removal that AttachmentsSafe rests on.
Attachments == DevicePlaced /\ RecordPlaced /\ SocketShut /\ AttachmentsSafe

\* A record is cleared only behind a reaped worker.
ClearReaped == \A c \in Conns : pc[c] = "clear" => worker[c] = "reaped"

\* A cleared record is gone, and an unwinding that may acknowledge has reaped and shut too.
Cleared == \A c \in Conns : cleared[c] \/ acked[c] => pc[c] \in Unwinding /\ c \notin disk
AckEarned == \A c \in Conns : acked[c] => worker[c] = "reaped" /\ kernelSock[c] = "shut"

\* The acknowledgement is sent at the end.
AckLast == \A c \in Conns : reply[c] = "closed" => pc[c] \in {"conn", "done", "dead"}

\* How the acknowledgement of a close came about.
Acknowledged == ClearReaped /\ Cleared /\ AckEarned /\ AckLast /\ AckMeansReleased

\* The quotas, which count the permits held.
Quota ==
  /\ admission \in [Kinds -> [total : Nat, peers : [Peers -> Nat]]]
  /\ QuotaExact

\* Together they are inductive.
IInv ==
  Types /\ Marks /\ Places /\ Closes /\ Hubs /\ Down /\ Leases /\ Attachments /\ Acknowledged /\ Quota

-----------------------------------------------------------------------------
(* Types and the hub.                                                      *)

\* The close calls of each unwinding.
LEMMA CallSequences ==
  /\ PreparedOnly \in Seq(Calls) /\ Owned \in Seq(Calls) /\ << >> \in Seq(Calls)
  /\ <<"request">> \o Owned \in Seq(Calls)
<1>1. PreparedOnly \in Seq(Calls) /\ Owned \in Seq(Calls) /\ << >> \in Seq(Calls)
  BY DEF PreparedOnly, Owned, Calls
<1>2. QED
  BY <1>1 DEF Calls

\* A nonempty set of ports has a least one, which ReservePort takes.
LEMMA LeastPort ==
  ASSUME NEW S \in SUBSET Ports, S # {}
  PROVE  Min(S) \in S
<1>1. S \in SUBSET Nat
  OBVIOUS
<1>2. IsWellFoundedOn(OpToRel(<, Nat), Nat)
  BY NatLessThanWellFounded
<1>3. PICK x \in S : \A y \in S : ~ (<<y, x>> \in OpToRel(<, Nat))
  BY <1>1, <1>2, WFMin
<1>4. \A y \in S : x =< y
  <2>1. ASSUME NEW y \in S, y < x
        PROVE  FALSE
    BY <1>1, <1>3, <2>1 DEF OpToRel
  <2>2. QED
    BY <1>1, <2>1
<1>5. QED
  BY <1>4 DEF Min

\* Every step keeps the types.
LEMMA TypesStep ==
  ASSUME Types, [Next]_vars
  PROVE  Types'
<1>1. ASSUME NEW c \in Conns, Accept(c) \/ Request(c) \/ FirstEof(c) \/ ReadStatus(c)
     PROVE  Types'
  BY <1>1 DEF Accept, Request, FirstEof, ReadStatus, free_high_speed_ports, At, Go, Unwind, Reaped, Attempted, Types
<1>2. ASSUME NEW c \in Conns, ReservePort(c)
     PROVE  Types'
  <2>1. CASE Candidates(c) = {}
    BY <1>2, <2>1 DEF ReservePort, At, Go, Unwind, Reaped, Attempted, Types
  <2>2. CASE Candidates(c) # {}
    <3>1. Candidates(c) \in SUBSET Ports
      BY DEF Candidates, Types
    <3>2. Min(Candidates(c)) \in Ports
      BY <2>2, <3>1, LeastPort
    <3>3. PICK q \in Ports : reserved' = reserved \cup {q} /\ port' = [port EXCEPT ![c] = q]
      BY <1>2, <2>2, <3>2 DEF ReservePort
    <3>4. QED
      BY <1>2, <3>3 DEF ReservePort, Types
  <2>3. QED
    BY <2>1, <2>2
<1>3. ASSUME NEW c \in Conns, CheckPort(c) \/ Spawn(c) \/ Ready(c) \/ Recheck(c) \/
            EnumerateDeadline(c) \/ ServeRequest(c)
     PROVE  Types'
  BY <1>3 DEF CheckPort, Spawn, Ready, Recheck, EnumerateDeadline, ServeRequest, At, Go, Unwind, Reaped, Attempted, Types
<1>4. ASSUME NEW c \in Conns, WriteRecord(c) \/ Attach(c) \/ Enumerate(c) \/ ServeWorkerDied(c)
     PROVE  Types'
  BY <1>4 DEF WriteRecord, Attach, Enumerate, ServeWorkerDied, At, Go, Unwind, Reaped, Attempted, Types
<1>5. ASSUME NEW c \in Conns, Handoff(c) \/ SendChannels(c) \/ CloseShutdown(c) \/ StopKill(c) \/
            StopTimeout(c)
     PROVE  Types'
  BY <1>5 DEF Handoff, SendChannels, CloseShutdown, StopKill, StopTimeout, At, Go, Unwind, Reaped, Attempted, Types
<1>6. ASSUME NEW c \in Conns, StopReaped(c) \/ ClearRecord(c)
     PROVE  Types'
  BY <1>6 DEF StopReaped, ClearRecord, At, Go, Unwind, Reaped, Attempted, Types
<1>7. ASSUME NEW c \in Conns, Dropped(c) \/ DropLease(c) \/ DropPermit(c) \/ Answer(c) \/ ThreadEnd(c)
     PROVE  Types'
  BY <1>7 DEF Dropped, DropLease, DropPermit, Answer, ThreadEnd, At, Go, Unwind, Reaped, Attempted, Types
<1>8. ASSUME NEW c \in Conns, ClientSend(c) \/ ClientLeave(c) \/ WorkerExit(c) \/ AdminReview(c)
     PROVE  Types'
  BY <1>8 DEF ClientSend, ClientLeave, WorkerExit, AdminReview, At, Go, Unwind, Reaped, Attempted, Types
<1>9. ASSUME NEW p \in Ports, HubEnumerates(p) \/ HubLosesDevice(p) \/ HubFreesPort(p) \/ AdminAttach(p) \/ AdminDetach(p)
     PROVE  Types'
  BY <1>9 DEF HubEnumerates, HubLosesDevice, HubFreesPort, AdminAttach, AdminDetach, Types
<1>10. CASE Crash
  BY <1>10 DEF Crash, Types
<1>11. CASE Start
  BY <1>11 DEF Start, Types
<1>12. CASE UNCHANGED vars
  BY <1>12 DEF vars, Types
<1>13. QED
  BY <1>1, <1>2, <1>3, <1>4, <1>5, <1>6, <1>7, <1>8, <1>9, <1>10, <1>11, <1>12 DEF Next, Step, Hub

\* An attempt that returned leaves the closes after it.
LEMMA AttemptedCloses ==
  ASSUME Places, Closes, NEW c \in Conns, closes[c] # << >>, NEW ok \in BOOLEAN, Attempted(c, ok)
  PROVE  Closes'
<1>1. Tail(closes[c]) \in Seq(Calls)
  BY DEF Closes
<1>2. closes' = [closes EXCEPT ![c] = Tail(closes[c])] /\ pc' = [pc EXCEPT ![c] = "close"]
  BY DEF Attempted, Go
<1>3. QED
  BY <1>1, <1>2 DEF Places, Closes

\* Every step keeps the closes of an unwinding.
LEMMA ClosesStep ==
  ASSUME Places, Closes, [Next]_vars
  PROVE  Closes'
<1>1. ASSUME NEW c \in Conns, Accept(c) \/ Request(c) \/ FirstEof(c) \/ ReadStatus(c) \/
            ReservePort(c) \/ CheckPort(c) \/ Spawn(c)
     PROVE  Closes'
  BY <1>1, CallSequences DEF Accept, Request, FirstEof, ReadStatus, ReservePort, CheckPort, Spawn, At, Go, Unwind, Places, Closes
<1>2. ASSUME NEW c \in Conns, Ready(c) \/ Recheck(c) \/ EnumerateDeadline(c) \/ ServeRequest(c)
     PROVE  Closes'
  BY <1>2, CallSequences DEF Ready, Recheck, EnumerateDeadline, ServeRequest, At, Go, Unwind, Places, Closes
<1>3. ASSUME NEW c \in Conns, WriteRecord(c) \/ Attach(c) \/ Enumerate(c) \/ ServeWorkerDied(c)
     PROVE  Closes'
  BY <1>3, CallSequences DEF WriteRecord, Attach, Enumerate, ServeWorkerDied, At, Go, Unwind, Places, Closes
<1>4. ASSUME NEW c \in Conns, Handoff(c) \/ SendChannels(c) \/ CloseShutdown(c)
     PROVE  Closes'
  BY <1>4, CallSequences DEF Handoff, SendChannels, CloseShutdown, At, Go, Unwind, Places, Closes
<1>5. ASSUME NEW c \in Conns, StopKill(c) \/ StopTimeout(c)
     PROVE  Closes'
  <2>1. closes[c] # << >>
    BY <1>5 DEF StopKill, StopTimeout, At, Closes
  <2>2. CASE \E ok \in BOOLEAN : Attempted(c, ok)
    BY <2>1, <2>2, AttemptedCloses
  <2>3. CASE UNCHANGED closes /\ pc'[c] \in {"killing", "clear"} /\ Go(c, pc'[c])
    BY <2>1, <2>3 DEF Go, Places, Closes
  <2>4. QED
    BY <1>5, <2>2, <2>3 DEF StopKill, StopTimeout, Go, Places
<1>6. ASSUME NEW c \in Conns, StopReaped(c)
     PROVE  Closes'
  <2>1. closes[c] # << >>
    BY <1>6 DEF StopReaped, At, Closes
  <2>2. CASE \E ok \in BOOLEAN : Attempted(c, ok)
    BY <2>1, <2>2, AttemptedCloses
  <2>3. CASE UNCHANGED closes /\ pc'[c] \in {"killing", "clear"} /\ Go(c, pc'[c])
    BY <2>1, <2>3 DEF Go, Places, Closes
  <2>4. QED
    BY <1>6, <2>2, <2>3 DEF StopReaped, Go, Places
<1>7. ASSUME NEW c \in Conns, ClearRecord(c)
     PROVE  Closes'
  <2>1. closes[c] # << >>
    BY <1>7 DEF ClearRecord, At, Closes
  <2>2. CASE \E ok \in BOOLEAN : Attempted(c, ok)
    BY <2>1, <2>2, AttemptedCloses
  <2>3. CASE UNCHANGED closes /\ pc'[c] \in {"killing", "clear"} /\ Go(c, pc'[c])
    BY <2>1, <2>3 DEF Go, Places, Closes
  <2>4. QED
    BY <1>7, <2>2, <2>3 DEF ClearRecord, Go, Places
<1>8. ASSUME NEW c \in Conns, Dropped(c) \/ DropLease(c) \/ DropPermit(c) \/ Answer(c) \/ ThreadEnd(c)
     PROVE  Closes'
  BY <1>8, CallSequences DEF Dropped, DropLease, DropPermit, Answer, ThreadEnd, At, Go, Unwind, Places, Closes
<1>9. ASSUME NEW c \in Conns, ClientSend(c) \/ ClientLeave(c) \/ WorkerExit(c) \/ AdminReview(c)
     PROVE  Closes'
  BY <1>9, CallSequences DEF ClientSend, ClientLeave, WorkerExit, AdminReview, At, Go, Unwind, Places, Closes
<1>10. ASSUME NEW p \in Ports, HubEnumerates(p) \/ HubLosesDevice(p) \/ HubFreesPort(p) \/ AdminAttach(p) \/ AdminDetach(p)
     PROVE  Closes'
  BY <1>10 DEF HubEnumerates, HubLosesDevice, HubFreesPort, AdminAttach, AdminDetach, Closes
<1>11. CASE Crash
  BY <1>11, CallSequences DEF Crash, Live, Closes
<1>12. CASE Start
  BY <1>12 DEF Start, Closes
<1>13. CASE UNCHANGED vars
  BY <1>13 DEF vars, Closes
<1>14. QED
  BY <1>1, <1>2, <1>3, <1>4, <1>5, <1>6, <1>7, <1>8, <1>9, <1>10, <1>11, <1>12, <1>13 DEF Next, Step, Hub

\* Every step leaves each thread at one of its places.
LEMMA PlacesStep ==
  ASSUME Places, [Next]_vars
  PROVE  Places'
<1>1. ASSUME NEW c \in Conns, Accept(c) \/ Request(c) \/ FirstEof(c) \/ ReadStatus(c) \/
            ReservePort(c)
     PROVE  Places'
  BY <1>1 DEF Accept, Request, FirstEof, ReadStatus, ReservePort, At, Go, Unwind, Reaped, Attempted, Places, Labels, Admitted, Leasing, Prepared
<1>2. ASSUME NEW c \in Conns, CheckPort(c) \/ Spawn(c) \/ Ready(c) \/ Recheck(c) \/
            EnumerateDeadline(c)
     PROVE  Places'
  BY <1>2 DEF CheckPort, Spawn, Ready, Recheck, EnumerateDeadline, At, Go, Unwind, Reaped, Attempted, Places, Labels, Admitted, Leasing, Prepared
<1>3. ASSUME NEW c \in Conns, ServeRequest(c) \/ WriteRecord(c) \/ Attach(c)
     PROVE  Places'
  BY <1>3 DEF ServeRequest, WriteRecord, Attach, At, Go, Unwind, Reaped, Attempted, Places, Labels, Admitted, Leasing, Prepared
<1>4. ASSUME NEW c \in Conns, Enumerate(c) \/ ServeWorkerDied(c)
     PROVE  Places'
  BY <1>4 DEF Enumerate, ServeWorkerDied, At, Go, Unwind, Reaped, Attempted, Places, Labels, Admitted, Leasing, Prepared
<1>5. ASSUME NEW c \in Conns, Handoff(c) \/ SendChannels(c)
     PROVE  Places'
  BY <1>5 DEF Handoff, SendChannels, At, Go, Unwind, Reaped, Attempted, Places, Labels, Admitted, Leasing, Prepared
<1>6. ASSUME NEW c \in Conns, CloseShutdown(c) \/ StopKill(c) \/ StopTimeout(c)
     PROVE  Places'
  BY <1>6 DEF CloseShutdown, StopKill, StopTimeout, At, Go, Unwind, Reaped, Attempted, Places, Labels, Admitted, Leasing, Prepared
<1>7. ASSUME NEW c \in Conns, StopReaped(c)
     PROVE  Places'
  BY <1>7 DEF StopReaped, At, Go, Unwind, Reaped, Attempted, Places, Labels, Admitted, Leasing, Prepared
<1>8. ASSUME NEW c \in Conns, ClearRecord(c)
     PROVE  Places'
  BY <1>8 DEF ClearRecord, At, Go, Unwind, Reaped, Attempted, Places, Labels, Admitted, Leasing, Prepared
<1>9. ASSUME NEW c \in Conns, Dropped(c) \/ DropLease(c) \/ DropPermit(c) \/ Answer(c) \/ ThreadEnd(c)
     PROVE  Places'
  BY <1>9 DEF Dropped, DropLease, DropPermit, Answer, ThreadEnd, At, Go, Unwind, Reaped, Attempted, Places, Labels, Admitted, Leasing, Prepared
<1>10. ASSUME NEW c \in Conns, ClientSend(c) \/ ClientLeave(c) \/ WorkerExit(c) \/ AdminReview(c)
     PROVE  Places'
  BY <1>10 DEF ClientSend, ClientLeave, WorkerExit, AdminReview, At, Go, Unwind, Reaped, Attempted, Places, Labels, Admitted, Leasing, Prepared
<1>11. ASSUME NEW p \in Ports, HubEnumerates(p) \/ HubLosesDevice(p) \/ HubFreesPort(p) \/ AdminAttach(p) \/ AdminDetach(p)
     PROVE  Places'
  BY <1>11 DEF HubEnumerates, HubLosesDevice, HubFreesPort, AdminAttach, AdminDetach, Places
<1>12. CASE Crash
  BY <1>12 DEF Crash, At, Go, Unwind, Reaped, Attempted, Places, Labels, Admitted, Leasing, Prepared
<1>13. CASE Start
  BY <1>13 DEF Start, At, Go, Unwind, Reaped, Attempted, Places, Labels, Admitted, Leasing, Prepared
<1>14. CASE UNCHANGED vars
  BY <1>14 DEF vars, At, Go, Unwind, Reaped, Attempted, Places, Labels, Admitted, Leasing, Prepared
<1>15. QED
  BY <1>1, <1>2, <1>3, <1>4, <1>5, <1>6, <1>7, <1>8, <1>9, <1>10, <1>11, <1>12, <1>13, <1>14 DEF Next, Step, Hub

-----------------------------------------------------------------------------
(* The hub: a session's device appears by its own attach only.             *)

HubMove == \A d \in Conns : Of(d)' \subseteq Of(d) \/ Attach(d)

\* The kernel, an administrator and the other threads only take a session's device away.
LEMMA HubStep ==
  ASSUME Hubs, [Next]_vars
  PROVE  Hubs' /\ HubMove
<1>1. ASSUME NEW c \in Conns, Accept(c) \/ Request(c) \/ FirstEof(c) \/ ReadStatus(c) \/
            ReservePort(c) \/ CheckPort(c) \/ Spawn(c)
     PROVE  Hubs' /\ HubMove
  BY <1>1 DEF Accept, Request, FirstEof, ReadStatus, ReservePort, CheckPort, Spawn, HubMove, Hubs, Of
<1>2. ASSUME NEW c \in Conns, Ready(c) \/ Recheck(c) \/ EnumerateDeadline(c) \/ ServeRequest(c) \/
            WriteRecord(c)
     PROVE  Hubs' /\ HubMove
  BY <1>2 DEF Ready, Recheck, EnumerateDeadline, ServeRequest, WriteRecord, HubMove, Hubs, Of
<1>3. ASSUME NEW c \in Conns, Attach(c)
     PROVE  Hubs' /\ HubMove
  BY <1>3 DEF Attach, At, HubMove, Hubs, Of, Device, Occupants, PortStates
<1>4. ASSUME NEW c \in Conns, Enumerate(c) \/ ServeWorkerDied(c) \/ Handoff(c) \/ SendChannels(c) \/
            CloseShutdown(c)
     PROVE  Hubs' /\ HubMove
  BY <1>4 DEF Enumerate, ServeWorkerDied, Handoff, SendChannels, CloseShutdown, HubMove, Hubs, Of
<1>5. ASSUME NEW c \in Conns, StopKill(c) \/ StopTimeout(c) \/ StopReaped(c) \/ ClearRecord(c)
     PROVE  Hubs' /\ HubMove
  BY <1>5 DEF StopKill, StopTimeout, StopReaped, ClearRecord, HubMove, Hubs, Of
<1>6. ASSUME NEW c \in Conns, Dropped(c) \/ DropLease(c) \/ DropPermit(c) \/ Answer(c) \/ ThreadEnd(c)
     PROVE  Hubs' /\ HubMove
  BY <1>6 DEF Dropped, DropLease, DropPermit, Answer, ThreadEnd, HubMove, Hubs, Of
<1>7. ASSUME NEW c \in Conns, ClientSend(c) \/ ClientLeave(c) \/ WorkerExit(c) \/ AdminReview(c)
     PROVE  Hubs' /\ HubMove
  BY <1>7 DEF ClientSend, ClientLeave, WorkerExit, AdminReview, HubMove, Hubs, Of
<1>8. ASSUME NEW p \in Ports, HubEnumerates(p) \/ HubLosesDevice(p) \/ HubFreesPort(p) \/ AdminAttach(p) \/ AdminDetach(p)
     PROVE  Hubs' /\ HubMove
  <2>1. ASSUME NEW s \in PortStates, hub[p].kind = "ours", hub' = [hub EXCEPT ![p] = Device(hub[p].of, s)]
        PROVE  Hubs' /\ HubMove
    <3>1. hub[p].of \in Conns
      BY <2>1 DEF Hubs, Occupants, Free, Outside, Device
    <3>2. QED
      BY <2>1, <3>1 DEF HubMove, Hubs, Of, Occupants, Device
  <2>2. CASE HubEnumerates(p) \/ HubLosesDevice(p)
    BY <2>1, <2>2 DEF HubEnumerates, HubLosesDevice, PortStates
  <2>3. CASE HubFreesPort(p) \/ AdminDetach(p)
    <3>1. hub' = [hub EXCEPT ![p] = Free]
      BY <2>3 DEF HubFreesPort, AdminDetach
    <3>2. QED
      BY <3>1 DEF HubMove, Hubs, Of, Occupants, Free
  <2>4. CASE AdminAttach(p)
    BY <2>4 DEF AdminAttach, HubMove, Hubs, Of, Occupants, Outside
  <2>5. QED
    BY <1>8, <2>2, <2>3, <2>4
<1>9. CASE Crash
  BY <1>9 DEF Crash, HubMove, Hubs, Of
<1>10. CASE Start
  BY <1>10 DEF Start, HubMove, Hubs, Of
<1>11. CASE UNCHANGED vars
  BY <1>11 DEF vars, HubMove, Hubs, Of
<1>12. QED
  BY <1>1, <1>2, <1>3, <1>4, <1>5, <1>6, <1>7, <1>8, <1>9, <1>10, <1>11 DEF Next, Step, Hub

-----------------------------------------------------------------------------
(* Threads and the daemon.                                                 *)

\* A killed daemon has no thread left, and a start creates none.
LEMMA DownStep ==
  ASSUME Places, Down, [Next]_vars
  PROVE  Down'
<1>1. ASSUME NEW c \in Conns, Accept(c) \/ Request(c) \/ FirstEof(c) \/ ReadStatus(c) \/
            ReservePort(c) \/ CheckPort(c) \/ Spawn(c)
     PROVE  Down'
  BY <1>1 DEF Accept, Request, FirstEof, ReadStatus, ReservePort, CheckPort, Spawn, At, Go, Unwind, Down, Places
<1>2. ASSUME NEW c \in Conns, Ready(c) \/ Recheck(c) \/ EnumerateDeadline(c) \/ ServeRequest(c) \/
            WriteRecord(c)
     PROVE  Down'
  BY <1>2 DEF Ready, Recheck, EnumerateDeadline, ServeRequest, WriteRecord, At, Go, Unwind, Down, Places
<1>3. ASSUME NEW c \in Conns, Attach(c)
     PROVE  Down'
  BY <1>3 DEF Attach, At, Go, Unwind, Down, Places
<1>4. ASSUME NEW c \in Conns, Enumerate(c) \/ ServeWorkerDied(c) \/ Handoff(c) \/ SendChannels(c) \/
            CloseShutdown(c)
     PROVE  Down'
  BY <1>4 DEF Enumerate, ServeWorkerDied, Handoff, SendChannels, CloseShutdown, At, Go, Unwind, Down, Places
<1>5. ASSUME NEW c \in Conns, StopKill(c) \/ StopTimeout(c) \/ StopReaped(c) \/ ClearRecord(c)
     PROVE  Down'
  BY <1>5 DEF StopKill, StopTimeout, StopReaped, ClearRecord, At, Go, Unwind, Down, Places, Attempted
<1>6. ASSUME NEW c \in Conns, Dropped(c) \/ DropLease(c) \/ DropPermit(c) \/ Answer(c) \/ ThreadEnd(c)
     PROVE  Down'
  BY <1>6 DEF Dropped, DropLease, DropPermit, Answer, ThreadEnd, At, Go, Unwind, Down, Places
<1>7. ASSUME NEW c \in Conns, ClientSend(c) \/ ClientLeave(c) \/ WorkerExit(c) \/ AdminReview(c)
     PROVE  Down'
  BY <1>7 DEF ClientSend, ClientLeave, WorkerExit, AdminReview, Down
<1>8. ASSUME NEW p \in Ports, HubEnumerates(p) \/ HubLosesDevice(p) \/ HubFreesPort(p) \/ AdminAttach(p) \/ AdminDetach(p)
     PROVE  Down'
  BY <1>8 DEF HubEnumerates, HubLosesDevice, HubFreesPort, AdminAttach, AdminDetach, Down
<1>9. CASE Crash
  BY <1>9 DEF Crash, Live, Down
<1>10. CASE Start
  BY <1>10 DEF Start, Down
<1>11. CASE UNCHANGED vars
  BY <1>11 DEF vars, Down
<1>12. QED
  BY <1>1, <1>2, <1>3, <1>4, <1>5, <1>6, <1>7, <1>8, <1>9, <1>10, <1>11 DEF Next, Step, Hub

-----------------------------------------------------------------------------
(* Leases.                                                                 *)

\* A step that touches neither the hubs nor the leases keeps Leases.
LEMMA LeasesSame ==
  ASSUME Leases, reserved' = reserved, port' = port, Lessees' = Lessees
  PROVE  Leases'
  BY DEF Leases, LeasesExclusive

\* Leases go with the places that hold them.
LEMMA LeasesStep ==
  ASSUME Types, Places, Leases, [Next]_vars
  PROVE  Leases'
<1>1. ASSUME NEW c \in Conns, Accept(c) \/ Request(c) \/ FirstEof(c) \/ ReadStatus(c)
     PROVE  Leases'
  <2>1. reserved' = reserved /\ port' = port
    BY <1>1 DEF Accept, Request, FirstEof, ReadStatus, Unwind
  <2>2. Lessees' = Lessees
    BY <1>1 DEF Accept, Request, FirstEof, ReadStatus, At, Go, Unwind, Places, Lessees, Leasing, Prepared
  <2>3. QED
    BY <2>1, <2>2, LeasesSame
<1>2. ASSUME NEW c \in Conns, ReservePort(c)
     PROVE  Leases'
  <2>1. CASE Candidates(c) = {}
    <3>1. reserved' = reserved /\ port' = port
      BY <1>2, <2>1 DEF ReservePort
    <3>2. Lessees' = Lessees
      BY <1>2, <2>1 DEF ReservePort, At, Go, Unwind, Places, Lessees, Leasing, Prepared
    <3>3. QED
      BY <3>1, <3>2, LeasesSame
  <2>2. CASE Candidates(c) # {}
    <3>1. Candidates(c) \in SUBSET Ports
      BY DEF Candidates, Types
    <3>2. Min(Candidates(c)) \in Candidates(c)
      BY <2>2, <3>1, LeastPort
    <3>3. PICK q \in Ports \ reserved :
            /\ reserved' = reserved \cup {q} /\ port' = [port EXCEPT ![c] = q]
            /\ Go(c, "check")
      BY <1>2, <2>2, <3>1, <3>2 DEF ReservePort, Candidates
    <3>4. c \notin Lessees /\ Lessees' = Lessees \cup {c}
      BY <1>2, <3>3 DEF ReservePort, At, Go, Places, Lessees, Leasing, Prepared
    <3>5. port'[c] = q /\ \A d \in Lessees : port'[d] = port[d]
      BY <3>3, <3>4 DEF Types, Lessees
    <3>6. QED
      BY <3>3, <3>4, <3>5 DEF Leases, LeasesExclusive
  <2>3. QED
    BY <2>1, <2>2
<1>3. ASSUME NEW c \in Conns, CheckPort(c) \/ Spawn(c)
     PROVE  Leases'
  <2>1. reserved' = reserved /\ port' = port
    BY <1>3 DEF CheckPort, Spawn, Unwind
  <2>2. Lessees' = Lessees
    BY <1>3 DEF CheckPort, Spawn, At, Go, Unwind, Places, Lessees, Leasing, Prepared
  <2>3. QED
    BY <2>1, <2>2, LeasesSame
<1>4. ASSUME NEW c \in Conns, Ready(c) \/ Recheck(c) \/ EnumerateDeadline(c) \/ ServeRequest(c) \/
            WriteRecord(c) \/ Attach(c)
     PROVE  Leases'
  <2>1. reserved' = reserved /\ port' = port
    BY <1>4 DEF Ready, Recheck, EnumerateDeadline, ServeRequest, WriteRecord, Attach, Unwind
  <2>2. Lessees' = Lessees
    BY <1>4 DEF Ready, Recheck, EnumerateDeadline, ServeRequest, WriteRecord, Attach, At, Go, Unwind, Places, Lessees, Leasing, Prepared
  <2>3. QED
    BY <2>1, <2>2, LeasesSame
<1>5. ASSUME NEW c \in Conns, Enumerate(c) \/ ServeWorkerDied(c) \/ Handoff(c) \/ SendChannels(c) \/
            CloseShutdown(c)
     PROVE  Leases'
  <2>1. reserved' = reserved /\ port' = port
    BY <1>5 DEF Enumerate, ServeWorkerDied, Handoff, SendChannels, CloseShutdown, Unwind
  <2>2. Lessees' = Lessees
    BY <1>5 DEF Enumerate, ServeWorkerDied, Handoff, SendChannels, CloseShutdown, At, Go, Unwind, Places, Lessees, Leasing, Prepared
  <2>3. QED
    BY <2>1, <2>2, LeasesSame
<1>6. ASSUME NEW c \in Conns, StopKill(c) \/ StopTimeout(c) \/ StopReaped(c) \/ ClearRecord(c)
     PROVE  Leases'
  <2>1. reserved' = reserved /\ port' = port
    BY <1>6 DEF StopKill, StopTimeout, StopReaped, ClearRecord, Unwind
  <2>2. Lessees' = Lessees
    BY <1>6 DEF StopKill, StopTimeout, StopReaped, ClearRecord, At, Go, Unwind, Places, Lessees, Leasing, Prepared, Attempted
  <2>3. QED
    BY <2>1, <2>2, LeasesSame
<1>7. ASSUME NEW c \in Conns, Dropped(c) \/ DropPermit(c) \/ ThreadEnd(c)
     PROVE  Leases'
  <2>1. reserved' = reserved /\ port' = port
    BY <1>7 DEF Dropped, DropPermit, ThreadEnd, Unwind
  <2>2. Lessees' = Lessees
    BY <1>7 DEF Dropped, DropPermit, ThreadEnd, At, Go, Unwind, Places, Lessees, Leasing, Prepared
  <2>3. QED
    BY <2>1, <2>2, LeasesSame
<1>8. ASSUME NEW c \in Conns, DropLease(c)
     PROVE  Leases'
  <2>1. c \in Lessees /\ Lessees' = Lessees \ {c}
    BY <1>8 DEF DropLease, At, Go, Places, Lessees, Leasing, Prepared
  <2>2. reserved' = reserved \ {port[c]} /\ port' = port
    BY <1>8 DEF DropLease
  <2>3. QED
    BY <2>1, <2>2 DEF Leases, LeasesExclusive
<1>9. ASSUME NEW c \in Conns, Answer(c)
     PROVE  Leases'
  <2>1. c \notin Lessees /\ Lessees' = Lessees
    BY <1>9 DEF Answer, At, Go, Places, Lessees, Leasing, Prepared
  <2>2. reserved' = reserved /\ \A d \in Lessees : port'[d] = port[d]
    BY <1>9, <2>1 DEF Answer, Types, Lessees
  <2>3. QED
    BY <2>1, <2>2 DEF Leases, LeasesExclusive
<1>10. ASSUME NEW c \in Conns, ClientSend(c) \/ ClientLeave(c) \/ WorkerExit(c) \/ AdminReview(c)
     PROVE  Leases'
  <2>1. reserved' = reserved /\ port' = port
    BY <1>10 DEF ClientSend, ClientLeave, WorkerExit, AdminReview, Unwind
  <2>2. Lessees' = Lessees
    BY <1>10 DEF ClientSend, ClientLeave, WorkerExit, AdminReview, At, Go, Unwind, Places, Lessees, Leasing, Prepared
  <2>3. QED
    BY <2>1, <2>2, LeasesSame
<1>11. ASSUME NEW p \in Ports, HubEnumerates(p) \/ HubLosesDevice(p) \/ HubFreesPort(p) \/ AdminAttach(p) \/ AdminDetach(p)
     PROVE  Leases'
  BY <1>11, LeasesSame DEF HubEnumerates, HubLosesDevice, HubFreesPort, AdminAttach, AdminDetach, Lessees
<1>12. CASE Crash
  <2>1. Lessees' = {} /\ reserved' = {}
    BY <1>12 DEF Crash, Live, Lessees, Leasing, Prepared
  <2>2. QED
    BY <2>1 DEF Leases, LeasesExclusive
<1>13. CASE Start
  BY <1>13, LeasesSame DEF Start, Lessees
<1>14. CASE UNCHANGED vars
  BY <1>14, LeasesSame DEF vars, Lessees
<1>15. QED
  BY <1>1, <1>2, <1>3, <1>4, <1>5, <1>6, <1>7, <1>8, <1>9, <1>10, <1>11, <1>12, <1>13, <1>14 DEF Next, Step, Hub

\* Every step keeps the other types.
LEMMA MarksStep ==
  ASSUME Places, Types, Marks, [Next]_vars
  PROVE  Marks'
<1>1. ASSUME NEW c \in Conns, Accept(c) \/ Request(c) \/ FirstEof(c) \/ ReadStatus(c)
     PROVE  Marks'
  BY <1>1 DEF Accept, Request, FirstEof, ReadStatus, Marks
<1>2. ASSUME NEW c \in Conns, ReservePort(c) \/ CheckPort(c) \/ Spawn(c)
     PROVE  Marks'
  BY <1>2 DEF ReservePort, CheckPort, Spawn, Marks
<1>3. ASSUME NEW c \in Conns, Ready(c) \/ Recheck(c) \/ EnumerateDeadline(c) \/ ServeRequest(c)
     PROVE  Marks'
  BY <1>3 DEF Ready, Recheck, EnumerateDeadline, ServeRequest, Marks
<1>4. ASSUME NEW c \in Conns, WriteRecord(c) \/ Attach(c)
     PROVE  Marks'
  BY <1>4 DEF WriteRecord, Attach, Marks
<1>5. ASSUME NEW c \in Conns, Enumerate(c) \/ ServeWorkerDied(c)
     PROVE  Marks'
  BY <1>5 DEF Enumerate, ServeWorkerDied, Marks, Reaped
<1>6. ASSUME NEW c \in Conns, Handoff(c) \/ SendChannels(c) \/ CloseShutdown(c)
     PROVE  Marks'
  BY <1>6 DEF Handoff, SendChannels, CloseShutdown, Marks
<1>7. ASSUME NEW c \in Conns, StopKill(c) \/ StopTimeout(c)
     PROVE  Marks'
  BY <1>7 DEF StopKill, StopTimeout, Marks, Attempted
<1>8. ASSUME NEW c \in Conns, StopReaped(c)
     PROVE  Marks'
  BY <1>8 DEF StopReaped, Marks, Attempted
<1>9. ASSUME NEW c \in Conns, ClearRecord(c)
     PROVE  Marks'
  BY <1>9 DEF ClearRecord, Marks, Attempted
<1>10. ASSUME NEW c \in Conns, Dropped(c) \/ DropLease(c) \/ DropPermit(c)
     PROVE  Marks'
  BY <1>10 DEF Dropped, DropLease, DropPermit, Marks
<1>11. ASSUME NEW c \in Conns, Answer(c) \/ ThreadEnd(c)
     PROVE  Marks'
  BY <1>11 DEF Answer, ThreadEnd, ParentDeathSignal, Marks
<1>12. ASSUME NEW c \in Conns, ClientSend(c) \/ ClientLeave(c) \/ WorkerExit(c) \/ AdminReview(c)
     PROVE  Marks'
  BY <1>12 DEF ClientSend, ClientLeave, WorkerExit, AdminReview, Marks
<1>13. ASSUME NEW p \in Ports, HubEnumerates(p) \/ HubLosesDevice(p) \/ HubFreesPort(p) \/ AdminAttach(p) \/ AdminDetach(p)
     PROVE  Marks'
  BY <1>13 DEF HubEnumerates, HubLosesDevice, HubFreesPort, AdminAttach, AdminDetach, Marks
<1>14. CASE Crash
  <2>1. /\ crashes' = crashes + 1 /\ crashes < MaxCrashes
        /\ killed' = [c \in Conns |-> ParentDeathSignal(c)]
        /\ faulted' = faulted /\ inbox' = [c \in Conns |-> "none"]
    BY <1>14 DEF Crash
  <2>2. \A c \in Conns : ParentDeathSignal(c) \in BOOLEAN
    BY DEF ParentDeathSignal
  <2>3. QED
    BY <2>1, <2>2 DEF Marks
<1>15. CASE Start
  BY <1>15 DEF Start, Marks
<1>16. CASE UNCHANGED vars
  BY <1>16 DEF vars, Marks
<1>17. QED
  BY <1>1, <1>2, <1>3, <1>4, <1>5, <1>6, <1>7, <1>8, <1>9, <1>10, <1>11, <1>12, <1>13, <1>14, <1>15, <1>16 DEF Next, Step, Hub

-----------------------------------------------------------------------------
(* What one step may do, one kind of state at a time.                      *)

\* A thread goes forward: it never leaves an attachment's places for earlier ones, dies only
\* with the daemon, and its end is an end.
PlaceMove ==
  \A d \in Conns :
    /\ pc[d] \in Attached => pc'[d] \in Attached
    /\ up' /\ pc'[d] = "dead" => pc[d] = "dead"
    /\ pc[d] \in {"conn", "done", "dead"} => pc'[d] \in {"conn", "done", "dead"}

\* Every step moves the threads forward only.
LEMMA PlaceMoves ==
  ASSUME Places, [Next]_vars
  PROVE  PlaceMove
<1>1. ASSUME NEW c \in Conns, Accept(c) \/ Request(c) \/ FirstEof(c) \/ ReadStatus(c)
     PROVE  PlaceMove
  BY <1>1 DEF Accept, Request, FirstEof, ReadStatus, At, Go, Unwind, Places, PlaceMove, Attached
<1>2. ASSUME NEW c \in Conns, ReservePort(c) \/ CheckPort(c) \/ Spawn(c)
     PROVE  PlaceMove
  BY <1>2 DEF ReservePort, CheckPort, Spawn, At, Go, Unwind, Places, PlaceMove, Attached
<1>3. ASSUME NEW c \in Conns, Ready(c) \/ Recheck(c) \/ EnumerateDeadline(c) \/ ServeRequest(c)
     PROVE  PlaceMove
  BY <1>3 DEF Ready, Recheck, EnumerateDeadline, ServeRequest, At, Go, Unwind, Places, PlaceMove, Attached
<1>4. ASSUME NEW c \in Conns, WriteRecord(c) \/ Attach(c)
     PROVE  PlaceMove
  BY <1>4 DEF WriteRecord, Attach, At, Go, Unwind, Places, PlaceMove, Attached
<1>5. ASSUME NEW c \in Conns, Enumerate(c) \/ ServeWorkerDied(c)
     PROVE  PlaceMove
  BY <1>5 DEF Enumerate, ServeWorkerDied, At, Go, Unwind, Places, PlaceMove, Attached, Reaped
<1>6. ASSUME NEW c \in Conns, Handoff(c) \/ SendChannels(c) \/ CloseShutdown(c)
     PROVE  PlaceMove
  BY <1>6 DEF Handoff, SendChannels, CloseShutdown, At, Go, Unwind, Places, PlaceMove, Attached
<1>7. ASSUME NEW c \in Conns, StopKill(c) \/ StopTimeout(c)
     PROVE  PlaceMove
  BY <1>7 DEF StopKill, StopTimeout, At, Go, Unwind, Places, PlaceMove, Attached, Attempted
<1>8. ASSUME NEW c \in Conns, StopReaped(c)
     PROVE  PlaceMove
  BY <1>8 DEF StopReaped, At, Go, Unwind, Places, PlaceMove, Attached, Attempted
<1>9. ASSUME NEW c \in Conns, ClearRecord(c)
     PROVE  PlaceMove
  BY <1>9 DEF ClearRecord, At, Go, Unwind, Places, PlaceMove, Attached, Attempted
<1>10. ASSUME NEW c \in Conns, Dropped(c) \/ DropLease(c) \/ DropPermit(c)
     PROVE  PlaceMove
  BY <1>10 DEF Dropped, DropLease, DropPermit, At, Go, Unwind, Places, PlaceMove, Attached
<1>11. ASSUME NEW c \in Conns, Answer(c) \/ ThreadEnd(c)
     PROVE  PlaceMove
  BY <1>11 DEF Answer, ThreadEnd, At, Go, Unwind, Places, PlaceMove, Attached
<1>12. ASSUME NEW c \in Conns, ClientSend(c) \/ ClientLeave(c) \/ WorkerExit(c) \/ AdminReview(c)
     PROVE  PlaceMove
  BY <1>12 DEF ClientSend, ClientLeave, WorkerExit, AdminReview, At, Go, Unwind, Places, PlaceMove, Attached
<1>13. ASSUME NEW p \in Ports, HubEnumerates(p) \/ HubLosesDevice(p) \/ HubFreesPort(p) \/ AdminAttach(p) \/ AdminDetach(p)
     PROVE  PlaceMove
  BY <1>13 DEF HubEnumerates, HubLosesDevice, HubFreesPort, AdminAttach, AdminDetach, PlaceMove, Attached
<1>14. CASE Crash
  BY <1>14 DEF Crash, Live, PlaceMove, Attached
<1>15. CASE Start
  BY <1>15 DEF Start, PlaceMove, Attached
<1>16. CASE UNCHANGED vars
  BY <1>16 DEF vars, PlaceMove, Attached
<1>17. QED
  BY <1>1, <1>2, <1>3, <1>4, <1>5, <1>6, <1>7, <1>8, <1>9, <1>10, <1>11, <1>12, <1>13, <1>14, <1>15, <1>16 DEF Next, Step, Hub

\* A shut socket is opened by the launch of a worker only, and a close has shut it.
SocketMove ==
  /\ \A d \in Conns : kernelSock[d] = "shut" => kernelSock'[d] = "shut" \/ pc[d] = "spawn"
  /\ \A d \in Conns : pc'[d] \in {"stop", "killing", "clear"} => kernelSock'[d] = "shut"

\* Every step opens and shuts the kernel sockets so.
LEMMA SocketMoves ==
  ASSUME Types, Places, SocketShut, [Next]_vars
  PROVE  SocketMove
<1>1. ASSUME NEW c \in Conns, Accept(c) \/ Request(c) \/ FirstEof(c) \/ ReadStatus(c)
     PROVE  SocketMove
  BY <1>1 DEF Accept, Request, FirstEof, ReadStatus, At, Go, Unwind, Types, Places, SocketMove, SocketShut
<1>2. ASSUME NEW c \in Conns, ReservePort(c) \/ CheckPort(c) \/ Spawn(c)
     PROVE  SocketMove
  BY <1>2 DEF ReservePort, CheckPort, Spawn, At, Go, Unwind, Types, Places, SocketMove, SocketShut
<1>3. ASSUME NEW c \in Conns, Ready(c) \/ Recheck(c) \/ EnumerateDeadline(c) \/ ServeRequest(c)
     PROVE  SocketMove
  BY <1>3 DEF Ready, Recheck, EnumerateDeadline, ServeRequest, At, Go, Unwind, Types, Places, SocketMove, SocketShut
<1>4. ASSUME NEW c \in Conns, WriteRecord(c) \/ Attach(c)
     PROVE  SocketMove
  BY <1>4 DEF WriteRecord, Attach, At, Go, Unwind, Types, Places, SocketMove, SocketShut
<1>5. ASSUME NEW c \in Conns, Enumerate(c) \/ ServeWorkerDied(c)
     PROVE  SocketMove
  BY <1>5 DEF Enumerate, ServeWorkerDied, At, Go, Unwind, Types, Places, SocketMove, SocketShut, Reaped
<1>6. ASSUME NEW c \in Conns, Handoff(c) \/ SendChannels(c) \/ CloseShutdown(c)
     PROVE  SocketMove
  BY <1>6 DEF Handoff, SendChannels, CloseShutdown, At, Go, Unwind, Types, Places, SocketMove, SocketShut
<1>7. ASSUME NEW c \in Conns, StopKill(c) \/ StopTimeout(c)
     PROVE  SocketMove
  BY <1>7 DEF StopKill, StopTimeout, At, Go, Unwind, Types, Places, SocketMove, SocketShut, Attempted
<1>8. ASSUME NEW c \in Conns, StopReaped(c)
     PROVE  SocketMove
  BY <1>8 DEF StopReaped, At, Go, Unwind, Types, Places, SocketMove, SocketShut, Attempted
<1>9. ASSUME NEW c \in Conns, ClearRecord(c)
     PROVE  SocketMove
  BY <1>9 DEF ClearRecord, At, Go, Unwind, Types, Places, SocketMove, SocketShut, Attempted
<1>10. ASSUME NEW c \in Conns, Dropped(c) \/ DropLease(c) \/ DropPermit(c)
     PROVE  SocketMove
  BY <1>10 DEF Dropped, DropLease, DropPermit, At, Go, Unwind, Types, Places, SocketMove, SocketShut
<1>11. ASSUME NEW c \in Conns, Answer(c) \/ ThreadEnd(c)
     PROVE  SocketMove
  BY <1>11 DEF Answer, ThreadEnd, At, Go, Unwind, Types, Places, SocketMove, SocketShut
<1>12. ASSUME NEW c \in Conns, ClientSend(c) \/ ClientLeave(c) \/ WorkerExit(c) \/ AdminReview(c)
     PROVE  SocketMove
  BY <1>12 DEF ClientSend, ClientLeave, WorkerExit, AdminReview, At, Go, Unwind, Types, Places, SocketMove, SocketShut
<1>13. ASSUME NEW p \in Ports, HubEnumerates(p) \/ HubLosesDevice(p) \/ HubFreesPort(p) \/ AdminAttach(p) \/ AdminDetach(p)
     PROVE  SocketMove
  BY <1>13 DEF HubEnumerates, HubLosesDevice, HubFreesPort, AdminAttach, AdminDetach, SocketMove, SocketShut, Types
<1>14. CASE Crash
  BY <1>14 DEF Crash, Live, SocketMove, SocketShut, Types
<1>15. CASE Start
  BY <1>15 DEF Start, SocketMove, SocketShut, Types
<1>16. CASE UNCHANGED vars
  BY <1>16 DEF vars, SocketMove, SocketShut, Types
<1>17. QED
  BY <1>1, <1>2, <1>3, <1>4, <1>5, <1>6, <1>7, <1>8, <1>9, <1>10, <1>11, <1>12, <1>13, <1>14, <1>15, <1>16 DEF Next, Step, Hub

\* A record is written by its own thread, and removed after the socket is shut or, with the
\* daemon down, after the attachment is gone; a start finds none.
RecordMove ==
  \A d \in Conns :
    /\ d \in disk' \ disk => pc[d] = "record"
    /\ d \in disk \ disk' => (up /\ pc[d] = "clear" /\ pc'[d] = "close") \/ (~ up /\ Of(d) = {})
    /\ pc'[d] \in Recorded \ {"recheck"} => pc[d] \in Recorded
    /\ pc'[d] = "recheck" => pc[d] = "recheck" \/ (d \in disk')
    /\ up' => up \/ disk = {}

\* Every step writes and removes the journal's records so.
LEMMA RecordMoves ==
  ASSUME Types, Places, [Next]_vars
  PROVE  RecordMove
<1>1. ASSUME NEW c \in Conns, Accept(c) \/ Request(c) \/ FirstEof(c) \/ ReadStatus(c)
     PROVE  RecordMove
  BY <1>1 DEF Accept, Request, FirstEof, ReadStatus, At, Go, Unwind, Types, Places, RecordMove, Recorded
<1>2. ASSUME NEW c \in Conns, ReservePort(c) \/ CheckPort(c) \/ Spawn(c)
     PROVE  RecordMove
  BY <1>2 DEF ReservePort, CheckPort, Spawn, At, Go, Unwind, Types, Places, RecordMove, Recorded
<1>3. ASSUME NEW c \in Conns, Ready(c) \/ Recheck(c) \/ EnumerateDeadline(c) \/ ServeRequest(c)
     PROVE  RecordMove
  BY <1>3 DEF Ready, Recheck, EnumerateDeadline, ServeRequest, At, Go, Unwind, Types, Places, RecordMove, Recorded
<1>4. ASSUME NEW c \in Conns, WriteRecord(c) \/ Attach(c)
     PROVE  RecordMove
  BY <1>4 DEF WriteRecord, Attach, At, Go, Unwind, Types, Places, RecordMove, Recorded
<1>5. ASSUME NEW c \in Conns, Enumerate(c) \/ ServeWorkerDied(c)
     PROVE  RecordMove
  BY <1>5 DEF Enumerate, ServeWorkerDied, At, Go, Unwind, Types, Places, RecordMove, Recorded, Reaped
<1>6. ASSUME NEW c \in Conns, Handoff(c) \/ SendChannels(c) \/ CloseShutdown(c)
     PROVE  RecordMove
  BY <1>6 DEF Handoff, SendChannels, CloseShutdown, At, Go, Unwind, Types, Places, RecordMove, Recorded
<1>7. ASSUME NEW c \in Conns, StopKill(c) \/ StopTimeout(c)
     PROVE  RecordMove
  BY <1>7 DEF StopKill, StopTimeout, At, Go, Unwind, Types, Places, RecordMove, Recorded, Attempted
<1>8. ASSUME NEW c \in Conns, StopReaped(c)
     PROVE  RecordMove
  BY <1>8 DEF StopReaped, At, Go, Unwind, Types, Places, RecordMove, Recorded, Attempted
<1>9. ASSUME NEW c \in Conns, ClearRecord(c)
     PROVE  RecordMove
  BY <1>9 DEF ClearRecord, At, Go, Unwind, Types, Places, RecordMove, Recorded, Attempted
<1>10. ASSUME NEW c \in Conns, Dropped(c) \/ DropLease(c) \/ DropPermit(c)
     PROVE  RecordMove
  BY <1>10 DEF Dropped, DropLease, DropPermit, At, Go, Unwind, Types, Places, RecordMove, Recorded
<1>11. ASSUME NEW c \in Conns, Answer(c) \/ ThreadEnd(c)
     PROVE  RecordMove
  BY <1>11 DEF Answer, ThreadEnd, At, Go, Unwind, Types, Places, RecordMove, Recorded
<1>12. ASSUME NEW c \in Conns, ClientSend(c) \/ ClientLeave(c) \/ WorkerExit(c) \/ AdminReview(c)
     PROVE  RecordMove
  BY <1>12 DEF ClientSend, ClientLeave, WorkerExit, AdminReview, At, Go, Unwind, Types, Places, RecordMove, Recorded
<1>13. ASSUME NEW p \in Ports, HubEnumerates(p) \/ HubLosesDevice(p) \/ HubFreesPort(p) \/ AdminAttach(p) \/ AdminDetach(p)
     PROVE  RecordMove
  BY <1>13 DEF HubEnumerates, HubLosesDevice, HubFreesPort, AdminAttach, AdminDetach, RecordMove, Recorded, Types
<1>14. CASE Crash
  BY <1>14 DEF Crash, Live, RecordMove, Recorded, Types
<1>15. CASE Start
  BY <1>15 DEF Start, RecordMove, Recorded, Types
<1>16. CASE UNCHANGED vars
  BY <1>16 DEF vars, RecordMove, Recorded, Types
<1>17. QED
  BY <1>1, <1>2, <1>3, <1>4, <1>5, <1>6, <1>7, <1>8, <1>9, <1>10, <1>11, <1>12, <1>13, <1>14, <1>15, <1>16 DEF Next, Step, Hub

-----------------------------------------------------------------------------
(* Attachments, records and sockets.                                       *)

\* The order of record, attachment, shutdown and removal is kept.
LEMMA AttachmentsStep ==
  ASSUME Types, Places, Hubs, Down, Attachments, [Next]_vars
  PROVE  Attachments'
<1>1. HubMove /\ PlaceMove /\ RecordMove /\ SocketMove
  BY HubStep, PlaceMoves, RecordMoves, SocketMoves DEF Attachments
<1>2. \A c \in Conns : Attach(c) => pc'[c] \in {"enumerate", "close"} /\ c \in disk /\ disk' = disk
  BY DEF Attach, At, Go, Unwind, Places, Attachments, RecordPlaced, Recorded
<1>3. DevicePlaced'
  BY <1>1, <1>2 DEF HubMove, PlaceMove, Attachments, DevicePlaced, Attached
<1>4. RecordPlaced'
  <2>1. ASSUME NEW c \in Conns, pc'[c] \in Recorded
        PROVE  c \in disk'
    <3>1. CASE pc[c] \in Recorded
      BY <1>1, <2>1, <3>1 DEF RecordMove, Attachments, RecordPlaced, Recorded, Down
    <3>2. CASE pc[c] \notin Recorded
      BY <1>1, <2>1, <3>2 DEF RecordMove, Recorded
    <3>3. QED
      BY <3>1, <3>2
  <2>2. QED
    BY <2>1 DEF RecordPlaced
<1>5. SocketShut'
  BY <1>1 DEF SocketMove, SocketShut
<1>6. \A c \in Conns : kernelSock[c] = "shut" /\ Of(c) # {} => kernelSock'[c] = "shut"
  BY <1>1 DEF SocketMove, Attachments, DevicePlaced, Attached
<1>7. AttachmentRecorded'
  <2>1. ASSUME NEW c \in Conns, Of(c)' # {}, kernelSock'[c] # "shut"
        PROVE  c \in disk'
    <3>1. CASE Attach(c)
      BY <1>2, <3>1
    <3>2. CASE Of(c)' \subseteq Of(c)
      <4>1. Of(c) # {} /\ kernelSock[c] # "shut"
        BY <1>6, <2>1, <3>2
      <4>2. c \in disk
        BY <4>1 DEF Attachments, AttachmentsSafe, AttachmentRecorded
      <4>3. pc[c] # "clear"
        BY <4>1 DEF Attachments, SocketShut
      <4>4. QED
        BY <1>1, <4>1, <4>2, <4>3 DEF RecordMove
    <3>3. QED
      BY <1>1, <3>1, <3>2 DEF HubMove
  <2>2. QED
    BY <2>1 DEF AttachmentRecorded
<1>8. RestartSafe'
  <2>1. ASSUME NEW c \in Conns, up', pc'[c] = "dead", Of(c)' # {}
        PROVE  kernelSock'[c] = "shut"
    <3>1. pc[c] = "dead"
      BY <1>1, <2>1 DEF PlaceMove
    <3>2. Of(c) # {}
      BY <1>1, <1>2, <2>1, <3>1 DEF HubMove, Attach, At
    <3>3. kernelSock[c] = "shut"
      <4>1. CASE up
        BY <3>1, <3>2, <4>1 DEF Attachments, AttachmentsSafe, RestartSafe
      <4>2. CASE disk = {}
        BY <3>2, <4>2 DEF Attachments, AttachmentsSafe, AttachmentRecorded
      <4>3. QED
        BY <1>1, <2>1, <4>1, <4>2 DEF RecordMove
    <3>4. QED
      BY <1>6, <3>2, <3>3
  <2>2. QED
    BY <2>1 DEF RestartSafe
<1>9. QED
  BY <1>3, <1>4, <1>5, <1>7, <1>8 DEF Attachments, AttachmentsSafe

-----------------------------------------------------------------------------
(* The acknowledgement of a close.                                         *)

\* A reaped worker stays reaped but for a launch, and is reaped before its record is cleared.
WorkerMove ==
  /\ \A d \in Conns : worker[d] = "reaped" => worker'[d] = "reaped" \/ pc[d] = "spawn"
  /\ \A d \in Conns : pc'[d] = "clear" => worker'[d] = "reaped"

\* Every step reaps the workers so.
LEMMA WorkerMoves ==
  ASSUME Types, Places, ClearReaped, [Next]_vars
  PROVE  WorkerMove
<1>1. ASSUME NEW c \in Conns, Accept(c) \/ Request(c) \/ FirstEof(c) \/ ReadStatus(c)
     PROVE  WorkerMove
  BY <1>1 DEF Accept, Request, FirstEof, ReadStatus, At, Go, Unwind, Types, Places, WorkerMove, ClearReaped
<1>2. ASSUME NEW c \in Conns, ReservePort(c) \/ CheckPort(c) \/ Spawn(c)
     PROVE  WorkerMove
  BY <1>2 DEF ReservePort, CheckPort, Spawn, At, Go, Unwind, Types, Places, WorkerMove, ClearReaped
<1>3. ASSUME NEW c \in Conns, Ready(c) \/ Recheck(c) \/ EnumerateDeadline(c) \/ ServeRequest(c)
     PROVE  WorkerMove
  BY <1>3 DEF Ready, Recheck, EnumerateDeadline, ServeRequest, At, Go, Unwind, Types, Places, WorkerMove, ClearReaped
<1>4. ASSUME NEW c \in Conns, WriteRecord(c) \/ Attach(c)
     PROVE  WorkerMove
  BY <1>4 DEF WriteRecord, Attach, At, Go, Unwind, Types, Places, WorkerMove, ClearReaped
<1>5. ASSUME NEW c \in Conns, Enumerate(c) \/ ServeWorkerDied(c)
     PROVE  WorkerMove
  BY <1>5 DEF Enumerate, ServeWorkerDied, At, Go, Unwind, Types, Places, WorkerMove, ClearReaped, Reaped
<1>6. ASSUME NEW c \in Conns, Handoff(c) \/ SendChannels(c) \/ CloseShutdown(c)
     PROVE  WorkerMove
  BY <1>6 DEF Handoff, SendChannels, CloseShutdown, At, Go, Unwind, Types, Places, WorkerMove, ClearReaped
<1>7. ASSUME NEW c \in Conns, StopKill(c) \/ StopTimeout(c)
     PROVE  WorkerMove
  BY <1>7 DEF StopKill, StopTimeout, At, Go, Unwind, Types, Places, WorkerMove, ClearReaped, Attempted
<1>8. ASSUME NEW c \in Conns, StopReaped(c)
     PROVE  WorkerMove
  BY <1>8 DEF StopReaped, At, Go, Unwind, Types, Places, WorkerMove, ClearReaped, Attempted
<1>9. ASSUME NEW c \in Conns, ClearRecord(c)
     PROVE  WorkerMove
  BY <1>9 DEF ClearRecord, At, Go, Unwind, Types, Places, WorkerMove, ClearReaped, Attempted
<1>10. ASSUME NEW c \in Conns, Dropped(c) \/ DropLease(c) \/ DropPermit(c)
     PROVE  WorkerMove
  BY <1>10 DEF Dropped, DropLease, DropPermit, At, Go, Unwind, Types, Places, WorkerMove, ClearReaped
<1>11. ASSUME NEW c \in Conns, Answer(c) \/ ThreadEnd(c)
     PROVE  WorkerMove
  BY <1>11 DEF Answer, ThreadEnd, At, Go, Unwind, Types, Places, WorkerMove, ClearReaped
<1>12. ASSUME NEW c \in Conns, ClientSend(c) \/ ClientLeave(c) \/ WorkerExit(c) \/ AdminReview(c)
     PROVE  WorkerMove
  BY <1>12 DEF ClientSend, ClientLeave, WorkerExit, AdminReview, At, Go, Unwind, Types, Places, WorkerMove, ClearReaped
<1>13. ASSUME NEW p \in Ports, HubEnumerates(p) \/ HubLosesDevice(p) \/ HubFreesPort(p) \/ AdminAttach(p) \/ AdminDetach(p)
     PROVE  WorkerMove
  BY <1>13 DEF HubEnumerates, HubLosesDevice, HubFreesPort, AdminAttach, AdminDetach, WorkerMove, ClearReaped, Types
<1>14. CASE Crash
  BY <1>14 DEF Crash, Live, WorkerMove, ClearReaped, Types
<1>15. CASE Start
  BY <1>15 DEF Start, WorkerMove, ClearReaped, Types
<1>16. CASE UNCHANGED vars
  BY <1>16 DEF vars, WorkerMove, ClearReaped, Types
<1>17. QED
  BY <1>1, <1>2, <1>3, <1>4, <1>5, <1>6, <1>7, <1>8, <1>9, <1>10, <1>11, <1>12, <1>13, <1>14, <1>15, <1>16 DEF Next, Step, Hub

\* A record counts as cleared, and a close as acknowledged, by a clear that found it gone, and
\* both are forgotten at the end of the unwinding.
FlagMove ==
  \A d \in Conns :
    /\ cleared'[d] => cleared[d] \/ (pc[d] = "clear" /\ d \notin disk')
    /\ acked'[d] => acked[d] \/ (pc[d] = "clear" /\ d \notin disk')
    /\ pc[d] \in Unwinding => pc'[d] \in Unwinding \/ ~ (cleared'[d] \/ acked'[d])

\* Every step raises and forgets the two flags so.
LEMMA FlagMoves ==
  ASSUME Types, Places, Cleared, [Next]_vars
  PROVE  FlagMove
<1>1. ASSUME NEW c \in Conns, Accept(c) \/ Request(c) \/ FirstEof(c) \/ ReadStatus(c)
     PROVE  FlagMove
  BY <1>1 DEF Accept, Request, FirstEof, ReadStatus, At, Go, Unwind, Types, Places, FlagMove, Unwinding, Cleared
<1>2. ASSUME NEW c \in Conns, ReservePort(c) \/ CheckPort(c) \/ Spawn(c)
     PROVE  FlagMove
  BY <1>2 DEF ReservePort, CheckPort, Spawn, At, Go, Unwind, Types, Places, FlagMove, Unwinding, Cleared
<1>3. ASSUME NEW c \in Conns, Ready(c) \/ Recheck(c) \/ EnumerateDeadline(c) \/ ServeRequest(c)
     PROVE  FlagMove
  BY <1>3 DEF Ready, Recheck, EnumerateDeadline, ServeRequest, At, Go, Unwind, Types, Places, FlagMove, Unwinding, Cleared
<1>4. ASSUME NEW c \in Conns, WriteRecord(c) \/ Attach(c)
     PROVE  FlagMove
  BY <1>4 DEF WriteRecord, Attach, At, Go, Unwind, Types, Places, FlagMove, Unwinding, Cleared
<1>5. ASSUME NEW c \in Conns, Enumerate(c) \/ ServeWorkerDied(c)
     PROVE  FlagMove
  BY <1>5 DEF Enumerate, ServeWorkerDied, At, Go, Unwind, Types, Places, FlagMove, Unwinding, Cleared, Reaped
<1>6. ASSUME NEW c \in Conns, Handoff(c) \/ SendChannels(c) \/ CloseShutdown(c)
     PROVE  FlagMove
  BY <1>6 DEF Handoff, SendChannels, CloseShutdown, At, Go, Unwind, Types, Places, FlagMove, Unwinding, Cleared
<1>7. ASSUME NEW c \in Conns, StopKill(c) \/ StopTimeout(c)
     PROVE  FlagMove
  BY <1>7 DEF StopKill, StopTimeout, At, Go, Unwind, Types, Places, FlagMove, Unwinding, Cleared, Attempted
<1>8. ASSUME NEW c \in Conns, StopReaped(c)
     PROVE  FlagMove
  BY <1>8 DEF StopReaped, At, Go, Unwind, Types, Places, FlagMove, Unwinding, Cleared, Attempted
<1>9. ASSUME NEW c \in Conns, ClearRecord(c)
     PROVE  FlagMove
  BY <1>9 DEF ClearRecord, At, Go, Unwind, Types, Places, FlagMove, Unwinding, Cleared, Attempted
<1>10. ASSUME NEW c \in Conns, Dropped(c) \/ DropLease(c) \/ DropPermit(c)
     PROVE  FlagMove
  BY <1>10 DEF Dropped, DropLease, DropPermit, At, Go, Unwind, Types, Places, FlagMove, Unwinding, Cleared
<1>11. ASSUME NEW c \in Conns, Answer(c) \/ ThreadEnd(c)
     PROVE  FlagMove
  BY <1>11 DEF Answer, ThreadEnd, At, Go, Unwind, Types, Places, FlagMove, Unwinding, Cleared
<1>12. ASSUME NEW c \in Conns, ClientSend(c) \/ ClientLeave(c) \/ WorkerExit(c) \/ AdminReview(c)
     PROVE  FlagMove
  BY <1>12 DEF ClientSend, ClientLeave, WorkerExit, AdminReview, At, Go, Unwind, Types, Places, FlagMove, Unwinding, Cleared
<1>13. ASSUME NEW p \in Ports, HubEnumerates(p) \/ HubLosesDevice(p) \/ HubFreesPort(p) \/ AdminAttach(p) \/ AdminDetach(p)
     PROVE  FlagMove
  BY <1>13 DEF HubEnumerates, HubLosesDevice, HubFreesPort, AdminAttach, AdminDetach, FlagMove, Types, Places, Unwinding
<1>14. CASE Crash
  BY <1>14 DEF Crash, Live, FlagMove, Types, Places, Unwinding
<1>15. CASE Start
  BY <1>15 DEF Start, FlagMove, Types, Places, Unwinding
<1>16. CASE UNCHANGED vars
  BY <1>16 DEF vars, FlagMove, Types, Places, Unwinding
<1>17. QED
  BY <1>1, <1>2, <1>3, <1>4, <1>5, <1>6, <1>7, <1>8, <1>9, <1>10, <1>11, <1>12, <1>13, <1>14, <1>15, <1>16 DEF Next, Step, Hub

\* The answer of an unwinding is its acknowledgement only if the close succeeded.
ReplyMove ==
  \A d \in Conns : reply'[d] = "closed" =>
    reply[d] = "closed" \/ (pc[d] = "answer" /\ pc'[d] = "conn" /\ acked[d])

\* Every step answers so.
LEMMA ReplyMoves ==
  ASSUME Types, Places, [Next]_vars
  PROVE  ReplyMove
<1>1. ASSUME NEW c \in Conns, Accept(c) \/ Request(c) \/ FirstEof(c) \/ ReadStatus(c)
     PROVE  ReplyMove
  BY <1>1 DEF Accept, Request, FirstEof, ReadStatus, At, Go, Unwind, Types, Places, ReplyMove
<1>2. ASSUME NEW c \in Conns, ReservePort(c) \/ CheckPort(c) \/ Spawn(c)
     PROVE  ReplyMove
  BY <1>2 DEF ReservePort, CheckPort, Spawn, At, Go, Unwind, Types, Places, ReplyMove
<1>3. ASSUME NEW c \in Conns, Ready(c) \/ Recheck(c) \/ EnumerateDeadline(c) \/ ServeRequest(c)
     PROVE  ReplyMove
  BY <1>3 DEF Ready, Recheck, EnumerateDeadline, ServeRequest, At, Go, Unwind, Types, Places, ReplyMove
<1>4. ASSUME NEW c \in Conns, WriteRecord(c) \/ Attach(c)
     PROVE  ReplyMove
  BY <1>4 DEF WriteRecord, Attach, At, Go, Unwind, Types, Places, ReplyMove
<1>5. ASSUME NEW c \in Conns, Enumerate(c) \/ ServeWorkerDied(c)
     PROVE  ReplyMove
  BY <1>5 DEF Enumerate, ServeWorkerDied, At, Go, Unwind, Types, Places, ReplyMove, Reaped
<1>6. ASSUME NEW c \in Conns, Handoff(c) \/ SendChannels(c) \/ CloseShutdown(c)
     PROVE  ReplyMove
  BY <1>6 DEF Handoff, SendChannels, CloseShutdown, At, Go, Unwind, Types, Places, ReplyMove
<1>7. ASSUME NEW c \in Conns, StopKill(c) \/ StopTimeout(c)
     PROVE  ReplyMove
  BY <1>7 DEF StopKill, StopTimeout, At, Go, Unwind, Types, Places, ReplyMove, Attempted
<1>8. ASSUME NEW c \in Conns, StopReaped(c)
     PROVE  ReplyMove
  BY <1>8 DEF StopReaped, At, Go, Unwind, Types, Places, ReplyMove, Attempted
<1>9. ASSUME NEW c \in Conns, ClearRecord(c)
     PROVE  ReplyMove
  BY <1>9 DEF ClearRecord, At, Go, Unwind, Types, Places, ReplyMove, Attempted
<1>10. ASSUME NEW c \in Conns, Dropped(c) \/ DropLease(c) \/ DropPermit(c)
     PROVE  ReplyMove
  BY <1>10 DEF Dropped, DropLease, DropPermit, At, Go, Unwind, Types, Places, ReplyMove
<1>11. ASSUME NEW c \in Conns, Answer(c) \/ ThreadEnd(c)
     PROVE  ReplyMove
  BY <1>11 DEF Answer, ThreadEnd, At, Go, Unwind, Types, Places, ReplyMove
<1>12. ASSUME NEW c \in Conns, ClientSend(c) \/ ClientLeave(c) \/ WorkerExit(c) \/ AdminReview(c)
     PROVE  ReplyMove
  BY <1>12 DEF ClientSend, ClientLeave, WorkerExit, AdminReview, At, Go, Unwind, Types, Places, ReplyMove
<1>13. ASSUME NEW p \in Ports, HubEnumerates(p) \/ HubLosesDevice(p) \/ HubFreesPort(p) \/ AdminAttach(p) \/ AdminDetach(p)
     PROVE  ReplyMove
  BY <1>13 DEF HubEnumerates, HubLosesDevice, HubFreesPort, AdminAttach, AdminDetach, ReplyMove, Types
<1>14. CASE Crash
  BY <1>14 DEF Crash, Live, ReplyMove, Types
<1>15. CASE Start
  BY <1>15 DEF Start, ReplyMove, Types
<1>16. CASE UNCHANGED vars
  BY <1>16 DEF vars, ReplyMove, Types
<1>17. QED
  BY <1>1, <1>2, <1>3, <1>4, <1>5, <1>6, <1>7, <1>8, <1>9, <1>10, <1>11, <1>12, <1>13, <1>14, <1>15, <1>16 DEF Next, Step, Hub

\* An acknowledgement is sent when everything is given back, which stays so.
LEMMA AcknowledgedStep ==
  ASSUME Types, Places, SocketShut, Acknowledged, [Next]_vars
  PROVE  Acknowledged'
<1>1. PlaceMove /\ RecordMove /\ SocketMove /\ WorkerMove /\ FlagMove /\ ReplyMove
  BY PlaceMoves, RecordMoves, SocketMoves, WorkerMoves, FlagMoves, ReplyMoves DEF Acknowledged
<1>2. ClearReaped'
  BY <1>1 DEF WorkerMove, ClearReaped
<1>3. \A c \in Conns : cleared'[c] \/ acked'[c] =>
        /\ pc[c] \in Unwinding /\ c \notin disk'
        /\ cleared[c] \/ acked[c] \/ pc[c] = "clear"
  BY <1>1 DEF FlagMove, Acknowledged, Cleared, RecordMove, Unwinding
<1>4. Cleared'
  BY <1>1, <1>3 DEF FlagMove, Cleared
<1>5. AckEarned'
  <2>1. ASSUME NEW c \in Conns, acked'[c]
        PROVE  worker[c] = "reaped" /\ kernelSock[c] = "shut" /\ pc[c] # "spawn"
    BY <1>1, <1>3, <2>1 DEF FlagMove, Acknowledged, AckEarned, ClearReaped, SocketShut, Unwinding
  <2>2. QED
    BY <1>1, <2>1 DEF AckEarned, WorkerMove, SocketMove
<1>6. AckLast'
  BY <1>1 DEF ReplyMove, PlaceMove, Acknowledged, AckLast
<1>7. AckMeansReleased'
  <2>1. ASSUME NEW c \in Conns, reply'[c] = "closed"
        PROVE  /\ worker[c] = "reaped" /\ kernelSock[c] = "shut" /\ c \notin disk
               /\ pc[c] \in {"answer", "conn", "done", "dead"} /\ pc'[c] \in {"conn", "done", "dead"}
    BY <1>1, <1>6, <2>1 DEF ReplyMove, Acknowledged, AckLast, AckMeansReleased, AckEarned, Cleared
  <2>2. \A c \in Conns : reply'[c] = "closed" =>
          worker'[c] = "reaped" /\ kernelSock'[c] = "shut" /\ c \notin disk'
    BY <1>1, <2>1 DEF WorkerMove, SocketMove, RecordMove
  <2>3. QED
    BY <2>1, <2>2 DEF AckMeansReleased, Lessees, Holders, Leasing, Prepared, Admitted
<1>8. QED
  BY <1>2, <1>4, <1>5, <1>6, <1>7 DEF Acknowledged

-----------------------------------------------------------------------------
(* The quotas.                                                             *)

\* A finite number of connections holds permits.
LEMMA HoldersFinite ==
  ASSUME NEW k
  PROVE  /\ IsFiniteSet(Holders(k)) /\ Cardinality(Holders(k)) \in Nat
         /\ \A u : IsFiniteSet(HoldersOf(k, u)) /\ Cardinality(HoldersOf(k, u)) \in Nat
<1>1. Holders(k) \subseteq Conns /\ \A u : HoldersOf(k, u) \subseteq Conns
  BY DEF Holders, HoldersOf
<1>2. QED
  BY <1>1, FS_Subset, FS_CardinalityType

\* One more holder, or one less, of a finite set.
LEMMA OneMore ==
  ASSUME NEW S, IsFiniteSet(S), NEW c, c \notin S
  PROVE  Cardinality(S \cup {c}) = Cardinality(S) + 1
  BY FS_AddElement

\* A member that leaves a finite set lowers its count by one.
LEMMA OneLess ==
  ASSUME NEW S, IsFiniteSet(S), NEW c \in S
  PROVE  Cardinality(S \ {c}) = Cardinality(S) - 1
  BY FS_RemoveElement

\* A step that moves no permit.
LEMMA QuotaSame ==
  ASSUME Quota, admission' = admission, \A k \in Kinds : Holders(k)' = Holders(k)
  PROVE  Quota'
<1>1. \A k \in Kinds, u \in Peers : HoldersOf(k, u)' = HoldersOf(k, u)
  BY DEF HoldersOf
<1>2. QED
  BY <1>1 DEF Quota, QuotaExact

\* The quotas of a daemon that holds no connection.
LEMMA NobodyCounted ==
  ASSUME admission' = EmptyAdmission, \A k \in Kinds : Holders(k)' = {}
  PROVE  Quota'
<1>1. Limits \in [Kinds -> [global : Nat, peer : Nat]]
  BY DEF Kinds
<1>2. EmptyAdmission \in [Kinds -> [total : Nat, peers : [Peers -> Nat]]]
  BY DEF EmptyAdmission
<1>3. Cardinality({}) = 0
  BY FS_EmptySet
<1>4. \A k \in Kinds, u \in Peers : HoldersOf(k, u)' = {}
  BY DEF HoldersOf
<1>5. QuotaExact'
  <2>1. \A k \in Kinds : Limits[k].global \in Nat /\ Limits[k].peer \in Nat
    BY <1>1
  <2>2. \A k \in Kinds : /\ admission'[k].total = 0
                        /\ \A u \in Peers : admission'[k].peers[u] = 0
    BY DEF EmptyAdmission
  <2>3. \A k \in Kinds : /\ Cardinality(Holders(k)') = 0
                        /\ \A u \in Peers : Cardinality(HoldersOf(k, u)') = 0
    BY <1>3, <1>4
  <2>4. QED
    BY <2>1, <2>2, <2>3 DEF QuotaExact
<1>6. QED
  BY <1>2, <1>5 DEF Quota

\* A permit is taken within both limits, and counted.
LEMMA PermitTaken ==
  ASSUME Quota, NEW k \in Kinds, NEW c \in Conns, Admits(k, c), Reserve(k, c),
         c \notin Holders(k), Holders(k)' = Holders(k) \cup {c},
         \A j \in Kinds \ {k} : Holders(j)' = Holders(j)
  PROVE  Quota'
<1> DEFINE a == admission[k]
           peer == PeerOf[c]
<1>1. a \in [total : Nat, peers : [Peers -> Nat]] /\ peer \in Peers
  BY DEF Quota
<1>2. admission' = [admission EXCEPT ![k] =
        [total |-> a.total + 1, peers |-> [a.peers EXCEPT ![peer] = a.peers[peer] + 1]]]
  BY DEF Reserve
<1>3. /\ admission'[k].total = a.total + 1
      /\ admission'[k].peers = [a.peers EXCEPT ![peer] = a.peers[peer] + 1]
      /\ \A j \in Kinds \ {k} : admission'[j] = admission[j]
      /\ admission' \in [Kinds -> [total : Nat, peers : [Peers -> Nat]]]
  BY <1>1, <1>2 DEF Quota
<1>4. Cardinality(Holders(k)') = Cardinality(Holders(k)) + 1
  BY HoldersFinite, OneMore
<1>5. /\ HoldersOf(k, peer)' = HoldersOf(k, peer) \cup {c} /\ c \notin HoldersOf(k, peer)
      /\ \A u \in Peers \ {peer} : HoldersOf(k, u)' = HoldersOf(k, u)
  BY DEF HoldersOf
<1>6. Cardinality(HoldersOf(k, peer)') = Cardinality(HoldersOf(k, peer)) + 1
  BY <1>5, HoldersFinite, OneMore
<1>7. /\ a.total < Limits[k].global /\ a.peers[peer] < Limits[k].peer
      /\ Limits[k].global \in Nat /\ Limits[k].peer \in Nat
  BY DEF Admits, Kinds
<1>8. /\ a.total = Cardinality(Holders(k))
      /\ \A u \in Peers : a.peers[u] = Cardinality(HoldersOf(k, u))
                          /\ a.peers[u] <= Limits[k].peer
  BY DEF Quota, QuotaExact
<1>9. /\ admission'[k].total = Cardinality(Holders(k)') /\ admission'[k].total <= Limits[k].global
  BY <1>1, <1>3, <1>4, <1>7, <1>8
<1>10. ASSUME NEW u \in Peers
       PROVE  /\ admission'[k].peers[u] = Cardinality(HoldersOf(k, u)')
              /\ admission'[k].peers[u] <= Limits[k].peer
  <2>1. CASE u = peer
    BY <1>1, <1>3, <1>6, <1>7, <1>8, <2>1
  <2>2. CASE u # peer
    BY <1>1, <1>3, <1>5, <1>8, <2>2
  <2>3. QED
    BY <2>1, <2>2
<1>11. ASSUME NEW j \in Kinds \ {k}
       PROVE  /\ admission'[j] = admission[j] /\ Holders(j)' = Holders(j)
              /\ \A u \in Peers : HoldersOf(j, u)' = HoldersOf(j, u)
  BY <1>3 DEF HoldersOf
<1>12. QuotaExact'
  <2>1. ASSUME NEW j \in Kinds
        PROVE  /\ admission'[j].total = Cardinality(Holders(j)')
               /\ admission'[j].total <= Limits[j].global
               /\ \A u \in Peers : /\ admission'[j].peers[u] = Cardinality(HoldersOf(j, u)')
                                   /\ admission'[j].peers[u] <= Limits[j].peer
    <3>1. CASE j = k
      BY <1>9, <1>10, <3>1
    <3>2. CASE j # k
      BY <1>11, <3>2 DEF Quota, QuotaExact
    <3>3. QED
      BY <3>1, <3>2
  <2>2. QED
    BY <2>1 DEF QuotaExact
<1>13. QED
  BY <1>3, <1>12 DEF Quota

\* A permit dropped is taken off both counts.
LEMMA PermitDropped ==
  ASSUME Quota, NEW k \in Kinds, NEW c \in Holders(k), Release(k, c),
         Holders(k)' = Holders(k) \ {c},
         \A j \in Kinds \ {k} : Holders(j)' = Holders(j)
  PROVE  Quota'
<1> DEFINE a == admission[k]
           peer == PeerOf[c]
<1>0. c \in Conns
  BY DEF Holders
<1>1. a \in [total : Nat, peers : [Peers -> Nat]] /\ peer \in Peers
  BY <1>0 DEF Quota
<1>2. admission' = [admission EXCEPT ![k] =
        [total |-> a.total - 1, peers |-> [a.peers EXCEPT ![peer] = a.peers[peer] - 1]]]
  BY DEF Release
<1>3. Cardinality(Holders(k)') = Cardinality(Holders(k)) - 1 /\ Cardinality(Holders(k)') \in Nat
  BY HoldersFinite, OneLess, FS_RemoveElement, FS_CardinalityType
<1>4. /\ HoldersOf(k, peer)' = HoldersOf(k, peer) \ {c} /\ c \in HoldersOf(k, peer)
      /\ \A u \in Peers \ {peer} : HoldersOf(k, u)' = HoldersOf(k, u)
  BY DEF HoldersOf
<1>5. /\ Cardinality(HoldersOf(k, peer)') = Cardinality(HoldersOf(k, peer)) - 1
      /\ Cardinality(HoldersOf(k, peer)') \in Nat
  BY <1>4, HoldersFinite, OneLess, FS_RemoveElement, FS_CardinalityType
<1>6. /\ a.total = Cardinality(Holders(k)) /\ a.total <= Limits[k].global
      /\ \A u \in Peers : a.peers[u] = Cardinality(HoldersOf(k, u))
                          /\ a.peers[u] <= Limits[k].peer
  BY DEF Quota, QuotaExact
<1>7. /\ Limits[k].global \in Nat /\ Limits[k].peer \in Nat
      /\ a.total \in Nat /\ a.total - 1 \in Nat
      /\ a.peers[peer] \in Nat /\ a.peers[peer] - 1 \in Nat
  BY <1>1, <1>3, <1>5, <1>6 DEF Kinds
<1>8. /\ admission'[k].total = a.total - 1
      /\ admission'[k].peers = [a.peers EXCEPT ![peer] = a.peers[peer] - 1]
      /\ \A j \in Kinds \ {k} : admission'[j] = admission[j]
      /\ admission' \in [Kinds -> [total : Nat, peers : [Peers -> Nat]]]
  BY <1>1, <1>2, <1>7 DEF Quota
<1>9. /\ admission'[k].total = Cardinality(Holders(k)') /\ admission'[k].total <= Limits[k].global
  BY <1>3, <1>6, <1>7, <1>8
<1>10. ASSUME NEW u \in Peers
       PROVE  /\ admission'[k].peers[u] = Cardinality(HoldersOf(k, u)')
              /\ admission'[k].peers[u] <= Limits[k].peer
  <2>1. CASE u = peer
    BY <1>1, <1>5, <1>6, <1>7, <1>8, <2>1
  <2>2. CASE u # peer
    BY <1>1, <1>4, <1>6, <1>8, <2>2
  <2>3. QED
    BY <2>1, <2>2
<1>11. ASSUME NEW j \in Kinds \ {k}
       PROVE  /\ admission'[j] = admission[j] /\ Holders(j)' = Holders(j)
              /\ \A u \in Peers : HoldersOf(j, u)' = HoldersOf(j, u)
  BY <1>8 DEF HoldersOf
<1>12. QuotaExact'
  <2>1. ASSUME NEW j \in Kinds
        PROVE  /\ admission'[j].total = Cardinality(Holders(j)')
               /\ admission'[j].total <= Limits[j].global
               /\ \A u \in Peers : /\ admission'[j].peers[u] = Cardinality(HoldersOf(j, u)')
                                   /\ admission'[j].peers[u] <= Limits[j].peer
    <3>1. CASE j = k
      BY <1>9, <1>10, <3>1
    <3>2. CASE j # k
      BY <1>11, <3>2 DEF Quota, QuotaExact
    <3>3. QED
      BY <3>1, <3>2
  <2>2. QED
    BY <2>1 DEF QuotaExact
<1>13. QED
  BY <1>8, <1>12 DEF Quota

\* Permits go with the places that hold them.
LEMMA QuotaStep ==
  ASSUME Places, Quota, [Next]_vars
  PROVE  Quota'
<1>1. ASSUME NEW c \in Conns, Accept(c)
     PROVE  Quota'
  <2>1. CASE Admits("conn", c)
    <3>1. /\ c \notin Holders("conn") /\ Holders("conn")' = Holders("conn") \cup {c}
          /\ \A j \in Kinds \ {"conn"} : Holders(j)' = Holders(j)
      BY <1>1, <2>1 DEF Accept, At, Go, Places, Holders, Live, Admitted, Leasing, Prepared, Kinds
    <3>2. Reserve("conn", c)
      BY <1>1, <2>1 DEF Accept
    <3>3. QED
      BY <2>1, <3>1, <3>2, PermitTaken DEF Kinds
  <2>2. CASE ~ (Admits("conn", c))
    <3>1. admission' = admission
      BY <1>1, <2>2 DEF Accept
    <3>2. \A k \in Kinds : Holders(k)' = Holders(k)
      BY <1>1, <2>2 DEF Accept, At, Go, Places, Holders, Live, Admitted, Leasing, Prepared, Kinds
    <3>3. QED
      BY <3>1, <3>2, QuotaSame
  <2>3. QED
    BY <2>1, <2>2
<1>2. ASSUME NEW c \in Conns, Request(c)
     PROVE  Quota'
  <2>1. CASE Admits("sess", c) /\ inbox[c] = "open"
    <3>1. /\ c \notin Holders("sess") /\ Holders("sess")' = Holders("sess") \cup {c}
          /\ \A j \in Kinds \ {"sess"} : Holders(j)' = Holders(j)
      BY <1>2, <2>1 DEF Request, At, Go, Places, Holders, Live, Admitted, Leasing, Prepared, Kinds
    <3>2. Reserve("sess", c)
      BY <1>2, <2>1 DEF Request
    <3>3. QED
      BY <2>1, <3>1, <3>2, PermitTaken DEF Kinds
  <2>2. CASE ~ (Admits("sess", c) /\ inbox[c] = "open")
    <3>1. admission' = admission
      BY <1>2, <2>2 DEF Request
    <3>2. \A k \in Kinds : Holders(k)' = Holders(k)
      BY <1>2, <2>2 DEF Request, At, Go, Places, Holders, Live, Admitted, Leasing, Prepared, Kinds
    <3>3. QED
      BY <3>1, <3>2, QuotaSame
  <2>3. QED
    BY <2>1, <2>2
<1>3. ASSUME NEW c \in Conns, FirstEof(c) \/ ReadStatus(c)
     PROVE  Quota'
  <2>1. admission' = admission
    BY <1>3 DEF FirstEof, ReadStatus
  <2>2. \A k \in Kinds : Holders(k)' = Holders(k)
    BY <1>3 DEF FirstEof, ReadStatus, At, Go, Unwind, Places, Holders, Live, Admitted, Leasing, Prepared, Kinds
  <2>3. QED
    BY <2>1, <2>2, QuotaSame
<1>4. ASSUME NEW c \in Conns, ReservePort(c) \/ CheckPort(c) \/ Spawn(c)
     PROVE  Quota'
  <2>1. admission' = admission
    BY <1>4 DEF ReservePort, CheckPort, Spawn
  <2>2. \A k \in Kinds : Holders(k)' = Holders(k)
    BY <1>4 DEF ReservePort, CheckPort, Spawn, At, Go, Unwind, Places, Holders, Live, Admitted, Leasing, Prepared, Kinds
  <2>3. QED
    BY <2>1, <2>2, QuotaSame
<1>5. ASSUME NEW c \in Conns, Ready(c) \/ Recheck(c) \/ EnumerateDeadline(c) \/ ServeRequest(c)
     PROVE  Quota'
  <2>1. admission' = admission
    BY <1>5 DEF Ready, Recheck, EnumerateDeadline, ServeRequest
  <2>2. \A k \in Kinds : Holders(k)' = Holders(k)
    BY <1>5 DEF Ready, Recheck, EnumerateDeadline, ServeRequest, At, Go, Unwind, Places, Holders, Live, Admitted, Leasing, Prepared, Kinds
  <2>3. QED
    BY <2>1, <2>2, QuotaSame
<1>6. ASSUME NEW c \in Conns, WriteRecord(c) \/ Attach(c)
     PROVE  Quota'
  <2>1. admission' = admission
    BY <1>6 DEF WriteRecord, Attach
  <2>2. \A k \in Kinds : Holders(k)' = Holders(k)
    BY <1>6 DEF WriteRecord, Attach, At, Go, Unwind, Places, Holders, Live, Admitted, Leasing, Prepared, Kinds
  <2>3. QED
    BY <2>1, <2>2, QuotaSame
<1>7. ASSUME NEW c \in Conns, Enumerate(c) \/ ServeWorkerDied(c)
     PROVE  Quota'
  <2>1. admission' = admission
    BY <1>7 DEF Enumerate, ServeWorkerDied
  <2>2. \A k \in Kinds : Holders(k)' = Holders(k)
    BY <1>7 DEF Enumerate, ServeWorkerDied, At, Go, Unwind, Reaped, Places, Holders, Live, Admitted, Leasing, Prepared, Kinds
  <2>3. QED
    BY <2>1, <2>2, QuotaSame
<1>8. ASSUME NEW c \in Conns, Handoff(c) \/ SendChannels(c) \/ CloseShutdown(c)
     PROVE  Quota'
  <2>1. admission' = admission
    BY <1>8 DEF Handoff, SendChannels, CloseShutdown
  <2>2. \A k \in Kinds : Holders(k)' = Holders(k)
    BY <1>8 DEF Handoff, SendChannels, CloseShutdown, At, Go, Unwind, Places, Holders, Live, Admitted, Leasing, Prepared, Kinds
  <2>3. QED
    BY <2>1, <2>2, QuotaSame
<1>9. ASSUME NEW c \in Conns, StopKill(c) \/ StopTimeout(c)
     PROVE  Quota'
  <2>1. admission' = admission
    BY <1>9 DEF StopKill, StopTimeout
  <2>2. \A k \in Kinds : Holders(k)' = Holders(k)
    BY <1>9 DEF StopKill, StopTimeout, At, Go, Unwind, Attempted, Places, Holders, Live, Admitted, Leasing, Prepared, Kinds
  <2>3. QED
    BY <2>1, <2>2, QuotaSame
<1>10. ASSUME NEW c \in Conns, StopReaped(c)
     PROVE  Quota'
  <2>1. admission' = admission
    BY <1>10 DEF StopReaped
  <2>2. \A k \in Kinds : Holders(k)' = Holders(k)
    BY <1>10 DEF StopReaped, At, Go, Unwind, Attempted, Places, Holders, Live, Admitted, Leasing, Prepared, Kinds
  <2>3. QED
    BY <2>1, <2>2, QuotaSame
<1>11. ASSUME NEW c \in Conns, ClearRecord(c)
     PROVE  Quota'
  <2>1. admission' = admission
    BY <1>11 DEF ClearRecord
  <2>2. \A k \in Kinds : Holders(k)' = Holders(k)
    BY <1>11 DEF ClearRecord, At, Go, Unwind, Attempted, Places, Holders, Live, Admitted, Leasing, Prepared, Kinds
  <2>3. QED
    BY <2>1, <2>2, QuotaSame
<1>12. ASSUME NEW c \in Conns, Dropped(c) \/ DropLease(c) \/ Answer(c)
     PROVE  Quota'
  <2>1. admission' = admission
    BY <1>12 DEF Dropped, DropLease, Answer
  <2>2. \A k \in Kinds : Holders(k)' = Holders(k)
    BY <1>12 DEF Dropped, DropLease, Answer, At, Go, Unwind, Places, Holders, Live, Admitted, Leasing, Prepared, Kinds
  <2>3. QED
    BY <2>1, <2>2, QuotaSame
<1>13. ASSUME NEW c \in Conns, DropPermit(c)
     PROVE  Quota'
  <2>1. /\ c \in Holders("sess") /\ Holders("sess")' = Holders("sess") \ {c}
        /\ \A j \in Kinds \ {"sess"} : Holders(j)' = Holders(j)
    BY <1>13 DEF DropPermit, At, Go, Places, Holders, Live, Admitted, Leasing, Prepared, Kinds
  <2>2. Release("sess", c)
    BY <1>13 DEF DropPermit
  <2>3. QED
    BY <2>1, <2>2, PermitDropped DEF Kinds
<1>14. ASSUME NEW c \in Conns, ThreadEnd(c)
     PROVE  Quota'
  <2>1. /\ c \in Holders("conn") /\ Holders("conn")' = Holders("conn") \ {c}
        /\ \A j \in Kinds \ {"conn"} : Holders(j)' = Holders(j)
    BY <1>14 DEF ThreadEnd, At, Go, Places, Holders, Live, Admitted, Leasing, Prepared, Kinds
  <2>2. Release("conn", c)
    BY <1>14 DEF ThreadEnd
  <2>3. QED
    BY <2>1, <2>2, PermitDropped DEF Kinds
<1>15. ASSUME NEW c \in Conns, ClientSend(c) \/ ClientLeave(c) \/ WorkerExit(c) \/ AdminReview(c)
     PROVE  Quota'
  <2>1. admission' = admission
    BY <1>15 DEF ClientSend, ClientLeave, WorkerExit, AdminReview
  <2>2. \A k \in Kinds : Holders(k)' = Holders(k)
    BY <1>15 DEF ClientSend, ClientLeave, WorkerExit, AdminReview, At, Go, Unwind, Places, Holders, Live, Admitted, Leasing, Prepared, Kinds
  <2>3. QED
    BY <2>1, <2>2, QuotaSame
<1>16. ASSUME NEW p \in Ports, HubEnumerates(p) \/ HubLosesDevice(p) \/ HubFreesPort(p) \/ AdminAttach(p) \/ AdminDetach(p)
     PROVE  Quota'
  BY <1>16, QuotaSame DEF HubEnumerates, HubLosesDevice, HubFreesPort, AdminAttach, AdminDetach, Holders, Live
<1>17. CASE Crash
  <2>1. \A k \in Kinds : Holders(k)' = {}
    BY <1>17 DEF Crash, Places, Holders, Live, Admitted, Leasing, Prepared, Kinds
  <2>2. QED
    BY <1>17, <2>1, NobodyCounted DEF Crash
<1>18. CASE Start
  BY <1>18, QuotaSame DEF Start, Holders, Live
<1>19. CASE UNCHANGED vars
  BY <1>19, QuotaSame DEF vars, Holders, Live
<1>20. QED
  BY <1>1, <1>2, <1>3, <1>4, <1>5, <1>6, <1>7, <1>8, <1>9, <1>10, <1>11, <1>12, <1>13, <1>14, <1>15, <1>16, <1>17, <1>18, <1>19 DEF Next, Step, Hub

-----------------------------------------------------------------------------
(* The theorems.                                                           *)

\* The invariant holds before the first connection.
LEMMA InitInv ==
  ASSUME Init
  PROVE  IInv
<1>1. \A c \in Conns : pc[c] = "new" /\ Of(c) = {}
  <2>1. \A p \in Ports : hub[p] = Free \/ hub[p] = Outside
    BY DEF Init
  <2>2. \A p \in Ports : hub[p].kind # "ours"
    BY <2>1 DEF Free, Outside
  <2>3. QED
    BY <2>2 DEF Init, Of
<1>2. Types /\ Marks
  BY DEF Init, Types, Marks
<1>3. Places /\ Hubs
  BY DEF Init, Places, Labels, Hubs, Occupants
<1>4. Closes
  BY CallSequences DEF Init, Closes
<1>5. Lessees = {} /\ reserved = {}
  BY <1>1 DEF Init, Lessees, Leasing, Prepared
<1>6. Down /\ Leases
  BY <1>5 DEF Init, Down, Leases, LeasesExclusive
<1>7. Attachments
  BY <1>1 DEF Attachments, DevicePlaced, RecordPlaced, Recorded, SocketShut, AttachmentsSafe,
     AttachmentRecorded, RestartSafe
<1>8. Acknowledged
  BY <1>1 DEF Init, Acknowledged, ClearReaped, Cleared, AckEarned, AckLast, AckMeansReleased
<1>9. \A k \in Kinds : Holders(k) = {} /\ \A u \in Peers : HoldersOf(k, u) = {}
  BY <1>1 DEF Holders, HoldersOf, Live, Kinds, Admitted, Leasing, Prepared
<1>10. Quota
  <2>1. Cardinality({}) = 0
    BY FS_EmptySet
  <2>2. \A k \in Kinds : /\ Limits[k].global \in Nat /\ Limits[k].peer \in Nat
                        /\ admission[k].total = 0
                        /\ \A u \in Peers : admission[k].peers[u] = 0
    BY DEF Init, EmptyAdmission, Kinds
  <2>3. \A k \in Kinds : /\ Cardinality(Holders(k)) = 0
                        /\ \A u \in Peers : Cardinality(HoldersOf(k, u)) = 0
    BY <1>9, <2>1
  <2>4. QuotaExact
    BY <2>2, <2>3 DEF QuotaExact
  <2>5. QED
    BY <2>4 DEF Init, EmptyAdmission, Quota
<1>11. QED
  BY <1>2, <1>3, <1>4, <1>6, <1>7, <1>8, <1>10 DEF IInv

\* Every step keeps it.
LEMMA NextInv ==
  ASSUME IInv, [Next]_vars
  PROVE  IInv'
<1>1. Types' /\ Marks' /\ Places' /\ Closes' /\ Hubs' /\ Down'
  BY TypesStep, MarksStep, PlacesStep, ClosesStep, HubStep, DownStep DEF IInv
<1>2. Leases' /\ Attachments'
  BY LeasesStep, AttachmentsStep DEF IInv
<1>3. Acknowledged' /\ Quota'
  BY AcknowledgedStep, QuotaStep DEF IInv, Attachments
<1>4. QED
  BY <1>1, <1>2, <1>3 DEF IInv

\* Every reachable state satisfies the inductive invariant.
LEMMA Invariance == Spec => []IInv
<1>1. Init => IInv
  BY InitInv
<1>2. IInv /\ [Next]_vars => IInv'
  BY NextInv
<1>3. QED
  BY <1>1, <1>2, PTL DEF Spec

\* The daemon's memory, the journal and what surrounds them keep their types.
THEOREM TypeCorrect == Spec => []TypeOK
<1>1. IInv => TypeOK
  BY DEF IInv, Types, Marks, Places, Closes, Calls, Hubs, Quota, TypeOK
<1>2. QED
  BY <1>1, Invariance, PTL

\* No port is leased twice, and an acknowledged close has given everything back, whatever the
\* threads, the clients, the workers and the kernel do in between (vhci_policy.rs reserve,
\* audio_host.rs Owned::close).
THEOREM LeasesAreKept == Spec => []LeasesKept
<1>1. IInv => LeasesKept
  BY DEF IInv, Leases, Acknowledged, LeasesKept
<1>2. QED
  BY <1>1, Invariance, PTL

\* At every step the daemon may be killed at, the journal names each device that the kernel may
\* still drive, and a restarted daemon serves behind none (audio_host.rs open, Host::new).
THEOREM AttachmentsAreSafe == Spec => []AttachmentsSafe
<1>1. IInv => AttachmentsSafe
  BY DEF IInv, Attachments
<1>2. QED
  BY <1>1, Invariance, PTL

\* Both quotas count exactly the permits held and are never passed (admission.rs reserve, Drop).
THEOREM QuotasAreExact == Spec => []QuotaExact
<1>1. IInv => QuotaExact
  BY DEF IInv, Quota
<1>2. QED
  BY <1>1, Invariance, PTL

=============================================================================
