----------------------------- MODULE AudioBroker -----------------------------
(***************************************************************************)
(* The privileged audio broker: the accept loop of gr-privileged-broker,   *)
(* one thread per connection, the shared admission quotas, the VHCI port   *)
(* pool, the ownership journal on disk and the worker processes.           *)
(*                                                                         *)
(* A connection opens at most one session.  Opening takes a session        *)
(* permit, leases a port from a status snapshot, launches a worker, writes *)
(* a record to the journal, attaches the worker's socket to the port and   *)
(* waits for the kernel to enumerate the device.  Any failure unwinds the  *)
(* ownership built so far, newest first.  The daemon may be killed between *)
(* any two steps; only the journal, the kernel's ports and the dying       *)
(* workers survive it, and a restart refuses to run while a record is left.*)
(*                                                                         *)
(* External, modelled from how the code uses them: the kernel's VHCI hub,  *)
(* the process table with its parent-death signal, the clients, and an     *)
(* administrator who attaches and detaches other devices.                  *)
(***************************************************************************)
EXTENDS Naturals, Sequences, FiniteSets, FiniteSetsExt

CONSTANTS
  Conns,        \* the connections made; each is used once, as the code demands
  Peers,        \* the user ids behind them
  PeerOf,       \* the user id SO_PEERCRED reports for each connection
  NoPort,       \* no lease yet
  Ports,        \* the VHCI ports the administrator allows
  Limits,       \* the quotas: [conn, sess] -> [global, peer]
  MaxRecords,   \* how many records the journal holds
  MaxCrashes,   \* bound: how often the daemon is killed
  MaxFaulted    \* bound: on how many connections a cleanup operation fails

ASSUME BrokerAssumption ==
  /\ Ports \subseteq Nat /\ IsFiniteSet(Ports) /\ IsFiniteSet(Conns)
  /\ PeerOf \in [Conns -> Peers]
  /\ Limits \in [{"conn", "sess"} -> [global : Nat, peer : Nat]]
  /\ NoPort \notin Ports
  /\ MaxRecords \in Nat /\ MaxCrashes \in Nat /\ MaxFaulted \in Nat

VARIABLES
  up,         \* the daemon is running
  crashes,    \* how often it was killed (bound only)
  admission,  \* the two Admission states: total and per-peer counts
  reserved,   \* PortPool.reserved
  disk,       \* the journal: the generations with a record on disk
  hub,        \* external: what occupies each VHCI port
  worker,     \* the worker process of each connection
  killed,     \* external: a SIGKILL is pending for that worker
  kernelSock, \* the kernel's end of each session: "open" or "shut"
  pc,         \* where each connection's thread is
  seen,       \* the ports its status snapshot showed free
  port,       \* the port it leases
  closes,     \* the close calls its unwinding still makes
  cleared,    \* Record.removed
  acked,      \* its close request succeeded
  faulted,    \* history: a cleanup or journal operation of its failed
  inbox,      \* the request waiting on its stream
  gone,       \* external: the client has dropped the stream
  reply       \* the last answer the client was sent

daemon == <<up, crashes, admission, reserved, disk>>
outside == <<hub, worker, killed, kernelSock>>
thread == <<pc, seen, port, closes, cleared, acked, faulted>>
stream == <<inbox, gone, reply>>
vars == <<up, crashes, admission, reserved, disk, hub, worker, killed,
          kernelSock, pc, seen, port, closes, cleared, acked, faulted,
          inbox, gone, reply>>

\* What a port holds: nothing, an outside device, or the device of a session.
Free == [kind |-> "free"]
Outside == [kind |-> "outside"]
Device(c, s) == [kind |-> "ours", of |-> c, state |-> s]
PortStates == {"pending", "used", "error"}
Occupants == {Free, Outside} \cup {Device(c, s) : c \in Conns, s \in PortStates}
Of(c) == {p \in Ports : hub[p].kind = "ours" /\ hub[p].of = c}

\* A status read: the free high-speed ports.
free_high_speed_ports == {p \in Ports : hub[p] = Free}

-----------------------------------------------------------------------------
(* Admission                                                               *)

Kinds == {"conn", "sess"}
EmptyAdmission == [k \in Kinds |-> [total |-> 0, peers |-> [u \in Peers |-> 0]]]

\* Bug: only the global limit is checked.
Admits(k, c) ==
  /\ admission[k].total < Limits[k].global
  /\ admission[k].peers[PeerOf[c]] < Limits[k].peer

Reserve(k, c) ==
  LET a == admission[k]
      u == PeerOf[c]
  IN admission' = [admission EXCEPT ![k] =
       [total |-> a.total + 1, peers |-> [a.peers EXCEPT ![u] = @ + 1]]]

FaultyRelease(k, c) == admission' = [admission EXCEPT ![k].total = @ - 1]

\* Dropping a Permit.
Release(k, c) ==
  LET a == admission[k]
      u == PeerOf[c]
  IN admission' = [admission EXCEPT ![k] =
       [total |-> a.total - 1, peers |-> [a.peers EXCEPT ![u] = @ - 1]]]

-----------------------------------------------------------------------------
(* The thread's steps.  Go moves one thread; the thread-local variables it *)
(* does not name stay as they are.                                         *)

At(c, l) == up /\ pc[c] = l
Go(c, l) == pc' = [pc EXCEPT ![c] = l]

\* The unwinding of what a failed or finished connection owns: the explicit
\* rollback and the Drop of each layer, each a close of its own.
Unwind(c, calls) ==
  /\ Go(c, "close")
  /\ closes' = [closes EXCEPT ![c] = calls]

PreparedOnly == <<"session", "session">>
Owned == <<"owned", "owned", "session">>

\* A journal or cleanup operation of this connection can fail.
MayFail(c) == faulted[c] \/ Cardinality({d \in Conns : faulted[d]}) < MaxFaulted

Init ==
  /\ up = TRUE /\ crashes = 0
  /\ admission = EmptyAdmission
  /\ reserved = {} /\ disk = {}
  /\ hub \in [Ports -> {Free, Outside}]
  /\ worker = [c \in Conns |-> "none"]
  /\ killed = [c \in Conns |-> FALSE]
  /\ kernelSock = [c \in Conns |-> "none"]
  /\ pc = [c \in Conns |-> "new"]
  /\ seen = [c \in Conns |-> {}]
  /\ port = [c \in Conns |-> NoPort]
  /\ closes = [c \in Conns |-> <<>>]
  /\ cleared = [c \in Conns |-> FALSE]
  /\ acked = [c \in Conns |-> FALSE]
  /\ faulted = [c \in Conns |-> FALSE]
  /\ inbox = [c \in Conns |-> "none"]
  /\ gone = [c \in Conns |-> FALSE]
  /\ reply = [c \in Conns |-> "none"]

\* The accept loop admits a connection or drops it at once.
Accept(c) ==
  /\ At(c, "new")
  /\ IF Admits("conn", c)
       THEN Reserve("conn", c) /\ Go(c, "first") /\ UNCHANGED gone
       ELSE /\ Go(c, "done") /\ gone' = [gone EXCEPT ![c] = TRUE]
            /\ UNCHANGED admission
  /\ UNCHANGED <<up, crashes, reserved, disk, outside, seen, port, closes,
                 cleared, acked, faulted, inbox, reply>>

\* serve with the first frame: an open request takes a session permit before
\* anything is created; anything else, and a full quota, is refused.
Request(c) ==
  /\ At(c, "first")
  /\ inbox[c] # "none"
  /\ inbox' = [inbox EXCEPT ![c] = "none"]
  /\ IF inbox[c] = "open" /\ Admits("sess", c)
       THEN Reserve("sess", c) /\ Go(c, "status") /\ UNCHANGED reply
       ELSE /\ Go(c, "conn")
            /\ reply' = [reply EXCEPT ![c] = IF gone[c] THEN @ ELSE "failed"]
            /\ UNCHANGED admission
  /\ UNCHANGED <<up, crashes, reserved, disk, outside, seen, port, closes,
                 cleared, acked, faulted, gone>>

\* The client left before its first frame: the read fails and the thread ends.
FirstEof(c) ==
  /\ At(c, "first") /\ inbox[c] = "none" /\ gone[c]
  /\ Go(c, "conn")
  /\ UNCHANGED <<daemon, outside, seen, port, closes, cleared, acked, faulted, stream>>

\* Factory::open reads the status, and only then locks the pool.
ReadStatus(c) ==
  /\ At(c, "status")
  /\ seen' = [seen EXCEPT ![c] = free_high_speed_ports]
  /\ Go(c, "reserve")
  /\ UNCHANGED <<daemon, outside, port, closes, cleared, acked, faulted, stream>>

\* PortPool::reserve: the first allowed port that the snapshot shows free and
\* no other session reserves, checked and inserted under the pool's lock.
\* The bug trusts the snapshot alone.
FaultyCandidates(c) == seen[c]
Candidates(c) == seen[c] \ reserved

ReservePort(c) ==
  /\ At(c, "reserve")
  /\ seen' = [seen EXCEPT ![c] = {}]
  /\ IF Candidates(c) = {}
       THEN Go(c, "permit") /\ UNCHANGED <<reserved, port>>
       ELSE LET p == Min(Candidates(c))
            IN /\ reserved' = reserved \cup {p}
               /\ port' = [port EXCEPT ![c] = p]
               /\ Go(c, "check")
  /\ UNCHANGED <<up, crashes, admission, disk, outside, closes, cleared, acked,
                 faulted, stream>>

\* The attach node, fresh identities and the first revalidation.  Any of the
\* reads may fail; a port taken meanwhile fails too.
CheckPort(c) ==
  /\ At(c, "check")
  /\ \/ port[c] \in free_high_speed_ports /\ Go(c, "spawn")
     \/ Go(c, "lease")
  /\ UNCHANGED <<daemon, outside, seen, port, closes, cleared, acked, faulted, stream>>

\* Session::prepare launches the worker; a failed launch leaves only the lease.
Spawn(c) ==
  /\ At(c, "spawn")
  /\ \/ /\ worker' = [worker EXCEPT ![c] = "running"]
        /\ kernelSock' = [kernelSock EXCEPT ![c] = "open"]
        /\ Go(c, "ready")
     \/ Go(c, "lease") /\ UNCHANGED <<worker, kernelSock>>
  /\ UNCHANGED <<daemon, hub, killed, seen, port, closes, cleared, acked, faulted, stream>>

\* The worker's readiness acknowledgement, or its absence for three seconds.
Ready(c) ==
  /\ At(c, "ready")
  /\ \/ Go(c, "record") /\ UNCHANGED closes
     \/ Unwind(c, PreparedOnly)
  /\ UNCHANGED <<daemon, outside, seen, port, cleared, acked, faulted, stream>>

\* Bug: the attachment goes ahead unrecorded.
FaultyWriteRecord(c) ==
  /\ At(c, "record")
  /\ Go(c, "recheck")
  /\ UNCHANGED <<daemon, outside, seen, port, closes, cleared, acked, faulted, stream>>

\* Journal::record.  A full journal or a failed create leaves nothing; a
\* failed write or sync keeps the partial record on disk.
WriteRecord(c) ==
  /\ At(c, "record")
  /\ \/ /\ Cardinality(disk) < MaxRecords
        /\ disk' = disk \cup {c}
        /\ Go(c, "recheck")
        /\ UNCHANGED <<closes, faulted>>
     \/ /\ Cardinality(disk) < MaxRecords /\ MayFail(c)
        /\ disk' = disk \cup {c}
        /\ faulted' = [faulted EXCEPT ![c] = TRUE]
        /\ Unwind(c, PreparedOnly)
     \/ /\ Unwind(c, PreparedOnly)
        /\ UNCHANGED <<disk, faulted>>
  /\ UNCHANGED <<up, crashes, admission, reserved, outside, seen, port, cleared,
                 acked, stream>>

\* The second revalidation, now that a record covers the attachment.
Recheck(c) ==
  /\ At(c, "recheck")
  /\ \/ port[c] \in free_high_speed_ports /\ Go(c, "attach") /\ UNCHANGED closes
     \/ Unwind(c, Owned)
  /\ UNCHANGED <<daemon, outside, seen, port, cleared, acked, faulted, stream>>

\* The attach write.  The kernel refuses an occupied port.
Attach(c) ==
  /\ At(c, "attach")
  /\ \/ /\ hub[port[c]] = Free
        /\ hub' = [hub EXCEPT ![port[c]] = Device(c, "pending")]
        /\ Go(c, "enumerate") /\ UNCHANGED closes
     \/ Unwind(c, Owned) /\ UNCHANGED hub
  /\ UNCHANGED <<daemon, worker, killed, kernelSock, seen, port, cleared, acked,
                 faulted, stream>>

\* check_alive found the worker dead: it is reaped and the socket shut.
Reaped(c) ==
  /\ worker' = [worker EXCEPT ![c] = "reaped"]
  /\ kernelSock' = [kernelSock EXCEPT ![c] = "shut"]

\* One poll of the enumeration loop that decides it.  A free or pending port
\* keeps it polling, which changes nothing.
Enumerate(c) ==
  /\ At(c, "enumerate")
  /\ \/ /\ worker[c] = "exited"
        /\ Reaped(c) /\ Unwind(c, Owned)
     \/ /\ worker[c] = "running"
        /\ hub[port[c]] = Device(c, "used")
        /\ Go(c, "handoff") /\ UNCHANGED <<worker, kernelSock, closes>>
     \/ /\ worker[c] = "running"
        /\ \/ hub[port[c]] = Outside
           \/ hub[port[c]].kind = "ours" /\ hub[port[c]].state = "error"
        /\ Unwind(c, Owned) /\ UNCHANGED <<worker, kernelSock>>
  /\ UNCHANGED <<daemon, hub, killed, seen, port, cleared, acked, faulted, stream>>

\* Five seconds without a configured device, or a status read that fails.
EnumerateDeadline(c) ==
  /\ At(c, "enumerate") /\ worker[c] = "running"
  /\ Unwind(c, Owned)
  /\ UNCHANGED <<daemon, outside, seen, port, cleared, acked, faulted, stream>>

\* The creation reply, then the three channels.  Either write fails once the
\* client has left, and ownership installed before it unwinds.
Handoff(c) ==
  /\ At(c, "handoff")
  /\ IF gone[c] THEN Unwind(c, Owned) /\ UNCHANGED reply
                ELSE /\ reply' = [reply EXCEPT ![c] = "opened"]
                     /\ Go(c, "channels") /\ UNCHANGED closes
  /\ UNCHANGED <<daemon, outside, seen, port, cleared, acked, faulted, inbox, gone>>

SendChannels(c) ==
  /\ At(c, "channels")
  /\ IF gone[c] THEN Unwind(c, Owned) /\ UNCHANGED reply
                ELSE /\ reply' = [reply EXCEPT ![c] = "channels"]
                     /\ Go(c, "serve") /\ UNCHANGED closes
  /\ UNCHANGED <<daemon, outside, seen, port, cleared, acked, faulted, inbox, gone>>

\* The serving loop polls the worker before it looks at the stream.
ServeWorkerDied(c) ==
  /\ At(c, "serve") /\ worker[c] = "exited"
  /\ Reaped(c) /\ Unwind(c, Owned)
  /\ UNCHANGED <<daemon, hub, killed, seen, port, cleared, acked, faulted, stream>>

\* A close naming this session's generation closes explicitly before the drop
\* of every layer; any other frame, and end of stream, only drops.  The bug
\* waits on through end of stream.
ServeRequest(c) ==
  /\ At(c, "serve")
  /\ inbox[c] # "none" \/ gone[c]
  /\ inbox' = [inbox EXCEPT ![c] = "none"]
  /\ Unwind(c, IF inbox[c] = "close" THEN <<"request">> \o Owned ELSE Owned)
  /\ UNCHANGED <<daemon, outside, seen, port, cleared, acked, faulted, gone, reply>>

-----------------------------------------------------------------------------
(* Session::close and Owned::close, one attempt per entry of closes.       *)

CloseShutdown(c) ==
  /\ At(c, "close") /\ closes[c] # <<>>
  /\ kernelSock' = [kernelSock EXCEPT ![c] = "shut"]
  /\ Go(c, "stop")
  /\ UNCHANGED <<daemon, hub, worker, killed, seen, port, closes, cleared, acked,
                 faulted, stream>>

\* The attempt returned: the next one starts, and a failure is remembered.
Attempted(c, ok) ==
  /\ Go(c, "close")
  /\ closes' = [closes EXCEPT ![c] = Tail(@)]
  /\ acked' = [acked EXCEPT ![c] = @ \/ (ok /\ Head(closes[c]) = "request")]
  /\ faulted' = [faulted EXCEPT ![c] = @ \/ ~ok]

\* stop_child found the process dead, or had reaped it before.
StopReaped(c) ==
  /\ up /\ pc[c] \in {"stop", "killing"}
  /\ worker[c] \in {"exited", "reaped"}
  /\ worker' = [worker EXCEPT ![c] = "reaped"]
  /\ IF Head(closes[c]) = "session"
       THEN Attempted(c, TRUE)
       ELSE Go(c, "clear") /\ UNCHANGED <<closes, acked, faulted>>
  /\ UNCHANGED <<daemon, hub, killed, kernelSock, seen, port, cleared, stream>>

\* A quarter second passed: kill it.  A refused kill of a live process is an
\* error of the close, which skips the record.
StopKill(c) ==
  /\ At(c, "stop") /\ worker[c] = "running"
  /\ \/ /\ killed' = [killed EXCEPT ![c] = TRUE]
        /\ Go(c, "killing") /\ UNCHANGED <<closes, acked, faulted>>
     \/ MayFail(c) /\ Attempted(c, FALSE) /\ UNCHANGED killed
  /\ UNCHANGED <<daemon, hub, worker, kernelSock, seen, port, cleared, stream>>

\* Another quarter second and it still lives.
StopTimeout(c) ==
  /\ At(c, "killing") /\ worker[c] = "running" /\ MayFail(c)
  /\ Attempted(c, FALSE)
  /\ UNCHANGED <<daemon, outside, seen, port, cleared, stream>>

\* Record::clear: removed and synced; kept because it changed or could not be
\* removed; removed but not synced, after which it is never found again.
ClearRecord(c) ==
  /\ At(c, "clear")
  /\ IF cleared[c]
       THEN Attempted(c, TRUE) /\ UNCHANGED <<disk, cleared>>
       ELSE \/ /\ c \in disk
               /\ disk' = disk \ {c}
               /\ cleared' = [cleared EXCEPT ![c] = TRUE]
               /\ Attempted(c, TRUE)
            \/ /\ MayFail(c) /\ disk' \in {disk, disk \ {c}}
               /\ Attempted(c, FALSE) /\ UNCHANGED cleared
  /\ UNCHANGED <<up, crashes, admission, reserved, outside, seen, port, stream>>

\* Every layer is dropped: the Session's port lease goes with it.
Dropped(c) ==
  /\ At(c, "close") /\ closes[c] = <<>>
  /\ Go(c, "lease")
  /\ UNCHANGED <<daemon, outside, seen, port, closes, cleared, acked, faulted, stream>>

\* Drop of PortLease.
DropLease(c) ==
  /\ At(c, "lease")
  /\ reserved' = reserved \ {port[c]}
  /\ Go(c, "permit")
  /\ UNCHANGED <<up, crashes, admission, disk, outside, seen, port, closes, cleared,
                 acked, faulted, stream>>

\* Drop of the session Permit, then the answer: the acknowledgement of a close
\* that succeeded, the error otherwise.  serve's locals are gone by then.
DropPermit(c) ==
  /\ At(c, "permit")
  /\ Release("sess", c)
  /\ Go(c, "answer")
  /\ UNCHANGED <<up, crashes, reserved, disk, outside, seen, port, closes, cleared,
                 acked, faulted, stream>>

Answer(c) ==
  /\ At(c, "answer")
  /\ reply' = [reply EXCEPT ![c] = IF gone[c] THEN @
                                   ELSE IF acked[c] THEN "closed" ELSE "failed"]
  /\ Go(c, "conn")
  /\ port' = [port EXCEPT ![c] = NoPort]
  /\ cleared' = [cleared EXCEPT ![c] = FALSE]
  /\ acked' = [acked EXCEPT ![c] = FALSE]
  /\ UNCHANGED <<daemon, outside, seen, closes, faulted, inbox, gone>>

\* PR_SET_PDEATHSIG, set after the change of user id that would clear it: the
\* kernel kills a worker whose launching thread is gone.
ParentDeathSignal(c) == worker[c] = "running"

\* The thread ends: its connection permit drops, the stream closes, and the
\* kernel delivers the parent-death signal to a worker it leaves behind.
ThreadEnd(c) ==
  /\ At(c, "conn")
  /\ Release("conn", c)
  /\ Go(c, "done")
  /\ gone' = [gone EXCEPT ![c] = TRUE]
  /\ inbox' = [inbox EXCEPT ![c] = "none"]
  /\ killed' = [killed EXCEPT ![c] = ParentDeathSignal(c)]
  /\ UNCHANGED <<up, crashes, reserved, disk, hub, worker, kernelSock, seen, port,
                 closes, cleared, acked, faulted, reply>>

Step(c) ==
  \/ Accept(c) \/ Request(c) \/ FirstEof(c) \/ ReadStatus(c) \/ ReservePort(c)
  \/ CheckPort(c) \/ Spawn(c) \/ Ready(c) \/ WriteRecord(c) \/ Recheck(c)
  \/ Attach(c) \/ Enumerate(c) \/ EnumerateDeadline(c) \/ Handoff(c)
  \/ SendChannels(c) \/ ServeWorkerDied(c) \/ ServeRequest(c)
  \/ CloseShutdown(c) \/ StopReaped(c) \/ StopKill(c) \/ StopTimeout(c)
  \/ ClearRecord(c) \/ Dropped(c) \/ DropLease(c) \/ DropPermit(c)
  \/ Answer(c) \/ ThreadEnd(c)

-----------------------------------------------------------------------------
(* The daemon's life.                                                      *)

Live(c) == pc[c] \notin {"new", "done", "dead"}

\* The daemon is killed: its memory is gone, its descriptors close, and every
\* worker gets the parent-death signal.  The journal and the kernel remain.
Crash ==
  /\ up /\ crashes < MaxCrashes
  /\ up' = FALSE /\ crashes' = crashes + 1
  /\ admission' = EmptyAdmission /\ reserved' = {}
  /\ pc' = [c \in Conns |-> IF Live(c) THEN "dead" ELSE pc[c]]
  /\ killed' = [c \in Conns |-> ParentDeathSignal(c)]
  /\ gone' = [c \in Conns |-> gone[c] \/ Live(c)]
  /\ seen' = [c \in Conns |-> {}]
  /\ port' = [c \in Conns |-> NoPort]
  /\ closes' = [c \in Conns |-> <<>>]
  /\ cleared' = [c \in Conns |-> FALSE]
  /\ acked' = [c \in Conns |-> FALSE]
  /\ inbox' = [c \in Conns |-> "none"]
  /\ UNCHANGED <<disk, hub, worker, kernelSock, faulted, reply>>

\* Host::new: a start goes on only with an empty journal.
Start ==
  /\ ~up
  /\ disk = {}
  /\ up' = TRUE
  /\ UNCHANGED <<crashes, admission, reserved, disk, outside, thread, stream>>

-----------------------------------------------------------------------------
(* External: clients, processes, the kernel and the administrator.         *)

ClientSend(c) ==
  /\ Live(c) /\ ~gone[c] /\ inbox[c] = "none"
  /\ \/ pc[c] = "first" /\ inbox' = [inbox EXCEPT ![c] = "open"]
     \/ reply[c] = "channels" /\ inbox' = [inbox EXCEPT ![c] = "close"]
     \/ pc[c] \in {"first", "serve"} /\ inbox' = [inbox EXCEPT ![c] = "other"]
  /\ UNCHANGED <<daemon, outside, thread, gone, reply>>

ClientLeave(c) ==
  /\ Live(c) /\ ~gone[c]
  /\ gone' = [gone EXCEPT ![c] = TRUE]
  /\ UNCHANGED <<daemon, outside, thread, inbox, reply>>

\* A worker exits by itself at any time, and when it is killed.
WorkerExit(c) ==
  /\ worker[c] = "running"
  /\ worker' = [worker EXCEPT ![c] = "exited"]
  /\ killed' = [killed EXCEPT ![c] = FALSE]
  /\ UNCHANGED <<daemon, hub, kernelSock, thread, stream>>

\* The kernel's connection to the worker is lost.
Severed(c) == kernelSock[c] = "shut" \/ worker[c] # "running"

HubEnumerates(p) ==
  /\ hub[p].kind = "ours" /\ hub[p].state = "pending" /\ ~Severed(hub[p].of)
  /\ hub' = [hub EXCEPT ![p] = Device(@.of, "used")]
  /\ UNCHANGED <<daemon, worker, killed, kernelSock, thread, stream>>

HubLosesDevice(p) ==
  /\ hub[p].kind = "ours" /\ hub[p].state # "error" /\ Severed(hub[p].of)
  /\ hub' = [hub EXCEPT ![p] = Device(@.of, "error")]
  /\ UNCHANGED <<daemon, worker, killed, kernelSock, thread, stream>>

HubFreesPort(p) ==
  /\ hub[p].kind = "ours" /\ hub[p].state = "error"
  /\ hub' = [hub EXCEPT ![p] = Free]
  /\ UNCHANGED <<daemon, worker, killed, kernelSock, thread, stream>>

\* An administrator attaches and detaches other devices, and may detach ours:
\* the kernel then shuts the session's socket.
AdminAttach(p) ==
  /\ hub[p] = Free
  /\ hub' = [hub EXCEPT ![p] = Outside]
  /\ UNCHANGED <<daemon, worker, killed, kernelSock, thread, stream>>

AdminDetach(p) ==
  /\ hub[p] # Free
  /\ hub' = [hub EXCEPT ![p] = Free]
  /\ kernelSock' = [c \in Conns |-> IF p \in Of(c) THEN "shut" ELSE kernelSock[c]]
  /\ UNCHANGED <<daemon, worker, killed, thread, stream>>

\* The review a refused start asks for: with the daemon down the record goes
\* once its attachment is gone.
AdminReview(c) ==
  /\ ~up /\ c \in disk /\ Of(c) = {}
  /\ disk' = disk \ {c}
  /\ UNCHANGED <<up, crashes, admission, reserved, outside, thread, stream>>

Hub(p) == HubEnumerates(p) \/ HubLosesDevice(p) \/ HubFreesPort(p)

Next ==
  \/ \E c \in Conns : Step(c) \/ ClientSend(c) \/ ClientLeave(c) \/ WorkerExit(c)
                        \/ AdminReview(c)
  \/ \E p \in Ports : Hub(p) \/ AdminAttach(p) \/ AdminDetach(p)
  \/ Crash \/ Start

Spec == Init /\ [][Next]_vars

-----------------------------------------------------------------------------
(* Properties                                                              *)

Prepared == {"ready", "record", "recheck", "attach", "enumerate", "handoff",
             "channels", "serve", "close", "stop", "killing", "clear"}
Leasing == Prepared \cup {"check", "spawn", "lease"}
Admitted == Leasing \cup {"status", "reserve", "permit"}
Labels == Admitted \cup {"new", "first", "answer", "conn", "done", "dead"}

\* The connections whose thread holds a lease, and a permit of each kind.
Lessees == {c \in Conns : pc[c] \in Leasing}
Holders(k) == {c \in Conns : IF k = "sess" THEN pc[c] \in Admitted ELSE Live(c)}
HoldersOf(k, u) == {c \in Holders(k) : PeerOf[c] = u}

\* Types of the daemon's memory, the journal and what surrounds them.
TypeOK ==
  /\ up \in BOOLEAN /\ crashes \in 0..MaxCrashes
  /\ admission \in [Kinds -> [total : Nat, peers : [Peers -> Nat]]]
  /\ reserved \subseteq Ports /\ disk \subseteq Conns
  /\ hub \in [Ports -> Occupants]
  /\ worker \in [Conns -> {"none", "running", "exited", "reaped"}]
  /\ killed \in [Conns -> BOOLEAN]
  /\ kernelSock \in [Conns -> {"none", "open", "shut"}]
  /\ pc \in [Conns -> Labels]
  /\ seen \in [Conns -> SUBSET Ports]
  /\ port \in [Conns -> Ports \cup {NoPort}]
  /\ closes \in [Conns -> Seq({"request", "owned", "session"})]
  /\ cleared \in [Conns -> BOOLEAN] /\ acked \in [Conns -> BOOLEAN]
  /\ faulted \in [Conns -> BOOLEAN] /\ gone \in [Conns -> BOOLEAN]
  /\ inbox \in [Conns -> {"none", "open", "close", "other"}]
  /\ reply \in [Conns -> {"none", "opened", "channels", "failed", "closed"}]

\* The pool reserves exactly the ports of the sessions that still exist, and
\* never one port for two of them, although each chooses from a status it
\* read before it locked the pool (vhci_policy.rs reserve and Drop).
LeasesExclusive ==
  /\ reserved = {port[c] : c \in Lessees}
  /\ \A c, d \in Lessees : port[c] = port[d] => c = d

\* Both quotas count exactly the permits held, and neither the global nor
\* the per-user limit is ever passed (admission.rs reserve and Drop).
QuotaExact ==
  \A k \in Kinds :
    /\ admission[k].total = Cardinality(Holders(k))
    /\ admission[k].total <= Limits[k].global
    /\ \A u \in Peers :
         /\ admission[k].peers[u] = Cardinality(HoldersOf(k, u))
         /\ admission[k].peers[u] <= Limits[k].peer

\* While the kernel may drive a session's device, a record of it is on disk
\* whatever step the daemon is killed at: the record precedes the attach and
\* goes only after the socket is shut (audio_host.rs open and Owned::close).
AttachmentRecorded ==
  \A c \in Conns : Of(c) # {} /\ kernelSock[c] # "shut" => c \in disk

\* A restarted daemon serves only when no attachment of its predecessor is
\* left whose socket is still open (audio_host.rs Host::new).
RestartSafe ==
  up => \A c \in Conns :
          pc[c] = "dead" /\ Of(c) # {} => kernelSock[c] = "shut"

\* The close acknowledgement means released: the worker is reaped, the socket
\* shut, the record gone, the port and the permit free for the next open.
AckMeansReleased ==
  \A c \in Conns :
    reply[c] = "closed" =>
      /\ worker[c] = "reaped" /\ kernelSock[c] = "shut" /\ c \notin disk
      /\ c \notin Lessees /\ c \notin Holders("sess")

\* A thread runs, its poll loops end at their deadlines, and the kernel kills
\* what it was told to kill.
LiveSpec ==
  /\ Spec
  /\ \A c \in Conns : WF_vars(Step(c))
  /\ \A c \in Conns : WF_vars(killed[c] /\ WorkerExit(c))

\* A connection that is served although its client has left or its worker has died.
Orphaned(c) ==
  /\ pc[c] \notin {"done", "dead"}
  /\ gone[c] \/ (pc[c] # "new" /\ worker[c] \in {"exited", "reaped"})

\* A connection whose client has left, however far its setup was, and a
\* session whose worker has died under an idle client, end and return all
\* they hold: no wait of the thread is unbounded (audio_host.rs serve).
SessionsEnd ==
  \A c \in Conns : []<>(~ Orphaned(c))

\* No two sessions lease one port, and the close acknowledgement means that port, permit,
\* record, socket and worker are given back: see the two parts.
LeasesKept == LeasesExclusive /\ AckMeansReleased

\* While the kernel may drive a session's device its record is on disk, and a restarted
\* daemon serves only when no device of its predecessor is left: see the two parts.
AttachmentsSafe == AttachmentRecorded /\ RestartSafe
=============================================================================
