--------------------------- MODULE DemoDiscovery ---------------------------
(***************************************************************************)
(* Host audio discovery of the demo (demo/src/gui/host_audio.rs): the      *)
(* interface thread asks, a discovery thread runs the listing commands of  *)
(* a backend as subprocesses in a process group of their own, and the      *)
(* answer comes back through a one-place slot. A request carries the       *)
(* generation it was made in; the shared generation counter both cancels a *)
(* running request and marks its late answer as stale.                     *)
(*                                                                         *)
(* The request channel is a rendezvous: it takes a request only while the  *)
(* discovery thread waits for one. The slot's lock is held by the thread   *)
(* for the step called "store", and then the interface skips the slot.     *)
(***************************************************************************)
EXTENDS Naturals

CONSTANTS
    Backends,       \* the host backends a controller may route to
    MaxGeneration   \* bound: requests made in one behaviour

VARIABLES
    generation,     \* the shared atomic; 0 once the owner is dropped
    wanted,         \* the backend of the selected controller's audio view
    discovery,      \* the interface's half: backend, pending, result
    slot,           \* replies
    thread,         \* the discovery thread
    child           \* the process group of the command it runs

vars == <<generation, wanted, discovery, slot, thread, child>>

Nothing == [generation |-> 0, backend |-> "none"]
NoResult == [kind |-> "none", of |-> Nothing]
Gone == [leader |-> "reaped", descendants |-> FALSE]
Waiting == [pc |-> "recv", request |-> Nothing, direction |-> "playback",
            result |-> "none"]

-----------------------------------------------------------------------------
(* The interface thread.                                                    *)

\* refresh: a new generation, whose request waits to be sent.
Refreshed(d, backend) ==
    [d EXCEPT !.backend = backend,
              !.pending = [generation |-> generation + 1, backend |-> backend],
              !.result = NoResult]

\* poll: a reply counts only if no newer request was made.
Accepted(reply, current) == reply.of.generation = current

\* poll: a request the rendezvous did not take stays pending.
Unsent(request) == request

\* poll, called in every frame for the backend of the selected controller.
Poll ==
    /\ generation # 0
    /\ LET changed == discovery.backend # wanted
           d == IF changed THEN Refreshed(discovery, wanted) ELSE discovery
           current == IF changed THEN generation + 1 ELSE generation
           read == thread.pc # "store" /\ slot.kind # "none"
           answered == IF read /\ Accepted(slot, current)
                       THEN [d EXCEPT !.result = slot] ELSE d
           sends == d.pending # Nothing /\ thread.pc = "recv"
       IN /\ generation' = current
          /\ slot' = IF read THEN NoResult ELSE slot
          /\ discovery' = [answered EXCEPT !.pending =
                 IF sends \/ d.pending = Nothing THEN Nothing ELSE Unsent(d.pending)]
          /\ thread' = IF sends
               THEN [Waiting EXCEPT !.pc = "spawn", !.request = d.pending]
               ELSE thread
    /\ UNCHANGED <<wanted, child>>

\* The user retries, or selects a controller that routes to another backend.
Retry ==
    /\ generation \in 1 .. MaxGeneration - 1
    /\ discovery.backend = wanted
    /\ discovery' = Refreshed(discovery, wanted)
    /\ generation' = generation + 1
    /\ UNCHANGED <<wanted, slot, thread, child>>

Select ==
    /\ generation \in 1 .. MaxGeneration - 1
    /\ discovery.backend = wanted
    /\ wanted' \in Backends \ {wanted}
    /\ UNCHANGED <<generation, discovery, slot, thread, child>>

\* Drop: cancel, disconnect, join. The join is over when the thread is.
Drop ==
    /\ generation # 0
    /\ generation' = 0
    /\ UNCHANGED <<wanted, discovery, slot, thread, child>>

-----------------------------------------------------------------------------
(* The discovery thread.                                                    *)

\* recv: the channel was disconnected by Drop.
Disconnected ==
    /\ thread.pc = "recv"
    /\ generation = 0
    /\ thread' = [thread EXCEPT !.pc = "ended"]
    /\ UNCHANGED <<generation, wanted, discovery, slot, child>>

\* run_bounded: the command is started in a process group of its own; a start
\* that fails ends the request.
Spawn ==
    /\ thread.pc = "spawn"
    /\ \/ /\ child' = [leader |-> "running", descendants |-> FALSE]
          /\ thread' = [thread EXCEPT !.pc = "read"]
       \/ /\ thread' = [thread EXCEPT !.pc = "store", !.result = "error"]
          /\ UNCHANGED child
    /\ UNCHANGED <<generation, wanted, discovery, slot>>

\* terminate_discovery: kill the whole group before the leader is reaped, since
\* an unreaped leader reserves the group's number.
TerminateDiscovery(c) == Gone

Fails ==
    /\ child' = TerminateDiscovery(child)
    /\ thread' = [thread EXCEPT !.pc = "store", !.result = "error"]

\* Both loops look at the generation and at the clock before anything else: a
\* request that is no longer current, or too old, is given up.
CancelledOrLate ==
    /\ thread.pc \in {"read", "wait"}
    /\ Fails
    /\ UNCHANGED <<generation, wanted, discovery, slot>>

\* The output ended, or it was too large, unreadable or not text.
OutputRead ==
    /\ thread.pc = "read"
    /\ generation = thread.request.generation
    /\ child.leader \in {"eof", "exited"}
    /\ \/ thread' = [thread EXCEPT !.pc = "wait"] /\ UNCHANGED child
       \/ Fails
    /\ UNCHANGED <<generation, wanted, discovery, slot>>

\* waitid saw the leader exit without reaping it: the group is killed, since the
\* command may have left descendants, and the next direction follows.
ExitSeen ==
    /\ thread.pc = "wait"
    /\ generation = thread.request.generation
    /\ child.leader = "exited"
    /\ \/ /\ child' = TerminateDiscovery(child)
          /\ thread' = IF thread.direction = "playback"
               THEN [thread EXCEPT !.pc = "spawn", !.direction = "capture"]
               ELSE [thread EXCEPT !.pc = "store", !.result = "devices"]
       \/ Fails
    /\ UNCHANGED <<generation, wanted, discovery, slot>>

\* The answer replaces whatever the slot held; the thread asks for more.
Store ==
    /\ thread.pc = "store"
    /\ slot' = [kind |-> thread.result, of |-> thread.request]
    /\ thread' = Waiting
    /\ UNCHANGED <<generation, wanted, discovery, child>>

\* The command, outside the program: it forks, closes its output, exits.
Command ==
    /\ \/ child.leader = "running" /\ child' = [child EXCEPT !.leader = "eof"]
       \/ child.leader = "eof" /\ child' = [child EXCEPT !.leader = "exited"]
       \/ child.leader = "running" /\ ~child.descendants
             /\ child' = [child EXCEPT !.descendants = TRUE]
    /\ UNCHANGED <<generation, wanted, discovery, slot, thread>>

Thread == Disconnected \/ Spawn \/ CancelledOrLate \/ OutputRead \/ ExitSeen \/ Store

Init ==
    /\ generation = 1
    /\ wanted \in Backends
    /\ discovery = [backend |-> "none", pending |-> Nothing, result |-> NoResult]
    /\ slot = NoResult
    /\ thread = Waiting
    /\ child = Gone

Next == Poll \/ Retry \/ Select \/ Drop \/ Thread \/ Command

Spec == Init /\ [][Next]_vars

\* Frames go on until the application is dropped; the thread is scheduled, and
\* its clock ends a command that neither answers nor exits.
LiveSpec ==
    /\ Spec
    /\ WF_vars(Poll)
    /\ WF_vars(Thread)

-----------------------------------------------------------------------------
\* Devices are shown for the backend they were listed from, and only as the
\* answer to the latest request, whatever older command answers late (poll).
ShownCurrent ==
    discovery.result.kind # "none" =>
        discovery.result.of.backend = discovery.backend

\* When the thread has finished with a command nothing of its process group is
\* left running, neither after a success nor after a cancellation.
NoStrayProcess ==
    thread.pc \in {"recv", "spawn", "store", "ended"} =>
        child.leader = "reaped" /\ ~child.descendants

\* A request waits for its answer, or a dropped application for its thread.
Unanswered ==
    IF generation = 0
    THEN thread.pc # "ended"
    ELSE discovery.backend # "none" /\ discovery.result.kind = "none"

\* Every request is answered in the end, unless the application is dropped, and
\* then the join of the thread returns.
DiscoveryAnswered ==
    []<>(~ Unanswered)
=============================================================================
