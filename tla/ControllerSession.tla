-------------------------- MODULE ControllerSession --------------------------
(***************************************************************************)
(* ControllerSession of the curated controllers with its three backends,    *)
(* and LiveTopology, the live shape of a controller on top of it.           *)
(*                                                                          *)
(* The HID runtime is reduced to what the session sees of it: the edited    *)
(* state, the installed protocol, the report that waits for the transport   *)
(* and the observations (HidRuntime is the detailed model); the native      *)
(* runtime likewise (NativeSession).  The worker bridge and the host are    *)
(* nondeterministic.  A controller state gives every control 0 (neutral)    *)
(* or 1, a protocol is the set of controls it can encode.                   *)
(***************************************************************************)
EXTENDS Integers, Sequences, FiniteSets

CONSTANTS
    Controls,       \* the controls of the maximum topology
    Topologies,     \* the shapes a controller may ask for; one is no subset
    MaxGeneration,  \* u64::MAX in the code
    Observations,   \* 32 in the code: the session's buffer and a worker drain
    MaxEvents       \* bound: observations the hosts may still cause

VARIABLES
    backend,    \* "native", "hid" or "worker"
    rt,         \* state, dirty, closed; HID also protocol and queued
    live,       \* LiveTopology: current, generation, native (its protocol)
    bridge,     \* the worker side: failed, closes, outputs, lost
    session,    \* ControllerSession: observations, dropped
    shown,      \* the input the host or the worker has taken last
    events,     \* observations that may still occur
    owed,       \* history: observations neither delivered, held nor counted
    shapes,     \* history: shape changes reported to the caller
    committed   \* history: the last call was a commit that returned Ok

vars == <<backend, rt, live, bridge, session, shown, events, owed, shapes, committed>>

HidStates == [Controls -> 0..1]
NeutralHid == [c \in Controls |-> 0]
NoInput == <<>>

\* Protocol::validate: a protocol encodes only the controls it has.
Valid(protocol, s) == \A c \in Controls : s[c] # 0 => c \in protocol

Init ==
    /\ backend \in {"native", "hid", "worker"}
    /\ rt = [state |-> NeutralHid, dirty |-> TRUE, closed |-> FALSE,
             protocol |-> {}, queued |-> NoInput]
    /\ live = [current |-> {}, generation |-> 0, native |-> {}]
    /\ bridge = [failed |-> FALSE, closes |-> 0, outputs |-> 0, lost |-> 0]
    /\ session = [observations |-> 0, dropped |-> 0]
    /\ shown = NoInput
    /\ events = MaxEvents
    /\ owed = 0 /\ shapes = 0 /\ committed = FALSE

IsDirty == rt.dirty \/ rt.queued # NoInput

(***************************************************************************)
(* Edits and shape changes                                                  *)
(***************************************************************************)

\* ControllerSession::update_state and apply_digital: the candidate replaces the
\* state when the driver and, over HID, the runtime's protocol accept it.
UpdateState(next) ==
    /\ ~rt.closed
    /\ backend = "hid" => Valid(rt.protocol, next)
    /\ rt' = [rt EXCEPT !.state = next, !.dirty = TRUE]
    /\ committed' = FALSE
    /\ UNCHANGED <<backend, live, bridge, session, shown, events, owed, shapes>>

\* Where a control may occur in a topology.
Contains(topology, c) == c \in topology

\* LiveTopology::edit: a control must be present, and over a native backend the
\* protocol that the topology keeps must accept the edited state.
Edit(c, v) ==
    LET next == [rt.state EXCEPT ![c] = v]
    IN /\ Contains(live.current, c)
       /\ backend = "native" => Valid(live.native, next)
       /\ UpdateState(next)

\* ControllerSession::neutralize.
Neutralize == UpdateState(NeutralHid)

Subset(next) == next \subseteq Controls

\* The generation after a change to next, or a number past the last one.
Generation(next) == IF next = live.current THEN live.generation ELSE live.generation + 1

\* Mutant: the edited state is checked against the old protocol only.
FaultyStaged(old, new, s) == Valid(old, s)

\* Both kinds of update_configuration validate the edited state against the old and the new protocol before either is installed.
Staged(old, new, s) == Valid(old, s) /\ Valid(new, s)

\* update_configuration: state and protocol are replaced together in the runtime.
UpdateConfiguration(next, s) ==
    /\ backend = "hid" /\ Staged(rt.protocol, next, s)
    /\ rt' = [rt EXCEPT !.state = s, !.dirty = TRUE, !.protocol = next]

\* update_native_configuration: the protocol is the one the topology keeps.
UpdateNativeConfiguration(next, s) ==
    /\ backend = "native" /\ Staged(live.native, next, s)
    /\ rt' = [rt EXCEPT !.state = s, !.dirty = TRUE]

\* LiveTopology::change.  The caller's neutralize_removed clears the controls in
\* removed, which may be fewer than those that vanish, and edit_protocol installs
\* a protocol for the controls of next; where one of them fails nothing changes.
\* The worker has no protocol to reconfigure.
Change(next, removed) ==
    LET s == [c \in Controls |-> IF c \in removed THEN 0 ELSE rt.state[c]]
    IN /\ ~rt.closed
       /\ Subset(next)
       /\ Generation(next) <= MaxGeneration
       /\ UpdateConfiguration(next, s) \/ UpdateNativeConfiguration(next, s)
       /\ live' = [current |-> next, generation |-> Generation(next),
                   native |-> IF backend = "native" THEN next ELSE live.native]
       /\ shapes' = IF next = live.current THEN shapes ELSE shapes + 1
       /\ committed' = FALSE
       /\ UNCHANGED <<backend, bridge, session, shown, events, owed>>

(***************************************************************************)
(* The HID backend                                                          *)
(***************************************************************************)

\* One Runtime::service: a STOP of the host may cancel what is queued, n
\* observations are made, the queued report and then the current state are
\* submitted as far as the transport goes along ("all", "one", "none"), and the
\* call ends well, with a retryable error, or with the end of the runtime.
Serviced(stop, n, flow, end) ==
    LET queued == IF stop THEN NoInput ELSE rt.queued
        dirty == rt.dirty \/ stop
        fresh == <<rt.state>>
        passed == flow # "none" \/ queued = NoInput
        generates == dirty /\ passed /\ end = "ok"
        out == CASE flow = "none" -> NoInput
                 [] flow = "one" -> IF queued # NoInput THEN queued
                                    ELSE IF generates THEN fresh ELSE NoInput
                 [] flow = "all" -> IF generates THEN fresh ELSE queued
        waits == flow = "none" \/ (flow = "one" /\ queued # NoInput)
        left == IF ~passed THEN queued
                ELSE IF generates /\ waits THEN fresh ELSE NoInput
    IN [shown |-> IF out = NoInput THEN shown ELSE out,
        rt |-> [rt EXCEPT !.queued = IF end = "fatal" THEN NoInput ELSE left,
                          !.dirty = dirty /\ ~generates,
                          !.closed = (end = "fatal")]]

\* service_hid buffers what the runtime returned, or had kept when it failed;
\* the oldest are pushed out and counted.
Buffered(n) ==
    LET total == session.observations + n
        kept == IF total > Observations THEN Observations ELSE total
    IN [observations |-> kept, dropped |-> session.dropped + (total - kept)]

Ends == {"ok", "retry", "fatal"}
Flows == {"all", "one", "none"}

\* ControllerSession::commit of the HID backend: one service call; what is still
\* dirty or queued afterwards is reported as queued and retryable.
CommitHid(stop, n, flow, end) ==
    LET r == Serviced(stop, n, flow, end)
    IN /\ backend = "hid" /\ ~rt.closed /\ n <= events
       /\ rt' = r.rt /\ shown' = r.shown
       /\ session' = Buffered(n)
       /\ events' = events - n /\ owed' = owed + n
       /\ committed' = (end = "ok" /\ ~(r.rt.dirty \/ r.rt.queued # NoInput))
       /\ UNCHANGED <<backend, live, bridge, shapes>>

\* ControllerSession::drain of the HID backend: the same service call, and
\* everything buffered goes to the callback whether it failed or not.
DrainHid(stop, n, flow, end) ==
    LET r == Serviced(stop, n, flow, end)
    IN /\ backend = "hid" /\ ~rt.closed /\ n <= events
       /\ rt' = r.rt /\ shown' = r.shown
       /\ session' = [Buffered(n) EXCEPT !.observations = 0]
       /\ events' = events - n
       /\ owed' = owed + n - Buffered(n).observations
       /\ committed' = FALSE
       /\ UNCHANGED <<backend, live, bridge, shapes>>

(***************************************************************************)
(* The worker backend                                                       *)
(***************************************************************************)

BridgeClosed == [bridge EXCEPT !.closes = @ + 1]

\* bridge.update applied the state, refused it, or the worker failed.
AfterUpdate(end) == [rt EXCEPT !.dirty = (end # "applied"), !.closed = (end = "failed")]

CommitWorker(end) ==
    /\ backend = "worker" /\ ~rt.closed
    /\ IF rt.dirty
       THEN /\ rt' = AfterUpdate(end)
            /\ shown' = IF end = "applied" THEN <<rt.state>> ELSE shown
            /\ bridge' = IF end = "failed"
                         THEN [BridgeClosed EXCEPT !.failed = TRUE] ELSE bridge
            /\ committed' = (end = "applied")
       ELSE end = "applied" /\ committed' = TRUE /\ UNCHANGED <<rt, shown, bridge>>
    /\ UNCHANGED <<backend, live, session, events, owed, shapes>>

\* The worker's host writes an output; the worker keeps a bounded number.
WorkerOutput ==
    /\ backend = "worker" /\ ~bridge.failed /\ events > 0
    /\ events' = events - 1
    /\ bridge' = IF bridge.outputs = Observations
                 THEN [bridge EXCEPT !.lost = @ + 1]
                 ELSE [bridge EXCEPT !.outputs = @ + 1]
    /\ owed' = owed + 1
    /\ UNCHANGED <<backend, rt, live, session, shown, shapes, committed>>

\* ControllerSession::drain of the worker backend: n outputs of at most 32, and
\* the first error ends the session.
DrainWorker(n, fails) ==
    /\ backend = "worker" /\ ~rt.closed
    /\ n <= bridge.outputs
    /\ fails \/ n = bridge.outputs
    /\ rt' = [rt EXCEPT !.closed = fails]
    /\ bridge' = [(IF fails THEN BridgeClosed ELSE bridge) EXCEPT !.outputs = @ - n]
    /\ owed' = owed - n
    /\ committed' = FALSE
    /\ UNCHANGED <<backend, live, session, shown, events, shapes>>

(***************************************************************************)
(* The native backend and close                                             *)
(***************************************************************************)

\* ControllerRuntime::commit: a refused frame stays dirty.
CommitNative(end) ==
    /\ backend = "native" /\ ~rt.closed
    /\ IF rt.dirty
       THEN /\ rt' = [rt EXCEPT !.dirty = (end # "applied")]
            /\ shown' = IF end = "applied" THEN <<rt.state>> ELSE shown
            /\ committed' = (end = "applied")
       ELSE end = "applied" /\ committed' = TRUE /\ UNCHANGED <<rt, shown>>
    /\ UNCHANGED <<backend, live, bridge, session, events, owed, shapes>>

\* ControllerSession::drain over uinput: feedback events pass through the
\* session's buffer to the callback; an error of the provider closes.
DrainNative(n, fails) ==
    /\ backend = "native" /\ ~rt.closed /\ n <= events
    /\ events' = events - n
    /\ session' = [Buffered(n) EXCEPT !.observations = 0]
    /\ owed' = owed + n - Buffered(n).observations
    /\ rt' = [rt EXCEPT !.closed = fails]
    /\ committed' = FALSE
    /\ UNCHANGED <<backend, live, bridge, shown, shapes>>

Close ==
    /\ rt' = [rt EXCEPT !.closed = TRUE, !.queued = NoInput]
    /\ bridge' = IF backend = "worker" /\ ~rt.closed THEN BridgeClosed ELSE bridge
    /\ committed' = FALSE
    /\ UNCHANGED <<backend, live, session, shown, events, owed, shapes>>

Next ==
    \/ \E c \in Controls, v \in 0..1 : Edit(c, v)
    \/ Neutralize
    \/ \E next \in Topologies, removed \in SUBSET Controls : Change(next, removed)
    \/ \E stop \in BOOLEAN, n \in 0..2, flow \in Flows, end \in Ends :
          CommitHid(stop, n, flow, end) \/ DrainHid(stop, n, flow, end)
    \/ \E end \in {"applied", "refused", "failed"} : CommitWorker(end)
    \/ \E end \in {"applied", "refused"} : CommitNative(end)
    \/ WorkerOutput
    \/ \E n \in 0..Observations, fails \in BOOLEAN : DrainWorker(n, fails)
    \/ \E n \in 0..2, fails \in BOOLEAN : DrainNative(n, fails)
    \/ Close

Spec == Init /\ [][Next]_vars

(***************************************************************************)
(* Properties                                                               *)
(***************************************************************************)

\* A commit that returned Ok means the host or the worker has the state as the
\* application last edited it, whatever was queued, refused, stopped or failed
\* before; and an open session that is not dirty has nothing left to send.  A
\* worker is closed exactly once, on the path that found it failed, by close()
\* or by a failing drain.
CommitTruthful ==
    /\ committed => shown = <<rt.state>>
    /\ ~rt.closed /\ ~IsDirty => shown = <<rt.state>>
    /\ backend = "worker" => bridge.closes = IF rt.closed THEN 1 ELSE 0

\* The live shape, the installed protocol and the state agree: a control that
\* is absent is neutral and cannot be encoded, the generation counts exactly
\* the shape changes the caller was told of, and a refused change, also at the
\* end of the counter, changes none of them.
ShapeAgreed ==
    /\ backend = "hid" => rt.protocol = live.current
    /\ backend = "native" => live.native = live.current
    /\ \A c \in Controls \ live.current : rt.state[c] = 0
    /\ live.generation = shapes /\ shapes <= MaxGeneration

\* ControllerSession::dropped_observations.
DroppedObservations == session.dropped + (IF backend = "worker" THEN bridge.lost ELSE 0)

\* Every observation reaches the callback, is held, or is counted as dropped,
\* through the session's own buffer and the worker's, also when the service
\* call that brought it failed.
ObservationsConserved ==
    /\ owed = session.observations + bridge.outputs + DroppedObservations
    /\ session.observations <= Observations

=============================================================================
