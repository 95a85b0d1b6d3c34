----------------------------- MODULE DemoWorker -----------------------------
(***************************************************************************)
(* The demo application (demo/src/gui.rs): one user-interface thread that  *)
(* runs frames for ever, and one service worker thread per controller.     *)
(* They share, per controller, a one-slot edit channel, a stop channel, a  *)
(* one-slot failure channel and a display record behind a lock that both   *)
(* sides only ever try to take.                                            *)
(*                                                                         *)
(* A frame is not atomic: it polls the controllers one by one, draws       *)
(* (which is where the user acts and edits are submitted), then performs   *)
(* at most one lifecycle action, which may block on the join of a worker.  *)
(* Workers run between any two of these steps.                             *)
(*                                                                         *)
(* Edits are counted: batch number n of a controller brings its state to   *)
(* n, so a state is the number of batches it contains.                     *)
(***************************************************************************)
EXTENDS Naturals, Sequences, SequencesExt

CONSTANTS
    Features,       \* the audio features the demo was built with
    EagerIds,       \* the controllers, by id, whose editor changes the view as it queues: Wii and Steam
    MaxCreated,     \* bound: controllers the user ever creates
    MaxListed,      \* bound: controllers listed at once
    MaxEdits        \* bound: edit batches submitted to one controller

VARIABLES
    controllers,    \* App.controllers, a sequence of NamedController
    selected,       \* App.selected_controller, 0 for None
    created,        \* App.next_controller_id: how many were created
    worker,         \* the service worker thread and channels of every id
    frame           \* where the interface thread is, and update's locals

vars == <<controllers, selected, created, worker, frame>>

Ids == 1 .. MaxCreated

NoFailure == [at |-> 0, cause |-> "none"]
Idle == [pc |-> "poll", k |-> 1, failed |-> NoFailure, remove |-> 0, recreate |-> 0,
         stop_all |-> FALSE, join |-> {}, index |-> 0, then |-> "frame"]

Listed == {controllers[i].id : i \in DOMAIN controllers}

NoDisplay == [applied |-> 0, snapshot |-> FALSE, state |-> 0]
NoWorker == [pc |-> "none", open |-> FALSE, edits |-> <<>>,
             stop |-> FALSE, failure |-> "none", applied |-> 0, state |-> 0,
             display |-> NoDisplay]

\* The channels and the display of a joined worker are gone with it.
Dropped(ids) ==
    [id \in Ids |-> IF id \in ids THEN [NoWorker EXCEPT !.pc = "exited"] ELSE worker[id]]

-----------------------------------------------------------------------------
(* EditProgress: which batch the interface has submitted, and which one the *)
(* view it shows contains.                                                  *)

Ready(named) == named.applied = named.submitted

FaultyObserve(named, applied) == TRUE

Observe(named, applied) == applied = named.submitted

\* The batch that is sent: only while none is outstanding, only into a free slot
\* of a channel whose worker still holds the receiver.
Submitted(named, w) ==
    IF ~Ready(named) THEN "pending"
    ELSE IF w.pc \in {"exited", "panicked"} \/ w.edits # <<>> THEN "unavailable"
    ELSE "sent"

\* selection_after_removal: the selection follows the controller it was on.
FaultySelectionAfterRemoval(remaining, removed, at) ==
    IF remaining = 0 \/ at = 0 THEN 0
    ELSE IF at = removed THEN IF removed > remaining THEN remaining ELSE removed
    ELSE at

SelectionAfterRemoval(remaining, removed, at) ==
    IF remaining = 0 \/ at = 0 THEN 0
    ELSE IF at = removed THEN IF removed > remaining THEN remaining ELSE removed
    ELSE IF at > removed THEN at - 1
    ELSE at

\* worker_failure: a queued message, or a channel whose sender is gone.
WorkerFailure(w) ==
    IF w.failure # "none" THEN w.failure
    ELSE IF w.pc \in {"exited", "panicked"} THEN "exited unexpectedly"
    ELSE "none"

\* lifecycle_action: stop_all first, then a failure, a removal, a recreation,
\* each only for an index that is still listed.
LifecycleAction(f) ==
    LET count == Len(controllers)
        in(i) == i \in 1 .. count
    IN IF f.stop_all THEN "stop_all"
       ELSE IF in(f.failed.at) THEN "failed"
       ELSE IF in(f.remove) THEN "remove"
       ELSE IF in(f.recreate) THEN "recreate"
       ELSE "none"

-----------------------------------------------------------------------------
(* The interface thread.                                                    *)

\* update's first loop, one controller: a failure ends the loop; otherwise the
\* display is read if its lock is free, and its snapshot replaces the view only
\* when it contains every batch submitted so far.
Poll ==
    /\ frame.pc = "poll"
    /\ IF frame.k > Len(controllers)
       THEN /\ frame' = [frame EXCEPT !.pc = "draw"]
            /\ UNCHANGED <<controllers, worker>>
       ELSE LET named == controllers[frame.k]
                w == worker[named.id]
                cause == WorkerFailure(w)
            IN IF cause # "none"
               THEN /\ frame' = [frame EXCEPT !.pc = "draw",
                                   !.failed = [at |-> frame.k, cause |-> cause]]
                    /\ worker' = [worker EXCEPT ![named.id].failure = "none"]
                    /\ UNCHANGED controllers
               ELSE \E locked \in BOOLEAN :
                    LET taken == locked /\ w.display.snapshot
                                        /\ Observe(named, w.display.applied)
                    IN /\ frame' = [frame EXCEPT !.k = @ + 1]
                       /\ controllers' = IF taken
                            THEN [controllers EXCEPT
                                    ![frame.k].applied = w.display.applied,
                                    ![frame.k].view = w.display.state]
                            ELSE controllers
                       /\ worker' = IF taken
                            THEN [worker EXCEPT ![named.id].display.snapshot = FALSE]
                            ELSE worker
    /\ UNCHANGED <<selected, created>>

\* create_one: the device is opened, its worker started, and it is selected.
CreateOne(list, workers) ==
    /\ created < MaxCreated
    /\ created' = created + 1
    /\ worker' = [workers EXCEPT ![created + 1] = [NoWorker EXCEPT !.pc = "wait", !.open = TRUE]]
    /\ controllers' = Append(list,
            [id |-> created + 1, view |-> 0, submitted |-> 0, applied |-> 0])
    /\ selected' = Len(list) + 1

ToLifecycle(f) == frame' = [f EXCEPT !.pc = "lifecycle"]

\* The sidebar. create: a new controller, unless the device cannot be opened.
Create ==
    /\ frame.pc = "draw"
    /\ Len(controllers) < MaxListed
    /\ CreateOne(controllers, worker)
    /\ ToLifecycle(frame)

\* A row of the controller list: selected, or its delete button clicked.
ControllerRow ==
    /\ frame.pc = "draw"
    /\ \E i \in DOMAIN controllers :
          \/ selected' = i /\ ToLifecycle(frame)
          \/ UNCHANGED selected /\ ToLifecycle([frame EXCEPT !.remove = i])
    /\ UNCHANGED <<controllers, created, worker>>

\* The stop all button.
StopAll ==
    /\ frame.pc = "draw"
    /\ controllers # <<>>
    /\ ToLifecycle([frame EXCEPT !.stop_all = TRUE])
    /\ UNCHANGED <<controllers, selected, created, worker>>

\* The live panel of the selected controller: its recreate button.
Recreate ==
    /\ frame.pc = "draw"
    /\ selected \in DOMAIN controllers
    /\ ToLifecycle([frame EXCEPT !.recreate = selected])
    /\ UNCHANGED <<controllers, selected, created, worker>>

\* Its inputs: an edit is submitted as a batch. The Wii editor draws it at once,
\* the others show it with the next snapshot. A batch that cannot be sent fails the
\* controller, whatever the poll had found before.
Edit ==
    /\ frame.pc = "draw"
    /\ selected \in DOMAIN controllers
    /\ LET named == controllers[selected]
           w == worker[named.id]
           outcome == Submitted(named, w)
       IN /\ Ready(named)
          /\ named.submitted < MaxEdits
          /\ controllers' = [controllers EXCEPT
                 ![selected].view = IF named.id \in EagerIds THEN @ + 1 ELSE @,
                 ![selected].submitted = IF outcome = "sent" THEN @ + 1 ELSE @]
          /\ worker' = IF outcome = "sent"
               THEN [worker EXCEPT ![named.id].edits =
                       <<[sequence |-> named.submitted + 1, state |-> named.submitted + 1]>>]
               ELSE worker
          /\ ToLifecycle(IF outcome = "sent" THEN frame
                         ELSE [frame EXCEPT !.failed = [at |-> selected, cause |-> outcome]])
    /\ UNCHANGED <<selected, created>>

\* A frame in which the user does nothing, or in which a creation or an audio
\* action was refused.
QuietFrame ==
    /\ frame.pc = "draw"
    /\ ToLifecycle(frame)
    /\ UNCHANGED <<controllers, selected, created, worker>>

\* remove_controller, first half: the entry leaves the list, its worker is told
\* to stop and the interface blocks on its join.
RemoveController(i, then, workers) ==
    LET id == controllers[i].id
        left == RemoveAt(controllers, i)
    IN /\ controllers' = left
       /\ worker' = [workers EXCEPT ![id].stop = TRUE]
       /\ selected' = SelectionAfterRemoval(Len(left), i, selected)
       /\ frame' = [frame EXCEPT !.pc = "join", !.join = {id}, !.then = then]

\* The creation panel as the user left it; evidence is that of the Wii revision.
CreationChoices == [enabled : BOOLEAN, target : {"uinput", "uhid", "usbip"}, native : BOOLEAN,
            has_audio : BOOLEAN, compiled : BOOLEAN, wii : BOOLEAN, evidence : BOOLEAN]

BackendAvailable(target) ==
    \/ target = "uhid" /\ "audio-pipewire" \in Features
    \/ target = "usbip" /\ "audio-usbip" \in Features

\* CreationAudio::options: a choice of target and audio that cannot be created.
OptionsRefused(c) ==
    \/ c.enabled /\ (~c.has_audio \/ ~BackendAvailable(c.target) \/ ~c.compiled)
    \/ c.target = "usbip" /\ ~c.enabled
    \/ c.enabled /\ c.target = "usbip" /\ c.native /\ "audio-pipewire" \notin Features

ValidateWiiRecreation(c) == c.wii => c.evidence

\* A recreation whose options are refused leaves the original open.
RecreationAccepted(c) == ~OptionsRefused(c) /\ ValidateWiiRecreation(c)

\* The end of update: the one lifecycle action of the frame.
Lifecycle ==
    /\ frame.pc = "lifecycle"
    /\ LET action == LifecycleAction(frame)
       IN \/ /\ action = "stop_all"
             /\ RemoveController(Len(controllers), "stop_all", worker)
          \/ /\ action = "failed"
             /\ RemoveController(frame.failed.at, "frame", worker)
          \/ /\ action = "remove"
             /\ RemoveController(frame.remove, "frame", worker)
          \/ /\ action = "recreate"
             /\ \E c \in CreationChoices : RecreationAccepted(c)
             /\ RemoveController(frame.recreate, "create", worker)
          \/ /\ action = "none"
             /\ frame' = Idle
             /\ UNCHANGED <<controllers, selected, worker>>
          \/ /\ action = "recreate"
             /\ \E c \in CreationChoices : ~RecreationAccepted(c)
             /\ frame' = Idle
             /\ UNCHANGED <<controllers, selected, worker>>
    /\ UNCHANGED created

\* The join returns: the worker has closed its controller. Stop all removes the
\* next one, a recreation opens its successor (or fails to), otherwise the frame
\* is over.
Joined ==
    /\ frame.pc = "join"
    /\ \A id \in frame.join : worker[id].pc \in {"exited", "panicked"}
    /\ LET dropped == Dropped(frame.join)
       IN \/ /\ frame.then = "stop_all"
             /\ controllers # <<>>
             /\ RemoveController(Len(controllers), "stop_all", dropped)
             /\ UNCHANGED created
          \/ /\ frame.then = "create"
             /\ CreateOne(controllers, dropped)
             /\ frame' = Idle
          \/ /\ frame.then = "stop_all" => controllers = <<>>
             /\ frame' = Idle
             /\ worker' = dropped
             /\ UNCHANGED <<controllers, selected, created>>

\* Drop for App: the window is closed between two frames; the workers are
\* stopped and joined in list order.
Quit ==
    /\ frame.pc = "poll"
    /\ frame.k = 1
    /\ frame' = [Idle EXCEPT !.pc = "quit"]
    /\ UNCHANGED <<controllers, selected, created, worker>>

DropWorkers ==
    /\ frame.pc = "quit"
    /\ \A id \in frame.join : worker[id].pc \in {"exited", "panicked"}
    /\ \/ /\ frame.k <= Len(controllers)
          /\ LET id == controllers[frame.k].id
             IN /\ worker' = [worker EXCEPT ![id].stop = TRUE]
                /\ frame' = [frame EXCEPT !.k = @ + 1, !.join = {id}]
          /\ UNCHANGED controllers
       \/ /\ frame.k > Len(controllers)
          /\ frame' = [Idle EXCEPT !.pc = "gone"]
          /\ controllers' = <<>>
          /\ UNCHANGED worker
    /\ UNCHANGED <<selected, created>>

-----------------------------------------------------------------------------
(* The service worker thread of one controller.                             *)

\* recv_timeout on the stop channel comes first in every iteration.
Stopped(id) ==
    /\ worker[id].pc = "wait"
    /\ worker[id].stop
    /\ worker' = [worker EXCEPT ![id].pc = "close"]

\* What a service cycle leaves of the worker: at most one batch is applied, the
\* controller is serviced, at most one audio action is performed. Any of them may
\* fail, and ends the cycle there.
Cycles(w) ==
    LET served == IF w.edits = <<>> THEN w
                  ELSE [w EXCEPT !.edits = <<>>, !.state = w.edits[1].state,
                                 !.applied = w.edits[1].sequence]
    IN {served, [served EXCEPT !.failure = "service failed"]} \cup
       (IF w.edits = <<>> THEN {} ELSE {[w EXCEPT !.edits = <<>>, !.failure = "edit failed"]})

\* The display is published if its lock is free: the snapshot together with the
\* number of the batch it contains.
Published(w, locked) ==
    IF locked THEN [w EXCEPT !.display = [applied |-> w.applied, snapshot |-> TRUE,
                                          state |-> w.state]]
    ELSE w

\* One iteration of the worker's loop. A failure is reported and ends the loop.
Cycle(id) ==
    /\ worker[id].pc = "wait"
    /\ ~worker[id].stop
    /\ \E w \in Cycles(worker[id]), locked \in BOOLEAN :
        worker' = [worker EXCEPT ![id] = [Published(w, locked) EXCEPT
            !.pc = IF w.failure = "none" THEN "wait" ELSE "close"]]

\* Stop or failure closes the controller and ends the thread.
Close(id) ==
    /\ worker[id].pc = "close"
    /\ worker' = [worker EXCEPT ![id].pc = "exited", ![id].open = FALSE]

\* A panic unwinds the thread; the controller is dropped without being returned.
Panic(id) ==
    /\ worker[id].pc = "wait"
    /\ worker' = [worker EXCEPT ![id].pc = "panicked", ![id].open = FALSE]

Worker(id) ==
    /\ Stopped(id) \/ Cycle(id) \/ Close(id)
    /\ UNCHANGED <<controllers, selected, created, frame>>

Fault(id) ==
    /\ Panic(id)
    /\ UNCHANGED <<controllers, selected, created, frame>>

-----------------------------------------------------------------------------
Init ==
    /\ controllers = <<>>
    /\ selected = 0
    /\ created = 0
    /\ worker = [id \in Ids |-> NoWorker]
    /\ frame = Idle

User == Create \/ ControllerRow \/ StopAll \/ Recreate \/ Edit

Interface == Poll \/ QuietFrame \/ Lifecycle \/ Joined \/ DropWorkers

Next ==
    \/ User
    \/ Interface
    \/ Quit
    \/ \E id \in Ids : Worker(id) \/ Fault(id)

Spec == Init /\ [][Next]_vars

\* The window is repainted for ever (request_repaint_after) and the worker
\* threads are scheduled; the user owes nothing.
LiveSpec ==
    /\ Spec
    /\ WF_vars(Interface)
    /\ \A id \in Ids : WF_vars(Worker(id))

-----------------------------------------------------------------------------
TypeOK ==
    /\ \A i \in DOMAIN controllers : /\ controllers[i].id \in Ids
                                     /\ controllers[i].submitted \in 0 .. MaxEdits
    /\ selected \in 0 .. Len(controllers) \/ frame.pc = "gone"
    /\ created \in 0 .. MaxCreated

\* No snapshot undoes what the user entered: a controller that accepts edits, and
\* a Wii Remote at any time, shows every batch that was submitted for it, although
\* snapshots are published by another thread at any time (EditProgress, gui.rs).
ViewCurrent ==
    \A i \in DOMAIN controllers :
        /\ frame.failed.at # i
        /\ Ready(controllers[i]) \/ controllers[i].id \in EagerIds
        => controllers[i].view = controllers[i].submitted

\* A controller the user no longer sees holds nothing on the host: its device is
\* closed, except while the interface waits for that very worker (remove_controller
\* and Drop for App join before they go on).
DevicesOwned ==
    \A id \in Ids : worker[id].open => id \in Listed \cup frame.join

\* Removing one controller, for whatever reason and at whatever index, leaves the
\* selection on the controller it was on.
SelectionStays ==
    LET id == controllers[selected].id
        still == {controllers'[i].id : i \in DOMAIN controllers'}
    IN Len(controllers') < Len(controllers) /\ selected \in DOMAIN controllers
           /\ id \in still
       => selected' \in DOMAIN controllers' /\ controllers'[selected'].id = id

\* See SelectionStays.
SelectionKept == [][SelectionStays]_vars

\* A controller is listed whose worker has ended by itself.
Deserted(id) == id \in Listed /\ worker[id].pc \in {"exited", "panicked"}

\* A worker that ended by itself is found out and its controller leaves the list,
\* also when another failure of the same frame took its message's place.
FailureSurfaced ==
    \A id \in Ids : []<>(~ Deserted(id))
=============================================================================
