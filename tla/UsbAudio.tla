------------------------------ MODULE UsbAudio ------------------------------
(* Ownership of a USB audio session in the application's process             *)
(* (gr-root-audio/src/usb_audio.rs, usb_audio_bridge.rs and gr-audio-worker/  *)
(* src/client_pcm.rs, client.rs): creation with its rollback, failures met by *)
(* the application, the bridge, the poller and the client pump, and the close *)
(* that has to undo all of it. The sample flow is UsbBridge's subject.        *)
(* An error is the set of causes its text names.                              *)
EXTENDS Integers, FiniteSets

CONSTANTS MaxFaults   \* bound: failures of one behaviour

VARIABLES app,     \* the application's call: pc, native access, opening error,
                   \* the worker's answer to the close under way
          ctl,     \* Control under its mutex: closed, owner of the lock
          wk,      \* external: the worker process
          chan,    \* the two PCM channels of the client
          pump,    \* controller-audio-client: state, failure, stop flag
          br,      \* usb-audio-pipewire-bridge: pc, result, stop flag, error
          pol,     \* host clock poller: pc, poll_error, poll_stop
          start,   \* startup sync_channel(1): content, receiver alive
          pcm,     \* Pcm: created, closed, OnceLock error, cleanup_error
          ses,     \* Session<S>: retained state and last_error, broker client
          fault    \* failures so far

vars == <<app, ctl, wk, chan, pump, br, pol, start, pcm, ses, fault>>

Init ==
    /\ \E native \in BOOLEAN :
         app = [pc |-> "open", native |-> native, error |-> {}, worker |-> {}, inner |-> FALSE]
    /\ ctl = [closed |-> FALSE, owner |-> "none"]
    /\ wk = "none"
    /\ chan = "none"
    /\ pump = [pc |-> "off", stop |-> FALSE, failure |-> {}]
    /\ br = [pc |-> "off", stop |-> FALSE, result |-> {}, error |-> {}]
    /\ pol = [pc |-> "off", stop |-> FALSE, error |-> {}]
    /\ start = [content |-> "empty", alive |-> FALSE]
    /\ pcm = [made |-> FALSE, closed |-> FALSE, error |-> {}, cleanup |-> {}]
    /\ ses = [state |-> "none", error |-> {}, broker |-> "none"]
    /\ fault = 0

MayFail == fault < MaxFaults
Fault == fault' = fault + 1

---------------------------------------------------------------------------
(* Control (client.rs): every failed exchange shuts the socket down.         *)

\* An exchange under the lock: Ok while the worker serves; a dead worker, or an
\* answer that does not come in two seconds, is terminal.
Exchange(ok) ==
    /\ ~ctl.closed
    /\ \/ ok /\ wk = "serving" /\ UNCHANGED fault
       \/ ~ok /\ wk # "serving" /\ UNCHANGED fault
       \/ ~ok /\ wk = "serving" /\ MayFail /\ Fault
    /\ ctl' = [ctl EXCEPT !.closed = ~ok]

\* Control::close: nothing to do once closed; otherwise the acknowledgement.
ControlClose(ok) ==
    /\ ctl' = [ctl EXCEPT !.closed = TRUE]
    /\ \/ ctl.closed /\ ok /\ UNCHANGED <<wk, fault>>
       \/ ~ctl.closed /\ ok /\ wk = "serving" /\ wk' = "acked" /\ UNCHANGED fault
       \/ ~ctl.closed /\ ~ok /\ wk # "serving" /\ UNCHANGED <<wk, fault>>
       \/ ~ctl.closed /\ ~ok /\ wk = "serving" /\ MayFail /\ Fault /\ UNCHANGED wk

---------------------------------------------------------------------------
(* open(): broker client, sound card, control probe, streams, bridge.        *)

ClientOpen ==
    /\ app.pc = "open"
    /\ \/ /\ app' = [app EXCEPT !.pc = "card"]
          /\ ses' = [ses EXCEPT !.broker = "open"]
          /\ wk' = "serving" /\ chan' = "held" /\ UNCHANGED fault
       \/ /\ MayFail /\ Fault
          /\ app' = [app EXCEPT !.pc = "failed", !.error = {"broker"}]
          /\ UNCHANGED <<ses, wk, chan>>
    /\ UNCHANGED <<ctl, pump, br, pol, start, pcm>>

\* sound_card_id: the one card below the broker's VHCI device; a device that is
\* not ours or two cards are errors, no card yet is NotFound.
SoundCard == {"found", "missing", "foreign", "ambiguous"}

\* A missing card is retried for two seconds, every other answer is final.
CardFound ==
    /\ app.pc = "card"
    /\ \E card \in SoundCard :
         \/ card = "found" /\ app' = [app EXCEPT !.pc = "probe"] /\ UNCHANGED fault
         \/ card # "found" /\ MayFail /\ Fault
            /\ app' = [app EXCEPT !.pc = "rollback", !.error = {"card"}]
    /\ UNCHANGED <<ctl, wk, chan, pump, br, pol, start, pcm, ses>>

\* Control::new and the first microphone_host_frames.
Probe ==
    /\ app.pc = "probe"
    /\ \E ok \in BOOLEAN :
         /\ Exchange(ok)
         /\ app' = IF ok THEN [app EXCEPT !.pc = "streams"]
                   ELSE [app EXCEPT !.pc = "rollback", !.error = {"worker"}]
    /\ UNCHANGED <<wk, chan, pump, br, pol, start, pcm, ses>>

\* SampleStreams::new spawns the pump; Bridge::start the bridge when a stream is
\* native (mirror_profile), else Pcm is complete at once.
StreamsNew ==
    /\ app.pc = "streams"
    /\ pump' = [pump EXCEPT !.pc = "run"]
    /\ IF app.native
       THEN /\ br' = [br EXCEPT !.pc = "opening"]
            /\ start' = [start EXCEPT !.alive = TRUE]
            /\ app' = [app EXCEPT !.pc = "startup"]
            /\ UNCHANGED <<pcm, ses>>
       ELSE /\ app' = [app EXCEPT !.pc = "ready"]
            /\ pcm' = [pcm EXCEPT !.made = TRUE]
            /\ ses' = [ses EXCEPT !.state = "Open"]
            /\ UNCHANGED <<br, start>>
    /\ UNCHANGED <<ctl, wk, chan, pol, fault>>

\* recv_timeout(5 s): names complete the session, an error or the timeout stops
\* the thread and joins it with the receiver still alive.
Startup ==
    /\ app.pc = "startup"
    /\ \/ /\ start.content = "names"
          /\ app' = [app EXCEPT !.pc = "ready"]
          /\ start' = [content |-> "empty", alive |-> FALSE]
          /\ pcm' = [pcm EXCEPT !.made = TRUE]
          /\ ses' = [ses EXCEPT !.state = "Open"]
          /\ UNCHANGED <<br, fault>>
       \/ /\ start.content = "error"
          /\ app' = [app EXCEPT !.pc = "join", !.error = br.result]
          /\ start' = [start EXCEPT !.content = "empty"]
          /\ br' = [br EXCEPT !.stop = TRUE]
          /\ UNCHANGED <<pcm, ses, fault>>
       \/ /\ start.content = "empty" /\ MayFail /\ Fault
          /\ app' = [app EXCEPT !.pc = "join", !.error = {"startup"}]
          /\ br' = [br EXCEPT !.stop = TRUE]
          /\ UNCHANGED <<pcm, ses, start>>
    /\ UNCHANGED <<ctl, wk, chan, pump, pol>>

\* The bridge thread has ended: its streams are closed like those of Pcm::close.
StartupJoin ==
    /\ app.pc = "join" /\ br.pc = "done"
    /\ app' = [app EXCEPT !.pc = "stopPump"]
    /\ start' = [content |-> "empty", alive |-> FALSE]
    /\ UNCHANGED <<ctl, wk, chan, pump, br, pol, pcm, ses, fault>>

\* creation::finish: close the broker client and report both errors.
Rollback ==
    /\ app.pc = "rollback"
    /\ \E ok \in BOOLEAN :
         /\ ok \/ MayFail
         /\ fault' = IF ok THEN fault ELSE fault + 1
         /\ app' = [app EXCEPT !.pc = "failed", !.error = IF ok THEN @ ELSE @ \cup {"broker"}]
    /\ ses' = [ses EXCEPT !.broker = "closed"]
    /\ ctl' = [ctl EXCEPT !.closed = TRUE]
    /\ chan' = "dropped"
    /\ UNCHANGED <<wk, pump, br, pol, start, pcm>>

---------------------------------------------------------------------------
(* Calls of an open session. The facade looks at both halves first           *)
(* (reap_audio_failure): a failed audio half closes everything, a failed     *)
(* native half closes the audio.                                             *)

\* Pcm::inspect_failure: the first cause stays.
Inspected ==
    LET seen == IF br.error # {} THEN br.error ELSE pump.failure
    IN  IF pcm.error = {} THEN seen ELSE pcm.error

Reap ==
    /\ app.pc = "ready" /\ ~pcm.closed
    /\ \/ Inspected # {} /\ app' = [app EXCEPT !.pc = "stopBridge", !.inner = TRUE]
       \/ Inspected = {} /\ ses.state = "Failed"
          /\ app' = [app EXCEPT !.pc = "stopBridge", !.inner = FALSE]
    /\ pcm' = [pcm EXCEPT !.error = Inspected]
    /\ UNCHANGED <<ctl, wk, chan, pump, br, pol, start, ses, fault>>

\* update, output and diagnostics: a failed exchange is retained as Failed.
SessionCall ==
    /\ app.pc = "ready" /\ ses.state = "Open" /\ Inspected = {} /\ ctl.owner = "none"
    /\ \/ \E ok \in BOOLEAN :
            /\ Exchange(ok)
            /\ ses' = IF ok THEN ses
                      ELSE [ses EXCEPT !.state = "Failed", !.error = @ \cup {"worker"}]
       \/ ctl.closed /\ UNCHANGED <<ctl, fault>>
          /\ ses' = [ses EXCEPT !.state = "Failed", !.error = @ \cup {"worker"}]
    /\ UNCHANGED <<app, wk, chan, pump, br, pol, start, pcm>>

\* The queries of the audio half: their failure is the OnceLock's first cause.
AudioQuery ==
    /\ app.pc = "ready" /\ ~pcm.closed /\ Inspected = {} /\ ctl.owner = "none"
    /\ \/ \E ok \in BOOLEAN :
            /\ Exchange(ok)
            /\ pcm' = IF ok THEN pcm ELSE [pcm EXCEPT !.error = {"worker"}]
       \/ ctl.closed /\ UNCHANGED <<ctl, fault>> /\ pcm' = [pcm EXCEPT !.error = {"worker"}]
    /\ UNCHANGED <<app, wk, chan, pump, br, pol, start, ses>>

\* ControllerAudio::ensure_open: an ended pump or a closed session answers
\* Closed at once; otherwise looking for a failure also records it.
IsClosed == pcm.closed \/ pump.stop \/ pump.pc \in {"exit", "joined"}

\* Reads, writes and flushes of a sample stream, and the health snapshot.
SampleCall ==
    /\ app.pc = "ready" /\ ~IsClosed
    /\ pcm' = [pcm EXCEPT !.error = Inspected]
    /\ UNCHANGED <<app, ctl, wk, chan, pump, br, pol, start, ses, fault>>

Diagnose ==
    /\ app.pc = "ready"
    /\ pcm' = [pcm EXCEPT !.error = IF pcm.cleanup = {} THEN Inspected ELSE @]
    /\ UNCHANGED <<app, ctl, wk, chan, pump, br, pol, start, ses, fault>>

CloseCall ==
    /\ app.pc = "ready"
    /\ app' = [app EXCEPT !.pc = IF pcm.closed THEN "inner" ELSE "stopBridge", !.inner = TRUE]
    /\ pcm' = [pcm EXCEPT !.error = Inspected]
    /\ UNCHANGED <<ctl, wk, chan, pump, br, pol, start, ses, fault>>

---------------------------------------------------------------------------
(* Pcm::close and SampleStreams::close_with, in the order of the code.       *)

\* Where close goes first: the bridge stops before the pump whose queues it uses.
BridgeGone == br.pc \in {"off", "done"}

StopBridge ==
    /\ app.pc = "stopBridge"
    /\ IF BridgeGone THEN app' = [app EXCEPT !.pc = "stopPump"] /\ br' = br
       ELSE ~br.stop /\ br' = [br EXCEPT !.stop = TRUE] /\ app' = app
    /\ UNCHANGED <<ctl, wk, chan, pump, pol, start, pcm, ses, fault>>

StopPump ==
    /\ app.pc = "stopPump"
    /\ IF pump.pc = "exit"
       THEN pump' = [pump EXCEPT !.pc = "joined", !.stop = TRUE] /\ app' = [app EXCEPT !.pc = "ack"]
       ELSE ~pump.stop /\ pump' = [pump EXCEPT !.stop = TRUE] /\ app' = app
    /\ UNCHANGED <<ctl, wk, chan, br, pol, start, pcm, ses, fault>>

\* merge_errors keeps the initiating cause and every cleanup error.
Merged(primary, cleanup) == primary \cup cleanup

\* The worker acknowledges the close while the client still holds the channels.
CloseWorker ==
    /\ app.pc = "ack" /\ ctl.owner = "none"
    /\ \E ok \in BOOLEAN :
         /\ ControlClose(ok)
         /\ app' = [app EXCEPT !.pc = "drop", !.worker = IF ok THEN {} ELSE {"ack"}]
    /\ UNCHANGED <<chan, pump, br, pol, start, pcm, ses>>

\* Then the channels go, and the pump's and the worker's errors are merged.
DropChannels ==
    /\ app.pc = "drop"
    /\ chan' = "dropped"
    /\ LET cleanup == pump.failure \cup app.worker
       IN  IF pcm.made
           THEN /\ pcm' = [pcm EXCEPT !.closed = TRUE,
                              !.cleanup = Merged(pcm.error, br.error \cup cleanup)]
                /\ app' = [app EXCEPT !.pc = IF app.inner THEN "inner" ELSE "ready", !.worker = {}]
           ELSE /\ app' = [app EXCEPT !.pc = "rollback", !.error = Merged(@, cleanup),
                                      !.worker = {}]
                /\ UNCHANGED pcm
    /\ UNCHANGED <<ctl, wk, pump, br, pol, start, ses, fault>>

\* Session::close: control, then broker, finish_close keeps both results.
InnerClose ==
    /\ app.pc = "inner" /\ ctl.owner = "none"
    /\ ctl' = [ctl EXCEPT !.closed = TRUE]
    /\ \E ok \in BOOLEAN :
         /\ ok \/ MayFail
         /\ fault' = IF ok THEN fault ELSE fault + 1
         /\ ses' = [state |-> "Closed", broker |-> "closed",
                    error |-> IF ok THEN ses.error ELSE Merged(ses.error, {"broker"})]
    /\ app' = [app EXCEPT !.pc = "closed"]
    /\ UNCHANGED <<wk, chan, pump, br, pol, start, pcm>>

---------------------------------------------------------------------------
(* The bridge thread.                                                        *)

\* open_usb_bridge succeeds and the names are sent, or the error is.
BridgeOpen ==
    /\ br.pc = "opening"
    /\ \/ /\ br' = [br EXCEPT !.pc = "run"]
          /\ start' = [start EXCEPT !.content = "names"]
          /\ pol' = [pol EXCEPT !.pc = "top"]
          /\ UNCHANGED fault
       \/ /\ MayFail /\ Fault
          /\ br' = [br EXCEPT !.pc = "send", !.result = {"graph"}]
          /\ UNCHANGED <<start, pol>>
    /\ UNCHANGED <<app, ctl, wk, chan, pump, pcm, ses>>

\* run: stop flag, poll_error, then the transfers, whose queues close with the
\* pump and whose graph may fail.
BridgeRun ==
    /\ br.pc = "run"
    /\ br' = [br EXCEPT !.pc = "joinPoller",
                !.result = IF br.stop THEN {} ELSE IF pol.error # {} THEN pol.error ELSE {"queue"}]
    /\ br.stop \/ pol.error # {} \/ pump.pc \in {"exit", "joined"}
    /\ UNCHANGED <<app, ctl, wk, chan, pump, pol, start, pcm, ses, fault>>

GraphFails ==
    /\ br.pc = "run" /\ ~br.stop /\ MayFail /\ Fault
    /\ br' = [br EXCEPT !.pc = "joinPoller", !.result = {"graph"}]
    /\ UNCHANGED <<app, ctl, wk, chan, pump, pol, start, pcm, ses>>

\* pump_session: stop and join the poller; its error counts if run had none.
BridgeJoin ==
    /\ br.pc = "joinPoller"
    /\ pol' = [pol EXCEPT !.stop = TRUE]
    /\ IF pol.pc = "done"
       THEN br' = [br EXCEPT !.pc = IF Merged(br.result, pol.error) = {} THEN "done" ELSE "send",
                     !.result = IF @ = {} THEN pol.error ELSE @]
       ELSE ~pol.stop /\ br' = br
    /\ UNCHANGED <<app, ctl, wk, chan, pump, start, pcm, ses, fault>>

\* send(Err) waits while the names of a late start fill the channel and nobody
\* will read them; without a receiver it returns at once.
SendBlocked == br.pc = "send" /\ start.alive /\ start.content # "empty"

BridgeSend ==
    /\ br.pc = "send" /\ ~SendBlocked
    /\ start' = IF start.alive THEN [start EXCEPT !.content = "error"] ELSE start
    /\ br' = [br EXCEPT !.pc = "done", !.error = br.result]
    /\ UNCHANGED <<app, ctl, wk, chan, pump, pol, pcm, ses, fault>>

---------------------------------------------------------------------------
(* The poller and the pump.                                                  *)

PollTop ==
    /\ pol.pc = "top"
    /\ IF pol.stop THEN pol' = [pol EXCEPT !.pc = "done"] /\ UNCHANGED ctl
       ELSE /\ ctl.owner = "none"
            /\ ctl' = [ctl EXCEPT !.owner = "poller"]
            /\ pol' = [pol EXCEPT !.pc = "host"]
    /\ UNCHANGED <<app, wk, chan, pump, br, start, pcm, ses, fault>>

\* host frames, then consumed frames, under one lock; an error ends the thread.
PollExchange ==
    /\ pol.pc \in {"host", "consumed"}
    /\ \/ \E ok \in BOOLEAN :
            /\ ~ctl.closed
            /\ \/ ok /\ wk = "serving" /\ UNCHANGED fault
               \/ ~ok /\ wk # "serving" /\ UNCHANGED fault
               \/ ~ok /\ wk = "serving" /\ MayFail /\ Fault
            /\ ctl' = [closed |-> ~ok,
                       owner |-> IF ok /\ pol.pc = "host" THEN "poller" ELSE "none"]
            /\ pol' = IF ~ok THEN [pol EXCEPT !.pc = "done", !.error = {"worker"}]
                      ELSE [pol EXCEPT !.pc = IF @ = "host" THEN "consumed" ELSE "top"]
       \/ /\ ctl.closed
          /\ ctl' = [ctl EXCEPT !.owner = "none"]
          /\ pol' = [pol EXCEPT !.pc = "done", !.error = {"worker"}]
          /\ UNCHANGED fault
    /\ UNCHANGED <<app, wk, chan, pump, br, start, pcm, ses>>

\* run_pump: the stop flag ends it; a worker that went away, or a malformed
\* frame, fails it. Its queue ends close with it.
PumpExit ==
    /\ pump.pc = "run"
    /\ \/ pump.stop /\ pump' = [pump EXCEPT !.pc = "exit"] /\ UNCHANGED fault
       \/ ~pump.stop /\ wk # "serving"
          /\ pump' = [pump EXCEPT !.pc = "exit", !.failure = {"pump"}] /\ UNCHANGED fault
       \/ ~pump.stop /\ MayFail /\ Fault
          /\ pump' = [pump EXCEPT !.pc = "exit", !.failure = {"pump"}]
    /\ UNCHANGED <<app, ctl, wk, chan, br, pol, start, pcm, ses>>

\* external: the worker dies on its own, or ends when control or PCM is lost.
WorkerEnds ==
    /\ wk = "serving"
    /\ \/ wk' = "gone" /\ MayFail /\ Fault
       \/ ctl.closed /\ wk' = "gone" /\ UNCHANGED fault
       \/ ~ctl.closed /\ chan = "dropped" /\ wk' = "ipcLoss" /\ UNCHANGED fault
    /\ UNCHANGED <<app, ctl, chan, pump, br, pol, start, pcm, ses>>

Next ==
    \/ ClientOpen \/ CardFound \/ Probe \/ StreamsNew \/ Startup \/ StartupJoin \/ Rollback
    \/ Reap \/ SessionCall \/ AudioQuery \/ SampleCall \/ Diagnose \/ CloseCall
    \/ StopBridge \/ StopPump \/ CloseWorker \/ DropChannels \/ InnerClose
    \/ BridgeOpen \/ BridgeRun \/ GraphFails \/ BridgeJoin \/ BridgeSend
    \/ PollTop \/ PollExchange \/ PumpExit \/ WorkerEnds

Spec == Init /\ [][Next]_vars

\* Threads run when they can; the poller's lock is granted in the end because it
\* sleeps between rounds. New calls and failures are the environment's choice.
Closing == StopBridge \/ StopPump \/ CloseWorker \/ DropChannels \/ InnerClose
LiveSpec ==
    /\ Spec
    /\ WF_vars(ClientOpen \/ CardFound \/ Probe \/ StreamsNew \/ Startup \/ StartupJoin \/ Rollback)
    /\ SF_vars(Closing)
    /\ WF_vars(BridgeOpen \/ BridgeRun \/ BridgeJoin \/ BridgeSend)
    /\ WF_vars(PollTop \/ PollExchange) /\ WF_vars(PumpExit)

---------------------------------------------------------------------------
Errors == app.error \cup pcm.error \cup pcm.cleanup \cup ses.error \cup br.error \cup pump.failure

(* A session nothing went wrong in closes without an error anywhere, and the  *)
(* worker never sees its PCM channels vanish before it acknowledged: "This    *)
(* prevents a normal controller close from appearing as worker IPC loss".     *)
UsbCleanClose == fault = 0 => Errors = {} /\ wk # "ipcLoss"

(* Closing loses no cause: what the pump, the bridge and the acknowledgement  *)
(* reported, and the first cause the application saw, are all in the retained *)
(* error, and a failed creation reports why.                                  *)
CausesKept ==
    /\ pcm.closed => pump.failure \cup br.error \cup pcm.error \subseteq pcm.cleanup
    /\ app.pc = "failed" => app.error # {} /\ pump.failure \subseteq app.error

(* After close or a failed creation nothing of the session is left running or *)
(* held: threads joined, channels and control gone, the broker told.          *)
UsbReleased ==
    app.pc \in {"closed", "failed"} =>
        /\ br.pc \in {"off", "done"} /\ pol.pc \in {"off", "done"} /\ pump.pc \in {"off", "joined"}
        /\ chan # "held" /\ ses.broker # "open"
        /\ ctl.closed \/ wk = "none"

\* No call of the application is under way that anything could end.
Returned == app.pc \in {"ready", "closed", "failed"} \/ SendBlocked

(* Creation and close return. The one exception the code has is a startup     *)
(* that times out while the bridge delivers its names: if the bridge then     *)
(* fails, its second send waits for a receiver that only waits for the thread.*)
UsbCallsEnd ==
    []<>Returned
=============================================================================
