---------------------------- MODULE PipeWireAudio ----------------------------
(***************************************************************************)
(* A controller with associated PipeWire audio: the facade's Controller<F> *)
(* (src/controllers.rs), the audio session it owns (gr-audio-linux,        *)
(* Session) and the session's worker thread with its managed streams.      *)
(*                                                                         *)
(* Three threads share the flags stop and failed: the application, the     *)
(* worker that runs PipeWire's main loop and every control listener, and   *)
(* the real-time data loop that runs the process callbacks.  The graph     *)
(* (stream states, errors, malformed buffers) is external.                 *)
(***************************************************************************)
EXTENDS ControllerFacade, Sequences

CONSTANTS Offered,    \* creation options the application tries
          Faults,     \* bound on graph, library and provider failures
          LastToken   \* the largest creation token

VARIABLES app,     \* application thread: where it is and what it saw
          inner,   \* the provider session below the facade
          ses,     \* gr_audio_linux::Session
          wkr,     \* its worker thread
          strm,    \* ManagedStream of each spec
          fault,   \* failures left
          blame    \* history: causes the worker met on its own path

vars == <<app, inner, ses, wkr, strm, fault, blame>>

Streams == {"playback", "playback.caller", "microphone", "microphone.caller"}

\* prepare(): one queue and its host stream per direction; a native client
\* owns the other end of the queue through a second stream, the application
\* owns it otherwise.
Prepare(o) ==
    <<"playback">> \o (IF o.playback = "native" THEN <<"playback.caller">> ELSE <<>>) \o
    <<"microphone">> \o (IF o.microphone = "native" THEN <<"microphone.caller">> ELSE <<>>)

NoStream == [st |-> "absent", control |-> FALSE, process |-> FALSE]
Fresh == [stop |-> FALSE, failed |-> FALSE, joined |-> FALSE, error |-> {}, queues |-> "open"]
Idle  == [pc |-> "off", specs |-> <<>>, next |-> 1, notified |-> FALSE, result |-> {}]

Init ==
    /\ app   = [pc |-> "new", audio |-> FALSE, then |-> "none", last |-> {}, token |-> 1]
    /\ inner = [st |-> "none", error |-> {}]
    /\ ses   = Fresh
    /\ wkr   = Idle
    /\ strm  = [s \in Streams |-> NoStream]
    /\ fault = Faults
    /\ blame = {}

May    == fault > 0
Spend  == May /\ fault' = fault - 1

-----------------------------------------------------------------------------
(* Session: what the application thread reads of the shared flags. *)

Failed   == app.audio /\ (ses.failed \/ (~ses.joined /\ wkr.pc = "done"))
IsClosed == app.audio /\ (ses.stop \/ Failed)
NextServiceIn == CombinedDeadline(IF inner.st = "open" THEN 1 ELSE 2,
                             IF app.audio THEN AudioDeadline(Failed, ses.error, IsClosed) ELSE 2)

\* Session::close up to the join; the join itself waits for the worker.
CloseAudio(then) ==
    /\ ses' = [ses EXCEPT !.stop = TRUE]
    /\ app' = [app EXCEPT !.pc = "joining", !.then = then]

\* The provider session's close; it may add an error of its own.
CloseInner(bad) == inner' = [st |-> "closed", error |-> inner.error \cup bad]

\* Controller::close: audio first, then the provider session.
CloseBoth(then) ==
    IF app.audio /\ ~ses.joined
    THEN CloseAudio(then) /\ UNCHANGED inner
    ELSE /\ CloseInner({})
         /\ app' = [app EXCEPT !.pc = IF then = "drop" THEN "new" ELSE "run"]
         /\ UNCHANGED ses

-----------------------------------------------------------------------------
(* Creation. *)

\* A creation that validation or an exhausted token space refuses.
Refuse(f, o) ==
    /\ app.pc = "new"
    /\ ~Creation(f, o).admits \/ NextCreation(app.token, LastToken) = 0
    /\ app' = [app EXCEPT !.last = {"refused"}]
    /\ UNCHANGED <<inner, ses, wkr, strm, fault, blame>>

\* internal() takes a token; Session::open prepares the queues and spawns
\* the worker, or there is no audio and only the provider is opened.
Create(f, o) ==
    /\ app.pc = "new"
    /\ Creation(f, o).admits /\ NextCreation(app.token, LastToken) # 0
    /\ LET audio == o.exposure = "emulated" IN
       /\ app' = [app EXCEPT !.pc = IF audio THEN "opening" ELSE "run", !.audio = audio,
                             !.last = {}, !.token = NextCreation(app.token, LastToken)]
       /\ inner' = [st |-> IF audio THEN "none" ELSE "open", error |-> {}]
       /\ wkr' = IF audio THEN [Idle EXCEPT !.pc = "open", !.specs = Prepare(o)] ELSE Idle
    /\ ses' = Fresh
    /\ blame' = {}
    /\ UNCHANGED <<strm, fault>>

\* recv_timeout returned the readiness message: the provider is opened next.
OpenReady ==
    /\ app.pc = "opening" /\ wkr.notified
    /\ \/ /\ app' = [app EXCEPT !.pc = "run"]
          /\ inner' = [st |-> "open", error |-> {}]
          /\ UNCHANGED <<ses, fault>>
       \/ /\ Spend
          /\ CloseAudio("rollback")
          /\ UNCHANGED inner
    /\ UNCHANGED <<wkr, strm, blame>>

\* recv_timeout gave up, or the worker ended and dropped its sender.
OpenTimedOut ==
    /\ app.pc = "opening" /\ ~wkr.notified
    /\ CloseAudio("refuse")
    /\ UNCHANGED <<inner, wkr, strm, fault, blame>>

\* Session::close after the join: the worker's verdict becomes the retained
\* error, then the queues are closed.
Joined(e) == [ses EXCEPT !.joined = TRUE, !.error = e, !.queues = "closed",
                         !.failed = @ \/ e # {}]

Join ==
    /\ app.pc = "joining" /\ wkr.pc = "done"
    /\ ses' = Joined(wkr.result)
    /\ CASE app.then = "refuse" ->
              /\ app' = [app EXCEPT !.pc = "new", !.audio = FALSE, !.then = "none",
                          !.last = IF wkr.result = {} THEN {"timeout"} ELSE wkr.result]
              /\ UNCHANGED inner
         [] app.then = "rollback" ->
              /\ app' = [app EXCEPT !.pc = "new", !.audio = FALSE, !.then = "none",
                          !.last = MergeErrors({"provider"}, wkr.result)]
              /\ UNCHANGED inner
         [] app.then = "audio" ->
              /\ app' = [app EXCEPT !.pc = "run", !.then = "none"]
              /\ UNCHANGED inner
         [] app.then = "both" ->
              /\ app' = [app EXCEPT !.pc = "run", !.then = "none"]
              /\ CloseInner({})
         [] app.then = "drop" ->
              /\ app' = [app EXCEPT !.pc = "new", !.audio = FALSE, !.then = "none"]
              /\ CloseInner({})
    /\ UNCHANGED <<wkr, strm, fault, blame>>

-----------------------------------------------------------------------------
(* Calls on an open handle.  Every one reaps a failure first. *)

Reaps == Reap(app.audio, Failed, inner.st)

\* The reap of service, commit, edits, diagnostics and audio() when it has
\* something to close; the call itself then finds a closed controller.
ReapFailure ==
    /\ app.pc = "run" /\ Reaps # "none"
    /\ CASE Reaps = "both"  -> CloseBoth("both")
         [] Reaps = "audio" -> ~ses.joined /\ CloseAudio("audio") /\ UNCHANGED inner
    /\ UNCHANGED <<wkr, strm, fault, blame>>

\* Controller::service past its first reap: the provider may fail, which
\* the second reap (ReapFailure) finds, or let a required request escape.
Service(event) ==
    /\ app.pc = "run" /\ Reaps = "none" /\ inner.st = "open"
    /\ IF Convert(event) = "leaked"
       THEN Spend /\ CloseBoth("both")
       ELSE /\ Spend
            /\ inner' = [st |-> "failed", error |-> {"provider"}]
            /\ UNCHANGED <<app, ses>>
    /\ UNCHANGED <<wkr, strm, blame>>

Close ==
    /\ app.pc = "run" /\ (inner.st # "closed" \/ (app.audio /\ ~ses.joined))
    /\ CloseBoth("both")
    /\ UNCHANGED <<wkr, strm, fault, blame>>

\* Drop of the handle closes what is still open.
DropHandle ==
    /\ app.pc = "run"
    /\ CloseBoth("drop")
    /\ UNCHANGED <<wkr, strm, fault, blame>>

-----------------------------------------------------------------------------
(* The worker thread. *)

Fail(cause) ==
    /\ wkr' = [wkr EXCEPT !.pc = "cleanup", !.next = 1, !.result = {cause}]
    /\ blame' = blame \cup {cause}

FaultyDropsControl(x) == x

\* ManagedStream::disconnect drops the control listener before it
\* disconnects, so that its own disconnect is not reported as a failure.
DropsControl(x) == [x EXCEPT !.control = FALSE]

\* ManagedStream::open of the next spec: listeners, then connect.  Inputs
\* are active from the start here; UsbAudio opens them inactive.
OpenStream ==
    /\ wkr.pc = "open" /\ wkr.next <= Len(wkr.specs)
    /\ LET s == wkr.specs[wkr.next] IN
       \/ /\ strm' = [strm EXCEPT ![s] = [st |-> "connecting", control |-> TRUE, process |-> TRUE]]
          /\ wkr' = [wkr EXCEPT !.next = @ + 1]
          /\ UNCHANGED <<fault, blame>>
       \/ /\ Spend
          /\ Fail("open")
          /\ UNCHANGED strm
    /\ UNCHANGED <<app, inner, ses>>

Opened ==
    /\ wkr.pc = "open" /\ wkr.next > Len(wkr.specs)
    /\ wkr' = [wkr EXCEPT !.pc = "loop"]
    /\ UNCHANGED <<app, inner, ses, strm, fault, blame>>

\* The head of run's loop: stop is tested before failed.
LoopHead ==
    /\ wkr.pc = "loop"
    /\ CASE ses.stop                  -> /\ wkr' = [wkr EXCEPT !.pc = "cleanup", !.next = 1]
                                         /\ UNCHANGED blame
         [] ~ses.stop /\ ses.failed   -> Fail("graph")
         [] ~ses.stop /\ ~ses.failed  -> /\ wkr' = [wkr EXCEPT !.pc = "iterate"]
                                         /\ UNCHANGED blame
    /\ UNCHANGED <<app, inner, ses, strm, fault>>

\* External: one event of PipeWire's main loop reaches a control listener.
GraphEvent(s, to) ==
    /\ wkr.pc = "iterate" /\ strm[s].control /\ strm[s].st # to
    /\ CASE to = "paused"    -> strm[s].st \in {"connecting", "streaming"} /\ UNCHANGED <<ses, fault>>
         [] to = "streaming" -> strm[s].st = "paused" /\ UNCHANGED <<ses, fault>>
         [] to \in {"error", "unconnected"} ->
              Spend /\ ses' = [ses EXCEPT !.failed = TRUE]
    /\ strm' = [strm EXCEPT ![s].st = to]
    /\ wkr' = [wkr EXCEPT !.pc = "after"]
    /\ UNCHANGED <<app, inner, blame>>

\* The core's error listener, or check_format on a foreign format.
CoreError ==
    /\ wkr.pc = "iterate" /\ Spend
    /\ ses' = [ses EXCEPT !.failed = TRUE]
    /\ wkr' = [wkr EXCEPT !.pc = "after"]
    /\ UNCHANGED <<app, inner, strm, blame>>

QuietIterate ==
    /\ wkr.pc = "iterate"
    /\ wkr' = [wkr EXCEPT !.pc = "after"]
    /\ UNCHANGED <<app, inner, ses, strm, fault, blame>>

Registered == \A s \in {wkr.specs[i] : i \in DOMAIN wkr.specs} : strm[s].st \in {"paused", "streaming"}

\* The rest of an iteration: the readiness message, or the deadline.
AfterIterate ==
    /\ wkr.pc = "after"
    /\ \/ /\ Registered \/ wkr.notified
          /\ wkr' = [wkr EXCEPT !.pc = "loop", !.notified = TRUE]
          /\ UNCHANGED <<fault, blame>>
       \/ /\ ~Registered /\ ~wkr.notified
          /\ wkr' = [wkr EXCEPT !.pc = "loop"]
          /\ UNCHANGED <<fault, blame>>
       \/ /\ ~Registered /\ ~wkr.notified
          /\ Spend /\ Fail("deadline")
    /\ UNCHANGED <<app, inner, ses, strm>>

\* finish_cleanup: every stream is disconnected, whatever the others did.
Disconnect ==
    /\ wkr.pc = "cleanup" /\ wkr.next <= Len(wkr.specs)
    /\ LET s == wkr.specs[wkr.next]
           x == DropsControl(strm[s])
       IN /\ strm' = [strm EXCEPT ![s] = NoStream]
          /\ ses' = [ses EXCEPT !.failed = @ \/ x.control]
          /\ \/ /\ wkr' = [wkr EXCEPT !.next = @ + 1]
                /\ UNCHANGED <<fault, blame>>
             \/ /\ strm[s].process /\ Spend
                /\ wkr' = [wkr EXCEPT !.next = @ + 1,
                             !.result = MergeErrors(@, {"disconnect"})]
                /\ blame' = blame \cup {"disconnect"}
    /\ UNCHANGED <<app, inner>>

\* The thread's end: an error is published through failed as well.
Finish ==
    /\ wkr.pc = "cleanup" /\ wkr.next > Len(wkr.specs)
    /\ wkr' = [wkr EXCEPT !.pc = "done"]
    /\ ses' = [ses EXCEPT !.failed = @ \/ wkr.result # {}]
    /\ UNCHANGED <<app, inner, strm, fault, blame>>

\* The data loop: a malformed buffer, or a queue closed under the callback.
Process(s) ==
    /\ strm[s].process /\ strm[s].st = "streaming" /\ ~ses.failed
    /\ \/ ses.queues = "closed" /\ UNCHANGED fault
       \/ ses.queues = "open" /\ Spend
    /\ ses' = [ses EXCEPT !.failed = TRUE]
    /\ UNCHANGED <<app, inner, wkr, strm, blame>>

-----------------------------------------------------------------------------
Worker == \/ OpenStream \/ Opened \/ LoopHead \/ CoreError \/ QuietIterate
          \/ AfterIterate \/ Disconnect \/ Finish
          \/ \E s \in Streams, to \in {"paused", "streaming", "error", "unconnected"} : GraphEvent(s, to)

Next ==
    \/ \E f \in Families, o \in Offered : Refuse(f, o) \/ Create(f, o)
    \/ OpenReady \/ OpenTimedOut \/ Join
    \/ ReapFailure \/ Close \/ DropHandle
    \/ \E event \in {"output", "get_report"} : Service(event)
    \/ Worker
    \/ \E s \in Streams : Process(s)

Spec == Init /\ [][Next]_vars

\* The worker thread runs; a joining application wakes when it has ended;
\* recv_timeout returns; the application keeps servicing an open handle.
LiveSpec == Spec /\ WF_vars(Worker) /\ WF_vars(Join)
                 /\ WF_vars(OpenReady \/ OpenTimedOut) /\ WF_vars(ReapFailure)

-----------------------------------------------------------------------------
\* With no failure of the graph, the library or the provider, nothing is
\* ever recorded as one: neither the session's own disconnect nor the
\* closing of its queues reaches a callback as a failure.
CleanClose == fault = Faults => ~ses.failed /\ ses.error = {} /\ wkr.result = {}

\* Endpoints live only while their owner does: when a creation has been
\* refused or rolled back, or a close has returned, the worker has ended and
\* every stream has left the graph.
EndpointsReleased ==
    (app.pc = "new" \/ (app.pc = "run" /\ ses.stop)) =>
        /\ wkr.pc \in {"off", "done"}
        /\ \A s \in Streams : strm[s] = NoStream

\* Required together: a returned close has closed both halves, and every
\* cause the worker met on its own path is in the retained error, the
\* first one and the cleanup's.
ClosedWhole ==
    app.pc = "run" /\ app.audio /\ ses.joined =>
        /\ inner.st # "open"
        /\ blame \subseteq ses.error

\* A call is under way, or one half has failed and the other is still open.
Owed ==
    \/ app.pc \in {"opening", "joining"}
    \/ app.pc = "run" /\ Failed /\ inner.st = "open"
    \/ app.pc = "run" /\ app.audio /\ inner.st = "failed" /\ ~ses.joined

\* Creation and close return, and a failure of the graph closes both halves
\* of a controller whose owner keeps servicing it, as a failure of the
\* provider closes its audio.
CallsEnd ==
    []<>(~ Owed)

\* The lifecycle tests of the facade close a controller whose audio has
\* failed and expect the failure to be retained, the status Failed and no
\* further deadline.
AudioFailureRetained ==
    (app.pc = "run" /\ app.audio /\ ses.joined /\ ses.failed) =>
        /\ Status(inner.st, ses.error) = "failed"
        /\ NextServiceIn = 2
=============================================================================
