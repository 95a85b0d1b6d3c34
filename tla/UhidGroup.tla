------------------------------ MODULE UhidGroup ------------------------------
(***************************************************************************)
(* A required group of HID sessions over Linux UHID.                        *)
(*                                                                          *)
(* Each member is a stack of four layers, from the kernel up:               *)
(*   k  the kernel's uhid device: the queue of events for the reader and    *)
(*      the one GET/SET request a host process is waiting for;              *)
(*   n  Session of gr-provider-linux-uhid: pending_request;                 *)
(*   t  HidTransport: the token of the request and the kernel's id for it;  *)
(*   u  Runtime of gr-hid, reduced to its reply slot, its input and its     *)
(*      observations (HidRuntime is the detailed model).                    *)
(* The group is RequiredGroup of gr-hid.  A write to /dev/uhid may be       *)
(* accepted, refused as not sent ("block"), lost ("lost") or taken by the   *)
(* kernel and reported short ("short").                                     *)
(***************************************************************************)
EXTENDS Integers, Sequences, SequencesExt, TLC

CONSTANTS
    Supplies,     \* the lists of roles RequiredGroup::new may be given
    MaxGroup,     \* 32 in the code
    MaxOutputs,   \* 128 in the code: observations of one cycle
    QueueLen,     \* bound: unread kernel events of a member
    HostEvents,   \* bound: events of all hosts
    Faults        \* bound: writes that are not accepted

VARIABLES
    members,   \* members[i]: the stack of the i-th component in role order
    roles,     \* roles[i]: its role
    group,     \* RequiredGroup and the cycle in progress
    host,      \* events the hosts may still cause
    faults,    \* writes that may still fail
    unreported \* history: observations produced and not yet returned or counted

vars == <<members, roles, group, host, faults, unreported>>

Writes == {"ok", "block", "lost", "short"}
Cost(ws) == Len(SelectSeq(ws, LAMBDA w : w # "ok"))

(***************************************************************************)
(* The kernel and the provider's session                                    *)
(***************************************************************************)

NewMember ==
    [k |-> [gone |-> FALSE, q |-> <<>>, wait |-> <<>>, next |-> 1],
     n |-> [open |-> TRUE, pending |-> <<>>],
     t |-> [ordinal |-> 0, pending |-> <<>>, closed |-> FALSE],
     u |-> [reply |-> <<>>, last |-> 0, input |-> "dirty", obs |-> 0,
            closed |-> FALSE, failed |-> FALSE],
     wrote |-> <<>>]      \* history: the replies the kernel took

\* What uhid_char_write does with an event: a reply is matched with the
\* request in progress by id and kind and ignored when it is another one.
Takes(m, f) ==
    CASE f.t = "reply"   -> [m EXCEPT !.k.wait = IF @ = <<f.of>> THEN <<>> ELSE @,
                                      !.wrote = Append(@, f.of)]
      [] f.t = "destroy" -> [m EXCEPT !.k.gone = TRUE, !.k.wait = <<>>]
      [] OTHER           -> m

Result(w) == CASE w = "ok" -> "Submitted" [] w = "block" -> "DefinitelyUnsent"
               [] OTHER -> "Uncertain"

\* One write(2) is one event: a short write is never continued.
WriteEvent(m, f, w) == IF w \in {"ok", "short"} THEN Takes(m, f) ELSE m

CheckReply(m, f) == m.n.pending = <<f.of>>

Send(m, f, w) ==
    IF ~m.n.open \/ (f.t = "reply" /\ ~CheckReply(m, f))
    THEN [m |-> m, r |-> "Uncertain"]
    ELSE [m |-> [WriteEvent(m, f, w) EXCEPT
                     !.n.pending = IF f.t = "reply" /\ w = "ok" THEN <<>> ELSE @],
          r |-> Result(w)]

\* Session::close and the write of UHID_DESTROY; the reader's queue goes with it.
SessionClose(m, w) ==
    IF ~m.n.open THEN m
    ELSE [WriteEvent([m EXCEPT !.n = [open |-> FALSE, pending |-> <<>>]],
                     [t |-> "destroy", of |-> <<>>], w)
              EXCEPT !.u.failed = @ \/ w # "ok"]

(***************************************************************************)
(* HidTransport                                                             *)
(***************************************************************************)

\* Mutant: the token of a submitted reply is kept.
FaultySubmit(m, c, w) ==
    IF c.t = "input" THEN Send(m, [t |-> "input", of |-> <<>>], w)
    ELSE IF m.t.pending = <<>> \/ m.t.pending[1].token # c.token
         THEN [m |-> m, r |-> "Uncertain"]
         ELSE Send(m, [t |-> "reply",
                       of |-> [id |-> m.t.pending[1].id, kind |-> c.kind]], w)

Submit(m, c, w) ==
    IF c.t = "input" THEN Send(m, [t |-> "input", of |-> <<>>], w)
    ELSE IF m.t.pending = <<>> \/ m.t.pending[1].token # c.token
         THEN [m |-> m, r |-> "Uncertain"]
         ELSE LET s == Send(m, [t |-> "reply",
                               of |-> [id |-> m.t.pending[1].id, kind |-> c.kind]], w)
              IN [s EXCEPT !.m.t.pending = IF s.r = "Submitted" THEN <<>> ELSE @]

\* Session::drain_reverse_events: one event, and none while a request is open.
Drained(m) ==
    IF m.n.pending # <<>> \/ m.k.q = <<>> THEN [m |-> m, e |-> <<>>]
    ELSE LET e == Head(m.k.q)
             n == IF e.t \in {"get", "set"}
                  THEN <<[id |-> e.id, kind |-> e.t]>> ELSE m.n.pending
         IN [m |-> [m EXCEPT !.k.q = Tail(@), !.n.pending = n], e |-> <<e>>]

Token(m, id) ==
    [m EXCEPT !.t.ordinal = @ + 1,
              !.t.pending = <<[token |-> m.t.ordinal + 1, id |-> id]>>]

\* parse_event and read_event: an event of another type or size is an error, and
\* so is a numbered output report without its number (drain_reverse_events).
Parsed(e) == e.t # "unknown" /\ (e.t = "output" => e.framed)

\* HidTransport::event: "none", "error", or an event for the runtime.  A SET
\* whose framing is wrong is refused here, with the write w.
Event(m, w) ==
    LET d == Drained(m)
        none == [t |-> "none", token |-> 0]
        error == [t |-> "error", token |-> 0]
    IN IF ~m.n.open THEN [m |-> m, e |-> error]
       ELSE IF d.e = <<>> THEN [m |-> d.m, e |-> none]
       ELSE LET e == d.e[1]
                x == Token(d.m, e.id)
                refused == Submit(x, [t |-> "reply", token |-> x.t.ordinal,
                                      kind |-> "set"], w)
            IN CASE ~Parsed(e) -> [m |-> d.m, e |-> error]
                 [] Parsed(e) /\ e.t \in {"stop", "lifecycle", "output"} ->
                       [m |-> d.m, e |-> [t |-> e.t, token |-> 0]]
                 [] e.t \in {"get", "set"} ->
                       IF d.m.t.pending # <<>> THEN [m |-> d.m, e |-> error]
                       ELSE IF e.t = "set" /\ ~e.framed
                       THEN [m |-> refused.m,
                             e |-> IF refused.r = "Submitted" THEN none ELSE error]
                       ELSE [m |-> x, e |-> [t |-> e.t, token |-> x.t.ordinal]]

TransportClose(m, w) ==
    IF m.t.closed THEN m
    ELSE SessionClose([m EXCEPT !.t.closed = TRUE, !.t.pending = <<>>], w)

(***************************************************************************)
(* Runtime::service, one host event per call (HidRuntime has the details)   *)
(***************************************************************************)

RuntimeClose(m, w) ==
    IF m.u.closed THEN m
    ELSE TransportClose([m EXCEPT !.u.closed = TRUE, !.u.reply = <<>>,
                                  !.u.input = "none"], w)

\* The result of a step of the service call: go on, return a retryable error,
\* or close the runtime.
Step(m, then) == [m |-> m, then |-> then]

FlushReply(m, late, w) ==
    IF m.u.reply = <<>> THEN Step(m, "go")
    ELSE IF late THEN Step(m, "close")
    ELSE LET s == Submit(m, m.u.reply[1], w)
         IN CASE s.r = "Submitted" -> Step([s.m EXCEPT !.u.reply = <<>>], "go")
              [] s.r = "DefinitelyUnsent" -> Step(s.m, "go")
              [] OTHER -> Step(s.m, "close")

\* react: what the personality makes of the event.
Handle(m, e, react, w) ==
    LET seen == IF react = "observe" THEN [m EXCEPT !.u.obs = @ + 1] ELSE m
    IN CASE e.t = "none"  -> Step(m, "go")
         [] e.t = "error" -> Step(m, "close")
         [] e.t \in {"get", "set"} ->
               IF e.token <= m.u.last THEN Step(m, "close")
               ELSE FlushReply([seen EXCEPT
                        !.u.last = e.token,
                        !.u.reply = <<[t |-> "reply", token |-> e.token, kind |-> e.t]>>],
                        FALSE, w)
         [] e.t = "output" -> Step(seen, IF react = "refuse" THEN "retry"
                                         ELSE IF react = "fatal" THEN "close" ELSE "go")
         [] e.t = "stop" -> Step([seen EXCEPT !.u.input = "dirty"], "go")
         [] e.t = "lifecycle" -> Step(seen, "go")

DrainInput(m, w) ==
    IF m.u.input = "none" THEN Step(m, "go")
    ELSE LET s == Submit(m, [t |-> "input"], w)
         IN CASE s.r = "Submitted" -> Step([s.m EXCEPT !.u.input = "none"], "go")
              [] s.r = "DefinitelyUnsent" -> Step([s.m EXCEPT !.u.input = "queued"], "go")
              [] OTHER -> Step(s.m, "close")

RuntimeService(m, late, react, ws) ==
    LET ended(s) == IF s.then = "close" THEN Step(RuntimeClose(s.m, ws[4]), "close") ELSE s
        drained(s) == IF s.then = "go" THEN DrainInput(s.m, ws[3]) ELSE s
        handled(s) == Handle(s.m, s.e, react, ws[2])
        read(s) == IF s.then # "go" THEN s
                   ELSE handled(IF s.m.u.reply = <<>> THEN Event(s.m, ws[2])
                                ELSE [m |-> s.m, e |-> [t |-> "none", token |-> 0]])
    IN ended(drained(read(FlushReply(m, late, ws[1]))))

(***************************************************************************)
(* RequiredGroup                                                            *)
(***************************************************************************)

Accepted(rs) ==
    /\ rs # <<>> /\ Len(rs) <= MaxGroup
    /\ \A i \in 1..(Len(rs) - 1) : rs[i] # rs[i + 1]

Idle == [outputs |-> 0, omitted |-> 0, failures |-> <<>>]

\* RequiredGroup::close: every component, the last role first; ds[i] is the
\* fate of the i-th UHID_DESTROY.
GroupClose(ms, g, ds) ==
    LET closed == [i \in DOMAIN ms |-> RuntimeClose(ms[i], ds[i])]
        bad == SelectSeq(Reverse([i \in DOMAIN ms |-> i]), LAMBDA i : closed[i].u.failed)
    IN IF g.closed THEN [ms |-> ms, g |-> g]
       ELSE [ms |-> closed, g |-> [g EXCEPT !.closed = TRUE, !.cleanup = @ \o bad]]

Observe(g, n) ==
    LET room == IF MaxOutputs - g.cycle.outputs < n THEN MaxOutputs - g.cycle.outputs ELSE n
    IN [g EXCEPT !.cycle.outputs = @ + room, !.cycle.omitted = @ + (n - room)]

Destroys(ms) == [DOMAIN ms -> {"ok", "lost"}]

\* LinuxUhidProvider::for_target and validate_request: the realization must be
\* one of the two UHID ones, and its bus the one of the target.
Bus == "usb" :> 3 @@ "bluetooth" :> 5
ValidRequest(r) == r.target \in DOMAIN Bus /\ r.bus = Bus[r.target]

\* The devices are created one by one before the group takes them.
NotCreated == [NewMember EXCEPT !.k.gone = TRUE, !.n.open = FALSE]

Init ==
    /\ roles \in {SortSeq(s, <) : s \in Supplies}
    /\ members = [i \in DOMAIN roles |-> NotCreated]
    /\ group = [state |-> "creating", closed |-> FALSE, visit |-> 0,
                cycle |-> Idle, cleanup |-> <<>>]
    /\ host = HostEvents /\ faults = Faults /\ unreported = 0

\* open_with_factory: the request is checked, /dev/uhid is opened and
\* UHID_CREATE2 written; a failure drops what was opened before it.
Create(r, w) ==
    LET fresh == {i \in DOMAIN members : ~members[i].n.open}
        i == CHOOSE i \in fresh : \A j \in fresh : i <= j
        ok == ValidRequest(r) /\ w = "ok"
    IN /\ group.state = "creating" /\ fresh # {}
       /\ Cost(<<w>>) <= faults
       /\ faults' = faults - Cost(<<w>>)
       /\ members' = IF ok THEN [members EXCEPT ![i] = NewMember]
                     ELSE [j \in DOMAIN members |-> NotCreated]
       /\ group' = [group EXCEPT !.state = IF ok THEN @ ELSE "failed"]
       /\ UNCHANGED <<roles, host, unreported>>

\* RequiredGroup::new takes ownership: a refused topology is cleaned up.
Open(ds) ==
    /\ group.state = "creating"
    /\ \A i \in DOMAIN members : members[i].n.open
    /\ Cost(ds) <= faults
    /\ IF Accepted(roles)
       THEN group' = [group EXCEPT !.state = "open"] /\ UNCHANGED <<members, faults>>
       ELSE LET c == GroupClose(members, group, ds)
            IN /\ members' = c.ms
               /\ group' = [c.g EXCEPT !.state = "refused"]
               /\ faults' = faults - Cost(ds)
    /\ UNCHANGED <<roles, host, unreported>>

\* The owner calls service: a cycle begins with the first role.  What the cycle
\* collected goes to the owner when it ends.
ServiceCall ==
    /\ group.state = "open" /\ ~group.closed /\ group.visit = 0
    /\ group' = [group EXCEPT !.visit = 1]
    /\ UNCHANGED <<members, roles, host, faults, unreported>>

\* One component is serviced; a terminal failure ends the whole group.
Visit(s, ws, ds) ==
    LET i == group.visit
        made == s.m.u.obs - members[i].u.obs
        seen == Observe(group, s.m.u.obs)
        after == [members EXCEPT ![i] = [s.m EXCEPT !.u.obs = 0]]
        told == IF s.then = "go" THEN seen
                ELSE [seen EXCEPT !.cycle.failures = Append(@, i)]
        last == s.m.u.closed \/ i = Len(members)
        ended == GroupClose(after, told, ds)
    IN /\ s.m.u.closed \/ \A j \in DOMAIN ds : ds[j] = "ok"
       /\ Cost(ws) + Cost(ds) <= faults
       /\ faults' = faults - Cost(ws) - Cost(ds)
       /\ unreported' = unreported + made - (IF last THEN told.cycle.outputs + told.cycle.omitted ELSE 0)
       /\ IF s.m.u.closed
          THEN members' = ended.ms /\ group' = [ended.g EXCEPT !.visit = 0, !.cycle = Idle]
          ELSE /\ members' = after
               /\ group' = IF last THEN [told EXCEPT !.visit = 0, !.cycle = Idle]
                           ELSE [told EXCEPT !.visit = i + 1]
       /\ UNCHANGED <<roles, host>>

\* The owner edits a member's state, or removes the group.
Edit(i) ==
    /\ group.state = "open" /\ ~group.closed /\ group.visit = 0
    /\ members[i].u.input = "none"
    /\ members' = [members EXCEPT ![i].u.input = "dirty"]
    /\ UNCHANGED <<roles, group, host, faults, unreported>>

Close(ds) ==
    /\ group.state = "open" /\ ~group.closed /\ group.visit = 0
    /\ Cost(ds) <= faults
    /\ LET c == GroupClose(members, group, ds)
       IN members' = c.ms /\ group' = c.g
    /\ faults' = faults - Cost(ds)
    /\ UNCHANGED <<roles, host, unreported>>

\* The group is dropped: the files are closed and with them the devices.
Drop ==
    /\ group.closed /\ group.state # "dropped"
    /\ members' = [i \in DOMAIN members |-> Takes(members[i], [t |-> "destroy", of |-> <<>>])]
    /\ group' = [group EXCEPT !.state = "dropped"]
    /\ UNCHANGED <<roles, host, faults, unreported>>

(***************************************************************************)
(* The hosts: the kernel's hid core and the processes behind it             *)
(***************************************************************************)

Queue(i, e) ==
    /\ host > 0 /\ ~members[i].k.gone /\ Len(members[i].k.q) < QueueLen
    /\ host' = host - 1
    /\ UNCHANGED <<roles, group, faults, unreported>>

HostEvent(i, e) ==
    /\ Queue(i, e)
    /\ members' = [members EXCEPT ![i].k.q = Append(@, e)]

\* The kernel admits one request at a time and numbers them.
HostRequest(i, kind, framed) ==
    LET id == members[i].k.next
        e == [t |-> kind, id |-> id, framed |-> framed]
    IN /\ Queue(i, e)
       /\ members[i].k.wait = <<>>
       /\ members' = [members EXCEPT ![i].k.q = Append(@, e),
                                     ![i].k.next = @ + 1,
                                     ![i].k.wait = <<[id |-> id, kind |-> kind]>>]

\* The host gives up on its request; the event stays in the queue.
HostTimeout(i) ==
    /\ members[i].k.wait # <<>>
    /\ members' = [members EXCEPT ![i].k.wait = <<>>]
    /\ UNCHANGED <<roles, group, host, faults, unreported>>

PlainEvents ==
    {[t |-> t, id |-> 0, framed |-> TRUE] : t \in {"stop", "lifecycle", "output", "unknown"}}
        \cup {[t |-> "output", id |-> 0, framed |-> FALSE]}

\* What a call may meet: the fates of its writes (for the reply that waits, the
\* reply or refusal of this call, the input report, UHID_DESTROY) and the
\* personality's reaction, as far as the state of the member lets them matter.
Unless(nothing) == IF nothing THEN {"ok"} ELSE Writes
Fates(m) ==
    {ws \in {<<reply, event, input, destroy>> :
               reply \in Unless(m.u.reply = <<>>), event \in Unless(m.k.q = <<>>),
               input \in Unless(m.u.input = "none" /\ m.k.q = <<>>), destroy \in {"ok", "lost"}} :
        Cost(ws) <= faults}
Lates(m) == IF m.u.reply = <<>> THEN {FALSE} ELSE BOOLEAN
Reacts(m) == IF m.k.q = <<>> THEN {"quiet"} ELSE {"quiet", "observe", "refuse", "fatal"}

\* A call whose clock has run backwards returns TimeReversed at once.
VisitReversed ==
    /\ group.visit # 0
    /\ Visit(Step(members[group.visit], "retry"), <<>>, [i \in DOMAIN members |-> "ok"])

VisitServed ==
    /\ group.visit # 0
    /\ LET m == members[group.visit]
       IN \E late \in Lates(m), react \in Reacts(m), ws \in Fates(m) :
             LET s == RuntimeService(m, late, react, ws)
             IN /\ ws[4] = "lost" => s.m.u.closed
                /\ \E ds \in Destroys(members) : Visit(s, ws, ds)

Requests == {[target |-> "usb", bus |-> 3], [target |-> "bluetooth", bus |-> 3],
             [target |-> "dummy_hcd", bus |-> 3]}

Next ==
    \/ \E r \in Requests, w \in Writes : Create(r, w)
    \/ \E ds \in Destroys(members) : Open(ds) \/ Close(ds)
    \/ ServiceCall
    \/ VisitReversed
    \/ VisitServed
    \/ Drop
    \/ \E i \in DOMAIN members :
          \/ Edit(i)
          \/ HostTimeout(i)
          \/ \E e \in PlainEvents : HostEvent(i, e)
          \/ \E kind \in {"get", "set"}, framed \in BOOLEAN :
                HostRequest(i, kind, framed)

Spec == Init /\ [][Next]_vars

(***************************************************************************)
(* Properties                                                               *)
(***************************************************************************)

\* The three layers agree on the one open request of a session: while it is
\* open the provider's pending_request, the transport's token and the runtime's
\* reply slot are all set and for the same request, or all free.  Otherwise
\* the next request would be refused as InvalidRequest or never be read.  What
\* the kernel has taken are replies to distinct requests in their order, each
\* of the kind that was asked, unless a short write made the session end.
RequestSlotsAgree ==
    \A i \in DOMAIN members :
        LET m == members[i]
        IN /\ ~m.u.closed /\ m.n.open =>
                 /\ (m.n.pending = <<>>) = (m.t.pending = <<>>)
                 /\ (m.t.pending = <<>>) = (m.u.reply = <<>>)
                 /\ m.u.reply # <<>> =>
                        /\ m.u.reply[1].token = m.t.pending[1].token
                        /\ m.n.pending[1] = [id |-> m.t.pending[1].id,
                                             kind |-> m.u.reply[1].kind]
           /\ \A a, b \in DOMAIN m.wrote : a < b => m.wrote[a].id < m.wrote[b].id
           /\ m.k.wait # <<>> /\ ~m.u.closed =>
                 \/ \E a \in DOMAIN m.k.q : m.k.q[a].id = m.k.wait[1].id
                                            /\ m.k.q[a].t = m.k.wait[1].kind
                 \/ m.n.pending = m.k.wait

\* The group lives and dies as one: between calls either every member is open,
\* or every member is closed and its device is gone, or the failure to remove
\* it is recorded under its role; a refused group leaves nothing behind
\* unrecorded either.  Every observation a member produced, also in a call
\* that failed, was returned in its cycle or counted as omitted.
GroupAsOne ==
    /\ group.visit = 0 /\ group.state \notin {"creating", "failed"} =>
          IF group.closed
          THEN \A i \in DOMAIN members :
                  /\ members[i].u.closed /\ members[i].t.closed /\ ~members[i].n.open
                  /\ members[i].k.gone \/ \E a \in DOMAIN group.cleanup : group.cleanup[a] = i
          ELSE \A i \in DOMAIN members : ~members[i].u.closed
    /\ group.visit = 0 => unreported = 0
    /\ group.cycle.outputs <= MaxOutputs

=============================================================================
