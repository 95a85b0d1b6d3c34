--------------------------- MODULE GadgetBroker ---------------------------
(* Version 1 of the broker protocol and the dummy_hcd gadgets behind it       *)
(* (gr-privileged-broker/src/lib.rs, main.rs, dummy_hcd.rs, host_access.rs,   *)
(* gr-provider-linux-dummy-hcd/src/lib.rs): one thread and one registry per   *)
(* connection, gadgets built and removed step by step in ConfigFS, and a      *)
(* journal that must let the next daemon find what a dead one left.           *)
(*                                                                            *)
(* require_dummy_hcd_contract refuses every gadget in the present build: the  *)
(* behaviours with gate = FALSE are the shipped daemon, those with gate =     *)
(* TRUE are the same code once a transport meets the contract.                *)
EXTENDS Integers, Sequences, FiniteSets

CONSTANTS Conns,      \* client connections
          Udcs,       \* administrator-authorized dummy UDCs
          MaxRoots,   \* bound: gadget identifiers handed out
          MaxFaults,  \* bound: failing host calls
          MaxCrashes  \* bound: deaths of the daemon

VARIABLES gate,      \* require_dummy_hcd_contract
          daemon,    \* down, recovering or up (it then holds gadget.lock)
          client,    \* per connection: BrokerClient and provider session
          conn,      \* per connection: thread and registry
          reserved,  \* RESERVED_UDCS
          nextId,    \* next_gadget_id
          gadget,    \* external: ConfigFS, by gadget root
          journal,   \* ownership records: root -> UDC it names
          foreign,   \* external: UDC another process bound
          kept,      \* history: UDC whose release failed in this daemon, by gadget root
          blame,     \* history: why a root may outlive its connection
          fault, crashes

vars == <<gate, daemon, client, conn, reserved, nextId, gadget, journal, foreign, kept, blame,
          fault, crashes>>

Roots == 1..MaxRoots
None == "none"
NoRoot == 0

NoGadget == [st |-> "absent", udc |-> None, ours |-> TRUE]
Idle == [pc |-> "idle", root |-> NoRoot, udc |-> None, node |-> NoRoot, known |-> {}, seen |-> {},
         created |-> FALSE, recorded |-> FALSE, session |-> FALSE, answer |-> None, op |-> None]
Fresh == [state |-> "new", stream |-> FALSE, asked |-> None, wire |-> <<>>]

Init ==
    /\ gate \in BOOLEAN
    /\ daemon = "up"
    /\ client = [c \in Conns |-> Fresh]
    /\ conn = [c \in Conns |-> Idle]
    /\ reserved = {}
    /\ nextId = 1
    /\ gadget = [r \in Roots |-> NoGadget]
    /\ journal = [r \in Roots |-> None]
    /\ foreign = {}
    /\ kept = [r \in Roots |-> None]
    /\ blame = [r \in Roots |-> {}]
    /\ fault = 0 /\ crashes = 0

Up == daemon = "up"
Bound(r) == gadget[r].st = "bound"
MayFail == fault < MaxFaults
BoundUdcs == foreign \cup {gadget[r].udc : r \in {x \in Roots : Bound(x)}}
Live == {conn[c].root : c \in Conns} \ {NoRoot}
Spend(ok) == IF ok THEN fault' = fault ELSE MayFail /\ fault' = fault + 1

---------------------------------------------------------------------------
(* The client: one request at a time, and a stream that is shut down as soon *)
(* as an answer is late, so that it cannot answer the next request.          *)

Ask(c, op) ==
    /\ Up /\ client[c].asked = None
    /\ client' = [client EXCEPT ![c].asked = op, ![c].stream = TRUE]
    /\ conn' = [conn EXCEPT ![c].op = op]
    /\ UNCHANGED <<gate, daemon, reserved, nextId, gadget, journal, foreign, kept, blame, fault, crashes>>

AskOpen(c) == client[c].state = "new" /\ Ask(c, "open")
\* An open session; a frame of another length is refused before it is sent.
AskSend(c) == client[c].state = "Open" /\ Ask(c, "send")
AskPoll(c) == client[c].state = "Open" /\ Ask(c, "poll")
AskClose(c) == client[c].state = "Open" /\ Ask(c, "close")

\* The provider session: whatever fails, it is Closed; an open that fails gives
\* no session, and its connection is dropped.
Settled(cl, ok) ==
    [cl EXCEPT !.asked = None,
       !.state = CASE ~ok /\ cl.asked = "open" -> "gone"
                   [] ~ok /\ cl.asked # "open" -> "Closed"
                   [] ok -> IF cl.asked = "close" THEN "Closed" ELSE "Open",
       !.stream = @ /\ (ok \/ cl.asked # "open")]

Receive(c) ==
    /\ client[c].asked # None /\ client[c].wire # <<>>
    /\ client' = [client EXCEPT ![c] =
                    [Settled(@, Head(@.wire).ok) EXCEPT !.wire = Tail(@)]]
    /\ UNCHANGED <<gate, daemon, conn, reserved, nextId, gadget, journal, foreign, kept, blame, fault, crashes>>

\* BrokerClient::request after its one-second timeout or the end of the stream:
\* the stream is shut down, so that a late answer is never the next one's.
GiveUp(cl) == [Settled(cl, FALSE) EXCEPT !.stream = FALSE, !.wire = <<>>]

TimeOut(c) ==
    /\ client[c].asked # None /\ client[c].wire = <<>>
    /\ client' = [client EXCEPT ![c] = GiveUp(@)]
    /\ UNCHANGED <<gate, daemon, conn, reserved, nextId, gadget, journal, foreign, kept, blame, fault, crashes>>

\* The application drops its provider session and with it the stream.
Leave(c) ==
    /\ client[c].state \in {"Open", "Closed"} /\ client[c].asked = None
    /\ client' = [client EXCEPT ![c].state = "gone", ![c].stream = FALSE]
    /\ UNCHANGED <<gate, daemon, conn, reserved, nextId, gadget, journal, foreign, kept, blame, fault, crashes>>

---------------------------------------------------------------------------
(* serve and dispatch: a request is answered when its handler is done.       *)

Answered(t) == [t EXCEPT !.pc = "idle", !.op = None]

\* write_message: nothing reaches a client that shut its stream down.
Reply(c, ok) ==
    client' = [client EXCEPT ![c].wire =
                 IF client[c].stream THEN Append(@, [op |-> conn[c].op, ok |-> ok]) ELSE <<>>]

Step(c, pc) == Up /\ conn[c].pc = pc

\* BrokerRegistry::open: policy, admission (shared with the audio sessions, so
\* there may be no room), the gate, then the factory with a fresh identifier.
OpenBegin(c) ==
    /\ Step(c, "idle") /\ conn[c].op = "open"
    /\ \E room \in BOOLEAN :
         IF room /\ gate /\ nextId <= MaxRoots
         THEN /\ conn' = [conn EXCEPT ![c] = [@ EXCEPT !.pc = "reserve", !.session = TRUE,
                            !.root = nextId, !.known = {r \in Roots : Bound(r)}, !.seen = BoundUdcs]]
              /\ nextId' = nextId + 1
              /\ UNCHANGED client
         ELSE /\ conn' = [conn EXCEPT ![c] = Answered(@)]
              /\ Reply(c, FALSE)
              /\ UNCHANGED nextId
    /\ UNCHANGED <<gate, daemon, reserved, gadget, journal, foreign, kept, blame, fault, crashes>>

\* select_authorized_udc: the reservations are read under their lock, the bindings
\* were read before it.
Selectable(seen) == (Udcs \ reserved) \ seen

ReserveUdc(c) ==
    /\ Step(c, "reserve")
    /\ IF Selectable(conn[c].seen) = {}
       THEN /\ conn' = [conn EXCEPT ![c].pc = "refused"]
            /\ UNCHANGED reserved
       ELSE \E u \in Selectable(conn[c].seen) :
              /\ reserved' = reserved \cup {u}
              /\ conn' = [conn EXCEPT ![c].pc = "create", ![c].udc = u]
    /\ UNCHANGED <<gate, daemon, client, nextId, gadget, journal, foreign, kept, blame, fault, crashes>>

CreateRoot(c) ==
    /\ Step(c, "create")
    /\ \E ok \in BOOLEAN :
         /\ Spend(ok)
         /\ gadget' = IF ok THEN [gadget EXCEPT ![conn[c].root] = [NoGadget EXCEPT !.st = "dir"]]
                      ELSE gadget
         /\ conn' = [conn EXCEPT ![c].pc = IF ok THEN "record" ELSE "rollback", ![c].created = ok]
    /\ UNCHANGED <<gate, daemon, client, reserved, nextId, journal, foreign, kept, blame, crashes>>

\* HostAccess::record: written and synced before the gadget can be bound. When
\* it fails the file may be missing, torn or whole.
RecordRoot(c) ==
    /\ Step(c, "record")
    /\ \E ok \in BOOLEAN, left \in {None, "torn", conn[c].udc} :
         /\ Spend(ok) /\ (ok => left = conn[c].udc)
         /\ journal' = [journal EXCEPT ![conn[c].root] = left]
         /\ blame' = IF ok THEN blame ELSE [blame EXCEPT ![conn[c].root] = @ \cup {"record"}]
         /\ conn' = [conn EXCEPT ![c].pc = IF ok THEN "setup" ELSE "rollback", ![c].recorded = ok]
    /\ UNCHANGED <<gate, daemon, client, reserved, nextId, gadget, foreign, kept, crashes>>

\* setup_contents: attributes, strings, configuration, function, link.
SetupContents(c) ==
    /\ Step(c, "setup")
    /\ \E ok \in BOOLEAN :
         /\ Spend(ok)
         /\ gadget' = [gadget EXCEPT ![conn[c].root].st = IF ok THEN "setup" ELSE @]
         /\ conn' = [conn EXCEPT ![c].pc = IF ok THEN "bind" ELSE "rollback"]
    /\ UNCHANGED <<gate, daemon, client, reserved, nextId, journal, foreign, kept, blame, crashes>>

\* Writing UDC: the kernel refuses a controller someone else has bound.
BindUdc(c) ==
    /\ Step(c, "bind")
    /\ \E ok \in BOOLEAN :
         /\ IF conn[c].udc \in BoundUdcs THEN ~ok /\ UNCHANGED fault ELSE Spend(ok)
         /\ gadget' = IF ok THEN [gadget EXCEPT ![conn[c].root] =
                                    [@ EXCEPT !.st = "bound", !.udc = conn[c].udc]]
                      ELSE gadget
         /\ conn' = [conn EXCEPT ![c].pc = IF ok THEN "configured" ELSE "rollback"]
    /\ UNCHANGED <<gate, daemon, client, reserved, nextId, journal, foreign, kept, blame, crashes>>

\* wait_until_configured and wait_node: the first endpoint that was not there
\* before this open began, whoever made it.
TakeNode(c) ==
    /\ Step(c, "configured")
    /\ \E ok \in BOOLEAN :
         /\ Spend(ok)
         /\ IF ok THEN \E r \in {x \in Roots : Bound(x)} \ conn[c].known :
                         conn' = [conn EXCEPT ![c].pc = "features", ![c].node = r]
            ELSE conn' = [conn EXCEPT ![c].pc = "rollback"]
    /\ UNCHANGED <<gate, daemon, client, reserved, nextId, gadget, journal, foreign, kept, blame, crashes>>

\* service_initial_feature_requests and the static replies; an error drops the
\* session, whose Drop closes it.
Features(c) ==
    /\ Step(c, "features")
    /\ \E ok \in BOOLEAN :
         /\ Spend(ok)
         /\ IF ok THEN conn' = [conn EXCEPT ![c] = Answered(@)] /\ Reply(c, TRUE)
            ELSE conn' = [conn EXCEPT ![c].pc = "cleanup", ![c].answer = "error"] /\ UNCHANGED client
    /\ UNCHANGED <<gate, daemon, reserved, nextId, gadget, journal, foreign, kept, blame, crashes>>

---------------------------------------------------------------------------
(* Removal. cleanup() tries every step in dependency order and reports the   *)
(* first failure: the gadget is gone, or something of it may still be there. *)

Cleaned(r, ok) ==
    IF ok THEN {NoGadget}
    ELSE {gadget[r], NoGadget} \cup
         (IF gadget[r].st = "absent" THEN {} ELSE {[gadget[r] EXCEPT !.st = "residue", !.udc = None]})

\* History: the release of what connection c holds succeeded or not.
Released(c, ok) ==
    /\ kept' = IF ok THEN kept ELSE [kept EXCEPT ![conn[c].root] = conn[c].udc]
    /\ blame' = IF ok THEN blame ELSE [blame EXCEPT ![conn[c].root] = @ \cup {"removal"}]

\* BrokerPolicy: the session was opened on this connection and not closed since.
Owned(c) == conn[c].session

Answer(c, ok) == conn' = [conn EXCEPT ![c] = Answered(@)] /\ Reply(c, ok)

\* Policy entry, permit and session leave the registry before the host is closed.
Closing(t, answer) == [t EXCEPT !.pc = "cleanup", !.answer = answer, !.session = FALSE]

\* terminal_on_host_error: a host error ends the session.
Terminal(c) == conn' = [conn EXCEPT ![c] = Closing(@, "error")] /\ UNCHANGED client

ServeSend(c) ==
    \/ Answer(c, Owned(c)) /\ UNCHANGED fault
    \/ Owned(c) /\ Spend(FALSE) /\ Terminal(c)

\* An output, nothing, or a host GET_REPORT: one for an unknown feature is
\* terminal as well, f_hid has no negative answer.
ServePoll(c) ==
    \/ Answer(c, Owned(c)) /\ UNCHANGED fault
    \/ Owned(c) /\ Terminal(c) /\ (UNCHANGED fault \/ Spend(FALSE))

ServeClose(c) ==
    /\ IF Owned(c) THEN conn' = [conn EXCEPT ![c] = Closing(@, "ok")] /\ UNCHANGED client
       ELSE Answer(c, FALSE)
    /\ UNCHANGED fault

\* dispatch, by the request's tag.
Serve(c) ==
    /\ Step(c, "idle")
    /\ \/ conn[c].op = "send" /\ ServeSend(c)
       \/ conn[c].op = "poll" /\ ServePoll(c)
       \/ conn[c].op = "close" /\ ServeClose(c)
    /\ UNCHANGED <<gate, daemon, reserved, nextId, gadget, journal, foreign, kept, blame, crashes>>

\* The stream ended: BrokerRegistry::drop closes what the connection owns.
Disconnect(c) ==
    /\ Step(c, "idle") /\ ~client[c].stream /\ client[c].state # "new" /\ conn[c].op = None
    /\ conn' = [conn EXCEPT ![c] =
                  IF conn[c].session
                  THEN Closing(@, None)
                  ELSE [@ EXCEPT !.pc = "ended"]]
    /\ UNCHANGED <<gate, daemon, client, reserved, nextId, gadget, journal, foreign, kept, blame, fault, crashes>>

\* DummyHcdSession::close, first half, and rollback_created.
CleanUp(c) ==
    /\ \/ Step(c, "cleanup") \/ (Step(c, "rollback") /\ conn[c].created)
    /\ \E ok \in BOOLEAN :
         /\ Spend(ok)
         /\ \E g \in Cleaned(conn[c].root, ok) : gadget' = [gadget EXCEPT ![conn[c].root] = g]
         /\ conn' = [conn EXCEPT ![c].pc = IF ok THEN "forget" ELSE "refused"]
         /\ Released(c, ok)
    /\ UNCHANGED <<gate, daemon, client, reserved, nextId, journal, foreign, crashes>>

RollbackNothing(c) ==
    /\ Step(c, "rollback") /\ ~conn[c].created
    /\ conn' = [conn EXCEPT ![c].pc = "forget"]
    /\ UNCHANGED <<gate, daemon, client, reserved, nextId, gadget, journal, foreign, kept, blame, fault, crashes>>

\* FaultyForget releases the UDC only with its record: an open that failed before the
\* record was written keeps it.
FaultyForget(c) ==
    /\ Step(c, "forget")
    /\ \E ok \in BOOLEAN :
         /\ Spend(ok)
         /\ ok => conn[c].node \in {NoRoot} \cup {r \in Roots : ~Bound(r)}
         /\ ~ok => conn[c].recorded
         /\ journal' = IF ok /\ conn[c].recorded THEN [journal EXCEPT ![conn[c].root] = None] ELSE journal
         /\ reserved' = IF ok /\ conn[c].recorded THEN reserved \ {conn[c].udc} ELSE reserved
         /\ conn' = [conn EXCEPT ![c].pc = IF ok /\ conn[c].answer = "ok" THEN "removed" ELSE "refused",
                                 ![c].udc = IF ok THEN None ELSE @]
         /\ Released(c, ok)
    /\ UNCHANGED <<gate, daemon, client, nextId, gadget, foreign, crashes>>

\* A closing session waits until its endpoint is gone; the record is removed, and
\* only then the UDC becomes selectable again. A rollback has no endpoint, and
\* removes the record only if it was written, without which nothing can fail.
Forget(c) ==
    /\ Step(c, "forget")
    /\ \E ok \in BOOLEAN :
         /\ Spend(ok)
         /\ ok => conn[c].node \in {NoRoot} \cup {r \in Roots : ~Bound(r)}
         /\ ~ok => conn[c].recorded
         /\ journal' = IF ok /\ conn[c].recorded THEN [journal EXCEPT ![conn[c].root] = None] ELSE journal
         /\ reserved' = IF ok THEN reserved \ {conn[c].udc} ELSE reserved
         /\ conn' = [conn EXCEPT ![c].pc = IF ok /\ conn[c].answer = "ok" THEN "removed" ELSE "refused",
                                 ![c].udc = IF ok THEN None ELSE @]
         /\ Released(c, ok)
    /\ UNCHANGED <<gate, daemon, client, nextId, gadget, foreign, crashes>>

\* The answer of an open that failed or of a removal; a failed removal leaves
\* reservation and record for recovery.
Finish(c) ==
    /\ Up /\ conn[c].pc \in {"removed", "refused"}
    /\ IF conn[c].op = None THEN UNCHANGED client ELSE Reply(c, conn[c].pc = "removed")
    /\ conn' = [conn EXCEPT ![c] = [Idle EXCEPT !.pc = IF conn[c].op = None THEN "ended" ELSE "idle"]]
    /\ UNCHANGED <<gate, daemon, reserved, nextId, gadget, journal, foreign, kept, blame, fault, crashes>>

---------------------------------------------------------------------------
(* The daemon dies; the next one recovers before it listens.                 *)

Crash ==
    /\ Up /\ crashes < MaxCrashes
    /\ daemon' = "down" /\ crashes' = crashes + 1
    /\ conn' = [c \in Conns |-> [Idle EXCEPT !.pc = "ended"]]
    /\ client' = [c \in Conns |-> IF client[c].stream
                                  THEN [GiveUp(client[c]) EXCEPT !.state = "gone"] ELSE client[c]]
    /\ reserved' = {}
    /\ kept' = [r \in Roots |-> None]
    /\ blame' = [r \in Roots |-> blame[r] \cup (IF r \in Live THEN {"crash"} ELSE {})]
    /\ \E torn \in SUBSET {conn[c].root : c \in {x \in Conns : conn[x].pc = "record"}} :
         journal' = [r \in Roots |-> IF r \in torn THEN "torn" ELSE journal[r]]
    /\ UNCHANGED <<gate, nextId, gadget, foreign, fault>>

\* HostAccess::recoverable: every record must be whole and name a gadget that is
\* gone, or is the one it was written for with no other binding.
FaultyRecoverable == TRUE

Recoverable ==
    \A r \in Roots : journal[r] # None =>
        /\ journal[r] # "torn"
        /\ \/ gadget[r].st = "absent"
           \/ gadget[r].ours /\ gadget[r].udc \in {None, journal[r]}

\* main: a daemon started by its socket recovers before it listens; one that was
\* started by hand must not touch what it finds.
Restart(activated) ==
    /\ daemon = "down"
    /\ activated => Recoverable
    /\ daemon' = IF activated THEN "recovering" ELSE "up"
    /\ conn' = [c \in Conns |-> IF client[c].state = "new" THEN Idle ELSE conn[c]]
    /\ UNCHANGED <<gate, client, reserved, nextId, gadget, journal, foreign, kept, blame, fault, crashes>>

\* cleanup_stale_sessions: one root after the other; a failure ends the daemon.
Recover ==
    /\ daemon = "recovering"
    /\ \E r \in Roots :
         /\ journal[r] # None
         /\ \E ok \in BOOLEAN : \E g \in IF gadget[r].st = "absent" THEN {NoGadget} ELSE Cleaned(r, ok) :
              /\ Spend(ok)
              /\ gadget' = [gadget EXCEPT ![r] = g]
              /\ journal' = IF ok THEN [journal EXCEPT ![r] = None] ELSE journal
              /\ blame' = IF ok THEN [blame EXCEPT ![r] = {}] ELSE blame
              /\ daemon' = IF ok THEN daemon ELSE "down"
    /\ UNCHANGED <<gate, client, conn, reserved, nextId, foreign, kept, crashes>>

Listen ==
    /\ daemon = "recovering" /\ \A r \in Roots : journal[r] = None
    /\ daemon' = "up"
    /\ UNCHANGED <<gate, client, conn, reserved, nextId, gadget, journal, foreign, kept, blame, fault, crashes>>

\* external: another process binds or frees a UDC, and while no daemon runs it
\* may replace a gadget under the same name.
AdminBind ==
    /\ \E u \in Udcs \ {gadget[r].udc : r \in Roots} :
         foreign' = IF u \in foreign THEN foreign \ {u} ELSE foreign \cup {u}
    /\ Cardinality(foreign') <= 1
    /\ UNCHANGED <<gate, daemon, client, conn, reserved, nextId, gadget, journal, kept, blame, fault, crashes>>

AdminReplace ==
    /\ daemon = "down"
    /\ \E r \in Roots :
         /\ gadget[r].st \in {"dir", "setup", "residue"} /\ gadget[r].ours
         /\ gadget' = [gadget EXCEPT ![r] = [st |-> "setup", udc |-> None, ours |-> FALSE]]
    /\ UNCHANGED <<gate, daemon, client, conn, reserved, nextId, journal, foreign, kept, blame, fault, crashes>>

Open(c) ==
    \/ OpenBegin(c) \/ ReserveUdc(c) \/ CreateRoot(c) \/ RecordRoot(c)
    \/ SetupContents(c) \/ BindUdc(c) \/ TakeNode(c) \/ Features(c)
Remove(c) == CleanUp(c) \/ RollbackNothing(c) \/ Forget(c) \/ Finish(c)

Next ==
    \/ \E c \in Conns :
         \/ AskOpen(c) \/ AskSend(c) \/ AskPoll(c) \/ AskClose(c)
         \/ Receive(c) \/ TimeOut(c) \/ Leave(c)
         \/ Open(c) \/ Serve(c) \/ Disconnect(c) \/ Remove(c)
    \/ Crash \/ (\E activated \in BOOLEAN : Restart(activated)) \/ Recover \/ Listen \/ AdminBind \/ AdminReplace

Spec == Init /\ [][Next]_vars

---------------------------------------------------------------------------
(* A gadget that drives a UDC can always be found again after a crash: its    *)
(* record was durable before it was bound and names that UDC. And a UDC is    *)
(* given to one open at a time, never one that another gadget drives.         *)
GadgetRecorded ==
    /\ \A r \in Roots : Bound(r) => journal[r] = gadget[r].udc /\ gadget[r].ours
    /\ \A c \in Conns : conn[c].udc # None =>
         /\ conn[c].udc \in reserved
         /\ \A d \in Conns : c # d => conn[d].udc # conn[c].udc
         /\ \A r \in Roots : Bound(r) /\ r # conn[c].root => gadget[r].udc # conn[c].udc

(* Recovery removes only what a daemon made, and the shipped gate keeps the  *)
(* daemon away from ConfigFS altogether.                                      *)
ForeignUntouched ==
    /\ \A r \in Roots : ~gadget[r].ours => gadget'[r] = gadget[r]
    /\ ~gate => gadget' = gadget /\ reserved' = {}

\* See ForeignUntouched.
ForeignKept == [][ForeignUntouched]_vars

(* A connection that ends gives back all it held, however far its open came,  *)
(* unless the release itself failed: then the UDC stays reserved and the      *)
(* record in place, and no other open gets the UDC, until the daemon dies. A  *)
(* gadget or record of no connection is one whose release failed, whose       *)
(* daemon died or, a record alone, whose writing failed.                      *)
ConnectionReleases ==
    /\ reserved = ({conn[c].udc : c \in Conns} \cup {kept[r] : r \in Roots}) \ {None}
    /\ \A r \in Roots, c \in Conns : kept[r] # None /\ conn[c].root # r => conn[c].udc # kept[r]
    /\ \A r \in Roots \ Live :
         /\ gadget[r].st # "absent" => blame[r] \cap {"removal", "crash"} # {}
         /\ journal[r] # None => blame[r] # {}
         /\ kept[r] # None /\ "record" \notin blame[r] => journal[r] = kept[r]

(* No answer is taken for that of another request, however late it comes.     *)
AnswersMatch ==
    \A c \in Conns : client[c].asked # None /\ client[c].wire # <<>> =>
        client[c].wire[1].op = client[c].asked
=============================================================================
