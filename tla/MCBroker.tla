------------------------------ MODULE MCBroker ------------------------------
(* The privileged daemon: two connections of one user to its audio broker, *)
(* with room for every session, and two connections to its gadget broker,  *)
(* which may pass the gate of require_dummy_hcd_contract or, as in the     *)
(* shipped build, not. All components are there in every behaviour and one *)
(* of them, part, runs; the variables of the others stay as they are.      *)
EXTENDS AudioBroker, TLC

CONSTANTS
  Parts,  \* the components that may run
  u1,    \* the user
  Udcs   \* authorized dummy UDCs

VARIABLES part, gate, gadgetDaemon, client, conn, gadgetReserved, nextId, gadget, journal,
          foreign, kept, blame, fault, gadgetCrashes

OneUser == [c \in Conns |-> u1]

\* Room for every session.
Roomy == [k \in {"conn", "sess"} |-> [global |-> 2, peer |-> 2]]

\* Two controllers to bind to and two gadgets.
Gadget == INSTANCE GadgetBroker WITH
  Udcs <- Udcs, MaxRoots <- 2, MaxFaults <- 1, MaxCrashes <- 1, daemon <- gadgetDaemon,
  reserved <- gadgetReserved, crashes <- gadgetCrashes

\* A component that does not run.
GadgetOff == gate = 0 /\ gadgetDaemon = 0 /\ client = 0 /\ conn = 0 /\ gadgetReserved = 0
    /\ nextId = 0 /\ gadget = 0 /\ journal = 0 /\ foreign = 0 /\ kept = 0 /\ blame = 0 /\ fault = 0
    /\ gadgetCrashes = 0

AllInit ==
  /\ part \in Parts
  /\ Init /\ (part # "audio" => \A p \in Ports : hub[p] = Free)
  /\ IF part = "gadget" THEN Gadget!Init ELSE GadgetOff

audioVars == vars
gadgetVars == <<gate, gadgetDaemon, client, conn, gadgetReserved, nextId, gadget, journal,
    foreign, kept, blame, fault, gadgetCrashes>>

AudioAlone == part = "audio" /\ UNCHANGED <<part, gadgetVars>>
GadgetAlone == part = "gadget" /\ UNCHANGED <<part, audioVars>>


\* The clients of the gadget broker may have done all they wanted.
MayStop == part = "gadget" /\ UNCHANGED <<part, audioVars, gadgetVars>>

AllNext ==
  \/ AudioAlone /\ Next
  \/ GadgetAlone /\ Gadget!Next
  \/ MayStop

allVars == <<part, audioVars, gadgetVars>>

AllSpec == AllInit /\ [][AllNext]_allVars

\* Connections of one user are interchangeable.
ConnSymmetry == Permutations(Conns)

-----------------------------------------------------------------------------
\* A gadget that drives a UDC has its ownership record; a connection that ends, whatever
\* failed in its open or while it was served, gives back gadget, record and UDC, and when
\* the release itself fails all that is left stays reserved and recorded for recovery; and
\* every answer a client takes is the one to its own request (dummy_hcd.rs open, close,
\* HostAccess::record, forget, BrokerClient).
GadgetsOwned == part = "gadget" => Gadget!GadgetRecorded /\ Gadget!ConnectionReleases /\ Gadget!AnswersMatch

\* The daemon never touches a gadget that is not its own, in recovery neither, and while
\* the contract gate refuses it touches nothing at all.
ForeignKept == [][part = "gadget" => Gadget!ForeignUntouched]_gadgetVars
=============================================================================
