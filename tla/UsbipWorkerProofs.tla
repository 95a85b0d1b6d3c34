--------------------------- MODULE UsbipWorkerProofs ---------------------------
(***************************************************************************)
(* Safety of one connection of the USB/IP device worker for every number   *)
(* of slots, timeout, socket size and script of the kernel: its types, its *)
(* deadlines, the pace and the books of its audio streams, and that every  *)
(* transfer is answered exactly once.  MCUsbipWorker checks the same       *)
(* invariants on small instances.                                          *)
(***************************************************************************)
EXTENDS UsbipWorker, FiniteSetTheorems, FunctionTheorems, SequenceTheorems, WellFoundedInduction, TLAPS

-----------------------------------------------------------------------------
(* The packets held and the greatest instant.                              *)

\* A finite nonempty set of instants has a greatest one, which Ready takes.
LEMMA GreatestInstant ==
  ASSUME NEW S \in SUBSET Nat, IsFiniteSet(S), S # {}
  PROVE  Max(S) \in S /\ \A y \in S : y <= Max(S)
<1> DEFINE Bounded(T) == \E x \in T : \A y \in T : y <= x
           Worse == {n \in Nat : \E T \in SUBSET Nat : IsFiniteSet(T) /\ T # {} /\ Cardinality(T) = n /\ ~ Bounded(T)}
<1>1. Worse = {}
  <2>1. SUFFICES ASSUME Worse # {} PROVE FALSE
    OBVIOUS
  <2>2. PICK n \in Worse : \A m \in Worse : ~ (<<m, n>> \in OpToRel(<, Nat))
    <3>1. IsWellFoundedOn(OpToRel(<, Nat), Nat)
      BY NatLessThanWellFounded
    <3>2. Worse \subseteq Nat
      OBVIOUS
    <3> HIDE DEF Worse
    <3>3. QED
      BY <2>1, <3>1, <3>2, WFMin
  <2>3. PICK T \in SUBSET Nat : IsFiniteSet(T) /\ T # {} /\ Cardinality(T) = n /\ ~ Bounded(T)
    BY <2>2
  <2>4. PICK x \in T : TRUE
    BY <2>3
  <2>5. /\ IsFiniteSet(T \ {x}) /\ Cardinality(T \ {x}) = n - 1
        /\ n \in Nat /\ Cardinality(T \ {x}) \in Nat
    BY <2>2, <2>3, <2>4, FS_RemoveElement, FS_CardinalityType
  <2>6. CASE T \ {x} = {}
    BY <2>3, <2>4, <2>6
  <2>7. CASE T \ {x} # {}
    <3>1. n - 1 \notin Worse
      <4>1. <<n - 1, n>> \in OpToRel(<, Nat)
        BY <2>5 DEF OpToRel
      <4>2. QED
        BY <2>2, <4>1, Zenon
    <3>2. Bounded(T \ {x})
      BY <2>5, <2>7, <3>1
    <3>3. PICK m \in T \ {x} : \A y \in T \ {x} : y <= m
      BY <3>2
    <3>4. CASE x <= m
      BY <2>3, <2>4, <3>3, <3>4
    <3>5. CASE m < x
      <4>1. \A y \in T : y <= x
        BY <2>4, <3>3, <3>5
      <4>2. QED
        BY <2>3, <2>4, <4>1
    <3>6. QED
      BY <3>3, <3>4, <3>5
  <2>8. QED
    BY <2>6, <2>7
<1>2. Bounded(S)
  <2>1. Cardinality(S) \in Nat
    BY FS_CardinalityType
  <2>2. QED
    BY <1>1, <2>1
<1>3. PICK x \in S : \A y \in S : x >= y
  BY <1>2
<1>4. QED
  BY <1>3 DEF Max

\* The packets that slots in S hold, for any content c of the table.
PacketsIn(c, S) == UNION {{i} \X (1..c[i].captured) : i \in S}

\* The packets held are finitely many when the slots are.
LEMMA PacketsFinite ==
  ASSUME NEW c, NEW S, IsFiniteSet(S), \A i \in S : c[i].captured \in Nat
  PROVE  IsFiniteSet(PacketsIn(c, S))
<1> DEFINE P(i) == {i} \X (1..c[i].captured)
           f == [i \in S |-> P(i)]
           T == {P(i) : i \in S}
<1>1. f \in Surjection(S, T)
  BY DEF Surjection
<1>2. IsFiniteSet(T)
  BY <1>1, FS_Surjection
<1>3. ASSUME NEW i \in S PROVE IsFiniteSet(P(i))
  <2> DEFINE n == c[i].captured
  <2>0. n \in Int /\ 1 \in Int
    OBVIOUS
  <2> HIDE DEF n
  <2>1. IsFiniteSet({i}) /\ IsFiniteSet(1..n)
    BY <2>0, FS_Singleton, FS_Interval, Zenon
  <2>3. IsFiniteSet({i} \X (1..n))
    BY <2>1, FS_Product, Zenon
  <2>2. QED
    BY <2>3 DEF n
<1>4. \A U \in T : IsFiniteSet(U)
  BY <1>3
<1>5. IsFiniteSet(UNION T)
  BY <1>2, <1>4, FS_UNION
<1>6. QED
  BY <1>5 DEF PacketsIn

\* The packets of some slots and those of the others make up all of them.
LEMMA PacketsSplit ==
  ASSUME NEW c, NEW S, IsFiniteSet(S), \A i \in S : c[i].captured \in Nat, NEW R \in SUBSET S
  PROVE  /\ Cardinality(PacketsIn(c, S)) = Cardinality(PacketsIn(c, S \ R)) + Cardinality(PacketsIn(c, R))
         /\ Cardinality(PacketsIn(c, S)) \in Nat
         /\ Cardinality(PacketsIn(c, S \ R)) \in Nat /\ Cardinality(PacketsIn(c, R)) \in Nat
<1>1. IsFiniteSet(R) /\ IsFiniteSet(S \ R)
  BY FS_Subset
<1>2. IsFiniteSet(PacketsIn(c, R)) /\ IsFiniteSet(PacketsIn(c, S \ R)) /\ IsFiniteSet(PacketsIn(c, S))
  BY <1>1, PacketsFinite
<1>3. PacketsIn(c, S) = PacketsIn(c, S \ R) \cup PacketsIn(c, R)
  BY DEF PacketsIn
<1>4. PacketsIn(c, S \ R) \cap PacketsIn(c, R) = {}
  <2>1. \A p \in PacketsIn(c, S \ R) : p[1] \notin R
    BY DEF PacketsIn
  <2>2. \A p \in PacketsIn(c, R) : p[1] \in R
    BY DEF PacketsIn
  <2>3. QED
    BY <2>1, <2>2
<1>5. Cardinality(PacketsIn(c, S \ R) \cap PacketsIn(c, R)) = 0
  BY <1>4, FS_EmptySet
<1>6. Cardinality(PacketsIn(c, S \ R) \cup PacketsIn(c, R)) =
       Cardinality(PacketsIn(c, S \ R)) + Cardinality(PacketsIn(c, R))
         - Cardinality(PacketsIn(c, S \ R) \cap PacketsIn(c, R))
  BY <1>2, FS_Union, Zenon
<1>7. /\ Cardinality(PacketsIn(c, S)) \in Nat
      /\ Cardinality(PacketsIn(c, S \ R)) \in Nat /\ Cardinality(PacketsIn(c, R)) \in Nat
  BY <1>2, FS_CardinalityType, Zenon
<1>8. QED
  BY <1>3, <1>5, <1>6, <1>7

\* One slot holds as many packets as its transfer has captured.
LEMMA PacketsOne ==
  ASSUME NEW c, NEW i, c[i].captured \in Nat
  PROVE  Cardinality(PacketsIn(c, {i})) = c[i].captured
<1> DEFINE n == c[i].captured
<1>1. PacketsIn(c, {i}) = {i} \X (1..n)
  BY DEF PacketsIn
<1>2. IsFiniteSet({i}) /\ Cardinality({i}) = 1
  BY FS_Singleton, Zenon
<1>3. IsFiniteSet(1..n) /\ Cardinality(1..n) = n
  <2>1. 1 \in Int /\ n \in Int /\ (IF 1 > n THEN 0 ELSE n - 1 + 1) = n
    OBVIOUS
  <2>2. QED
    BY <2>1, FS_Interval, Zenon
<1> HIDE DEF n
<1>4. Cardinality({i} \X (1..n)) = Cardinality({i}) * Cardinality(1..n)
  BY <1>2, <1>3, FS_Product, Zenon
<1>5. n \in Nat
  BY DEF n
<1>6. Cardinality(PacketsIn(c, {i})) = Cardinality({i} \X (1..n))
  BY <1>1, Zenon
<1>7. Cardinality(PacketsIn(c, {i})) = n
  BY <1>2, <1>3, <1>4, <1>5, <1>6
<1>8. QED
  BY <1>7 DEF n

\* Only the captured counts matter: a change of anything else in the table moves no packet.
LEMMA PacketsSame ==
  ASSUME NEW c, NEW d, NEW S, \A i \in S : c[i].captured = d[i].captured
  PROVE  PacketsIn(c, S) = PacketsIn(d, S)
BY DEF PacketsIn

-----------------------------------------------------------------------------
(* How many elements of a sequence belong to a set.                        *)

\* How many elements of sequence s belong to P.
Count(s, P) == Cardinality({k \in DOMAIN s : s[k] \in P})

\* A sequence has finitely many such elements.
LEMMA CountFinite ==
  ASSUME NEW X, NEW s \in Seq(X), NEW P
  PROVE  /\ IsFiniteSet({k \in DOMAIN s : s[k] \in P})
         /\ Count(s, P) \in Nat
<1> DEFINE K == {k \in DOMAIN s : s[k] \in P}
<1>1. IsFiniteSet(1..Len(s)) /\ DOMAIN s = 1..Len(s)
  <2>1. 1 \in Int /\ Len(s) \in Int /\ DOMAIN s = 1..Len(s)
    OBVIOUS
  <2>2. QED
    BY <2>1, FS_Interval, Zenon
<1>2. K \in SUBSET (1..Len(s))
  BY <1>1
<1>3. IsFiniteSet(K)
  BY <1>1, <1>2, FS_Subset, Zenon
<1>4. Cardinality(K) \in Nat
  BY <1>3, FS_CardinalityType, Zenon
<1>5. QED
  BY <1>3, <1>4 DEF Count

\* Counting goes through concatenation, which a write of several units is.
LEMMA CountConcat ==
  ASSUME NEW X, NEW s \in Seq(X), NEW t \in Seq(X), NEW P
  PROVE  Count(s \o t, P) = Count(s, P) + Count(t, P)
<1> DEFINE A == {k \in DOMAIN s : s[k] \in P}
           B == {k \in DOMAIN t : t[k] \in P}
           C == {k \in DOMAIN (s \o t) : (s \o t)[k] \in P}
           D == {k \in C : k > Len(s)}
           n == Len(s)
           f == [k \in B |-> k + n]
<1>1. s \o t \in Seq(X) /\ n \in Nat /\ Len(t) \in Nat /\ Len(s \o t) = n + Len(t)
      /\ DOMAIN s = 1..n /\ DOMAIN t = 1..Len(t)
      /\ (\A k \in 1..n : (s \o t)[k] = s[k])
      /\ (\A k \in 1..Len(t) : (s \o t)[k + n] = t[k])
  BY ConcatProperties
<1>2. IsFiniteSet(A) /\ IsFiniteSet(B) /\ IsFiniteSet(C)
  <2>1. s \o t \in Seq(X)
    BY <1>1
  <2>2. QED
    BY <2>1, CountFinite, Zenon
<1>3. D \in SUBSET C
  OBVIOUS
<1>4. IsFiniteSet(D)
  BY <1>2, <1>3, FS_Subset, Zenon
<1>5. DOMAIN (s \o t) = 1..(n + Len(t))
  BY <1>1
<1>6. C = A \cup D /\ A \cap D = {}
  BY <1>1, <1>5
<1>7. f \in Bijection(B, D)
  <2>1. f \in [B -> D]
    BY <1>1, <1>5
  <2>2. \A j, k \in B : f[j] = f[k] => j = k
    BY <1>1
  <2>3. \A d \in D : \E k \in B : f[k] = d
    <3>1. SUFFICES ASSUME NEW d \in D PROVE \E k \in B : f[k] = d
      OBVIOUS
    <3>2. d - n \in 1..Len(t) /\ (d - n) + n = d
      BY <1>1, <1>5
    <3>3. t[d - n] \in P
      BY <1>1, <3>2
    <3>4. QED
      BY <1>1, <3>2, <3>3
  <2>4. QED
    BY <2>1, <2>2, <2>3 DEF Bijection, Injection, Surjection, IsInjective
<1>8. Cardinality(D) = Cardinality(B)
  <2>1. ExistsBijection(B, D)
    BY <1>7 DEF ExistsBijection
  <2>2. QED
    BY <1>2, <2>1, FS_Bijection, Zenon
<1>9. Cardinality(A \cup D) = Cardinality(A) + Cardinality(D) - Cardinality(A \cap D)
  BY <1>2, <1>4, FS_Union, Zenon
<1>10. Cardinality(A \cap D) = 0
  BY <1>6, FS_EmptySet
<1>11. Cardinality(A) \in Nat /\ Cardinality(D) \in Nat
  BY <1>2, <1>4, FS_CardinalityType, Zenon
<1>12. Cardinality(C) = Cardinality(A \cup D)
  BY <1>6
<1> HIDE DEF A, B, C, D
<1>13. Cardinality(C) = Cardinality(A) + Cardinality(B)
  BY <1>8, <1>9, <1>10, <1>11, <1>12
<1>14. QED
  BY <1>13 DEF Count, A, B, C

\* A sequence of one element.
LEMMA CountOne ==
  ASSUME NEW x, NEW P
  PROVE  Count(<<x>>, P) = IF x \in P THEN 1 ELSE 0
<1>1. CASE x \in P
  <2>1. {k \in DOMAIN <<x>> : <<x>>[k] \in P} = {1}
    BY <1>1
  <2>2. Cardinality({1}) = 1
    BY FS_Singleton, Zenon
  <2>3. QED
    BY <1>1, <2>1, <2>2 DEF Count
<1>2. CASE x \notin P
  <2>1. {k \in DOMAIN <<x>> : <<x>>[k] \in P} = {}
    BY <1>2
  <2>2. QED
    BY <1>2, <2>1, FS_EmptySet DEF Count
<1>3. QED
  BY <1>1, <1>2

\* One element more, as Push and the kernel's frames add it.
LEMMA CountAppend ==
  ASSUME NEW X, NEW s \in Seq(X), NEW x \in X, NEW P
  PROVE  Count(Append(s, x), P) = Count(s, P) + (IF x \in P THEN 1 ELSE 0)
<1>1. Append(s, x) = s \o <<x>> /\ <<x>> \in Seq(X)
  BY AppendIsConcat
<1>2. Count(s \o <<x>>, P) = Count(s, P) + Count(<<x>>, P)
  BY <1>1, CountConcat, Zenon
<1>3. QED
  BY <1>1, <1>2, CountOne

\* One element less, as a consumed frame, a written reply or a read unit leaves.
LEMMA CountTail ==
  ASSUME NEW X, NEW s \in Seq(X), s # << >>, NEW P
  PROVE  Count(s, P) = Count(Tail(s), P) + (IF Head(s) \in P THEN 1 ELSE 0)
<1>1. Head(s) \in X /\ <<Head(s)>> \in Seq(X) /\ Tail(s) \in Seq(X)
  BY HeadTailProperties
<1>2. s = <<Head(s)>> \o Tail(s)
  OBVIOUS
<1>3. Count(<<Head(s)>> \o Tail(s), P) = Count(<<Head(s)>>, P) + Count(Tail(s), P)
  BY <1>1, CountConcat, Zenon
<1>4. Count(<<Head(s)>>, P) = IF Head(s) \in P THEN 1 ELSE 0
  BY CountOne, Zenon
<1>5. Count(Tail(s), P) \in Nat
  BY <1>1, CountFinite, Zenon
<1> DEFINE u == <<Head(s)>> \o Tail(s)
<1>6. s = u /\ Count(u, P) = Count(Tail(s), P) + (IF Head(s) \in P THEN 1 ELSE 0)
  BY <1>2, <1>3, <1>4, <1>5
<1> HIDE DEF u
<1>7. Count(s, P) = Count(u, P)
  BY <1>6
<1>8. QED
  BY <1>6, <1>7

\* Two sequences that agree on membership have the same count.
LEMMA CountSame ==
  ASSUME NEW s, NEW t, NEW P, NEW Q, DOMAIN s = DOMAIN t,
         \A k \in DOMAIN s : s[k] \in P <=> t[k] \in Q
  PROVE  Count(s, P) = Count(t, Q)
<1>1. {k \in DOMAIN s : s[k] \in P} = {k \in DOMAIN t : t[k] \in Q}
  OBVIOUS
<1>2. QED
  BY <1>1 DEF Count

-----------------------------------------------------------------------------
(* Types, and the cases of a step.                                         *)

\* The frames the kernel sends, the units the worker writes, and the types of all variables.
Submit == [kind : {"submit"}, urb : Nat, seq : Seqs, request : Requests]
Unlink == [kind : {"unlink"}, urb : Nat, seq : Seqs]
Frame == Submit \cup Unlink
Unit == [reply : Reply, unit : 1..ReplyUnits]

\* Where the loop stands and what it received of the next frame.
LoopTypes ==
  /\ pc \in {"service", "receive", "ready", "settle", "expire", "flush", "wait", "done"}
  /\ after \in {"receive", "settle", "wait", "done"} /\ (pc = "flush" => after # "done")
  /\ rounds \in 0..SlotCount
  /\ clock \in 0..MaxTime /\ now \in 0..clock
  /\ received \in 0..HeaderUnits /\ frameStarted \in Nat \cup {NoTime}

\* Worker.slots, the pending table and the control state.
TableTypes ==
  /\ control \in [configured : BOOLEAN, mic : BOOLEAN, play : BOOLEAN]
  /\ slots \in [Slots -> Transfer \cup {NoSlot}]
  /\ pending \subseteq [seq : Seqs, generation : Nat, deadline : Nat]
  /\ generation \in Nat /\ nextOrder \in Nat

\* The packet counters.
AudioTypes ==
  /\ abandoned \in Nat /\ collected \in Nat /\ finished \in Nat /\ streamed \in [Streams -> Nat]

\* Only the reply at the head of the queue may be written in part.
ReplyTypes ==
  /\ outgoing \in Seq(Reply) /\ Len(outgoing) <= SlotCount
  /\ \A k \in DOMAIN outgoing : outgoing[k].written < ReplyUnits /\ (k > 1 => outgoing[k].written = 0)

\* Both directions of the socket.
SocketTypes == wire \in Seq(Frame) /\ socket \in Seq(Unit) /\ reading \in 0..ReplyUnits - 1

\* What the kernel remembers.
KernelTypes ==
  urbs \in Nat /\ outstanding \subseteq [urb : Nat, seq : Seqs] /\ unlinked \subseteq Nat

\* The slot whose reply is being flushed is remembered exactly that long.
Settling == pc = "settle" \/ (pc = "flush" /\ after = "settle")
Remembered ==
  /\ completing \in [slot : Slots \cup {0}, ok : BOOLEAN]
  /\ IF Settling THEN completing.slot \in Live ELSE completing = NoCompletion

\* The type invariant, with what makes it inductive.
Types == LoopTypes /\ TableTypes /\ AudioTypes /\ ReplyTypes /\ SocketTypes /\ KernelTypes /\ Remembered

-----------------------------------------------------------------------------
\* A step that only moves the loop, or reads the clock or part of a frame.
Quiet ==
  /\ UNCHANGED <<completing, control, tableVars, outgoing, audioVars, wire, socket, reading, kernelVars>>
  /\ now' \in {now, clock}
  /\ pc = "done" <=> pc' = "done"

\* What a step does to the table, the replies and the socket.
Cases ==
  \/ Quiet
  \/ pc # "done" /\ Stop
  \/ \E n \in 1..ReplyUnits : FlushWrite(n)
  \/ \E n \in 1..(HeaderUnits + 1) : ReceiveUnlink(n) /\ ~ QuotaExhausted
  \/ \E n \in 1..(HeaderUnits + 1) : ReceiveSubmit(n) /\ Live # Slots /\ ~ Duplicate(Head(wire).seq)
  \/ \E i \in Slots : Capture(i)
  \/ \E i \in Slots : Complete(i)
  \/ Settle
  \/ \E r \in Requests, s \in Seqs : KernelSubmit(r, s)
  \/ \E o \in outstanding : KernelUnlink(o)
  \/ KernelRead

\* Every step of Next is one of the cases.
LEMMA StepCases ==
  ASSUME [Next]_vars, LoopTypes
  PROVE  Cases
<1>1. CASE Service
  BY <1>1 DEF Service, Cases, Quiet, timeVars, recvVars, loopVars, tableVars, audioVars, kernelVars
<1>2. CASE ServiceStop
  BY <1>2 DEF ServiceStop, Cases
<1>3. CASE Receive
  <2>1. CASE ReceiveStop
    BY <2>1 DEF ReceiveStop, Cases, Quiet, timeVars, recvVars, tableVars, audioVars, kernelVars
  <2>2. CASE ReceiveFail
    BY <2>2 DEF ReceiveFail, Cases
  <2>3. ASSUME NEW n \in 1..(HeaderUnits + 1), ReceivePart(n) PROVE Cases
    BY <2>3 DEF ReceivePart, Cases, Quiet, timeVars, recvVars, tableVars, audioVars, kernelVars
  <2>4. ASSUME NEW n \in 1..(HeaderUnits + 1), ReceiveUnlink(n) PROVE Cases
    <3>1. QuotaExhausted => Stop /\ pc # "done"
      BY <2>4 DEF ReceiveUnlink, WholeFrame
    <3>2. QED
      BY <2>4, <3>1 DEF Cases
  <2>5. ASSUME NEW n \in 1..(HeaderUnits + 1), ReceiveSubmit(n) PROVE Cases
    <3>1. Live = Slots \/ Duplicate(Head(wire).seq) => Stop /\ pc # "done"
      BY <2>5 DEF ReceiveSubmit, WholeFrame
    <3>2. QED
      BY <2>5, <3>1 DEF Cases
  <2>6. QED
    BY <1>3, <2>1, <2>2, <2>3, <2>4, <2>5 DEF Receive
<1>4. CASE Flush
  <2>1. CASE FlushReturn
    <3>1. pc' # "done" /\ pc # "done"
      BY <2>1 DEF FlushReturn, LoopTypes
    <3>2. QED
      BY <2>1, <3>1 DEF FlushReturn, Cases, Quiet, timeVars, recvVars, tableVars, audioVars, kernelVars
  <2>2. CASE FlushFail
    BY <2>2 DEF FlushFail, Cases
  <2>3. QED
    BY <1>4, <2>1, <2>2 DEF Flush, Cases
<1>5. CASE Serve
  <2>1. PICK i \in Slots : Capture(i) \/ Complete(i) \/ CompleteFail(i)
    BY <1>5 DEF Serve
  <2>2. QED
    BY <2>1 DEF Cases, CompleteFail
<1>6. CASE Settle
  BY <1>6 DEF Cases
<1>7. CASE ReadyDone
  BY <1>7 DEF ReadyDone, Cases, Quiet, timeVars, recvVars, tableVars, audioVars, kernelVars
<1>8. CASE Expire
  BY <1>8 DEF Expire, Cases
<1>9. CASE Unexpired
  BY <1>9 DEF Unexpired, Cases, Quiet, timeVars, recvVars, tableVars, audioVars, kernelVars
<1>10. ASSUME NEW elapsed \in 0..Timeout, Wait(elapsed) PROVE Cases
  BY <1>10 DEF Wait, Cases, Quiet, timeVars, recvVars, tableVars, audioVars, kernelVars
<1>11. CASE Kernel
  BY <1>11 DEF Kernel, Cases
<1>12. CASE UNCHANGED vars
  BY <1>12 DEF vars, Cases, Quiet, timeVars, loopVars, recvVars, tableVars, audioVars, kernelVars
<1>13. QED
  BY <1>1, <1>2, <1>3, <1>4, <1>5, <1>6, <1>7, <1>8, <1>9, <1>10, <1>11, <1>12 DEF Next, Worker

\* The clock, the place in the loop and the received prefix of a frame stay in range.
LEMMA LoopTypesStep ==
  ASSUME LoopTypes, [Next]_vars
  PROVE  LoopTypes'
<1> USE DEF LoopTypes
<1>0. /\ SlotCount \in Nat \ {0} /\ Timeout \in Nat /\ MaxTime \in Nat /\ HeaderUnits \in Nat \ {0}
      /\ NoTime = -1
  BY WorkerAssumption DEF NoTime
<1>1. CASE Service \/ ServiceStop
  BY <1>0, <1>1 DEF Service, ServiceStop, Stop, timeVars, recvVars
<1>2. CASE Receive
  <2>1. CASE ReceiveStop \/ ReceiveFail
    BY <1>0, <2>1 DEF ReceiveStop, ReceiveFail, Stop, timeVars, recvVars
  <2>2. ASSUME NEW n \in 1..(HeaderUnits + 1), ReceivePart(n) PROVE LoopTypes'
    <3>1. received + n \in 0..HeaderUnits
      BY <1>0, <2>2 DEF ReceivePart, Expected, FrameRead, Body
    <3>2. Started \in Nat
      BY <1>0 DEF Started
    <3>3. QED
      BY <1>0, <2>2, <3>1, <3>2 DEF ReceivePart, timeVars
  <2>3. ASSUME NEW n \in 1..(HeaderUnits + 1), ReceiveUnlink(n) PROVE LoopTypes'
    BY <1>0, <2>3 DEF ReceiveUnlink, WholeFrame, Consumed, Stop, timeVars, recvVars
  <2>4. ASSUME NEW n \in 1..(HeaderUnits + 1), ReceiveSubmit(n) PROVE LoopTypes'
    BY <1>0, <2>4 DEF ReceiveSubmit, WholeFrame, Consumed, Stop, timeVars, recvVars
  <2>5. QED
    BY <1>2, <2>1, <2>2, <2>3, <2>4 DEF Receive
<1>3. CASE Flush
  <2>1. CASE FlushReturn \/ FlushFail
    BY <1>0, <2>1 DEF FlushReturn, FlushFail, Stop, timeVars, recvVars
  <2>2. ASSUME NEW n \in 1..ReplyUnits, FlushWrite(n) PROVE LoopTypes'
    BY <1>0, <2>2 DEF FlushWrite, loopVars, timeVars, recvVars
  <2>3. QED
    BY <1>3, <2>1, <2>2 DEF Flush
<1>4. CASE Serve
  <2>1. PICK i \in Slots : Capture(i) \/ Complete(i) \/ CompleteFail(i)
    BY <1>4 DEF Serve
  <2>2. CASE Capture(i)
    BY <1>0, <2>2 DEF Capture, loopVars, timeVars, recvVars
  <2>3. CASE Complete(i)
    BY <1>0, <2>3 DEF Complete, timeVars, recvVars
  <2>4. CASE CompleteFail(i)
    BY <1>0, <2>4 DEF CompleteFail, Stop, timeVars, recvVars
  <2>5. QED
    BY <2>1, <2>2, <2>3, <2>4
<1>5. CASE Settle \/ ReadyDone \/ Expire \/ Unexpired
  BY <1>0, <1>5 DEF Settle, ReadyDone, Expire, Unexpired, Stop, timeVars, recvVars
<1>6. ASSUME NEW elapsed \in 0..Timeout, Wait(elapsed) PROVE LoopTypes'
  BY <1>0, <1>6 DEF Wait, recvVars
<1>7. CASE Kernel
  BY <1>0, <1>7 DEF Kernel, KernelSubmit, KernelUnlink, KernelRead, loopVars, timeVars, recvVars
<1>8. CASE UNCHANGED vars
  BY <1>0, <1>8 DEF vars, loopVars, timeVars, recvVars
<1>9. QED
  BY <1>1, <1>2, <1>3, <1>4, <1>5, <1>6, <1>7, <1>8 DEF Next, Worker

\* A request as the kernel may submit it.
LEMMA RequestType ==
  ASSUME NEW r \in Requests
  PROVE  r.stream \in Streams /\ r.packets \in Nat
<1>1. PICK k \in 1..MaxUrbs : r \in Script[k]
  BY DEF Requests
<1>2. Script[k] \in SUBSET [stream : Streams, packets : Nat, op : Ops]
  BY <1>1, WorkerAssumption DEF MaxUrbs
<1>3. QED
  BY <1>1, <1>2

\* A live slot holds a transfer, and a slot with a transfer is live.
LEMMA LiveSlot ==
  ASSUME slots \in [Slots -> Transfer \cup {NoSlot}], NEW i \in Live
  PROVE  /\ i \in Slots /\ slots[i] \in Transfer
         /\ slots[i].request.stream \in Streams /\ slots[i].request.packets \in Nat
<1>1. i \in Slots /\ slots[i] \in Transfer
  BY DEF Live
<1>2. slots[i].request \in Requests
  BY <1>1 DEF Transfer
<1>3. QED
  BY <1>1, <1>2, RequestType

\* A transfer is told apart from an empty slot.
LEMMA TransferIsSlot ==
  ASSUME NEW t \in Transfer
  PROVE  t # NoSlot
BY DEF Transfer, NoSlot

\* There is a free slot to take when not every slot is live.
LEMMA FreeSlotFree ==
  ASSUME Live # Slots
  PROVE  FreeSlot \in Slots \ Live
<1> DEFINE S == Slots \ Live
<1>1. S # {} /\ S \subseteq Nat
  BY WorkerAssumption DEF Live, Slots
<1>2. IsWellFoundedOn(OpToRel(<, Nat), Nat)
  BY NatLessThanWellFounded
<1> HIDE DEF S
<1>3. PICK i \in S : \A j \in S : ~ (<<j, i>> \in OpToRel(<, Nat))
  BY <1>1, <1>2, WFMin
<1>4. ASSUME NEW j \in S PROVE i <= j
  <2>1. i \in Nat /\ j \in Nat
    BY <1>1
  <2>2. ~ (j < i)
    BY <1>3, <2>1 DEF OpToRel
  <2>3. QED
    BY <2>1, <2>2
<1>5. QED
  BY <1>3, <1>4 DEF FreeSlot, S

\* The instant a transfer is ready comes after every transfer of its stream.
LEMMA ReadyAfter ==
  ASSUME slots \in [Slots -> Transfer \cup {NoSlot}], now \in Nat, NEW r \in Requests
  PROVE  /\ Ready(r) \in Nat /\ Delay(r) \in Nat
         /\ now + Delay(r) <= Ready(r)
         /\ \A i \in SameStream(r) : slots[i].ready + Delay(r) <= Ready(r)
<1> DEFINE I == SameStream(r)
           R == {slots[i].ready : i \in I}
           S == R \cup {now}
           f == [i \in I |-> slots[i].ready]
<1>1. I \subseteq Live
  BY DEF SameStream
<1>2. \A i \in I : slots[i].ready \in Nat
  BY <1>1, LiveSlot DEF Transfer
<1>3. IsFiniteSet(Slots)
  <2>1. 1 \in Int /\ SlotCount \in Int
    BY WorkerAssumption
  <2>2. QED
    BY <2>1, FS_Interval DEF Slots
<1>4. IsFiniteSet(I)
  <2>1. I \in SUBSET Slots
    BY DEF SameStream, Live
  <2>2. QED
    BY <1>3, <2>1, FS_Subset, Zenon
<1>5. f \in Surjection(I, R)
  BY DEF Surjection
<1>6. IsFiniteSet(R)
  BY <1>4, <1>5, FS_Surjection
<1>7. IsFiniteSet(S)
  BY <1>6, FS_AddElement, Zenon
<1>8. S \in SUBSET Nat /\ S # {}
  BY <1>2
<1>9. Max(S) \in S /\ \A y \in S : y <= Max(S)
  BY <1>7, <1>8, GreatestInstant, Zenon
<1>10. Delay(r) \in Nat
  BY RequestType, WorkerAssumption DEF Delay
<1>11. Ready(r) = Max(S) + Delay(r)
  BY DEF Ready
<1>12. now <= Max(S) /\ Max(S) \in Nat /\ \A i \in I : slots[i].ready <= Max(S)
  BY <1>8, <1>9
<1> HIDE DEF S, I
<1>13. QED
  BY <1>2, <1>10, <1>11, <1>12 DEF I

\* Every outcome of a transfer leaves a control state.
LEMMA OutcomeTypes ==
  ASSUME control \in [configured : BOOLEAN, mic : BOOLEAN, play : BOOLEAN],
         NEW r \in Requests, NEW o \in Outcomes(r)
  PROVE  o[1] \in BOOLEAN /\ o[2] \in [configured : BOOLEAN, mic : BOOLEAN, play : BOOLEAN]
<1> DEFINE C == [configured : BOOLEAN, mic : BOOLEAN, play : BOOLEAN]
<1>1. Unconfigured \in C /\ [Unconfigured EXCEPT !.configured = TRUE] \in C
  BY DEF Unconfigured
<1>2. ASSUME NEW op, NEW h \in HandleControl(op)
      PROVE  h[1] \in BOOLEAN /\ h[2] \in C
  <2>1. CASE op \in {"configure", "deconfigure"}
    <3>1. h = <<TRUE, [Unconfigured EXCEPT !.configured = TRUE]>> \/ h = <<TRUE, Unconfigured>>
      BY <1>2, <2>1 DEF HandleControl
    <3>2. PICK c \in C : h = <<TRUE, c>>
      BY <1>1, <3>1, Zenon
    <3>3. QED
      BY <3>2
  <2>2. CASE op = "hid"
    <3>1. PICK ok \in IF control.configured THEN BOOLEAN ELSE {FALSE} : h = <<ok, control>>
      BY <1>2, <2>2 DEF HandleControl
    <3>2. QED
      BY <3>1
  <2>3. CASE op \in {"micOn", "micOff"} /\ control.configured
    <3>1. h = <<TRUE, [control EXCEPT !.mic = (op = "micOn")]>>
      BY <1>2, <2>3 DEF HandleControl
    <3>2. (op = "micOn") \in BOOLEAN
      OBVIOUS
    <3>3. QED
      BY <3>1, <3>2
  <2>4. CASE op \in {"playOn", "playOff"} /\ control.configured
    <3>1. h = <<TRUE, [control EXCEPT !.play = (op = "playOn")]>>
      BY <1>2, <2>4 DEF HandleControl
    <3>2. (op = "playOn") \in BOOLEAN
      OBVIOUS
    <3>3. QED
      BY <3>1, <3>2
  <2>5. CASE /\ op \notin {"configure", "deconfigure", "hid"}
             /\ ~ (op \in {"micOn", "micOff"} /\ control.configured)
             /\ ~ (op \in {"playOn", "playOff"} /\ control.configured)
    <3>1. h = <<FALSE, control>>
      BY <1>2, <2>5 DEF HandleControl
    <3>2. QED
      BY <3>1
  <2>6. QED
    BY <2>1, <2>2, <2>3, <2>4, <2>5
<1> DEFINE stall == {<<FALSE, control>>}
           done == {<<TRUE, control>>}
<1>3. Outcomes(r) \in {HandleControl(r.op), done, done \cup stall, stall}
  BY DEF Outcomes
<1>4. o \in HandleControl(r.op) \/ o \in done \cup stall
  BY <1>3
<1>5. CASE o \in HandleControl(r.op)
  BY <1>2, <1>5
<1>6. CASE o \in done \cup stall
  <2>1. PICK ok \in BOOLEAN : o = <<ok, control>>
    BY <1>6
  <2>2. QED
    BY <2>1
<1>7. QED
  BY <1>4, <1>5, <1>6

\* The packets held, as a function of the table, so that two tables can be compared.
LEMMA HeldIsPackets ==
  ASSUME NEW S
  PROVE  HeldIn(S) = PacketsIn(slots, S)
BY DEF HeldIn, PacketsIn

\* There are finitely many slots.
LEMMA LiveFinite == IsFiniteSet(Slots) /\ IsFiniteSet(Live)
<1>1. IsFiniteSet(Slots)
  <2>1. 1 \in Int /\ SlotCount \in Int
    BY WorkerAssumption
  <2>2. QED
    BY <2>1, FS_Interval DEF Slots
<1>2. Live \in SUBSET Slots
  BY DEF Live
<1>3. QED
  BY <1>1, <1>2, FS_Subset, Zenon

\* What the live slots hold, split at a set of slots.
LEMMA HeldSplit ==
  ASSUME slots \in [Slots -> Transfer \cup {NoSlot}], NEW R \in SUBSET Live
  PROVE  /\ Held = Cardinality(HeldIn(Live \ R)) + Cardinality(HeldIn(R))
         /\ Held \in Nat /\ Cardinality(HeldIn(Live \ R)) \in Nat /\ Cardinality(HeldIn(R)) \in Nat
<1>1. \A i \in Live : slots[i].captured \in Nat
  BY LiveSlot DEF Transfer
<1>2. /\ Cardinality(PacketsIn(slots, Live)) =
           Cardinality(PacketsIn(slots, Live \ R)) + Cardinality(PacketsIn(slots, R))
      /\ Cardinality(PacketsIn(slots, Live)) \in Nat
      /\ Cardinality(PacketsIn(slots, Live \ R)) \in Nat /\ Cardinality(PacketsIn(slots, R)) \in Nat
  BY <1>1, LiveFinite, PacketsSplit, Zenon
<1>3. QED
  BY <1>2, HeldIsPackets DEF Held

\* What one slot holds.
LEMMA HeldOne ==
  ASSUME slots \in [Slots -> Transfer \cup {NoSlot}], NEW i \in Live
  PROVE  Cardinality(HeldIn({i})) = slots[i].captured /\ slots[i].captured \in Nat
<1>1. slots[i].captured \in Nat
  BY LiveSlot DEF Transfer
<1>2. QED
  BY <1>1, PacketsOne, HeldIsPackets

\* What an unlink abandons is a number.
LEMMA HeldByType ==
  ASSUME slots \in [Slots -> Transfer \cup {NoSlot}], NEW seq
  PROVE  HeldBy(seq) \in Nat
BY HeldSplit DEF HeldBy

\* reserve, unlink, capture, complete and settle keep the types of the table.
LEMMA TableTypesStep ==
  ASSUME LoopTypes, TableTypes, SocketTypes, Remembered, [Next]_vars
  PROVE  TableTypes'
<1> USE DEF TableTypes
<1>0. now \in Nat /\ Timeout \in Nat /\ slots \in [Slots -> Transfer \cup {NoSlot}]
  BY WorkerAssumption DEF LoopTypes
<1>1. CASE Quiet
  BY <1>1 DEF Quiet, tableVars
<1>2. CASE Stop
  BY <1>2 DEF Stop
<1>3. ASSUME NEW n \in 1..ReplyUnits, FlushWrite(n) PROVE TableTypes'
  BY <1>3 DEF FlushWrite, tableVars
<1>4. ASSUME NEW n \in 1..(HeaderUnits + 1), ReceiveUnlink(n), ~ QuotaExhausted PROVE TableTypes'
  BY <1>4 DEF ReceiveUnlink, UnlinkSlots
<1>5. ASSUME NEW n \in 1..(HeaderUnits + 1), ReceiveSubmit(n), Live # Slots, ~ Duplicate(Head(wire).seq)
      PROVE  TableTypes'
  <2> DEFINE f == Head(wire)
             t == [urb |-> f.urb, seq |-> f.seq, generation |-> generation + 1,
                   request |-> f.request, ready |-> Ready(f.request),
                   order |-> nextOrder, captured |-> 0]
             e == [seq |-> f.seq, generation |-> generation + 1, deadline |-> now + Timeout]
  <2>1. f \in Submit
    BY <1>5, HeadTailProperties DEF ReceiveSubmit, WholeFrame, SocketTypes, Frame, Unlink
  <2>2. Ready(f.request) \in Nat
    BY <1>0, <2>1, ReadyAfter DEF Submit
  <2>3. t \in Transfer
    BY <2>1, <2>2 DEF Submit, Transfer
  <2>4. e \in [seq : Seqs, generation : Nat, deadline : Nat]
    BY <1>0, <2>1 DEF Submit
  <2>5. /\ pending' = pending \cup {e} /\ slots' = [slots EXCEPT ![FreeSlot] = t]
        /\ generation' = generation + 1 /\ nextOrder' = nextOrder + 1 /\ control' = control
    BY <1>5 DEF ReceiveSubmit
  <2> HIDE DEF t, e
  <2>6. slots' \in [Slots -> Transfer \cup {NoSlot}]
    BY <1>0, <2>3, <2>5
  <2>7. QED
    BY <2>4, <2>5, <2>6
<1>6. ASSUME NEW i \in Slots, Capture(i) PROVE TableTypes'
  <2>1. i \in Live /\ slots' = [slots EXCEPT ![i].captured = @ + 1]
        /\ UNCHANGED <<control, pending, generation, nextOrder>>
    BY <1>6 DEF Capture, NextReady
  <2> DEFINE t == [slots[i] EXCEPT !.captured = @ + 1]
  <2>2. t \in Transfer
    BY <1>0, <2>1, LiveSlot DEF Transfer
  <2>3. slots' = [slots EXCEPT ![i] = t]
    BY <2>1
  <2> HIDE DEF t
  <2>4. slots' \in [Slots -> Transfer \cup {NoSlot}]
    BY <1>0, <2>2, <2>3
  <2>5. QED
    BY <2>1, <2>4
<1>7. ASSUME NEW i \in Slots, Complete(i) PROVE TableTypes'
  <2>1. PICK o \in Outcomes(slots[i].request) : control' = o[2]
    BY <1>7 DEF Complete
  <2>2. slots[i].request \in Requests
    BY <1>0, <1>7, LiveSlot DEF Complete, NextReady, Transfer
  <2>3. control' \in [configured : BOOLEAN, mic : BOOLEAN, play : BOOLEAN]
    BY <2>1, <2>2, OutcomeTypes
  <2>4. QED
    BY <1>7, <2>3 DEF Complete, SettledTable
<1>8. CASE Settle
  BY <1>8 DEF Settle
<1>9. ASSUME NEW r \in Requests, NEW s \in Seqs, KernelSubmit(r, s) PROVE TableTypes'
  BY <1>9 DEF KernelSubmit, tableVars
<1>10. ASSUME NEW o \in outstanding, KernelUnlink(o) PROVE TableTypes'
  BY <1>10 DEF KernelUnlink, tableVars
<1>11. CASE KernelRead
  BY <1>11 DEF KernelRead, tableVars
<1>12. QED
  BY StepCases, <1>1, <1>2, <1>3, <1>4, <1>5, <1>6, <1>7, <1>8, <1>9, <1>10, <1>11 DEF Cases

\* The packet counters stay naturals, also when a reply or the end abandons packets.
LEMMA AudioTypesStep ==
  ASSUME LoopTypes, TableTypes, AudioTypes, Remembered, [Next]_vars
  PROVE  AudioTypes'
<1> USE DEF AudioTypes
<1>0. slots \in [Slots -> Transfer \cup {NoSlot}]
  BY DEF TableTypes
<1>1. CASE Quiet
  BY <1>1 DEF Quiet, audioVars
<1>2. CASE Stop
  <2>1. Held \in Nat
    BY <1>0, HeldSplit
  <2>2. QED
    BY <1>2, <2>1 DEF Stop
<1>3. ASSUME NEW n \in 1..ReplyUnits, FlushWrite(n) PROVE AudioTypes'
  BY <1>3 DEF FlushWrite, audioVars
<1>4. ASSUME NEW n \in 1..(HeaderUnits + 1), ReceiveUnlink(n), ~ QuotaExhausted PROVE AudioTypes'
  <2>1. abandoned' = abandoned + HeldBy(Head(wire).seq) /\ UNCHANGED <<collected, finished, streamed>>
    BY <1>4 DEF ReceiveUnlink
  <2>2. HeldBy(Head(wire).seq) \in Nat
    BY <1>0, HeldByType
  <2>3. QED
    BY <2>1, <2>2
<1>5. ASSUME NEW n \in 1..(HeaderUnits + 1), ReceiveSubmit(n), Live # Slots, ~ Duplicate(Head(wire).seq)
      PROVE  AudioTypes'
  BY <1>5 DEF ReceiveSubmit, audioVars
<1>6. ASSUME NEW i \in Slots, Capture(i) PROVE AudioTypes'
  BY <1>6 DEF Capture
<1>7. ASSUME NEW i \in Slots, Complete(i) PROVE AudioTypes'
  BY <1>7 DEF Complete, audioVars
<1>8. CASE Settle
  <2> DEFINE t == slots[completing.slot]
  <2>1. completing.slot \in Live
    BY <1>8 DEF Settle, Remembered, Settling
  <2>2. t.captured \in Nat /\ t.request.stream \in Streams /\ t.request.packets \in Nat
    BY <1>0, <2>1, LiveSlot DEF Transfer
  <2>3. /\ finished' \in {finished, finished + t.captured} /\ abandoned' \in {abandoned, abandoned + t.captured}
        /\ streamed' \in {streamed, [streamed EXCEPT ![t.request.stream] = @ + t.request.packets]}
        /\ collected' = collected
    BY <1>8 DEF Settle
  <2> HIDE DEF t
  <2>4. QED
    BY <2>2, <2>3
<1>9. ASSUME NEW r \in Requests, NEW s \in Seqs, KernelSubmit(r, s) PROVE AudioTypes'
  BY <1>9 DEF KernelSubmit, audioVars
<1>10. ASSUME NEW o \in outstanding, KernelUnlink(o) PROVE AudioTypes'
  BY <1>10 DEF KernelUnlink, audioVars
<1>11. CASE KernelRead
  BY <1>11 DEF KernelRead, audioVars
<1>12. QED
  BY StepCases, <1>1, <1>2, <1>3, <1>4, <1>5, <1>6, <1>7, <1>8, <1>9, <1>10, <1>11 DEF Cases

\* CompletionQueue::push keeps the queue's types and, below the quota, its bound.
LEMMA PushTypes ==
  ASSUME ReplyTypes, now \in Nat, ~ QuotaExhausted, NEW kind \in {"submit", "unlink"}, NEW urb \in Nat,
         NEW ok \in BOOLEAN, Push(kind, urb, ok)
  PROVE  ReplyTypes'
<1> DEFINE r == [kind |-> kind, urb |-> urb, ok |-> ok, written |-> 0, deadline |-> now + Timeout]
<1>1. r \in Reply /\ r.written = 0
  BY WorkerAssumption DEF Reply
<1>2. outgoing' = Append(outgoing, r)
  BY DEF Push
<1>3. /\ ReplyUnits \in Nat \ {0} /\ SlotCount \in Nat
      /\ outgoing \in Seq(Reply) /\ Len(outgoing) < SlotCount
  BY WorkerAssumption DEF ReplyTypes, QuotaExhausted
<1> HIDE DEF r
<1>4. /\ outgoing' \in Seq(Reply) /\ Len(outgoing') = Len(outgoing) + 1
      /\ \A k \in 1..Len(outgoing) : outgoing'[k] = outgoing[k]
      /\ outgoing'[Len(outgoing) + 1] = r
  BY <1>1, <1>2, <1>3, AppendProperties
<1>5. \A k \in DOMAIN outgoing' : outgoing'[k].written < ReplyUnits /\ (k > 1 => outgoing'[k].written = 0)
  BY <1>1, <1>3, <1>4 DEF ReplyTypes
<1>6. QED
  BY <1>3, <1>4, <1>5 DEF ReplyTypes

\* The queue keeps its bound, and only its head is written in part.
LEMMA ReplyTypesStep ==
  ASSUME LoopTypes, TableTypes, ReplyTypes, SocketTypes, [Next]_vars
  PROVE  ReplyTypes'
<1>0. now \in Nat
  BY WorkerAssumption DEF LoopTypes
<1>1. CASE Quiet
  BY <1>1 DEF Quiet, ReplyTypes
<1>2. CASE Stop
  BY <1>2, WorkerAssumption DEF Stop, ReplyTypes
<1>3. ASSUME NEW n \in 1..ReplyUnits, FlushWrite(n) PROVE ReplyTypes'
  <2>1. /\ outgoing \in Seq(Reply) /\ outgoing # << >> /\ Len(outgoing) <= SlotCount
        /\ Head(outgoing) = outgoing[1] /\ ReplyUnits \in Nat \ {0} /\ SlotCount \in Nat
    BY <1>3, WorkerAssumption DEF FlushWrite, ReplyTypes
  <2>2. CASE Head(outgoing).written + n = ReplyUnits
    <3>1. outgoing' = Tail(outgoing)
      BY <1>3, <2>2 DEF FlushWrite
    <3>2. /\ outgoing' \in Seq(Reply) /\ Len(outgoing') = Len(outgoing) - 1
          /\ \A k \in 1..Len(outgoing') : outgoing'[k] = outgoing[k + 1]
      BY <2>1, <3>1, HeadTailProperties
    <3>3. \A k \in DOMAIN outgoing' : k + 1 \in DOMAIN outgoing /\ k + 1 > 1
      BY <2>1, <3>2
    <3>4. QED
      BY <2>1, <3>2, <3>3 DEF ReplyTypes
  <2>3. CASE Head(outgoing).written + n # ReplyUnits
    <3> DEFINE r == [outgoing[1] EXCEPT !.written = @ + n]
    <3>1. outgoing' = [outgoing EXCEPT ![1] = r]
      BY <1>3, <2>3 DEF FlushWrite
    <3>2. r \in Reply /\ r.written < ReplyUnits
      <4>0. outgoing[1] \in Reply
        BY <2>1
      <4>1. outgoing[1].written \in Nat /\ n \in Nat
        BY <4>0, <2>1 DEF Reply
      <4>a. n <= ReplyUnits - outgoing[1].written
        BY <1>3, <2>1 DEF FlushWrite
      <4>b. outgoing[1].written + n # ReplyUnits
        BY <2>1, <2>3
      <4>2. outgoing[1].written + n < ReplyUnits /\ outgoing[1].written + n \in Nat
        BY <2>1, <4>1, <4>a, <4>b
      <4>3. QED
        BY <4>0, <4>2 DEF Reply
    <3> HIDE DEF r
    <3>3. /\ outgoing' \in Seq(Reply) /\ Len(outgoing') = Len(outgoing) /\ DOMAIN outgoing' = DOMAIN outgoing
          /\ outgoing'[1] = r /\ \A k \in DOMAIN outgoing : k # 1 => outgoing'[k] = outgoing[k]
      BY <2>1, <3>1, <3>2
    <3>4. ASSUME NEW k \in DOMAIN outgoing'
          PROVE  outgoing'[k].written < ReplyUnits /\ (k > 1 => outgoing'[k].written = 0)
      BY <3>2, <3>3 DEF ReplyTypes
    <3>5. QED
      BY <2>1, <3>3, <3>4 DEF ReplyTypes
  <2>4. QED
    BY <2>2, <2>3
<1>4. ASSUME NEW n \in 1..(HeaderUnits + 1), ReceiveUnlink(n), ~ QuotaExhausted PROVE ReplyTypes'
  <2>1. Head(wire).urb \in Nat
    BY <1>4, HeadTailProperties DEF ReceiveUnlink, WholeFrame, SocketTypes, Frame, Submit, Unlink
  <2>2. Push("unlink", Head(wire).urb, ~ Cancelled(Head(wire).seq))
    BY <1>4 DEF ReceiveUnlink
  <2>3. (~ Cancelled(Head(wire).seq)) \in BOOLEAN
    BY DEF Cancelled
  <2>4. QED
    BY <1>0, <1>4, <2>1, <2>2, <2>3, PushTypes
<1>5. ASSUME NEW n \in 1..(HeaderUnits + 1), ReceiveSubmit(n), Live # Slots, ~ Duplicate(Head(wire).seq)
      PROVE  ReplyTypes'
  BY <1>5 DEF ReceiveSubmit, ReplyTypes
<1>6. ASSUME NEW i \in Slots, Capture(i) PROVE ReplyTypes'
  BY <1>6 DEF Capture, ReplyTypes
<1>7. ASSUME NEW i \in Slots, Complete(i) PROVE ReplyTypes'
  <2>1. PICK o \in Outcomes(slots[i].request) : Push("submit", slots[i].urb, o[1])
    BY <1>7 DEF Complete
  <2>2. slots[i].urb \in Nat /\ slots[i].request \in Requests /\ ~ QuotaExhausted
    BY <1>7, LiveSlot DEF Complete, NextReady, Transfer, TableTypes
  <2>3. o[1] \in BOOLEAN
    BY <2>2, OutcomeTypes DEF TableTypes
  <2>4. QED
    BY <1>0, <2>1, <2>2, <2>3, PushTypes
<1>8. CASE Settle
  BY <1>8 DEF Settle, ReplyTypes
<1>9. ASSUME NEW r \in Requests, NEW s \in Seqs, KernelSubmit(r, s) PROVE ReplyTypes'
  BY <1>9 DEF KernelSubmit, ReplyTypes
<1>10. ASSUME NEW o \in outstanding, KernelUnlink(o) PROVE ReplyTypes'
  BY <1>10 DEF KernelUnlink, ReplyTypes
<1>11. CASE KernelRead
  BY <1>11 DEF KernelRead, ReplyTypes
<1>12. QED
  BY StepCases, <1>1, <1>2, <1>3, <1>4, <1>5, <1>6, <1>7, <1>8, <1>9, <1>10, <1>11 DEF Cases

\* The kernel's bookkeeping keeps its types.
LEMMA KernelTypesStep ==
  ASSUME LoopTypes, KernelTypes, [Next]_vars
  PROVE  KernelTypes'
<1> USE DEF KernelTypes
<1>1. CASE Quiet
  BY <1>1 DEF Quiet, kernelVars
<1>2. CASE Stop
  BY <1>2 DEF Stop, kernelVars
<1>3. ASSUME NEW n \in 1..ReplyUnits, FlushWrite(n) PROVE KernelTypes'
  BY <1>3 DEF FlushWrite, kernelVars
<1>4. ASSUME NEW n \in 1..(HeaderUnits + 1), ReceiveUnlink(n), ~ QuotaExhausted PROVE KernelTypes'
  BY <1>4 DEF ReceiveUnlink, kernelVars
<1>5. ASSUME NEW n \in 1..(HeaderUnits + 1), ReceiveSubmit(n), Live # Slots, ~ Duplicate(Head(wire).seq)
      PROVE  KernelTypes'
  BY <1>5 DEF ReceiveSubmit, kernelVars
<1>6. ASSUME NEW i \in Slots, Capture(i) \/ Complete(i) PROVE KernelTypes'
  BY <1>6 DEF Capture, Complete, kernelVars
<1>7. CASE Settle
  BY <1>7 DEF Settle, kernelVars
<1>8. ASSUME NEW r \in Requests, NEW s \in Seqs, KernelSubmit(r, s) PROVE KernelTypes'
  BY <1>8 DEF KernelSubmit
<1>9. ASSUME NEW o \in outstanding, KernelUnlink(o) PROVE KernelTypes'
  BY <1>9 DEF KernelUnlink
<1>10. CASE KernelRead
  <2>1. outstanding' \subseteq outstanding /\ UNCHANGED <<urbs, unlinked>>
    BY <1>10 DEF KernelRead
  <2>2. QED
    BY <2>1
<1>11. QED
  BY StepCases, <1>1, <1>2, <1>3, <1>4, <1>5, <1>6, <1>7, <1>8, <1>9, <1>10 DEF Cases

\* The units that one write of a flush puts into the socket.
Written(n) ==
  [k \in 1..n |-> [reply |-> [Head(outgoing) EXCEPT !.written = 0], unit |-> Head(outgoing).written + k]]

\* What a write of n units puts on the socket.
LEMMA WrittenTypes ==
  ASSUME ReplyTypes, NEW n \in 1..ReplyUnits, FlushWrite(n)
  PROVE  /\ Written(n) \in Seq(Unit) /\ Len(Written(n)) = n
         /\ socket' = socket \o Written(n)
         /\ Head(outgoing) \in Reply /\ Head(outgoing) = outgoing[1] /\ outgoing # << >>
<1>1. /\ outgoing \in Seq(Reply) /\ outgoing # << >> /\ ReplyUnits \in Nat \ {0}
      /\ n <= ReplyUnits - Head(outgoing).written
  BY WorkerAssumption DEF FlushWrite, ReplyTypes
<1>2. Head(outgoing) \in Reply /\ Head(outgoing) = outgoing[1]
  BY <1>1
<1>3. [Head(outgoing) EXCEPT !.written = 0] \in Reply /\ Head(outgoing).written \in Nat
  BY <1>2 DEF Reply
<1>4. ASSUME NEW k \in 1..n
      PROVE  [reply |-> [Head(outgoing) EXCEPT !.written = 0], unit |-> Head(outgoing).written + k] \in Unit
  BY <1>1, <1>3 DEF Unit
<1>5. Written(n) \in Seq(Unit) /\ Len(Written(n)) = n
  <2>1. n \in Nat /\ Written(n) \in [1..n -> Unit] /\ DOMAIN Written(n) = 1..n
    BY <1>1, <1>4 DEF Written
  <2>2. QED
    BY <2>1
<1>6. QED
  BY <1>1, <1>2, <1>5 DEF FlushWrite, Written

\* Frames and units keep their types, and the kernel reads each reply from its first unit on.
LEMMA SocketTypesStep ==
  ASSUME LoopTypes, ReplyTypes, SocketTypes, KernelTypes, [Next]_vars
  PROVE  SocketTypes'
<1> USE DEF SocketTypes
<1>1. CASE Quiet
  BY <1>1 DEF Quiet
<1>2. CASE Stop
  BY <1>2 DEF Stop
<1>3. ASSUME NEW n \in 1..ReplyUnits, FlushWrite(n) PROVE SocketTypes'
  <2> DEFINE w == Written(n)
  <2>1. w \in Seq(Unit) /\ socket' = socket \o w
    BY <1>3, WrittenTypes
  <2> HIDE DEF w
  <2>2. socket \o w \in Seq(Unit)
    BY <2>1, ConcatProperties
  <2>3. wire' = wire /\ reading' = reading
    BY <1>3 DEF FlushWrite
  <2>4. QED
    BY <2>1, <2>2, <2>3
<1>4. ASSUME NEW n \in 1..(HeaderUnits + 1), ReceiveUnlink(n), ~ QuotaExhausted PROVE SocketTypes'
  BY <1>4, HeadTailProperties DEF ReceiveUnlink, WholeFrame, Consumed
<1>5. ASSUME NEW n \in 1..(HeaderUnits + 1), ReceiveSubmit(n), Live # Slots, ~ Duplicate(Head(wire).seq)
      PROVE  SocketTypes'
  BY <1>5, HeadTailProperties DEF ReceiveSubmit, WholeFrame, Consumed
<1>6. ASSUME NEW i \in Slots, Capture(i) \/ Complete(i) PROVE SocketTypes'
  BY <1>6 DEF Capture, Complete
<1>7. CASE Settle
  BY <1>7 DEF Settle
<1>8. ASSUME NEW r \in Requests, NEW s \in Seqs, KernelSubmit(r, s) PROVE SocketTypes'
  <2>1. [kind |-> "submit", urb |-> urbs + 1, seq |-> s, request |-> r] \in Frame
    BY DEF Frame, Submit, KernelTypes
  <2>2. QED
    BY <1>8, <2>1, AppendProperties DEF KernelSubmit
<1>9. ASSUME NEW o \in outstanding, KernelUnlink(o) PROVE SocketTypes'
  <2>1. [kind |-> "unlink", urb |-> o.urb, seq |-> o.seq] \in Frame
    BY DEF Frame, Unlink, KernelTypes
  <2>2. QED
    BY <1>9, <2>1, AppendProperties DEF KernelUnlink
<1>10. CASE KernelRead
  <2>1. reading' \in 0..ReplyUnits - 1
    BY <1>10, WorkerAssumption DEF KernelRead
  <2>2. QED
    BY <1>10, <2>1, HeadTailProperties DEF KernelRead
<1>11. QED
  BY StepCases, <1>1, <1>2, <1>3, <1>4, <1>5, <1>6, <1>7, <1>8, <1>9, <1>10 DEF Cases

\* The transfer that a submit frame puts into a slot.
Accepted(frame) ==
  [urb |-> frame.urb, seq |-> frame.seq, generation |-> generation + 1, request |-> frame.request,
   ready |-> Ready(frame.request), order |-> nextOrder, captured |-> 0]

\* The frame at the head of the wire is a submit or an unlink.
LEMMA WireHead ==
  ASSUME SocketTypes, wire # << >>
  PROVE  /\ Head(wire) = wire[1] /\ 1 \in DOMAIN wire /\ Head(wire) \in Frame
         /\ Head(wire).kind = "submit" => Head(wire) \in Submit
         /\ Head(wire).kind = "unlink" => Head(wire) \in Unlink
<1>1. wire \in Seq(Frame) /\ Len(wire) \in Nat \ {0}
  BY DEF SocketTypes
<1>2. Head(wire) = wire[1] /\ 1 \in DOMAIN wire /\ Head(wire) \in Frame
  BY <1>1
<1>3. QED
  BY <1>2 DEF Frame, Submit, Unlink

\* A submit takes one free slot and touches no other.
LEMMA SubmitAdds ==
  ASSUME LoopTypes, TableTypes, SocketTypes, NEW n \in 1..(HeaderUnits + 1), ReceiveSubmit(n), Live # Slots,
         ~ Duplicate(Head(wire).seq)
  PROVE  /\ FreeSlot \in Slots \ Live /\ Live' = Live \cup {FreeSlot}
         /\ slots' \in [Slots -> Transfer \cup {NoSlot}]
         /\ \A i \in Live : slots'[i] = slots[i]
         /\ slots'[FreeSlot] = Accepted(Head(wire)) /\ Accepted(Head(wire)) \in Transfer
         /\ Head(wire) \in Submit /\ Head(wire) = wire[1] /\ wire # << >>
<1>1. FreeSlot \in Slots \ Live
  BY FreeSlotFree
<1>2. slots' = [slots EXCEPT ![FreeSlot] = Accepted(Head(wire))] /\ wire # << >>
  BY DEF ReceiveSubmit, WholeFrame, Accepted
<1>3. Head(wire) \in Submit /\ Head(wire) = wire[1]
  BY <1>2, WireHead DEF ReceiveSubmit
<1>4. Accepted(Head(wire)) \in Transfer
  <2>1. /\ Head(wire).urb \in Nat /\ Head(wire).seq \in Seqs /\ Head(wire).request \in Requests
        /\ generation + 1 \in Nat /\ nextOrder \in Nat /\ now \in Nat
    BY <1>3, WorkerAssumption DEF Submit, TableTypes, LoopTypes
  <2>2. Ready(Head(wire).request) \in Nat
    BY <2>1, ReadyAfter DEF TableTypes
  <2>3. QED
    BY <2>1, <2>2 DEF Accepted, Transfer
<1> DEFINE t == Accepted(Head(wire))
           f == FreeSlot
<1>5. t \in Transfer /\ t # NoSlot /\ f \in Slots \ Live /\ slots' = [slots EXCEPT ![f] = t]
      /\ slots \in [Slots -> Transfer \cup {NoSlot}]
  BY <1>1, <1>2, <1>4, TransferIsSlot DEF TableTypes
<1> HIDE DEF t, f
<1>6. slots' \in [Slots -> Transfer \cup {NoSlot}] /\ slots'[f] = t /\ \A i \in Slots : i # f => slots'[i] = slots[i]
  BY <1>5
<1>7. Live' = Live \cup {f} /\ \A i \in Live : slots'[i] = slots[i]
  BY <1>5, <1>6 DEF Live
<1>8. QED
  BY <1>1, <1>2, <1>3, <1>4, <1>6, <1>7 DEF t, f

\* An unlink empties the slots under its number and touches no other.
LEMMA UnlinkRemoves ==
  ASSUME TableTypes, SocketTypes, NEW n \in 1..(HeaderUnits + 1), ReceiveUnlink(n), ~ QuotaExhausted
  PROVE  /\ Live' = {i \in Live : slots[i].seq # Head(wire).seq}
         /\ \A i \in Live' : slots'[i] = slots[i]
         /\ Head(wire) \in Unlink /\ Head(wire) = wire[1] /\ wire # << >>
<1>1. slots' = UnlinkSlots(Head(wire).seq) /\ wire # << >>
  BY DEF ReceiveUnlink, WholeFrame
<1>2. \A i \in Slots : slots'[i] = IF i \in Live /\ slots[i].seq = Head(wire).seq THEN NoSlot ELSE slots[i]
  BY <1>1 DEF UnlinkSlots
<1>3. Head(wire) \in Unlink /\ Head(wire) = wire[1]
  BY <1>1, WireHead DEF ReceiveUnlink
<1>4. QED
  BY <1>1, <1>2, <1>3 DEF Live

\* Settling empties the slot whose reply was flushed and touches no other.
LEMMA SettleRemoves ==
  ASSUME TableTypes, Settle, Remembered
  PROVE  /\ completing.slot \in Live /\ Live' = Live \ {completing.slot}
         /\ \A i \in Live' : slots'[i] = slots[i]
<1>1. completing.slot \in Live
  BY DEF Settle, Remembered, Settling
<1>2. slots' = [slots EXCEPT ![completing.slot] = NoSlot] /\ slots \in [Slots -> Transfer \cup {NoSlot}]
  BY DEF Settle, TableTypes
<1> DEFINE c == completing.slot
<1>3. slots' = [slots EXCEPT ![c] = NoSlot] /\ c \in Slots
  BY <1>1, <1>2 DEF Live
<1> HIDE DEF c
<1>4. slots'[c] = NoSlot /\ \A i \in Slots : i # c => slots'[i] = slots[i]
  BY <1>2, <1>3
<1>5. Live' = Live \ {c} /\ \A i \in Live' : slots'[i] = slots[i]
  BY <1>4 DEF Live
<1>6. QED
  BY <1>1, <1>5 DEF c

\* A capture adds one packet to its slot and touches no other.
LEMMA CaptureCounts ==
  ASSUME TableTypes, NEW i \in Slots, Capture(i)
  PROVE  /\ i \in Live /\ Live' = Live
         /\ slots'[i] = [slots[i] EXCEPT !.captured = slots[i].captured + 1]
         /\ slots[i] \in Transfer /\ slots'[i] \in Transfer
         /\ \A j \in Live : j # i => slots'[j] = slots[j]
<1>1. i \in Live /\ slots[i] \in Transfer /\ slots \in [Slots -> Transfer \cup {NoSlot}]
  BY LiveSlot DEF Capture, NextReady, TableTypes
<1> DEFINE t == [slots[i] EXCEPT !.captured = slots[i].captured + 1]
<1>2. t \in Transfer /\ t # NoSlot
  <2>1. slots[i].captured + 1 \in Nat
    BY <1>1 DEF Transfer
  <2>2. t \in Transfer
    BY <1>1, <2>1 DEF Transfer
  <2>3. QED
    BY <2>2, TransferIsSlot
<1>3. slots' = [slots EXCEPT ![i] = t]
  BY DEF Capture
<1> HIDE DEF t
<1>4. slots'[i] = t /\ \A j \in Slots : j # i => slots'[j] = slots[j]
  BY <1>1, <1>3
<1>5. Live' = Live
  BY <1>1, <1>2, <1>4 DEF Live
<1>6. QED
  BY <1>1, <1>2, <1>4, <1>5 DEF t, Live

\* The slot whose reply is being flushed stays live until it is settled.
LEMMA RememberedStep ==
  ASSUME LoopTypes, TableTypes, SocketTypes, Remembered, [Next]_vars
  PROVE  Remembered'
<1>1. CASE Settle
  <2>1. completing' = NoCompletion /\ pc' = "ready"
    BY <1>1 DEF Settle
  <2>2. QED
    BY <2>1 DEF Remembered, Settling, NoCompletion
<1>2. ASSUME NEW i \in Slots, Complete(i) PROVE Remembered'
  <2>1. PICK o \in Outcomes(slots[i].request) : completing' = [slot |-> i, ok |-> o[1]]
    BY <1>2 DEF Complete
  <2>2. i \in Live /\ Live' = Live
    BY <1>2 DEF Complete, NextReady, Live
  <2>3. o[1] \in BOOLEAN
    BY <2>2, LiveSlot, OutcomeTypes DEF TableTypes, Transfer
  <2>4. completing' \in [slot : Slots \cup {0}, ok : BOOLEAN] /\ completing'.slot \in Live'
    BY <2>1, <2>2, <2>3
  <2>5. Settling'
    BY <1>2 DEF Complete, Settling
  <2>6. QED
    BY <2>4, <2>5 DEF Remembered
<1>3. CASE Stop
  BY <1>3 DEF Stop, Remembered, Settling, NoCompletion
<1>4. ASSUME Live' = Live, completing' = completing, Settling' = Settling PROVE Remembered'
  BY <1>4 DEF Remembered
<1>5. ASSUME NEW i \in Slots, Capture(i) PROVE Remembered'
  BY <1>4, <1>5, CaptureCounts DEF Capture, loopVars, Settling
<1>6. ASSUME NEW n \in 1..(HeaderUnits + 1), ReceiveUnlink(n), ~ QuotaExhausted PROVE Remembered'
  <2>1. completing = NoCompletion /\ completing' = completing /\ ~ Settling'
    BY <1>6 DEF ReceiveUnlink, WholeFrame, Remembered, Settling
  <2>2. QED
    BY <2>1 DEF Remembered, NoCompletion
<1>7. ASSUME NEW n \in 1..(HeaderUnits + 1), ReceiveSubmit(n), Live # Slots, ~ Duplicate(Head(wire).seq)
      PROVE Remembered'
  <2>1. completing = NoCompletion /\ completing' = completing /\ ~ Settling'
    BY <1>7 DEF ReceiveSubmit, WholeFrame, Remembered, Settling
  <2>2. QED
    BY <2>1 DEF Remembered, NoCompletion
<1>8. CASE \/ \E n \in 1..ReplyUnits : FlushWrite(n)
           \/ \E r \in Requests, s \in Seqs : KernelSubmit(r, s)
           \/ \E o \in outstanding : KernelUnlink(o)
           \/ KernelRead
  BY <1>4, <1>8 DEF FlushWrite, KernelSubmit, KernelUnlink, KernelRead, loopVars, tableVars, Live, Settling
<1>9. ASSUME slots' = slots, completing' = completing, Settling' = Settling PROVE Remembered'
  BY <1>4, <1>9 DEF Live
<1>10. CASE Service \/ Flush \/ ReceiveStop \/ ReadyDone \/ Unexpired
            \/ \E elapsed \in 0..Timeout : Wait(elapsed)
  <2>1. CASE Service \/ ReceiveStop \/ ReadyDone \/ \E elapsed \in 0..Timeout : Wait(elapsed)
    BY <1>9, <2>1 DEF Service, ReceiveStop, ReadyDone, Wait, tableVars, Settling
  <2>2. CASE Unexpired
    BY <1>9, <2>2 DEF Unexpired, tableVars, Settling
  <2>3. CASE FlushReturn
    BY <1>9, <2>3 DEF FlushReturn, tableVars, Settling, LoopTypes
  <2>4. QED
    BY <1>3, <1>8, <1>10, <2>1, <2>2, <2>3 DEF Flush, FlushFail
<1>11. ASSUME NEW n \in 1..(HeaderUnits + 1), ReceivePart(n) PROVE Remembered'
  BY <1>9, <1>11 DEF ReceivePart, tableVars, Settling
<1>12. CASE UNCHANGED vars
  BY <1>9, <1>12 DEF vars, loopVars, tableVars, Settling
<1>13. CASE ServiceStop \/ Expire \/ ReceiveFail \/ \E i \in Slots : CompleteFail(i)
  BY <1>3, <1>13 DEF ServiceStop, Expire, ReceiveFail, CompleteFail
<1>14. ASSUME NEW n \in 1..(HeaderUnits + 1), ReceiveUnlink(n) \/ ReceiveSubmit(n) PROVE Remembered'
  BY <1>3, <1>6, <1>7, <1>14 DEF ReceiveUnlink, ReceiveSubmit
<1>15. QED
  BY <1>1, <1>2, <1>5, <1>8, <1>10, <1>11, <1>12, <1>13, <1>14 DEF Next, Worker, Kernel, Receive, Serve

\* The connection starts with these types.
LEMMA TypesInit == Init => Types
<1> SUFFICES ASSUME Init PROVE Types
  OBVIOUS
<1> USE DEF Init
<1>1. LoopTypes
  BY WorkerAssumption DEF LoopTypes, NoTime
<1>2. TableTypes
  BY DEF TableTypes, Unconfigured
<1>3. AudioTypes
  BY DEF AudioTypes
<1>4. ReplyTypes
  BY WorkerAssumption DEF ReplyTypes
<1>5. SocketTypes
  BY WorkerAssumption DEF SocketTypes
<1>6. KernelTypes
  BY DEF KernelTypes
<1>7. Remembered
  BY DEF Remembered, Settling, NoCompletion
<1>8. QED
  BY <1>1, <1>2, <1>3, <1>4, <1>5, <1>6, <1>7 DEF Types

\* Every step keeps them.
LEMMA TypesStep ==
  ASSUME Types, [Next]_vars
  PROVE  Types'
BY LoopTypesStep, TableTypesStep, AudioTypesStep, ReplyTypesStep, SocketTypesStep, KernelTypesStep,
   RememberedStep DEF Types

\* They imply the type invariant that the runs check.
LEMMA TypesImplyTypeOK == Types => TypeOK
BY DEF Types, TypeOK, LoopTypes, TableTypes, AudioTypes, ReplyTypes, Remembered

\* So they hold throughout.
LEMMA TypesInvariant == Spec => []Types
BY TypesInit, TypesStep, PTL DEF Spec

\* Every variable keeps its type, and the table and the completion queue keep the capacity of
\* SLOT_COUNT, for every capacity, timeout and script of the kernel (Worker, Pending, CompletionQueue).
THEOREM TypeCorrect == Spec => []TypeOK
BY TypesInvariant, TypesImplyTypeOK, PTL

-----------------------------------------------------------------------------
\* Replies are queued in the order of their deadlines, none further off than the time a reply has.
Queued ==
  /\ \A k \in DOMAIN outgoing : outgoing[k].deadline <= now + Timeout
  /\ \A j, k \in DOMAIN outgoing : j <= k => outgoing[j].deadline <= outgoing[k].deadline

\* A frame received in part is timed.
Begun == pc # "done" /\ received > 0 => frameStarted # NoTime

\* The flush before a wait runs with nothing overdue.
Checked == pc = "flush" /\ after = "wait" => ~ Overdue

\* The inductive invariant of DeadlinesEnforced.
Deadlines == Queued /\ Begun /\ Checked /\ DeadlinesEnforced

\* The types of one reply of the queue.
LEMMA ReplyAt ==
  ASSUME ReplyTypes, NEW k \in DOMAIN outgoing
  PROVE  /\ outgoing[k] \in Reply /\ outgoing[k].urb \in Nat /\ outgoing[k].written \in Nat
         /\ outgoing[k].deadline \in Nat
<1>1. outgoing[k] \in Reply
  BY DEF ReplyTypes
<1>2. QED
  BY <1>1 DEF Reply

\* A new reply has the latest deadline of the queue.
LEMMA QueuedPush ==
  ASSUME Queued, ReplyTypes, now \in Nat, NEW kind \in {"submit", "unlink"}, NEW urb \in Nat,
         NEW ok \in BOOLEAN, Push(kind, urb, ok), now' = now
  PROVE  Queued'
<1> DEFINE r == [kind |-> kind, urb |-> urb, ok |-> ok, written |-> 0, deadline |-> now + Timeout]
<1>1. r.deadline = now + Timeout /\ now + Timeout \in Nat
  BY WorkerAssumption
<1>2. outgoing' = Append(outgoing, r)
  BY DEF Push
<1>3. outgoing \in Seq(Reply) /\ \A k \in DOMAIN outgoing : outgoing[k].deadline \in Nat
  BY ReplyAt DEF ReplyTypes
<1> HIDE DEF r
<1>4. /\ Len(outgoing) \in Nat /\ DOMAIN outgoing = 1..Len(outgoing)
      /\ DOMAIN outgoing' = 1..(Len(outgoing) + 1)
      /\ \A k \in 1..Len(outgoing) : outgoing'[k] = outgoing[k]
      /\ outgoing'[Len(outgoing) + 1] = r
  BY <1>2, <1>3
<1>5. \A k \in DOMAIN outgoing' : outgoing'[k].deadline <= now + Timeout
  BY <1>1, <1>4 DEF Queued
<1>6. ASSUME NEW j \in DOMAIN outgoing', NEW k \in DOMAIN outgoing', j <= k
      PROVE  outgoing'[j].deadline <= outgoing'[k].deadline
  <2>1. CASE k = Len(outgoing) + 1
    BY <1>1, <1>4, <1>5, <2>1
  <2>2. CASE k # Len(outgoing) + 1
    BY <1>4, <1>6, <2>2 DEF Queued
  <2>3. QED
    BY <2>1, <2>2
<1>7. QED
  BY <1>5, <1>6 DEF Queued

\* The deadlines stay in order when replies are queued, written and removed.
LEMMA QueuedStep ==
  ASSUME Types, Queued, [Next]_vars
  PROVE  Queued'
<1>0. /\ now \in Nat /\ clock \in Nat /\ now <= clock /\ Timeout \in Nat /\ outgoing \in Seq(Reply)
      /\ \A k \in DOMAIN outgoing : outgoing[k].deadline \in Nat
  BY ReplyAt, WorkerAssumption DEF Types, LoopTypes, ReplyTypes
<1>a. ASSUME outgoing' = outgoing, now' = now PROVE Queued'
  BY <1>a DEF Queued
<1>1. CASE Quiet
  BY <1>0, <1>1 DEF Quiet, Queued
<1>2. CASE Stop
  BY <1>2 DEF Stop, Queued
<1>3. ASSUME NEW n \in 1..ReplyUnits, FlushWrite(n) PROVE Queued'
  <2>1. outgoing # << >> /\ now' = now
    BY <1>3 DEF FlushWrite, timeVars
  <2>2. CASE Head(outgoing).written + n = ReplyUnits
    <3>1. outgoing' = Tail(outgoing)
      BY <1>3, <2>2 DEF FlushWrite
    <3>2. /\ Len(outgoing) \in Nat /\ DOMAIN outgoing = 1..Len(outgoing)
          /\ DOMAIN outgoing' = 1..(Len(outgoing) - 1)
          /\ \A k \in DOMAIN outgoing' : outgoing'[k] = outgoing[k + 1]
      BY <1>0, <2>1, <3>1
    <3>3. \A k \in DOMAIN outgoing' : k + 1 \in DOMAIN outgoing
      BY <3>2
    <3>4. ASSUME NEW j \in DOMAIN outgoing', NEW k \in DOMAIN outgoing', j <= k
          PROVE  outgoing'[j].deadline <= outgoing'[k].deadline
      <4>1. j + 1 \in DOMAIN outgoing /\ k + 1 \in DOMAIN outgoing /\ j + 1 <= k + 1
        BY <3>2, <3>3, <3>4
      <4>2. QED
        BY <3>2, <4>1 DEF Queued
    <3>5. \A k \in DOMAIN outgoing' : outgoing'[k].deadline <= now + Timeout
      BY <3>2, <3>3 DEF Queued
    <3>6. QED
      BY <2>1, <3>4, <3>5 DEF Queued
  <2>3. CASE Head(outgoing).written + n # ReplyUnits
    <3> DEFINE r == [outgoing[1] EXCEPT !.written = @ + n]
    <3>1. outgoing' = [outgoing EXCEPT ![1] = r] /\ outgoing[1] \in Reply
      BY <1>0, <1>3, <2>1, <2>3 DEF FlushWrite
    <3>2. r.deadline = outgoing[1].deadline
      BY <3>1 DEF Reply
    <3> HIDE DEF r
    <3>3. DOMAIN outgoing' = DOMAIN outgoing
          /\ \A k \in DOMAIN outgoing : outgoing'[k].deadline = outgoing[k].deadline
      BY <1>0, <3>1, <3>2
    <3>4. QED
      BY <2>1, <3>3 DEF Queued
  <2>4. QED
    BY <2>2, <2>3
<1>4. ASSUME NEW n \in 1..(HeaderUnits + 1), ReceiveUnlink(n), ~ QuotaExhausted PROVE Queued'
  <2>1. Head(wire) \in Unlink /\ now' = now
    BY <1>4, UnlinkRemoves DEF Types, ReceiveUnlink, timeVars
  <2>2. Push("unlink", Head(wire).urb, ~ Cancelled(Head(wire).seq))
    BY <1>4 DEF ReceiveUnlink
  <2>3. (~ Cancelled(Head(wire).seq)) \in BOOLEAN /\ Head(wire).urb \in Nat
    BY <2>1 DEF Cancelled, Unlink
  <2>4. QED
    BY <1>0, <2>1, <2>2, <2>3, QueuedPush DEF Types
<1>5. ASSUME NEW i \in Slots, Complete(i) PROVE Queued'
  <2>1. PICK o \in Outcomes(slots[i].request) : Push("submit", slots[i].urb, o[1])
    BY <1>5 DEF Complete
  <2>2. slots[i].urb \in Nat /\ slots[i].request \in Requests /\ now' = now
    BY <1>5, LiveSlot DEF Complete, NextReady, Transfer, TableTypes, Types, timeVars
  <2>3. o[1] \in BOOLEAN
    BY <2>2, OutcomeTypes DEF TableTypes, Types
  <2>4. QED
    BY <1>0, <2>1, <2>2, <2>3, QueuedPush DEF Types
<1>6. ASSUME NEW n \in 1..(HeaderUnits + 1), ReceiveSubmit(n), Live # Slots, ~ Duplicate(Head(wire).seq)
      PROVE  Queued'
  BY <1>a, <1>6 DEF ReceiveSubmit, timeVars
<1>7. ASSUME NEW i \in Slots, Capture(i) PROVE Queued'
  BY <1>a, <1>7 DEF Capture, timeVars
<1>8. CASE Settle
  BY <1>a, <1>8 DEF Settle, timeVars
<1>9. CASE \/ \E r \in Requests, s \in Seqs : KernelSubmit(r, s)
           \/ \E o \in outstanding : KernelUnlink(o)
           \/ KernelRead
  BY <1>a, <1>9 DEF KernelSubmit, KernelUnlink, KernelRead, timeVars
<1>10. QED
  BY StepCases, <1>1, <1>2, <1>3, <1>4, <1>5, <1>6, <1>7, <1>8, <1>9 DEF Cases, Types

\* A partial frame is timed from its first byte.
LEMMA BegunStep ==
  ASSUME Types, Begun, [Next]_vars
  PROVE  Begun'
<1>0. /\ now \in Nat /\ received \in Nat /\ frameStarted \in Nat \cup {NoTime} /\ NoTime = -1
  BY WorkerAssumption DEF Types, LoopTypes, NoTime
<1>1. ASSUME received' = received, frameStarted' = frameStarted, pc # "done" PROVE Begun'
  BY <1>1 DEF Begun
<1>2. CASE Stop
  BY <1>2 DEF Stop, Begun
<1>3. ASSUME NEW n \in 1..(HeaderUnits + 1), ReceivePart(n) PROVE Begun'
  BY <1>0, <1>3 DEF ReceivePart, Started, Begun
<1>4. ASSUME NEW n \in 1..(HeaderUnits + 1), ReceiveUnlink(n) \/ ReceiveSubmit(n) PROVE Begun'
  BY <1>2, <1>4 DEF ReceiveUnlink, ReceiveSubmit, Consumed, Begun
<1>5. CASE Service \/ ReceiveStop \/ ReadyDone \/ Unexpired \/ FlushReturn
           \/ (\E n \in 1..ReplyUnits : FlushWrite(n)) \/ \E elapsed \in 0..Timeout : Wait(elapsed)
  BY <1>1, <1>5 DEF Service, ReceiveStop, ReadyDone, Unexpired, FlushReturn, FlushWrite, Wait, recvVars
<1>6. CASE Settle \/ \E i \in Slots : Capture(i) \/ Complete(i)
  BY <1>1, <1>6 DEF Settle, Capture, Complete, recvVars
<1>7. CASE Kernel
  BY <1>1, <1>7 DEF Kernel, KernelSubmit, KernelUnlink, KernelRead, recvVars
<1>8. CASE ServiceStop \/ Expire \/ ReceiveFail \/ FlushFail \/ \E i \in Slots : CompleteFail(i)
  BY <1>2, <1>8 DEF ServiceStop, Expire, ReceiveFail, CompleteFail, FlushFail
<1>9. CASE UNCHANGED vars
  BY <1>9 DEF vars, loopVars, recvVars, Begun
<1>10. QED
  BY <1>3, <1>4, <1>5, <1>6, <1>7, <1>8, <1>9 DEF Next, Worker, Receive, Serve, Flush

\* Overdue reads these variables.
LEMMA CheckedStep ==
  ASSUME Types, Checked, [Next]_vars
  PROVE  Checked'
<1>1. CASE pc' # "flush" \/ after' # "wait"
  BY <1>1 DEF Checked
<1>2. ASSUME pc' = pc, after' = after, now' = now, pending' = pending, frameStarted' = frameStarted PROVE Checked'
  BY <1>2 DEF Checked, Overdue
<1>3. CASE Unexpired
  BY <1>3 DEF Unexpired, Checked, Overdue, timeVars, tableVars, recvVars
<1>4. CASE Service \/ ReceiveStop \/ ReadyDone \/ FlushReturn \/ \E elapsed \in 0..Timeout : Wait(elapsed)
  BY <1>1, <1>4 DEF Service, ReceiveStop, ReadyDone, FlushReturn, Wait, Types, LoopTypes
<1>5. CASE Kernel \/ \E n \in 1..ReplyUnits : FlushWrite(n)
  BY <1>2, <1>5 DEF Kernel, KernelSubmit, KernelUnlink, KernelRead, FlushWrite, loopVars, timeVars, recvVars, tableVars
<1>6. CASE Stop
  BY <1>1, <1>6 DEF Stop
<1>7. ASSUME NEW n \in 1..(HeaderUnits + 1), ReceivePart(n) PROVE Checked'
  BY <1>1, <1>7 DEF ReceivePart
<1>8. ASSUME NEW n \in 1..(HeaderUnits + 1), ReceiveUnlink(n) \/ ReceiveSubmit(n) PROVE Checked'
  BY <1>1, <1>6, <1>8 DEF ReceiveUnlink, ReceiveSubmit, WholeFrame
<1>9. CASE Settle \/ \E i \in Slots : Capture(i) \/ Complete(i)
  BY <1>1, <1>9 DEF Settle, Capture, Complete, loopVars
<1>10. CASE UNCHANGED vars
  BY <1>2, <1>10 DEF vars, loopVars, timeVars, recvVars, tableVars
<1>11. QED
  BY <1>3, <1>4, <1>5, <1>6, <1>7, <1>8, <1>9, <1>10
  DEF Next, Worker, Receive, Serve, Flush, ServiceStop, Expire, ReceiveFail, CompleteFail, FlushFail

\* A wait starts only from that flush: requests and frames were checked, and the reply at the head,
\* whose deadline is the earliest, was checked by flush itself.
LEMMA DeadlinesEnforcedStep ==
  ASSUME Types, Deadlines, [Next]_vars
  PROVE  DeadlinesEnforced'
<1>0. /\ now \in Nat /\ received \in Nat /\ frameStarted \in Nat \cup {NoTime} /\ NoTime = -1 /\ Timeout \in Nat
      /\ outgoing \in Seq(Reply) /\ pending \subseteq [seq : Seqs, generation : Nat, deadline : Nat]
      /\ \A k \in DOMAIN outgoing : outgoing[k].deadline \in Nat
      /\ \A e \in pending : e.deadline \in Nat
  <2>1. outgoing \in Seq(Reply) /\ \A k \in DOMAIN outgoing : outgoing[k].deadline \in Nat
    BY ReplyAt DEF Types, ReplyTypes
  <2>2. QED
    BY <2>1, WorkerAssumption DEF Types, LoopTypes, NoTime, TableTypes
<1>1. CASE pc' # "wait"
  BY <1>1 DEF DeadlinesEnforced
<1>2. CASE FlushReturn
  <2>1. CASE after # "wait"
    BY <1>1, <1>2, <2>1 DEF FlushReturn
  <2>2. CASE after = "wait"
    <3>1. ~ Overdue /\ pc # "done" /\ (outgoing # << >> => now < Head(outgoing).deadline)
      BY <1>2, <2>2 DEF FlushReturn, Deadlines, Checked
    <3>2. now' = now /\ pending' = pending /\ outgoing' = outgoing /\ received' = received /\ frameStarted' = frameStarted
      BY <1>2 DEF FlushReturn, timeVars, tableVars, recvVars
    <3>3. \A e \in pending : now < e.deadline
      BY <1>0, <3>1 DEF Overdue
    <3>4. \A k \in DOMAIN outgoing : now < outgoing[k].deadline
      <4>1. ASSUME NEW k \in DOMAIN outgoing PROVE now < outgoing[k].deadline
        <5>1. outgoing # << >> /\ Head(outgoing) = outgoing[1] /\ 1 \in DOMAIN outgoing /\ 1 <= k
          BY <1>0
        <5>2. outgoing[1].deadline <= outgoing[k].deadline
          BY <5>1 DEF Deadlines, Queued
        <5>3. QED
          BY <1>0, <3>1, <5>1, <5>2
      <4>2. QED
        BY <4>1
    <3>5. received > 0 => frameStarted # NoTime /\ now < frameStarted + Timeout
      BY <1>0, <3>1 DEF Overdue, Deadlines, Begun
    <3>6. QED
      BY <3>2, <3>3, <3>4, <3>5 DEF DeadlinesEnforced
  <2>3. QED
    BY <2>1, <2>2
<1>3. CASE Kernel \/ UNCHANGED vars
  <2>1. UNCHANGED <<pc, now, pending, outgoing, received, frameStarted>>
    BY <1>3 DEF Kernel, KernelSubmit, KernelUnlink, KernelRead, vars, loopVars, timeVars, tableVars, recvVars
  <2>2. QED
    BY <2>1 DEF Deadlines, DeadlinesEnforced
<1>4. CASE Service \/ ReceiveStop \/ ReadyDone \/ Unexpired \/ Settle
            \/ (\E n \in 1..ReplyUnits : FlushWrite(n)) \/ \E elapsed \in 0..Timeout : Wait(elapsed)
  BY <1>1, <1>4 DEF Service, ReceiveStop, ReadyDone, Unexpired, Settle, FlushWrite, Wait, loopVars
<1>5. ASSUME NEW n \in 1..(HeaderUnits + 1), ReceivePart(n) \/ ReceiveUnlink(n) \/ ReceiveSubmit(n)
      PROVE  DeadlinesEnforced'
  BY <1>1, <1>5 DEF ReceivePart, ReceiveUnlink, ReceiveSubmit, WholeFrame, Stop
<1>6. CASE Stop
  BY <1>1, <1>6 DEF Stop
<1>7. CASE \E i \in Slots : Capture(i) \/ Complete(i)
  BY <1>1, <1>7 DEF Capture, Complete, loopVars
<1>8. QED
  BY <1>2, <1>3, <1>4, <1>5, <1>6, <1>7
  DEF Next, Worker, Receive, Serve, Flush, ServiceStop, Expire, ReceiveFail, CompleteFail, FlushFail

\* Every step keeps the invariant.
LEMMA DeadlinesStep ==
  ASSUME Types, Deadlines, [Next]_vars
  PROVE  Deadlines'
BY QueuedStep, BegunStep, CheckedStep, DeadlinesEnforcedStep DEF Deadlines

\* The worker never waits with a request, a reply or a partial frame past its deadline
\* (enforce_deadlines, CompletionQueue::flush): DeadlinesEnforced, for every timeout.
THEOREM RequestsInTime == Spec => []DeadlinesEnforced
<1>1. Init => Deadlines
  BY DEF Init, Deadlines, Queued, Begun, Checked, DeadlinesEnforced
<1>2. QED
  BY <1>1, TypesInvariant, DeadlinesStep, PTL DEF Spec, Deadlines

-----------------------------------------------------------------------------
(* StreamSound: schedule, pace and books.                                  *)

\* No transfer is added and none that stays is changed.
Kept == Live' \subseteq Live /\ (\A i \in Live' : slots'[i] = slots[i]) /\ nextOrder' = nextOrder

\* A step keeps the slots it does not empty, adds one, or counts one packet more in one.
LEMMA SlotCases ==
  ASSUME Types, Cases
  PROVE  /\ now \in Nat /\ now' \in Nat /\ now <= now'
         /\ \/ Kept
            \/ \E n \in 1..(HeaderUnits + 1) : ReceiveSubmit(n) /\ Live # Slots /\ ~ Duplicate(Head(wire).seq)
            \/ \E i \in Slots : Capture(i)
<1>0. now \in Nat /\ clock \in Nat /\ now <= clock
  BY WorkerAssumption DEF Types, LoopTypes
<1>1. CASE Quiet
  BY <1>0, <1>1 DEF Quiet, tableVars, Kept, Live
<1>2. CASE Stop
  BY <1>0, <1>2 DEF Stop, timeVars, Kept, Live
<1>3. CASE \/ \E n \in 1..ReplyUnits : FlushWrite(n)
           \/ \E r \in Requests, s \in Seqs : KernelSubmit(r, s)
           \/ \E o \in outstanding : KernelUnlink(o)
           \/ KernelRead
  <2>1. slots' = slots /\ nextOrder' = nextOrder /\ now' = now
    BY <1>3 DEF FlushWrite, KernelSubmit, KernelUnlink, KernelRead, timeVars, tableVars
  <2>2. QED
    BY <1>0, <2>1 DEF Kept, Live
<1>4. ASSUME NEW n \in 1..(HeaderUnits + 1), ReceiveUnlink(n), ~ QuotaExhausted PROVE Kept /\ now' = now
  <2>1. Live' \subseteq Live /\ \A i \in Live' : slots'[i] = slots[i]
    BY <1>4, UnlinkRemoves DEF Types
  <2>2. QED
    BY <1>4, <2>1 DEF ReceiveUnlink, timeVars, Kept
<1>5. ASSUME NEW n \in 1..(HeaderUnits + 1), ReceiveSubmit(n), Live # Slots, ~ Duplicate(Head(wire).seq)
      PROVE  now' = now
  BY <1>5 DEF ReceiveSubmit, timeVars
<1>6. ASSUME NEW i \in Slots, Capture(i) PROVE now' = now
  BY <1>6 DEF Capture, timeVars
<1>7. ASSUME NEW i \in Slots, Complete(i) PROVE Kept /\ now' = now
  BY <1>7 DEF Complete, timeVars, Kept, Live
<1>8. CASE Settle
  <2>1. Live' \subseteq Live /\ \A i \in Live' : slots'[i] = slots[i]
    BY <1>8, SettleRemoves DEF Types
  <2>2. QED
    BY <1>0, <1>8, <2>1 DEF Settle, timeVars, Kept
<1>9. QED
  BY <1>0, <1>1, <1>2, <1>3, <1>4, <1>5, <1>6, <1>7, <1>8 DEF Cases

-----------------------------------------------------------------------------
\* The packets of the transfer in a slot.
Packets(i) == slots[i].request.packets
\* Two slots of the same stream.
Alike(i, j) == slots[i].request.stream = slots[j].request.stream

\* Transfers are numbered in the order of their submission.
Ordered ==
  /\ \A i \in Live : slots[i].order < nextOrder
  /\ \A i, j \in Live : slots[i].order = slots[j].order => i = j

\* The transfers of a stream are ready one after another, a transfer's duration apart.
Spaced ==
  \A i, j \in Live : Alike(i, j) /\ slots[i].order < slots[j].order =>
    slots[i].ready + Delay(slots[j].request) <= slots[j].ready

\* A microphone packet is collected once its millisecond has passed.
Captured ==
  \A i \in Live :
    /\ slots[i].captured <= CapturePackets(slots[i])
    /\ slots[i].captured > 0 => slots[i].captured <= now - (slots[i].ready - CapturePackets(slots[i]))

\* The schedule of the slots.
Scheduled == Ordered /\ Spaced /\ Captured

\* The types of one live slot.
LEMMA SlotTypes ==
  ASSUME Types, NEW i \in Live
  PROVE  /\ i \in Slots /\ slots[i] \in Transfer /\ slots[i].request \in Requests
         /\ slots[i].order \in Nat /\ slots[i].ready \in Nat /\ slots[i].captured \in Nat
         /\ slots[i].request.stream \in Streams /\ slots[i].request.packets \in Nat
         /\ CapturePackets(slots[i]) \in Nat
<1>1. /\ i \in Slots /\ slots[i] \in Transfer
      /\ slots[i].request.stream \in Streams /\ slots[i].request.packets \in Nat
  BY LiveSlot DEF Types, TableTypes
<1>2. QED
  BY <1>1 DEF Transfer, CapturePackets

\* reserve puts a transfer after the transfers of its stream that are queued, and capture_one collects
\* a packet only when it is due.
LEMMA ScheduledStep ==
  ASSUME Types, Scheduled, [Next]_vars
  PROVE  Scheduled'
<1>0. Cases
  BY StepCases DEF Types
<1>1. now \in Nat /\ now' \in Nat /\ now <= now'
  BY <1>0, SlotCases
<1>2. CASE Kept
  <2>1. Ordered' /\ Spaced'
    BY <1>2 DEF Kept, Scheduled, Ordered, Spaced, Alike
  <2>2. Captured'
    BY <1>1, <1>2, SlotTypes DEF Kept, Scheduled, Captured
  <2>3. QED
    BY <2>1, <2>2 DEF Scheduled
<1>3. ASSUME NEW n \in 1..(HeaderUnits + 1), ReceiveSubmit(n), Live # Slots, ~ Duplicate(Head(wire).seq)
      PROVE  Scheduled'
  <2> DEFINE f == FreeSlot
             h == Head(wire)
             t == Accepted(Head(wire))
  <2>1. /\ f \in Slots \ Live /\ Live' = Live \cup {f} /\ \A i \in Live : slots'[i] = slots[i]
        /\ slots'[f] = t /\ t \in Transfer /\ h \in Submit
    BY <1>3, SubmitAdds DEF Types
  <2>2. t.order = nextOrder /\ nextOrder' = nextOrder + 1 /\ nextOrder \in Nat /\ t.captured = 0
        /\ t.request = h.request /\ t.ready = Ready(h.request) /\ h.request \in Requests
    BY <1>3, <2>1 DEF ReceiveSubmit, Accepted, Types, TableTypes, Submit
  <2>3. \A i \in SameStream(h.request) : slots[i].ready + Delay(h.request) <= Ready(h.request)
    BY <2>2, ReadyAfter, <1>1 DEF Types, TableTypes
  <2>4. CapturePackets(t) \in Nat
    BY <2>2, RequestType DEF CapturePackets
  <2> HIDE DEF f, h, t
  <2>5. Ordered'
    <3>1. \A i \in Live' : slots'[i].order < nextOrder'
      BY <2>1, <2>2, SlotTypes DEF Scheduled, Ordered
    <3>2. ASSUME NEW i \in Live', NEW j \in Live', slots'[i].order = slots'[j].order PROVE i = j
      BY <2>1, <2>2, <3>2, SlotTypes DEF Scheduled, Ordered
    <3>3. QED
      BY <3>1, <3>2 DEF Ordered
  <2>6. Spaced'
    <3>1. ASSUME NEW i \in Live', NEW j \in Live', Alike(i, j)', slots'[i].order < slots'[j].order
          PROVE  slots'[i].ready + Delay(slots'[j].request) <= slots'[j].ready
      <4>1. CASE i \in Live /\ j \in Live
        BY <2>1, <3>1, <4>1 DEF Scheduled, Spaced, Alike
      <4>2. CASE i \in Live /\ j = f
        <5>1. i \in SameStream(h.request)
          BY <2>1, <2>2, <3>1, <4>2 DEF SameStream, Alike
        <5>2. QED
          BY <2>1, <2>2, <2>3, <4>2, <5>1
      <4>3. CASE i = f
        <5>1. slots'[j].order <= nextOrder
          BY <2>1, <2>2, SlotTypes DEF Scheduled, Ordered
        <5>2. slots'[i].order = nextOrder
          BY <2>1, <2>2, <4>3
        <5>3. slots'[j].order \in Nat
          BY <2>1, <2>2, SlotTypes
        <5>4. QED
          BY <2>2, <3>1, <5>1, <5>2, <5>3
      <4>4. QED
        BY <2>1, <4>1, <4>2, <4>3
    <3>2. QED
      BY <3>1 DEF Spaced
  <2>7. Captured'
    <3>1. now' = now
      BY <1>3 DEF ReceiveSubmit, timeVars
    <3>2. QED
      BY <2>1, <2>2, <2>4, <3>1 DEF Scheduled, Captured
  <2>8. QED
    BY <2>5, <2>6, <2>7 DEF Scheduled
<1>4. ASSUME NEW i \in Slots, Capture(i) PROVE Scheduled'
  <2> DEFINE t == slots[i]
             u == [slots[i] EXCEPT !.captured = slots[i].captured + 1]
  <2>1. i \in Live /\ Live' = Live /\ slots'[i] = u /\ t = slots[i] /\ \A j \in Live : j # i => slots'[j] = slots[j]
    BY <1>4, CaptureCounts DEF Types
  <2>2. t \in Transfer /\ t.captured \in Nat /\ t.ready \in Nat /\ CapturePackets(t) \in Nat
    BY <2>1, SlotTypes
  <2>3. u.order = t.order /\ u.ready = t.ready /\ u.request = t.request /\ u.captured = t.captured + 1
    BY <2>2 DEF Transfer
  <2>4. CapturePackets(u) = CapturePackets(t)
    BY <2>3 DEF CapturePackets
  <2>5. Due(t) <= now /\ Collecting(t) /\ now' = now /\ nextOrder' = nextOrder
    BY <1>4 DEF Capture, NextReady, timeVars
  <2> HIDE DEF t, u
  <2>6. t.captured + 1 <= CapturePackets(t) /\ t.captured + 1 <= now - (t.ready - CapturePackets(t))
    <3>1. t.captured < CapturePackets(t) /\ Due(t) = t.ready - (CapturePackets(t) - t.captured - 1)
      BY <2>5 DEF Due, Collecting
    <3>2. QED
      BY <1>1, <2>2, <2>5, <3>1
  <2>7. \A j \in Live : slots'[j].order = slots[j].order /\ slots'[j].ready = slots[j].ready
                        /\ slots'[j].request = slots[j].request
    BY <2>1, <2>3
  <2>8. Ordered'
    BY <2>1, <2>5, <2>7 DEF Scheduled, Ordered
  <2>9. Spaced'
    BY <2>1, <2>7 DEF Scheduled, Spaced, Alike
  <2>10. Captured'
    <3>1. ASSUME NEW j \in Live, j # i
          PROVE  /\ slots'[j].captured <= CapturePackets(slots'[j])
                 /\ slots'[j].captured > 0 => slots'[j].captured <= now' - (slots'[j].ready - CapturePackets(slots'[j]))
      BY <2>1, <2>5, <3>1 DEF Scheduled, Captured
    <3>2. /\ slots'[i].captured <= CapturePackets(slots'[i])
          /\ slots'[i].captured <= now' - (slots'[i].ready - CapturePackets(slots'[i]))
      BY <2>1, <2>3, <2>4, <2>5, <2>6
    <3>3. QED
      BY <2>1, <3>1, <3>2 DEF Captured
  <2>11. QED
    BY <2>8, <2>9, <2>10 DEF Scheduled
<1>5. QED
  BY <1>0, <1>2, <1>3, <1>4, SlotCases

\* A stream never has more packets behind it than its next transfer allows for.
Ahead ==
  /\ \A s \in Streams : streamed[s] <= now
  /\ \A i \in Live : Packets(i) > 0 => streamed[slots[i].request.stream] + Packets(i) <= slots[i].ready

\* The transfer whose reply is being flushed was due, its packets collected, and the first of its stream.
Earliest ==
  \A i \in Live : completing.slot = i =>
    /\ slots[i].ready <= now
    /\ Packets(i) > 0 => \A j \in Live : Alike(i, j) => slots[i].order <= slots[j].order
    /\ completing.ok => slots[i].captured = CapturePackets(slots[i])

\* What is due is due no later than its transfer.
LEMMA DueBound ==
  ASSUME Types, Scheduled, NEW i \in Live
  PROVE  Due(slots[i]) \in Int /\ Due(slots[i]) <= slots[i].ready
<1>1. /\ slots[i].ready \in Nat /\ slots[i].captured \in Nat /\ CapturePackets(slots[i]) \in Nat
  BY SlotTypes
<1>2. CASE Collecting(slots[i])
  <2>1. slots[i].captured < CapturePackets(slots[i])
    BY <1>2 DEF Collecting
  <2>2. QED
    BY <1>1, <1>2, <2>1 DEF Due
<1>3. CASE ~ Collecting(slots[i])
  BY <1>1, <1>3 DEF Due
<1>4. QED
  BY <1>2, <1>3

\* A transfer completes with success only once all its microphone packets are collected.
LEMMA SuccessIsCollected ==
  ASSUME Types, Scheduled, NEW i \in Live, ~ Collecting(slots[i]), NEW o \in Outcomes(slots[i].request), o[1] = TRUE
  PROVE  slots[i].captured = CapturePackets(slots[i])
<1>1. /\ slots[i].captured \in Nat /\ CapturePackets(slots[i]) \in Nat
      /\ slots[i].captured <= CapturePackets(slots[i]) /\ slots[i].request.packets \in Nat
  BY SlotTypes DEF Scheduled, Captured
<1>2. CASE CapturePackets(slots[i]) = 0
  BY <1>1, <1>2
<1>3. CASE CapturePackets(slots[i]) # 0
  <2>1. slots[i].request.stream = "mic" /\ slots[i].request.packets > 0
    BY <1>1, <1>3 DEF CapturePackets
  <2>2. MicrophoneActive
    <3>1. CASE ~ MicrophoneActive
      <4>1. Outcomes(slots[i].request) = {<<FALSE, control>>}
        BY <2>1, <3>1 DEF Outcomes
      <4>2. o = <<FALSE, control>>
        BY <4>1
      <4>3. QED
        BY <4>2
    <3>2. QED
      BY <3>1
  <2>3. QED
    BY <1>1, <2>2 DEF Collecting
<1>4. QED
  BY <1>2, <1>3

\* next_ready picks the first transfer of a stream, and it stays the first while its reply is flushed.
LEMMA EarliestStep ==
  ASSUME Types, Scheduled, Earliest, [Next]_vars
  PROVE  Earliest'
<1>0. Cases /\ now \in Nat /\ now' \in Nat /\ now <= now'
  BY StepCases, SlotCases DEF Types
<1>1. CASE completing' = NoCompletion
  BY <1>1 DEF Earliest, NoCompletion, Live, Slots
<1>2. ASSUME completing' = completing, slots' = slots PROVE Earliest'
  <2>1. Live' = Live
    BY <1>2 DEF Live
  <2>2. \A i \in Live : slots[i].ready \in Nat
    BY SlotTypes
  <2>3. QED
    BY <1>0, <1>2, <2>1, <2>2 DEF Earliest, Packets, Alike
<1>3. ASSUME NEW i \in Slots, Complete(i) PROVE Earliest'
  <2>1. i \in Live /\ Due(slots[i]) <= now /\ ~ Collecting(slots[i])
        /\ \A j \in Live : Due(slots[j]) <= now => Before(slots[i], slots[j])
    BY <1>3 DEF Complete, NextReady
  <2>2. PICK o \in Outcomes(slots[i].request) : completing' = [slot |-> i, ok |-> o[1]]
    BY <1>3 DEF Complete
  <2>3. slots' = slots /\ Live' = Live /\ now' = now
    BY <1>3 DEF Complete, timeVars, Live
  <2>4. Due(slots[i]) = slots[i].ready /\ slots[i].ready <= now /\ slots[i].ready \in Nat
    BY <2>1, SlotTypes DEF Due
  <2>5. ASSUME Packets(i) > 0, NEW j \in Live, Alike(i, j)
        PROVE  slots[i].order <= slots[j].order
    <3>1. /\ slots[j].order \in Nat /\ slots[i].order \in Nat /\ slots[j].ready \in Nat
          /\ slots[i].request.packets \in Nat
      BY <2>1, <2>5, SlotTypes
    <3>2. SUFFICES ASSUME slots[j].order < slots[i].order PROVE FALSE
      BY <3>1
    <3>3. Delay(slots[i].request) = Packets(i)
      BY <2>5, <3>1 DEF Delay, Packets
    <3>4. slots[j].ready + Packets(i) <= slots[i].ready
      BY <2>1, <2>5, <3>2, <3>3 DEF Scheduled, Spaced, Alike
    <3>5. slots[j].ready < slots[i].ready /\ Due(slots[j]) <= slots[j].ready /\ Due(slots[j]) \in Int
      BY <2>4, <2>5, <3>1, <3>4, DueBound DEF Packets
    <3>6. Before(slots[i], slots[j])
      BY <1>0, <2>1, <2>4, <2>5, <3>1, <3>5
    <3>7. QED
      BY <2>4, <3>1, <3>5, <3>6 DEF Before
  <2>6. o[1] = TRUE => slots[i].captured = CapturePackets(slots[i])
    BY <2>1, <2>2, SuccessIsCollected
  <2>7. completing'.slot = i /\ completing'.ok = o[1]
    BY <2>2
  <2>8. o[1] \in BOOLEAN
    BY <2>1, SlotTypes, OutcomeTypes DEF Types, TableTypes
  <2>9. QED
    BY <2>3, <2>4, <2>5, <2>6, <2>7, <2>8 DEF Earliest, Packets, Alike
<1>4. ASSUME NEW i \in Slots, Capture(i) PROVE Earliest'
  <2>1. completing' = NoCompletion
    BY <1>4 DEF Capture, loopVars, Types, Remembered, Settling
  <2>2. QED
    BY <1>1, <2>1
<1>5. ASSUME NEW n \in 1..(HeaderUnits + 1), (ReceiveUnlink(n) /\ ~ QuotaExhausted) \/ ReceiveSubmit(n), ~ Stop
      PROVE  Earliest'
  <2>1. completing' = NoCompletion
    BY <1>5 DEF ReceiveUnlink, ReceiveSubmit, WholeFrame, Types, Remembered, Settling
  <2>2. QED
    BY <1>1, <2>1
<1>6. CASE Settle \/ Stop
  BY <1>1, <1>6 DEF Settle, Stop
<1>7. CASE Quiet
  BY <1>2, <1>7 DEF Quiet, tableVars
<1>8. CASE \/ \E n \in 1..ReplyUnits : FlushWrite(n)
           \/ \E r \in Requests, s \in Seqs : KernelSubmit(r, s)
           \/ \E o \in outstanding : KernelUnlink(o)
           \/ KernelRead
  BY <1>2, <1>8 DEF FlushWrite, KernelSubmit, KernelUnlink, KernelRead, loopVars, tableVars
<1>9. QED
  BY <1>0, <1>3, <1>4, <1>5, <1>6, <1>7, <1>8 DEF Cases

\* Only the end of a transfer's completion counts its packets.
LEMMA StreamedCases ==
  ASSUME Cases
  PROVE  streamed' = streamed \/ Settle
<1>1. CASE Quiet \/ Stop
  BY <1>1 DEF Quiet, Stop, audioVars
<1>2. CASE \/ \E n \in 1..ReplyUnits : FlushWrite(n)
           \/ \E r \in Requests, s \in Seqs : KernelSubmit(r, s)
           \/ \E o \in outstanding : KernelUnlink(o)
           \/ KernelRead
  BY <1>2 DEF FlushWrite, KernelSubmit, KernelUnlink, KernelRead, audioVars
<1>3. CASE \/ \E n \in 1..(HeaderUnits + 1) : ReceiveUnlink(n) /\ ~ QuotaExhausted
           \/ \E n \in 1..(HeaderUnits + 1) : ReceiveSubmit(n) /\ Live # Slots /\ ~ Duplicate(Head(wire).seq)
           \/ \E i \in Slots : Capture(i) \/ Complete(i)
  BY <1>3 DEF ReceiveUnlink, ReceiveSubmit, Capture, Complete, audioVars
<1>4. QED
  BY <1>1, <1>2, <1>3 DEF Cases

\* Settling a transfer moves its stream no further than the transfer's own time, which has passed.
LEMMA AheadStep ==
  ASSUME Types, Scheduled, Earliest, Ahead, [Next]_vars
  PROVE  Ahead'
<1>0. Cases /\ now \in Nat /\ now' \in Nat /\ now <= now' /\ streamed \in [Streams -> Nat]
  BY StepCases, SlotCases DEF Types, AudioTypes
<1>1. CASE streamed' = streamed /\ Kept
  BY <1>0, <1>1 DEF Kept, Ahead, Packets
<1>2. ASSUME NEW n \in 1..(HeaderUnits + 1), ReceiveSubmit(n), Live # Slots, ~ Duplicate(Head(wire).seq)
      PROVE  Ahead'
  <2> DEFINE f == FreeSlot
             r == Head(wire).request
             t == Accepted(Head(wire))
  <2>1. /\ f \in Slots \ Live /\ Live' = Live \cup {f} /\ \A i \in Live : slots'[i] = slots[i]
        /\ slots'[f] = t /\ t.request = r /\ t.ready = Ready(r) /\ r \in Requests
    BY <1>2, SubmitAdds DEF Types, Accepted, Submit
  <2>2. streamed' = streamed /\ now' = now
    BY <1>2 DEF ReceiveSubmit, audioVars, timeVars
  <2>3. r.stream \in Streams /\ r.packets \in Nat /\ Ready(r) \in Nat /\ Delay(r) \in Nat
        /\ now + Delay(r) <= Ready(r)
    BY <1>0, <2>1, RequestType, ReadyAfter DEF Types, TableTypes
  <2> HIDE DEF f, r, t
  <2>4. r.packets > 0 => streamed[r.stream] + r.packets <= Ready(r)
    <3>1. r.packets > 0 => Delay(r) = r.packets
      BY <2>3 DEF Delay
    <3>2. streamed[r.stream] <= now /\ streamed[r.stream] \in Nat
      BY <1>0, <2>3 DEF Ahead
    <3>3. QED
      BY <1>0, <2>3, <3>1, <3>2
  <2>5. QED
    BY <2>1, <2>2, <2>4 DEF Ahead, Packets
<1>3. ASSUME NEW i \in Slots, Capture(i) PROVE Ahead'
  <2>1. /\ Live' = Live /\ slots[i] \in Transfer
        /\ slots'[i] = [slots[i] EXCEPT !.captured = slots[i].captured + 1]
        /\ \A j \in Live : j # i => slots'[j] = slots[j]
    BY <1>3, CaptureCounts DEF Types
  <2>2. slots'[i].ready = slots[i].ready /\ slots'[i].request = slots[i].request
    BY <2>1 DEF Transfer
  <2>3. \A j \in Live : slots'[j].ready = slots[j].ready /\ slots'[j].request = slots[j].request
    BY <2>1, <2>2
  <2>4. streamed' = streamed /\ now' = now
    BY <1>3 DEF Capture, timeVars
  <2>5. QED
    BY <2>1, <2>3, <2>4 DEF Ahead, Packets
<1>4. CASE Settle
  <2> DEFINE c == completing.slot
             s == slots[c].request.stream
             p == slots[c].request.packets
  <2>1. c \in Live /\ Live' = Live \ {c} /\ \A i \in Live' : slots'[i] = slots[i]
    BY <1>4, SettleRemoves DEF Types
  <2>2. streamed' = (IF p = 0 THEN streamed ELSE [streamed EXCEPT ![s] = @ + p]) /\ now' = now
    BY <1>4 DEF Settle, timeVars
  <2>3. s \in Streams /\ p \in Nat /\ slots[c].ready \in Nat /\ slots[c].order \in Nat
    BY <2>1, SlotTypes
  <2>4. slots[c].ready <= now /\ (p > 0 => \A j \in Live : Alike(c, j) => slots[c].order <= slots[j].order)
    BY <2>1 DEF Earliest, Packets
  <2>5. p > 0 => streamed[s] + p <= slots[c].ready
    BY <2>1 DEF Ahead, Packets
  <2>6. \A j \in Live \ {c} : slots[j].order # slots[c].order
    BY <2>1 DEF Scheduled, Ordered
  <2>7. \A j \in Live \ {c} : Alike(c, j) /\ slots[c].order < slots[j].order =>
          slots[c].ready + Delay(slots[j].request) <= slots[j].ready
    BY <2>1 DEF Scheduled, Spaced
  <2>8. s = slots[c].request.stream
    OBVIOUS
  <2> HIDE DEF c, s, p
  <2>9. CASE p = 0
    BY <2>1, <2>2, <2>9 DEF Ahead, Packets
  <2>10. CASE p # 0
    <3>1. /\ streamed'[s] = streamed[s] + p /\ \A q \in Streams : q # s => streamed'[q] = streamed[q]
          /\ streamed[s] \in Nat
      BY <1>0, <2>2, <2>3, <2>10
    <3>2. \A q \in Streams : streamed'[q] <= now'
      BY <1>0, <2>2, <2>3, <2>4, <2>5, <2>10, <3>1 DEF Ahead
    <3>3. ASSUME NEW j \in Live', Packets(j) > 0
          PROVE  streamed'[slots[j].request.stream] + Packets(j) <= slots[j].ready
      <4>1. j \in Live /\ j # c /\ slots[j].request.stream \in Streams /\ Packets(j) \in Nat
            /\ slots[j].ready \in Nat /\ slots[j].order \in Nat
        BY <2>1, SlotTypes DEF Packets
      <4>2. CASE slots[j].request.stream = s
        <5>1. slots[c].order < slots[j].order /\ Alike(c, j)
          BY <2>3, <2>4, <2>6, <2>8, <2>10, <4>1, <4>2 DEF Alike
        <5>2. Delay(slots[j].request) = Packets(j)
          BY <3>3, <4>1 DEF Delay, Packets
        <5>3. slots[c].ready + Packets(j) <= slots[j].ready
          BY <2>7, <4>1, <5>1, <5>2
        <5>4. QED
          BY <2>3, <2>5, <2>10, <3>1, <4>1, <4>2, <5>3
      <4>3. CASE slots[j].request.stream # s
        BY <3>1, <3>3, <4>1, <4>3 DEF Ahead
      <4>4. QED
        BY <4>2, <4>3
    <3>4. QED
      BY <2>1, <3>2, <3>3 DEF Ahead, Packets
  <2>11. QED
    BY <2>9, <2>10
<1>5. QED
  BY <1>0, <1>1, <1>2, <1>3, <1>4, SlotCases, StreamedCases

-----------------------------------------------------------------------------
\* The packets held after a step: those of the slots in R go, those of the slots in N come.
LEMMA HeldAfter ==
  ASSUME Types, TableTypes', NEW R \in SUBSET Live, NEW N \in SUBSET Slots,
         Live' = (Live \ R) \cup N, N \cap (Live \ R) = {},
         \A i \in Live \ R : slots'[i].captured = slots[i].captured
  PROVE  /\ Held' + Cardinality(HeldIn(R)) = Held + Cardinality(PacketsIn(slots', N))
         /\ Held' \in Nat /\ Held \in Nat /\ Cardinality(HeldIn(R)) \in Nat
         /\ Cardinality(PacketsIn(slots', N)) \in Nat
<1>1. slots \in [Slots -> Transfer \cup {NoSlot}] /\ slots' \in [Slots -> Transfer \cup {NoSlot}]
  BY DEF Types, TableTypes
<1>2. \A i \in Live' : slots'[i].captured \in Nat
  <2>1. \A i \in Live' : i \in Slots /\ slots'[i] # NoSlot
    BY DEF Live
  <2>2. \A i \in Live' : slots'[i] \in Transfer
    BY <1>1, <2>1
  <2>3. QED
    BY <2>2 DEF Transfer
<1>3. IsFiniteSet(Live')
  <2>1. Live' \in SUBSET Slots
    BY DEF Live
  <2>2. QED
    BY <2>1, LiveFinite, FS_Subset, Zenon
<1>4. N \in SUBSET (Live') /\ (Live') \ N = Live \ R
  OBVIOUS
<1> DEFINE L == Live'
           c == slots'
           H == Held'
<1>5. N \in SUBSET L /\ L \ N = Live \ R /\ IsFiniteSet(L) /\ \A i \in L : c[i].captured \in Nat
  BY <1>2, <1>3, <1>4
<1>6. H = Cardinality(PacketsIn(c, L))
  BY DEF Held, HeldIn, PacketsIn
<1>7. PacketsIn(c, Live \ R) = HeldIn(Live \ R)
  BY PacketsSame, HeldIsPackets
<1> HIDE DEF L, c, H
<1>8. /\ Cardinality(PacketsIn(c, L)) = Cardinality(PacketsIn(c, L \ N)) + Cardinality(PacketsIn(c, N))
      /\ Cardinality(PacketsIn(c, L)) \in Nat
      /\ Cardinality(PacketsIn(c, L \ N)) \in Nat /\ Cardinality(PacketsIn(c, N)) \in Nat
  BY <1>5, PacketsSplit, Zenon
<1>9. /\ Held = Cardinality(HeldIn(Live \ R)) + Cardinality(HeldIn(R))
      /\ Held \in Nat /\ Cardinality(HeldIn(Live \ R)) \in Nat /\ Cardinality(HeldIn(R)) \in Nat
  BY <1>1, HeldSplit
<1>10. PacketsIn(c, L \ N) = HeldIn(Live \ R)
  BY <1>5, <1>7 DEF c
<1>11. H + Cardinality(HeldIn(R)) = Held + Cardinality(PacketsIn(c, N)) /\ H \in Nat
  BY <1>6, <1>8, <1>9, <1>10
<1>12. QED
  BY <1>8, <1>9, <1>11 DEF H, c

\* No slot holds no packet.
LEMMA NoPackets ==
  ASSUME NEW c
  PROVE  Cardinality(PacketsIn(c, {})) = 0
<1>1. PacketsIn(c, {}) = {}
  BY DEF PacketsIn
<1>2. QED
  BY <1>1, FS_EmptySet

\* The books of collected packets.
Accounted == collected = Held + finished + abandoned

\* Every packet that leaves a slot is counted as finished or abandoned, once.
LEMMA AccountedStep ==
  ASSUME Types, Accounted, [Next]_vars
  PROVE  Accounted'
<1>0. /\ collected \in Nat /\ finished \in Nat /\ abandoned \in Nat
      /\ slots \in [Slots -> Transfer \cup {NoSlot}] /\ Cases /\ TableTypes'
      /\ collected = Held + finished + abandoned
  BY StepCases, TypesStep DEF Types, AudioTypes, TableTypes, Accounted
<1>1. ASSUME slots' = slots, collected' = collected, finished' = finished, abandoned' = abandoned
      PROVE  Accounted'
  BY <1>1 DEF Accounted, Held, HeldIn, Live
<1>2. ASSUME NEW R \in SUBSET Live, Live' = Live \ R, \A i \in Live' : slots'[i] = slots[i]
      PROVE  Held' + Cardinality(HeldIn(R)) = Held /\ Held' \in Nat /\ Held \in Nat /\ Cardinality(HeldIn(R)) \in Nat
  <2>1. {} \in SUBSET Slots /\ Live' = (Live \ R) \cup {} /\ {} \cap (Live \ R) = {}
        /\ \A i \in Live \ R : slots'[i].captured = slots[i].captured
    BY <1>2
  <2>2. Held' + Cardinality(HeldIn(R)) = Held + Cardinality(PacketsIn(slots', {}))
        /\ Held' \in Nat /\ Held \in Nat /\ Cardinality(HeldIn(R)) \in Nat
    BY <1>0, <2>1, HeldAfter
  <2>3. QED
    BY <2>2, NoPackets
<1>a. ASSUME NEW x \in Nat, Held' + x = Held, Held' \in Nat, Held \in Nat, collected' = collected,
             finished' = finished, abandoned' = abandoned + x
      PROVE  Accounted'
  <2> DEFINE h == Held
             g == Held'
  <2>1. g + x = h /\ g \in Nat /\ h \in Nat /\ collected = h + finished + abandoned
    BY <1>0, <1>a
  <2> HIDE DEF h, g
  <2>2. collected' = g + finished' + abandoned'
    BY <1>0, <1>a, <2>1
  <2>3. QED
    BY <2>2 DEF g, Accounted
<1>3. CASE Stop
  <2>1. Live' = Live \ Live /\ \A i \in Live' : slots'[i] = slots[i]
    BY <1>3 DEF Stop, Live
  <2>2. Held' + Cardinality(HeldIn(Live)) = Held /\ Held' \in Nat /\ Held \in Nat
    BY <1>2, <2>1
  <2>3. collected' = collected /\ finished' = finished /\ abandoned' = abandoned + Held
    BY <1>3 DEF Stop
  <2>4. Cardinality(HeldIn(Live)) = Held
    BY DEF Held
  <2>5. QED
    BY <1>a, <2>2, <2>3, <2>4
<1>4. ASSUME NEW n \in 1..(HeaderUnits + 1), ReceiveUnlink(n), ~ QuotaExhausted PROVE Accounted'
  <2> DEFINE R == {i \in Live : slots[i].seq = Head(wire).seq}
  <2>1. R \in SUBSET Live /\ Live' = Live \ R /\ \A i \in Live' : slots'[i] = slots[i]
    BY <1>4, UnlinkRemoves DEF Types
  <2>2. collected' = collected /\ finished' = finished /\ abandoned' = abandoned + Cardinality(HeldIn(R))
    BY <1>4 DEF ReceiveUnlink, HeldBy
  <2> HIDE DEF R
  <2>3. Held' + Cardinality(HeldIn(R)) = Held /\ Held' \in Nat /\ Held \in Nat /\ Cardinality(HeldIn(R)) \in Nat
    BY <1>2, <2>1
  <2>4. QED
    BY <1>a, <2>2, <2>3
<1>5. ASSUME NEW n \in 1..(HeaderUnits + 1), ReceiveSubmit(n), Live # Slots, ~ Duplicate(Head(wire).seq)
      PROVE  Accounted'
  <2> DEFINE f == FreeSlot
  <2>1. /\ f \in Slots \ Live /\ Live' = Live \cup {f} /\ \A i \in Live : slots'[i] = slots[i]
        /\ slots'[f].captured = 0
    BY <1>5, SubmitAdds DEF Types, Accepted
  <2>2. collected' = collected /\ finished' = finished /\ abandoned' = abandoned
    BY <1>5 DEF ReceiveSubmit, audioVars
  <2> HIDE DEF f
  <2>3. Held' + Cardinality(HeldIn({})) = Held + Cardinality(PacketsIn(slots', {f})) /\ Held' \in Nat /\ Held \in Nat
    <3>1. /\ {} \in SUBSET Live /\ {f} \in SUBSET Slots /\ Live' = (Live \ {}) \cup {f}
          /\ {f} \cap (Live \ {}) = {} /\ \A i \in Live \ {} : slots'[i].captured = slots[i].captured
      BY <2>1
    <3>2. QED
      BY <1>0, <3>1, HeldAfter
  <2>4. Cardinality(PacketsIn(slots', {f})) = 0
    <3> DEFINE c == slots'
    <3>1. c[f].captured = 0 /\ c[f].captured \in Nat
      BY <2>1
    <3> HIDE DEF c
    <3>2. Cardinality(PacketsIn(c, {f})) = 0
      BY <3>1, PacketsOne
    <3>3. QED
      BY <3>2 DEF c
  <2>5. Cardinality(HeldIn({})) = 0
    BY NoPackets, HeldIsPackets
  <2>6. Held' + 0 = Held /\ abandoned' = abandoned + 0
    <3> DEFINE h == Held
               g == Held'
               x == Cardinality(PacketsIn(slots', {f}))
               y == Cardinality(HeldIn({}))
    <3>1. g + y = h + x /\ g \in Nat /\ h \in Nat /\ x = 0 /\ y = 0
      BY <2>3, <2>4, <2>5
    <3> HIDE DEF h, g, x, y
    <3>2. g + 0 = h
      BY <3>1
    <3>3. QED
      BY <1>0, <2>2, <3>2 DEF h, g
  <2>7. QED
    BY <1>a, <2>2, <2>3, <2>6
<1>6. ASSUME NEW i \in Slots, Capture(i) PROVE Accounted'
  <2>1. /\ i \in Live /\ Live' = Live /\ slots[i] \in Transfer
        /\ slots'[i] = [slots[i] EXCEPT !.captured = slots[i].captured + 1]
        /\ \A j \in Live : j # i => slots'[j] = slots[j]
    BY <1>6, CaptureCounts DEF Types
  <2>2. slots'[i].captured = slots[i].captured + 1 /\ slots[i].captured \in Nat
    BY <2>1 DEF Transfer
  <2>3. collected' = collected + 1 /\ finished' = finished /\ abandoned' = abandoned
    BY <1>6 DEF Capture
  <2>4. Held' + Cardinality(HeldIn({i})) = Held + Cardinality(PacketsIn(slots', {i})) /\ Held' \in Nat /\ Held \in Nat
    <3>1. /\ {i} \in SUBSET Live /\ {i} \in SUBSET Slots /\ Live' = (Live \ {i}) \cup {i}
          /\ {i} \cap (Live \ {i}) = {} /\ \A j \in Live \ {i} : slots'[j].captured = slots[j].captured
      BY <2>1
    <3>2. QED
      BY <1>0, <3>1, HeldAfter
  <2>5. Cardinality(PacketsIn(slots', {i})) = slots[i].captured + 1
    BY <2>2, PacketsOne
  <2>6. Cardinality(HeldIn({i})) = slots[i].captured
    BY <1>0, <2>1, HeldOne
  <2> DEFINE h == Held'
             g == Held
             a == Cardinality(HeldIn({i}))
             b == Cardinality(PacketsIn(slots', {i}))
             n == slots[i].captured
  <2>7. /\ h + a = g + b /\ b = n + 1 /\ a = n /\ h \in Nat /\ g \in Nat /\ n \in Nat
        /\ collected = g + finished + abandoned
        /\ collected \in Nat /\ finished \in Nat /\ abandoned \in Nat
    BY <1>0, <2>2, <2>4, <2>5, <2>6
  <2> HIDE DEF h, g, a, b, n
  <2>8. collected' = h + finished' + abandoned'
    BY <2>3, <2>7
  <2>9. QED
    BY <2>8 DEF Accounted, h
<1>7. CASE Settle
  <2> DEFINE c == completing.slot
  <2>1. c \in Live /\ {c} \in SUBSET Live /\ Live' = Live \ {c} /\ \A i \in Live' : slots'[i] = slots[i]
    BY <1>7, SettleRemoves DEF Types
  <2>2. /\ collected' = collected
        /\ \/ finished' = finished + slots[c].captured /\ abandoned' = abandoned
           \/ finished' = finished /\ abandoned' = abandoned + slots[c].captured
    BY <1>7 DEF Settle
  <2> HIDE DEF c
  <2>3. Held' + Cardinality(HeldIn({c})) = Held /\ Held' \in Nat /\ Held \in Nat
    BY <1>2, <2>1
  <2>4. Cardinality(HeldIn({c})) = slots[c].captured /\ slots[c].captured \in Nat
    BY <1>0, <2>1, HeldOne
  <2>5. QED
    BY <1>0, <2>2, <2>3, <2>4 DEF Accounted
<1>8. ASSUME NEW i \in Slots, Complete(i) PROVE Accounted'
  BY <1>1, <1>8 DEF Complete, audioVars
<1>9. CASE Quiet
  BY <1>1, <1>9 DEF Quiet, tableVars, audioVars
<1>10. CASE \/ \E n \in 1..ReplyUnits : FlushWrite(n)
            \/ \E r \in Requests, s \in Seqs : KernelSubmit(r, s)
            \/ \E o \in outstanding : KernelUnlink(o)
            \/ KernelRead
  BY <1>1, <1>10 DEF FlushWrite, KernelSubmit, KernelUnlink, KernelRead, tableVars, audioVars
<1>11. QED
  BY <1>0, <1>3, <1>4, <1>5, <1>6, <1>7, <1>8, <1>9, <1>10 DEF Cases

\* The inductive invariant of StreamSound.
Streaming == Scheduled /\ Earliest /\ Ahead /\ Accounted

\* It holds at the start.
LEMMA StreamingInit == Init => Streaming
<1> SUFFICES ASSUME Init PROVE Streaming
  OBVIOUS
<1>1. Live = {} /\ now = 0 /\ streamed = [s \in Streams |-> 0]
  BY DEF Init, Live
<1>2. Scheduled /\ Earliest /\ Ahead
  BY <1>1 DEF Scheduled, Ordered, Spaced, Captured, Earliest, Ahead
<1>3. Held = 0
  BY <1>1, NoPackets, HeldIsPackets DEF Held
<1>4. Accounted
  BY <1>3 DEF Init, Accounted
<1>5. QED
  BY <1>2, <1>4 DEF Streaming

\* It implies the two parts of StreamSound.
LEMMA StreamingSound ==
  ASSUME Types, Streaming
  PROVE  StreamSound
<1>1. StreamPaced
  BY DEF Streaming, Ahead, Scheduled, Captured, StreamPaced, Streams
<1>2. CaptureAccounted
  BY DEF Streaming, Accounted, Earliest, CaptureAccounted
<1>3. QED
  BY <1>1, <1>2 DEF StreamSound

\* No stream completes more packets than milliseconds have passed, and no collected microphone packet
\* is forgotten (next_ready, capture_due, abandoned_capture_frames): StreamSound, for every script.
THEOREM StreamsKeepPace == Spec => []StreamSound
<1>1. Types /\ Streaming /\ [Next]_vars => Streaming'
  BY ScheduledStep, EarliestStep, AheadStep, AccountedStep DEF Streaming
<1>2. Types /\ Streaming => StreamSound
  BY StreamingSound
<1>3. QED
  BY <1>1, <1>2, TypesInvariant, StreamingInit, PTL DEF Spec

-----------------------------------------------------------------------------
(* RequestsAnswered: tickets, and what each step moves.                    *)

\* The transfers of S keep their names.
SameNames(S) ==
  \A i \in S : /\ slots'[i].urb = slots[i].urb /\ slots'[i].seq = slots[i].seq
               /\ slots'[i].generation = slots[i].generation

\* The reply that push appends.
NewReply(kind, urb, ok) == [kind |-> kind, urb |-> urb, ok |-> ok, written |-> 0, deadline |-> now + Timeout]

\* What a step does to the names of transfers and to the replies, one operator per kind of step.
Still ==
  /\ Unsettled' = Unsettled /\ SameNames(Unsettled)
  /\ UNCHANGED <<pending, wire, outgoing, socket, reading, urbs, outstanding, unlinked>>

Writes(n) ==
  /\ Unsettled' = Unsettled /\ SameNames(Unsettled)
  /\ FlushWrite(n)
  /\ UNCHANGED <<pending, wire, reading, urbs, outstanding, unlinked>>

Unlinked ==
  LET f == wire[1]
  IN /\ wire # << >> /\ f \in Unlink /\ wire' = Tail(wire)
     /\ Unsettled' = {i \in Unsettled : slots[i].seq # f.seq} /\ SameNames(Unsettled')
     /\ pending' = {e \in pending : e.seq # f.seq}
     /\ ~ QuotaExhausted /\ outgoing' = Append(outgoing, NewReply("unlink", f.urb, ~ Cancelled(f.seq)))
     /\ UNCHANGED <<socket, reading, urbs, outstanding, unlinked>>

Submitted(i) ==
  LET f == wire[1]
  IN /\ wire # << >> /\ f \in Submit /\ wire' = Tail(wire) /\ ~ Duplicate(f.seq)
     /\ i \in Slots \ Unsettled /\ Unsettled' = Unsettled \cup {i} /\ SameNames(Unsettled)
     /\ slots'[i].urb = f.urb /\ slots'[i].seq = f.seq /\ slots'[i].generation = generation + 1
     /\ \E d \in Nat : pending' = pending \cup {[seq |-> f.seq, generation |-> generation + 1, deadline |-> d]}
     /\ UNCHANGED <<outgoing, socket, reading, urbs, outstanding, unlinked>>

Completed(i, ok) ==
  /\ i \in Unsettled /\ Unsettled' = Unsettled \ {i} /\ SameNames(Unsettled)
  /\ pending' = {e \in pending : e.seq # slots[i].seq}
  /\ ~ QuotaExhausted /\ outgoing' = Append(outgoing, NewReply("submit", slots[i].urb, ok))
  /\ UNCHANGED <<wire, socket, reading, urbs, outstanding, unlinked>>

KernelSteps ==
  /\ Unsettled' = Unsettled /\ SameNames(Unsettled)
  /\ UNCHANGED <<pending, outgoing>>
  /\ \/ (\E r \in Requests, s \in Seqs : KernelSubmit(r, s)) /\ UNCHANGED <<socket, reading>>
     \/ (\E o \in outstanding : KernelUnlink(o)) /\ UNCHANGED <<socket, reading>>
     \/ KernelRead /\ UNCHANGED wire

Effects ==
  \/ Still
  \/ \E n \in 1..ReplyUnits : Writes(n)
  \/ Unlinked
  \/ \E i \in Slots : Submitted(i)
  \/ \E i \in Slots, ok \in BOOLEAN : Completed(i, ok)
  \/ KernelSteps

\* Every step that does not end the connection has one of these effects.
LEMMA StepEffects ==
  ASSUME Types, [Next]_vars, pc' # "done"
  PROVE  pc # "done" /\ Effects
<1>0. Cases
  BY StepCases DEF Types
<1>1. ASSUME slots' = slots, completing' = completing PROVE Unsettled' = Unsettled /\ SameNames(Unsettled)
  BY <1>1 DEF Unsettled, Live, SameNames
<1>2. ~ Settling => Unsettled = Live
  BY DEF Types, Remembered, NoCompletion, Unsettled, Live, Slots
<1>3. CASE Quiet
  BY <1>1, <1>3 DEF Quiet, tableVars, kernelVars, Still, Effects
<1>4. CASE Stop
  BY <1>4 DEF Stop
<1>5. ASSUME NEW n \in 1..ReplyUnits, FlushWrite(n) PROVE pc # "done" /\ Effects
  BY <1>1, <1>5 DEF FlushWrite, loopVars, tableVars, kernelVars, Writes, Effects
<1>6. ASSUME NEW n \in 1..(HeaderUnits + 1), ReceiveUnlink(n), ~ QuotaExhausted PROVE pc # "done" /\ Effects
  <2>1. /\ Live' = {i \in Live : slots[i].seq # Head(wire).seq}
        /\ \A i \in Live' : slots'[i] = slots[i]
        /\ Head(wire) \in Unlink /\ Head(wire) = wire[1] /\ wire # << >>
    BY <1>6, UnlinkRemoves DEF Types
  <2>2. ~ Settling /\ pc # "done" /\ completing' = completing
    BY <1>6 DEF ReceiveUnlink, WholeFrame, Settling
  <2>3. Unsettled' = Live'
    BY <1>6, <2>2 DEF Types, Remembered, NoCompletion, Unsettled, Live, Slots
  <2>4. Unsettled' = {i \in Unsettled : slots[i].seq # wire[1].seq} /\ SameNames(Unsettled')
    BY <1>2, <2>1, <2>2, <2>3 DEF SameNames
  <2>5. /\ wire' = Tail(wire) /\ pending' = {e \in pending : e.seq # Head(wire).seq}
        /\ Push("unlink", Head(wire).urb, ~ Cancelled(Head(wire).seq))
        /\ UNCHANGED <<socket, reading, urbs, outstanding, unlinked>>
    BY <1>6 DEF ReceiveUnlink, Consumed, kernelVars
  <2>6. Unlinked
    BY <1>6, <2>1, <2>4, <2>5 DEF Unlinked, Push, NewReply
  <2>7. QED
    BY <2>2, <2>6 DEF Effects
<1>7. ASSUME NEW n \in 1..(HeaderUnits + 1), ReceiveSubmit(n), Live # Slots, ~ Duplicate(Head(wire).seq)
      PROVE  pc # "done" /\ Effects
  <2>1. /\ FreeSlot \in Slots \ Live /\ Live' = Live \cup {FreeSlot}
        /\ \A i \in Live : slots'[i] = slots[i]
        /\ slots'[FreeSlot] = Accepted(Head(wire))
        /\ Head(wire) \in Submit /\ Head(wire) = wire[1] /\ wire # << >>
    BY <1>7, SubmitAdds DEF Types
  <2>2. ~ Settling /\ pc # "done" /\ completing' = completing
    BY <1>7 DEF ReceiveSubmit, WholeFrame, Settling
  <2>3. Unsettled' = Live'
    BY <2>2 DEF Types, Remembered, NoCompletion, Unsettled, Live, Slots
  <2>4. /\ wire' = Tail(wire)
        /\ pending' = pending \cup {[seq |-> Head(wire).seq, generation |-> generation + 1, deadline |-> now + Timeout]}
        /\ UNCHANGED <<outgoing, socket, reading, urbs, outstanding, unlinked>>
    BY <1>7 DEF ReceiveSubmit, Consumed, kernelVars
  <2>5. now + Timeout \in Nat
    BY WorkerAssumption DEF Types, LoopTypes
  <2>6. /\ slots'[FreeSlot].urb = wire[1].urb /\ slots'[FreeSlot].seq = wire[1].seq
        /\ slots'[FreeSlot].generation = generation + 1
    BY <2>1 DEF Accepted
  <2>7. /\ FreeSlot \in Slots \ Unsettled /\ Unsettled' = Unsettled \cup {FreeSlot} /\ SameNames(Unsettled)
    BY <1>2, <2>1, <2>2, <2>3 DEF SameNames
  <2> DEFINE f == FreeSlot
  <2>8. Submitted(f)
    BY <1>7, <2>1, <2>4, <2>5, <2>6, <2>7 DEF Submitted
  <2>9. f \in Slots
    BY <2>1
  <2> HIDE DEF f
  <2>10. QED
    BY <2>2, <2>8, <2>9 DEF Effects
<1>8. ASSUME NEW i \in Slots, Capture(i) PROVE pc # "done" /\ Effects
  <2>1. /\ Live' = Live /\ slots[i] \in Transfer
        /\ slots'[i] = [slots[i] EXCEPT !.captured = slots[i].captured + 1]
        /\ \A j \in Live : j # i => slots'[j] = slots[j]
    BY <1>8, CaptureCounts DEF Types
  <2>2. slots'[i].urb = slots[i].urb /\ slots'[i].seq = slots[i].seq /\ slots'[i].generation = slots[i].generation
    BY <2>1 DEF Transfer
  <2>3. completing' = completing /\ pc # "done"
    BY <1>8 DEF Capture, loopVars
  <2>4. Unsettled' = Unsettled /\ SameNames(Unsettled)
    BY <2>1, <2>2, <2>3 DEF Unsettled, SameNames
  <2>5. QED
    BY <1>8, <2>3, <2>4 DEF Capture, kernelVars, Still, Effects
<1>9. ASSUME NEW i \in Slots, Complete(i) PROVE pc # "done" /\ Effects
  <2>1. PICK o \in Outcomes(slots[i].request) :
          Push("submit", slots[i].urb, o[1]) /\ completing' = [slot |-> i, ok |-> o[1]]
    BY <1>9 DEF Complete
  <2>2. i \in Live /\ slots' = slots /\ ~ Settling /\ pc # "done"
    BY <1>9 DEF Complete, NextReady, Settling
  <2>3. o[1] \in BOOLEAN
    BY <2>2, SlotTypes, OutcomeTypes DEF Types, TableTypes
  <2>4. completing'.slot = i /\ Live' = Live
    BY <2>1, <2>2 DEF Live
  <2>5. i \in Unsettled /\ Unsettled' = Unsettled \ {i} /\ SameNames(Unsettled)
    BY <1>2, <2>2, <2>4 DEF Unsettled, SameNames
  <2> DEFINE b == o[1]
  <2>6. Completed(i, b)
    BY <1>9, <2>1, <2>5 DEF Complete, SettledTable, Push, NewReply, Completed, kernelVars
  <2>7. b \in BOOLEAN
    BY <2>3
  <2> HIDE DEF b
  <2>8. QED
    BY <2>2, <2>6, <2>7 DEF Effects
<1>10. CASE Settle
  <2>1. completing.slot \in Live /\ Live' = Live \ {completing.slot} /\ \A i \in Live' : slots'[i] = slots[i]
    BY <1>10, SettleRemoves DEF Types
  <2>2. completing' = NoCompletion /\ pc # "done"
    BY <1>10 DEF Settle
  <2>3. Unsettled' = Unsettled /\ SameNames(Unsettled)
    BY <2>1, <2>2 DEF NoCompletion, Unsettled, SameNames, Live, Slots
  <2>4. QED
    BY <1>10, <2>2, <2>3 DEF Settle, kernelVars, Still, Effects
<1>11. CASE \/ \E r \in Requests, s \in Seqs : KernelSubmit(r, s)
            \/ \E o \in outstanding : KernelUnlink(o)
            \/ KernelRead
  <2>1. slots' = slots /\ completing' = completing /\ pc # "done" /\ UNCHANGED <<pending, outgoing>>
    BY <1>11 DEF KernelSubmit, KernelUnlink, KernelRead, loopVars, tableVars
  <2>2. Unsettled' = Unsettled /\ SameNames(Unsettled)
    BY <1>1, <2>1
  <2>3. KernelSteps
    BY <1>11, <2>1, <2>2 DEF KernelSubmit, KernelUnlink, KernelRead, KernelSteps
  <2>4. QED
    BY <2>1, <2>3 DEF Effects
<1>12. QED
  BY <1>0, <1>3, <1>4, <1>5, <1>6, <1>7, <1>8, <1>9, <1>10, <1>11 DEF Cases

\* insert, complete and unlink keep the slots and the pending entries in step.
LEMMA MatchStep ==
  ASSUME Types, SlotsMatchPending, [Next]_vars
  PROVE  SlotsMatchPending'
<1>1. CASE pc' = "done"
  <2>1. CASE Stop
    BY <2>1 DEF Stop, SlotsMatchPending, Unsettled, Live
  <2>2. CASE UNCHANGED <<slots, pending, completing>>
    BY <2>2 DEF SlotsMatchPending, Unsettled, Live
  <2>3. pc = "done" => UNCHANGED <<slots, pending, completing>>
    <3>1. pc = "done" => Quiet
      BY StepCases DEF Types, Cases, FlushWrite, ReceiveUnlink, ReceiveSubmit, WholeFrame, Capture, Complete,
         Settle, KernelSubmit, KernelUnlink, KernelRead
    <3>2. QED
      BY <3>1 DEF Quiet, tableVars
  <2>4. pc # "done" => Stop
    BY <1>1, StepCases DEF Types, Cases, Quiet, FlushWrite, ReceiveUnlink, ReceiveSubmit, WholeFrame, Capture, Complete,
       Settle, KernelSubmit, KernelUnlink, KernelRead, loopVars
  <2>5. QED
    BY <2>1, <2>2, <2>3, <2>4
<1>2. CASE pc' # "done"
  <2>0. Effects
    BY <1>2, StepEffects
  <2>1. CASE Still \/ KernelSteps \/ \E n \in 1..ReplyUnits : Writes(n)
    <3>1. Unsettled' = Unsettled /\ SameNames(Unsettled) /\ pending' = pending
      BY <2>1 DEF Still, KernelSteps, Writes
    <3>2. QED
      BY <3>1 DEF SlotsMatchPending, SameNames
  <2>2. CASE Unlinked
    BY <2>2 DEF Unlinked, SlotsMatchPending, SameNames
  <2>3. ASSUME NEW i \in Slots, NEW ok \in BOOLEAN, Completed(i, ok) PROVE SlotsMatchPending'
    BY <2>3 DEF Completed, SlotsMatchPending, SameNames
  <2>4. ASSUME NEW i \in Slots, Submitted(i) PROVE SlotsMatchPending'
    <3> DEFINE f == wire[1]
    <3>1. /\ ~ Duplicate(f.seq) /\ i \notin Unsettled /\ Unsettled' = Unsettled \cup {i} /\ SameNames(Unsettled)
          /\ slots'[i].seq = f.seq /\ slots'[i].generation = generation + 1
      BY <2>4 DEF Submitted
    <3>2. PICK d \in Nat : pending' = pending \cup {[seq |-> f.seq, generation |-> generation + 1, deadline |-> d]}
      BY <2>4 DEF Submitted
    <3> HIDE DEF f
    <3>3. \A j \in Unsettled : slots[j].seq # f.seq
      BY <3>1 DEF Duplicate, SlotsMatchPending
    <3> DEFINE n == [seq |-> f.seq, generation |-> generation + 1, deadline |-> d]
    <3>4. n.seq = slots'[i].seq /\ n.generation = slots'[i].generation /\ pending' = pending \cup {n}
      BY <3>1, <3>2
    <3> HIDE DEF n
    <3>5. \A j \in Unsettled' : \E e \in pending' : e.seq = slots'[j].seq /\ e.generation = slots'[j].generation
      BY <3>1, <3>4 DEF SlotsMatchPending, SameNames
    <3>6. \A e \in pending' : \E j \in Unsettled' : e.seq = slots'[j].seq /\ e.generation = slots'[j].generation
      BY <3>1, <3>4 DEF SlotsMatchPending, SameNames
    <3>7. \A j, k \in Unsettled' : slots'[j].seq = slots'[k].seq => j = k
      BY <3>1, <3>3 DEF SlotsMatchPending, SameNames
    <3>8. QED
      BY <3>5, <3>6, <3>7 DEF SlotsMatchPending
  <2>5. QED
    BY <2>0, <2>1, <2>2, <2>3, <2>4 DEF Effects
<1>3. QED
  BY <1>1, <1>2

-----------------------------------------------------------------------------
(* Replies are written and read whole and in order.                        *)

\* A reply as the socket shows it, and what the flush has written of the reply at the head of the queue.
Bare(r) == [r EXCEPT !.written = 0]
\* What the flush has written of the reply at the head.
HeadWritten == IF outgoing = << >> THEN 0 ELSE outgoing[1].written

\* Unit y comes after unit x in the stream.
Follows(x, y) ==
  IF x.unit = ReplyUnits THEN y.unit = 1 ELSE y.reply = x.reply /\ y.unit = x.unit + 1

\* The socket holds whole replies one after another, the first read in part, the last written in part.
UnitsInOrder ==
  /\ socket # << >> => socket[1].unit = reading + 1
  /\ \A k \in 1..Len(socket) - 1 : Follows(socket[k], socket[k + 1])
  /\ socket # << >> =>
       LET last == socket[Len(socket)]
       IN IF HeadWritten = 0 THEN last.unit = ReplyUnits
          ELSE last.unit = HeadWritten /\ last.reply = Bare(outgoing[1])
  /\ socket = << >> => reading = HeadWritten

\* The types of one unit of the socket.
LEMMA UnitAt ==
  ASSUME SocketTypes, NEW k \in DOMAIN socket
  PROVE  socket[k] \in Unit /\ socket[k].reply \in Reply /\ socket[k].unit \in 1..ReplyUnits
<1>1. socket[k] \in Unit
  BY DEF SocketTypes
<1>2. QED
  BY <1>1 DEF Unit

\* What one write of n units does to the queue and to the socket.
LEMMA WriteEffects ==
  ASSUME Types, NEW n \in 1..ReplyUnits, FlushWrite(n)
  PROVE  /\ ReplyUnits \in Nat \ {0} /\ n \in 1..ReplyUnits
         /\ Len(outgoing) \in Nat \ {0} /\ DOMAIN outgoing = 1..Len(outgoing)
         /\ outgoing[1] \in Reply /\ outgoing[1].written \in Nat /\ outgoing[1].written + n <= ReplyUnits
         /\ Len(socket) \in Nat /\ Len(socket') = Len(socket) + n
         /\ DOMAIN socket = 1..Len(socket) /\ DOMAIN socket' = 1..(Len(socket) + n)
         /\ \A k \in 1..Len(socket) : socket'[k] = socket[k]
         /\ \A k \in 1..n : /\ socket'[k + Len(socket)].reply = Bare(outgoing[1])
                            /\ socket'[k + Len(socket)].unit = outgoing[1].written + k
         /\ IF outgoing[1].written + n = ReplyUnits
            THEN /\ outgoing' = Tail(outgoing) /\ DOMAIN outgoing' = 1..(Len(outgoing) - 1)
                 /\ Len(outgoing') = Len(outgoing) - 1
                 /\ \A k \in 1..(Len(outgoing) - 1) : outgoing'[k] = outgoing[k + 1]
            ELSE /\ DOMAIN outgoing' = 1..Len(outgoing) /\ Len(outgoing') = Len(outgoing)
                 /\ outgoing'[1] = [outgoing[1] EXCEPT !.written = outgoing[1].written + n]
                 /\ \A k \in 1..Len(outgoing) : k # 1 => outgoing'[k] = outgoing[k]
<1>1. /\ outgoing \in Seq(Reply) /\ outgoing # << >> /\ ReplyUnits \in Nat \ {0} /\ socket \in Seq(Unit)
      /\ n <= ReplyUnits - Head(outgoing).written /\ Head(outgoing) = outgoing[1]
      /\ Written(n) \in Seq(Unit) /\ Len(Written(n)) = n /\ socket' = socket \o Written(n)
  BY WrittenTypes, WorkerAssumption DEF FlushWrite, Types, ReplyTypes, SocketTypes
<1>2. Len(outgoing) \in Nat \ {0} /\ DOMAIN outgoing = 1..Len(outgoing) /\ outgoing[1] \in Reply
  BY <1>1
<1>3. outgoing[1].written \in Nat /\ outgoing[1].written + n <= ReplyUnits
  <2>1. outgoing[1].written \in Nat
    BY <1>2 DEF Reply
  <2>2. n <= ReplyUnits - outgoing[1].written
    BY <1>1
  <2>3. QED
    BY <1>1, <2>1, <2>2
<1>4. \A k \in 1..n : Written(n)[k].reply = Bare(outgoing[1]) /\ Written(n)[k].unit = outgoing[1].written + k
  BY <1>1 DEF Written, Bare
<1> DEFINE w == Written(n)
<1>5. w \in Seq(Unit) /\ Len(w) = n /\ socket' = socket \o w /\ socket \in Seq(Unit) /\ n \in Nat
  BY <1>1
<1>6. \A k \in 1..n : w[k].reply = Bare(outgoing[1]) /\ w[k].unit = outgoing[1].written + k
  BY <1>4
<1> HIDE DEF w
<1>7. /\ Len(socket) \in Nat /\ Len(socket') = Len(socket) + n
      /\ DOMAIN socket = 1..Len(socket) /\ DOMAIN socket' = 1..(Len(socket) + n)
      /\ \A k \in 1..Len(socket) : socket'[k] = socket[k]
      /\ \A k \in 1..n : socket'[k + Len(socket)] = w[k]
  <2> DEFINE s == socket
             t == socket'
  <2>1. w \in Seq(Unit) /\ Len(w) = n /\ t = s \o w /\ s \in Seq(Unit) /\ n \in Nat
    BY <1>5
  <2> HIDE DEF s, t
  <2>2. t \in Seq(Unit) /\ Len(s) \in Nat /\ Len(t) = Len(s) + n
        /\ \A k \in 1..Len(s) + n : t[k] = IF k <= Len(s) THEN s[k] ELSE w[k - Len(s)]
    <3>1. /\ s \o w \in Seq(Unit) /\ Len(s \o w) = Len(s) + Len(w)
          /\ \A k \in 1..Len(s) + Len(w) : (s \o w)[k] = IF k <= Len(s) THEN s[k] ELSE w[k - Len(s)]
      BY <2>1, ConcatProperties
    <3>2. Len(s) \in Nat
      BY <2>1
    <3>3. QED
      BY <2>1, <3>1, <3>2
  <2>3. DOMAIN s = 1..Len(s) /\ DOMAIN t = 1..(Len(s) + n)
    BY <2>1, <2>2
  <2>4. \A k \in 1..Len(s) : t[k] = s[k]
    BY <2>1, <2>2
  <2>5. ASSUME NEW k \in 1..n PROVE t[k + Len(s)] = w[k]
    <3>1. k + Len(s) \in 1..Len(s) + n /\ ~ (k + Len(s) <= Len(s)) /\ (k + Len(s)) - Len(s) = k
      BY <2>1, <2>2
    <3>2. QED
      BY <2>2, <3>1
  <2>6. QED
    BY <2>2, <2>3, <2>4, <2>5 DEF s, t
<1>8. CASE outgoing[1].written + n = ReplyUnits
  <2>1. outgoing' = Tail(outgoing)
    BY <1>1, <1>8 DEF FlushWrite
  <2>2. /\ DOMAIN outgoing' = 1..(Len(outgoing) - 1) /\ Len(outgoing') = Len(outgoing) - 1
        /\ \A k \in 1..(Len(outgoing) - 1) : outgoing'[k] = outgoing[k + 1]
    BY <1>1, <1>2, <2>1
  <2>3. QED
    BY <1>1, <1>2, <1>3, <1>6, <1>7, <1>8, <2>1, <2>2
<1>9. CASE outgoing[1].written + n # ReplyUnits
  <2> DEFINE r == [outgoing[1] EXCEPT !.written = outgoing[1].written + n]
  <2>1. outgoing' = [outgoing EXCEPT ![1] = r]
    BY <1>1, <1>9 DEF FlushWrite
  <2> HIDE DEF r
  <2>2. /\ DOMAIN outgoing' = 1..Len(outgoing) /\ Len(outgoing') = Len(outgoing)
        /\ outgoing'[1] = r /\ \A k \in 1..Len(outgoing) : k # 1 => outgoing'[k] = outgoing[k]
    BY <1>1, <1>2, <2>1
  <2>3. QED
    BY <1>1, <1>2, <1>3, <1>6, <1>7, <1>9, <2>2 DEF r
<1>10. QED
  BY <1>8, <1>9

\* A reply appended to the queue.
LEMMA AppendEffects ==
  ASSUME Types, NEW r \in Reply, r.written = 0, outgoing' = Append(outgoing, r)
  PROVE  /\ Len(outgoing) \in Nat /\ DOMAIN outgoing = 1..Len(outgoing)
         /\ DOMAIN outgoing' = 1..(Len(outgoing) + 1) /\ Len(outgoing') = Len(outgoing) + 1
         /\ \A k \in 1..Len(outgoing) : outgoing'[k] = outgoing[k]
         /\ outgoing'[Len(outgoing) + 1] = r /\ HeadWritten' = HeadWritten
         /\ HeadWritten # 0 => outgoing'[1] = outgoing[1]
<1>1. outgoing \in Seq(Reply)
  BY DEF Types, ReplyTypes
<1>2. /\ Len(outgoing) \in Nat /\ DOMAIN outgoing = 1..Len(outgoing)
      /\ DOMAIN outgoing' = 1..(Len(outgoing) + 1) /\ Len(outgoing') = Len(outgoing) + 1
      /\ \A k \in 1..Len(outgoing) : outgoing'[k] = outgoing[k]
      /\ outgoing'[Len(outgoing) + 1] = r /\ outgoing' # << >>
  BY <1>1
<1>3. CASE outgoing = << >>
  BY <1>2, <1>3 DEF HeadWritten
<1>4. CASE outgoing # << >>
  <2>1. Len(outgoing) >= 1
    BY <1>1, <1>4
  <2>2. outgoing'[1] = outgoing[1]
    BY <1>2, <2>1
  <2>3. QED
    BY <1>2, <1>4, <2>2 DEF HeadWritten
<1>5. QED
  BY <1>3, <1>4

\* What the kernel's reading of one unit does to the socket.
LEMMA ReadEffects ==
  ASSUME Types, KernelRead
  PROVE  /\ Len(socket) \in Nat \ {0} /\ DOMAIN socket = 1..Len(socket)
         /\ Head(socket) = socket[1] /\ 1 \in DOMAIN socket
         /\ socket' = Tail(socket) /\ Len(socket') = Len(socket) - 1 /\ DOMAIN socket' = 1..(Len(socket) - 1)
         /\ \A k \in 1..(Len(socket) - 1) : socket'[k] = socket[k + 1]
<1>1. socket \in Seq(Unit) /\ socket # << >> /\ socket' = Tail(socket)
  BY DEF KernelRead, Types, SocketTypes
<1>2. QED
  BY <1>1

\* The types of a new reply.
LEMMA NewReplyType ==
  ASSUME Types, NEW kind \in {"submit", "unlink"}, NEW urb \in Nat, NEW ok \in BOOLEAN
  PROVE  /\ NewReply(kind, urb, ok) \in Reply /\ NewReply(kind, urb, ok).written = 0
         /\ NewReply(kind, urb, ok).kind = kind /\ NewReply(kind, urb, ok).urb = urb
         /\ NewReply(kind, urb, ok).ok = ok
<1>1. now + Timeout \in Nat
  BY WorkerAssumption DEF Types, LoopTypes
<1>2. QED
  BY <1>1 DEF NewReply, Reply

\* The reply that answers an unlink, and the completion of a transfer.
LEMMA UnlinkedReply ==
  ASSUME Types, Unlinked
  PROVE  /\ wire[1].urb \in Nat /\ (~ Cancelled(wire[1].seq)) \in BOOLEAN
         /\ NewReply("unlink", wire[1].urb, ~ Cancelled(wire[1].seq)) \in Reply
         /\ NewReply("unlink", wire[1].urb, ~ Cancelled(wire[1].seq)).written = 0
<1>1. wire[1].urb \in Nat /\ (~ Cancelled(wire[1].seq)) \in BOOLEAN
  BY DEF Unlinked, Unlink, Cancelled
<1>2. QED
  BY <1>1, NewReplyType

\* The reply of a completion.
LEMMA CompletedReply ==
  ASSUME Types, NEW i \in Slots, NEW ok \in BOOLEAN, Completed(i, ok)
  PROVE  /\ slots[i].urb \in Nat /\ NewReply("submit", slots[i].urb, ok) \in Reply
         /\ NewReply("submit", slots[i].urb, ok).written = 0
<1>1. slots[i].urb \in Nat
  BY SlotTypes DEF Completed, Unsettled, Transfer
<1>2. QED
  BY <1>1, NewReplyType

\* Replies are written and read unit by unit, whole and in order.
LEMMA UnitsStep ==
  ASSUME Types, UnitsInOrder, Effects
  PROVE  UnitsInOrder'
<1>0. /\ ReplyUnits \in Nat \ {0} /\ socket \in Seq(Unit) /\ reading \in 0..ReplyUnits - 1 /\ reading \in Nat
  BY WorkerAssumption DEF Types, SocketTypes
<1>1. CASE UNCHANGED <<socket, reading, outgoing>>
  BY <1>1 DEF UnitsInOrder, HeadWritten
<1>2. ASSUME NEW r \in Reply, r.written = 0, outgoing' = Append(outgoing, r), UNCHANGED <<socket, reading>>
      PROVE  UnitsInOrder'
  <2>1. HeadWritten' = HeadWritten /\ (HeadWritten # 0 => outgoing'[1] = outgoing[1])
    BY <1>2, AppendEffects
  <2>2. QED
    BY <1>2, <2>1 DEF UnitsInOrder
<1>3. CASE Unlinked
  BY <1>2, <1>3, UnlinkedReply DEF Unlinked
<1>4. ASSUME NEW i \in Slots, NEW ok \in BOOLEAN, Completed(i, ok) PROVE UnitsInOrder'
  BY <1>2, <1>4, CompletedReply DEF Completed
<1>5. ASSUME NEW n \in 1..ReplyUnits, Writes(n) PROVE UnitsInOrder'
  <2> DEFINE h == outgoing[1]
             w == outgoing[1].written
             c == Len(socket)
  <2>1. /\ Len(outgoing) \in Nat \ {0} /\ DOMAIN outgoing = 1..Len(outgoing)
        /\ h \in Reply /\ w \in Nat /\ w + n <= ReplyUnits
        /\ c \in Nat /\ Len(socket') = c + n
        /\ DOMAIN socket' = 1..(c + n)
        /\ \A k \in 1..c : socket'[k] = socket[k]
        /\ \A k \in 1..n : socket'[k + c].reply = Bare(h) /\ socket'[k + c].unit = w + k
    BY <1>5, WriteEffects DEF Writes
  <2>2. reading' = reading
    BY <1>5 DEF Writes
  <2>3. HeadWritten = w /\ outgoing # << >>
    BY <1>5 DEF Writes, FlushWrite, HeadWritten
  <2>4. IF w + n = ReplyUnits THEN HeadWritten' = 0
        ELSE HeadWritten' = w + n /\ Bare(outgoing'[1]) = Bare(h)
    <3>1. CASE w + n = ReplyUnits
      <4>1. /\ Len(outgoing') = Len(outgoing) - 1 /\ DOMAIN outgoing' = 1..(Len(outgoing) - 1)
            /\ \A k \in 1..(Len(outgoing) - 1) : outgoing'[k] = outgoing[k + 1]
        BY <1>5, <3>1, WriteEffects DEF Writes
      <4>2. \A k \in DOMAIN outgoing : k > 1 => outgoing[k].written = 0
        BY DEF Types, ReplyTypes
      <4>3. CASE outgoing' = << >>
        BY <3>1, <4>3 DEF HeadWritten
      <4>4. CASE outgoing' # << >>
        <5>1. outgoing' \in Seq(Reply)
          <6>1. outgoing \in Seq(Reply) /\ outgoing' = Tail(outgoing)
            BY <1>5, <3>1, WriteEffects DEF Writes, Types, ReplyTypes
          <6>2. QED
            BY <2>3, <6>1
        <5>2. Len(outgoing') >= 1
          BY <4>4, <5>1
        <5>3. 2 \in DOMAIN outgoing /\ outgoing'[1] = outgoing[2]
          BY <2>1, <4>1, <5>2
        <5>4. QED
          BY <3>1, <4>2, <4>4, <5>3 DEF HeadWritten
      <4>5. QED
        BY <4>3, <4>4
    <3>2. CASE w + n # ReplyUnits
      <4>1. /\ DOMAIN outgoing' = 1..Len(outgoing)
            /\ outgoing'[1] = [outgoing[1] EXCEPT !.written = outgoing[1].written + n]
        BY <1>5, <3>2, WriteEffects DEF Writes
      <4>2. outgoing' # << >>
        BY <2>1, <4>1
      <4>3. outgoing'[1].written = w + n /\ Bare(outgoing'[1]) = Bare(h)
        BY <2>1, <4>1 DEF Reply, Bare
      <4>4. QED
        BY <3>2, <4>2, <4>3 DEF HeadWritten
    <3>3. QED
      BY <3>1, <3>2
  <2>5. (socket = << >>) <=> (c = 0)
    BY <1>0
  <2>6. \A k \in 1..c : socket[k].unit \in 1..ReplyUnits
    BY UnitAt, <1>0 DEF Types
  <2>7. /\ c # 0 => socket[1].unit = reading + 1
        /\ \A k \in 1..c - 1 : Follows(socket[k], socket[k + 1])
        /\ c # 0 => IF w = 0 THEN socket[c].unit = ReplyUnits
                    ELSE socket[c].unit = w /\ socket[c].reply = Bare(h)
        /\ c = 0 => reading = w
    BY <2>3, <2>5 DEF UnitsInOrder
  <2>8. w < ReplyUnits
    BY <2>1, <1>0
  <2> DEFINE t == socket'
             b == Bare(h)
             v == HeadWritten'
             y == Bare(outgoing'[1])
  <2>9. /\ Len(t) = c + n /\ (\A k \in 1..c : t[k] = socket[k])
        /\ \A k \in 1..n : t[k + c].reply = b /\ t[k + c].unit = w + k
    BY <2>1
  <2>10. IF w + n = ReplyUnits THEN v = 0 ELSE v = w + n /\ y = b
    BY <2>4
  <2>11. c # 0 => IF w = 0 THEN socket[c].unit = ReplyUnits ELSE socket[c].unit = w /\ socket[c].reply = b
    BY <2>7
  <2>12. w \in Nat /\ c \in Nat /\ n \in Nat /\ n >= 1 /\ w + n <= ReplyUnits
    BY <1>0, <2>1
  <2>13. socket' # << >>
    <3>1. 1 \in DOMAIN socket'
      BY <2>1, <2>12
    <3>2. QED
      BY <3>1
  <2> HIDE DEF t, b, v, y, h, w, c
  <2>14. t[1].unit = reading + 1
    <3>1. CASE c = 0
      <4>1. t[1].unit = w + 1
        BY <2>9, <2>12, <3>1
      <4>2. QED
        BY <2>7, <3>1, <4>1
    <3>2. CASE c # 0
      BY <2>7, <2>9, <2>12, <3>2
    <3>3. QED
      BY <3>1, <3>2
  <2>15. ASSUME NEW k \in 1..(c + n) - 1 PROVE Follows(t[k], t[k + 1])
    <3>0. k \in Nat /\ k >= 1
      BY <2>12
    <3>1. CASE k < c
      BY <2>7, <2>9, <2>12, <3>0, <3>1
    <3>2. CASE k = c
      <4>1. t[k + 1].reply = b /\ t[k + 1].unit = w + 1 /\ t[k] = socket[c]
        BY <2>9, <2>12, <3>0, <3>2
      <4>2. QED
        BY <1>0, <2>8, <2>11, <2>12, <3>0, <3>2, <4>1 DEF Follows
    <3>3. CASE k > c
      <4> DEFINE j == k - c
      <4>1. j \in 1..n /\ j + 1 \in 1..n /\ k = j + c /\ k + 1 = (j + 1) + c
        BY <2>12, <3>0, <3>3
      <4> HIDE DEF j
      <4>2. t[k].reply = b /\ t[k].unit = w + j /\ t[k + 1].reply = b /\ t[k + 1].unit = w + (j + 1)
        BY <2>9, <4>1
      <4>3. w + j < ReplyUnits
        BY <1>0, <2>12, <4>1
      <4>4. QED
        BY <2>12, <4>1, <4>2, <4>3 DEF Follows
    <3>4. QED
      BY <2>12, <3>0, <3>1, <3>2, <3>3
  <2>16. t[c + n].unit = w + n /\ t[c + n].reply = b
    <3>1. n \in 1..n /\ c + n = n + c
      BY <2>12
    <3>2. QED
      BY <2>9, <3>1
  <2>17. IF v = 0 THEN t[c + n].unit = ReplyUnits ELSE t[c + n].unit = v /\ t[c + n].reply = y
    BY <2>10, <2>12, <2>16, <1>0
  <2>18. QED
    BY <2>2, <2>9, <2>13, <2>14, <2>15, <2>17 DEF UnitsInOrder, t, v, y
<1>6. CASE KernelRead
  <2> DEFINE c == Len(socket)
             x == socket[1].unit
  <2>1. /\ c \in Nat \ {0} /\ socket # << >>
        /\ socket' = Tail(socket) /\ Len(socket') = c - 1 /\ DOMAIN socket' = 1..(c - 1)
        /\ \A k \in 1..(c - 1) : socket'[k] = socket[k + 1]
        /\ x \in 1..ReplyUnits
    BY <1>6, ReadEffects, UnitAt DEF KernelRead, Types
  <2>2. reading' = (reading + 1) % ReplyUnits /\ outgoing' = outgoing
    BY <1>6 DEF KernelRead
  <2>3. x = reading + 1
    BY <2>1 DEF UnitsInOrder
  <2>4. reading' = IF x = ReplyUnits THEN 0 ELSE x
    BY <1>0, <2>1, <2>2, <2>3
  <2>5. HeadWritten' = HeadWritten /\ Bare(outgoing'[1]) = Bare(outgoing[1])
    BY <2>2 DEF HeadWritten
  <2>6. CASE c = 1
    <3>1. socket' = << >> /\ Len(socket') = 0
      BY <2>1, <2>6, <1>0
    <3>2. IF HeadWritten = 0 THEN x = ReplyUnits ELSE x = HeadWritten
      BY <2>1, <2>6 DEF UnitsInOrder
    <3>3. HeadWritten # 0 => HeadWritten # ReplyUnits
      BY <1>0 DEF HeadWritten, Types, ReplyTypes
    <3>4. reading' = HeadWritten
      BY <1>0, <2>4, <3>2, <3>3
    <3>5. QED
      BY <2>5, <3>1, <3>4 DEF UnitsInOrder
  <2>7. CASE c # 1
    <3>1. c >= 2 /\ 1 \in 1..(c - 1) /\ Len(socket') = c - 1 /\ (c - 1) + 1 = c /\ c - 1 \in 1..(c - 1)
      BY <2>1, <2>7
    <3>2. Follows(socket[1], socket[2])
      BY <3>1 DEF UnitsInOrder
    <3>3. socket'[1] = socket[2] /\ socket'[c - 1] = socket[c] /\ socket' # << >>
      <4>1. socket'[1] = socket[1 + 1] /\ socket'[c - 1] = socket[(c - 1) + 1]
        BY <2>1, <3>1
      <4>2. 1 \in DOMAIN socket'
        BY <2>1, <3>1
      <4>3. QED
        BY <3>1, <4>1, <4>2
    <3>4. socket'[1].unit = reading' + 1
      BY <1>0, <2>4, <2>1, <3>2, <3>3 DEF Follows
    <3>5. ASSUME NEW k \in 1..(c - 1) - 1 PROVE Follows(socket'[k], socket'[k + 1])
      <4>1. k \in 1..(c - 1) /\ k + 1 \in 1..(c - 1)
        BY <2>1, <3>1
      <4>2. Follows(socket[k + 1], socket[(k + 1) + 1])
        BY <4>1 DEF UnitsInOrder
      <4>3. QED
        BY <2>1, <4>1, <4>2
    <3>6. IF HeadWritten = 0 THEN socket[c].unit = ReplyUnits
          ELSE socket[c].unit = HeadWritten /\ socket[c].reply = Bare(outgoing[1])
      BY <2>1 DEF UnitsInOrder
    <3> HIDE DEF c
    <3>7. QED
      BY <2>5, <3>1, <3>3, <3>4, <3>5, <3>6 DEF UnitsInOrder
  <2>8. QED
    BY <2>6, <2>7
<1>7. CASE KernelSteps /\ ~ KernelRead
  BY <1>1, <1>7 DEF KernelSteps
<1>8. CASE Still \/ \E i \in Slots : Submitted(i)
  BY <1>1, <1>8 DEF Still, Submitted
<1>9. QED
  BY <1>3, <1>4, <1>5, <1>6, <1>7, <1>8 DEF Effects

-----------------------------------------------------------------------------
(* Names of transfers, and unlinks that find only their own.               *)

\* Two replies that differ at most in what is written of them.
SameReply(r, q) == r.urb = q.urb /\ r.kind = q.kind /\ r.ok = q.ok

\* The transfers with a reply of this kind in the queue or in the socket.
OnItsWay(kind) ==
  {outgoing[k].urb : k \in {j \in DOMAIN outgoing : outgoing[j].kind = kind}}
  \cup {socket[k].reply.urb : k \in {j \in DOMAIN socket : socket[j].reply.kind = kind}}

\* A write moves the reply at the head to the socket and invents none.
LEMMA WriteKeepsReplies ==
  ASSUME Types, NEW n \in 1..ReplyUnits, FlushWrite(n)
  PROVE  /\ 1 \in DOMAIN outgoing
         /\ \A k \in DOMAIN outgoing' : \E j \in DOMAIN outgoing : SameReply(outgoing'[k], outgoing[j])
         /\ \A k \in DOMAIN socket' : \/ k \in DOMAIN socket /\ socket'[k] = socket[k]
                                      \/ k \notin DOMAIN socket /\ SameReply(socket'[k].reply, outgoing[1])
<1> DEFINE c == Len(socket)
           h == outgoing[1]
<1>1. /\ Len(outgoing) \in Nat \ {0} /\ DOMAIN outgoing = 1..Len(outgoing)
      /\ h \in Reply /\ c \in Nat /\ ReplyUnits \in Nat
      /\ DOMAIN socket = 1..c /\ DOMAIN socket' = 1..(c + n)
      /\ \A k \in 1..c : socket'[k] = socket[k]
      /\ \A k \in 1..n : socket'[k + c].reply = Bare(h)
  BY WriteEffects
<1>0. n \in Nat
  BY <1>1
<1>2. SameReply(Bare(h), h) /\ \A m : SameReply([h EXCEPT !.written = m], h)
  BY <1>1 DEF SameReply, Bare, Reply
<1>3. ASSUME NEW k \in DOMAIN socket' 
      PROVE  \/ k \in DOMAIN socket /\ socket'[k] = socket[k]
             \/ k \notin DOMAIN socket /\ SameReply(socket'[k].reply, h)
  <2>0. k \in 1..(c + n) /\ k \in Nat /\ c \in Nat
    BY <1>0, <1>1, <1>3
  <2> HIDE DEF c, h
  <2>1. CASE k <= c
    <3>1. k \in 1..c
      BY <2>0, <2>1
    <3>2. k \in DOMAIN socket /\ socket'[k] = socket[k]
      BY <1>1, <3>1, Zenon
    <3>3. QED
      BY <3>2
  <2>2. CASE k > c
    <3> DEFINE j == k - c
    <3>1. j \in 1..n /\ k = j + c /\ k \notin 1..c
      BY <1>0, <2>0, <2>2
    <3> HIDE DEF j
    <3>2. SameReply(socket'[j + c].reply, h)
      BY <1>1, <1>2, <3>1
    <3>3. QED
      BY <1>1, <3>1, <3>2
  <2>3. QED
    BY <2>0, <2>1, <2>2
<1>4. ASSUME NEW k \in DOMAIN outgoing' PROVE \E j \in DOMAIN outgoing : SameReply(outgoing'[k], outgoing[j])
  <2>1. CASE h.written + n = ReplyUnits
    <3>1. DOMAIN outgoing' = 1..(Len(outgoing) - 1) /\ \A j \in 1..(Len(outgoing) - 1) : outgoing'[j] = outgoing[j + 1]
      BY <2>1, WriteEffects
    <3>2. k + 1 \in DOMAIN outgoing /\ outgoing'[k] = outgoing[k + 1]
      BY <1>1, <1>4, <3>1
    <3>3. QED
      BY <3>2 DEF SameReply
  <2>2. CASE h.written + n # ReplyUnits
    <3>1. /\ DOMAIN outgoing' = 1..Len(outgoing) /\ outgoing'[1] = [h EXCEPT !.written = h.written + n]
          /\ \A j \in 1..Len(outgoing) : j # 1 => outgoing'[j] = outgoing[j]
      BY <2>2, WriteEffects
    <3>2. k \in DOMAIN outgoing /\ SameReply(outgoing'[k], outgoing[k])
      BY <1>1, <1>2, <1>4, <3>1 DEF SameReply
    <3>3. QED
      BY <3>2
  <2>3. QED
    BY <2>1, <2>2
<1>5. QED
  BY <1>1, <1>3, <1>4

\* Where a new reply comes from.
LEMMA WayStep ==
  ASSUME Types, Effects, NEW kind, NEW u, u \in OnItsWay(kind)'
  PROVE  \/ u \in OnItsWay(kind)
         \/ Unlinked /\ kind = "unlink" /\ u = wire[1].urb
         \/ kind = "submit" /\ \E i \in Unsettled : slots[i].urb = u
<1>1. CASE UNCHANGED <<outgoing, socket>>
  BY <1>1 DEF OnItsWay
<1>2. ASSUME NEW r \in Reply, r.written = 0, outgoing' = Append(outgoing, r), socket' = socket,
             u \notin OnItsWay(kind)
      PROVE  r.kind = kind /\ r.urb = u
  <2>1. /\ Len(outgoing) \in Nat /\ DOMAIN outgoing = 1..Len(outgoing)
        /\ DOMAIN outgoing' = 1..(Len(outgoing) + 1)
        /\ \A k \in 1..Len(outgoing) : outgoing'[k] = outgoing[k]
        /\ outgoing'[Len(outgoing) + 1] = r
    BY <1>2, AppendEffects
  <2>2. PICK k \in DOMAIN outgoing' : outgoing'[k].kind = kind /\ outgoing'[k].urb = u
    BY <1>2 DEF OnItsWay
  <2>3. k = Len(outgoing) + 1
    BY <1>2, <2>1, <2>2 DEF OnItsWay
  <2>4. QED
    BY <2>1, <2>2, <2>3
<1>3. CASE Unlinked
  <2> DEFINE r == NewReply("unlink", wire[1].urb, ~ Cancelled(wire[1].seq))
  <2>1. r \in Reply /\ r.written = 0 /\ outgoing' = Append(outgoing, r) /\ socket' = socket
    BY <1>3, UnlinkedReply DEF Unlinked
  <2>2. r.kind = "unlink" /\ r.urb = wire[1].urb
    BY DEF NewReply
  <2> HIDE DEF r
  <2>3. QED
    BY <1>2, <1>3, <2>1, <2>2
<1>4. ASSUME NEW i \in Slots, NEW ok \in BOOLEAN, Completed(i, ok)
      PROVE  u \in OnItsWay(kind) \/ (kind = "submit" /\ \E j \in Unsettled : slots[j].urb = u)
  <2> DEFINE r == NewReply("submit", slots[i].urb, ok)
  <2>1. r \in Reply /\ r.written = 0 /\ outgoing' = Append(outgoing, r) /\ socket' = socket /\ i \in Unsettled
    BY <1>4, CompletedReply DEF Completed
  <2>2. r.kind = "submit" /\ r.urb = slots[i].urb
    BY DEF NewReply
  <2> HIDE DEF r
  <2>3. u \notin OnItsWay(kind) => r.kind = kind /\ r.urb = u
    BY <1>2, <2>1
  <2>4. QED
    BY <2>1, <2>2, <2>3
<1>5. ASSUME NEW n \in 1..ReplyUnits, Writes(n) PROVE u \in OnItsWay(kind)
  BY <1>5, WriteKeepsReplies DEF Writes, OnItsWay, SameReply
<1>6. CASE KernelRead
  <2>1. /\ Len(socket) \in Nat \ {0} /\ DOMAIN socket = 1..Len(socket) /\ DOMAIN socket' = 1..(Len(socket) - 1)
        /\ \A k \in 1..(Len(socket) - 1) : socket'[k] = socket[k + 1]
    BY <1>6, ReadEffects
  <2>2. outgoing' = outgoing
    BY <1>6 DEF KernelRead
  <2>3. \A k \in DOMAIN socket' : k + 1 \in DOMAIN socket
    BY <2>1
  <2>4. QED
    BY <2>1, <2>2, <2>3 DEF OnItsWay
<1>7. CASE Still \/ (KernelSteps /\ ~ KernelRead) \/ \E i \in Slots : Submitted(i)
  BY <1>1, <1>7 DEF Still, KernelSteps, Submitted
<1>8. QED
  BY <1>3, <1>4, <1>5, <1>6, <1>7 DEF Effects

-----------------------------------------------------------------------------
\* Every transfer named anywhere has been submitted.
Numbered ==
  /\ \A k \in DOMAIN wire : wire[k].urb \in 1..urbs
  /\ \A i \in Unsettled : slots[i].urb \in 1..urbs
  /\ \A o \in outstanding : o.urb \in 1..urbs
  /\ \A kind \in {"submit", "unlink"} : OnItsWay(kind) \subseteq 1..urbs

\* The kernel waits for what is on the wire and in the slots, under one number each.
Waiting ==
  /\ \A k \in DOMAIN wire : wire[k].kind = "submit" => [urb |-> wire[k].urb, seq |-> wire[k].seq] \in outstanding
  /\ \A i \in Unsettled : [urb |-> slots[i].urb, seq |-> slots[i].seq] \in outstanding
  /\ \A o, p \in outstanding : o.seq = p.seq \/ o.urb = p.urb => o = p

\* An unlink on the wire names the transfer it is meant for, which is asked for once, after its submit.
Unlinks ==
  /\ \A k \in DOMAIN wire : wire[k].kind = "unlink" =>
       /\ wire[k].urb \in unlinked
       /\ \A o \in outstanding : o.seq = wire[k].seq <=> o.urb = wire[k].urb
       /\ \A j \in DOMAIN wire : j > k => wire[j].urb # wire[k].urb
       /\ wire[k].urb \notin OnItsWay("unlink")
  /\ OnItsWay("unlink") \subseteq unlinked

\* The types of one frame of the wire.
LEMMA WireAt ==
  ASSUME SocketTypes, NEW k \in DOMAIN wire
  PROVE  /\ wire[k] \in Frame /\ wire[k].urb \in Nat /\ wire[k].seq \in Seqs
         /\ wire[k].kind \in {"submit", "unlink"}
<1>1. wire[k] \in Frame
  BY DEF SocketTypes
<1>2. QED
  BY <1>1 DEF Frame, Submit, Unlink

\* How the wire changes: not at all, by the frame consumed, or by one frame more.
LEMMA WireTail ==
  ASSUME Types, wire # << >>, wire' = Tail(wire)
  PROVE  /\ Len(wire) \in Nat \ {0} /\ DOMAIN wire = 1..Len(wire) /\ 1 \in DOMAIN wire
         /\ DOMAIN wire' = 1..(Len(wire) - 1)
         /\ \A k \in DOMAIN wire' : k + 1 \in DOMAIN wire /\ k + 1 > 1 /\ wire'[k] = wire[k + 1]
<1>1. wire \in Seq(Frame)
  BY DEF Types, SocketTypes
<1>2. /\ Len(wire) \in Nat \ {0} /\ DOMAIN wire = 1..Len(wire) /\ DOMAIN wire' = 1..(Len(wire) - 1)
      /\ \A k \in 1..(Len(wire) - 1) : wire'[k] = wire[k + 1]
  BY <1>1
<1>3. QED
  BY <1>2

\* The wire with one frame more.
LEMMA WireAppend ==
  ASSUME Types, NEW f \in Frame, wire' = Append(wire, f)
  PROVE  /\ Len(wire) \in Nat /\ DOMAIN wire = 1..Len(wire) /\ DOMAIN wire' = 1..(Len(wire) + 1)
         /\ \A k \in DOMAIN wire : wire'[k] = wire[k]
         /\ wire'[Len(wire) + 1] = f
BY DEF Types, SocketTypes

\* A submit has a new identity, and a number under which no transfer waits and no frame travels.
LEMMA KernelSubmitEffects ==
  ASSUME Types, NEW r \in Requests, NEW s \in Seqs, KernelSubmit(r, s)
  PROVE  /\ [kind |-> "submit", urb |-> urbs + 1, seq |-> s, request |-> r] \in Frame
         /\ wire' = Append(wire, [kind |-> "submit", urb |-> urbs + 1, seq |-> s, request |-> r])
         /\ urbs \in Nat /\ urbs' = urbs + 1 /\ unlinked' = unlinked
         /\ outstanding' = outstanding \cup {[urb |-> urbs + 1, seq |-> s]}
         /\ \A o \in outstanding : o.seq # s
         /\ \A k \in DOMAIN wire : wire[k].seq # s
BY DEF KernelSubmit, Types, KernelTypes, Frame, Submit

\* An unlink names a transfer the kernel waits for and has not unlinked before.
LEMMA KernelUnlinkEffects ==
  ASSUME Types, NEW o \in outstanding, KernelUnlink(o)
  PROVE  /\ [kind |-> "unlink", urb |-> o.urb, seq |-> o.seq] \in Frame
         /\ wire' = Append(wire, [kind |-> "unlink", urb |-> o.urb, seq |-> o.seq])
         /\ o.urb \in Nat /\ o.urb \notin unlinked
         /\ urbs' = urbs /\ unlinked' = unlinked \cup {o.urb} /\ outstanding' = outstanding
BY DEF KernelUnlink, Types, KernelTypes, Frame, Unlink

\* No step names a transfer that was not submitted.
LEMMA NumberedStep ==
  ASSUME Types, Numbered, Effects
  PROVE  Numbered'
<1>0. urbs \in Nat
  BY DEF Types, KernelTypes
<1>1. ASSUME 1..urbs \subseteq 1..urbs' , ~ Unlinked
      PROVE  \A kind \in {"submit", "unlink"} : \A u : u \in OnItsWay(kind)' => u \in 1..urbs'
  BY <1>1, WayStep DEF Numbered
<1>2. CASE Unlinked
  <2>1. /\ wire # << >> /\ wire' = Tail(wire) /\ Unsettled' \subseteq Unsettled /\ SameNames(Unsettled')
        /\ urbs' = urbs /\ outstanding' = outstanding
    BY <1>2 DEF Unlinked
  <2>2. 1 \in DOMAIN wire /\ \A k \in DOMAIN wire' : k + 1 \in DOMAIN wire /\ wire'[k] = wire[k + 1]
    BY <2>1, WireTail
  <2>3. wire[1].urb \in 1..urbs
    BY <2>2 DEF Numbered
  <2>4. \A kind \in {"submit", "unlink"} : \A u : u \in OnItsWay(kind)' => u \in 1..urbs
    BY <2>3, WayStep DEF Numbered
  <2>5. QED
    BY <2>1, <2>2, <2>4 DEF Numbered, SameNames
<1>3. ASSUME NEW i \in Slots, Submitted(i) PROVE Numbered'
  <2>1. /\ wire # << >> /\ wire' = Tail(wire) /\ Unsettled' = Unsettled \cup {i} /\ SameNames(Unsettled)
        /\ slots'[i].urb = wire[1].urb /\ urbs' = urbs /\ outstanding' = outstanding /\ UNCHANGED <<outgoing, socket>>
    BY <1>3 DEF Submitted
  <2>2. 1 \in DOMAIN wire /\ \A k \in DOMAIN wire' : k + 1 \in DOMAIN wire /\ wire'[k] = wire[k + 1]
    BY <2>1, WireTail
  <2>3. \A kind, u : u \in OnItsWay(kind)' => u \in OnItsWay(kind)
    BY <2>1 DEF OnItsWay
  <2>4. QED
    BY <2>1, <2>2, <2>3 DEF Numbered, SameNames
<1>4. CASE Still \/ (\E n \in 1..ReplyUnits : Writes(n)) \/ \E i \in Slots, ok \in BOOLEAN : Completed(i, ok)
  <2>1. wire' = wire /\ Unsettled' \subseteq Unsettled /\ SameNames(Unsettled') /\ urbs' = urbs /\ outstanding' = outstanding
    BY <1>4 DEF Still, Writes, Completed, SameNames
  <2>2. ~ Unlinked \/ Unlinked
    OBVIOUS
  <2>3. QED
    BY <1>1, <1>2, <2>1 DEF Numbered, SameNames
<1>5. ASSUME KernelSteps, NEW r \in Requests, NEW s \in Seqs, KernelSubmit(r, s) PROVE Numbered'
  <2> DEFINE f == [kind |-> "submit", urb |-> urbs + 1, seq |-> s, request |-> r]
  <2>1. /\ f \in Frame /\ f.urb = urbs + 1 /\ wire' = Append(wire, f) /\ urbs' = urbs + 1
        /\ outstanding' = outstanding \cup {[urb |-> urbs + 1, seq |-> s]}
    BY <1>5, KernelSubmitEffects
  <2> HIDE DEF f
  <2>2. /\ DOMAIN wire' = 1..(Len(wire) + 1) /\ DOMAIN wire = 1..Len(wire) /\ Len(wire) \in Nat
        /\ (\A k \in DOMAIN wire : wire'[k] = wire[k]) /\ wire'[Len(wire) + 1] = f
    BY <2>1, WireAppend
  <2>3. Unsettled' = Unsettled /\ SameNames(Unsettled) /\ UNCHANGED <<outgoing, socket>>
    BY <1>5 DEF KernelSteps, KernelSubmit
  <2>4. 1..urbs \subseteq 1..urbs' /\ urbs + 1 \in 1..urbs'
    BY <1>0, <2>1
  <2>5. \A kind, u : u \in OnItsWay(kind)' => u \in OnItsWay(kind)
    BY <2>3 DEF OnItsWay
  <2>6. \A k \in DOMAIN wire' : wire'[k].urb \in 1..urbs'
    BY <2>1, <2>2, <2>4 DEF Numbered
  <2>7. \A o \in outstanding' : o.urb \in 1..urbs'
    BY <2>1, <2>4 DEF Numbered
  <2>8. QED
    BY <2>3, <2>4, <2>5, <2>6, <2>7 DEF Numbered, SameNames
<1>6. ASSUME KernelSteps, NEW o \in outstanding, KernelUnlink(o) PROVE Numbered'
  <2> DEFINE f == [kind |-> "unlink", urb |-> o.urb, seq |-> o.seq]
  <2>1. /\ f \in Frame /\ f.urb = o.urb /\ wire' = Append(wire, f) /\ urbs' = urbs /\ outstanding' = outstanding
    BY <1>6, KernelUnlinkEffects
  <2> HIDE DEF f
  <2>2. /\ DOMAIN wire' = 1..(Len(wire) + 1) /\ DOMAIN wire = 1..Len(wire) /\ Len(wire) \in Nat
        /\ (\A k \in DOMAIN wire : wire'[k] = wire[k]) /\ wire'[Len(wire) + 1] = f
    BY <2>1, WireAppend
  <2>3. Unsettled' = Unsettled /\ SameNames(Unsettled) /\ UNCHANGED <<outgoing, socket>>
    BY <1>6 DEF KernelSteps, KernelUnlink
  <2>4. \A kind, u : u \in OnItsWay(kind)' => u \in OnItsWay(kind)
    BY <2>3 DEF OnItsWay
  <2>5. \A k \in DOMAIN wire' : wire'[k].urb \in 1..urbs'
    BY <2>1, <2>2 DEF Numbered
  <2>6. QED
    BY <2>1, <2>3, <2>4, <2>5 DEF Numbered, SameNames
<1>7. CASE KernelSteps /\ KernelRead
  <2>1. wire' = wire /\ urbs' = urbs /\ Unsettled' = Unsettled /\ SameNames(Unsettled) /\ outstanding' \subseteq outstanding
    BY <1>7 DEF KernelSteps, KernelRead
  <2>2. QED
    BY <1>1, <1>2, <2>1 DEF Numbered, SameNames
<1>8. QED
  BY <1>2, <1>3, <1>4, <1>5, <1>6, <1>7 DEF Effects, KernelSteps

\* A transfer given back by a read is neither on the wire nor in a slot.
Freed ==
  KernelRead => \A o \in outstanding \ outstanding' :
    /\ \A k \in DOMAIN wire : wire[k].kind = "submit" => wire[k].urb # o.urb
    /\ \A i \in Unsettled : slots[i].urb # o.urb

\* A transfer on the wire or in a slot is waited for until its reply has been read.
LEMMA WaitingStep ==
  ASSUME Types, Numbered, Waiting, Effects, Freed
  PROVE  Waiting'
<1>1. CASE Unlinked
  <2>1. /\ wire # << >> /\ wire' = Tail(wire) /\ Unsettled' \subseteq Unsettled /\ SameNames(Unsettled')
        /\ outstanding' = outstanding
    BY <1>1 DEF Unlinked
  <2>2. \A k \in DOMAIN wire' : k + 1 \in DOMAIN wire /\ wire'[k] = wire[k + 1]
    BY <2>1, WireTail
  <2>3. QED
    BY <2>1, <2>2 DEF Waiting, SameNames
<1>2. ASSUME NEW i \in Slots, Submitted(i) PROVE Waiting'
  <2>1. /\ wire # << >> /\ wire' = Tail(wire) /\ Unsettled' = Unsettled \cup {i} /\ SameNames(Unsettled)
        /\ slots'[i].urb = wire[1].urb /\ slots'[i].seq = wire[1].seq /\ outstanding' = outstanding
        /\ wire[1].kind = "submit"
    BY <1>2 DEF Submitted, Submit
  <2>2. 1 \in DOMAIN wire /\ \A k \in DOMAIN wire' : k + 1 \in DOMAIN wire /\ wire'[k] = wire[k + 1]
    BY <2>1, WireTail
  <2>3. [urb |-> wire[1].urb, seq |-> wire[1].seq] \in outstanding
    BY <2>1, <2>2 DEF Waiting
  <2>4. QED
    BY <2>1, <2>2, <2>3 DEF Waiting, SameNames
<1>3. CASE Still \/ (\E n \in 1..ReplyUnits : Writes(n)) \/ \E i \in Slots, ok \in BOOLEAN : Completed(i, ok)
  <2>1. wire' = wire /\ Unsettled' \subseteq Unsettled /\ SameNames(Unsettled') /\ outstanding' = outstanding
    BY <1>3 DEF Still, Writes, Completed, SameNames
  <2>2. QED
    BY <2>1 DEF Waiting, SameNames
<1>4. ASSUME KernelSteps, NEW r \in Requests, NEW s \in Seqs, KernelSubmit(r, s) PROVE Waiting'
  <2> DEFINE f == [kind |-> "submit", urb |-> urbs + 1, seq |-> s, request |-> r]
             p == [urb |-> urbs + 1, seq |-> s]
  <2>1. /\ f \in Frame /\ wire' = Append(wire, f) /\ outstanding' = outstanding \cup {p}
        /\ \A o \in outstanding : o.seq # s
    BY <1>4, KernelSubmitEffects
  <2>2. [urb |-> f.urb, seq |-> f.seq] = p /\ p.urb = urbs + 1 /\ p.seq = s
    OBVIOUS
  <2>3. \A o \in outstanding : o.urb # urbs + 1
    BY DEF Numbered, Types, KernelTypes
  <2> HIDE DEF f, p
  <2>4. /\ DOMAIN wire' = 1..(Len(wire) + 1) /\ DOMAIN wire = 1..Len(wire) /\ Len(wire) \in Nat
        /\ (\A k \in DOMAIN wire : wire'[k] = wire[k]) /\ wire'[Len(wire) + 1] = f
    BY <2>1, WireAppend
  <2>5. Unsettled' = Unsettled /\ SameNames(Unsettled)
    BY <1>4 DEF KernelSteps
  <2>6. ASSUME NEW k \in DOMAIN wire', wire'[k].kind = "submit"
        PROVE  [urb |-> wire'[k].urb, seq |-> wire'[k].seq] \in outstanding'
    <3>1. CASE k \in DOMAIN wire
      BY <2>1, <2>4, <2>6, <3>1 DEF Waiting
    <3>2. CASE k \notin DOMAIN wire
      <4>1. k = Len(wire) + 1
        BY <2>4, <3>2
      <4>2. QED
        BY <2>1, <2>2, <2>4, <4>1
    <3>3. QED
      BY <3>1, <3>2
  <2>7. \A i \in Unsettled' : [urb |-> slots'[i].urb, seq |-> slots'[i].seq] \in outstanding'
    BY <2>1, <2>5 DEF Waiting, SameNames
  <2>8. \A o, q \in outstanding' : o.seq = q.seq \/ o.urb = q.urb => o = q
    BY <2>1, <2>2, <2>3 DEF Waiting
  <2>9. QED
    BY <2>6, <2>7, <2>8 DEF Waiting
<1>5. ASSUME KernelSteps, NEW o \in outstanding, KernelUnlink(o) PROVE Waiting'
  <2> DEFINE f == [kind |-> "unlink", urb |-> o.urb, seq |-> o.seq]
  <2>1. f \in Frame /\ wire' = Append(wire, f) /\ outstanding' = outstanding /\ f.kind = "unlink"
    BY <1>5, KernelUnlinkEffects
  <2> HIDE DEF f
  <2>2. /\ DOMAIN wire' = 1..(Len(wire) + 1) /\ DOMAIN wire = 1..Len(wire) /\ Len(wire) \in Nat
        /\ (\A k \in DOMAIN wire : wire'[k] = wire[k]) /\ wire'[Len(wire) + 1] = f
    BY <2>1, WireAppend
  <2>3. Unsettled' = Unsettled /\ SameNames(Unsettled)
    BY <1>5 DEF KernelSteps
  <2>4. \A k \in DOMAIN wire' : wire'[k].kind = "submit" => k \in DOMAIN wire
    BY <2>1, <2>2
  <2>5. QED
    BY <2>1, <2>2, <2>3, <2>4 DEF Waiting, SameNames
<1>6. CASE KernelSteps /\ KernelRead
  <2>1. wire' = wire /\ Unsettled' = Unsettled /\ SameNames(Unsettled) /\ outstanding' \subseteq outstanding
    BY <1>6 DEF KernelSteps, KernelRead
  <2>2. \A o \in outstanding \ outstanding' :
           /\ \A k \in DOMAIN wire : wire[k].kind = "submit" => wire[k].urb # o.urb
           /\ \A i \in Unsettled : slots[i].urb # o.urb
    BY <1>6 DEF Freed
  <2>3. QED
    BY <2>1, <2>2 DEF Waiting, SameNames
<1>7. QED
  BY <1>1, <1>2, <1>3, <1>4, <1>5, <1>6 DEF Effects, KernelSteps

\* An unlink on the wire goes on naming only the transfer it is meant for: its number is not used
\* again while it travels.
LEMMA UnlinksStep ==
  ASSUME Types, Numbered, Waiting, Unlinks, Effects
  PROVE  Unlinks'
<1>0. urbs \in Nat /\ \A k \in DOMAIN wire : wire[k].urb \in Nat
  BY WireAt DEF Types, KernelTypes
<1>1. ~ Unlinked => OnItsWay("unlink")' \subseteq OnItsWay("unlink")
  BY WayStep
<1>2. CASE Unlinked
  <2>1. /\ wire # << >> /\ wire' = Tail(wire) /\ outstanding' = outstanding /\ unlinked' = unlinked
        /\ wire[1].kind = "unlink"
    BY <1>2 DEF Unlinked, Unlink
  <2>2. 1 \in DOMAIN wire /\ \A k \in DOMAIN wire' : k + 1 \in DOMAIN wire /\ k + 1 > 1 /\ wire'[k] = wire[k + 1]
    BY <2>1, WireTail
  <2>3. OnItsWay("unlink")' \subseteq OnItsWay("unlink") \cup {wire[1].urb}
    BY WayStep
  <2>4. /\ wire[1].urb \in unlinked
        /\ \A j \in DOMAIN wire : j > 1 => wire[j].urb # wire[1].urb
    BY <2>1, <2>2 DEF Unlinks
  <2>5. OnItsWay("unlink")' \subseteq unlinked'
    BY <2>1, <2>3, <2>4 DEF Unlinks
  <2>6. ASSUME NEW k \in DOMAIN wire', wire'[k].kind = "unlink"
        PROVE  /\ wire'[k].urb \in unlinked'
               /\ \A o \in outstanding' : o.seq = wire'[k].seq <=> o.urb = wire'[k].urb
               /\ \A j \in DOMAIN wire' : j > k => wire'[j].urb # wire'[k].urb
               /\ wire'[k].urb \notin OnItsWay("unlink")'
    <3> DEFINE m == k + 1
    <3>1. m \in DOMAIN wire /\ m > 1 /\ wire'[k] = wire[m] /\ wire[m].kind = "unlink"
      BY <2>2, <2>6
    <3>2. /\ wire[m].urb \in unlinked
          /\ \A o \in outstanding : o.seq = wire[m].seq <=> o.urb = wire[m].urb
          /\ \A j \in DOMAIN wire : j > m => wire[j].urb # wire[m].urb
          /\ wire[m].urb \notin OnItsWay("unlink") /\ wire[m].urb # wire[1].urb
      BY <2>4, <3>1 DEF Unlinks
    <3>3. \A j \in DOMAIN wire' : j > k => wire'[j].urb # wire[m].urb
      <4>1. ASSUME NEW j \in DOMAIN wire', j > k PROVE wire'[j].urb # wire[m].urb
        <5>1. j + 1 \in DOMAIN wire /\ wire'[j] = wire[j + 1]
          BY <2>2
        <5>2. j \in Nat /\ k \in Nat
          BY <2>1, WireTail
        <5>3. j + 1 > m
          BY <4>1, <5>2
        <5>4. QED
          BY <3>2, <5>1, <5>3
      <4>2. QED
        BY <4>1
    <3> HIDE DEF m
    <3>4. wire[m].urb \notin OnItsWay("unlink")'
      BY <2>3, <3>2
    <3>5. QED
      BY <2>1, <3>1, <3>2, <3>3, <3>4
  <2>7. QED
    BY <2>5, <2>6 DEF Unlinks
<1>3. ASSUME NEW i \in Slots, Submitted(i) PROVE Unlinks'
  <2>1. /\ wire # << >> /\ wire' = Tail(wire) /\ outstanding' = outstanding /\ unlinked' = unlinked
        /\ UNCHANGED <<outgoing, socket>>
    BY <1>3 DEF Submitted
  <2>2. \A k \in DOMAIN wire' : k \in Nat /\ k + 1 \in DOMAIN wire /\ wire'[k] = wire[k + 1]
    BY <2>1, WireTail
  <2>3. OnItsWay("unlink")' = OnItsWay("unlink")
    BY <2>1 DEF OnItsWay
  <2>4. ASSUME NEW k \in DOMAIN wire', wire'[k].kind = "unlink", NEW j \in DOMAIN wire', j > k
        PROVE  wire'[j].urb # wire'[k].urb
    <3>1. /\ k + 1 \in DOMAIN wire /\ j + 1 \in DOMAIN wire /\ j + 1 > k + 1
          /\ wire'[k] = wire[k + 1] /\ wire'[j] = wire[j + 1]
      BY <2>2, <2>4
    <3>2. QED
      BY <2>4, <3>1 DEF Unlinks
  <2>5. \A k \in DOMAIN wire' : wire'[k].kind = "unlink" =>
          /\ wire'[k].urb \in unlinked
          /\ \A o \in outstanding : o.seq = wire'[k].seq <=> o.urb = wire'[k].urb
          /\ wire'[k].urb \notin OnItsWay("unlink")
    BY <2>2 DEF Unlinks
  <2>6. QED
    BY <2>1, <2>3, <2>4, <2>5 DEF Unlinks
<1>4. CASE Still \/ (\E n \in 1..ReplyUnits : Writes(n)) \/ \E i \in Slots, ok \in BOOLEAN : Completed(i, ok)
  <2>1. wire' = wire /\ outstanding' = outstanding /\ unlinked' = unlinked
    BY <1>4 DEF Still, Writes, Completed
  <2>2. QED
    BY <1>1, <1>2, <2>1 DEF Unlinks
<1>5. ASSUME KernelSteps, NEW r \in Requests, NEW s \in Seqs, KernelSubmit(r, s) PROVE Unlinks'
  <2> DEFINE f == [kind |-> "submit", urb |-> urbs + 1, seq |-> s, request |-> r]
             p == [urb |-> urbs + 1, seq |-> s]
  <2>1. /\ f \in Frame /\ wire' = Append(wire, f) /\ outstanding' = outstanding \cup {p} /\ unlinked' = unlinked
        /\ \A k \in DOMAIN wire : wire[k].seq # s
    BY <1>5, KernelSubmitEffects
  <2>2. f.kind = "submit" /\ f.urb = urbs + 1 /\ p.urb = urbs + 1 /\ p.seq = s
    OBVIOUS
  <2>3. \A k \in DOMAIN wire : wire[k].urb # urbs + 1
    BY <1>0 DEF Numbered
  <2> HIDE DEF f, p
  <2>4. /\ DOMAIN wire' = 1..(Len(wire) + 1) /\ DOMAIN wire = 1..Len(wire) /\ Len(wire) \in Nat
        /\ (\A k \in DOMAIN wire : wire'[k] = wire[k]) /\ wire'[Len(wire) + 1] = f
    BY <2>1, WireAppend
  <2>5. OnItsWay("unlink")' = OnItsWay("unlink")
    BY <1>5 DEF KernelSubmit, OnItsWay
  <2>6. \A k \in DOMAIN wire' : k \notin DOMAIN wire => wire'[k] = f
    BY <2>4
  <2>7. ASSUME NEW k \in DOMAIN wire', wire'[k].kind = "unlink"
        PROVE  /\ wire'[k].urb \in unlinked
               /\ \A o \in outstanding' : o.seq = wire'[k].seq <=> o.urb = wire'[k].urb
               /\ \A j \in DOMAIN wire' : j > k => wire'[j].urb # wire'[k].urb
               /\ wire'[k].urb \notin OnItsWay("unlink")
    <3>1. k \in DOMAIN wire /\ wire'[k] = wire[k]
      BY <2>2, <2>4, <2>6, <2>7
    <3>2. \A o \in outstanding' : o.seq = wire[k].seq <=> o.urb = wire[k].urb
      BY <2>1, <2>2, <2>3, <2>7, <3>1 DEF Unlinks
    <3>3. \A j \in DOMAIN wire' : j > k => wire'[j].urb # wire[k].urb
      BY <2>2, <2>3, <2>4, <2>6, <2>7, <3>1 DEF Unlinks
    <3>4. QED
      BY <2>7, <3>1, <3>2, <3>3 DEF Unlinks
  <2>8. QED
    BY <2>1, <2>5, <2>7 DEF Unlinks
<1>6. ASSUME KernelSteps, NEW o \in outstanding, KernelUnlink(o) PROVE Unlinks'
  <2> DEFINE f == [kind |-> "unlink", urb |-> o.urb, seq |-> o.seq]
  <2>1. /\ f \in Frame /\ wire' = Append(wire, f) /\ outstanding' = outstanding
        /\ o.urb \notin unlinked /\ unlinked' = unlinked \cup {o.urb}
    BY <1>6, KernelUnlinkEffects
  <2>2. f.urb = o.urb /\ f.seq = o.seq
    OBVIOUS
  <2> HIDE DEF f
  <2>4. /\ DOMAIN wire' = 1..(Len(wire) + 1) /\ DOMAIN wire = 1..Len(wire) /\ Len(wire) \in Nat
        /\ (\A k \in DOMAIN wire : wire'[k] = wire[k]) /\ wire'[Len(wire) + 1] = f
    BY <2>1, WireAppend
  <2>5. OnItsWay("unlink")' = OnItsWay("unlink")
    BY <1>6 DEF KernelUnlink, OnItsWay
  <2>6. \A k \in DOMAIN wire' : k \notin DOMAIN wire => k = Len(wire) + 1
    BY <2>4
  <2>7. ASSUME NEW k \in DOMAIN wire, wire[k].kind = "unlink"
        PROVE  \A j \in DOMAIN wire' : j > k => wire'[j].urb # wire[k].urb
    BY <2>1, <2>2, <2>4, <2>6, <2>7 DEF Unlinks
  <2>8. \A j \in DOMAIN wire' : ~ (j > Len(wire) + 1)
    BY <2>4
  <2>9. \A p \in outstanding : p.seq = o.seq <=> p.urb = o.urb
    BY DEF Waiting
  <2>10. o.urb \notin OnItsWay("unlink")
    BY <2>1 DEF Unlinks
  <2>11. ASSUME NEW k \in DOMAIN wire', wire'[k].kind = "unlink"
         PROVE  /\ wire'[k].urb \in unlinked'
                /\ \A p \in outstanding : p.seq = wire'[k].seq <=> p.urb = wire'[k].urb
                /\ \A j \in DOMAIN wire' : j > k => wire'[j].urb # wire'[k].urb
                /\ wire'[k].urb \notin OnItsWay("unlink")
    <3>1. CASE k \in DOMAIN wire
      <4>1. wire'[k] = wire[k] /\ wire[k].kind = "unlink"
        BY <2>4, <2>11, <3>1
      <4>2. QED
        BY <2>1, <2>7, <3>1, <4>1 DEF Unlinks
    <3>2. CASE k \notin DOMAIN wire
      <4>1. k = Len(wire) + 1 /\ wire'[k] = f
        BY <2>4, <2>6, <3>2
      <4>2. QED
        BY <2>1, <2>2, <2>8, <2>9, <2>10, <4>1
    <3>3. QED
      BY <3>1, <3>2
  <2>12. OnItsWay("unlink") \subseteq unlinked'
    BY <2>1 DEF Unlinks
  <2>13. QED
    BY <2>1, <2>5, <2>11, <2>12 DEF Unlinks
<1>7. CASE KernelSteps /\ KernelRead
  <2>1. wire' = wire /\ unlinked' = unlinked /\ outstanding' \subseteq outstanding
    BY <1>7 DEF KernelSteps, KernelRead
  <2>2. QED
    BY <1>1, <1>2, <2>1 DEF Unlinks
<1>8. QED
  BY <1>2, <1>3, <1>4, <1>5, <1>6, <1>7 DEF Effects, KernelSteps

-----------------------------------------------------------------------------
(* Each transfer is in exactly one place.                                  *)

\* An element that belongs counts.
LEMMA CountSome ==
  ASSUME NEW X, NEW s \in Seq(X), NEW P, NEW k \in DOMAIN s, s[k] \in P
  PROVE  Count(s, P) >= 1
<1> DEFINE K == {j \in DOMAIN s : s[j] \in P}
<1>1. IsFiniteSet(K) /\ Count(s, P) = Cardinality(K) /\ Count(s, P) \in Nat
  BY CountFinite DEF Count
<1>2. K # {}
  OBVIOUS
<1> HIDE DEF K
<1>3. Cardinality(K) # 0
  BY <1>1, <1>2, FS_EmptySet
<1>4. QED
  BY <1>1, <1>3

\* Nothing counts where no element belongs.
LEMMA CountNone ==
  ASSUME NEW s, NEW P, \A k \in DOMAIN s : s[k] \notin P
  PROVE  Count(s, P) = 0
<1>1. {k \in DOMAIN s : s[k] \in P} = {}
  OBVIOUS
<1>2. QED
  BY <1>1, FS_EmptySet DEF Count

-----------------------------------------------------------------------------
(* Where transfer u may be: on the wire, in a slot, or in a reply that gives it back. *)

\* The frames that submit u, the slots that hold it, the units and the queued replies that give it back.
Submits(u) == {f \in Frame : f.kind = "submit" /\ f.urb = u}
Holds(u) == {i \in Unsettled : slots[i].urb = u}
Delivers(u) == {x \in Unit : x.unit = ReplyUnits /\ x.reply.urb = u /\ GivesBack(x.reply)}
Gives(u) == {r \in Reply : r.urb = u /\ GivesBack(r)}

\* In how many places transfer u is, and in how many it should be.
Places(u) ==
  Count(wire, Submits(u)) + Cardinality(Holds(u)) + Count(socket, Delivers(u)) + Count(outgoing, Gives(u))
Owed(u) == IF \E o \in outstanding : o.urb = u THEN 1 ELSE 0

\* The count that AnsweredOnce asks for.
Once == \A u \in 1..urbs : Places(u) = Owed(u)

\* Finitely many slots hold a transfer.
LEMMA HoldsFinite ==
  ASSUME NEW u
  PROVE  IsFiniteSet(Holds(u)) /\ Cardinality(Holds(u)) \in Nat
<1>1. Holds(u) \in SUBSET Slots
  BY DEF Holds, Unsettled, Live
<1>2. IsFiniteSet(Holds(u))
  BY <1>1, LiveFinite, FS_Subset, Zenon
<1>3. QED
  BY <1>2, FS_CardinalityType, Zenon

\* The four counts are numbers.
LEMMA PlacesTypes ==
  ASSUME Types, NEW u
  PROVE  /\ Count(wire, Submits(u)) \in Nat /\ Cardinality(Holds(u)) \in Nat
         /\ Count(socket, Delivers(u)) \in Nat /\ Count(outgoing, Gives(u)) \in Nat
<1>1. wire \in Seq(Frame) /\ socket \in Seq(Unit) /\ outgoing \in Seq(Reply)
  BY DEF Types, SocketTypes, ReplyTypes
<1>2. QED
  BY <1>1, CountFinite, HoldsFinite

\* They add up to the sum of AnsweredOnce.
LEMMA PlacesAre ==
  ASSUME Types, NEW u
  PROVE  /\ Cardinality({k \in DOMAIN wire : wire[k].kind = "submit" /\ wire[k].urb = u})
              + Cardinality({i \in Unsettled : slots[i].urb = u}) + Answers(u) = Places(u)
<1>1. {k \in DOMAIN wire : wire[k].kind = "submit" /\ wire[k].urb = u} = {k \in DOMAIN wire : wire[k] \in Submits(u)}
  BY WireAt DEF Types, Submits
<1>2. {k \in InFlight.socket : socket[k].reply.urb = u /\ GivesBack(socket[k].reply)}
        = {k \in DOMAIN socket : socket[k] \in Delivers(u)}
  BY UnitAt DEF Types, Delivers, InFlight
<1>3. {k \in InFlight.queue : outgoing[k].urb = u /\ GivesBack(outgoing[k])}
        = {k \in DOMAIN outgoing : outgoing[k] \in Gives(u)}
  BY ReplyAt DEF Types, Gives, InFlight
<1>4. /\ Cardinality({k \in DOMAIN wire : wire[k].kind = "submit" /\ wire[k].urb = u}) = Count(wire, Submits(u))
      /\ Cardinality({i \in Unsettled : slots[i].urb = u}) = Cardinality(Holds(u))
      /\ Answers(u) = Count(socket, Delivers(u)) + Count(outgoing, Gives(u))
  BY <1>1, <1>2, <1>3 DEF Count, Answers, Holds
<1>5. QED
  BY <1>4, PlacesTypes DEF Places

\* So the count is AnsweredOnce while the connection lasts.
LEMMA OnceIs ==
  ASSUME Types
  PROVE  AnsweredOnce <=> (pc # "done" => Once)
BY PlacesAre DEF AnsweredOnce, Once, Owed

\* A step that moves no transfer.
LEMMA StillPlaces ==
  ASSUME Still, NEW u
  PROVE  Places(u)' = Places(u) /\ Owed(u)' = Owed(u)
<1>1. Holds(u)' = Holds(u)
  BY DEF Still, SameNames, Holds
<1>2. QED
  BY <1>1 DEF Still, Places, Owed, Count

\* The last unit of a reply carries the transfer from the queue to the socket.
LEMMA WritesPlaces ==
  ASSUME Types, NEW n \in 1..ReplyUnits, Writes(n), NEW u
  PROVE  Places(u)' = Places(u) /\ Owed(u)' = Owed(u)
<1> DEFINE h == outgoing[1]
           w == Written(n)
           D == Delivers(u)
           G == Gives(u)
           one == IF h.written + n = ReplyUnits /\ h \in Gives(u) THEN 1 ELSE 0
<1>1. /\ Holds(u)' = Holds(u) /\ wire' = wire /\ outstanding' = outstanding /\ FlushWrite(n)
  BY DEF Writes, SameNames, Holds
<1>2. /\ outgoing \in Seq(Reply) /\ outgoing # << >> /\ h \in Reply /\ socket \in Seq(Unit)
      /\ w \in Seq(Unit) /\ Len(w) = n /\ socket' = socket \o w /\ Head(outgoing) = h
  BY <1>1, WrittenTypes DEF Types, ReplyTypes, SocketTypes
<1>3. h.written \in Nat /\ h.written + n <= ReplyUnits /\ ReplyUnits \in Nat /\ n \in Nat
  <2>1. h.written \in Nat /\ h.written + n <= ReplyUnits /\ ReplyUnits \in Nat
    BY <1>1, WriteEffects
  <2>2. QED
    BY <2>1
<1>4. \A k \in DOMAIN w : w[k] \in Unit /\ w[k].reply = Bare(h) /\ w[k].unit = h.written + k
  <2>1. DOMAIN w = 1..n /\ \A k \in DOMAIN w : w[k] \in Unit
    BY <1>2
  <2>2. QED
    BY <1>2, <2>1 DEF Written, Bare
<1>5. Bare(h).urb = h.urb /\ (GivesBack(Bare(h)) <=> GivesBack(h))
  BY <1>2 DEF Bare, Reply, GivesBack
<1>6. \A k \in DOMAIN w : w[k] \in D <=> (h.written + k = ReplyUnits /\ h \in G)
  BY <1>2, <1>4, <1>5 DEF Delivers, Gives
<1>7. Count(w, D) = one
  <2>1. DOMAIN w = 1..n
    BY <1>2
  <2>2. CASE h.written + n = ReplyUnits /\ h \in G
    <3>1. {k \in DOMAIN w : w[k] \in D} = {n}
      <4>1. \A k \in 1..n : h.written + k = ReplyUnits <=> k = n
        BY <1>3, <2>2
      <4>2. n \in 1..n
        BY <1>3
      <4>3. QED
        BY <1>6, <2>1, <2>2, <4>1, <4>2
    <3>2. Cardinality({n}) = 1
      BY FS_Singleton
    <3>3. QED
      BY <2>2, <3>1, <3>2 DEF Count
  <2>3. CASE ~ (h.written + n = ReplyUnits /\ h \in G)
    <3>1. \A k \in DOMAIN w : w[k] \notin D
      <4>1. ASSUME NEW k \in 1..n, h.written + k = ReplyUnits PROVE h.written + n = ReplyUnits
        BY <1>3, <4>1
      <4>2. QED
        BY <1>6, <2>1, <2>3, <4>1
    <3>2. QED
      BY <2>3, <3>1, CountNone
  <2>4. QED
    BY <2>2, <2>3
<1> HIDE DEF w
<1>8. Count(socket', D) = Count(socket, D) + one
  <2>1. Count(socket \o w, D) = Count(socket, D) + Count(w, D)
    BY <1>2, CountConcat
  <2>2. QED
    BY <1>2, <1>7, <2>1
<1>9. Count(outgoing, G) = Count(outgoing', G) + one
  <2>1. CASE h.written + n = ReplyUnits
    <3>1. outgoing' = Tail(outgoing)
      BY <1>1, <2>1, WriteEffects
    <3>2. Count(outgoing, G) = Count(Tail(outgoing), G) + (IF Head(outgoing) \in G THEN 1 ELSE 0)
      BY <1>2, CountTail
    <3>3. QED
      BY <1>2, <2>1, <3>1, <3>2
  <2>2. CASE h.written + n # ReplyUnits
    <3>1. /\ DOMAIN outgoing' = DOMAIN outgoing /\ outgoing'[1] = [h EXCEPT !.written = h.written + n]
          /\ \A k \in DOMAIN outgoing : k # 1 => outgoing'[k] = outgoing[k]
      BY <1>1, <2>2, WriteEffects
    <3>2. [h EXCEPT !.written = h.written + n] \in G <=> h \in G
      <4>1. h.written + n \in Nat
        BY <1>3
      <4>2. QED
        BY <1>2, <4>1 DEF Gives, Reply, GivesBack
    <3>3. \A k \in DOMAIN outgoing : outgoing[k] \in G <=> outgoing'[k] \in G
      BY <3>1, <3>2
    <3> HIDE DEF G
    <3>4. Count(outgoing, G) = Count(outgoing', G)
      BY <3>1, <3>3, CountSame
    <3>5. Count(outgoing, G) \in Nat
      BY <1>2, CountFinite
    <3>6. QED
      BY <2>2, <3>4, <3>5
  <2>3. QED
    BY <2>1, <2>2
<1>10. /\ Places(u) = Count(wire, Submits(u)) + Cardinality(Holds(u)) + Count(socket, D) + Count(outgoing, G)
       /\ Places(u)' = Count(wire', Submits(u)) + Cardinality(Holds(u)') + Count(socket', D) + Count(outgoing', G)
  BY DEF Places, Count, Delivers, Gives, Submits
<1>11. Count(outgoing', G) \in Nat
  <2>1. [Next]_vars
    BY <1>1 DEF Next, Worker, Flush
  <2>2. outgoing' \in Seq(Reply)
    BY <2>1, ReplyTypesStep DEF Types, ReplyTypes
  <2>3. QED
    BY <2>2, CountFinite
<1> HIDE DEF D, G
<1>12. one \in Nat
  OBVIOUS
<1> HIDE DEF one
<1>13. QED
  BY <1>1, <1>8, <1>9, <1>10, <1>11, <1>12, PlacesTypes DEF Owed, D, G

\* A transfer in a slot that the unlink names is the one the unlink is meant for.
LEMMA UnlinkNames ==
  ASSUME Types, Waiting, Unlinks, Unlinked, NEW i \in Unsettled, slots[i].seq = wire[1].seq
  PROVE  slots[i].urb = wire[1].urb
<1>1. wire[1].kind = "unlink" /\ 1 \in DOMAIN wire
  BY DEF Unlinked, Unlink, Types, SocketTypes
<1>2. [urb |-> slots[i].urb, seq |-> slots[i].seq] \in outstanding
  BY DEF Waiting
<1>3. QED
  BY <1>1, <1>2 DEF Unlinks

\* An unlink takes out of the slots exactly the transfer it is meant for, if it is still there.
LEMMA UnlinkedHolds ==
  ASSUME Types, SlotsMatchPending, Waiting, Unlinks, Unlinked, NEW u
  PROVE  IF u = wire[1].urb /\ Cancelled(wire[1].seq)
         THEN \E i \in Holds(u) : Holds(u)' = Holds(u) \ {i}
         ELSE Holds(u)' = Holds(u)
<1> DEFINE f == wire[1]
<1>1. Holds(u)' = {i \in Unsettled : slots[i].seq # f.seq /\ slots[i].urb = u}
  BY DEF Unlinked, Holds, SameNames
<1>2. \A i \in Unsettled : slots[i].seq = f.seq => slots[i].urb = f.urb
  BY UnlinkNames
<1> HIDE DEF f
<1>3. CASE u # f.urb
  <2>1. Holds(u)' = Holds(u)
    BY <1>1, <1>2, <1>3 DEF Holds
  <2>2. QED
    BY <1>3, <2>1 DEF f
<1>4. CASE u = f.urb /\ Cancelled(f.seq)
  <2>1. PICK i \in Unsettled : slots[i].seq = f.seq
    BY <1>4 DEF Cancelled, SlotsMatchPending
  <2>2. \A j \in Unsettled : slots[j].seq = f.seq <=> j = i
    BY <2>1 DEF SlotsMatchPending
  <2>3. i \in Holds(u)
    BY <1>2, <1>4, <2>1 DEF Holds
  <2>4. {j \in Unsettled : slots[j].seq # f.seq /\ slots[j].urb = u} = Holds(u) \ {i}
    BY <2>2 DEF Holds
  <2>5. Holds(u)' = Holds(u) \ {i}
    BY <1>1, <2>4
  <2>6. QED
    BY <1>4, <2>3, <2>5 DEF f
<1>5. CASE ~ Cancelled(f.seq)
  <2>1. \A i \in Unsettled : slots[i].seq # f.seq
    BY <1>5 DEF Cancelled, SlotsMatchPending
  <2>2. Holds(u)' = Holds(u)
    BY <1>1, <2>1 DEF Holds
  <2>3. QED
    BY <1>5, <2>2 DEF f
<1>6. QED
  BY <1>3, <1>4, <1>5 DEF f

\* The unlink's reply then gives that transfer back; otherwise it gives back nothing.
LEMMA UnlinkedPlaces ==
  ASSUME Types, SlotsMatchPending, Waiting, Unlinks, Unlinked, NEW u
  PROVE  Places(u)' = Places(u) /\ Owed(u)' = Owed(u)
<1> DEFINE f == wire[1]
           r == NewReply("unlink", wire[1].urb, ~ Cancelled(wire[1].seq))
           S == Submits(u)
           G == Gives(u)
<1>1. /\ wire # << >> /\ f \in Unlink /\ wire' = Tail(wire) /\ outgoing' = Append(outgoing, r)
      /\ UNCHANGED <<socket, outstanding>>
  BY DEF Unlinked
<1>2. wire \in Seq(Frame) /\ outgoing \in Seq(Reply) /\ r \in Reply /\ Head(wire) = f
  BY <1>1, UnlinkedReply DEF Types, SocketTypes, ReplyTypes
<1>3. Count(wire, S) = Count(wire', S)
  <2>1. f \notin S
    BY <1>1 DEF Unlink, Submits
  <2>2. Count(wire, S) = Count(Tail(wire), S) + (IF Head(wire) \in S THEN 1 ELSE 0)
    BY <1>1, <1>2, CountTail
  <2>3. Tail(wire) \in Seq(Frame)
    BY <1>1, <1>2
  <2>4. Count(Tail(wire), S) \in Nat
    BY <2>3, CountFinite
  <2> HIDE DEF f
  <2>5. QED
    BY <1>1, <1>2, <2>1, <2>2, <2>4
<1>4. r \in G <=> u = f.urb /\ Cancelled(f.seq)
  BY <1>2 DEF Gives, GivesBack, NewReply
<1> HIDE DEF r
<1>5. Count(outgoing', G) = Count(outgoing, G) + (IF u = f.urb /\ Cancelled(f.seq) THEN 1 ELSE 0)
  <2>1. Count(Append(outgoing, r), G) = Count(outgoing, G) + (IF r \in G THEN 1 ELSE 0)
    BY <1>2, CountAppend
  <2>2. QED
    BY <1>1, <1>4, <2>1
<1> DEFINE H == Holds(u)'
<1>6. Cardinality(H) = Cardinality(Holds(u)) - (IF u = f.urb /\ Cancelled(f.seq) THEN 1 ELSE 0)
  <2>1. CASE u = f.urb /\ Cancelled(f.seq)
    <3>1. PICK i \in Holds(u) : H = Holds(u) \ {i}
      BY <2>1, UnlinkedHolds
    <3> HIDE DEF H
    <3>2. Cardinality(Holds(u) \ {i}) = Cardinality(Holds(u)) - 1
      BY <3>1, HoldsFinite, FS_RemoveElement
    <3>3. QED
      BY <2>1, <3>1, <3>2
  <2>2. CASE ~ (u = f.urb /\ Cancelled(f.seq))
    <3>1. H = Holds(u)
      BY <2>2, UnlinkedHolds
    <3> HIDE DEF H
    <3>2. Cardinality(H) = Cardinality(Holds(u)) /\ Cardinality(Holds(u)) \in Nat
      BY <3>1, HoldsFinite
    <3>3. QED
      BY <2>2, <3>2
  <2>3. QED
    BY <2>1, <2>2
<1>7. /\ Places(u) = Count(wire, S) + Cardinality(Holds(u)) + Count(socket, Delivers(u)) + Count(outgoing, G)
      /\ Places(u)' = Count(wire', S) + Cardinality(H) + Count(socket', Delivers(u)) + Count(outgoing', G)
  BY DEF Places, Count, Delivers, Gives, Submits
<1>8. /\ Count(wire, S) \in Nat /\ Cardinality(Holds(u)) \in Nat /\ Count(socket, Delivers(u)) \in Nat
      /\ Count(outgoing, G) \in Nat /\ Count(socket', Delivers(u)) = Count(socket, Delivers(u))
  BY <1>1, PlacesTypes
<1> DEFINE one == IF u = f.urb /\ Cancelled(f.seq) THEN 1 ELSE 0
<1>9. one \in Nat /\ Count(outgoing', G) = Count(outgoing, G) + one /\ Cardinality(H) = Cardinality(Holds(u)) - one
  BY <1>5, <1>6
<1> HIDE DEF f, S, G, H, one
<1>10. Places(u)' = Places(u)
  BY <1>3, <1>7, <1>8, <1>9
<1>11. QED
  BY <1>1, <1>10 DEF Owed

\* A submit carries the transfer from the wire to a slot.
LEMMA SubmittedPlaces ==
  ASSUME Types, NEW i \in Slots, Submitted(i), NEW u
  PROVE  Places(u)' = Places(u) /\ Owed(u)' = Owed(u)
<1> DEFINE f == wire[1]
           S == Submits(u)
           H == Holds(u)'
           one == IF f.urb = u THEN 1 ELSE 0
<1>1. /\ wire # << >> /\ f \in Submit /\ wire' = Tail(wire) /\ UNCHANGED <<socket, outgoing, outstanding>>
      /\ i \in Slots \ Unsettled /\ Unsettled' = Unsettled \cup {i} /\ SameNames(Unsettled) /\ slots'[i].urb = f.urb
  BY DEF Submitted
<1>2. wire \in Seq(Frame) /\ Head(wire) = f
  BY <1>1 DEF Types, SocketTypes
<1>3. Count(wire, S) = Count(wire', S) + one /\ Count(wire', S) \in Nat
  <2>1. f \in S <=> f.urb = u
    BY <1>1 DEF Submit, Frame, Submits
  <2>2. Count(wire, S) = Count(Tail(wire), S) + (IF Head(wire) \in S THEN 1 ELSE 0)
    BY <1>1, <1>2, CountTail
  <2>3. Tail(wire) \in Seq(Frame)
    BY <1>1, <1>2
  <2>4. Count(Tail(wire), S) \in Nat
    BY <2>3, CountFinite
  <2> HIDE DEF f
  <2>5. QED
    BY <1>1, <1>2, <2>1, <2>2, <2>4
<1>4. Cardinality(H) = Cardinality(Holds(u)) + one
  <2>1. CASE f.urb = u
    <3>1. H = Holds(u) \cup {i} /\ i \notin Holds(u)
      BY <1>1, <2>1 DEF Holds, SameNames
    <3> HIDE DEF H
    <3>2. Cardinality(Holds(u) \cup {i}) = Cardinality(Holds(u)) + 1
      BY <3>1, HoldsFinite, FS_AddElement
    <3>3. QED
      BY <2>1, <3>1, <3>2
  <2>2. CASE f.urb # u
    <3>1. H = Holds(u)
      BY <1>1, <2>2 DEF Holds, SameNames
    <3> HIDE DEF H
    <3>2. Cardinality(H) = Cardinality(Holds(u)) /\ Cardinality(Holds(u)) \in Nat
      BY <3>1, HoldsFinite
    <3>3. QED
      BY <2>2, <3>2
  <2>3. QED
    BY <2>1, <2>2
<1>5. /\ Places(u) = Count(wire, S) + Cardinality(Holds(u)) + Count(socket, Delivers(u)) + Count(outgoing, Gives(u))
      /\ Places(u)' = Count(wire', S) + Cardinality(H) + Count(socket', Delivers(u)) + Count(outgoing', Gives(u))
  BY DEF Places, Count, Delivers, Gives, Submits
<1>6. /\ Cardinality(Holds(u)) \in Nat /\ Count(socket, Delivers(u)) \in Nat /\ Count(outgoing, Gives(u)) \in Nat
      /\ Count(socket', Delivers(u)) = Count(socket, Delivers(u))
      /\ Count(outgoing', Gives(u)) = Count(outgoing, Gives(u)) /\ one \in Nat
  BY <1>1, PlacesTypes
<1> HIDE DEF f, S, H, one
<1>7. Places(u)' = Places(u)
  BY <1>3, <1>4, <1>5, <1>6
<1>8. QED
  BY <1>1, <1>7 DEF Owed

\* A completion carries the transfer from its slot to the queue.
LEMMA CompletedPlaces ==
  ASSUME Types, NEW i \in Slots, NEW ok \in BOOLEAN, Completed(i, ok), NEW u
  PROVE  Places(u)' = Places(u) /\ Owed(u)' = Owed(u)
<1> DEFINE r == NewReply("submit", slots[i].urb, ok)
           G == Gives(u)
           H == Holds(u)'
           one == IF slots[i].urb = u THEN 1 ELSE 0
<1>1. /\ outgoing' = Append(outgoing, r) /\ UNCHANGED <<wire, socket, outstanding>>
      /\ i \in Unsettled /\ Unsettled' = Unsettled \ {i} /\ SameNames(Unsettled)
  BY DEF Completed
<1>2. outgoing \in Seq(Reply) /\ r \in Reply
  BY CompletedReply DEF Types, ReplyTypes
<1>3. r \in G <=> slots[i].urb = u
  BY <1>2 DEF Gives, GivesBack, NewReply
<1> HIDE DEF r
<1>4. Count(outgoing', G) = Count(outgoing, G) + one
  <2>1. Count(Append(outgoing, r), G) = Count(outgoing, G) + (IF r \in G THEN 1 ELSE 0)
    BY <1>2, CountAppend
  <2>2. QED
    BY <1>1, <1>3, <2>1
<1>5. Cardinality(H) = Cardinality(Holds(u)) - one
  <2>1. CASE slots[i].urb = u
    <3>1. H = Holds(u) \ {i} /\ i \in Holds(u)
      BY <1>1, <2>1 DEF Holds, SameNames
    <3> HIDE DEF H
    <3>2. Cardinality(Holds(u) \ {i}) = Cardinality(Holds(u)) - 1
      BY <3>1, HoldsFinite, FS_RemoveElement
    <3>3. QED
      BY <2>1, <3>1, <3>2
  <2>2. CASE slots[i].urb # u
    <3>1. H = Holds(u)
      BY <1>1, <2>2 DEF Holds, SameNames
    <3> HIDE DEF H
    <3>2. Cardinality(H) = Cardinality(Holds(u)) /\ Cardinality(Holds(u)) \in Nat
      BY <3>1, HoldsFinite
    <3>3. QED
      BY <2>2, <3>2
  <2>3. QED
    BY <2>1, <2>2
<1>6. /\ Places(u) = Count(wire, Submits(u)) + Cardinality(Holds(u)) + Count(socket, Delivers(u)) + Count(outgoing, G)
      /\ Places(u)' = Count(wire', Submits(u)) + Cardinality(H) + Count(socket', Delivers(u)) + Count(outgoing', G)
  BY DEF Places, Count, Delivers, Gives, Submits
<1>7. /\ Count(wire, Submits(u)) \in Nat /\ Cardinality(Holds(u)) \in Nat /\ Count(socket, Delivers(u)) \in Nat
      /\ Count(outgoing, G) \in Nat /\ one \in Nat
      /\ Count(wire', Submits(u)) = Count(wire, Submits(u))
      /\ Count(socket', Delivers(u)) = Count(socket, Delivers(u))
  BY <1>1, PlacesTypes
<1> HIDE DEF G, H, one
<1>8. Places(u)' = Places(u)
  BY <1>4, <1>5, <1>6, <1>7
<1>9. QED
  BY <1>1, <1>8 DEF Owed

\* A new transfer is on the wire and nowhere else.
LEMMA KernelSubmitPlaces ==
  ASSUME Types, Numbered, Once, KernelSteps, NEW r \in Requests, NEW s \in Seqs, KernelSubmit(r, s)
  PROVE  Once'
<1> DEFINE f == [kind |-> "submit", urb |-> urbs + 1, seq |-> s, request |-> r]
           p == [urb |-> urbs + 1, seq |-> s]
<1>1. /\ f \in Frame /\ wire' = Append(wire, f) /\ urbs \in Nat /\ urbs' = urbs + 1
      /\ outstanding' = outstanding \cup {p}
  BY KernelSubmitEffects
<1>2. f.kind = "submit" /\ f.urb = urbs + 1 /\ p.urb = urbs + 1
  OBVIOUS
<1> HIDE DEF f, p
<1>3. Unsettled' = Unsettled /\ SameNames(Unsettled) /\ UNCHANGED <<outgoing, socket>>
  BY DEF KernelSteps, KernelSubmit
<1>4. wire \in Seq(Frame) /\ socket \in Seq(Unit) /\ outgoing \in Seq(Reply)
  BY DEF Types, SocketTypes, ReplyTypes
<1>5. ASSUME NEW u \in 1..urbs' PROVE Places(u)' = Owed(u)'
  <2> DEFINE S == Submits(u)
             H == Holds(u)'
             one == IF u = urbs + 1 THEN 1 ELSE 0
  <2>1. f \in S <=> u = urbs + 1
    BY <1>1, <1>2 DEF Submits
  <2>2. Count(Append(wire, f), S) = Count(wire, S) + (IF f \in S THEN 1 ELSE 0)
    BY <1>1, <1>4, CountAppend
  <2>3. Count(wire', S) = Count(wire, S) + one
    BY <1>1, <2>1, <2>2
  <2>4. H = Holds(u)
    BY <1>3 DEF Holds, SameNames
  <2>5. /\ Places(u) = Count(wire, S) + Cardinality(Holds(u)) + Count(socket, Delivers(u)) + Count(outgoing, Gives(u))
        /\ Places(u)' = Count(wire', S) + Cardinality(H) + Count(socket', Delivers(u)) + Count(outgoing', Gives(u))
    BY DEF Places, Count, Delivers, Gives, Submits
  <2>6. /\ Count(wire, S) \in Nat /\ Cardinality(Holds(u)) \in Nat
        /\ Count(socket, Delivers(u)) \in Nat /\ Count(outgoing, Gives(u)) \in Nat
    BY PlacesTypes
  <2>7. u \in Nat /\ (u \in 1..urbs \/ u = urbs + 1)
    BY <1>1
  <2>8. CASE u = urbs + 1
    <3>1. u \notin 1..urbs
      BY <1>1, <2>8
    <3>2. \A k \in DOMAIN wire : wire[k] \notin S
      BY <3>1 DEF Numbered, Submits
    <3>3. Holds(u) = {}
      BY <3>1 DEF Numbered, Holds
    <3>4. u \notin OnItsWay("submit") /\ u \notin OnItsWay("unlink")
      BY <3>1 DEF Numbered
    <3>5. \A k \in DOMAIN socket : socket[k] \notin Delivers(u)
      <4>1. ASSUME NEW k \in DOMAIN socket, socket[k] \in Delivers(u) PROVE FALSE
        <5>1. socket[k].reply.kind \in {"submit", "unlink"} /\ socket[k].reply.urb = u
          BY <4>1 DEF Delivers, Unit, Reply
        <5>2. QED
          BY <3>4, <5>1 DEF OnItsWay
      <4>2. QED
        BY <4>1
    <3>6. \A k \in DOMAIN outgoing : outgoing[k] \notin Gives(u)
      <4>1. ASSUME NEW k \in DOMAIN outgoing, outgoing[k] \in Gives(u) PROVE FALSE
        <5>1. outgoing[k].kind \in {"submit", "unlink"} /\ outgoing[k].urb = u
          BY <4>1 DEF Gives, Reply
        <5>2. QED
          BY <3>4, <5>1 DEF OnItsWay
      <4>2. QED
        BY <4>1
    <3>7. Count(wire, S) = 0 /\ Count(socket, Delivers(u)) = 0 /\ Count(outgoing, Gives(u)) = 0
      BY <3>2, <3>5, <3>6, CountNone
    <3>8. Cardinality(Holds(u)) = 0
      BY <3>3, FS_EmptySet
    <3>9. Owed(u)' = 1
      BY <1>1, <1>2, <2>8 DEF Owed
    <3> HIDE DEF S, H
    <3>10. Count(wire', S) = 1 /\ Cardinality(H) = 0 /\ Count(socket', Delivers(u)) = 0 /\ Count(outgoing', Gives(u)) = 0
      BY <1>3, <2>3, <2>4, <2>8, <3>7, <3>8
    <3>11. Places(u)' = 1
      BY <2>5, <3>10
    <3>12. QED
      BY <3>9, <3>11
  <2>9. CASE u \in 1..urbs
    <3>1. u # urbs + 1
      BY <1>1, <2>9
    <3>2. Owed(u)' = Owed(u)
      BY <1>1, <1>2, <3>1 DEF Owed
    <3> HIDE DEF S, H
    <3>3. Count(wire', S) = Count(wire, S)
      BY <2>3, <2>6, <3>1
    <3>4. Places(u)' = Places(u)
      BY <1>3, <2>4, <2>5, <3>3
    <3>5. QED
      BY <2>9, <3>2, <3>4 DEF Once
  <2>10. QED
    BY <2>7, <2>8, <2>9
<1>6. QED
  BY <1>5 DEF Once

\* Asking for an unlink moves no transfer.
LEMMA KernelUnlinkPlaces ==
  ASSUME Types, Once, KernelSteps, NEW o \in outstanding, KernelUnlink(o)
  PROVE  Once'
<1> DEFINE f == [kind |-> "unlink", urb |-> o.urb, seq |-> o.seq]
<1>1. f \in Frame /\ wire' = Append(wire, f) /\ urbs' = urbs /\ outstanding' = outstanding
  BY KernelUnlinkEffects
<1>2. f.kind = "unlink"
  OBVIOUS
<1> HIDE DEF f
<1>3. Unsettled' = Unsettled /\ SameNames(Unsettled) /\ UNCHANGED <<outgoing, socket>>
  BY DEF KernelSteps, KernelUnlink
<1>4. wire \in Seq(Frame)
  BY DEF Types, SocketTypes
<1>5. ASSUME NEW u \in 1..urbs PROVE Places(u)' = Owed(u)'
  <2> DEFINE S == Submits(u)
             H == Holds(u)'
  <2>1. f \notin S
    BY <1>2 DEF Submits
  <2>2. Count(Append(wire, f), S) = Count(wire, S) + (IF f \in S THEN 1 ELSE 0)
    BY <1>1, <1>4, CountAppend
  <2>3. H = Holds(u)
    BY <1>3 DEF Holds, SameNames
  <2>4. Count(wire, S) \in Nat
    BY PlacesTypes
  <2>5. /\ Places(u) = Count(wire, S) + Cardinality(Holds(u)) + Count(socket, Delivers(u)) + Count(outgoing, Gives(u))
        /\ Places(u)' = Count(wire', S) + Cardinality(H) + Count(socket', Delivers(u)) + Count(outgoing', Gives(u))
    BY DEF Places, Count, Delivers, Gives, Submits
  <2> HIDE DEF S, H
  <2>6. Count(wire', S) = Count(wire, S)
    BY <1>1, <2>1, <2>2, <2>4
  <2>7. Places(u)' = Places(u)
    BY <1>3, <2>3, <2>5, <2>6
  <2>8. Owed(u)' = Owed(u)
    BY <1>1 DEF Owed
  <2>9. QED
    BY <2>7, <2>8 DEF Once
<1>6. QED
  BY <1>1, <1>5 DEF Once

\* What the reading of a unit gives back.
LEMMA ReadGivesBack ==
  ASSUME Types, UnitsInOrder, KernelRead
  PROVE  /\ socket[1] \in Unit /\ socket[1].unit = reading + 1
         /\ outstanding' = IF \E u \in Nat : socket[1] \in Delivers(u)
                           THEN {o \in outstanding : o.urb # socket[1].reply.urb}
                           ELSE outstanding
<1>1. 1 \in DOMAIN socket /\ Head(socket) = socket[1] /\ socket # << >>
  BY ReadEffects DEF KernelRead
<1>2. socket[1] \in Unit /\ socket[1].unit = reading + 1 /\ socket[1].reply.urb \in Nat
  BY <1>1, UnitAt DEF UnitsInOrder, Types, Reply
<1>3. (reading + 1 = ReplyUnits /\ GivesBack(Head(socket).reply)) <=> \E u \in Nat : socket[1] \in Delivers(u)
  BY <1>1, <1>2 DEF Delivers
<1>4. QED
  BY <1>1, <1>2, <1>3 DEF KernelRead

\* The kernel reads the last unit of the one reply that gives a transfer back, and then no longer waits
\* for it; the transfer is nowhere else.
LEMMA KernelReadPlaces ==
  ASSUME Types, UnitsInOrder, Numbered, Once, KernelSteps, KernelRead, NEW u \in 1..urbs
  PROVE  /\ Places(u)' = Owed(u)'
         /\ (\E o \in outstanding \ outstanding' : o.urb = u) =>
              Count(wire, Submits(u)) = 0 /\ Cardinality(Holds(u)) = 0
<1> DEFINE x == socket[1]
           D == Delivers(u)
           H == Holds(u)'
           one == IF x \in D THEN 1 ELSE 0
<1>1. socket \in Seq(Unit) /\ socket # << >> /\ socket' = Tail(socket) /\ Head(socket) = x /\ 1 \in DOMAIN socket
  BY ReadEffects DEF KernelRead, Types, SocketTypes
<1>2. Unsettled' = Unsettled /\ SameNames(Unsettled) /\ wire' = wire /\ outgoing' = outgoing
  BY DEF KernelSteps, KernelRead
<1>3. H = Holds(u)
  BY <1>2 DEF Holds, SameNames
<1>4. Count(socket, D) = Count(socket', D) + one /\ Count(socket', D) \in Nat
  <2>1. Count(socket, D) = Count(Tail(socket), D) + (IF Head(socket) \in D THEN 1 ELSE 0)
    BY <1>1, CountTail
  <2>2. Tail(socket) \in Seq(Unit)
    BY <1>1
  <2>3. Count(Tail(socket), D) \in Nat
    BY <2>2, CountFinite
  <2> HIDE DEF D
  <2>4. QED
    BY <1>1, <2>1, <2>3
<1>5. /\ Places(u) = Count(wire, Submits(u)) + Cardinality(Holds(u)) + Count(socket, D) + Count(outgoing, Gives(u))
      /\ Places(u)' = Count(wire', Submits(u)) + Cardinality(H) + Count(socket', D) + Count(outgoing', Gives(u))
  BY DEF Places, Count, Delivers, Gives, Submits
<1>6. /\ Count(wire, Submits(u)) \in Nat /\ Cardinality(Holds(u)) \in Nat
      /\ Count(socket, D) \in Nat /\ Count(outgoing, Gives(u)) \in Nat
  BY PlacesTypes
<1>7. x \in D => x.reply.urb = u
  BY DEF Delivers
<1>8. u \in Nat
  BY DEF Types, KernelTypes
<1>9. CASE x \in D
  <2>1. outstanding' = {o \in outstanding : o.urb # u}
    BY <1>7, <1>8, <1>9, ReadGivesBack
  <2>2. Owed(u)' = 0
    BY <2>1 DEF Owed
  <2>3. Places(u) = Owed(u) /\ Owed(u) \in {0, 1}
    BY DEF Once, Owed
  <2>4. one = 1
    BY <1>9
  <2> HIDE DEF D, H, one
  <2>5. /\ Count(socket', D) = 0 /\ Count(wire, Submits(u)) = 0 /\ Cardinality(Holds(u)) = 0
        /\ Count(outgoing, Gives(u)) = 0
    BY <1>4, <1>5, <1>6, <2>3, <2>4
  <2>6. Places(u)' = 0
    BY <1>2, <1>3, <1>5, <2>5
  <2>7. QED
    BY <2>2, <2>5, <2>6
<1>10. CASE x \notin D
  <2>1. \A o \in outstanding : o.urb = u => o \in outstanding'
    <3>1. (\E v \in Nat : x \in Delivers(v)) => x.reply.urb # u
      BY <1>8, <1>10 DEF Delivers
    <3>2. QED
      BY <3>1, ReadGivesBack
  <2>2. outstanding' \subseteq outstanding
    BY ReadGivesBack
  <2>3. Owed(u)' = Owed(u)
    BY <2>1, <2>2 DEF Owed
  <2>4. Places(u) = Owed(u)
    BY DEF Once
  <2>5. one = 0
    BY <1>10
  <2> HIDE DEF D, H, one
  <2>6. Count(socket', D) = Count(socket, D)
    BY <1>4, <2>5
  <2>7. Places(u)' = Places(u)
    BY <1>2, <1>3, <1>5, <2>6
  <2>8. QED
    BY <2>1, <2>3, <2>4, <2>7
<1>11. QED
  BY <1>9, <1>10

\* So a transfer given back is neither on the wire nor in a slot.
LEMMA ReadFrees ==
  ASSUME Types, UnitsInOrder, Numbered, Once, Effects
  PROVE  Freed
<1>1. SUFFICES ASSUME KernelRead, NEW o \in outstanding \ outstanding'
               PROVE  /\ \A k \in DOMAIN wire : wire[k].kind = "submit" => wire[k].urb # o.urb
                      /\ \A i \in Unsettled : slots[i].urb # o.urb
  BY DEF Freed
<1> DEFINE u == o.urb
<1>2. u \in 1..urbs
  BY DEF Numbered
<1>3. \E p \in outstanding \ outstanding' : p.urb = u
  OBVIOUS
<1> HIDE DEF u
<1>4. KernelSteps
  <2>1. outstanding' # outstanding
    OBVIOUS
  <2>2. QED
    BY <2>1 DEF Effects, Still, Writes, Unlinked, Submitted, Completed
<1>5. Count(wire, Submits(u)) = 0 /\ Cardinality(Holds(u)) = 0
  BY <1>1, <1>2, <1>3, <1>4, KernelReadPlaces
<1>6. \A k \in DOMAIN wire : wire[k] \notin Submits(u)
  <2>1. ASSUME NEW k \in DOMAIN wire, wire[k] \in Submits(u) PROVE FALSE
    <3>1. wire \in Seq(Frame)
      BY DEF Types, SocketTypes
    <3>2. Count(wire, Submits(u)) >= 1
      BY <2>1, <3>1, CountSome
    <3>3. QED
      BY <1>5, <3>2
  <2>2. QED
    BY <2>1
<1>7. Holds(u) = {}
  BY <1>5, HoldsFinite, FS_EmptySet
<1>8. \A k \in DOMAIN wire : wire[k].kind = "submit" => wire[k].urb # u
  BY <1>6, WireAt DEF Types, Submits
<1>9. \A i \in Unsettled : slots[i].urb # u
  BY <1>7 DEF Holds
<1>10. QED
  BY <1>8, <1>9 DEF u

\* Every step keeps each transfer in exactly one place.
LEMMA OnceStep ==
  ASSUME Types, SlotsMatchPending, UnitsInOrder, Numbered, Waiting, Unlinks, Once, Effects
  PROVE  Once'
<1>1. ASSUME urbs' = urbs, \A u : Places(u)' = Places(u) /\ Owed(u)' = Owed(u)
      PROVE  Once'
  BY <1>1 DEF Once
<1>2. CASE Still
  BY <1>1, <1>2, StillPlaces DEF Still
<1>3. ASSUME NEW n \in 1..ReplyUnits, Writes(n) PROVE Once'
  <2>1. urbs' = urbs
    BY <1>3 DEF Writes
  <2>2. \A u : Places(u)' = Places(u) /\ Owed(u)' = Owed(u)
    BY <1>3, WritesPlaces
  <2>3. QED
    BY <1>1, <2>1, <2>2
<1>4. CASE Unlinked
  <2>1. urbs' = urbs
    BY <1>4 DEF Unlinked
  <2>2. \A u : Places(u)' = Places(u) /\ Owed(u)' = Owed(u)
    BY <1>4, UnlinkedPlaces
  <2>3. QED
    BY <1>1, <2>1, <2>2
<1>5. ASSUME NEW i \in Slots, Submitted(i) PROVE Once'
  <2>1. urbs' = urbs
    BY <1>5 DEF Submitted
  <2>2. \A u : Places(u)' = Places(u) /\ Owed(u)' = Owed(u)
    BY <1>5, SubmittedPlaces
  <2>3. QED
    BY <1>1, <2>1, <2>2
<1>6. ASSUME NEW i \in Slots, NEW ok \in BOOLEAN, Completed(i, ok) PROVE Once'
  <2>1. urbs' = urbs
    BY <1>6 DEF Completed
  <2>2. \A u : Places(u)' = Places(u) /\ Owed(u)' = Owed(u)
    BY <1>6, CompletedPlaces
  <2>3. QED
    BY <1>1, <2>1, <2>2
<1>7. CASE KernelSteps
  <2>1. ASSUME NEW r \in Requests, NEW s \in Seqs, KernelSubmit(r, s) PROVE Once'
    BY <1>7, <2>1, KernelSubmitPlaces
  <2>2. ASSUME NEW o \in outstanding, KernelUnlink(o) PROVE Once'
    BY <1>7, <2>2, KernelUnlinkPlaces
  <2>3. CASE KernelRead
    <3>1. urbs' = urbs
      BY <2>3 DEF KernelRead
    <3>2. \A u \in 1..urbs : Places(u)' = Owed(u)'
      BY <1>7, <2>3, KernelReadPlaces
    <3>3. QED
      BY <3>1, <3>2 DEF Once
  <2>4. QED
    BY <1>7, <2>1, <2>2, <2>3 DEF KernelSteps
<1>8. QED
  BY <1>2, <1>3, <1>4, <1>5, <1>6, <1>7 DEF Effects

-----------------------------------------------------------------------------
(* No unlink is told of a completion that is not on its way.               *)

\* A reply of status 0 to an unlink; a completion of transfer u.
TellsComplete(r) == r.kind = "unlink" /\ r.ok
Completes(r, u) == r.urb = u /\ r.kind = "submit"

\* The completion of an unlinked transfer is ahead of the reply that reports it.
AheadInSocket ==
  \A k \in DOMAIN socket : TellsComplete(socket[k].reply) =>
    \A o \in outstanding : o.urb = socket[k].reply.urb =>
      \E j \in 1..(k - 1) : Completes(socket[j].reply, o.urb)
\* The same for a reply still in the queue, whose completion may have left for the socket.
AheadInQueue ==
  \A k \in DOMAIN outgoing : TellsComplete(outgoing[k]) =>
    \A o \in outstanding : o.urb = outgoing[k].urb =>
      \/ \E j \in 1..(k - 1) : Completes(outgoing[j], o.urb)
      \/ \E j \in DOMAIN socket : Completes(socket[j].reply, o.urb)

\* The two parts of UnlinkTruthful.
LEMMA TruthIs ==
  UnlinkTruthful <=> (pc # "done" => AheadInSocket /\ AheadInQueue)
BY DEF UnlinkTruthful, AheadInSocket, AheadInQueue, TellsComplete, Completes

\* A step that moves no reply, while the kernel stops waiting or submits something new.
LEMMA TruthSame ==
  ASSUME AheadInSocket, AheadInQueue, UNCHANGED <<outgoing, socket>>,
         \A o \in outstanding' : o \in outstanding \/ o.urb \notin OnItsWay("unlink")
  PROVE  AheadInSocket' /\ AheadInQueue'
<1>1. ASSUME NEW k \in DOMAIN socket', TellsComplete(socket'[k].reply), NEW o \in outstanding', o.urb = socket'[k].reply.urb
      PROVE  \E j \in 1..(k - 1) : Completes(socket'[j].reply, o.urb)
  <2>1. o.urb \in OnItsWay("unlink")
    BY <1>1 DEF OnItsWay, TellsComplete
  <2>2. o \in outstanding
    BY <2>1
  <2>3. QED
    BY <1>1, <2>2 DEF AheadInSocket
<1>2. ASSUME NEW k \in DOMAIN outgoing', TellsComplete(outgoing'[k]), NEW o \in outstanding', o.urb = outgoing'[k].urb
      PROVE  \/ \E j \in 1..(k - 1) : Completes(outgoing'[j], o.urb)
             \/ \E j \in DOMAIN socket' : Completes(socket'[j].reply, o.urb)
  <2>1. o.urb \in OnItsWay("unlink")
    BY <1>2 DEF OnItsWay, TellsComplete
  <2>2. o \in outstanding
    BY <2>1
  <2>3. QED
    BY <1>2, <2>2 DEF AheadInQueue
<1>3. QED
  BY <1>1, <1>2 DEF AheadInSocket, AheadInQueue

\* A reply added to the queue, when its transfer is completed ahead of it.
LEMMA TruthAppend ==
  ASSUME Types, AheadInSocket, AheadInQueue, NEW r \in Reply, r.written = 0,
         outgoing' = Append(outgoing, r), UNCHANGED <<socket, outstanding>>,
         TellsComplete(r) => \A o \in outstanding : o.urb = r.urb =>
             \/ \E j \in DOMAIN outgoing : Completes(outgoing[j], o.urb)
             \/ \E j \in DOMAIN socket : Completes(socket[j].reply, o.urb)
  PROVE  AheadInSocket' /\ AheadInQueue'
<1>1. /\ Len(outgoing) \in Nat /\ DOMAIN outgoing = 1..Len(outgoing)
      /\ DOMAIN outgoing' = 1..(Len(outgoing) + 1)
      /\ \A k \in 1..Len(outgoing) : outgoing'[k] = outgoing[k]
      /\ outgoing'[Len(outgoing) + 1] = r
  BY AppendEffects
<1>2. AheadInSocket'
  BY DEF AheadInSocket
<1>3. ASSUME NEW k \in DOMAIN outgoing', TellsComplete(outgoing'[k]), NEW o \in outstanding', o.urb = outgoing'[k].urb
      PROVE  \/ \E j \in 1..(k - 1) : Completes(outgoing'[j], o.urb)
             \/ \E j \in DOMAIN socket' : Completes(socket'[j].reply, o.urb)
  <2>1. CASE k \in 1..Len(outgoing)
    <3>1. \A j \in 1..(k - 1) : outgoing'[j] = outgoing[j]
      BY <1>1, <2>1
    <3>2. \/ \E j \in 1..(k - 1) : Completes(outgoing[j], o.urb)
          \/ \E j \in DOMAIN socket : Completes(socket[j].reply, o.urb)
      BY <1>1, <1>3, <2>1 DEF AheadInQueue
    <3>3. QED
      BY <3>1, <3>2
  <2>2. CASE k = Len(outgoing) + 1
    <3>1. 1..(k - 1) = DOMAIN outgoing /\ outgoing'[k] = r
      BY <1>1, <2>2
    <3>2. \A j \in DOMAIN outgoing : outgoing'[j] = outgoing[j]
      BY <1>1
    <3>3. QED
      BY <1>3, <3>1, <3>2
  <2>3. QED
    BY <1>1, <2>1, <2>2
<1>4. QED
  BY <1>2, <1>3 DEF AheadInQueue

\* An unlink that finds no request finds the completion of its transfer on its way.
LEMMA NotCancelledIsCompleted ==
  ASSUME Types, SlotsMatchPending, Numbered, Waiting, Unlinks, Once, Unlinked, ~ Cancelled(wire[1].seq),
         NEW o \in outstanding, o.urb = wire[1].urb
  PROVE  \/ \E j \in DOMAIN outgoing : Completes(outgoing[j], o.urb)
         \/ \E j \in DOMAIN socket : Completes(socket[j].reply, o.urb)
<1> DEFINE u == o.urb
<1>1. wire # << >> /\ wire[1].kind = "unlink" /\ 1 \in DOMAIN wire /\ wire \in Seq(Frame)
  BY DEF Unlinked, Unlink, Types, SocketTypes
<1>2. u \in 1..urbs /\ Owed(u) = 1
  BY DEF Numbered, Owed
<1>3. /\ \A p \in outstanding : p.seq = wire[1].seq <=> p.urb = u
      /\ \A j \in DOMAIN wire : j > 1 => wire[j].urb # u
      /\ u \notin OnItsWay("unlink")
  BY <1>1 DEF Unlinks
<1> HIDE DEF u
<1>4. \A k \in DOMAIN wire : wire[k] \notin Submits(u)
  <2>1. ASSUME NEW k \in DOMAIN wire, k # 1 PROVE k > 1
    <3>1. DOMAIN wire = 1..Len(wire) /\ Len(wire) \in Nat
      BY <1>1
    <3>2. QED
      BY <2>1, <3>1
  <2>2. QED
    BY <1>1, <1>3, <2>1 DEF Submits
<1>5. Holds(u) = {}
  <2>1. ASSUME NEW i \in Unsettled, slots[i].urb = u PROVE FALSE
    <3> DEFINE p == [urb |-> slots[i].urb, seq |-> slots[i].seq]
    <3>1. p \in outstanding /\ p.urb = u /\ p.seq = slots[i].seq
      BY <2>1 DEF Waiting
    <3>2. slots[i].seq = wire[1].seq
      BY <1>3, <3>1
    <3>3. QED
      BY <3>2 DEF SlotsMatchPending, Cancelled
  <2>2. QED
    BY <2>1 DEF Holds
<1>6. Count(wire, Submits(u)) = 0 /\ Cardinality(Holds(u)) = 0
  BY <1>4, <1>5, CountNone, FS_EmptySet
<1>7. Count(socket, Delivers(u)) # 0 \/ Count(outgoing, Gives(u)) # 0
  <2>1. Places(u) = 1
    BY <1>2 DEF Once
  <2>2. Count(socket, Delivers(u)) \in Nat /\ Count(outgoing, Gives(u)) \in Nat
    BY PlacesTypes
  <2>3. QED
    BY <1>6, <2>1, <2>2 DEF Places
<1>8. CASE Count(socket, Delivers(u)) # 0
  <2>1. PICK k \in DOMAIN socket : socket[k] \in Delivers(u)
    BY <1>8, CountNone
  <2>2. socket[k].reply.urb = u /\ socket[k].reply.kind \in {"submit", "unlink"}
    BY <2>1 DEF Delivers, Unit, Reply
  <2>3. socket[k].reply.kind # "unlink"
    BY <1>3, <2>2 DEF OnItsWay
  <2>4. QED
    BY <2>2, <2>3 DEF Completes, u
<1>9. CASE Count(outgoing, Gives(u)) # 0
  <2>1. PICK k \in DOMAIN outgoing : outgoing[k] \in Gives(u)
    BY <1>9, CountNone
  <2>2. outgoing[k].urb = u /\ outgoing[k].kind \in {"submit", "unlink"}
    BY <2>1 DEF Gives, Reply
  <2>3. outgoing[k].kind # "unlink"
    BY <1>3, <2>2 DEF OnItsWay
  <2>4. QED
    BY <2>2, <2>3 DEF Completes, u
<1>10. QED
  BY <1>7, <1>8, <1>9

\* Replies leave the queue in order, so a completion stays ahead of what reports it.
LEMMA TruthWrites ==
  ASSUME Types, AheadInSocket, AheadInQueue, NEW n \in 1..ReplyUnits, Writes(n)
  PROVE  AheadInSocket' /\ AheadInQueue'
<1> DEFINE c == Len(socket)
           h == outgoing[1]
           q == Len(outgoing)
<1>0. FlushWrite(n) /\ outstanding' = outstanding
  BY DEF Writes
<1>1. /\ n \in Nat /\ n >= 1 /\ c \in Nat /\ q \in Nat \ {0} /\ DOMAIN outgoing = 1..q
      /\ DOMAIN socket = 1..c /\ DOMAIN socket' = 1..(c + n) /\ h \in Reply
      /\ \A k \in 1..c : socket'[k] = socket[k]
  <2>1. ReplyUnits \in Nat
    BY WorkerAssumption
  <2>2. n \in Nat /\ n >= 1
    BY <2>1
  <2>3. QED
    BY <1>0, <2>2, WriteEffects
<1>2. \A k \in DOMAIN socket' : \/ k \in 1..c /\ socket'[k] = socket[k]
                                \/ k \notin 1..c /\ SameReply(socket'[k].reply, h)
  BY <1>0, <1>1, WriteKeepsReplies
<1>3. \A r, s, u : SameReply(r, s) => /\ TellsComplete(r) <=> TellsComplete(s)
                                      /\ Completes(r, u) <=> Completes(s, u)
                                      /\ r.urb = s.urb
  BY DEF SameReply, TellsComplete, Completes
<1>4. c + 1 \in DOMAIN socket' /\ SameReply(socket'[c + 1].reply, h)
  <2>1. c + 1 \in 1..(c + n) /\ c + 1 \notin 1..c
    BY <1>1
  <2>2. QED
    BY <1>1, <1>2, <2>1
<1>5. AheadInSocket'
  <2>1. SUFFICES ASSUME NEW k \in DOMAIN socket', TellsComplete(socket'[k].reply), NEW o \in outstanding, o.urb = socket'[k].reply.urb
                 PROVE  \E j \in 1..(k - 1) : Completes(socket'[j].reply, o.urb)
    BY <1>0 DEF AheadInSocket
  <2>2. k \in 1..(c + n)
    BY <1>1
  <2>3. CASE k \in 1..c /\ socket'[k] = socket[k]
    <3>1. PICK j \in 1..(k - 1) : Completes(socket[j].reply, o.urb)
      BY <1>1, <2>1, <2>3 DEF AheadInSocket
    <3>2. j \in 1..c
      BY <1>1, <2>3
    <3>3. QED
      BY <1>1, <3>1, <3>2
  <2>4. CASE k \notin 1..c /\ SameReply(socket'[k].reply, h)
    <3>1. TellsComplete(h) /\ o.urb = h.urb
      BY <1>3, <2>1, <2>4
    <3>2. 1 \in DOMAIN outgoing /\ 1..(1 - 1) = {}
      BY <1>1
    <3>3. PICK j \in DOMAIN socket : Completes(socket[j].reply, o.urb)
      BY <3>1, <3>2 DEF AheadInQueue
    <3>4. j \in 1..c /\ j \in 1..(k - 1)
      BY <1>1, <2>2, <2>4
    <3>5. QED
      BY <1>1, <3>3, <3>4
  <2>5. QED
    BY <1>2, <2>3, <2>4
<1>6. AheadInQueue'
  <2>1. SUFFICES ASSUME NEW k \in DOMAIN outgoing', TellsComplete(outgoing'[k]), NEW o \in outstanding, o.urb = outgoing'[k].urb
                 PROVE  \/ \E j \in 1..(k - 1) : Completes(outgoing'[j], o.urb)
                        \/ \E j \in DOMAIN socket' : Completes(socket'[j].reply, o.urb)
    BY <1>0 DEF AheadInQueue
  <2>2. \A j \in DOMAIN socket : j \in DOMAIN socket' /\ socket'[j] = socket[j]
    BY <1>1
  <2>3. CASE h.written + n = ReplyUnits
    <3>1. /\ DOMAIN outgoing' = 1..(q - 1)
          /\ \A j \in 1..(q - 1) : outgoing'[j] = outgoing[j + 1]
      BY <1>0, <2>3, WriteEffects
    <3>2. k \in 1..(q - 1) /\ k + 1 \in DOMAIN outgoing /\ outgoing'[k] = outgoing[k + 1] /\ (k + 1) - 1 = k
      BY <1>1, <3>1
    <3>3. \/ \E j \in 1..k : Completes(outgoing[j], o.urb)
          \/ \E j \in DOMAIN socket : Completes(socket[j].reply, o.urb)
      <4> DEFINE m == k + 1
      <4>1. m \in DOMAIN outgoing /\ TellsComplete(outgoing[m]) /\ o.urb = outgoing[m].urb /\ m - 1 = k
        BY <2>1, <3>2
      <4> HIDE DEF m
      <4>2. \/ \E j \in 1..(m - 1) : Completes(outgoing[j], o.urb)
            \/ \E j \in DOMAIN socket : Completes(socket[j].reply, o.urb)
        BY <4>1 DEF AheadInQueue
      <4>3. QED
        BY <4>1, <4>2
    <3>4. ASSUME NEW j \in 1..k, Completes(outgoing[j], o.urb)
          PROVE  \/ \E i \in 1..(k - 1) : Completes(outgoing'[i], o.urb)
                 \/ \E i \in DOMAIN socket' : Completes(socket'[i].reply, o.urb)
      <4>1. CASE j = 1
        <5>1. Completes(h, o.urb)
          BY <3>4, <4>1
        <5>2. QED
          BY <1>3, <1>4, <5>1
      <4>2. CASE j # 1
        <5> DEFINE i == j - 1
        <5>1. i \in 1..(k - 1) /\ i \in 1..(q - 1) /\ i + 1 = j
          BY <1>1, <3>2, <4>2
        <5> HIDE DEF i
        <5>2. outgoing'[i] = outgoing[j]
          BY <3>1, <5>1
        <5>3. QED
          BY <3>4, <5>1, <5>2
      <4>3. QED
        BY <4>1, <4>2
    <3>5. QED
      BY <2>2, <3>3, <3>4
  <2>4. CASE h.written + n # ReplyUnits
    <3>1. /\ DOMAIN outgoing' = 1..q /\ outgoing'[1] = [h EXCEPT !.written = h.written + n]
          /\ \A j \in 1..q : j # 1 => outgoing'[j] = outgoing[j]
      BY <1>0, <2>4, WriteEffects
    <3>2. SameReply(outgoing'[1], h)
      BY <1>1, <3>1 DEF SameReply, Reply
    <3>3. \A j \in 1..q : SameReply(outgoing'[j], outgoing[j])
      BY <3>1, <3>2 DEF SameReply
    <3>4. k \in 1..q /\ TellsComplete(outgoing[k]) /\ o.urb = outgoing[k].urb
      BY <1>3, <2>1, <3>1, <3>3
    <3>5. \/ \E j \in 1..(k - 1) : Completes(outgoing[j], o.urb)
          \/ \E j \in DOMAIN socket : Completes(socket[j].reply, o.urb)
      BY <1>1, <3>4 DEF AheadInQueue
    <3>6. \A j \in 1..(k - 1) : j \in 1..q
      BY <1>1, <3>4
    <3>7. QED
      BY <1>3, <2>2, <3>3, <3>5, <3>6
  <2>5. QED
    BY <2>3, <2>4
<1>7. QED
  BY <1>5, <1>6

\* A completion read in full gives its transfer back; one read in part goes on behind its first unit.
LEMMA TruthRead ==
  ASSUME Types, UnitsInOrder, AheadInSocket, AheadInQueue, KernelSteps, KernelRead
  PROVE  AheadInSocket' /\ AheadInQueue'
<1> DEFINE x == socket[1]
           c == Len(socket)
<1>1. /\ c \in Nat \ {0} /\ DOMAIN socket = 1..c /\ DOMAIN socket' = 1..(c - 1) /\ 1 \in DOMAIN socket
      /\ \A k \in 1..(c - 1) : socket'[k] = socket[k + 1]
  BY ReadEffects
<1>2. outgoing' = outgoing /\ outgoing \in Seq(Reply)
  BY DEF KernelRead, Types, ReplyTypes
<1>3. x \in Unit /\ x.unit = reading + 1 /\ outstanding' \subseteq outstanding
  BY ReadGivesBack
\* A completion read in part goes on behind its first unit; one read in full gave its transfer back.
<1>4. ASSUME NEW o \in outstanding', Completes(x.reply, o.urb)
      PROVE  /\ x.unit # ReplyUnits
             /\ c > 1 => socket'[1].reply = x.reply
             /\ c = 1 => 1 \in DOMAIN outgoing /\ outgoing[1].kind = "submit" /\ outgoing[1].urb = o.urb
  <2>1. x.unit # ReplyUnits
    <3>1. SUFFICES ASSUME x.unit = ReplyUnits PROVE FALSE
      OBVIOUS
    <3>2. x \in Delivers(o.urb) /\ o.urb = x.reply.urb
      BY <1>3, <1>4, <3>1 DEF Delivers, Completes, GivesBack
    <3>3. o.urb \in Nat
      BY <1>3, <3>2 DEF Unit, Reply
    <3>4. outstanding' = {p \in outstanding : p.urb # x.reply.urb}
      BY <3>2, <3>3, ReadGivesBack
    <3>5. QED
      BY <1>4, <3>2, <3>4
  <2>2. ASSUME c > 1 PROVE socket'[1].reply = x.reply
    <3>1. 1 \in 1..(c - 1)
      BY <1>1, <2>2
    <3>2. socket'[1] = socket[1 + 1] /\ Follows(socket[1], socket[1 + 1])
      BY <1>1, <3>1 DEF UnitsInOrder
    <3>3. QED
      BY <2>1, <3>2 DEF Follows
  <2>3. ASSUME c = 1 PROVE 1 \in DOMAIN outgoing /\ outgoing[1].kind = "submit" /\ outgoing[1].urb = o.urb
    <3>1. socket # << >> /\ socket[Len(socket)] = x
      BY <2>3 DEF KernelRead
    <3>2. HeadWritten # 0 /\ x.reply = Bare(outgoing[1])
      BY <2>1, <3>1 DEF UnitsInOrder
    <3>3. outgoing # << >>
      BY <3>2 DEF HeadWritten
    <3>4. 1 \in DOMAIN outgoing /\ outgoing[1] \in Reply
      BY <1>2, <3>3
    <3>5. x.reply.kind = outgoing[1].kind /\ x.reply.urb = outgoing[1].urb
      BY <3>2, <3>4 DEF Bare, Reply
    <3>6. QED
      BY <1>4, <3>4, <3>5 DEF Completes
  <2>4. QED
    BY <2>1, <2>2, <2>3
<1>5. AheadInSocket'
  <2>1. SUFFICES ASSUME NEW k \in 1..(c - 1), TellsComplete(socket'[k].reply), NEW o \in outstanding', o.urb = socket'[k].reply.urb
                 PROVE  \E j \in 1..(k - 1) : Completes(socket'[j].reply, o.urb)
    BY <1>1 DEF AheadInSocket
  <2> DEFINE m == k + 1
  <2>2. m \in 1..c /\ socket'[k] = socket[m] /\ m - 1 = k /\ k \in Nat
    BY <1>1
  <2> HIDE DEF m
  <2>3. PICK j \in 1..(m - 1) : Completes(socket[j].reply, o.urb)
    BY <1>1, <1>3, <2>1, <2>2 DEF AheadInSocket
  <2>4. CASE j = 1
    <3>1. c > 1 /\ Completes(x.reply, o.urb)
      BY <1>1, <2>3, <2>4
    <3>2. socket'[1].reply = x.reply
      BY <1>4, <3>1
    <3>3. k # 1
      BY <2>1, <3>1, <3>2 DEF TellsComplete, Completes
    <3>4. 1 \in 1..(k - 1)
      BY <2>2, <3>3
    <3>5. QED
      BY <3>1, <3>2, <3>4
  <2>5. CASE j # 1
    <3> DEFINE i == j - 1
    <3>1. i \in 1..(k - 1) /\ i \in 1..(c - 1) /\ i + 1 = j
      BY <1>1, <2>2, <2>5
    <3> HIDE DEF i
    <3>2. socket'[i] = socket[j]
      BY <1>1, <3>1
    <3>3. QED
      BY <2>3, <3>1, <3>2
  <2>6. QED
    BY <2>4, <2>5
<1>6. AheadInQueue'
  <2>1. SUFFICES ASSUME NEW k \in DOMAIN outgoing, TellsComplete(outgoing[k]), NEW o \in outstanding', o.urb = outgoing[k].urb
                 PROVE  \/ \E j \in 1..(k - 1) : Completes(outgoing[j], o.urb)
                        \/ \E j \in DOMAIN socket' : Completes(socket'[j].reply, o.urb)
    BY <1>2 DEF AheadInQueue
  <2>2. CASE \E j \in 1..(k - 1) : Completes(outgoing[j], o.urb)
    BY <2>2
  <2>3. ASSUME NEW j \in 1..c, Completes(socket[j].reply, o.urb)
        PROVE  \/ \E i \in 1..(k - 1) : Completes(outgoing[i], o.urb)
               \/ \E i \in DOMAIN socket' : Completes(socket'[i].reply, o.urb)
    <3>1. CASE j # 1
      <4> DEFINE i == j - 1
      <4>1. i \in 1..(c - 1) /\ i + 1 = j
        BY <1>1, <3>1
      <4> HIDE DEF i
      <4>2. socket'[i] = socket[j]
        BY <1>1, <4>1
      <4>3. QED
        BY <1>1, <2>3, <4>1, <4>2
    <3>2. CASE j = 1 /\ c > 1
      <4>1. 1 \in DOMAIN socket' /\ Completes(socket'[1].reply, o.urb)
        BY <1>1, <1>4, <2>3, <3>2
      <4>2. QED
        BY <4>1
    <3>3. CASE j = 1 /\ c = 1
      <4>1. 1 \in DOMAIN outgoing /\ Completes(outgoing[1], o.urb) /\ outgoing[1].kind = "submit"
        BY <1>4, <2>3, <3>3 DEF Completes
      <4>2. k # 1
        BY <2>1, <4>1 DEF TellsComplete
      <4>3. 1 \in 1..(k - 1)
        BY <1>2, <4>2
      <4>4. QED
        BY <4>1, <4>3
    <3>4. QED
      BY <1>1, <3>1, <3>2, <3>3
  <2>4. QED
    BY <1>1, <1>3, <2>1, <2>2, <2>3 DEF AheadInQueue
<1>7. QED
  BY <1>5, <1>6

\* Every step keeps the completion ahead.
LEMMA TruthStep ==
  ASSUME Types, SlotsMatchPending, UnitsInOrder, Numbered, Waiting, Unlinks, Once,
         AheadInSocket, AheadInQueue, Effects
  PROVE  AheadInSocket' /\ AheadInQueue'
<1>1. CASE Still \/ \E i \in Slots : Submitted(i)
  <2>1. UNCHANGED <<outgoing, socket, outstanding>>
    BY <1>1 DEF Still, Submitted
  <2>2. QED
    BY <2>1, TruthSame
<1>2. ASSUME NEW n \in 1..ReplyUnits, Writes(n) PROVE AheadInSocket' /\ AheadInQueue'
  BY <1>2, TruthWrites
<1>3. CASE Unlinked
  <2> DEFINE r == NewReply("unlink", wire[1].urb, ~ Cancelled(wire[1].seq))
  <2>1. r \in Reply /\ r.written = 0 /\ outgoing' = Append(outgoing, r) /\ UNCHANGED <<socket, outstanding>>
    BY <1>3, UnlinkedReply DEF Unlinked
  <2>2. r.urb = wire[1].urb /\ (TellsComplete(r) => ~ Cancelled(wire[1].seq))
    BY DEF NewReply, TellsComplete
  <2> HIDE DEF r
  <2>3. TellsComplete(r) => \A o \in outstanding : o.urb = r.urb =>
             \/ \E j \in DOMAIN outgoing : Completes(outgoing[j], o.urb)
             \/ \E j \in DOMAIN socket : Completes(socket[j].reply, o.urb)
    BY <1>3, <2>2, NotCancelledIsCompleted
  <2>4. QED
    BY <2>1, <2>3, TruthAppend
<1>4. ASSUME NEW i \in Slots, NEW ok \in BOOLEAN, Completed(i, ok) PROVE AheadInSocket' /\ AheadInQueue'
  <2> DEFINE r == NewReply("submit", slots[i].urb, ok)
  <2>1. r \in Reply /\ r.written = 0 /\ outgoing' = Append(outgoing, r) /\ UNCHANGED <<socket, outstanding>>
    BY <1>4, CompletedReply DEF Completed
  <2>2. ~ TellsComplete(r)
    BY DEF NewReply, TellsComplete
  <2> HIDE DEF r
  <2>3. QED
    BY <2>1, <2>2, TruthAppend
<1>5. ASSUME KernelSteps, NEW r \in Requests, NEW s \in Seqs, KernelSubmit(r, s) PROVE AheadInSocket' /\ AheadInQueue'
  <2>1. /\ outstanding' = outstanding \cup {[urb |-> urbs + 1, seq |-> s]} /\ urbs \in Nat
        /\ UNCHANGED <<outgoing, socket>>
    BY <1>5, KernelSubmitEffects DEF KernelSubmit
  <2>2. urbs + 1 \notin OnItsWay("unlink")
    BY <2>1 DEF Numbered
  <2>3. \A o \in outstanding' : o \in outstanding \/ o.urb \notin OnItsWay("unlink")
    BY <2>1, <2>2
  <2>4. QED
    BY <2>1, <2>3, TruthSame
<1>6. ASSUME KernelSteps, NEW o \in outstanding, KernelUnlink(o) PROVE AheadInSocket' /\ AheadInQueue'
  <2>1. UNCHANGED <<outgoing, socket, outstanding>>
    BY <1>6 DEF KernelUnlink
  <2>2. QED
    BY <2>1, TruthSame
<1>7. CASE KernelSteps /\ KernelRead
  BY <1>7, TruthRead
<1>8. QED
  BY <1>1, <1>2, <1>3, <1>4, <1>5, <1>6, <1>7 DEF Effects, KernelSteps

\* The inductive invariant of RequestsAnswered.
Answering ==
  /\ Types /\ SlotsMatchPending
  /\ pc # "done" =>
       UnitsInOrder /\ Numbered /\ Waiting /\ Unlinks /\ Once /\ AheadInSocket /\ AheadInQueue

\* It holds at the start.
LEMMA AnsweringInit == Init => Answering
<1> SUFFICES ASSUME Init PROVE Answering
  OBVIOUS
<1>1. Types
  BY TypesInit
<1>2. Live = {} /\ Unsettled = {}
  BY DEF Init, Live, Unsettled
<1>3. SlotsMatchPending
  BY <1>2 DEF Init, SlotsMatchPending
<1>4. UnitsInOrder
  BY DEF Init, UnitsInOrder, HeadWritten
<1>5. OnItsWay("submit") = {} /\ OnItsWay("unlink") = {}
  BY DEF Init, OnItsWay
<1>6. Numbered /\ Waiting /\ Unlinks
  BY <1>2, <1>5 DEF Init, Numbered, Waiting, Unlinks
<1>7. Once
  BY DEF Init, Once
<1>8. AheadInSocket /\ AheadInQueue
  BY DEF Init, AheadInSocket, AheadInQueue
<1>9. QED
  BY <1>1, <1>3, <1>4, <1>6, <1>7, <1>8 DEF Answering

\* Every step keeps it.
LEMMA AnsweringStep ==
  ASSUME Answering, [Next]_vars
  PROVE  Answering'
<1>1. Types' /\ SlotsMatchPending'
  BY TypesStep, MatchStep DEF Answering
<1>2. ASSUME pc' # "done"
      PROVE  (UnitsInOrder /\ Numbered /\ Waiting /\ Unlinks /\ Once /\ AheadInSocket /\ AheadInQueue)'
  <2>1. pc # "done" /\ Effects
    BY <1>2, StepEffects DEF Answering
  <2>2. /\ Types /\ SlotsMatchPending /\ UnitsInOrder /\ Numbered /\ Waiting /\ Unlinks /\ Once
        /\ AheadInSocket /\ AheadInQueue
    BY <2>1 DEF Answering
  <2>3. Freed
    BY <2>1, <2>2, ReadFrees
  <2>4. UnitsInOrder' /\ Numbered' /\ Waiting' /\ Unlinks'
    BY <2>1, <2>2, <2>3, UnitsStep, NumberedStep, WaitingStep, UnlinksStep
  <2>5. Once'
    BY <2>1, <2>2, OnceStep
  <2>6. AheadInSocket' /\ AheadInQueue'
    BY <2>1, <2>2, TruthStep
  <2>7. QED
    BY <2>4, <2>5, <2>6
<1>3. QED
  BY <1>1, <1>2 DEF Answering

\* It implies the three parts of RequestsAnswered.
LEMMA AnsweringSound == Answering => RequestsAnswered
BY OnceIs, TruthIs DEF Answering, RequestsAnswered

\* Each transfer is held once under its ticket, is answered exactly once, by its completion or by the
\* unlink that cancelled it, and is never reported as complete to an unlink before its completion is on
\* its way (Pending, CompletionQueue, receive_one): RequestsAnswered, for every script, with sequence
\* numbers used again.
THEOREM RequestsAreAnswered == Spec => []RequestsAnswered
<1>1. Init => Answering
  BY AnsweringInit
<1>2. Answering /\ [Next]_vars => Answering'
  BY AnsweringStep
<1>3. Answering => RequestsAnswered
  BY AnsweringSound
<1>4. QED
  BY <1>1, <1>2, <1>3, PTL DEF Spec
==============================================================================
