--------------------------- MODULE MCUsbipWorker ---------------------------
(* Finite instances of UsbipWorker.                                        *)
EXTENDS UsbipWorker, TLC

Req(s, p, o) == [stream |-> s, packets |-> p, op |-> o]
Ctl(o) == Req("control", 0, o)

\* Answering: transfers that are due at once and transfers that are due later.
AnswerScript == LET any == {Ctl("hid"), Req("input", 0, "none")} IN <<any, any, any>>

\* Streaming: one direction of audio is enabled, then every endpoint is used
\* and the interfaces may be disabled under queued transfers.
StreamScript ==
  LET mic == {Req("mic", 2, "none"), Ctl("micOff")}
      play == {Req("play", 1, "none"), Ctl("playOff")}
      other == {Ctl("deconfigure"), Req("output", 0, "none"), Req("input", 0, "none")}
  IN <<{Ctl("configure")}, {Ctl("micOn"), Ctl("playOn")}, {Req("mic", 2, "none"), Req("play", 2, "none")},
       mic \cup play \cup other>>

\* A transfer queued for longer than the deadline of its request.
TimeoutScript == <<{Req("input", 0, "none")}>>

SeqSymmetry == Permutations(Seqs)
=============================================================================
