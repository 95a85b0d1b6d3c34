-------------------------- MODULE ControllerFacade --------------------------
(***************************************************************************)
(* The decisions of the application facade (src/application.rs,            *)
(* src/controllers.rs, src/output.rs): which creation options are          *)
(* admitted, what a creation function does for its family, and how one     *)
(* Controller<F> couples a provider session with its required audio.       *)
(* The two audio realizations, PipeWireAudio and UsbAudio, take their      *)
(* steps from these operators.  An error is the set of causes its text     *)
(* names; {} is "no error".                                                *)
(***************************************************************************)
EXTENDS Naturals, FiniteSets

CONSTANT Features   \* cargo features of the build

Families == {"dualsense", "dualshock4", "switch_pro", "xbox360"}
Accesses == {"samples", "native"}
Targets  == {"uhid", "uinput", "usbip", "dummy_hcd"}

\* CreationOptions with its AudioOptions.
Options == [target : Targets, exposure : {"disabled", "emulated"},
            playback : Accesses, microphone : Accesses]

NativeClient(o) == "native" \in {o.playback, o.microphone}

\* CreationOptions::validate, before identity entropy or provider I/O.
Validate(o) ==
    IF o.target = "usbip"
    THEN /\ o.exposure = "emulated"
         /\ "audio-usbip" \in Features
         /\ NativeClient(o) => "audio-pipewire" \in Features
    ELSE /\ o.exposure # "disabled" => /\ o.target = "uhid"
                                       /\ "audio-pipewire" \in Features
         /\ o.target = "dummy_hcd" => "experimental" \in Features

\* The first token of next_creation, and its successor; 0 is "exhausted".
NextCreation(n, last) == IF n = last THEN 0 ELSE n + 1

\* What a creation function does: whether it admits the options, whether it
\* draws an identity first, and whether the handle keeps that identity.
Plan(admits, entropy, keeps) == [admits |-> admits, entropy |-> entropy, keeps |-> keeps]
Persistent(o) == o.target \in {"uhid", "usbip"}

CreateDualSense(o)  == Plan(Validate(o), Persistent(o), Persistent(o))
CreateDualShock4(o) == Plan(Validate(o), Persistent(o), Persistent(o))
CreateSwitchPro(o)  == Plan(o.exposure = "disabled" /\ Validate(o), FALSE, FALSE)
CreateXbox360(o)    == Plan(Validate(o), o.target = "usbip", FALSE)
Creation(f, o) ==
    CASE f = "dualsense"  -> CreateDualSense(o)
      [] f = "dualshock4" -> CreateDualShock4(o)
      [] f = "switch_pro" -> CreateSwitchPro(o)
      [] f = "xbox360"    -> CreateXbox360(o)

\* merge_errors: the first failure and every later one.
MergeErrors(primary, cleanup) == primary \cup cleanup

\* What the callback of Family::service makes of a curated event: an
\* observation, nothing, or the refusal of a request that escaped its owner.
Convert(event) ==
    CASE event \in {"lifecycle", "force_feedback", "output"}     -> "observed"
      [] event \in {"get_report", "set_report", "host_request"} -> "leaked"
      [] OTHER                                                   -> "ignored"

\* reap_audio_failure: what must be closed before anything else is done.
Reap(hasAudio, failed, provider) ==
    CASE ~hasAudio                         -> "none"
      [] hasAudio /\ failed                -> "both"
      [] hasAudio /\ ~failed /\ provider \in {"closed", "failed"} -> "audio"
      [] OTHER                             -> "none"

\* ControllerAudio::next_service_in, ordered: 0 now, 1 the 10 ms tick, 2 none.
AudioDeadline(failed, error, closed) ==
    CASE failed /\ error = {}                   -> 0
      [] ~(failed /\ error = {}) /\ closed      -> 2
      [] OTHER                                  -> 1

\* combined_deadline: the earlier of the two.
CombinedDeadline(hid, audio) == IF hid < audio THEN hid ELSE audio

\* ControllerDiagnostics::from_provider with with_audio_error.
Status(provider, audioError) == IF audioError # {} THEN "failed" ELSE provider
=============================================================================
