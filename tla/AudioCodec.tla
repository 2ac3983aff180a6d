----------------------------- MODULE AudioCodec -----------------------------
(***************************************************************************)
(* The driver of the WM8944 audio codec.  ASoC calls it: operations of the  *)
(* PCM streams, and events of the widgets that DAPM powers up and down, one *)
(* DAPM run at a time.  What runs beside all of these is the work that      *)
(* trigger schedules when playback stops: it switches the output off, holds *)
(* no lock, and neither waits for the streams nor is waited for.            *)
(*                                                                          *)
(* A register field is a field of `reg`; the registers that are built from  *)
(* masks (interface, companding, sample rate) are the set of their 1 bits.  *)
(* A handler that sleeps is two steps.                                      *)
(***************************************************************************)
EXTENDS AudioPaths

CONSTANTS
    Volumes,        \* levels of a volume control
    Rates, Widths,  \* sample rates and widths the streams are set up with
    Toggled,        \* the switches the user operates
    Preset,         \* the switches that are on at first
    RawControls,    \* does the user operate controls of bits that set_dai_fmt
                    \* and hw_params write?
    MaxOps          \* bound: parameters set, controls changed, suspends

\* The low bits of ADDCNTRL for a rate, bits of IFACE and COMPANDINGCTL for a
\* width, and bits of IFACE for the frame format of the board (I2S).
RateBits == [r8000 |-> {0, 1}, r11025 |-> {2}, r12000 |-> {0, 2}, r16000 |-> {0, 1, 2},
             r22050 |-> {3}, r24000 |-> {0, 3}, r32000 |-> {0, 1, 3}, r44100 |-> {2, 3},
             r48000 |-> {0, 2, 3}]
WidthBits == [S8 |-> {}, S16 |-> {}, S20 |-> {2}, S24 |-> {3}, S32 |-> {2, 3}]
CompandingBits(width) == IF width = "S8" THEN {1, 3} ELSE {}
FormatBits == {1}

ASSUME ParametersAssumption ==
    /\ Volumes \subseteq Nat /\ 0 \in Volumes
    /\ Rates \subseteq DOMAIN RateBits
    /\ Widths \subseteq DOMAIN WidthBits
    /\ Toggled \subseteq Switches /\ Preset \subseteq Switches
    /\ RawControls \in BOOLEAN

ASSUME BoundsAssumption == MaxOps \in Nat

VARIABLES
    reg,        \* the fields of the codec's registers
    saved,      \* orig_mute_dac_reg and orig_spk_vol of wm8944_unmute, once known
    held,       \* the capture gain that wm8944_unmute has read, while it sleeps
    refcount,   \* vmid_refcount
    pm,         \* pm_runtime_get less pm_runtime_put
    on,         \* the switches that are on
    play, capt, \* the streams
    rate,       \* the rate of each open stream
    width,      \* the width of the hw_params before, whichever stream
    dapm,       \* the DAPM run: where it is and what is to be powered
    lit,        \* the powered widgets among VMID and DAC
    pending,    \* the power-off work is queued
    work,       \* the next write of the power-off work, 0 when it does not run
    kept,       \* the capture gain that the work has read, until it writes it
    sleep,      \* is the system going to be, or being, suspended
    cut,        \* history: the work has switched off since vmid_prepare
    clean,      \* history: wm8944_unmute has finished without the work about,
                \* and nothing has been asked to be muted since
    ops

chip == <<reg, saved, held, refcount, pm>>
pcm == <<play, capt, rate, width>>
power == <<dapm, lit>>
wq == <<pending, work, kept>>
history == <<cut, clean>>
vars == <<chip, on, pcm, power, wq, sleep, history, ops>>

Streams == {"Playback", "Capture"}
NoRate == "none"
Unknown == [known |-> FALSE, dac |-> 0, spk |-> 0]
Selections == {"off", "2x5K", "2x50K", "2x250K"}
Registers ==
    [op : BOOLEAN, vdd : BOOLEAN, vmid : BOOLEAN, bias : BOOLEAN, fast : BOOLEAN,
     opMute : BOOLEAN, pgaMute : BOOLEAN, dacMute : BOOLEAN, adcMute : BOOLEAN,
     inMute : BOOLEAN, lineMute : BOOLEAN, sel : Selections,
     dacVol : Volumes, spkVol : Volumes, inVol : Volumes,
     rate : SUBSET (0..3), iface : SUBSET (0..5), companding : SUBSET (0..5)]

TypeOK ==
    /\ reg \in Registers
    /\ saved \in [known : BOOLEAN, dac : Volumes, spk : Volumes]
    /\ held \in Volumes
    /\ refcount \in Int /\ pm \in Int
    /\ on \subseteq Switches
    /\ play \in {"closed", "opened", "setup", "starting", "prepared", "running", "paused", "stopped"}
    /\ capt \in {"closed", "opened", "setup", "starting", "ready"}
    /\ rate \in [Streams -> DOMAIN RateBits \cup {NoRate}]
    /\ width \in DOMAIN WidthBits
    /\ dapm \in [at : {"idle", "down", "prepare", "vmid", "reference", "settle", "dac", "unmute"},
                 goal : SUBSET {"VMID", "DAC"}]
    /\ lit \subseteq {"VMID", "DAC"}
    /\ pending \in BOOLEAN
    /\ work \in 0..11 /\ kept \in Volumes
    /\ sleep \in {"no", "going", "yes", "waking"}
    /\ cut \in BOOLEAN /\ clean \in BOOLEAN
    /\ ops \in 0..MaxOps

\* The state wm8944_codec_probe leaves: one pm_runtime reference, bias off.
Init ==
    /\ \E muted \in BOOLEAN, v \in Volumes :
         reg = [op |-> FALSE, vdd |-> FALSE, vmid |-> FALSE, bias |-> FALSE, fast |-> FALSE,
                opMute |-> muted, pgaMute |-> muted, dacMute |-> muted, adcMute |-> muted,
                inMute |-> muted, lineMute |-> FALSE, sel |-> "2x250K",
                dacVol |-> v, spkVol |-> v, inVol |-> v,
                rate |-> {}, iface |-> {}, companding |-> {}]
    /\ saved = Unknown /\ held = 0
    /\ refcount = 0 /\ pm = 1
    /\ on = Preset
    /\ play = "closed" /\ capt = "closed"
    /\ rate = [s \in Streams |-> NoRate] /\ width = "S16"
    /\ dapm = [at |-> "idle", goal |-> {}] /\ lit = {}
    /\ pending = FALSE /\ work = 0 /\ kept = 0
    /\ sleep = "no" /\ cut = TRUE /\ clean = FALSE /\ ops = 0

\* User space runs.
Awake == sleep = "no"

Op == ops < MaxOps /\ ops' = ops + 1

\* The streams DAPM has been told of.
Active(p, c) ==
    (IF p \notin {"closed", "opened", "setup"} THEN {"Playback"} ELSE {})
        \cup (IF c \notin {"closed", "opened", "setup"} THEN {"Capture"} ELSE {})

\* DAPM is free, and starts a run for these switches and streams.
Repower(switches, p, c) ==
    /\ dapm.at = "idle" /\ Awake
    /\ dapm' = [at |-> "down", goal |-> Wants(switches, Active(p, c))]

Goto(step) == dapm' = [dapm EXCEPT !.at = step]

(***************************************************************************)
(* Events of the widgets, in the order of a DAPM run                        *)
(***************************************************************************)

\* A plausible bug: a reference to the device that is not given back.
VmidDereferenceOnly == refcount' = refcount - 1 /\ pm' = pm

\* It leaves VMID itself on.
VmidDereference == refcount' = refcount - 1 /\ pm' = pm - 1

\* PRE_PMD of VMID.
PowerDown ==
    /\ dapm.at = "down"
    /\ lit' = lit \cap dapm.goal
    /\ IF "VMID" \in lit \ dapm.goal
       THEN VmidDereference
       ELSE UNCHANGED <<refcount, pm>>
    /\ Goto("prepare")
    /\ UNCHANGED <<reg, saved, held, on, pcm, wq, sleep, history, ops>>

\* A plausible bug: the speaker drivers get no power.
PreparedUnpowered == [reg EXCEPT !.op = TRUE, !.fast = TRUE, !.bias = TRUE, !.sel = "2x5K"]

\* The registers after vmid_prepare, up to its sleep.
Prepared == [reg EXCEPT !.op = TRUE, !.vdd = TRUE, !.fast = TRUE, !.bias = TRUE, !.sel = "2x5K"]

\* PRE_PMU of VMID.
VmidPrepare ==
    /\ dapm.at = "prepare"
    /\ IF "VMID" \notin dapm.goal \ lit
       THEN Goto("dac") /\ UNCHANGED <<reg, cut>>
       ELSE IF refcount # 0
       THEN Goto("reference") /\ UNCHANGED <<reg, cut>>
       ELSE Goto("vmid") /\ reg' = Prepared /\ cut' = FALSE
    /\ UNCHANGED <<saved, held, refcount, pm, on, pcm, lit, wq, sleep, clean, ops>>

VmidEnable ==
    /\ dapm.at = "vmid"
    /\ reg' = [reg EXCEPT !.vmid = TRUE]
    /\ Goto("reference")
    /\ UNCHANGED <<saved, held, refcount, pm, on, pcm, lit, wq, sleep, history, ops>>

\* POST_PMU of VMID: the reference is counted, then 50 or 100 ms pass.
VmidReference ==
    /\ dapm.at = "reference"
    /\ refcount' = refcount + 1 /\ pm' = pm + 1
    /\ Goto("settle")
    /\ UNCHANGED <<reg, saved, held, on, pcm, lit, wq, sleep, history, ops>>

VmidSettle ==
    /\ dapm.at = "settle"
    /\ reg' = IF refcount = 1 THEN [reg EXCEPT !.fast = FALSE, !.sel = "2x50K"] ELSE reg
    /\ lit' = lit \cup {"VMID"}
    /\ Goto("dac")
    /\ UNCHANGED <<saved, held, refcount, pm, on, pcm, wq, sleep, history, ops>>

\* PRE_PMU of the DAC is wm8944_unmute.  What it restores at last it has read
\* here: the output volumes when it is called for the first time, the capture
\* gain each time.
Unmute ==
    /\ dapm.at = "dac"
    /\ IF "DAC" \notin dapm.goal \ lit
       THEN Goto("idle") /\ UNCHANGED <<reg, saved, held, clean>>
       ELSE /\ saved' = IF saved.known THEN saved
                        ELSE [known |-> TRUE, dac |-> reg.dacVol, spk |-> reg.spkVol]
            /\ held' = reg.inVol
            /\ reg' = [reg EXCEPT !.dacMute = TRUE, !.dacVol = 0, !.pgaMute = FALSE,
                                  !.spkVol = 0, !.opMute = FALSE]
            /\ clean' = FALSE
            /\ Goto("unmute")
    /\ UNCHANGED <<refcount, pm, on, pcm, lit, wq, sleep, cut, ops>>

\* After 10 ms.
UnmuteRest ==
    /\ dapm.at = "unmute"
    /\ reg' = [reg EXCEPT !.adcMute = FALSE, !.inMute = FALSE, !.inVol = held,
                          !.spkVol = saved.spk, !.dacMute = FALSE, !.dacVol = saved.dac]
    /\ lit' = lit \cup {"DAC"}
    /\ clean' = (~pending /\ work = 0 /\ ~cut)
    /\ Goto("idle")
    /\ UNCHANGED <<saved, held, refcount, pm, on, pcm, wq, sleep, cut, ops>>

DapmRun == PowerDown \/ VmidPrepare \/ VmidEnable \/ VmidReference \/ VmidSettle
           \/ Unmute \/ UnmuteRest

(***************************************************************************)
(* The power-off work                                                       *)
(***************************************************************************)

\* The writes of power_off_mute_seq after the ramp, and the rest of power_off_seq,
\* in their order: the registers after each.
MuteSeq ==
    <<[reg EXCEPT !.dacMute = TRUE, !.dacVol = 0],
      [reg EXCEPT !.adcMute = TRUE],
      [reg EXCEPT !.inMute = TRUE, !.inVol = kept],
      [reg EXCEPT !.pgaMute = TRUE, !.spkVol = 0]>>

\* A plausible bug: the power of the speaker drivers stays on.
OffSeqLive ==
    <<[reg EXCEPT !.sel = "2x5K"], [reg EXCEPT !.fast = TRUE], [reg EXCEPT !.vmid = FALSE],
      [reg EXCEPT !.opMute = TRUE], [reg EXCEPT !.lineMute = TRUE], reg,
      [reg EXCEPT !.op = FALSE]>>

OffSeq ==
    <<[reg EXCEPT !.sel = "2x5K"], [reg EXCEPT !.fast = TRUE], [reg EXCEPT !.vmid = FALSE],
      [reg EXCEPT !.opMute = TRUE], [reg EXCEPT !.lineMute = TRUE],
      [reg EXCEPT !.vdd = FALSE], [reg EXCEPT !.op = FALSE]>>

\* It reads the capture gain, and lowers a loud speaker volume little by little.
WorkStart ==
    /\ pending /\ work = 0
    /\ pending' = FALSE /\ work' = 1 /\ kept' = reg.inVol
    /\ \E v \in {w \in Volumes : w <= reg.spkVol} : reg' = [reg EXCEPT !.spkVol = v]
    /\ UNCHANGED <<saved, held, refcount, pm, on, pcm, power, sleep, history, ops>>

\* Each write is a step: the work has no lock that would hold off the others.
WorkMute ==
    /\ work \in 1..4 /\ work' = work + 1
    /\ reg' = MuteSeq[work]
    /\ kept' = IF work < 3 THEN kept ELSE 0
    /\ UNCHANGED <<saved, held, refcount, pm, on, pcm, power, pending, sleep, history, ops>>

WorkOff ==
    /\ work \in 5..11 /\ work' = IF work = 11 THEN 0 ELSE work + 1
    /\ reg' = OffSeq[work - 4]
    /\ cut' = TRUE
    /\ UNCHANGED <<saved, held, refcount, pm, on, pcm, power, pending, kept, sleep, clean, ops>>

Work == WorkStart \/ WorkMute \/ WorkOff

(***************************************************************************)
(* Operations of the PCM streams                                            *)
(***************************************************************************)

\* A plausible bug: the mask does not keep the width.
IfaceAfterFmtWide(bits) == (bits \ {0, 1, 2, 4, 5}) \cup {2} \cup FormatBits

\* The bits that set_dai_fmt and hw_params leave of what they read.
RateKept(bits) == {}
IfaceAfterFmt(bits) == (bits \ {0, 1, 4, 5}) \cup FormatBits
IfaceAfterParams(bits, w) == (bits \ {2, 3}) \cup WidthBits[w]
CompandingAfter(bits, w) == (bits \ {5}) \cup CompandingBits(w)

\* Operations of the streams take turns (pcm_mutex).
PcmFree == Awake /\ play # "starting" /\ capt # "starting"

\* startup of a stream: the machine driver calls set_dai_fmt.
Startup == reg' = [reg EXCEPT !.iface = IfaceAfterFmt(@)]

OpenPlay ==
    /\ PcmFree /\ play = "closed" /\ play' = "opened" /\ Startup
    /\ UNCHANGED <<saved, held, refcount, pm, on, capt, rate, width, power, wq, sleep, history, ops>>

OpenCapt ==
    /\ PcmFree /\ capt = "closed" /\ capt' = "opened" /\ Startup
    /\ UNCHANGED <<saved, held, refcount, pm, on, play, rate, width, power, wq, sleep, history, ops>>

\* hw_params of a stream: wm8944_i2s_hw_params.  ASoC sees to it that both
\* streams have the same rate (symmetric_rates).
HwParams(s, r, w) ==
    /\ Op
    /\ \A t \in Streams \ {s} : rate[t] \in {NoRate, r}
    /\ rate' = [rate EXCEPT ![s] = r]
    /\ width' = w
    /\ reg' = [reg EXCEPT !.rate = RateKept(@) \cup RateBits[r],
                          !.iface = IfaceAfterParams(@, w),
                          !.companding = CompandingAfter(@, w)]

SetupPlay(r, w) ==
    /\ PcmFree /\ play \in {"opened", "setup"} /\ play' = "setup"
    /\ HwParams("Playback", r, w)
    /\ UNCHANGED <<saved, held, refcount, pm, on, capt, power, wq, sleep, history>>

SetupCapt(r, w) ==
    /\ PcmFree /\ capt \in {"opened", "setup"} /\ capt' = "setup"
    /\ HwParams("Capture", r, w)
    /\ UNCHANGED <<saved, held, refcount, pm, on, play, power, wq, sleep, history>>

\* wm8944_mute: the microphone goes with the playback.
Muted == [reg EXCEPT !.dacMute = TRUE, !.adcMute = TRUE, !.inMute = TRUE]
Unmuted == [reg EXCEPT !.dacMute = FALSE, !.adcMute = FALSE, !.inMute = FALSE]

\* prepare: the DAPM run, and when it is over wm8944_mute(0).  Also to start
\* again after a stop or an underrun; the widgets are powered then.
PreparePlay ==
    /\ PcmFree /\ play \in {"setup", "prepared", "stopped"} /\ play' = "starting"
    /\ Repower(on, play', capt)
    /\ UNCHANGED <<chip, on, capt, rate, width, lit, wq, sleep, history, ops>>

PlayReady ==
    /\ play = "starting" /\ dapm.at = "idle" /\ play' = "prepared"
    /\ reg' = Unmuted
    /\ UNCHANGED <<saved, held, refcount, pm, on, capt, rate, width, power, wq, sleep, history, ops>>

PrepareCapt ==
    /\ PcmFree /\ capt = "setup" /\ capt' = "starting"
    /\ Repower(on, play, capt')
    /\ UNCHANGED <<chip, on, play, rate, width, lit, wq, sleep, history, ops>>

CaptReady ==
    /\ capt = "starting" /\ dapm.at = "idle" /\ capt' = "ready"
    /\ UNCHANGED <<chip, on, play, rate, width, power, wq, sleep, history, ops>>

\* wm8944_trigger.  Only stopping does something: the work is queued, once.
Start ==
    /\ Awake
    /\ play \in {"prepared", "paused"} /\ play' = "running"
    /\ UNCHANGED <<chip, on, capt, rate, width, power, wq, sleep, history, ops>>

Stop(p) ==
    /\ Awake
    /\ play \in {"running", "paused"} \ {p} /\ play' = p
    /\ pending' = TRUE /\ clean' = FALSE
    /\ UNCHANGED <<chip, on, capt, rate, width, power, work, kept, sleep, cut, ops>>

\* hw_free of what was set up is wm8944_mute(1), and close a DAPM run without the stream.
ClosePlay ==
    /\ PcmFree /\ play \in {"opened", "setup", "prepared", "stopped"} /\ play' = "closed"
    /\ rate' = [rate EXCEPT !["Playback"] = NoRate]
    /\ reg' = IF play = "opened" THEN reg ELSE Muted
    /\ clean' = FALSE
    /\ Repower(on, play', capt)
    /\ UNCHANGED <<saved, held, refcount, pm, on, capt, width, lit, wq, sleep, cut, ops>>

CloseCapt ==
    /\ PcmFree /\ capt \in {"opened", "setup", "ready"} /\ capt' = "closed"
    /\ rate' = [rate EXCEPT !["Capture"] = NoRate]
    /\ Repower(on, play, capt')
    /\ UNCHANGED <<chip, on, play, width, lit, wq, sleep, history, ops>>

(***************************************************************************)
(* Controls, suspend and resume                                             *)
(***************************************************************************)

Toggle(s) ==
    /\ Op
    /\ on' = IF s \in on THEN on \ {s} ELSE on \cup {s}
    /\ Repower(on', play, capt)
    /\ UNCHANGED <<chip, pcm, lit, wq, sleep, history>>

\* Controls that are not in a route write their field when they please.  The
\* ones that mute or switch what the driver drives itself are left alone.
Control ==
    /\ Op /\ Awake
    /\ \/ \E v \in Volumes, f \in {"dacVol", "spkVol", "inVol"} : reg' = [reg EXCEPT ![f] = v]
       \/ \E f \in {"adcMute", "inMute"} : reg' = [reg EXCEPT ![f] = FALSE]
       \/ RawControls /\ \E bits \in SUBSET {0} :
            reg' = [reg EXCEPT !.rate = (@ \ {0}) \cup bits]
       \/ RawControls /\ \E field \in {{0, 1}, {2, 3}} : \E bits \in SUBSET field :
            reg' = [reg EXCEPT !.iface = (@ \ field) \cup bits]
       \/ RawControls /\ \E field \in {{1, 2}, {3, 4}} : \E bits \in SUBSET field :
            reg' = [reg EXCEPT !.companding = (@ \ field) \cup bits]
    /\ UNCHANGED <<saved, held, refcount, pm, on, pcm, power, wq, sleep, history>>

\* ASoC mutes, stops and powers down what is in use (trigger with SUSPEND) ...
Suspend ==
    /\ Op /\ PcmFree /\ dapm.at = "idle"
    /\ sleep' = "going"
    /\ IF play # "closed" THEN reg' = Muted /\ clean' = FALSE ELSE UNCHANGED <<reg, clean>>
    /\ IF play = "running" THEN play' = "stopped" /\ pending' = TRUE
                           ELSE UNCHANGED <<play, pending>>
    /\ dapm' = [at |-> "down", goal |-> {}]
    /\ UNCHANGED <<saved, held, refcount, pm, on, capt, rate, width, lit, work, kept, cut>>

\* ... then calls wm8944_codec_suspend, which sets the bias level OFF.
CodecSuspend ==
    /\ sleep = "going" /\ dapm.at = "idle" /\ sleep' = "yes"
    /\ reg' = [reg EXCEPT !.bias = FALSE, !.sel = "off"]
    /\ UNCHANGED <<saved, held, refcount, pm, on, pcm, power, wq, history, ops>>

\* wm8944_codec_resume sets it STANDBY, DAPM powers up what is in use ...
Resume ==
    /\ sleep = "yes" /\ sleep' = "waking"
    /\ reg' = [reg EXCEPT !.sel = "2x250K"]
    /\ dapm' = [at |-> "down", goal |-> Wants(on, Active(play, capt))]
    /\ UNCHANGED <<saved, held, refcount, pm, on, pcm, lit, wq, history, ops>>

\* ... and an open playback is no longer muted.
Resumed ==
    /\ sleep = "waking" /\ dapm.at = "idle" /\ sleep' = "no"
    /\ reg' = IF play # "closed" THEN Unmuted ELSE reg
    /\ UNCHANGED <<saved, held, refcount, pm, on, pcm, power, wq, history, ops>>

Pcm ==
    \/ OpenPlay \/ OpenCapt \/ (\E r \in Rates, w \in Widths : SetupPlay(r, w) \/ SetupCapt(r, w))
    \/ PreparePlay \/ PlayReady \/ PrepareCapt \/ CaptReady
    \/ Start \/ Stop("stopped") \/ Stop("paused") \/ ClosePlay \/ CloseCapt

Next ==
    \/ DapmRun \/ Work \/ Pcm
    \/ (\E s \in Toggled : Toggle(s)) \/ Control
    \/ Suspend \/ CodecSuspend \/ Resume \/ Resumed

Spec == Init /\ [][Next]_vars

\* A worker of the kernel takes up queued work and carries on with it.
FairSpec == Spec /\ WF_vars(Work)

(***************************************************************************)
(* Properties                                                               *)
(***************************************************************************)

\* Playback that was powered up without the work of an earlier stop in between
\* can be heard, and that lasts until somebody asks for silence: whatever the
\* other stream, the switches, or the volumes do, nothing mutes it, and VMID and
\* the speaker drivers stay on (wm8944_unmute, vmid_prepare, vmid_dereference).
Heard ==
    play = "running" /\ clean =>
        /\ reg.op /\ reg.vdd /\ reg.vmid
        /\ ~reg.opMute /\ ~reg.pgaMute /\ ~reg.dacMute

\* As long as a stream is open, the interface has its rate and the frame format,
\* and the word width of the last hw_params: two functions rebuild one register
\* from a mask, and those of the other stream come in between.
WireFormat ==
    \A s \in Streams : rate[s] # NoRate =>
        /\ reg.rate = RateBits[rate[s]]
        /\ reg.iface = FormatBits \cup WidthBits[width]

\* The counts of vmid_reference and vmid_dereference agree with what DAPM has
\* powered, so that the first power-up after a power-down prepares VMID again.
RefsMatch ==
    /\ refcount = IF "VMID" \in lit \/ dapm.at = "settle" THEN 1 ELSE 0
    /\ pm = refcount + 1

\* Stopped playback is switched off: the queued work is not lost, and at the end of
\* its writes, whatever came in between them, nothing is left on.  Only a DAPM run
\* that powers the playback up again takes it back, or one that powers up VMID
\* (for capture, or for a switch) right in the middle of the work; and a system
\* that sleeps first leaves the work to its next morning.
Quiet == reg.opMute /\ reg.pgaMute /\ ~reg.op /\ ~reg.vdd /\ ~reg.vmid
PoweringUp ==
    /\ dapm.at # "idle"
    /\ "DAC" \in dapm.goal \ lit \/ ("VMID" \in dapm.goal \ lit /\ work # 0)
StopsQuiet == pending ~> (Quiet \/ PoweringUp \/ sleep = "yes")
=============================================================================
