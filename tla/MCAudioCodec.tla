---------------------------- MODULE MCAudioCodec ----------------------------
(***************************************************************************)
(* Instances of AudioCodec: the speaker and the microphone are connected;   *)
(* the user switches the playback path, and a path from the microphone      *)
(* straight to the speaker, which needs VMID without any stream.            *)
(***************************************************************************)
EXTENDS AudioCodec

MCToggled == {"DAC to Speak", "IN1 to Speak"}
MCPreset == {"DAC to Speak", "Speak to N", "Speak to P", "IN1 to PGA"}
=============================================================================
