-------------------------- MODULE MCVoiceDownload --------------------------
(* Small instances of VoiceDownload for TLC.                               *)
EXTENDS VoiceDownload
============================================================================
