----------------------- MODULE MCVoiceConversation -----------------------
(* A small instance of VoiceConversation for TLC. *)
EXTENDS VoiceConversation
=============================================================================
