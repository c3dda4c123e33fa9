---------------------------- MODULE MCMeetRecorder ----------------------------
(* Small instances of MeetRecorder for TLC.                                 *)
EXTENDS MeetRecorder
=============================================================================
