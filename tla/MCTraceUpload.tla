---------------------------- MODULE MCTraceUpload ----------------------------
(***************************************************************************)
(* Logs of a few bytes for TraceUpload: the first attempt prints the       *)
(* two-byte secret, the second one prints something else.                  *)
(***************************************************************************)
EXTENDS TraceUpload

OneAttempt == << <<1, 2, 3, 4>> >>
TwoAttempts == << <<1, 2, 3, 2>>, <<3, 2, 3>> >>
TwoBytes == <<2, 3>>
=============================================================================
