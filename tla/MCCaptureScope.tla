--------------------------- MODULE MCCaptureScope ---------------------------
(* TLC instances of CaptureScope.                                          *)
EXTENDS CaptureScope

BodyAndStop == {"body", "stop_capture"}
NoPlace == {}
OnlyTerminate == {"terminate"}
=============================================================================
