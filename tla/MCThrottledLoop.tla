--------------------------- MODULE MCThrottledLoop ---------------------------
(* Instance of ThrottledLoop for TLC. *)
EXTENDS ThrottledLoop
=============================================================================
