--------------------------- MODULE MCConfigReload ---------------------------
(***************************************************************************)
(* ConfigReload for TLC: one configuration replaced by another.  A channel   *)
(* of two versions is the smallest one in which a version can be put back    *)
(* next to another one; the code's channels hold ten.                        *)
(***************************************************************************)
EXTENDS ConfigReload
=============================================================================
