--------------------------- MODULE MCShareLinks ----------------------------
(***************************************************************************)
(* ShareLinks for TLC: the values clients send, on both sides of each clamp *)
(* of CreateShare.                                                          *)
(***************************************************************************)
EXTENDS ShareLinks

MCHours == {-1, 5}
MCLimits == {-1, 1, 2}
=============================================================================
