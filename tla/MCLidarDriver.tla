--------------------------- MODULE MCLidarDriver ---------------------------
(***************************************************************************)
(* A small instance of LidarDriver: two types of answers, buffers of two   *)
(* samples.                                                                *)
(***************************************************************************)
EXTENDS LidarDriver

CONSTANTS DEVINFO, CONF

TwoTypes == {DEVINFO, CONF}
=============================================================================
