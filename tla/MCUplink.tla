------------------------------ MODULE MCUplink ------------------------------
(***************************************************************************)
(* Small instances of Uplink.  The body of a packet begins with two bytes  *)
(* that look like the sync bytes, and has a third that looks like the      *)
(* first of them, before the sync bytes of the next packet.                *)
(***************************************************************************)
EXTENDS Uplink

BodySync1 == {3, 5}
BodySync2 == {4}
=============================================================================
