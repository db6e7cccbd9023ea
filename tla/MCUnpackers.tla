---------------------------- MODULE MCUnpackers ----------------------------
(***************************************************************************)
(* Two scans with a handler that pairs capsules, one with each that does   *)
(* not.                                                                    *)
(***************************************************************************)
EXTENDS Unpackers

Scans ==
  {<<CapsuleNode, CapsuleNode>>, <<DenseCapsuleNode, DenseCapsuleNode>>,
   <<NormalNode>>, <<HQNode>>}
=============================================================================
