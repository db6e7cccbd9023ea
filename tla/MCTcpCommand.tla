---------------------------- MODULE MCTcpCommand ----------------------------
(***************************************************************************)
(* Small instances of TcpCommand: a header of two bytes, and a target      *)
(* command with more payload than the others, both more than recv() need   *)
(* return at once.  A byte of the payload has the value of SYNC.           *)
(***************************************************************************)
EXTENDS TcpCommand

SimpleAndTarget == [t \in {"simple", "target"} |-> IF t = "simple" THEN 2 ELSE 3]

TargetSimple == <<"target", "simple">>

InPayload == {5}
=============================================================================
