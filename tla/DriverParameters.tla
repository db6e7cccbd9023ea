-------------------------- MODULE DriverParameters --------------------------
(***************************************************************************)
(* Parameters of the lidar driver, shared by its parts and by the module   *)
(* that composes them.                                                     *)
(***************************************************************************)
EXTENDS Integers

CONSTANTS
  \* the scan holder
  Cap,         \* _scan_node_buffer_size
  MaxSamples,  \* bound: samples the decoder pushes
  NoScan,      \* nothing was grabbed yet
  \* requests
  Types,       \* response types
  NoType,      \* _waiting_packet_type before the first request, 0
  NoAnswer,    \* no answer yet
  MaxRequests, \* bound: requests made
  \* both
  Spurious     \* whether an event's condition variable may wake for nothing

ASSUME HolderAssumption ==
  Cap \in Nat \ {0, 1} /\ MaxSamples \in Nat /\ Spurious \in BOOLEAN

ASSUME CommandAssumption ==
  NoType \notin Types /\ MaxRequests \in Nat /\ Spurious \in BOOLEAN
=============================================================================
