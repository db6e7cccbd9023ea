------------------------- MODULE MCDriverOperations -------------------------
(***************************************************************************)
(* A small instance of DriverOperations: a serial port and a network       *)
(* channel with lidars of different generations at their ends.             *)
(***************************************************************************)
EXTENDS DriverOperations, TLC

CONSTANTS usb, net

Made(major, hardware, firmware, pwm, d) ==
  [major |-> major, minor |-> 2, hardware |-> hardware, firmware |-> firmware,
   pwm |-> pwm, typical |-> 1, duration |-> d]

\* very old, old with the accessory board, C series, S series
A1 == Made(1, 5, 270, FALSE, [m \in 0 .. 1 |-> 476])
A2 == Made(2, 6, 275, TRUE, 0 :> 500 @@ 1 :> 250)
C1 == Made(4, 1, 300, FALSE, 0 :> 200 @@ 1 :> 100)
S3 == Made(8, 1, 300, FALSE, 0 :> 60 @@ 1 :> 31)

Pairs == {usb :> A1 @@ net :> S3, usb :> C1 @@ net :> A2}
=============================================================================
