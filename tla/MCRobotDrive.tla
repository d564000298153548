---------------------------- MODULE MCRobotDrive ----------------------------
(* The instance of RobotDrive on which TLC is run: the operator alone, with *)
(* keys that add up, cancel each other out and move the camera; and all     *)
(* three that drive, with the person ahead, to the left: no key asks for    *)
(* both at once.                                                            *)
EXTENDS RobotDrive

MCDrivers ==
  {[keys |-> {"W", "Up", "S", "J"}, robotKeys |-> {}, targets |-> {}],
   [keys |-> {"S"}, robotKeys |-> {"W"}, targets |-> {<<1, 1>>}]}
=============================================================================
