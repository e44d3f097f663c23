------------------------------ MODULE MCDrive ------------------------------
(* Instances of Drive for TLC.                                              *)
EXTENDS Drive

MCBreak == [trapping |-> FALSE, fine |-> FALSE, breakpoints |-> Stmts]
MCDebug == [trapping |-> TRUE, fine |-> TRUE, breakpoints |-> {}]
MCSettings == {MCBreak, MCDebug}
=============================================================================
