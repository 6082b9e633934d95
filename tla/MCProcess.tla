----------------------------- MODULE MCProcess -----------------------------
(* Instances of Process for TLC.                                           *)
EXTENDS Process

CONSTANTS p0, p1, p2, p3

(* The kernel's own exit code and one of the program's.                    *)
MCExitCodes == {-1, 0}
=============================================================================
