------------------------------- MODULE MCI2C -------------------------------
(* Small instances of I2CController and OneShotController.  The two        *)
(* addresses differ in the first bit and the last.                         *)
EXTENDS OneShotController

MCAddrs    == {ByteOf(107), ByteOf(234)}
MCValues   == {ByteOf(0), ByteOf(166)}
\* What the switches of the board ask to be written is never Wake_Up.
MCSwitches == {ByteOf(17), ByteOf(166)}
=============================================================================
