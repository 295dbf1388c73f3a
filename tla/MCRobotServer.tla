--------------------------- MODULE MCRobotServer ---------------------------
(* Small instances of RobotServer for TLC. *)
EXTENDS RobotServer

\* A stand-in for crc16 that tells apart the frames of the instance, and gives
\* a buffer of zeros another crc than the zeros it holds, as crc16 does.
MCCrc(left, right) == (3 * left + 5 * right + 1) % 256

Frame(left, right, check) ==
    [f \in Field |-> CASE f = Left  -> left
                       [] f = Right -> right
                       [] f = Check -> check]

Forward == Frame(7, 7, MCCrc(7, 7))
Turn    == Frame(0, 9, MCCrc(0, 9))
Garbled == Frame(7, 9, 0)

TwoFrames == {Turn, Garbled}
OneFrame  == {Forward}
ShortOrFull == {1, FrameLen}
FullLen   == {FrameLen}
NoLen     == {}
EitherWay == BOOLEAN
Fails     == {FALSE}
=============================================================================
