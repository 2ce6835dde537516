---------------------------- MODULE MCIOScheduler ----------------------------
(* Small instances of IOScheduler for TLC.                                 *)
EXTENDS IOScheduler

CONSTANTS s1, s2, g1, t1

MCDiskFull == [needsWork |-> FALSE, countsForFill |-> TRUE, fill |-> 90]
MCDiskEmpty == [needsWork |-> TRUE, countsForFill |-> TRUE, fill |-> 10]

\* All streams are readers of one song.
MCOneSong == [s \in Streams |-> g1]

MCWeight == [t \in Tasks |-> 1]
MCOneFill == {MCDiskFull}
MCOneEmpty == {MCDiskEmpty}
MCTwoFills == {MCDiskFull, MCDiskEmpty}
=============================================================================
