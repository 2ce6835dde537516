--------------------------- MODULE MCStreamReader ---------------------------
(* Small instances of StreamReader for TLC.                                *)
EXTENDS StreamReader

\* The clip is moved between two places, one on the grid of the cycles when the
\* song goes on from an even location, the other when it was located to an odd
\* one: from each the clip starts within a slot for the other's.
MCWindows == {[start |-> 2, end |-> 12], [start |-> 3, end |-> 7]}

\* What may have put slots off the grid or out of turn so far: a clip that
\* starts within a slot of a seek, or a move of the clip.
VARIABLE past

MCInit == Init /\ past = "straight"

MCNext ==
  /\ Next
  /\ past' = IF window' # window THEN "moved"
             ELSE IF past = "straight" /\ phase' = "partial" THEN "partial" ELSE past

MCSpec == MCInit /\ [][MCNext]_<<vars, past>>

\* A clip that was never moved has its slots on the grid of the cycles.
AlignedUnlessMoved == past # "moved" => Aligned

\* A clip that was never moved and started with a slot at every seek has slots
\* that follow each other, and the right one first after a seek. A slot that is
\* cut by the clip's start breaks both, see README.md.
ContiguousOnGrid == past = "straight" => Contiguous
SeekedSlotsReadyOnGrid == past = "straight" => SeekedSlotsReady

\* Two states are the same to TLC when they differ only in what is never read
\* again: which slot is which (but for the last one), the file location of a
\* free slot (but for the last one's), the location of a finished seek.
IndexOf(s, q) == IF s \in Queued(q) THEN CHOOSE i \in DOMAIN q : q[i] = s ELSE 0
View == <<[i \in DOMAIN rt |-> fileLocation[rt[i]]], Len(free),
          IndexOf(last, rt), IndexOf(last, free), fileLocation[last],
          IF hand = NoSlot THEN <<>> ELSE <<fileLocation[hand]>>,
          status, fill, window, active, audioPc, wanted, available,
          rolling, stopRequested, locateRequested, songSeeks, resume,
          IF songSeeks THEN seekLocation ELSE 0,
          transport, seek, stepVars, stale, SlotsKept, past>>
=============================================================================
