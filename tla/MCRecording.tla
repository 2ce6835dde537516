---------------------------- MODULE MCRecording ----------------------------
(* A small instance of Recording for TLC.                                  *)
EXTENDS Recording

CONSTANTS t1, t2, t3

\* The takes the user edited before their session was pushed: such an edit is
\* below the session on the undo stack.
VARIABLE early

Edited == {TakeOf(c) : c \in (listed \ listed') \cup (listed' \ listed)}

MCInit == Init /\ early = {}

MCNext ==
  /\ Next
  /\ early' = IF edits' # edits THEN early \cup (Edited \cap sessionTakes) ELSE early

MCSpec == MCInit /\ [][MCNext]_<<vars, early>> /\ Fairness

\* A take has one owner, and one in its track can be undone, but for a take
\* that was edited while its session ran: undoing that edit after the
\* session's own undo brings it back.
TakesOwned == OneOwner /\ \A t \in Takes \ early : Undoable(t)

\* After a crash at any time, and after every save that failed halfway, the
\* project file on the disk names only takes whose audio is there; but for a
\* take that was edited while its session ran, see README.md.
SavedHasFiles == saved \ early \subseteq files
=============================================================================
