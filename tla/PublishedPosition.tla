------------------------- MODULE PublishedPosition -------------------------
(* What a published transport position promises to those who read it: one   *)
(* thread publishes a position per cycle, any thread reads a whole one, and *)
(* never an older one than it has read before. A position's fields hold the *)
(* number of the cycle they belong to.                                      *)
EXTENDS Naturals

CONSTANTS
  Fields,     \* the fields of a TTransportPosition
  Readers,    \* the threads that read
  MaxPublish  \* bound: cycles that publish

VARIABLES
  published,  \* how many positions are published
  position    \* position[r]: what r's last read() returned

OfCycle(k) == [f \in Fields |-> k]

Init ==
  /\ published = 0
  /\ position = [r \in Readers |-> OfCycle(0)]

Publish ==
  /\ published < MaxPublish
  /\ published' = published + 1
  /\ UNCHANGED position

Read(r) ==
  /\ \E k \in 0..published :
       /\ \A f \in Fields : position[r][f] <= k
       /\ position' = [position EXCEPT ![r] = OfCycle(k)]
  /\ UNCHANGED published

Next == Publish \/ \E r \in Readers : Read(r)

Spec == Init /\ [][Next]_<<published, position>>
=============================================================================
