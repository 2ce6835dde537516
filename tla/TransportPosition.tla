------------------------- MODULE TransportPosition -------------------------
(* TRtTransportPosition: the sequence lock between the audio thread, which  *)
(* publishes where the transport is, and the threads that read it.          *)
(*                                                                          *)
(* The fields and the sequence are relaxed atomics, kept in order only by   *)
(* an acquire load, a release store and two fences. So a load need not      *)
(* return the last value: each atomic has a history (the sequence counts    *)
(* up by one, a field goes through the cycles), a reader's view says how    *)
(* old a value it may still load, and acquiring moves the view on to what   *)
(* the writer had stored before it released.                                *)
EXTENDS Naturals

CONSTANTS
  Fields,     \* the fields of a TTransportPosition
  Readers,    \* the threads that read
  MaxPublish  \* bound: cycles that publish

ASSUME PositionAssumption == MaxPublish \in Nat /\ Fields # {}

VARIABLES
  sequence,    \* the last value stored in m_sequence
  stored,      \* stored[f]: the last cycle stored in the field
  at,          \* at[r]: where r is in read()
  before,      \* before[r]: its first load of the sequence
  copy,        \* copy[r]: its local position, as far as it is loaded
  toLoad,      \* toLoad[r]: the fields it has not loaded yet
  seesSequence,\* seesSequence[r]: the oldest sequence r may still load
  seesField,   \* seesField[r][f]: the oldest cycle r may still load of f
  released,    \* released[r]: the sequence stored before what r loaded
  position     \* position[r]: what its last read() returned

writer == <<sequence, stored>>
reader == <<at, before, copy, toLoad, seesSequence, seesField, released, position>>
vars == <<writer, reader>>

Larger(a, b) == IF a < b THEN b ELSE a

Odd(n) == n % 2 = 1

(* The cycle that is published, or is being published, at sequence n. *)
CycleOf(n) == (n + 1) \div 2

Init ==
  /\ sequence = 0
  /\ stored = [f \in Fields |-> 0]
  /\ at = [r \in Readers |-> "out"]
  /\ before = [r \in Readers |-> 0]
  /\ copy = [r \in Readers |-> [f \in Fields |-> 0]]
  /\ toLoad = [r \in Readers |-> {}]
  /\ seesSequence = [r \in Readers |-> 0]
  /\ seesField = [r \in Readers |-> [f \in Fields |-> 0]]
  /\ released = [r \in Readers |-> 0]
  /\ position = [r \in Readers |-> [f \in Fields |-> 0]]
-----------------------------------------------------------------------------
(* publish(), in the audio thread: odd, the fields, even again. Nothing     *)
(* orders the stores of the fields among each other.                        *)

BeginPublish ==
  /\ ~Odd(sequence)
  /\ CycleOf(sequence) < MaxPublish
  /\ sequence' = sequence + 1
  /\ UNCHANGED <<stored, reader>>

StoreField(f) ==
  /\ Odd(sequence)
  /\ stored[f] # CycleOf(sequence)
  /\ stored' = [stored EXCEPT ![f] = CycleOf(sequence)]
  /\ UNCHANGED <<sequence, reader>>

EndPublish ==
  /\ Odd(sequence)
  /\ \A f \in Fields : stored[f] = CycleOf(sequence)
  /\ sequence' = sequence + 1
  /\ UNCHANGED <<stored, reader>>
-----------------------------------------------------------------------------
(* read(), in any thread. *)

(* The acquiring load of the sequence: an even one makes the fields stored  *)
(* before it visible, an odd one is loaded again.                           *)
LoadSequence(r) ==
  /\ at[r] = "out"
  /\ \E n \in seesSequence[r]..sequence :
       /\ seesSequence' = [seesSequence EXCEPT ![r] = n]
       /\ IF Odd(n)
          THEN UNCHANGED <<at, before, toLoad, seesField>>
          ELSE /\ at' = [at EXCEPT ![r] = "fields"]
               /\ before' = [before EXCEPT ![r] = n]
               /\ toLoad' = [toLoad EXCEPT ![r] = Fields]
               /\ seesField' = [seesField EXCEPT ![r] =
                                  [f \in Fields |-> Larger(@[f], CycleOf(n))]]
  /\ UNCHANGED <<writer, copy, released, position>>

(* A relaxed load of a field. The release fence before the field's store    *)
(* lets the odd sequence before it travel with it.                          *)
LoadField(r, f) ==
  /\ at[r] = "fields"
  /\ f \in toLoad[r]
  /\ \E k \in seesField[r][f]..stored[f] :
       /\ copy' = [copy EXCEPT ![r][f] = k]
       /\ seesField' = [seesField EXCEPT ![r][f] = k]
       /\ released' = [released EXCEPT ![r] = IF k = 0 THEN @ ELSE Larger(@, 2 * k - 1)]
  /\ toLoad' = [toLoad EXCEPT ![r] = @ \ {f}]
  /\ UNCHANGED <<writer, at, before, seesSequence, position>>

\* Mutant: no fence between the fields and the second load.
AfterFence_NoFence(r) == seesSequence[r]

(* The oldest sequence that the acquire fence leaves to load. *)
AfterFence(r) == Larger(seesSequence[r], released[r])

(* The acquire fence and the second load: the copy is returned if the       *)
(* sequence is the same, else all is loaded again.                          *)
LoadSequenceAgain(r) ==
  /\ at[r] = "fields"
  /\ toLoad[r] = {}
  /\ \E n \in AfterFence(r)..sequence :
       /\ seesSequence' = [seesSequence EXCEPT ![r] = n]
       /\ position' = [position EXCEPT ![r] = IF n = before[r] THEN copy[r] ELSE @]
  /\ at' = [at EXCEPT ![r] = "out"]
  /\ UNCHANGED <<writer, before, copy, toLoad, seesField, released>>
-----------------------------------------------------------------------------
Write == BeginPublish \/ EndPublish \/ \E f \in Fields : StoreField(f)

Read(r) ==
  \/ LoadSequence(r)
  \/ \E f \in Fields : LoadField(r, f)
  \/ LoadSequenceAgain(r)

Next == Write \/ \E r \in Readers : Read(r)

Spec == Init /\ [][Next]_vars
-----------------------------------------------------------------------------
Positions == [Fields -> 0..MaxPublish]

(* Each atomic holds a cycle or a sequence that was published, and a reader *)
(* sees none that was not stored yet.                                       *)
TypeOK ==
  /\ sequence \in 0..2 * MaxPublish
  /\ stored \in Positions
  /\ at \in [Readers -> {"out", "fields"}]
  /\ before \in [Readers -> 0..sequence]
  /\ copy \in [Readers -> Positions]
  /\ toLoad \in [Readers -> SUBSET Fields]
  /\ seesSequence \in [Readers -> 0..sequence]
  /\ seesField \in [Readers -> Positions]
  /\ released \in [Readers -> 0..sequence]
  /\ position \in [Readers -> Positions]

(* A read never returns fields of two cycles, nor a position older than the *)
(* one the thread has read before (TRtTransportPosition.h: "so it never     *)
(* sees fields of two different cycles").                                   *)
Published == INSTANCE PublishedPosition WITH published <- sequence \div 2
ReadsWhole == Published!Spec

=============================================================================
