---------------------- MODULE TransportPositionProofs ----------------------
(* The published transport position is read whole by every thread, for      *)
(* every number of cycles, fields and readers.                              *)
EXTENDS TransportPosition, TLAPS

(* The fields between two publishes are of one cycle, while one is under    *)
(* way each is of that cycle or of the one before.                          *)
FieldsOfOneCycle ==
  \A f \in Fields : sequence \div 2 <= stored[f] /\ stored[f] <= CycleOf(sequence)

(* A reader's copy is no older than the sequence it loaded first, and what  *)
(* is newer has brought the odd sequence of its cycle along.                *)
CopyIsWatched ==
  \A r \in Readers : at[r] = "fields" =>
    /\ ~Odd(before[r])
    /\ before[r] <= seesSequence[r]
    /\ \A f \in Fields : CycleOf(before[r]) <= seesField[r][f]
    /\ \A f \in Fields \ toLoad[r] :
         /\ CycleOf(before[r]) <= copy[r][f]
         /\ copy[r][f] = 0 \/ 2 * copy[r][f] - 1 <= released[r]

(* What a thread has read is no newer than the sequence it loads from.      *)
ReadInThePast ==
  \A r \in Readers, f \in Fields :
    /\ 2 * position[r][f] <= seesSequence[r]
    /\ at[r] = "fields" => 2 * position[r][f] <= before[r]

ViewInv == TypeOK /\ FieldsOfOneCycle /\ CopyIsWatched /\ ReadInThePast

(* The halves of a sequence and of the one after it. *)
HalvesOf(n) ==
  /\ n \div 2 \in Nat /\ CycleOf(n) \in Nat
  /\ Odd(n) => /\ n = 2 * (n \div 2) + 1
               /\ CycleOf(n) = (n \div 2) + 1
               /\ ~Odd(n + 1)
               /\ (n + 1) \div 2 = (n \div 2) + 1
               /\ CycleOf(n + 1) = (n \div 2) + 1
  /\ ~Odd(n) => /\ n = 2 * (n \div 2)
                /\ CycleOf(n) = n \div 2
                /\ Odd(n + 1)
                /\ (n + 1) \div 2 = n \div 2
                /\ CycleOf(n + 1) = (n \div 2) + 1

LEMMA Halves == ASSUME NEW n \in Nat PROVE HalvesOf(n)
<1>0. n \div 2 \in Nat /\ n % 2 \in {0, 1} /\ n = 2 * (n \div 2) + (n % 2)
  OBVIOUS
<1>1. PICK h \in Nat, p \in {0, 1} : n = 2 * h + p
  BY <1>0
<1>2. CASE p = 0
  <2>1. n \div 2 = h /\ (n + 1) \div 2 = h /\ (n + 2) \div 2 = h + 1
    BY <1>1, <1>2
  <2>2. n % 2 = 0 /\ (n + 1) % 2 = 1
    BY <1>1, <1>2
  <2> QED BY <1>1, <1>2, <2>1, <2>2 DEF CycleOf, Odd, HalvesOf
<1>3. CASE p = 1
  <2>1. n \div 2 = h /\ (n + 1) \div 2 = h + 1 /\ (n + 2) \div 2 = h + 1
    BY <1>1, <1>3
  <2>2. n % 2 = 1 /\ (n + 1) % 2 = 0
    BY <1>1, <1>3
  <2> QED BY <1>1, <1>3, <2>1, <2>2 DEF CycleOf, Odd, HalvesOf
<1> QED BY <1>1, <1>2, <1>3

LEMMA InitInv == Init => ViewInv
<1> SUFFICES ASSUME Init PROVE ViewInv
  OBVIOUS
<1>1. 0 \div 2 = 0 /\ CycleOf(0) = 0 /\ ~Odd(0)
  BY DEF CycleOf, Odd
<1>2. TypeOK
  BY PositionAssumption DEF Init, TypeOK, Positions
<1>3. /\ sequence \div 2 = 0 /\ CycleOf(sequence) = 0
      /\ \A f \in Fields : stored[f] = 0
  BY <1>1 DEF Init
<1>7. FieldsOfOneCycle
  BY <1>3, 0 \in Nat, 0 <= 0 DEF Init, FieldsOfOneCycle
<1>4. CopyIsWatched
  BY DEF Init, CopyIsWatched
<1>5. \A r \in Readers, f \in Fields :
        position[r][f] = 0 /\ seesSequence[r] = 0 /\ before[r] = 0
  BY DEF Init
<1>6. ReadInThePast
  BY <1>5 DEF ReadInThePast
<1> QED BY <1>2, <1>7, <1>4, <1>6 DEF ViewInv

(* What every step of publish() keeps. *)
LEMMA WriteKeeps == ViewInv /\ Write => ViewInv'
<1> SUFFICES ASSUME ViewInv, Write PROVE ViewInv'
  OBVIOUS
<1> USE PositionAssumption DEF writer, reader
<1>1. sequence \in Nat /\ sequence <= 2 * MaxPublish /\ HalvesOf(sequence)
  BY Halves DEF ViewInv, TypeOK
<1>2. \A f \in Fields : /\ stored[f] \in 0..MaxPublish
                       /\ sequence \div 2 <= stored[f]
                       /\ stored[f] <= CycleOf(sequence)
  BY DEF ViewInv, TypeOK, Positions, FieldsOfOneCycle
<1>3. /\ sequence <= sequence' /\ sequence' \in 0..2 * MaxPublish
      /\ stored' \in Positions
      /\ FieldsOfOneCycle'
      /\ UNCHANGED reader
  <2>1. CASE BeginPublish
    <3>1. /\ sequence' = sequence + 1 /\ UNCHANGED <<stored, reader>>
          /\ sequence = 2 * (sequence \div 2) /\ sequence \div 2 < MaxPublish
          /\ sequence' \div 2 = sequence \div 2
          /\ CycleOf(sequence') = CycleOf(sequence) + 1
      BY <1>1, <2>1 DEF BeginPublish, HalvesOf
    <3> QED BY <1>1, <1>2, <3>1 DEF ViewInv, TypeOK, FieldsOfOneCycle, HalvesOf
  <2>2. CASE EndPublish
    <3>1. /\ sequence' = sequence + 1 /\ UNCHANGED <<stored, reader>>
          /\ sequence = 2 * (sequence \div 2) + 1
          /\ sequence' \div 2 = CycleOf(sequence)
          /\ CycleOf(sequence') = CycleOf(sequence)
          /\ \A f \in Fields : stored[f] = CycleOf(sequence)
      BY <1>1, <2>2 DEF EndPublish, HalvesOf
    <3> QED BY <1>1, <1>2, <3>1 DEF ViewInv, TypeOK, FieldsOfOneCycle, HalvesOf
  <2>3. ASSUME NEW f \in Fields, StoreField(f)
        PROVE  /\ sequence <= sequence' /\ sequence' \in 0..2 * MaxPublish
               /\ stored' \in Positions
               /\ FieldsOfOneCycle'
               /\ UNCHANGED reader
    <3>1. /\ UNCHANGED <<sequence, reader>>
          /\ stored' = [stored EXCEPT ![f] = CycleOf(sequence)]
          /\ CycleOf(sequence) = (sequence \div 2) + 1
          /\ CycleOf(sequence) \in 0..MaxPublish
      BY <1>1, <2>3 DEF StoreField, HalvesOf
    <3>2. stored' \in Positions
      BY <3>1 DEF ViewInv, TypeOK, Positions
    <3>3. \A g \in Fields : stored'[g] = IF g = f THEN CycleOf(sequence) ELSE stored[g]
      BY <3>1 DEF ViewInv, TypeOK, Positions
    <3> QED BY <1>1, <1>2, <3>1, <3>2, <3>3 DEF FieldsOfOneCycle, HalvesOf
  <2> QED BY <2>1, <2>2, <2>3 DEF Write
<1>4. TypeOK'
  <2>1. 0..sequence \subseteq 0..sequence'
    BY <1>1, <1>3
  <2> QED BY <1>3, <2>1 DEF ViewInv, TypeOK
<1>6. CopyIsWatched' /\ ReadInThePast'
  BY <1>3 DEF ViewInv, CopyIsWatched, ReadInThePast
<1> QED BY <1>3, <1>4, <1>6 DEF ViewInv

(* What every step of read() keeps. *)
LEMMA ReadKeeps == ASSUME ViewInv, NEW r \in Readers, Read(r) PROVE ViewInv'
<1> USE PositionAssumption DEF writer
<1>1. /\ sequence \in Nat /\ before[r] \in 0..sequence
      /\ seesSequence[r] \in 0..sequence /\ released[r] \in 0..sequence
      /\ toLoad[r] \subseteq Fields
      /\ HalvesOf(sequence) /\ HalvesOf(before[r])
      /\ CycleOf(sequence) \in Nat /\ CycleOf(before[r]) \in Nat
  <2>1. /\ sequence \in Nat /\ before[r] \in 0..sequence
        /\ seesSequence[r] \in 0..sequence /\ released[r] \in 0..sequence
        /\ toLoad[r] \subseteq Fields
    BY DEF ViewInv, TypeOK
  <2>2. before[r] \in Nat /\ HalvesOf(sequence) /\ HalvesOf(before[r])
    BY <2>1, Halves
  <2> QED BY <2>1, <2>2 DEF HalvesOf
<1>2. \A f \in Fields :
        /\ stored[f] \in 0..MaxPublish /\ copy[r][f] \in 0..MaxPublish
        /\ seesField[r][f] \in 0..MaxPublish /\ position[r][f] \in 0..MaxPublish
        /\ sequence \div 2 <= stored[f] /\ stored[f] <= CycleOf(sequence)
  BY DEF ViewInv, TypeOK, Positions, FieldsOfOneCycle
<1>3. CASE LoadSequence(r)
  <2>1. PICK n \in seesSequence[r]..sequence :
          /\ seesSequence' = [seesSequence EXCEPT ![r] = n]
          /\ IF Odd(n)
             THEN UNCHANGED <<at, before, toLoad, seesField>>
             ELSE /\ at' = [at EXCEPT ![r] = "fields"]
                  /\ before' = [before EXCEPT ![r] = n]
                  /\ toLoad' = [toLoad EXCEPT ![r] = Fields]
                  /\ seesField' = [seesField EXCEPT ![r] =
                                     [f \in Fields |-> Larger(@[f], CycleOf(n))]]
    BY <1>3 DEF LoadSequence
  <2>2. UNCHANGED <<sequence, stored, copy, released, position>>
    BY <1>3 DEF LoadSequence
  <2>3. n \in 0..sequence /\ HalvesOf(n)
    BY <1>1, Halves
  <2>4. CASE Odd(n)
    <3>1. TypeOK' /\ FieldsOfOneCycle'
      BY <2>1, <2>2, <2>3, <2>4 DEF ViewInv, TypeOK, FieldsOfOneCycle
    <3>2. at[r] = "out"
      BY <1>3 DEF LoadSequence
    <3>3. CopyIsWatched' /\ ReadInThePast'
      BY <1>1, <1>2, <2>1, <2>2, <2>3, <2>4, <3>2
      DEF ViewInv, TypeOK, CopyIsWatched, ReadInThePast
    <3> QED BY <3>1, <3>3 DEF ViewInv
  <2>5. CASE ~Odd(n)
    <3>1. CycleOf(n) \in 0..MaxPublish
      BY <1>1, <2>3, <2>5 DEF HalvesOf, ViewInv, TypeOK
    <3>2. seesField' \in [Readers -> Positions]
          /\ \A f \in Fields : CycleOf(n) <= seesField'[r][f]
      <4> DEFINE fresh == [f \in Fields |-> Larger(seesField[r][f], CycleOf(n))]
      <4>1. fresh \in Positions /\ \A f \in Fields : CycleOf(n) <= fresh[f]
        BY <1>2, <3>1 DEF Larger, Positions
      <4>2. seesField' = [seesField EXCEPT ![r] = fresh]
        BY <2>1, <2>5
      <4> QED BY <4>1, <4>2 DEF ViewInv, TypeOK
    <3>3. TypeOK' /\ FieldsOfOneCycle'
      BY <2>1, <2>2, <2>3, <2>5, <3>2 DEF ViewInv, TypeOK, FieldsOfOneCycle
    <3>4. /\ at'[r] = "fields" /\ before'[r] = n /\ seesSequence'[r] = n /\ toLoad'[r] = Fields
          /\ \A q \in Readers \ {r} :
               UNCHANGED <<at[q], before[q], seesSequence[q], toLoad[q], seesField[q]>>
      BY <2>1, <2>5 DEF ViewInv, TypeOK
    <3>5. CopyIsWatched'
      BY <2>2, <2>3, <2>5, <3>2, <3>4 DEF ViewInv, CopyIsWatched
    <3>6. ReadInThePast'
      BY <1>1, <1>2, <2>2, <2>3, <3>4 DEF ViewInv, ReadInThePast
    <3> QED BY <3>3, <3>5, <3>6 DEF ViewInv
  <2> QED BY <2>4, <2>5
<1>4. ASSUME NEW f \in Fields, LoadField(r, f) PROVE ViewInv'
  <2>1. PICK k \in seesField[r][f]..stored[f] :
          /\ copy' = [copy EXCEPT ![r][f] = k]
          /\ seesField' = [seesField EXCEPT ![r][f] = k]
          /\ released' = [released EXCEPT ![r] = IF k = 0 THEN @ ELSE Larger(@, 2 * k - 1)]
    BY <1>4 DEF LoadField
  <2>2. /\ UNCHANGED <<sequence, stored, at, before, seesSequence, position>>
        /\ toLoad' = [toLoad EXCEPT ![r] = @ \ {f}]
        /\ at[r] = "fields" /\ f \in toLoad[r]
    BY <1>4 DEF LoadField
  <2>3. k \in 0..MaxPublish /\ seesField[r][f] <= k /\ k <= CycleOf(sequence)
    BY <1>1, <1>2
  <2>4. k # 0 => 2 * k - 1 \in 0..sequence
    BY <1>1, <2>3 DEF HalvesOf
  <2>5. /\ released'[r] \in 0..sequence /\ released[r] <= released'[r]
        /\ k = 0 \/ 2 * k - 1 <= released'[r]
    BY <1>1, <2>1, <2>4 DEF ViewInv, TypeOK, Larger
  <2>6. released' = [released EXCEPT ![r] = released'[r]]
    BY <2>1 DEF ViewInv, TypeOK
  <2>7. TypeOK' /\ FieldsOfOneCycle'
    BY <2>1, <2>2, <2>3, <2>5, <2>6 DEF ViewInv, TypeOK, Positions, FieldsOfOneCycle
  <2>8. /\ \A g \in Fields : /\ copy'[r][g] = IF g = f THEN k ELSE copy[r][g]
                            /\ seesField'[r][g] = IF g = f THEN k ELSE seesField[r][g]
        /\ toLoad'[r] = toLoad[r] \ {f}
        /\ \A q \in Readers \ {r} : UNCHANGED <<copy[q], seesField[q], released[q], toLoad[q]>>
    BY <2>1, <2>2 DEF ViewInv, TypeOK, Positions
  <2>9. CopyIsWatched'
    BY <1>1, <1>2, <2>2, <2>3, <2>5, <2>8 DEF ViewInv, CopyIsWatched
  <2>10. ReadInThePast'
    BY <2>2 DEF ViewInv, ReadInThePast
  <2> QED BY <2>7, <2>9, <2>10 DEF ViewInv
<1>5. CASE LoadSequenceAgain(r)
  <2>1. PICK n \in AfterFence(r)..sequence :
          /\ seesSequence' = [seesSequence EXCEPT ![r] = n]
          /\ position' = [position EXCEPT ![r] = IF n = before[r] THEN copy[r] ELSE @]
    BY <1>5 DEF LoadSequenceAgain
  <2>2. /\ UNCHANGED <<sequence, stored, before, copy, toLoad, seesField, released>>
        /\ at' = [at EXCEPT ![r] = "out"]
        /\ at[r] = "fields" /\ toLoad[r] = {}
    BY <1>5 DEF LoadSequenceAgain
  <2>3. n \in 0..sequence /\ seesSequence[r] <= n /\ released[r] <= n
    BY <1>1, <2>1 DEF AfterFence, Larger
  <2>4. TypeOK' /\ FieldsOfOneCycle'
    BY <2>1, <2>2, <2>3 DEF ViewInv, TypeOK, FieldsOfOneCycle
  <2>5. CopyIsWatched'
    BY <2>1, <2>2 DEF ViewInv, TypeOK, CopyIsWatched
  <2>6. n = before[r] => \A f \in Fields : 2 * copy[r][f] <= n
    BY <1>1, <1>2, <2>2, <2>3 DEF ViewInv, CopyIsWatched, HalvesOf
  <2>7. /\ at'[r] = "out" /\ seesSequence'[r] = n
        /\ \A q \in Readers \ {r} : UNCHANGED <<at[q], position[q], seesSequence[q]>>
        /\ position'[r] = IF n = before[r] THEN copy[r] ELSE position[r]
    BY <2>1, <2>2 DEF ViewInv, TypeOK
  <2>8. ReadInThePast'
    BY <1>1, <1>2, <2>2, <2>3, <2>6, <2>7 DEF ViewInv, ReadInThePast
  <2> QED BY <2>4, <2>5, <2>8 DEF ViewInv
<1> QED BY <1>3, <1>4, <1>5 DEF Read

LEMMA InvHolds == Spec => []ViewInv
<1>1. ViewInv /\ [Next]_vars => ViewInv'
  <2> SUFFICES ASSUME ViewInv, [Next]_vars PROVE ViewInv'
    OBVIOUS
  <2>1. CASE Write
    BY <2>1, WriteKeeps
  <2>2. ASSUME NEW r \in Readers, Read(r) PROVE ViewInv'
    BY <2>2, ReadKeeps
  <2>3. CASE UNCHANGED vars
    BY <2>3 DEF vars, writer, reader, ViewInv, TypeOK, FieldsOfOneCycle, CopyIsWatched,
                ReadInThePast
  <2> QED BY <2>1, <2>2, <2>3 DEF Next
<1> QED BY InitInv, <1>1, PTL DEF Spec

(* No step of the sequence lock takes the type invariant away. *)
THEOREM TypesHold == Spec => []TypeOK
BY InvHolds, PTL DEF ViewInv

(* A step of the sequence lock is a publish, a read or nothing at all to    *)
(* those who look at positions.                                             *)
LEMMA StepReadsWhole ==
  ViewInv /\ ViewInv' /\ [Next]_vars
    => [Published!Next]_<<sequence \div 2, position>>
<1> SUFFICES ASSUME ViewInv, ViewInv', [Next]_vars
             PROVE  [Published!Next]_<<sequence \div 2, position>>
  OBVIOUS
<1> USE PositionAssumption DEF writer, reader
<1>1. sequence \in Nat /\ sequence <= 2 * MaxPublish /\ HalvesOf(sequence)
  BY Halves DEF ViewInv, TypeOK
<1>2. CASE BeginPublish
  BY <1>1, <1>2 DEF BeginPublish, HalvesOf
<1>3. CASE EndPublish
  <2>1. sequence' \div 2 = (sequence \div 2) + 1 /\ UNCHANGED position
        /\ sequence = 2 * (sequence \div 2) + 1
    BY <1>1, <1>3 DEF EndPublish, HalvesOf
  <2>2. sequence \div 2 \in Nat /\ sequence \div 2 < MaxPublish
    BY <1>1, <2>1 DEF HalvesOf
  <2> QED BY <2>1, <2>2 DEF Published!Next, Published!Publish
<1>4. ASSUME NEW f \in Fields, StoreField(f)
      PROVE  UNCHANGED <<sequence \div 2, position>>
  BY <1>4 DEF StoreField
<1>5. ASSUME NEW r \in Readers, Read(r)
      PROVE  [Published!Next]_<<sequence \div 2, position>>
  <2>1. CASE LoadSequence(r) \/ \E f \in Fields : LoadField(r, f)
    BY <2>1 DEF LoadSequence, LoadField
  <2>2. CASE LoadSequenceAgain(r)
    <3>1. /\ before[r] \in 0..sequence /\ released[r] \in 0..sequence
          /\ seesSequence[r] \in 0..sequence
          /\ position \in [Readers -> Positions] /\ copy \in [Readers -> Positions]
      BY DEF ViewInv, TypeOK
    <3>2. PICK n \in AfterFence(r)..sequence :
            position' = [position EXCEPT ![r] = IF n = before[r] THEN copy[r] ELSE @]
      BY <2>2 DEF LoadSequenceAgain
    <3>3. UNCHANGED sequence
      BY <2>2 DEF LoadSequenceAgain
    <3>4. CASE n # before[r]
      BY <3>1, <3>2, <3>3, <3>4
    <3>5. CASE n = before[r]
      <4> DEFINE k == CycleOf(n)
      <4>1. HalvesOf(n) /\ ~Odd(n) /\ released[r] <= n
        BY <1>1, <2>2, <3>1, <3>2, <3>5, Halves
        DEF ViewInv, CopyIsWatched, LoadSequenceAgain, AfterFence, Larger
      <4>2. k \in Nat /\ n = 2 * k
        BY <4>1 DEF HalvesOf
      <4>3. \A f \in Fields : copy[r][f] \in Nat /\ k <= copy[r][f]
                             /\ (copy[r][f] = 0 \/ 2 * copy[r][f] - 1 <= released[r])
        <5>1. at[r] = "fields" /\ toLoad[r] = {} /\ k = CycleOf(before[r])
          BY <2>2, <3>5 DEF LoadSequenceAgain
        <5> QED BY <3>1, <4>2, <5>1 DEF ViewInv, CopyIsWatched, Positions
      <4>4. \A f \in Fields : copy[r][f] = k
        BY <4>1, <4>2, <4>3, <3>1, <1>1
      <4>5. copy[r] = Published!OfCycle(k)
        BY <4>4, <3>1 DEF Published!OfCycle, Positions
      <4>6. k \in 0..(sequence \div 2)
        BY <1>1, <3>1, <3>5, <4>2 DEF HalvesOf
      <4>7. \A f \in Fields : position[r][f] <= k
        BY <2>2, <3>1, <3>5, <4>2 DEF ViewInv, ReadInThePast, LoadSequenceAgain, Positions
      <4> HIDE DEF k
      <4>8. position' = [position EXCEPT ![r] = Published!OfCycle(k)]
        BY <3>2, <3>5, <4>5
      <4> QED BY <3>3, <4>6, <4>7, <4>8 DEF Published!Next, Published!Read
    <3> QED BY <3>4, <3>5
  <2> QED BY <1>5, <2>1, <2>2 DEF Read
<1>6. CASE UNCHANGED vars
  BY <1>6 DEF vars
<1> QED BY <1>2, <1>3, <1>4, <1>5, <1>6 DEF Next, Write

(* The sequence lock implements the published position: what a thread reads *)
(* is one cycle's position and no older than what it has read before        *)
(* (ReadsWhole).                                                            *)
THEOREM LockIsAtomic == Spec => ReadsWhole
<1>1. Init => Published!Init
  BY DEF Init, Published!Init, Published!OfCycle
<1> QED BY <1>1, InvHolds, StepReadsWhole, PTL DEF Spec, ReadsWhole, Published!Spec

=============================================================================
