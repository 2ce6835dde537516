--------------------------- MODULE RecordingProofs ---------------------------
(* What MCRecording promises of the takes, for any number of takes, edits   *)
(* and sessions: every take has one owner and can be undone (TakesOwned),   *)
(* and the project file names no take whose audio is deleted                *)
(* (SavedHasFiles).  The commands of the undo stack are folds over their    *)
(* steps: what a fold leaves is characterised first.                        *)
EXTENDS MCRecording, FiniteSetTheorems, WellFoundedInduction, TLAPS

\* Doing the steps q leaves the clip c in its track, wherever it was; undoing
\* them brings it back.
Stays(q, c) ==
  \E i \in DOMAIN q : c \in q[i].add /\ \A j \in DOMAIN q : j > i => c \notin q[j].remove
Returns(q, c) ==
  \E i \in DOMAIN q : c \in q[i].remove /\ \A j \in DOMAIN q : j < i => c \notin q[j].add

\* The one owner of a take, without counting: a command, a queued discard, or
\* neither while the session has it or the take is not yet made.
Apart(t) ==
  /\ \A i, j \in Holding(t) : i = j
  /\ \A S, T \in Queued(t) : S = T
  /\ Holding(t) = {} \/ Queued(t) = {}
OwnerOf(t) ==
  /\ Apart(t)
  /\ t \in sessionTakes \/ status[t] = "none" => Holding(t) = {} /\ Queued(t) = {}
  /\ status[t] = "none" => t \notin sessionTakes
  /\ status[t] \in {"recording", "finishing"} => t \in sessionTakes
Owners ==
  /\ \A t \in Takes : OwnerOf(t)
  /\ sessionTakes # {} => RecordingClips # {}

\* The steps of the session that runs: they leave its takes and no other clip
\* in the tracks, and undoing them brings nothing back.
SessionOf(q, S) ==
  /\ \A c \in Clips : Stays(q, c) <=> c \in ClipsOf(S)
  /\ \A c \in Clips : ~Returns(q, c)

\* A clip of a take that was not edited too early is in its track, or comes
\* back with an undo, only above a command that leaves it there; and such a
\* command is the take's session or above it.
ListedBy(c) ==
  c \in listed => \/ c \in ClipsOf(sessionTakes)
                  \/ \E i \in 1 .. index : Stays(stack[i].steps, c)
ReturnsAbove(c) ==
  \A j \in 1 .. Len(stack) : Returns(stack[j].steps, c) =>
    \E i \in 1 .. j - 1 : Stays(stack[i].steps, c)
StaysAbove(c) ==
  \A i \in 1 .. Len(stack) : Stays(stack[i].steps, c) =>
    \E p \in Holding(TakeOf(c)) : p <= i
ClipOwned(c) == ListedBy(c) /\ ReturnsAbove(c) /\ StaysAbove(c)
ClipsOwned == \A c \in Clips : TakeOf(c) \notin early => ClipOwned(c)

\* What the project knows, records or can bring back has its file, and is not
\* to be deleted.
InProject(t) == t \in known \cup sessionTakes \/ Holding(t) # {}
FilesKept ==
  /\ saved \ early \subseteq files
  /\ open => /\ \A t \in Takes : InProject(t) => t \in files /\ t \notin doomed
             /\ \A t \in doomed : status[t] # "none"

IInv == TypeOK /\ Owners /\ SessionOf(sessionSteps, sessionTakes) /\ ClipsOwned /\ FilesKept

-----------------------------------------------------------------------------
(* Folds over the steps of a command.  The recursive function that such a   *)
(* fold chooses is the one given in closed form: a first length at which    *)
(* the two differ cannot be.                                                *)

\* The least of some numbers, and the largest of some up to n.
LEMMA LeastOf ==
  ASSUME NEW s \in SUBSET Nat, s # {}
  PROVE  \E x \in s : \A y \in s : x <= y
<1> DEFINE R == OpToRel(<, Nat)
<1>1. IsWellFoundedOn(R, Nat)
  BY NatLessThanWellFounded
<1>2. \A k, m \in Nat : k < m => <<k, m>> \in R
  BY DEF OpToRel
<1> HIDE DEF R
<1>3. PICK m \in s : \A k \in s : ~ (<<k, m>> \in R)
  BY <1>1, WFMin
<1>4. ASSUME NEW y \in s PROVE m <= y
  <2>1. y \in Nat /\ m \in Nat /\ ~ (y < m)
    BY <1>2, <1>3
  <2>2. QED
    BY <2>1
<1>5. QED
  BY <1>4

LEMMA MinOf ==
  ASSUME NEW s \in SUBSET Nat, s # {}
  PROVE  Min(s) \in s /\ \A y \in s : Min(s) <= y
<1>1. PICK x \in s : \A y \in s : x <= y
  BY LeastOf
<1>2. QED
  BY <1>1 DEF Min

LEMMA MaxOf ==
  ASSUME NEW n \in Nat, NEW s \in SUBSET (1 .. n), s # {}
  PROVE  Max(s) \in s /\ \A y \in s : Max(s) >= y
<1>1. PICK d \in {k \in Nat : \E x \in s : k = n - x} :
        \A e \in {k \in Nat : \E x \in s : k = n - x} : d <= e
  <2>1. \A x \in s : n - x \in Nat
    OBVIOUS
  <2>2. {k \in Nat : \E x \in s : k = n - x} # {}
    BY <2>1
  <2>3. QED
    BY <2>2, LeastOf
<1>2. PICK x \in s : d = n - x
  OBVIOUS
<1>3. \A y \in s : x >= y
  <2>1. TAKE y \in s
  <2>2. d <= n - y
    BY <1>1
  <2>3. QED
    BY <1>2, <2>2
<1>4. QED
  BY <1>3 DEF Max

\* The first k places of n, and the last k.
LEMMA FirstPlaces ==
  ASSUME NEW n \in Nat, NEW k \in 1 .. n
  PROVE  /\ 1 .. k \in SUBSET (1 .. n) /\ 1 .. k # {} /\ k - 1 \in 0 .. n
         /\ Max(1 .. k) = k /\ (1 .. k) \ {k} = 1 .. (k - 1)
<1>1. 1 .. k \in SUBSET (1 .. n) /\ k \in 1 .. k /\ k \in Nat
  OBVIOUS
<1>2. Max(1 .. k) \in 1 .. k /\ \A y \in 1 .. k : Max(1 .. k) >= y
  <2>1. 1 .. k # {}
    BY <1>1
  <2>2. QED
    BY <1>1, <2>1, MaxOf
<1>3. Max(1 .. k) = k
  BY <1>1, <1>2
<1>4. (1 .. k) \ {k} = 1 .. (k - 1)
  <2>1. ASSUME NEW i PROVE i \in (1 .. k) \ {k} <=> i \in 1 .. (k - 1)
    BY <1>1
  <2>2. QED
    BY <2>1
<1>5. QED
  BY <1>1, <1>3, <1>4

LEMMA LastPlaces ==
  ASSUME NEW n \in Nat, NEW k \in 1 .. n
  PROVE  LET a == n - k + 1
         IN /\ a .. n \in SUBSET (1 .. n) /\ a .. n # {} /\ k - 1 \in 0 .. n
            /\ Min(a .. n) = a /\ (a .. n) \ {a} = (n - (k - 1) + 1) .. n
<1>1. PICK a : a = n - k + 1
  OBVIOUS
<1>2. /\ a \in Nat /\ a .. n \in SUBSET (1 .. n) /\ a \in a .. n
      /\ n - (k - 1) + 1 = a + 1
  BY <1>1
<1>3. Min(a .. n) \in a .. n /\ \A y \in a .. n : Min(a .. n) <= y
  <2>1. a .. n # {} /\ a .. n \in SUBSET Nat
    BY <1>2
  <2>2. QED
    BY <2>1, MinOf
<1>4. Min(a .. n) = a
  BY <1>2, <1>3
<1>5. (a .. n) \ {a} = (a + 1) .. n
  <2>1. ASSUME NEW i PROVE i \in (a .. n) \ {a} <=> i \in (a + 1) .. n
    BY <1>2
  <2>2. QED
    BY <2>1
<1>6. QED
  BY <1>1, <1>2, <1>4, <1>5

\* Two functions on the lengths up to n that agree on 0, and on each length if
\* they do on the one before, agree on n.
LEMMA SameByLength ==
  ASSUME NEW n \in Nat, NEW f, NEW g, f[0] = g[0],
         \A k \in 1 .. n : f[k - 1] = g[k - 1] => f[k] = g[k]
  PROVE  f[n] = g[n]
<1> DEFINE D == {k \in 0 .. n : f[k] # g[k]}
<1>1. SUFFICES ASSUME D # {} PROVE FALSE
  OBVIOUS
<1>2. PICK m \in D : \A k \in D : m <= k
  <2>1. D \in SUBSET Nat
    OBVIOUS
  <2>2. QED
    BY <1>1, <2>1, LeastOf
<1>3. m \in 1 .. n /\ m - 1 \in 0 .. n /\ m - 1 \notin D
  BY <1>2
<1>4. QED
  BY <1>2, <1>3

\* What is in the tracks after the steps q are done, with the clips X there at
\* first: what the steps leave, and what was there and is not removed.
LEMMA AllDoneIs ==
  ASSUME NEW q \in Seq(Steps), NEW X \in SUBSET Clips
  PROVE  AllDone(q, X)
           = {c \in Clips : Stays(q, c) \/ (c \in X /\ \A j \in DOMAIN q : c \notin q[j].remove)}
<1> DEFINE n == Len(q)
           G(g) == g = [s \in SUBSET DOMAIN q |->
                          IF s = {} THEN X ELSE Done(q[Max(s)], g[s \ {Max(s)}])]
           left(s) == {c \in Clips :
                         \/ \E i \in s : c \in q[i].add
                                         /\ \A j \in s : j > i => c \notin q[j].remove
                         \/ c \in X /\ \A j \in s : c \notin q[j].remove}
           f == [s \in SUBSET DOMAIN q |-> left(s)]
<1>1. n \in Nat /\ DOMAIN q = 1 .. n /\ \A i \in 1 .. n : q[i] \in Steps
  OBVIOUS
<1>2. AllDone(q, X) = (CHOOSE g : G(g))[DOMAIN q]
  BY DEF AllDone, FoldLeft, MapThenFoldSet
<1>3. left({}) = X
  OBVIOUS
<1>4. ASSUME NEW s \in SUBSET DOMAIN q, s # {}
      PROVE  left(s) = Done(q[Max(s)], left(s \ {Max(s)}))
  <2>1. PICK m \in s : m = Max(s) /\ \A y \in s : m >= y
    BY <1>1, <1>4, MaxOf
  <2>2. q[m] \in Steps /\ q[m].add \in SUBSET Clips
    BY <1>1, <1>4 DEF Steps
  <2>3. \A i \in s \ {m} : m > i
    BY <1>1, <2>1
  <2>4. ASSUME NEW c \in Clips
        PROVE  c \in left(s) <=> (c \in left(s \ {m}) /\ c \notin q[m].remove) \/ c \in q[m].add
    BY <1>1, <2>1, <2>3
  <2>5. left(s) = (left(s \ {m}) \ q[m].remove) \cup q[m].add
    BY <2>2, <2>4
  <2>6. QED
    BY <2>1, <2>5 DEF Done
<1> HIDE DEF left
<1>5. G(f)
  BY <1>3, <1>4
<1>6. PICK g : G(g) /\ AllDone(q, X) = g[DOMAIN q]
  <2> HIDE DEF G
  <2>1. G(CHOOSE h : G(h))
    BY <1>5
  <2>2. QED
    BY <1>2, <2>1
<1>7. g[1 .. n] = f[1 .. n]
  <2> DEFINE F == [k \in 0 .. n |-> f[1 .. k]]
             H == [k \in 0 .. n |-> g[1 .. k]]
  <2>1. \A k \in 0 .. n : 1 .. k \in SUBSET DOMAIN q
    BY <1>1
  <2>2. \A s \in SUBSET DOMAIN q :
          /\ g[s] = IF s = {} THEN X ELSE Done(q[Max(s)], g[s \ {Max(s)}])
          /\ f[s] = IF s = {} THEN X ELSE Done(q[Max(s)], f[s \ {Max(s)}])
    <3> HIDE DEF f
    <3>1. ASSUME NEW h, G(h), NEW s \in SUBSET DOMAIN q
          PROVE  h[s] = IF s = {} THEN X ELSE Done(q[Max(s)], h[s \ {Max(s)}])
      BY <3>1
    <3>2. QED
      BY <1>5, <1>6, <3>1
  <2>3. H[0] = F[0]
    <3>1. 1 .. 0 = {} /\ 0 \in 0 .. n
      BY <1>1
    <3>2. g[{}] = X /\ f[{}] = X
      BY <1>3, <1>6
    <3>3. QED
      BY <3>1, <3>2
  <2>4. ASSUME NEW k \in 1 .. n, H[k - 1] = F[k - 1] PROVE H[k] = F[k]
    <3>1. /\ 1 .. k # {} /\ k - 1 \in 0 .. n /\ k \in 0 .. n
          /\ Max(1 .. k) = k /\ (1 .. k) \ {k} = 1 .. (k - 1)
      BY <1>1, FirstPlaces
    <3>2. 1 .. k \in SUBSET DOMAIN q
      BY <2>1, <3>1
    <3>3. g[1 .. k] = Done(q[k], g[1 .. k - 1]) /\ f[1 .. k] = Done(q[k], f[1 .. k - 1])
      <4>1. \A h : h[1 .. k] = (IF 1 .. k = {} THEN X
                                 ELSE Done(q[Max(1 .. k)], h[(1 .. k) \ {Max(1 .. k)}]))
              => h[1 .. k] = Done(q[k], h[1 .. k - 1])
        BY <3>1, Zenon
      <4>2. QED
        BY <2>2, <3>2, <4>1, Zenon
    <3>4. g[1 .. k - 1] = f[1 .. k - 1]
      BY <2>4, <3>1
    <3>5. QED
      BY <3>1, <3>3, <3>4
  <2> HIDE DEF F, H
  <2>5. H[n] = F[n]
    BY <1>1, <2>3, <2>4, SameByLength
  <2>6. n \in 0 .. n
    BY <1>1
  <2>7. QED
    BY <2>5, <2>6 DEF F, H
<1>8. AllDone(q, X) = left(DOMAIN q)
  BY <1>1, <1>6, <1>7
<1>9. QED
  BY <1>8 DEF left, Stays

\* What is there after they are undone: what the undone steps bring back, and
\* what was there and was not added.
LEMMA AllUndoneIs ==
  ASSUME NEW q \in Seq(Steps), NEW X \in SUBSET Clips
  PROVE  AllUndone(q, X)
           = {c \in Clips : Returns(q, c) \/ (c \in X /\ \A j \in DOMAIN q : c \notin q[j].add)}
<1> DEFINE n == Len(q)
           G(g) == g = [s \in SUBSET DOMAIN q |->
                          IF s = {} THEN X ELSE Undone(q[Min(s)], g[s \ {Min(s)}])]
           left(s) == {c \in Clips :
                         \/ \E i \in s : c \in q[i].remove
                                         /\ \A j \in s : j < i => c \notin q[j].add
                         \/ c \in X /\ \A j \in s : c \notin q[j].add}
           f == [s \in SUBSET DOMAIN q |-> left(s)]
<1>1. n \in Nat /\ DOMAIN q = 1 .. n /\ \A i \in 1 .. n : q[i] \in Steps
  OBVIOUS
<1>2. AllUndone(q, X) = (CHOOSE g : G(g))[DOMAIN q]
  BY DEF AllUndone, FoldRight, MapThenFoldSet
<1>3. left({}) = X
  OBVIOUS
<1>4. ASSUME NEW s \in SUBSET DOMAIN q, s # {}
      PROVE  left(s) = Undone(q[Min(s)], left(s \ {Min(s)}))
  <2>1. PICK m \in s : m = Min(s) /\ \A y \in s : m <= y
    BY <1>1, <1>4, MinOf
  <2>2. q[m] \in Steps /\ q[m].remove \in SUBSET Clips
    BY <1>1, <1>4 DEF Steps
  <2>3. \A i \in s \ {m} : m < i
    BY <1>1, <2>1
  <2>4. ASSUME NEW c \in Clips
        PROVE  c \in left(s) <=> (c \in left(s \ {m}) /\ c \notin q[m].add) \/ c \in q[m].remove
    BY <1>1, <2>1, <2>3
  <2>5. left(s) = (left(s \ {m}) \ q[m].add) \cup q[m].remove
    BY <2>2, <2>4
  <2>6. QED
    BY <2>1, <2>5 DEF Undone
<1> HIDE DEF left
<1>5. G(f)
  BY <1>3, <1>4
<1>6. PICK g : G(g) /\ AllUndone(q, X) = g[DOMAIN q]
  <2> HIDE DEF G
  <2>1. G(CHOOSE h : G(h))
    BY <1>5
  <2>2. QED
    BY <1>2, <2>1
<1>7. g[1 .. n] = f[1 .. n]
  <2> DEFINE a(k) == n - k + 1
             F == [k \in 0 .. n |-> f[a(k) .. n]]
             H == [k \in 0 .. n |-> g[a(k) .. n]]
  <2>1. \A k \in 0 .. n : a(k) .. n \in SUBSET DOMAIN q
    BY <1>1
  <2>2. \A s \in SUBSET DOMAIN q :
          /\ g[s] = IF s = {} THEN X ELSE Undone(q[Min(s)], g[s \ {Min(s)}])
          /\ f[s] = IF s = {} THEN X ELSE Undone(q[Min(s)], f[s \ {Min(s)}])
    <3> HIDE DEF f
    <3>1. ASSUME NEW h, G(h), NEW s \in SUBSET DOMAIN q
          PROVE  h[s] = IF s = {} THEN X ELSE Undone(q[Min(s)], h[s \ {Min(s)}])
      BY <3>1
    <3>2. QED
      BY <1>5, <1>6, <3>1
  <2>3. H[0] = F[0]
    <3>1. a(0) .. n = {} /\ 0 \in 0 .. n
      BY <1>1
    <3>2. g[{}] = X /\ f[{}] = X
      BY <1>3, <1>6
    <3>3. QED
      BY <3>1, <3>2
  <2>4. ASSUME NEW k \in 1 .. n, H[k - 1] = F[k - 1] PROVE H[k] = F[k]
    <3>1. /\ a(k) .. n # {} /\ k - 1 \in 0 .. n /\ k \in 0 .. n
          /\ Min(a(k) .. n) = a(k) /\ (a(k) .. n) \ {a(k)} = a(k - 1) .. n
      <4>1. k \in 0 .. n
        BY <1>1
      <4>2. n \in Nat
        BY <1>1
      <4>3. QED
        BY <4>1, <4>2, LastPlaces
    <3>2. a(k) .. n \in SUBSET DOMAIN q
      BY <2>1, <3>1
    <3>3. /\ g[a(k) .. n] = Undone(q[a(k)], g[a(k - 1) .. n])
          /\ f[a(k) .. n] = Undone(q[a(k)], f[a(k - 1) .. n])
      <4> HIDE DEF a, f
      <4>1. \A h : h[a(k) .. n] = (IF a(k) .. n = {} THEN X
                                   ELSE Undone(q[Min(a(k) .. n)],
                                               h[(a(k) .. n) \ {Min(a(k) .. n)}]))
              => h[a(k) .. n] = Undone(q[a(k)], h[a(k - 1) .. n])
        BY <3>1, Zenon
      <4>2. QED
        BY <2>2, <3>2, <4>1, Zenon
    <3>4. g[a(k - 1) .. n] = f[a(k - 1) .. n]
      BY <2>4, <3>1
    <3>5. QED
      BY <3>1, <3>3, <3>4
  <2> HIDE DEF F, H
  <2>5. H[n] = F[n]
    BY <1>1, <2>3, <2>4, SameByLength
  <2>6. n \in 0 .. n /\ a(n) = 1
    BY <1>1
  <2>7. QED
    BY <2>5, <2>6 DEF F, H
<1>8. AllUndone(q, X) = left(DOMAIN q)
  BY <1>1, <1>6, <1>7
<1>9. QED
  BY <1>8 DEF left, Returns

-----------------------------------------------------------------------------
(* The commands: one step more, one command more, one less.                 *)

LEMMA AppendedStep ==
  ASSUME NEW q \in Seq(Steps), NEW step \in Steps, NEW c
  PROVE  /\ Append(q, step) \in Seq(Steps)
         /\ Stays(Append(q, step), c) <=> c \in step.add \/ (Stays(q, c) /\ c \notin step.remove)
         /\ Returns(Append(q, step), c)
              <=> Returns(q, c) \/ (c \in step.remove /\ \A j \in DOMAIN q : c \notin q[j].add)
<1>1. PICK r : r = Append(q, step)
  OBVIOUS
<1>2. PICK n \in Nat : /\ DOMAIN q = 1 .. n /\ DOMAIN r = 1 .. n + 1 /\ r \in Seq(Steps)
                       /\ \A i \in 1 .. n : r[i] = q[i]
                       /\ r[n + 1] = step
  <2>1. PICK n \in Nat : n = Len(q)
    OBVIOUS
  <2>2. /\ DOMAIN q = 1 .. n /\ DOMAIN r = 1 .. n + 1 /\ r \in Seq(Steps)
        /\ \A i \in 1 .. n : r[i] = q[i]
        /\ r[n + 1] = step
    BY <1>1, <2>1
  <2>3. QED
    BY <2>2
<1>3. Stays(r, c) <=> c \in step.add \/ (Stays(q, c) /\ c \notin step.remove)
  <2>1. ASSUME Stays(r, c) PROVE c \in step.add \/ (Stays(q, c) /\ c \notin step.remove)
    <3>1. PICK i \in 1 .. n + 1 : c \in r[i].add /\ \A j \in 1 .. n + 1 : j > i => c \notin r[j].remove
      BY <1>2, <2>1 DEF Stays
    <3>2. CASE i = n + 1
      BY <1>2, <3>1, <3>2
    <3>3. CASE i \in 1 .. n
      <4>1. n + 1 \in 1 .. n + 1 /\ n + 1 > i
        BY <3>3
      <4>2. c \notin step.remove
        BY <1>2, <3>1, <4>1
      <4>3. c \in q[i].add /\ \A j \in 1 .. n : j > i => c \notin q[j].remove
        BY <1>2, <3>1, <3>3
      <4>4. QED
        BY <1>2, <3>3, <4>2, <4>3 DEF Stays
    <3>4. QED
      BY <3>2, <3>3
  <2>2. ASSUME c \in step.add PROVE Stays(r, c)
    <3>1. n + 1 \in 1 .. n + 1 /\ \A j \in 1 .. n + 1 : ~ (j > n + 1)
      OBVIOUS
    <3>2. QED
      BY <1>2, <2>2, <3>1 DEF Stays
  <2>3. ASSUME Stays(q, c), c \notin step.remove PROVE Stays(r, c)
    <3>1. PICK i \in 1 .. n : c \in q[i].add /\ \A j \in 1 .. n : j > i => c \notin q[j].remove
      BY <1>2, <2>3 DEF Stays
    <3>2. i \in 1 .. n + 1 /\ c \in r[i].add
      BY <1>2, <3>1
    <3>3. ASSUME NEW j \in 1 .. n + 1, j > i PROVE c \notin r[j].remove
      <4>1. j \in 1 .. n \/ j = n + 1
        OBVIOUS
      <4>2. QED
        BY <1>2, <2>3, <3>1, <3>3, <4>1
    <3>4. QED
      BY <1>2, <3>2, <3>3 DEF Stays
  <2>4. QED
    BY <2>1, <2>2, <2>3
<1>4. Returns(r, c)
        <=> Returns(q, c) \/ (c \in step.remove /\ \A j \in 1 .. n : c \notin q[j].add)
  <2>1. ASSUME Returns(r, c)
        PROVE  Returns(q, c) \/ (c \in step.remove /\ \A j \in 1 .. n : c \notin q[j].add)
    <3>1. PICK i \in 1 .. n + 1 : c \in r[i].remove /\ \A j \in 1 .. n + 1 : j < i => c \notin r[j].add
      BY <1>2, <2>1 DEF Returns
    <3>2. \A j \in 1 .. n : j \in 1 .. n + 1 /\ j < n + 1
      OBVIOUS
    <3>3. CASE i = n + 1
      BY <1>2, <3>1, <3>2, <3>3
    <3>4. CASE i \in 1 .. n
      <4>1. c \in q[i].remove /\ \A j \in 1 .. n : j < i => c \notin q[j].add
        BY <1>2, <3>1, <3>2, <3>4
      <4>2. QED
        BY <1>2, <3>4, <4>1 DEF Returns
    <3>5. QED
      BY <3>3, <3>4
  <2>2. ASSUME Returns(q, c) PROVE Returns(r, c)
    <3>1. PICK i \in 1 .. n : c \in q[i].remove /\ \A j \in 1 .. n : j < i => c \notin q[j].add
      BY <1>2, <2>2 DEF Returns
    <3>2. i \in 1 .. n + 1 /\ \A j \in 1 .. n + 1 : j < i => j \in 1 .. n
      OBVIOUS
    <3>3. c \in r[i].remove /\ \A j \in 1 .. n + 1 : j < i => c \notin r[j].add
      BY <1>2, <3>1, <3>2
    <3>4. QED
      BY <1>2, <3>2, <3>3 DEF Returns
  <2>3. ASSUME c \in step.remove, \A j \in 1 .. n : c \notin q[j].add PROVE Returns(r, c)
    <3>1. n + 1 \in 1 .. n + 1 /\ \A j \in 1 .. n + 1 : j < n + 1 => j \in 1 .. n
      OBVIOUS
    <3>2. c \in r[n + 1].remove /\ \A j \in 1 .. n + 1 : j < n + 1 => c \notin r[j].add
      BY <1>2, <2>3, <3>1
    <3>3. QED
      BY <1>2, <3>1, <3>2 DEF Returns
  <2>4. QED
    BY <2>1, <2>2, <2>3
<1>5. QED
  BY <1>1, <1>2, <1>3, <1>4

\* The steps of a session that adds the takes S, or removes the empty take t.
LEMMA SessionSteps ==
  ASSUME NEW S \in SUBSET Takes
  PROVE  /\ Adding(S) \in Steps /\ Adding(S).add = ClipsOf(S) /\ Adding(S).remove = {}
         /\ Removing(S) \in Steps /\ Removing(S).add = {} /\ Removing(S).remove = ClipsOf(S)
         /\ ClipsOf(S) \in SUBSET Clips
<1>1. ClipsOf(S) \in SUBSET Clips
  BY DEF ClipsOf, Own, Clips
<1>2. QED
  BY <1>1 DEF Adding, Removing, Steps

\* A take's own clip is the take's.
LEMMA OwnClip ==
  ASSUME NEW t \in Takes
  PROVE  Own(t) \in Clips /\ TakeOf(Own(t)) = t
  BY DEF Own, Clips, TakeOf

LEMMA OwnClips ==
  ASSUME NEW S \in SUBSET Takes
  PROVE  /\ \A t \in Takes : Own(t) \in ClipsOf(S) <=> t \in S
         /\ \A c \in ClipsOf(S) : TakeOf(c) \in S /\ c = Own(TakeOf(c))
<1>1. \A t, u \in Takes : Own(t) = Own(u) => t = u
  BY DEF Own
<1>2. QED
  BY <1>1 DEF ClipsOf, Own, TakeOf

LEMMA ClipsOfBoth ==
  ASSUME NEW S \in SUBSET Takes, NEW T \in SUBSET Takes
  PROVE  /\ ClipsOf(S \cup T) = ClipsOf(S) \cup ClipsOf(T)
         /\ ClipsOf(S \ T) = ClipsOf(S) \ ClipsOf(T)
<1>1. \A t, u \in Takes : Own(t) = Own(u) => t = u
  BY DEF Own
<1>2. QED
  BY <1>1 DEF ClipsOf

\* A command more, in the place of the undone ones.
LEMMA PushIs ==
  ASSUME TypeOK, NEW cmd \in Commands, Push(cmd)
  PROVE  /\ index \in Nat /\ index <= Len(stack) /\ Len(stack) \in Nat
         /\ index' = index + 1 /\ stack' \in Seq(Commands) /\ Len(stack') = index + 1
         /\ \A i \in 1 .. index : stack'[i] = stack[i]
         /\ stack'[index + 1] = cmd
         /\ \A S : S \in discards' <=>
              S \in discards \/ (S # {} /\ \E i \in index + 1 .. Len(stack) : S = stack[i].takes)
<1>1. stack \in Seq(Commands) /\ index \in 0 .. Len(stack) /\ Len(stack) \in Nat
  BY DEF TypeOK
<1>2. PICK p : p = SubSeq(stack, 1, index)
  OBVIOUS
<1>3. p \in Seq(Commands) /\ Len(p) = index /\ \A i \in 1 .. index : p[i] = stack[i]
  BY <1>1, <1>2
<1>4. stack' = Append(p, cmd) /\ index' = index + 1
  BY <1>2 DEF Push
<1>5. /\ stack' \in Seq(Commands) /\ Len(stack') = index + 1
      /\ \A i \in 1 .. index : stack'[i] = stack[i]
      /\ stack'[index + 1] = cmd
  BY <1>1, <1>3, <1>4
<1>6. PICK r : r = SubSeq(stack, index + 1, Len(stack))
  OBVIOUS
<1>7. Range(r) = {stack[i] : i \in index + 1 .. Len(stack)}
  <2>1. /\ r \in Seq(Commands) /\ Len(r) = Len(stack) - index
        /\ \A i \in 1 .. Len(stack) - index : r[i] = stack[index + i]
    BY <1>1, <1>6
  <2>2. \A i \in 1 .. Len(stack) - index : index + i \in index + 1 .. Len(stack)
    BY <1>1
  <2>3. \A i \in index + 1 .. Len(stack) : i - index \in 1 .. Len(stack) - index
                                           /\ index + (i - index) = i
    BY <1>1
  <2>4. Range(r) = {r[i] : i \in 1 .. Len(stack) - index}
    BY <1>1, <2>1 DEF Range
  <2>5. QED
    BY <2>1, <2>2, <2>3, <2>4
<1>8. discards' = discards \cup Dropped(r)
  BY <1>6 DEF Push
<1>9. \A S : S \in Dropped(r) <=> S # {} /\ \E i \in index + 1 .. Len(stack) : S = stack[i].takes
  BY <1>7 DEF Dropped
<1>10. QED
  BY <1>1, <1>4, <1>5, <1>8, <1>9

-----------------------------------------------------------------------------
(* Types.                                                                   *)

LEMMA TypesInit == MCInit => TypeOK
<1> SUFFICES ASSUME MCInit PROVE TypeOK
  OBVIOUS
<1>1. stack = <<>> /\ sessionSteps = <<>> /\ index = 0
  BY DEF MCInit, Init
<1>2. <<>> \in Seq(Commands) /\ <<>> \in Seq(Steps) /\ 0 \in 0 .. Len(<<>>)
  OBVIOUS
<1>3. QED
  BY <1>1, <1>2, RecordingAssumption DEF MCInit, Init, TypeOK

\* What the takes of a start change.
LEMMA StartTypes ==
  ASSUME TypeOK, NEW S \in SUBSET Takes,
         NEW st \in [Takes -> {"none", "recording", "finishing", "written"}],
         StartTakes(S, st), UNCHANGED <<stack, index, discards, doomed, saved, open, edits>>
  PROVE  TypeOK'
<1>1. status' \in [Takes -> {"none", "recording", "finishing", "written"}]
  BY DEF StartTakes
<1>2. known' \subseteq Takes /\ files' \subseteq Takes
  BY DEF StartTakes, TypeOK
<1>3. listed' \subseteq Clips /\ sessionSteps' \in Seq(Steps) /\ sessionTakes' \subseteq Takes
  <2>1. CASE S = {}
    BY <2>1 DEF StartTakes, sessionVars, TypeOK
  <2>2. CASE S # {}
    <3>1. /\ listed' = Done(Adding(S), listed)
          /\ sessionSteps' = Append(sessionSteps, Adding(S))
          /\ sessionTakes' = sessionTakes \cup S
      BY <2>2 DEF StartTakes
    <3>2. Adding(S) \in Steps /\ Adding(S).add \in SUBSET Clips
      BY SessionSteps
    <3>3. QED
      BY <3>1, <3>2 DEF TypeOK, Done
  <2>3. QED
    BY <2>1, <2>2
<1>4. QED
  BY <1>1, <1>2, <1>3 DEF TypeOK

\* The statuses stay what they can be.
LEMMA FinishingType ==
  ASSUME TypeOK
  PROVE  Finishing \in [Takes -> {"none", "recording", "finishing", "written"}]
  BY DEF TypeOK, Finishing

LEMMA SaveTypes ==
  ASSUME TypeOK, NEW takes \in SUBSET Takes, NEW clips \in SUBSET Clips,
         NEW gone \in SUBSET Takes, SaveFiles(takes, clips, gone)
  PROVE  saved' \subseteq Takes /\ files' \subseteq Takes /\ doomed' \subseteq Takes
<1>1. Named(takes, clips) \subseteq Takes
  BY DEF Named, TakeOf, Clips
<1>2. QED
  BY <1>1 DEF SaveFiles, TypeOK

LEMMA PushTypes ==
  ASSUME TypeOK, NEW cmd \in Commands, Push(cmd)
  PROVE  stack' \in Seq(Commands) /\ index' \in 0 .. Len(stack') /\ discards' \subseteq SUBSET Takes
<1>1. /\ index \in Nat /\ Len(stack) \in Nat /\ index' = index + 1
      /\ stack' \in Seq(Commands) /\ Len(stack') = index + 1
      /\ \A S : S \in discards' <=>
           S \in discards \/ (S # {} /\ \E i \in index + 1 .. Len(stack) : S = stack[i].takes)
  BY PushIs
<1>2. \A i \in index + 1 .. Len(stack) : stack[i].takes \in SUBSET Takes
  <2>1. stack \in Seq(Commands)
    BY DEF TypeOK
  <2>2. \A i \in index + 1 .. Len(stack) : i \in 1 .. Len(stack)
    BY <1>1
  <2>3. \A i \in 1 .. Len(stack) : stack[i] \in Commands
    BY <2>1
  <2>4. QED
    BY <2>2, <2>3 DEF Commands
<1>3. QED
  BY <1>1, <1>2 DEF TypeOK

\* The steps and takes of an end, when the take t was empty and when not.
EndSteps(t, empty) == IF empty THEN Append(sessionSteps, Removing({t})) ELSE sessionSteps
EndTakes(t, empty) == IF empty THEN sessionTakes \ {t} ELSE sessionTakes
EndGone(t, empty) == IF empty THEN doomed \cup ({t} \cap known) ELSE doomed

\* The end of a take: the take's own part, and the session's.
LEMMA ClipFinishedIs ==
  ASSUME NEW t, NEW empty, ClipFinished(t, empty)
  PROVE  /\ open /\ UNCHANGED <<open, edits>>
         /\ status[t] = "finishing" /\ status' = [status EXCEPT ![t] = "written"]
         /\ IF empty THEN DropEmptyTake(t) ELSE UNCHANGED <<listed, known>>
         /\ IF RecordingClips = {t}
            THEN /\ PushRecordingSession(EndSteps(t, empty), EndTakes(t, empty))
                 /\ SaveFiles(known', listed', EndGone(t, empty))
            ELSE /\ sessionSteps' = EndSteps(t, empty)
                 /\ sessionTakes' = EndTakes(t, empty)
                 /\ doomed' = EndGone(t, empty)
                 /\ UNCHANGED <<stack, index, discards, files, saved>>
  BY DEF ClipFinished, EndSteps, EndTakes, EndGone, stackVars

LEMMA ClipFinishedTypes ==
  ASSUME TypeOK, NEW t \in Takes, NEW empty \in BOOLEAN, ClipFinished(t, empty)
  PROVE  TypeOK'
<1>1. /\ EndSteps(t, empty) \in Seq(Steps) /\ EndTakes(t, empty) \in SUBSET Takes
      /\ EndGone(t, empty) \in SUBSET Takes
  <2>1. Removing({t}) \in Steps
    BY SessionSteps
  <2>2. QED
    BY <2>1 DEF EndSteps, EndTakes, EndGone, TypeOK
<1>2. listed' \subseteq Clips /\ known' \subseteq Takes
  <2>1. CASE empty
    <3>1. Removing({t}).add = {}
      BY SessionSteps
    <3>2. DropEmptyTake(t)
      BY <2>1, ClipFinishedIs
    <3>3. QED
      BY <3>1, <3>2 DEF DropEmptyTake, Done, TypeOK
  <2>2. CASE ~empty
    BY <2>2, ClipFinishedIs DEF TypeOK
  <2>3. QED
    BY <2>1, <2>2
<1>3. status' \in [Takes -> {"none", "recording", "finishing", "written"}]
  BY ClipFinishedIs DEF TypeOK
<1>4. CASE RecordingClips = {t}
  <2>1. /\ PushRecordingSession(EndSteps(t, empty), EndTakes(t, empty))
        /\ SaveFiles(known', listed', EndGone(t, empty))
    BY <1>4, ClipFinishedIs
  <2>2. saved' \subseteq Takes /\ files' \subseteq Takes /\ doomed' \subseteq Takes
    BY <1>1, <1>2, <2>1, SaveTypes
  <2>3. [steps |-> EndSteps(t, empty), takes |-> EndTakes(t, empty)] \in Commands
    BY <1>1 DEF Commands
  <2>4. stack' \in Seq(Commands) /\ index' \in 0 .. Len(stack') /\ discards' \subseteq SUBSET Takes
    <3>1. CASE EndTakes(t, empty) = {}
      BY <2>1, <3>1 DEF PushRecordingSession, stackVars, TypeOK
    <3>2. CASE EndTakes(t, empty) # {}
      BY <2>1, <2>3, <3>2, PushTypes DEF PushRecordingSession
    <3>3. QED
      BY <3>1, <3>2
  <2>5. sessionSteps' = <<>> /\ sessionTakes' = {} /\ <<>> \in Seq(Steps)
    BY <2>1 DEF PushRecordingSession
  <2>6. QED
    BY <1>2, <1>3, <2>2, <2>4, <2>5, ClipFinishedIs DEF TypeOK
<1>5. CASE RecordingClips # {t}
  BY <1>1, <1>2, <1>3, <1>5, ClipFinishedIs DEF TypeOK
<1>6. QED
  BY <1>4, <1>5

\* What an undo and a redo leave in the tracks.
LEMMA UndoneTypes ==
  ASSUME TypeOK, NEW i \in 1 .. Len(stack)
  PROVE  /\ stack[i] \in Commands /\ stack[i].steps \in Seq(Steps) /\ stack[i].takes \in SUBSET Takes
         /\ AllUndone(stack[i].steps, listed) \in SUBSET Clips
         /\ AllDone(stack[i].steps, listed) \in SUBSET Clips
<1>1. stack[i] \in Commands
  BY DEF TypeOK
<1>2. stack[i].steps \in Seq(Steps) /\ stack[i].takes \in SUBSET Takes /\ listed \in SUBSET Clips
  BY <1>1 DEF Commands, TypeOK
<1>3. AllUndone(stack[i].steps, listed) \in SUBSET Clips
  BY <1>2, AllUndoneIs
<1>4. AllDone(stack[i].steps, listed) \in SUBSET Clips
  BY <1>2, AllDoneIs
<1>5. QED
  BY <1>1, <1>2, <1>3, <1>4

LEMMA UserStepTypes ==
  ASSUME TypeOK, NEW step \in UserSteps
  PROVE  step \in Steps /\ [steps |-> <<step>>, takes |-> {}] \in Commands
<1>1. step \in Steps
  <2>1. \A t \in Takes : <<t, "copy">> \in Clips
    BY DEF Clips
  <2>2. listed \subseteq Clips
    BY DEF TypeOK
  <2>3. QED
    BY <2>1, <2>2 DEF UserSteps, Steps
<1>2. <<step>> \in Seq(Steps)
  BY <1>1
<1>3. QED
  BY <1>1, <1>2 DEF Commands

LEMMA TypesStep ==
  ASSUME TypeOK, [Next]_vars
  PROVE  TypeOK'
<1>1. ASSUME NEW S \in SUBSET Takes, PrepareRecording(S) PROVE TypeOK'
  <2>1. status \in [Takes -> {"none", "recording", "finishing", "written"}]
    BY DEF TypeOK
  <2>2. QED
    BY <1>1, <2>1, StartTypes DEF PrepareRecording, stackVars
<1>2. ASSUME NEW S \in SUBSET Takes, SplitTakes(S) PROVE TypeOK'
  BY <1>2, FinishingType, StartTypes DEF SplitTakes, stackVars
<1>3. ASSUME NEW S \in SUBSET Takes, DiscardTakes(S) PROVE TypeOK'
  <2>1. Discardable(S) \in SUBSET Takes
    BY DEF Discardable
  <2>2. known' \subseteq Takes /\ doomed' \subseteq Takes
    BY <1>3, <2>1 DEF DiscardTakes, DeleteTakes, TypeOK
  <2>3. discards' \subseteq SUBSET Takes
    BY <1>3 DEF DiscardTakes, TypeOK
  <2>4. QED
    BY <1>3, <2>2, <2>3 DEF DiscardTakes, sessionVars, stackVars, TypeOK
<1>4. CASE TransportStopped
  BY <1>4, FinishingType DEF TransportStopped, sessionVars, stackVars, diskVars, TypeOK
<1>5. ASSUME NEW t \in Takes, NEW empty \in BOOLEAN, ClipFinished(t, empty) PROVE TypeOK'
  BY <1>5, ClipFinishedTypes
<1>6. CASE Undo
  <2>1. index \in 1 .. Len(stack) /\ index - 1 \in 0 .. Len(stack)
    BY <1>6 DEF Undo, TypeOK
  <2>2. listed' \subseteq Clips
    BY <1>6, <2>1, UndoneTypes DEF Undo
  <2>3. QED
    BY <1>6, <2>1, <2>2 DEF Undo, sessionVars, diskVars, TypeOK
<1>7. CASE Redo
  <2>1. index + 1 \in 1 .. Len(stack) /\ index + 1 \in 0 .. Len(stack)
    BY <1>7 DEF Redo, TypeOK
  <2>2. listed' \subseteq Clips
    BY <1>7, <2>1, UndoneTypes DEF Redo
  <2>3. QED
    BY <1>7, <2>1, <2>2 DEF Redo, sessionVars, diskVars, TypeOK
<1>8. CASE DiscardLastRecording
  <2>1. index \in 1 .. Len(stack) /\ index = Len(stack)
    BY <1>8 DEF DiscardLastRecording, TypeOK
  <2>2. listed' \subseteq Clips /\ stack[index].takes \in SUBSET Takes
    BY <1>8, <2>1, UndoneTypes DEF DiscardLastRecording
  <2>3. stack' \in Seq(Commands) /\ index' \in 0 .. Len(stack')
    BY <1>8, <2>1 DEF DiscardLastRecording, TypeOK, Front
  <2>4. discards' \subseteq SUBSET Takes
    BY <1>8, <2>2 DEF DiscardLastRecording, TypeOK
  <2>5. QED
    BY <1>8, <2>2, <2>3, <2>4 DEF DiscardLastRecording, sessionVars, diskVars, TypeOK
<1>9. ASSUME NEW step \in UserSteps, Edit(step) PROVE TypeOK'
  <2>1. step \in Steps /\ [steps |-> <<step>>, takes |-> {}] \in Commands
    BY UserStepTypes
  <2>2. stack' \in Seq(Commands) /\ index' \in 0 .. Len(stack') /\ discards' \subseteq SUBSET Takes
    BY <1>9, <2>1, PushTypes DEF Edit
  <2>3. listed' \subseteq Clips
    BY <1>9, <2>1 DEF Edit, Done, Steps, TypeOK
  <2>4. edits' \in 0 .. MaxEdits
    BY <1>9, RecordingAssumption DEF Edit, TypeOK
  <2>5. QED
    BY <1>9, <2>2, <2>3, <2>4 DEF Edit, sessionVars, diskVars, TypeOK
<1>10. CASE Save
  <2>1. saved' \subseteq Takes /\ files' \subseteq Takes /\ doomed' \subseteq Takes
    BY <1>10, SaveTypes DEF Save, TypeOK
  <2>2. QED
    BY <1>10, <2>1 DEF Save, sessionVars, stackVars, TypeOK
<1>11. CASE Close
  <2>1. PICK S \in SUBSET Takes :
          /\ known' = known \ S
          /\ \/ SaveFiles(known', listed, doomed \cup S)
             \/ doomed' = doomed \cup S /\ UNCHANGED <<files, saved>>
    <3>1. PICK S \in {Discardable(UNION Dropped(SubSeq(stack, index + 1, Len(stack)))), {}} :
            /\ known' = known \ S
            /\ \/ SaveFiles(known', listed, doomed \cup S)
               \/ doomed' = doomed \cup S /\ UNCHANGED <<files, saved>>
      BY <1>11 DEF Close
    <3>2. S \in SUBSET Takes
      BY DEF Discardable, TypeOK
    <3>3. QED
      BY <3>1, <3>2
  <2>2. known' \in SUBSET Takes /\ doomed \cup S \in SUBSET Takes /\ listed \in SUBSET Clips
    BY <2>1 DEF TypeOK
  <2>3. saved' \subseteq Takes /\ files' \subseteq Takes /\ doomed' \subseteq Takes
    BY <2>1, <2>2, SaveTypes DEF TypeOK
  <2>4. QED
    BY <1>11, <2>2, <2>3 DEF Close, sessionVars, stackVars, TypeOK
<1>12. CASE UNCHANGED vars
  BY <1>12 DEF vars, sessionVars, stackVars, diskVars, TypeOK
<1>13. QED
  BY <1>1, <1>2, <1>3, <1>4, <1>5, <1>6, <1>7, <1>8, <1>9, <1>10, <1>11, <1>12 DEF Next

-----------------------------------------------------------------------------
(* Every take has one owner.                                                *)

LEMMA OwnersInit == MCInit => Owners
<1> SUFFICES ASSUME MCInit PROVE Owners
  OBVIOUS
<1>1. stack = <<>> /\ discards = {} /\ sessionTakes = {} /\ \A t \in Takes : status[t] = "none"
  BY DEF MCInit, Init
<1>2. \A t \in Takes : Holding(t) = {} /\ Queued(t) = {}
  BY <1>1 DEF Holding, Queued
<1>3. QED
  BY <1>1, <1>2 DEF Owners, OwnerOf, Apart

\* Who holds a take after a push, and where it is queued.
LEMMA PushHolds ==
  ASSUME TypeOK, NEW cmd \in Commands, Push(cmd), NEW t
  PROVE  /\ \A i : i \in Holding(t)' <=>
              (i \in Holding(t) /\ i <= index) \/ (i = index + 1 /\ t \in cmd.takes)
         /\ \A S : S \in Queued(t)' <=>
              S \in Queued(t) \/ \E i \in Holding(t) : i > index /\ S = stack[i].takes
         /\ Holding(t) \subseteq Nat /\ index \in Nat
<1>1. /\ index \in Nat /\ index <= Len(stack) /\ Len(stack) \in Nat
      /\ index' = index + 1 /\ stack' \in Seq(Commands) /\ Len(stack') = index + 1
      /\ \A i \in 1 .. index : stack'[i] = stack[i]
      /\ stack'[index + 1] = cmd
      /\ \A S : S \in discards' <=>
           S \in discards \/ (S # {} /\ \E i \in index + 1 .. Len(stack) : S = stack[i].takes)
  BY PushIs
<1>2. DOMAIN stack = 1 .. Len(stack) /\ DOMAIN stack' = 1 .. index + 1
  BY <1>1 DEF TypeOK
<1>3. \A i : i \in 1 .. index + 1 <=> (i \in 1 .. index \/ i = index + 1)
  BY <1>1
<1>4. \A i : i \in 1 .. index <=> (i \in 1 .. Len(stack) /\ i <= index)
  BY <1>1
<1>5. \A i : i \in index + 1 .. Len(stack) <=> (i \in 1 .. Len(stack) /\ i > index)
  BY <1>1
<1>6. \A i : i \in Holding(t)' <=>
        (i \in Holding(t) /\ i <= index) \/ (i = index + 1 /\ t \in cmd.takes)
  BY <1>1, <1>2, <1>3, <1>4 DEF Holding
<1>7. \A S : S \in Queued(t)' <=>
        S \in Queued(t) \/ \E i \in Holding(t) : i > index /\ S = stack[i].takes
  BY <1>1, <1>2, <1>5 DEF Holding, Queued
<1>8. Holding(t) \subseteq Nat
  BY <1>2 DEF Holding
<1>9. QED
  BY <1>1, <1>6, <1>7, <1>8

\* A push leaves each take its one owner, if those of the command had none.
LEMMA PushApart ==
  ASSUME TypeOK, NEW cmd \in Commands, Push(cmd), NEW t, Apart(t),
         t \in cmd.takes => Holding(t) = {} /\ Queued(t) = {}
  PROVE  /\ Apart(t)'
         /\ Holding(t) = {} /\ Queued(t) = {} /\ t \notin cmd.takes
              => Holding(t)' = {} /\ Queued(t)' = {}
<1>1. /\ \A i : i \in Holding(t)' <=>
              (i \in Holding(t) /\ i <= index) \/ (i = index + 1 /\ t \in cmd.takes)
      /\ \A S : S \in Queued(t)' <=>
              S \in Queued(t) \/ \E i \in Holding(t) : i > index /\ S = stack[i].takes
      /\ Holding(t) \subseteq Nat /\ index \in Nat
  BY PushHolds
<1>2. PICK h : h = Holding(t)
  OBVIOUS
<1>3. PICK u : u = Queued(t)
  OBVIOUS
<1>4. PICK k : k = Holding(t)'
  OBVIOUS
<1>5. PICK v : v = Queued(t)'
  OBVIOUS
<1>6. /\ \A i : i \in k <=> (i \in h /\ i <= index) \/ (i = index + 1 /\ t \in cmd.takes)
      /\ \A S : S \in v <=> S \in u \/ \E i \in h : i > index /\ S = stack[i].takes
      /\ h \subseteq Nat /\ index \in Nat
      /\ \A i, j \in h : i = j
      /\ \A S, T \in u : S = T
      /\ h = {} \/ u = {}
      /\ t \in cmd.takes => h = {} /\ u = {}
  BY <1>1, <1>2, <1>3, <1>4, <1>5 DEF Apart
<1>7. \A i, j \in k : i = j
  BY <1>6
<1>8. \A S, T \in v : S = T
  BY <1>6
<1>9. k = {} \/ v = {}
  <2>1. CASE h = {}
    BY <1>6, <2>1
  <2>2. CASE h # {}
    <3>1. PICK i \in h : h = {i} /\ u = {} /\ t \notin cmd.takes
      BY <1>6, <2>2
    <3>2. i \in Nat
      BY <1>6
    <3>3. i <= index \/ i > index
      BY <1>6, <3>2
    <3>4. QED
      BY <1>6, <3>1, <3>2, <3>3
  <2>3. QED
    BY <2>1, <2>2
<1>10. h = {} /\ u = {} /\ t \notin cmd.takes => k = {} /\ v = {}
  BY <1>6
<1>11. QED
  BY <1>2, <1>3, <1>4, <1>5, <1>7, <1>8, <1>9, <1>10 DEF Apart

\* The takes are where they were, but for discards that are done.
LEMMA OwnersKept ==
  ASSUME Owners, UNCHANGED <<status, sessionTakes, stack>>, discards' \subseteq discards
  PROVE  Owners'
<1>1. \A t : Holding(t)' = Holding(t) /\ Queued(t)' \subseteq Queued(t)
  BY DEF Holding, Queued
<1>2. \A t \in Takes : OwnerOf(t)'
  BY <1>1 DEF Owners, OwnerOf, Apart
<1>3. RecordingClips' = RecordingClips
  BY DEF RecordingClips
<1>4. QED
  BY <1>2, <1>3 DEF Owners

\* New takes are the session's; the takes that record may be told to finish.
LEMMA StartOwners ==
  ASSUME Owners, NEW S \in SUBSET Fresh, NEW st,
         st = status \/ st = Finishing,
         status' = [t \in Takes |-> IF t \in S THEN "recording" ELSE st[t]],
         sessionTakes' = sessionTakes \cup S, UNCHANGED <<stack, discards>>
  PROVE  Owners'
<1>1. \A t : Holding(t)' = Holding(t) /\ Queued(t)' = Queued(t)
  BY DEF Holding, Queued
<1>2. \A t \in Takes : /\ st[t] = "none" <=> status[t] = "none"
                       /\ st[t] \in {"recording", "finishing"}
                            <=> status[t] \in {"recording", "finishing"}
  BY DEF Finishing
<1>3. \A t \in S : t \in Takes /\ status[t] = "none" /\ status'[t] = "recording"
  BY DEF Fresh
<1>4. \A t \in Takes \ S : status'[t] = st[t]
  OBVIOUS
<1>5. ASSUME NEW t \in Takes PROVE OwnerOf(t)'
  <2>1. OwnerOf(t)
    BY DEF Owners
  <2>2. Apart(t)'
    BY <1>1, <2>1 DEF OwnerOf, Apart
  <2>3. CASE t \in S
    BY <1>1, <1>3, <2>1, <2>2, <2>3 DEF OwnerOf
  <2>4. CASE t \notin S
    <3>1. t \in sessionTakes' <=> t \in sessionTakes
      BY <2>4
    <3>2. /\ status'[t] = "none" <=> status[t] = "none"
          /\ status'[t] \in {"recording", "finishing"} <=> status[t] \in {"recording", "finishing"}
      BY <1>2, <1>4, <2>4
    <3>3. QED
      BY <1>1, <2>1, <2>2, <3>1, <3>2 DEF OwnerOf
  <2>5. QED
    BY <2>3, <2>4
<1>6. RecordingClips \subseteq RecordingClips' /\ S \subseteq RecordingClips'
  BY <1>2, <1>3, <1>4 DEF RecordingClips
<1>7. QED
  BY <1>5, <1>6 DEF Owners

\* The end of a take: it is no longer one that records.
LEMMA EndRecording ==
  ASSUME TypeOK, NEW t \in Takes, NEW empty, ClipFinished(t, empty)
  PROVE  /\ t \in RecordingClips /\ RecordingClips' = RecordingClips \ {t}
         /\ \A u \in Takes \ {t} : status'[u] = status[u]
         /\ status'[t] = "written"
<1>1. status[t] = "finishing" /\ status' = [status EXCEPT ![t] = "written"]
  BY ClipFinishedIs
<1>2. status'[t] = "written" /\ \A u \in Takes \ {t} : status'[u] = status[u]
  BY <1>1 DEF TypeOK
<1>3. QED
  BY <1>1, <1>2 DEF RecordingClips

LEMMA EndOwners ==
  ASSUME TypeOK, Owners, NEW t \in Takes, NEW empty \in BOOLEAN, ClipFinished(t, empty)
  PROVE  Owners'
<1>1. /\ t \in RecordingClips /\ RecordingClips' = RecordingClips \ {t}
      /\ \A u \in Takes \ {t} : status'[u] = status[u]
      /\ status'[t] = "written"
  BY EndRecording
<1>2. EndTakes(t, empty) \subseteq sessionTakes
      /\ \A u \in sessionTakes \ {t} : u \in EndTakes(t, empty)
  BY DEF EndTakes
<1>3. CASE RecordingClips # {t}
  <2>1. sessionTakes' = EndTakes(t, empty) /\ UNCHANGED <<stack, discards>>
    BY <1>3, ClipFinishedIs
  <2>2. \A u : Holding(u)' = Holding(u) /\ Queued(u)' = Queued(u)
    BY <2>1 DEF Holding, Queued
  <2>3. ASSUME NEW u \in Takes PROVE OwnerOf(u)'
    <3>1. OwnerOf(u)
      BY DEF Owners
    <3>2. Apart(u)'
      BY <2>2, <3>1 DEF OwnerOf, Apart
    <3>3. u \in sessionTakes' => u \in sessionTakes
      BY <1>2, <2>1
    <3>4. CASE u = t
      BY <1>1, <2>2, <3>1, <3>2, <3>3, <3>4 DEF OwnerOf
    <3>5. CASE u # t
      <4>1. status'[u] = status[u] /\ (u \in sessionTakes => u \in sessionTakes')
        BY <1>1, <1>2, <2>1, <3>5
      <4>2. QED
        BY <2>2, <3>1, <3>2, <3>3, <4>1 DEF OwnerOf
    <3>6. QED
      BY <3>4, <3>5
  <2>4. RecordingClips' # {}
    BY <1>1, <1>3
  <2>5. QED
    BY <2>3, <2>4 DEF Owners
<1>4. CASE RecordingClips = {t}
  <2>1. PushRecordingSession(EndSteps(t, empty), EndTakes(t, empty))
    BY <1>4, ClipFinishedIs
  <2>2. sessionTakes' = {} /\ RecordingClips' = {}
    BY <1>1, <1>4, <2>1 DEF PushRecordingSession
  <2>3. ASSUME NEW u \in Takes
        PROVE  /\ Apart(u)'
               /\ status'[u] = "none" => Holding(u)' = {} /\ Queued(u)' = {}
    <3>1. OwnerOf(u)
      BY DEF Owners
    <3>2. status'[u] = "none" => status[u] = "none" /\ u \notin EndTakes(t, empty)
      BY <1>1, <1>2, <3>1 DEF OwnerOf
    <3>3. CASE EndTakes(t, empty) = {}
      <4>1. UNCHANGED <<stack, discards>>
        BY <2>1, <3>3 DEF PushRecordingSession, stackVars
      <4>2. Holding(u)' = Holding(u) /\ Queued(u)' = Queued(u)
        BY <4>1 DEF Holding, Queued
      <4>3. QED
        BY <3>1, <3>2, <4>1, <4>2 DEF OwnerOf, Apart
    <3>4. CASE EndTakes(t, empty) # {}
      <4>1. PICK cmd : cmd = [steps |-> EndSteps(t, empty), takes |-> EndTakes(t, empty)]
        OBVIOUS
      <4>2. Push(cmd) /\ cmd.takes = EndTakes(t, empty)
        BY <2>1, <3>4, <4>1 DEF PushRecordingSession
      <4>3. cmd \in Commands
        <5>1. Removing({t}) \in Steps
          BY SessionSteps
        <5>2. EndSteps(t, empty) \in Seq(Steps) /\ EndTakes(t, empty) \in SUBSET Takes
          BY <5>1 DEF EndSteps, EndTakes, TypeOK
        <5>3. QED
          BY <4>1, <5>2 DEF Commands
      <4>4. u \in cmd.takes => Holding(u) = {} /\ Queued(u) = {}
        BY <1>2, <3>1, <4>2 DEF OwnerOf
      <4>5. Apart(u)
        BY <3>1 DEF OwnerOf
      <4>6. /\ Apart(u)'
            /\ Holding(u) = {} /\ Queued(u) = {} /\ u \notin cmd.takes
                 => Holding(u)' = {} /\ Queued(u)' = {}
        BY <4>2, <4>3, <4>4, <4>5, PushApart
      <4>7. QED
        BY <3>1, <3>2, <4>2, <4>6 DEF OwnerOf
    <3>5. QED
      BY <3>3, <3>4
  <2>4. \A u \in Takes : status'[u] \notin {"recording", "finishing"}
    BY <2>2 DEF RecordingClips
  <2>5. QED
    BY <2>2, <2>3, <2>4 DEF Owners, OwnerOf
<1>5. QED
  BY <1>3, <1>4

\* The last command goes, undone.
LEMMA DiscardLastIs ==
  ASSUME TypeOK, DiscardLastRecording
  PROVE  /\ open /\ index \in 1 .. Len(stack) /\ index = Len(stack)
         /\ Len(stack') = index - 1 /\ index' = index - 1
         /\ \A i \in 1 .. index - 1 : stack'[i] = stack[i]
         /\ listed' = AllUndone(stack[index].steps, listed)
         /\ \A t : /\ Holding(t)' = Holding(t) \ {index}
                   /\ \A S : S \in Queued(t)' <=>
                        S \in Queued(t) \/ (index \in Holding(t) /\ S = stack[index].takes)
<1>1. index \in 1 .. Len(stack) /\ index = Len(stack) /\ stack \in Seq(Commands)
  BY DEF DiscardLastRecording, TypeOK
<1>2. /\ Len(stack') = index - 1 /\ DOMAIN stack' = 1 .. index - 1 /\ DOMAIN stack = 1 .. index
      /\ \A i \in 1 .. index - 1 : stack'[i] = stack[i]
  BY <1>1 DEF DiscardLastRecording, Front
<1>3. \A i : i \in 1 .. index - 1 <=> i \in 1 .. index /\ i # index
  BY <1>1
<1>4. discards' = discards \cup {stack[index].takes}
  BY DEF DiscardLastRecording
<1>5. \A t : Holding(t)' = Holding(t) \ {index}
  BY <1>2, <1>3 DEF Holding
<1>6. \A t, S : S \in Queued(t)' <=>
                  S \in Queued(t) \/ (index \in Holding(t) /\ S = stack[index].takes)
  BY <1>1, <1>2, <1>4 DEF Holding, Queued
<1>7. QED
  BY <1>1, <1>2, <1>5, <1>6 DEF DiscardLastRecording

LEMMA DiscardLastOwners ==
  ASSUME TypeOK, Owners, DiscardLastRecording
  PROVE  Owners'
<1>1. \A t : /\ Holding(t)' = Holding(t) \ {index}
             /\ \A S : S \in Queued(t)' <=>
                  S \in Queued(t) \/ (index \in Holding(t) /\ S = stack[index].takes)
  BY DiscardLastIs
<1>2. UNCHANGED <<status, sessionTakes>>
  BY DEF DiscardLastRecording, sessionVars
<1>3. ASSUME NEW t \in Takes PROVE OwnerOf(t)'
  <2>1. OwnerOf(t)
    BY DEF Owners
  <2>2. Apart(t)'
    <3>1. \A i, j \in Holding(t)' : i = j
      BY <1>1, <2>1 DEF OwnerOf, Apart
    <3>2. \A S, T \in Queued(t)' : S = T
      BY <1>1, <2>1 DEF OwnerOf, Apart
    <3>3. Holding(t)' = {} \/ Queued(t)' = {}
      BY <1>1, <2>1 DEF OwnerOf, Apart
    <3>4. QED
      BY <3>1, <3>2, <3>3 DEF Apart
  <2>3. Holding(t) = {} /\ Queued(t) = {} => Holding(t)' = {} /\ Queued(t)' = {}
    BY <1>1
  <2>4. QED
    BY <1>2, <2>1, <2>2, <2>3 DEF OwnerOf
<1>4. RecordingClips' = RecordingClips
  BY <1>2 DEF RecordingClips
<1>5. QED
  BY <1>2, <1>3, <1>4 DEF Owners

LEMMA EditOwners ==
  ASSUME TypeOK, Owners, NEW step \in UserSteps, Edit(step)
  PROVE  Owners'
<1>1. PICK cmd \in Commands : Push(cmd) /\ cmd.takes = {}
  BY UserStepTypes DEF Edit
<1>2. UNCHANGED <<status, sessionTakes>>
  BY DEF Edit, sessionVars
<1>3. ASSUME NEW t \in Takes PROVE OwnerOf(t)'
  <2>1. OwnerOf(t)
    BY DEF Owners
  <2>2. Apart(t)' /\ (Holding(t) = {} /\ Queued(t) = {} => Holding(t)' = {} /\ Queued(t)' = {})
    <3>1. Apart(t) /\ t \notin cmd.takes
      BY <1>1, <2>1 DEF OwnerOf
    <3>2. QED
      BY <1>1, <3>1, PushApart
  <2>3. QED
    BY <1>2, <2>1, <2>2 DEF OwnerOf
<1>4. RecordingClips' = RecordingClips
  BY <1>2 DEF RecordingClips
<1>5. QED
  BY <1>2, <1>3, <1>4 DEF Owners

LEMMA OwnersStep ==
  ASSUME TypeOK, Owners, [Next]_vars
  PROVE  Owners'
<1>1. ASSUME NEW S \in SUBSET Takes, PrepareRecording(S) \/ SplitTakes(S) PROVE Owners'
  <2>1. PICK st : (st = status \/ st = Finishing) /\ StartTakes(S, st)
    BY <1>1 DEF PrepareRecording, SplitTakes
  <2>2. S \subseteq Fresh /\ UNCHANGED <<stack, discards>>
    BY <1>1 DEF PrepareRecording, SplitTakes, stackVars
  <2>3. /\ status' = [t \in Takes |-> IF t \in S THEN "recording" ELSE st[t]]
        /\ sessionTakes' = sessionTakes \cup S
    BY <2>1 DEF StartTakes, sessionVars
  <2>4. QED
    BY <2>1, <2>2, <2>3, StartOwners
<1>2. CASE TransportStopped
  <2>1. status' = [t \in Takes |-> IF t \in {} THEN "recording" ELSE Finishing[t]]
    BY <1>2 DEF TransportStopped, Finishing
  <2>2. sessionTakes' = sessionTakes \cup {} /\ UNCHANGED <<stack, discards>>
    BY <1>2 DEF TransportStopped, sessionVars, stackVars
  <2>3. {} \in SUBSET Fresh
    OBVIOUS
  <2>4. QED
    BY <2>1, <2>2, <2>3, StartOwners
<1>3. ASSUME NEW t \in Takes, NEW empty \in BOOLEAN, ClipFinished(t, empty) PROVE Owners'
  BY <1>3, EndOwners
<1>4. CASE DiscardLastRecording
  BY <1>4, DiscardLastOwners
<1>5. ASSUME NEW step \in UserSteps, Edit(step) PROVE Owners'
  BY <1>5, EditOwners
<1>6. ASSUME Undo \/ Redo \/ Save \/ Close \/ UNCHANGED vars
             \/ \E S \in SUBSET Takes : DiscardTakes(S)
      PROVE  Owners'
  <2>1. UNCHANGED <<status, sessionTakes, stack>> /\ discards' \subseteq discards
    BY <1>6 DEF Undo, Redo, Save, Close, DiscardTakes, vars, sessionVars, stackVars
  <2>2. QED
    BY <2>1, OwnersKept
<1>7. QED
  BY <1>1, <1>2, <1>3, <1>4, <1>5, <1>6 DEF Next

-----------------------------------------------------------------------------
(* The steps of the session.                                                *)

LEMMA NoSession == SessionOf(<<>>, {})
  BY DEF SessionOf, Stays, Returns, ClipsOf

LEMMA StartSession ==
  ASSUME NEW q \in Seq(Steps), NEW T \in SUBSET Takes, SessionOf(q, T), NEW S \in SUBSET Takes
  PROVE  SessionOf(Append(q, Adding(S)), T \cup S)
<1>1. /\ Adding(S) \in Steps /\ Adding(S).add = ClipsOf(S) /\ Adding(S).remove = {}
      /\ ClipsOf(T \cup S) = ClipsOf(T) \cup ClipsOf(S)
  BY SessionSteps, ClipsOfBoth
<1>2. ASSUME NEW c \in Clips
      PROVE  /\ Stays(Append(q, Adding(S)), c) <=> c \in ClipsOf(T \cup S)
             /\ ~Returns(Append(q, Adding(S)), c)
  <2>1. /\ Stays(Append(q, Adding(S)), c) <=> c \in ClipsOf(S) \/ Stays(q, c)
        /\ Returns(Append(q, Adding(S)), c) <=> Returns(q, c)
    BY <1>1, AppendedStep
  <2>2. QED
    BY <1>1, <2>1 DEF SessionOf
<1>3. QED
  BY <1>2 DEF SessionOf

LEMMA EndSession ==
  ASSUME TypeOK, SessionOf(sessionSteps, sessionTakes), NEW t \in sessionTakes, NEW empty \in BOOLEAN
  PROVE  SessionOf(EndSteps(t, empty), EndTakes(t, empty))
<1>1. CASE ~empty
  BY <1>1 DEF EndSteps, EndTakes
<1>2. CASE empty
  <2>1. sessionSteps \in Seq(Steps) /\ t \in Takes /\ sessionTakes \in SUBSET Takes
    BY DEF TypeOK
  <2>2. /\ Removing({t}) \in Steps /\ Removing({t}).add = {} /\ Removing({t}).remove = ClipsOf({t})
        /\ ClipsOf(sessionTakes \ {t}) = ClipsOf(sessionTakes) \ ClipsOf({t})
        /\ \A c \in ClipsOf({t}) : c \in ClipsOf(sessionTakes)
    <3>1. ClipsOf({t}) \subseteq ClipsOf(sessionTakes)
      BY DEF ClipsOf
    <3>2. {t} \in SUBSET Takes
      BY <2>1
    <3>3. QED
      BY <2>1, <3>1, <3>2, SessionSteps, ClipsOfBoth
  <2>3. ASSUME NEW c \in Clips
        PROVE  /\ Stays(Append(sessionSteps, Removing({t})), c) <=> c \in ClipsOf(sessionTakes \ {t})
               /\ ~Returns(Append(sessionSteps, Removing({t})), c)
    <3>1. /\ Stays(Append(sessionSteps, Removing({t})), c)
               <=> Stays(sessionSteps, c) /\ c \notin ClipsOf({t})
          /\ Returns(Append(sessionSteps, Removing({t})), c)
               <=> \/ Returns(sessionSteps, c)
                   \/ c \in ClipsOf({t}) /\ \A j \in DOMAIN sessionSteps : c \notin sessionSteps[j].add
      <4>1. PICK step \in Steps :
              step = Removing({t}) /\ step.add = {} /\ step.remove = ClipsOf({t})
        BY <2>2
      <4>2. /\ Stays(Append(sessionSteps, step), c)
                 <=> c \in step.add \/ (Stays(sessionSteps, c) /\ c \notin step.remove)
            /\ Returns(Append(sessionSteps, step), c)
                 <=> \/ Returns(sessionSteps, c)
                     \/ c \in step.remove /\ \A j \in DOMAIN sessionSteps : c \notin sessionSteps[j].add
        BY <2>1, AppendedStep
      <4>3. QED
        BY <4>1, <4>2
    <3>2. Stays(sessionSteps, c) => \E j \in DOMAIN sessionSteps : c \in sessionSteps[j].add
      BY DEF Stays
    <3>3. QED
      BY <2>2, <3>1, <3>2 DEF SessionOf
  <2>4. QED
    BY <1>2, <2>3 DEF SessionOf, EndSteps, EndTakes
<1>3. QED
  BY <1>1, <1>2

\* The take that ends is the session's.
LEMMA EndIsOfSession ==
  ASSUME TypeOK, Owners, NEW t \in Takes, NEW empty, ClipFinished(t, empty)
  PROVE  t \in sessionTakes
<1>1. status[t] = "finishing"
  BY ClipFinishedIs
<1>2. QED
  BY <1>1 DEF Owners, OwnerOf

LEMMA SessionStep ==
  ASSUME TypeOK, Owners, SessionOf(sessionSteps, sessionTakes), [Next]_vars
  PROVE  SessionOf(sessionSteps, sessionTakes)'
<1>1. CASE UNCHANGED <<sessionSteps, sessionTakes>>
  BY <1>1
<1>2. ASSUME NEW S \in SUBSET Takes, NEW st, StartTakes(S, st)
      PROVE  SessionOf(sessionSteps, sessionTakes)'
  <2>1. CASE S = {}
    BY <1>1, <1>2, <2>1 DEF StartTakes, sessionVars
  <2>2. CASE S # {}
    <3>1. /\ sessionSteps' = Append(sessionSteps, Adding(S))
          /\ sessionTakes' = sessionTakes \cup S
      BY <1>2, <2>2 DEF StartTakes
    <3>2. SessionOf(Append(sessionSteps, Adding(S)), sessionTakes \cup S)
      BY StartSession DEF TypeOK
    <3>3. QED
      BY <3>1, <3>2
  <2>3. QED
    BY <2>1, <2>2
<1>3. ASSUME NEW t \in Takes, NEW empty \in BOOLEAN, ClipFinished(t, empty)
      PROVE  SessionOf(sessionSteps, sessionTakes)'
  <2>1. CASE RecordingClips = {t}
    <3>1. sessionSteps' = <<>> /\ sessionTakes' = {}
      BY <1>3, <2>1, ClipFinishedIs DEF PushRecordingSession
    <3>2. QED
      BY <3>1, NoSession
  <2>2. CASE RecordingClips # {t}
    <3>1. sessionSteps' = EndSteps(t, empty) /\ sessionTakes' = EndTakes(t, empty)
      BY <1>3, <2>2, ClipFinishedIs
    <3>2. SessionOf(EndSteps(t, empty), EndTakes(t, empty))
      BY <1>3, EndIsOfSession, EndSession
    <3>3. QED
      BY <3>1, <3>2
  <2>3. QED
    BY <2>1, <2>2
<1>4. QED
  BY <1>1, <1>2, <1>3
  DEF Next, PrepareRecording, SplitTakes, DiscardTakes, TransportStopped, Undo, Redo,
      DiscardLastRecording, Edit, Save, Close, vars, sessionVars

-----------------------------------------------------------------------------
(* The clips in the tracks, and the commands that leave them there.         *)

LEMMA ClipsInit == MCInit => ClipsOwned
  BY DEF MCInit, Init, ClipsOwned, ClipOwned, ListedBy, ReturnsAbove, StaysAbove

\* The tracks change by what the session's new takes and empty takes do.
LEMMA ClipsWithStack ==
  ASSUME TypeOK, NEW c, ClipOwned(c), UNCHANGED <<stack, index>>,
         c \in listed' => \/ c \in ClipsOf(sessionTakes')
                          \/ c \in listed /\ c \notin ClipsOf(sessionTakes)
  PROVE  ClipOwned(c)'
<1>1. \A t : Holding(t)' = Holding(t)
  BY DEF Holding
<1>2. ListedBy(c)'
  BY DEF ClipOwned, ListedBy
<1>3. ReturnsAbove(c)'
  BY DEF ClipOwned, ReturnsAbove
<1>4. StaysAbove(c)'
  BY <1>1 DEF ClipOwned, StaysAbove
<1>5. QED
  BY <1>2, <1>3, <1>4 DEF ClipOwned

\* A command that is pushed leaves the clip, or does not matter to it.
LEMMA ClipsPushed ==
  ASSUME TypeOK, NEW c, ClipOwned(c), NEW cmd \in Commands, Push(cmd),
         c \in listed' => \/ c \in ClipsOf(sessionTakes')
                          \/ Stays(cmd.steps, c)
                          \/ \E i \in 1 .. index : Stays(stack[i].steps, c),
         Returns(cmd.steps, c) => \E i \in 1 .. index : Stays(stack[i].steps, c),
         Stays(cmd.steps, c) => \/ TakeOf(c) \in cmd.takes
                                \/ \E p \in Holding(TakeOf(c)) : p <= index
  PROVE  ClipOwned(c)'
<1>1. /\ index \in Nat /\ index <= Len(stack) /\ Len(stack) \in Nat
      /\ index' = index + 1 /\ Len(stack') = index + 1
      /\ \A i \in 1 .. index : stack'[i] = stack[i]
      /\ stack'[index + 1] = cmd
  BY PushIs
<1>2. /\ \A i : i \in Holding(TakeOf(c))' <=>
           (i \in Holding(TakeOf(c)) /\ i <= index) \/ (i = index + 1 /\ TakeOf(c) \in cmd.takes)
      /\ Holding(TakeOf(c)) \subseteq Nat
  BY PushHolds
<1>3. /\ \A i : i \in 1 .. index + 1 <=> i \in 1 .. index \/ i = index + 1
      /\ \A i \in 1 .. index : i \in 1 .. Len(stack) /\ i <= index
      /\ \A i \in 1 .. index : i \in 1 .. index + 1 - 1
      /\ \A i, j \in 1 .. index : j \in 1 .. i - 1 => j \in 1 .. index
  BY <1>1
<1>4. ListedBy(c)'
  <2>1. SUFFICES ASSUME c \in listed', c \notin ClipsOf(sessionTakes')
                 PROVE  \E i \in 1 .. index + 1 : Stays(stack'[i].steps, c)
    BY <1>1 DEF ListedBy
  <2>2. QED
    BY <1>1, <1>3, <2>1
<1>5. ReturnsAbove(c)'
  <2>1. SUFFICES ASSUME NEW j \in 1 .. index + 1, Returns(stack'[j].steps, c)
                 PROVE  \E i \in 1 .. j - 1 : Stays(stack'[i].steps, c)
    BY <1>1 DEF ReturnsAbove
  <2>2. CASE j \in 1 .. index
    <3>1. Returns(stack[j].steps, c) /\ j \in 1 .. Len(stack)
      BY <1>1, <1>3, <2>1, <2>2
    <3>2. PICK i \in 1 .. j - 1 : Stays(stack[i].steps, c)
      BY <3>1 DEF ClipOwned, ReturnsAbove
    <3>3. i \in 1 .. index
      BY <1>1, <2>2
    <3>4. QED
      BY <1>1, <3>2, <3>3
  <2>3. CASE j = index + 1
    <3>1. PICK i \in 1 .. index : Stays(stack[i].steps, c)
      BY <1>1, <2>1, <2>3
    <3>2. i \in 1 .. j - 1
      BY <1>1, <2>3
    <3>3. QED
      BY <1>1, <3>1, <3>2
  <2>4. QED
    BY <1>3, <2>2, <2>3
<1>6. ASSUME NEW i \in 1 .. index, Stays(stack[i].steps, c)
      PROVE  \E p \in Holding(TakeOf(c))' : p <= i
  <2>1. PICK p \in Holding(TakeOf(c)) : p <= i
    BY <1>3, <1>6 DEF ClipOwned, StaysAbove
  <2>2. p <= index
    BY <1>1, <1>2, <2>1
  <2>3. QED
    BY <1>2, <2>1, <2>2
<1>7. StaysAbove(c)'
  <2>1. SUFFICES ASSUME NEW i \in 1 .. index + 1, Stays(stack'[i].steps, c)
                 PROVE  \E p \in Holding(TakeOf(c))' : p <= i
    BY <1>1 DEF StaysAbove
  <2>2. CASE i \in 1 .. index
    BY <1>1, <1>6, <2>1, <2>2
  <2>3. CASE i = index + 1
    <3>1. CASE TakeOf(c) \in cmd.takes
      <4>1. index + 1 \in Holding(TakeOf(c))' /\ index + 1 <= i
        BY <1>1, <1>2, <2>3, <3>1
      <4>2. QED
        BY <4>1
    <3>2. CASE \E p \in Holding(TakeOf(c)) : p <= index
      <4>1. PICK p \in Holding(TakeOf(c)) : p <= index
        BY <3>2
      <4>2. p \in Holding(TakeOf(c))' /\ p <= i
        BY <1>1, <1>2, <2>3, <4>1
      <4>3. QED
        BY <4>2
    <3>3. QED
      BY <1>1, <2>1, <2>3, <3>1, <3>2
  <2>4. QED
    BY <1>3, <2>2, <2>3
<1>8. QED
  BY <1>4, <1>5, <1>7 DEF ClipOwned

\* After an undo, a clip is in its track by a command below only.
LEMMA UndoneClip ==
  ASSUME TypeOK, NEW c, ClipOwned(c), index \in 1 .. Len(stack),
         c \in AllUndone(stack[index].steps, listed)
  PROVE  \/ c \in ClipsOf(sessionTakes)
         \/ \E i \in 1 .. index - 1 : Stays(stack[i].steps, c)
<1>1. PICK q \in Seq(Steps) : q = stack[index].steps
  BY UndoneTypes
<1>2. listed \in SUBSET Clips
  BY DEF TypeOK
<1>3. Returns(q, c) \/ (c \in listed /\ \A j \in DOMAIN q : c \notin q[j].add)
  <2>1. AllUndone(q, listed)
          = {d \in Clips : Returns(q, d) \/ (d \in listed /\ \A j \in DOMAIN q : d \notin q[j].add)}
    BY <1>2, AllUndoneIs
  <2>2. QED
    BY <1>1, <2>1
<1>4. CASE Returns(q, c)
  BY <1>1, <1>4 DEF ClipOwned, ReturnsAbove
<1>5. CASE c \in listed /\ \A j \in DOMAIN q : c \notin q[j].add
  <2>1. ~Stays(q, c)
    BY <1>5 DEF Stays
  <2>2. c \in ClipsOf(sessionTakes) \/ \E i \in 1 .. index : Stays(stack[i].steps, c)
    BY <1>5 DEF ClipOwned, ListedBy
  <2>3. ASSUME NEW i \in 1 .. index, Stays(stack[i].steps, c) PROVE i \in 1 .. index - 1
    <3>1. i # index
      BY <1>1, <2>1, <2>3
    <3>2. QED
      BY <3>1
  <2>4. QED
    BY <2>2, <2>3
<1>6. QED
  BY <1>3, <1>4, <1>5

LEMMA ClipsUndo ==
  ASSUME TypeOK, NEW c, ClipOwned(c), Undo
  PROVE  ClipOwned(c)'
<1>1. index \in 1 .. Len(stack) /\ index' = index - 1 /\ UNCHANGED <<stack, sessionTakes>>
  BY DEF Undo, TypeOK, sessionVars
<1>2. ListedBy(c)'
  BY <1>1, UndoneClip DEF Undo, ListedBy
<1>3. \A t : Holding(t)' = Holding(t)
  BY <1>1 DEF Holding
<1>4. QED
  BY <1>1, <1>2, <1>3 DEF ClipOwned, ReturnsAbove, StaysAbove

LEMMA ClipsRedo ==
  ASSUME TypeOK, NEW c, ClipOwned(c), Redo
  PROVE  ClipOwned(c)'
<1>1. /\ index \in Nat /\ index + 1 \in 1 .. Len(stack) /\ index' = index + 1
      /\ UNCHANGED <<stack, sessionTakes>> /\ listed \in SUBSET Clips
  BY DEF Redo, TypeOK, sessionVars
<1>2. PICK q \in Seq(Steps) : q = stack[index + 1].steps
  BY <1>1, UndoneTypes
<1>3. listed' = {d \in Clips :
                   Stays(q, d) \/ (d \in listed /\ \A j \in DOMAIN q : d \notin q[j].remove)}
  BY <1>1, <1>2, AllDoneIs DEF Redo
<1>4. ListedBy(c)'
  <2>1. SUFFICES ASSUME c \in listed', c \notin ClipsOf(sessionTakes)
                 PROVE  \E i \in 1 .. index + 1 : Stays(stack[i].steps, c)
    BY <1>1 DEF ListedBy
  <2>2. CASE Stays(q, c)
    <3>1. index + 1 \in 1 .. index + 1
      BY <1>1
    <3>2. QED
      BY <1>2, <2>2, <3>1
  <2>3. CASE c \in listed
    <3>1. PICK i \in 1 .. index : Stays(stack[i].steps, c)
      BY <2>1, <2>3 DEF ClipOwned, ListedBy
    <3>2. i \in 1 .. index + 1
      BY <1>1
    <3>3. QED
      BY <3>1, <3>2
  <2>4. QED
    BY <1>3, <2>1, <2>2, <2>3
<1>5. \A t : Holding(t)' = Holding(t)
  BY <1>1 DEF Holding
<1>6. QED
  BY <1>1, <1>4, <1>5 DEF ClipOwned, ReturnsAbove, StaysAbove

LEMMA ClipsDiscardLast ==
  ASSUME TypeOK, NEW c, ClipOwned(c), DiscardLastRecording
  PROVE  ClipOwned(c)'
<1>1. /\ index \in 1 .. Len(stack) /\ index = Len(stack)
      /\ Len(stack') = index - 1 /\ index' = index - 1
      /\ \A i \in 1 .. index - 1 : stack'[i] = stack[i]
      /\ listed' = AllUndone(stack[index].steps, listed)
      /\ Holding(TakeOf(c))' = Holding(TakeOf(c)) \ {index}
  BY DiscardLastIs
<1>2. sessionTakes' = sessionTakes
  BY DEF DiscardLastRecording, sessionVars
<1>3. /\ \A i \in 1 .. index - 1 : i \in 1 .. Len(stack) /\ i < index
      /\ \A j \in 1 .. index - 1 : \A i \in 1 .. j - 1 : i \in 1 .. index - 1
  BY <1>1
<1>4. ListedBy(c)'
  <2>1. SUFFICES ASSUME c \in listed', c \notin ClipsOf(sessionTakes)
                 PROVE  \E i \in 1 .. index - 1 : Stays(stack'[i].steps, c)
    BY <1>1, <1>2 DEF ListedBy
  <2>2. QED
    BY <1>1, <2>1, UndoneClip
<1>5. ReturnsAbove(c)'
  <2>1. SUFFICES ASSUME NEW j \in 1 .. index - 1, Returns(stack'[j].steps, c)
                 PROVE  \E i \in 1 .. j - 1 : Stays(stack'[i].steps, c)
    BY <1>1 DEF ReturnsAbove
  <2>2. PICK i \in 1 .. j - 1 : Stays(stack[i].steps, c)
    BY <1>1, <1>3, <2>1 DEF ClipOwned, ReturnsAbove
  <2>3. QED
    BY <1>1, <1>3, <2>2
<1>6. StaysAbove(c)'
  <2>1. SUFFICES ASSUME NEW i \in 1 .. index - 1, Stays(stack'[i].steps, c)
                 PROVE  \E p \in Holding(TakeOf(c))' : p <= i
    BY <1>1 DEF StaysAbove
  <2>2. PICK p \in Holding(TakeOf(c)) : p <= i
    BY <1>1, <1>3, <2>1 DEF ClipOwned, StaysAbove
  <2>3. p # index
    BY <1>1, <1>3, <2>2
  <2>4. QED
    BY <1>1, <2>2, <2>3
<1>7. QED
  BY <1>4, <1>5, <1>6 DEF ClipOwned

LEMMA ClipsStart ==
  ASSUME TypeOK, NEW c, ClipOwned(c), NEW S \in SUBSET Takes, NEW st, StartTakes(S, st),
         UNCHANGED <<stack, index>>
  PROVE  ClipOwned(c)'
<1>1. CASE S = {}
  <2>1. UNCHANGED <<listed, sessionTakes>>
    BY <1>1 DEF StartTakes, sessionVars
  <2>2. QED
    BY <2>1, ClipsWithStack
<1>2. CASE S # {}
  <2>1. listed' = Done(Adding(S), listed) /\ sessionTakes' = sessionTakes \cup S
    BY <1>2 DEF StartTakes
  <2>2. /\ Adding(S).add = ClipsOf(S) /\ Adding(S).remove = {}
        /\ ClipsOf(sessionTakes \cup S) = ClipsOf(sessionTakes) \cup ClipsOf(S)
    BY SessionSteps, ClipsOfBoth DEF TypeOK
  <2>3. c \in listed' => \/ c \in ClipsOf(sessionTakes')
                         \/ c \in listed /\ c \notin ClipsOf(sessionTakes)
    BY <2>1, <2>2 DEF Done
  <2>4. QED
    BY <2>3, ClipsWithStack
<1>3. QED
  BY <1>1, <1>2

\* The end of a take, pushed with its session or not.
LEMMA ClipsEnd ==
  ASSUME TypeOK, Owners, SessionOf(sessionSteps, sessionTakes), NEW c \in Clips, ClipOwned(c),
         NEW t \in Takes, NEW empty \in BOOLEAN, ClipFinished(t, empty)
  PROVE  ClipOwned(c)'
<1>1. t \in sessionTakes
  BY EndIsOfSession
<1>2. c \in listed' => \/ c \in ClipsOf(EndTakes(t, empty))
                       \/ c \in listed /\ c \notin ClipsOf(sessionTakes)
  <2>1. CASE empty
    <3>1. listed' = Done(Removing({t}), listed)
      BY <2>1, ClipFinishedIs DEF DropEmptyTake
    <3>2. /\ Removing({t}).add = {} /\ Removing({t}).remove = ClipsOf({t})
          /\ ClipsOf(sessionTakes \ {t}) = ClipsOf(sessionTakes) \ ClipsOf({t})
      <4>1. sessionTakes \in SUBSET Takes /\ {t} \in SUBSET Takes
        BY DEF TypeOK
      <4>2. QED
        BY <4>1, SessionSteps, ClipsOfBoth
    <3>3. QED
      BY <2>1, <3>1, <3>2 DEF Done, EndTakes
  <2>2. CASE ~empty
    <3>1. listed' = listed
      BY <2>2, ClipFinishedIs
    <3>2. QED
      BY <2>2, <3>1 DEF EndTakes
  <2>3. QED
    BY <2>1, <2>2
<1>3. CASE RecordingClips # {t}
  <2>1. sessionTakes' = EndTakes(t, empty) /\ UNCHANGED <<stack, index>>
    BY <1>3, ClipFinishedIs
  <2>2. QED
    BY <1>2, <2>1, ClipsWithStack
<1>4. CASE RecordingClips = {t}
  <2>1. PushRecordingSession(EndSteps(t, empty), EndTakes(t, empty))
    BY <1>4, ClipFinishedIs
  <2>2. CASE EndTakes(t, empty) = {}
    <3>1. UNCHANGED <<stack, index>>
      BY <2>1, <2>2 DEF PushRecordingSession, stackVars
    <3>2. c \notin ClipsOf(EndTakes(t, empty))
      BY <2>2 DEF ClipsOf
    <3>3. QED
      BY <1>2, <3>1, <3>2, ClipsWithStack
  <2>3. CASE EndTakes(t, empty) # {}
    <3>1. PICK cmd : cmd = [steps |-> EndSteps(t, empty), takes |-> EndTakes(t, empty)]
      OBVIOUS
    <3>2. Push(cmd) /\ cmd.steps = EndSteps(t, empty) /\ cmd.takes = EndTakes(t, empty)
      BY <2>1, <2>3, <3>1 DEF PushRecordingSession
    <3>3. EndTakes(t, empty) \in SUBSET Takes /\ cmd \in Commands
      <4>1. Removing({t}) \in Steps
        BY SessionSteps
      <4>2. EndSteps(t, empty) \in Seq(Steps) /\ EndTakes(t, empty) \in SUBSET Takes
        BY <4>1 DEF EndSteps, EndTakes, TypeOK
      <4>3. QED
        BY <3>1, <4>2 DEF Commands
    <3>4. SessionOf(EndSteps(t, empty), EndTakes(t, empty))
      BY <1>1, EndSession
    <3>5. /\ Stays(cmd.steps, c) <=> c \in ClipsOf(cmd.takes)
          /\ ~Returns(cmd.steps, c)
      BY <3>2, <3>4 DEF SessionOf
    <3>6. c \in ClipsOf(cmd.takes) => TakeOf(c) \in cmd.takes
      BY <3>2, <3>3, OwnClips
    <3>7. c \in listed' => Stays(cmd.steps, c) \/ \E i \in 1 .. index : Stays(stack[i].steps, c)
      BY <1>2, <3>2, <3>5 DEF ClipOwned, ListedBy
    <3>8. QED
      BY <3>2, <3>3, <3>5, <3>6, <3>7, ClipsPushed
  <2>4. QED
    BY <2>2, <2>3
<1>5. QED
  BY <1>3, <1>4

\* The user's own edit of one step.
LEMMA OneStep ==
  ASSUME NEW step, NEW c
  PROVE  (Stays(<<step>>, c) <=> c \in step.add) /\ (Returns(<<step>>, c) <=> c \in step.remove)
<1>1. DOMAIN <<step>> = {1} /\ <<step>>[1] = step
  OBVIOUS
<1>2. QED
  BY <1>1 DEF Stays, Returns

\* A clip the user edits after its session.
LEMMA ClipsEdit ==
  ASSUME TypeOK, ClipsOwned, NEW c \in Clips, NEW step \in UserSteps, Edit(step),
         TakeOf(c) \notin early,
         TakeOf(c) \notin Edited \cap sessionTakes
  PROVE  ClipOwned(c)'
<1>1. PICK cmd : cmd = [steps |-> <<step>>, takes |-> {}]
  OBVIOUS
<1>2. /\ cmd \in Commands /\ step \in Steps /\ Push(cmd) /\ listed' = Done(step, listed)
      /\ cmd.steps = <<step>> /\ UNCHANGED sessionTakes
  BY <1>1, UserStepTypes DEF Edit, sessionVars
<1>3. (Stays(cmd.steps, c) <=> c \in step.add) /\ (Returns(cmd.steps, c) <=> c \in step.remove)
  BY <1>2, OneStep
<1>4. ClipOwned(c) /\ index \in Nat /\ index <= Len(stack) /\ Len(stack) \in Nat
  BY <1>2, PushIs DEF ClipsOwned
<1>5. c \in listed' /\ c \notin step.add => c \in listed
  BY <1>2 DEF Done
<1>6. Returns(cmd.steps, c) => \E i \in 1 .. index : Stays(stack[i].steps, c)
  <2>1. SUFFICES ASSUME c \in step.remove PROVE \E i \in 1 .. index : Stays(stack[i].steps, c)
    BY <1>3
  <2>2. c \in listed /\ step.add = {}
    BY <2>1 DEF UserSteps
  <2>3. c \in listed \ listed'
    BY <1>2, <2>1, <2>2 DEF Done
  <2>4. TakeOf(c) \in Edited
    BY <2>3 DEF Edited
  <2>5. TakeOf(c) \notin sessionTakes
    BY <2>4
  <2>6. c \notin ClipsOf(sessionTakes)
    BY <2>5, OwnClips DEF TypeOK
  <2>7. QED
    BY <1>4, <2>2, <2>6 DEF ClipOwned, ListedBy
<1>7. Stays(cmd.steps, c) => \E p \in Holding(TakeOf(c)) : p <= index
  <2>1. SUFFICES ASSUME c \in step.add PROVE \E p \in Holding(TakeOf(c)) : p <= index
    BY <1>3
  <2>2. PICK t \in Takes : step.add = {<<t, "copy">>} /\ Own(t) \in listed
    BY <2>1 DEF UserSteps
  <2>3. c = <<t, "copy">> /\ TakeOf(c) = t /\ Own(t) \in Clips /\ TakeOf(Own(t)) = t
    BY <2>1, <2>2, OwnClip DEF TakeOf
  <2>4. PICK d \in Clips : TakeOf(d) = t /\ d \in listed /\ d \notin ClipsOf(sessionTakes)
    <3>1. CASE t \notin sessionTakes
      <4>1. Own(t) \notin ClipsOf(sessionTakes)
        BY <3>1, OwnClips DEF TypeOK
      <4>2. QED
        BY <2>2, <2>3, <4>1
    <3>2. CASE t \in sessionTakes
      <4>1. t \notin Edited
        BY <2>3, <3>2
      <4>2. c \in listed
        BY <1>2, <2>1, <2>3, <4>1 DEF Done, Edited
      <4>3. c \notin ClipsOf(sessionTakes)
        <5>1. c # Own(t)
          BY <2>3 DEF Own
        <5>2. QED
          BY <2>3, <5>1, OwnClips DEF TypeOK
      <4>4. QED
        BY <2>3, <4>2, <4>3
    <3>3. QED
      BY <3>1, <3>2
  <2>5. ClipOwned(d)
    BY <2>3, <2>4 DEF ClipsOwned
  <2>6. PICK i \in 1 .. index : Stays(stack[i].steps, d)
    BY <2>4, <2>5 DEF ClipOwned, ListedBy
  <2>7. PICK p \in Holding(t) : p <= i
    <3>1. i \in 1 .. Len(stack)
      BY <1>4
    <3>2. QED
      BY <2>4, <2>5, <2>6, <3>1 DEF ClipOwned, StaysAbove
  <2>8. p \in Nat
    BY <1>4, <2>7 DEF Holding, TypeOK
  <2>9. p <= index
    BY <1>4, <2>6, <2>7, <2>8
  <2>10. QED
    BY <2>3, <2>7, <2>9
<1>8. c \in listed' => \/ c \in ClipsOf(sessionTakes') \/ Stays(cmd.steps, c)
                       \/ \E i \in 1 .. index : Stays(stack[i].steps, c)
  BY <1>2, <1>3, <1>4, <1>5 DEF ClipOwned, ListedBy
<1>9. QED
  BY <1>2, <1>4, <1>6, <1>7, <1>8, ClipsPushed

LEMMA EarlyGrows ==
  ASSUME [MCNext]_<<vars, early>>
  PROVE  /\ [Next]_vars /\ early \subseteq early'
         /\ \A step : Edit(step) /\ TypeOK => early' = early \cup (Edited \cap sessionTakes)
<1>1. [Next]_vars /\ early \subseteq early'
  BY DEF MCNext
<1>2. ASSUME NEW step, Edit(step), TypeOK PROVE early' = early \cup (Edited \cap sessionTakes)
  <2>1. edits' # edits
    BY <1>2 DEF Edit, TypeOK
  <2>2. MCNext
    BY <2>1 DEF vars
  <2>3. QED
    BY <2>1, <2>2 DEF MCNext
<1>3. QED
  BY <1>1, <1>2

LEMMA ClipsStep ==
  ASSUME TypeOK, Owners, SessionOf(sessionSteps, sessionTakes), ClipsOwned,
         [MCNext]_<<vars, early>>
  PROVE  ClipsOwned'
<1> SUFFICES ASSUME NEW c \in Clips, TakeOf(c) \notin early' PROVE ClipOwned(c)'
  BY DEF ClipsOwned
<1>1. ClipOwned(c) /\ TakeOf(c) \notin early
  BY EarlyGrows DEF ClipsOwned
<1>2. CASE UNCHANGED <<listed, stack, index, sessionTakes>>
  BY <1>1, <1>2, ClipsWithStack
<1>3. ASSUME NEW S \in SUBSET Takes, PrepareRecording(S) \/ SplitTakes(S) PROVE ClipOwned(c)'
  BY <1>1, <1>3, ClipsStart DEF PrepareRecording, SplitTakes, stackVars
<1>4. ASSUME NEW t \in Takes, NEW empty \in BOOLEAN, ClipFinished(t, empty) PROVE ClipOwned(c)'
  BY <1>1, <1>4, ClipsEnd
<1>5. CASE Undo \/ Redo \/ DiscardLastRecording
  BY <1>1, <1>5, ClipsUndo, ClipsRedo, ClipsDiscardLast
<1>6. ASSUME NEW step \in UserSteps, Edit(step) PROVE ClipOwned(c)'
  <2>1. TakeOf(c) \notin Edited \cap sessionTakes
    BY <1>6, EarlyGrows
  <2>2. QED
    BY <1>1, <1>6, <2>1, ClipsEdit
<1>7. [Next]_vars
  BY EarlyGrows
<1>8. QED
  BY <1>2, <1>3, <1>4, <1>5, <1>6, <1>7
  DEF Next, DiscardTakes, TransportStopped, Save, Close, vars, sessionVars, stackVars

-----------------------------------------------------------------------------
(* The files.                                                               *)

LEMMA FilesInit == MCInit => FilesKept
<1> SUFFICES ASSUME MCInit PROVE FilesKept
  OBVIOUS
<1>1. /\ stack = <<>> /\ sessionTakes = {} /\ known = {} /\ saved = {} /\ doomed = {}
  BY DEF MCInit, Init
<1>2. \A t : ~InProject(t)
  BY <1>1 DEF InProject, Holding
<1>3. QED
  BY <1>1, <1>2 DEF FilesKept

\* Files stay, and nothing comes into the project.
LEMMA FilesStay ==
  ASSUME FilesKept, open, UNCHANGED <<files, saved>>, early \subseteq early',
         NEW gone, doomed' \subseteq doomed \cup gone,
         \A t \in Takes : InProject(t)' => InProject(t) /\ t \notin gone,
         \A t \in gone : status[t] # "none",
         \A t \in doomed \cup gone : status[t] # "none" => status'[t] # "none"
  PROVE  FilesKept'
  BY DEF FilesKept

\* A clip in a track is of a take in the project, unless it was edited early.
LEMMA ListedInProject ==
  ASSUME TypeOK', ClipsOwned', NEW c \in listed', TakeOf(c) \notin early'
  PROVE  TakeOf(c) \in Takes /\ InProject(TakeOf(c))'
<1>1. c \in Clips /\ TakeOf(c) \in Takes
  BY DEF TypeOK, Clips, TakeOf
<1>2. ClipOwned(c)'
  BY <1>1 DEF ClipsOwned
<1>3. CASE c \in ClipsOf(sessionTakes')
  <2>1. sessionTakes' \in SUBSET Takes
    BY DEF TypeOK
  <2>2. TakeOf(c) \in sessionTakes'
    BY <1>3, <2>1, OwnClips
  <2>3. QED
    BY <1>1, <2>2 DEF InProject
<1>4. CASE c \notin ClipsOf(sessionTakes')
  <2>1. PICK i \in 1 .. index' : Stays(stack'[i].steps, c)
    BY <1>2, <1>4 DEF ClipOwned, ListedBy
  <2>2. i \in 1 .. Len(stack')
    BY <2>1 DEF TypeOK
  <2>3. Holding(TakeOf(c))' # {}
    BY <1>2, <2>1, <2>2 DEF ClipOwned, StaysAbove
  <2>4. QED
    BY <1>1, <2>3 DEF InProject
<1>5. QED
  BY <1>3, <1>4

\* A save names nothing whose file it deletes.
LEMMA FilesOfSave ==
  ASSUME FilesKept, early \subseteq early', NEW gone, SaveFiles(known', listed', gone),
         \A t \in Named(known', listed') \ early' : t \in files /\ t \notin gone
  PROVE  /\ saved' \ early' \subseteq files'
         /\ doomed' \subseteq gone
         /\ \A t : t \in files /\ t \notin gone => t \in files'
  BY DEF FilesKept, SaveFiles

LEMMA FilesSaved ==
  ASSUME TypeOK', ClipsOwned', FilesKept, early \subseteq early',
         NEW gone, SaveFiles(known', listed', gone),
         \A t \in Takes : InProject(t)' => t \in files /\ t \notin gone,
         \A t \in gone : status'[t] # "none"
  PROVE  FilesKept'
<1>1. ASSUME NEW t \in Named(known', listed') \ early' PROVE t \in files /\ t \notin gone
  <2>1. CASE t \in known'
    BY <2>1 DEF InProject, TypeOK
  <2>2. CASE t \notin known'
    <3>1. PICK c \in listed' : t = TakeOf(c)
      BY <1>1, <2>2 DEF Named
    <3>2. t \in Takes /\ InProject(t)'
      BY <1>1, <3>1, ListedInProject
    <3>3. QED
      BY <3>2
  <2>3. QED
    BY <2>1, <2>2
<1>2. /\ saved' \ early' \subseteq files'
      /\ doomed' \subseteq gone
      /\ \A t : t \in files /\ t \notin gone => t \in files'
  BY <1>1, FilesOfSave
<1>3. QED
  BY <1>2 DEF FilesKept

LEMMA FilesStart ==
  ASSUME TypeOK, FilesKept, open, NEW S \in SUBSET Fresh, NEW st, st = status \/ st = Finishing,
         StartTakes(S, st), UNCHANGED <<stack, doomed, saved, open>>, early \subseteq early'
  PROVE  FilesKept'
<1>1. known' = known \cup S /\ files' = files \cup S /\ sessionTakes' \subseteq sessionTakes \cup S
  BY DEF StartTakes, sessionVars
<1>2. \A t : Holding(t)' = Holding(t)
  BY DEF Holding
<1>3. \A t \in Takes : InProject(t)' => InProject(t) \/ t \in S
  BY <1>1, <1>2 DEF InProject
<1>4. \A t \in S : status[t] = "none"
  BY DEF Fresh
<1>5. \A t \in Takes : status[t] # "none" => status'[t] # "none"
  BY DEF StartTakes, Finishing
<1>6. doomed \subseteq Takes /\ \A t \in doomed : status[t] # "none"
  BY DEF TypeOK, FilesKept
<1>7. QED
  BY <1>1, <1>3, <1>4, <1>5, <1>6 DEF FilesKept

\* What a discard takes out of the project has no owner left.
LEMMA FilesDiscard ==
  ASSUME TypeOK, Owners, FilesKept, NEW S \in SUBSET Takes, DiscardTakes(S), early \subseteq early'
  PROVE  FilesKept'
<1>1. /\ open /\ S \in discards /\ UNCHANGED <<files, saved, stack, sessionTakes, status>>
      /\ known' \subseteq known
  BY DEF DiscardTakes, DeleteTakes, sessionVars, stackVars
<1>2. \A t : Holding(t)' = Holding(t)
  BY <1>1 DEF Holding
<1>3. \A t \in Takes : InProject(t)' => InProject(t)
  BY <1>1, <1>2 DEF InProject
<1>4. PICK gone \in SUBSET Discardable(S) :
        doomed' \subseteq doomed \cup gone /\ known' \cap gone = {}
  <2>1. CASE DeleteTakes(Discardable(S))
    <3>1. known' = known \ Discardable(S) /\ doomed' \subseteq doomed \cup Discardable(S)
      BY <2>1 DEF DeleteTakes
    <3>2. QED
      BY <3>1
  <2>2. CASE UNCHANGED <<known, doomed>>
    <3>1. doomed' \subseteq doomed \cup {} /\ known' \cap {} = {} /\ {} \in SUBSET Discardable(S)
      BY <2>2
    <3>2. QED
      BY <3>1
  <2>3. QED
    BY <2>1, <2>2 DEF DiscardTakes
<1>5. ASSUME NEW t \in gone
      PROVE  t \in Takes /\ status[t] # "none" /\ t \notin sessionTakes /\ Holding(t) = {}
  <2>1. t \in S /\ t \in Takes
    BY <1>4 DEF Discardable
  <2>2. Queued(t) # {}
    BY <1>1, <2>1 DEF Queued
  <2>3. OwnerOf(t)
    BY <2>1 DEF Owners
  <2>4. QED
    BY <2>1, <2>2, <2>3 DEF OwnerOf, Apart
<1>6. \A t \in Takes : InProject(t)' => t \notin gone
  BY <1>1, <1>2, <1>4, <1>5 DEF InProject
<1>7. QED
  BY <1>1, <1>3, <1>4, <1>5, <1>6, FilesStay

\* The end of a take: an empty one leaves the project, and what comes to the
\* stack was the session's.
LEMMA EndInProject ==
  ASSUME TypeOK, Owners, NEW t \in Takes, NEW empty \in BOOLEAN, ClipFinished(t, empty),
         NEW u \in Takes, InProject(u)'
  PROVE  InProject(u) /\ ~(empty /\ u = t)
<1>1. t \in sessionTakes
  BY EndIsOfSession
<1>2. known' = IF empty THEN known \ {t} ELSE known
  BY ClipFinishedIs DEF DropEmptyTake
<1>3. EndTakes(t, empty) = IF empty THEN sessionTakes \ {t} ELSE sessionTakes
  BY DEF EndTakes
<1>4. sessionTakes' \subseteq EndTakes(t, empty)
  BY ClipFinishedIs DEF PushRecordingSession
<1>5. Holding(u)' # {} => Holding(u) # {} \/ u \in EndTakes(t, empty)
  <2>1. CASE UNCHANGED stack
    BY <2>1 DEF Holding
  <2>2. CASE ~UNCHANGED stack
    <3>1. PushRecordingSession(EndSteps(t, empty), EndTakes(t, empty))
      BY <2>2, ClipFinishedIs
    <3>2. PICK cmd : cmd = [steps |-> EndSteps(t, empty), takes |-> EndTakes(t, empty)]
      OBVIOUS
    <3>3. Push(cmd) /\ cmd.takes = EndTakes(t, empty)
      BY <2>2, <3>1, <3>2 DEF PushRecordingSession, stackVars
    <3>4. cmd \in Commands
      <4>1. Removing({t}) \in Steps
        BY SessionSteps
      <4>2. EndSteps(t, empty) \in Seq(Steps) /\ EndTakes(t, empty) \in SUBSET Takes
        BY <4>1 DEF EndSteps, EndTakes, TypeOK
      <4>3. QED
        BY <3>2, <4>2 DEF Commands
    <3>5. \A i : i \in Holding(u)' <=>
            (i \in Holding(u) /\ i <= index) \/ (i = index + 1 /\ u \in cmd.takes)
      BY <3>3, <3>4, PushHolds
    <3>6. QED
      BY <3>3, <3>5
  <2>3. QED
    BY <2>1, <2>2
<1>6. Holding(t) = {}
  BY <1>1 DEF Owners, OwnerOf
<1>7. QED
  BY <1>1, <1>2, <1>3, <1>4, <1>5, <1>6 DEF InProject

LEMMA FilesEnd ==
  ASSUME TypeOK, TypeOK', Owners, ClipsOwned', FilesKept, early \subseteq early',
         NEW t \in Takes, NEW empty \in BOOLEAN, ClipFinished(t, empty)
  PROVE  FilesKept'
<1>1. open /\ open'
  BY ClipFinishedIs
<1>2. \A u \in Takes : InProject(u)' => u \in files /\ u \notin EndGone(t, empty)
  BY <1>1, EndInProject DEF EndGone, FilesKept
<1>3. \A u \in EndGone(t, empty) : status'[u] # "none"
  <2>1. \A u \in Takes \ {t} : status'[u] = status[u]
    BY EndRecording
  <2>2. status'[t] = "written"
    BY EndRecording
  <2>3. \A u \in EndGone(t, empty) : u = t \/ u \in doomed
    BY DEF EndGone
  <2>4. doomed \subseteq Takes /\ \A u \in doomed : status[u] # "none"
    BY <1>1 DEF TypeOK, FilesKept
  <2>5. QED
    BY <2>1, <2>2, <2>3, <2>4
<1>4. CASE RecordingClips = {t}
  <2>1. SaveFiles(known', listed', EndGone(t, empty))
    BY <1>4, ClipFinishedIs
  <2>2. QED
    BY <1>2, <1>3, <2>1, FilesSaved
<1>5. CASE RecordingClips # {t}
  <2>1. doomed' = EndGone(t, empty) /\ UNCHANGED <<files, saved>>
    BY <1>5, ClipFinishedIs
  <2>2. saved' \ early' \subseteq files'
    BY <2>1 DEF FilesKept
  <2>3. QED
    BY <1>2, <1>3, <2>1, <2>2 DEF FilesKept
<1>6. QED
  BY <1>4, <1>5

\* The project closes: what it discards is of no clip in a track.
LEMMA FilesClose ==
  ASSUME TypeOK, TypeOK', ClipsOwned', FilesKept, Close, early \subseteq early'
  PROVE  FilesKept'
<1>1. /\ open /\ ~open' /\ UNCHANGED <<listed, stack, sessionTakes>>
  BY DEF Close, sessionVars, stackVars
<1>2. PICK undone : \E S \in {Discardable(undone), {}} :
        /\ known' = known \ S
        /\ \/ SaveFiles(known', listed, doomed \cup S)
           \/ UNCHANGED <<files, saved>>
  BY DEF Close
<1>3. PICK S \in {Discardable(undone), {}} :
        /\ known' = known \ S
        /\ \/ SaveFiles(known', listed', doomed \cup S)
           \/ UNCHANGED <<files, saved>>
  BY <1>1, <1>2
<1>4. \A t \in S : ~InUse(t)
  BY DEF Discardable
<1>5. \A t \in Takes : InProject(t)' => InProject(t)
  <2>1. \A t : Holding(t)' = Holding(t)
    BY <1>1 DEF Holding
  <2>2. QED
    BY <1>1, <1>3, <2>1 DEF InProject
<1>6. CASE SaveFiles(known', listed', doomed \cup S)
  <2>1. ASSUME NEW t \in Named(known', listed') \ early'
        PROVE  t \in files /\ t \notin doomed \cup S
    <3>1. t \in Takes /\ InProject(t)' /\ t \notin S
      <4>1. CASE t \in known'
        BY <1>3, <4>1 DEF InProject, TypeOK
      <4>2. CASE t \notin known'
        <5>1. PICK c \in listed' : t = TakeOf(c)
          BY <2>1, <4>2 DEF Named
        <5>2. InUse(t)
          BY <1>1, <5>1 DEF InUse
        <5>3. QED
          BY <1>4, <2>1, <5>1, <5>2, ListedInProject
      <4>3. QED
        BY <4>1, <4>2
    <3>2. InProject(t)
      BY <1>5, <3>1
    <3>3. QED
      BY <1>1, <3>1, <3>2 DEF FilesKept
  <2>2. saved' \ early' \subseteq files'
    BY <1>6, <2>1, FilesOfSave
  <2>3. QED
    BY <1>1, <2>2 DEF FilesKept
<1>7. CASE UNCHANGED <<files, saved>>
  BY <1>1, <1>7 DEF FilesKept
<1>8. QED
  BY <1>3, <1>6, <1>7

\* The other steps leave the files, and bring nothing into the project.
LEMMA FilesOthers ==
  ASSUME TypeOK, FilesKept, early \subseteq early',
         TransportStopped \/ Undo \/ Redo \/ DiscardLastRecording
         \/ \E step \in UserSteps : Edit(step)
  PROVE  FilesKept'
<1>1. open /\ UNCHANGED <<files, saved, doomed, known, sessionTakes>>
  BY DEF TransportStopped, Undo, Redo, DiscardLastRecording, Edit, sessionVars, diskVars
<1>2. ASSUME NEW t \in Takes PROVE Holding(t)' \subseteq Holding(t)
  <2>1. CASE DiscardLastRecording
    BY <2>1, DiscardLastIs
  <2>2. ASSUME NEW step \in UserSteps, Edit(step) PROVE Holding(t)' \subseteq Holding(t)
    <3>1. PICK cmd \in Commands : Push(cmd) /\ cmd.takes = {}
      BY <2>2, UserStepTypes DEF Edit
    <3>2. QED
      BY <3>1, PushHolds
  <2>3. CASE UNCHANGED stack
    BY <2>3 DEF Holding
  <2>4. QED
    BY <2>1, <2>2, <2>3 DEF TransportStopped, Undo, Redo, stackVars
<1>3. \A t \in Takes : InProject(t)' => InProject(t)
  BY <1>1, <1>2 DEF InProject
<1>4. \A t \in Takes : status[t] # "none" => status'[t] # "none"
  BY DEF TransportStopped, Undo, Redo, DiscardLastRecording, Edit, Finishing
<1>5. \A t \in doomed : status[t] # "none"
  BY <1>1 DEF FilesKept
<1>6. doomed \subseteq Takes
  BY DEF TypeOK
<1>7. QED
  BY <1>1, <1>3, <1>4, <1>5, <1>6 DEF FilesKept

LEMMA FilesStep ==
  ASSUME TypeOK, TypeOK', Owners, ClipsOwned', FilesKept, [MCNext]_<<vars, early>>
  PROVE  FilesKept'
<1>1. early \subseteq early' /\ [Next]_vars
  BY EarlyGrows
<1>2. ASSUME NEW S \in SUBSET Takes, PrepareRecording(S) \/ SplitTakes(S) PROVE FilesKept'
  <2>1. PICK st : (st = status \/ st = Finishing) /\ StartTakes(S, st)
    BY <1>2 DEF PrepareRecording, SplitTakes
  <2>2. S \in SUBSET Fresh /\ open /\ UNCHANGED <<stack, doomed, saved, open>>
    BY <1>2 DEF PrepareRecording, SplitTakes, stackVars
  <2>3. QED
    BY <1>1, <2>1, <2>2, FilesStart
<1>3. ASSUME NEW S \in SUBSET Takes, DiscardTakes(S) PROVE FilesKept'
  BY <1>1, <1>3, FilesDiscard
<1>4. ASSUME NEW t \in Takes, NEW empty \in BOOLEAN, ClipFinished(t, empty) PROVE FilesKept'
  BY <1>1, <1>4, FilesEnd
<1>5. CASE TransportStopped \/ Undo \/ Redo \/ DiscardLastRecording
           \/ \E step \in UserSteps : Edit(step)
  BY <1>1, <1>5, FilesOthers
<1>6. CASE Save
  <2>1. /\ open /\ UNCHANGED <<known, listed, stack, sessionTakes, status>>
        /\ SaveFiles(known', listed', doomed)
    BY <1>6 DEF Save, sessionVars, stackVars
  <2>2. \A t \in Takes : InProject(t)' => t \in files /\ t \notin doomed
    BY <2>1 DEF InProject, Holding, FilesKept
  <2>3. \A t \in doomed : status'[t] # "none"
    BY <2>1 DEF FilesKept
  <2>4. QED
    BY <1>1, <2>1, <2>2, <2>3, FilesSaved
<1>7. CASE Close
  BY <1>1, <1>7, FilesClose
<1>8. CASE UNCHANGED vars
  BY <1>1, <1>8 DEF vars, sessionVars, stackVars, diskVars, FilesKept, InProject, Holding
<1>9. QED
  BY <1>1, <1>2, <1>3, <1>4, <1>5, <1>6, <1>7, <1>8 DEF Next

-----------------------------------------------------------------------------
(* The theorems.                                                            *)

LEMMA InvHolds == MCSpec => []IInv
<1>1. MCInit => IInv
  <2>1. MCInit => SessionOf(sessionSteps, sessionTakes)
    BY NoSession DEF MCInit, Init
  <2>2. QED
    BY <2>1, TypesInit, OwnersInit, ClipsInit, FilesInit DEF IInv
<1>2. IInv /\ [MCNext]_<<vars, early>> => IInv'
  <2> SUFFICES ASSUME IInv, [MCNext]_<<vars, early>> PROVE IInv'
    OBVIOUS
  <2>1. [Next]_vars
    BY EarlyGrows
  <2>2. TypeOK' /\ Owners' /\ SessionOf(sessionSteps, sessionTakes)'
    BY <2>1, TypesStep, OwnersStep, SessionStep DEF IInv
  <2>3. ClipsOwned'
    BY ClipsStep DEF IInv
  <2>4. FilesKept'
    BY <2>2, <2>3, FilesStep DEF IInv
  <2>5. QED
    BY <2>2, <2>3, <2>4 DEF IInv
<1>3. QED
  BY <1>1, <1>2, PTL DEF MCSpec

\* What the commands, the session and the discards hold stays of its kind, and
\* the undo stack's index in the stack.
THEOREM TypesHold == MCSpec => []TypeOK
<1>1. IInv => TypeOK
  BY DEF IInv
<1>2. QED
  BY <1>1, InvHolds, PTL

\* A set of at most one element has none or one.
LEMMA AtMostOne ==
  ASSUME NEW S, \A a, b \in S : a = b
  PROVE  Cardinality(S) \in {0, 1} /\ (S = {} => Cardinality(S) = 0)
<1>1. CASE S = {}
  BY <1>1, FS_EmptySet
<1>2. CASE S # {}
  <2>1. PICK a : S = {a}
    BY <1>2
  <2>2. QED
    BY <1>2, <2>1, FS_Singleton
<1>3. QED
  BY <1>1, <1>2

\* A take is the session's, one command's or one queued discard's, so that it
\* is pushed, dropped and discarded once, and one that is in its track can be
\* undone: for any number of takes, sessions, splits and edits, wherever the
\* user undoes and redoes them between the ends of the takes.
THEOREM TakesHaveOneOwner == MCSpec => []TakesOwned
<1>1. IInv => TakesOwned
  <2> SUFFICES ASSUME IInv PROVE TakesOwned
    OBVIOUS
  <2>1. ASSUME NEW t \in Takes
        PROVE  /\ Cardinality(Holding(t)) + Cardinality(Queued(t)) <= 1
               /\ t \in sessionTakes => Holding(t) = {} /\ Queued(t) = {}
    <3>1. OwnerOf(t)
      BY DEF IInv, Owners
    <3>2. /\ Cardinality(Holding(t)) \in {0, 1} /\ (Holding(t) = {} => Cardinality(Holding(t)) = 0)
          /\ Cardinality(Queued(t)) \in {0, 1} /\ (Queued(t) = {} => Cardinality(Queued(t)) = 0)
      BY <3>1, AtMostOne DEF OwnerOf, Apart
    <3>3. Holding(t) = {} \/ Queued(t) = {}
      BY <3>1 DEF OwnerOf, Apart
    <3>4. QED
      BY <3>1, <3>2, <3>3 DEF OwnerOf
  <2>2. OneOwner
    BY <2>1 DEF OneOwner, IInv, Owners
  <2>3. ASSUME NEW t \in Takes \ early, Own(t) \in listed, t \notin sessionTakes
        PROVE  \E i \in Holding(t) : i <= index
    <3>1. Own(t) \in Clips /\ TakeOf(Own(t)) = t
      BY OwnClip
    <3>2. ClipOwned(Own(t))
      BY <3>1 DEF IInv, ClipsOwned
    <3>3. Own(t) \notin ClipsOf(sessionTakes)
      BY <2>3, OwnClips DEF IInv, TypeOK
    <3>4. PICK i \in 1 .. index : Stays(stack[i].steps, Own(t))
      BY <2>3, <3>2, <3>3 DEF ClipOwned, ListedBy
    <3>5. index \in Nat /\ i \in 1 .. Len(stack) /\ Len(stack) \in Nat
      BY DEF IInv, TypeOK
    <3>6. PICK p \in Holding(t) : p <= i
      BY <3>1, <3>2, <3>4, <3>5 DEF ClipOwned, StaysAbove
    <3>7. p \in Nat
      BY <3>6 DEF Holding, IInv, TypeOK
    <3>8. p <= index
      BY <3>4, <3>5, <3>6, <3>7
    <3>9. QED
      BY <3>6, <3>8
  <2>4. QED
    BY <2>2, <2>3 DEF TakesOwned, Undoable
<1>2. QED
  BY <1>1, InvHolds, PTL

\* The project file on the disk names only takes whose audio is there, at every
\* moment and after every save that failed halfway: the files of discarded takes
\* are deleted only when no command can bring their clips back.
THEOREM SavedTakesHaveFiles == MCSpec => []SavedHasFiles
<1>1. IInv => SavedHasFiles
  BY DEF IInv, FilesKept, SavedHasFiles
<1>2. QED
  BY <1>1, InvHolds, PTL
=============================================================================
