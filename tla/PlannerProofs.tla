--------------------------- MODULE PlannerProofs ----------------------------
(***************************************************************************)
(* Proofs about Planner: whatever the language model answers, the plan a   *)
(* run follows is sound, salvage keeps what an answer means, revisions     *)
(* leave completed steps alone, and the graph engine's limit is never met. *)
(*                                                                         *)
(* The first part is about the operators that repair an answer, for every  *)
(* answer and every limit; the second about the run that follows the plan. *)
(***************************************************************************)
EXTENDS Planner, FiniteSetTheorems, FunctionTheorems, SequenceTheorems, WellFoundedInduction, TLAPS

-----------------------------------------------------------------------------
(* Numbers and places. *)

\* A nonempty set of naturals has a least member: it takes the place of induction, since
\* the least counterexample of a claim about n is what the claim for n - 1 refutes.
LEMMA LeastNat ==
  ASSUME NEW S, S \subseteq Nat, S # {}
  PROVE  \E x \in S : \A y \in S : x <= y
<1> DEFINE T == {0 .. x : x \in S}
<1>1. T \subseteq FiniteSubsetsOf(Nat) /\ T # {}
  <2>1. \A x \in Nat : 0 .. x \subseteq Nat /\ IsFiniteSet(0 .. x)
    BY FS_Interval
  <2> QED  BY <2>1 DEF FiniteSubsetsOf
<1>2. \E t \in T : \A u \in T : <<u, t>> \notin StrictSubsetOrdering(Nat)
  <2> HIDE DEF T
  <2> QED  BY <1>1, FS_StrictSubsetOrderingWellFounded, WFMin
<1>3. PICK x \in S : \A y \in S : <<0 .. y, 0 .. x>> \notin StrictSubsetOrdering(Nat)
  BY <1>2
<1>4. ASSUME NEW y \in S, y < x  PROVE  FALSE
  <2>1. 0 .. y \subseteq 0 .. x /\ 0 .. y # 0 .. x
    BY <1>4
  <2>2. 0 .. y \in SUBSET Nat /\ 0 .. x \in SUBSET Nat
    OBVIOUS
  <2> QED  BY <1>3, <2>1, <2>2 DEF StrictSubsetOrdering
<1> QED  BY <1>4

\* When every two members of a finite set compare, the number of members up to one of them
\* is its place: the places are 1 .. Cardinality(S), each taken once.
LEMMA RankIsPlace ==
  ASSUME NEW S, IsFiniteSet(S), NEW B \in [S -> SUBSET S],
         \A a \in S : a \in B[a],
         \A a, b \in S : a # b => \/ B[a] \subseteq B[b] /\ b \notin B[a]
                                  \/ B[b] \subseteq B[a] /\ a \notin B[b]
  PROVE  /\ \A a \in S : Cardinality(B[a]) \in 1 .. Cardinality(S)
         /\ \A a, b \in S : Cardinality(B[a]) = Cardinality(B[b]) => a = b
         /\ \A place \in 1 .. Cardinality(S) : \E a \in S : Cardinality(B[a]) = place
<1>1. \A a \in S : IsFiniteSet(B[a]) /\ Cardinality(B[a]) \in 1 .. Cardinality(S)
  <2> SUFFICES ASSUME NEW a \in S
               PROVE  IsFiniteSet(B[a]) /\ Cardinality(B[a]) \in 1 .. Cardinality(S)
    OBVIOUS
  <2>1. IsFiniteSet(B[a]) /\ Cardinality(B[a]) <= Cardinality(S)
    BY FS_Subset
  <2>2. Cardinality(B[a]) \in Nat /\ Cardinality(S) \in Nat
    BY <2>1, FS_CardinalityType
  <2>3. Cardinality(B[a]) # 0
    BY <2>1, FS_EmptySet
  <2> QED  BY <2>1, <2>2, <2>3
<1>2. ASSUME NEW a \in S, NEW b \in S, Cardinality(B[a]) = Cardinality(B[b])  PROVE  a = b
  <2>1. ASSUME NEW c \in S, NEW d \in S, B[c] \subseteq B[d], Cardinality(B[c]) = Cardinality(B[d])
        PROVE  B[c] = B[d]
    BY <1>1, <2>1, FS_Subset
  <2> QED  BY <1>2, <2>1
<1>3. ASSUME NEW place \in 1 .. Cardinality(S)  PROVE  \E a \in S : Cardinality(B[a]) = place
  <2> DEFINE P == 1 .. Cardinality(S)
             f == [a \in S |-> Cardinality(B[a])]
  <2>1. Cardinality(S) \in Nat
    BY FS_CardinalityType
  <2>2. IsFiniteSet(P) /\ Cardinality(P) = Cardinality(S)
    BY <2>1, FS_Interval
  <2>3. f \in Injection(S, P)
    BY <1>1, <1>2 DEF Injection, IsInjective
  <2>4. f \in Surjection(S, P)
    <3> HIDE DEF f, P
    <3> QED  BY <2>2, <2>3, FS_Injection
  <2> QED  BY <2>4 DEF Surjection
<1> QED  BY <1>1, <1>2, <1>3

-----------------------------------------------------------------------------
(* What survives coercion. *)

\* The recursive function of Kept is defined for every number of entries.
LEMMA KeptRecursion ==
  ASSUME NEW payload \in Seq(Entry), NEW looked \in Nat
  PROVE  \E k : k = [n \in 0 .. looked |-> IF n = 0 THEN << >> ELSE Keep(k[n - 1], payload[n])]
<1> DEFINE Bad == {m \in Nat : ~ \E k : k = [n \in 0 .. m |-> IF n = 0 THEN << >> ELSE Keep(k[n - 1], payload[n])]}
<1>1. ASSUME Bad # {}  PROVE  FALSE
  <2>1. PICK m \in Bad : \A o \in Bad : m <= o
    <3>1. Bad \subseteq Nat
      OBVIOUS
    <3> HIDE DEF Bad
    <3> QED  BY <1>1, <3>1, LeastNat
  <2>2. m # 0
    <3> DEFINE k == [n \in 0 .. 0 |-> << >>]
    <3>1. k = [n \in 0 .. 0 |-> IF n = 0 THEN << >> ELSE Keep(k[n - 1], payload[n])]
      OBVIOUS
    <3> QED  BY <3>1
  <2>3. PICK h : h = [n \in 0 .. m - 1 |-> IF n = 0 THEN << >> ELSE Keep(h[n - 1], payload[n])]
    BY <2>1, <2>2
  <2> DEFINE k == [n \in 0 .. m |-> IF n = m THEN Keep(h[m - 1], payload[m]) ELSE h[n]]
  <2>4. \A n \in 0 .. m : k[n] = IF n = 0 THEN << >> ELSE Keep(k[n - 1], payload[n])
    <3> TAKE n \in 0 .. m
    <3>1. CASE n = m
      BY <2>2, <3>1
    <3>2. CASE n < m
      <4>1. k[n] = h[n] /\ n \in 0 .. m - 1
        BY <3>2
      <4>2. n # 0 => k[n - 1] = h[n - 1]
        BY <3>2
      <4>3. h[n] = IF n = 0 THEN << >> ELSE Keep(h[n - 1], payload[n])
        BY <2>3, <4>1, Zenon
      <4> QED  BY <4>1, <4>2, <4>3
    <3> QED  BY <3>1, <3>2
  <2>5. k = [n \in 0 .. m |-> IF n = 0 THEN << >> ELSE Keep(k[n - 1], payload[n])]
    <3> HIDE DEF k
    <3>1. k = [n \in 0 .. m |-> k[n]]
      BY DEF k
    <3> QED  BY <2>4, <3>1
  <2> QED  BY <2>5
<1> QED  BY <1>1

\* What the loop keeps: entries of known agents, each with a number of its own, that
\* read from lower numbers only.
Sieved(k) ==
    /\ k \in Seq(Entry)
    /\ \A n \in DOMAIN k : k[n].agent \in KnownAgents /\ k[n].index # 0
    /\ \A n \in DOMAIN k : \A ref \in k[n].refs : ref < k[n].index
    /\ \A m, n \in DOMAIN k : k[m].index = k[n].index => m = n

\* One entry more leaves what was kept sieved.
LEMMA KeepSieves ==
  ASSUME NEW k, Sieved(k), NEW e \in Entry
  PROVE  Sieved(Keep(k, e)) /\ Len(Keep(k, e)) <= Len(k) + 1
<1> DEFINE i == Claimed(e, k)
           new == [e EXCEPT !.index = i, !.refs = {ref \in e.refs : ref < i}]
<1>1. k \in Seq(Entry) /\ Len(k) \in Nat
  BY DEF Sieved
<1>2. i \in Nat /\ i # 0
  BY <1>1 DEF Claimed, Entry
<1>3. CASE e.agent \notin KnownAgents \/ \E n \in DOMAIN k : k[n].index = i
  <2>1. Keep(k, e) = k
    BY <1>3 DEF Keep
  <2> QED  BY <2>1, <1>1
<1>4. CASE ~(e.agent \notin KnownAgents \/ \E n \in DOMAIN k : k[n].index = i)
  <2>1. Keep(k, e) = Append(k, new)
    BY <1>4 DEF Keep
  <2>2. /\ new \in Entry /\ new.index = i /\ new.agent \in KnownAgents
        /\ \A ref \in new.refs : ref < i
    BY <1>2, <1>4 DEF Entry
  <2> HIDE DEF new, i
  <2> DEFINE l == Append(k, new)
  <2>3. /\ l \in Seq(Entry) /\ Len(l) = Len(k) + 1 /\ DOMAIN l = 1 .. Len(k) + 1
        /\ DOMAIN k = 1 .. Len(k)
        /\ l[Len(k) + 1] = new /\ \A n \in 1 .. Len(k) : l[n] = k[n]
    BY <1>1, <2>2
  <2> HIDE DEF l
  <2>4. \A n \in DOMAIN l : n = Len(k) + 1 \/ n \in DOMAIN k
    BY <1>1, <2>3
  <2>5. Sieved(l)
    BY <1>1, <1>2, <1>4, <2>2, <2>3, <2>4 DEF Sieved
  <2> QED  BY <2>1, <2>3, <2>5 DEF l
<1> QED  BY <1>3, <1>4

\* What is kept, entry by entry.
LEMMA KeptUnfolds ==
  ASSUME NEW payload \in Seq(Entry)
  PROVE  LET looked == IF Len(payload) < MaxSteps THEN Len(payload) ELSE MaxSteps
         IN  \E k : /\ Kept(payload) = k[looked]
                    /\ \A n \in 0 .. looked :
                          k[n] = IF n = 0 THEN << >> ELSE Keep(k[n - 1], payload[n])
<1> DEFINE looked == IF Len(payload) < MaxSteps THEN Len(payload) ELSE MaxSteps
           k == CHOOSE f : f = [n \in 0 .. looked |->
                    IF n = 0 THEN << >> ELSE Keep(f[n - 1], payload[n])]
<1>1. looked \in Nat
  BY BoundsAssumption
<1>2. Kept(payload) = k[looked]
  BY DEF Kept
<1> HIDE DEF looked
<1>3. k = [n \in 0 .. looked |-> IF n = 0 THEN << >> ELSE Keep(k[n - 1], payload[n])]
  BY <1>1, KeptRecursion
<1> HIDE DEF k
<1>4. \A n \in 0 .. looked : k[n] = IF n = 0 THEN << >> ELSE Keep(k[n - 1], payload[n])
  BY <1>3, Zenon
<1> QED  BY <1>2, <1>4 DEF looked

\* What is kept of an answer is sieved, and fits the limit.
LEMMA KeptIsSieved ==
  ASSUME NEW payload \in Seq(Entry)
  PROVE  Sieved(Kept(payload)) /\ Len(Kept(payload)) <= MaxSteps
<1> DEFINE looked == IF Len(payload) < MaxSteps THEN Len(payload) ELSE MaxSteps
<1>1. looked \in Nat /\ looked <= MaxSteps /\ \A n \in 1 .. looked : payload[n] \in Entry
  BY BoundsAssumption
<1>2. PICK k : /\ Kept(payload) = k[looked]
               /\ \A n \in 0 .. looked : k[n] = IF n = 0 THEN << >> ELSE Keep(k[n - 1], payload[n])
  BY KeptUnfolds
<1> DEFINE Bad == {n \in 0 .. looked : ~(Sieved(k[n]) /\ Len(k[n]) <= n)}
<1> HIDE DEF looked
<1>5. ASSUME Bad # {}  PROVE  FALSE
  <2>1. PICK m \in Bad : \A o \in Bad : m <= o
    <3>1. Bad \subseteq Nat
      BY <1>1
    <3> HIDE DEF Bad
    <3> QED  BY <1>5, <3>1, LeastNat
  <2>2. m \in 0 .. looked /\ ~(Sieved(k[m]) /\ Len(k[m]) <= m)
    OBVIOUS
  <2>3. CASE m = 0
    <3>1. k[0] = << >>
      BY <1>1, <1>2
    <3>2. << >> \in Seq(Entry) /\ Len(<< >>) = 0 /\ DOMAIN << >> = {}
      OBVIOUS
    <3>3. Sieved(<< >>)
      BY <3>2 DEF Sieved
    <3> QED  BY <2>2, <2>3, <3>1, <3>2, <3>3
  <2>4. CASE m # 0
    <3>1. m - 1 \in 0 .. looked /\ m - 1 \notin Bad /\ m \in 1 .. looked
      BY <1>1, <2>1, <2>2, <2>4
    <3>2. Sieved(k[m - 1]) /\ Len(k[m - 1]) <= m - 1
      BY <3>1
    <3>3. k[m] = Keep(k[m - 1], payload[m])
      BY <1>2, <2>2, <2>4
    <3>4. Sieved(k[m]) /\ Len(k[m]) <= Len(k[m - 1]) + 1
      BY <1>1, <3>1, <3>2, <3>3, KeepSieves
    <3>5. Len(k[m]) \in Nat /\ Len(k[m - 1]) \in Nat
      BY <3>2, <3>4 DEF Sieved
    <3> QED  BY <1>1, <2>2, <3>2, <3>4, <3>5
  <2> QED  BY <2>3, <2>4
<1>6. Sieved(k[looked]) /\ Len(k[looked]) <= looked
  BY <1>1, <1>5
<1>7. Len(k[looked]) \in Nat
  BY <1>6 DEF Sieved
<1> QED  BY <1>1, <1>2, <1>6, <1>7, BoundsAssumption

\* The place of a number among the numbers kept, and how the plan after it sees an entry.
Used(k) == {k[n].index : n \in DOMAIN k}
PlaceOf(k, i) == Cardinality({j \in Used(k) : j <= i})
StepsUpTo(k, i) == {n \in DOMAIN k : k[n].index <= i}
Moved(k, n) == [k[n] EXCEPT !.index = PlaceOf(k, k[n].index),
                            !.refs = {PlaceOf(k, ref) : ref \in k[n].refs \cap Used(k)}]

\* Counting numbers and counting entries comes to the same.
LEMMA PlaceCountsSteps ==
  ASSUME NEW k, Sieved(k), NEW i
  PROVE  PlaceOf(k, i) = Cardinality(StepsUpTo(k, i)) /\ IsFiniteSet(StepsUpTo(k, i))
<1> DEFINE S == StepsUpTo(k, i)
           T == {j \in Used(k) : j <= i}
           f == [n \in S |-> k[n].index]
<1>1. IsFiniteSet(S)
  <2>1. IsFiniteSet(DOMAIN k)
    BY FS_Interval DEF Sieved
  <2> QED  BY <2>1, FS_Subset DEF StepsUpTo
<1>2. f \in Surjection(S, T)
  BY DEF Surjection, StepsUpTo, Used
<1>3. f \in Injection(S, T)
  <2>1. f \in [S -> T]
    BY DEF StepsUpTo, Used
  <2>2. \A m, n \in S : f[m] = f[n] => m = n
    BY DEF StepsUpTo, Sieved
  <2> QED  BY <2>1, <2>2 DEF Injection, IsInjective
<1> HIDE DEF S, T, f
<1>4. Cardinality(T) = Cardinality(S)
  BY <1>1, <1>2, <1>3, FS_Surjection
<1> QED  BY <1>1, <1>4 DEF S, T, PlaceOf

\* The kept entries take the places 1 .. Len(k), in the order of their numbers.
LEMMA PlacesOfKept ==
  ASSUME NEW k, Sieved(k)
  PROVE  /\ \A n \in DOMAIN k : PlaceOf(k, k[n].index) \in 1 .. Len(k)
         /\ \A m, n \in DOMAIN k : PlaceOf(k, k[m].index) = PlaceOf(k, k[n].index) => m = n
         /\ \A place \in 1 .. Len(k) : \E n \in DOMAIN k : PlaceOf(k, k[n].index) = place
         /\ \A m, n \in DOMAIN k : k[m].index < k[n].index
                                     => PlaceOf(k, k[m].index) < PlaceOf(k, k[n].index)
<1> DEFINE S == DOMAIN k
           B == [n \in S |-> StepsUpTo(k, k[n].index)]
<1>1. k \in Seq(Entry) /\ Len(k) \in Nat /\ S = 1 .. Len(k)
  BY DEF Sieved
<1>2. IsFiniteSet(S) /\ Cardinality(S) = Len(k)
  BY <1>1, FS_Interval
<1>3. \A n \in S : k[n].index \in Nat
  <2>1. \A n \in S : k[n] \in Entry
    BY <1>1
  <2> QED  BY <2>1 DEF Entry
<1>4. \A n \in S : B[n] = StepsUpTo(k, k[n].index) /\ PlaceOf(k, k[n].index) = Cardinality(B[n])
  BY PlaceCountsSteps
<1>5. B \in [S -> SUBSET S]
  BY DEF StepsUpTo
<1>6. \A n \in S : n \in B[n]
  BY <1>3 DEF StepsUpTo
<1>7. ASSUME NEW m \in S, NEW n \in S, k[m].index < k[n].index
      PROVE  B[m] \subseteq B[n] /\ n \notin B[m]
  BY <1>3, <1>7 DEF StepsUpTo
<1>8. \A m, n \in S : m # n => \/ B[m] \subseteq B[n] /\ n \notin B[m]
                               \/ B[n] \subseteq B[m] /\ m \notin B[n]
  <2>1. \A m, n \in S : m # n => k[m].index < k[n].index \/ k[n].index < k[m].index
    BY <1>3 DEF Sieved
  <2> QED  BY <2>1, <1>7
<1>9. /\ \A n \in S : Cardinality(B[n]) \in 1 .. Cardinality(S)
      /\ \A m, n \in S : Cardinality(B[m]) = Cardinality(B[n]) => m = n
      /\ \A place \in 1 .. Cardinality(S) : \E n \in S : Cardinality(B[n]) = place
  <2> HIDE DEF S, B
  <2> QED  BY <1>2, <1>5, <1>6, <1>8, RankIsPlace
<1>10. ASSUME NEW m \in S, NEW n \in S, k[m].index < k[n].index
       PROVE  Cardinality(B[m]) < Cardinality(B[n])
  <2>1. m # n
    BY <1>3, <1>10
  <2>2. IsFiniteSet(B[n])
    BY <1>4, PlaceCountsSteps
  <2>3. Cardinality(B[m]) <= Cardinality(B[n])
    <3> HIDE DEF B
    <3> QED  BY <1>7, <1>10, <2>2, FS_Subset
  <2> HIDE DEF B, S
  <2> QED  BY <1>1, <1>2, <1>9, <2>1, <2>3
<1> HIDE DEF B
<1> QED  BY <1>2, <1>4, <1>9, <1>10

\* Renumbered puts every kept entry at its place.
LEMMA RenumberedMoves ==
  ASSUME NEW k, Sieved(k)
  PROVE  /\ Renumbered(k) \in Seq(Entry) /\ Len(Renumbered(k)) = Len(k)
         /\ \A n \in DOMAIN k : Renumbered(k)[PlaceOf(k, k[n].index)] = Moved(k, n)
<1> DEFINE At(place) == CHOOSE n \in DOMAIN k : PlaceOf(k, k[n].index) = place
           R == [place \in 1 .. Len(k) |-> Moved(k, At(place))]
<1>1. k \in Seq(Entry) /\ Len(k) \in Nat /\ DOMAIN k = 1 .. Len(k)
  BY DEF Sieved
<1>2. \A place \in 1 .. Len(k) : At(place) \in DOMAIN k /\ PlaceOf(k, k[At(place)].index) = place
  BY PlacesOfKept
<1>3. \A n \in DOMAIN k : At(PlaceOf(k, k[n].index)) = n
  BY <1>2, PlacesOfKept
<1>4. Renumbered(k) = [place \in 1 .. Len(k) |->
          [k[At(place)] EXCEPT !.index = place,
                               !.refs = {PlaceOf(k, ref) : ref \in k[At(place)].refs \cap Used(k)}]]
  BY DEF Renumbered, PlaceOf, Used
<1> HIDE DEF At
<1>5. Renumbered(k) = R
  BY <1>2, <1>4 DEF Moved
<1>6. \A n \in DOMAIN k : Moved(k, n) \in Entry
  <2> SUFFICES ASSUME NEW n \in DOMAIN k  PROVE  Moved(k, n) \in Entry
    OBVIOUS
  <2>1. k[n] \in Entry
    BY <1>1
  <2>2. \A m \in DOMAIN k : PlaceOf(k, k[m].index) \in Nat
    <3>1. \A m \in DOMAIN k : PlaceOf(k, k[m].index) \in 1 .. Len(k)
      BY PlacesOfKept
    <3>2. 1 .. Len(k) \subseteq Nat
      OBVIOUS
    <3> QED  BY <3>1, <3>2
  <2>3. {PlaceOf(k, ref) : ref \in k[n].refs \cap Used(k)} \subseteq Nat
    BY <2>2 DEF Used
  <2> QED  BY <2>1, <2>2, <2>3 DEF Moved, Entry
<1>7. R \in Seq(Entry) /\ Len(R) = Len(k)
  BY <1>1, <1>2, <1>6
<1>8. \A n \in DOMAIN k : R[PlaceOf(k, k[n].index)] = Moved(k, n)
  BY <1>3, PlacesOfKept
<1> QED  BY <1>5, <1>7, <1>8

-----------------------------------------------------------------------------
(* What repair makes of an answer. *)

\* Every invariant of a plan but the last: a plan that runs, if it ends in a draft or not.
Numbers(p) ==
    /\ Len(p) \in 1 .. MaxSteps
    /\ \A n \in DOMAIN p :
          p[n].index = n /\ p[n].agent \in KnownAgents /\ p[n].refs \subseteq 1 .. (n - 1)

EndsInDraft(p) == p # << >> => Last(p).agent \in FinalAgents

\* What it means that check_plan_invariants finds nothing, or the last step only.
LEMMA SoundMeans ==
  ASSUME NEW p
  PROVE  /\ Violations(p) \subseteq {"final_agent"} <=> Numbers(p)
         /\ Violations(p) = {} <=> Numbers(p) /\ EndsInDraft(p)
<1>1. /\ "step_count" \in Violations(p) <=> Len(p) \notin 1 .. MaxSteps
      /\ "contiguous" \in Violations(p) <=> \E n \in DOMAIN p : p[n].index # n
      /\ "known_agents" \in Violations(p) <=> \E n \in DOMAIN p : p[n].agent \notin KnownAgents
      /\ "backward_edges" \in Violations(p)
            <=> \E n \in DOMAIN p : ~(p[n].refs \subseteq 1 .. (p[n].index - 1))
      /\ "final_agent" \in Violations(p) <=> ~EndsInDraft(p)
  BY DEF Violations, EndsInDraft
<1>2. Violations(p) \subseteq {"step_count", "contiguous", "known_agents", "backward_edges", "final_agent"}
  BY DEF Violations
<1>3. Violations(p) \subseteq {"final_agent"} <=>
        /\ "step_count" \notin Violations(p) /\ "contiguous" \notin Violations(p)
        /\ "known_agents" \notin Violations(p) /\ "backward_edges" \notin Violations(p)
  BY <1>2
<1>4. Violations(p) = {} <=> Violations(p) \subseteq {"final_agent"} /\ "final_agent" \notin Violations(p)
  OBVIOUS
<1>5. Violations(p) \subseteq {"final_agent"} <=> Numbers(p)
  BY <1>1, <1>3 DEF Numbers
<1> QED  BY <1>1, <1>4, <1>5

\* A coerced answer is a plan, but perhaps for its last step.
LEMMA CoercedNumbers ==
  ASSUME NEW payload \in Seq(Entry), Kept(payload) # << >>
  PROVE  /\ CoerceSteps(payload) = Renumbered(Kept(payload))
         /\ CoerceSteps(payload) \in Seq(Entry)
         /\ Numbers(CoerceSteps(payload))
<1> DEFINE k == Kept(payload)
           R == Renumbered(k)
<1>1. Sieved(k) /\ Len(k) <= MaxSteps
  BY KeptIsSieved
<1>2. k \in Seq(Entry) /\ k # << >> /\ Len(k) \in Nat \ {0}
  BY <1>1 DEF Sieved
<1>3. CoerceSteps(payload) = R
  BY DEF CoerceSteps
<1> HIDE DEF k
<1>4. R \in Seq(Entry) /\ Len(R) = Len(k) /\ \A n \in DOMAIN k : R[PlaceOf(k, k[n].index)] = Moved(k, n)
  BY <1>1, RenumberedMoves
<1>5. ASSUME NEW place \in 1 .. Len(k)
      PROVE  R[place].index = place /\ R[place].agent \in KnownAgents /\ R[place].refs \subseteq 1 .. (place - 1)
  <2>1. PICK n \in DOMAIN k : PlaceOf(k, k[n].index) = place
    BY <1>1, PlacesOfKept
  <2>2. R[place] = Moved(k, n) /\ k[n] \in Entry /\ k[n].agent \in KnownAgents
    BY <1>1, <1>2, <1>4, <2>1 DEF Sieved
  <2>3. /\ Moved(k, n).index = place /\ Moved(k, n).agent = k[n].agent
        /\ Moved(k, n).refs = {PlaceOf(k, ref) : ref \in k[n].refs \cap Used(k)}
    BY <2>1, <2>2 DEF Moved, Entry
  <2>4. ASSUME NEW ref \in k[n].refs \cap Used(k)  PROVE  PlaceOf(k, ref) \in 1 .. (place - 1)
    <3>1. PICK m \in DOMAIN k : k[m].index = ref
      BY <2>4 DEF Used
    <3>2. k[m].index < k[n].index
      BY <1>1, <3>1, <2>4 DEF Sieved
    <3>3. PlaceOf(k, ref) < place /\ PlaceOf(k, ref) \in 1 .. Len(k)
      BY <1>1, <2>1, <3>1, <3>2, PlacesOfKept
    <3> QED  BY <1>2, <3>3
  <2> QED  BY <2>2, <2>3, <2>4
<1>6. DOMAIN R = 1 .. Len(k)
  BY <1>4
<1>7. Numbers(R)
  <2> HIDE DEF R
  <2> QED  BY <1>1, <1>2, <1>4, <1>5, <1>6, BoundsAssumption DEF Numbers
<1> QED  BY <1>3, <1>4, <1>7 DEF k

\* The structural pass hands back entries.
LEMMA EnforcedIsSeq ==
  ASSUME NEW p \in Seq(Entry)
  PROVE  \/ EnforceStructure(p) = None
         \/ /\ Len(p) >= MaxSteps
            /\ \E m \in DOMAIN p : EnforceStructure(p) = SubSeq(p, 1, m)
         \/ /\ p # << >> /\ Len(p) < MaxSteps
            /\ EnforceStructure(p) = Append(p, WriterAfter(p)) /\ WriterAfter(p) \in Entry
<1>1. CASE p = << >> \/ Last(p).agent \in FinalAgents
  BY <1>1 DEF EnforceStructure
<1>2. CASE ~(p = << >> \/ Last(p).agent \in FinalAgents) /\ Len(p) >= MaxSteps
  <2> DEFINE ends == {n \in DOMAIN p : p[n].agent \in FinalAgents}
  <2>1. EnforceStructure(p) = Trimmed(p)
    BY <1>2 DEF EnforceStructure
  <2>2. CASE ends = {}
    BY <2>1, <2>2 DEF Trimmed
  <2>3. CASE ends # {}
    <3>1. \E n \in ends : \A m \in ends : m <= n
      <4> DEFINE below == {Len(p) - n : n \in ends}
      <4>1. below \subseteq Nat /\ below # {}
        BY <2>3
      <4>2. PICK d \in below : \A c \in below : d <= c
        <5> HIDE DEF below
        <5> QED  BY <4>1, LeastNat
      <4>3. PICK n \in ends : d = Len(p) - n
        BY <4>2
      <4>4. Len(p) \in Nat /\ \A m \in ends : m \in Nat /\ Len(p) - m \in below
        OBVIOUS
      <4>5. \A m \in ends : m <= n
        <5> HIDE DEF below, ends
        <5> QED  BY <4>2, <4>3, <4>4
      <4> QED  BY <4>5
    <3>2. Trimmed(p) = SubSeq(p, 1, CHOOSE n \in ends : \A m \in ends : m <= n)
      BY <2>3 DEF Trimmed
    <3> DEFINE last == CHOOSE n \in ends : \A m \in ends : m <= n
    <3>3. last \in DOMAIN p
      BY <3>1
    <3> QED  BY <1>2, <2>1, <3>2, <3>3
  <2> QED  BY <2>2, <2>3
<1>3. CASE ~(p = << >> \/ Last(p).agent \in FinalAgents) /\ ~(Len(p) >= MaxSteps)
  <2>1. EnforceStructure(p) = Append(p, WriterAfter(p)) /\ Len(p) < MaxSteps /\ p # << >>
    BY <1>3, BoundsAssumption DEF EnforceStructure
  <2>2. Last(p) \in Entry
    BY <2>1 DEF Last
  <2>3. \A n \in DOMAIN p : p[n] \in Entry
    OBVIOUS
  <2>4. {p[n].index : n \in DOMAIN p} \ {0} \subseteq Nat
    BY <2>3 DEF Entry
  <2>5. (1 + IF Last(p).index # 0 THEN Last(p).index ELSE Len(p)) \in Nat
    BY <2>2 DEF Entry
  <2>6. WriterAfter(p) \in Entry
    BY <2>4, <2>5 DEF WriterAfter, Entry, KnownAgents
  <2> QED  BY <2>1, <2>6
<1> QED  BY <1>1, <1>2, <1>3

\* The structural pass keeps a plan a plan.
LEMMA EnforcedNumbers ==
  ASSUME NEW p \in Seq(Entry), Numbers(p), EnforceStructure(p) # None
  PROVE  EnforceStructure(p) \in Seq(Entry) /\ Numbers(EnforceStructure(p))
<1>1. /\ Len(p) \in Nat /\ Len(p) <= MaxSteps /\ Len(p) >= 1 /\ MaxSteps \in Nat
      /\ DOMAIN p = 1 .. Len(p)
      /\ \A n \in DOMAIN p :
            p[n].index = n /\ p[n].agent \in KnownAgents /\ p[n].refs \subseteq 1 .. (n - 1)
  BY BoundsAssumption DEF Numbers
<1>2. CASE \E m \in DOMAIN p : EnforceStructure(p) = SubSeq(p, 1, m)
  <2>1. PICK m \in DOMAIN p : EnforceStructure(p) = SubSeq(p, 1, m)
    BY <1>2
  <2> DEFINE q == SubSeq(p, 1, m)
  <2>2. q \in Seq(Entry) /\ Len(q) = m /\ DOMAIN q = 1 .. m /\ \A n \in 1 .. m : q[n] = p[n]
    BY <1>1
  <2> HIDE DEF q
  <2>3. Numbers(q)
    BY <1>1, <2>2 DEF Numbers
  <2> QED  BY <2>1, <2>2, <2>3 DEF q
<1>3. CASE /\ p # << >> /\ Len(p) < MaxSteps
           /\ EnforceStructure(p) = Append(p, WriterAfter(p)) /\ WriterAfter(p) \in Entry
  <2> DEFINE w == WriterAfter(p)
             q == Append(p, w)
  <2>1. /\ w.index = Len(p) + 1 /\ w.agent \in KnownAgents /\ w.refs \subseteq 1 .. Len(p)
    <3>1. Last(p).index = Len(p)
      BY <1>1 DEF Last
    <3>2. {p[n].index : n \in DOMAIN p} \subseteq 1 .. Len(p)
      BY <1>1
    <3> QED  BY <1>1, <3>1, <3>2 DEF WriterAfter, KnownAgents
  <2>2. w \in Entry
    BY <1>3
  <2> HIDE DEF w
  <2>3. /\ q \in Seq(Entry) /\ Len(q) = Len(p) + 1 /\ DOMAIN q = 1 .. Len(p) + 1
        /\ q[Len(p) + 1] = w /\ \A n \in 1 .. Len(p) : q[n] = p[n]
    BY <1>1, <2>2
  <2> HIDE DEF q
  <2>4. Numbers(q)
    <3>1. Len(q) \in 1 .. MaxSteps
      BY <1>1, <1>3, <2>3
    <3>2. ASSUME NEW n \in DOMAIN q
          PROVE  q[n].index = n /\ q[n].agent \in KnownAgents /\ q[n].refs \subseteq 1 .. (n - 1)
      <4>1. CASE n = Len(p) + 1
        BY <1>1, <2>1, <2>3, <4>1
      <4>2. CASE n \in 1 .. Len(p)
        BY <1>1, <2>3, <4>2
      <4> QED  BY <1>1, <2>3, <3>2, <4>1, <4>2
    <3> QED  BY <3>1, <3>2 DEF Numbers
  <2> QED  BY <1>3, <2>3, <2>4 DEF q, w
<1> QED  BY <1>2, <1>3, EnforcedIsSeq

\* A revision that is salvaged at all is a plan.
LEMMA SalvagedNumbers ==
  ASSUME NEW payload \in Seq(Entry), CoercePlanPayload(payload) # << >>
  PROVE  CoercePlanPayload(payload) \in Seq(Entry) /\ Numbers(CoercePlanPayload(payload))
<1> DEFINE c == CoerceSteps(payload)
           e == EnforceStructure(c)
<1>1. c # None /\ CoercePlanPayload(payload) = IF e = None THEN c ELSE e
  BY DEF CoercePlanPayload
<1>2. Kept(payload) # << >>
  BY <1>1 DEF CoerceSteps
<1>3. c \in Seq(Entry) /\ Numbers(c)
  BY <1>2, CoercedNumbers
<1>4. e # None => e \in Seq(Entry) /\ Numbers(e)
  <2> HIDE DEF c
  <2> QED  BY <1>3, EnforcedNumbers
<1> QED  BY <1>1, <1>3, <1>4

-----------------------------------------------------------------------------
(* From an answer to the plan of a run. *)

\* Validation lets nothing through but a plan that ends in a draft.
Validated(steps) ==
    steps # << >> => /\ Numbers(steps) /\ EndsInDraft(steps)
                     /\ DOMAIN steps = 1 .. Len(steps)

LEMMA ValidateChecks ==
  ASSUME NEW payload, payload = None \/ payload.steps \in Seq(Entry)
  PROVE  Validated(Validate(payload))
<1>1. CASE Validate(payload) = << >>
  BY <1>1 DEF Validated
<1>2. CASE Validate(payload) # << >>
  <2>1. payload # None /\ Validate(payload) = InOrder(payload.steps) /\ Violations(InOrder(payload.steps)) = {}
    BY <1>2 DEF Validate
  <2> DEFINE s == payload.steps
             q == InOrder(s)
  <2>2. s \in Seq(Entry) /\ Len(s) \in Nat
    BY <2>1
  <2> HIDE DEF s
  <2>3. DOMAIN q = 1 .. Len(s) /\ q \in Seq({q[n] : n \in 1 .. Len(s)})
    <3> DEFINE At(place) == s[CHOOSE n \in DOMAIN s : Cardinality(UpTo(s, n)) = place]
    <3>1. q = [place \in 1 .. Len(s) |-> At(place)]
      BY DEF InOrder
    <3> HIDE DEF q, At
    <3>2. DOMAIN q = 1 .. Len(s) /\ q = [n \in 1 .. Len(s) |-> q[n]]
      BY <3>1
    <3> QED  BY <2>2, <3>2, SeqDef
  <2>4. DOMAIN q = 1 .. Len(q)
    <3> HIDE DEF q
    <3> QED  BY <2>2, <2>3
  <2> QED  BY <2>1, <2>4, SoundMeans DEF Validated, s
<1> QED  BY <1>1, <1>2

LEMMA ValidatePasses ==
  ASSUME NEW payload, Validate(payload) # << >>
  PROVE  /\ Validate(payload) = InOrder(payload.steps) /\ Violations(InOrder(payload.steps)) = {}
         /\ \A n \in DOMAIN payload.steps : payload.steps[n].index # 0
BY DEF Validate

\* An outcome of parsing: a payload that holds entries, and a plan that was validated.
Parsed(o) == (o.payload = None \/ o.payload.steps \in Seq(Entry)) /\ Validated(o.steps)

LEMMA PassKeepsParsed ==
  ASSUME NEW o, Parsed(o), NEW repaired, repaired = None \/ repaired.steps \in Seq(Entry)
  PROVE  Parsed(Pass(o, repaired))
BY ValidateChecks DEF Pass, Parsed

LEMMA RepairedSteps ==
  ASSUME NEW steps, steps = None \/ steps \in Seq(Entry)
  PROVE  Repaired(steps) = None \/ Repaired(steps).steps \in Seq(Entry)
BY DEF Repaired

LEMMA CoercedIsSeq ==
  ASSUME NEW payload \in Seq(Entry)
  PROVE  CoerceSteps(payload) = None \/ CoerceSteps(payload) \in Seq(Entry)
BY CoercedNumbers DEF CoerceSteps

LEMMA EnforcedIsPayload ==
  ASSUME NEW payload \in Seq(Entry)
  PROVE  EnforceStructure(payload) = None \/ EnforceStructure(payload) \in Seq(Entry)
<1>1. \A m \in DOMAIN payload : SubSeq(payload, 1, m) \in Seq(Entry)
  OBVIOUS
<1>2. WriterAfter(payload) \in Entry => Append(payload, WriterAfter(payload)) \in Seq(Entry)
  OBVIOUS
<1> QED  BY <1>1, <1>2, EnforcedIsSeq

\* Whatever the answer, parsing it ends in a plan that was validated, or in none.
LEMMA ParsedIsValidated ==
  ASSUME NEW r, r.payload.steps \in Seq(Entry)
  PROVE  Validated(ParsePlannerOutput(r).steps)
<1> DEFINE parsed    == IF r.form = "json" THEN r.payload ELSE None
           strict    == [payload |-> parsed, attempts |-> 0, steps |-> Validate(parsed)]
           extract   == IF r.form = "prose" THEN r.payload ELSE None
           extracted == Pass(strict, extract)
           coerce    == IF extracted.payload = None THEN None
                        ELSE Repaired(CoerceSteps(extracted.payload.steps))
           coerced   == Pass(extracted, coerce)
           enforce   == IF coerced.payload = None THEN None
                        ELSE Repaired(EnforceStructure(coerced.payload.steps))
<1>1. ParsePlannerOutput(r) = Pass(coerced, enforce)
  BY DEF ParsePlannerOutput
<1>2. (parsed = None \/ parsed.steps \in Seq(Entry)) /\ (extract = None \/ extract.steps \in Seq(Entry))
  OBVIOUS
<1> HIDE DEF parsed, extract
<1>3. Parsed(strict)
  BY <1>2, ValidateChecks DEF Parsed
<1> HIDE DEF strict
<1>4. Parsed(extracted)
  BY <1>2, <1>3, PassKeepsParsed
<1> HIDE DEF extracted
<1>5. coerce = None \/ coerce.steps \in Seq(Entry)
  BY <1>4, CoercedIsSeq, RepairedSteps DEF Parsed
<1> HIDE DEF coerce
<1>6. Parsed(coerced)
  BY <1>4, <1>5, PassKeepsParsed
<1> HIDE DEF coerced
<1>7. enforce = None \/ enforce.steps \in Seq(Entry)
  BY <1>6, EnforcedIsPayload, RepairedSteps DEF Parsed
<1> HIDE DEF enforce
<1>8. Parsed(Pass(coerced, enforce))
  BY <1>6, <1>7, PassKeepsParsed
<1> QED  BY <1>1, <1>8 DEF Parsed

-----------------------------------------------------------------------------
(* The run that follows the plan. *)

Planned == [index : Nat, agent : KnownAgents, refs : SUBSET Nat,
            status : {"pending", "completed", "failed"}, output : KnownAgents \cup {None}]

\* Until it is made there is no plan; afterwards there is one, whatever was answered.
HasPlan ==
    /\ pc = "make_plan" => reply \in Replies
    /\ pc # "make_plan" => reply = NoReply
    /\ pc \in {"call_planner", "make_plan"} => plan = << >> /\ index = 1 /\ revisions = 0 /\ visits = 0
    /\ pc \notin {"call_planner", "make_plan"} => Numbers(plan) /\ (revisions = 0 => EndsInDraft(plan))

\* The step at hand is a step of the plan, and has no result before it is executed.
AtHand ==
    /\ pc \in {"execute_step", "revise"} => index \in DOMAIN plan
    /\ pc = "execute_step" => plan[index].status = "pending"

\* A pass over the plan costs three visits a step; only a revision starts another.
Spent ==
    LET passes == MaxSteps * revisions
    IN  /\ pc = "select"       => visits <= 3 * passes + 3 * (index - 1) + 1
        /\ pc = "execute_step" => visits <= 3 * passes + 3 * (index - 1) + 2
        /\ pc = "revise"       => visits <= 3 * passes + 3 * (index - 1) + 3
        /\ pc = "finish"       => visits <= 3 * passes + 3 * MaxSteps + 2
        /\ pc = "end"          => visits <= 3 * passes + 3 * MaxSteps + 3

PlanInv == TypeOK /\ HasPlan /\ AtHand /\ Spent

\* The entries of an answer are entries.
LEMMA AnswersHoldEntries ==
  ASSUME NEW r \in Replies
  PROVE  r.payload.steps \in Seq(Entry)
<1>1. PICK n \in 0 .. MaxReply : r.payload.steps \in [1 .. n -> Entries]
  BY DEF Replies
<1>2. r.payload.steps \in [1 .. n -> Entry]
  BY <1>1, BoundsAssumption
<1> QED  BY <1>2, SeqDef, BoundsAssumption

\* Planned steps are the entries of the plan, each pending.
LEMMA PendingIsPlanned ==
  ASSUME NEW p, Numbers(p), DOMAIN p = 1 .. Len(p)
  PROVE  /\ Pending(p) \in Seq(Planned) /\ Len(Pending(p)) = Len(p)
         /\ Numbers(Pending(p)) /\ (EndsInDraft(p) => EndsInDraft(Pending(p)))
<1> DEFINE q == Pending(p)
           At(n) == [index |-> p[n].index, agent |-> p[n].agent, refs |-> p[n].refs,
                     status |-> "pending", output |-> None]
<1>1. /\ Len(p) \in Nat \ {0} /\ Len(p) <= MaxSteps
      /\ \A n \in 1 .. Len(p) :
            p[n].index = n /\ p[n].agent \in KnownAgents /\ p[n].refs \subseteq 1 .. (n - 1)
  BY BoundsAssumption DEF Numbers
<1>2. q = [n \in 1 .. Len(p) |-> At(n)]
  BY DEF Pending
<1>3. \A n \in 1 .. Len(p) : At(n) \in Planned
  <2> TAKE n \in 1 .. Len(p)
  <2>1. p[n].refs \in SUBSET Nat
    BY <1>1
  <2> QED  BY <1>1, <2>1 DEF Planned
<1> HIDE DEF q
<1>4. q \in Seq(Planned) /\ Len(q) = Len(p) /\ DOMAIN q = 1 .. Len(p)
  <2> HIDE DEF At
  <2> QED  BY <1>1, <1>2, <1>3
<1>5. \A n \in 1 .. Len(p) : q[n].index = p[n].index /\ q[n].agent = p[n].agent /\ q[n].refs = p[n].refs
  BY <1>2
<1>6. Numbers(q)
  BY <1>1, <1>4, <1>5 DEF Numbers
<1>7. EndsInDraft(p) => EndsInDraft(q)
  <2>1. p # << >> /\ q # << >>
    BY <1>1, <1>4
  <2>2. Last(q).agent = Last(p).agent
    BY <1>1, <1>4, <1>5 DEF Last
  <2> QED  BY <2>1, <2>2 DEF EndsInDraft
<1> QED  BY <1>4, <1>6, <1>7 DEF q

\* Results move to the step of the same number, and nothing else changes.
LEMMA CarriedIsPlanned ==
  ASSUME NEW p \in Seq(Planned), Numbers(p), NEW q \in Seq(Planned), Numbers(q)
  PROVE  /\ CarryForward(p, q) \in Seq(Planned) /\ Len(CarryForward(p, q)) = Len(q)
         /\ Numbers(CarryForward(p, q))
         /\ \A m \in DOMAIN q :
               LET c == CarryForward(p, q)[m]
               IN  /\ c.index = q[m].index /\ c.agent = q[m].agent /\ c.refs = q[m].refs
                   /\ m \in Completed(p) => c.status = p[m].status /\ c.output = p[m].output
<1> DEFINE done(m) == {n \in Completed(p) : p[n].index = q[m].index}
           At(m) == IF done(m) = {} THEN q[m]
                    ELSE LET n == CHOOSE n \in done(m) : \A o \in done(m) : o <= n
                         IN  [q[m] EXCEPT !.status = p[n].status, !.output = p[n].output]
           c == CarryForward(p, q)
<1>1. c = [m \in DOMAIN q |-> At(m)]
  BY DEF CarryForward
<1>2. /\ Completed(p) \subseteq DOMAIN p /\ DOMAIN p = 1 .. Len(p) /\ DOMAIN q = 1 .. Len(q)
      /\ Len(p) \in Nat /\ Len(q) \in Nat
      /\ \A n \in DOMAIN p : p[n].index = n /\ p[n] \in Planned
      /\ \A n \in DOMAIN q : q[n].index = n /\ q[n] \in Planned
  BY DEF Numbers, Completed
<1>3. ASSUME NEW m \in DOMAIN q
      PROVE  /\ At(m) \in Planned
             /\ At(m).index = q[m].index /\ At(m).agent = q[m].agent /\ At(m).refs = q[m].refs
             /\ m \in Completed(p) => At(m).status = p[m].status /\ At(m).output = p[m].output
  <2>1. done(m) = {n \in Completed(p) : n = m}
    BY <1>2
  <2> HIDE DEF done
  <2>2. CASE m \in Completed(p)
    <3>1. done(m) = {m}
      BY <2>1, <2>2
    <3>2. (CHOOSE n \in done(m) : \A o \in done(m) : o <= n) = m
      BY <1>2, <3>1
    <3>3. At(m) = [q[m] EXCEPT !.status = p[m].status, !.output = p[m].output]
      BY <3>1, <3>2
    <3>4. p[m] \in Planned /\ q[m] \in Planned
      BY <1>2, <2>2
    <3> HIDE DEF At
    <3> QED  BY <3>3, <3>4 DEF Planned
  <2>3. CASE m \notin Completed(p)
    <3>1. done(m) = {}
      BY <2>1, <2>3
    <3> QED  BY <1>2, <2>3, <3>1
  <2> QED  BY <2>2, <2>3
<1> HIDE DEF c, At
<1>4. c \in Seq(Planned) /\ Len(c) = Len(q) /\ DOMAIN c = DOMAIN q /\ \A m \in DOMAIN q : c[m] = At(m)
  BY <1>1, <1>2, <1>3
<1>5. Numbers(c)
  BY <1>3, <1>4 DEF Numbers
<1> QED  BY <1>3, <1>4, <1>5 DEF c

LEMMA InitPlan ==
  Init => PlanInv
BY BoundsAssumption DEF Init, PlanInv, TypeOK, HasPlan, AtHand, Spent, NoReply

LEMMA CallPlannerKeeps ==
  ASSUME PlanInv, CallPlanner  PROVE  PlanInv'
BY DEF PlanInv, TypeOK, HasPlan, AtHand, Spent, CallPlanner

LEMMA MakePlanKeeps ==
  ASSUME PlanInv, MakePlan  PROVE  PlanInv'
<1> DEFINE steps == ParsePlannerOutput(reply).steps
           p == IF steps # << >> THEN steps ELSE DefaultPlan
<1>1. pc = "make_plan" /\ reply \in Replies /\ index = 1 /\ revisions = 0 /\ visits = 0
  BY DEF PlanInv, HasPlan, MakePlan
<1>2. Numbers(p) /\ EndsInDraft(p) /\ DOMAIN p = 1 .. Len(p)
  <2>1. Validated(steps)
    BY <1>1, AnswersHoldEntries, ParsedIsValidated
  <2>2. Numbers(DefaultPlan) /\ EndsInDraft(DefaultPlan) /\ DOMAIN DefaultPlan = 1 .. Len(DefaultPlan)
    BY DefaultAssumption, SoundMeans
  <2> HIDE DEF steps
  <2> QED  BY <2>1, <2>2 DEF Validated
<1>3. plan' = Pending(p)
  BY DEF MakePlan
<1> HIDE DEF p
<1>4. plan' \in Seq(Planned) /\ Numbers(plan') /\ EndsInDraft(plan')
  BY <1>2, <1>3, PendingIsPlanned
<1>5. /\ reply' = NoReply /\ pc' = "select" /\ visits' = 1
      /\ index' = 1 /\ revisions' = 0
  BY <1>1 DEF MakePlan, Visit
<1>6. TypeOK'
  BY <1>4, <1>5, BoundsAssumption DEF TypeOK, Planned
<1>7. HasPlan'
  BY <1>4, <1>5 DEF HasPlan, Numbers, EndsInDraft
<1>8. AtHand' /\ Spent'
  BY <1>5, BoundsAssumption DEF AtHand, Spent
<1> QED  BY <1>6, <1>7, <1>8 DEF PlanInv

\* A set of positions below a bound has a first one.
LEMMA FirstPosition ==
  ASSUME NEW S, S \subseteq Nat, S # {}
  PROVE  /\ (CHOOSE n \in S : \A m \in S : n <= m) \in S
         /\ \A m \in S : (CHOOSE n \in S : \A m1 \in S : n <= m1) <= m
BY LeastNat

LEMMA SelectNextStepKeeps ==
  ASSUME PlanInv, SelectNextStep  PROVE  PlanInv'
<1>1. /\ pc = "select" /\ Numbers(plan) /\ (revisions = 0 => EndsInDraft(plan)) /\ reply = NoReply
      /\ UNCHANGED <<reply, plan, revisions>> /\ visits' = visits + 1
      /\ visits <= 3 * (MaxSteps * revisions) + 3 * (index - 1) + 1
  BY DEF PlanInv, HasPlan, Spent, SelectNextStep, Visit
<1>2. /\ plan \in Seq(Planned) /\ Len(plan) \in 1 .. MaxSteps /\ DOMAIN plan = 1 .. Len(plan)
      /\ index \in 1 .. MaxSteps + 1 /\ visits \in Nat /\ MaxSteps \in Nat /\ revisions \in Nat
  BY <1>1, BoundsAssumption DEF PlanInv, TypeOK, Planned, Numbers
<1>3. MaxSteps * revisions \in Nat
  BY <1>2
<1>4. CASE Waiting = {}
  <2>1. index' = 1 + Len(plan) /\ pc' = "finish"
    BY <1>4 DEF SelectNextStep, Visit
  <2>2. TypeOK'
    BY <1>1, <1>2, <2>1 DEF PlanInv, TypeOK
  <2>3. HasPlan' /\ AtHand'
    BY <1>1, <2>1 DEF HasPlan, AtHand, Numbers, EndsInDraft
  <2>4. visits' <= 3 * (MaxSteps * revisions) + 3 * MaxSteps + 2
    <3> DEFINE passes == MaxSteps * revisions
    <3>1. passes \in Nat /\ visits <= 3 * passes + 3 * (index - 1) + 1
      BY <1>1, <1>3
    <3> HIDE DEF passes
    <3>2. visits' <= 3 * passes + 3 * MaxSteps + 2
      BY <1>1, <1>2, <3>1
    <3> QED  BY <3>2 DEF passes
  <2>5. Spent'
    BY <1>1, <2>1, <2>4 DEF Spent
  <2> QED  BY <2>2, <2>3, <2>5 DEF PlanInv
<1>5. CASE Waiting # {}
  <2>1. Waiting \subseteq Nat
    BY <1>2 DEF Waiting
  <2>2. index' \in Waiting /\ pc' = "execute_step"
    BY <1>5, <2>1, FirstPosition DEF SelectNextStep, Visit
  <2>3. /\ index' \in DOMAIN plan /\ plan[index'].status = "pending" /\ index <= index'
        /\ index' \in 1 .. MaxSteps
    BY <1>2, <2>2 DEF Waiting
  <2>4. TypeOK'
    BY <1>1, <1>2, <2>2, <2>3 DEF PlanInv, TypeOK
  <2>5. HasPlan' /\ AtHand'
    BY <1>1, <2>2, <2>3 DEF HasPlan, AtHand, Numbers, EndsInDraft
  <2>6. visits' <= 3 * (MaxSteps * revisions) + 3 * (index' - 1) + 2
    <3> DEFINE passes == MaxSteps * revisions
    <3>1. passes \in Nat /\ visits <= 3 * passes + 3 * (index - 1) + 1
      BY <1>1, <1>3
    <3> HIDE DEF passes
    <3>2. visits' <= 3 * passes + 3 * (index' - 1) + 2
      BY <1>1, <1>2, <2>3, <3>1
    <3> QED  BY <3>2 DEF passes
  <2>7. Spent'
    BY <1>1, <2>2, <2>6 DEF Spent
  <2> QED  BY <2>4, <2>5, <2>7 DEF PlanInv
<1> QED  BY <1>4, <1>5

LEMMA ExecuteStepKeeps ==
  ASSUME PlanInv, ExecuteStep  PROVE  PlanInv'
<1>1. /\ pc = "execute_step" /\ pc' = "revise" /\ Numbers(plan) /\ (revisions = 0 => EndsInDraft(plan))
      /\ reply = NoReply /\ index \in DOMAIN plan
      /\ UNCHANGED <<reply, index, revisions>> /\ visits' = visits + 1
      /\ visits <= 3 * (MaxSteps * revisions) + 3 * (index - 1) + 2
  BY DEF PlanInv, HasPlan, AtHand, Spent, ExecuteStep, Visit
<1>2. /\ plan \in Seq(Planned) /\ Len(plan) \in 1 .. MaxSteps /\ DOMAIN plan = 1 .. Len(plan)
      /\ index \in 1 .. MaxSteps + 1 /\ visits \in Nat /\ MaxSteps \in Nat /\ revisions \in Nat
  BY <1>1, BoundsAssumption DEF PlanInv, TypeOK, Planned, Numbers
<1>3. PICK st \in {"completed", "failed"}, out \in KnownAgents \cup {None} :
        plan' = [plan EXCEPT ![index] = [@ EXCEPT !.status = st, !.output = out]]
  <2>1. plan[index] \in Planned
    BY <1>1, <1>2
  <2>2. CASE plan' = [plan EXCEPT ![index].status = "completed", ![index].output = plan[index].agent]
    <3>1. plan[index].agent \in KnownAgents
      BY <2>1 DEF Planned
    <3>2. plan' = [plan EXCEPT ![index] = [@ EXCEPT !.status = "completed", !.output = plan[index].agent]]
      BY <1>1, <1>2, <2>1, <2>2 DEF Planned
    <3> QED  BY <3>1, <3>2
  <2>3. CASE plan' = [plan EXCEPT ![index].status = "failed"]
    <3>1. plan[index].output \in KnownAgents \cup {None}
      BY <2>1 DEF Planned
    <3>2. [plan[index] EXCEPT !.status = "failed"]
            = [plan[index] EXCEPT !.status = "failed", !.output = plan[index].output]
      BY <2>1 DEF Planned
    <3>3. plan' = [plan EXCEPT ![index] = [@ EXCEPT !.status = "failed", !.output = plan[index].output]]
      BY <1>1, <1>2, <2>3, <3>2
    <3> QED  BY <3>1, <3>3
  <2> QED  BY <2>2, <2>3 DEF ExecuteStep
<1>4. /\ plan' \in Seq(Planned) /\ Len(plan') = Len(plan) /\ DOMAIN plan' = DOMAIN plan
      /\ \A n \in DOMAIN plan : /\ plan'[n].index = plan[n].index
                                /\ plan'[n].agent = plan[n].agent
                                /\ plan'[n].refs = plan[n].refs
  <2>1. \A n \in DOMAIN plan : plan[n] \in Planned
    BY <1>2
  <2>2. \A n \in DOMAIN plan : plan'[n] = IF n = index THEN [plan[n] EXCEPT !.status = st, !.output = out]
                                          ELSE plan[n]
    BY <1>1, <1>2, <1>3
  <2>3. \A n \in DOMAIN plan : /\ plan'[n] \in Planned
                               /\ plan'[n].index = plan[n].index
                               /\ plan'[n].agent = plan[n].agent
                               /\ plan'[n].refs = plan[n].refs
    <3> SUFFICES ASSUME NEW n \in DOMAIN plan
                 PROVE  /\ plan'[n] \in Planned
                        /\ plan'[n].index = plan[n].index
                        /\ plan'[n].agent = plan[n].agent
                        /\ plan'[n].refs = plan[n].refs
      OBVIOUS
    <3>1. CASE n = index
      <4>1. plan'[n] = [plan[n] EXCEPT !.status = st, !.output = out]
        BY <2>2, <3>1
      <4>2. st \in {"completed", "failed"} /\ out \in KnownAgents \cup {None} /\ plan[n] \in Planned
        BY <1>3, <2>1
      <4>3. plan'[n] \in Planned
        BY <4>1, <4>2 DEF Planned
      <4>4. /\ plan'[n].index = plan[n].index
            /\ plan'[n].agent = plan[n].agent
            /\ plan'[n].refs = plan[n].refs
        BY <4>1, <4>2 DEF Planned
      <4> QED  BY <4>3, <4>4
    <3> QED  BY <2>1, <2>2, <3>1
  <2>4. plan' \in Seq(Planned) /\ Len(plan') = Len(plan) /\ DOMAIN plan' = DOMAIN plan
    <3>1. DOMAIN plan' = 1 .. Len(plan) /\ plan' = [n \in 1 .. Len(plan) |-> plan'[n]]
      BY <1>2, <1>3
    <3> QED  BY <1>2, <2>3, <3>1
  <2> QED  BY <2>3, <2>4
<1>5. Numbers(plan') /\ (revisions = 0 => EndsInDraft(plan'))
  <2>1. Numbers(plan')
    BY <1>1, <1>4 DEF Numbers
  <2>2. EndsInDraft(plan) => EndsInDraft(plan')
    <3>1. plan # << >> /\ Len(plan) \in DOMAIN plan
      BY <1>2
    <3> QED  BY <1>4, <3>1 DEF EndsInDraft, Last
  <2> QED  BY <1>1, <2>1, <2>2
<1>6. TypeOK'
  <2>1. plan' \in Seq(Planned)
    BY <1>4
  <2>2. index' \in 1 .. MaxSteps + 1 /\ visits' \in Nat
    BY <1>1, <1>2
  <2>3. reply' \in Replies \cup {NoReply} /\ revisions' \in 0 .. MaxRevisions
    BY <1>1 DEF PlanInv, TypeOK
  <2> QED  BY <1>1, <2>1, <2>2, <2>3 DEF TypeOK, Planned
<1>7. HasPlan' /\ AtHand'
  BY <1>1, <1>4, <1>5 DEF HasPlan, AtHand, Numbers, EndsInDraft
<1>8. Spent'
  <2> DEFINE passes == MaxSteps * revisions
  <2>1. passes \in Nat /\ visits <= 3 * passes + 3 * (index - 1) + 2
    BY <1>1, <1>2
  <2> HIDE DEF passes
  <2>2. visits' <= 3 * passes + 3 * (index - 1) + 3
    BY <1>1, <1>2, <2>1
  <2> QED  BY <1>1, <2>2 DEF Spent, passes
<1> QED  BY <1>6, <1>7, <1>8 DEF PlanInv

LEMMA KeepPlanKeeps ==
  ASSUME PlanInv, KeepPlan  PROVE  PlanInv'
<1>1. /\ pc = "revise" /\ pc' = "select" /\ Numbers(plan) /\ (revisions = 0 => EndsInDraft(plan))
      /\ reply = NoReply /\ index \in DOMAIN plan /\ index' = index + 1
      /\ UNCHANGED <<reply, plan, revisions>> /\ visits' = visits + 1
      /\ visits <= 3 * (MaxSteps * revisions) + 3 * (index - 1) + 3
  BY DEF PlanInv, HasPlan, AtHand, Spent, KeepPlan, Visit
<1>2. /\ plan \in Seq(Planned) /\ Len(plan) \in 1 .. MaxSteps /\ index \in 1 .. MaxSteps
      /\ visits \in Nat /\ MaxSteps \in Nat /\ revisions \in Nat
  BY <1>1, BoundsAssumption DEF PlanInv, TypeOK, Planned, Numbers
<1>3. TypeOK'
  <2>1. index' \in 1 .. MaxSteps + 1 /\ visits' \in Nat
    BY <1>1, <1>2
  <2> QED  BY <1>1, <2>1 DEF PlanInv, TypeOK
<1>4. HasPlan' /\ AtHand'
  BY <1>1 DEF HasPlan, AtHand, Numbers, EndsInDraft
<1>5. Spent'
  <2> DEFINE passes == MaxSteps * revisions
  <2>1. /\ passes \in Nat /\ visits <= 3 * passes + 3 * (index - 1) + 3
        /\ visits' = visits + 1 /\ index' = index + 1
    BY <1>1, <1>2
  <2> HIDE DEF passes
  <2>2. visits' <= 3 * passes + 3 * (index' - 1) + 1
    BY <1>2, <2>1
  <2> QED  BY <1>1, <2>2 DEF Spent, passes
<1> QED  BY <1>3, <1>4, <1>5 DEF PlanInv

LEMMA FinishKeeps ==
  ASSUME PlanInv, Finish  PROVE  PlanInv'
<1>1. /\ pc = "finish" /\ pc' = "end" /\ UNCHANGED <<reply, plan, index, revisions>>
      /\ visits' = visits + 1 /\ visits <= 3 * (MaxSteps * revisions) + 3 * MaxSteps + 2
  BY DEF PlanInv, Spent, Finish, Visit
<1>2. visits \in Nat /\ MaxSteps \in Nat /\ revisions \in Nat
  BY BoundsAssumption DEF PlanInv, TypeOK
<1>3. TypeOK'
  BY <1>1, <1>2 DEF PlanInv, TypeOK
<1>4. HasPlan' /\ AtHand'
  BY <1>1 DEF PlanInv, HasPlan, AtHand, Numbers, EndsInDraft
<1>5. Spent'
  <2> DEFINE passes == MaxSteps * revisions
  <2>1. passes \in Nat /\ visits <= 3 * passes + 3 * MaxSteps + 2
    BY <1>1, <1>2
  <2> HIDE DEF passes
  <2>2. visits' <= 3 * passes + 3 * MaxSteps + 3
    BY <1>1, <1>2, <2>1
  <2> QED  BY <1>1, <2>2 DEF Spent, passes
<1> QED  BY <1>3, <1>4, <1>5 DEF PlanInv

\* A revision as the run adopts it: the salvaged answer under the results carried over.
Adopted(q) ==
    /\ q \in Seq(Planned) /\ Numbers(q)
    /\ CompletedStepsPreserved(plan, q)
    /\ plan' = CarryForward(plan, q)
    /\ index' = CHOOSE n \in 1 .. Len(q) + 1 :
          /\ n \in DOMAIN q => plan'[n].status = "pending"
          /\ \A m \in 1 .. n - 1 : plan'[m].status # "pending"

LEMMA RevisionIsAdopted ==
  ASSUME PlanInv, RevisePlan  PROVE  \E q : Adopted(q)
<1>1. PICK steps \in {r.payload.steps : r \in {s \in Replies : s.form = "json" /\ s.payload.tidy}} :
        LET revised == Pending(CoercePlanPayload(steps))
        IN  /\ revised # << >>
            /\ CompletedStepsPreserved(plan, revised)
            /\ plan' = CarryForward(plan, revised)
            /\ index' = CHOOSE n \in 1 .. Len(revised) + 1 :
                  /\ n \in DOMAIN revised => plan'[n].status = "pending"
                  /\ \A m \in 1 .. n - 1 : plan'[m].status # "pending"
  BY DEF RevisePlan
<1> DEFINE c == CoercePlanPayload(steps)
           q == Pending(c)
<1>2. steps \in Seq(Entry)
  BY AnswersHoldEntries
<1>3. c # << >>
  <2>1. c = << >> => Pending(c) = << >>
    BY DEF Pending
  <2> QED  BY <1>1, <2>1
<1>4. Numbers(c) /\ DOMAIN c = 1 .. Len(c)
  BY <1>2, <1>3, SalvagedNumbers
<1>5. q \in Seq(Planned) /\ Numbers(q)
  <2> HIDE DEF c
  <2> QED  BY <1>4, PendingIsPlanned
<1>6. Adopted(q)
  BY <1>1, <1>5 DEF Adopted
<1> QED  BY <1>6

LEMMA RevisePlanKeeps ==
  ASSUME PlanInv, RevisePlan  PROVE  PlanInv'
<1>1. PICK q : Adopted(q)
  BY RevisionIsAdopted
<1>2. /\ pc = "revise" /\ pc' = "select" /\ Numbers(plan) /\ reply = NoReply /\ reply' = reply
      /\ index \in DOMAIN plan /\ revisions < MaxRevisions
      /\ revisions' = revisions + 1 /\ visits' = visits + 1
      /\ visits <= 3 * (MaxSteps * revisions) + 3 * (index - 1) + 3
  BY DEF PlanInv, HasPlan, AtHand, Spent, RevisePlan, ShouldRevise, Visit
<1>3. /\ plan \in Seq(Planned) /\ Len(plan) \in 1 .. MaxSteps /\ index \in 1 .. MaxSteps
      /\ visits \in Nat /\ MaxSteps \in Nat /\ revisions \in Nat /\ MaxRevisions \in Nat
  BY <1>2, BoundsAssumption DEF PlanInv, TypeOK, Planned, Numbers
<1>4. /\ plan' \in Seq(Planned) /\ Len(plan') = Len(q) /\ Numbers(plan')
      /\ q \in Seq(Planned) /\ Len(q) \in 1 .. MaxSteps
  <2>1. q \in Seq(Planned) /\ Numbers(q) /\ plan' = CarryForward(plan, q)
    BY <1>1 DEF Adopted
  <2>2. /\ CarryForward(plan, q) \in Seq(Planned) /\ Len(CarryForward(plan, q)) = Len(q)
        /\ Numbers(CarryForward(plan, q))
    BY <1>2, <1>3, <2>1, CarriedIsPlanned
  <2>3. Len(q) \in 1 .. MaxSteps
    BY <2>1 DEF Numbers
  <2> QED  BY <2>1, <2>2, <2>3
<1>5. index' \in 1 .. Len(q) + 1
  <2> DEFINE First(n) == /\ n \in DOMAIN q => plan'[n].status = "pending"
                         /\ \A m \in 1 .. n - 1 : plan'[m].status # "pending"
             S == {n \in 1 .. Len(q) + 1 : n \in DOMAIN q => plan'[n].status = "pending"}
  <2>1. \E n \in 1 .. Len(q) + 1 : First(n)
    <3>1. S \subseteq Nat /\ Len(q) + 1 \in S
      BY <1>4
    <3>2. PICK n \in S : \A m \in S : n <= m
      <4> HIDE DEF S
      <4> QED  BY <3>1, LeastNat
    <3>3. ASSUME NEW m \in 1 .. n - 1  PROVE  plan'[m].status # "pending"
      <4>1. m \notin S /\ m \in 1 .. Len(q) + 1
        <5>1. m < n /\ n \in 1 .. Len(q) + 1
          BY <1>4, <3>3
        <5> QED  BY <1>4, <3>2, <5>1
      <4> QED  BY <4>1
    <3> QED  BY <3>2, <3>3
  <2>2. index' = CHOOSE n \in 1 .. Len(q) + 1 : First(n)
    BY <1>1 DEF Adopted
  <2> HIDE DEF First
  <2> QED  BY <2>1, <2>2
<1>6. TypeOK'
  BY <1>2, <1>3, <1>4, <1>5 DEF PlanInv, TypeOK, Planned
<1>7. HasPlan' /\ AtHand'
  BY <1>2, <1>3, <1>4 DEF HasPlan, AtHand, Numbers
<1>8. Spent'
  <2> DEFINE passes == MaxSteps * revisions
  <2>1. /\ passes \in Nat /\ visits <= 3 * passes + 3 * (index - 1) + 3
        /\ visits' = visits + 1 /\ index' \in Nat /\ index' >= 1
    BY <1>2, <1>3, <1>4, <1>5
  <2>2. MaxSteps * (revisions + 1) = passes + MaxSteps
    BY <1>3
  <2> HIDE DEF passes
  <2>3. visits' <= 3 * (passes + MaxSteps) + 3 * (index' - 1) + 1
    <3>1. MaxSteps \in Nat /\ index \in Nat /\ index <= MaxSteps /\ visits \in Nat
      BY <1>3
    <3>2. \A p, m, i, j, v \in Nat :
            i <= m /\ j >= 1 /\ v <= 3 * p + 3 * (i - 1) + 3
              => v + 1 <= 3 * (p + m) + 3 * (j - 1) + 1
      OBVIOUS
    <3> QED  BY <2>1, <3>1, <3>2
  <2>4. MaxSteps * revisions' = passes + MaxSteps
    BY <1>2, <2>2
  <2>5. visits' <= 3 * (MaxSteps * revisions') + 3 * (index' - 1) + 1
    BY <2>3, <2>4
  <2> QED  BY <1>2, <2>5 DEF Spent
<1> QED  BY <1>6, <1>7, <1>8 DEF PlanInv

\* The invariant of the run and its plan is inductive.
LEMMA PlanInvHolds ==
  Spec => []PlanInv
<1>1. PlanInv /\ [Next]_vars => PlanInv'
  <2> SUFFICES ASSUME PlanInv, [Next]_vars  PROVE  PlanInv'
    OBVIOUS
  <2>1. CASE UNCHANGED vars
    BY <2>1 DEF vars, PlanInv, TypeOK, HasPlan, AtHand, Spent, Numbers, EndsInDraft
  <2> QED  BY <2>1, CallPlannerKeeps, MakePlanKeeps, SelectNextStepKeeps, ExecuteStepKeeps,
              RevisePlanKeeps, KeepPlanKeeps, FinishKeeps DEF Next
<1> QED  BY <1>1, InitPlan, PTL DEF Spec

\* Every variable keeps its type: positions stay within the limit of steps and revisions
\* within their budget, whatever is answered (PipelineExecution).
THEOREM TypeCorrect == Spec => []TypeOK
<1>1. PlanInv => TypeOK
  BY DEF PlanInv
<1> QED  BY <1>1, PlanInvHolds, PTL

\* Whatever the model answers, the plan a run follows is one check_plan_invariants accepts,
\* but for the last step of a revision (parse_planner_output, coerce_plan_payload).
THEOREM PlansAreSound == Spec => []PlanIsSound
<1>1. PlanInv => PlanIsSound
  <2> SUFFICES ASSUME PlanInv, plan # << >>
               PROVE  Violations(plan) \subseteq IF revisions = 0 THEN {} ELSE {"final_agent"}
    BY DEF PlanIsSound
  <2>1. Numbers(plan) /\ (revisions = 0 => EndsInDraft(plan))
    BY DEF PlanInv, HasPlan
  <2>2. revisions = 0 => Violations(plan) = {}
    BY <2>1, SoundMeans
  <2>3. Violations(plan) \subseteq {"final_agent"}
    BY <2>1, SoundMeans
  <2> QED  BY <2>2, <2>3
<1> QED  BY <1>1, PlanInvHolds, PTL

\* No sequence of failures, reviews and revisions visits as many nodes as the graph engine
\* allows (GRAPH_RECURSION_LIMIT), for any number of steps and revisions.
THEOREM LimitNeverMet == Spec => []WithinRecursionLimit
<1>1. PlanInv => WithinRecursionLimit
  <2> SUFFICES ASSUME PlanInv  PROVE  visits < 3 * MaxSteps * (MaxRevisions + 1) + 4
    BY DEF WithinRecursionLimit, GRAPH_RECURSION_LIMIT
  <2> DEFINE passes == MaxSteps * revisions
             most   == MaxSteps * MaxRevisions
  <2>1. /\ visits \in Nat /\ MaxSteps \in Nat /\ revisions \in Nat /\ MaxRevisions \in Nat
        /\ revisions <= MaxRevisions /\ index \in Nat /\ index <= MaxSteps + 1
    BY BoundsAssumption DEF PlanInv, TypeOK
  <2>2. passes \in Nat /\ most \in Nat
    BY <2>1
  <2>3. passes <= most
    <3>1. \E more \in Nat : MaxRevisions = revisions + more
      <4>1. MaxRevisions - revisions \in Nat /\ MaxRevisions = revisions + (MaxRevisions - revisions)
        BY <2>1
      <4> QED  BY <4>1
    <3>2. PICK more \in Nat : MaxRevisions = revisions + more
      BY <3>1
    <3>3. most = passes + MaxSteps * more /\ MaxSteps * more \in Nat
      BY <2>1, <3>2
    <3> HIDE DEF passes, most
    <3> QED  BY <2>2, <3>3
  <2>4. 3 * MaxSteps * (MaxRevisions + 1) = 3 * most + 3 * MaxSteps
    BY <2>1
  <2>5. visits <= 3 * passes + 3 * MaxSteps + 3
    <3>1. pc \in {"select", "execute_step", "revise"} => visits <= 3 * passes + 3 * (index - 1) + 3
      BY <2>1, <2>2 DEF PlanInv, Spent
    <3>2. pc \in {"finish", "end"} => visits <= 3 * passes + 3 * MaxSteps + 3
      BY <2>1, <2>2 DEF PlanInv, Spent
    <3>3. pc \in {"call_planner", "make_plan"} => visits = 0
      BY DEF PlanInv, HasPlan
    <3>4. pc \in {"call_planner", "make_plan", "select", "execute_step", "revise", "finish", "end"}
      BY DEF PlanInv, TypeOK
    <3> HIDE DEF passes
    <3> QED  BY <2>1, <2>2, <3>1, <3>2, <3>3, <3>4
  <2> HIDE DEF passes, most
  <2> QED  BY <2>1, <2>2, <2>3, <2>4, <2>5
<1> QED  BY <1>1, PlanInvHolds, PTL

\* A completed step stays at its place with its number, agent, inputs and output, through
\* every revision (assert_completed_steps_preserved, _maybe_revise_plan).
THEOREM CompletedStepsStay == Spec => CompletedStaysPut
<1> DEFINE Stays == \A n \in Completed(plan) :
                      \E m \in DOMAIN plan' :
                        /\ plan'[m] = plan[n]
                        /\ \A o \in DOMAIN plan' : plan'[o].index = plan[n].index => o = m
<1>1. ASSUME PlanInv, PlanInv', [Next]_vars, plan' # plan  PROVE  Stays
  <2>1. MakePlan \/ ExecuteStep \/ RevisePlan
    BY <1>1 DEF Next, vars, CallPlanner, SelectNextStep, KeepPlan, Finish
  <2>2. SUFFICES ASSUME NEW n \in Completed(plan)
                 PROVE  /\ n \in DOMAIN plan' /\ plan'[n] = plan[n]
                        /\ \A o \in DOMAIN plan' : plan'[o].index = plan[n].index => o = n
    OBVIOUS
  <2>3. n \in DOMAIN plan /\ plan[n].status = "completed"
    BY DEF Completed
  <2>4. plan \in Seq(Planned) /\ Numbers(plan) /\ pc # "make_plan"
    BY <1>1, <2>3 DEF PlanInv, TypeOK, HasPlan, Planned
  <2>5. plan' \in Seq(Planned) /\ Numbers(plan')
    <3>1. pc' \notin {"call_planner", "make_plan"}
      BY <2>1 DEF MakePlan, ExecuteStep, RevisePlan, Visit
    <3> QED  BY <1>1, <3>1 DEF PlanInv, TypeOK, HasPlan, Planned, Numbers
  <2>6. n \in DOMAIN plan' /\ plan'[n] = plan[n]
    <3>1. CASE ExecuteStep
      <4>1. n # index
        BY <1>1, <2>3, <3>1 DEF PlanInv, AtHand, ExecuteStep
      <4> QED  BY <2>3, <2>4, <3>1, <4>1 DEF ExecuteStep
    <3>2. CASE RevisePlan
      <4>1. PICK q : Adopted(q)
        BY <1>1, <3>2, RevisionIsAdopted
      <4>2. q \in Seq(Planned) /\ Numbers(q) /\ plan' = CarryForward(plan, q)
        BY <4>1 DEF Adopted
      <4>3. plan[n].index = n
        BY <2>3, <2>4 DEF Numbers
      <4>4. n \in DOMAIN q /\ q[n].agent = plan[n].agent /\ q[n].refs = plan[n].refs /\ q[n].index = n
        BY <4>1, <4>2, <4>3 DEF Adopted, CompletedStepsPreserved, Numbered, Numbers
      <4>5. /\ plan'[n].index = n /\ plan'[n].agent = plan[n].agent /\ plan'[n].refs = plan[n].refs
            /\ plan'[n].status = plan[n].status /\ plan'[n].output = plan[n].output
        BY <2>4, <4>2, <4>4, CarriedIsPlanned
      <4>6. n \in DOMAIN plan'
        BY <2>4, <4>2, <4>4, CarriedIsPlanned
      <4>7. plan'[n] \in Planned /\ plan[n] \in Planned
        BY <2>3, <2>4, <2>5, <4>6
      <4> QED  BY <4>3, <4>5, <4>6, <4>7 DEF Planned
    <3> QED  BY <2>1, <2>4, <3>1, <3>2 DEF MakePlan
  <2> QED  BY <2>3, <2>4, <2>5, <2>6 DEF Numbers
<1>2. PlanInv /\ PlanInv' /\ [Next]_vars => [Stays]_plan
  BY <1>1
<1> QED  BY <1>2, PlanInvHolds, PTL DEF Spec, CompletedStaysPut

-----------------------------------------------------------------------------
(* Salvage keeps what an answer means. *)

\* A valid answer, whatever the order of its entries, gives each number to one entry: the
\* place a sort by number gives it.
ValidAnswer(s) == s \in Seq(Entry) /\ Numbers(InOrder(s)) /\ \A n \in DOMAIN s : s[n].index # 0

LEMMA InOrderPlaces ==
  ASSUME NEW s \in Seq(Entry)
  PROVE  /\ \A n \in DOMAIN s : /\ Cardinality(UpTo(s, n)) \in 1 .. Len(s)
                                /\ InOrder(s)[Cardinality(UpTo(s, n))] = s[n]
         /\ \A m, n \in DOMAIN s : Cardinality(UpTo(s, m)) = Cardinality(UpTo(s, n)) => m = n
         /\ \A place \in 1 .. Len(s) : \E n \in DOMAIN s : Cardinality(UpTo(s, n)) = place
<1> DEFINE S == DOMAIN s
           B == [n \in S |-> UpTo(s, n)]
           At(place) == CHOOSE n \in DOMAIN s : Cardinality(UpTo(s, n)) = place
<1>1. /\ S = 1 .. Len(s) /\ Len(s) \in Nat /\ IsFiniteSet(S) /\ Cardinality(S) = Len(s)
  <2>1. S = 1 .. Len(s) /\ Len(s) \in Nat /\ 1 \in Int
    OBVIOUS
  <2> HIDE DEF S
  <2> QED  BY <2>1, FS_Interval
<1>2. \A n \in S : s[n].index \in Nat
  <2>1. \A n \in S : s[n] \in Entry
    OBVIOUS
  <2> QED  BY <2>1 DEF Entry
<1>3. \A n \in S : B[n] = UpTo(s, n)
  OBVIOUS
<1>a. B \in [S -> SUBSET S] /\ IsFiniteSet(S)
  BY <1>1 DEF UpTo
<1>4. \A n \in S : n \in B[n]
  BY <1>1, <1>2 DEF UpTo
<1>5. \A m, n \in S : m # n => \/ B[m] \subseteq B[n] /\ n \notin B[m]
                               \/ B[n] \subseteq B[m] /\ m \notin B[n]
  <2>1. ASSUME NEW m \in S, NEW n \in S, m # n,
               s[m].index < s[n].index \/ (s[m].index = s[n].index /\ m < n)
        PROVE  B[m] \subseteq B[n] /\ n \notin B[m]
    BY <1>1, <1>2, <2>1 DEF UpTo
  <2>2. ASSUME NEW m \in S, NEW n \in S, m # n
        PROVE  \/ s[m].index < s[n].index \/ (s[m].index = s[n].index /\ m < n)
               \/ s[n].index < s[m].index \/ (s[n].index = s[m].index /\ n < m)
    BY <1>1, <1>2, <2>2
  <2> QED  BY <2>1, <2>2
<1>6. /\ \A n \in S : Cardinality(B[n]) \in 1 .. Cardinality(S)
      /\ \A m, n \in S : Cardinality(B[m]) = Cardinality(B[n]) => m = n
      /\ \A place \in 1 .. Cardinality(S) : \E n \in S : Cardinality(B[n]) = place
  <2> HIDE DEF S, B
  <2> QED  BY <1>a, <1>4, <1>5, RankIsPlace
<1> HIDE DEF B
<1>7. \A n \in S : At(Cardinality(UpTo(s, n))) = n
  BY <1>3, <1>6
<1>8. InOrder(s) = [place \in 1 .. Len(s) |-> s[At(place)]]
  BY DEF InOrder
<1> HIDE DEF At
<1>9. /\ \A n \in S : Cardinality(UpTo(s, n)) \in 1 .. Len(s)
      /\ \A m, n \in S : Cardinality(UpTo(s, m)) = Cardinality(UpTo(s, n)) => m = n
      /\ \A place \in 1 .. Len(s) : \E n \in S : Cardinality(UpTo(s, n)) = place
  <2>1. Cardinality(S) = Len(s)
    BY <1>1
  <2> HIDE DEF S
  <2> QED  BY <1>3, <1>6, <2>1
<1>10. \A n \in S : InOrder(s)[Cardinality(UpTo(s, n))] = s[n]
  <2> HIDE DEF S
  <2> QED  BY <1>7, <1>8, <1>9
<1> QED  BY <1>9, <1>10

LEMMA ValidAnswerPlaces ==
  ASSUME NEW s, ValidAnswer(s)
  PROVE  /\ Sieved(s) /\ Len(s) \in 1 .. MaxSteps /\ Len(InOrder(s)) = Len(s)
         /\ InOrder(s) \in Seq(Entry)
         /\ \A n \in DOMAIN s : /\ s[n].index \in 1 .. Len(s)
                                /\ InOrder(s)[s[n].index] = s[n]
                                /\ PlaceOf(s, s[n].index) = s[n].index
         /\ \A place \in 1 .. Len(s) : \E n \in DOMAIN s : s[n].index = place
<1> DEFINE q == InOrder(s)
           Rank(n) == Cardinality(UpTo(s, n))
<1>1. /\ s \in Seq(Entry) /\ Len(s) \in Nat /\ DOMAIN s = 1 .. Len(s) /\ Numbers(q)
      /\ \A n \in DOMAIN s : s[n] \in Entry
  BY DEF ValidAnswer
<1>2. DOMAIN q = 1 .. Len(s) /\ q = [place \in 1 .. Len(s) |-> q[place]]
  <2> DEFINE At(place) == s[CHOOSE n \in DOMAIN s : Cardinality(UpTo(s, n)) = place]
  <2>1. q = [place \in 1 .. Len(s) |-> At(place)]
    BY DEF InOrder
  <2> HIDE DEF q, At
  <2> QED  BY <2>1
<1>3. /\ \A n \in DOMAIN s : Rank(n) \in 1 .. Len(s) /\ q[Rank(n)] = s[n]
      /\ \A m, n \in DOMAIN s : Rank(m) = Rank(n) => m = n
      /\ \A place \in 1 .. Len(s) : \E n \in DOMAIN s : Rank(n) = place
  BY <1>1, InOrderPlaces
<1> HIDE DEF q, Rank
<1>4. q \in Seq(Entry) /\ Len(q) = Len(s)
  <2>1. \A place \in 1 .. Len(s) : q[place] \in Entry
    BY <1>1, <1>3
  <2> QED  BY <1>1, <1>2, <2>1
<1>5. \A n \in DOMAIN s : s[n].index = Rank(n)
  BY <1>2, <1>3, <1>1 DEF Numbers
<1>6. Len(s) \in 1 .. MaxSteps
  BY <1>1, <1>4 DEF Numbers
<1>7. Sieved(s)
  <2>1. \A n \in DOMAIN s : s[n].agent \in KnownAgents /\ s[n].refs \subseteq 1 .. (s[n].index - 1)
    BY <1>1, <1>2, <1>3, <1>5 DEF Numbers
  <2>2. \A n \in DOMAIN s : \A ref \in s[n].refs : ref < s[n].index
    BY <1>1, <1>3, <1>5, <2>1
  <2>3. \A n \in DOMAIN s : s[n].index # 0
    <3>1. \A n \in DOMAIN s : s[n].index \in 1 .. Len(s)
      BY <1>3, <1>5
    <3> QED  BY <3>1
  <2> QED  BY <1>1, <1>3, <1>5, <2>1, <2>2, <2>3 DEF Sieved
<1>8. ASSUME NEW n \in DOMAIN s  PROVE  PlaceOf(s, s[n].index) = s[n].index
  <2>1. \A m \in DOMAIN s : s[m].index \in Nat
    BY <1>1, <1>3, <1>5
  <2>2. StepsUpTo(s, s[n].index) = UpTo(s, n)
    <3>1. \A m \in DOMAIN s : s[m].index <= s[n].index
            <=> s[m].index < s[n].index \/ (s[m].index = s[n].index /\ m <= n)
      BY <1>1, <1>3, <1>5, <2>1
    <3> QED  BY <3>1 DEF StepsUpTo, UpTo
  <2> QED  BY <1>5, <1>7, <2>2, PlaceCountsSteps DEF Rank
<1>9. \A n \in DOMAIN s : s[n].index \in 1 .. Len(s) /\ q[s[n].index] = s[n]
  BY <1>3, <1>5
<1>10. \A place \in 1 .. Len(s) : \E n \in DOMAIN s : s[n].index = place
  BY <1>3, <1>5
<1> QED  BY <1>4, <1>6, <1>7, <1>8, <1>9, <1>10 DEF q

\* Coercion drops nothing from a valid answer.
LEMMA ValidIsKept ==
  ASSUME NEW s, ValidAnswer(s)
  PROVE  Kept(s) = s
<1> DEFINE L == Len(s)
           Bad(k) == {n \in 0 .. L : k[n] # SubSeq(s, 1, n)}
<1>1. s \in Seq(Entry) /\ L \in Nat /\ L <= MaxSteps /\ DOMAIN s = 1 .. L /\ Sieved(s)
  BY ValidAnswerPlaces, BoundsAssumption DEF ValidAnswer
<1>2. PICK k : /\ Kept(s) = k[L]
               /\ \A n \in 0 .. L : k[n] = IF n = 0 THEN << >> ELSE Keep(k[n - 1], s[n])
  <2>1. (IF Len(s) < MaxSteps THEN Len(s) ELSE MaxSteps) = L
    <3>1. Len(s) \in Nat /\ MaxSteps \in Nat /\ Len(s) <= MaxSteps
      BY <1>1, BoundsAssumption
    <3>2. ~(Len(s) < MaxSteps) => Len(s) = MaxSteps
      BY <3>1
    <3> QED  BY <3>2
  <2> QED  BY <1>1, <2>1, KeptUnfolds
<1>3. ASSUME Bad(k) # {}  PROVE  FALSE
  <2>1. PICK m \in Bad(k) : \A o \in Bad(k) : m <= o
    <3>1. Bad(k) \subseteq Nat
      BY <1>1
    <3> HIDE DEF Bad
    <3> QED  BY <1>3, <3>1, LeastNat
  <2>2. m \in 0 .. L /\ k[m] # SubSeq(s, 1, m)
    OBVIOUS
  <2>3. m # 0
    <3>1. k[0] = << >> /\ SubSeq(s, 1, 0) = << >>
      BY <1>1, <1>2
    <3> QED  BY <2>2, <3>1
  <2>4. m \in 1 .. L /\ m - 1 \in 0 .. L /\ k[m - 1] = SubSeq(s, 1, m - 1)
    BY <1>1, <2>1, <2>2, <2>3
  <2> DEFINE b == SubSeq(s, 1, m - 1)
             e == s[m]
  <2>5. e \in Entry /\ e.agent \in KnownAgents /\ e.index # 0 /\ \A ref \in e.refs : ref < e.index
    BY <1>1, <2>4 DEF Sieved
  <2>6. Claimed(e, b) = e.index
    BY <2>5 DEF Claimed
  <2>7. ~ \E n \in DOMAIN b : b[n].index = e.index
    <3>1. DOMAIN b = 1 .. m - 1 /\ \A n \in 1 .. m - 1 : b[n] = s[n] /\ n \in DOMAIN s /\ n # m
      BY <1>1, <2>4
    <3> QED  BY <1>1, <2>4, <3>1 DEF Sieved
  <2>8. [e EXCEPT !.index = e.index, !.refs = {ref \in e.refs : ref < e.index}] = e
    <3>1. {ref \in e.refs : ref < e.index} = e.refs
      BY <2>5
    <3> HIDE DEF e
    <3> QED  BY <2>5, <3>1 DEF Entry
  <2>9. Keep(b, e) = Append(b, e)
    <3> HIDE DEF b, e
    <3> QED  BY <2>5, <2>6, <2>7, <2>8 DEF Keep
  <2>10. Append(b, e) = SubSeq(s, 1, m)
    BY <1>1, <2>4
  <2> QED  BY <1>2, <2>2, <2>3, <2>4, <2>9, <2>10
<1>4. k[L] = SubSeq(s, 1, L)
  BY <1>1, <1>3
<1>5. SubSeq(s, 1, L) = s
  BY <1>1
<1> QED  BY <1>2, <1>4, <1>5

\* A valid answer comes out of salvage as it stands, in order.
LEMMA ValidIsUnchanged ==
  ASSUME NEW s, ValidAnswer(s), EndsInDraft(InOrder(s))
  PROVE  CoercePlanPayload(s) = InOrder(s)
<1> DEFINE q == InOrder(s)
           R == Renumbered(s)
<1>1. /\ s \in Seq(Entry) /\ Sieved(s) /\ Len(s) \in Nat \ {0} /\ DOMAIN s = 1 .. Len(s)
      /\ q \in Seq(Entry) /\ Len(q) = Len(s)
      /\ \A n \in DOMAIN s : s[n] \in Entry
  BY ValidAnswerPlaces, BoundsAssumption DEF ValidAnswer
<1>2. \A n \in DOMAIN s : /\ s[n].index \in 1 .. Len(s) /\ q[s[n].index] = s[n]
                          /\ PlaceOf(s, s[n].index) = s[n].index
  BY ValidAnswerPlaces
<1>3. \A place \in 1 .. Len(s) : \E n \in DOMAIN s : s[n].index = place
  BY ValidAnswerPlaces
<1>4. R \in Seq(Entry) /\ Len(R) = Len(s) /\ \A n \in DOMAIN s : R[s[n].index] = Moved(s, n)
  BY <1>1, <1>2, RenumberedMoves
<1>5. ASSUME NEW n \in DOMAIN s  PROVE  Moved(s, n) = s[n]
  <2>1. s[n].refs \subseteq 1 .. Len(s)
    <3>1. q[s[n].index].refs \subseteq 1 .. (s[n].index - 1)
      BY <1>1, <1>2 DEF ValidAnswer, Numbers
    <3> QED  BY <1>1, <1>2, <3>1
  <2>2. \A ref \in s[n].refs : ref \in Used(s) /\ PlaceOf(s, ref) = ref
    BY <1>2, <1>3, <2>1 DEF Used
  <2>3. {PlaceOf(s, ref) : ref \in s[n].refs \cap Used(s)} = s[n].refs
    BY <2>2
  <2>4. PlaceOf(s, s[n].index) = s[n].index /\ s[n] \in Entry
    BY <1>1, <1>2
  <2> QED  BY <2>3, <2>4 DEF Moved, Entry
<1> HIDE DEF q, R
<1>6. R = q
  <2>1. \A place \in 1 .. Len(s) : R[place] = q[place]
    BY <1>2, <1>3, <1>4, <1>5
  <2> QED  BY <1>1, <1>4, <2>1
<1>7. CoerceSteps(s) = q
  <2>1. Kept(s) = s /\ s # << >>
    BY <1>1, ValidIsKept
  <2> QED  BY <1>6, <2>1 DEF CoerceSteps, R
<1>8. q # None /\ q # << >> /\ EnforceStructure(q) = None
  <2>1. q # << >> /\ q # None
    BY <1>1, NoneAssumption
  <2>2. Last(q).agent \in FinalAgents
    BY <2>1 DEF EndsInDraft, q
  <2> QED  BY <2>1, <2>2 DEF EnforceStructure
<1>9. CoercePlanPayload(s) = q
  BY <1>7, <1>8 DEF CoercePlanPayload
<1> QED  BY <1>9 DEF q

\* An entry that survives reads from the entries it named, whatever their places.
LEMMA EdgesFollow ==
  ASSUME NEW k, Sieved(k), NEW a \in DOMAIN k, NEW b \in DOMAIN k
  PROVE  /\ Moved(k, a).agent = k[a].agent
         /\ PlaceOf(k, k[b].index) \in Moved(k, a).refs <=> k[b].index \in k[a].refs
<1>1. k[a] \in Entry
  BY DEF Sieved
<1>2. /\ Moved(k, a).agent = k[a].agent
      /\ Moved(k, a).refs = {PlaceOf(k, ref) : ref \in k[a].refs \cap Used(k)}
  BY <1>1 DEF Moved, Entry
<1>3. k[b].index \in k[a].refs => PlaceOf(k, k[b].index) \in Moved(k, a).refs
  BY <1>2 DEF Used
<1>4. ASSUME PlaceOf(k, k[b].index) \in Moved(k, a).refs  PROVE  k[b].index \in k[a].refs
  <2>1. PICK ref \in k[a].refs \cap Used(k) : PlaceOf(k, ref) = PlaceOf(k, k[b].index)
    BY <1>2, <1>4
  <2>2. PICK m \in DOMAIN k : k[m].index = ref
    BY <2>1 DEF Used
  <2>3. m = b
    BY <2>1, <2>2, PlacesOfKept
  <2> QED  BY <2>1, <2>2, <2>3
<1> QED  BY <1>2, <1>3, <1>4

\* A plan that is valid as it stands survives salvage unchanged, and every step that
\* survives reads from the steps it named, under their new numbers, for every answer
\* (_repair_coerce_steps, coerce_plan_payload).
THEOREM SalvageKeeps == Spec => []SalvageKeepsMeaning
<1>1. ASSUME PlanInv  PROVE  SalvageKeepsMeaning
  <2> DEFINE answer == reply.payload.steps
             kept   == Kept(answer)
             Place(n) == Cardinality({m \in DOMAIN kept : kept[m].index <= kept[n].index})
             valid  == Validate([reply.payload EXCEPT !.tidy = TRUE])
  <2>1. answer \in Seq(Entry) /\ [reply.payload EXCEPT !.tidy = TRUE].steps = answer
    <3>1. reply \in Replies \/ reply = NoReply
      BY <1>1 DEF PlanInv, TypeOK
    <3>2. NoReply.payload.steps \in Seq(Entry)
      <4>1. << >> \in Seq(Entry) /\ NoReply.payload.steps = << >>
        BY DEF NoReply
      <4> QED  BY <4>1
    <3>3. reply.payload = [steps |-> answer, tidy |-> reply.payload.tidy]
      BY <3>1 DEF Replies, NoReply
    <3> QED  BY <3>1, <3>2, <3>3, AnswersHoldEntries
  <2>2. valid # << >> => CoercePlanPayload(answer) = valid
    <3> DEFINE payload == [reply.payload EXCEPT !.tidy = TRUE]
    <3> SUFFICES ASSUME valid # << >>  PROVE  CoercePlanPayload(answer) = valid
      OBVIOUS
    <3>1. /\ valid = InOrder(payload.steps) /\ Violations(InOrder(payload.steps)) = {}
          /\ \A n \in DOMAIN payload.steps : payload.steps[n].index # 0
      BY ValidatePasses
    <3>2. valid = InOrder(answer) /\ ValidAnswer(answer) /\ EndsInDraft(InOrder(answer))
      <4> HIDE DEF answer
      <4> QED  BY <2>1, <3>1, SoundMeans DEF ValidAnswer
    <3> HIDE DEF valid, answer
    <3> QED  BY <3>2, ValidIsUnchanged
  <2>3. ASSUME kept # << >>, NEW a \in DOMAIN kept, NEW b \in DOMAIN kept
        PROVE  LET step == CoerceSteps(answer)[Place(a)]
               IN  /\ step.agent = kept[a].agent
                   /\ Place(b) \in step.refs <=> kept[b].index \in kept[a].refs
    <3>1. Sieved(kept) /\ CoerceSteps(answer) = Renumbered(kept)
      BY <2>1, <2>3, KeptIsSieved, CoercedNumbers
    <3>2. Place(a) = PlaceOf(kept, kept[a].index) /\ Place(b) = PlaceOf(kept, kept[b].index)
      <4> HIDE DEF kept
      <4> QED  BY <3>1, PlaceCountsSteps DEF StepsUpTo
    <3> HIDE DEF Place
    <3>3. CoerceSteps(answer)[Place(a)] = Moved(kept, a)
      BY <2>3, <3>1, <3>2, RenumberedMoves
    <3> HIDE DEF kept
    <3> QED  BY <2>3, <3>1, <3>2, <3>3, EdgesFollow
  <2> QED  BY <2>2, <2>3 DEF SalvageKeepsMeaning
<1> QED  BY <1>1, PlanInvHolds, PTL

=============================================================================
