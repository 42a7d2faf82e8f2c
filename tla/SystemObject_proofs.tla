------------------------ MODULE SystemObject_proofs ------------------------
(***************************************************************************)
(* SystemObject's invariants, for any vocabulary and any conversation:     *)
(* lemmas on folds and on sequences put end to end, on one phrase, one     *)
(* pass and two passes of the matching, on near namesakes, on the sorting  *)
(* of the phrases, on every state of the conversation, and at the end the  *)
(* inductive invariant SystemOK.                                           *)
(***************************************************************************)
EXTENDS SystemObject, FiniteSetTheorems, SequenceTheorems, WellFoundedInduction, TLAPS

----------------------------------------------------------------------------
(* Numbers, and functions defined from the number before.                  *)

(* What holds of zero, and of a number after each it holds of.             *)
LEMMA FromZeroUp ==
    ASSUME NEW B \in SUBSET Nat, 0 \in B, \A n \in B : n + 1 \in B
    PROVE  \A n \in Nat : n \in B
<1> SUFFICES ASSUME Nat \ B # {} PROVE FALSE
  OBVIOUS
<1>1. PICK m \in Nat \ B : \A i \in Nat \ B : ~ (<<i, m>> \in OpToRel(<, Nat))
  BY NatLessThanWellFounded, WFMin
<1> m \in Nat /\ m \notin B
  OBVIOUS
<1>2. m # 0 /\ m - 1 \in Nat /\ m - 1 < m /\ (m - 1) + 1 = m
  OBVIOUS
<1>3. <<m - 1, m>> \in OpToRel(<, Nat)
  BY <1>1, <1>2 DEF OpToRel
<1>4. m - 1 \in B
  BY <1>1, <1>2, <1>3
<1> QED BY <1>1, <1>2, <1>4

(* The least of some naturals.                                             *)
LEMMA LeastOfNats ==
    ASSUME NEW B \in SUBSET Nat, B # {}
    PROVE  \E m \in B : \A j \in B : m <= j
<1>1. PICK m \in B : \A i \in B : ~ (<<i, m>> \in OpToRel(<, Nat))
  BY NatLessThanWellFounded, WFMin
<1>2. ASSUME NEW j \in B PROVE m <= j
  <2>1. ~ (<<j, m>> \in OpToRel(<, Nat))
    BY <1>1
  <2> QED BY <2>1 DEF OpToRel
<1> QED BY <1>2

\* The greatest of the numbers up to n is n, and without it there are those up
\* to n - 1.
LEMMA MaxOfInterval ==
    ASSUME NEW n \in Nat \ {0}
    PROVE  Max(1..n) = n /\ (1..n) \ {n} = 1..n-1 /\ 1..n # {}
<1>1. n \in 1..n /\ \A y \in 1..n : n >= y
  OBVIOUS
<1>2. Max(1..n) \in 1..n /\ \A y \in 1..n : Max(1..n) >= y
  BY <1>1 DEF Max
<1> QED BY <1>1, <1>2

(* In a set of numbers up to n + 1 that has it, n + 1 is the greatest.     *)
LEMMA MaxIsLast ==
    ASSUME NEW n \in Nat, NEW s \in SUBSET (1..n+1), n + 1 \in s
    PROVE  Max(s) = n + 1 /\ s \ {Max(s)} \in SUBSET (1..n)
<1>1. n + 1 \in s /\ \A y \in s : n + 1 >= y
  OBVIOUS
<1>2. Max(s) \in s /\ \A y \in s : Max(s) >= y
  BY <1>1 DEF Max
<1> HIDE DEF Max
<1>3. Max(s) \in 1..n+1 /\ Max(s) >= n + 1
  BY <1>1, <1>2
<1>4. Max(s) = n + 1
  BY <1>3
<1> QED BY <1>4

\* The greatest of some numbers up to n is one of them.
LEMMA MaxIsOneOf ==
    ASSUME NEW n \in Nat, NEW s \in SUBSET (1..n), s # {}
    PROVE  Max(s) \in s
<1> DEFINE back == {n - i : i \in s}
<1>0. s \subseteq Int /\ \A i \in s : n - i \in Nat
  OBVIOUS
<1>1. back \in SUBSET Nat /\ back # {}
  BY <1>0
<1>2. PICK m \in back : \A j \in back : m <= j
  BY <1>1, LeastOfNats
<1>3. PICK x \in s : m = n - x
  BY <1>2
<1>4. ASSUME NEW y \in s PROVE x >= y
  <2>1. n - y \in back
    OBVIOUS
  <2> QED BY <1>2, <1>3, <2>1
<1> QED BY <1>3, <1>4 DEF Max

(* What FoldLeft comes to: a function on the sets of places, from a set    *)
(* without its greatest to the set with it.  The step is given here as a   *)
(* function of the place and of what has been made of the places before.   *)
Steps(n, S, b, step) ==
    {f \in [SUBSET (1..n) -> S] :
        \A s \in SUBSET (1..n) : f[s] = IF s = {} THEN b ELSE step[Max(s)][f[s \ {Max(s)}]]}

\* A fold whose steps stay in a set is a function.
LEMMA StepsExist ==
    ASSUME NEW n \in Nat, NEW S, NEW b \in S, NEW step \in [1..n -> [S -> S]]
    PROVE  Steps(n, S, b, step) # {}
<1> DEFINE B == {k \in Nat : k <= n => Steps(k, S, b, step) # {}}
<1>1. 0 \in B
  <2>1. [s \in SUBSET (1..0) |-> b] \in Steps(0, S, b, step)
    <3>1. SUBSET (1..0) = {{}}
      OBVIOUS
    <3> QED BY <3>1 DEF Steps
  <2> QED BY <2>1
<1>2. ASSUME NEW k \in B PROVE k + 1 \in B
  <2> SUFFICES ASSUME k + 1 <= n PROVE Steps(k+1, S, b, step) # {}
    OBVIOUS
  <2>1. k \in Nat /\ k <= n /\ k + 1 \in 1..n
    OBVIOUS
  <2>2. PICK f : f \in Steps(k, S, b, step)
    BY <2>1
  <2>3. f \in [SUBSET (1..k) -> S]
    BY <2>2 DEF Steps
  <2> DEFINE g == [s \in SUBSET (1..k+1) |-> IF k + 1 \in s THEN step[k+1][f[s \ {k+1}]] ELSE f[s]]
  <2>4. ASSUME NEW s \in SUBSET (1..k+1), k + 1 \in s
        PROVE  /\ s # {} /\ Max(s) = k + 1
               /\ s \ {k+1} \in SUBSET (1..k) /\ s \ {k+1} \in SUBSET (1..k+1)
               /\ f[s \ {k+1}] \in S /\ k + 1 \notin s \ {k+1}
               /\ step[k+1][f[s \ {k+1}]] \in S
    <3>1. Max(s) = k + 1 /\ s \ {k+1} \in SUBSET (1..k)
      BY <2>1, <2>4, MaxIsLast
    <3>2. f[s \ {k+1}] \in S
      BY <2>3, <3>1
    <3>3. step[k+1] \in [S -> S]
      BY <2>1
    <3> QED BY <2>4, <3>1, <3>2, <3>3
  <2>5. ASSUME NEW s \in SUBSET (1..k+1), k + 1 \notin s
        PROVE  s \in SUBSET (1..k) /\ f[s] \in S
    <3>1. s \in SUBSET (1..k)
      BY <2>1, <2>5
    <3> QED BY <2>3, <3>1
  <2>6. g \in [SUBSET (1..k+1) -> S]
    BY <2>4, <2>5
  <2>7. ASSUME NEW s \in SUBSET (1..k+1)
        PROVE  g[s] = IF s = {} THEN b ELSE step[Max(s)][g[s \ {Max(s)}]]
    <3>1. CASE k + 1 \in s
      BY <2>4, <3>1
    <3>2. CASE k + 1 \notin s
      <4>1. g[s] = f[s] /\ s \in SUBSET (1..k)
        BY <2>5, <3>2
      <4>2. f[s] = IF s = {} THEN b ELSE step[Max(s)][f[s \ {Max(s)}]]
        BY <2>2, <4>1 DEF Steps
      <4>3. s # {} => g[s \ {Max(s)}] = f[s \ {Max(s)}]
        BY <3>2
      <4> QED BY <4>1, <4>2, <4>3
    <3> QED BY <3>1, <3>2
  <2> HIDE DEF g
  <2> QED BY <2>6, <2>7 DEF Steps
<1> HIDE DEF B
<1>3. n \in B
  BY <1>1, <1>2, FromZeroUp DEF B
<1> QED BY <1>3 DEF B

(* The same for a function of the number before.                           *)
StepsWithin(n, S, step) == step \in [1..n -> [S -> S]]
Counts(f, n, S, b, step) ==
    f \in [0..n -> S] /\ f[0] = b /\ \A i \in 1..n : f[i] = step[i][f[i-1]]

\* And so is what it has come to after each number of steps.
LEMMA CountsExist ==
    ASSUME NEW n, NEW S, NEW b, NEW step, n \in Nat, b \in S, StepsWithin(n, S, step)
    PROVE  \E f : Counts(f, n, S, b, step)
<1>1. PICK f : f \in Steps(n, S, b, step)
  BY StepsExist DEF StepsWithin
<1> DEFINE g == [i \in 0..n |-> f[1..i]]
<1>2. ASSUME NEW i \in 0..n PROVE 1..i \in SUBSET (1..n)
  OBVIOUS
<1>3. g \in [0..n -> S]
  BY <1>1, <1>2 DEF Steps
<1>4. g[0] = b
  <2>1. 1..0 = {} /\ 0 \in 0..n
    OBVIOUS
  <2>2. f[{}] = b
    BY <1>1 DEF Steps
  <2> QED BY <2>1, <2>2
<1>5. ASSUME NEW i \in 1..n PROVE g[i] = step[i][g[i-1]]
  <2>1. Max(1..i) = i /\ (1..i) \ {i} = 1..i-1 /\ 1..i # {}
    <3>1. i \in Nat \ {0}
      OBVIOUS
    <3> QED BY <3>1, MaxOfInterval
  <2>2. f[1..i] = step[Max(1..i)][f[(1..i) \ {Max(1..i)}]]
    BY <1>1, <1>2, <2>1 DEF Steps
  <2>3. i \in 0..n /\ i-1 \in 0..n
    OBVIOUS
  <2> QED BY <2>1, <2>2, <2>3
<1> HIDE DEF g
<1>6. Counts(g, n, S, b, step)
  BY <1>3, <1>4, <1>5 DEF Counts
<1> QED BY <1>6

----------------------------------------------------------------------------
(* Sequences put end to end.                                               *)

(* How FlattenSeq goes along a sequence of sequences.                      *)
Joins(f, s, S) ==
    /\ f \in [0..Len(s) -> Seq(S)] /\ f[0] = <<>>
    /\ \A i \in 1..Len(s) : f[i] = f[i-1] \o s[i]

\* FlattenSeq puts one sequence after the other.
LEMMA FlattenGoes ==
    ASSUME NEW S, NEW s \in Seq(Seq(S))
    PROVE  \E f : Joins(f, s, S) /\ FlattenSeq(s) = f[Len(s)]
<1> DEFINE n == Len(s)
           step == [i \in 1..n |-> [x \in Seq(S) |-> x \o s[i]]]
<1>1. n \in Nat /\ \A i \in 1..n : s[i] \in Seq(S)
  OBVIOUS
<1>2. step \in [1..n -> [Seq(S) -> Seq(S)]] /\ <<>> \in Seq(S)
  BY <1>1
<1>3. PICK f \in [0..n -> Seq(S)] : f[0] = <<>> /\ \A i \in 1..n : f[i] = step[i][f[i-1]]
  <2> DEFINE none == <<>>
             T == Seq(S)
  <2>0. n \in Nat /\ none \in T /\ step \in [1..n -> [T -> T]]
    BY <1>1, <1>2
  <2> HIDE DEF n, step, none, T
  <2>1. StepsWithin(n, T, step)
    BY <2>0 DEF StepsWithin
  <2>2. PICK f : Counts(f, n, T, none, step)
    BY <2>0, <2>1, CountsExist
  <2> QED BY <2>2 DEF Counts, none, T
<1>4. ASSUME NEW i \in 1..n PROVE f[i] = f[i-1] \o s[i]
  <2>1. i-1 \in 0..n
    BY <1>1
  <2>2. f[i-1] \in Seq(S)
    BY <1>3, <2>1
  <2> QED BY <1>3, <2>2
<1>5. Joins(f, s, S)
  BY <1>3, <1>4 DEF Joins
<1>6. CASE n = 0
  <2>1. s = <<>>
    BY <1>6
  <2>2. FlattenSeq(s) = s
    BY <1>6 DEF FlattenSeq
  <2> QED BY <1>3, <1>5, <1>6, <2>1, <2>2
<1>7. CASE n # 0
  <2> DEFINE Goes(h) == h = [i \in 1..Len(s) |-> IF i = 1 THEN s[i] ELSE h[i-1] \o s[i]]
             g == [i \in 1..n |-> f[i]]
             flat == CHOOSE h : Goes(h)
  <2>1. FlattenSeq(s) = flat[n]
    BY <1>7 DEF FlattenSeq
  <2>2. Goes(g)
    <3>1. ASSUME NEW i \in 1..n PROVE g[i] = IF i = 1 THEN s[i] ELSE g[i-1] \o s[i]
      <4>1. CASE i = 1
        <5>1. f[1] = f[0] \o s[1] /\ s[1] \in Seq(S) /\ f[0] = <<>>
          <6>1. 1 \in 1..n /\ 1-1 = 0
            BY <4>1
          <6> QED BY <1>1, <1>3, <1>4, <6>1
        <5>2. f[1] = s[1]
          BY <5>1, ConcatEmptySeq
        <5> QED BY <4>1, <5>2
      <4>2. CASE i # 1
        <5>1. i-1 \in 1..n
          BY <1>1, <4>2
        <5> QED BY <1>4, <4>2, <5>1
      <4> QED BY <4>1, <4>2
    <3> HIDE DEF g
    <3>2. g = [i \in 1..n |-> g[i]]
      BY DEF g
    <3> QED BY <3>1, <3>2
  <2>3. Goes(flat)
    BY <2>2
  <2> HIDE DEF flat
  <2>4. ASSUME NEW i \in 1..n PROVE flat[i] = IF i = 1 THEN s[i] ELSE flat[i-1] \o s[i]
    BY <2>3
  <2> DEFINE B == {i \in Nat : i \in 1..n => flat[i] = f[i]}
  <2>5. 0 \in B
    OBVIOUS
  <2>6. ASSUME NEW i \in B PROVE i + 1 \in B
    <3> SUFFICES ASSUME i + 1 \in 1..n PROVE flat[i+1] = f[i+1]
      OBVIOUS
    <3>0. i \in Nat /\ (i \in 1..n => flat[i] = f[i]) /\ (i+1)-1 = i
      OBVIOUS
    <3>1. f[i+1] = f[i] \o s[i+1]
      BY <1>4, <3>0
    <3>2. CASE i = 0
      <4>1. f[1] = <<>> \o s[1] /\ flat[1] = s[1] /\ s[1] \in Seq(S)
        <5>1. 1 \in 1..n
          BY <3>2
        <5>0. i + 1 = 1
          BY <3>2
        <5>2. s[1] \in Seq(S) /\ flat[1] = s[1]
          BY <1>1, <2>4, <5>1
        <5> QED BY <1>3, <3>1, <3>2, <5>0, <5>2
      <4>2. f[1] = s[1]
        BY <4>1, ConcatEmptySeq
      <4> QED BY <3>2, <4>1, <4>2
    <3>3. CASE i # 0
      <4>1. i \in 1..n /\ flat[i] = f[i]
        BY <1>1, <3>0, <3>3
      <4>2. flat[i+1] = IF i + 1 = 1 THEN s[i+1] ELSE flat[i] \o s[i+1]
        BY <2>4, <3>0
      <4>3. i + 1 # 1
        BY <3>0, <3>3
      <4> QED BY <3>1, <4>1, <4>2, <4>3
    <3> QED BY <3>2, <3>3
  <2> HIDE DEF B
  <2>7. n \in B
    BY <1>1, <2>5, <2>6, FromZeroUp DEF B
  <2> QED BY <1>1, <1>5, <1>7, <2>1, <2>7 DEF B
<1> QED BY <1>6, <1>7

(* Two that go alike come to the same.                                     *)
Alike(s, t, n) ==
    /\ n \in Nat /\ Len(s) \in Nat /\ Len(t) \in Nat /\ n <= Len(s) /\ n <= Len(t)
    /\ \A i \in 1..n : s[i] = t[i]

\* What is put together of the same pieces is the same.
LEMMA JoinsAlike ==
    ASSUME NEW S, NEW s, NEW t, NEW f, NEW g, NEW n,
           Joins(f, s, S), Joins(g, t, S), Alike(s, t, n)
    PROVE  f[n] = g[n]
<1> USE DEF Alike
<1> DEFINE B == {i \in Nat : i <= n => f[i] = g[i]}
<1>1. 0 \in B
  BY DEF Joins
<1>2. ASSUME NEW i \in B PROVE i + 1 \in B
  <2> SUFFICES ASSUME i + 1 <= n PROVE f[i+1] = g[i+1]
    OBVIOUS
  <2>1. i \in Nat /\ f[i] = g[i] /\ i+1 \in 1..n /\ i+1 \in 1..Len(s) /\ i+1 \in 1..Len(t) /\ (i+1)-1 = i
    OBVIOUS
  <2> QED BY <2>1 DEF Joins
<1> HIDE DEF B
<1>3. n \in B
  BY <1>1, <1>2, FromZeroUp DEF B
<1> QED BY <1>3 DEF B

\* FlattenSeq is what any such function comes to.
LEMMA FlattenIs ==
    ASSUME NEW S, NEW s \in Seq(Seq(S)), NEW f, Joins(f, s, S)
    PROVE  FlattenSeq(s) = f[Len(s)] /\ FlattenSeq(s) \in Seq(S)
<1>1. PICK g : Joins(g, s, S) /\ FlattenSeq(s) = g[Len(s)]
  BY FlattenGoes
<1>2. Len(s) \in Nat
  OBVIOUS
<1>3. f[Len(s)] = g[Len(s)]
  <2>1. Alike(s, s, Len(s))
    BY <1>2 DEF Alike
  <2> QED BY <1>1, <2>1, JoinsAlike
<1>4. f[Len(s)] \in Seq(S)
  BY <1>2 DEF Joins
<1> QED BY <1>1, <1>3, <1>4

\* A sequence of sequences over a set is flattened into one over that set.
LEMMA FlattenType ==
    ASSUME NEW S, NEW s \in Seq(Seq(S))
    PROVE  FlattenSeq(s) \in Seq(S)
BY FlattenGoes, FlattenIs

\* Flattening takes concatenation to concatenation.
LEMMA FlattenConcat ==
    ASSUME NEW S, NEW s \in Seq(Seq(S)), NEW t \in Seq(Seq(S))
    PROVE  FlattenSeq(s \o t) = FlattenSeq(s) \o FlattenSeq(t)
<1>1. PICK f : Joins(f, s, S) /\ FlattenSeq(s) = f[Len(s)]
  BY FlattenGoes
<1>2. PICK g : Joins(g, t, S) /\ FlattenSeq(t) = g[Len(t)]
  BY FlattenGoes
<1> DEFINE u == s \o t
<1>3. u \in Seq(Seq(S)) /\ Len(u) = Len(s) + Len(t) /\ Len(s) \in Nat /\ Len(t) \in Nat
  OBVIOUS
<1>4. /\ \A i \in 1..Len(s) : u[i] = s[i]
      /\ \A i \in 1..Len(t) : u[Len(s)+i] = t[i]
  OBVIOUS
<1> HIDE DEF u
<1>5. PICK h : Joins(h, u, S) /\ FlattenSeq(u) = h[Len(u)]
  BY <1>3, FlattenGoes
<1>6. h[Len(s)] = f[Len(s)]
  <2>1. Len(u) \in Nat /\ Len(s) <= Len(u) /\ Len(s) <= Len(s) /\ Len(s) \in Nat
    BY <1>3
  <2>2. \A i \in 1..Len(s) : u[i] = s[i]
    BY <1>4
  <2>3. Alike(u, s, Len(s))
    BY <2>1, <2>2 DEF Alike
  <2> QED BY <1>1, <1>5, <2>3, JoinsAlike
<1> DEFINE B == {i \in Nat : i <= Len(t) => h[Len(s)+i] = f[Len(s)] \o g[i]}
<1>7. 0 \in B
  <2>1. f[Len(s)] \in Seq(S) /\ g[0] = <<>> /\ Len(s)+0 = Len(s)
    <3>1. Len(s) \in 0..Len(s) /\ Len(s)+0 = Len(s)
      BY <1>3
    <3>2. f \in [0..Len(s) -> Seq(S)] /\ g[0] = <<>>
      BY <1>1, <1>2 DEF Joins
    <3> QED BY <3>1, <3>2
  <2>2. f[Len(s)] \o <<>> = f[Len(s)]
    BY <2>1, ConcatEmptySeq
  <2> QED BY <1>6, <2>1, <2>2
<1>8. ASSUME NEW i \in B PROVE i + 1 \in B
  <2>0. i \in Nat /\ (i <= Len(t) => h[Len(s)+i] = f[Len(s)] \o g[i])
    OBVIOUS
  <2> SUFFICES ASSUME i + 1 <= Len(t) PROVE h[Len(s)+(i+1)] = f[Len(s)] \o g[i+1]
    <3>1. i + 1 \in Nat
      BY <2>0
    <3> QED BY <3>1
  <2>1. i \in Nat /\ i <= Len(t) /\ i+1 \in 1..Len(t) /\ (i+1)-1 = i
        /\ Len(s)+(i+1) \in 1..Len(u) /\ (Len(s)+(i+1))-1 = Len(s)+i
    BY <1>3, <2>0
  <2>2. h[Len(s)+(i+1)] = h[Len(s)+i] \o t[i+1]
    BY <1>4, <1>5, <2>1 DEF Joins
  <2>3. g[i+1] = g[i] \o t[i+1]
    BY <1>2, <2>1 DEF Joins
  <2>4. h[Len(s)+i] = f[Len(s)] \o g[i]
    BY <2>0, <2>1
  <2>5. f[Len(s)] \in Seq(S) /\ g[i] \in Seq(S) /\ t[i+1] \in Seq(S)
    <3>1. Len(s) \in 0..Len(s) /\ i \in 0..Len(t)
      BY <1>3, <2>1
    <3>2. t[i+1] \in Seq(S)
      BY <2>1
    <3> QED BY <1>1, <1>2, <3>1, <3>2 DEF Joins
  <2>6. (f[Len(s)] \o g[i]) \o t[i+1] = f[Len(s)] \o (g[i] \o t[i+1])
    <3> DEFINE x == f[Len(s)]
               y == g[i]
               z == t[i+1]
    <3>1. x \in Seq(S) /\ y \in Seq(S) /\ z \in Seq(S)
      BY <2>5
    <3> HIDE DEF x, y, z
    <3>2. (x \o y) \o z = x \o (y \o z)
      BY <3>1, ConcatAssociative
    <3> QED BY <3>2 DEF x, y, z
  <2> QED BY <2>2, <2>3, <2>4, <2>6
<1> HIDE DEF B
<1>9. Len(t) \in B
  BY <1>3, <1>7, <1>8, FromZeroUp DEF B
<1>10. h[Len(u)] = f[Len(s)] \o g[Len(t)]
  <2>1. Len(t) \in Nat /\ Len(t) <= Len(t)
    BY <1>3
  <2> QED BY <1>3, <1>9, <2>1 DEF B
<1> QED BY <1>1, <1>2, <1>5, <1>10 DEF u

\* One sequence is flattened into itself.
LEMMA FlattenOne ==
    ASSUME NEW S, NEW x \in Seq(S)
    PROVE  FlattenSeq(<<x>>) = x
<1>1. <<x>> \in Seq(Seq(S)) /\ Len(<<x>>) = 1
  OBVIOUS
<1>2. PICK f : Joins(f, <<x>>, S) /\ FlattenSeq(<<x>>) = f[1]
  BY <1>1, FlattenGoes
<1>3. f[1] = <<>> \o x
  <2>1. 1 \in 1..Len(<<x>>) /\ 1-1 = 0 /\ <<x>>[1] = x
    OBVIOUS
  <2>2. f[1] = f[1-1] \o <<x>>[1] /\ f[0] = <<>>
    BY <1>2, <2>1 DEF Joins
  <2> QED BY <2>1, <2>2
<1> QED BY <1>2, <1>3, ConcatEmptySeq

\* So are its elements, each in a sequence of its own.
LEMMA FlattenSingles ==
    ASSUME NEW S, NEW x \in Seq(S), NEW s, s = [i \in 1..Len(x) |-> <<x[i]>>]
    PROVE  FlattenSeq(s) = x
<1> DEFINE n == Len(x)
           f == [i \in 0..n |-> SubSeq(x, 1, i)]
<1>1. n \in Nat /\ s \in Seq(Seq(S)) /\ Len(s) = n
  <2>1. n \in Nat /\ \A i \in 1..n : <<x[i]>> \in Seq(S)
    OBVIOUS
  <2> QED BY <2>1
<1>2. ASSUME NEW i \in 0..n PROVE f[i] \in Seq(S)
  OBVIOUS
<1>3. f[0] = <<>>
  OBVIOUS
<1>4. ASSUME NEW i \in 1..n PROVE f[i] = f[i-1] \o s[i]
  <2>1. i \in 0..n /\ i-1 \in 0..n /\ s[i] = <<x[i]>>
    OBVIOUS
  <2>2. SubSeq(x, 1, i) = SubSeq(x, 1, i-1) \o <<x[i]>>
    <3>1. 1 \in 1..Len(x) /\ i \in 1..Len(x)
      BY <1>1
    <3> QED BY <3>1, SubSeqRecursiveSecond
  <2> QED BY <2>1, <2>2
<1>5. f[n] = x
  BY <1>1, SubSeqFull
<1>6. f \in [0..n -> Seq(S)]
  BY <1>2
<1> HIDE DEF f
<1>7. Joins(f, s, S)
  BY <1>1, <1>3, <1>4, <1>6 DEF Joins
<1> QED BY <1>1, <1>5, <1>7, FlattenIs

(* Where the pieces go.                                                    *)
Begins(x, y) == Len(x) <= Len(y) /\ \A q \in 1..Len(x) : y[q] = x[q]

\* What has been put together stays at the front of what comes later.
LEMMA JoinsGrow ==
    ASSUME NEW S, NEW s \in Seq(Seq(S)), NEW f, Joins(f, s, S), NEW i, NEW j,
           i \in 0..Len(s), j \in 0..Len(s), i <= j
    PROVE  f[i] \in Seq(S) /\ f[j] \in Seq(S) /\ Begins(f[i], f[j])
<1>1. Len(s) \in Nat /\ f \in [0..Len(s) -> Seq(S)]
  BY DEF Joins
<1> DEFINE Grows(k) == /\ f[i+k] \in Seq(S) /\ Len(f[i]) <= Len(f[i+k])
                       /\ \A q \in 1..Len(f[i]) : f[i+k][q] = f[i][q]
           B == {k \in Nat : i + k <= Len(s) => Grows(k)}
<1>2. 0 \in B
  <2>1. f[i] \in Seq(S) /\ i + 0 = i
    BY <1>1
  <2>2. Len(f[i]) \in Nat
    BY <2>1
  <2> QED BY <2>1, <2>2
<1>3. ASSUME NEW k \in B PROVE k + 1 \in B
  <2>0. k \in Nat /\ k + 1 \in Nat
    OBVIOUS
  <2> SUFFICES ASSUME i + (k + 1) <= Len(s) PROVE Grows(k+1)
    BY <2>0
  <2>1. k \in Nat /\ i + (k+1) \in 1..Len(s) /\ (i + (k+1)) - 1 = i + k /\ i + k <= Len(s) /\ i+k \in 0..Len(s)
    BY <1>1, <2>0
  <2>2. f[i+(k+1)] = f[i+k] \o s[i+(k+1)]
    BY <2>1 DEF Joins
  <2>3. Grows(k)
    BY <2>1
  <2>4. s[i+(k+1)] \in Seq(S)
    BY <2>1
  <2> DEFINE x == f[i+k]
             y == s[i+(k+1)]
             z == f[i+(k+1)]
  <2>5. x \in Seq(S) /\ y \in Seq(S) /\ z = x \o y /\ f[i] \in Seq(S)
    BY <1>1, <2>2, <2>3, <2>4
  <2>6. Len(f[i]) <= Len(x) /\ \A q \in 1..Len(f[i]) : x[q] = f[i][q]
    BY <2>3
  <2> HIDE DEF x, y, z
  <2>7. z \in Seq(S) /\ Len(f[i]) <= Len(z) /\ \A q \in 1..Len(f[i]) : z[q] = f[i][q]
    <3>1. /\ z \in Seq(S) /\ Len(x) \in Nat /\ Len(z) >= Len(x) /\ Len(f[i]) \in Nat
          /\ \A q \in 1..Len(x) : z[q] = x[q]
      BY <2>5
    <3>2. \A q \in 1..Len(f[i]) : q \in 1..Len(x)
      BY <2>6, <3>1
    <3> QED BY <2>6, <3>1, <3>2
  <2> QED BY <2>7 DEF z
<1> HIDE DEF B
<1>4. j - i \in Nat /\ i + (j - i) = j /\ j <= Len(s)
  BY <1>1
<1>5. Grows(j - i)
  <2>1. j - i \in B
    BY <1>2, <1>3, <1>4, FromZeroUp DEF B
  <2> QED BY <1>4, <2>1 DEF B
<1> QED BY <1>1, <1>4, <1>5 DEF Begins

(* The piece s[i] is in the whole after f[i-1].                            *)
LiesAfter(f, s, i) ==
    /\ Len(f[i-1]) \in Nat /\ Len(s[i]) \in Nat /\ Len(f[i]) = Len(f[i-1]) + Len(s[i])
    /\ Len(f[i]) <= Len(FlattenSeq(s))
    /\ \A k \in 1..Len(s[i]) : FlattenSeq(s)[Len(f[i-1]) + k] = s[i][k]

\* Every piece is where the ones before it end.
LEMMA PieceOf ==
    ASSUME NEW S, NEW s \in Seq(Seq(S)), NEW f, Joins(f, s, S), NEW i, i \in 1..Len(s)
    PROVE  LiesAfter(f, s, i)
<1>0. f \in [0..Len(s) -> Seq(S)]
  BY DEF Joins
<1>1. /\ Len(s) \in Nat /\ i \in 0..Len(s) /\ i-1 \in 0..Len(s)
      /\ Len(s) \in 0..Len(s) /\ i <= Len(s)
  OBVIOUS
<1>2. FlattenSeq(s) = f[Len(s)]
  BY FlattenIs
<1>3. Len(f[i]) <= Len(f[Len(s)]) /\ \A q \in 1..Len(f[i]) : f[Len(s)][q] = f[i][q]
  <2>1. Begins(f[i], f[Len(s)])
    BY <1>1, JoinsGrow
  <2> QED BY <2>1 DEF Begins
<1> DEFINE x == f[i-1]
           y == s[i]
           z == f[i]
<1>4. x \in Seq(S) /\ y \in Seq(S) /\ z = x \o y
  <2>1. x \in Seq(S)
    BY <1>0, <1>1
  <2>2. y \in Seq(S)
    OBVIOUS
  <2>3. z = x \o y
    BY DEF Joins
  <2> QED BY <2>1, <2>2, <2>3
<1> HIDE DEF x, y, z
<1>5. /\ Len(x) \in Nat /\ Len(y) \in Nat /\ Len(z) = Len(x) + Len(y)
      /\ \A k \in 1..Len(y) : z[Len(x) + k] = y[k] /\ Len(x) + k \in 1..Len(z)
  BY <1>4
<1>6. \A k \in 1..Len(y) : f[Len(s)][Len(x) + k] = y[k]
  <2>1. \A q \in 1..Len(z) : f[Len(s)][q] = z[q]
    BY <1>3 DEF z
  <2> QED BY <1>5, <2>1
<1> QED BY <1>2, <1>3, <1>5, <1>6 DEF x, y, z, LiesAfter

InPiece(f, s, q) == \E i \in 1..Len(s) : \E k \in 1..Len(s[i]) : q = Len(f[i-1]) + k

\* Every place of the whole is a place of some piece.
LEMMA InSomePiece ==
    ASSUME NEW S, NEW s \in Seq(Seq(S)), NEW f, Joins(f, s, S), NEW q, q \in 1..Len(FlattenSeq(s))
    PROVE  InPiece(f, s, q)
<1>1. Len(s) \in Nat /\ f[0] = <<>> /\ q \in Nat /\ q # 0
  <2>1. FlattenSeq(s) \in Seq(S)
    BY FlattenType
  <2>2. Len(FlattenSeq(s)) \in Nat
    BY <2>1
  <2> QED BY <2>2 DEF Joins
<1>2. FlattenSeq(s) = f[Len(s)]
  BY FlattenIs
<1> DEFINE B == {i \in 0..Len(s) : q <= Len(f[i])}
<1>3. B \in SUBSET Nat /\ B # {}
  <2>1. Len(s) \in B
    BY <1>1, <1>2
  <2> QED BY <2>1
<1>4. PICK i \in B : \A j \in B : i <= j
  BY <1>3, LeastOfNats
<1>5. i \in 0..Len(s) /\ q <= Len(f[i]) /\ i # 0
  <2>1. Len(f[0]) = 0
    BY <1>1
  <2> QED BY <1>1, <2>1
<1>6. i \in 1..Len(s) /\ i-1 \in 0..Len(s) /\ i \in Nat
  BY <1>1, <1>5
<1>7. i-1 \notin B
  BY <1>4, <1>6
<1>8. Len(f[i-1]) \in Nat /\ Len(s[i]) \in Nat /\ Len(f[i]) = Len(f[i-1]) + Len(s[i])
  <2>1. i \in 1..Len(s)
    BY <1>6
  <2>2. LiesAfter(f, s, i)
    BY <2>1, PieceOf
  <2> QED BY <2>2 DEF LiesAfter
<1>9. Len(f[i-1]) < q
  BY <1>1, <1>6, <1>7, <1>8
<1> DEFINE a == Len(f[i-1])
           b == Len(s[i])
<1>11. a \in Nat /\ b \in Nat /\ q <= a + b /\ a < q
  BY <1>5, <1>8, <1>9
<1> HIDE DEF a, b
<1>12. q - a \in 1..b /\ q = a + (q - a)
  BY <1>1, <1>11
<1>10. q - Len(f[i-1]) \in 1..Len(s[i]) /\ q = Len(f[i-1]) + (q - Len(f[i-1]))
  BY <1>12 DEF a, b
<1> QED BY <1>6, <1>10 DEF InPiece

SameShape(s, t) == Len(s) = Len(t) /\ \A i \in 1..Len(s) : Len(s[i]) = Len(t[i])

\* Pieces of the same lengths end at the same places.
LEMMA SameLengths ==
    ASSUME NEW S, NEW T, NEW s \in Seq(Seq(S)), NEW t \in Seq(Seq(T)), NEW f, NEW g,
           Joins(f, s, S), Joins(g, t, T), SameShape(s, t)
    PROVE  \A i \in 0..Len(s) : Len(f[i]) = Len(g[i])
<1> USE DEF SameShape
<1> DEFINE B == {i \in Nat : i <= Len(s) => Len(f[i]) = Len(g[i])}
<1>1. 0 \in B
  BY DEF Joins
<1>2. ASSUME NEW i \in B PROVE i + 1 \in B
  <2>0. i \in Nat /\ i + 1 \in Nat
    OBVIOUS
  <2> SUFFICES ASSUME i + 1 <= Len(s) PROVE Len(f[i+1]) = Len(g[i+1])
    BY <2>0
  <2>1. i + 1 \in 1..Len(s) /\ i + 1 \in 1..Len(t) /\ (i + 1) - 1 = i /\ i <= Len(s)
    BY <2>0
  <2>2. LiesAfter(f, s, i + 1)
    BY <2>1, PieceOf
  <2>3. LiesAfter(g, t, i + 1)
    BY <2>1, PieceOf
  <2>4. Len(f[i]) = Len(g[i])
    BY <2>1
  <2> QED BY <2>1, <2>2, <2>3, <2>4 DEF LiesAfter
<1> HIDE DEF B
<1>3. \A n \in Nat : n \in B
  <2>1. B \in SUBSET Nat
    BY DEF B
  <2> QED BY <1>1, <1>2, <2>1, FromZeroUp
<1> QED BY <1>3 DEF B

----------------------------------------------------------------------------
(* What a command is made of while it is matched.                          *)

Matches    == {m \in [words : Seq(STRING), id : Objects, size : Int] : m.words # <<>>}
WordItem   == [word : STRING]
ObjectItem == [object : Objects, match : Matches, kind : {"verb", "noun"}]
Item       == WordItem \cup ObjectItem

\* A word is covered by itself.
LEMMA WordItemIs ==
    ASSUME NEW x \in WordItem
    PROVE  /\ "word" \in DOMAIN x /\ "object" \notin DOMAIN x /\ x.word \in STRING
           /\ Covered(x) = <<x.word>> /\ x = [word |-> x.word]
BY DEF WordItem, Covered

\* An object covers the words of the phrase it stands for.
LEMMA ObjectItemIs ==
    ASSUME NEW x \in ObjectItem
    PROVE  /\ "word" \notin DOMAIN x /\ "object" \in DOMAIN x /\ x.kind \in {"verb", "noun"}
           /\ Covered(x) = x.match.words /\ x.match \in Matches /\ x.object \in Objects
BY DEF ObjectItem, Covered

\* Every item covers at least one word.
LEMMA CoveredType ==
    ASSUME NEW x \in Item
    PROVE  Covered(x) \in Seq(STRING) /\ Len(Covered(x)) \in Nat /\ Len(Covered(x)) >= 1
<1>1. CASE x \in WordItem
  <2>1. Covered(x) = <<x.word>> /\ x.word \in STRING
    BY <1>1, WordItemIs
  <2> QED BY <2>1
<1>2. CASE x \in ObjectItem
  <2>1. Covered(x) = x.match.words /\ x.match \in Matches
    BY <1>2, ObjectItemIs
  <2>2. x.match.words \in Seq(STRING) /\ x.match.words # <<>>
    BY <2>1 DEF Matches
  <2> DEFINE w == x.match.words
  <2> HIDE DEF w
  <2>3. w \in Seq(STRING) /\ w # <<>>
    BY <2>2 DEF w
  <2>4. Len(w) \in Nat /\ Len(w) >= 1
    BY <2>3
  <2> QED BY <2>1, <2>3, <2>4 DEF w
<1> QED BY <1>1, <1>2 DEF Item

WordPieces(items) == [i \in DOMAIN items |-> Covered(items[i])]
FatePieces(items) == [i \in DOMAIN items |-> [k \in DOMAIN Covered(items[i]) |-> items[i]]]

\* The words and the fates of the items are pieces of the same lengths.
LEMMA PiecesType ==
    ASSUME NEW items \in Seq(Item)
    PROVE  /\ WordPieces(items) \in Seq(Seq(STRING)) /\ Len(WordPieces(items)) = Len(items)
           /\ FatePieces(items) \in Seq(Seq(Item)) /\ Len(FatePieces(items)) = Len(items)
           /\ \A i \in 1..Len(items) :
                /\ items[i] \in Item
                /\ WordPieces(items)[i] = Covered(items[i])
                /\ FatePieces(items)[i] = [k \in 1..Len(Covered(items[i])) |-> items[i]]
                /\ Len(FatePieces(items)[i]) = Len(Covered(items[i]))
<1>1. Len(items) \in Nat /\ DOMAIN items = 1..Len(items)
  OBVIOUS
<1>2. ASSUME NEW i \in 1..Len(items)
      PROVE  /\ items[i] \in Item /\ Covered(items[i]) \in Seq(STRING)
             /\ Len(Covered(items[i])) \in Nat /\ DOMAIN Covered(items[i]) = 1..Len(Covered(items[i]))
  <2>1. items[i] \in Item
    OBVIOUS
  <2>2. Covered(items[i]) \in Seq(STRING)
    BY <2>1, CoveredType
  <2> QED BY <2>1, <2>2
<1>3. ASSUME NEW i \in 1..Len(items)
      PROVE  /\ [k \in DOMAIN Covered(items[i]) |-> items[i]] \in Seq(Item)
             /\ Len([k \in DOMAIN Covered(items[i]) |-> items[i]]) = Len(Covered(items[i]))
  BY <1>2
<1>4. WordPieces(items) \in Seq(Seq(STRING)) /\ Len(WordPieces(items)) = Len(items)
  BY <1>1, <1>2 DEF WordPieces
<1>5. FatePieces(items) \in Seq(Seq(Item)) /\ Len(FatePieces(items)) = Len(items)
  BY <1>1, <1>3 DEF FatePieces
<1> QED BY <1>1, <1>2, <1>3, <1>4, <1>5 DEF WordPieces, FatePieces

EndToEnd(x, y, z) ==
    /\ Len(z) = Len(x) + Len(y)
    /\ \A i \in 1..Len(z) : z[i] = IF i <= Len(x) THEN x[i] ELSE y[i - Len(x)]

\* Elements in the places of a concatenation are the concatenation.
LEMMA IsConcat ==
    ASSUME NEW S, NEW x \in Seq(S), NEW y \in Seq(S), NEW z \in Seq(S), EndToEnd(x, y, z)
    PROVE  z = x \o y
<1> DEFINE w == x \o y
<1>1. /\ w \in Seq(S) /\ Len(w) = Len(x) + Len(y) /\ Len(x) \in Nat /\ Len(y) \in Nat
      /\ \A i \in 1..Len(w) : w[i] = IF i <= Len(x) THEN x[i] ELSE y[i - Len(x)]
  OBVIOUS
<1> HIDE DEF w
<1>2. Len(z) = Len(w) /\ \A i \in 1..Len(z) : z[i] = w[i]
  BY <1>1 DEF EndToEnd
<1>3. z = w
  BY <1>1, <1>2, SeqEqual
<1> QED BY <1>3 DEF w

\* The pieces of two sequences of items are those of the one and those of the
\* other.
LEMMA PiecesConcat ==
    ASSUME NEW a \in Seq(Item), NEW b \in Seq(Item)
    PROVE  /\ WordPieces(a \o b) = WordPieces(a) \o WordPieces(b)
           /\ FatePieces(a \o b) = FatePieces(a) \o FatePieces(b)
<1> DEFINE c == a \o b
<1>1. c \in Seq(Item) /\ Len(c) = Len(a) + Len(b) /\ Len(a) \in Nat /\ Len(b) \in Nat
  OBVIOUS
<1>2. ASSUME NEW i \in 1..Len(c)
      PROVE  c[i] = IF i <= Len(a) THEN a[i] ELSE b[i - Len(a)]
  OBVIOUS
<1> HIDE DEF c
<1>3. WordPieces(c) = WordPieces(a) \o WordPieces(b)
  <2> DEFINE x == WordPieces(a)
             y == WordPieces(b)
             z == WordPieces(c)
  <2>1. /\ x \in Seq(Seq(STRING)) /\ y \in Seq(Seq(STRING)) /\ z \in Seq(Seq(STRING))
        /\ Len(x) = Len(a) /\ Len(y) = Len(b) /\ Len(z) = Len(c)
    BY <1>1, PiecesType
  <2>2. ASSUME NEW i \in 1..Len(z) PROVE z[i] = IF i <= Len(x) THEN x[i] ELSE y[i - Len(x)]
    <3>1. i \in 1..Len(c) /\ i <= Len(a) => i \in 1..Len(a)
      BY <1>1, <2>1
    <3>2. i > Len(a) => i - Len(a) \in 1..Len(b)
      BY <1>1, <2>1
    <3>3. z[i] = Covered(c[i])
      BY <1>1, <3>1 DEF WordPieces
    <3>4. CASE i <= Len(a)
      BY <1>2, <2>1, <3>1, <3>3, <3>4 DEF WordPieces
    <3>5. CASE i > Len(a)
      <4>1. i - Len(a) \in 1..Len(b) /\ c[i] = b[i - Len(a)] /\ ~(i <= Len(x))
        BY <1>1, <1>2, <2>1, <3>1, <3>2, <3>5
      <4>2. y[i - Len(a)] = Covered(b[i - Len(a)])
        BY <4>1 DEF WordPieces
      <4> QED BY <2>1, <3>3, <4>1, <4>2
    <3> QED BY <1>1, <3>1, <3>4, <3>5
  <2> HIDE DEF x, y, z
  <2>3. EndToEnd(x, y, z)
    BY <1>1, <2>1, <2>2 DEF EndToEnd
  <2>4. z = x \o y
    BY <2>1, <2>3, IsConcat
  <2> QED BY <2>4 DEF x, y, z
<1>4. FatePieces(c) = FatePieces(a) \o FatePieces(b)
  <2> DEFINE x == FatePieces(a)
             y == FatePieces(b)
             z == FatePieces(c)
  <2>1. /\ x \in Seq(Seq(Item)) /\ y \in Seq(Seq(Item)) /\ z \in Seq(Seq(Item))
        /\ Len(x) = Len(a) /\ Len(y) = Len(b) /\ Len(z) = Len(c)
    BY <1>1, PiecesType
  <2>2. ASSUME NEW i \in 1..Len(z) PROVE z[i] = IF i <= Len(x) THEN x[i] ELSE y[i - Len(x)]
    <3>1. i \in 1..Len(c) /\ i <= Len(a) => i \in 1..Len(a)
      BY <1>1, <2>1
    <3>2. i > Len(a) => i - Len(a) \in 1..Len(b)
      BY <1>1, <2>1
    <3>3. z[i] = [k \in DOMAIN Covered(c[i]) |-> c[i]]
      BY <1>1, <3>1 DEF FatePieces
    <3>4. CASE i <= Len(a)
      <4>1. c[i] = a[i] /\ i <= Len(x)
        BY <1>2, <2>1, <3>1, <3>4
      <4>2. x[i] = [k \in DOMAIN Covered(a[i]) |-> a[i]]
        BY <3>1, <3>4 DEF FatePieces
      <4> QED BY <3>3, <4>1, <4>2
    <3>5. CASE i > Len(a)
      <4>1. i - Len(a) \in 1..Len(b) /\ c[i] = b[i - Len(a)] /\ ~(i <= Len(x))
        BY <1>1, <1>2, <2>1, <3>1, <3>2, <3>5
      <4>2. y[i - Len(a)] = [k \in DOMAIN Covered(b[i - Len(a)]) |-> b[i - Len(a)]]
        BY <4>1 DEF FatePieces
      <4> QED BY <2>1, <3>3, <4>1, <4>2
    <3> QED BY <1>1, <3>1, <3>4, <3>5
  <2> HIDE DEF x, y, z
  <2>3. EndToEnd(x, y, z)
    BY <1>1, <2>1, <2>2 DEF EndToEnd
  <2>4. z = x \o y
    BY <2>1, <2>3, IsConcat
  <2> QED BY <2>4 DEF x, y, z
<1> QED BY <1>3, <1>4 DEF c

\* So are their words and their fates.
LEMMA ReadConcat ==
    ASSUME NEW a \in Seq(Item), NEW b \in Seq(Item)
    PROVE  /\ WordsOf(a) \in Seq(STRING) /\ WordsOf(a \o b) = WordsOf(a) \o WordsOf(b)
           /\ Fates(a) \in Seq(Item) /\ Fates(a \o b) = Fates(a) \o Fates(b)
<1>1. /\ WordPieces(a) \in Seq(Seq(STRING)) /\ WordPieces(b) \in Seq(Seq(STRING))
      /\ FatePieces(a) \in Seq(Seq(Item)) /\ FatePieces(b) \in Seq(Seq(Item))
  BY PiecesType
<1>2. \A x : WordsOf(x) = FlattenSeq(WordPieces(x)) /\ Fates(x) = FlattenSeq(FatePieces(x))
  BY DEF WordsOf, Fates, WordPieces, FatePieces
<1>3. FlattenSeq(WordPieces(a)) \in Seq(STRING) /\ FlattenSeq(FatePieces(a)) \in Seq(Item)
  BY <1>1, FlattenType
<1>4. /\ FlattenSeq(WordPieces(a) \o WordPieces(b)) = FlattenSeq(WordPieces(a)) \o FlattenSeq(WordPieces(b))
      /\ FlattenSeq(FatePieces(a) \o FatePieces(b)) = FlattenSeq(FatePieces(a)) \o FlattenSeq(FatePieces(b))
  BY <1>1, FlattenConcat
<1> QED BY <1>2, <1>3, <1>4, PiecesConcat

WordsAsItems(w) == [i \in 1..Len(w) |-> [word |-> w[i]]]

\* Words that became nothing else are read as themselves.
LEMMA PlainReads ==
    ASSUME NEW w \in Seq(STRING)
    PROVE  /\ WordsAsItems(w) \in Seq(Item) /\ WordsOf(WordsAsItems(w)) = w
           /\ Fates(WordsAsItems(w)) = WordsAsItems(w)
           /\ Len(WordsAsItems(w)) = Len(w)
<1> DEFINE x == WordsAsItems(w)
<1>1. Len(w) \in Nat /\ \A i \in 1..Len(w) : w[i] \in STRING
  OBVIOUS
<1>2. ASSUME NEW i \in 1..Len(w)
      PROVE  [word |-> w[i]] \in Item /\ Covered([word |-> w[i]]) = <<w[i]>>
  <2>1. [word |-> w[i]] \in WordItem
    BY <1>1 DEF WordItem
  <2> QED BY <2>1, WordItemIs DEF Item
<1>3. x \in Seq(Item) /\ Len(x) = Len(w) /\ DOMAIN x = 1..Len(w)
  BY <1>1, <1>2 DEF WordsAsItems
<1>4. WordPieces(x) = [i \in 1..Len(w) |-> <<w[i]>>]
  BY <1>2, <1>3 DEF WordPieces, WordsAsItems
<1>5. FatePieces(x) = [i \in 1..Len(x) |-> <<x[i]>>]
  <2>1. ASSUME NEW i \in 1..Len(w) PROVE [k \in DOMAIN Covered(x[i]) |-> x[i]] = <<x[i]>>
    <3>1. Covered(x[i]) = <<w[i]>>
      BY <1>2 DEF WordsAsItems
    <3>2. DOMAIN Covered(x[i]) = 1..1
      BY <3>1
    <3> QED BY <3>2
  <2> HIDE DEF x
  <2> QED BY <1>3, <2>1 DEF FatePieces
<1> HIDE DEF x
<1>6. FlattenSeq(WordPieces(x)) = w
  BY <1>4, FlattenSingles
<1>7. FlattenSeq(FatePieces(x)) = x
  BY <1>3, <1>5, FlattenSingles
<1>8. WordsOf(x) = FlattenSeq(WordPieces(x)) /\ Fates(x) = FlattenSeq(FatePieces(x))
  BY DEF WordsOf, Fates, WordPieces, FatePieces
<1> QED BY <1>3, <1>6, <1>7, <1>8 DEF x

\* One item is read as the words it covers, which all became that item.
LEMMA OneReads ==
    ASSUME NEW x \in Item
    PROVE  /\ <<x>> \in Seq(Item) /\ WordsOf(<<x>>) = Covered(x)
           /\ Fates(<<x>>) = [k \in 1..Len(Covered(x)) |-> x]
<1>1. Covered(x) \in Seq(STRING) /\ DOMAIN Covered(x) = 1..Len(Covered(x)) /\ Len(Covered(x)) \in Nat
  <2>1. Covered(x) \in Seq(STRING)
    BY CoveredType
  <2> QED BY <2>1
<1>2. <<x>> \in Seq(Item) /\ DOMAIN <<x>> = 1..1 /\ <<x>>[1] = x
  OBVIOUS
<1> DEFINE c == Covered(x)
           y == [k \in 1..Len(c) |-> x]
<1>3. y \in Seq(Item)
  BY <1>1
<1>4. [i \in DOMAIN <<x>> |-> Covered(<<x>>[i])] = <<c>>
  <2>1. [i \in DOMAIN <<x>> |-> Covered(<<x>>[i])] = [i \in 1..1 |-> Covered(x)]
    BY <1>2
  <2> QED BY <2>1
<1>5. [i \in DOMAIN <<x>> |-> [k \in DOMAIN Covered(<<x>>[i]) |-> <<x>>[i]]] = <<y>>
  <2>1. [i \in DOMAIN <<x>> |-> [k \in DOMAIN Covered(<<x>>[i]) |-> <<x>>[i]]] = [i \in 1..1 |-> y]
    BY <1>1, <1>2
  <2> HIDE DEF y
  <2> QED BY <2>1
<1> HIDE DEF c, y
<1>6. FlattenSeq(<<y>>) = y
  BY <1>3, FlattenOne
<1>7. FlattenSeq(<<c>>) = c
  BY <1>1, FlattenOne DEF c
<1> QED BY <1>2, <1>4, <1>5, <1>6, <1>7 DEF WordsOf, Fates, c, y

(* A fate is one of the items, and where it is a word it is that word.     *)
FateIsFound(items, q) ==
    /\ \E i \in 1..Len(items) : Fates(items)[q] = items[i]
    /\ Fates(items)[q] \in Item
    /\ Fates(items)[q] \in WordItem => WordsOf(items)[q] = Fates(items)[q].word

\* Every word has a fate, and every item is the fate of a word.
LEMMA FateIs ==
    ASSUME NEW items \in Seq(Item)
    PROVE  /\ Len(Fates(items)) = Len(WordsOf(items)) /\ Len(Fates(items)) \in Nat
           /\ \A q \in 1..Len(Fates(items)) : FateIsFound(items, q)
           /\ \A i \in 1..Len(items) : \E q \in 1..Len(Fates(items)) : Fates(items)[q] = items[i]
<1> DEFINE s == WordPieces(items)
           t == FatePieces(items)
<1>1. WordsOf(items) = FlattenSeq(s) /\ Fates(items) = FlattenSeq(t)
  BY DEF WordsOf, Fates, WordPieces, FatePieces
<1>2. s \in Seq(Seq(STRING)) /\ t \in Seq(Seq(Item)) /\ Len(s) = Len(items) /\ Len(t) = Len(items)
  BY PiecesType
<1>3. \A i \in 1..Len(items) : items[i] \in Item /\ s[i] = Covered(items[i])
                               /\ t[i] = [k \in 1..Len(Covered(items[i])) |-> items[i]]
                               /\ Len(s[i]) = Len(t[i])
  BY PiecesType
<1> HIDE DEF s, t
<1>4. PICK f : Joins(f, s, STRING) /\ FlattenSeq(s) = f[Len(s)]
  BY <1>2, FlattenGoes
<1>5. PICK g : Joins(g, t, Item) /\ FlattenSeq(t) = g[Len(t)]
  BY <1>2, FlattenGoes
<1>6. \A i \in 0..Len(s) : Len(f[i]) = Len(g[i])
  <2>1. SameShape(s, t)
    BY <1>2, <1>3 DEF SameShape
  <2> QED BY <1>2, <1>4, <1>5, <2>1, SameLengths
<1>7. Len(items) \in Nat /\ Len(items) \in 0..Len(s)
  BY <1>2
<1>8. Len(Fates(items)) = Len(WordsOf(items))
  BY <1>1, <1>2, <1>4, <1>5, <1>6, <1>7
<1>9. Len(Fates(items)) \in Nat
  <2>1. Fates(items) \in Seq(Item)
    BY <1>1, <1>2, FlattenType
  <2> QED BY <2>1
<1>10. ASSUME NEW q \in 1..Len(Fates(items)) PROVE FateIsFound(items, q)
  <2>1. q \in 1..Len(FlattenSeq(t))
    BY <1>1
  <2>2. PICK i \in 1..Len(t) : \E k \in 1..Len(t[i]) : q = Len(g[i-1]) + k
    <3>1. InPiece(g, t, q)
      BY <1>2, <1>5, <2>1, InSomePiece
    <3> QED BY <3>1 DEF InPiece
  <2>3. PICK k \in 1..Len(t[i]) : q = Len(g[i-1]) + k
    BY <2>2
  <2>4. i \in 1..Len(items) /\ i \in 1..Len(s) /\ i - 1 \in 0..Len(s)
    BY <1>2, <1>7
  <2>5. LiesAfter(g, t, i)
    BY <1>2, <1>5, PieceOf
  <2>6. LiesAfter(f, s, i)
    BY <1>2, <1>4, <2>4, PieceOf
  <2>7. Fates(items)[q] = t[i][k]
    BY <1>1, <2>3, <2>5 DEF LiesAfter
  <2>8. k \in 1..Len(s[i]) /\ Len(f[i-1]) = Len(g[i-1])
    BY <1>3, <1>6, <2>3, <2>4
  <2>9. WordsOf(items)[q] = s[i][k]
    BY <1>1, <2>3, <2>6, <2>8 DEF LiesAfter
  <2>10. items[i] \in Item /\ t[i] = [j \in 1..Len(Covered(items[i])) |-> items[i]] /\ s[i] = Covered(items[i])
    BY <1>3, <2>4
  <2>11. t[i][k] = items[i]
    BY <2>8, <2>10
  <2>12. items[i] \in WordItem => s[i][k] = items[i].word
    <3>1. ASSUME items[i] \in WordItem PROVE s[i] = <<items[i].word>>
      BY <2>10, <3>1, WordItemIs
    <3>2. ASSUME s[i] = <<items[i].word>> PROVE s[i][k] = items[i].word
      <4>1. Len(s[i]) = 1
        BY <3>2
      <4>2. k = 1
        BY <2>8, <4>1
      <4> QED BY <3>2, <4>2
    <3> QED BY <3>1, <3>2
  <2> QED BY <2>4, <2>7, <2>9, <2>10, <2>11, <2>12 DEF FateIsFound
<1>11. ASSUME NEW i \in 1..Len(items)
       PROVE  \E q \in 1..Len(Fates(items)) : Fates(items)[q] = items[i]
  <2>1. i \in 1..Len(t)
    BY <1>2
  <2>2. LiesAfter(g, t, i)
    BY <1>2, <1>5, <2>1, PieceOf
  <2>3. Len(Covered(items[i])) \in Nat /\ Len(Covered(items[i])) >= 1 /\ t[i] = [k \in 1..Len(Covered(items[i])) |-> items[i]]
    BY <1>3, CoveredType
  <2>4. 1 \in 1..Len(t[i]) /\ t[i][1] = items[i]
    <3>1. Len(t[i]) = Len(Covered(items[i]))
      BY <2>3
    <3> QED BY <2>3, <3>1
  <2> DEFINE q == Len(g[i-1]) + 1
  <2>5. q \in 1..Len(Fates(items)) /\ Fates(items)[q] = t[i][1]
    <3> DEFINE a == Len(g[i-1])
               b == Len(t[i])
               n == Len(Fates(items))
    <3>1. a \in Nat /\ b \in Nat /\ Len(g[i]) = a + b /\ Len(g[i]) <= n /\ n \in Nat /\ 1 \in 1..b
      BY <1>1, <1>9, <2>2, <2>4 DEF LiesAfter
    <3>2. Fates(items)[a + 1] = t[i][1]
      BY <1>1, <2>2, <2>4 DEF LiesAfter
    <3> HIDE DEF a, b, n
    <3>3. a + 1 \in 1..n
      BY <3>1
    <3> QED BY <3>2, <3>3 DEF a, n
  <2> QED BY <2>4, <2>5
<1> QED BY <1>8, <1>9, <1>10, <1>11

(* At finds where a phrase begins, if it is there at all.                  *)
Occurs(items, phrase, i) ==
    /\ i \in DOMAIN items /\ i + Len(phrase) - 1 <= Len(items)
    /\ \A j \in DOMAIN phrase : items[i + j - 1] = [word |-> phrase[j]]

Finds(items, phrase) ==
    IF At(items, phrase) = 0 THEN ~\E i \in DOMAIN items : Occurs(items, phrase, i)
                             ELSE Occurs(items, phrase, At(items, phrase))

\* At is 0 where a phrase does not occur, and else a place where it does
\* (SystemParser.cc:141, 151).
LEMMA AtFinds ==
    ASSUME NEW items \in Seq(Item), NEW phrase
    PROVE  Finds(items, phrase)
<1> DEFINE found == {i \in DOMAIN items : /\ i + Len(phrase) - 1 <= Len(items)
                                          /\ \A j \in DOMAIN phrase : items[i + j - 1] = [word |-> phrase[j]]}
<1>1. At(items, phrase) = IF found = {} THEN 0 ELSE CHOOSE i \in found : \A j \in found : i <= j
  BY DEF At
<1>2. \A i : i \in found <=> Occurs(items, phrase, i)
  BY DEF Occurs
<1>3. found \in SUBSET Nat /\ 0 \notin found
  <2>1. DOMAIN items = 1..Len(items) /\ Len(items) \in Nat
    OBVIOUS
  <2> QED BY <2>1
<1> HIDE DEF found
<1>4. CASE found = {}
  <2>1. At(items, phrase) = 0
    BY <1>1, <1>4
  <2> QED BY <1>2, <1>4, <2>1 DEF Finds
<1>5. CASE found # {}
  <2>1. \E i \in found : \A j \in found : i <= j
    BY <1>3, <1>5, LeastOfNats
  <2>2. At(items, phrase) \in found
    BY <1>1, <1>5, <2>1
  <2> QED BY <1>2, <1>3, <2>2 DEF Finds
<1> QED BY <1>4, <1>5

Stand(id, match, kind) == [object |-> id, match |-> match, kind |-> kind]

(* What a replacement keeps and what it brings.                            *)
Keeps(items, new, it) ==
    /\ new \in Seq(Item) /\ WordsOf(new) = WordsOf(items)
    /\ \A a \in 1..Len(new) : new[a] = it \/ \E b \in 1..Len(items) : new[a] = items[b]
    /\ \E a \in 1..Len(new) : new[a] = it
    /\ \A b \in 1..Len(items) : items[b] \in ObjectItem => \E a \in 1..Len(new) : new[a] = items[b]
    /\ Len(Fates(new)) = Len(Fates(items))
    /\ \A q \in 1..Len(Fates(items)) :
          Fates(items)[q] \in ObjectItem => Fates(new)[q] = Fates(items)[q]

\* No item is a word and an object.
LEMMA Disjoint == WordItem \cap ObjectItem = {}
BY WordItemIs, ObjectItemIs

(* Sequences that differ only between.                                     *)
Between(x, m, n, y, old, new) ==
    /\ Len(m) = Len(n) => Len(new) = Len(old)
    /\ \A a \in 1..Len(new) : \/ \E b \in 1..Len(n) : new[a] = n[b]
                              \/ \E b \in 1..Len(old) : new[a] = old[b]
    /\ \A b \in 1..Len(n) : \E a \in 1..Len(new) : new[a] = n[b]
    /\ \A b \in 1..Len(old) : \/ \E a \in 1..Len(m) : old[b] = m[a]
                              \/ \E a \in 1..Len(new) : new[a] = old[b]
    /\ Len(m) = Len(n) => \A q \in 1..Len(old) : \/ \E a \in 1..Len(m) : old[q] = m[a]
                                                 \/ new[q] = old[q]

\* What takes the place of the middle leaves the rest where it was.
LEMMA OnlyBetween ==
    ASSUME NEW S, NEW x \in Seq(S), NEW m \in Seq(S), NEW n \in Seq(S), NEW y \in Seq(S),
           NEW old, NEW new, old = (x \o m) \o y, new = (x \o n) \o y
    PROVE  Between(x, m, n, y, old, new)
<1> DEFINE lx == Len(x)
           lm == Len(m)
           ln == Len(n)
           ly == Len(y)
<1>1. lx \in Nat /\ lm \in Nat /\ ln \in Nat /\ ly \in Nat
  OBVIOUS
<1>2. Len(old) = (lx + lm) + ly /\ Len(new) = (lx + ln) + ly
  OBVIOUS
<1>3. /\ \A a \in 1..lx : old[a] = x[a] /\ new[a] = x[a]
      /\ \A a \in 1..lm : old[lx + a] = m[a]
      /\ \A a \in 1..ln : new[lx + a] = n[a]
      /\ \A a \in 1..ly : old[(lx + lm) + a] = y[a] /\ new[(lx + ln) + a] = y[a]
  <2> DEFINE xm == x \o m
             xn == x \o n
  <2>1. /\ xm \in Seq(S) /\ Len(xm) = lx + lm
        /\ \A a \in 1..lx : xm[a] = x[a]
        /\ \A a \in 1..lm : xm[lx + a] = m[a]
    OBVIOUS
  <2>2. /\ xn \in Seq(S) /\ Len(xn) = lx + ln
        /\ \A a \in 1..lx : xn[a] = x[a]
        /\ \A a \in 1..ln : xn[lx + a] = n[a]
    OBVIOUS
  <2>3. old = xm \o y /\ new = xn \o y
    OBVIOUS
  <2> HIDE DEF xm, xn
  <2>4. /\ \A a \in 1..Len(xm) : old[a] = xm[a]
        /\ \A a \in 1..ly : old[Len(xm) + a] = y[a]
    <3>1. /\ Len(xm) \in Nat /\ ly \in Nat
          /\ \A a \in 1..Len(xm) + ly : (xm \o y)[a] = IF a <= Len(xm) THEN xm[a] ELSE y[a - Len(xm)]
      BY <2>1, ConcatProperties
    <3> QED BY <2>3, <3>1
  <2>5. /\ \A a \in 1..Len(xn) : new[a] = xn[a]
        /\ \A a \in 1..ly : new[Len(xn) + a] = y[a]
    <3>1. /\ Len(xn) \in Nat /\ ly \in Nat
          /\ \A a \in 1..Len(xn) + ly : (xn \o y)[a] = IF a <= Len(xn) THEN xn[a] ELSE y[a - Len(xn)]
      BY <2>2, ConcatProperties
    <3> QED BY <2>3, <3>1
  <2> HIDE DEF lx, lm, ln, ly
  <2>6. ASSUME NEW a \in 1..lx PROVE a \in 1..lx + lm /\ a \in 1..lx + ln
    BY <1>1
  <2>7. ASSUME NEW a \in 1..lm PROVE lx + a \in 1..lx + lm
    BY <1>1
  <2>8. ASSUME NEW a \in 1..ln PROVE lx + a \in 1..lx + ln
    BY <1>1
  <2>9. \A a \in 1..lx : old[a] = x[a] /\ new[a] = x[a]
    BY <2>1, <2>2, <2>4, <2>5, <2>6
  <2>10. \A a \in 1..lm : old[lx + a] = m[a]
    BY <2>1, <2>4, <2>7
  <2>11. \A a \in 1..ln : new[lx + a] = n[a]
    BY <2>2, <2>5, <2>8
  <2> QED BY <2>1, <2>2, <2>4, <2>5, <2>9, <2>10, <2>11
<1> HIDE DEF lx, lm, ln, ly
<1>4. ASSUME NEW a \in 1..Len(new)
      PROVE  (\E b \in 1..ln : new[a] = n[b]) \/ (\E b \in 1..Len(old) : new[a] = old[b])
  <2>4. a <= lx \/ (a > lx /\ a <= lx + ln) \/ a > lx + ln
    <3>1. a \in Int /\ lx \in Int /\ ln \in Int
      BY <1>1, <1>2
    <3> HIDE DEF lx, lm, ln
    <3> QED BY <3>1
  <2>1. CASE a <= lx
    <3>1. a \in 1..lx /\ a \in 1..Len(old)
      BY <1>1, <1>2, <2>1
    <3> QED BY <1>3, <3>1
  <2>2. CASE a > lx /\ a <= lx + ln
    <3>1. a - lx \in 1..ln /\ lx + (a - lx) = a
      BY <1>1, <1>2, <2>2
    <3> QED BY <1>3, <3>1
  <2>3. CASE a > lx + ln
    <3>1. a - (lx + ln) \in 1..ly /\ (lx + ln) + (a - (lx + ln)) = a
          /\ (lx + lm) + (a - (lx + ln)) \in 1..Len(old)
      BY <1>1, <1>2, <2>3
    <3> QED BY <1>3, <3>1
  <2> QED BY <2>1, <2>2, <2>3, <2>4
<1>5. ASSUME NEW b \in 1..ln PROVE \E a \in 1..Len(new) : new[a] = n[b]
  <2>1. lx + b \in 1..Len(new)
    BY <1>1, <1>2
  <2> QED BY <1>3, <2>1
<1>6. ASSUME NEW q \in 1..Len(old)
      PROVE  \/ \E a \in 1..lm : old[q] = m[a]
             \/ (\E a \in 1..Len(new) : new[a] = old[q]) /\ (lm = ln => new[q] = old[q])
  <2>4. q <= lx \/ (q > lx /\ q <= lx + lm) \/ q > lx + lm
    <3>1. q \in Int /\ lx \in Int /\ lm \in Int
      BY <1>1, <1>2
    <3> HIDE DEF lx, lm, ln
    <3> QED BY <3>1
  <2>1. CASE q <= lx
    <3>1. q \in 1..lx /\ q \in 1..Len(new)
      BY <1>1, <1>2, <2>1
    <3> QED BY <1>3, <3>1
  <2>2. CASE q > lx /\ q <= lx + lm
    <3>1. q - lx \in 1..lm /\ lx + (q - lx) = q
      BY <1>1, <1>2, <2>2
    <3> QED BY <1>3, <3>1
  <2>3. CASE q > lx + lm
    <3> DEFINE r == q - (lx + lm)
    <3>1. r \in 1..ly /\ (lx + lm) + r = q /\ (lm = ln => (lx + ln) + r = q)
      BY <1>1, <1>2, <2>3
    <3> HIDE DEF r
    <3>2. (lx + ln) + r \in 1..Len(new)
      BY <1>1, <1>2, <3>1
    <3>3. old[q] = y[r] /\ new[(lx + ln) + r] = y[r]
      BY <1>3, <3>1
    <3> QED BY <3>1, <3>2, <3>3
  <2> QED BY <2>1, <2>2, <2>3, <2>4
<1>7. lm = ln => Len(new) = Len(old)
  BY <1>2
<1> QED BY <1>4, <1>5, <1>6, <1>7 DEF Between, lm, ln

CutInThree(S, s, i, n) ==
    /\ SubSeq(s, 1, i-1) \in Seq(S) /\ SubSeq(s, i, i+n-1) \in Seq(S)
    /\ SubSeq(s, i+n, Len(s)) \in Seq(S)
    /\ s = (SubSeq(s, 1, i-1) \o SubSeq(s, i, i+n-1)) \o SubSeq(s, i+n, Len(s))
    /\ Len(SubSeq(s, i, i+n-1)) = n
    /\ \A j \in 1..n : SubSeq(s, i, i+n-1)[j] = s[i+j-1]

\* A sequence is what is before a part of it, the part, and what is after it.
LEMMA CanBeCut ==
    ASSUME NEW S, NEW s \in Seq(S), NEW i, NEW n, i \in 1..Len(s), n \in Nat \ {0}, i + n - 1 <= Len(s)
    PROVE  CutInThree(S, s, i, n)
<1>1. Len(s) \in Nat /\ i \in Nat /\ i >= 1 /\ n \in Nat /\ n >= 1 /\ i <= Len(s)
  OBVIOUS
<1> DEFINE l == Len(s)
           a == SubSeq(s, 1, i-1)
           b == SubSeq(s, i, i+n-1)
           c == SubSeq(s, i+n, l)
<1>2. /\ \A k \in 1..i-1 : s[k] \in S
      /\ \A k \in i..i+n-1 : s[k] \in S
      /\ \A k \in i+n..l : s[k] \in S
  BY <1>1
<1>3. a \in Seq(S) /\ Len(a) = i-1 /\ \A k \in 1..i-1 : a[k] = s[k]
  BY <1>1, <1>2
<1>4. b \in Seq(S) /\ Len(b) = n /\ \A k \in 1..n : b[k] = s[i+k-1]
  BY <1>1, <1>2
<1>5. c \in Seq(S) /\ Len(c) = l-(i+n-1) /\ \A k \in 1..l-(i+n-1) : c[k] = s[(i+n-1)+k]
  BY <1>1, <1>2
<1> HIDE DEF a, b, c
<1>6. a \o b \in Seq(S) /\ Len(a \o b) = i+n-1
      /\ \A k \in 1..i+n-1 : (a \o b)[k] = s[k]
  <2>1. \A k \in 1..i+n-1 : (a \o b)[k] = IF k <= i-1 THEN a[k] ELSE b[k-(i-1)]
    BY <1>1, <1>3, <1>4
  <2>2. ASSUME NEW k \in 1..i+n-1 PROVE (a \o b)[k] = s[k]
    <3>1. CASE k <= i-1
      BY <1>1, <1>3, <2>1, <3>1
    <3>2. CASE ~(k <= i-1)
      <4>1. k-(i-1) \in 1..n /\ i+(k-(i-1))-1 = k
        BY <1>1, <3>2
      <4> QED BY <1>4, <2>1, <3>2, <4>1
    <3> QED BY <3>1, <3>2
  <2>3. a \o b \in Seq(S) /\ Len(a \o b) = Len(a) + Len(b)
    <3>1. a \in Seq(S) /\ b \in Seq(S)
      BY <1>3, <1>4
    <3> QED BY ONLY <3>1, ConcatProperties
  <2>4. Len(a \o b) = i+n-1
    BY <1>1, <1>3, <1>4, <2>3
  <2> QED BY <2>2, <2>3, <2>4
<1> DEFINE ab == a \o b
<1>7. ab \in Seq(S) /\ Len(ab) = i+n-1 /\ \A k \in 1..i+n-1 : ab[k] = s[k]
  BY <1>6
<1> HIDE DEF ab
<1>8. EndToEnd(ab, c, s)
  <2>1. Len(s) = Len(ab) + Len(c)
    BY <1>1, <1>5, <1>7
  <2>2. ASSUME NEW k \in 1..Len(s) PROVE s[k] = IF k <= Len(ab) THEN ab[k] ELSE c[k-Len(ab)]
    <3>1. CASE k <= i+n-1
      BY <1>1, <1>7, <3>1
    <3>2. CASE ~(k <= i+n-1)
      <4>1. k-(i+n-1) \in 1..l-(i+n-1) /\ (i+n-1)+(k-(i+n-1)) = k
        BY <1>1, <3>2
      <4> QED BY <1>5, <1>7, <3>2, <4>1
    <3> QED BY <3>1, <3>2
  <2> QED BY <2>1, <2>2 DEF EndToEnd
<1>9. s = ab \o c
  BY <1>5, <1>7, <1>8, IsConcat
<1> QED BY <1>3, <1>4, <1>5, <1>9 DEF a, b, c, ab, CutInThree

\* An object that takes the place of a phrase keeps the words and the fates of
\* the others (SystemParser.cc:143-144, 172-173).
LEMMA ReplacedKeeps ==
    ASSUME NEW items \in Seq(Item), NEW match \in Matches, NEW id \in Objects, NEW kind \in {"verb", "noun"},
           NEW i, Occurs(items, match.words, i)
    PROVE  Keeps(items, Replaced(items, i, match, id, kind), Stand(id, match, kind))
<1> DEFINE w == match.words
           n == Len(w)
           it == Stand(id, match, kind)
           pre == SubSeq(items, 1, i-1)
           mid == SubSeq(items, i, i+n-1)
           post == SubSeq(items, i+n, Len(items))
           new == Replaced(items, i, match, id, kind)
<1>1. w \in Seq(STRING) /\ w # <<>>
  BY DEF Matches
<1>2. n \in Nat \ {0} /\ DOMAIN w = 1..n
  <2> HIDE DEF w
  <2> QED BY <1>1
<1>3. i \in 1..Len(items) /\ i + n - 1 <= Len(items) /\ \A j \in 1..n : items[i+j-1] = [word |-> w[j]]
  <2>1. DOMAIN items = 1..Len(items)
    OBVIOUS
  <2> QED BY <1>2, <2>1 DEF Occurs
<1>4. it \in ObjectItem /\ it \in Item /\ Covered(it) = w
  BY DEF Stand, ObjectItem, Item, Covered
<1>5. new = (pre \o <<it>>) \o post
  BY DEF Replaced, Stand
<1> HIDE DEF w, n, it, pre, mid, post, new
<1>6. /\ pre \in Seq(Item) /\ mid \in Seq(Item) /\ post \in Seq(Item)
      /\ items = (pre \o mid) \o post
      /\ Len(mid) = n /\ \A j \in 1..n : mid[j] = items[i+j-1]
  <2>1. CutInThree(Item, items, i, n)
    BY <1>2, <1>3, CanBeCut
  <2> QED BY <2>1 DEF CutInThree, pre, mid, post
<1>7. mid = WordsAsItems(w)
  <2>1. ASSUME NEW j \in 1..n PROVE mid[j] = [word |-> w[j]]
    BY <1>3, <1>6, <2>1
  <2>2. mid = [j \in 1..n |-> mid[j]]
    BY <1>6
  <2> QED BY <2>1, <2>2 DEF WordsAsItems, n
<1>8. WordsOf(mid) = w /\ Fates(mid) = mid
  BY <1>1, <1>7, PlainReads
<1>9. <<it>> \in Seq(Item) /\ WordsOf(<<it>>) = w /\ Fates(<<it>>) = [k \in 1..n |-> it]
  BY <1>4, OneReads DEF n
<1>10. /\ pre \o mid \in Seq(Item) /\ pre \o <<it>> \in Seq(Item)
       /\ new \in Seq(Item)
  BY <1>5, <1>6, <1>9
<1>11. WordsOf(items) = (WordsOf(pre) \o w) \o WordsOf(post)
       /\ Fates(items) = (Fates(pre) \o mid) \o Fates(post)
  <2>1. WordsOf(pre \o mid) = WordsOf(pre) \o WordsOf(mid) /\ Fates(pre \o mid) = Fates(pre) \o Fates(mid)
    BY <1>6, ReadConcat
  <2>2. /\ WordsOf((pre \o mid) \o post) = WordsOf(pre \o mid) \o WordsOf(post)
        /\ Fates((pre \o mid) \o post) = Fates(pre \o mid) \o Fates(post)
    BY <1>6, <1>10, ReadConcat
  <2> QED BY <1>6, <1>8, <2>1, <2>2
<1>12. WordsOf(new) = (WordsOf(pre) \o w) \o WordsOf(post)
       /\ Fates(new) = (Fates(pre) \o Fates(<<it>>)) \o Fates(post)
  <2>1. /\ WordsOf(pre \o <<it>>) = WordsOf(pre) \o WordsOf(<<it>>)
        /\ Fates(pre \o <<it>>) = Fates(pre) \o Fates(<<it>>)
    BY <1>6, <1>9, ReadConcat
  <2>2. /\ WordsOf((pre \o <<it>>) \o post) = WordsOf(pre \o <<it>>) \o WordsOf(post)
        /\ Fates((pre \o <<it>>) \o post) = Fates(pre \o <<it>>) \o Fates(post)
    BY <1>6, <1>10, ReadConcat
  <2> QED BY <1>5, <1>9, <2>1, <2>2
<1>13. Between(pre, mid, <<it>>, post, items, new)
  BY <1>5, <1>6, <1>9, OnlyBetween
<1>14. Fates(pre) \in Seq(Item) /\ Fates(post) \in Seq(Item) /\ Fates(<<it>>) \in Seq(Item)
       /\ Len(Fates(<<it>>)) = n
  BY <1>2, <1>6, <1>9, ReadConcat
<1>15. Between(Fates(pre), mid, Fates(<<it>>), Fates(post), Fates(items), Fates(new))
  BY <1>6, <1>11, <1>12, <1>14, OnlyBetween
<1>16. \A a \in 1..Len(mid) : mid[a] \notin ObjectItem
  <2>1. ASSUME NEW a \in 1..n PROVE mid[a] \in WordItem
    <3>1. mid[a] = [word |-> w[a]]
      BY <1>3, <1>6
    <3>2. w[a] \in STRING
      BY <1>1 DEF n
    <3> QED BY <3>1, <3>2 DEF WordItem
  <2> QED BY <1>6, <2>1, Disjoint
<1>17. Len(<<it>>) = 1 /\ <<it>>[1] = it
  OBVIOUS
<1>18. /\ \A a \in 1..Len(new) : new[a] = it \/ \E b \in 1..Len(items) : new[a] = items[b]
       /\ \E a \in 1..Len(new) : new[a] = it
  <2>1. 1 \in 1..Len(<<it>>) /\ \A b \in 1..Len(<<it>>) : <<it>>[b] = it
    BY <1>17
  <2> QED BY <1>13, <2>1 DEF Between
<1>19. \A b \in 1..Len(items) : items[b] \in ObjectItem => \E a \in 1..Len(new) : new[a] = items[b]
  BY <1>13, <1>16 DEF Between
<1>20. Len(Fates(new)) = Len(Fates(items))
       /\ \A q \in 1..Len(Fates(items)) : Fates(items)[q] \in ObjectItem => Fates(new)[q] = Fates(items)[q]
  BY <1>6, <1>14, <1>15, <1>16 DEF Between
<1> QED BY <1>10, <1>11, <1>12, <1>18, <1>19, <1>20 DEF Keeps, it, new

(* Where in the fates each item ends.                                      *)
Ends(c, items) ==
    /\ c[Len(items)] = Len(Fates(items))
    /\ \A i \in 1..Len(items) :
         /\ c[i-1] \in Nat /\ c[i] = c[i-1] + Len(Covered(items[i]))
         /\ \A k \in 1..Len(Covered(items[i])) : Fates(items)[c[i-1] + k] = items[i]
    /\ \A q \in 1..Len(Fates(items)) :
         \E i \in 1..Len(items) : \E k \in 1..Len(Covered(items[i])) : q = c[i-1] + k

\* Every item ends somewhere among the fates.
LEMMA HasEnds ==
    ASSUME NEW items \in Seq(Item)
    PROVE  \E c : Ends(c, items)
<1> DEFINE t == FatePieces(items)
<1>1. Fates(items) = FlattenSeq(t)
  BY DEF Fates, FatePieces
<1>2. /\ t \in Seq(Seq(Item)) /\ Len(t) = Len(items)
      /\ \A i \in 1..Len(items) : /\ t[i] = [k \in 1..Len(Covered(items[i])) |-> items[i]]
                                  /\ Len(t[i]) = Len(Covered(items[i]))
  BY PiecesType
<1> HIDE DEF t
<1>3. PICK g : Joins(g, t, Item) /\ FlattenSeq(t) = g[Len(t)]
  BY <1>2, FlattenGoes
<1> DEFINE c == [i \in 0..Len(items) |-> Len(g[i])]
<1>4. /\ Len(items) \in Nat /\ c[Len(items)] = Len(g[Len(items)])
      /\ \A i \in 1..Len(items) : c[i] = Len(g[i]) /\ c[i-1] = Len(g[i-1])
  OBVIOUS
<1> HIDE DEF c
<1>5. c[Len(items)] = Len(Fates(items))
  BY <1>1, <1>2, <1>3, <1>4
<1>6. ASSUME NEW i \in 1..Len(items)
      PROVE  /\ c[i-1] \in Nat /\ c[i] = c[i-1] + Len(Covered(items[i]))
             /\ \A k \in 1..Len(Covered(items[i])) : Fates(items)[c[i-1] + k] = items[i]
  <2>1. i \in 1..Len(t)
    BY <1>2
  <2>2. LiesAfter(g, t, i)
    BY <1>2, <1>3, <2>1, PieceOf
  <2>3. c[i-1] \in Nat /\ c[i] = c[i-1] + Len(Covered(items[i]))
    BY <1>2, <1>4, <2>2 DEF LiesAfter
  <2>4. \A k \in 1..Len(Covered(items[i])) : t[i][k] = items[i]
    BY <1>2
  <2>5. \A k \in 1..Len(Covered(items[i])) : Fates(items)[c[i-1] + k] = t[i][k]
    BY <1>1, <1>2, <1>4, <2>2 DEF LiesAfter
  <2> QED BY <2>3, <2>4, <2>5
<1>7. ASSUME NEW q \in 1..Len(Fates(items))
      PROVE  \E i \in 1..Len(items) : \E k \in 1..Len(Covered(items[i])) : q = c[i-1] + k
  <2>1. q \in 1..Len(FlattenSeq(t))
    BY <1>1
  <2>2. InPiece(g, t, q)
    BY <1>2, <1>3, <2>1, InSomePiece
  <2>3. PICK i \in 1..Len(t) : \E k \in 1..Len(t[i]) : q = Len(g[i-1]) + k
    BY <2>2 DEF InPiece
  <2>4. i \in 1..Len(items) /\ Len(t[i]) = Len(Covered(items[i])) /\ c[i-1] = Len(g[i-1])
    BY <1>2, <1>4
  <2> QED BY <2>3, <2>4
<1>8. Ends(c, items)
  BY <1>5, <1>6, <1>7 DEF Ends
<1> QED BY <1>8

(* Words that came out as themselves, one after the other, can be matched. *)
PlainAt(items, w, q) ==
    /\ q \in Nat \ {0} /\ q + Len(w) - 1 <= Len(Fates(items))
    /\ \A j \in 1..Len(w) : Fates(items)[q+j-1] = [word |-> w[j]]

\* Where the words of a phrase are all still words, At finds it or finds it
\* elsewhere.
LEMMA PlainIsFound ==
    ASSUME NEW items \in Seq(Item), NEW w \in Seq(STRING), w # <<>>, NEW q, PlainAt(items, w, q)
    PROVE  At(items, w) # 0
<1> DEFINE n == Len(w)
           l == Len(items)
           m == Len(Fates(items))
<1>1. n \in Nat /\ n >= 1 /\ l \in Nat /\ m \in Nat /\ q \in Nat /\ q >= 1 /\ q + n - 1 <= m
      /\ DOMAIN w = 1..n
  <2>1. m \in Nat
    BY FateIs
  <2>2. n \in Nat /\ n >= 1 /\ l \in Nat /\ DOMAIN w = 1..n
    OBVIOUS
  <2> QED BY <2>1, <2>2 DEF PlainAt
<1>2. \A j \in 1..n : Fates(items)[q+j-1] = [word |-> w[j]]
  BY DEF PlainAt
<1>3. PICK c : Ends(c, items)
  BY HasEnds
<1>4. \A i \in 1..l : Len(Covered(items[i])) \in Nat /\ Len(Covered(items[i])) >= 1
  BY CoveredType
<1>5. \A j \in 1..n : [word |-> w[j]] \in WordItem
  BY DEF WordItem
<1> HIDE DEF n, m
<1>6. PICK i \in 1..l : \E k \in 1..Len(Covered(items[i])) : q = c[i-1] + k
  <2>1. q \in 1..Len(Fates(items))
    BY <1>1 DEF m
  <2> QED BY <1>3, <2>1 DEF Ends
<1>7. PICK k \in 1..Len(Covered(items[i])) : q = c[i-1] + k
  BY <1>6
<1>8. c[i-1] \in Nat /\ c[i-1] = q - 1
  <2>1. c[i-1] \in Nat /\ Fates(items)[c[i-1] + k] = items[i]
    BY <1>3, <1>6, <1>7 DEF Ends
  <2>2. Fates(items)[q] = [word |-> w[1]] /\ 1 \in 1..n
    <3>1. 1 \in 1..n /\ q + 1 - 1 = q
      BY <1>1
    <3> QED BY <1>2, <3>1
  <2>3. items[i] \in WordItem
    BY <1>5, <1>7, <2>1, <2>2
  <2>4. Covered(items[i]) = <<items[i].word>>
    BY <2>3, WordItemIs
  <2>5. Len(Covered(items[i])) = 1
    BY <2>4
  <2> QED BY <1>1, <1>7, <2>1, <2>5
<1> HIDE DEF l
<1> DEFINE Holds(j) == /\ i + j - 1 <= l /\ c[i+j-1] = q + j - 1
                       /\ \A h \in 1..j : items[i+h-1] = [word |-> w[h]]
           B == {j \in Nat : j <= n => Holds(j)}
<1>9. 0 \in B
  <2>1. i + 0 - 1 = i - 1 /\ q + 0 - 1 = q - 1 /\ i - 1 <= l
    BY <1>1
  <2> QED BY <1>8, <2>1
<1>10. ASSUME NEW j \in B PROVE j + 1 \in B
  <2>0. j \in Nat /\ j + 1 \in Nat /\ (j <= n => Holds(j))
    OBVIOUS
  <2> SUFFICES ASSUME j + 1 <= n PROVE Holds(j+1)
    BY <2>0
  <2>1. j <= n /\ j + 1 \in 1..n /\ i \in Int /\ i >= 1 /\ i <= l
    BY <1>1, <2>0
  <2>2. i + j - 1 <= l /\ c[i+j-1] = q + j - 1
    BY <2>0, <2>1
  <2>3. \A h \in 1..j : items[i+h-1] = [word |-> w[h]]
    BY <2>0, <2>1
  <2>4. i + j - 1 # l
    <3>1. c[l] = m
      BY <1>3 DEF Ends, l, m
    <3>2. q + j - 1 # m
      BY <1>1, <2>0, <2>1
    <3> QED BY <2>2, <3>1, <3>2
  <2> DEFINE e == i + j
  <2>5. e \in 1..l /\ e - 1 = i + j - 1 /\ i + (j + 1) - 1 = e
    BY <1>1, <2>0, <2>1, <2>2, <2>4
  <2>6. Len(Covered(items[e])) \in Nat /\ Len(Covered(items[e])) >= 1
    BY <1>4, <2>5
  <2>7. /\ c[e] = c[e-1] + Len(Covered(items[e]))
        /\ \A x \in 1..Len(Covered(items[e])) : Fates(items)[c[e-1] + x] = items[e]
    BY <1>3, <2>5 DEF Ends, l
  <2>8. Fates(items)[q + (j+1) - 1] = items[e]
    <3>1. 1 \in 1..Len(Covered(items[e]))
      BY <2>6
    <3>2. c[e-1] + 1 = q + (j + 1) - 1
      BY <1>1, <2>0, <2>2, <2>5
    <3> QED BY <2>7, <3>1, <3>2
  <2>9. items[e] = [word |-> w[j+1]]
    BY <1>2, <2>1, <2>8
  <2>10. Len(Covered(items[e])) = 1
    <3>1. items[e] \in WordItem
      BY <1>5, <2>1, <2>9
    <3>2. Covered(items[e]) = <<items[e].word>>
      BY <3>1, WordItemIs
    <3> QED BY <3>2
  <2>11. c[e] = q + (j + 1) - 1
    BY <1>1, <2>0, <2>2, <2>5, <2>7, <2>10
  <2>12. \A h \in 1..j+1 : items[i+h-1] = [word |-> w[h]]
    <3>1. \A h \in 1..j+1 : h \in 1..j \/ h = j + 1
      BY <2>0
    <3> QED BY <2>3, <2>5, <2>9, <3>1
  <2> QED BY <2>5, <2>11, <2>12
<1> HIDE DEF B
<1>11. n \in B
  <2>1. B \in SUBSET Nat
    BY DEF B
  <2> QED BY <1>1, <1>9, <1>10, <2>1, FromZeroUp
<1>12. Holds(n)
  BY <1>1, <1>11 DEF B
<1>13. Occurs(items, w, i)
  <2>1. DOMAIN items = 1..l
    BY DEF l
  <2> QED BY <1>1, <1>12, <2>1 DEF Occurs, n, l
<1>14. i \in DOMAIN items
  BY DEF l
<1> QED BY <1>13, <1>14, AtFinds DEF Finds

(* What one phrase does to a command, whether or not it is found in it.    *)
Try(items, m, id, kind) ==
    IF At(items, m.words) = 0 THEN items ELSE Replaced(items, At(items, m.words), m, id, kind)

Kept(x, y) ==
    /\ y \in Seq(Item) /\ WordsOf(y) = WordsOf(x)
    /\ \A b \in 1..Len(x) : x[b] \in ObjectItem => \E a \in 1..Len(y) : y[a] = x[b]
    /\ Len(Fates(y)) = Len(Fates(x))
    /\ \A q \in 1..Len(Fates(x)) : Fates(x)[q] \in ObjectItem => Fates(y)[q] = Fates(x)[q]

\* A command that is left alone is kept.
LEMMA KeptItself == ASSUME NEW x \in Seq(Item) PROVE Kept(x, x)
BY DEF Kept

\* What is kept twice is kept.
LEMMA KeptOn ==
    ASSUME NEW x, NEW y, NEW z, Kept(x, y), Kept(y, z)
    PROVE  Kept(x, z)
<1>1. ASSUME NEW b \in 1..Len(x), x[b] \in ObjectItem PROVE \E a \in 1..Len(z) : z[a] = x[b]
  <2>1. PICK a \in 1..Len(y) : y[a] = x[b]
    BY <1>1 DEF Kept
  <2> QED BY <1>1, <2>1 DEF Kept
<1>2. ASSUME NEW q \in 1..Len(Fates(x)), Fates(x)[q] \in ObjectItem PROVE Fates(z)[q] = Fates(x)[q]
  <2>1. Fates(y)[q] = Fates(x)[q] /\ q \in 1..Len(Fates(y))
    BY <1>2 DEF Kept
  <2> QED BY <1>2, <2>1 DEF Kept
<1> QED BY <1>1, <1>2 DEF Kept

Brings(x, y, it) == \A a \in 1..Len(y) : y[a] = it \/ \E b \in 1..Len(x) : y[a] = x[b]
HasItem(y, it) == \E a \in 1..Len(y) : y[a] = it

\* One phrase keeps the words, and what objects already took.
LEMMA TryKeeps ==
    ASSUME NEW x \in Seq(Item), NEW m \in Matches, NEW id \in Objects, NEW kind \in {"verb", "noun"}
    PROVE  /\ Kept(x, Try(x, m, id, kind)) /\ Brings(x, Try(x, m, id, kind), Stand(id, m, kind))
           /\ At(x, m.words) # 0 => HasItem(Try(x, m, id, kind), Stand(id, m, kind))
<1> DEFINE i == At(x, m.words)
           y == Try(x, m, id, kind)
<1>1. CASE i = 0
  <2>1. y = x
    BY <1>1 DEF Try
  <2>2. Brings(x, x, Stand(id, m, kind))
    BY DEF Brings
  <2> QED BY <1>1, <2>1, <2>2, KeptItself
<1>2. CASE i # 0
  <2>1. Occurs(x, m.words, i)
    BY <1>2, AtFinds DEF Finds
  <2>2. y = Replaced(x, i, m, id, kind)
    BY <1>2 DEF Try
  <2> HIDE DEF i, y
  <2>3. Keeps(x, y, Stand(id, m, kind))
    BY <2>1, <2>2, ReplacedKeeps
  <2>4. Kept(x, y) /\ Brings(x, y, Stand(id, m, kind)) /\ HasItem(y, Stand(id, m, kind))
    BY <2>3 DEF Keeps, Kept, Brings, HasItem
  <2> QED BY <2>4 DEF y
<1> QED BY <1>1, <1>2

(* All the phrases of a kind, one after the other.                         *)
PassType(list, ids, kind, x) ==
    /\ list \in Seq(Matches) /\ kind \in {"verb", "noun"} /\ x \in Seq(Item)
    /\ \A k \in 1..Len(list) : ids[k] \in Objects

Pass(g, list, ids, kind, x) ==
    g[0] = x /\ \A k \in 1..Len(list) : g[k] = Try(g[k-1], list[k], ids[k], kind)

(* The objects in a command come from the phrases tried.                   *)
Come(y, x, list, ids, kind, k) ==
    \A a \in 1..Len(y) : \/ \E b \in 1..Len(x) : y[a] = x[b]
                         \/ \E h \in 1..k : y[a] = Stand(ids[h], list[h], kind)

\* So do the phrases of a list up to any of them.
LEMMA PassGoes ==
    ASSUME NEW list, NEW ids, NEW kind, NEW x, PassType(list, ids, kind, x),
           NEW g, Pass(g, list, ids, kind, x), NEW n, n \in 0..Len(list)
    PROVE  g[n] \in Seq(Item) /\ Kept(x, g[n]) /\ Come(g[n], x, list, ids, kind, n)
<1> DEFINE Goes(k) == g[k] \in Seq(Item) /\ Kept(x, g[k]) /\ Come(g[k], x, list, ids, kind, k)
           B == {k \in Nat : k <= Len(list) => Goes(k)}
<1>0. Len(list) \in Nat /\ x \in Seq(Item)
  BY DEF PassType
<1>1. 0 \in B
  <2>1. Kept(x, x) /\ g[0] = x
    BY <1>0, KeptItself DEF Pass
  <2> QED BY <1>0, <2>1 DEF Come
<1>2. ASSUME NEW k \in B PROVE k + 1 \in B
  <2>0. k \in Nat /\ k + 1 \in Nat /\ (k <= Len(list) => Goes(k))
    OBVIOUS
  <2> SUFFICES ASSUME k + 1 <= Len(list) PROVE Goes(k+1)
    BY <2>0
  <2>1. k <= Len(list) /\ k + 1 \in 1..Len(list) /\ (k + 1) - 1 = k
    BY <1>0, <2>0
  <2>2. g[k] \in Seq(Item) /\ Kept(x, g[k]) /\ Come(g[k], x, list, ids, kind, k)
    BY <2>0, <2>1
  <2> DEFINE y == g[k]
             z == g[k+1]
             m == list[k+1]
             id == ids[k+1]
  <2>3. z = Try(y, m, id, kind)
    BY <2>1 DEF Pass
  <2>4. m \in Matches /\ id \in Objects /\ kind \in {"verb", "noun"}
    BY <2>1 DEF PassType
  <2>5. y \in Seq(Item)
    BY <2>2
  <2> HIDE DEF y, z, m, id
  <2>6. Kept(y, z) /\ Brings(y, z, Stand(id, m, kind))
    BY <2>3, <2>4, <2>5, TryKeeps
  <2>7. Kept(x, z)
    BY <2>2, <2>6, KeptOn DEF y
  <2>8. z \in Seq(Item)
    BY <2>6 DEF Kept
  <2>9. Come(z, x, list, ids, kind, k + 1)
    <3>1. \A h \in 1..k : h \in 1..k+1
      BY <2>0
    <3>2. k + 1 \in 1..k+1
      BY <2>0
    <3>3. \A a \in 1..Len(y) : \/ \E b \in 1..Len(x) : y[a] = x[b]
                               \/ \E h \in 1..k : y[a] = Stand(ids[h], list[h], kind)
      BY <2>2 DEF Come, y
    <3>4. ASSUME NEW a \in 1..Len(z)
          PROVE  \/ \E b \in 1..Len(x) : z[a] = x[b]
                 \/ \E h \in 1..k+1 : z[a] = Stand(ids[h], list[h], kind)
      <4>1. CASE z[a] = Stand(id, m, kind)
        BY <3>2, <4>1 DEF id, m
      <4>2. CASE \E b \in 1..Len(y) : z[a] = y[b]
        BY <3>1, <3>3, <4>2
      <4> QED BY <2>6, <4>1, <4>2 DEF Brings
    <3> QED BY <3>4 DEF Come
  <2> QED BY <2>7, <2>8, <2>9 DEF z
<1> HIDE DEF B
<1>3. n \in B
  <2>1. B \in SUBSET Nat /\ n \in Nat
    BY DEF B
  <2> QED BY <1>1, <1>2, <2>1, FromZeroUp
<1> QED BY <1>3 DEF B

\* So do those between any two of them.
LEMMA PassKeepsBetween ==
    ASSUME NEW list, NEW ids, NEW kind, NEW x, PassType(list, ids, kind, x),
           NEW g, Pass(g, list, ids, kind, x),
           NEW n, n \in 0..Len(list), NEW m, m \in 0..Len(list), n <= m
    PROVE  Kept(g[n], g[m])
<1> DEFINE B == {k \in Nat : n + k <= Len(list) => Kept(g[n], g[n+k])}
<1>0. Len(list) \in Nat /\ n \in Nat /\ n <= Len(list) /\ m \in Nat /\ m <= Len(list)
  BY DEF PassType
<1>1. 0 \in B
  <2>1. Kept(g[n], g[n]) /\ n + 0 = n
    BY <1>0, PassGoes, KeptItself
  <2> QED BY <2>1
<1>2. ASSUME NEW k \in B PROVE k + 1 \in B
  <2>0. k \in Nat /\ k + 1 \in Nat /\ (n + k <= Len(list) => Kept(g[n], g[n+k]))
    OBVIOUS
  <2> SUFFICES ASSUME n + (k + 1) <= Len(list) PROVE Kept(g[n], g[n+(k+1)])
    BY <2>0
  <2> DEFINE e == n + (k + 1)
  <2>1. n + k <= Len(list) /\ e \in 1..Len(list) /\ e - 1 = n + k /\ n + k \in 0..Len(list)
    BY <1>0, <2>0
  <2>2. g[e-1] \in Seq(Item)
    BY <2>1, PassGoes
  <2>3. g[e] = Try(g[e-1], list[e], ids[e], kind)
    BY <2>1 DEF Pass
  <2>4. list[e] \in Matches /\ ids[e] \in Objects /\ kind \in {"verb", "noun"}
    BY <2>1 DEF PassType
  <2>5. Kept(g[e-1], g[e])
    BY <2>2, <2>3, <2>4, TryKeeps
  <2> QED BY <2>0, <2>1, <2>5, KeptOn
<1> HIDE DEF B
<1>3. m - n \in B
  <2>1. B \in SUBSET Nat /\ m - n \in Nat
    BY <1>0 DEF B
  <2> QED BY <1>1, <1>2, <2>1, FromZeroUp
<1>4. n + (m - n) = m
  BY <1>0
<1> QED BY <1>0, <1>3, <1>4 DEF B

\* And those from any of them on.
LEMMA PassKeepsOn ==
    ASSUME NEW list, NEW ids, NEW kind, NEW x, PassType(list, ids, kind, x),
           NEW g, Pass(g, list, ids, kind, x), NEW n, n \in 0..Len(list)
    PROVE  Kept(g[n], g[Len(list)])
<1>1. Len(list) \in 0..Len(list) /\ n <= Len(list)
  BY DEF PassType
<1> QED BY <1>1, PassKeepsBetween

(* Where the words of a phrase are among others.                           *)
WordsThere(words, w, q) ==
    /\ q \in Nat \ {0} /\ q + Len(w) - 1 <= Len(words)
    /\ \A j \in 1..Len(w) : words[q+j-1] = w[j]

\* A phrase that was typed at i has its words there.
LEMMA TypedIsThere ==
    ASSUME NEW words \in Seq(STRING), NEW w \in Seq(STRING), w # <<>>,
           NEW i, i \in 1..(Len(words) - Len(w) + 1), TypedAt(words, w, i)
    PROVE  WordsThere(words, w, i)
<1>1. Len(words) \in Nat /\ Len(w) \in Nat /\ Len(w) >= 1
  OBVIOUS
<1>2. i \in Nat /\ i >= 1 /\ i + Len(w) - 1 <= Len(words)
  <2> DEFINE a == Len(words)
             b == Len(w)
  <2>1. a \in Nat /\ b \in Nat /\ i \in 1..(a - b + 1)
    BY <1>1
  <2> HIDE DEF a, b
  <2>2. i \in Nat /\ i >= 1 /\ i + b - 1 <= a
    BY <2>1
  <2> QED BY <2>2 DEF a, b
<1> DEFINE s == SubSeq(words, i, i + Len(w) - 1)
<1>3. \A j \in 1..Len(w) : s[j] = words[i+j-1]
  <2>1. \A j \in 1..Len(w) : j \in 1..(i + Len(w) - 1) - i + 1
    BY <1>1, <1>2
  <2> QED BY <1>1, <1>2, <2>1
<1>4. s = w
  BY DEF TypedAt
<1> HIDE DEF s
<1> QED BY <1>2, <1>3, <1>4 DEF WordsThere

(* If none of them went to an object they all are as they were.            *)
SomeTaken(items, w, q) == \E j \in 1..Len(w) : Fates(items)[q+j-1] \in ObjectItem

\* Where a phrase was typed and is not found, a word of it went to an object.
LEMMA TakenOrPlain ==
    ASSUME NEW items \in Seq(Item), NEW w \in Seq(STRING), w # <<>>, NEW q,
           WordsThere(WordsOf(items), w, q), At(items, w) = 0
    PROVE  SomeTaken(items, w, q)
<1> SUFFICES ASSUME ~SomeTaken(items, w, q) PROVE FALSE
  OBVIOUS
<1>1. /\ Len(Fates(items)) = Len(WordsOf(items)) /\ Len(Fates(items)) \in Nat
      /\ \A p \in 1..Len(Fates(items)) : FateIsFound(items, p)
  BY FateIs
<1>2. Len(w) \in Nat /\ q \in Nat \ {0} /\ q + Len(w) - 1 <= Len(Fates(items))
  BY <1>1 DEF WordsThere
<1>3. ASSUME NEW j \in 1..Len(w) PROVE Fates(items)[q+j-1] = [word |-> w[j]]
  <2>1. q+j-1 \in 1..Len(Fates(items))
    <3> DEFINE m == Len(Fates(items))
               n == Len(w)
    <3>1. m \in Nat /\ n \in Nat /\ j \in 1..n /\ q + n - 1 <= m /\ q \in Nat \ {0}
      BY <1>1, <1>2
    <3> HIDE DEF m, n
    <3>2. q+j-1 \in 1..m
      BY <3>1
    <3> QED BY <3>2 DEF m
  <2>2. FateIsFound(items, q+j-1)
    BY <1>1, <2>1
  <2>3. Fates(items)[q+j-1] \notin ObjectItem
    BY DEF SomeTaken
  <2> DEFINE o == Fates(items)[q+j-1]
  <2>4. o \in WordItem
    BY <2>2, <2>3 DEF FateIsFound, Item
  <2>5. WordsOf(items)[q+j-1] = o.word
    BY <2>2, <2>4 DEF FateIsFound
  <2>6. WordsOf(items)[q+j-1] = w[j]
    BY DEF WordsThere
  <2> HIDE DEF o
  <2>7. o = [word |-> o.word]
    BY <2>4, WordItemIs
  <2> QED BY <2>5, <2>6, <2>7 DEF o
<1>4. PlainAt(items, w, q)
  BY <1>2, <1>3 DEF PlainAt
<1> QED BY <1>4, PlainIsFound

From(o, x, list, ids, kind, k) ==
    \/ \E b \in 1..Len(x) : o = x[b]
    \/ \E h \in 1..k : o = Stand(ids[h], list[h], kind)

(* A phrase is found, or a word of it has gone to an object that was there *)
(* before or to a phrase tried before.                                     *)
FoundOrTaken(y, x, list, ids, kind, l, q) ==
    \/ HasItem(y, Stand(ids[l], list[l], kind))
    \/ \E j \in 1..Len(list[l].words) :
          Fates(y)[q+j-1] \in ObjectItem /\ From(Fates(y)[q+j-1], x, list, ids, kind, l)

\* After a pass, each phrase of the list that was typed is found, or taken
\* from.
LEMMA PassWins ==
    ASSUME NEW list, NEW ids, NEW kind, NEW x, PassType(list, ids, kind, x),
           NEW g, Pass(g, list, ids, kind, x), NEW l, l \in 1..Len(list),
           NEW q, WordsThere(WordsOf(x), list[l].words, q)
    PROVE  FoundOrTaken(g[Len(list)], x, list, ids, kind, l, q)
<1> DEFINE y == g[l-1]
           m == list[l]
           w == m.words
           z == g[Len(list)]
<1>1. l-1 \in 0..Len(list) /\ l \in 0..Len(list) /\ Len(list) \in Nat /\ l \in Nat
  BY DEF PassType
<1>2. y \in Seq(Item) /\ Kept(x, y) /\ Come(y, x, list, ids, kind, l-1)
  BY <1>1, PassGoes
<1>3. m \in Matches /\ ids[l] \in Objects /\ kind \in {"verb", "noun"}
  BY DEF PassType
<1>4. w \in Seq(STRING) /\ w # <<>>
  BY <1>3 DEF Matches
<1>5. Kept(g[l], z) /\ Kept(y, z)
  BY <1>1, PassKeepsOn
<1>6. g[l] = Try(y, m, ids[l], kind)
  BY DEF Pass
<1> HIDE DEF y, m, z
<1>7. CASE At(y, w) # 0
  <2> DEFINE it == Stand(ids[l], m, kind)
  <2>1. HasItem(g[l], it)
    BY <1>2, <1>3, <1>6, <1>7, TryKeeps
  <2>2. it \in ObjectItem
    BY <1>3 DEF ObjectItem, Stand
  <2> HIDE DEF it
  <2>3. HasItem(z, it)
    BY <1>5, <2>1, <2>2 DEF HasItem, Kept
  <2> QED BY <2>3 DEF FoundOrTaken, it, m, z
<1>8. CASE At(y, w) = 0
  <2>1. WordsThere(WordsOf(y), w, q)
    BY <1>2 DEF Kept, m
  <2> HIDE DEF w
  <2>2. SomeTaken(y, w, q)
    BY <1>2, <1>4, <1>8, <2>1, TakenOrPlain
  <2>3. PICK j \in 1..Len(w) : Fates(y)[q+j-1] \in ObjectItem
    BY <2>2 DEF SomeTaken
  <2> DEFINE p == q+j-1
             o == Fates(y)[p]
  <2>4. p \in 1..Len(Fates(y))
    <3>1. Len(Fates(y)) = Len(WordsOf(y)) /\ Len(Fates(y)) \in Nat
      BY <1>2, FateIs
    <3>2. Len(w) \in Nat
      BY <1>4
    <3>3. q \in Nat \ {0} /\ q + Len(w) - 1 <= Len(WordsOf(y))
      BY <2>1 DEF WordsThere
    <3> DEFINE e == Len(WordsOf(y))
               n == Len(w)
    <3>4. e \in Nat /\ n \in Nat /\ j \in 1..n /\ q \in Nat \ {0} /\ q + n - 1 <= e
      BY <3>1, <3>2, <3>3
    <3> HIDE DEF e, n
    <3>5. q + j - 1 \in 1..e
      BY <3>4
    <3> QED BY <3>1, <3>5 DEF e
  <2>5. FateIsFound(y, p)
    BY <1>2, <2>4, FateIs
  <2>6. Fates(z)[p] = o
    BY <1>5, <2>3, <2>4 DEF Kept
  <2>7. From(o, x, list, ids, kind, l)
    <3>1. PICK a \in 1..Len(y) : o = y[a]
      BY <2>5 DEF FateIsFound
    <3>2. \A h \in 1..l-1 : h \in 1..l
      BY <1>1
    <3>3. \/ \E b \in 1..Len(x) : y[a] = x[b]
          \/ \E h \in 1..l-1 : y[a] = Stand(ids[h], list[h], kind)
      BY <1>2 DEF Come
    <3> HIDE DEF o
    <3> QED BY <3>1, <3>2, <3>3 DEF From
  <2>8. Fates(z)[p] \in ObjectItem /\ From(Fates(z)[p], x, list, ids, kind, l)
    BY <2>3, <2>6, <2>7
  <2> HIDE DEF p
  <2> QED BY <2>8 DEF FoundOrTaken, z, w, m, p
<1> QED BY <1>7, <1>8

VerbIds(p) == [k \in DOMAIN p.verbMatches |-> p.verbMatches[k].id]
NounIds(p) == [k \in DOMAIN p.nounMatches |-> Nearest(p, k)]

Passes(y, list, ids, kind, x) ==
    PassType(list, ids, kind, x) /\ \E g : Pass(g, list, ids, kind, x) /\ y = g[Len(list)]

TriesGo(h, list, ids, kind, x) ==
    h = [s \in SUBSET (1..Len(list)) |->
            IF s = {} THEN x ELSE Try(h[s \ {Max(s)}], list[Max(s)], ids[Max(s)], kind)]

\* A fold that tries one phrase after the other makes a pass.
LEMMA TriesPass ==
    ASSUME NEW list, NEW ids, NEW kind, NEW x, PassType(list, ids, kind, x)
    PROVE  Passes((CHOOSE h : TriesGo(h, list, ids, kind, x))[1..Len(list)], list, ids, kind, x)
<1> DEFINE n == Len(list)
           S == Seq(Item)
           step == [k \in 1..n |-> [its \in S |-> Try(its, list[k], ids[k], kind)]]
           iter == CHOOSE h : TriesGo(h, list, ids, kind, x)
<1>1. /\ n \in Nat /\ x \in S /\ kind \in {"verb", "noun"}
      /\ \A k \in 1..n : list[k] \in Matches /\ ids[k] \in Objects
  BY DEF PassType
<1>2. ASSUME NEW k \in 1..n, NEW its \in S PROVE Try(its, list[k], ids[k], kind) \in S
  <2>1. Kept(its, Try(its, list[k], ids[k], kind))
    BY <1>1, TryKeeps
  <2> QED BY <2>1 DEF Kept
<1>3. step \in [1..n -> [S -> S]]
  BY <1>2
<1>4. \A k \in 1..n : \A its \in S : step[k][its] = Try(its, list[k], ids[k], kind)
  OBVIOUS
<1> HIDE DEF step, S
<1>5. PICK f : f \in Steps(n, S, x, step)
  <2>1. Steps(n, S, x, step) # {}
    BY <1>1, <1>3, StepsExist
  <2> QED BY <2>1
<1>6. TriesGo(f, list, ids, kind, x)
  <2>1. f \in [SUBSET (1..n) -> S]
    BY <1>5 DEF Steps
  <2>2. ASSUME NEW s \in SUBSET (1..n)
        PROVE  f[s] = IF s = {} THEN x ELSE Try(f[s \ {Max(s)}], list[Max(s)], ids[Max(s)], kind)
    <3>1. CASE s = {}
      BY <1>5, <3>1 DEF Steps
    <3>2. CASE s # {}
      <4>1. f[s] = step[Max(s)][f[s \ {Max(s)}]]
        BY <1>5, <3>2 DEF Steps
      <4>2. Max(s) \in 1..n /\ s \ {Max(s)} \in SUBSET (1..n)
        BY <1>1, <3>2, MaxIsOneOf
      <4>3. f[s \ {Max(s)}] \in S
        BY <2>1, <4>2
      <4> QED BY <1>4, <3>2, <4>1, <4>2, <4>3
    <3> QED BY <3>1, <3>2
  <2> QED BY <2>1, <2>2 DEF TriesGo
<1>7. TriesGo(iter, list, ids, kind, x)
  BY <1>6
<1> HIDE DEF iter
<1>8. \A s \in SUBSET (1..n) :
        iter[s] = IF s = {} THEN x ELSE Try(iter[s \ {Max(s)}], list[Max(s)], ids[Max(s)], kind)
  BY <1>7 DEF TriesGo
<1> DEFINE g == [i \in 0..n |-> iter[1..i]]
<1>9. g[0] = x /\ g[n] = iter[1..n]
  <2>1. 1..0 = {} /\ 0 \in 0..n /\ n \in 0..n
    BY <1>1
  <2> QED BY <1>8, <2>1
<1>10. ASSUME NEW k \in 1..n PROVE g[k] = Try(g[k-1], list[k], ids[k], kind)
  <2>1. k \in Nat \ {0} /\ k \in 0..n /\ k-1 \in 0..n /\ 1..k \in SUBSET (1..n)
    BY <1>1
  <2>2. Max(1..k) = k /\ (1..k) \ {k} = 1..k-1 /\ 1..k # {}
    BY <2>1, MaxOfInterval
  <2>3. iter[1..k] = Try(iter[1..k-1], list[k], ids[k], kind)
    BY <1>8, <2>1, <2>2
  <2> QED BY <2>1, <2>3
<1> HIDE DEF g
<1>11. Pass(g, list, ids, kind, x)
  BY <1>9, <1>10 DEF Pass
<1> QED BY <1>9, <1>11 DEF Passes, iter

\* MatchVerbs makes a pass with the verbs (SystemParser.cc:201).
LEMMA VerbsPass ==
    ASSUME NEW p, NEW x \in Seq(Item), p.verbMatches \in Seq(Matches)
    PROVE  Passes(MatchVerbs(p, x), p.verbMatches, VerbIds(p), "verb", x)
<1> DEFINE list == p.verbMatches
<1>1. Len(list) \in Nat /\ DOMAIN list = 1..Len(list)
      /\ \A k \in 1..Len(list) : VerbIds(p)[k] = list[k].id /\ list[k] \in Matches /\ list[k].id \in Objects
  BY DEF VerbIds, Matches
<1>2. PassType(list, VerbIds(p), "verb", x)
  BY <1>1 DEF PassType
<1>3. MatchVerbs(p, x) = (CHOOSE h : TriesGo(h, list, VerbIds(p), "verb", x))[1..Len(list)]
  <2> DEFINE Goes(h) == h = [s \in SUBSET (1..Len(list)) |-> IF s = {} THEN x
                            ELSE IF At(h[s \ {Max(s)}], list[Max(s)].words) = 0 THEN h[s \ {Max(s)}]
                                 ELSE Replaced(h[s \ {Max(s)}], At(h[s \ {Max(s)}], list[Max(s)].words),
                                               list[Max(s)], list[Max(s)].id, "verb")]
  <2>1. MatchVerbs(p, x) = (CHOOSE h : Goes(h))[1..Len(list)]
    BY <1>1 DEF MatchVerbs, FoldLeft, MapThenFoldSet
  <2>2. ASSUME NEW h, NEW s \in SUBSET (1..Len(list)), s # {}
        PROVE  Try(h[s \ {Max(s)}], list[Max(s)], VerbIds(p)[Max(s)], "verb")
               = IF At(h[s \ {Max(s)}], list[Max(s)].words) = 0 THEN h[s \ {Max(s)}]
                 ELSE Replaced(h[s \ {Max(s)}], At(h[s \ {Max(s)}], list[Max(s)].words),
                               list[Max(s)], list[Max(s)].id, "verb")
    <3>1. Max(s) \in 1..Len(list)
      BY <1>1, <2>2, MaxIsOneOf
    <3>2. VerbIds(p)[Max(s)] = list[Max(s)].id
      BY <1>1, <3>1
    <3> QED BY <3>2 DEF Try
  <2>3. ASSUME NEW h PROVE TriesGo(h, list, VerbIds(p), "verb", x) <=> Goes(h)
    BY <2>2 DEF TriesGo
  <2> HIDE DEF Goes
  <2>4. (CHOOSE h : TriesGo(h, list, VerbIds(p), "verb", x)) = (CHOOSE h : Goes(h))
    BY <2>3
  <2> QED BY <2>1, <2>4
<1> QED BY <1>2, <1>3, TriesPass

(* A namesake is one of those whose phrase has the same words.             *)
NamesOne(list, k, id) == \E j \in 1..Len(list) : list[j].words = list[k].words /\ list[j].id = id

\* Nearest answers for its own phrase or for a namesake
\* (SystemParser.cc:149-176).
LEMMA NearestNames ==
    ASSUME NEW p, p.nounMatches \in Seq(Matches), NEW k, k \in 1..Len(p.nounMatches)
    PROVE  NamesOne(p.nounMatches, k, Nearest(p, k))
<1> DEFINE list == p.nounMatches
           n == Len(list[k].words)
           near == {j \in k+1..Len(list) : /\ list[j].words = list[k].words /\ list[j].id \in p.proximate
                                           /\ \A i \in k+1..j : Len(list[i].words) = n}
<1>1. Nearest(p, k) = IF list[k].id \in p.proximate \/ near = {} THEN list[k].id
                      ELSE list[CHOOSE j \in near : \A i \in near : j <= i].id
  BY DEF Nearest
<1>2. Len(list) \in Nat /\ near \in SUBSET Nat
      /\ \A j \in near : j \in 1..Len(list) /\ list[j].words = list[k].words
  <2>1. Len(list) \in Nat /\ k \in Nat /\ k >= 1
    OBVIOUS
  <2>2. \A j \in k+1..Len(list) : j \in 1..Len(list)
    BY <2>1
  <2> QED BY <2>1, <2>2
<1> HIDE DEF near
<1>3. CASE list[k].id \in p.proximate \/ near = {}
  BY <1>1, <1>3 DEF NamesOne
<1>4. CASE ~(list[k].id \in p.proximate \/ near = {})
  <2>1. \E j \in near : \A i \in near : j <= i
    BY <1>2, <1>4, LeastOfNats
  <2> DEFINE j == CHOOSE j \in near : \A i \in near : j <= i
  <2>2. j \in near
    BY <2>1
  <2>3. Nearest(p, k) = list[j].id
    BY <1>1, <1>4
  <2> HIDE DEF j
  <2> QED BY <1>2, <2>2, <2>3 DEF NamesOne
<1> QED BY <1>3, <1>4

\* MatchNouns makes a pass with the nouns, under the names of the nearest
\* (SystemParser.cc:202).
LEMMA NounsPass ==
    ASSUME NEW p, NEW x \in Seq(Item), p.nounMatches \in Seq(Matches)
    PROVE  Passes(MatchNouns(p, x), p.nounMatches, NounIds(p), "noun", x)
<1> DEFINE list == p.nounMatches
           ids == NounIds(p)
           seq == [k \in DOMAIN list |-> k]
<1>1. Len(list) \in Nat /\ DOMAIN list = 1..Len(list) /\ DOMAIN seq = 1..Len(list)
      /\ \A k \in 1..Len(list) : ids[k] = Nearest(p, k) /\ list[k] \in Matches /\ list[k].id \in Objects
                                 /\ seq[k] = k
  BY DEF NounIds, Matches
<1>2. PassType(list, ids, "noun", x)
  <2>1. ASSUME NEW k \in 1..Len(list) PROVE ids[k] \in Objects
    <3>1. NamesOne(list, k, Nearest(p, k))
      BY NearestNames
    <3> QED BY <1>1, <3>1 DEF NamesOne
  <2> QED BY <2>1 DEF PassType
<1> HIDE DEF seq, ids
<1>3. MatchNouns(p, x) = (CHOOSE h : TriesGo(h, list, ids, "noun", x))[1..Len(list)]
  <2> DEFINE Once(y, k) == IF At(y, list[k].words) = 0 THEN y
                           ELSE Replaced(y, At(y, list[k].words), list[k], Nearest(p, k), "noun")
             Goes(h) == h = [s \in SUBSET (1..Len(list)) |-> IF s = {} THEN x
                            ELSE Once(h[s \ {Max(s)}], seq[Max(s)])]
  <2>1. MatchNouns(p, x) = (CHOOSE h : Goes(h))[1..Len(list)]
    <3>1. MatchNouns(p, x) = FoldLeft(LAMBDA y, k : Once(y, k), x, seq)
      BY DEF MatchNouns, seq
    <3> HIDE DEF Once
    <3> QED BY <1>1, <3>1 DEF FoldLeft, MapThenFoldSet
  <2>2. ASSUME NEW h, NEW s \in SUBSET (1..Len(list)), s # {}
        PROVE  Try(h[s \ {Max(s)}], list[Max(s)], ids[Max(s)], "noun") = Once(h[s \ {Max(s)}], seq[Max(s)])
    <3>1. Max(s) \in 1..Len(list)
      BY <1>1, <2>2, MaxIsOneOf
    <3>2. ids[Max(s)] = Nearest(p, Max(s)) /\ seq[Max(s)] = Max(s)
      BY <1>1, <3>1
    <3> QED BY <3>2 DEF Try
  <2>3. ASSUME NEW h PROVE TriesGo(h, list, ids, "noun", x) <=> Goes(h)
    <3> HIDE DEF Once
    <3> QED BY <2>2 DEF TriesGo
  <2> HIDE DEF Goes
  <2>4. (CHOOSE h : TriesGo(h, list, ids, "noun", x)) = (CHOOSE h : Goes(h))
    BY <2>3
  <2> QED BY <2>1, <2>4
<1>4. Passes(MatchNouns(p, x), list, ids, "noun", x)
  BY <1>2, <1>3, TriesPass
<1> QED BY <1>4 DEF ids

(* What a pass leaves.                                                     *)
Passed(y, list, ids, kind, x) ==
    /\ PassType(list, ids, kind, x) /\ Kept(x, y) /\ Come(y, x, list, ids, kind, Len(list))
    /\ \A l \in 1..Len(list) : \A q \in Nat :
          WordsThere(WordsOf(x), list[l].words, q) => FoundOrTaken(y, x, list, ids, kind, l, q)

\* A pass keeps the words, brings only phrases of its list, and has each of
\* them win.
LEMMA PassesPass ==
    ASSUME NEW y, NEW list, NEW ids, NEW kind, NEW x, Passes(y, list, ids, kind, x)
    PROVE  Passed(y, list, ids, kind, x)
<1>1. PassType(list, ids, kind, x)
  BY DEF Passes
<1>2. PICK g : Pass(g, list, ids, kind, x) /\ y = g[Len(list)]
  BY DEF Passes
<1>3. Len(list) \in 0..Len(list)
  BY <1>1 DEF PassType
<1>4. Kept(x, y) /\ Come(y, x, list, ids, kind, Len(list))
  BY <1>1, <1>2, <1>3, PassGoes
<1>5. ASSUME NEW l \in 1..Len(list), NEW q \in Nat, WordsThere(WordsOf(x), list[l].words, q)
      PROVE  FoundOrTaken(y, x, list, ids, kind, l, q)
  BY <1>1, <1>2, <1>5, PassWins
<1> QED BY <1>1, <1>4, <1>5 DEF Passed

(* A command goes through one pass and then through the other.             *)
TwoPasses(w, y, z, one, ids1, k1, two, ids2, k2) ==
    /\ w \in Seq(STRING) /\ k1 # k2
    /\ Passed(y, one, ids1, k1, WordsAsItems(w)) /\ Passed(z, two, ids2, k2, y)

\* What stands for a phrase is an object of that kind with that phrase.
LEMMA StandIs ==
    ASSUME NEW list, NEW ids, NEW kind, NEW x, PassType(list, ids, kind, x), NEW h \in 1..Len(list)
    PROVE  /\ Stand(ids[h], list[h], kind) \in ObjectItem
           /\ Stand(ids[h], list[h], kind).kind = kind /\ Stand(ids[h], list[h], kind).match = list[h]
           /\ Stand(ids[h], list[h], kind).object = ids[h]
BY DEF PassType, Stand, ObjectItem

\* Before the first pass there are only words.
LEMMA OnlyWords ==
    ASSUME NEW w \in Seq(STRING), NEW b \in 1..Len(WordsAsItems(w))
    PROVE  WordsAsItems(w)[b] \notin ObjectItem /\ WordsAsItems(w)[b] \in WordItem
<1>1. b \in 1..Len(w)
  BY PlainReads
<1>2. w[b] \in STRING /\ WordsAsItems(w)[b] = [word |-> w[b]]
  BY <1>1 DEF WordsAsItems
<1> QED BY <1>2, Disjoint DEF WordItem

\* After both passes the words are those typed, and objects stand for phrases
\* of the one list or the other.
LEMMA TwoPassesKeep ==
    ASSUME NEW w, NEW y, NEW z, NEW one, NEW ids1, NEW k1, NEW two, NEW ids2, NEW k2,
           TwoPasses(w, y, z, one, ids1, k1, two, ids2, k2)
    PROVE  /\ z \in Seq(Item) /\ WordsOf(z) = w
           /\ \A a \in 1..Len(z) : z[a] \in ObjectItem =>
                 \/ \E h \in 1..Len(one) : z[a] = Stand(ids1[h], one[h], k1)
                 \/ \E h \in 1..Len(two) : z[a] = Stand(ids2[h], two[h], k2)
<1>1. w \in Seq(STRING) /\ Passed(y, one, ids1, k1, WordsAsItems(w)) /\ Passed(z, two, ids2, k2, y)
  BY DEF TwoPasses
<1>2. WordsOf(WordsAsItems(w)) = w
  BY <1>1, PlainReads
<1>3. z \in Seq(Item) /\ WordsOf(z) = w
  BY <1>1, <1>2 DEF Passed, Kept
<1>4. ASSUME NEW a \in 1..Len(z), z[a] \in ObjectItem
      PROVE  \/ \E h \in 1..Len(one) : z[a] = Stand(ids1[h], one[h], k1)
             \/ \E h \in 1..Len(two) : z[a] = Stand(ids2[h], two[h], k2)
  <2>1. CASE \E b \in 1..Len(y) : z[a] = y[b]
    <3>1. PICK b \in 1..Len(y) : z[a] = y[b]
      BY <2>1
    <3>2. ~\E c \in 1..Len(WordsAsItems(w)) : y[b] = WordsAsItems(w)[c]
      BY <1>1, <1>4, <3>1, OnlyWords
    <3>3. Come(y, WordsAsItems(w), one, ids1, k1, Len(one))
      BY <1>1 DEF Passed
    <3> QED BY <3>1, <3>2, <3>3 DEF Come
  <2>2. CASE \E h \in 1..Len(two) : z[a] = Stand(ids2[h], two[h], k2)
    BY <2>2
  <2>3. Come(z, y, two, ids2, k2, Len(two))
    BY <1>1 DEF Passed
  <2> QED BY <2>1, <2>2, <2>3 DEF Come
<1> QED BY <1>3, <1>4

WonIn(z, list, ids, kind, l, q, first) ==
    \/ HasItem(z, Stand(ids[l], list[l], kind))
    \/ \E j \in 1..Len(list[l].words) :
          /\ Fates(z)[q+j-1] \in ObjectItem
          /\ Fates(z)[q+j-1].kind # kind => Fates(z)[q+j-1].kind = first
          /\ Fates(z)[q+j-1].kind = kind => \E h \in 1..l : Fates(z)[q+j-1].match = list[h]

\* A phrase of the first pass was found, or lost a word to an earlier one of
\* its kind.
LEMMA WonAtFirst ==
    ASSUME NEW w, NEW y, NEW z, NEW one, NEW ids1, NEW k1, NEW two, NEW ids2, NEW k2,
           TwoPasses(w, y, z, one, ids1, k1, two, ids2, k2),
           NEW l \in 1..Len(one), NEW q \in Nat, WordsThere(w, one[l].words, q)
    PROVE  WonIn(z, one, ids1, k1, l, q, k1)
<1> DEFINE x == WordsAsItems(w)
<1>1. w \in Seq(STRING) /\ Passed(y, one, ids1, k1, x) /\ Passed(z, two, ids2, k2, y)
  BY DEF TwoPasses
<1>2. WordsOf(x) = w
  BY <1>1, PlainReads
<1>3. PassType(one, ids1, k1, x) /\ FoundOrTaken(y, x, one, ids1, k1, l, q) /\ Kept(x, y) /\ Kept(y, z)
  BY <1>1, <1>2 DEF Passed
<1>4. \A h \in 1..l : h \in 1..Len(one)
  <2>1. Len(one) \in Nat
    BY <1>3 DEF PassType
  <2> QED BY <2>1
<1>5. one[l].words \in Seq(STRING) /\ Len(one[l].words) \in Nat
  <2>1. one[l] \in Matches
    BY <1>3 DEF PassType
  <2>2. one[l].words \in Seq(STRING)
    BY <2>1 DEF Matches
  <2> QED BY <2>2
<1>6. CASE HasItem(y, Stand(ids1[l], one[l], k1))
  <2>1. Stand(ids1[l], one[l], k1) \in ObjectItem
    BY <1>3, StandIs
  <2>2. HasItem(z, Stand(ids1[l], one[l], k1))
    BY <1>3, <1>6, <2>1 DEF HasItem, Kept
  <2> QED BY <2>2 DEF WonIn
<1>7. CASE ~HasItem(y, Stand(ids1[l], one[l], k1))
  <2>1. PICK j \in 1..Len(one[l].words) :
           Fates(y)[q+j-1] \in ObjectItem /\ From(Fates(y)[q+j-1], x, one, ids1, k1, l)
    BY <1>3, <1>7 DEF FoundOrTaken
  <2> DEFINE p == q+j-1
             o == Fates(y)[p]
  <2>2. p \in 1..Len(Fates(y))
    <3>1. Len(Fates(y)) = Len(WordsOf(y)) /\ Len(Fates(y)) \in Nat
      BY <1>3, FateIs DEF Kept
    <3>2. WordsOf(y) = w
      BY <1>2, <1>3 DEF Kept
    <3>3. q \in Nat \ {0} /\ q + Len(one[l].words) - 1 <= Len(w)
      BY DEF WordsThere
    <3> DEFINE e == Len(w)
               n == Len(one[l].words)
    <3>4. e \in Nat /\ n \in Nat /\ j \in 1..n /\ q \in Nat \ {0} /\ q + n - 1 <= e
      BY <1>5, <3>1, <3>2, <3>3
    <3> HIDE DEF e, n
    <3>5. q + j - 1 \in 1..e
      BY <3>4
    <3> QED BY <3>1, <3>2, <3>5 DEF e
  <2>3. Fates(z)[p] = o
    BY <1>3, <2>1, <2>2 DEF Kept
  <2>4. \E h \in 1..l : o = Stand(ids1[h], one[h], k1)
    BY <1>1, <2>1, OnlyWords DEF From
  <2>5. PICK h \in 1..l : o = Stand(ids1[h], one[h], k1)
    BY <2>4
  <2> HIDE DEF o
  <2>6. o.kind = k1 /\ o.match = one[h]
    BY <1>3, <1>4, <2>5, StandIs
  <2>7. Fates(z)[p] \in ObjectItem /\ Fates(z)[p].kind = k1 /\ Fates(z)[p].match = one[h]
    BY <2>1, <2>3, <2>6 DEF o
  <2> HIDE DEF p
  <2>8. /\ Fates(z)[p] \in ObjectItem
        /\ Fates(z)[p].kind # k1 => Fates(z)[p].kind = k1
        /\ Fates(z)[p].kind = k1 => \E i \in 1..l : Fates(z)[p].match = one[i]
    BY <2>7
  <2> QED BY <2>8 DEF WonIn, p
<1> QED BY <1>6, <1>7

\* A phrase of the second was found, or lost a word to an earlier one or to
\* the first pass.
LEMMA WonAfterwards ==
    ASSUME NEW w, NEW y, NEW z, NEW one, NEW ids1, NEW k1, NEW two, NEW ids2, NEW k2,
           TwoPasses(w, y, z, one, ids1, k1, two, ids2, k2),
           NEW l \in 1..Len(two), NEW q \in Nat, WordsThere(w, two[l].words, q)
    PROVE  WonIn(z, two, ids2, k2, l, q, k1)
<1> DEFINE x == WordsAsItems(w)
<1>1. /\ w \in Seq(STRING) /\ k1 # k2
      /\ Passed(y, one, ids1, k1, x) /\ Passed(z, two, ids2, k2, y)
  BY DEF TwoPasses
<1>2. WordsOf(x) = w
  BY <1>1, PlainReads
<1>3. /\ PassType(one, ids1, k1, x) /\ PassType(two, ids2, k2, y)
      /\ WordsOf(y) = w /\ Come(y, x, one, ids1, k1, Len(one))
  BY <1>1, <1>2 DEF Passed, Kept
<1>4. FoundOrTaken(z, y, two, ids2, k2, l, q)
  BY <1>1, <1>3 DEF Passed
<1>5. \A h \in 1..l : h \in 1..Len(two)
  <2>1. Len(two) \in Nat
    BY <1>3 DEF PassType
  <2> QED BY <2>1
<1>6. CASE HasItem(z, Stand(ids2[l], two[l], k2))
  BY <1>6 DEF WonIn
<1>7. CASE ~HasItem(z, Stand(ids2[l], two[l], k2))
  <2>1. PICK j \in 1..Len(two[l].words) :
           Fates(z)[q+j-1] \in ObjectItem /\ From(Fates(z)[q+j-1], y, two, ids2, k2, l)
    BY <1>4, <1>7 DEF FoundOrTaken
  <2> DEFINE p == q+j-1
             o == Fates(z)[p]
  <2>2. o \in ObjectItem /\ From(o, y, two, ids2, k2, l)
    BY <2>1
  <2> HIDE DEF o
  <2>3. CASE \E b \in 1..Len(y) : o = y[b]
    <3>1. \E h \in 1..Len(one) : o = Stand(ids1[h], one[h], k1)
      BY <1>1, <1>3, <2>2, <2>3, OnlyWords DEF Come
    <3>2. o.kind = k1
      BY <1>3, <3>1, StandIs
    <3> QED BY <1>1, <2>2, <3>2 DEF WonIn, o
  <2>4. CASE \E h \in 1..l : o = Stand(ids2[h], two[h], k2)
    <3>1. PICK h \in 1..l : o = Stand(ids2[h], two[h], k2)
      BY <2>4
    <3>2. o.kind = k2 /\ o.match = two[h]
      BY <1>3, <1>5, <3>1, StandIs
    <3>3. /\ o \in ObjectItem /\ (o.kind # k2 => o.kind = k1)
          /\ o.kind = k2 => \E i \in 1..l : o.match = two[i]
      BY <2>2, <3>2
    <3> QED BY <3>3 DEF WonIn, o
  <2> QED BY <2>2, <2>3, <2>4 DEF From
<1> QED BY <1>6, <1>7

Descends(list) == \A h, l \in 1..Len(list) : h <= l => list[h].size >= list[l].size
Naming(list, ids) == \A k \in 1..Len(list) : NamesOne(list, k, ids[k])

LongestIn(h) ==
    h.whole =>
        \A kind \in {"verb", "noun"} : \A m \in Known(h, kind) :
        \A i \in 1..(Len(h.words) - Len(m.words) + 1) :
            TypedAt(h.words, m.words, i) => Won(h, m, kind, i)

(* A hearing whose matching went through two passes.                       *)
Heeds(h, y, one, ids1, k1, two, ids2, k2) ==
    /\ TwoPasses(h.words, y, h.items, one, ids1, k1, two, ids2, k2)
    /\ h.first = k1 /\ {k1, k2} = {"verb", "noun"}
    /\ Known(h, k1) = ToSet(one) /\ Known(h, k2) = ToSet(two)
    /\ Naming(one, ids1) /\ Naming(two, ids2)
    /\ h.whole => Descends(one) /\ Descends(two)

\* What stands for a phrase is known under the words of the phrase.
LEMMA StandKnown ==
    ASSUME NEW list, NEW ids, NEW kind, NEW x, PassType(list, ids, kind, x), Naming(list, ids),
           NEW n \in 1..Len(list), NEW it, it = Stand(ids[n], list[n], kind)
    PROVE  it.kind = kind /\ \E m \in ToSet(list) : m.words = it.match.words /\ m.id = it.object
<1>1. it.kind = kind /\ it.match = list[n] /\ it.object = ids[n]
  BY StandIs
<1>2. PICK j \in 1..Len(list) : list[j].words = list[n].words /\ list[j].id = ids[n]
  BY DEF Naming, NamesOne
<1>3. list[j] \in ToSet(list)
  <2>1. DOMAIN list = 1..Len(list)
    BY DEF PassType
  <2> QED BY <2>1 DEF ToSet
<1> QED BY <1>1, <1>2, <1>3

\* What went through two passes keeps its words.
LEMMA HeededKeeps ==
    ASSUME NEW h, NEW y, NEW one, NEW ids1, NEW k1, NEW two, NEW ids2, NEW k2,
           Heeds(h, y, one, ids1, k1, two, ids2, k2)
    PROVE  KeepsWords(h)
<1>1. /\ TwoPasses(h.words, y, h.items, one, ids1, k1, two, ids2, k2) /\ k1 # k2
      /\ Known(h, k1) = ToSet(one) /\ Known(h, k2) = ToSet(two)
      /\ Naming(one, ids1) /\ Naming(two, ids2)
  BY DEF Heeds, TwoPasses
<1>2. /\ PassType(one, ids1, k1, WordsAsItems(h.words)) /\ PassType(two, ids2, k2, y)
  BY <1>1 DEF TwoPasses, Passed
<1>3. /\ h.items \in Seq(Item) /\ WordsOf(h.items) = h.words
      /\ \A a \in 1..Len(h.items) : h.items[a] \in ObjectItem =>
            \/ \E n \in 1..Len(one) : h.items[a] = Stand(ids1[n], one[n], k1)
            \/ \E n \in 1..Len(two) : h.items[a] = Stand(ids2[n], two[n], k2)
  BY <1>1, TwoPassesKeep
<1>4. ASSUME NEW kind \in {"verb", "noun"}, NEW i \in DOMAIN h.items, Matched(h.items[i], kind)
      PROVE  \E m \in Known(h, kind) : m.words = h.items[i].match.words /\ m.id = h.items[i].object
  <2> DEFINE it == h.items[i]
  <2>1. i \in 1..Len(h.items) /\ it \in Item
    BY <1>3
  <2>2. "object" \in DOMAIN it /\ it.kind = kind
    BY <1>4 DEF Matched
  <2>3. it \in ObjectItem
    BY <2>1, <2>2, WordItemIs DEF Item
  <2>4. \/ \E n \in 1..Len(one) : it = Stand(ids1[n], one[n], k1)
        \/ \E n \in 1..Len(two) : it = Stand(ids2[n], two[n], k2)
    BY <1>3, <2>1, <2>3
  <2> HIDE DEF it
  <2>5. CASE \E n \in 1..Len(one) : it = Stand(ids1[n], one[n], k1)
    <3>1. it.kind = k1 /\ \E m \in ToSet(one) : m.words = it.match.words /\ m.id = it.object
      BY <1>1, <1>2, <2>5, StandKnown
    <3> QED BY <1>1, <2>2, <3>1 DEF it
  <2>6. CASE \E n \in 1..Len(two) : it = Stand(ids2[n], two[n], k2)
    <3>1. it.kind = k2 /\ \E m \in ToSet(two) : m.words = it.match.words /\ m.id = it.object
      BY <1>1, <1>2, <2>6, StandKnown
    <3> QED BY <1>1, <2>2, <3>1 DEF it
  <2> QED BY <2>4, <2>5, <2>6
<1> QED BY <1>3, <1>4 DEF KeepsWords

\* In a list by descending size, to lose to an earlier phrase is to lose to
\* one that is no shorter.
LEMMA WonIsWon ==
    ASSUME NEW h, NEW list, NEW ids, NEW kind, NEW x, PassType(list, ids, kind, x),
           NEW l \in 1..Len(list), NEW q, h.items \in Seq(Item), Descends(list),
           WonIn(h.items, list, ids, kind, l, q, h.first)
    PROVE  Won(h, list[l], kind, q)
<1>1. list \in Seq(Matches) /\ list[l].words \in Seq(STRING) /\ DOMAIN list[l].words = 1..Len(list[l].words)
  <2>1. list[l] \in Matches /\ list \in Seq(Matches)
    BY DEF PassType
  <2>2. list[l].words \in Seq(STRING)
    BY <2>1 DEF Matches
  <2> QED BY <2>1, <2>2
<1>2. CASE HasItem(h.items, Stand(ids[l], list[l], kind))
  <2> DEFINE it == Stand(ids[l], list[l], kind)
  <2>1. it \in ObjectItem /\ it.kind = kind /\ it.match = list[l]
    BY StandIs
  <2>2. "object" \in DOMAIN it
    BY <2>1, ObjectItemIs
  <2>3. Matched(it, kind) /\ it.match.words = list[l].words
    BY <2>1, <2>2 DEF Matched
  <2>4. PICK a \in 1..Len(h.items) : h.items[a] = it
    BY <1>2 DEF HasItem
  <2>5. a \in DOMAIN h.items
    OBVIOUS
  <2> HIDE DEF it
  <2>6. \E k \in DOMAIN h.items : Matched(h.items[k], kind) /\ h.items[k].match.words = list[l].words
    BY <2>3, <2>4, <2>5
  <2> QED BY <2>6 DEF Won
<1>3. CASE ~HasItem(h.items, Stand(ids[l], list[l], kind))
  <2>1. PICK j \in 1..Len(list[l].words) :
          /\ Fates(h.items)[q+j-1] \in ObjectItem
          /\ Fates(h.items)[q+j-1].kind # kind => Fates(h.items)[q+j-1].kind = h.first
          /\ Fates(h.items)[q+j-1].kind = kind => \E n \in 1..l : Fates(h.items)[q+j-1].match = list[n]
    BY <1>3 DEF WonIn
  <2> DEFINE o == Fates(h.items)[q+j-1]
  <2>2. "object" \in DOMAIN o
    BY <2>1, ObjectItemIs
  <2>3. o.kind = kind => o.match.size >= list[l].size
    <3>1. \A n \in 1..l : n \in 1..Len(list) /\ n <= l
      BY <1>1
    <3>2. o.kind = kind => \E n \in 1..l : o.match = list[n]
      BY <2>1
    <3> HIDE DEF o
    <3> QED BY <3>1, <3>2 DEF Descends
  <2>4. o.kind # kind => o.kind = h.first
    BY <2>1
  <2> QED BY <1>1, <2>2, <2>3, <2>4 DEF Won
<1> QED BY <1>2, <1>3

\* What went through two passes of such lists has the longest phrase win.
LEMMA HeededWins ==
    ASSUME NEW h, NEW y, NEW one, NEW ids1, NEW k1, NEW two, NEW ids2, NEW k2,
           Heeds(h, y, one, ids1, k1, two, ids2, k2)
    PROVE  LongestIn(h)
<1>1. /\ TwoPasses(h.words, y, h.items, one, ids1, k1, two, ids2, k2)
      /\ h.first = k1 /\ {k1, k2} = {"verb", "noun"}
      /\ Known(h, k1) = ToSet(one) /\ Known(h, k2) = ToSet(two)
      /\ h.whole => Descends(one) /\ Descends(two)
  BY DEF Heeds
<1>2. /\ PassType(one, ids1, k1, WordsAsItems(h.words)) /\ PassType(two, ids2, k2, y)
      /\ h.words \in Seq(STRING)
  BY <1>1 DEF TwoPasses, Passed
<1>3. h.items \in Seq(Item)
  BY <1>1, TwoPassesKeep
<1>4. ASSUME NEW list, NEW ids, NEW kind, NEW x, PassType(list, ids, kind, x),
             NEW m \in ToSet(list), NEW i \in 1..(Len(h.words) - Len(m.words) + 1),
             TypedAt(h.words, m.words, i)
      PROVE  \E l \in 1..Len(list) : list[l] = m /\ WordsThere(h.words, m.words, i) /\ i \in Nat
  <2>1. list \in Seq(Matches)
    BY <1>4 DEF PassType
  <2>2. PICK l \in 1..Len(list) : list[l] = m
    BY <2>1 DEF ToSet
  <2>3. m \in Matches
    BY <2>1, <2>2
  <2>4. m.words \in Seq(STRING) /\ m.words # <<>>
    BY <2>3 DEF Matches
  <2> DEFINE u == m.words
             v == h.words
  <2>6. u \in Seq(STRING) /\ u # <<>> /\ v \in Seq(STRING) /\ i \in 1..(Len(v) - Len(u) + 1) /\ TypedAt(v, u, i)
    BY <1>2, <1>4, <2>4
  <2> HIDE DEF u, v
  <2>5. WordsThere(v, u, i)
    BY ONLY <2>6, TypedIsThere
  <2>7. i \in Nat
    BY <2>5 DEF WordsThere
  <2> QED BY <2>2, <2>5, <2>7 DEF u, v
<1>5. ASSUME h.whole, NEW m \in ToSet(one), NEW i \in 1..(Len(h.words) - Len(m.words) + 1),
             TypedAt(h.words, m.words, i)
      PROVE  Won(h, m, k1, i)
  <2>1. PICK l \in 1..Len(one) : one[l] = m /\ WordsThere(h.words, m.words, i) /\ i \in Nat
    BY <1>2, <1>4, <1>5
  <2>2. WonIn(h.items, one, ids1, k1, l, i, h.first)
    BY <1>1, <2>1, WonAtFirst
  <2> QED BY <1>1, <1>2, <1>3, <1>5, <2>1, <2>2, WonIsWon
<1>6. ASSUME h.whole, NEW m \in ToSet(two), NEW i \in 1..(Len(h.words) - Len(m.words) + 1),
             TypedAt(h.words, m.words, i)
      PROVE  Won(h, m, k2, i)
  <2>1. PICK l \in 1..Len(two) : two[l] = m /\ WordsThere(h.words, m.words, i) /\ i \in Nat
    BY <1>2, <1>4, <1>6
  <2>2. WonIn(h.items, two, ids2, k2, l, i, h.first)
    BY <1>1, <2>1, WonAfterwards
  <2> QED BY <1>1, <1>2, <1>3, <1>6, <2>1, <2>2, WonIsWon
<1>7. ASSUME h.whole, NEW kind \in {"verb", "noun"}, NEW m \in Known(h, kind),
             NEW i \in 1..(Len(h.words) - Len(m.words) + 1), TypedAt(h.words, m.words, i)
      PROVE  Won(h, m, kind, i)
  <2>1. CASE kind = k1
    BY <1>1, <1>5, <1>7, <2>1
  <2>2. CASE kind = k2
    BY <1>1, <1>6, <1>7, <2>2
  <2> QED BY <1>1, <2>1, <2>2
<1> QED BY <1>7 DEF LongestIn

----------------------------------------------------------------------------
(* Near namesakes.                                                         *)

\* No item ends after the last.
LEMMA EndsBeforeLast ==
    ASSUME NEW items \in Seq(Item), NEW c, Ends(c, items), NEW i \in 1..Len(items)
    PROVE  c[i] \in Nat /\ c[i] <= Len(Fates(items))
<1> DEFINE l == Len(items)
           B == {k \in Nat : i + k <= l => c[i] <= c[i+k]}
<1>1. \A a \in 1..l : c[a-1] \in Nat /\ c[a] = c[a-1] + Len(Covered(items[a])) /\ Len(Covered(items[a])) \in Nat
  BY CoveredType DEF Ends
<1>2. l \in Nat /\ i \in Nat /\ i >= 1 /\ i <= l
  OBVIOUS
<1>3. \A a \in 1..l : c[a] \in Nat /\ c[a-1] <= c[a]
  BY <1>1
<1> HIDE DEF l
<1>4. 0 \in B
  <2>1. i + 0 = i /\ c[i] \in Nat
    BY <1>2, <1>3
  <2> QED BY <2>1
<1>5. ASSUME NEW k \in B PROVE k + 1 \in B
  <2>0. k \in Nat /\ k + 1 \in Nat /\ (i + k <= l => c[i] <= c[i+k])
    OBVIOUS
  <2> SUFFICES ASSUME i + (k + 1) <= l PROVE c[i] <= c[i+(k+1)]
    BY <2>0
  <2> DEFINE e == i + (k + 1)
  <2>1. i + k <= l /\ e \in 1..l /\ e - 1 = i + k /\ i + k \in 1..l /\ i \in 1..l
    BY <1>2, <2>0
  <2>2. c[e-1] <= c[e] /\ c[e] \in Nat /\ c[i+k] \in Nat /\ c[i] \in Nat
    BY <1>3, <2>1
  <2> QED BY <2>0, <2>1, <2>2
<1> HIDE DEF B
<1>6. l - i \in B
  <2>1. B \in SUBSET Nat /\ l - i \in Nat
    BY <1>2 DEF B
  <2> QED BY <1>4, <1>5, <2>1, FromZeroUp
<1>7. i + (l - i) = l /\ i \in 1..l
  BY <1>2
<1>8. c[i] <= c[l] /\ c[i] \in Nat
  BY <1>2, <1>3, <1>6, <1>7 DEF B
<1>9. c[l] = Len(Fates(items))
  BY DEF Ends, l
<1> QED BY <1>8, <1>9

\* Where a phrase is found its words are still words.
LEMMA FoundIsPlain ==
    ASSUME NEW items \in Seq(Item), NEW w \in Seq(STRING), w # <<>>, NEW i, Occurs(items, w, i)
    PROVE  \E q : PlainAt(items, w, q)
<1> DEFINE n == Len(w)
           l == Len(items)
<1>1. n \in Nat /\ n >= 1 /\ l \in Nat /\ DOMAIN w = 1..n /\ DOMAIN items = 1..l
  OBVIOUS
<1>2. i \in 1..l /\ i + n - 1 <= l /\ \A j \in 1..n : items[i+j-1] = [word |-> w[j]]
  BY <1>1 DEF Occurs
<1>3. PICK c : Ends(c, items)
  BY HasEnds
<1> DEFINE q == c[i-1] + 1
<1>4. \A j \in 1..n : Covered(items[i+j-1]) = <<w[j]>>
  <2> SUFFICES ASSUME NEW j \in 1..n PROVE Covered(items[i+j-1]) = <<w[j]>>
    OBVIOUS
  <2> DEFINE o == [word |-> w[j]]
  <2>1. o \in WordItem /\ o.word = w[j]
    BY <1>1 DEF WordItem
  <2>2. Covered(o) = <<o.word>>
    BY <2>1, WordItemIs
  <2> QED BY <1>2, <2>1, <2>2
<1>5. \A a \in 1..l : c[a-1] \in Nat /\ c[a] = c[a-1] + Len(Covered(items[a]))
                      /\ \A k \in 1..Len(Covered(items[a])) : Fates(items)[c[a-1] + k] = items[a]
  BY <1>3 DEF Ends
<1>6. c[i-1] \in Nat /\ q \in Nat \ {0}
  BY <1>2, <1>5
<1> HIDE DEF n, l
<1>7. ASSUME NEW j \in 1..n
      PROVE  /\ i+j-1 \in 1..l /\ c[i+j-1] = c[i+j-2] + 1 /\ Fates(items)[c[i+j-2] + 1] = items[i+j-1]
             /\ c[i+j-2] \in Nat
  <2> DEFINE a == i + j - 1
  <2>1. a \in 1..l /\ a - 1 = i + j - 2
    BY <1>1, <1>2
  <2>2. Covered(items[a]) = <<w[j]>>
    BY <1>4
  <2>3. Len(Covered(items[a])) = 1
    BY <2>2
  <2>4. c[a-1] \in Nat /\ c[a] = c[a-1] + 1 /\ Fates(items)[c[a-1] + 1] = items[a]
    <3> HIDE DEF a
    <3>1. 1 \in 1..Len(Covered(items[a]))
      BY <2>3
    <3> QED BY <1>5, <2>1, <2>3, <3>1
  <2> QED BY <2>1, <2>4
<1> DEFINE B == {j \in Nat : j + 1 <= n => c[i+j-1] = q + j - 1}
<1>8. 0 \in B
  <2>1. i + 0 - 1 = i - 1 /\ q + 0 - 1 = c[i-1]
    BY <1>2, <1>6
  <2> QED BY <2>1
<1> HIDE DEF q
<1>9. ASSUME NEW j \in B PROVE j + 1 \in B
  <2>0. j \in Nat /\ j + 1 \in Nat /\ (j + 1 <= n => c[i+j-1] = q + j - 1)
    OBVIOUS
  <2> SUFFICES ASSUME (j + 1) + 1 <= n PROVE c[i+(j+1)-1] = q + (j+1) - 1
    BY <2>0
  <2> DEFINE e == j + 1
  <2>1. e \in 1..n /\ j + 1 <= n /\ i+e-2 = i+j-1
    BY <1>1, <1>2, <2>0
  <2>2. c[i+e-1] = c[i+e-2] + 1
    BY <1>7, <2>1
  <2>3. c[i+e-1] = q + j - 1 + 1
    BY <2>0, <2>1, <2>2
  <2>4. q + j - 1 + 1 = q + e - 1
    BY <1>6, <2>0
  <2> QED BY <2>3, <2>4
<1> HIDE DEF B
<1>10. \A j \in Nat : j \in B
  <2>1. B \in SUBSET Nat
    BY DEF B
  <2> QED BY <1>8, <1>9, <2>1, FromZeroUp
<1>11. ASSUME NEW j \in 1..n PROVE c[i+j-2] = q + j - 2
  <2>1. j - 1 \in Nat /\ (j - 1) + 1 <= n /\ i + (j - 1) - 1 = i+j-2 /\ q + (j - 1) - 1 = q + j - 2
    BY <1>1, <1>2, <1>6
  <2>2. j - 1 \in B
    BY <1>10, <2>1
  <2> QED BY <2>1, <2>2 DEF B
<1>12. ASSUME NEW j \in 1..n PROVE Fates(items)[q+j-1] = [word |-> w[j]]
  <2>1. c[i+j-2] + 1 = q + j - 1
    BY <1>1, <1>6, <1>11
  <2> QED BY <1>2, <1>7, <2>1
<1>13. q + n - 1 <= Len(Fates(items))
  <2>1. n \in 1..n
    BY <1>1
  <2>2. c[i+n-1] = c[i+n-2] + 1 /\ i+n-1 \in 1..l /\ c[i+n-2] = q + n - 2
    BY <1>7, <1>11, <2>1
  <2>3. c[i+n-1] <= Len(Fates(items))
    BY <1>3, <2>2, EndsBeforeLast DEF l
  <2>4. c[i+n-1] = q + n - 1
    BY <1>1, <1>6, <2>2
  <2> QED BY <2>3, <2>4
<1>14. PlainAt(items, w, q)
  BY <1>6, <1>12, <1>13 DEF PlainAt, n
<1> QED BY <1>14

\* Words that are still words after some phrases were so before.
LEMMA PlainBefore ==
    ASSUME NEW x \in Seq(Item), NEW y, Kept(x, y), NEW w \in Seq(STRING), NEW q, PlainAt(y, w, q)
    PROVE  PlainAt(x, w, q)
<1>1. y \in Seq(Item) /\ WordsOf(y) = WordsOf(x) /\ Len(Fates(y)) = Len(Fates(x))
  BY DEF Kept
<1>2. q \in Nat \ {0} /\ q + Len(w) - 1 <= Len(Fates(x)) /\ Len(Fates(x)) \in Nat /\ Len(w) \in Nat
  BY <1>1, FateIs DEF PlainAt
<1>3. ASSUME NEW j \in 1..Len(w) PROVE Fates(x)[q+j-1] = [word |-> w[j]]
  <2> DEFINE p == q+j-1
             o == [word |-> w[j]]
             u == Fates(x)[p]
  <2>1. p \in 1..Len(Fates(x))
    <3> DEFINE m == Len(Fates(x))
               n == Len(w)
    <3>1. m \in Nat /\ n \in Nat /\ j \in 1..n /\ q + n - 1 <= m /\ q \in Nat \ {0}
      BY <1>2
    <3> HIDE DEF m, n
    <3>2. q+j-1 \in 1..m
      BY <3>1
    <3> QED BY <3>2 DEF m
  <2>2. Fates(y)[p] = o
    BY DEF PlainAt
  <2>3. w[j] \in STRING /\ o \in WordItem /\ o.word = w[j]
    BY DEF WordItem
  <2>4. o \notin ObjectItem
    BY <2>3, Disjoint
  <2> HIDE DEF p, o
  <2>5. FateIsFound(x, p) /\ FateIsFound(y, p)
    BY <1>1, <2>1, FateIs
  <2>6. u \notin ObjectItem
    BY <2>1, <2>2, <2>4 DEF Kept
  <2>7. u \in WordItem /\ WordsOf(x)[p] = u.word
    BY <2>5, <2>6 DEF FateIsFound, Item
  <2>8. WordsOf(y)[p] = o.word
    BY <2>2, <2>3, <2>5 DEF FateIsFound
  <2> HIDE DEF u
  <2>9. u = [word |-> u.word]
    BY <2>7, WordItemIs
  <2> QED BY <1>1, <2>3, <2>7, <2>8, <2>9 DEF u, p
<1> QED BY <1>2, <1>3 DEF PlainAt

(* The phrases of a pass that were found.                                  *)
Found(g, list, k) == At(g[k-1], list[k].words) # 0

\* The objects a pass brings stand for phrases that were found.
LEMMA PassBrings ==
    ASSUME NEW list, NEW ids, NEW kind, NEW x, PassType(list, ids, kind, x),
           NEW g, Pass(g, list, ids, kind, x), NEW a, a \in 1..Len(g[Len(list)])
    PROVE  \/ \E b \in 1..Len(x) : g[Len(list)][a] = x[b]
           \/ \E h \in 1..Len(list) : Found(g, list, h) /\ g[Len(list)][a] = Stand(ids[h], list[h], kind)
<1> DEFINE Good(it) == \/ \E b \in 1..Len(x) : it = x[b]
                       \/ \E h \in 1..Len(list) : Found(g, list, h) /\ it = Stand(ids[h], list[h], kind)
           Goes(k) == \A b \in 1..Len(g[k]) : Good(g[k][b])
           B == {k \in Nat : k <= Len(list) => Goes(k)}
<1>0. Len(list) \in Nat
  BY DEF PassType
<1>1. 0 \in B
  <2>1. g[0] = x
    BY DEF Pass
  <2> QED BY <2>1
<1>2. ASSUME NEW k \in B PROVE k + 1 \in B
  <2>0. k \in Nat /\ k + 1 \in Nat /\ (k <= Len(list) => Goes(k))
    OBVIOUS
  <2> SUFFICES ASSUME k + 1 <= Len(list) PROVE Goes(k+1)
    BY <2>0
  <2> DEFINE e == k + 1
             it == Stand(ids[e], list[e], kind)
  <2>1. k <= Len(list) /\ e \in 1..Len(list) /\ e - 1 = k /\ k \in 0..Len(list)
    BY <1>0, <2>0
  <2>2. Goes(k) /\ g[k] \in Seq(Item)
    BY <2>0, <2>1, PassGoes
  <2>3. g[e] = Try(g[k], list[e], ids[e], kind)
    BY <2>1 DEF Pass
  <2>4. list[e] \in Matches /\ ids[e] \in Objects /\ kind \in {"verb", "noun"}
    BY <2>1 DEF PassType
  <2>5. CASE ~Found(g, list, e)
    <3>1. g[e] = g[k]
      BY <2>1, <2>3, <2>5 DEF Found, Try
    <3> QED BY <2>2, <3>1
  <2>6. CASE Found(g, list, e)
    <3>1. Good(it)
      BY <2>1, <2>6
    <3>2. Brings(g[k], g[e], it)
      BY <2>2, <2>3, <2>4, TryKeeps
    <3> HIDE DEF Good, it
    <3>3. \A b \in 1..Len(g[e]) : Good(g[e][b])
      BY <2>2, <3>1, <3>2 DEF Brings
    <3> QED BY <3>3
  <2> QED BY <2>5, <2>6
<1> HIDE DEF B
<1>3. Len(list) \in B
  <2>1. B \in SUBSET Nat
    BY DEF B
  <2> QED BY <1>0, <1>1, <1>2, <2>1, FromZeroUp
<1>4. Goes(Len(list))
  BY <1>0, <1>3 DEF B
<1> HIDE DEF Good
<1>5. Good(g[Len(list)][a])
  BY <1>4
<1> QED BY <1>5 DEF Good

\* A phrase was found if one of the same words was found after it.
LEMMA FoundBefore ==
    ASSUME NEW list, NEW ids, NEW kind, NEW x, PassType(list, ids, kind, x),
           NEW g, Pass(g, list, ids, kind, x), NEW k \in 1..Len(list), Found(g, list, k),
           NEW l \in 1..k, list[l].words = list[k].words
    PROVE  HasItem(g[Len(list)], Stand(ids[l], list[l], kind))
<1> DEFINE w == list[k].words
           n == Len(list)
           it == Stand(ids[l], list[l], kind)
<1>1. n \in Nat /\ k - 1 \in 0..n /\ l - 1 \in 0..n /\ l \in 0..n /\ l - 1 <= k - 1 /\ l \in 1..n /\ n \in 0..n /\ l <= n
  <2>1. n \in Nat /\ k \in 1..n /\ l \in 1..k
    BY DEF PassType
  <2> HIDE DEF n
  <2> QED BY <2>1
<1>2. /\ list[k] \in Matches /\ list[l] \in Matches /\ ids[l] \in Objects /\ kind \in {"verb", "noun"}
  BY <1>1 DEF PassType
<1>3. w \in Seq(STRING) /\ w # <<>>
  BY <1>2 DEF Matches
<1>4. g[k-1] \in Seq(Item) /\ g[l-1] \in Seq(Item) /\ g[l] \in Seq(Item)
  BY <1>1, PassGoes
<1>5. Kept(g[l-1], g[k-1]) /\ Kept(g[l], g[n])
  BY <1>1, PassKeepsBetween
<1>6. At(g[k-1], w) # 0
  BY DEF Found
<1>7. g[l] = Try(g[l-1], list[l], ids[l], kind)
  BY <1>1 DEF Pass
<1>8. it \in ObjectItem
  BY <1>2 DEF ObjectItem, Stand
<1> HIDE DEF w, it, n
<1>9. Occurs(g[k-1], w, At(g[k-1], w))
  BY <1>4, <1>6, AtFinds DEF Finds
<1>10. PICK q : PlainAt(g[k-1], w, q)
  BY <1>3, <1>4, <1>9, FoundIsPlain
<1>11. PlainAt(g[l-1], w, q)
  BY <1>3, <1>4, <1>5, <1>10, PlainBefore
<1>12. At(g[l-1], w) # 0
  BY <1>3, <1>4, <1>11, PlainIsFound
<1>13. At(g[l-1], list[l].words) # 0
  BY <1>12 DEF w
<1>14. HasItem(g[l], it)
  BY <1>2, <1>4, <1>7, <1>13, TryKeeps DEF it
<1>15. HasItem(g[n], it)
  BY <1>5, <1>8, <1>14 DEF HasItem, Kept
<1> QED BY <1>15 DEF it, n

(* After a pass, a phrase only stands for words if every one of the same   *)
(* words before it does too.                                               *)
Placed(y, x, list, ids, kind) ==
    \A a \in 1..Len(y) :
        \/ \E b \in 1..Len(x) : y[a] = x[b]
        \/ \E k \in 1..Len(list) :
              /\ y[a] = Stand(ids[k], list[k], kind)
              /\ \A l \in 1..k : list[l].words = list[k].words => HasItem(y, Stand(ids[l], list[l], kind))

\* That is so.
LEMMA PassesPlace ==
    ASSUME NEW y, NEW list, NEW ids, NEW kind, NEW x, Passes(y, list, ids, kind, x)
    PROVE  Placed(y, x, list, ids, kind)
<1>1. PassType(list, ids, kind, x)
  BY DEF Passes
<1>2. PICK g : Pass(g, list, ids, kind, x) /\ y = g[Len(list)]
  BY DEF Passes
<1>3. SUFFICES ASSUME NEW a \in 1..Len(y), ~\E b \in 1..Len(x) : y[a] = x[b]
               PROVE  \E k \in 1..Len(list) :
                         /\ y[a] = Stand(ids[k], list[k], kind)
                         /\ \A l \in 1..k : list[l].words = list[k].words =>
                               HasItem(y, Stand(ids[l], list[l], kind))
  BY DEF Placed
<1>4. PICK k \in 1..Len(list) : Found(g, list, k) /\ y[a] = Stand(ids[k], list[k], kind)
  BY <1>1, <1>2, <1>3, PassBrings
<1>5. ASSUME NEW l \in 1..k, list[l].words = list[k].words PROVE HasItem(y, Stand(ids[l], list[l], kind))
  BY <1>1, <1>2, <1>4, <1>5, FoundBefore
<1> QED BY <1>4, <1>5

(* Phrases of the same words have only phrases of as many between them.    *)
Together(list) ==
    \A i, j, k \in 1..Len(list) :
        i <= j /\ j <= k /\ list[i].words = list[k].words => Len(list[j].words) = Len(list[i].words)

\* Then Nearest finds a namesake that is near and comes later.
LEMMA NearestIsNear ==
    ASSUME NEW p, p.nounMatches \in Seq(Matches), Together(p.nounMatches),
           NEW k \in 1..Len(p.nounMatches), NEW m \in 1..Len(p.nounMatches), k <= m,
           p.nounMatches[m].words = p.nounMatches[k].words, p.nounMatches[m].id \in p.proximate
    PROVE  Nearest(p, k) \in p.proximate
<1> DEFINE list == p.nounMatches
           n == Len(list[k].words)
           near == {j \in k+1..Len(list) : /\ list[j].words = list[k].words /\ list[j].id \in p.proximate
                                           /\ \A i \in k+1..j : Len(list[i].words) = n}
<1>1. Nearest(p, k) = IF list[k].id \in p.proximate \/ near = {} THEN list[k].id
                      ELSE list[CHOOSE j \in near : \A i \in near : j <= i].id
  BY DEF Nearest
<1>2. Len(list) \in Nat /\ near \in SUBSET Nat /\ k \in Nat /\ m \in Nat /\ m <= Len(list) /\ k >= 1
  OBVIOUS
<1>3. \A j \in near : list[j].id \in p.proximate
  OBVIOUS
<1>4. k # m => m \in near
  <2> SUFFICES ASSUME k # m PROVE m \in near
    OBVIOUS
  <2>1. m \in k+1..Len(list)
    BY <1>2
  <2>2. ASSUME NEW i \in k+1..m PROVE Len(list[i].words) = n
    <3>1. i \in 1..Len(list) /\ k <= i /\ i <= m
      BY <1>2
    <3> QED BY <3>1 DEF Together
  <2> QED BY <2>1, <2>2
<1> HIDE DEF near, list
<1>5. CASE list[k].id \in p.proximate
  BY <1>1, <1>5
<1>6. CASE list[k].id \notin p.proximate
  <2>1. m \in near
    BY <1>4, <1>6 DEF list
  <2>2. \E j \in near : \A i \in near : j <= i
    BY <1>2, <2>1, LeastOfNats
  <2> DEFINE j == CHOOSE j \in near : \A i \in near : j <= i
  <2>3. j \in near
    BY <2>2
  <2>4. Nearest(p, k) = list[j].id
    BY <1>1, <1>6, <2>1
  <2> HIDE DEF j
  <2> QED BY <1>3, <2>3, <2>4
<1> QED BY <1>5, <1>6

(* A hearing after a pass with the nouns, y, and perhaps one with the      *)
(* verbs, before it or after.                                              *)
NounsIn(y, z) ==
    /\ \A a \in 1..Len(z) : Matched(z[a], "noun") => \E b \in 1..Len(y) : z[a] = y[b]
    /\ \A b \in 1..Len(y) : y[b] \in ObjectItem => \E a \in 1..Len(z) : z[a] = y[b]

NoNouns(x) == \A b \in 1..Len(x) : ~Matched(x[b], "noun")

Near(h, p, x, y) ==
    /\ p.nounMatches \in Seq(Matches) /\ PassType(p.nounMatches, NounIds(p), "noun", x)
    /\ Placed(y, x, p.nounMatches, NounIds(p), "noun") /\ y \in Seq(Item)
    /\ NoNouns(x) /\ NounsIn(y, h.items) /\ h.items \in Seq(Item)
    /\ h.nouns = ToSet(p.nounMatches) /\ h.near = p.proximate

\* Where names stand together, the near one is chosen of two namesakes.
LEMMA NearIsChosen ==
    ASSUME NEW h, NEW p, NEW x, NEW y, Near(h, p, x, y), Together(p.nounMatches)
    PROVE  NamesakeIsChosen(h)
<1> DEFINE list == p.nounMatches
           ids == NounIds(p)
           z == h.items
<1>0. /\ list \in Seq(Matches) /\ PassType(list, ids, "noun", x) /\ Placed(y, x, list, ids, "noun")
      /\ NoNouns(x) /\ NounsIn(y, z) /\ h.nouns = ToSet(list) /\ h.near = p.proximate
      /\ y \in Seq(Item) /\ z \in Seq(Item)
  BY DEF Near
<1>1. SUFFICES ASSUME NEW i \in DOMAIN z, Matched(z[i], "noun"), z[i].object \notin h.near,
                      NEW m \in h.nouns, m.words = z[i].match.words, m.id \in h.near
               PROVE  \E k \in DOMAIN z \ {i} : "object" \in DOMAIN z[k] /\ z[k].object = m.id
  BY DEF NamesakeIsChosen
<1>2. i \in 1..Len(z) /\ DOMAIN z = 1..Len(z) /\ DOMAIN list = 1..Len(list) /\ Len(list) \in Nat
  BY <1>0
<1>3. PICK b \in 1..Len(y) : z[i] = y[b]
  BY <1>0, <1>1, <1>2 DEF NounsIn
<1>4. ~\E c \in 1..Len(x) : y[b] = x[c]
  BY <1>0, <1>1, <1>3 DEF NoNouns
<1>5. PICK k \in 1..Len(list) :
         /\ y[b] = Stand(ids[k], list[k], "noun")
         /\ \A l \in 1..k : list[l].words = list[k].words => HasItem(y, Stand(ids[l], list[l], "noun"))
  BY <1>0, <1>3, <1>4 DEF Placed
<1>6. PICK l \in 1..Len(list) : list[l] = m
  BY <1>0, <1>2 DEF ToSet
<1>7. \A e \in 1..Len(list) : ids[e] = Nearest(p, e)
  BY <1>2 DEF NounIds
<1>8. z[i].match = list[k] /\ z[i].object = ids[k]
  BY <1>3, <1>5 DEF Stand
<1>9. list[l].words = list[k].words /\ list[l].id \in p.proximate
  BY <1>0, <1>1, <1>6, <1>8
<1>10. l < k
  <2> SUFFICES ASSUME k <= l PROVE FALSE
    BY <1>2
  <2>1. Nearest(p, k) \in p.proximate
    BY <1>0, <1>9, NearestIsNear
  <2> QED BY <1>0, <1>1, <1>7, <1>8, <2>1
<1>11. ids[l] = list[l].id
  BY <1>7, <1>9 DEF Nearest
<1> DEFINE it == Stand(ids[l], list[l], "noun")
<1>12. HasItem(y, it)
  <2>1. l \in 1..k
    BY <1>2, <1>10
  <2> QED BY <1>5, <1>9, <2>1
<1>13. it \in ObjectItem /\ it.object = m.id
  BY <1>0, <1>6, <1>11, StandIs
<1> HIDE DEF it
<1>14. PICK c \in 1..Len(y) : y[c] = it
  BY <1>12 DEF HasItem
<1>15. PICK a \in 1..Len(z) : z[a] = it
  BY <1>0, <1>13, <1>14 DEF NounsIn
<1>16. "object" \in DOMAIN it
  BY <1>13, ObjectItemIs
<1>17. a # i
  BY <1>1, <1>13, <1>15
<1> QED BY <1>2, <1>13, <1>15, <1>16, <1>17

----------------------------------------------------------------------------
(* Sorting.                                                                *)

(* An order of the places of a list, and how many places are before one.   *)
Ordered(R, n) ==
    /\ n \in Nat /\ \A i \in 1..n : <<i, i>> \notin R
    /\ \A i, j \in 1..n : i # j => <<i, j>> \in R \/ <<j, i>> \in R
    /\ \A i, j, k \in 1..n : <<i, j>> \in R /\ <<j, k>> \in R => <<i, k>> \in R

Ahead(R, n, i) == {j \in 1..n : <<j, i>> \in R}
PlaceIn(R, n) == [i \in 1..n |-> Cardinality(Ahead(R, n, i)) + 1]

\* Who comes before another has the lower place.
LEMMA PlaceGrows ==
    ASSUME NEW R, NEW n, Ordered(R, n), NEW i \in 1..n, NEW j \in 1..n, <<i, j>> \in R
    PROVE  PlaceIn(R, n)[i] < PlaceIn(R, n)[j]
<1>1. Ahead(R, n, i) \in SUBSET Ahead(R, n, j) /\ Ahead(R, n, j) \in SUBSET (1..n)
  BY DEF Ordered, Ahead
<1>2. i \in Ahead(R, n, j) /\ i \notin Ahead(R, n, i)
  BY DEF Ordered, Ahead
<1>3. IsFiniteSet(1..n)
  BY FS_Interval DEF Ordered
<1> DEFINE a == Ahead(R, n, i)
           b == Ahead(R, n, j)
<1>4. IsFiniteSet(b)
  BY <1>1, <1>3, FS_Subset
<1>5. IsFiniteSet(a) /\ Cardinality(a) <= Cardinality(b) /\ Cardinality(b) # Cardinality(a)
  BY <1>1, <1>2, <1>4, FS_Subset
<1>6. Cardinality(a) \in Nat /\ Cardinality(b) \in Nat
  BY <1>4, <1>5, FS_CardinalityType
<1>7. PlaceIn(R, n)[i] = Cardinality(a) + 1 /\ PlaceIn(R, n)[j] = Cardinality(b) + 1
  BY DEF PlaceIn
<1> HIDE DEF a, b
<1> QED BY <1>5, <1>6, <1>7

\* The places of n elements in an order are 1 to n, in that order.
LEMMA PlacesAreFilled ==
    ASSUME NEW R, NEW n, Ordered(R, n)
    PROVE  /\ \A m \in 1..n : \E i \in 1..n : PlaceIn(R, n)[i] = m
           /\ \A i, j \in 1..n : PlaceIn(R, n)[i] < PlaceIn(R, n)[j] => <<i, j>> \in R
<1> DEFINE place == PlaceIn(R, n)
<1>1. n \in Nat /\ IsFiniteSet(1..n) /\ Cardinality(1..n) = n
  <2>1. n \in Nat
    BY DEF Ordered
  <2>2. 1 \in Int /\ n \in Int
    BY <2>1
  <2>3. IsFiniteSet(1..n) /\ Cardinality(1..n) = IF 1 > n THEN 0 ELSE n-1+1
    BY <2>2, FS_Interval
  <2> QED BY <2>1, <2>3
<1>2. ASSUME NEW i \in 1..n PROVE place[i] \in 1..n
  <2>1. Ahead(R, n, i) \in SUBSET ((1..n) \ {i})
    BY DEF Ahead, Ordered
  <2>2. IsFiniteSet((1..n) \ {i}) /\ Cardinality((1..n) \ {i}) = n - 1
    BY <1>1, FS_RemoveElement
  <2>3. IsFiniteSet(Ahead(R, n, i)) /\ Cardinality(Ahead(R, n, i)) <= n - 1
    BY <2>1, <2>2, FS_Subset
  <2>4. Cardinality(Ahead(R, n, i)) \in Nat
    BY <2>3, FS_CardinalityType
  <2>5. place[i] = Cardinality(Ahead(R, n, i)) + 1
    BY DEF PlaceIn
  <2> HIDE DEF place
  <2> QED BY <1>1, <2>3, <2>4, <2>5
<1>3. place \in [1..n -> 1..n]
  <2>1. place = [i \in 1..n |-> place[i]]
    BY DEF PlaceIn
  <2> HIDE DEF place
  <2> QED BY <1>2, <2>1
<1>4. \A i, j \in 1..n : <<i, j>> \in R => place[i] < place[j]
  BY PlaceGrows
<1> HIDE DEF place
<1>5. \A i \in 1..n : place[i] \in Int
  BY <1>2
<1>6. \A i, j \in 1..n : place[i] = place[j] => i = j
  <2> SUFFICES ASSUME NEW i \in 1..n, NEW j \in 1..n, i # j PROVE place[i] # place[j]
    OBVIOUS
  <2>1. place[i] < place[j] \/ place[j] < place[i]
    BY <1>4 DEF Ordered
  <2> QED BY <1>5, <2>1
<1>7. place \in Injection(1..n, 1..n)
  BY <1>3, <1>6 DEF Injection, IsInjective
<1>8. place \in Surjection(1..n, 1..n)
  BY <1>1, <1>7, FS_Injection
<1>9. \A m \in 1..n : \E i \in 1..n : place[i] = m
  BY <1>8 DEF Surjection
<1>10. ASSUME NEW i \in 1..n, NEW j \in 1..n, place[i] < place[j] PROVE <<i, j>> \in R
  <2>1. i # j
    BY <1>5, <1>10
  <2>2. ~(place[j] < place[i])
    BY <1>5, <1>10
  <2> QED BY <1>4, <2>1, <2>2 DEF Ordered
<1> QED BY <1>9, <1>10 DEF place

----------------------------------------------------------------------------
(* The order of texts.                                                     *)

Slots == Seq(Nat)

(* Where one is less than the other, said place by place.                  *)
LessAt(s, t, i) ==
    /\ i \in 1..Len(t) /\ i <= Len(s) + 1 /\ \A j \in 1..i-1 : s[j] = t[j]
    /\ i <= Len(s) => s[i] < t[i]

\* TextLess is decided at the first place where two texts differ.
LEMMA LessSomewhere ==
    ASSUME NEW s \in Slots, NEW t \in Slots
    PROVE  TextLess(s, t) <=> \E i \in Nat : LessAt(s, t, i)
<1>1. s \in Seq(Nat) /\ t \in Seq(Nat) /\ Len(s) \in Nat /\ Len(t) \in Nat
  BY DEF Slots
<1>2. ASSUME NEW i \in 1..Len(t), i <= Len(s) + 1
      PROVE  SubSeq(s, 1, i-1) = SubSeq(t, 1, i-1) <=> \A j \in 1..i-1 : s[j] = t[j]
  <2> DEFINE x == SubSeq(s, 1, i-1)
             y == SubSeq(t, 1, i-1)
  <2>1. i \in Nat /\ i - 1 <= Len(s) /\ i - 1 <= Len(t) /\ i - 1 \in Nat
    BY <1>1, <1>2
  <2>2. x = [j \in 1..i-1 |-> s[j]] /\ y = [j \in 1..i-1 |-> t[j]]
    BY <1>1, <2>1
  <2> HIDE DEF x, y
  <2>3. x = y <=> \A j \in 1..i-1 : s[j] = t[j]
    BY <2>2
  <2> QED BY <2>3 DEF x, y
<1>3. \A i \in 1..Len(t) : i \in Nat
  OBVIOUS
<1> QED BY <1>2, <1>3 DEF TextLess, LessAt

\* No text is less than itself.
LEMMA TextLessIrreflexive ==
    ASSUME NEW s \in Slots PROVE ~TextLess(s, s)
<1> SUFFICES ASSUME TextLess(s, s) PROVE FALSE
  OBVIOUS
<1>1. PICK i \in Nat : LessAt(s, s, i)
  BY LessSomewhere
<1>2. i \in 1..Len(s) /\ s[i] < s[i]
  BY <1>1 DEF LessAt
<1>3. s[i] \in Nat
  BY <1>2 DEF Slots
<1> QED BY <1>2, <1>3

\* What is less than a lesser one is less.
LEMMA TextLessTransitive ==
    ASSUME NEW s \in Slots, NEW t \in Slots, NEW u \in Slots, TextLess(s, t), TextLess(t, u)
    PROVE  TextLess(s, u)
<1>1. PICK i \in Nat : LessAt(s, t, i)
  BY LessSomewhere
<1>2. PICK j \in Nat : LessAt(t, u, j)
  BY LessSomewhere
<1>3. /\ Len(s) \in Nat /\ Len(t) \in Nat /\ Len(u) \in Nat
      /\ \A k \in 1..Len(s) : s[k] \in Nat
      /\ \A k \in 1..Len(t) : t[k] \in Nat
      /\ \A k \in 1..Len(u) : u[k] \in Nat
  BY DEF Slots
<1>4. CASE i < j
  <2>1. i \in 1..Len(u) /\ i <= Len(s) + 1 /\ t[i] = u[i]
    BY <1>1, <1>2, <1>3, <1>4 DEF LessAt
  <2>2. \A k \in 1..i-1 : s[k] = u[k]
    BY <1>1, <1>2, <1>4 DEF LessAt
  <2>3. LessAt(s, u, i)
    BY <1>1, <2>1, <2>2 DEF LessAt
  <2> QED BY <2>3, LessSomewhere
<1>5. CASE j < i
  <2>1. j \in 1..Len(u) /\ j <= Len(s) /\ j <= Len(t) /\ s[j] = t[j] /\ t[j] < u[j]
    BY <1>1, <1>2, <1>3, <1>5 DEF LessAt
  <2>2. \A k \in 1..j-1 : s[k] = u[k]
    BY <1>1, <1>2, <1>5 DEF LessAt
  <2>3. LessAt(s, u, j)
    BY <1>3, <2>1, <2>2 DEF LessAt
  <2> QED BY <2>3, LessSomewhere
<1>6. CASE i = j
  <2>1. i \in 1..Len(u) /\ i \in 1..Len(t) /\ i <= Len(s) + 1 /\ t[i] < u[i]
    BY <1>1, <1>2, <1>3, <1>6 DEF LessAt
  <2>2. \A k \in 1..i-1 : s[k] = u[k]
    BY <1>1, <1>2, <1>6 DEF LessAt
  <2>3. i <= Len(s) => s[i] < u[i]
    <3> SUFFICES ASSUME i <= Len(s) PROVE s[i] < u[i]
      OBVIOUS
    <3>1. i \in 1..Len(s) /\ s[i] < t[i]
      BY <1>1, <1>3, <2>1 DEF LessAt
    <3>2. s[i] \in Nat /\ t[i] \in Nat /\ u[i] \in Nat
      BY <1>3, <2>1, <3>1
    <3> QED BY <2>1, <3>1, <3>2
  <2>4. LessAt(s, u, i)
    BY <2>1, <2>2, <2>3 DEF LessAt
  <2> QED BY <2>4, LessSomewhere
<1> QED BY <1>4, <1>5, <1>6

\* Of two texts one is less.
LEMMA TextLessTotal ==
    ASSUME NEW s \in Slots, NEW t \in Slots, s # t
    PROVE  TextLess(s, t) \/ TextLess(t, s)
<1>1. /\ Len(s) \in Nat /\ Len(t) \in Nat
      /\ \A k \in 1..Len(s) : s[k] \in Nat
      /\ \A k \in 1..Len(t) : t[k] \in Nat
  BY DEF Slots
<1> DEFINE D == {i \in Nat \ {0} : \/ i > Len(s) /\ i <= Len(t)
                                   \/ i > Len(t) /\ i <= Len(s)
                                   \/ i \in 1..Len(s) /\ i \in 1..Len(t) /\ s[i] # t[i]}
<1>2. D # {}
  <2> SUFFICES ASSUME D = {} PROVE s = t
    OBVIOUS
  <2>1. Len(s) = Len(t)
    <3>1. ~(Len(s) < Len(t))
      <4> SUFFICES ASSUME Len(s) < Len(t) PROVE FALSE
        OBVIOUS
      <4>1. Len(t) \in D
        BY <1>1
      <4> QED BY <4>1
    <3>2. ~(Len(t) < Len(s))
      <4> SUFFICES ASSUME Len(t) < Len(s) PROVE FALSE
        OBVIOUS
      <4>1. Len(s) \in D
        BY <1>1
      <4> QED BY <4>1
    <3> QED BY <1>1, <3>1, <3>2
  <2>2. \A i \in 1..Len(s) : s[i] = t[i]
    <3> SUFFICES ASSUME NEW i \in 1..Len(s), s[i] # t[i] PROVE FALSE
      OBVIOUS
    <3>1. i \in D
      BY <1>1, <2>1
    <3> QED BY <3>1
  <2>3. s \in Seq(Nat) /\ t \in Seq(Nat)
    BY DEF Slots
  <2> HIDE DEF D
  <2> QED BY <2>1, <2>2, <2>3
<1>3. PICK i \in D : \A j \in D : i <= j
  <2>1. D \in SUBSET Nat
    OBVIOUS
  <2> HIDE DEF D
  <2> QED BY <1>2, <2>1, LeastOfNats
<1>4. i \in Nat /\ i >= 1
  OBVIOUS
<1>5. ASSUME NEW j \in 1..i-1 PROVE j <= Len(s) /\ j <= Len(t) /\ s[j] = t[j]
  <2>1. j \in Nat \ {0} /\ j < i /\ j \notin D
    BY <1>3, <1>4
  <2>2. i <= Len(s) \/ i <= Len(t)
    BY <1>1
  <2> QED BY <1>1, <2>1, <2>2
<1>6. i - 1 <= Len(s) /\ i - 1 <= Len(t)
  <2>1. CASE i = 1
    BY <1>1, <2>1
  <2>2. CASE i # 1
    <3>1. i - 1 \in 1..i-1
      BY <1>4, <2>2
    <3> QED BY <1>5, <3>1
  <2> QED BY <2>1, <2>2
<1>7. \/ i > Len(s) /\ i <= Len(t)
      \/ i > Len(t) /\ i <= Len(s)
      \/ i \in 1..Len(s) /\ i \in 1..Len(t) /\ s[i] # t[i]
  OBVIOUS
<1> HIDE DEF D
<1>8. CASE i > Len(s) /\ i <= Len(t)
  <2>1. i \in 1..Len(t) /\ i <= Len(s) + 1 /\ ~(i <= Len(s))
    BY <1>1, <1>4, <1>6, <1>8
  <2>2. LessAt(s, t, i)
    BY <1>5, <2>1 DEF LessAt
  <2> QED BY <1>4, <2>2, LessSomewhere
<1>9. CASE i > Len(t) /\ i <= Len(s)
  <2>1. i \in 1..Len(s) /\ i <= Len(t) + 1 /\ ~(i <= Len(t))
    BY <1>1, <1>4, <1>6, <1>9
  <2>2. LessAt(t, s, i)
    BY <1>5, <2>1 DEF LessAt
  <2> QED BY <1>4, <2>2, LessSomewhere
<1>10. CASE i \in 1..Len(s) /\ i \in 1..Len(t) /\ s[i] # t[i]
  <2>1. i <= Len(s) + 1 /\ i <= Len(t) + 1
    BY <1>1, <1>4, <1>6
  <2>2. s[i] < t[i] \/ t[i] < s[i]
    BY <1>1, <1>10
  <2>3. CASE s[i] < t[i]
    <3>1. LessAt(s, t, i)
      BY <1>5, <1>10, <2>1, <2>3 DEF LessAt
    <3> QED BY <1>4, <3>1, LessSomewhere
  <2>4. CASE t[i] < s[i]
    <3>1. LessAt(t, s, i)
      BY <1>5, <1>10, <2>1, <2>4 DEF LessAt
    <3> QED BY <1>4, <3>1, LessSomewhere
  <2> QED BY <2>2, <2>3, <2>4
<1> QED BY <1>7, <1>8, <1>9, <1>10

Parseable == [slot : Seq(DOMAIN Spellings), size : Int, id : Objects]

\* Every spelling has a size and a word.
LEMMA SpellingsAre ==
    /\ Spellings \in Seq([size : Nat, word : STRING])
    /\ \A i \in DOMAIN Spellings : /\ i \in Nat /\ Spellings[i].size \in Nat /\ Spellings[i].word \in STRING
<1>1. Spellings \in Seq([size : Nat, word : STRING])
  BY SpellingsAssumption
<1> DEFINE R == [size : Nat, word : STRING]
<1>2. \A x \in R : x.size \in Nat /\ x.word \in STRING
  OBVIOUS
<1>3. \A i \in DOMAIN Spellings : i \in Nat /\ Spellings[i] \in R
  <2>1. Spellings \in Seq(R)
    BY <1>1
  <2> HIDE DEF R
  <2> QED BY <2>1
<1> QED BY <1>1, <1>2, <1>3

\* The slot of a phrase can be compared.
LEMMA ParseableIs ==
    ASSUME NEW p \in Parseable
    PROVE  /\ p.slot \in Slots /\ p.size \in Int /\ p.id \in Objects
           /\ p.slot \in Seq(DOMAIN Spellings)
<1>1. p.slot \in Seq(DOMAIN Spellings) /\ p.size \in Int /\ p.id \in Objects
  BY DEF Parseable
<1> DEFINE x == p.slot
<1>2. x \in Seq(DOMAIN Spellings)
  BY <1>1
<1>3. \A i \in DOMAIN Spellings : i \in Nat
  BY SpellingsAre
<1> HIDE DEF x
<1>4. x \in Seq(Nat)
  BY <1>2, <1>3
<1> QED BY <1>1, <1>4 DEF x, Slots

\* The order of phrases is one, by descending size first
\* (SystemParser.cc:79-85).
LEMMA PhraseOrder ==
    ASSUME NEW p \in Parseable, NEW q \in Parseable, NEW r \in Parseable
    PROVE  /\ ~LongestPhraseFirst(p, p)
           /\ LongestPhraseFirst(p, q) /\ LongestPhraseFirst(q, r) => LongestPhraseFirst(p, r)
           /\ \/ LongestPhraseFirst(p, q) \/ LongestPhraseFirst(q, p)
              \/ p.slot = q.slot /\ p.size = q.size
           /\ LongestPhraseFirst(p, q) => p.size >= q.size
<1>1. /\ p.slot \in Slots /\ q.slot \in Slots /\ r.slot \in Slots
      /\ p.size \in Int /\ q.size \in Int /\ r.size \in Int
  BY ParseableIs
<1>2. ~TextLess(p.slot, p.slot)
  BY <1>1, TextLessIrreflexive
<1>3. TextLess(r.slot, q.slot) /\ TextLess(q.slot, p.slot) => TextLess(r.slot, p.slot)
  BY <1>1, TextLessTransitive
<1>4. p.slot # q.slot => TextLess(p.slot, q.slot) \/ TextLess(q.slot, p.slot)
  BY <1>1, TextLessTotal
<1> QED BY <1>1, <1>2, <1>3, <1>4 DEF LongestPhraseFirst

\* Phrases it does not tell apart it does not tell from any third.
LEMMA PhraseOrderSame ==
    ASSUME NEW p \in Parseable, NEW q \in Parseable, NEW r \in Parseable,
           p.slot = q.slot, p.size = q.size
    PROVE  /\ LongestPhraseFirst(p, r) <=> LongestPhraseFirst(q, r)
           /\ LongestPhraseFirst(r, p) <=> LongestPhraseFirst(r, q)
BY DEF LongestPhraseFirst

(* What comes before what, and that it is an order.                        *)
Comes(list, i, j) == \/ LongestPhraseFirst(list[i], list[j])
                     \/ i < j /\ ~LongestPhraseFirst(list[j], list[i])
Sooner(list) == {x \in (DOMAIN list) \X (DOMAIN list) : Comes(list, x[1], x[2])}

\* Who comes sooner is a longer phrase, or no shorter one that was sent
\* before.
LEMMA SoonerIs ==
    ASSUME NEW list \in Seq(Parseable), NEW i \in 1..Len(list), NEW j \in 1..Len(list)
    PROVE  /\ <<i, j>> \in Sooner(list) <=> \/ LongestPhraseFirst(list[i], list[j])
                                            \/ i < j /\ ~LongestPhraseFirst(list[j], list[i])
           /\ list[i] \in Parseable /\ list[j] \in Parseable
<1>1. DOMAIN list = 1..Len(list) /\ list[i] \in Parseable /\ list[j] \in Parseable
  OBVIOUS
<1>2. <<i, j>> \in Sooner(list) <=> \/ LongestPhraseFirst(list[i], list[j])
                                    \/ i < j /\ ~LongestPhraseFirst(list[j], list[i])
  <2>1. <<i, j>> \in Sooner(list) <=> Comes(list, i, j)
    BY <1>1 DEF Sooner
  <2> QED BY <2>1 DEF Comes
<1> QED BY <1>1, <1>2


\* Sooner is an order of the places of a list.
LEMMA SoonerOrders ==
    ASSUME NEW list \in Seq(Parseable)
    PROVE  Ordered(Sooner(list), Len(list))
<1> DEFINE R == Sooner(list)
           n == Len(list)
<1>1. n \in Nat
  OBVIOUS
<1>2. ASSUME NEW i \in 1..n PROVE <<i, i>> \notin R
  <2>1. ~LongestPhraseFirst(list[i], list[i])
    BY SoonerIs, PhraseOrder
  <2>2. ~(i < i)
    BY <1>1
  <2> QED BY <2>1, <2>2, SoonerIs
<1>3. ASSUME NEW i \in 1..n, NEW j \in 1..n, i # j PROVE <<i, j>> \in R \/ <<j, i>> \in R
  <2>1. i < j \/ j < i
    BY <1>1, <1>3
  <2> QED BY <2>1, SoonerIs
<1>4. ASSUME NEW i \in 1..n, NEW j \in 1..n, NEW k \in 1..n, <<i, j>> \in R, <<j, k>> \in R
      PROVE  <<i, k>> \in R
  <2> DEFINE p == list[i]
             q == list[j]
             r == list[k]
  <2>1. p \in Parseable /\ q \in Parseable /\ r \in Parseable
    BY SoonerIs
  <2>2. LongestPhraseFirst(p, q) \/ (i < j /\ ~LongestPhraseFirst(q, p))
    BY <1>4, SoonerIs
  <2>3. LongestPhraseFirst(q, r) \/ (j < k /\ ~LongestPhraseFirst(r, q))
    BY <1>4, SoonerIs
  <2>4. <<i, k>> \in R <=> LongestPhraseFirst(p, r) \/ (i < k /\ ~LongestPhraseFirst(r, p))
    BY SoonerIs
  <2>5. i < j /\ j < k => i < k
    BY <1>1
  <2> HIDE DEF p, q, r
  <2>6. CASE LongestPhraseFirst(p, q)
    <3>1. LongestPhraseFirst(q, r) => LongestPhraseFirst(p, r)
      BY <2>1, <2>6, PhraseOrder
    <3>2. q.slot = r.slot /\ q.size = r.size => LongestPhraseFirst(p, r)
      BY <2>1, <2>6, PhraseOrderSame
    <3>3. LongestPhraseFirst(q, r) \/ LongestPhraseFirst(r, q) \/ (q.slot = r.slot /\ q.size = r.size)
      BY <2>1, PhraseOrder
    <3> QED BY <2>3, <2>4, <3>1, <3>2, <3>3
  <2>7. CASE ~LongestPhraseFirst(p, q)
    <3>1. p.slot = q.slot /\ p.size = q.size
      BY <2>1, <2>2, <2>7, PhraseOrder
    <3>2. /\ LongestPhraseFirst(p, r) <=> LongestPhraseFirst(q, r)
          /\ LongestPhraseFirst(r, p) <=> LongestPhraseFirst(r, q)
      BY <2>1, <3>1, PhraseOrderSame
    <3> QED BY <2>2, <2>3, <2>4, <2>5, <2>7, <3>2
  <2> QED BY <2>6, <2>7
<1> QED BY <1>1, <1>2, <1>3, <1>4 DEF Ordered

\* Who comes sooner is not to come after.
LEMMA SoonerFirst ==
    ASSUME NEW list \in Seq(Parseable), NEW i \in 1..Len(list), NEW j \in 1..Len(list),
           <<i, j>> \in Sooner(list)
    PROVE  ~LongestPhraseFirst(list[j], list[i])
<1> DEFINE p == list[i]
           q == list[j]
<1>1. p \in Parseable /\ q \in Parseable /\ (LongestPhraseFirst(p, q) \/ ~LongestPhraseFirst(q, p))
  BY SoonerIs
<1> HIDE DEF p, q
<1>2. ~(LongestPhraseFirst(p, q) /\ LongestPhraseFirst(q, p))
  BY <1>1, PhraseOrder
<1> QED BY <1>1, <1>2 DEF p, q

InOrder(list) == \A i, j \in 1..Len(list) : i < j => ~LongestPhraseFirst(list[j], list[i])

\* Sorted has the phrases of the list, as many and in their order
\* (SystemParser.cc:79-85, 108-109).
LEMMA SortedInOrder ==
    ASSUME NEW list \in Seq(Parseable)
    PROVE  /\ Sorted(list) \in Seq(Parseable) /\ Len(Sorted(list)) = Len(list)
           /\ \A m \in 1..Len(list) : Sorted(list)[m] \in ToSet(list)
           /\ InOrder(Sorted(list))
<1> DEFINE n == Len(list)
           R == Sooner(list)
           place == PlaceIn(R, n)
           at(m) == CHOOSE i \in 1..n : place[i] = m
<1>1. n \in Nat /\ DOMAIN list = 1..n
  OBVIOUS
<1>2. Sorted(list) = [m \in 1..n |-> list[at(m)]]
  <2> DEFINE before(i, j) == \/ LongestPhraseFirst(list[i], list[j])
                             \/ i < j /\ ~LongestPhraseFirst(list[j], list[i])
  <2>1. ASSUME NEW i \in 1..n PROVE Ahead(R, n, i) = {j \in 1..n : before(j, i)}
    BY SoonerIs DEF Ahead
  <2>2. place = [i \in 1..n |-> Cardinality({j \in 1..n : before(j, i)}) + 1]
    BY <2>1 DEF PlaceIn
  <2> HIDE DEF place
  <2> QED BY <1>1, <2>2 DEF Sorted
<1>3. Ordered(R, n)
  BY SoonerOrders
<1>4. /\ \A m \in 1..n : \E i \in 1..n : place[i] = m
      /\ \A i, j \in 1..n : place[i] < place[j] => <<i, j>> \in R
  BY <1>3, PlacesAreFilled
<1> HIDE DEF place
<1>5. \A m \in 1..n : at(m) \in 1..n /\ place[at(m)] = m
  BY <1>4
<1> HIDE DEF at
<1>6. \A m \in 1..n : list[at(m)] \in Parseable /\ list[at(m)] \in ToSet(list)
  BY <1>1, <1>5 DEF ToSet
<1> DEFINE s == [m \in 1..n |-> list[at(m)]]
<1>7. s \in Seq(Parseable) /\ Len(s) = n /\ \A m \in 1..n : s[m] \in ToSet(list)
  BY <1>1, <1>6
<1>8. ASSUME NEW i \in 1..n, NEW j \in 1..n, i < j PROVE ~LongestPhraseFirst(s[j], s[i])
  <2>1. s[i] = list[at(i)] /\ s[j] = list[at(j)]
    OBVIOUS
  <2> HIDE DEF s
  <2>2. place[at(i)] < place[at(j)]
    BY <1>1, <1>5, <1>8
  <2>3. <<at(i), at(j)>> \in R
    BY <1>4, <1>5, <2>2
  <2>4. ~LongestPhraseFirst(list[at(j)], list[at(i)])
    BY <1>5, <2>3, SoonerFirst
  <2> QED BY <2>1, <2>4
<1> HIDE DEF s
<1>9. InOrder(s)
  BY <1>7, <1>8 DEF InOrder
<1> QED BY <1>2, <1>7, <1>9 DEF s

SizesDescend(list) == \A i, j \in 1..Len(list) : i <= j => list[i].size >= list[j].size

\* So they come by descending size.
LEMMA InOrderDescends ==
    ASSUME NEW list \in Seq(Parseable), InOrder(list)
    PROVE  SizesDescend(list)
<1> SUFFICES ASSUME NEW i \in 1..Len(list), NEW j \in 1..Len(list), i <= j
             PROVE  list[i].size >= list[j].size
  BY DEF SizesDescend
<1> DEFINE p == list[i]
           q == list[j]
<1>1. p \in Parseable /\ q \in Parseable /\ i \in Int /\ j \in Int
  OBVIOUS
<1>2. i # j => ~LongestPhraseFirst(q, p)
  BY <1>1 DEF InOrder
<1>3. i = j => p = q
  OBVIOUS
<1> HIDE DEF p, q
<1>4. /\ p.size \in Int /\ q.size \in Int
      /\ \/ LongestPhraseFirst(p, q) \/ LongestPhraseFirst(q, p) \/ p.size = q.size
      /\ LongestPhraseFirst(p, q) => p.size >= q.size
  BY <1>1, PhraseOrder, ParseableIs
<1>5. p.size >= q.size
  BY <1>2, <1>3, <1>4
<1> QED BY <1>5 DEF p, q

----------------------------------------------------------------------------
(* The vocabulary.                                                         *)

\* Sequences of nothing and of one element.
LEMMA ShortType ==
    ASSUME NEW S, NEW w, w \in S
    PROVE  <<>> \in Seq(S) /\ <<w>> \in Seq(S)
OBVIOUS

\* A spelling is at most one word.
LEMMA WordType ==
    ASSUME NEW i \in DOMAIN Spellings
    PROVE  Word(i) \in Seq(STRING)
<1>1. Spellings[i].word \in STRING
  BY SpellingsAre
<1> DEFINE w == Spellings[i].word
<1>2. Word(i) = IF w = "" THEN <<>> ELSE <<w>>
  BY DEF Word
<1>3. w \in STRING
  BY <1>1
<1> HIDE DEF w
<1>4. <<>> \in Seq(STRING) /\ <<w>> \in Seq(STRING)
  BY <1>3, ShortType
<1> QED BY <1>2, <1>4

\* Words of a text are strings.
LEMMA WordsType ==
    ASSUME NEW slot \in Seq(DOMAIN Spellings)
    PROVE  Words(slot) \in Seq(STRING)
<1> DEFINE s == [i \in DOMAIN slot |-> Word(slot[i])]
<1>1. Len(slot) \in Nat /\ DOMAIN slot = 1..Len(slot) /\ \A i \in 1..Len(slot) : slot[i] \in DOMAIN Spellings
  OBVIOUS
<1>2. \A i \in 1..Len(slot) : Word(slot[i]) \in Seq(STRING)
  BY <1>1, WordType
<1>3. s \in Seq(Seq(STRING))
  BY <1>1, <1>2
<1> HIDE DEF s
<1>4. FlattenSeq(s) \in Seq(STRING)
  BY <1>3, FlattenType
<1> QED BY <1>4 DEF Words, s

(* What goes within a set step by step stays in it.                        *)
Within(h, n, S) ==
    \A s \in SUBSET (1..n) : IF s = {} THEN h[s] \in S ELSE h[s \ {Max(s)}] \in S => h[s] \in S

\* What begins in a set and is kept in it ends in it.
LEMMA StaysWithin ==
    ASSUME NEW h, NEW n \in Nat, NEW S, Within(h, n, S)
    PROVE  h[1..n] \in S
<1> DEFINE B == {k \in Nat : k <= n => h[1..k] \in S}
<1>1. 0 \in B
  <2>1. 1..0 = {} /\ 1..0 \in SUBSET (1..n)
    OBVIOUS
  <2> QED BY <2>1 DEF Within
<1>2. ASSUME NEW k \in B PROVE k + 1 \in B
  <2>0. k \in Nat /\ k + 1 \in Nat \ {0} /\ (k <= n => h[1..k] \in S)
    OBVIOUS
  <2> SUFFICES ASSUME k + 1 <= n PROVE h[1..k+1] \in S
    BY <2>0
  <2>1. k <= n /\ 1..k+1 \in SUBSET (1..n) /\ (k + 1) - 1 = k
    BY <2>0
  <2>2. Max(1..k+1) = k + 1 /\ (1..k+1) \ {k+1} = 1..(k+1)-1 /\ 1..k+1 # {}
    BY <2>0, MaxOfInterval
  <2> QED BY <2>0, <2>1, <2>2 DEF Within
<1> HIDE DEF B
<1>3. n \in B
  <2>1. B \in SUBSET Nat
    BY DEF B
  <2> QED BY <1>1, <1>2, <2>1, FromZeroUp
<1> QED BY <1>3 DEF B

\* The size of a text is a number.
LEMMA SizeType ==
    ASSUME NEW slot \in Seq(DOMAIN Spellings)
    PROVE  Size(slot) \in Int
<1> DEFINE n == Len(slot)
           b == n - 1
           by(k) == Spellings[slot[k]].size
           Goes(h) == h = [s \in SUBSET (1..n) |-> IF s = {} THEN b ELSE h[s \ {Max(s)}] + by(Max(s))]
           iter == CHOOSE h : Goes(h)
           step == [k \in 1..n |-> [x \in Int |-> x + by(k)]]
<1>1. n \in Nat /\ b \in Int /\ DOMAIN slot = 1..n
  OBVIOUS
<1>2. \A k \in 1..n : by(k) \in Int
  <2>1. \A k \in 1..n : slot[k] \in DOMAIN Spellings
    OBVIOUS
  <2> QED BY <2>1, SpellingsAre
<1>3. Size(slot) = iter[1..n]
  BY <1>1 DEF Size, FoldLeft, MapThenFoldSet
<1> HIDE DEF by
<1>4. step \in [1..n -> [Int -> Int]]
  BY <1>2
<1>5. \A k \in 1..n : \A x \in Int : step[k][x] = x + by(k)
  OBVIOUS
<1> HIDE DEF step, b, n
<1>6. PICK f : f \in Steps(n, Int, b, step)
  <2>1. Steps(n, Int, b, step) # {}
    BY <1>1, <1>4, StepsExist
  <2> QED BY <2>1
<1>7. Goes(f)
  <2>1. f \in [SUBSET (1..n) -> Int]
    BY <1>6 DEF Steps
  <2>2. ASSUME NEW s \in SUBSET (1..n)
        PROVE  f[s] = IF s = {} THEN b ELSE f[s \ {Max(s)}] + by(Max(s))
    <3>1. CASE s = {}
      BY <1>6, <3>1 DEF Steps
    <3>2. CASE s # {}
      <4>1. f[s] = step[Max(s)][f[s \ {Max(s)}]]
        BY <1>6, <3>2 DEF Steps
      <4>2. Max(s) \in 1..n /\ s \ {Max(s)} \in SUBSET (1..n)
        BY <1>1, <3>2, MaxIsOneOf
      <4>3. f[s \ {Max(s)}] \in Int
        BY <2>1, <4>2
      <4> QED BY <1>5, <3>2, <4>1, <4>2, <4>3
    <3> QED BY <3>1, <3>2
  <2> QED BY <2>1, <2>2
<1>8. Goes(iter)
  BY <1>7
<1> HIDE DEF iter
<1>9. Within(iter, n, Int)
  <2>1. ASSUME NEW s \in SUBSET (1..n)
        PROVE  IF s = {} THEN iter[s] \in Int ELSE iter[s \ {Max(s)}] \in Int => iter[s] \in Int
    <3>1. iter[s] = IF s = {} THEN b ELSE iter[s \ {Max(s)}] + by(Max(s))
      BY <1>8
    <3>2. s # {} => by(Max(s)) \in Int
      BY <1>1, <1>2, MaxIsOneOf
    <3> QED BY <1>1, <3>1, <3>2
  <2> QED BY <2>1 DEF Within
<1> QED BY <1>1, <1>3, <1>9, StaysWithin

\* A phrase is matched by its words, with its size, or by nothing.
LEMMA PhraseType ==
    ASSUME NEW p \in Parseable
    PROVE  /\ Phrase(p) \in Seq(Matches)
           /\ \A k \in 1..Len(Phrase(p)) : Phrase(p)[k].size = p.size /\ Phrase(p)[k].words = Words(p.slot)
<1>1. p.size \in Int /\ p.id \in Objects /\ Words(p.slot) \in Seq(STRING)
  BY ParseableIs, WordsType
<1> DEFINE m == [words |-> Words(p.slot), id |-> p.id, size |-> p.size]
<1>2. CASE Words(p.slot) = <<>>
  <2>1. Phrase(p) = <<>>
    BY <1>2 DEF Phrase
  <2> QED BY <2>1
<1>3. CASE Words(p.slot) # <<>>
  <2>1. Phrase(p) = <<m>>
    BY <1>3 DEF Phrase
  <2>2. m \in Matches /\ m.size = p.size /\ m.words = Words(p.slot)
    BY <1>1, <1>3 DEF Matches
  <2> HIDE DEF m
  <2> QED BY <2>1, <2>2
<1> QED BY <1>2, <1>3

(* Where each phrase of a list comes from.                                 *)
ComesFrom(list, x, r) ==
    r \in 1..Len(list) /\ x.size = list[r].size /\ x.words = Words(list[r].slot)

Follows(phrases, list, from) ==
    /\ \A q \in 1..Len(phrases) : ComesFrom(list, phrases[q], from[q])
    /\ \A q, r \in 1..Len(phrases) : q <= r => from[q] <= from[r]

\* The phrases of a list are in its order.
LEMMA PhrasesFollow ==
    ASSUME NEW list \in Seq(Parseable)
    PROVE  Phrases(list) \in Seq(Matches) /\ \E from : Follows(Phrases(list), list, from)
<1> DEFINE s == [i \in DOMAIN list |-> Phrase(list[i])]
<1>1. /\ DOMAIN list = 1..Len(list) /\ Len(list) \in Nat
      /\ \A i \in 1..Len(list) : list[i] \in Parseable
  OBVIOUS
<1>2. \A i \in 1..Len(list) :
         /\ Phrase(list[i]) \in Seq(Matches)
         /\ \A k \in 1..Len(Phrase(list[i])) :
               Phrase(list[i])[k].size = list[i].size /\ Phrase(list[i])[k].words = Words(list[i].slot)
  BY <1>1, PhraseType
<1>3. s \in Seq(Seq(Matches)) /\ Len(s) = Len(list)
  BY <1>1, <1>2
<1>4. \A i \in 1..Len(list) : \A k \in 1..Len(s[i]) : ComesFrom(list, s[i][k], i)
  BY <1>1, <1>2 DEF ComesFrom
<1>5. Phrases(list) = FlattenSeq(s)
  BY DEF Phrases
<1> HIDE DEF s
<1> DEFINE t == FlattenSeq(s)
<1>6. t \in Seq(Matches)
  BY <1>3, FlattenType
<1>7. PICK f : Joins(f, s, Matches) /\ t = f[Len(s)]
  BY <1>3, FlattenGoes
<1> DEFINE Covers(q, i) == i \in 1..Len(s) /\ \E k \in 1..Len(s[i]) : q = Len(f[i-1]) + k
           from == [q \in 1..Len(t) |-> CHOOSE i \in 1..Len(s) : Covers(q, i)]
<1>8. ASSUME NEW q \in 1..Len(t) PROVE Covers(q, from[q])
  <2>1. InPiece(f, s, q)
    BY <1>3, <1>7, InSomePiece
  <2>2. \E i \in 1..Len(s) : Covers(q, i)
    BY <2>1 DEF InPiece
  <2> HIDE DEF Covers
  <2> QED BY <2>2
<1> HIDE DEF t, from
<1>9. ASSUME NEW q \in 1..Len(t) PROVE ComesFrom(list, t[q], from[q])
  <2> DEFINE i == from[q]
  <2>1. Covers(q, i)
    BY <1>8
  <2> HIDE DEF i
  <2>2. i \in 1..Len(s)
    BY <2>1
  <2>3. PICK k \in 1..Len(s[i]) : q = Len(f[i-1]) + k
    BY <2>1
  <2>4. LiesAfter(f, s, i)
    BY <1>3, <1>7, <2>2, PieceOf
  <2>5. t[q] = s[i][k]
    BY <1>7, <2>3, <2>4 DEF LiesAfter, t
  <2>6. ComesFrom(list, t[q], i)
    BY <1>3, <1>4, <2>2, <2>5
  <2> QED BY <2>6 DEF i
<1>10. ASSUME NEW p \in 1..Len(t), NEW q \in 1..Len(t), p <= q PROVE from[p] <= from[q]
  <2> DEFINE i == from[p]
             j == from[q]
  <2>1. Covers(p, i) /\ Covers(q, j)
    BY <1>8
  <2> HIDE DEF i, j
  <2>2. i \in 1..Len(s) /\ j \in 1..Len(s)
    BY <2>1
  <2>3. PICK k \in 1..Len(s[i]) : p = Len(f[i-1]) + k
    BY <2>1
  <2>4. PICK l \in 1..Len(s[j]) : q = Len(f[j-1]) + l
    BY <2>1
  <2>5. LiesAfter(f, s, i) /\ LiesAfter(f, s, j)
    BY <1>3, <1>7, <2>2, PieceOf
  <2>6. i <= j
    <3>1. i \in Nat /\ j \in Nat /\ Len(s) \in Nat /\ i <= Len(s) /\ j <= Len(s) /\ i >= 1
      BY <1>1, <1>3, <2>2
    <3> SUFFICES ASSUME j <= i - 1 PROVE FALSE
      BY <3>1
    <3>2. i-1 \in 0..Len(s) /\ j \in 0..Len(s)
      BY <3>1
    <3>3. Begins(f[j], f[i-1])
      BY <1>3, <1>7, <3>2, JoinsGrow
    <3>4. Len(f[j]) <= Len(f[i-1])
      BY <3>3 DEF Begins
    <3>5. Len(f[j-1]) \in Nat /\ Len(s[j]) \in Nat /\ Len(f[j]) = Len(f[j-1]) + Len(s[j]) /\ Len(f[i-1]) \in Nat
      BY <2>5 DEF LiesAfter
    <3> DEFINE a == Len(f[j-1])
               b == Len(s[j])
               c == Len(f[i-1])
               d == Len(s[i])
    <3>6. a \in Nat /\ b \in Nat /\ c \in Nat /\ a + b <= c /\ l \in 1..b /\ q = a + l /\ p = c + k
      BY <2>3, <2>4, <3>4, <3>5
    <3>7. k \in Nat /\ k >= 1 /\ p <= q
      BY <1>10
    <3> HIDE DEF a, b, c
    <3> QED BY <3>6, <3>7
  <2> QED BY <2>6 DEF i, j
<1>11. Follows(t, list, from)
  BY <1>9, <1>10 DEF Follows
<1> QED BY <1>5, <1>6, <1>11 DEF t

\* The phrases of a list in order are by descending size.
LEMMA PhrasesDescend ==
    ASSUME NEW list \in Seq(Parseable), SizesDescend(list)
    PROVE  Descends(Phrases(list))
<1>1. PICK from : Follows(Phrases(list), list, from)
  BY PhrasesFollow
<1> DEFINE t == Phrases(list)
<1> HIDE DEF t
<1>2. ASSUME NEW p \in 1..Len(t), NEW q \in 1..Len(t), p <= q PROVE t[p].size >= t[q].size
  <2>1. ComesFrom(list, t[p], from[p]) /\ ComesFrom(list, t[q], from[q]) /\ from[p] <= from[q]
    BY <1>1, <1>2 DEF Follows, t
  <2> QED BY <2>1 DEF ComesFrom, SizesDescend
<1>3. Descends(t)
  BY <1>2 DEF Descends
<1> QED BY <1>3 DEF t

\* In such a list those of the same words stand together, where no other
\* spelling comes between (SystemParser.cc:157-170).
LEMMA PhrasesTogether ==
    ASSUME NEW list \in Seq(Parseable), InOrder(list), NEW names, StandTogether(names),
           \A i \in 1..Len(list) : list[i] \in names
    PROVE  Together(Phrases(list))
<1>1. PICK from : Follows(Phrases(list), list, from)
  BY PhrasesFollow
<1> DEFINE t == Phrases(list)
<1>2. t \in Seq(Matches)
  BY PhrasesFollow
<1> HIDE DEF t
<1>3. SUFFICES ASSUME NEW i \in 1..Len(t), NEW j \in 1..Len(t), NEW k \in 1..Len(t),
                      i <= j, j <= k, t[i].words = t[k].words
               PROVE  Len(t[j].words) = Len(t[i].words)
  BY DEF Together, t
<1> DEFINE a == list[from[i]]
           b == list[from[j]]
           c == list[from[k]]
<1>4. /\ ComesFrom(list, t[i], from[i]) /\ ComesFrom(list, t[j], from[j]) /\ ComesFrom(list, t[k], from[k])
      /\ from[i] <= from[j] /\ from[j] <= from[k]
  BY <1>1, <1>3 DEF Follows, t
<1>5. /\ from[i] \in 1..Len(list) /\ from[j] \in 1..Len(list) /\ from[k] \in 1..Len(list)
      /\ t[i].words = Words(a.slot) /\ t[j].words = Words(b.slot) /\ t[k].words = Words(c.slot)
  BY <1>4 DEF ComesFrom
<1>6. a \in Parseable /\ b \in Parseable /\ c \in Parseable /\ a \in names /\ b \in names /\ c \in names
  BY <1>5
<1>7. /\ from[i] = from[j] \/ ~LongestPhraseFirst(b, a)
      /\ from[j] = from[k] \/ ~LongestPhraseFirst(c, b)
  <2>1. \A p, q \in 1..Len(list) : p <= q => p = q \/ p < q
    OBVIOUS
  <2> QED BY <1>4, <1>5, <2>1 DEF InOrder
<1>8. from[i] = from[j] => a = b
  OBVIOUS
<1>9. from[j] = from[k] => b = c
  OBVIOUS
<1>10. Words(b.slot) # <<>> /\ Words(b.slot) \in Seq(STRING) /\ Words(a.slot) \in Seq(STRING)
  <2>1. t[j] \in Matches /\ t[i] \in Matches
    BY <1>2
  <2> QED BY <1>5, <2>1 DEF Matches
<1> HIDE DEF a, b, c
<1>11. LongestPhraseFirst(a, b) \/ a.slot = b.slot
  BY <1>6, <1>7, <1>8, PhraseOrder
<1>12. LongestPhraseFirst(b, c) \/ b.slot = c.slot
  BY <1>6, <1>7, <1>9, PhraseOrder
<1>13. Words(a.slot) = Words(c.slot)
  BY <1>3, <1>5
<1>14. Len(Words(b.slot)) = Len(Words(a.slot))
  <2>1. CASE LongestPhraseFirst(a, b) /\ LongestPhraseFirst(b, c)
    <3>1. Len(Words(b.slot)) \in {0, Len(Words(a.slot))}
      BY <1>6, <1>13, <2>1 DEF StandTogether
    <3>2. Len(Words(b.slot)) # 0
      BY <1>10
    <3> QED BY <3>1, <3>2
  <2> QED BY <1>11, <1>12, <1>13, <2>1
<1> QED BY <1>5, <1>14

----------------------------------------------------------------------------
(* The parser.                                                             *)

Hearings ==
    [first : {"verb", "noun"}, words : Seq(STRING), items : Seq(Item), near : SUBSET Objects,
     verbs : SUBSET Matches, nouns : SUBSET Matches, whole : BOOLEAN, together : BOOLEAN]

NearestIn(h) == h.whole /\ h.together => NamesakeIsChosen(h)
GoodHearings == {h \in Hearings : KeepsWords(h) /\ LongestIn(h) /\ NearestIn(h)}

ParserType ==
    [mode : {"verbs", "nouns"}, proximate : SUBSET Objects,
     verbs : Seq(Parseable), nouns : Seq(Parseable),
     verbMatches : Seq(Matches), nounMatches : Seq(Matches),
     normalized : Seq(STRING), parsed : Seq(Item), closings : Nat, together : BOOLEAN,
     heard : Seq(GoodHearings)]

(* A list that was closed once is as it was sorted then.                   *)
Lists(p) ==
    /\ p.closings = 0 => p.verbMatches = <<>> /\ p.nounMatches = <<>>
    /\ p.closings = 1 => Descends(p.verbMatches) /\ Descends(p.nounMatches)
    /\ p.closings = 1 /\ p.together => Together(p.nounMatches)

Parsers == {p \in ParserType : Lists(p)}

\* The fields of a parser.
LEMMA ParserIs ==
    ASSUME NEW p \in Parsers
    PROVE  /\ p \in ParserType /\ Lists(p) /\ p.mode \in {"verbs", "nouns"} /\ p.proximate \in SUBSET Objects
           /\ p.verbs \in Seq(Parseable) /\ p.nouns \in Seq(Parseable)
           /\ p.verbMatches \in Seq(Matches) /\ p.nounMatches \in Seq(Matches)
           /\ p.normalized \in Seq(STRING) /\ p.parsed \in Seq(Item) /\ p.closings \in Nat
           /\ p.together \in BOOLEAN /\ p.heard \in Seq(GoodHearings)
BY DEF Parsers, ParserType

\* A new parser is one.
LEMMA NewParserIs == NewParser \in Parsers
<1>1. /\ <<>> \in Seq(Parseable) /\ <<>> \in Seq(Matches) /\ <<>> \in Seq(STRING)
      /\ <<>> \in Seq(Item) /\ <<>> \in Seq(GoodHearings)
  OBVIOUS
<1>2. NewParser \in ParserType
  BY <1>1 DEF NewParser, ParserType
<1>3. Lists(NewParser)
  BY DEF Lists, NewParser
<1> QED BY <1>2, <1>3 DEF Parsers

\* A parser whose fields are replaced by others of their kind is one.
LEMMA ParserFields ==
    ASSUME NEW p \in Parsers
    PROVE  /\ \A v \in {"verbs", "nouns"} : [p EXCEPT !.mode = v] \in Parsers
           /\ \A v \in SUBSET Objects : [p EXCEPT !.proximate = v] \in Parsers
           /\ \A v \in Seq(Parseable) : [p EXCEPT !.verbs = v] \in Parsers /\ [p EXCEPT !.nouns = v] \in Parsers
           /\ \A v \in Seq(Item) : [p EXCEPT !.parsed = v] \in Parsers
           /\ \A v \in Seq(GoodHearings) : [p EXCEPT !.heard = v] \in Parsers
           /\ \A u \in Seq(STRING) : \A v \in Seq(Item) : \A h \in Seq(GoodHearings) :
                [p EXCEPT !.normalized = u, !.parsed = v, !.heard = h] \in Parsers
<1>1. p \in ParserType /\ Lists(p)
  BY ParserIs
<1>2. ASSUME NEW v \in {"verbs", "nouns"} PROVE [p EXCEPT !.mode = v] \in Parsers
  BY <1>1 DEF Parsers, ParserType, Lists
<1>3. ASSUME NEW v \in SUBSET Objects PROVE [p EXCEPT !.proximate = v] \in Parsers
  BY <1>1 DEF Parsers, ParserType, Lists
<1>4. ASSUME NEW v \in Seq(Parseable) PROVE [p EXCEPT !.verbs = v] \in Parsers /\ [p EXCEPT !.nouns = v] \in Parsers
  BY <1>1 DEF Parsers, ParserType, Lists
<1>5. ASSUME NEW v \in Seq(Item) PROVE [p EXCEPT !.parsed = v] \in Parsers
  BY <1>1 DEF Parsers, ParserType, Lists
<1>6. ASSUME NEW v \in Seq(GoodHearings) PROVE [p EXCEPT !.heard = v] \in Parsers
  BY <1>1 DEF Parsers, ParserType, Lists
<1>7. ASSUME NEW u \in Seq(STRING), NEW v \in Seq(Item), NEW h \in Seq(GoodHearings)
      PROVE  [p EXCEPT !.normalized = u, !.parsed = v, !.heard = h] \in Parsers
  BY <1>1 DEF Parsers, ParserType, Lists
<1> QED BY <1>2, <1>3, <1>4, <1>5, <1>6, <1>7

\* addParseable keeps a parser one (SystemParser.cc:63-77).
LEMMA AddParseableKeeps ==
    ASSUME NEW p \in Parsers, NEW sender \in Objects, NEW text \in Seq(Seq(DOMAIN Spellings))
    PROVE  AddParseable(p, sender, text) \in Parsers
<1> DEFINE new == [i \in DOMAIN text |-> [slot |-> text[i], size |-> Size(text[i]), id |-> sender]]
<1>1. new \in Seq(Parseable)
  <2>1. Len(text) \in Nat /\ DOMAIN text = 1..Len(text)
    OBVIOUS
  <2>2. ASSUME NEW i \in 1..Len(text)
        PROVE  [slot |-> text[i], size |-> Size(text[i]), id |-> sender] \in Parseable
    <3>1. text[i] \in Seq(DOMAIN Spellings)
      OBVIOUS
    <3>2. Size(text[i]) \in Int
      BY <3>1, SizeType
    <3> QED BY <3>1, <3>2 DEF Parseable
  <2> QED BY <2>1, <2>2
<1> HIDE DEF new
<1>2. AddParseable(p, sender, text) = [p EXCEPT ![p.mode] = @ \o new]
  BY DEF AddParseable, new
<1>3. p.mode \in {"verbs", "nouns"} /\ p.verbs \o new \in Seq(Parseable) /\ p.nouns \o new \in Seq(Parseable)
  BY <1>1, ParserIs
<1>4. CASE p.mode = "verbs"
  <2>1. AddParseable(p, sender, text) = [p EXCEPT !.verbs = p.verbs \o new]
    BY <1>2, <1>4
  <2> QED BY <1>3, <2>1, ParserFields
<1>5. CASE p.mode = "nouns"
  <2>1. AddParseable(p, sender, text) = [p EXCEPT !.nouns = p.nouns \o new]
    BY <1>2, <1>5
  <2> QED BY <1>3, <2>1, ParserFields
<1> QED BY <1>3, <1>4, <1>5

\* Nothing before a sequence.
LEMMA EmptyBefore ==
    ASSUME NEW S, NEW a, NEW s \in Seq(S), a = <<>>
    PROVE  a \o s = s
BY ConcatEmptySeq

\* close sorts and adds phrases, and the first time leaves them by descending
\* size, and names together that are sorted together
\* (SystemParser.cc:102-115).
LEMMA CloseKeeps ==
    ASSUME NEW p \in Parsers
    PROVE  Close(p) \in Parsers
<1> DEFINE verbs == Sorted(p.verbs)
           nouns == Sorted(p.nouns)
           v == p.verbMatches \o Phrases(verbs)
           n == p.nounMatches \o Phrases(nouns)
           names == ToSet(p.nouns)
           together == StandTogether(names)
<1>0. together \in BOOLEAN
  BY DEF StandTogether
<1>1. /\ verbs \in Seq(Parseable) /\ InOrder(verbs) /\ SizesDescend(verbs)
      /\ nouns \in Seq(Parseable) /\ InOrder(nouns) /\ SizesDescend(nouns)
      /\ \A m \in 1..Len(nouns) : nouns[m] \in names
  <2>1. p.verbs \in Seq(Parseable) /\ p.nouns \in Seq(Parseable)
    BY ParserIs
  <2>2. /\ verbs \in Seq(Parseable) /\ InOrder(verbs)
        /\ nouns \in Seq(Parseable) /\ InOrder(nouns)
        /\ Len(nouns) = Len(p.nouns) /\ \A m \in 1..Len(p.nouns) : nouns[m] \in names
    BY <2>1, SortedInOrder
  <2> HIDE DEF verbs, nouns, names
  <2> QED BY <2>2, InOrderDescends
<1>2. Close(p) = [p EXCEPT !.verbs = verbs, !.verbMatches = v, !.nouns = nouns, !.nounMatches = n,
                           !.closings = p.closings + 1, !.together = together]
  BY DEF Close
<1> HIDE DEF verbs, nouns, names, together
<1>3. /\ Phrases(verbs) \in Seq(Matches) /\ Descends(Phrases(verbs))
      /\ Phrases(nouns) \in Seq(Matches) /\ Descends(Phrases(nouns))
      /\ together => Together(Phrases(nouns))
  BY <1>1, PhrasesFollow, PhrasesDescend, PhrasesTogether DEF together
<1>4. v \in Seq(Matches) /\ n \in Seq(Matches)
  BY <1>3, ParserIs
<1>5. p.closings \in Nat /\ (p.closings + 1 = 1 => p.closings = 0) /\ p.closings + 1 # 0
      /\ p.closings + 1 \in Nat
  BY ParserIs
<1>6. p.closings = 0 => v = Phrases(verbs) /\ n = Phrases(nouns)
  BY <1>3, ParserIs, EmptyBefore DEF Lists
<1> HIDE DEF v, n
<1>7. p \in ParserType
  BY ParserIs
<1>8. Close(p) \in ParserType
  BY <1>1, <1>2, <1>4, <1>5, <1>7, <1>0 DEF ParserType
<1>9. /\ Close(p).closings = p.closings + 1 /\ Close(p).verbMatches = v /\ Close(p).nounMatches = n
      /\ Close(p).together = together
  BY <1>2, <1>7 DEF ParserType
<1>10. Lists(Close(p))
  BY <1>3, <1>5, <1>6, <1>9 DEF Lists
<1> QED BY <1>8, <1>10 DEF Parsers

Texts == Seq(Seq(DOMAIN Spellings))

\* What is left without the articles is words.
LEMMA SignificantType ==
    ASSUME NEW words \in Seq(STRING)
    PROVE  Significant(words) \in Seq(STRING)
<1> DEFINE s == [i \in DOMAIN words |-> IF words[i] \in Fillers THEN <<>> ELSE <<words[i]>>]
<1>1. Len(words) \in Nat /\ DOMAIN words = 1..Len(words) /\ \A i \in 1..Len(words) : words[i] \in STRING
  OBVIOUS
<1>2. \A i \in 1..Len(words) : <<>> \in Seq(STRING) /\ <<words[i]>> \in Seq(STRING)
  BY <1>1, ShortType
<1>3. s \in Seq(Seq(STRING))
  <2> DEFINE n == Len(words)
             T == Seq(STRING)
             piece(i) == IF words[i] \in Fillers THEN <<>> ELSE <<words[i]>>
  <2>1. n \in Nat /\ s = [i \in 1..n |-> piece(i)] /\ \A i \in 1..n : piece(i) \in T
    BY <1>1, <1>2
  <2> HIDE DEF n, T, piece, s
  <2>2. s \in Seq(T)
    BY <2>1
  <2> QED BY <2>2 DEF T
<1> HIDE DEF s
<1>4. FlattenSeq(s) \in Seq(STRING)
  BY <1>3, FlattenType
<1> QED BY <1>4 DEF Significant, s

\* A command starts as its words without the articles.
LEMMA ItemsAre ==
    ASSUME NEW words \in Seq(STRING)
    PROVE  Items(words) = WordsAsItems(Significant(words))
<1> DEFINE s == Significant(words)
<1>1. Items(words) = [i \in DOMAIN s |-> [word |-> s[i]]]
  BY DEF Items
<1>2. s \in Seq(STRING)
  BY SignificantType
<1> HIDE DEF s
<1>3. DOMAIN s = 1..Len(s)
  BY <1>2
<1> QED BY <1>1, <1>3 DEF WordsAsItems, s

\* What the player types is words.
LEMMA TypedWords ==
    ASSUME NEW text \in Texts
    PROVE  Words(FlattenSeq(text)) \in Seq(STRING)
<1>1. FlattenSeq(text) \in Seq(DOMAIN Spellings)
  BY FlattenType DEF Texts
<1> QED BY <1>1, WordsType

\* Every phrase tried is tried under the name of its own object or of a
\* namesake.
LEMMA NounsName ==
    ASSUME NEW p \in Parsers
    PROVE  Naming(p.nounMatches, NounIds(p)) /\ Naming(p.verbMatches, VerbIds(p))
<1>1. p.nounMatches \in Seq(Matches) /\ p.verbMatches \in Seq(Matches)
  BY ParserIs
<1>2. /\ \A k \in 1..Len(p.nounMatches) : NounIds(p)[k] = Nearest(p, k)
      /\ \A k \in 1..Len(p.verbMatches) : VerbIds(p)[k] = p.verbMatches[k].id
  BY <1>1 DEF NounIds, VerbIds
<1>3. Naming(p.nounMatches, NounIds(p))
  BY <1>1, <1>2, NearestNames DEF Naming
<1>4. Naming(p.verbMatches, VerbIds(p))
  BY <1>2 DEF Naming, NamesOne
<1> QED BY <1>3, <1>4

(* What is known of a hearing before it is known to be good.               *)
LEMMA HearingIs ==
    ASSUME NEW p \in Parsers, NEW first \in {"verb", "noun"}, NEW words \in Seq(STRING), NEW items \in Seq(Item),
           NEW h, h = Hearing(p, first, words, items)
    PROVE  /\ h \in Hearings /\ h.first = first /\ h.words = Significant(words) /\ h.items = items
           /\ Known(h, "verb") = ToSet(p.verbMatches) /\ Known(h, "noun") = ToSet(p.nounMatches)
           /\ h.nouns = ToSet(p.nounMatches) /\ h.near = p.proximate
           /\ h.whole => Descends(p.verbMatches) /\ Descends(p.nounMatches)
           /\ h.whole /\ h.together => Together(p.nounMatches)
<1>1. /\ p.verbMatches \in Seq(Matches) /\ p.nounMatches \in Seq(Matches)
      /\ p.proximate \in SUBSET Objects /\ p.together \in BOOLEAN /\ Lists(p)
  BY ParserIs
<1>2. ToSet(p.verbMatches) \in SUBSET Matches /\ ToSet(p.nounMatches) \in SUBSET Matches
  <2>1. \A s \in Seq(Matches) : ToSet(s) \in SUBSET Matches
    BY DEF ToSet
  <2> QED BY <1>1, <2>1
<1>3. Significant(words) \in Seq(STRING)
  BY SignificantType
<1> DEFINE s == Significant(words)
           a == ToSet(p.verbMatches)
           b == ToSet(p.nounMatches)
<1>4. h = [first |-> first, words |-> s, items |-> items, near |-> p.proximate,
           verbs |-> a, nouns |-> b, whole |-> p.closings = 1, together |-> p.together]
  BY DEF Hearing
<1>5. s \in Seq(STRING) /\ a \in SUBSET Matches /\ b \in SUBSET Matches
  BY <1>2, <1>3
<1> HIDE DEF s, a, b
<1>6. h \in Hearings
  BY <1>1, <1>4, <1>5 DEF Hearings
<1>7. /\ h.first = first /\ h.words = s /\ h.items = items /\ Known(h, "verb") = a /\ Known(h, "noun") = b
      /\ h.nouns = b /\ h.near = p.proximate /\ h.together = p.together
  BY <1>4 DEF Known
<1>8. h.whole => p.closings = 1
  <2> DEFINE c == p.closings = 1
  <2>1. h = [first |-> first, words |-> s, items |-> items, near |-> p.proximate,
             verbs |-> a, nouns |-> b, whole |-> c, together |-> p.together]
    BY <1>4
  <2> HIDE DEF c
  <2>2. h.whole = c
    BY <2>1
  <2> QED BY <2>2 DEF c
<1> QED BY <1>1, <1>6, <1>7, <1>8 DEF s, a, b, Lists

\* Words are no nouns, and the verbs bring none.
LEMMA WordsAreNoNouns ==
    ASSUME NEW w \in Seq(STRING)
    PROVE  NoNouns(WordsAsItems(w))
<1> DEFINE x == WordsAsItems(w)
<1>1. ASSUME NEW b \in 1..Len(x) PROVE ~Matched(x[b], "noun")
  <2>1. x[b] \in WordItem
    BY OnlyWords
  <2> HIDE DEF x
  <2>2. "object" \notin DOMAIN x[b]
    BY <2>1, WordItemIs
  <2> QED BY <2>2 DEF Matched
<1> QED BY <1>1 DEF NoNouns

\* The nouns after a pass with the verbs are those before it.
LEMMA VerbsBringNoNouns ==
    ASSUME NEW x \in Seq(Item), NEW z, NEW list, NEW ids, Passed(z, list, ids, "verb", x)
    PROVE  NounsIn(x, z) /\ (NoNouns(x) => NoNouns(z))
<1>1. PassType(list, ids, "verb", x) /\ Kept(x, z) /\ Come(z, x, list, ids, "verb", Len(list))
  BY DEF Passed
<1>2. ASSUME NEW a \in 1..Len(z), Matched(z[a], "noun") PROVE \E b \in 1..Len(x) : z[a] = x[b]
  <2>1. ASSUME NEW h \in 1..Len(list), z[a] = Stand(ids[h], list[h], "verb") PROVE FALSE
    <3>1. Stand(ids[h], list[h], "verb").kind = "verb"
      BY DEF Stand
    <3> QED BY <1>2, <2>1, <3>1 DEF Matched
  <2> QED BY <1>1, <2>1 DEF Come
<1>3. \A b \in 1..Len(x) : x[b] \in ObjectItem => \E a \in 1..Len(z) : z[a] = x[b]
  BY <1>1 DEF Kept
<1> QED BY <1>2, <1>3 DEF NounsIn, NoNouns

\* A command is heard with every word, the longest phrases first and the near
\* namesake (SystemParser.cc:178-203).
LEMMA ParseHears ==
    ASSUME NEW p \in Parsers, NEW words \in Seq(STRING), NEW items,
           items = MatchNouns(p, MatchVerbs(p, Items(words)))
    PROVE  items \in Seq(Item) /\ Hearing(p, "verb", words, items) \in GoodHearings
<1> DEFINE w == Significant(words)
           x == WordsAsItems(w)
           y == MatchVerbs(p, x)
           h == Hearing(p, "verb", words, items)
           one == p.verbMatches
           two == p.nounMatches
<1>1. w \in Seq(STRING) /\ x \in Seq(Item) /\ Items(words) = x
  BY SignificantType, PlainReads, ItemsAre
<1>2. one \in Seq(Matches) /\ two \in Seq(Matches)
  BY ParserIs
<1>3. Passed(y, one, VerbIds(p), "verb", x)
  BY <1>1, <1>2, VerbsPass, PassesPass
<1>4. y \in Seq(Item)
  BY <1>3 DEF Passed, Kept
<1>5. Passed(items, two, NounIds(p), "noun", y) /\ Placed(items, y, two, NounIds(p), "noun")
  BY <1>1, <1>2, <1>4, NounsPass, PassesPass, PassesPlace
<1>6. items \in Seq(Item)
  BY <1>5 DEF Passed, Kept
<1>7. TwoPasses(w, y, items, one, VerbIds(p), "verb", two, NounIds(p), "noun")
  BY <1>1, <1>3, <1>5 DEF TwoPasses
<1>8. /\ h \in Hearings /\ h.first = "verb" /\ h.words = w /\ h.items = items
      /\ Known(h, "verb") = ToSet(one) /\ Known(h, "noun") = ToSet(two)
      /\ h.nouns = ToSet(two) /\ h.near = p.proximate
      /\ h.whole => Descends(one) /\ Descends(two)
      /\ h.whole /\ h.together => Together(two)
  BY <1>6, HearingIs
<1>9. Naming(one, VerbIds(p)) /\ Naming(two, NounIds(p))
  BY NounsName
<1> HIDE DEF w, x, y, h, one, two
<1>10. Heeds(h, y, one, VerbIds(p), "verb", two, NounIds(p), "noun")
  BY <1>7, <1>8, <1>9 DEF Heeds
<1>11. KeepsWords(h) /\ LongestIn(h)
  BY <1>10, HeededKeeps, HeededWins
<1>12. NoNouns(y)
  <2>1. x \in Seq(Item) /\ NoNouns(x)
    BY <1>1, WordsAreNoNouns DEF x
  <2> QED BY <1>3, <2>1, VerbsBringNoNouns
<1>13. NounsIn(items, items)
  BY DEF NounsIn
<1>14. Near(h, p, y, items)
  BY <1>2, <1>3, <1>4, <1>5, <1>6, <1>8, <1>12, <1>13 DEF Near, Passed, two
<1>15. NearestIn(h)
  BY <1>8, <1>14, NearIsChosen DEF NearestIn, two
<1> QED BY <1>6, <1>8, <1>11, <1>15 DEF GoodHearings, h

\* So is the answer to which object was meant, the nouns first
\* (SystemParser.cc:227-240).
LEMMA AskHears ==
    ASSUME NEW p \in Parsers, NEW words \in Seq(STRING), NEW items,
           items = MatchVerbs(p, MatchNouns(p, Items(words)))
    PROVE  items \in Seq(Item) /\ Hearing(p, "noun", words, items) \in GoodHearings
<1> DEFINE w == Significant(words)
           x == WordsAsItems(w)
           y == MatchNouns(p, x)
           h == Hearing(p, "noun", words, items)
           one == p.nounMatches
           two == p.verbMatches
<1>1. w \in Seq(STRING) /\ x \in Seq(Item) /\ Items(words) = x
  BY SignificantType, PlainReads, ItemsAre
<1>2. one \in Seq(Matches) /\ two \in Seq(Matches)
  BY ParserIs
<1>3. Passed(y, one, NounIds(p), "noun", x) /\ Placed(y, x, one, NounIds(p), "noun")
  BY <1>1, <1>2, NounsPass, PassesPass, PassesPlace
<1>4. y \in Seq(Item)
  BY <1>3 DEF Passed, Kept
<1>5. Passed(items, two, VerbIds(p), "verb", y)
  BY <1>1, <1>2, <1>4, VerbsPass, PassesPass
<1>6. items \in Seq(Item)
  BY <1>5 DEF Passed, Kept
<1>7. TwoPasses(w, y, items, one, NounIds(p), "noun", two, VerbIds(p), "verb")
  BY <1>1, <1>3, <1>5 DEF TwoPasses
<1>8. /\ h \in Hearings /\ h.first = "noun" /\ h.words = w /\ h.items = items
      /\ Known(h, "noun") = ToSet(one) /\ Known(h, "verb") = ToSet(two)
      /\ h.nouns = ToSet(one) /\ h.near = p.proximate
      /\ h.whole => Descends(one) /\ Descends(two)
      /\ h.whole /\ h.together => Together(one)
  BY <1>6, HearingIs
<1>9. Naming(one, NounIds(p)) /\ Naming(two, VerbIds(p))
  BY NounsName
<1> HIDE DEF w, x, y, h, one, two
<1>10. Heeds(h, y, one, NounIds(p), "noun", two, VerbIds(p), "verb")
  BY <1>7, <1>8, <1>9 DEF Heeds
<1>11. KeepsWords(h) /\ LongestIn(h)
  BY <1>10, HeededKeeps, HeededWins
<1>12. NoNouns(x)
  BY <1>1, WordsAreNoNouns DEF x
<1>13. NounsIn(y, items)
  BY <1>4, <1>5, <1>6, VerbsBringNoNouns
<1>14. Near(h, p, x, y)
  BY <1>2, <1>3, <1>4, <1>5, <1>6, <1>8, <1>12, <1>13 DEF Near, Passed, one
<1>15. NearestIn(h)
  BY <1>8, <1>14, NearIsChosen DEF NearestIn, one
<1> QED BY <1>6, <1>8, <1>11, <1>15 DEF GoodHearings, h

\* parse keeps a parser one.
LEMMA ParseKeeps ==
    ASSUME NEW p \in Parsers, NEW text \in Texts
    PROVE  Parse(p, text) \in Parsers
<1> DEFINE words == Words(FlattenSeq(text))
           items == MatchNouns(p, MatchVerbs(p, Items(words)))
           h == Hearing(p, "verb", words, items)
<1>1. words \in Seq(STRING)
  BY TypedWords
<1>2. items \in Seq(Item) /\ h \in GoodHearings
  BY <1>1, ParseHears
<1>3. Parse(p, text) = [p EXCEPT !.normalized = words, !.parsed = items, !.heard = <<h>>]
  BY DEF Parse
<1> HIDE DEF words, items, h
<1>4. <<h>> \in Seq(GoodHearings)
  BY <1>2, ShortType
<1> DEFINE g == <<h>>
<1>5. g \in Seq(GoodHearings)
  BY <1>4
<1> HIDE DEF g
<1>6. [p EXCEPT !.normalized = words, !.parsed = items, !.heard = g] \in Parsers
  BY <1>1, <1>2, <1>5, ParserFields
<1> QED BY <1>3, <1>6 DEF g

\* Asking keeps it one.
LEMMA AskedKeeps ==
    ASSUME NEW p \in Parsers, NEW text \in Texts, NEW a, a = Asked(p, text)
    PROVE  [p EXCEPT !.heard = <<Hearing(p, "noun", a.words, a.items)>>] \in Parsers
<1> DEFINE words == Words(FlattenSeq(text))
           items == MatchVerbs(p, MatchNouns(p, Items(words)))
           h == Hearing(p, "noun", words, items)
<1>1. words \in Seq(STRING)
  BY TypedWords
<1>2. h \in GoodHearings
  BY <1>1, AskHears
<1>3. a.words = words /\ a.items = items
  BY DEF Asked
<1> HIDE DEF h
<1>4. <<h>> \in Seq(GoodHearings)
  BY <1>2, ShortType
<1>5. [p EXCEPT !.heard = <<h>>] \in Parsers
  BY <1>4, ParserFields
<1> QED BY <1>3, <1>5 DEF h

----------------------------------------------------------------------------
(* The system object.                                                      *)

Listening == {"IDLING", "OPEN SORTER", "OPEN PARSER", "PLAYER CMD", "WHICH OBJECT",
              "SAVE STATE", "LOAD STATE", "BANNER"}

IsSystem(s) ==
    /\ s = [state |-> s.state, sorter |-> s.sorter, parser |-> s.parser]
    /\ s.state \in Listening /\ s.parser \in Parsers

IsFile(f) == f = <<>> \/ (IsSystem(f[1]) /\ f = <<f[1]>>)

IsWorld(w) ==
    /\ w = [me |-> w.me, fresh |-> w.fresh, file |-> w.file, debug |-> w.debug, reply |-> w.reply]
    /\ IsSystem(w.me) /\ IsFile(w.fresh) /\ IsFile(w.file)

\* A system object from its parts.
LEMMA SystemMade ==
    ASSUME NEW state \in Listening, NEW sorter, NEW parser \in Parsers, NEW s,
           s = [state |-> state, sorter |-> sorter, parser |-> parser]
    PROVE  IsSystem(s)
BY DEF IsSystem

\* A world from its parts.
LEMMA WorldMade ==
    ASSUME NEW me, NEW fresh, NEW saved, NEW flags, NEW answer, IsSystem(me), IsFile(fresh), IsFile(saved),
           NEW w, w = [me |-> me, fresh |-> fresh, file |-> saved, debug |-> flags, reply |-> answer]
    PROVE  IsWorld(w)
BY DEF IsWorld

\* A file from a system object.
LEMMA FileMade ==
    ASSUME NEW s, IsSystem(s) PROVE IsFile(<<s>>)
BY DEF IsFile

\* A new system object listens.
LEMMA NewSystemIs == IsSystem(NewSystem)
BY NewParserIs, SystemMade DEF NewSystem, Listening

\* The system object of the universe is one, also after a load.
LEMMA UniverseIs ==
    ASSUME NEW w, IsWorld(w) PROVE IsSystem(Universe(w))
BY DEF IsWorld, Universe, IsFile

(* Who enters a state, replies, changes the parser or the sorter.          *)
MeBecomes(w, v, me) ==
    v = [me |-> me, fresh |-> w.fresh, file |-> w.file, debug |-> v.debug, reply |-> v.reply]

\* A world in which a system object replaces the one that listened.
LEMMA MeBecame ==
    ASSUME NEW w, IsWorld(w), NEW me, IsSystem(me), NEW v, MeBecomes(w, v, me)
    PROVE  IsWorld(v) /\ v.me = me
BY DEF MeBecomes, IsWorld

WithState(s, state) == [state |-> state, sorter |-> s.sorter, parser |-> s.parser]
WithSorter(s, sorter) == [state |-> s.state, sorter |-> sorter, parser |-> s.parser]
WithParser(s, parser) == [state |-> s.state, sorter |-> s.sorter, parser |-> parser]

\* A system object with another state, sorter or parser.
LEMMA SystemWith ==
    ASSUME NEW s, IsSystem(s)
    PROVE  /\ \A state \in Listening : IsSystem(WithState(s, state)) /\ WithState(s, state).parser = s.parser
           /\ \A sorter : IsSystem(WithSorter(s, sorter))
           /\ \A parser \in Parsers : IsSystem(WithParser(s, parser))
BY DEF IsSystem, WithState, WithSorter, WithParser

\* Who enters a state in which it listens keeps its parser.
LEMMA EntersKeeps ==
    ASSUME NEW w, IsWorld(w), NEW state \in Listening
    PROVE  IsWorld(Enters(w, state)) /\ Enters(w, state).me.parser = w.me.parser
<1>1. MeBecomes(w, Enters(w, state), WithState(w.me, state))
  <2> DEFINE me == [w.me EXCEPT !.state = state]
             u == Enters(w, state)
  <2>1. me = WithState(w.me, state)
    BY DEF IsWorld, IsSystem, WithState
  <2>2. u = [w EXCEPT !.me = me, !.reply = u.reply]
    BY DEF IsWorld, Enters
  <2> HIDE DEF me, u
  <2>3. u = [me |-> me, fresh |-> w.fresh, file |-> w.file, debug |-> u.debug, reply |-> u.reply]
    BY <2>2 DEF IsWorld
  <2> QED BY <2>1, <2>3 DEF u, MeBecomes
<1>2. IsSystem(w.me)
  BY DEF IsWorld
<1>3. IsSystem(WithState(w.me, state)) /\ WithState(w.me, state).parser = w.me.parser
  BY <1>2, SystemWith
<1> QED BY <1>1, <1>3, MeBecame

\* Who replies idles, and keeps its parser.
LEMMA RepliesKeeps ==
    ASSUME NEW w, IsWorld(w), NEW v
    PROVE  IsWorld(Replies(w, v)) /\ Replies(w, v).me.parser = w.me.parser
<1>1. MeBecomes(w, Replies(w, v), WithState(w.me, "IDLING"))
  <2> DEFINE me == [w.me EXCEPT !.state = "IDLING"]
             u == Replies(w, v)
  <2>1. me = WithState(w.me, "IDLING")
    BY DEF IsWorld, IsSystem, WithState
  <2>2. u = [w EXCEPT !.me = me, !.reply = u.reply]
    BY DEF IsWorld, Replies
  <2> HIDE DEF me, u
  <2>3. u = [me |-> me, fresh |-> w.fresh, file |-> w.file, debug |-> u.debug, reply |-> u.reply]
    BY <2>2 DEF IsWorld
  <2> QED BY <2>1, <2>3 DEF u, MeBecomes
<1>2. IsSystem(w.me) /\ "IDLING" \in Listening
  BY DEF IsWorld, Listening
<1>3. IsSystem(WithState(w.me, "IDLING")) /\ WithState(w.me, "IDLING").parser = w.me.parser
  BY <1>2, SystemWith
<1> QED BY <1>1, <1>3, MeBecame

\* A world with another parser.
LEMMA ParserKeeps ==
    ASSUME NEW w, IsWorld(w), NEW p \in Parsers
    PROVE  IsWorld([w EXCEPT !.me.parser = p])
<1>1. MeBecomes(w, [w EXCEPT !.me.parser = p], WithParser(w.me, p))
  BY DEF IsWorld, IsSystem, MeBecomes, WithParser
<1>2. IsSystem(WithParser(w.me, p))
  BY SystemWith DEF IsWorld
<1> QED BY <1>1, <1>2, MeBecame

\* A world with another sorter.
LEMMA SorterKeeps ==
    ASSUME NEW w, IsWorld(w), NEW b
    PROVE  IsWorld([w EXCEPT !.me.sorter = b])
<1>1. MeBecomes(w, [w EXCEPT !.me.sorter = b], WithSorter(w.me, b))
  BY DEF IsWorld, IsSystem, MeBecomes, WithSorter
<1>2. IsSystem(WithSorter(w.me, b))
  BY SystemWith DEF IsWorld
<1> QED BY <1>1, <1>2, MeBecame

\* A world with another answer.
LEMMA AnswerKeeps ==
    ASSUME NEW w, IsWorld(w), NEW v
    PROVE  IsWorld([w EXCEPT !.reply = v])
<1>1. MeBecomes(w, [w EXCEPT !.reply = v], w.me)
  BY DEF IsWorld, MeBecomes
<1>2. IsSystem(w.me)
  BY DEF IsWorld
<1> QED BY <1>1, <1>2, MeBecame

\* The parser of a world.
LEMMA ParserOfWorld ==
    ASSUME NEW w, IsWorld(w) PROVE w.me.parser \in Parsers
BY DEF IsWorld, IsSystem

\* A message that is a text has one.
LEMMA MessageIs ==
    ASSUME NEW m \in Simple
    PROVE  IsText(m) => m.text \in Texts
BY DEF Simple, IsText, Texts, Undefined

\* nextSorted keeps a world one.
LEMMA NextSortedKeeps ==
    ASSUME NEW w, IsWorld(w) PROVE IsWorld(NextSorted(w))
<1> DEFINE all == BagToSet(w.me.sorter)
           lowest == CHOOSE t \in all : \A u \in all : u = t \/ TextLess(t, u)
           r == Replies(w, Text(<<lowest>>))
<1>1. NextSorted(w) = IF all = {} THEN Replies(w, Undefined)
                      ELSE [r EXCEPT !.me.sorter = r.me.sorter (-) SetToBag({lowest})]
  BY DEF NextSorted
<1>2. IsWorld(r) /\ IsWorld(Replies(w, Undefined))
  BY RepliesKeeps
<1> HIDE DEF all, lowest, r
<1>3. IsWorld([r EXCEPT !.me.sorter = r.me.sorter (-) SetToBag({lowest})])
  BY <1>2, SorterKeeps
<1> QED BY <1>1, <1>2, <1>3

\* What is left when the first has been taken.
LEMMA TailType ==
    ASSUME NEW S, NEW s \in Seq(S), s # <<>> PROVE Tail(s) \in Seq(S)
OBVIOUS

\* nextObject keeps a world one.
LEMMA NextObjectKeeps ==
    ASSUME NEW w, IsWorld(w) PROVE IsWorld(NextObject(w))
<1> DEFINE items == w.me.parser.parsed
           v == Head(items)
           r == Replies(w, IF "word" \in DOMAIN v THEN v ELSE [object |-> v.object])
           p == r.me.parser
<1>1. NextObject(w) = IF items = <<>> THEN Replies(w, Undefined)
                      ELSE [r EXCEPT !.me.parser.parsed = Tail(r.me.parser.parsed)]
  BY DEF NextObject
<1>2. IsWorld(r) /\ r.me.parser = w.me.parser /\ IsWorld(Replies(w, Undefined))
  BY RepliesKeeps
<1>3. p \in Parsers /\ p.parsed = items
  BY <1>2, ParserOfWorld
<1> HIDE DEF items, v, r, p
<1>4. CASE items # <<>>
  <2>1. Tail(items) \in Seq(Item)
    BY <1>3, <1>4, ParserIs, TailType
  <2>2. [p EXCEPT !.parsed = Tail(items)] \in Parsers
    BY <1>3, <2>1, ParserFields
  <2>3. IsWorld([r EXCEPT !.me.parser = [p EXCEPT !.parsed = Tail(items)]])
    BY <1>2, <2>2, ParserKeeps
  <2>4. NextObject(w) = [r EXCEPT !.me.parser = [r.me.parser EXCEPT !.parsed = Tail(r.me.parser.parsed)]]
    BY <1>1, <1>4
  <2> QED BY <1>3, <2>3, <2>4 DEF p
<1> QED BY <1>1, <1>2, <1>4

\* A debug flag changes nothing else.
LEMMA ToggledKeeps ==
    ASSUME NEW w, IsWorld(w), NEW flag PROVE IsWorld(Toggled(w, flag))
<1> DEFINE r == Replies(w, Truth(flag \notin w.debug))
<1>1. IsWorld(r)
  BY RepliesKeeps
<1>2. Toggled(w, flag) = [r EXCEPT !.debug = IF flag \in @ THEN @ \ {flag} ELSE @ \cup {flag}]
  BY DEF Toggled
<1> HIDE DEF r
<1>3. MeBecomes(r, Toggled(w, flag), r.me) /\ IsSystem(r.me)
  BY <1>1, <1>2 DEF MeBecomes, IsWorld
<1> QED BY <1>1, <1>3, MeBecame

\* Whatever is said to it, an idling system goes where it can hear
\* (SystemObject.cc:86-168).
LEMMA IdlingKeeps ==
    ASSUME NEW w, IsWorld(w), NEW m \in Simple, NEW sender \in Objects
    PROVE  IsWorld(Idling(w, m, sender))
<1> DEFINE s == m.message
           p == w.me.parser
           i == Enters(w, "OPEN PARSER")
           r == Replies(w, Undefined)
           o == Enters(w, "OPEN SORTER")
<1>1. CASE ~IsState(m)
  <2>1. Idling(w, m, sender) = [w EXCEPT !.reply = Undefined]
    BY <1>1 DEF Idling
  <2> QED BY <2>1, AnswerKeeps
<1>2. CASE IsState(m)
  <2>1. s \in States
    BY <1>2 DEF IsState
  <2>2. IsWorld(i) /\ IsWorld(r) /\ IsWorld(o) /\ r.me.parser = p /\ p \in Parsers
    BY EntersKeeps, RepliesKeeps, ParserOfWorld DEF Listening
  <2> HIDE DEF i, r, o, p
  <2>3. IsWorld([o EXCEPT !.me.sorter = EmptyBag])
    BY <2>2, SorterKeeps
  <2>4. IsWorld([i EXCEPT !.me.parser = NewParser])
    BY <2>2, NewParserIs, ParserKeeps
  <2>5. IsWorld([r EXCEPT !.me.parser.proximate = {}])
    <3>1. [p EXCEPT !.proximate = {}] \in Parsers
      BY <2>2, ParserFields
    <3> QED BY <2>2, <3>1, ParserKeeps
  <2>6. IsWorld([r EXCEPT !.me.parser.proximate = @ \cup {sender}])
    <3>1. p.proximate \cup {sender} \in SUBSET Objects
      BY <2>2, ParserIs
    <3>2. [p EXCEPT !.proximate = p.proximate \cup {sender}] \in Parsers
      BY <2>2, <3>1, ParserFields
    <3>3. [r EXCEPT !.me.parser.proximate = @ \cup {sender}]
          = [r EXCEPT !.me.parser = [p EXCEPT !.proximate = p.proximate \cup {sender}]]
      BY <2>2
    <3> QED BY <2>2, <3>2, <3>3, ParserKeeps
  <2>7. IsWorld(Replies(w, [words |-> w.me.parser.normalized])) /\ IsWorld(NextObject(w))
        /\ IsWorld(NextSorted(w)) /\ \A flag : IsWorld(Toggled(w, flag))
    BY RepliesKeeps, NextObjectKeeps, NextSortedKeeps, ToggledKeeps
  <2>8. s \in Listening => IsWorld(Enters(w, s))
    BY EntersKeeps
  <2> DEFINE sorting  == [o EXCEPT !.me.sorter = EmptyBag]
             learning == [i EXCEPT !.me.parser = NewParser]
             alone    == [r EXCEPT !.me.parser.proximate = {}]
             joined   == [r EXCEPT !.me.parser.proximate = @ \cup {sender}]
  <2>9. Idling(w, m, sender) =
           CASE s = "INIT SORTER" -> sorting
             [] s = "NEXT SORTED" -> NextSorted(w)
             [] s = "INIT PARSER" -> learning
             [] s = "ROLL CALL"   -> alone
             [] s = "PRESENT"     -> joined
             [] s = "NORMALIZE"   -> Replies(w, [words |-> w.me.parser.normalized])
             [] s = "NEXT OBJECT" -> NextObject(w)
             [] s \in Flags       -> Toggled(w, s)
             [] s \in {"PARSE", "CLOSE SORTER", "CLOSE PARSER", "VERB LIST", "NOUN LIST"} -> r
             [] OTHER -> Enters(w, s)
    BY <1>2 DEF Idling, i, o, r
  <2>21. IsWorld(sorting) /\ IsWorld(learning) /\ IsWorld(alone) /\ IsWorld(joined)
    BY <2>3, <2>4, <2>5, <2>6
  <2> HIDE DEF s, sorting, learning, alone, joined
  <2>10. \/ s = "INIT SORTER" \/ s = "NEXT SORTED" \/ s = "INIT PARSER" \/ s = "ROLL CALL" \/ s = "PRESENT"
         \/ s = "NORMALIZE" \/ s = "NEXT OBJECT" \/ s \in Flags
         \/ s \in {"PARSE", "CLOSE SORTER", "CLOSE PARSER", "VERB LIST", "NOUN LIST"}
         \/ s \in Listening
    BY <2>1 DEF States, Flags, Listening
  <2>11. CASE s = "INIT SORTER"
    <3>1. Idling(w, m, sender) = sorting
      BY <2>9, <2>11 DEF Flags
    <3> QED BY <2>21, <3>1
  <2>12. CASE s = "NEXT SORTED"
    BY <2>7, <2>9, <2>12
  <2>13. CASE s = "INIT PARSER"
    <3>1. Idling(w, m, sender) = learning
      BY <2>9, <2>13 DEF Flags
    <3> QED BY <2>21, <3>1
  <2>14. CASE s = "ROLL CALL"
    <3>1. Idling(w, m, sender) = alone
      BY <2>9, <2>14 DEF Flags
    <3> QED BY <2>21, <3>1
  <2>15. CASE s = "PRESENT"
    <3>1. Idling(w, m, sender) = joined
      BY <2>9, <2>15 DEF Flags
    <3> QED BY <2>21, <3>1
  <2>16. CASE s = "NORMALIZE"
    BY <2>7, <2>9, <2>16
  <2>17. CASE s = "NEXT OBJECT"
    BY <2>7, <2>9, <2>17
  <2>18. CASE s \in Flags
    <3>1. /\ s # "INIT SORTER" /\ s # "NEXT SORTED" /\ s # "INIT PARSER" /\ s # "ROLL CALL" /\ s # "PRESENT"
          /\ s # "NORMALIZE" /\ s # "NEXT OBJECT"
          /\ s \notin {"PARSE", "CLOSE SORTER", "CLOSE PARSER", "VERB LIST", "NOUN LIST"}
      BY <2>18 DEF Flags
    <3>2. Idling(w, m, sender) = Toggled(w, s)
      BY <2>9, <2>18, <3>1
    <3> QED BY <2>7, <3>2
  <2>19. CASE s \in {"PARSE", "CLOSE SORTER", "CLOSE PARSER", "VERB LIST", "NOUN LIST"}
    <3>1. s \notin Flags
      BY <2>19 DEF Flags
    <3>2. Idling(w, m, sender) = r
      BY <2>9, <2>19, <3>1
    <3> QED BY <2>2, <3>2
  <2>20. CASE s \in Listening
    <3>1. /\ s # "INIT SORTER" /\ s # "NEXT SORTED" /\ s # "INIT PARSER" /\ s # "ROLL CALL" /\ s # "PRESENT"
          /\ s # "NORMALIZE" /\ s # "NEXT OBJECT" /\ s \notin Flags
          /\ s \notin {"PARSE", "CLOSE SORTER", "CLOSE PARSER", "VERB LIST", "NOUN LIST"}
      BY <2>20 DEF Flags, Listening
    <3>2. Idling(w, m, sender) = Enters(w, s)
      BY <2>9, <3>1
    <3> QED BY <2>8, <2>20, <3>2
  <2> QED BY <2>10, <2>11, <2>12, <2>13, <2>14, <2>15, <2>16, <2>17, <2>18, <2>19, <2>20
<1> QED BY <1>1, <1>2

\* So does one that is filling its sorter (SystemObject.cc:169-184).
LEMMA SortingKeeps ==
    ASSUME NEW w, IsWorld(w), NEW m
    PROVE  IsWorld(Sorting(w, m))
<1>1. IsWorld(Enters(w, "IDLING")) /\ IsWorld(Enters(w, "OPEN SORTER"))
  BY EntersKeeps DEF Listening
<1>2. IsWorld([w EXCEPT !.reply = Undefined])
  BY AnswerKeeps
<1> DEFINE b == w.me.sorter (+) SetToBag({FlattenSeq(m.text)})
           v == [w EXCEPT !.me.sorter = b]
<1>3. IsWorld([w EXCEPT !.me.sorter = b, !.reply = m])
  <2>1. IsWorld(v)
    BY SorterKeeps
  <2>2. IsWorld([v EXCEPT !.reply = m])
    <3> HIDE DEF v
    <3> QED BY <2>1, AnswerKeeps
  <2>3. [v EXCEPT !.reply = m] = [w EXCEPT !.me.sorter = b, !.reply = m]
    OBVIOUS
  <2> QED BY <2>2, <2>3
<1>4. Sorting(w, m) = IF IsState(m) THEN Enters(w, IF m.message = "CLOSE SORTER" THEN "IDLING" ELSE "OPEN SORTER")
                      ELSE IF IsText(m) THEN [w EXCEPT !.me.sorter = b, !.reply = m]
                      ELSE [w EXCEPT !.reply = Undefined]
  BY DEF Sorting
<1> HIDE DEF b, v
<1> QED BY <1>1, <1>2, <1>3, <1>4

\* So does one that is filling its parser (SystemObject.cc:194-215).
LEMMA LearningKeeps ==
    ASSUME NEW w, IsWorld(w), NEW m \in Simple, NEW sender \in Objects
    PROVE  IsWorld(Learning(w, m, sender))
<1> DEFINE e == Enters(w, "IDLING")
           o == Enters(w, "OPEN PARSER")
           p == w.me.parser
<1>1. IsWorld(e) /\ IsWorld(o) /\ e.me.parser = p /\ o.me.parser = p /\ p \in Parsers
  BY EntersKeeps, ParserOfWorld DEF Listening
<1>2. Learning(w, m, sender) =
         CASE m = Msg("CLOSE PARSER") -> [e EXCEPT !.me.parser = Close(@)]
           [] m = Msg("VERB LIST")    -> [o EXCEPT !.me.parser.mode = "verbs"]
           [] m = Msg("NOUN LIST")    -> [o EXCEPT !.me.parser.mode = "nouns"]
           [] IsText(m) -> [o EXCEPT !.me.parser = AddParseable(@, sender, m.text)]
           [] OTHER -> o
  BY DEF Learning
<1> HIDE DEF e, o, p
<1>3. IsWorld([e EXCEPT !.me.parser = Close(@)])
  <2>1. Close(p) \in Parsers
    BY <1>1, CloseKeeps
  <2>2. IsWorld([e EXCEPT !.me.parser = Close(p)])
    BY <1>1, <2>1, ParserKeeps
  <2> QED BY <1>1, <2>2
<1>4. IsWorld([o EXCEPT !.me.parser.mode = "verbs"]) /\ IsWorld([o EXCEPT !.me.parser.mode = "nouns"])
  <2>1. [p EXCEPT !.mode = "verbs"] \in Parsers /\ [p EXCEPT !.mode = "nouns"] \in Parsers
    BY <1>1, ParserFields
  <2>2. IsWorld([o EXCEPT !.me.parser = [p EXCEPT !.mode = "verbs"]])
        /\ IsWorld([o EXCEPT !.me.parser = [p EXCEPT !.mode = "nouns"]])
    BY <1>1, <2>1, ParserKeeps
  <2> QED BY <1>1, <2>2
<1>5. IsText(m) => IsWorld([o EXCEPT !.me.parser = AddParseable(@, sender, m.text)])
  <2> SUFFICES ASSUME IsText(m) PROVE IsWorld([o EXCEPT !.me.parser = AddParseable(@, sender, m.text)])
    OBVIOUS
  <2>1. m.text \in Seq(Seq(DOMAIN Spellings))
    BY MessageIs DEF Texts
  <2>2. AddParseable(p, sender, m.text) \in Parsers
    BY <1>1, <2>1, AddParseableKeeps
  <2>3. IsWorld([o EXCEPT !.me.parser = AddParseable(p, sender, m.text)])
    BY <1>1, <2>2, ParserKeeps
  <2> QED BY <1>1, <2>3
<1>6. /\ Msg("CLOSE PARSER") # Msg("VERB LIST") /\ Msg("CLOSE PARSER") # Msg("NOUN LIST")
      /\ Msg("VERB LIST") # Msg("NOUN LIST")
      /\ ~IsText(Msg("CLOSE PARSER")) /\ ~IsText(Msg("VERB LIST")) /\ ~IsText(Msg("NOUN LIST"))
  BY DEF Msg, IsText
<1>7. CASE m = Msg("CLOSE PARSER")
  BY <1>2, <1>3, <1>6, <1>7
<1>8. CASE m = Msg("VERB LIST")
  BY <1>2, <1>4, <1>6, <1>8
<1>9. CASE m = Msg("NOUN LIST")
  BY <1>2, <1>4, <1>6, <1>9
<1>10. CASE IsText(m) /\ m # Msg("CLOSE PARSER") /\ m # Msg("VERB LIST") /\ m # Msg("NOUN LIST")
  BY <1>2, <1>5, <1>10
<1>11. CASE ~IsText(m) /\ m # Msg("CLOSE PARSER") /\ m # Msg("VERB LIST") /\ m # Msg("NOUN LIST")
  BY <1>1, <1>2, <1>11
<1> QED BY <1>7, <1>8, <1>9, <1>10, <1>11

\* So does one that waits for a command (SystemObject.cc:227-234).
LEMMA PlayerCommandKeeps ==
    ASSUME NEW w, IsWorld(w), NEW text \in Texts PROVE IsWorld(PlayerCommand(w, text))
<1> DEFINE e == Enters(w, "IDLING")
           p == w.me.parser
<1>1. IsWorld(e) /\ e.me.parser = p /\ p \in Parsers
  BY EntersKeeps, ParserOfWorld DEF Listening
<1>2. PlayerCommand(w, text) = [e EXCEPT !.me.parser = Parse(e.me.parser, text)]
  BY DEF PlayerCommand
<1> HIDE DEF e, p
<1>3. Parse(p, text) \in Parsers
  BY <1>1, ParseKeeps
<1>4. IsWorld([e EXCEPT !.me.parser = Parse(p, text)])
  BY <1>1, <1>3, ParserKeeps
<1> QED BY <1>1, <1>2, <1>4

\* So does one that waits for an object (SystemObject.cc:235-242).
LEMMA WhichObjectKeeps ==
    ASSUME NEW w, IsWorld(w), NEW text \in Texts PROVE IsWorld(WhichObject(w, text))
<1> DEFINE p == w.me.parser
           a == Asked(p, text)
           v == IF Len(a.items) = 1 /\ "object" \in DOMAIN a.items[1]
                THEN [object |-> a.items[1].object] ELSE Undefined
           r == Replies(w, v)
           q == [p EXCEPT !.heard = <<Hearing(p, "noun", a.words, a.items)>>]
<1>1. IsWorld(r) /\ r.me.parser = p /\ p \in Parsers
  BY RepliesKeeps, ParserOfWorld
<1>2. q \in Parsers
  BY <1>1, AskedKeeps
<1>3. WhichObject(w, text) = [r EXCEPT !.me.parser = [r.me.parser EXCEPT !.heard = <<Hearing(p, "noun", a.words, a.items)>>]]
  BY DEF WhichObject
<1>4. WhichObject(w, text) = [r EXCEPT !.me.parser = q]
  BY <1>1, <1>3
<1> HIDE DEF q, r
<1> QED BY <1>1, <1>2, <1>4, ParserKeeps

\* So does one that saves, and what it saves is where it can hear
\* (SystemObject.cc:256-270).
LEMMA SaveStateKeeps ==
    ASSUME NEW w, IsWorld(w), NEW written PROVE IsWorld(SaveState(w, written))
<1> DEFINE idle == Replies(w, Truth(written))
           saved == <<Universe(idle)>>
           u == [idle EXCEPT !.file = saved]
<1>1. SaveState(w, written) = IF written THEN u ELSE idle
  BY DEF SaveState
<1>2. IsWorld(idle)
  BY RepliesKeeps
<1> HIDE DEF idle
<1>3. IsFile(saved)
  BY <1>2, UniverseIs, FileMade
<1> HIDE DEF saved
<1>4. /\ idle = [me |-> idle.me, fresh |-> idle.fresh, file |-> idle.file, debug |-> idle.debug,
                 reply |-> idle.reply]
      /\ IsSystem(idle.me) /\ IsFile(idle.fresh)
  BY <1>2 DEF IsWorld
<1>5. u = [me |-> idle.me, fresh |-> idle.fresh, file |-> saved, debug |-> idle.debug, reply |-> idle.reply]
  BY <1>4
<1>6. IsWorld(u)
  BY <1>3, <1>4, <1>5, WorldMade
<1> HIDE DEF u
<1> QED BY <1>1, <1>2, <1>6

\* So does one that loads, and the one it has loaded
\* (SystemObject.cc:271-289).
LEMMA LoadStateKeeps ==
    ASSUME NEW w, IsWorld(w) PROVE IsWorld(LoadState(w))
<1> DEFINE yes == Truth(TRUE)
           u == [w EXCEPT !.me = NewSystem, !.fresh = w.file, !.reply = yes]
<1>1. LoadState(w) = IF w.file = <<>> THEN Replies(w, Truth(FALSE)) ELSE u
  BY DEF LoadState
<1> HIDE DEF yes
<1>2. /\ w = [me |-> w.me, fresh |-> w.fresh, file |-> w.file, debug |-> w.debug, reply |-> w.reply]
      /\ IsFile(w.file)
  BY DEF IsWorld
<1>3. u = [me |-> NewSystem, fresh |-> w.file, file |-> w.file, debug |-> w.debug, reply |-> yes]
  <2> DEFINE v == [w EXCEPT !.me = NewSystem]
             x == [v EXCEPT !.fresh = w.file]
  <2>1. v = [me |-> NewSystem, fresh |-> w.fresh, file |-> w.file, debug |-> w.debug, reply |-> w.reply]
    BY <1>2
  <2>2. u = [x EXCEPT !.reply = yes]
    OBVIOUS
  <2> HIDE DEF v
  <2>3. x = [me |-> NewSystem, fresh |-> w.file, file |-> w.file, debug |-> w.debug, reply |-> w.reply]
    BY <2>1
  <2> HIDE DEF x
  <2> QED BY <2>2, <2>3
<1>4. IsWorld(u)
  BY <1>2, <1>3, NewSystemIs, WorldMade
<1>5. IsWorld(Replies(w, Truth(FALSE)))
  BY RepliesKeeps
<1> HIDE DEF u
<1> QED BY <1>1, <1>4, <1>5

\* So does one in any state.
LEMMA InterpretKeeps ==
    ASSUME NEW w, IsWorld(w), NEW m \in Simple, NEW sender \in Objects, NEW written
    PROVE  IsWorld(Interpret(w, m, sender, written))
<1> DEFINE s == w.me.state
           t == m.text
           known == IsText(m)
           gone == Enters(w, "IDLING")
           idling == Idling(w, m, sender)
           sorting == Sorting(w, m)
           learning == Learning(w, m, sender)
           commanded == PlayerCommand(w, t)
           which == WhichObject(w, t)
           saved == SaveState(w, written)
           loaded == LoadState(w)
<1>1. s \in Listening
  BY DEF IsWorld, IsSystem
<1>2. IsWorld(gone) /\ IsWorld(idling) /\ IsWorld(sorting) /\ IsWorld(learning) /\ IsWorld(saved) /\ IsWorld(loaded)
  BY EntersKeeps, IdlingKeeps, SortingKeeps, LearningKeeps, SaveStateKeeps, LoadStateKeeps DEF Listening
<1>3. known => IsWorld(commanded) /\ IsWorld(which)
  <2> SUFFICES ASSUME known PROVE IsWorld(commanded) /\ IsWorld(which)
    OBVIOUS
  <2>1. t \in Texts
    BY MessageIs
  <2> QED BY <2>1, PlayerCommandKeeps, WhichObjectKeeps
<1>4. Interpret(w, m, sender, written) =
         CASE s = "IDLING"      -> idling
           [] s = "OPEN SORTER" -> sorting
           [] s = "OPEN PARSER" -> learning
           [] s = "PLAYER CMD"   /\ known -> commanded
           [] s = "WHICH OBJECT" /\ known -> which
           [] s = "SAVE STATE"   /\ known -> saved
           [] s = "LOAD STATE"   /\ known -> loaded
           [] OTHER -> gone
  BY DEF Interpret
<1> HIDE DEF s, t, known, gone, idling, sorting, learning, commanded, which, saved, loaded
<1>5. CASE s = "IDLING"
  BY <1>2, <1>4, <1>5
<1>6. CASE s = "OPEN SORTER"
  BY <1>2, <1>4, <1>6
<1>7. CASE s = "OPEN PARSER"
  BY <1>2, <1>4, <1>7
<1>8. CASE s = "PLAYER CMD"
  BY <1>2, <1>3, <1>4, <1>8
<1>9. CASE s = "WHICH OBJECT"
  BY <1>2, <1>3, <1>4, <1>9
<1>10. CASE s = "SAVE STATE"
  BY <1>2, <1>4, <1>10
<1>11. CASE s = "LOAD STATE"
  BY <1>2, <1>4, <1>11
<1>12. CASE s = "BANNER"
  BY <1>2, <1>4, <1>12
<1> QED BY <1>1, <1>5, <1>6, <1>7, <1>8, <1>9, <1>10, <1>11, <1>12 DEF Listening

(* One message of a list, or one of an opening, and the fold over them.     *)
Onward(how, x, k) == IF how.list THEN Interpret(x, how.said[k], how.sender, how.written)
                     ELSE Told(x, how.said[k][2], how.said[k][1], FALSE)

Runs(h, n, how, b) ==
    h = [s \in SUBSET (1..n) |-> IF s = {} THEN b ELSE Onward(how, h[s \ {Max(s)}], Max(s))]

\* The fold over messages is a function, whatever they make of the worlds.
LEMMA RunsExist ==
    ASSUME NEW n \in Nat, NEW how, NEW b
    PROVE  \E h : Runs(h, n, how, b)
<1> DEFINE B == {k \in Nat : \E h : Runs(h, k, how, b)}
<1>1. 0 \in B
  <2>1. SUBSET (1..0) = {{}}
    OBVIOUS
  <2> DEFINE h == [s \in SUBSET (1..0) |-> b]
  <2>2. Runs(h, 0, how, b)
    BY <2>1 DEF Runs
  <2> QED BY <2>2
<1>2. ASSUME NEW k \in B PROVE k + 1 \in B
  <2>1. k \in Nat
    OBVIOUS
  <2>2. PICK f : Runs(f, k, how, b)
    OBVIOUS
  <2> DEFINE g == [s \in SUBSET (1..k+1) |-> IF k + 1 \in s THEN Onward(how, f[s \ {k+1}], k+1) ELSE f[s]]
  <2>3. ASSUME NEW s \in SUBSET (1..k+1), k + 1 \in s
        PROVE  s # {} /\ Max(s) = k + 1 /\ s \ {k+1} \in SUBSET (1..k+1) /\ k + 1 \notin s \ {k+1}
    BY <2>1, <2>3, MaxIsLast
  <2>4. ASSUME NEW s \in SUBSET (1..k+1), k + 1 \notin s
        PROVE  s \in SUBSET (1..k)
    BY <2>1, <2>4
  <2>5. ASSUME NEW s \in SUBSET (1..k+1)
        PROVE  g[s] = IF s = {} THEN b ELSE Onward(how, g[s \ {Max(s)}], Max(s))
    <3>1. CASE k + 1 \in s
      <4>1. g[s] = Onward(how, f[s \ {k+1}], k+1) /\ g[s \ {k+1}] = f[s \ {k+1}]
        BY <2>3, <3>1
      <4> QED BY <2>3, <3>1, <4>1
    <3>2. CASE k + 1 \notin s
      <4>1. g[s] = f[s] /\ s \in SUBSET (1..k)
        BY <2>4, <3>2
      <4>2. f[s] = IF s = {} THEN b ELSE Onward(how, f[s \ {Max(s)}], Max(s))
        BY <2>2, <4>1 DEF Runs
      <4>3. s # {} => g[s \ {Max(s)}] = f[s \ {Max(s)}]
        BY <3>2
      <4> QED BY <4>1, <4>2, <4>3
    <3> QED BY <3>1, <3>2
  <2>6. g = [s \in SUBSET (1..k+1) |-> g[s]]
    OBVIOUS
  <2> HIDE DEF g
  <2>7. Runs(g, k + 1, how, b)
    BY <2>5, <2>6 DEF Runs
  <2> QED BY <2>1, <2>7
<1> HIDE DEF B
<1>3. n \in B
  BY <1>1, <1>2, FromZeroUp DEF B
<1> QED BY <1>3 DEF B

(* A step that keeps worlds.                                               *)
Keeping(how, k) == \A x : IsWorld(x) => IsWorld(Onward(how, x, k))

\* If each message keeps worlds, the fold does.
LEMMA RunsKeep ==
    ASSUME NEW n \in Nat, NEW how, NEW b, IsWorld(b), NEW h, Runs(h, n, how, b),
           \A k \in 1..n : Keeping(how, k)
    PROVE  IsWorld(h[1..n])
<1> DEFINE B == {k \in Nat : k <= n => IsWorld(h[1..k])}
<1>1. 0 \in B
  <2>1. 1..0 = {} /\ {} \in SUBSET (1..n)
    OBVIOUS
  <2> QED BY <2>1 DEF Runs
<1>2. ASSUME NEW k \in B PROVE k + 1 \in B
  <2> SUFFICES ASSUME k + 1 <= n PROVE IsWorld(h[1..k+1])
    OBVIOUS
  <2>1. k \in Nat /\ k <= n /\ k + 1 \in 1..n /\ k + 1 \in Nat \ {0} /\ k + 1 - 1 = k
        /\ 1..k+1 \in SUBSET (1..n)
    OBVIOUS
  <2>2. IsWorld(h[1..k])
    BY <2>1
  <2>3. Max(1..k+1) = k + 1 /\ (1..k+1) \ {k+1} = 1..k /\ 1..k+1 # {}
    <3> DEFINE j == k + 1
    <3>1. j \in Nat \ {0} /\ j - 1 = k
      BY <2>1
    <3> HIDE DEF j
    <3>2. Max(1..j) = j /\ (1..j) \ {j} = 1..j-1 /\ 1..j # {}
      BY <3>1, MaxOfInterval
    <3>3. Max(1..j) = j /\ (1..j) \ {j} = 1..k /\ 1..j # {}
      BY <3>1, <3>2
    <3> QED BY <3>3 DEF j
  <2>4. h[1..k+1] = Onward(how, h[1..k], k+1)
    BY <2>1, <2>3 DEF Runs
  <2> QED BY <2>1, <2>2, <2>4 DEF Keeping
<1> HIDE DEF B
<1>3. n \in B
  BY <1>1, <1>2, FromZeroUp DEF B
<1> QED BY <1>3 DEF B

\* And so does the fold that FoldLeft chooses.
LEMMA RunIsWorld ==
    ASSUME NEW n \in Nat, NEW how, NEW b, IsWorld(b), \A k \in 1..n : Keeping(how, k)
    PROVE  IsWorld((CHOOSE h : Runs(h, n, how, b))[1..n])
<1> DEFINE iter == CHOOSE h : Runs(h, n, how, b)
<1>1. Runs(iter, n, how, b)
  BY RunsExist
<1> HIDE DEF iter
<1>2. IsWorld(iter[1..n])
  BY <1>1, RunsKeep
<1> QED BY <1>2 DEF iter

\* A send, of one message or of a list, keeps a world one
\* (executeDefaultMethod).
LEMMA ToldKeeps ==
    ASSUME NEW w, IsWorld(w), NEW m \in Message, NEW sender \in Objects, NEW written
    PROVE  IsWorld(Told(w, m, sender, written))
<1> DEFINE seq == IF "list" \in DOMAIN m THEN m.list ELSE <<m>>
           how == [list |-> TRUE, said |-> seq, sender |-> sender, written |-> written]
           n == Len(seq)
<1>1. seq \in Seq(Simple)
  <2>1. CASE m \in Simple
    <3>1. "list" \notin DOMAIN m
      BY <2>1 DEF Simple, Undefined
    <3>2. <<m>> \in Seq(Simple)
      BY <2>1, ShortType
    <3> QED BY <3>1, <3>2
  <2>2. CASE m \in [list : Seq(Simple)]
    <3> DEFINE T == Seq(Simple)
    <3> HIDE DEF T
    <3>1. "list" \in DOMAIN m /\ m.list \in T
      BY <2>2 DEF T
    <3> QED BY <3>1 DEF T
  <2> QED BY <2>1, <2>2 DEF Message
<1> HIDE DEF seq
<1>2. n \in Nat /\ DOMAIN seq = 1..n /\ \A k \in 1..n : seq[k] \in Simple
  BY <1>1
<1>3. ASSUME NEW k \in 1..n PROVE Keeping(how, k)
  <2>1. seq[k] \in Simple
    BY <1>2
  <2>2. ASSUME NEW x, IsWorld(x) PROVE IsWorld(Onward(how, x, k))
    <3>1. Onward(how, x, k) = Interpret(x, seq[k], sender, written)
      BY DEF Onward
    <3> QED BY <2>1, <2>2, <3>1, InterpretKeeps
  <2> QED BY <2>2 DEF Keeping
<1>4. Told(w, m, sender, written) = (CHOOSE h : Runs(h, n, how, w))[1..n]
  <2> DEFINE Goes(h) == h = [s \in SUBSET (1..n) |-> IF s = {} THEN w
                            ELSE Interpret(h[s \ {Max(s)}], seq[Max(s)], sender, written)]
  <2>1. Told(w, m, sender, written) = (CHOOSE h : Goes(h))[1..n]
    <3>1. Told(w, m, sender, written) = FoldLeft(LAMBDA x, each : Interpret(x, each, sender, written), w, seq)
      BY DEF Told, seq
    <3> QED BY <1>2, <3>1 DEF FoldLeft, MapThenFoldSet
  <2>2. ASSUME NEW h PROVE Runs(h, n, how, w) <=> Goes(h)
    BY DEF Runs, Onward
  <2> HIDE DEF Goes
  <2>3. (CHOOSE h : Runs(h, n, how, w)) = (CHOOSE h : Goes(h))
    BY <2>2
  <2> QED BY <2>1, <2>3
<1> HIDE DEF n, how
<1> QED BY <1>2, <1>3, <1>4, RunIsWorld

\* What has been said when the player comes in leaves a system that listens.
LEMMA OpenedIs ==
    ASSUME NEW opening \in Openings
    PROVE  IsSystem(Opened(opening))
<1> DEFINE new == World(NewSystem, <<>>, {})
           how == [list |-> FALSE, said |-> opening]
           n == Len(opening)
           end == (CHOOSE h : Runs(h, n, how, new))[1..n]
<1>1. IsWorld(new)
  <2>1. IsFile(<<>>)
    BY DEF IsFile
  <2> QED BY <2>1, NewSystemIs, WorldMade DEF World
<1> HIDE DEF new
<1>2. n \in Nat /\ DOMAIN opening = 1..n /\ \A k \in 1..n : opening[k] \in Objects \X Message
  <2>1. opening \in Seq(Objects \X Message)
    BY MessagesAssumption
  <2> QED BY <2>1
<1>3. ASSUME NEW k \in 1..n PROVE Keeping(how, k)
  <2>1. opening[k][1] \in Objects /\ opening[k][2] \in Message
    BY <1>2
  <2>2. ASSUME NEW x, IsWorld(x) PROVE IsWorld(Onward(how, x, k))
    <3>1. Onward(how, x, k) = Told(x, opening[k][2], opening[k][1], FALSE)
      BY DEF Onward
    <3> QED BY <2>1, <2>2, <3>1, ToldKeeps
  <2> QED BY <2>2 DEF Keeping
<1>4. Opened(opening) = Universe(end)
  <2> DEFINE Goes(h) == h = [s \in SUBSET (1..n) |-> IF s = {} THEN new
                            ELSE Told(h[s \ {Max(s)}], opening[Max(s)][2], opening[Max(s)][1], FALSE)]
  <2>1. Opened(opening) = Universe((CHOOSE h : Goes(h))[1..n])
    BY <1>2 DEF Opened, new, FoldLeft, MapThenFoldSet
  <2>2. ASSUME NEW h PROVE Runs(h, n, how, new) <=> Goes(h)
    BY DEF Runs, Onward
  <2> HIDE DEF Goes
  <2>3. (CHOOSE h : Runs(h, n, how, new)) = (CHOOSE h : Goes(h))
    BY <2>2
  <2> QED BY <2>1, <2>3
<1> HIDE DEF n, how
<1>5. IsWorld(end)
  BY <1>1, <1>2, <1>3, RunIsWorld
<1> HIDE DEF end
<1> QED BY <1>4, <1>5, UniverseIs

----------------------------------------------------------------------------
(* The conversation.                                                       *)

SystemOK == IsSystem(system) /\ IsFile(file)

\* The invariant holds at first.
LEMMA SystemOKInit == Init => SystemOK
BY OpenedIs DEF Init, SystemOK, IsFile

\* Who speaks is an object, and says a message.
LEMMA SaysWell ==
    ASSUME NEW x \in Sayings
    PROVE  x[1] \in Objects /\ x[2] \in Message
<1>1. x \in Objects \X Message
  BY MessagesAssumption
<1> QED BY <1>1

\* Every message, checkpoint and restart keeps the invariant.
LEMMA SystemOKStep == SystemOK /\ [Next]_vars => SystemOK'
<1> SUFFICES ASSUME SystemOK, [Next]_vars PROVE SystemOK'
  OBVIOUS
<1>1. IsSystem(system) /\ IsFile(file)
  BY DEF SystemOK
<1>2. ASSUME NEW x \in Sayings, Say(x[1], x[2]) PROVE SystemOK'
  <2> DEFINE before == World(system, file, debug)
  <2>1. IsWorld(before)
    <3>1. IsFile(<<>>)
      BY DEF IsFile
    <3> QED BY <1>1, <3>1, WorldMade DEF World
  <2>2. PICK written \in BOOLEAN :
           /\ system' = Universe(Told(before, x[2], x[1], written))
           /\ file' = Told(before, x[2], x[1], written).file
    BY <1>2 DEF Say
  <2> HIDE DEF before
  <2> DEFINE after == Told(before, x[2], x[1], written)
  <2>3. IsWorld(after)
    BY <2>1, SaysWell, ToldKeeps
  <2> HIDE DEF after
  <2>4. IsSystem(Universe(after)) /\ IsFile(after.file)
    BY <2>3, UniverseIs DEF IsWorld
  <2>5. system' = Universe(after) /\ file' = after.file
    BY <2>2 DEF after
  <2> QED BY <2>4, <2>5 DEF SystemOK
<1>3. CASE Checkpoint
  <2>1. IsFile(<<system>>)
    BY <1>1, FileMade
  <2> QED BY <1>1, <1>3, <2>1 DEF Checkpoint, SystemOK
<1>4. CASE Restart
  <2>1. IsSystem(file[1])
    BY <1>1, <1>4 DEF Restart, IsFile
  <2> QED BY <1>1, <1>4, <2>1 DEF Restart, SystemOK
<1>5. CASE UNCHANGED vars
  BY <1>1, <1>5 DEF vars, SystemOK
<1> QED BY <1>2, <1>3, <1>4, <1>5 DEF Next

\* What is heard is heard well.
LEMMA HeardWell == SystemOK => Heard \subseteq GoodHearings
<1> SUFFICES ASSUME SystemOK PROVE Heard \subseteq GoodHearings
  OBVIOUS
<1>1. system.parser.heard \in Seq(GoodHearings)
  BY ParserIs DEF SystemOK, IsSystem
<1> QED BY <1>1 DEF Heard, ToSet

\* The system object, in memory and in the file, listens between two messages,
\* and its parser has heard everything well.
THEOREM SystemOKHolds == Spec => []SystemOK
BY SystemOKInit, SystemOKStep, PTL DEF Spec

\* For any vocabulary, senders and messages, in any number and order and with
\* any restarts, the system is never in a state its interpreter "unexpectedly
\* found" (SystemObject.cc:186-192, 217-224, 291-305).
THEOREM AlwaysListeningHolds == Spec => []AlwaysListening
<1>1. SystemOK => AlwaysListening
  BY DEF SystemOK, IsSystem, Listening, AlwaysListening
<1> QED BY <1>1, SystemOKHolds, PTL

\* No word of any command is lost, doubled or moved by the matching, for any
\* vocabulary (SystemParser.cc:139-176, 200-202).
THEOREM EveryWordIsHeardHolds == Spec => []EveryWordIsHeard
<1>1. SystemOK => EveryWordIsHeard
  BY HeardWell DEF GoodHearings, EveryWordIsHeard
<1> QED BY <1>1, SystemOKHolds, PTL

\* For any vocabulary that one CLOSE PARSER has made, the longest phrase typed
\* wins (SystemParser.cc:79-85, 102-115).
THEOREM LongestPhraseWinsHolds == Spec => []LongestPhraseWins
<1>1. SystemOK => LongestPhraseWins
  <2>1. SystemOK => \A h \in Heard : LongestIn(h)
    BY HeardWell DEF GoodHearings
  <2> QED BY <2>1 DEF LongestIn, LongestPhraseWins
<1> QED BY <1>1, SystemOKHolds, PTL

\* And of two namesakes the near one is chosen, for any vocabulary that is
\* sorted so that names stand together (SystemParser.cc:149-176).
THEOREM NearestNamesakeIsChosenHolds == Spec => []NearestNamesakeIsChosen
<1>1. SystemOK => NearestNamesakeIsChosen
  <2>1. SystemOK => \A h \in Heard : NearestIn(h)
    BY HeardWell DEF GoodHearings
  <2> QED BY <2>1 DEF NearestIn, NearestNamesakeIsChosen
<1> QED BY <1>1, SystemOKHolds, PTL
=============================================================================
