------------------------------- MODULE Lemmas -------------------------------
(***************************************************************************)
(* What the proofs of several components rest on: runs of the stream, the  *)
(* sequences of consecutive bytes by which they say what a ring holds      *)
(* (a byte is its index in the stream), and induction over numbers.        *)
(***************************************************************************)
EXTENDS Integers, Sequences, WellFoundedInduction, TLAPS

----------------------------------------------------------------------------
(* Runs.                                                                   *)

\* The n bytes of the stream from byte k.
Run(k, n) == [i \in 1..n |-> k + i - 1]

LEMMA RunSeq ==
  ASSUME NEW k \in Nat, NEW n \in Nat
  PROVE  /\ Run(k, n) \in Seq(Nat) /\ Len(Run(k, n)) = n
         /\ \A i \in 1..n : Run(k, n)[i] = k + i - 1
<1>1. \A i \in 1..n : k + i - 1 \in Nat
  OBVIOUS
<1>2. Run(k, n) \in [1..n -> Nat]
  BY <1>1 DEF Run
<1>3. \A i \in 1..n : Run(k, n)[i] = k + i - 1
  BY DEF Run
<1> QED
  BY <1>2, <1>3

\* A sequence of consecutive bytes is a run.
LEMMA IsRun ==
  ASSUME NEW k \in Nat, NEW s \in Seq(Nat), \A i \in 1..Len(s) : s[i] = k + i - 1
  PROVE  s = Run(k, Len(s))
<1>1. Len(s) \in Nat /\ s = [i \in 1..Len(s) |-> s[i]]
  OBVIOUS
<1> QED
  BY <1>1 DEF Run

LEMMA Joined ==
  ASSUME NEW s \in Seq(Nat), NEW t \in Seq(Nat)
  PROVE  s \o t \in Seq(Nat) /\ Len(s \o t) = Len(s) + Len(t)
  OBVIOUS

\* A run goes on with the run behind it.
LEMMA RunJoin ==
  ASSUME NEW k \in Nat, NEW m \in Nat, NEW n \in Nat
  PROVE  Run(k, m) \o Run(k + m, n) = Run(k, m + n)
<1> DEFINE s == Run(k, m)  t == Run(k + m, n)
<1>1. s \in Seq(Nat) /\ Len(s) = m /\ \A i \in 1..m : s[i] = k + i - 1
  BY RunSeq
<1>2. t \in Seq(Nat) /\ Len(t) = n /\ \A i \in 1..n : t[i] = k + m + i - 1
  <2>1. k + m \in Nat
    OBVIOUS
  <2> QED
    BY <2>1, RunSeq
<1> HIDE DEF s, t
<1>3. s \o t \in Seq(Nat) /\ Len(s \o t) = m + n
  <2>1. s \o t \in Seq(Nat) /\ Len(s \o t) = Len(s) + Len(t)
    BY <1>1, <1>2, Joined
  <2> QED
    BY <1>1, <1>2, <2>1
<1>4. ASSUME NEW i \in 1..(m + n) PROVE (s \o t)[i] = k + i - 1
  <2>1. CASE i <= m
    BY <1>1, <1>2, <2>1
  <2>2. CASE ~(i <= m)
    <3>1. (s \o t)[i] = t[i - m] /\ i - m \in 1..n
      BY <1>1, <1>2, <2>2
    <3>2. t[i - m] = k + m + (i - m) - 1
      BY <1>2, <3>1
    <3> QED
      BY <3>1, <3>2
  <2> QED
    BY <2>1, <2>2
<1>5. s \o t = Run(k, m + n)
  BY <1>3, <1>4, IsRun
<1> QED
  BY <1>5 DEF s, t

\* The two parts of a run.
LEMMA RunParts ==
  ASSUME NEW k \in Nat, NEW m \in Nat, NEW n \in 0..m
  PROVE  /\ SubSeq(Run(k, m), 1, n) = Run(k, n)
         /\ SubSeq(Run(k, m), n + 1, m) = Run(k + n, m - n)
<1> DEFINE s == Run(k, m)
<1>1. s \in Seq(Nat) /\ Len(s) = m /\ \A i \in 1..m : s[i] = k + i - 1
  BY RunSeq
<1> HIDE DEF s
<1>2. SubSeq(s, 1, n) = Run(k, n)
  <2>1. SubSeq(s, 1, n) \in Seq(Nat) /\ Len(SubSeq(s, 1, n)) = n
    BY <1>1
  <2>2. \A i \in 1..n : SubSeq(s, 1, n)[i] = k + i - 1
    BY <1>1
  <2> QED
    BY <2>1, <2>2, IsRun
<1>3. SubSeq(s, n + 1, m) = Run(k + n, m - n)
  <2>1. SubSeq(s, n + 1, m) \in Seq(Nat) /\ Len(SubSeq(s, n + 1, m)) = m - n
    BY <1>1
  <2>2. ASSUME NEW i \in 1..(m - n) PROVE SubSeq(s, n + 1, m)[i] = (k + n) + i - 1
    <3>1. SubSeq(s, n + 1, m)[i] = s[n + i] /\ n + i \in 1..m
      BY <1>1
    <3> QED
      BY <1>1, <3>1
  <2>3. k + n \in Nat /\ m - n \in Nat
    OBVIOUS
  <2> QED
    BY <2>1, <2>2, <2>3, IsRun
<1> QED
  BY <1>2, <1>3 DEF s

----------------------------------------------------------------------------
(* Induction: of the numbers for which something fails one is the least.   *)

\* A set of numbers has a least one.
LEMMA LeastOf ==
  ASSUME NEW T \in SUBSET Nat, T # {}
  PROVE  \E n \in T : \A m \in T : n <= m
<1> DEFINE R == OpToRel(<, Nat)
<1>1. \A m, n \in Nat : m < n => <<m, n>> \in R
  BY DEF OpToRel
<1>2. IsWellFoundedOn(R, Nat)
  BY NatLessThanWellFounded
<1> HIDE DEF R
<1>3. PICK n \in T : \A m \in T : ~ (<<m, n>> \in R)
  <2>1. T \subseteq Nat
    OBVIOUS
  <2> QED
    BY <1>2, <2>1, WFMin, Zenon
<1>4. ASSUME NEW m \in T PROVE n <= m
  <2>1. m \in Nat /\ n \in Nat
    OBVIOUS
  <2>2. m < n => <<m, n>> \in R
    BY <2>1, <1>1, Zenon
  <2>3. ~ (<<m, n>> \in R)
    BY <1>3, Zenon
  <2>4. ~ (m < n)
    BY <2>2, <2>3, Zenon
  <2> HIDE <1>3
  <2> QED
    BY <2>1, <2>4
<1> QED
  BY <1>4

\* What f holds before step k, and the functions whose values from lo to n
\* come each from the one before by F, the first from s.
Before(f, k, lo, s) == IF k = lo THEN s ELSE f[k - 1]
Iterates(f, F, s, lo, n) == \A k \in lo..n : f[k] = F[<<k, Before(f, k, lo, s)>>]

\* The lengths to which no function iterates F.
Failing(F, s, lo, hi, S) ==
  {n \in lo..hi : ~ \E f \in [lo..n -> S] : Iterates(f, F, s, lo, n)}

\* F can be iterated: the recursive functions the models define exist.
LEMMA Iteration ==
  ASSUME NEW lo \in Nat, NEW hi \in Nat, lo <= hi,
         NEW S, NEW s \in S, NEW F \in [(lo..hi) \X S -> S]
  PROVE  \E f \in [lo..hi -> S] : Iterates(f, F, s, lo, hi)
<1> DEFINE Short == Failing(F, s, lo, hi, S)
<1>1. \A n \in lo..hi : \A f \in [lo..n -> S] : \A k \in lo..n : Before(f, k, lo, s) \in S
  BY DEF Before
<1>2. ASSUME NEW n \in lo..hi,
             n = lo \/ \E f \in [lo..(n - 1) -> S] : Iterates(f, F, s, lo, n - 1)
      PROVE  \E f \in [lo..n -> S] : Iterates(f, F, s, lo, n)
  <2>1. CASE n = lo
    <3> DEFINE g == [k \in lo..n |-> F[<<k, s>>]]
    <3>1. g \in [lo..n -> S] /\ \A k \in lo..n : k = lo /\ g[k] = F[<<k, s>>]
      BY <2>1
    <3> HIDE DEF g
    <3>2. Iterates(g, F, s, lo, n)
      BY <3>1 DEF Iterates, Before
    <3> QED
      BY <3>1, <3>2
  <2>2. CASE n # lo
    <3>1. PICK f \in [lo..(n - 1) -> S] : Iterates(f, F, s, lo, n - 1)
      BY <1>2, <2>2
    <3>2. n - 1 \in lo..hi
      BY <2>2
    <3> DEFINE g == [k \in lo..n |-> F[<<k, Before(f, k, lo, s)>>]]
    <3>3. \A k \in lo..n : Before(f, k, lo, s) \in S
      BY <2>2 DEF Before
    <3>4. g \in [lo..n -> S] /\ \A k \in lo..n : g[k] = F[<<k, Before(f, k, lo, s)>>]
      BY <3>3
    <3> HIDE DEF g
    <3>5. ASSUME NEW k \in lo..n PROVE Before(g, k, lo, s) = Before(f, k, lo, s)
      <4>1. CASE k = lo
        BY <4>1 DEF Before
      <4>2. CASE k # lo
        <5>1. k - 1 \in lo..(n - 1) /\ k - 1 \in lo..n
          BY <4>2
        <5>2. /\ f[k - 1] = F[<<k - 1, Before(f, k - 1, lo, s)>>]
              /\ g[k - 1] = F[<<k - 1, Before(f, k - 1, lo, s)>>]
          BY <5>1, <3>1, <3>4, Zenon DEF Iterates
        <5> QED
          BY <5>2, <4>2 DEF Before
      <4> QED
        BY <4>1, <4>2
    <3>6. Iterates(g, F, s, lo, n)
      BY <3>4, <3>5 DEF Iterates, Before
    <3> QED
      BY <3>4, <3>6
  <2> QED
    BY <2>1, <2>2
<1>3. Short = {}
  <2> SUFFICES ASSUME Short # {} PROVE FALSE
    OBVIOUS
  <2>1. Short \in SUBSET Nat
    BY DEF Failing
  <2> HIDE DEF Short
  <2>2. PICK n \in Short : \A m \in Short : n <= m
    BY <2>1, LeastOf
  <2> USE DEF Short, Failing
  <2>3. n \in lo..hi /\ ~ \E f \in [lo..n -> S] : Iterates(f, F, s, lo, n)
    OBVIOUS
  <2>4. n # lo /\ n - 1 \notin Short /\ n - 1 \in lo..hi
    <3>1. n # lo
      BY <1>2, <2>3
    <3> HIDE DEF Short
    <3> QED
      BY <2>2, <2>3, <3>1
  <2>5. \E f \in [lo..(n - 1) -> S] : Iterates(f, F, s, lo, n - 1)
    BY <2>4
  <2> QED
    BY <1>2, <2>3, <2>5
<1>4. hi \in lo..hi
  OBVIOUS
<1> QED
  BY <1>3, <1>4 DEF Failing

\* Going up one by one reaches every number.
LEMMA Upward ==
  ASSUME NEW lo \in Nat, NEW hi \in Nat, NEW P,
         lo \in P, \A k \in (lo + 1)..hi : k - 1 \in P => k \in P
  PROVE  \A k \in lo..hi : k \in P
<1> DEFINE Left == {k \in lo..hi : k \notin P}
<1>1. Left \in SUBSET Nat
  OBVIOUS
<1>2. SUFFICES ASSUME Left # {} PROVE FALSE
  OBVIOUS
<1> HIDE DEF Left
<1>3. PICK k \in Left : \A m \in Left : k <= m
  BY <1>1, <1>2, LeastOf
<1>4. k \in lo..hi /\ k \notin P
  BY DEF Left
<1>5. k \in (lo + 1)..hi /\ k - 1 \in lo..hi /\ ~ (k <= k - 1)
  BY <1>4
<1>6. k - 1 \in P
  BY <1>3, <1>5 DEF Left
<1> QED
  BY <1>4, <1>5, <1>6

\* The same of a recursive function that starts at s and steps by F.
Recurs(f, F, s, lo, hi) ==
  f[lo] = s /\ \A k \in (lo + 1)..hi : f[k] = F[<<k, f[k - 1]>>]

LEMMA Recursion ==
  ASSUME NEW lo \in Nat, NEW hi \in Nat, lo <= hi,
         NEW S, NEW s \in S, NEW F \in [(lo..hi) \X S -> S]
  PROVE  \E f \in [lo..hi -> S] : Recurs(f, F, s, lo, hi)
<1> DEFINE G == [kx \in (lo..hi) \X S |-> IF kx[1] = lo THEN kx[2] ELSE F[kx]]
<1>1. G \in [(lo..hi) \X S -> S]
  OBVIOUS
<1>2. \A k \in lo..hi, x \in S : G[<<k, x>>] = IF k = lo THEN x ELSE F[<<k, x>>]
  OBVIOUS
<1> HIDE DEF G
<1>3. PICK f \in [lo..hi -> S] : Iterates(f, G, s, lo, hi)
  BY <1>1, Iteration
<1>4. f[lo] = s
  <2>1. f[lo] = G[<<lo, s>>]
    BY <1>3 DEF Iterates, Before
  <2> QED
    BY <2>1, <1>2
<1>5. ASSUME NEW k \in (lo + 1)..hi PROVE f[k] = F[<<k, f[k - 1]>>]
  <2>1. k \in lo..hi /\ k - 1 \in lo..hi /\ k # lo
    OBVIOUS
  <2>2. f[k] = G[<<k, f[k - 1]>>]
    BY <1>3, <2>1, Zenon DEF Iterates, Before
  <2> QED
    BY <2>1, <2>2, <1>2
<1> QED
  BY <1>4, <1>5 DEF Recurs
=============================================================================
