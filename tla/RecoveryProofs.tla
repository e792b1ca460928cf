--------------------------- MODULE RecoveryProofs ---------------------------
(***************************************************************************)
(* Theorems about the recovery pipeline and the erasure of files, for any  *)
(* medium, files, limits of the search and scenarios.  The module has      *)
(* three parts: what the walks and searches of FileLocation and Carving    *)
(* return, UseOK for the medium in use, FindsOK and SearchedOK for the     *)
(* tiers.  A recursive function of the model is a CHOOSE; lemma Recursion  *)
(* gives one that follows its step, and a lemma ...Follows for each of     *)
(* them takes the equations over.                                          *)
(***************************************************************************)
EXTENDS Recovery, SequenceTheorems, FiniteSetTheorems, NaturalsInduction, WellFoundedInduction, TLAPS

-----------------------------------------------------------------------------
(* Numbers, finite sets and functions defined by recursion.                *)

(* The least-number principle for a set of numbers.                        *)
LEMMA LeastNumber ==
  ASSUME NEW T \in SUBSET Nat, T # {}
  PROVE  \E x \in T : \A y \in T : x <= y
<1> DEFINE R == OpToRel(<, Nat)
<1>1. IsWellFoundedOn(R, Nat)
  BY NatLessThanWellFounded
<1>2. \A x, y \in Nat : y < x => <<y, x>> \in R
  BY DEF OpToRel
<1> HIDE DEF R
<1>3. PICK x \in T : \A y \in T : ~ (<<y, x>> \in R)
  BY <1>1, <1>2, WFMin
<1>4. T \subseteq Nat
  OBVIOUS
<1>5. \A y \in T : ~ (y < x)
  BY <1>2, <1>3, <1>4, Zenon
<1> QED
  BY <1>4, <1>5

(* Induction up to a bound: what holds of 0 and of every number that       *)
(* follows one of which it holds.                                          *)
LEMMA UpTo ==
  ASSUME NEW N \in Nat, NEW T, 0 \in T,
         \A n \in 1 .. N : n - 1 \in T => n \in T
  PROVE  \A n \in 0 .. N : n \in T
<1> DEFINE U == { n \in 0 .. N : n \notin T }
<1>1. U \in SUBSET Nat
  OBVIOUS
<1>2. ASSUME U # {} PROVE FALSE
  <2>1. PICK n \in U : \A m \in U : n <= m
    <3> HIDE DEF U
    <3> QED BY <1>1, <1>2, LeastNumber
  <2>2. n \in 1 .. N /\ n - 1 \in 0 .. N /\ n - 1 < n
    BY <2>1
  <2>3. n - 1 \in T
    BY <2>1, <2>2
  <2> QED BY <2>1, <2>2, <2>3
<1> QED BY <1>2

(* A function with a recursive definition along 0 .. N exists.             *)
Follows(f, base, N, step) == f[0] = base /\ \A n \in 1 .. N : f[n] = step[n][f[n - 1]]

LEMMA Recursion ==
  ASSUME NEW S, NEW base \in S, NEW N \in Nat, NEW step \in [1 .. N -> [S -> S]]
  PROVE  \E f \in [0 .. N -> S] : Follows(f, base, N, step)
<1> DEFINE Holds(m, f) == f \in [0 .. m -> S] /\ Follows(f, base, m, step)
           T == { m \in 0 .. N : \E f : Holds(m, f) }
<1>1. 0 \in T
  <2>1. Holds(0, [n \in 0 .. 0 |-> base])
    BY DEF Follows
  <2> HIDE DEF Holds
  <2> QED BY <2>1
<1>2. ASSUME NEW n \in 1 .. N, n - 1 \in T PROVE n \in T
  <2>1. PICK f : Holds(n - 1, f)
    <3> HIDE DEF Holds
    <3> QED BY <1>2
  <2> DEFINE g == [m \in 0 .. n |-> IF m = n THEN step[n][f[n - 1]] ELSE f[m]]
  <2>2. f[n - 1] \in S /\ f[0] = base /\ \A m \in 1 .. n - 1 : f[m] = step[m][f[m - 1]]
    BY <2>1 DEF Follows
  <2>3. step[n][f[n - 1]] \in S
    BY <2>2
  <2>4. /\ g \in [0 .. n -> S]
        /\ g[n] = step[n][f[n - 1]] /\ \A m \in 0 .. n - 1 : g[m] = f[m]
    BY <2>1, <2>3
  <2> HIDE DEF g
  <2>5. g[0] = base
    BY <2>2, <2>4
  <2>6. ASSUME NEW m \in 1 .. n PROVE g[m] = step[m][g[m - 1]]
    <3>1. g[m - 1] = f[m - 1]
      BY <2>4
    <3>2. CASE m = n
      BY <2>4, <3>1, <3>2
    <3>3. CASE m # n
      <4>1. m \in 1 .. n - 1 /\ g[m] = f[m]
        BY <2>4, <3>3
      <4> QED BY <2>2, <3>1, <4>1
    <3> QED BY <3>2, <3>3
  <2>7. Holds(n, g)
    BY <2>4, <2>5, <2>6 DEF Follows
  <2> HIDE DEF Holds
  <2> QED BY <2>7
<1>3. N \in T
  <2>1. N \in 0 .. N
    OBVIOUS
  <2> HIDE DEF T
  <2> QED BY <1>1, <1>2, <2>1, UpTo
<1>4. PICK f : Holds(N, f)
  <2> HIDE DEF Holds
  <2> QED BY <1>3
<1> QED BY <1>4

(* The greatest and the least element of a finite set of numbers.          *)
LEMMA BoundedMax ==
  ASSUME NEW T \in SUBSET Nat, T # {}, NEW u \in Nat, \A x \in T : x <= u
  PROVE  Max(T) \in T /\ \A x \in T : x <= Max(T)
<1> DEFINE B == { b \in Nat : \A x \in T : x <= b }
<1>1. PICK b \in B : \A c \in B : b <= c
  <2>1. B \in SUBSET Nat /\ B # {}
    OBVIOUS
  <2> HIDE DEF B
  <2> QED BY <2>1, LeastNumber
<1>2. b \in T
  <2> SUFFICES ASSUME b \notin T PROVE FALSE
    OBVIOUS
  <2>0. PICK x \in T : x <= b
    BY <1>1
  <2>1. b # 0
    BY <2>0
  <2>2. b - 1 \in Nat /\ \A y \in T : y <= b - 1
    BY <1>1, <2>1
  <2> QED BY <1>1, <2>2
<1>3. \E x \in T : \A y \in T : x >= y
  BY <1>1, <1>2
<1>4. /\ Max(T) \in T /\ \A y \in T : Max(T) >= y
  BY <1>3 DEF Max
<1> QED BY <1>4

LEMMA LeastMin ==
  ASSUME NEW T \in SUBSET Nat, T # {}
  PROVE  Min(T) \in T /\ \A x \in T : Min(T) <= x
<1>1. \E x \in T : \A y \in T : x <= y
  BY LeastNumber
<1> QED BY <1>1 DEF Min

LEMMA LeastOfTwo ==
  ASSUME NEW i \in Nat, NEW j \in Nat
  PROVE  Min({i, j}) = IF i <= j THEN i ELSE j
<1> DEFINE U == {i, j}
<1>1. U \in SUBSET Nat /\ i \in U /\ j \in U
  OBVIOUS
<1> HIDE DEF U
<1>2. Min(U) \in U /\ Min(U) <= i /\ Min(U) <= j
  BY <1>1, LeastMin
<1>3. Min(U) = i \/ Min(U) = j
  BY <1>2 DEF U
<1>4. Min(U) = IF i <= j THEN i ELSE j
  BY <1>2, <1>3
<1> QED BY <1>4 DEF U

-----------------------------------------------------------------------------
(* Sequences of extents.                                                   *)

(* A subsequence is built element after element.                           *)
LEMMA SubsequenceFollows ==
  ASSUME NEW S, NEW s \in Seq(S), NEW kept
  PROVE  \E h : /\ h[0] = <<>> /\ Subsequence(s, kept) = h[Len(s)]
                /\ \A n \in 1 .. Len(s) :
                      h[n] = IF n \in kept THEN Append(h[n - 1], s[n]) ELSE h[n - 1]
<1> DEFINE nil == <<>>
           N == Len(s)
           Step(h) == [n \in 0 .. N |->
                         IF n = 0 THEN nil
                         ELSE IF n \in kept THEN Append(h[n - 1], s[n]) ELSE h[n - 1]]
           H == CHOOSE h : h = Step(h)
<1>1. N \in Nat /\ DOMAIN s = 1 .. N
  OBVIOUS
<1>2. H = Step(H)
  <2> DEFINE step == [n \in 1 .. N |-> [q \in Seq(S) |-> IF n \in kept THEN Append(q, s[n]) ELSE q]]
  <2>1. step \in [1 .. N -> [Seq(S) -> Seq(S)]]
    <3> SUFFICES ASSUME NEW q \in Seq(S), NEW n \in 1 .. N
                 PROVE  (IF n \in kept THEN Append(q, s[n]) ELSE q) \in Seq(S)
      OBVIOUS
    <3>1. s[n] \in S
      BY <1>1
    <3> QED BY <3>1
  <2>2. \A q \in Seq(S), n \in 1 .. N :
          step[n][q] = IF n \in kept THEN Append(q, s[n]) ELSE q
    OBVIOUS
  <2> HIDE DEF step, N
  <2>3. PICK f \in [0 .. N -> Seq(S)] : Follows(f, nil, N, step)
    <3>1. nil \in Seq(S)
      BY DEF nil
    <3> HIDE DEF nil
    <3> QED BY <1>1, <2>1, <3>1, Recursion
  <2>4. f[0] = nil /\ \A n \in 1 .. N : f[n] = step[n][f[n - 1]]
    BY <2>3 DEF Follows
  <2> HIDE DEF nil
  <2>5. \A n \in 0 .. N : n # 0 => n \in 1 .. N /\ n - 1 \in 0 .. N
    BY <1>1
  <2>6. \A n \in 0 .. N : f[n] = IF n = 0 THEN nil
                         ELSE IF n \in kept THEN Append(f[n - 1], s[n]) ELSE f[n - 1]
    BY <2>2, <2>4, <2>5
  <2>7. f = Step(f)
    BY <2>4, <2>6
  <2> QED BY <2>7
<1> HIDE DEF H, N
<1>3. H[0] = nil /\ \A n \in 1 .. N : H[n] = IF n \in kept THEN Append(H[n - 1], s[n]) ELSE H[n - 1]
  <2>1. \A n \in 0 .. N : H[n] = IF n = 0 THEN nil
                         ELSE IF n \in kept THEN Append(H[n - 1], s[n]) ELSE H[n - 1]
    BY <1>2, Zenon
  <2>2. 0 \in 0 .. N /\ \A n \in 1 .. N : n \in 0 .. N /\ n # 0
    BY <1>1
  <2> QED BY <2>1, <2>2, Zenon
<1>4. Subsequence(s, kept) = H[N]
  BY DEF Subsequence, H, N, nil
<1> QED BY <1>3, <1>4 DEF N

(* A subsequence holds what was kept, and nothing else.                    *)
LEMMA SubsequenceIs ==
  ASSUME NEW S, NEW s \in Seq(S), NEW kept
  PROVE  /\ Subsequence(s, kept) \in Seq({ s[k] : k \in DOMAIN s \cap kept })
         /\ Len(Subsequence(s, kept)) <= Len(s)
         /\ \A k \in DOMAIN s \cap kept :
               \E i \in DOMAIN Subsequence(s, kept) : Subsequence(s, kept)[i] = s[k]
         /\ DOMAIN s \subseteq kept => Subsequence(s, kept) = s
<1> DEFINE nil == <<>>
           N == Len(s)
           R(n) == { s[k] : k \in (1 .. n) \cap kept }
           Good(n, h) == /\ h \in Seq(R(n)) /\ Len(h) <= n
                         /\ \A k \in (1 .. n) \cap kept : \E i \in 1 .. Len(h) : h[i] = s[k]
                         /\ 1 .. n \subseteq kept => Len(h) = n /\ \A i \in 1 .. n : h[i] = s[i]
<1>1. N \in Nat /\ DOMAIN s = 1 .. N
  OBVIOUS
<1>2. PICK H : /\ H[0] = <<>> /\ Subsequence(s, kept) = H[Len(s)]
                /\ \A n \in 1 .. Len(s) :
                      H[n] = IF n \in kept THEN Append(H[n - 1], s[n]) ELSE H[n - 1]
  BY SubsequenceFollows
<1>3. H[0] = nil /\ \A n \in 1 .. N : H[n] = IF n \in kept THEN Append(H[n - 1], s[n]) ELSE H[n - 1]
  BY <1>2
<1> HIDE DEF N
<1> DEFINE T == { n \in 0 .. N : Good(n, H[n]) }
<1>4. 0 \in T
  <2>1. Good(0, nil)
    <3>1. nil \in Seq(R(0)) /\ Len(nil) = 0
      BY DEF nil
    <3> HIDE DEF R, nil
    <3> QED BY <3>1
  <2>2. Good(0, H[0])
    <3> HIDE DEF Good, nil
    <3> QED BY <1>3, <2>1
  <2> HIDE DEF Good
  <2> QED BY <1>1, <2>2
<1>5. ASSUME NEW n \in 1 .. N, n - 1 \in T PROVE n \in T
  <2> DEFINE q == H[n - 1]
  <2>1. Good(n - 1, q)
    BY <1>5
  <2> HIDE DEF q
  <2>2. q \in Seq(R(n)) /\ Len(q) \in Nat
    <3>1. R(n - 1) \subseteq R(n)
      BY <1>1
    <3>2. Seq(R(n - 1)) \subseteq Seq(R(n))
      <4> HIDE DEF R
      <4> QED BY <3>1
    <3> QED BY <2>1, <3>2
  <2>3. CASE n \in kept
    <3>1. s[n] \in R(n)
      BY <1>1, <2>3
    <3>2. /\ Append(q, s[n]) \in Seq(R(n)) /\ Len(Append(q, s[n])) = Len(q) + 1
          /\ \A i \in 1 .. Len(q) : Append(q, s[n])[i] = q[i]
          /\ Append(q, s[n])[Len(q) + 1] = s[n]
      <4> HIDE DEF R
      <4> QED BY <2>2, <3>1
    <3> DEFINE h == Append(q, s[n])
    <3> HIDE DEF h
    <3>3. /\ h \in Seq(R(n)) /\ Len(h) = Len(q) + 1
          /\ \A i \in 1 .. Len(q) : h[i] = q[i]
          /\ h[Len(q) + 1] = s[n]
      BY <3>2 DEF h
    <3>4. \A k \in (1 .. n) \cap kept : \E i \in 1 .. Len(h) : h[i] = s[k]
      <4> SUFFICES ASSUME NEW k \in (1 .. n) \cap kept PROVE \E i \in 1 .. Len(h) : h[i] = s[k]
        OBVIOUS
      <4>1. CASE k = n
        <5>1. Len(q) + 1 \in 1 .. Len(h)
          BY <2>2, <3>3
        <5> QED BY <3>3, <4>1, <5>1
      <4>2. CASE k # n
        <5>1. k \in (1 .. n - 1) \cap kept
          BY <1>1, <4>2
        <5>2. PICK i \in 1 .. Len(q) : q[i] = s[k]
          BY <2>1, <5>1
        <5>3. i \in 1 .. Len(h)
          BY <2>2, <3>3
        <5> QED BY <3>3, <5>2, <5>3
      <4> QED BY <4>1, <4>2
    <3>5. Len(h) <= n
      BY <2>1, <2>2, <3>3
    <3>6. ASSUME 1 .. n \subseteq kept PROVE Len(h) = n /\ \A i \in 1 .. n : h[i] = s[i]
      <4>0. 1 .. n - 1 \subseteq kept
        BY <3>6
      <4>1. Len(q) = n - 1 /\ \A i \in 1 .. n - 1 : q[i] = s[i]
        BY <2>1, <4>0
      <4>2. \A i \in 1 .. n : i = n \/ i \in 1 .. n - 1
        OBVIOUS
      <4> QED BY <1>1, <3>3, <4>1, <4>2
    <3>7. Good(n, h)
      <4> HIDE DEF R
      <4> QED BY <3>3, <3>4, <3>5, <3>6
    <3>8. H[n] = h
      BY <1>3, <2>3 DEF h, q
    <3> HIDE DEF Good
    <3> QED BY <1>1, <3>7, <3>8
  <2>4. CASE n \notin kept
    <3>1. (1 .. n) \cap kept = (1 .. n - 1) \cap kept /\ ~ (1 .. n \subseteq kept)
      BY <1>1, <2>4
    <3>2. Good(n, q)
      <4> HIDE DEF R
      <4>1. \A k \in (1 .. n) \cap kept : \E i \in 1 .. Len(q) : q[i] = s[k]
        BY <2>1, <3>1
      <4>2. Len(q) <= n
        BY <1>1, <2>1, <2>2
      <4>3. ~ (1 .. n \subseteq kept)
        BY <3>1
      <4> QED BY <2>2, <4>1, <4>2, <4>3
    <3>3. H[n] = q
      BY <1>3, <2>4 DEF q
    <3> HIDE DEF Good
    <3> QED BY <1>1, <3>2, <3>3
  <2> QED BY <2>3, <2>4
<1>6. N \in T
  <2> HIDE DEF T
  <2> QED BY <1>1, <1>4, <1>5, UpTo
<1>7. Good(N, H[N])
  BY <1>6
<1>8. Subsequence(s, kept) = H[N]
  BY <1>2 DEF N
<1>9. (1 .. N) \cap kept = DOMAIN s \cap kept
  BY <1>1
<1>10. DOMAIN H[N] = 1 .. Len(H[N])
  BY <1>7
<1>11. ASSUME DOMAIN s \subseteq kept PROVE H[N] = s
  BY <1>1, <1>7, <1>11, SeqEqual DEF N
<1> QED BY <1>7, <1>8, <1>9, <1>10, <1>11 DEF N

(* All but one element is kept.                                            *)
LEMMA SubsequenceWithout ==
  ASSUME NEW S, NEW s \in Seq(S), NEW kept, NEW k \in 0 .. Len(s) - 1, k + 1 \notin kept,
         \A i \in 1 .. Len(s) : i # k + 1 => i \in kept
  PROVE  /\ Subsequence(s, kept) \in Seq(S) /\ Len(Subsequence(s, kept)) = Len(s) - 1
         /\ \A i \in 1 .. Len(s) - 1 :
               Subsequence(s, kept)[i] = IF i <= k THEN s[i] ELSE s[i + 1]
<1> DEFINE N == Len(s)
           Good(n, q) == /\ q \in Seq(S) /\ Len(q) = IF n <= k THEN n ELSE n - 1
                         /\ \A i \in 1 .. Len(q) : q[i] = IF i <= k THEN s[i] ELSE s[i + 1]
<1>1. PICK H : /\ H[0] = <<>> /\ Subsequence(s, kept) = H[Len(s)]
                /\ \A n \in 1 .. Len(s) :
                      H[n] = IF n \in kept THEN Append(H[n - 1], s[n]) ELSE H[n - 1]
  BY SubsequenceFollows
<1>2. N \in Nat /\ k \in Nat /\ k < N /\ \A i \in 1 .. N : s[i] \in S
  OBVIOUS
<1> DEFINE T == { n \in 0 .. N : Good(n, H[n]) }
<1>3. 0 \in T
  <2>1. <<>> \in Seq(S) /\ Len(<<>>) = 0 /\ 0 \in 0 .. N /\ 0 <= k
    BY <1>2
  <2>2. H[0] \in Seq(S) /\ Len(H[0]) = 0
    BY <1>1, <2>1, Zenon
  <2> QED BY <2>1, <2>2
<1>4. ASSUME NEW n \in 1 .. N, n - 1 \in T PROVE n \in T
  <2> DEFINE q == H[n - 1]
  <2>1. Good(n - 1, q) /\ n \in 0 .. N
    BY <1>2, <1>4
  <2>2. H[n] = IF n \in kept THEN Append(q, s[n]) ELSE q
    BY <1>1
  <2> HIDE DEF q
  <2>3. q \in Seq(S) /\ s[n] \in S
    BY <1>2, <2>1
  <2>4. /\ Append(q, s[n]) \in Seq(S) /\ Len(Append(q, s[n])) = Len(q) + 1
        /\ \A i \in 1 .. Len(q) : Append(q, s[n])[i] = q[i]
        /\ Append(q, s[n])[Len(q) + 1] = s[n]
    BY <2>3, AppendProperties
  <2>5. CASE n = k + 1
    <3>1. H[n] = q /\ Len(q) = k /\ ~ (n <= k) /\ n - 1 = k
      BY <1>2, <2>1, <2>2, <2>5
    <3>2. Good(n, q)
      BY <2>1, <3>1
    <3> QED BY <2>1, <3>1, <3>2
  <2>6. CASE n # k + 1
    <3> DEFINE h == Append(q, s[n])
    <3>1. H[n] = h
      BY <2>2, <2>6
    <3>2. h \in Seq(S) /\ Len(h) = Len(q) + 1 /\ Len(q) \in Nat /\ h[Len(q) + 1] = s[n]
      BY <2>3, <2>4
    <3>3. \A i \in 1 .. Len(q) : h[i] = IF i <= k THEN s[i] ELSE s[i + 1]
      BY <2>1, <2>4
    <3> HIDE DEF h
    <3>4. Len(h) = IF n <= k THEN n ELSE n - 1
      BY <1>2, <2>1, <2>6, <3>2
    <3>5. s[n] = IF Len(q) + 1 <= k THEN s[Len(q) + 1] ELSE s[(Len(q) + 1) + 1]
      BY <1>2, <2>1, <2>6
    <3>6. \A i \in 1 .. Len(h) : i \in 1 .. Len(q) \/ i = Len(q) + 1
      BY <3>2
    <3>7. \A i \in 1 .. Len(h) : h[i] = IF i <= k THEN s[i] ELSE s[i + 1]
      BY <3>2, <3>3, <3>5, <3>6
    <3>8. Good(n, h)
      BY <3>2, <3>4, <3>7
    <3> HIDE DEF Good
    <3> QED BY <2>1, <3>1, <3>8
  <2> QED BY <2>5, <2>6
<1>5. N \in T
  <2>1. N \in Nat /\ N \in 0 .. N
    BY <1>2
  <2> HIDE DEF T, N
  <2> QED BY <1>3, <1>4, <2>1, UpTo
<1>6. Good(N, H[N]) /\ ~ (N <= k)
  BY <1>2, <1>5
<1>7. Subsequence(s, kept) = H[N]
  BY <1>1
<1> HIDE DEF N
<1>8. Len(H[N]) = N - 1
  BY <1>6
<1> QED BY <1>6, <1>7, <1>8 DEF N

(* The sectors of a location, extent after extent.                         *)
Run(x) == [k \in 1 .. x[2] |-> x[1] + k - 1]
Extents == Nat \X Nat

LEMMA RunIs ==
  ASSUME NEW x \in Extents
  PROVE  /\ Run(x) \in Seq(Nat) /\ Len(Run(x)) = x[2] /\ DOMAIN Run(x) = 1 .. x[2]
         /\ \A k \in 1 .. x[2] : Run(x)[k] = x[1] + k - 1
         /\ x[1] \in Nat /\ x[2] \in Nat
<1>1. x[1] \in Nat /\ x[2] \in Nat
  BY DEF Extents
<1>2. \A k \in 1 .. x[2] : x[1] + k - 1 \in Nat
  BY <1>1
<1> QED BY <1>1, <1>2 DEF Run

LEMMA SectorSeqFollows ==
  ASSUME NEW loc \in Seq(Extents)
  PROVE  \E f \in [0 .. Len(loc) -> Seq(Nat)] :
           /\ f[0] = <<>> /\ \A n \in 1 .. Len(loc) : f[n] = f[n - 1] \o Run(loc[n])
           /\ SectorSeq(loc) = f[Len(loc)]
<1> DEFINE nil == <<>>
           N == Len(loc)
           Step(h) == [n \in 0 .. N |-> IF n = 0 THEN nil ELSE h[n - 1] \o Run(loc[n])]
           H == CHOOSE h : h = Step(h)
           step == [n \in 1 .. N |-> [q \in Seq(Nat) |-> q \o Run(loc[n])]]
           T == { n \in 0 .. N : H[n] \in Seq(Nat) }
<1>1. N \in Nat /\ nil \in Seq(Nat)
  OBVIOUS
<1>2. \A n \in 1 .. N : Run(loc[n]) \in Seq(Nat)
  BY RunIs
<1>3. /\ step \in [1 .. N -> [Seq(Nat) -> Seq(Nat)]]
      /\ \A n \in 1 .. N, q \in Seq(Nat) : step[n][q] = q \o Run(loc[n])
  BY <1>2
<1> SUFFICES \E f \in [0 .. N -> Seq(Nat)] :
           /\ f[0] = nil /\ \A n \in 1 .. N : f[n] = f[n - 1] \o Run(loc[n])
           /\ SectorSeq(loc) = f[N]
  OBVIOUS
<1>4. SectorSeq(loc) = H[N]
  BY DEF SectorSeq, Run
<1> HIDE DEF step, N, nil
<1>5. PICK f \in [0 .. N -> Seq(Nat)] : Follows(f, nil, N, step)
  BY <1>1, <1>3, Recursion
<1>6. f[0] = nil /\ \A n \in 1 .. N : f[n] = step[n][f[n - 1]]
  BY <1>5 DEF Follows
<1>7. 0 \in 0 .. N /\ \A n \in 0 .. N : n # 0 => n \in 1 .. N /\ n - 1 \in 0 .. N
  BY <1>1
<1>8. \A n \in 0 .. N : f[n] = IF n = 0 THEN nil ELSE f[n - 1] \o Run(loc[n])
  BY <1>3, <1>6, <1>7
<1>9. f = Step(f)
  BY <1>8
<1>10. H = Step(H)
  BY <1>9
<1> HIDE DEF H
<1>11. \A n \in 0 .. N : H[n] = IF n = 0 THEN nil ELSE H[n - 1] \o Run(loc[n])
  BY <1>10, Zenon
<1>12. H[0] = nil /\ \A n \in 1 .. N : n \in 0 .. N /\ H[n] = H[n - 1] \o Run(loc[n])
  <2>1. \A n \in 1 .. N : n \in 0 .. N /\ n # 0
    BY <1>1
  <2> QED BY <1>7, <1>11, <2>1, Zenon
<1>13. \A n \in 0 .. N : n \in T
  <2>1. 0 \in T
    BY <1>1, <1>7, <1>12
  <2>2. ASSUME NEW n \in 1 .. N, n - 1 \in T PROVE n \in T
    <3>1. H[n - 1] \in Seq(Nat) /\ Run(loc[n]) \in Seq(Nat) /\ n \in 0 .. N
      BY <1>2, <1>12, <2>2
    <3>2. H[n - 1] \o Run(loc[n]) \in Seq(Nat)
      BY <3>1
    <3> QED BY <1>12, <3>1, <3>2
  <2> HIDE DEF T
  <2> QED BY <1>1, <2>1, <2>2, UpTo
<1>14. H \in [0 .. N -> Seq(Nat)]
  BY <1>10, <1>13
<1> QED BY <1>4, <1>12, <1>14

(* The last extent comes last.                                             *)
LEMMA SectorSeqLast ==
  ASSUME NEW loc \in Seq(Extents), NEW rest \in Seq(Extents),
         Len(loc) = Len(rest) + 1, \A i \in 1 .. Len(rest) : rest[i] = loc[i]
  PROVE  SectorSeq(loc) = SectorSeq(rest) \o Run(loc[Len(loc)])
<1>1. PICK f \in [0 .. Len(loc) -> Seq(Nat)] :
           /\ f[0] = <<>> /\ \A n \in 1 .. Len(loc) : f[n] = f[n - 1] \o Run(loc[n])
           /\ SectorSeq(loc) = f[Len(loc)]
  BY SectorSeqFollows
<1>2. PICK g \in [0 .. Len(rest) -> Seq(Nat)] :
           /\ g[0] = <<>> /\ \A n \in 1 .. Len(rest) : g[n] = g[n - 1] \o Run(rest[n])
           /\ SectorSeq(rest) = g[Len(rest)]
  BY SectorSeqFollows
<1> DEFINE N == Len(rest)
           T == { n \in 0 .. N : f[n] = g[n] }
<1>3. /\ N \in Nat /\ Len(loc) = N + 1 /\ Len(rest) = N
      /\ \A n \in 1 .. N : rest[n] = loc[n]
  OBVIOUS
<1> HIDE DEF N
<1>4. 0 \in T
  BY <1>1, <1>2, <1>3
<1>5. ASSUME NEW n \in 1 .. N, n - 1 \in T PROVE n \in T
  <2>1. n \in 1 .. Len(loc) /\ n \in 1 .. Len(rest) /\ rest[n] = loc[n] /\ n \in 0 .. N
    BY <1>3
  <2>2. f[n] = f[n - 1] \o Run(loc[n]) /\ g[n] = g[n - 1] \o Run(rest[n])
    BY <1>1, <1>2, <2>1, Zenon
  <2> QED BY <1>5, <2>1, <2>2, Zenon
<1>6. N \in T
  <2>1. N \in 0 .. N
    BY <1>3
  <2> HIDE DEF T
  <2> QED BY <1>3, <1>4, <1>5, <2>1, UpTo
<1>7. f[N + 1] = f[N] \o Run(loc[N + 1])
  <2>1. N + 1 \in 1 .. Len(loc) /\ (N + 1) - 1 = N
    BY <1>3
  <2> QED BY <1>1, <2>1
<1> QED BY <1>1, <1>2, <1>3, <1>6, <1>7

LEMMA SectorSeqNone == SectorSeq(<<>>) = <<>>
<1>1. <<>> \in Seq(Extents) /\ Len(<<>>) = 0
  OBVIOUS
<1> QED BY <1>1, SectorSeqFollows

(* What comes behind is read behind.                                       *)
LEMMA SectorSeqConcat ==
  ASSUME NEW a \in Seq(Extents), NEW b \in Seq(Extents)
  PROVE  SectorSeq(a \o b) = SectorSeq(a) \o SectorSeq(b)
<1> DEFINE loc == a \o b
           M == Len(a)
           N == Len(b)
<1>1. /\ loc \in Seq(Extents) /\ Len(loc) = M + N /\ M \in Nat /\ N \in Nat
      /\ \A i \in 1 .. M + N : loc[i] = IF i <= M THEN a[i] ELSE b[i - M]
  <2> HIDE DEF Extents
  <2> QED BY ConcatProperties
<1> HIDE DEF loc
<1>2. PICK f \in [0 .. Len(loc) -> Seq(Nat)] :
           /\ f[0] = <<>> /\ \A n \in 1 .. Len(loc) : f[n] = f[n - 1] \o Run(loc[n])
           /\ SectorSeq(loc) = f[Len(loc)]
  BY <1>1, SectorSeqFollows
<1>3. PICK g \in [0 .. Len(a) -> Seq(Nat)] :
           /\ g[0] = <<>> /\ \A n \in 1 .. Len(a) : g[n] = g[n - 1] \o Run(a[n])
           /\ SectorSeq(a) = g[Len(a)]
  BY SectorSeqFollows
<1>4. PICK h \in [0 .. Len(b) -> Seq(Nat)] :
           /\ h[0] = <<>> /\ \A n \in 1 .. Len(b) : h[n] = h[n - 1] \o Run(b[n])
           /\ SectorSeq(b) = h[Len(b)]
  BY SectorSeqFollows
<1>5. Len(loc) = M + N /\ Len(a) = M /\ Len(b) = N
  BY <1>1
<1>6. \A n \in 1 .. N : Run(b[n]) \in Seq(Nat)
  BY RunIs
<1> HIDE DEF M, N
<1> DEFINE T == { n \in 0 .. M : f[n] = g[n] }
           U == { n \in 0 .. N : f[M + n] = g[M] \o h[n] }
<1>7. M \in T
  <2>1. 0 \in T
    BY <1>1, <1>2, <1>3
  <2>2. ASSUME NEW n \in 1 .. M, n - 1 \in T PROVE n \in T
    <3>1. n \in 1 .. Len(loc) /\ n \in 1 .. Len(a) /\ loc[n] = a[n] /\ n \in 0 .. M
      BY <1>1, <1>5
    <3>2. f[n] = f[n - 1] \o Run(loc[n]) /\ g[n] = g[n - 1] \o Run(a[n])
      BY <1>2, <1>3, <3>1, Zenon
    <3> QED BY <2>2, <3>1, <3>2, Zenon
  <2>3. M \in 0 .. M
    BY <1>1
  <2> HIDE DEF T
  <2> QED BY <1>1, <2>1, <2>2, <2>3, UpTo
<1>8. g[M] \in Seq(Nat) /\ \A n \in 0 .. N : h[n] \in Seq(Nat)
  BY <1>1, <1>3, <1>4, <1>5
<1>9. N \in U
  <2>1. 0 \in U
    <3>1. g[M] \o <<>> = g[M]
      BY <1>8, ConcatEmptySeq
    <3>2. M + 0 = M /\ 0 \in 0 .. N
      BY <1>1
    <3> QED BY <1>4, <1>7, <3>1, <3>2
  <2>2. ASSUME NEW n \in 1 .. N, n - 1 \in U PROVE n \in U
    <3> DEFINE m == M + n
    <3>1. /\ m \in 1 .. Len(loc) /\ loc[m] = b[n] /\ n \in 0 .. N /\ n - 1 \in 0 .. N
          /\ m - 1 = M + (n - 1) /\ n \in 1 .. Len(b)
      BY <1>1, <1>5
    <3> HIDE DEF m
    <3>2. f[m] = f[m - 1] \o Run(b[n])
      BY <1>2, <3>1
    <3>3. f[m - 1] = g[M] \o h[n - 1]
      BY <2>2, <3>1
    <3>4. (g[M] \o h[n - 1]) \o Run(b[n]) = g[M] \o (h[n - 1] \o Run(b[n]))
      <4>1. g[M] \in Seq(Nat) /\ h[n - 1] \in Seq(Nat) /\ Run(b[n]) \in Seq(Nat)
        BY <1>6, <1>8, <3>1
      <4> DEFINE x == g[M]
                 y == h[n - 1]
                 z == Run(b[n])
      <4>2. x \in Seq(Nat) /\ y \in Seq(Nat) /\ z \in Seq(Nat)
        BY <4>1
      <4> HIDE DEF x, y, z
      <4>3. (x \o y) \o z = x \o (y \o z)
        BY <4>2, ConcatAssociative, SMTT(60)
      <4> QED BY <4>3 DEF x, y, z
    <3>5. h[n] = h[n - 1] \o Run(b[n])
      BY <1>4, <3>1
    <3>6. f[m] = g[M] \o h[n]
      BY <3>2, <3>3, <3>4, <3>5, Zenon
    <3> QED BY <3>1, <3>6 DEF m
  <2>3. N \in 0 .. N
    BY <1>1
  <2> HIDE DEF U
  <2> QED BY <1>1, <2>1, <2>2, <2>3, UpTo
<1> QED BY <1>2, <1>3, <1>4, <1>5, <1>9 DEF loc

LEMMA ToSetConcat ==
  ASSUME NEW S, NEW s \in Seq(S), NEW t \in Seq(S)
  PROVE  ToSet(s \o t) = ToSet(s) \cup ToSet(t)
<1>1. /\ Len(s \o t) = Len(s) + Len(t) /\ Len(s) \in Nat /\ Len(t) \in Nat
      /\ DOMAIN (s \o t) = 1 .. Len(s) + Len(t) /\ DOMAIN s = 1 .. Len(s) /\ DOMAIN t = 1 .. Len(t)
      /\ \A i \in 1 .. Len(s) + Len(t) : (s \o t)[i] = IF i <= Len(s) THEN s[i] ELSE t[i - Len(s)]
  OBVIOUS
<1> DEFINE u == s \o t
<1> HIDE DEF u
<1>2. /\ DOMAIN u = 1 .. Len(s) + Len(t)
      /\ \A i \in 1 .. Len(s) + Len(t) : u[i] = IF i <= Len(s) THEN s[i] ELSE t[i - Len(s)]
  BY <1>1 DEF u
<1>3. ToSet(u) \subseteq ToSet(s) \cup ToSet(t)
  <2> SUFFICES ASSUME NEW i \in DOMAIN u PROVE u[i] \in ToSet(s) \cup ToSet(t)
    BY DEF ToSet
  <2>1. CASE i <= Len(s)
    BY <1>1, <1>2, <2>1 DEF ToSet
  <2>2. CASE ~ (i <= Len(s))
    <3>1. i - Len(s) \in DOMAIN t /\ u[i] = t[i - Len(s)]
      BY <1>1, <1>2, <2>2
    <3> QED BY <3>1 DEF ToSet
  <2> QED BY <2>1, <2>2
<1>4. ToSet(s) \subseteq ToSet(u)
  <2> SUFFICES ASSUME NEW i \in DOMAIN s PROVE s[i] \in ToSet(u)
    BY DEF ToSet
  <2>1. i \in DOMAIN u /\ u[i] = s[i]
    BY <1>1, <1>2
  <2> QED BY <2>1 DEF ToSet
<1>5. ToSet(t) \subseteq ToSet(u)
  <2> SUFFICES ASSUME NEW i \in DOMAIN t PROVE t[i] \in ToSet(u)
    BY DEF ToSet
  <2>1. i + Len(s) \in DOMAIN u /\ u[i + Len(s)] = t[i]
    BY <1>1, <1>2
  <2> QED BY <2>1 DEF ToSet
<1> QED BY <1>3, <1>4, <1>5 DEF u

LEMMA ToSetRun ==
  ASSUME NEW x \in Extents
  PROVE  ToSet(Run(x)) = Sectors(x)
<1>1. /\ DOMAIN Run(x) = 1 .. x[2] /\ \A k \in 1 .. x[2] : Run(x)[k] = x[1] + k - 1
      /\ x[1] \in Nat /\ x[2] \in Nat
  BY RunIs
<1>2. ASSUME NEW l \in Sectors(x) PROVE l \in ToSet(Run(x))
  <2>1. l \in x[1] .. x[1] + x[2] - 1
    BY DEF Sectors
  <2>2. l - x[1] + 1 \in 1 .. x[2] /\ x[1] + (l - x[1] + 1) - 1 = l
    BY <1>1, <2>1
  <2> QED BY <1>1, <2>2 DEF ToSet
<1>3. ASSUME NEW k \in 1 .. x[2] PROVE Run(x)[k] \in Sectors(x)
  BY <1>1 DEF Sectors
<1> QED BY <1>1, <1>2, <1>3 DEF ToSet

(* The sectors that are read are those that are covered.                   *)
LEMMA SectorSeqIs ==
  ASSUME NEW loc \in Seq(Extents)
  PROVE  /\ SectorSeq(loc) \in Seq(Nat)
         /\ ToSet(SectorSeq(loc)) = Covered(loc)
<1> DEFINE N == Len(loc)
           C(n) == UNION { Sectors(loc[i]) : i \in 1 .. n }
<1>0. N \in Nat /\ DOMAIN loc = 1 .. N
  OBVIOUS
<1>1. PICK f \in [0 .. N -> Seq(Nat)] :
           /\ f[0] = <<>> /\ \A n \in 1 .. N : f[n] = f[n - 1] \o Run(loc[n])
           /\ SectorSeq(loc) = f[N]
  BY SectorSeqFollows
<1>2. \A n \in 1 .. N : loc[n] \in Extents
  OBVIOUS
<1> DEFINE T == { n \in 0 .. N : ToSet(f[n]) = C(n) }
<1>3. 0 \in T
  <2>1. ToSet(f[0]) = {}
    BY <1>1 DEF ToSet
  <2>2. C(0) = {}
    OBVIOUS
  <2> QED BY <1>0, <2>1, <2>2
<1>4. ASSUME NEW n \in 1 .. N, n - 1 \in T PROVE n \in T
  <2>1. f[n - 1] \in Seq(Nat) /\ Run(loc[n]) \in Seq(Nat) /\ n \in 0 .. N
    BY <1>0, <1>2, <1>4, RunIs
  <2>2. ToSet(f[n]) = ToSet(f[n - 1]) \cup Sectors(loc[n])
    <3>1. ToSet(f[n - 1] \o Run(loc[n])) = ToSet(f[n - 1]) \cup ToSet(Run(loc[n]))
      BY <2>1, ToSetConcat
    <3>2. ToSet(Run(loc[n])) = Sectors(loc[n])
      BY <1>2, ToSetRun
    <3>3. f[n] = f[n - 1] \o Run(loc[n])
      BY <1>1
    <3> QED BY <3>1, <3>2, <3>3, Zenon
  <2>3. C(n) = C(n - 1) \cup Sectors(loc[n])
    <3>1. \A i \in 1 .. n : i \in 1 .. n - 1 \/ i = n
      BY <1>0
    <3>2. \A i \in 1 .. n - 1 : i \in 1 .. n
      BY <1>0
    <3>3. n \in 1 .. n
      BY <1>0
    <3> QED BY <3>1, <3>2, <3>3
  <2> QED BY <1>4, <2>1, <2>2, <2>3
<1>5. N \in T
  <2>1. N \in 0 .. N
    BY <1>0
  <2> HIDE DEF T, N
  <2> QED BY <1>0, <1>3, <1>4, <2>1, UpTo
<1>6. f[N] \in Seq(Nat)
  BY <1>0
<1>7. Covered(loc) = C(N)
  BY <1>0 DEF Covered
<1> QED BY <1>1, <1>5, <1>6, <1>7

(* clusters_to_extents: the extents read like the clusters.                *)
Runs1 == Nat \X (Nat \ {0})

LEMMA FrontIs ==
  ASSUME NEW S, NEW s \in Seq(S), Len(s) >= 1
  PROVE  /\ SubSeq(s, 1, Len(s) - 1) \in Seq(S) /\ Len(SubSeq(s, 1, Len(s) - 1)) = Len(s) - 1
         /\ \A i \in 1 .. Len(s) - 1 : SubSeq(s, 1, Len(s) - 1)[i] = s[i]
<1> DEFINE n == Len(s) - 1
<1>1. n \in Nat /\ \A i \in 1 .. n : s[i] \in S
  OBVIOUS
<1> HIDE DEF n
<1>2. /\ SubSeq(s, 1, n) \in Seq(S) /\ Len(SubSeq(s, 1, n)) = IF 1 <= n THEN n - 1 + 1 ELSE 0
      /\ \A i \in 1 .. n - 1 + 1 : SubSeq(s, 1, n)[i] = s[1 + i - 1]
  BY <1>1, SubSeqProperties
<1>3. Len(SubSeq(s, 1, n)) = n
  BY <1>1, <1>2
<1>4. \A i \in 1 .. n : i \in 1 .. n - 1 + 1 /\ 1 + i - 1 = i
  BY <1>1
<1>5. \A i \in 1 .. n : SubSeq(s, 1, n)[i] = s[i]
  BY <1>2, <1>4
<1> QED BY <1>2, <1>3, <1>5 DEF n

LEMMA ExtendedIs ==
  ASSUME NEW runs \in Seq(Runs1), NEW lba \in Nat
  PROVE  /\ Extended(runs, lba) \in Seq(Runs1) /\ Extended(runs, lba) # <<>>
         /\ SectorSeq(Extended(runs, lba)) = Append(SectorSeq(runs), lba)
<1>1. Seq(Runs1) \subseteq Seq(Extents)
  <2>1. Runs1 \subseteq Extents
    BY DEF Runs1, Extents
  <2> HIDE DEF Runs1, Extents
  <2> QED BY <2>1
<1>2. SectorSeq(runs) \in Seq(Nat)
  BY <1>1, SectorSeqIs
<1> DEFINE N == Len(runs)
<1>3. N \in Nat
  OBVIOUS
<1>4. CASE runs # <<>> /\ lba = Last(runs)[1] + Last(runs)[2]
  <2> DEFINE x == runs[N]
             y == <<x[1], x[2] + 1>>
             ext == [runs EXCEPT ![N] = y]
             rest == SubSeq(runs, 1, N - 1)
  <2>1. N >= 1 /\ x \in Runs1 /\ lba = x[1] + x[2]
    BY <1>3, <1>4 DEF Last
  <2>2. y \in Runs1 /\ y[1] = x[1] /\ y[2] = x[2] + 1 /\ x[1] \in Nat /\ x[2] \in Nat
    BY <2>1 DEF Runs1
  <2> HIDE DEF y
  <2>3. /\ ext \in Seq(Runs1) /\ Len(ext) = N /\ ext[N] = y
        /\ \A i \in 1 .. N - 1 : ext[i] = runs[i]
    BY <2>1, <2>2
  <2>4. /\ rest \in Seq(Runs1) /\ Len(rest) = N - 1
        /\ \A i \in 1 .. N - 1 : rest[i] = runs[i]
    BY <2>1, FrontIs
  <2>5. Extended(runs, lba) = ext
    BY <1>4 DEF Extended, Last, y
  <2> HIDE DEF ext, rest, N
  <2>6. SectorSeq(ext) = SectorSeq(rest) \o Run(y)
    <3>1. Len(ext) = Len(rest) + 1 /\ \A i \in 1 .. Len(rest) : rest[i] = ext[i]
      BY <1>3, <2>3, <2>4
    <3>2. ext \in Seq(Extents) /\ rest \in Seq(Extents)
      BY <1>1, <2>3, <2>4
    <3> QED BY <2>3, <3>1, <3>2, SectorSeqLast
  <2>7. SectorSeq(runs) = SectorSeq(rest) \o Run(x)
    <3>1. Len(runs) = Len(rest) + 1 /\ \A i \in 1 .. Len(rest) : rest[i] = runs[i]
      BY <1>3, <2>3, <2>4 DEF N
    <3>2. runs \in Seq(Extents) /\ rest \in Seq(Extents)
      BY <1>1, <2>3, <2>4
    <3> QED BY <3>1, <3>2, SectorSeqLast DEF N
  <2>8. Run(y) = Append(Run(x), lba)
    <3>1. x \in Extents /\ y \in Extents
      BY <2>1, <2>2 DEF Runs1, Extents
    <3>2. /\ Run(y) \in Seq(Nat) /\ Len(Run(y)) = x[2] + 1
          /\ \A k \in 1 .. x[2] + 1 : Run(y)[k] = x[1] + k - 1
      BY <2>2, <3>1, RunIs
    <3>3. /\ Run(x) \in Seq(Nat) /\ Len(Run(x)) = x[2]
          /\ \A k \in 1 .. x[2] : Run(x)[k] = x[1] + k - 1
      BY <2>2, <3>1, RunIs
    <3>4. /\ Append(Run(x), lba) \in Seq(Nat) /\ Len(Append(Run(x), lba)) = x[2] + 1
          /\ \A k \in 1 .. x[2] : Append(Run(x), lba)[k] = x[1] + k - 1
          /\ Append(Run(x), lba)[x[2] + 1] = lba
      BY <3>3
    <3>5. \A k \in 1 .. x[2] + 1 : k \in 1 .. x[2] \/ (k = x[2] + 1 /\ x[1] + k - 1 = lba)
      BY <2>1, <2>2
    <3>6. \A k \in 1 .. x[2] + 1 : Run(y)[k] = Append(Run(x), lba)[k]
      BY <3>2, <3>4, <3>5
    <3> QED BY <3>2, <3>4, <3>6, SeqEqual
  <2>9. SectorSeq(rest) \o Append(Run(x), lba) = Append(SectorSeq(rest) \o Run(x), lba)
    <3>1. SectorSeq(rest) \in Seq(Nat) /\ Run(x) \in Seq(Nat)
      <4>1. rest \in Seq(Extents) /\ x \in Extents
        BY <1>1, <2>1, <2>4 DEF Runs1, Extents
      <4> QED BY <4>1, SectorSeqIs, RunIs
    <3> DEFINE p == SectorSeq(rest)
               q == Run(x)
    <3> HIDE DEF p, q
    <3>2. p \in Seq(Nat) /\ q \in Seq(Nat)
      BY <3>1 DEF p, q
    <3>3. p \o Append(q, lba) = Append(p \o q, lba)
      BY <3>2
    <3> QED BY <3>3 DEF p, q
  <2>10. ext # <<>>
    BY <2>1, <2>3
  <2> QED BY <2>3, <2>5, <2>6, <2>7, <2>8, <2>9, <2>10
<1>5. CASE ~ (runs # <<>> /\ lba = Last(runs)[1] + Last(runs)[2])
  <2> DEFINE y == <<lba, 1>>
             ext == Append(runs, y)
  <2>1. y \in Runs1 /\ y[1] = lba /\ y[2] = 1
    BY DEF Runs1
  <2> HIDE DEF y
  <2>2. /\ ext \in Seq(Runs1) /\ Len(ext) = N + 1 /\ ext[N + 1] = y /\ ext # <<>>
        /\ \A i \in 1 .. N : ext[i] = runs[i]
    BY <2>1, AppendProperties
  <2>3. Extended(runs, lba) = ext
    BY <1>5 DEF Extended, y
  <2> HIDE DEF ext
  <2>4. SectorSeq(ext) = SectorSeq(runs) \o Run(y)
    <3>1. Len(ext) = Len(runs) + 1 /\ \A i \in 1 .. Len(runs) : runs[i] = ext[i]
      BY <2>2
    <3>2. ext \in Seq(Extents) /\ runs \in Seq(Extents)
      BY <1>1, <2>2
    <3> QED BY <2>2, <3>1, <3>2, SectorSeqLast
  <2>5. Run(y) = <<lba>>
    BY <2>1 DEF Run
  <2>6. SectorSeq(runs) \o <<lba>> = Append(SectorSeq(runs), lba)
    BY <1>2
  <2> QED BY <2>2, <2>3, <2>4, <2>5, <2>6
<1> QED BY <1>4, <1>5

LEMMA ClustersToExtentsIs ==
  ASSUME NEW clusters \in Seq(Nat), \A i \in 1 .. Len(clusters) : clusters[i] >= 2
  PROVE  /\ ClustersToExtents(clusters) \in Seq(Runs1)
         /\ SectorSeq(ClustersToExtents(clusters)) = [i \in 1 .. Len(clusters) |-> clusters[i] - 2]
         /\ clusters # <<>> => ClustersToExtents(clusters) # <<>>
<1> DEFINE nil == <<>>
           N == Len(clusters)
           lba(n) == ClusterToLba(clusters[n])
           Step(h) == [n \in 0 .. N |-> IF n = 0 THEN nil ELSE Extended(h[n - 1], lba(n))]
           H == CHOOSE h : h = Step(h)
           step == [n \in 1 .. N |-> [q \in Seq(Runs1) |-> Extended(q, lba(n))]]
           Read(n) == [i \in 1 .. n |-> lba(i)]
           Good(n, h) == /\ h \in Seq(Runs1) /\ SectorSeq(h) = Read(n)
                         /\ n > 0 => h # nil
           T == { n \in 0 .. N : Good(n, H[n]) }
<1>1. N \in Nat /\ nil \in Seq(Runs1) /\ \A n \in 1 .. N : n \in 0 .. N /\ n # 0 /\ n - 1 \in 0 .. N
  OBVIOUS
<1>2. \A n \in 1 .. N : lba(n) \in Nat /\ lba(n) = clusters[n] - 2
  BY DEF ClusterToLba
<1>3. /\ step \in [1 .. N -> [Seq(Runs1) -> Seq(Runs1)]]
      /\ \A n \in 1 .. N, q \in Seq(Runs1) : step[n][q] = Extended(q, lba(n))
  BY <1>2, ExtendedIs
<1>4. ClustersToExtents(clusters) = H[N]
  BY DEF ClustersToExtents
<1>5. SectorSeq(nil) = Read(0)
  <2>1. Read(0) = nil
    OBVIOUS
  <2> QED BY <2>1, SectorSeqNone
<1>6. clusters # <<>> => N > 0
  OBVIOUS
<1>7. Read(N) = [i \in 1 .. Len(clusters) |-> clusters[i] - 2]
  BY <1>2
<1>8. \A n \in 1 .. N : Append(Read(n - 1), lba(n)) = Read(n)
  <2> SUFFICES ASSUME NEW n \in 1 .. N PROVE Append(Read(n - 1), lba(n)) = Read(n)
    OBVIOUS
  <2>1. /\ \A i \in 1 .. n - 1 : lba(i) \in Nat
        /\ \A i \in 1 .. n : lba(i) \in Nat
    BY <1>1, <1>2
  <2>2. Read(n - 1) \in Seq(Nat) /\ Len(Read(n - 1)) = n - 1
    BY <1>1, <2>1
  <2>3. Read(n) \in Seq(Nat) /\ Len(Read(n)) = n
    BY <1>1, <2>1
  <2>4. /\ Append(Read(n - 1), lba(n)) \in Seq(Nat) /\ Len(Append(Read(n - 1), lba(n))) = n
        /\ \A i \in 1 .. n - 1 : Append(Read(n - 1), lba(n))[i] = Read(n - 1)[i]
        /\ Append(Read(n - 1), lba(n))[n] = lba(n)
    <3> HIDE DEF Read, lba
    <3> QED BY <1>1, <1>2, <2>2, AppendProperties
  <2>5. \A i \in 1 .. n - 1 : Read(n - 1)[i] = Read(n)[i]
    BY <1>1
  <2>6. Read(n)[n] = lba(n)
    BY <1>1
  <2>7. \A i \in 1 .. n : i \in 1 .. n - 1 \/ i = n
    BY <1>1
  <2> HIDE DEF Read
  <2> QED BY <2>3, <2>4, <2>5, <2>6, <2>7, SeqEqual
<1> HIDE DEF step, N, nil, lba
<1>9. PICK f \in [0 .. N -> Seq(Runs1)] : Follows(f, nil, N, step)
  BY <1>1, <1>3, Recursion
<1>10. f[0] = nil /\ \A n \in 1 .. N : f[n] = step[n][f[n - 1]]
  BY <1>9 DEF Follows
<1>11. \A n \in 0 .. N : f[n] = IF n = 0 THEN nil ELSE Extended(f[n - 1], lba(n))
  <2> SUFFICES ASSUME NEW n \in 0 .. N, n # 0 PROVE f[n] = Extended(f[n - 1], lba(n))
    BY <1>10
  <2>1. n \in 1 .. N /\ n - 1 \in 0 .. N
    BY <1>1
  <2> QED BY <1>3, <1>10, <2>1
<1>12. f = Step(f)
  BY <1>11
<1>13. H = Step(H)
  BY <1>12
<1> HIDE DEF H
<1>14. \A n \in 0 .. N : H[n] = IF n = 0 THEN nil ELSE Extended(H[n - 1], lba(n))
  BY <1>13, Zenon
<1>15. H[0] = nil /\ \A n \in 1 .. N : H[n] = Extended(H[n - 1], lba(n))
  <2>1. 0 \in 0 .. N
    BY <1>1
  <2> QED BY <1>1, <1>14, <2>1, Zenon
<1>16. 0 \in T
  <2> HIDE DEF Read
  <2> QED BY <1>1, <1>5, <1>15
<1>17. ASSUME NEW n \in 1 .. N, n - 1 \in T PROVE n \in T
  <2>1. H[n - 1] \in Seq(Runs1) /\ SectorSeq(H[n - 1]) = Read(n - 1)
    BY <1>17
  <2>2. /\ Extended(H[n - 1], lba(n)) \in Seq(Runs1) /\ Extended(H[n - 1], lba(n)) # <<>>
        /\ SectorSeq(Extended(H[n - 1], lba(n))) = Append(SectorSeq(H[n - 1]), lba(n))
    BY <1>2, <2>1, ExtendedIs
  <2>3. SectorSeq(H[n]) = Read(n)
    BY <1>8, <1>15, <2>1, <2>2, Zenon
  <2>4. H[n] \in Seq(Runs1) /\ H[n] # nil
    BY <1>15, <2>2 DEF nil
  <2> HIDE DEF Read
  <2> QED BY <1>1, <2>3, <2>4
<1>18. N \in T
  <2>1. N \in 0 .. N
    BY <1>1
  <2> HIDE DEF T
  <2> QED BY <1>1, <1>16, <1>17, <2>1, UpTo
<1>19. Good(N, H[N])
  BY <1>18
<1> HIDE DEF Read
<1> QED BY <1>4, <1>6, <1>7, <1>19 DEF nil

(* follow_chain: the walk through the table.                               *)
IsTable(cells) == DOMAIN cells = 2 .. Total + 1 /\ \A c \in DOMAIN cells : cells[c] \in Int

LEMMA NextClusterIs ==
  ASSUME NEW cells, IsTable(cells), NEW c \in Int
  PROVE  NextCluster(cells, c) \in Int
BY DEF NextCluster, IsTable

LEMMA ChainCellIs ==
  ASSUME NEW cells, IsTable(cells), NEW start \in Int
  PROVE  LET cell == ChainCell(cells, start)
         IN  /\ cell \in [0 .. Total + 1 -> Int] /\ cell[0] = start
             /\ \A n \in 1 .. Total + 1 :
                  cell[n] = IF cell[n - 1] < 2 THEN 0 ELSE NextCluster(cells, cell[n - 1])
<1> DEFINE N == Cardinality(DOMAIN cells) + 1
           next(c) == IF c < 2 THEN 0 ELSE NextCluster(cells, c)
           Step(h) == [n \in 0 .. N |-> IF n = 0 THEN start ELSE next(h[n - 1])]
           H == CHOOSE h : h = Step(h)
           step == [n \in 1 .. N |-> [c \in Int |-> next(c)]]
           T == { n \in 0 .. N : H[n] \in Int }
<1>1. N = Total + 1 /\ N \in Nat
  <2>1. Total \in Nat
    BY LimitsAssumption
  <2>2. Cardinality(2 .. Total + 1) = IF 2 > Total + 1 THEN 0 ELSE Total + 1 - 2 + 1
    BY <2>1, FS_Interval
  <2>3. Cardinality(2 .. Total + 1) = Total
    BY <2>1, <2>2
  <2> QED BY <2>1, <2>3 DEF IsTable
<1>2. ChainCell(cells, start) = H
  BY DEF ChainCell
<1>3. \A c \in Int : next(c) \in Int
  BY NextClusterIs
<1> HIDE DEF N, next
<1>4. /\ step \in [1 .. N -> [Int -> Int]]
      /\ \A n \in 1 .. N, c \in Int : step[n][c] = next(c)
  BY <1>3
<1>5. /\ 0 \in 0 .. N /\ \A n \in 1 .. N : n \in 0 .. N /\ n # 0 /\ n - 1 \in 0 .. N
      /\ \A n \in 0 .. N : n # 0 => n \in 1 .. N
  BY <1>1
<1> HIDE DEF step
<1>6. PICK f \in [0 .. N -> Int] : Follows(f, start, N, step)
  BY <1>1, <1>4, Recursion
<1>7. f[0] = start /\ \A n \in 1 .. N : f[n] = step[n][f[n - 1]]
  BY <1>6 DEF Follows
<1>8. \A n \in 0 .. N : f[n] = IF n = 0 THEN start ELSE next(f[n - 1])
  <2> SUFFICES ASSUME NEW n \in 0 .. N, n # 0 PROVE f[n] = next(f[n - 1])
    BY <1>7
  <2>1. n \in 1 .. N /\ n - 1 \in 0 .. N
    BY <1>5
  <2> QED BY <1>4, <1>7, <2>1
<1>9. f = Step(f)
  BY <1>8
<1>10. H = Step(H)
  BY <1>9
<1> HIDE DEF H
<1>11. \A n \in 0 .. N : H[n] = IF n = 0 THEN start ELSE next(H[n - 1])
  BY <1>10, Zenon
<1>12. H[0] = start /\ \A n \in 1 .. N : H[n] = next(H[n - 1])
  BY <1>5, <1>11, Zenon
<1>13. \A n \in 0 .. N : n \in T
  <2>1. 0 \in T
    BY <1>5, <1>12
  <2>2. ASSUME NEW n \in 1 .. N, n - 1 \in T PROVE n \in T
    BY <1>3, <1>5, <1>12, <2>2
  <2> HIDE DEF T
  <2> QED BY <1>1, <2>1, <2>2, UpTo
<1>14. H \in [0 .. N -> Int]
  BY <1>10, <1>13
<1> QED BY <1>1, <1>2, <1>12, <1>14 DEF next

LEMMA FollowChainIs ==
  ASSUME NEW cells, IsTable(cells), NEW start \in Nat
  PROVE  LET chain == FollowChain(cells, start)
             cell  == ChainCell(cells, start)
         IN  /\ chain \in Seq(Nat) /\ \A i \in 1 .. Len(chain) : chain[i] >= 2 /\ chain[i] = cell[i - 1]
             /\ Len(chain) \in 0 .. Total + 2
             /\ Len(chain) <= Total + 1 => cell[Len(chain)] < 2
<1> DEFINE cell == ChainCell(cells, start)
           ended == { n \in DOMAIN cell : cell[n] < 2 }
           N == IF ended = {} THEN Cardinality(DOMAIN cell) ELSE Min(ended)
           chain == [n \in 1 .. N |-> cell[n - 1]]
<1>1. FollowChain(cells, start) = chain
  BY DEF FollowChain
<1>2. cell \in [0 .. Total + 1 -> Int]
  BY ChainCellIs
<1> HIDE DEF cell
<1>3. Total \in Nat /\ DOMAIN cell = 0 .. Total + 1
  BY <1>2, LimitsAssumption
<1>4. N \in 0 .. Total + 2 /\ (N <= Total + 1 => cell[N] < 2) /\ \A n \in 0 .. N - 1 : n \in DOMAIN cell /\ cell[n] >= 2
  <2>1. CASE ended = {}
    <3>1. Cardinality(0 .. Total + 1) = IF 0 > Total + 1 THEN 0 ELSE Total + 1 - 0 + 1
      BY <1>3, FS_Interval
    <3>2. N = Total + 2
      BY <1>3, <2>1, <3>1
    <3>3. \A n \in 0 .. N - 1 : n \in DOMAIN cell
      BY <1>3, <3>2
    <3>4. \A n \in DOMAIN cell : cell[n] >= 2
      BY <1>2, <1>3, <2>1
    <3> QED BY <1>3, <3>2, <3>3, <3>4
  <2>2. CASE ended # {}
    <3>1. ended \in SUBSET Nat
      BY <1>3
    <3>2. Min(ended) \in ended /\ \A x \in ended : Min(ended) <= x
      <4> HIDE DEF ended
      <4> QED BY <2>2, <3>1, LeastMin
    <3>3. N = Min(ended)
      BY <2>2
    <3>4. N \in ended /\ \A x \in ended : N <= x
      BY <3>2, <3>3, Zenon
    <3> HIDE DEF N
    <3>5. \A n \in 0 .. N - 1 : n \in DOMAIN cell /\ n \notin ended
      BY <1>3, <3>4
    <3>6. \A n \in 0 .. N - 1 : n \in DOMAIN cell /\ cell[n] >= 2
      BY <1>2, <1>3, <3>5
    <3> QED BY <1>3, <3>4, <3>6
  <2> QED BY <2>1, <2>2
<1> HIDE DEF N
<1>5. \A i \in 1 .. N : i - 1 \in 0 .. N - 1
  BY <1>4
<1>6. \A i \in 1 .. N : cell[i - 1] \in Nat /\ cell[i - 1] >= 2
  BY <1>2, <1>3, <1>4, <1>5
<1>7. chain \in Seq(Nat) /\ Len(chain) = N /\ \A i \in 1 .. N : chain[i] = cell[i - 1]
  BY <1>3, <1>4, <1>6
<1> HIDE DEF chain
<1> QED BY <1>1, <1>4, <1>6, <1>7 DEF cell

(* The cells of a file that lies at p, one after the other.                *)
Linked(cells, p) ==
  \A i \in 1 .. Len(p) : cells[p[i] + 2] = IF i = Len(p) THEN EndCell ELSE p[i + 1] + 2

LEMMA InjectiveLength ==
  ASSUME NEW p \in Seq(Lba), IsInjective(p)
  PROVE  Len(p) <= Total
<1>1. p \in Injection(1 .. Len(p), Lba)
  BY DEF Injection
<1>2. /\ Total \in Nat /\ IsFiniteSet(Lba)
      /\ Cardinality(Lba) = IF 0 > Total - 1 THEN 0 ELSE Total - 1 - 0 + 1
  BY LimitsAssumption, FS_Interval DEF Lba
<1>3. Cardinality(1 .. Len(p)) <= Cardinality(Lba)
  BY <1>1, <1>2, FS_Injection
<1>4. Cardinality(1 .. Len(p)) = IF 1 > Len(p) THEN 0 ELSE Len(p) - 1 + 1
  BY FS_Interval
<1> QED BY <1>2, <1>3, <1>4

LEMMA LinkedChain ==
  ASSUME NEW cells, IsTable(cells), NEW p \in Seq(Lba), IsInjective(p), p # <<>>, Linked(cells, p)
  PROVE  FollowChain(cells, p[1] + 2) = [i \in 1 .. Len(p) |-> p[i] + 2]
<1> DEFINE N == Len(p)
           start == p[1] + 2
           chain == FollowChain(cells, start)
           cell  == ChainCell(cells, start)
<1>1. N \in Nat /\ N >= 1 /\ N <= Total /\ Total \in Nat /\ \A i \in 1 .. N : p[i] \in 0 .. Total - 1
  BY InjectiveLength, LimitsAssumption DEF Lba
<1>2. start \in Nat /\ start \in Int
  BY <1>1
<1>3. /\ cell \in [0 .. Total + 1 -> Int] /\ cell[0] = start
      /\ \A n \in 1 .. Total + 1 :
           cell[n] = IF cell[n - 1] < 2 THEN 0 ELSE NextCluster(cells, cell[n - 1])
  BY <1>2, ChainCellIs
<1>4. /\ chain \in Seq(Nat) /\ \A i \in 1 .. Len(chain) : chain[i] >= 2 /\ chain[i] = cell[i - 1]
      /\ Len(chain) \in 0 .. Total + 2
      /\ Len(chain) <= Total + 1 => cell[Len(chain)] < 2
  BY <1>2, FollowChainIs
<1> HIDE DEF cell, chain
<1>5. \A n \in 0 .. N - 1 : cell[n] = p[n + 1] + 2
  <2> DEFINE T == { n \in 0 .. N - 1 : cell[n] = p[n + 1] + 2 }
  <2>1. 0 \in T
    BY <1>1, <1>3
  <2>2. ASSUME NEW n \in 1 .. N - 1, n - 1 \in T PROVE n \in T
    <3>1. cell[n - 1] = p[n] + 2 /\ n \in 1 .. N /\ n # N
      BY <1>1, <2>2
    <3>2. p[n] + 2 \in DOMAIN cells /\ p[n] + 2 >= 2 /\ p[n + 1] \in 0 .. Total - 1
      BY <1>1, <3>1 DEF IsTable
    <3>3. cells[p[n] + 2] = p[n + 1] + 2
      BY <3>1 DEF Linked
    <3>4. NextCluster(cells, p[n] + 2) = p[n + 1] + 2
      BY <3>2, <3>3 DEF NextCluster, FreeCell, BadCell, EndCell
    <3>5. n \in 1 .. Total + 1 /\ n \in 0 .. N - 1 /\ ~ (p[n] + 2 < 2)
      BY <1>1, <3>1, <3>2
    <3>6. cell[n] = NextCluster(cells, p[n] + 2)
      BY <1>3, <3>1, <3>5
    <3> QED BY <3>4, <3>5, <3>6
  <2>3. N - 1 \in Nat
    BY <1>1
  <2> HIDE DEF T, N
  <2>4. \A n \in 0 .. N - 1 : n \in T
    BY <2>1, <2>2, <2>3, UpTo
  <2> QED BY <2>4 DEF T
<1>6. cell[N] = 0
  <2>1. cell[N - 1] = p[N] + 2 /\ N \in 1 .. N /\ N \in 1 .. Total + 1
    BY <1>1, <1>5
  <2>2. p[N] + 2 \in DOMAIN cells /\ p[N] + 2 >= 2
    BY <1>1 DEF IsTable
  <2>3. cells[p[N] + 2] = EndCell
    BY <2>1 DEF Linked
  <2>4. NextCluster(cells, p[N] + 2) = 0
    BY <2>2, <2>3 DEF NextCluster
  <2> QED BY <1>3, <2>1, <2>2, <2>4
<1>7. Len(chain) = N
  <2>1. ASSUME Len(chain) > N PROVE FALSE
    <3>1. N + 1 \in 1 .. Len(chain) /\ (N + 1) - 1 = N
      BY <1>1, <1>4, <2>1
    <3>2. chain[N + 1] >= 2 /\ chain[N + 1] = cell[N]
      BY <1>4, <3>1
    <3> QED BY <1>6, <3>2
  <2>2. ASSUME Len(chain) < N PROVE FALSE
    <3>1. Len(chain) \in 0 .. N - 1 /\ Len(chain) <= Total + 1 /\ Len(chain) + 1 \in 1 .. N
      BY <1>1, <1>4, <2>2
    <3>2. cell[Len(chain)] = p[Len(chain) + 1] + 2 /\ cell[Len(chain)] < 2
      BY <1>4, <1>5, <3>1
    <3> QED BY <1>1, <3>1, <3>2
  <2> QED BY <1>1, <1>4, <2>1, <2>2
<1>8. \A i \in 1 .. N : chain[i] = p[i] + 2
  <2> SUFFICES ASSUME NEW i \in 1 .. N PROVE chain[i] = p[i] + 2
    OBVIOUS
  <2>1. i - 1 \in 0 .. N - 1 /\ (i - 1) + 1 = i /\ i \in 1 .. Len(chain)
    BY <1>1, <1>7
  <2> QED BY <1>4, <1>5, <2>1
<1>9. chain = [i \in 1 .. N |-> chain[i]]
  BY <1>4, <1>7
<1> QED BY <1>8, <1>9 DEF chain

(* The runs of a file that lies at p read like p.                          *)
LEMMA RunsAre ==
  ASSUME NEW p \in Seq(Lba)
  PROVE  /\ Runs(p) \in Seq(Runs1) /\ SectorSeq(Runs(p)) = p
         /\ p # <<>> => Runs(p) # <<>>
<1> DEFINE clusters == [i \in DOMAIN p |-> p[i] + 2]
<1>1. DOMAIN p = 1 .. Len(p) /\ \A i \in 1 .. Len(p) : p[i] \in Nat
  BY LimitsAssumption DEF Lba
<1>2. /\ clusters \in Seq(Nat) /\ Len(clusters) = Len(p)
      /\ \A i \in 1 .. Len(p) : clusters[i] >= 2 /\ clusters[i] - 2 = p[i]
      /\ p # <<>> => clusters # <<>>
  BY <1>1
<1> HIDE DEF clusters
<1>3. /\ ClustersToExtents(clusters) \in Seq(Runs1)
      /\ SectorSeq(ClustersToExtents(clusters)) = [i \in 1 .. Len(clusters) |-> clusters[i] - 2]
      /\ clusters # <<>> => ClustersToExtents(clusters) # <<>>
  BY <1>2, ClustersToExtentsIs
<1>4. [i \in 1 .. Len(clusters) |-> clusters[i] - 2] = p
  BY <1>1, <1>2
<1>5. Runs(p) = ClustersToExtents(clusters)
  BY DEF Runs, clusters
<1> QED BY <1>2, <1>3, <1>4, <1>5, Zenon

(* decode_data_runs: the starts of the runs are relative to each other.    *)
DataRuns == [sparse : BOOLEAN, count : Nat, delta : Int]
Decodings == [lcn : Int, exts : Seq(Runs1)]

LEMMA DecodedIs ==
  ASSUME NEW acc \in Decodings, NEW run \in DataRuns
  PROVE  Decoded(acc, run) \in Decodings
<1>1. /\ acc.lcn \in Int /\ acc.exts \in Seq(Runs1)
      /\ run.sparse \in BOOLEAN /\ run.count \in Nat /\ run.delta \in Int
  BY DEF Decodings, DataRuns
<1>2. CASE run.sparse
  BY <1>2 DEF Decoded
<1>3. CASE ~ run.sparse
  <2> DEFINE lcn == acc.lcn + run.delta
             x == <<lcn, run.count>>
             exts == IF lcn >= 0 /\ run.count > 0 THEN Append(acc.exts, x) ELSE acc.exts
  <2>1. lcn \in Int
    BY <1>1
  <2>2. exts \in Seq(Runs1)
    <3>1. CASE lcn >= 0 /\ run.count > 0
      <4>1. x \in Runs1
        BY <1>1, <2>1, <3>1 DEF Runs1
      <4> HIDE DEF x, lcn
      <4> QED BY <1>1, <3>1, <4>1, AppendProperties
    <3>2. CASE ~ (lcn >= 0 /\ run.count > 0)
      BY <1>1, <3>2
    <3> QED BY <3>1, <3>2
  <2>3. Decoded(acc, run) = [lcn |-> lcn, exts |-> exts]
    BY <1>3 DEF Decoded
  <2> HIDE DEF lcn, exts
  <2> QED BY <2>1, <2>2, <2>3 DEF Decodings
<1> QED BY <1>1, <1>2, <1>3

LEMMA DecodeRunsFollows ==
  ASSUME NEW runs \in Seq(DataRuns)
  PROVE  \E f \in [0 .. Len(runs) -> Decodings] :
           /\ f[0] = [lcn |-> 0, exts |-> <<>>]
           /\ \A n \in 1 .. Len(runs) : f[n] = Decoded(f[n - 1], runs[n])
           /\ DecodeRuns(runs) = f[Len(runs)].exts
<1> DEFINE nil == [lcn |-> 0, exts |-> <<>>]
           N == Len(runs)
           Step(h) == [n \in 0 .. N |-> IF n = 0 THEN nil ELSE Decoded(h[n - 1], runs[n])]
           H == CHOOSE h : h = Step(h)
           step == [n \in 1 .. N |-> [q \in Decodings |-> Decoded(q, runs[n])]]
           T == { n \in 0 .. N : H[n] \in Decodings }
<1>1. N \in Nat /\ nil \in Decodings
  BY DEF Decodings
<1>2. \A n \in 1 .. N : runs[n] \in DataRuns
  OBVIOUS
<1>3. /\ step \in [1 .. N -> [Decodings -> Decodings]]
      /\ \A n \in 1 .. N, q \in Decodings : step[n][q] = Decoded(q, runs[n])
  BY <1>2, DecodedIs
<1> SUFFICES \E f \in [0 .. N -> Decodings] :
           /\ f[0] = nil /\ \A n \in 1 .. N : f[n] = Decoded(f[n - 1], runs[n])
           /\ DecodeRuns(runs) = f[N].exts
  OBVIOUS
<1>4. DecodeRuns(runs) = H[N].exts
  BY DEF DecodeRuns
<1> HIDE DEF step, N, nil
<1>5. PICK f \in [0 .. N -> Decodings] : Follows(f, nil, N, step)
  BY <1>1, <1>3, Recursion
<1>6. f[0] = nil /\ \A n \in 1 .. N : f[n] = step[n][f[n - 1]]
  BY <1>5 DEF Follows
<1>7. /\ 0 \in 0 .. N /\ \A n \in 0 .. N : n # 0 => n \in 1 .. N /\ n - 1 \in 0 .. N
      /\ \A n \in 1 .. N : n \in 0 .. N /\ n # 0
  BY <1>1
<1>8. \A n \in 0 .. N : f[n] = IF n = 0 THEN nil ELSE Decoded(f[n - 1], runs[n])
  BY <1>3, <1>6, <1>7
<1>9. f = Step(f)
  BY <1>8
<1>10. H = Step(H)
  BY <1>9
<1> HIDE DEF H
<1>11. \A n \in 0 .. N : H[n] = IF n = 0 THEN nil ELSE Decoded(H[n - 1], runs[n])
  BY <1>10, Zenon
<1>12. H[0] = nil /\ \A n \in 1 .. N : H[n] = Decoded(H[n - 1], runs[n])
  BY <1>7, <1>11, Zenon
<1>13. \A n \in 0 .. N : n \in T
  <2>1. 0 \in T
    BY <1>1, <1>7, <1>12
  <2>2. ASSUME NEW n \in 1 .. N, n - 1 \in T PROVE n \in T
    <3>1. H[n - 1] \in Decodings /\ n \in 0 .. N
      BY <1>7, <2>2
    <3>2. Decoded(H[n - 1], runs[n]) \in Decodings
      BY <1>2, <3>1, DecodedIs
    <3> QED BY <1>12, <3>1, <3>2
  <2> HIDE DEF T
  <2> QED BY <1>1, <2>1, <2>2, UpTo
<1>14. H \in [0 .. N -> Decodings]
  BY <1>10, <1>13
<1> QED BY <1>4, <1>12, <1>14

(* A run list that is written of extents, with or without a sparse run     *)
(* between them, is read as these extents.                                 *)
DataRun(exts, i) ==
  [sparse |-> FALSE, count |-> exts[i][2],
   delta |-> exts[i][1] - (IF i = 1 THEN 0 ELSE exts[i - 1][1])]

LEMMA RunListIs ==
  ASSUME NEW exts \in Seq(Runs1)
  PROVE  /\ RunList(exts) \in Seq(DataRuns) /\ Len(RunList(exts)) = Len(exts)
         /\ \A i \in 1 .. Len(exts) : RunList(exts)[i] = DataRun(exts, i)
         /\ SparseRun \in DataRuns
<1> DEFINE N == Len(exts)
<1>1. N \in Nat /\ DOMAIN exts = 1 .. N
  OBVIOUS
<1>2. \A i \in 1 .. N : exts[i][1] \in Nat /\ exts[i][2] \in Nat
  BY DEF Runs1
<1>3. \A i \in 1 .. N : DataRun(exts, i) \in DataRuns
  <2> SUFFICES ASSUME NEW i \in 1 .. N PROVE DataRun(exts, i) \in DataRuns
    OBVIOUS
  <2>1. i # 1 => i - 1 \in 1 .. N
    BY <1>1
  <2>2. exts[i][1] - (IF i = 1 THEN 0 ELSE exts[i - 1][1]) \in Int
    BY <1>2, <2>1
  <2> QED BY <1>2, <2>2 DEF DataRuns, DataRun
<1>4. SparseRun \in DataRuns
  BY DEF DataRuns, SparseRun
<1>5. RunList(exts) = [i \in 1 .. N |-> DataRun(exts, i)]
  BY <1>1 DEF RunList, DataRun
<1> QED BY <1>1, <1>3, <1>4, <1>5

(* An element that is inserted is passed on the way to those behind it.    *)
LEMMA InsertAtIs ==
  ASSUME NEW S, NEW s \in Seq(S), NEW x \in S, NEW k \in 0 .. Len(s)
  PROVE  /\ InsertAt(s, k + 1, x) \in Seq(S) /\ Len(InsertAt(s, k + 1, x)) = Len(s) + 1
         /\ \A i \in 1 .. k : InsertAt(s, k + 1, x)[i] = s[i]
         /\ InsertAt(s, k + 1, x)[k + 1] = x
         /\ \A i \in k + 1 .. Len(s) : InsertAt(s, k + 1, x)[i + 1] = s[i]
<1> DEFINE N == Len(s)
           a == SubSeq(s, 1, k)
           b == SubSeq(s, k + 1, N)
           c == <<x>>
<1>1. N \in Nat /\ k \in Nat /\ k <= N /\ \A i \in 1 .. N : s[i] \in S
  OBVIOUS
<1> HIDE DEF N
<1>2. a \in Seq(S) /\ Len(a) = k /\ \A i \in 1 .. k : a[i] = s[i]
  <2>1. \A i \in 1 .. k : s[i] \in S
    BY <1>1
  <2>2. /\ a \in Seq(S) /\ Len(a) = IF 1 <= k THEN k - 1 + 1 ELSE 0
        /\ \A i \in 1 .. k - 1 + 1 : a[i] = s[1 + i - 1]
    BY <1>1, <2>1, SubSeqProperties
  <2> HIDE DEF a
  <2>3. \A i \in 1 .. k : i \in 1 .. k - 1 + 1 /\ 1 + i - 1 = i
    BY <1>1
  <2>4. Len(a) = k
    BY <1>1, <2>2
  <2> QED BY <2>2, <2>3, <2>4
<1>3. b \in Seq(S) /\ Len(b) = N - k /\ \A i \in 1 .. N - k : b[i] = s[k + i]
  <2>1. \A i \in k + 1 .. N : s[i] \in S
    BY <1>1
  <2>2. /\ b \in Seq(S) /\ Len(b) = IF k + 1 <= N THEN N - (k + 1) + 1 ELSE 0
        /\ \A i \in 1 .. N - (k + 1) + 1 : b[i] = s[(k + 1) + i - 1]
    BY <1>1, <2>1, SubSeqProperties
  <2> HIDE DEF b
  <2>3. \A i \in 1 .. N - k : i \in 1 .. N - (k + 1) + 1 /\ (k + 1) + i - 1 = k + i
    BY <1>1
  <2>4. Len(b) = N - k
    BY <1>1, <2>2
  <2> QED BY <2>2, <2>3, <2>4
<1>4. c \in Seq(S) /\ Len(c) = 1 /\ c[1] = x
  OBVIOUS
<1>5. InsertAt(s, k + 1, x) = (a \o c) \o b
  <2>1. (k + 1) - 1 = k
    BY <1>1
  <2> QED BY <2>1 DEF InsertAt, N
<1> HIDE DEF a, b, c
<1>6. /\ a \o c \in Seq(S) /\ Len(a \o c) = k + 1
      /\ \A i \in 1 .. k + 1 : (a \o c)[i] = IF i <= k THEN a[i] ELSE c[i - k]
  <2>1. a \in Seq(S) /\ c \in Seq(S)
    BY <1>2, <1>4
  <2>2. /\ a \o c \in Seq(S) /\ Len(a \o c) = Len(a) + Len(c)
        /\ \A i \in 1 .. Len(a) + Len(c) : (a \o c)[i] = IF i <= Len(a) THEN a[i] ELSE c[i - Len(a)]
    BY <2>1, ConcatProperties
  <2>3. Len(a) = k /\ Len(c) = 1
    BY <1>2, <1>4
  <2> QED BY <2>2, <2>3, Zenon
<1> DEFINE d == a \o c
<1> HIDE DEF d
<1>7. /\ d \in Seq(S) /\ Len(d) = k + 1 /\ d[k + 1] = x
      /\ \A i \in 1 .. k : d[i] = s[i]
  <2>1. k + 1 \in 1 .. k + 1 /\ ~ (k + 1 <= k) /\ (k + 1) - k = 1 /\ \A i \in 1 .. k : i \in 1 .. k + 1 /\ i <= k
    BY <1>1
  <2> QED BY <1>2, <1>4, <1>6, <2>1 DEF d
<1> DEFINE e == d \o b
<1>8. /\ e \in Seq(S) /\ Len(e) = (k + 1) + (N - k)
      /\ \A i \in 1 .. (k + 1) + (N - k) : e[i] = IF i <= k + 1 THEN d[i] ELSE b[i - (k + 1)]
  <2>1. d \in Seq(S) /\ b \in Seq(S)
    BY <1>3, <1>7
  <2>2. /\ d \o b \in Seq(S) /\ Len(d \o b) = Len(d) + Len(b)
        /\ \A i \in 1 .. Len(d) + Len(b) : (d \o b)[i] = IF i <= Len(d) THEN d[i] ELSE b[i - Len(d)]
    BY <2>1, ConcatProperties
  <2>3. Len(d) = k + 1 /\ Len(b) = N - k
    BY <1>3, <1>7
  <2> QED BY <2>2, <2>3, Zenon
<1>9. InsertAt(s, k + 1, x) = e
  BY <1>5 DEF d
<1> HIDE DEF e
<1>10. Len(e) = N + 1 /\ e[k + 1] = x /\ \A i \in 1 .. k : e[i] = s[i]
  <2>1. \A i \in 1 .. k + 1 : i \in 1 .. (k + 1) + (N - k) /\ i <= k + 1
    BY <1>1
  <2>2. \A i \in 1 .. k + 1 : e[i] = d[i]
    BY <1>8, <2>1
  <2>3. k + 1 \in 1 .. k + 1 /\ \A i \in 1 .. k : i \in 1 .. k + 1
    BY <1>1
  <2>4. Len(e) = N + 1
    BY <1>1, <1>8
  <2> QED BY <1>7, <2>2, <2>3, <2>4
<1>11. ASSUME NEW i \in k + 1 .. N PROVE e[i + 1] = s[i]
  <2>1. /\ i + 1 \in 1 .. (k + 1) + (N - k) /\ ~ (i + 1 <= k + 1)
        /\ (i + 1) - (k + 1) = i - k /\ i - k \in 1 .. N - k /\ k + (i - k) = i
    BY <1>1
  <2>2. e[i + 1] = b[i - k]
    BY <1>8, <2>1
  <2> QED BY <1>3, <2>1, <2>2
<1> QED BY <1>8, <1>9, <1>10, <1>11 DEF N

(* A pointer to no block is inserted where a hole is.                      *)
LEMMA HoleIs ==
  ASSUME NEW list \in Seq(Nat), NEW k \in 0 .. Len(list)
  PROVE  LET blocks == InsertAt(list, k + 1, 0)
         IN  /\ blocks \in Seq(Nat) /\ Len(blocks) = Len(list) + 1 /\ blocks[k + 1] = 0
             /\ \A i \in 1 .. k : blocks[i] = list[i]
             /\ \A i \in k + 1 .. Len(list) : blocks[i + 1] = list[i]
<1> DEFINE S == Nat
           z == 0
<1>1. list \in Seq(S) /\ z \in S
  OBVIOUS
<1> HIDE DEF S, z
<1> DEFINE q == InsertAt(list, k + 1, z)
<1>2. /\ q \in Seq(S) /\ Len(q) = Len(list) + 1 /\ q[k + 1] = z
      /\ \A i \in 1 .. k : q[i] = list[i]
      /\ \A i \in k + 1 .. Len(list) : q[i + 1] = list[i]
  BY <1>1, InsertAtIs, SMTT(60)
<1> QED BY <1>2 DEF S, z

LEMMA StepsDecode ==
  ASSUME NEW exts \in Seq(Runs1), NEW f, f[0] = [lcn |-> 0, exts |-> <<>>],
         \A n \in 1 .. Len(exts) : f[n] = Decoded(f[n - 1], DataRun(exts, n))
  PROVE  f[Len(exts)].exts = exts
<1> DEFINE N == Len(exts)
           run(n) == DataRun(exts, n)
<1>2. N \in Nat
  OBVIOUS
<1> HIDE DEF run
<1> DEFINE Good(n) == /\ f[n].exts \in Seq(Runs1) /\ Len(f[n].exts) = n
                      /\ \A i \in 1 .. n : f[n].exts[i] = exts[i]
                      /\ f[n].lcn = IF n = 0 THEN 0 ELSE exts[n][1]
           T == { n \in 0 .. N : Good(n) }
<1>4. 0 \in T
  <2>1. f[0].exts = <<>> /\ f[0].lcn = 0
    OBVIOUS
  <2>2. <<>> \in Seq(Runs1) /\ Len(<<>>) = 0 /\ 0 \in 0 .. N /\ 1 .. 0 = {}
    BY <1>2
  <2>3. f[0].exts \in Seq(Runs1) /\ Len(f[0].exts) = 0
    BY <2>1, <2>2, Zenon
  <2>4. \A i \in 1 .. 0 : f[0].exts[i] = exts[i]
    OBVIOUS
  <2>5. Good(0)
    BY <2>1, <2>3, <2>4
  <2> HIDE DEF Good
  <2> QED BY <2>2, <2>5
<1>5. ASSUME NEW n \in 1 .. N, n - 1 \in T PROVE n \in T
  <2> DEFINE q == f[n - 1].exts
  <2>1. /\ q \in Seq(Runs1) /\ Len(q) = n - 1 /\ \A i \in 1 .. n - 1 : q[i] = exts[i]
        /\ f[n - 1].lcn = IF n - 1 = 0 THEN 0 ELSE exts[n - 1][1]
    BY <1>5
  <2>2. exts[n] \in Runs1 /\ exts[n][1] \in Nat /\ exts[n][2] \in Nat \ {0} /\ exts[n] = <<exts[n][1], exts[n][2]>>
    BY DEF Runs1
  <2>3. n # 1 => exts[n - 1][1] \in Nat
    <3>1. n # 1 => n - 1 \in 1 .. N
      BY <1>2
    <3> QED BY <3>1 DEF Runs1
  <2>4. /\ ~ run(n).sparse /\ run(n).count = exts[n][2]
        /\ run(n).delta = exts[n][1] - (IF n = 1 THEN 0 ELSE exts[n - 1][1])
    <3> DEFINE d == exts[n][1] - (IF n = 1 THEN 0 ELSE exts[n - 1][1])
    <3>1. run(n) = [sparse |-> FALSE, count |-> exts[n][2], delta |-> d]
      BY DEF run, DataRun
    <3> HIDE DEF d
    <3>2. ~ run(n).sparse /\ run(n).count = exts[n][2] /\ run(n).delta = d
      BY <3>1
    <3> QED BY <3>2 DEF d
  <2>5. f[n - 1].lcn + run(n).delta = exts[n][1]
    <3>1. CASE n = 1
      BY <2>1, <2>2, <2>4, <3>1
    <3>2. CASE n # 1
      BY <2>1, <2>2, <2>3, <2>4, <3>2
    <3> QED BY <3>1, <3>2
  <2>6. f[n] = Decoded(f[n - 1], run(n))
    BY DEF run
  <2>7. Decoded(f[n - 1], run(n)) = [lcn |-> exts[n][1], exts |-> Append(q, exts[n])]
    <3> DEFINE lcn == f[n - 1].lcn + run(n).delta
    <3>1. Decoded(f[n - 1], run(n)) =
            [lcn |-> lcn, exts |-> IF lcn >= 0 /\ run(n).count > 0
                                   THEN Append(q, <<lcn, run(n).count>>) ELSE q]
      BY <2>4 DEF Decoded
    <3>2. lcn = exts[n][1]
      BY <2>5
    <3> HIDE DEF lcn, q
    <3>3. lcn >= 0 /\ run(n).count > 0 /\ <<lcn, run(n).count>> = exts[n]
      BY <2>2, <2>4, <3>2
    <3> QED BY <3>1, <3>2, <3>3
  <2>8. f[n].lcn = exts[n][1] /\ f[n].exts = Append(q, exts[n])
    BY <2>6, <2>7
  <2> HIDE DEF q
  <2>9. /\ Append(q, exts[n]) \in Seq(Runs1) /\ Len(Append(q, exts[n])) = n
        /\ \A i \in 1 .. n - 1 : Append(q, exts[n])[i] = q[i]
        /\ Append(q, exts[n])[n] = exts[n]
    BY <2>1, <2>2, AppendProperties
  <2>10. \A i \in 1 .. n : i \in 1 .. n - 1 \/ i = n
    OBVIOUS
  <2>11. \A i \in 1 .. n : Append(q, exts[n])[i] = exts[i]
    BY <2>1, <2>9, <2>10
  <2>12. Good(n)
    BY <2>8, <2>9, <2>11
  <2> HIDE DEF Good
  <2> QED BY <1>2, <2>12
<1>6. Good(N)
  <2>1. N \in 0 .. N
    BY <1>2
  <2> HIDE DEF T, N
  <2>2. N \in T
    BY <1>2, <1>4, <1>5, <2>1, UpTo
  <2> QED BY <2>2 DEF T
<1> QED BY <1>6, SeqEqual

LEMMA DecodesBack ==
  ASSUME NEW exts \in Seq(Runs1)
  PROVE  DecodeRuns(RunList(exts)) = exts
<1> DEFINE runs == RunList(exts)
<1>1. runs \in Seq(DataRuns) /\ Len(runs) = Len(exts) /\ \A i \in 1 .. Len(exts) : runs[i] = DataRun(exts, i)
  BY RunListIs
<1> HIDE DEF runs
<1>2. PICK f \in [0 .. Len(runs) -> Decodings] :
           /\ f[0] = [lcn |-> 0, exts |-> <<>>]
           /\ \A n \in 1 .. Len(runs) : f[n] = Decoded(f[n - 1], runs[n])
           /\ DecodeRuns(runs) = f[Len(runs)].exts
  BY <1>1, DecodeRunsFollows
<1>3. \A n \in 1 .. Len(exts) : f[n] = Decoded(f[n - 1], DataRun(exts, n))
  BY <1>1, <1>2
<1>4. f[Len(exts)].exts = exts
  BY <1>2, <1>3, StepsDecode
<1> QED BY <1>1, <1>2, <1>4 DEF runs

LEMMA DecodesBackAcross ==
  ASSUME NEW exts \in Seq(Runs1), NEW k \in 0 .. Len(exts)
  PROVE  /\ InsertAt(RunList(exts), k + 1, SparseRun) \in Seq(DataRuns)
         /\ DecodeRuns(InsertAt(RunList(exts), k + 1, SparseRun)) = exts
<1> DEFINE runs == InsertAt(RunList(exts), k + 1, SparseRun)
           N == Len(exts)
<1>1. /\ runs \in Seq(DataRuns) /\ Len(runs) = N + 1
      /\ \A i \in 1 .. k : runs[i] = DataRun(exts, i)
      /\ runs[k + 1] = SparseRun
      /\ \A i \in k + 1 .. N : runs[i + 1] = DataRun(exts, i)
  <2> DEFINE list == RunList(exts)
  <2>1. list \in Seq(DataRuns) /\ Len(list) = N /\ (\A i \in 1 .. N : list[i] = DataRun(exts, i)) /\ SparseRun \in DataRuns
    BY RunListIs
  <2> HIDE DEF list
  <2>2. k \in 0 .. Len(list)
    BY <2>1
  <2>3. /\ InsertAt(list, k + 1, SparseRun) \in Seq(DataRuns) /\ Len(InsertAt(list, k + 1, SparseRun)) = Len(list) + 1
        /\ \A i \in 1 .. k : InsertAt(list, k + 1, SparseRun)[i] = list[i]
        /\ InsertAt(list, k + 1, SparseRun)[k + 1] = SparseRun
        /\ \A i \in k + 1 .. Len(list) : InsertAt(list, k + 1, SparseRun)[i + 1] = list[i]
    <3> DEFINE S == DataRuns
               z == SparseRun
    <3>1. list \in Seq(S) /\ z \in S
      BY <2>1
    <3> HIDE DEF S, z
    <3> DEFINE q == InsertAt(list, k + 1, z)
    <3>2. /\ q \in Seq(S) /\ Len(q) = Len(list) + 1 /\ q[k + 1] = z
          /\ \A i \in 1 .. k : q[i] = list[i]
          /\ \A i \in k + 1 .. Len(list) : q[i + 1] = list[i]
      BY <2>2, <3>1, InsertAtIs, SMTT(60)
    <3> QED BY <3>2 DEF S, z
  <2>4. (\A i \in 1 .. k : i \in 1 .. N) /\ (\A i \in k + 1 .. N : i \in 1 .. N)
    OBVIOUS
  <2> QED BY <2>1, <2>3, <2>4 DEF list
<1>2. N \in Nat /\ k \in Nat /\ k <= N
  OBVIOUS
<1> HIDE DEF runs, N
<1>3. PICK f \in [0 .. N + 1 -> Decodings] :
           /\ f[0] = [lcn |-> 0, exts |-> <<>>]
           /\ \A n \in 1 .. N + 1 : f[n] = Decoded(f[n - 1], runs[n])
           /\ DecodeRuns(runs) = f[N + 1].exts
  BY <1>1, DecodeRunsFollows
<1> DEFINE g == [n \in 0 .. N |-> IF n <= k THEN f[n] ELSE f[n + 1]]
<1>4. f[k + 1] = f[k]
  <2>1. k + 1 \in 1 .. N + 1 /\ (k + 1) - 1 = k
    BY <1>2
  <2>2. f[k + 1] = Decoded(f[k], SparseRun)
    BY <1>1, <1>3, <2>1
  <2>3. SparseRun.sparse
    BY DEF SparseRun
  <2> QED BY <2>2, <2>3 DEF Decoded
<1>5. (\A n \in 0 .. k : g[n] = f[n]) /\ \A n \in k .. N : g[n] = f[n + 1]
  <2>1. (\A n \in 0 .. k : n \in 0 .. N /\ n <= k) /\ \A n \in k .. N : n \in 0 .. N /\ (n = k \/ ~ (n <= k))
    BY <1>2
  <2> QED BY <1>4, <2>1
<1> HIDE DEF g
<1>6. ASSUME NEW n \in 1 .. N PROVE g[n] = Decoded(g[n - 1], DataRun(exts, n))
  <2>1. CASE n <= k
    <3>1. n \in 1 .. k /\ n \in 0 .. k /\ n - 1 \in 0 .. k /\ n \in 1 .. N + 1
      BY <1>2, <2>1
    <3> QED BY <1>1, <1>3, <1>5, <3>1
  <2>2. CASE ~ (n <= k)
    <3>1. /\ n \in k + 1 .. N /\ n \in k .. N /\ n - 1 \in k .. N /\ (n - 1) + 1 = n
          /\ n + 1 \in 1 .. N + 1 /\ (n + 1) - 1 = n
      BY <1>2, <2>2
    <3>2. f[n + 1] = Decoded(f[n], runs[n + 1]) /\ runs[n + 1] = DataRun(exts, n)
      BY <1>1, <1>3, <3>1
    <3>3. g[n] = f[n + 1] /\ g[n - 1] = f[n]
      BY <1>5, <3>1
    <3> QED BY <3>2, <3>3
  <2> QED BY <2>1, <2>2
<1>7. g[0] = [lcn |-> 0, exts |-> <<>>] /\ g[N] = f[N + 1]
  <2>1. 0 \in 0 .. k /\ N \in k .. N
    BY <1>2
  <2> QED BY <1>3, <1>5, <2>1
<1>8. g[N].exts = exts
  BY <1>6, <1>7, StepsDecode DEF N
<1> QED BY <1>1, <1>3, <1>7, <1>8 DEF runs

-----------------------------------------------------------------------------
(* Entries, and where the parsers locate what they name.                   *)

Confidences == {"Confirmed", "Partial", "Low"}
Leaves      == (Nat \ {0}) \X (Nat \ {0})
FatEntries  == [deleted : BOOLEAN, size : Nat, start : Nat]
NtfsEntries == [deleted : BOOLEAN, size : Nat, runs : Seq(DataRuns)]
ExtEntries  == [deleted : BOOLEAN, size : Nat, extents : BOOLEAN,
                leaf : Seq(Leaves), blocks : Seq(Nat)]
Entries     == CASE scen.kind = "fat"  -> FatEntries
                 [] scen.kind = "ntfs" -> NtfsEntries
                 [] OTHER              -> ExtEntries

(* Where the mapping breaks off, and what comes before and behind.         *)
LEMMA PiecesRead ==
  ASSUME NEW f, NEW p \in Seq(Lba), scen \in Scenarios
  PROVE  /\ Break(f, p) \in 0 .. Len(p)
         /\ Pieces(f, p) \in Seq(Runs1) /\ SectorSeq(Pieces(f, p)) = p
         /\ p # <<>> => Pieces(f, p) # <<>>
         /\ Len(Lead(f, p)) \in 0 .. Len(Pieces(f, p))
<1> DEFINE n == Break(f, p)
           N == Len(p)
           x == SubSeq(p, 1, n)
           y == SubSeq(p, n + 1, N)
<1>1. N \in Nat /\ \A i \in 1 .. N : p[i] \in Lba
  OBVIOUS
<1>2. n \in 0 .. N
  <2>1. scen.cut \in [Files -> Nat]
    BY ScenarioAssumption
  <2> QED BY <1>1, <2>1 DEF Break
<1>3. x \o y = p
  <2>1. x \o y = SubSeq(p, 1, N)
    <3>1. 1 \in 1 .. N + 1 /\ n \in 1 - 1 .. N /\ N \in n .. N
      BY <1>1, <1>2
    <3> HIDE DEF n
    <3> QED BY <3>1, ConcatAdjacentSubSeq
  <2> QED BY <2>1, SubSeqFull
<1> HIDE DEF n
<1>4. x \in Seq(Lba) /\ y \in Seq(Lba)
  <2>1. (\A i \in 1 .. n : p[i] \in Lba) /\ \A i \in n + 1 .. N : p[i] \in Lba
    BY <1>1, <1>2
  <2>2. 1 \in Int /\ n \in Int /\ n + 1 \in Int /\ N \in Int
    BY <1>1, <1>2
  <2> HIDE DEF N
  <2> QED BY <2>1, <2>2, SubSeqProperties
<1> HIDE DEF x, y
<1> DEFINE a == Runs(x)
           b == Runs(y)
<1>5. a \in Seq(Runs1) /\ SectorSeq(a) = x /\ b \in Seq(Runs1) /\ SectorSeq(b) = y
  BY <1>4, RunsAre
<1>6. Pieces(f, p) = a \o b /\ Lead(f, p) = a
  BY DEF Pieces, Lead, n, x, y
<1> HIDE DEF a, b
<1>7. a \o b \in Seq(Runs1) /\ Len(a \o b) = Len(a) + Len(b) /\ Len(a) \in Nat /\ Len(b) \in Nat
  <2> HIDE DEF Runs1
  <2> QED BY <1>5, ConcatProperties
<1>8. SectorSeq(a \o b) = x \o y
  <2>1. Runs1 \subseteq Extents
    BY DEF Runs1, Extents
  <2> HIDE DEF Runs1, Extents
  <2>2. a \in Seq(Extents) /\ b \in Seq(Extents)
    BY <1>5, <2>1
  <2> QED BY <1>5, <2>2, SectorSeqConcat
<1>9. SectorSeq(Pieces(f, p)) = p
  BY <1>3, <1>6, <1>8
<1>10. p # <<>> => Pieces(f, p) # <<>>
  BY <1>9, SectorSeqNone
<1>11. Len(Lead(f, p)) \in 0 .. Len(Pieces(f, p))
  BY <1>6, <1>7
<1> QED BY <1>2, <1>6, <1>7, <1>9, <1>10, <1>11 DEF n

LEMMA SizeIs ==
  ASSUME NEW f, NEW p \in Seq(Lba)
  PROVE  /\ SizeAt(f, p) \in Nat /\ SizeAt(f, p) >= Len(p)
         /\ SizeAt(f, p) = 0 <=> p = <<>>
         /\ ~ Holed(f, p) => SizeAt(f, p) = Len(p)
         /\ f = Dir => SizeAt(f, p) = Len(p)
<1>1. Len(p) \in Nat /\ (Len(p) = 0 <=> p = <<>>)
  OBVIOUS
<1>2. f = Dir => ~ Holed(f, p)
  BY ScenarioAssumption DEF Holed
<1>3. Holed(f, p) => p # <<>>
  BY DEF Holed
<1> QED BY <1>1, <1>2, <1>3 DEF SizeAt

LEMMA EntryAtIs ==
  ASSUME NEW f, NEW p \in Seq(Lba), scen \in Scenarios
  PROVE  /\ EntryAt(f, p) \in Entries /\ ~ EntryAt(f, p).deleted
         /\ EntryAt(f, p).size = IF IsFat /\ f = Dir THEN 0 ELSE SizeAt(f, p)
<1> DEFINE pieces == Pieces(f, p)
           k == Len(Lead(f, p))
           n == Break(f, p)
           e == EntryAt(f, p)
           whole == SizeAt(f, p)
<1>1. pieces \in Seq(Runs1) /\ n \in 0 .. Len(p) /\ k \in 0 .. Len(pieces)
  BY PiecesRead
<1>2. Len(p) \in Nat /\ DOMAIN p = 1 .. Len(p) /\ \A i \in 1 .. Len(p) : p[i] \in Nat
  BY LimitsAssumption DEF Lba
<1>s. whole \in Nat
  BY SizeIs
<1> HIDE DEF pieces, k, n, whole
<1>3. CASE scen.kind = "fat"
  <2> DEFINE start == IF p = <<>> THEN 0 ELSE p[1] + 2
             size == IF f = Dir THEN 0 ELSE whole
  <2>2. start \in Nat
    <3>1. p # <<>> => 1 \in 1 .. Len(p)
      BY <1>2
    <3> QED BY <1>2, <3>1
  <2>3. size \in Nat
    BY <1>s
  <2>4. e = [deleted |-> FALSE, size |-> size, start |-> start]
    BY <1>3 DEF EntryAt, whole
  <2> HIDE DEF e, start
  <2>5. e \in FatEntries /\ ~ e.deleted /\ e.size = size
    <3> HIDE DEF size
    <3> QED BY <2>2, <2>3, <2>4 DEF FatEntries
  <2> QED BY <1>3, <2>5 DEF Entries, IsFat, e, whole
<1>4. CASE scen.kind = "ntfs"
  <2> DEFINE data == IF f = Dir THEN <<>> ELSE WithHole(f, p, RunList(pieces), k, SparseRun)
  <2>1. e = [deleted |-> FALSE, size |-> whole, runs |-> data]
    BY <1>4 DEF EntryAt, pieces, k, whole
  <2>2. data \in Seq(DataRuns)
    <3>1. RunList(pieces) \in Seq(DataRuns)
      BY <1>1, RunListIs
    <3>2. InsertAt(RunList(pieces), k + 1, SparseRun) \in Seq(DataRuns)
      BY <1>1, DecodesBackAcross
    <3> QED BY <3>1, <3>2 DEF WithHole
  <2> HIDE DEF data, e
  <2>3. e \in NtfsEntries /\ ~ e.deleted /\ e.size = whole
    BY <1>s, <2>1, <2>2 DEF NtfsEntries
  <2> QED BY <1>4, <2>3 DEF Entries, IsFat, e, whole
<1>5. CASE scen.kind \notin {"fat", "ntfs"}
  <2> DEFINE leaf == [i \in DOMAIN pieces |-> <<pieces[i][1] + 1, pieces[i][2]>>]
             list == [i \in DOMAIN p |-> p[i] + 1]
             blocks == WithHole(f, p, list, n, 0)
             extents == scen.kind = "ext4"
  <2>1. e = [deleted |-> FALSE, size |-> whole, extents |-> extents,
             leaf |-> leaf, blocks |-> blocks]
    BY <1>5 DEF EntryAt, pieces, n, whole
  <2>2. leaf \in Seq(Leaves)
    <3>1. \A i \in 1 .. Len(pieces) : <<pieces[i][1] + 1, pieces[i][2]>> \in Leaves
      BY <1>1 DEF Runs1, Leaves
    <3>2. DOMAIN pieces = 1 .. Len(pieces) /\ Len(pieces) \in Nat
      BY <1>1
    <3> QED BY <3>1, <3>2
  <2>3. blocks \in Seq(Nat)
    <3>1. list \in Seq(Nat) /\ Len(list) = Len(p) /\ 0 \in Nat
      BY <1>2
    <3> HIDE DEF list
    <3>2. n \in 0 .. Len(list)
      BY <1>1, <3>1
    <3>3. InsertAt(list, n + 1, 0) \in Seq(Nat)
      BY <3>1, <3>2, HoleIs
    <3> QED BY <3>1, <3>3 DEF WithHole
  <2>4. extents \in BOOLEAN
    OBVIOUS
  <2> HIDE DEF leaf, blocks, extents, e
  <2>5. e \in ExtEntries /\ ~ e.deleted /\ e.size = whole
    BY <1>s, <2>1, <2>2, <2>3, <2>4 DEF ExtEntries
  <2> QED BY <1>5, <2>5 DEF Entries, IsFat, e, whole
<1> QED BY <1>3, <1>4, <1>5

(* get_block_extents leaves nothing of an extent node out.                 *)
LEMMA BlockExtentsAre ==
  ASSUME NEW e \in ExtEntries
  PROVE  /\ BlockExtents(e) \in Seq(Leaves)
         /\ e.extents => BlockExtents(e) = e.leaf
<1> DEFINE n == Min({Len(e.blocks), DirectPointers})
           direct == [i \in 1 .. n |-> <<e.blocks[i], 1>>]
           listed == IF e.extents THEN e.leaf ELSE direct
           kept == {i \in DOMAIN listed : listed[i][1] > 0 /\ listed[i][2] > 0}
           Pairs == Nat \X (Nat \ {0})
<1>1. BlockExtents(e) = Subsequence(listed, kept)
  BY DEF BlockExtents
<1>2. /\ e.leaf \in Seq(Leaves) /\ e.blocks \in Seq(Nat) /\ e.extents \in BOOLEAN
      /\ Len(e.blocks) \in Nat
  BY DEF ExtEntries
<1>3. n \in Nat /\ n <= Len(e.blocks)
  <2> DEFINE T == {Len(e.blocks), DirectPointers}
  <2>1. T \in SUBSET Nat /\ T # {} /\ Len(e.blocks) \in T
    BY <1>2, DirectAssumption
  <2> HIDE DEF T
  <2>2. Min(T) \in T /\ \A x \in T : Min(T) <= x
    BY <2>1, LeastMin
  <2>3. n = Min(T)
    BY DEF T
  <2> HIDE DEF n
  <2> QED BY <2>1, <2>2, <2>3
<1> HIDE DEF n
<1>4. direct \in Seq(Pairs)
  <2>1. \A i \in 1 .. n : <<e.blocks[i], 1>> \in Pairs
    BY <1>2, <1>3
  <2> HIDE DEF Pairs
  <2> QED BY <1>3, <2>1
<1>5. listed \in Seq(Pairs)
  <2>1. Leaves \subseteq Pairs
    BY DEF Leaves
  <2> HIDE DEF Pairs, direct
  <2>2. e.leaf \in Seq(Pairs)
    BY <1>2, <2>1
  <2> QED BY <1>2, <1>4, <2>2
<1>6. e.extents => DOMAIN listed \subseteq kept
  <2> SUFFICES ASSUME e.extents PROVE \A i \in DOMAIN e.leaf : e.leaf[i][1] > 0 /\ e.leaf[i][2] > 0
    OBVIOUS
  <2>1. \A i \in DOMAIN e.leaf : e.leaf[i] \in Leaves
    BY <1>2
  <2> QED BY <2>1 DEF Leaves
<1>7. { listed[i] : i \in DOMAIN listed \cap kept } \subseteq Leaves
  <2> HIDE DEF listed
  <2>1. \A i \in DOMAIN listed : listed[i] \in Pairs
    BY <1>5
  <2> QED BY <2>1 DEF Leaves
<1>8. e.extents => listed = e.leaf
  OBVIOUS
<1> HIDE DEF listed, kept, Pairs
<1>9. /\ Subsequence(listed, kept) \in Seq({ listed[i] : i \in DOMAIN listed \cap kept })
      /\ DOMAIN listed \subseteq kept => Subsequence(listed, kept) = listed
  BY <1>5, SubsequenceIs
<1> DEFINE D == { listed[i] : i \in DOMAIN listed \cap kept }
<1> HIDE DEF D
<1>10. Subsequence(listed, kept) \in Seq(Leaves)
  <2>1. Subsequence(listed, kept) \in Seq(D) /\ D \subseteq Leaves
    BY <1>7, <1>9 DEF D
  <2> HIDE DEF Leaves
  <2> QED BY <2>1
<1> QED BY <1>1, <1>6, <1>8, <1>9, <1>10

(* Of the direct pointers it leaves out a hole.                            *)
LEMMA DirectBlocksAre ==
  ASSUME NEW e \in ExtEntries, ~ e.extents, Len(e.blocks) <= DirectPointers
  PROVE  /\ (\A i \in 1 .. Len(e.blocks) : e.blocks[i] # 0) =>
              BlockExtents(e) = [i \in 1 .. Len(e.blocks) |-> <<e.blocks[i], 1>>]
         /\ \A k \in 0 .. Len(e.blocks) - 1 :
              (\A i \in 1 .. Len(e.blocks) : e.blocks[i] = 0 <=> i = k + 1) =>
                 /\ BlockExtents(e) \in Seq(Nat \X Nat)
                 /\ Len(BlockExtents(e)) = Len(e.blocks) - 1
                 /\ \A i \in 1 .. Len(e.blocks) - 1 :
                       BlockExtents(e)[i] = <<IF i <= k THEN e.blocks[i] ELSE e.blocks[i + 1], 1>>
<1> DEFINE n == Len(e.blocks)
           x(i) == <<e.blocks[i], 1>>
           s == [i \in 1 .. n |-> x(i)]
           kept == {i \in DOMAIN s : s[i][1] > 0 /\ s[i][2] > 0}
           S == Nat \X Nat
<1>1. n \in Nat /\ \A i \in 1 .. n : e.blocks[i] \in Nat
  BY DEF ExtEntries
<1>2. Min({n, DirectPointers}) = n
  <2> DEFINE U == {n, DirectPointers}
  <2>1. U \in SUBSET Nat /\ n \in U
    BY <1>1, DirectAssumption
  <2>2. U # {} /\ \A y \in U : n <= y
    BY <1>1, DirectAssumption
  <2> HIDE DEF U
  <2>3. Min(U) \in U /\ \A y \in U : Min(U) <= y
    BY <2>1, <2>2, LeastMin
  <2>4. Min(U) \in Nat /\ Min(U) <= n /\ n <= Min(U)
    BY <2>1, <2>2, <2>3
  <2>5. Min(U) = n
    BY <1>1, <2>4
  <2> QED BY <2>5 DEF U
<1>3. BlockExtents(e) = Subsequence(s, kept)
  <2>1. ~ e.extents
    OBVIOUS
  <2> QED BY <1>2, <2>1 DEF BlockExtents
<1>4. \A i \in 1 .. n : x(i) \in S /\ x(i)[1] = e.blocks[i] /\ x(i)[2] = 1
  BY <1>1
<1> HIDE DEF x, S, n
<1>5. s \in Seq(S) /\ Len(s) = n /\ DOMAIN s = 1 .. n /\ \A i \in 1 .. n : s[i] = x(i)
  BY <1>1, <1>4
<1> HIDE DEF s
<1>6. \A i \in 1 .. n : i \in kept <=> e.blocks[i] # 0
  BY <1>1, <1>4, <1>5
<1> HIDE DEF kept
<1>7. ASSUME \A i \in 1 .. n : e.blocks[i] # 0
      PROVE  BlockExtents(e) = [i \in 1 .. n |-> x(i)]
  <2>1. DOMAIN s \subseteq kept
    BY <1>5, <1>6, <1>7
  <2>2. Subsequence(s, kept) = s
    BY <1>5, <2>1, SubsequenceIs
  <2> QED BY <1>3, <2>2 DEF s
<1>8. ASSUME NEW k \in 0 .. n - 1, \A i \in 1 .. n : e.blocks[i] = 0 <=> i = k + 1
      PROVE  /\ BlockExtents(e) \in Seq(S) /\ Len(BlockExtents(e)) = n - 1
             /\ \A i \in 1 .. n - 1 : BlockExtents(e)[i] = x(IF i <= k THEN i ELSE i + 1)
  <2>1. /\ k \in 0 .. Len(s) - 1 /\ k + 1 \notin kept
        /\ \A i \in 1 .. Len(s) : i # k + 1 => i \in kept
    BY <1>1, <1>5, <1>6, <1>8
  <2> DEFINE q == Subsequence(s, kept)
  <2>2. /\ q \in Seq(S) /\ Len(q) = Len(s) - 1
        /\ \A i \in 1 .. Len(s) - 1 : q[i] = IF i <= k THEN s[i] ELSE s[i + 1]
    BY <1>5, <2>1, SubsequenceWithout
  <2> HIDE DEF q
  <2>3. \A i \in 1 .. n - 1 : i \in 1 .. n /\ i + 1 \in 1 .. n
    BY <1>1
  <2>4. BlockExtents(e) = q
    BY <1>3 DEF q
  <2> QED BY <1>5, <2>2, <2>3, <2>4
<1>9. \A k \in 0 .. n - 1 : \A i \in 1 .. n - 1 :
        x(IF i <= k THEN i ELSE i + 1) = <<IF i <= k THEN e.blocks[i] ELSE e.blocks[i + 1], 1>>
  BY DEF x
<1> QED BY <1>7, <1>8, <1>9 DEF n, x, S

(* A location is a sequence of runs, or the one that an empty file has.    *)
Locations == Seq(Runs1) \cup {<<<<0, 0>>>>}

LEMMA LocationsAre ==
  /\ Locations \subseteq Seq(Extents) /\ <<>> \in Locations
  /\ Seq(Runs1) \subseteq Locations /\ <<<<0, 0>>>> \in Locations
<1>1. <<<<0, 0>>>> \in Seq(Extents)
  <2>1. <<0, 0>> \in Extents
    BY DEF Extents
  <2> HIDE DEF Extents
  <2> QED BY <2>1
<1>2. Seq(Runs1) \subseteq Seq(Extents)
  <2>1. Runs1 \subseteq Extents
    BY DEF Runs1, Extents
  <2> HIDE DEF Runs1, Extents
  <2> QED BY <2>1
<1>3. <<>> \in Seq(Runs1)
  OBVIOUS
<1> HIDE DEF Runs1, Extents
<1> QED BY <1>1, <1>2, <1>3 DEF Locations

LEMMA LocateFatIs ==
  ASSUME NEW cells, IsTable(cells), NEW e \in FatEntries
  PROVE  /\ LocateFat(cells, e).loc \in Locations
         /\ LocateFat(cells, e).conf \in Confidences
<1> DEFINE chain == FollowChain(cells, e.start)
<1>1. e.start \in Nat /\ e.size \in Nat
  BY DEF FatEntries
<1>2. chain \in Seq(Nat) /\ \A i \in 1 .. Len(chain) : chain[i] >= 2
  BY <1>1, FollowChainIs
<1>3. ClustersToExtents(chain) \in Seq(Runs1)
  BY <1>2, ClustersToExtentsIs
<1> HIDE DEF Runs1, chain
<1>4. ClustersToExtents(chain) \in Locations /\ <<>> \in Locations /\ <<<<0, 0>>>> \in Locations
  BY <1>3, LocationsAre
<1>5. CASE e.start < 2
  <2>1. CASE e.size = 0
    BY <1>4, <1>5, <2>1 DEF LocateFat, Confidences
  <2>2. CASE e.size # 0
    BY <1>4, <1>5, <2>2 DEF LocateFat, Confidences
  <2> QED BY <2>1, <2>2
<1>6. CASE ~ (e.start < 2)
  <2>1. /\ LocateFat(cells, e).loc = ClustersToExtents(chain)
        /\ LocateFat(cells, e).conf \in {"Partial", "Confirmed"}
    BY <1>6 DEF LocateFat, chain
  <2> QED BY <1>4, <2>1 DEF Confidences
<1> QED BY <1>5, <1>6

LEMMA LocateNtfsIs ==
  ASSUME NEW bitmap, NEW sectors, NEW e \in NtfsEntries
  PROVE  /\ LocateNtfs(bitmap, sectors, e).loc = DecodeRuns(e.runs)
         /\ LocateNtfs(bitmap, sectors, e).loc \in Locations
         /\ LocateNtfs(bitmap, sectors, e).conf \in Confidences
<1>1. e.runs \in Seq(DataRuns)
  BY DEF NtfsEntries
<1>2. PICK f \in [0 .. Len(e.runs) -> Decodings] : DecodeRuns(e.runs) = f[Len(e.runs)].exts
  BY <1>1, DecodeRunsFollows
<1>3. DecodeRuns(e.runs) \in Seq(Runs1)
  <2>1. Len(e.runs) \in 0 .. Len(e.runs)
    BY <1>1
  <2>2. f[Len(e.runs)] \in Decodings
    BY <2>1
  <2> QED BY <1>2, <2>2 DEF Decodings
<1>4. DecodeRuns(e.runs) \in Locations
  BY <1>3, LocationsAre
<1>5. LocateNtfs(bitmap, sectors, e).loc = DecodeRuns(e.runs)
  BY DEF LocateNtfs
<1>6. LocateNtfs(bitmap, sectors, e).conf \in Confidences
  BY DEF LocateNtfs, ExtentsConfidence, Confidences
<1> QED BY <1>4, <1>5, <1>6

LEMMA SinglesAre ==
  ASSUME NEW p \in Seq(Nat)
  PROVE  /\ [i \in 1 .. Len(p) |-> <<p[i], 1>>] \in Seq(Extents)
         /\ SectorSeq([i \in 1 .. Len(p) |-> <<p[i], 1>>]) = p
<1> DEFINE N == Len(p)
           x(i) == <<p[i], 1>>
           loc == [i \in 1 .. N |-> x(i)]
<1>1. N \in Nat /\ \A i \in 1 .. N : p[i] \in Nat
  OBVIOUS
<1>2. \A i \in 1 .. N : x(i) \in Extents /\ x(i)[1] = p[i] /\ x(i)[2] = 1
  BY <1>1 DEF Extents
<1> HIDE DEF x
<1>3. loc \in Seq(Extents) /\ Len(loc) = N /\ \A i \in 1 .. N : loc[i] = x(i)
  BY <1>1, <1>2
<1> HIDE DEF loc
<1>4. PICK f \in [0 .. N -> Seq(Nat)] :
           /\ f[0] = <<>> /\ \A n \in 1 .. N : f[n] = f[n - 1] \o Run(loc[n])
           /\ SectorSeq(loc) = f[N]
  BY <1>3, SectorSeqFollows
<1> DEFINE T == { n \in 0 .. N : Len(f[n]) = n /\ \A i \in 1 .. n : f[n][i] = p[i] }
<1>5. 0 \in T
  BY <1>1, <1>4
<1>6. ASSUME NEW n \in 1 .. N, n - 1 \in T PROVE n \in T
  <2> DEFINE q == f[n - 1]
             r == Run(loc[n])
  <2>1. q \in Seq(Nat) /\ Len(q) = n - 1 /\ \A i \in 1 .. n - 1 : q[i] = p[i]
    BY <1>1, <1>4, <1>6
  <2>2. loc[n] \in Extents /\ loc[n][1] = p[n] /\ loc[n][2] = 1
    BY <1>2, <1>3
  <2> HIDE DEF q, r
  <2>3. r \in Seq(Nat) /\ Len(r) = 1 /\ r[1] = p[n]
    <3>1. /\ r \in Seq(Nat) /\ Len(r) = loc[n][2]
          /\ \A k \in 1 .. loc[n][2] : r[k] = loc[n][1] + k - 1
      BY <2>2, RunIs DEF r
    <3>2. p[n] \in Nat
      BY <1>1
    <3> QED BY <2>2, <3>1, <3>2
  <2>4. f[n] = q \o r
    BY <1>4 DEF q, r
  <2>5. /\ Len(q \o r) = n
        /\ \A i \in 1 .. Len(q) + Len(r) :
             (q \o r)[i] = IF i <= Len(q) THEN q[i] ELSE r[i - Len(q)]
    <3>1. /\ Len(q \o r) = Len(q) + Len(r)
          /\ \A i \in 1 .. Len(q) + Len(r) :
               (q \o r)[i] = IF i <= Len(q) THEN q[i] ELSE r[i - Len(q)]
      BY <2>1, <2>3, ConcatProperties
    <3> QED BY <1>1, <2>1, <2>3, <3>1
  <2>6. \A i \in 1 .. n : (q \o r)[i] = p[i]
    <3> SUFFICES ASSUME NEW i \in 1 .. n PROVE (q \o r)[i] = p[i]
      OBVIOUS
    <3>0. i \in 1 .. Len(q) + Len(r)
      BY <2>1, <2>3
    <3>1. CASE i <= n - 1
      <4>1. (q \o r)[i] = q[i] /\ i \in 1 .. n - 1
        BY <2>1, <2>5, <3>0, <3>1
      <4> QED BY <2>1, <4>1
    <3>2. CASE ~ (i <= n - 1)
      <4>1. i = n /\ (q \o r)[i] = r[i - (n - 1)] /\ i - (n - 1) = 1
        BY <2>1, <2>5, <3>0, <3>2
      <4> QED BY <2>3, <4>1
    <3> QED BY <3>1, <3>2
  <2>7. n \in 0 .. N
    BY <1>1
  <2>8. Len(f[n]) = n /\ \A i \in 1 .. n : f[n][i] = p[i]
    BY <2>4, <2>5, <2>6
  <2> QED BY <2>7, <2>8
<1>7. N \in T
  <2>1. N \in 0 .. N
    BY <1>1
  <2> HIDE DEF T, N
  <2> QED BY <1>1, <1>5, <1>6, <2>1, UpTo
<1>8. f[N] \in Seq(Nat)
  BY <1>1, <1>4
<1>9. f[N] = p
  BY <1>7, <1>8, SeqEqual
<1> QED BY <1>3, <1>4, <1>9 DEF loc, x

LEMMA LocateExt4Is ==
  ASSUME NEW bitmap, NEW sectors, NEW e \in ExtEntries
  PROVE  /\ LocateExt4(bitmap, sectors, e).loc \in Locations
         /\ LocateExt4(bitmap, sectors, e).conf \in Confidences
         /\ LocateExt4(bitmap, sectors, e).loc = <<>> => LocateExt4(bitmap, sectors, e).conf = "Low"
         /\ BlockExtents(e) # <<>> =>
              LocateExt4(bitmap, sectors, e).loc =
                [i \in DOMAIN BlockExtents(e) |-> <<BlockExtents(e)[i][1] - 1, BlockExtents(e)[i][2]>>]
<1> DEFINE exts == BlockExtents(e)
           x(i) == <<exts[i][1] - 1, exts[i][2]>>
           loc == [i \in DOMAIN exts |-> x(i)]
           at == LocateExt4(bitmap, sectors, e)
<1>1. exts \in Seq(Leaves)
  BY BlockExtentsAre
<1>2. Len(exts) \in Nat /\ DOMAIN exts = 1 .. Len(exts) /\ \A i \in 1 .. Len(exts) : exts[i] \in Leaves
  BY <1>1
<1>3. \A i \in 1 .. Len(exts) : x(i) \in Runs1
  BY <1>2 DEF Leaves, Runs1
<1> HIDE DEF exts, x
<1> HIDE DEF Runs1
<1>4. loc \in Seq(Runs1) /\ loc \in Locations /\ Len(loc) = Len(exts)
  <2>1. loc \in Seq(Runs1) /\ Len(loc) = Len(exts)
    BY <1>2, <1>3
  <2> HIDE DEF loc
  <2> QED BY <2>1, LocationsAre
<1>5. <<<<0, 0>>>> \in Locations /\ <<>> \in Locations /\ <<<<0, 0>>>> # <<>>
  BY LocationsAre
<1>6. CASE exts = <<>>
  <2>1. at = IF e.size = 0 THEN [loc |-> <<<<0, 0>>>>, conf |-> "Confirmed"]
                            ELSE [loc |-> <<>>, conf |-> "Low"]
    BY <1>6 DEF LocateExt4, exts
  <2> HIDE DEF at
  <2>2. CASE e.size = 0
    <3> DEFINE none == <<<<0, 0>>>>
    <3>1. at = [loc |-> none, conf |-> "Confirmed"]
      BY <2>1, <2>2
    <3> HIDE DEF none
    <3>2. at.loc = none /\ at.conf = "Confirmed"
      BY <3>1
    <3>3. none \in Locations /\ none # <<>>
      BY <1>5 DEF none
    <3> QED BY <1>6, <3>2, <3>3 DEF Confidences, at, exts
  <2>3. CASE e.size # 0
    <3> DEFINE none == <<>>
    <3>1. at = [loc |-> none, conf |-> "Low"]
      BY <2>1, <2>3
    <3> HIDE DEF none
    <3>2. at.loc = none /\ at.conf = "Low"
      BY <3>1
    <3>3. none \in Locations
      BY <1>5 DEF none
    <3> QED BY <1>6, <3>2, <3>3 DEF Confidences, at, exts
  <2> QED BY <2>2, <2>3
<1>7. CASE exts # <<>>
  <2> DEFINE conf == IF ~e.deleted THEN "Confirmed"
                     ELSE IF bitmap THEN ExtentsConfidence(sectors, loc) ELSE "Partial"
  <2>1. at = [loc |-> loc, conf |-> conf]
    BY <1>7 DEF LocateExt4, exts, x, BlockToLba
  <2>2. conf \in Confidences
    BY DEF ExtentsConfidence, Confidences
  <2>3. loc # <<>>
    BY <1>2, <1>4, <1>7
  <2> HIDE DEF loc, conf, at
  <2>4. at.loc = loc /\ at.conf \in Confidences
    BY <2>1, <2>2
  <2> QED BY <1>4, <2>3, <2>4 DEF at, loc, exts, x
<1> QED BY <1>6, <1>7

(* A location of any listed file, whatever became of it.                   *)
LEMMA LocateIs ==
  ASSUME NEW f, entry[f] \in Entries, IsFat => IsTable(table)
  PROVE  Locate(f).loc \in Locations /\ Locate(f).loc \in Seq(Extents) /\ Locate(f).conf \in Confidences
<1> SUFFICES Locate(f).loc \in Locations /\ Locate(f).conf \in Confidences
  BY LocationsAre
<1>1. CASE scen.kind = "fat"
  <2>1. entry[f] \in FatEntries /\ IsTable(table) /\ Locate(f) = LocateFat(table, entry[f])
    BY <1>1 DEF Entries, IsFat, Locate
  <2> QED BY <2>1, LocateFatIs
<1>2. CASE scen.kind = "ntfs"
  <2>1. entry[f] \in NtfsEntries /\ Locate(f) = LocateNtfs(scen.bitmap, used, entry[f])
    BY <1>2 DEF Entries, Locate
  <2> QED BY <2>1, LocateNtfsIs
<1>3. CASE scen.kind \notin {"fat", "ntfs"}
  <2>1. entry[f] \in ExtEntries /\ Locate(f) = LocateExt4(scen.bitmap, used, entry[f])
    BY <1>3 DEF Entries, Locate
  <2> DEFINE e == entry[f]
             at == LocateExt4(scen.bitmap, used, e)
  <2> HIDE DEF e
  <2>2. e \in ExtEntries
    BY <2>1 DEF e
  <2>3. at.loc \in Locations /\ at.conf \in Confidences
    BY <2>2, LocateExt4Is
  <2>4. Locate(f) = at
    BY <2>1 DEF e
  <2> QED BY <2>3, <2>4, Zenon
<1> QED BY <1>1, <1>2, <1>3

LEMMA PrefixOfPlace ==
  ASSUME NEW p \in Seq(Lba), NEW n \in 0 .. Len(p)
  PROVE  SubSeq(p, 1, n) \in Seq(Lba) /\ Len(SubSeq(p, 1, n)) = n /\ \A i \in 1 .. n : SubSeq(p, 1, n)[i] = p[i]
<1>1. \A i \in 1 .. n : p[i] \in Lba
  OBVIOUS
<1>2. 1 \in Int /\ n \in Int /\ n \in Nat
  OBVIOUS
<1> DEFINE q == SubSeq(p, 1, n)
<1>3. /\ q \in Seq(Lba) /\ Len(q) = IF 1 <= n THEN n - 1 + 1 ELSE 0
      /\ \A i \in 1 .. n - 1 + 1 : q[i] = p[1 + i - 1]
  BY <1>1, <1>2, SubSeqProperties
<1> HIDE DEF q
<1>4. Len(q) = n
  BY <1>2, <1>3
<1>5. \A i \in 1 .. n : i \in 1 .. n - 1 + 1 /\ 1 + i - 1 = i
  BY <1>2
<1>6. \A i \in 1 .. n : q[i] = p[i]
  BY <1>3, <1>5
<1> QED BY <1>3, <1>4, <1>6 DEF q

LEMMA PlaceIs ==
  ASSUME NEW p \in Seq(Lba), p # <<>>
  PROVE  Len(p) \in Nat /\ Len(p) >= 1 /\ DOMAIN p = 1 .. Len(p) /\ \A i \in 1 .. Len(p) : p[i] \in Nat
BY LimitsAssumption DEF Lba

(* The pointers of an old inode are read as the sectors, across a hole.     *)
LEMMA PointersAre ==
  ASSUME NEW p \in Seq(Lba), p # <<>>, NEW e \in ExtEntries, ~ e.extents, Len(e.blocks) <= DirectPointers,
         NEW k \in 0 .. Len(p), NEW list \in Seq(Nat),
         Len(list) = Len(p), \A i \in 1 .. Len(p) : list[i] = p[i] + 1,
         e.blocks = list \/ e.blocks = InsertAt(list, k + 1, 0)
  PROVE  LET exts == BlockExtents(e)
             loc == [i \in DOMAIN exts |-> <<exts[i][1] - 1, exts[i][2]>>]
         IN  exts # <<>> /\ SectorSeq(loc) = p /\ loc # <<>>
<1> DEFINE N == Len(p)
           exts == BlockExtents(e)
           x(i) == <<exts[i][1] - 1, exts[i][2]>>
           loc == [i \in DOMAIN exts |-> x(i)]
<1>1. N \in Nat /\ N >= 1 /\ DOMAIN p = 1 .. N /\ \A i \in 1 .. N : p[i] \in Nat
  BY PlaceIs
<1>2. list \in Seq(Nat) /\ Len(list) = N /\ \A i \in 1 .. N : list[i] = p[i] + 1
  OBVIOUS
<1> HIDE DEF exts, N
<1>3. DOMAIN exts = 1 .. N /\ \A i \in 1 .. N : exts[i] = <<p[i] + 1, 1>>
  <2>1. CASE e.blocks = list
    <3>1. Len(e.blocks) = N /\ \A i \in 1 .. N : e.blocks[i] = p[i] + 1 /\ e.blocks[i] # 0
      BY <1>1, <1>2, <2>1
    <3>2. exts = [i \in 1 .. Len(e.blocks) |-> <<e.blocks[i], 1>>]
      BY <3>1, DirectBlocksAre DEF exts
    <3> QED BY <3>1, <3>2
  <2>2. CASE e.blocks = InsertAt(list, k + 1, 0)
    <3> DEFINE b == e.blocks
    <3>1. /\ Len(b) = N + 1 /\ b[k + 1] = 0
          /\ \A i \in 1 .. k : b[i] = list[i]
          /\ \A i \in k + 1 .. N : b[i + 1] = list[i]
      <4>1. list \in Seq(Nat) /\ k \in 0 .. Len(list)
        BY <1>2 DEF N
      <4> DEFINE q == InsertAt(list, k + 1, 0)
      <4>2. /\ Len(q) = Len(list) + 1 /\ q[k + 1] = 0
            /\ \A i \in 1 .. k : q[i] = list[i]
            /\ \A i \in k + 1 .. Len(list) : q[i + 1] = list[i]
        BY <4>1, HoleIs
      <4>3. b = q
        BY <2>2
      <4> HIDE DEF q
      <4> QED BY <1>2, <4>2, <4>3
    <3> HIDE DEF b
    <3>2. k \in 0 .. N
      BY DEF N
    <3>3. ASSUME NEW i \in 1 .. N + 1 PROVE b[i] = 0 <=> i = k + 1
      <4>1. CASE i \in 1 .. k
        <5>1. i \in 1 .. N /\ i # k + 1
          BY <1>1, <3>2, <4>1
        <5>2. b[i] = p[i] + 1 /\ p[i] \in Nat
          BY <1>1, <1>2, <3>1, <4>1, <5>1
        <5>3. b[i] # 0
          BY <5>2
        <5> QED BY <5>1, <5>3
      <4>2. CASE i = k + 1
        BY <3>1, <4>2
      <4>3. CASE i \in k + 2 .. N + 1
        <5>1. i - 1 \in k + 1 .. N /\ (i - 1) + 1 = i /\ i - 1 \in 1 .. N
          BY <1>1, <3>2, <4>3
        <5>2. b[i] = p[i - 1] + 1
          BY <1>2, <3>1, <5>1
        <5> QED BY <1>1, <3>2, <4>3, <5>1, <5>2
      <4> QED BY <1>1, <3>2, <4>1, <4>2, <4>3
    <3>4. k \in 0 .. Len(b) - 1 /\ Len(b) - 1 = N
      BY <1>1, <3>1, <3>2
    <3>5. \A i \in 1 .. Len(b) : b[i] = 0 <=> i = k + 1
      BY <3>1, <3>3
    <3>6. /\ exts \in Seq(Nat \X Nat) /\ Len(exts) = Len(b) - 1
          /\ \A i \in 1 .. Len(b) - 1 : exts[i] = <<IF i <= k THEN b[i] ELSE b[i + 1], 1>>
      BY <3>4, <3>5, DirectBlocksAre DEF exts, b
    <3>7. ASSUME NEW i \in 1 .. N PROVE (IF i <= k THEN b[i] ELSE b[i + 1]) = p[i] + 1
      <4>1. i <= k => i \in 1 .. k
        BY <3>2
      <4>2. ~ (i <= k) => i \in k + 1 .. N
        BY <3>2
      <4> QED BY <1>2, <3>1, <4>1, <4>2
    <3>8. DOMAIN exts = 1 .. N
      BY <1>1, <3>4, <3>6
    <3> QED BY <3>4, <3>6, <3>7, <3>8
  <2> QED BY <2>1, <2>2
<1>4. \A i \in 1 .. N : x(i) = <<p[i], 1>>
  <2> SUFFICES ASSUME NEW i \in 1 .. N PROVE x(i) = <<p[i], 1>>
    OBVIOUS
  <2>1. exts[i] = <<p[i] + 1, 1>> /\ p[i] \in Nat
    BY <1>1, <1>3
  <2>2. exts[i][1] = p[i] + 1 /\ exts[i][2] = 1
    BY <2>1
  <2> QED BY <2>1, <2>2
<1> HIDE DEF x
<1>5. loc = [i \in 1 .. N |-> <<p[i], 1>>]
  BY <1>3, <1>4
<1>6. SectorSeq([i \in 1 .. N |-> <<p[i], 1>>]) = p
  <2>1. p \in Seq(Nat)
    BY <1>1 DEF N
  <2> QED BY <2>1, SinglesAre DEF N
<1>7. exts # <<>> /\ loc # <<>>
  <2>1. exts # <<>>
    BY <1>1, <1>3
  <2>2. DOMAIN loc = 1 .. N
    BY <1>3
  <2> HIDE DEF loc
  <2>3. loc # <<>>
    BY <1>1, <2>2
  <2> QED BY <2>1, <2>3
<1> QED BY <1>5, <1>6, <1>7 DEF exts, x

(* What the parsers say of a live file are the sectors the host laid it in.*)
LEMMA LiveLocation ==
  ASSUME NEW f, f # Dir, NEW p \in Seq(Lba), p # <<>>, IsInjective(p),
         entry[f] = EntryAt(f, p), scen \in Scenarios,
         IsFat => IsTable(table) /\ Linked(table, p),
         scen.kind = "ext2" => entry[f].size <= DirectPointers
  PROVE  /\ SectorSeq(Locate(f).loc) = p
         /\ Locate(f).loc # <<>> /\ Locate(f).conf \in {"Confirmed", "Partial"}
<1> DEFINE runs == Runs(p)
           pieces == Pieces(f, p)
           k == Len(Lead(f, p))
           b == Break(f, p)
           N == Len(p)
           e == entry[f]
           whole == SizeAt(f, p)
<1>0. scen.kind \in {"fat", "ntfs", "ext4", "ext2"}
  BY ScenarioAssumption
<1>1. runs \in Seq(Runs1) /\ SectorSeq(runs) = p /\ runs # <<>>
  BY RunsAre
<1>2. N \in Nat /\ N >= 1 /\ DOMAIN p = 1 .. N /\ 1 \in 1 .. N /\ \A i \in 1 .. N : p[i] \in Nat
  BY LimitsAssumption DEF Lba
<1>p. /\ pieces \in Seq(Runs1) /\ SectorSeq(pieces) = p /\ pieces # <<>>
      /\ b \in 0 .. N /\ k \in 0 .. Len(pieces)
  BY PiecesRead
<1> HIDE DEF pieces, k, b, whole
<1>3. CASE scen.kind = "fat"
  <2>1. e = [deleted |-> FALSE, size |-> whole, start |-> p[1] + 2]
    BY <1>3 DEF EntryAt, whole
  <2>2. ~ e.deleted /\ e.start = p[1] + 2 /\ ~ (e.start < 2)
    BY <1>2, <2>1
  <2>3. FollowChain(table, e.start) = [i \in 1 .. N |-> p[i] + 2]
    BY <1>3, <2>2, LinkedChain DEF IsFat
  <2>4. Locate(f) = LocateFat(table, e)
    BY <1>3 DEF Locate
  <2> HIDE DEF e
  <2>5. /\ LocateFat(table, e).loc = ClustersToExtents(FollowChain(table, e.start))
        /\ LocateFat(table, e).conf = "Confirmed"
    BY <2>2 DEF LocateFat
  <2>6. ClustersToExtents([i \in 1 .. N |-> p[i] + 2]) = runs
    BY <1>2 DEF Runs
  <2> HIDE DEF runs
  <2> QED BY <1>1, <2>3, <2>4, <2>5, <2>6
<1>4. CASE scen.kind = "ntfs"
  <2> DEFINE list == WithHole(f, p, RunList(pieces), k, SparseRun)
  <2>1. e = [deleted |-> FALSE, size |-> whole, runs |-> list]
    BY <1>4 DEF EntryAt, pieces, k, whole
  <2>2. Locate(f) = LocateNtfs(scen.bitmap, used, e)
    BY <1>4 DEF Locate
  <2>3. DecodeRuns(list) = pieces
    <3>1. DecodeRuns(RunList(pieces)) = pieces
      BY <1>p, DecodesBack
    <3>2. DecodeRuns(InsertAt(RunList(pieces), k + 1, SparseRun)) = pieces
      BY <1>p, DecodesBackAcross
    <3> QED BY <3>1, <3>2 DEF WithHole
  <2> HIDE DEF e, list
  <2>4. ~ e.deleted /\ DecodeRuns(e.runs) = pieces
    BY <2>1, <2>3
  <2>5. /\ LocateNtfs(scen.bitmap, used, e).loc = pieces
        /\ LocateNtfs(scen.bitmap, used, e).conf \in {"Confirmed", "Partial"}
    BY <1>p, <2>4 DEF LocateNtfs
  <2> QED BY <1>p, <2>2, <2>5
<1>5. CASE scen.kind \in {"ext4", "ext2"}
  <2> DEFINE leaf == [i \in DOMAIN pieces |-> <<pieces[i][1] + 1, pieces[i][2]>>]
             list == [i \in DOMAIN p |-> p[i] + 1]
             blocks == WithHole(f, p, list, b, 0)
             extents == scen.kind = "ext4"
             at == LocateExt4(scen.bitmap, used, e)
             exts == BlockExtents(e)
             x(i) == <<exts[i][1] - 1, exts[i][2]>>
  <2>1. e = [deleted |-> FALSE, size |-> whole, extents |-> extents, leaf |-> leaf, blocks |-> blocks]
    BY <1>5 DEF EntryAt, pieces, b, whole
  <2>2. Locate(f) = at
    BY <1>5 DEF Locate
  <2>3. e \in ExtEntries
    <3>1. EntryAt(f, p) \in Entries
      BY EntryAtIs
    <3> QED BY <1>5, <3>1 DEF Entries
  <2>4. ~ e.deleted /\ e.extents = extents /\ e.leaf = leaf /\ e.blocks = blocks /\ e.size = whole
    <3> HIDE DEF e, extents, leaf, blocks
    <3> QED BY <2>1
  <2>s. scen.kind = "ext2" => whole <= DirectPointers
    BY <2>4
  <2> HIDE DEF e
  <2>5. exts # <<>> => at.loc = [i \in DOMAIN exts |-> x(i)]
    BY <2>3, LocateExt4Is
  <2>6. exts # <<>> => at.conf = "Confirmed"
    BY <2>4 DEF LocateExt4
  <2>7. exts # <<>> /\ SectorSeq([i \in DOMAIN exts |-> x(i)]) = p /\ [i \in DOMAIN exts |-> x(i)] # <<>>
    <3>1. CASE scen.kind = "ext4"
      <4>1. exts = leaf
        BY <2>3, <2>4, <3>1, BlockExtentsAre
      <4>2. Len(pieces) \in Nat /\ DOMAIN pieces = 1 .. Len(pieces) /\ Len(pieces) # 0
        BY <1>p
      <4>3. DOMAIN exts = DOMAIN pieces /\ exts # <<>>
        <5>1. DOMAIN exts = DOMAIN pieces
          BY <4>1
        <5>2. 1 \in DOMAIN pieces
          BY <4>2
        <5> HIDE DEF exts
        <5> QED BY <5>1, <5>2
      <4>4. \A i \in DOMAIN pieces : x(i) = pieces[i]
        <5> SUFFICES ASSUME NEW i \in DOMAIN pieces PROVE x(i) = pieces[i]
          OBVIOUS
        <5>1. exts[i] = <<pieces[i][1] + 1, pieces[i][2]>>
          BY <4>1
        <5>2. pieces[i] \in Runs1
          BY <1>p, <4>2
        <5> HIDE DEF exts
        <5> QED BY <5>1, <5>2 DEF Runs1
      <4> HIDE DEF x, exts
      <4>5. [i \in DOMAIN exts |-> x(i)] = pieces
        BY <1>p, <4>2, <4>3, <4>4
      <4> QED BY <1>p, <4>3, <4>5
    <3>2. CASE scen.kind = "ext2"
      <4>1. list \in Seq(Nat) /\ Len(list) = N
        BY <1>2
      <4>2. ~ e.extents
        BY <2>4, <3>2
      <4>3. e.blocks = list \/ e.blocks = InsertAt(list, b + 1, 0)
        BY <2>4 DEF WithHole
      <4>4. Len(e.blocks) <= DirectPointers
        <5>1. CASE Holed(f, p)
          <6>1. whole = N + 1
            BY <5>1 DEF SizeAt, whole
          <6>2. list \in Seq(Nat) /\ b \in 0 .. Len(list)
            BY <1>p, <4>1
          <6>3. e.blocks = InsertAt(list, b + 1, 0)
            BY <2>4, <5>1 DEF WithHole
          <6> HIDE DEF list
          <6>4. Len(InsertAt(list, b + 1, 0)) = Len(list) + 1
            BY <6>2, HoleIs
          <6> QED BY <2>s, <3>2, <4>1, <6>1, <6>3, <6>4
        <5>2. CASE ~ Holed(f, p)
          <6>1. whole = N /\ e.blocks = list
            BY <2>4, <5>2 DEF SizeAt, WithHole, whole
          <6> HIDE DEF list
          <6> QED BY <2>s, <3>2, <4>1, <6>1
        <5> QED BY <5>1, <5>2
      <4>5. \A i \in 1 .. N : list[i] = p[i] + 1
        BY <1>2
      <4> HIDE DEF list
      <4> QED BY <1>p, <2>3, <4>1, <4>2, <4>3, <4>4, <4>5, PointersAre
    <3> QED BY <1>5, <3>1, <3>2
  <2> HIDE DEF at, exts, x
  <2> QED BY <2>2, <2>5, <2>6, <2>7
<1> QED BY <1>0, <1>3, <1>4, <1>5

-----------------------------------------------------------------------------
(* The volume.                                                             *)

Names == Files \cup {Dir}

(* What the host keeps true of the volume: the entry and the allocation    *)
(* structure agree with the sectors of every live file.                    *)
VolumeOK ==
  /\ scen \in Scenarios /\ damaged \in BOOLEAN
  /\ place \in [Names -> Seq(Lba)] /\ \A g \in Names : IsInjective(place[g])
  /\ DOMAIN entry \subseteq Names /\ \A g \in DOMAIN entry : entry[g] \in Entries
  /\ IsFat => IsTable(table)
  /\ \A g \in Live : entry[g] = EntryAt(g, place[g]) /\ ToSet(place[g]) \cap FreeSectors = {}
  /\ \A g, h \in Live : g # h => ToSet(place[g]) \cap ToSet(place[h]) = {}
  /\ IsFat /\ ~ damaged => \A g \in Live : Linked(table, place[g])
  /\ \A g \in Live : g \in scen.nested /\ Dir \in DOMAIN entry => Dir \in Live

LEMMA SameScenario ==
  ASSUME scen' = scen
  PROVE  /\ Entries' = Entries /\ IsFat' = IsFat
         /\ \A g, p : EntryAt(g, p)' = EntryAt(g, p)
<1>1. Entries' = Entries /\ IsFat' = IsFat
  BY DEF Entries, IsFat
<1>2. ASSUME NEW g, NEW p PROVE EntryAt(g, p)' = EntryAt(g, p)
  BY DEF EntryAt, Pieces, Lead, Break, SizeAt, WithHole, Holed
<1> QED BY <1>1, <1>2

LEMMA ChainedIs ==
  ASSUME NEW cells, IsTable(cells), NEW p \in Seq(Lba), IsInjective(p)
  PROVE  /\ IsTable(Chained(cells, p)) /\ Linked(Chained(cells, p), p)
         /\ \A c \in DOMAIN cells : c - 2 \notin ToSet(p) => Chained(cells, p)[c] = cells[c]
         /\ \A c \in DOMAIN cells : c - 2 \in ToSet(p) => Chained(cells, p)[c] # FreeCell
<1> DEFINE N == Len(p)
           index(c) == CHOOSE i \in DOMAIN p : p[i] = c - 2
           value(i) == IF i = N THEN EndCell ELSE p[i + 1] + 2
           new == Chained(cells, p)
<1>1. /\ Total \in Nat /\ N \in Nat /\ DOMAIN p = 1 .. N /\ DOMAIN cells = 2 .. Total + 1
      /\ \A i \in 1 .. N : p[i] \in 0 .. Total - 1
      /\ \A c \in DOMAIN cells : cells[c] \in Int
  BY LimitsAssumption DEF Lba, IsTable
<1>2. \A c \in DOMAIN cells : c - 2 \in ToSet(p) => index(c) \in 1 .. N /\ p[index(c)] = c - 2
  BY <1>1 DEF ToSet
<1>3. ASSUME NEW i \in 1 .. N PROVE value(i) \in Int /\ value(i) # 0
  <2>1. CASE i = N
    <3>1. value(i) = EndCell
      BY <2>1
    <3>2. EndCell \in Int /\ EndCell # 0
      BY DEF EndCell
    <3> QED BY <3>1, <3>2
  <2>2. CASE i # N
    <3>1. i + 1 \in 1 .. N
      <4>1. N \in Nat /\ i \in 1 .. N
        BY <1>1
      <4> QED BY <2>2, <4>1
    <3>2. p[i + 1] \in 0 .. Total - 1
      BY <1>1, <3>1
    <3>3. value(i) = p[i + 1] + 2
      BY <2>2
    <3>4. p[i + 1] + 2 \in Int /\ p[i + 1] + 2 # 0
      BY <1>1, <3>2
    <3> QED BY <3>3, <3>4
  <2> QED BY <2>1, <2>2
<1>4. /\ DOMAIN new = DOMAIN cells
      /\ \A c \in DOMAIN cells : c - 2 \notin ToSet(p) => new[c] = cells[c]
      /\ \A c \in DOMAIN cells : c - 2 \in ToSet(p) => new[c] = value(index(c))
  BY DEF Chained
<1> HIDE DEF new, index, value
<1>5. \A c \in DOMAIN cells : c - 2 \in ToSet(p) => new[c] \in Int /\ new[c] # FreeCell
  BY <1>2, <1>3, <1>4 DEF FreeCell
<1>6. IsTable(new)
  BY <1>1, <1>4, <1>5 DEF IsTable
<1>7. \A i \in 1 .. N : new[p[i] + 2] = value(i)
  <2> SUFFICES ASSUME NEW i \in 1 .. N PROVE new[p[i] + 2] = value(i)
    OBVIOUS
  <2> DEFINE c == p[i] + 2
  <2>1. c \in DOMAIN cells /\ c - 2 = p[i]
    BY <1>1
  <2>2. p[i] \in ToSet(p)
    BY <1>1 DEF ToSet
  <2> HIDE DEF c
  <2>3. index(c) \in 1 .. N /\ p[index(c)] = p[i]
    BY <1>2, <2>1, <2>2
  <2>4. index(c) = i
    BY <1>1, <2>3 DEF IsInjective
  <2>5. new[c] = value(i)
    BY <1>4, <2>1, <2>2, <2>4
  <2> QED BY <2>5 DEF c
<1> QED BY <1>4, <1>5, <1>6, <1>7 DEF new, value, Linked

LEMMA FreedIs ==
  ASSUME NEW cells, IsTable(cells), NEW sectors
  PROVE  /\ IsTable(Freed(cells, sectors))
         /\ \A c \in DOMAIN cells : c - 2 \notin sectors => Freed(cells, sectors)[c] = cells[c]
<1>1. \A c \in DOMAIN cells : Freed(cells, sectors)[c] \in Int
  BY DEF Freed, FreeCell, IsTable
<1> QED BY <1>1 DEF Freed, IsTable

(* The cells of a file that stays where it is are those of its sectors.    *)
LEMMA StillLinked ==
  ASSUME NEW cells, IsTable(cells), NEW new, NEW p \in Seq(Lba), Linked(cells, p),
         \A c \in DOMAIN cells : c - 2 \in ToSet(p) => new[c] = cells[c]
  PROVE  Linked(new, p)
<1> SUFFICES ASSUME NEW i \in 1 .. Len(p) PROVE new[p[i] + 2] = cells[p[i] + 2]
  BY DEF Linked
<1>1. p[i] \in 0 .. Total - 1 /\ Total \in Nat
  BY LimitsAssumption DEF Lba
<1>2. p[i] + 2 \in DOMAIN cells /\ (p[i] + 2) - 2 = p[i] /\ p[i] \in ToSet(p)
  BY <1>1 DEF IsTable, ToSet
<1> QED BY <1>2

(* A file comes to lie at p, in free sectors and those it had.             *)
LEMMA OccupyKeeps ==
  ASSUME VolumeOK, NEW f \in Names, NEW p \in Seq(Lba), IsInjective(p),
         \A l \in ToSet(p) : l \in FreeSectors \/ (f \in Live /\ l \in ToSet(place[f])),
         f \in scen.nested /\ Dir \in DOMAIN entry => Dir \in Live,
         Occupy(f, p), UNCHANGED <<scen, damaged>>
  PROVE  VolumeOK'
<1>1. /\ place' \in [Names -> Seq(Lba)] /\ place'[f] = p
      /\ \A g \in Names : g # f => place'[g] = place[g]
  BY DEF VolumeOK, Occupy
<1>2. /\ DOMAIN entry' = DOMAIN entry \cup {f} /\ entry'[f] = EntryAt(f, p)
      /\ \A g \in DOMAIN entry : g # f => entry'[g] = entry[g]
  BY DEF Occupy
<1>3. EntryAt(f, p) \in Entries /\ ~ EntryAt(f, p).deleted
  BY EntryAtIs DEF VolumeOK
<1>4. Live' = Live \cup {f}
  BY <1>2, <1>3 DEF Live
<1>5. IsFat' = IsFat /\ Entries' = Entries /\ \A g, q : EntryAt(g, q)' = EntryAt(g, q)
  BY SameScenario
<1>6. /\ IsFat => IsTable(table) /\ table' = Chained(table, p)
      /\ ~ IsFat => table' = table /\ used' = used \cup ToSet(p)
  BY DEF VolumeOK, Occupy
<1>7. FreeSectors' \subseteq FreeSectors /\ FreeSectors' \cap ToSet(p) = {}
  <2>1. CASE IsFat
    <3>1. /\ IsTable(table') /\ \A c \in DOMAIN table : c - 2 \notin ToSet(p) => table'[c] = table[c]
          /\ \A c \in DOMAIN table : c - 2 \in ToSet(p) => table'[c] # FreeCell
      BY <1>6, <2>1, ChainedIs
    <3>2. DOMAIN table' = DOMAIN table
      BY <1>6, <2>1, <3>1 DEF IsTable
    <3>3. ASSUME NEW l \in FreeSectors' PROVE l \in FreeSectors /\ l \notin ToSet(p)
      <4>1. l \in Lba /\ l + 2 \in DOMAIN table' /\ table'[l + 2] = FreeCell
        BY <1>5, <2>1, <3>3 DEF FreeSectors, IsClusterFree
      <4>2. (l + 2) - 2 = l
        BY <4>1, LimitsAssumption DEF Lba
      <4>3. l \notin ToSet(p) /\ table[l + 2] = FreeCell
        BY <3>1, <3>2, <4>1, <4>2
      <4> QED BY <2>1, <3>2, <4>1, <4>3 DEF FreeSectors, IsClusterFree
    <3> QED BY <3>3
  <2>2. CASE ~ IsFat
    BY <1>5, <1>6, <2>2 DEF FreeSectors
  <2> QED BY <2>1, <2>2
<1>8. \A g \in Live : g # f => ToSet(place[g]) \cap ToSet(p) = {}
  <2> SUFFICES ASSUME NEW g \in Live, g # f, NEW l \in ToSet(place[g]), l \in ToSet(p) PROVE FALSE
    OBVIOUS
  <2>1. l \notin FreeSectors /\ (f \in Live => l \notin ToSet(place[f]))
    BY DEF VolumeOK
  <2> QED BY <2>1
<1>9. (IsFat => IsTable(table))'
  BY <1>5, <1>6, ChainedIs
<1>10. \A g \in Names : IsInjective(place'[g])
  BY <1>1 DEF VolumeOK
<1>11. DOMAIN entry' \subseteq Names /\ \A g \in DOMAIN entry' : entry'[g] \in Entries
  BY <1>2, <1>3 DEF VolumeOK
<1>12. Live \subseteq Names /\ Live \subseteq DOMAIN entry
  BY DEF VolumeOK, Live
<1>13. \A g \in Live' : entry'[g] = EntryAt(g, place'[g]) /\ ToSet(place'[g]) \cap FreeSectors' = {}
  <2> SUFFICES ASSUME NEW g \in Live'
               PROVE  entry'[g] = EntryAt(g, place'[g]) /\ ToSet(place'[g]) \cap FreeSectors' = {}
    OBVIOUS
  <2>1. CASE g = f
    BY <1>1, <1>2, <1>7, <2>1
  <2>2. CASE g # f
    <3>1. g \in Live /\ g \in DOMAIN entry /\ place'[g] = place[g] /\ entry'[g] = entry[g]
      BY <1>1, <1>2, <1>4, <1>12, <2>2
    <3>2. entry[g] = EntryAt(g, place[g]) /\ ToSet(place[g]) \cap FreeSectors = {}
      BY <3>1 DEF VolumeOK
    <3> QED BY <1>7, <3>1, <3>2
  <2> QED BY <2>1, <2>2
<1>14. \A g, h \in Live' : g # h => ToSet(place'[g]) \cap ToSet(place'[h]) = {}
  <2>1. \A g \in Live' : g # f => g \in Live /\ place'[g] = place[g]
    BY <1>1, <1>4, <1>12
  <2>2. \A g, h \in Live : g # h => ToSet(place[g]) \cap ToSet(place[h]) = {}
    BY DEF VolumeOK
  <2>3. \A g \in Live' : g # f => ToSet(place'[g]) \cap ToSet(place'[f]) = {}
    BY <1>1, <1>8, <2>1
  <2>4. \A g, h \in Live' : g # f /\ h # f /\ g # h => ToSet(place'[g]) \cap ToSet(place'[h]) = {}
    BY <2>1, <2>2
  <2> HIDE DEF Live
  <2>5. \A S, T : S \cap T = T \cap S
    OBVIOUS
  <2> QED BY <2>3, <2>4, <2>5, Zenon
<1>15. ASSUME IsFat, ~ damaged, NEW g \in Live' PROVE Linked(table', place'[g])
  <2>1. /\ IsTable(table) /\ Linked(table', p)
        /\ \A c \in DOMAIN table : c - 2 \notin ToSet(p) => table'[c] = table[c]
    BY <1>6, <1>15, ChainedIs
  <2>2. CASE g = f
    BY <1>1, <2>1, <2>2
  <2>3. CASE g # f
    <3>1. g \in Live /\ place'[g] = place[g] /\ place[g] \in Seq(Lba)
      BY <1>1, <1>4, <1>12, <2>3 DEF VolumeOK
    <3>2. Linked(table, place[g])
      BY <1>15, <3>1 DEF VolumeOK
    <3>3. \A c \in DOMAIN table : c - 2 \in ToSet(place[g]) => table'[c] = table[c]
      BY <1>8, <2>1, <2>3, <3>1
    <3> QED BY <2>1, <3>1, <3>2, <3>3, StillLinked
  <2> QED BY <2>2, <2>3
<1>16. \A g \in Live' : g \in scen.nested /\ Dir \in DOMAIN entry' => Dir \in Live'
  <2>1. \A g \in Live : g \in scen.nested /\ Dir \in DOMAIN entry => Dir \in Live
    BY DEF VolumeOK
  <2> QED BY <1>2, <1>4, <2>1
<1>17. scen' \in Scenarios /\ damaged' \in BOOLEAN
  BY DEF VolumeOK
<1> QED BY <1>1, <1>5, <1>9, <1>10, <1>11, <1>13, <1>14, <1>15, <1>16, <1>17 DEF VolumeOK

(* Entries are lost or marked deleted, and nothing else happens.           *)
LEMMA LosingKeeps ==
  ASSUME VolumeOK, UNCHANGED <<scen, table, used, place, damaged>>,
         DOMAIN entry' \subseteq DOMAIN entry,
         \A g \in DOMAIN entry' : entry'[g] \in Entries /\ (entry'[g].deleted \/ entry'[g] = entry[g]),
         \A g \in Live' : g \in scen.nested /\ Dir \in DOMAIN entry' => Dir \in Live'
  PROVE  VolumeOK'
<1>1. IsFat' = IsFat /\ Entries' = Entries /\ \A g, q : EntryAt(g, q)' = EntryAt(g, q)
  BY SameScenario
<1>2. FreeSectors' = FreeSectors
  BY <1>1 DEF FreeSectors
<1>3. \A g \in Live' : g \in Live /\ entry'[g] = entry[g]
  BY DEF Live
<1>4. DOMAIN entry' \subseteq Names /\ \A g \in DOMAIN entry' : entry'[g] \in Entries'
  BY <1>1 DEF VolumeOK
<1>5. \A g \in Live' : (entry[g] = EntryAt(g, place[g]))' /\ ToSet(place'[g]) \cap FreeSectors' = {}
  BY <1>1, <1>2, <1>3 DEF VolumeOK
<1>6. \A g, h \in Live' : g # h => ToSet(place'[g]) \cap ToSet(place'[h]) = {}
  BY <1>3 DEF VolumeOK
<1>7. (IsFat /\ ~ damaged => \A g \in Live : Linked(table, place[g]))'
  BY <1>1, <1>3 DEF VolumeOK
<1>8. /\ (scen \in Scenarios /\ damaged \in BOOLEAN)'
      /\ (place \in [Names -> Seq(Lba)] /\ \A g \in Names : IsInjective(place[g]))'
      /\ (IsFat => IsTable(table))'
  BY <1>1 DEF VolumeOK
<1> HIDE DEF Live
<1> QED BY <1>4, <1>5, <1>6, <1>7, <1>8 DEF VolumeOK

LEMMA DamageKeeps ==
  ASSUME VolumeOK, Damage
  PROVE  VolumeOK'
<1>1. /\ scen' = scen /\ used' = used /\ entry' = entry /\ place' = place
      /\ damaged' = TRUE /\ IsFat
  BY DEF Damage
<1>2. PICK c \in DOMAIN table, v \in 2 .. Total + 2 :
        table[c] # FreeCell /\ table' = [table EXCEPT ![c] = v]
  BY DEF Damage
<1>3. IsFat' /\ Entries' = Entries /\ \A g, q : EntryAt(g, q)' = EntryAt(g, q)
  BY <1>1, SameScenario
<1>4. IsTable(table')
  BY <1>1, <1>2 DEF VolumeOK, IsTable
<1>5. FreeSectors' \subseteq FreeSectors
  <2> SUFFICES ASSUME NEW l \in FreeSectors' PROVE l \in FreeSectors
    OBVIOUS
  <2>1. l \in Lba /\ l + 2 \in DOMAIN table' /\ table'[l + 2] = FreeCell
    BY <1>3 DEF FreeSectors, IsClusterFree
  <2>2. l + 2 \in DOMAIN table /\ (l + 2 = c => table'[l + 2] = v) /\ (l + 2 # c => table'[l + 2] = table[l + 2])
    BY <1>2, <2>1
  <2>3. v # FreeCell
    BY DEF FreeCell
  <2> QED BY <1>1, <2>1, <2>2, <2>3 DEF FreeSectors, IsClusterFree
<1>6. Live' = Live
  BY <1>1 DEF Live
<1>7. \A g \in Live' : (entry[g] = EntryAt(g, place[g]))' /\ ToSet(place'[g]) \cap FreeSectors' = {}
  BY <1>1, <1>3, <1>5, <1>6 DEF VolumeOK
<1>8. /\ (scen \in Scenarios /\ damaged \in BOOLEAN)'
      /\ (place \in [Names -> Seq(Lba)] /\ \A g \in Names : IsInjective(place[g]))'
      /\ (DOMAIN entry \subseteq Names /\ \A g \in DOMAIN entry : entry[g] \in Entries)'
      /\ (\A g, h \in Live : g # h => ToSet(place[g]) \cap ToSet(place[h]) = {})'
      /\ (\A g \in Live : g \in scen.nested /\ Dir \in DOMAIN entry => Dir \in Live)'
  BY <1>1, <1>3, <1>6 DEF VolumeOK
<1> HIDE DEF Live
<1> QED BY <1>1, <1>4, <1>7, <1>8 DEF VolumeOK

(* A live file gives up its sectors: its entry is marked deleted, or it is *)
(* empty from now on.                                                      *)
LEMMA ReleaseKeeps ==
  ASSUME VolumeOK, NEW f \in Live, NEW keep \in BOOLEAN, Release(f, keep),
         UNCHANGED <<scen, damaged>>,
         DOMAIN entry' = DOMAIN entry, entry'[f] \in Entries,
         \A g \in DOMAIN entry : g # f => entry'[g] = entry[g],
         place' = [place EXCEPT ![f] = place'[f]],
         \/ entry'[f].deleted /\ place'[f] = place[f]
         \/ entry'[f] = EntryAt(f, <<>>) /\ place'[f] = <<>>,
         \A g \in Live' : g \in scen.nested /\ Dir \in DOMAIN entry => Dir \in Live'
  PROVE  VolumeOK'
<1>1. IsFat' = IsFat /\ Entries' = Entries /\ \A g, q : EntryAt(g, q)' = EntryAt(g, q)
  BY SameScenario
<1>2. f \in Names /\ f \in DOMAIN entry /\ Live \subseteq Names /\ Live \subseteq DOMAIN entry
  BY DEF VolumeOK, Live
<1>3. <<>> \in Seq(Lba) /\ IsInjective(<<>>) /\ ToSet(<<>>) = {} /\ \A cells : Linked(cells, <<>>)
  BY DEF IsInjective, ToSet, Linked
<1> DEFINE nil == <<>>
<1> HIDE DEF nil
<1>4. /\ place' \in [Names -> Seq(Lba)] /\ place'[f] \in {place[f], <<>>}
      /\ \A g \in Names : g # f => place'[g] = place[g]
  <2>1. place'[f] \in Seq(Lba) /\ place'[f] \in {place[f], <<>>}
    BY <1>2, <1>3 DEF VolumeOK
  <2> QED BY <1>2, <2>1 DEF VolumeOK
<1>5. \A g \in Live' : \/ g \in Live /\ g # f /\ place'[g] = place[g] /\ entry'[g] = entry[g]
                       \/ g = f /\ place'[g] = <<>> /\ entry'[g] = EntryAt(g, <<>>)
  BY <1>2, <1>4 DEF Live
<1>6. /\ IsFat => IsTable(table) /\ IsTable(table')
      /\ IsFat => \A c \in DOMAIN table : c - 2 \notin ToSet(place[f]) => table'[c] = table[c]
  BY FreedIs DEF Release, VolumeOK
<1>7. \A l \in FreeSectors' : l \in FreeSectors \/ l \in ToSet(place[f])
  <2>1. CASE IsFat
    <3> SUFFICES ASSUME NEW l \in FreeSectors', l \notin ToSet(place[f]) PROVE l \in FreeSectors
      OBVIOUS
    <3>1. l \in Lba /\ l + 2 \in DOMAIN table' /\ table'[l + 2] = FreeCell
      BY <1>1, <2>1 DEF FreeSectors, IsClusterFree
    <3>2. (l + 2) - 2 = l /\ DOMAIN table' = DOMAIN table
      BY <1>6, <2>1, <3>1, LimitsAssumption DEF Lba, IsTable
    <3>3. table[l + 2] = FreeCell
      BY <1>6, <2>1, <3>1, <3>2
    <3> QED BY <2>1, <3>1, <3>2, <3>3 DEF FreeSectors, IsClusterFree
  <2>2. CASE ~ IsFat
    BY <1>1, <2>2 DEF FreeSectors, Release
  <2> QED BY <2>1, <2>2
<1>8. \A g \in Live : g # f => ToSet(place[g]) \cap ToSet(place[f]) = {}
  BY DEF VolumeOK
<1>9. \A g \in Live' : (entry[g] = EntryAt(g, place[g]))' /\ ToSet(place'[g]) \cap FreeSectors' = {}
  <2> SUFFICES ASSUME NEW g \in Live'
               PROVE  entry'[g] = EntryAt(g, place'[g]) /\ ToSet(place'[g]) \cap FreeSectors' = {}
    BY <1>1
  <2>1. CASE g \in Live /\ g # f /\ place'[g] = place[g] /\ entry'[g] = entry[g]
    <3>1. entry[g] = EntryAt(g, place[g]) /\ ToSet(place[g]) \cap FreeSectors = {}
      BY <2>1 DEF VolumeOK
    <3>2. ToSet(place[g]) \cap ToSet(place[f]) = {}
      BY <1>8, <2>1
    <3>3. ToSet(place[g]) \cap FreeSectors' = {}
      BY <1>7, <3>1, <3>2
    <3> QED BY <2>1, <3>1, <3>3
  <2>2. CASE g = f /\ place'[g] = <<>> /\ entry'[g] = EntryAt(g, <<>>)
    <3>1. ToSet(place'[g]) = {}
      BY <1>3, <2>2
    <3> QED BY <2>2, <3>1
  <2> QED BY <1>5, <2>1, <2>2
<1>10. \A g, h \in Live' : g # h => ToSet(place'[g]) \cap ToSet(place'[h]) = {}
  <2> SUFFICES ASSUME NEW g \in Live', NEW h \in Live', g # h
               PROVE  ToSet(place'[g]) \cap ToSet(place'[h]) = {}
    OBVIOUS
  <2>1. CASE g = f /\ place'[g] = <<>>
    BY <1>3, <2>1
  <2>2. CASE h = f /\ place'[h] = <<>>
    BY <1>3, <2>2
  <2>3. CASE g \in Live /\ place'[g] = place[g] /\ h \in Live /\ place'[h] = place[h]
    BY <2>3 DEF VolumeOK
  <2> QED BY <1>5, <2>1, <2>2, <2>3
<1>11. ASSUME IsFat, ~ damaged, NEW g \in Live' PROVE Linked(table', place'[g])
  <2>1. CASE g \in Live /\ g # f /\ place'[g] = place[g]
    <3>1. Linked(table, place[g]) /\ place[g] \in Seq(Lba)
      BY <1>2, <1>11, <2>1 DEF VolumeOK
    <3>2. \A c \in DOMAIN table : c - 2 \in ToSet(place[g]) => table'[c] = table[c]
      BY <1>6, <1>8, <1>11, <2>1
    <3> QED BY <1>6, <1>11, <2>1, <3>1, <3>2, StillLinked
  <2>2. CASE place'[g] = <<>>
    BY <1>3, <2>2
  <2> QED BY <1>5, <2>1, <2>2
<1>12. /\ (scen \in Scenarios /\ damaged \in BOOLEAN)'
       /\ (place \in [Names -> Seq(Lba)] /\ \A g \in Names : IsInjective(place[g]))'
       /\ (IsFat => IsTable(table))'
       /\ (DOMAIN entry \subseteq Names /\ \A g \in DOMAIN entry : entry[g] \in Entries)'
  <2>1. \A g \in Names : IsInjective(place'[g])
    BY <1>3, <1>4 DEF VolumeOK
  <2>2. \A g \in DOMAIN entry' : entry'[g] \in Entries
    BY DEF VolumeOK
  <2> QED BY <1>1, <1>4, <1>6, <2>1, <2>2 DEF VolumeOK
<1> HIDE DEF Live
<1> QED BY <1>1, <1>9, <1>10, <1>11, <1>12 DEF VolumeOK

-----------------------------------------------------------------------------
(* The medium and the erasure.                                             *)

(* What a sector may hold.                                                 *)
Parts == ((Files \cup {Dir}) \X (1 .. (Max({FileLen[f] : f \in Files}) + 1))) \cup {Zero, Noise}
DiskOK == disk \in [Lba -> Parts]

Steps == {"write", "sync", "stopped", "truncate", "remove", "removed", "failed", "metadata",
          "Sanitized", "PartiallySanitized", "ResidualTracesDetected"}
Jobs == [step : Steps, file : Files, passes : Nat, pass : Nat, dirty : SUBSET Lba,
         target : SUBSET Lba, zeroMetadata : BOOLEAN, wrote : BOOLEAN]

(* The file's sectors have been given up, or its erasure reported; what    *)
(* the local eraser may still undo is not settled.                         *)
Settled ==
  \/ job.step \in {"truncate", "remove", "removed", "metadata", "Sanitized",
                   "PartiallySanitized", "ResidualTracesDetected"}
  \/ job.file \in DOMAIN entry /\ (entry[job.file].deleted \/ entry[job.file].size = 0)

(* Between the passes the file is there and holds the sectors that are     *)
(* overwritten; once it is settled they hold nothing of it.                *)
JobOK ==
  job # NoJob =>
    /\ job \in Jobs
    /\ job.step \in {"write", "sync", "stopped", "truncate"} =>
         /\ job.file \in Live /\ entry[job.file].size > 0
         /\ Target \subseteq ToSet(place[job.file])
    /\ job.step = "sync" => job.dirty = Target
    /\ job.step = "remove" => job.file \in DOMAIN entry /\ entry[job.file].size = 0
    /\ job.step = "metadata" => job.file \in DOMAIN entry
    /\ ~ damaged /\ Resolvable(Target) /\ Settled => Wiped(job.file, Target)

(* The inductive invariant of the medium in use; afterwards nothing of it  *)
(* changes.                                                                *)
UseOK == VolumeOK /\ DiskOK /\ JobOK

(* The greatest of the numbers a finite set of names is mapped to.         *)
LEMMA GreatestLength ==
  /\ Max({FileLen[f] : f \in Files}) \in Nat \ {0}
  /\ \A g \in Files : FileLen[g] <= Max({FileLen[f] : f \in Files})
<1> DEFINE L == {FileLen[f] : f \in Files}
           n == Cardinality(Files)
<1>1. L \in SUBSET (Nat \ {0}) /\ L # {}
  BY FilesAssumption
<1>2. PICK b : b \in Bijection(1 .. n, Files)
  <2>1. n \in Nat /\ ExistsBijection(1 .. n, Files)
    BY FilesAssumption, FS_NatBijection, FS_CardinalityType
  <2> QED BY <2>1 DEF ExistsBijection
<1>3. n \in Nat /\ b \in [1 .. n -> Files] /\ \A f \in Files : \E i \in 1 .. n : b[i] = f
  BY <1>2, FilesAssumption, FS_CardinalityType DEF Bijection, Surjection
<1> DEFINE T == { m \in 0 .. n : \E u \in Nat : \A i \in 1 .. m : FileLen[b[i]] <= u }
<1> HIDE DEF n
<1>4. 0 \in T
  BY <1>3
<1>5. ASSUME NEW m \in 1 .. n, m - 1 \in T PROVE m \in T
  <2>1. PICK u \in Nat : \A i \in 1 .. m - 1 : FileLen[b[i]] <= u
    BY <1>5
  <2>2. FileLen[b[m]] \in Nat
    BY <1>3, FilesAssumption
  <2> DEFINE w == u + FileLen[b[m]]
  <2>3. w \in Nat /\ u <= w /\ FileLen[b[m]] <= w
    BY <2>2
  <2>4. ASSUME NEW i \in 1 .. m PROVE FileLen[b[i]] <= w
    <3>1. CASE i = m
      BY <2>3, <3>1
    <3>2. CASE i # m
      <4>1. i \in 1 .. m - 1 /\ i \in 1 .. n
        BY <1>3, <3>2
      <4>2. FileLen[b[i]] <= u /\ FileLen[b[i]] \in Nat
        BY <1>3, <2>1, <4>1, FilesAssumption
      <4> QED BY <2>2, <4>2
    <3> QED BY <3>1, <3>2
  <2> HIDE DEF w
  <2>5. m \in 0 .. n
    BY <1>3
  <2> QED BY <2>3, <2>4, <2>5
<1>6. n \in T
  <2>1. n \in 0 .. n
    BY <1>3
  <2> HIDE DEF T
  <2> QED BY <1>3, <1>4, <1>5, <2>1, UpTo
<1>7. PICK u \in Nat : \A i \in 1 .. n : FileLen[b[i]] <= u
  BY <1>6
<1>8. \A x \in L : x <= u
  BY <1>3, <1>7
<1> HIDE DEF L
<1>9. Max(L) \in L /\ \A x \in L : x <= Max(L)
  <2>1. L \in SUBSET Nat
    BY <1>1
  <2> QED BY <1>1, <1>8, <2>1, BoundedMax
<1>10. \A f \in Files : FileLen[f] \in L
  BY DEF L
<1>11. Max(L) \in Nat \ {0} /\ \A f \in Files : FileLen[f] <= Max(L)
  BY <1>1, <1>9, <1>10
<1> QED BY <1>11 DEF L

LEMMA PartsAre ==
  /\ Zero \in Parts /\ Noise \in Parts /\ <<Dir, 1>> \in Parts
  /\ \A f \in Files : \A k \in 1 .. FileLen[f] + 1 : <<f, k>> \in Parts
  /\ \A f \in Files : Zero[1] # f /\ Noise[1] # f
<1> DEFINE M == Max({FileLen[f] : f \in Files})
<1>1. M \in Nat \ {0} /\ \A f \in Files : FileLen[f] <= M
  BY GreatestLength
<1> HIDE DEF M
<1>2. Parts = (Names \X (1 .. M + 1)) \cup {Zero, Noise}
  BY DEF Parts, M, Names
<1>3. 1 \in 1 .. M + 1
  BY <1>1
<1>4. ASSUME NEW f \in Files, NEW k \in 1 .. FileLen[f] + 1 PROVE <<f, k>> \in Parts
  <2>1. FileLen[f] \in Nat
    BY FilesAssumption
  <2>2. k \in 1 .. M + 1
    BY <1>1, <2>1
  <2> QED BY <1>2, <2>2 DEF Names
<1>5. \A f \in Files : Zero[1] # f /\ Noise[1] # f
  BY FilesAssumption DEF Zero, Noise
<1> QED BY <1>2, <1>3, <1>4, <1>5 DEF Names

LEMMA OverwriteKeeps ==
  ASSUME DiskOK, NEW content \in {Zero, Noise}, NEW sectors, Overwrite(sectors, content)
  PROVE  /\ DiskOK'
         /\ \A f \in Files, l \in Lba : disk[l][1] # f \/ l \in sectors => disk'[l][1] # f
<1>1. \A l \in Lba : disk'[l] = IF l \in sectors THEN content ELSE disk[l]
  BY DEF Overwrite
<1>2. disk' = [l \in Lba |-> disk'[l]]
  BY DEF Overwrite
<1>3. content \in Parts /\ \A f \in Files : content[1] # f
  BY PartsAre
<1>4. \A l \in Lba : disk'[l] \in Parts
  BY <1>1, <1>3 DEF DiskOK
<1> QED BY <1>1, <1>2, <1>3, <1>4 DEF DiskOK

LEMMA VolumeStays ==
  ASSUME VolumeOK, UNCHANGED <<scen, table, used, entry, place, damaged>>
  PROVE  VolumeOK'
<1>1. \A g \in DOMAIN entry' : entry'[g] \in Entries
  BY DEF VolumeOK
<1>2. \A g \in Live' : g \in scen.nested /\ Dir \in DOMAIN entry' => Dir \in Live'
  BY DEF VolumeOK, Live
<1> QED BY <1>1, <1>2, LosingKeeps

(* The fields of a job that is there.                                      *)
LEMMA JobIs ==
  ASSUME JobOK, job.step # "none"
  PROVE  /\ job \in Jobs /\ job.step \in Steps /\ job.file \in Files
         /\ job.pass \in Nat /\ job.passes \in Nat /\ job.dirty \in SUBSET Lba /\ job.target \in SUBSET Lba
         /\ job.zeroMetadata \in BOOLEAN /\ job.wrote \in BOOLEAN
<1>1. job # NoJob
  BY DEF NoJob
<1>2. job \in Jobs
  BY <1>1 DEF JobOK
<1> QED BY <1>2 DEF Jobs

LEMMA BeginLocalKeeps ==
  ASSUME UseOK, NEW f \in Files, BeginLocal(f)
  PROVE  UseOK'
<1> DEFINE step == IF entry[f].size = 0 THEN "remove" ELSE "write"
           p == place[f]
<1>1. PICK passes \in PassCounts :
        job' = [step |-> step, file |-> f, passes |-> passes, pass |-> 1, dirty |-> {},
                target |-> ToSet(p), zeroMetadata |-> FALSE, wrote |-> TRUE]
  BY DEF BeginLocal
<1>2. f \in Live /\ UNCHANGED volume
  BY DEF BeginLocal
<1>3. p \in Seq(Lba) /\ entry[f] = EntryAt(f, p) /\ f # Dir /\ ~ entry[f].deleted /\ f \in DOMAIN entry
  BY <1>2, ScenarioAssumption DEF UseOK, VolumeOK, Names, Live
<1>4. entry[f].size \in Nat /\ (entry[f].size = 0 <=> p = <<>>)
  <2>1. entry[f].size = SizeAt(f, p)
    BY <1>3, EntryAtIs DEF UseOK, VolumeOK
  <2> QED BY <1>3, <2>1, SizeIs
<1>5. ToSet(p) \in SUBSET Lba /\ (p = <<>> => ToSet(p) = {})
  BY <1>3 DEF ToSet
<1>6. passes \in Nat /\ step \in {"remove", "write"} /\ step \in Steps
  BY PassAssumption DEF Steps
<1> HIDE DEF step, p
<1>7. /\ job' \in Jobs /\ job'.step = step /\ job'.file = f /\ job'.target = ToSet(p)
  <2>1. job' \in Jobs
    BY <1>1, <1>5, <1>6 DEF Jobs
  <2> QED BY <1>1, <2>1
<1>8. /\ scen' = scen /\ disk' = disk /\ table' = table /\ used' = used
      /\ entry' = entry /\ place' = place /\ damaged' = damaged
  BY <1>2 DEF volume
<1>9. VolumeOK' /\ DiskOK'
  BY <1>8, VolumeStays DEF UseOK, DiskOK
<1>10. step = "write" => entry[f].size > 0
  BY <1>4 DEF step
<1>11. step = "remove" => ToSet(p) = {}
  BY <1>4, <1>5 DEF step
<1>12. Live' = Live
  BY <1>8 DEF Live
<1>13. (Settled => Wiped(job.file, Target))'
  <2>1. CASE step = "remove"
    BY <1>7, <1>11, <2>1 DEF Wiped, Target
  <2>2. CASE step = "write"
    <3>1. ~ Settled'
      BY <1>3, <1>4, <1>7, <1>8, <1>10, <2>2 DEF Settled
    <3> QED BY <3>1
  <2> QED BY <1>6, <2>1, <2>2
<1>14. JobOK'
  <2>1. (job.step \in {"write", "sync", "stopped", "truncate"} =>
         /\ job.file \in Live /\ entry[job.file].size > 0
         /\ Target \subseteq ToSet(place[job.file]))'
    BY <1>2, <1>6, <1>7, <1>8, <1>10, <1>12 DEF p, Target
  <2>2. (job.step = "sync" => job.dirty = Target)' /\ (job.step = "metadata" => job.file \in DOMAIN entry)'
    BY <1>6, <1>7
  <2>3. (job.step = "remove" => job.file \in DOMAIN entry /\ entry[job.file].size = 0)'
    BY <1>3, <1>6, <1>7, <1>8 DEF step
  <2> QED BY <1>7, <1>13, <2>1, <2>2, <2>3 DEF JobOK
<1> QED BY <1>9, <1>14 DEF UseOK

LEMMA WritePassKeeps ==
  ASSUME UseOK, WritePass
  PROVE  UseOK'
<1>1. job.step = "write" /\ job' = [job EXCEPT !.step = "sync", !.dirty = Target]
  BY DEF WritePass
<1>2. /\ scen' = scen /\ disk' = disk /\ table' = table /\ used' = used
      /\ entry' = entry /\ place' = place /\ damaged' = damaged
  BY DEF WritePass, volume
<1>3. job # NoJob /\ job \in Jobs
  BY <1>1, JobIs DEF UseOK, NoJob
<1>4. job' \in Jobs /\ job'.step = "sync" /\ job'.file = job.file /\ job'.target = job.target /\ job'.dirty = job.target
  BY <1>1, <1>3 DEF Jobs, Steps, Target
<1>5. job.file \in Live /\ entry[job.file].size > 0 /\ Target \subseteq ToSet(place[job.file])
  BY <1>1, <1>3 DEF UseOK, JobOK
<1>6. Live' = Live /\ ~ entry[job.file].deleted
  BY <1>2, <1>5 DEF Live
<1>7. ~ Settled'
  <2>1. ~ (entry[job.file].size = 0)
    <3>1. entry[job.file].size \in Nat
      <4>1. job.file \in DOMAIN entry /\ entry[job.file] = EntryAt(job.file, place[job.file])
            /\ place[job.file] \in Seq(Lba) /\ scen \in Scenarios
        BY <1>5 DEF UseOK, VolumeOK, Live, Names
      <4>2. SizeAt(job.file, place[job.file]) \in Nat
        BY <4>1, SizeIs
      <4> QED BY <4>1, <4>2, EntryAtIs
    <3> QED BY <1>5, <3>1
  <2> QED BY <1>2, <1>4, <1>6, <2>1 DEF Settled
<1>8. VolumeOK' /\ DiskOK'
  BY <1>2, VolumeStays DEF UseOK, DiskOK
<1>9. JobOK'
  BY <1>2, <1>4, <1>5, <1>6, <1>7 DEF JobOK, Target
<1> QED BY <1>8, <1>9 DEF UseOK

LEMMA LiveIs ==
  ASSUME VolumeOK, NEW g \in Live
  PROVE  /\ g \in Names /\ g \in DOMAIN entry /\ ~ entry[g].deleted /\ entry[g].size \in Nat
         /\ place[g] \in Seq(Lba) /\ IsInjective(place[g]) /\ entry[g] = EntryAt(g, place[g])
         /\ ToSet(place[g]) \subseteq Lba
         /\ g \in Files => /\ g # Dir /\ entry[g].size >= Len(place[g])
                           /\ entry[g].size = 0 <=> place[g] = <<>>
                           /\ scen.erase => entry[g].size = Len(place[g])
<1>1. g \in Names /\ g \in DOMAIN entry /\ ~ entry[g].deleted
  BY DEF VolumeOK, Live
<1>2. place[g] \in Seq(Lba) /\ IsInjective(place[g]) /\ entry[g] = EntryAt(g, place[g])
  BY <1>1 DEF VolumeOK
<1>3. entry[g].size \in Nat /\ (g # Dir => entry[g].size = SizeAt(g, place[g]))
  <2>1. EntryAt(g, place[g]) \in Entries /\ entry[g].size = IF IsFat /\ g = Dir THEN 0 ELSE SizeAt(g, place[g])
    BY <1>2, EntryAtIs DEF VolumeOK
  <2>2. SizeAt(g, place[g]) \in Nat
    BY <1>2, SizeIs
  <2> QED BY <2>1, <2>2
<1>4. ToSet(place[g]) \subseteq Lba
  BY <1>2 DEF ToSet
<1>5. g \in Files => g # Dir
  BY ScenarioAssumption
<1>6. /\ SizeAt(g, place[g]) >= Len(place[g]) /\ (SizeAt(g, place[g]) = 0 <=> place[g] = <<>>)
      /\ g \in Files /\ scen.erase => SizeAt(g, place[g]) = Len(place[g])
  <2>1. g \in Files /\ scen.erase => scen.shape[g] = "dense"
    BY ScenarioAssumption DEF VolumeOK
  <2>2. g \in Files /\ scen.erase => ~ Holed(g, place[g])
    BY <2>1 DEF Holed
  <2> QED BY <1>2, <2>2, SizeIs
<1> QED BY <1>1, <1>2, <1>3, <1>4, <1>5, <1>6

LEMMA SyncPassKeeps ==
  ASSUME UseOK, SyncPass
  PROVE  UseOK'
<1>1. /\ job.step = "sync" /\ scen' = scen /\ table' = table /\ used' = used
      /\ entry' = entry /\ place' = place /\ damaged' = damaged
  BY DEF SyncPass
<1>2. job # NoJob /\ job \in Jobs /\ job.file \in Files /\ job.dirty \in SUBSET Lba /\ job.target \in SUBSET Lba
  BY <1>1, JobIs DEF UseOK, NoJob
<1>3. /\ job.file \in Live /\ entry[job.file].size > 0 /\ job.target \subseteq ToSet(place[job.file])
      /\ job.dirty = job.target
  BY <1>1, <1>2 DEF UseOK, JobOK, Target
<1>4. VolumeOK' /\ Live' = Live
  BY <1>1, VolumeStays DEF UseOK, Live
<1>5. CASE job.dirty \cap scen.bad = {}
  <2> DEFINE step == IF job.pass = LastPass THEN "truncate" ELSE "write"
  <2>1. /\ Overwrite(job.dirty, Pattern(job.pass))
        /\ job' = [job EXCEPT !.dirty = {}, !.pass = @ + 1, !.step = step]
    BY <1>1, <1>5 DEF SyncPass
  <2>2. Pattern(job.pass) \in {Zero, Noise}
    BY DEF Pattern
  <2> HIDE DEF step
  <2>3. /\ DiskOK'
        /\ \A f \in Files, l \in Lba : disk[l][1] # f \/ l \in job.dirty => disk'[l][1] # f
    BY <2>1, <2>2, OverwriteKeeps DEF UseOK
  <2>4. step \in {"truncate", "write"}
    BY DEF step
  <2>5. job' \in Jobs /\ job'.step = step /\ job'.file = job.file /\ job'.target = job.target
    <3> DEFINE next == job.pass + 1
    <3>1. job' = [job EXCEPT !.dirty = {}, !.pass = next, !.step = step]
      BY <2>1
    <3>2. next \in Nat /\ step \in Steps
      BY <1>2, <2>4 DEF Jobs, Steps
    <3> HIDE DEF next
    <3> QED BY <1>2, <3>1, <3>2 DEF Jobs
  <2>6. Wiped(job.file, Target)'
    BY <1>2, <1>3, <2>3, <2>5 DEF Wiped, Target
  <2>7. JobOK'
    BY <1>1, <1>3, <1>4, <2>4, <2>5, <2>6 DEF JobOK, Target
  <2> QED BY <1>4, <2>3, <2>7 DEF UseOK
<1>6. CASE ~ (job.dirty \cap scen.bad = {})
  <2>1. job' = [job EXCEPT !.step = "stopped"] /\ disk' = disk
    BY <1>1, <1>6 DEF SyncPass
  <2>2. job' \in Jobs /\ job'.step = "stopped" /\ job'.file = job.file /\ job'.target = job.target
    BY <1>2, <2>1 DEF Jobs, Steps
  <2>3. ~ Settled'
    BY <1>1, <1>3, <2>2, LiveIs DEF Settled, UseOK
  <2>4. JobOK'
    BY <1>1, <1>3, <1>4, <2>2, <2>3 DEF JobOK, Target
  <2> QED BY <1>4, <2>1, <2>4 DEF UseOK, DiskOK
<1> QED BY <1>5, <1>6

LEMMA TruncateKeeps ==
  ASSUME UseOK, Truncate
  PROVE  UseOK'
<1> DEFINE f == job.file
<1>1. /\ job.step = "truncate" /\ job' = [job EXCEPT !.step = "remove"]
      /\ Release(f, FALSE) /\ entry' = [entry EXCEPT ![f] = EntryAt(f, <<>>)]
      /\ place' = [place EXCEPT ![f] = <<>>]
      /\ scen' = scen /\ disk' = disk /\ damaged' = damaged
  BY DEF Truncate
<1>2. job # NoJob /\ job \in Jobs /\ f \in Files /\ job.target \in SUBSET Lba
  BY <1>1, JobIs DEF UseOK, NoJob
<1>3. f \in Live /\ job.target \subseteq ToSet(place[f])
  BY <1>1, <1>2 DEF UseOK, JobOK, Target
<1>4. f \in Names /\ f \in DOMAIN entry /\ f # Dir
  BY <1>2, <1>3, LiveIs DEF UseOK
<1>5. EntryAt(f, <<>>) \in Entries /\ ~ EntryAt(f, <<>>).deleted /\ EntryAt(f, <<>>).size = 0
  <2>1. <<>> \in Seq(Lba) /\ scen \in Scenarios
    BY DEF UseOK, VolumeOK
  <2>2. SizeAt(f, <<>>) = 0
    BY <2>1, SizeIs
  <2> QED BY <1>4, <2>1, <2>2, EntryAtIs
<1> HIDE DEF f
<1>6. /\ DOMAIN entry' = DOMAIN entry /\ entry'[f] = EntryAt(f, <<>>)
      /\ \A g \in DOMAIN entry : g # f => entry'[g] = entry[g]
      /\ place'[f] = <<>>
  BY <1>1, <1>4 DEF UseOK, VolumeOK
<1>7. Live' = Live
  BY <1>3, <1>5, <1>6 DEF Live
<1>8. VolumeOK'
  <2>1. \A g \in Live' : g \in scen.nested /\ Dir \in DOMAIN entry => Dir \in Live'
    BY <1>7 DEF UseOK, VolumeOK
  <2>2. place' = [place EXCEPT ![f] = place'[f]]
    BY <1>1, <1>6
  <2> QED BY <1>1, <1>3, <1>5, <1>6, <2>1, <2>2, ReleaseKeeps DEF UseOK
<1>9. job' \in Jobs /\ job'.step = "remove" /\ job'.file = f /\ job'.target = job.target
  BY <1>1, <1>2 DEF Jobs, Steps, f
<1>10. (~ damaged /\ Resolvable(Target) => Wiped(job.file, Target))'
  BY <1>1, <1>2, <1>9 DEF UseOK, JobOK, Resolvable, Target, Wiped, Settled, f
<1>11. JobOK'
  BY <1>4, <1>5, <1>6, <1>9, <1>10 DEF JobOK
<1> QED BY <1>1, <1>8, <1>11 DEF UseOK, DiskOK

LEMMA UnlinkKeeps ==
  ASSUME UseOK, Unlink
  PROVE  UseOK'
<1> DEFINE f == job.file
<1>1. /\ job.step = "remove" /\ job' = [job EXCEPT !.step = "removed"]
      /\ entry' = [entry EXCEPT ![f].deleted = TRUE]
      /\ scen' = scen /\ disk' = disk /\ damaged' = damaged
      /\ table' = table /\ used' = used /\ place' = place
  BY DEF Unlink
<1>2. job # NoJob /\ job \in Jobs /\ f \in Files /\ f # Dir /\ job.target \in SUBSET Lba
  BY <1>1, JobIs, ScenarioAssumption DEF UseOK, NoJob
<1>3. f \in DOMAIN entry
  BY <1>1, <1>2 DEF UseOK, JobOK
<1>4. entry'[f] \in Entries /\ entry'[f].deleted
  <2>1. entry[f] \in Entries /\ entry'[f] = [entry[f] EXCEPT !.deleted = TRUE]
    BY <1>1, <1>3 DEF UseOK, VolumeOK
  <2> QED BY <2>1 DEF Entries, FatEntries, NtfsEntries, ExtEntries
<1> HIDE DEF f
<1>5. DOMAIN entry' = DOMAIN entry /\ \A g \in DOMAIN entry : g # f => entry'[g] = entry[g]
  BY <1>1
<1>6. Live' = Live \ {f}
  BY <1>4, <1>5 DEF Live
<1>7. VolumeOK'
  <2>1. \A g \in DOMAIN entry' : entry'[g] \in Entries /\ (entry'[g].deleted \/ entry'[g] = entry[g])
    BY <1>4, <1>5 DEF UseOK, VolumeOK
  <2>2. \A g \in Live' : g \in scen.nested /\ Dir \in DOMAIN entry' => Dir \in Live'
    BY <1>2, <1>5, <1>6 DEF UseOK, VolumeOK
  <2> QED BY <1>1, <1>5, <2>1, <2>2, LosingKeeps DEF UseOK
<1>8. job' \in Jobs /\ job'.step = "removed" /\ job'.file = f /\ job'.target = job.target
  BY <1>1, <1>2 DEF Jobs, Steps, f
<1>9. (~ damaged /\ Resolvable(Target) => Wiped(job.file, Target))'
  BY <1>1, <1>2, <1>8 DEF UseOK, JobOK, Resolvable, Target, Wiped, Settled, f
<1>10. JobOK'
  BY <1>8, <1>9 DEF JobOK
<1> QED BY <1>1, <1>7, <1>10 DEF UseOK, DiskOK

LEMMA StopKeeps ==
  ASSUME UseOK, Stop
  PROVE  UseOK'
<1>1. /\ job.step \in {"write", "sync", "truncate", "remove", "metadata", "stopped"}
      /\ scen' = scen /\ table' = table /\ used' = used
      /\ entry' = entry /\ place' = place /\ damaged' = damaged
      /\ job' = [job EXCEPT !.step = "failed", !.dirty = {}]
  BY DEF Stop, Busy, Abandon
<1>2. PICK part \in SUBSET (job.dirty \ scen.bad) : Overwrite(part, Pattern(job.pass))
  BY DEF Stop
<1>3. job # NoJob /\ job \in Jobs /\ job.file \in Files /\ job.target \in SUBSET Lba
  BY <1>1, JobIs DEF UseOK, NoJob
<1>4. /\ DiskOK'
      /\ \A f \in Files, l \in Lba : disk[l][1] # f \/ l \in part => disk'[l][1] # f
  <2>1. Pattern(job.pass) \in {Zero, Noise}
    BY DEF Pattern
  <2> QED BY <1>2, <2>1, OverwriteKeeps DEF UseOK
<1>5. VolumeOK'
  BY <1>1, VolumeStays DEF UseOK
<1>6. job' \in Jobs /\ job'.step = "failed" /\ job'.file = job.file /\ job'.target = job.target
  BY <1>1, <1>3 DEF Jobs, Steps
<1>7. ASSUME ~ damaged, Resolvable(Target), Settled' PROVE Wiped(job.file, Target)'
  <2>1. Settled
    BY <1>1, <1>6, <1>7 DEF Settled
  <2>2. Wiped(job.file, Target)
    BY <1>3, <1>7, <2>1 DEF UseOK, JobOK
  <2> QED BY <1>3, <1>4, <1>6, <2>2 DEF Wiped, Target
<1>8. JobOK'
  BY <1>1, <1>6, <1>7 DEF JobOK, Resolvable, Target
<1> QED BY <1>4, <1>5, <1>8 DEF UseOK

LEMMA SectorsOnce ==
  ASSUME NEW p \in Seq(Lba), IsInjective(p)
  PROVE  Cardinality(ToSet(p)) = Len(p)
<1> DEFINE N == Len(p)
<1>1. N \in Nat /\ DOMAIN p = 1 .. N
  OBVIOUS
<1>2. \A i, j \in 1 .. N : p[i] = p[j] => i = j
  BY <1>1 DEF IsInjective
<1>3. ToSet(p) = { p[i] : i \in 1 .. N }
  BY <1>1 DEF ToSet
<1>4. p \in Bijection(1 .. N, ToSet(p))
  <2>1. p \in [1 .. N -> ToSet(p)]
    BY <1>1, <1>3
  <2> QED BY <1>1, <1>2, <1>3, <2>1 DEF Bijection, Injection, Surjection, IsInjective
<1>5. ExistsBijection(1 .. N, ToSet(p))
  BY <1>4 DEF ExistsBijection
<1> QED BY <1>1, <1>5, FS_CountingElements

LEMMA PipelineDataKeeps ==
  ASSUME UseOK, NEW f \in Files, PipelineData(f)
  PROVE  UseOK'
<1> DEFINE loc == Locate(f).loc
           sound(i) == CanRead([disk |-> disk, bad |-> scen.bad], loc[i][1], loc[i][2])
           good == {n \in 0..Len(loc) : \A i \in 1..n : sound(i)}
           m == Max(good)
           step == IF m = Len(loc) THEN "metadata" ELSE "failed"
           target == IF f \in Live THEN ToSet(place[f]) ELSE {}
           wrote == Covered(loc) # {} \/ loc = <<>>
<1>1. /\ job = NoJob /\ f \in DOMAIN entry
      /\ scen' = scen /\ table' = table /\ used' = used
      /\ entry' = entry /\ place' = place /\ damaged' = damaged
  BY DEF PipelineData
<1>2. PICK passes \in PassCounts, zero \in BOOLEAN :
        /\ Overwrite(Covered(SubSeq(loc, 1, m)), IF passes = 0 THEN Noise ELSE Zero)
        /\ job' = [step |-> step, file |-> f, passes |-> passes, pass |-> 1, dirty |-> {},
                   target |-> target, zeroMetadata |-> zero, wrote |-> wrote]
  BY DEF PipelineData
<1>3. loc \in Seq(Extents)
  BY <1>1, LocateIs DEF UseOK, VolumeOK
<1>4. step \in {"metadata", "failed"} /\ wrote \in BOOLEAN /\ passes \in Nat
  BY PassAssumption
<1>5. target \in SUBSET Lba
  BY LiveIs DEF UseOK
<1>6. VolumeOK' /\ Live' = Live
  BY <1>1, VolumeStays DEF UseOK, Live
<1> HIDE DEF step, wrote, target
<1>7. /\ job' \in Jobs /\ job'.step = step /\ job'.file = f /\ job'.target = target
  <2>1. step \in Steps
    BY <1>4 DEF Steps
  <2>2. job' \in Jobs
    BY <1>2, <1>4, <1>5, <2>1 DEF Jobs
  <2> QED BY <1>2, <2>2
<1> HIDE DEF loc, m
<1>8. /\ DiskOK'
      /\ \A g \in Files, l \in Lba : disk[l][1] # g \/ l \in Covered(SubSeq(loc, 1, m)) => disk'[l][1] # g
  <2>1. (IF passes = 0 THEN Noise ELSE Zero) \in {Zero, Noise}
    OBVIOUS
  <2> QED BY <1>2, <2>1, OverwriteKeeps DEF UseOK
<1>9. step = "metadata" => SubSeq(loc, 1, m) = loc
  <2>1. step = "metadata" => m = Len(loc)
    BY DEF step
  <2>2. SubSeq(loc, 1, Len(loc)) = loc
    <3>1. Len(loc) \in Nat /\ \A i \in 1 .. Len(loc) : loc[i] \in Extents
      BY <1>3
    <3>2. /\ SubSeq(loc, 1, Len(loc)) \in Seq(Extents)
          /\ Len(SubSeq(loc, 1, Len(loc))) = IF 1 <= Len(loc) THEN Len(loc) - 1 + 1 ELSE 0
          /\ \A i \in 1 .. Len(loc) - 1 + 1 : SubSeq(loc, 1, Len(loc))[i] = loc[1 + i - 1]
      <4> HIDE DEF Extents
      <4> QED BY <1>3, <3>1, SubSeqProperties
    <3>3. Len(SubSeq(loc, 1, Len(loc))) = Len(loc)
      BY <3>1, <3>2
    <3>4. \A i \in 1 .. Len(loc) : i \in 1 .. Len(loc) - 1 + 1 /\ 1 + i - 1 = i
      BY <3>1
    <3>5. \A i \in 1 .. Len(loc) : SubSeq(loc, 1, Len(loc))[i] = loc[i]
      BY <3>2, <3>4
    <3> QED BY <1>3, <3>2, <3>3, <3>5, SeqEqual
  <2> QED BY <2>1, <2>2
<1>10. ASSUME ~ damaged, Resolvable(target), Settled' PROVE \A l \in target : disk'[l][1] # f
  <2>1. CASE f \in Live /\ place[f] # <<>>
    <3>1. /\ place[f] \in Seq(Lba) /\ IsInjective(place[f]) /\ entry[f] = EntryAt(f, place[f])
          /\ f # Dir /\ ~ entry[f].deleted /\ entry[f].size = Len(place[f]) /\ ToSet(place[f]) \subseteq Lba
      BY <2>1, LiveIs DEF UseOK, PipelineData
    <3>2. entry[f].size # 0 /\ target = ToSet(place[f])
      BY <2>1, <3>1 DEF target
    <3>3. step = "metadata"
      BY <1>1, <1>4, <1>7, <1>10, <3>1, <3>2 DEF Settled
    <3>4. scen \in Scenarios /\ (scen.kind = "ext2" => entry[f].size <= DirectPointers)
      <4>1. Cardinality(ToSet(place[f])) = Len(place[f])
        BY <3>1, SectorsOnce
      <4> QED BY <1>10, <3>1, <3>2, <4>1 DEF UseOK, VolumeOK, Resolvable
    <3>5. IsFat => IsTable(table) /\ Linked(table, place[f])
      BY <1>10, <2>1 DEF UseOK, VolumeOK
    <3>6. SectorSeq(loc) = place[f]
      BY <1>10, <2>1, <3>1, <3>2, <3>4, <3>5, LiveLocation DEF loc
    <3>7. Covered(loc) = ToSet(place[f])
      BY <1>3, <3>6, SectorSeqIs
    <3> QED BY <1>8, <1>9, <3>1, <3>2, <3>3, <3>7
  <2>2. CASE ~ (f \in Live /\ place[f] # <<>>)
    BY <2>2 DEF target, ToSet
  <2> QED BY <2>1, <2>2
<1>11. JobOK'
  <2>1. (~ damaged /\ Resolvable(Target) /\ Settled => Wiped(job.file, Target))'
    BY <1>1, <1>7, <1>10 DEF Resolvable, Target, Wiped
  <2>2. (job.step = "metadata" => job.file \in DOMAIN entry)'
    BY <1>1, <1>7
  <2> QED BY <1>4, <1>7, <2>1, <2>2 DEF JobOK
<1> QED BY <1>6, <1>8, <1>11 DEF UseOK

LEMMA PipelineMetadataKeeps ==
  ASSUME UseOK, PipelineMetadata
  PROVE  UseOK'
<1> DEFINE step == ResidualScan(job.wrote, TRUE, TRUE)
<1>1. /\ job.step = "metadata" /\ job' = [job EXCEPT !.step = step]
      /\ scen' = scen /\ disk' = disk /\ table' = table /\ used' = used
      /\ place' = place /\ damaged' = damaged
      /\ \/ entry' = entry
         \/ entry' = Restrict(entry, DOMAIN entry \ SameRecordSector(job.file))
  BY DEF PipelineMetadata
<1>2. job # NoJob /\ job \in Jobs /\ job.file \in Files
  BY <1>1, JobIs DEF UseOK, NoJob
<1>3. step \in {"Sanitized", "PartiallySanitized", "ResidualTracesDetected"}
  BY DEF ResidualScan
<1> HIDE DEF step
<1>4. job' \in Jobs /\ job'.step = step /\ job'.file = job.file /\ job'.target = job.target
  BY <1>1, <1>2, <1>3 DEF Jobs, Steps
<1>5. DOMAIN entry' \subseteq DOMAIN entry /\ \A g \in DOMAIN entry' : entry'[g] = entry[g]
  BY <1>1 DEF Restrict
<1>6. VolumeOK'
  <2>1. \A g \in DOMAIN entry' : entry'[g] \in Entries
    BY <1>5 DEF UseOK, VolumeOK
  <2>2. \A g \in Live' : g \in scen.nested /\ Dir \in DOMAIN entry' => Dir \in Live'
    BY <1>5 DEF UseOK, VolumeOK, Live
  <2> QED BY <1>1, <1>5, <2>1, <2>2, LosingKeeps DEF UseOK
<1>7. ~ damaged /\ Resolvable(Target) => Wiped(job.file, Target)
  BY <1>1, <1>2 DEF UseOK, JobOK, Settled
<1>8. JobOK'
  BY <1>1, <1>3, <1>4, <1>7 DEF JobOK, Resolvable, Target, Wiped
<1> QED BY <1>1, <1>6, <1>8 DEF UseOK, DiskOK

(* What a stored file leaves: every part of it once, in sectors that were  *)
(* free, or the sector as it was.                                          *)
LEMMA StoreIs ==
  ASSUME scen \in Scenarios, NEW f \in Files, Store(f)
  PROVE  \E p \in Seq(Lba) :
           /\ p # <<>> /\ IsInjective(p) /\ ToSet(p) \subseteq FreeSectors /\ Occupy(f, p)
           /\ disk' = [l \in Lba |-> disk'[l]]
           /\ \A l \in Lba :
                \/ disk'[l] = disk[l]
                \/ \E k \in DOMAIN p : p[k] = l /\ disk'[l] = <<f, PartOf(f, k)>>
           /\ \A k \in DOMAIN p : PartOf(f, k) \in 1 .. FileLen[f]
           /\ \A i, k \in DOMAIN p : PartOf(f, i) = PartOf(f, k) => i = k
<1> DEFINE N == Needed(f)
           at(p, l) == CHOOSE k \in DOMAIN p : p[k] = l
<1>1. PICK p \in Placements(N) :
        /\ Occupy(f, p)
        /\ disk' = [l \in Lba |-> IF l \in Written(f, p) THEN <<f, PartOf(f, at(p, l))>> ELSE disk[l]]
  BY DEF Store
<1>2. /\ FileLen[f] \in Nat \ {0} /\ scen.cut[f] \in Nat
      /\ scen.shape[f] = "hole" => FileLen[f] > 1
  BY FilesAssumption, ScenarioAssumption
<1>3. N \in Nat \ {0} /\ (scen.shape[f] = "hole" => N = FileLen[f] - 1) /\ (scen.shape[f] # "hole" => N = FileLen[f])
  BY <1>2 DEF Needed
<1> HIDE DEF N, at
<1>4. FreeSectors \subseteq Lba
  BY DEF FreeSectors
<1>5. p \in [1 .. N -> FreeSectors] /\ IsInjective(p) /\ p \in Seq(Lba) /\ DOMAIN p = 1 .. N
  BY <1>3, <1>4 DEF Placements
<1>6. ToSet(p) \subseteq FreeSectors /\ p # <<>>
  <2>1. 1 \in DOMAIN p
    BY <1>3, <1>5
  <2>2. p # <<>>
    BY <2>1
  <2>3. \A i \in DOMAIN p : p[i] \in FreeSectors
    BY <1>5
  <2> QED BY <2>2, <2>3 DEF ToSet
<1>7. Written(f, p) \subseteq ToSet(p)
  <2> DEFINE n == Min({scen.cut[f], Len(p)})
             q == SubSeq(p, 1, n)
  <2>1. n \in 0 .. Len(p)
    <3>1. Len(p) \in Nat
      BY <1>5
    <3> DEFINE m == Len(p)
               c == scen.cut[f]
    <3> HIDE DEF m, c
    <3>2. m \in Nat /\ c \in Nat
      BY <1>2, <3>1 DEF m, c
    <3>3. Min({c, m}) = IF c <= m THEN c ELSE m
      BY <3>2, LeastOfTwo
    <3>4. Min({c, m}) \in 0 .. m
      BY <3>2, <3>3
    <3> QED BY <3>4 DEF m, c
  <2> HIDE DEF n
  <2>2. /\ q \in Seq(Lba) /\ Len(q) = n /\ \A i \in 1 .. n : q[i] = p[i]
    BY <1>5, <2>1, PrefixOfPlace
  <2> HIDE DEF q
  <2>3. DOMAIN q = 1 .. n /\ \A i \in 1 .. n : i \in DOMAIN p
    <3>1. DOMAIN p = 1 .. Len(p) /\ Len(p) \in Nat
      BY <1>5
    <3>2. DOMAIN q = 1 .. n
      BY <2>2
    <3> QED BY <2>1, <3>1, <3>2
  <2>4. ToSet(q) \subseteq ToSet(p)
    BY <2>2, <2>3 DEF ToSet
  <2>5. Written(f, p) = ToSet(IF scen.shape[f] = "unwritten" THEN q ELSE p)
    BY DEF Written, q, n
  <2> QED BY <2>4, <2>5
<1>8. ASSUME NEW l \in Lba
      PROVE  disk'[l] = disk[l] \/ \E k \in DOMAIN p : p[k] = l /\ disk'[l] = <<f, PartOf(f, k)>>
  <2>1. CASE l \in Written(f, p)
    <3>1. \E k \in DOMAIN p : p[k] = l
      BY <1>7, <2>1 DEF ToSet
    <3>2. at(p, l) \in DOMAIN p /\ p[at(p, l)] = l
      BY <3>1 DEF at
    <3>3. disk'[l] = <<f, PartOf(f, at(p, l))>>
      BY <1>1, <2>1
    <3> QED BY <3>2, <3>3
  <2>2. CASE l \notin Written(f, p)
    BY <1>1, <2>2
  <2> QED BY <2>1, <2>2
<1>9. /\ \A k \in 1 .. N : PartOf(f, k) \in 1 .. FileLen[f]
      /\ \A i, k \in 1 .. N : PartOf(f, i) = PartOf(f, k) => i = k
  BY <1>2, <1>3 DEF PartOf
<1>10. disk' = [l \in Lba |-> disk'[l]]
  BY <1>1
<1> QED BY <1>1, <1>5, <1>6, <1>8, <1>9, <1>10

LEMMA StoreKeeps ==
  ASSUME VolumeOK, DiskOK, NEW f \in Files, Store(f)
  PROVE  VolumeOK' /\ DiskOK'
<1>1. PICK p \in Seq(Lba) :
        /\ p # <<>> /\ IsInjective(p) /\ ToSet(p) \subseteq FreeSectors /\ Occupy(f, p)
        /\ disk' = [l \in Lba |-> disk'[l]]
        /\ \A l \in Lba :
             \/ disk'[l] = disk[l]
             \/ \E k \in DOMAIN p : p[k] = l /\ disk'[l] = <<f, PartOf(f, k)>>
        /\ \A k \in DOMAIN p : PartOf(f, k) \in 1 .. FileLen[f]
  BY StoreIs DEF VolumeOK
<1>5. f \in Names /\ f \in scen.nested => Dir \in Live
  BY DEF Store, Names
<1>6. UNCHANGED <<scen, damaged>> /\ f \in Names
  BY DEF Store, Names
<1>7. VolumeOK'
  BY <1>1, <1>5, <1>6, OccupyKeeps
<1>8. \A l \in Lba : disk'[l] \in Parts
  <2> SUFFICES ASSUME NEW l \in Lba PROVE disk'[l] \in Parts
    OBVIOUS
  <2>1. CASE disk'[l] = disk[l]
    BY <2>1 DEF DiskOK
  <2>2. CASE disk'[l] # disk[l]
    <3>1. PICK k \in DOMAIN p : disk'[l] = <<f, PartOf(f, k)>>
      BY <1>1, <2>2
    <3>2. PartOf(f, k) \in 1 .. FileLen[f] + 1
      BY <1>1, FilesAssumption
    <3> QED BY <3>1, <3>2, PartsAre
  <2> QED BY <2>1, <2>2
<1>9. disk' = [l \in Lba |-> disk'[l]]
  BY <1>1
<1> QED BY <1>7, <1>8, <1>9 DEF DiskOK

LEMMA MakeDirectoryKeeps ==
  ASSUME VolumeOK, DiskOK, MakeDirectory
  PROVE  VolumeOK' /\ DiskOK'
<1>1. PICK l \in FreeSectors : Occupy(Dir, <<l>>) /\ disk' = [disk EXCEPT ![l] = <<Dir, 1>>]
  BY DEF MakeDirectory
<1>2. l \in Lba /\ <<l>> \in Seq(Lba) /\ IsInjective(<<l>>) /\ ToSet(<<l>>) = {l}
  BY <1>1 DEF FreeSectors, IsInjective, ToSet
<1>3. Dir \in Names /\ Dir \notin scen.nested /\ UNCHANGED <<scen, damaged>>
  BY ScenarioAssumption DEF VolumeOK, Names, MakeDirectory
<1>4. VolumeOK'
  BY <1>1, <1>2, <1>3, OccupyKeeps
<1>5. DiskOK'
  BY <1>1, <1>2, PartsAre DEF DiskOK
<1> QED BY <1>4, <1>5

LEMMA DeleteKeeps ==
  ASSUME VolumeOK, NEW f, Delete(f)
  PROVE  VolumeOK' /\ disk' = disk
<1>1. /\ f \in Live /\ scen' = scen /\ disk' = disk /\ place' = place /\ damaged' = damaged
      /\ f = Dir => Live \cap scen.nested = {}
  BY DEF Delete
<1> DEFINE e(keep) == IF ~keep /\ scen.kind \in {"ext4", "ext2"}
                      THEN [entry[f] EXCEPT !.deleted = TRUE, !.leaf = <<>>, !.blocks = <<>>]
                      ELSE [entry[f] EXCEPT !.deleted = TRUE]
<1>2. PICK keep \in BOOLEAN : Release(f, keep) /\ entry' = [entry EXCEPT ![f] = e(keep)]
  BY DEF Delete
<1>3. f \in Names /\ f \in DOMAIN entry /\ entry[f] \in Entries
  BY <1>1, LiveIs DEF VolumeOK
<1>4. entry'[f] = e(keep) /\ DOMAIN entry' = DOMAIN entry /\ \A g \in DOMAIN entry : g # f => entry'[g] = entry[g]
  BY <1>2, <1>3
<1>5. e(keep) \in Entries /\ e(keep).deleted
  <2>1. CASE ~keep /\ scen.kind \in {"ext4", "ext2"}
    <3>1. entry[f] \in ExtEntries
      BY <1>3, <2>1 DEF Entries
    <3>2. <<>> \in Seq(Leaves) /\ <<>> \in Seq(Nat)
      BY DEF Leaves
    <3>3. e(keep) = [entry[f] EXCEPT !.deleted = TRUE, !.leaf = <<>>, !.blocks = <<>>]
      BY <2>1
    <3> DEFINE none == <<>>
    <3> HIDE DEF none, e
    <3>4. e(keep) = [entry[f] EXCEPT !.deleted = TRUE, !.leaf = none, !.blocks = none]
      BY <3>3 DEF none
    <3>5. e(keep) \in ExtEntries /\ e(keep).deleted
      <4>1. none \in Seq(Leaves) /\ none \in Seq(Nat)
        BY <3>2 DEF none
      <4> HIDE DEF Leaves
      <4> QED BY <3>1, <3>4, <4>1 DEF ExtEntries
    <3> QED BY <2>1, <3>5 DEF Entries
  <2>2. CASE ~ (~keep /\ scen.kind \in {"ext4", "ext2"})
    <3>1. e(keep) = [entry[f] EXCEPT !.deleted = TRUE]
      BY <2>2
    <3> HIDE DEF e
    <3> QED BY <1>3, <3>1 DEF Entries, FatEntries, NtfsEntries, ExtEntries
  <2> QED BY <2>1, <2>2
<1> HIDE DEF e
<1>6. Live' = Live \ {f}
  BY <1>4, <1>5 DEF Live
<1>7. \A g \in Live' : g \in scen.nested /\ Dir \in DOMAIN entry => Dir \in Live'
  <2>1. \A g \in Live : g \in scen.nested /\ Dir \in DOMAIN entry => Dir \in Live
    BY DEF VolumeOK
  <2> QED BY <1>1, <1>6, <2>1
<1>8. place' = [place EXCEPT ![f] = place'[f]] /\ place'[f] = place[f]
  BY <1>1, <1>3 DEF VolumeOK
<1>9. VolumeOK'
  BY <1>1, <1>2, <1>4, <1>5, <1>7, <1>8, ReleaseKeeps
<1> QED BY <1>1, <1>9

LEMMA GrowKeeps ==
  ASSUME UseOK, job # NoJob, job' = job, entry[job.file].size > 0, Grow(job.file),
         job.step \in {"write", "sync", "truncate", "remove"}
  PROVE  UseOK'
<1> DEFINE f == job.file
           p == place[f]
<1>1. PICK l \in FreeSectors : /\ Occupy(f, Append(p, l))
                               /\ disk' = [disk EXCEPT ![l] = <<f, FileLen[f] + 1>>]
  BY DEF Grow
<1>2. f \in Live /\ scen' = scen /\ damaged' = damaged
  BY DEF Grow
<1>3. job \in Jobs /\ f \in Files /\ job.target \in SUBSET Lba
  BY DEF UseOK, JobOK, Jobs
<1>4. /\ p \in Seq(Lba) /\ IsInjective(p) /\ f \in Names /\ f # Dir /\ f \in DOMAIN entry
      /\ ~ entry[f].deleted
  BY <1>2, <1>3, LiveIs DEF UseOK
<1>5. l \in Lba /\ l \notin ToSet(p)
  BY <1>1, <1>2 DEF UseOK, VolumeOK, FreeSectors
<1> DEFINE q == Append(p, l)
<1> HIDE DEF f, p
<1>6. /\ q \in Seq(Lba) /\ Len(q) = Len(p) + 1 /\ Len(p) \in Nat
      /\ \A i \in 1 .. Len(p) : q[i] = p[i]
      /\ q[Len(p) + 1] = l
  BY <1>4, <1>5, AppendProperties
<1> HIDE DEF q
<1>7. DOMAIN q = 1 .. Len(p) + 1 /\ DOMAIN p = 1 .. Len(p)
  BY <1>4, <1>6
<1>8. ToSet(q) = ToSet(p) \cup {l}
  <2>1. \A i \in DOMAIN q : i \in DOMAIN p \/ i = Len(p) + 1
    BY <1>6, <1>7
  <2>2. ASSUME NEW x \in ToSet(q) PROVE x \in ToSet(p) \cup {l}
    BY <1>6, <1>7, <2>1, <2>2 DEF ToSet
  <2>3. ASSUME NEW x \in ToSet(p) PROVE x \in ToSet(q)
    <3>1. PICK i \in DOMAIN p : x = p[i]
      BY <2>3 DEF ToSet
    <3>2. i \in DOMAIN q /\ q[i] = x
      BY <1>6, <1>7, <3>1
    <3> QED BY <3>2 DEF ToSet
  <2>4. Len(p) + 1 \in DOMAIN q
    BY <1>6, <1>7
  <2>5. l \in ToSet(q)
    BY <1>6, <2>4 DEF ToSet
  <2> QED BY <2>2, <2>3, <2>5
<1>9. IsInjective(q)
  <2> SUFFICES ASSUME NEW i \in DOMAIN q, NEW j \in DOMAIN q, q[i] = q[j] PROVE i = j
    BY DEF IsInjective
  <2>1. CASE i \in DOMAIN p /\ j \in DOMAIN p
    <3>1. p[i] = p[j]
      BY <1>6, <1>7, <2>1
    <3> QED BY <1>4, <2>1, <3>1 DEF IsInjective
  <2>2. CASE i \in DOMAIN p /\ j = Len(p) + 1
    <3>1. q[i] = p[i] /\ q[j] = l /\ p[i] \in ToSet(p)
      BY <1>6, <1>7, <2>2 DEF ToSet
    <3> QED BY <1>5, <3>1
  <2>3. CASE j \in DOMAIN p /\ i = Len(p) + 1
    <3>1. q[j] = p[j] /\ q[i] = l /\ p[j] \in ToSet(p)
      BY <1>6, <1>7, <2>3 DEF ToSet
    <3> QED BY <1>5, <3>1
  <2>4. \A k \in DOMAIN q : k \in DOMAIN p \/ k = Len(p) + 1
    BY <1>6, <1>7
  <2> QED BY <2>1, <2>2, <2>3, <2>4
<1>10. VolumeOK'
  <2>1. f \in scen.nested /\ Dir \in DOMAIN entry => Dir \in Live
    BY <1>2 DEF UseOK, VolumeOK, f
  <2>2. \A x \in ToSet(q) : x \in FreeSectors \/ (f \in Live /\ x \in ToSet(place[f]))
    BY <1>1, <1>2, <1>8 DEF p, f
  <2>3. Occupy(f, q)
    BY <1>1 DEF q, p, f
  <2> QED BY <1>2, <1>4, <1>6, <1>9, <2>1, <2>2, <2>3, OccupyKeeps DEF UseOK
<1>11. DiskOK' /\ \A x \in Lba : x # l => disk'[x] = disk[x]
  <2>1. FileLen[f] + 1 \in 1 .. FileLen[f] + 1
    BY <1>3, FilesAssumption DEF f
  <2>2. <<f, FileLen[f] + 1>> \in Parts
    BY <1>3, <2>1, PartsAre DEF f
  <2> DEFINE part == <<f, FileLen[f] + 1>>
  <2>3. disk' = [disk EXCEPT ![l] = part]
    BY <1>1 DEF f
  <2> HIDE DEF part
  <2> QED BY <1>5, <2>2, <2>3 DEF UseOK, DiskOK, part
<1>12. /\ place'[f] = q /\ entry'[f] = EntryAt(f, q) /\ f \in DOMAIN entry' /\ f \in Live'
      /\ entry'[f].size > 0
  <2>1. place'[f] = q /\ entry'[f] = EntryAt(f, q) /\ f \in DOMAIN entry'
    BY <1>1, <1>4 DEF Occupy, UseOK, VolumeOK, q, p, f
  <2>2. ~ EntryAt(f, q).deleted /\ EntryAt(f, q).size > 0
    <3>1. scen \in Scenarios /\ q \in Seq(Lba)
      BY <1>6 DEF UseOK, VolumeOK
    <3>2. ~ EntryAt(f, q).deleted /\ EntryAt(f, q).size = SizeAt(f, q)
      BY <1>4, <3>1, EntryAtIs
    <3>3. SizeAt(f, q) \in Nat /\ SizeAt(f, q) >= Len(q)
      BY <3>1, SizeIs
    <3> QED BY <1>6, <3>2, <3>3
  <2> QED BY <1>6, <2>1, <2>2 DEF Live
<1>13. /\ job.step \in {"write", "sync", "truncate"} /\ job.target \subseteq ToSet(p)
  <2>1. job.step # "remove"
    BY DEF UseOK, JobOK
  <2> QED BY <2>1 DEF UseOK, JobOK, Target, p, f
<1>14. ASSUME ~ damaged, Resolvable(Target), Settled' PROVE \A x \in job.target : disk'[x][1] # f
  <2>1. ~ (entry'[f].deleted \/ entry'[f].size = 0)
    BY <1>12 DEF Live
  <2>2. job.step = "truncate"
    BY <1>13, <1>14, <2>1 DEF Settled, f
  <2>3. Wiped(f, job.target)
    BY <1>14, <2>2 DEF UseOK, JobOK, Settled, Target, f
  <2> QED BY <1>3, <1>5, <1>11, <1>13, <2>3 DEF Wiped
<1>15. JobOK'
  <2>1. (~ damaged /\ Resolvable(Target) /\ Settled => Wiped(job.file, Target))'
    BY <1>2, <1>14 DEF Resolvable, Target, Wiped, f
  <2>2. (job.step \in {"write", "sync", "stopped", "truncate"} =>
         /\ job.file \in Live /\ entry[job.file].size > 0
         /\ Target \subseteq ToSet(place[job.file]))'
    BY <1>8, <1>12, <1>13 DEF Target, f
  <2>3. job.step = "sync" => job.dirty = job.target
    BY DEF UseOK, JobOK, Target
  <2> QED BY <1>3, <1>13, <2>1, <2>2, <2>3 DEF JobOK, Target
<1> QED BY <1>10, <1>11, <1>15 DEF UseOK

(* A step of the medium in use.                                            *)
LEMMA UseKeeps ==
  ASSUME UseOK, Host \/ ErasureStep
  PROVE  UseOK'
<1>1. ASSUME Host PROVE UseOK'
  <2>1. CASE job = NoJob /\ (MakeDirectory \/ Delete(Dir) \/ \E f \in Files : Store(f) \/ Delete(f))
    <3>1. VolumeOK' /\ DiskOK'
      BY <2>1, MakeDirectoryKeeps, StoreKeeps, DeleteKeeps DEF UseOK, DiskOK
    <3>2. job' = NoJob
      BY <1>1, <2>1 DEF Host
    <3> QED BY <3>1, <3>2 DEF UseOK, JobOK
  <2>2. CASE Busy /\ job.step # "metadata" /\ entry[job.file].size > 0 /\ Grow(job.file)
    <3>1. job # NoJob /\ job' = job /\ job.step \in {"write", "sync", "truncate", "remove"}
      BY <1>1, <2>2 DEF Host, Busy, NoJob
    <3> QED BY <2>2, <3>1, GrowKeeps
  <2>3. CASE job = NoJob /\ Damage
    <3>1. VolumeOK' /\ disk' = disk
      BY <2>3, DamageKeeps DEF UseOK, Damage
    <3>2. job' = NoJob
      BY <1>1, <2>3 DEF Host
    <3> QED BY <3>1, <3>2 DEF UseOK, JobOK, DiskOK
  <2> QED BY <1>1, <2>1, <2>2, <2>3 DEF Host
<1>2. ASSUME ErasureStep PROVE UseOK'
  BY <1>2, BeginLocalKeeps, PipelineDataKeeps, WritePassKeeps, SyncPassKeeps, TruncateKeeps,
     UnlinkKeeps, StopKeeps, PipelineMetadataKeeps DEF ErasureStep
<1> QED BY <1>1, <1>2

LEMMA UseOKInit ==
  ASSUME Init
  PROVE  UseOK
<1>1. /\ scen \in Scenarios /\ entry = <<>> /\ damaged = FALSE /\ job = NoJob
      /\ place = [g \in Names |-> <<>>] /\ disk = [l \in Lba |-> Zero]
      /\ IsFat => table = [c \in 2 .. Total + 1 |-> FreeCell]
  BY DEF Init, VolumeInit, ErasureInit, Names
<1>2. DOMAIN entry = {} /\ Live = {}
  BY <1>1 DEF Live
<1>3. place \in [Names -> Seq(Lba)] /\ \A g \in Names : IsInjective(place[g])
  BY <1>1 DEF IsInjective
<1>4. IsFat => IsTable(table)
  BY <1>1 DEF IsTable, FreeCell
<1>5. VolumeOK
  BY <1>1, <1>2, <1>3, <1>4 DEF VolumeOK
<1>6. DiskOK
  BY <1>1, PartsAre DEF DiskOK
<1>7. JobOK
  BY <1>1 DEF JobOK
<1> QED BY <1>5, <1>6, <1>7 DEF UseOK

LEMMA UseOKStays ==
  ASSUME UseOK, UNCHANGED <<volume, job>>
  PROVE  UseOK'
<1>1. /\ scen' = scen /\ disk' = disk /\ table' = table /\ used' = used
      /\ entry' = entry /\ place' = place /\ damaged' = damaged /\ job' = job
  BY DEF volume
<1>2. VolumeOK' /\ DiskOK'
  BY <1>1, VolumeStays DEF UseOK, DiskOK
<1>3. JobOK'
  BY <1>1 DEF UseOK, JobOK, Live, Target, Resolvable, Settled, Wiped
<1> QED BY <1>2, <1>3 DEF UseOK

LEMMA UseOKStep ==
  ASSUME UseOK, [Next]_vars
  PROVE  UseOK'
<1>1. CASE InUse
  BY <1>1, UseKeeps DEF InUse
<1>2. CASE UNCHANGED <<volume, job>>
  BY <1>2, UseOKStays
<1>3. [Next]_vars => InUse \/ UNCHANGED <<volume, job>>
  BY DEF Next, vars, Start, RunTier1, CarveSignature, EndTier2, CarveFragments, Finish
<1> QED BY <1>1, <1>2, <1>3

(* What host and erasers leave on the medium: live files lie apart, in     *)
(* sectors that are in use, where their entries say, and an erasure that   *)
(* has let its file go left nothing of it (file_eraser.rs).                *)
THEOREM UseIsOK == Spec => []UseOK
<1> QED BY UseOKInit, UseOKStep, PTL DEF Spec

(* Erasure is overwriting (file_eraser.rs): a file is unlinked, its        *)
(* sectors are freed or it is reported erased only when no sector it had   *)
(* when the erasure began holds its data any more, whatever fails or stops *)
(* on the way and whatever the host appends meanwhile.                     *)
THEOREM NothingIsLeft == Spec => []ErasedIsGone
<1>1. UseOK => ErasedIsGone
  BY DEF UseOK, JobOK, Settled, ErasedIsGone
<1> QED BY <1>1, UseIsOK, PTL

-----------------------------------------------------------------------------
(* Tier 1.                                                                 *)

LEMMA CoveredNone == Covered(<<>>) = {} /\ Covered(<<<<0, 0>>>>) = {}
<1>1. Covered(<<>>) = {}
  BY DEF Covered
<1>2. Sectors(<<0, 0>>) = {}
  BY DEF Sectors
<1> DEFINE x == <<0, 0>>
<1> HIDE DEF x
<1>3. Covered(<<x>>) = Sectors(x)
  BY DEF Covered
<1> QED BY <1>1, <1>2, <1>3 DEF x

LEMMA FatConfirmed ==
  ASSUME NEW cells, IsTable(cells), NEW e \in FatEntries, e.deleted,
         LocateFat(cells, e).conf = "Confirmed"
  PROVE  \A l \in Covered(LocateFat(cells, e).loc) : IsClusterFree(cells, l + 2)
<1> DEFINE chain == FollowChain(cells, e.start)
           at == LocateFat(cells, e)
<1>1. e.start \in Nat /\ e.size \in Nat
  BY DEF FatEntries
<1>2. chain \in Seq(Nat) /\ \A i \in 1 .. Len(chain) : chain[i] >= 2
  BY <1>1, FollowChainIs
<1> HIDE DEF chain
<1>3. CASE e.start < 2
  <2>1. e.size = 0
    BY <1>3 DEF LocateFat
  <2> DEFINE none == <<<<0, 0>>>>
  <2>2. at = [loc |-> none, conf |-> "Confirmed"]
    BY <1>3, <2>1 DEF LocateFat
  <2> HIDE DEF at, none
  <2>3. at.loc = none
    BY <2>2
  <2>4. Covered(at.loc) = {}
    BY <2>3, CoveredNone DEF none
  <2> QED BY <2>4 DEF at
<1>4. CASE ~ (e.start < 2)
  <2> DEFINE conf == IF e.deleted /\ \E c \in ToSet(chain) : ~IsClusterFree(cells, c)
                     THEN "Partial" ELSE "Confirmed"
             exts == ClustersToExtents(chain)
  <2>1. at = [loc |-> exts, conf |-> conf]
    BY <1>4 DEF LocateFat, chain
  <2>2. at.conf = "Confirmed"
    OBVIOUS
  <2> HIDE DEF at, conf, exts
  <2>3. at.loc = exts /\ conf = "Confirmed"
    BY <2>1, <2>2
  <2>4. \A c \in ToSet(chain) : IsClusterFree(cells, c)
    BY <2>3 DEF conf
  <2>5. exts \in Seq(Extents) /\ SectorSeq(exts) = [i \in 1 .. Len(chain) |-> chain[i] - 2]
    BY <1>2, ClustersToExtentsIs, LocationsAre DEF exts
  <2>6. Covered(exts) = ToSet(SectorSeq(exts))
    BY <2>5, SectorSeqIs
  <2>7. ASSUME NEW l \in Covered(exts) PROVE IsClusterFree(cells, l + 2)
    <3>1. PICK i \in 1 .. Len(chain) : l = chain[i] - 2
      BY <2>5, <2>6, <2>7 DEF ToSet
    <3>2. chain[i] \in Nat /\ chain[i] \in ToSet(chain)
      BY <1>2 DEF ToSet
    <3>3. l + 2 = chain[i]
      BY <3>1, <3>2
    <3> QED BY <2>4, <3>2, <3>3
  <2> QED BY <2>3, <2>7 DEF at
<1> QED BY <1>1, <1>3, <1>4

(* What a parser is sure of lies outside the allocated sectors.            *)
LEMMA ConfirmedIsFree ==
  ASSUME VolumeOK, NEW f \in DOMAIN entry, entry[f].deleted, Locate(f).conf = "Confirmed", NEW g \in Live
  PROVE  Covered(Locate(f).loc) \cap ToSet(place[g]) = {}
<1>1. entry[f] \in Entries /\ (IsFat => IsTable(table))
  BY DEF VolumeOK
<1>2. ToSet(place[g]) \subseteq Lba /\ ToSet(place[g]) \cap FreeSectors = {}
  BY LiveIs DEF VolumeOK
<1>3. CASE scen.kind = "fat"
  <2>1. entry[f] \in FatEntries /\ IsTable(table) /\ Locate(f) = LocateFat(table, entry[f])
    BY <1>1, <1>3 DEF Entries, IsFat, Locate
  <2> DEFINE e == entry[f]
  <2> HIDE DEF e
  <2>2. \A l \in Covered(LocateFat(table, e).loc) : IsClusterFree(table, l + 2)
    BY <2>1, FatConfirmed DEF e
  <2>3. \A l \in Covered(Locate(f).loc) : IsClusterFree(table, l + 2)
    BY <2>1, <2>2 DEF e
  <2> QED BY <1>2, <1>3, <2>3 DEF FreeSectors, IsFat
<1>4. CASE scen.kind # "fat"
  <2>1. ToSet(place[g]) \subseteq used
    BY <1>2, <1>4 DEF FreeSectors, IsFat
  <2>2. Covered(Locate(f).loc) \cap used = {}
    <3>1. CASE scen.kind = "ntfs"
      <4> DEFINE e == entry[f]
      <4>1. Locate(f) = LocateNtfs(scen.bitmap, used, e)
        BY <3>1 DEF Locate
      <4>2. e.deleted
        OBVIOUS
      <4> HIDE DEF e
      <4> DEFINE exts == DecodeRuns(e.runs)
                 conf == IF exts = <<>> THEN "Low"
                         ELSE IF ~scen.bitmap THEN "Partial"
                         ELSE IF e.deleted THEN ExtentsConfidence(used, exts) ELSE "Confirmed"
      <4>3. Locate(f) = [loc |-> exts, conf |-> conf]
        BY <4>1 DEF LocateNtfs
      <4> HIDE DEF conf, exts
      <4>4. Locate(f).loc = exts /\ conf = "Confirmed"
        BY <4>3
      <4>5. ExtentsConfidence(used, exts) = "Confirmed"
        BY <4>2, <4>4 DEF conf
      <4>6. Covered(exts) \cap used = {}
        BY <4>5 DEF ExtentsConfidence
      <4> QED BY <4>4, <4>6
    <3>2. CASE scen.kind # "ntfs"
      <4> DEFINE e == entry[f]
                 exts == BlockExtents(e)
                 loc == [i \in DOMAIN exts |-> <<BlockToLba(exts[i][1]), exts[i][2]>>]
                 at == LocateExt4(scen.bitmap, used, e)
      <4>1. Locate(f) = at
        BY <1>4, <3>2 DEF Locate
      <4>2. e.deleted
        OBVIOUS
      <4> HIDE DEF e
      <4>3. CASE exts = <<>>
        <5> DEFINE none == <<<<0, 0>>>>
        <5>1. at = [loc |-> none, conf |-> "Confirmed"] \/ at = [loc |-> <<>>, conf |-> "Low"]
          BY <4>3 DEF LocateExt4
        <5> HIDE DEF at, none
        <5>2. at.loc = none \/ at.loc = <<>>
          BY <5>1
        <5>3. Covered(at.loc) = {}
          BY <5>2, CoveredNone DEF none
        <5> QED BY <4>1, <5>3
      <4>4. CASE exts # <<>>
        <5> DEFINE conf == IF ~e.deleted THEN "Confirmed"
                           ELSE IF scen.bitmap THEN ExtentsConfidence(used, loc) ELSE "Partial"
        <5>1. at = [loc |-> loc, conf |-> conf]
          BY <4>4 DEF LocateExt4
        <5> HIDE DEF at, conf, loc
        <5>2. at.loc = loc /\ conf = "Confirmed"
          BY <4>1, <5>1
        <5>3. ExtentsConfidence(used, loc) = "Confirmed"
          BY <4>2, <5>2 DEF conf
        <5>4. Covered(loc) \cap used = {}
          BY <5>3 DEF ExtentsConfidence
        <5> QED BY <4>1, <5>2, <5>4
      <4> QED BY <4>3, <4>4
    <3> QED BY <3>1, <3>2
  <2> QED BY <2>1, <2>2
<1> QED BY <1>3, <1>4

-----------------------------------------------------------------------------
(* The validators.                                                         *)

Verdicts == [verdict : {"ok", "eof", "err"}, len : Nat]

LEMMA VerdictIs ==
  /\ \A n \in Nat : Ok(n) \in Verdicts /\ Eof(n) \in Verdicts
  /\ Err \in Verdicts
BY DEF Verdicts, Ok, Eof, Err

LEMMA BoxedIs ==
  ASSUME NEW class, NEW S, NEW s \in Seq(S)
  PROVE  ValidateBoxed(class, s) \in Verdicts
<1> DEFINE N == Len(s)
           nextBox(i) == i + FileLen[s[i][1]]
           isBox(i) == i <= Len(s) /\ IsHeader(s[i]) /\ class[s[i][1]] = "boxed"
           go(i) == IF isBox(i) /\ nextBox(i) <= Len(s) + 1 THEN nextBox(i) ELSE i
           Step(h) == [n \in 0 .. N |-> IF n = 0 THEN 1 ELSE go(h[n - 1])]
           H == CHOOSE h : h = Step(h)
           P == Nat \ {0}
           step == [n \in 1 .. N |-> [i \in P |-> go(i)]]
           T == { n \in 0 .. N : H[n] \in P }
<1>1. N \in Nat /\ 1 \in P
  OBVIOUS
<1>2. \A i \in P : go(i) \in P
  <2> SUFFICES ASSUME NEW i \in P PROVE go(i) \in P
    OBVIOUS
  <2>1. CASE isBox(i) /\ nextBox(i) <= Len(s) + 1
    <3>1. s[i][1] \in Files
      BY <2>1 DEF IsHeader
    <3>2. FileLen[s[i][1]] \in Nat
      BY <3>1, FilesAssumption
    <3>3. go(i) = i + FileLen[s[i][1]]
      BY <2>1
    <3> QED BY <3>2, <3>3
  <2>2. CASE ~ (isBox(i) /\ nextBox(i) <= Len(s) + 1)
    <3>1. go(i) = i
      BY <2>2
    <3> QED BY <3>1
  <2> QED BY <2>1, <2>2
<1>3. ValidateBoxed(class, s) = IF isBox(H[N]) THEN Eof(H[N]) ELSE Ok(H[N] - 1)
  BY DEF ValidateBoxed
<1> HIDE DEF N, go, isBox, P
<1>4. /\ step \in [1 .. N -> [P -> P]]
      /\ \A n \in 1 .. N, i \in P : step[n][i] = go(i)
  BY <1>2
<1>5. /\ 0 \in 0 .. N /\ \A n \in 1 .. N : n \in 0 .. N /\ n # 0 /\ n - 1 \in 0 .. N
      /\ \A n \in 0 .. N : n # 0 => n \in 1 .. N
  BY <1>1
<1> HIDE DEF step
<1>6. PICK f \in [0 .. N -> P] : Follows(f, 1, N, step)
  BY <1>1, <1>4, Recursion
<1>7. f[0] = 1 /\ \A n \in 1 .. N : f[n] = step[n][f[n - 1]]
  BY <1>6 DEF Follows
<1>8. \A n \in 0 .. N : f[n] = IF n = 0 THEN 1 ELSE go(f[n - 1])
  <2> SUFFICES ASSUME NEW n \in 0 .. N, n # 0 PROVE f[n] = go(f[n - 1])
    BY <1>7
  <2>1. n \in 1 .. N /\ n - 1 \in 0 .. N
    BY <1>5
  <2> QED BY <1>4, <1>7, <2>1
<1>9. f = Step(f)
  BY <1>8
<1>10. H = Step(H)
  BY <1>9
<1> HIDE DEF H
<1>11. \A n \in 0 .. N : H[n] = IF n = 0 THEN 1 ELSE go(H[n - 1])
  BY <1>10, Zenon
<1>12. H[0] = 1 /\ \A n \in 1 .. N : H[n] = go(H[n - 1])
  BY <1>5, <1>11, Zenon
<1>13. H[N] \in P
  <2>1. 0 \in T
    BY <1>1, <1>5, <1>12
  <2>2. ASSUME NEW n \in 1 .. N, n - 1 \in T PROVE n \in T
    BY <1>2, <1>5, <1>12, <2>2
  <2>3. N \in 0 .. N
    BY <1>1
  <2> HIDE DEF T
  <2>4. N \in T
    BY <1>1, <2>1, <2>2, <2>3, UpTo
  <2> QED BY <2>4 DEF T
<1>14. H[N] \in Nat /\ H[N] - 1 \in Nat
  BY <1>13 DEF P
<1> QED BY <1>3, <1>14, VerdictIs

LEMMA Positions ==
  ASSUME NEW S, NEW s \in Seq(S), NEW E \in SUBSET (DOMAIN s), E # {}
  PROVE  Max(E) \in DOMAIN s /\ Min(E) \in DOMAIN s /\ Max(E) \in E /\ Min(E) \in E
         /\ Max(E) \in Nat \ {0} /\ Min(E) \in Nat \ {0}
<1>1. DOMAIN s = 1 .. Len(s) /\ Len(s) \in Nat
  OBVIOUS
<1>2. E \in SUBSET Nat /\ \A x \in E : x <= Len(s)
  BY <1>1
<1>3. Max(E) \in E /\ Min(E) \in E
  BY <1>1, <1>2, BoundedMax, LeastMin
<1> QED BY <1>1, <1>3

LEMMA ValidateIs ==
  ASSUME NEW class \in [Files -> FileTypes], NEW S, NEW s \in Seq(S), s[1][1] \in Files
  PROVE  Validate(class, s) \in Verdicts
<1> DEFINE f == s[1][1]
<1>1. FileLen[f] \in Nat /\ Len(s) \in Nat /\ 1 \in Nat /\ class[f] \in FileTypes
  BY FilesAssumption
<1> HIDE DEF f
<1>2. ValidateChunked(s, f) \in Verdicts
  BY <1>1, VerdictIs DEF ValidateChunked
<1>3. ValidateSized(s, f) \in Verdicts
  BY <1>1, VerdictIs DEF ValidateSized
<1>4. ValidateMapped(s, f) \in Verdicts
  BY <1>1, VerdictIs DEF ValidateMapped
<1>5. ValidateBoxed(class, s) \in Verdicts
  BY BoxedIs
<1>6. ValidateLast(class, s) \in Verdicts
  <2> DEFINE ends == {i \in DOMAIN s : IsEndOf(class, "last", s[i])}
  <2>1. ends \in SUBSET (DOMAIN s)
    OBVIOUS
  <2>2. ValidateLast(class, s) = IF ends = {} THEN Eof(Len(s)) ELSE Ok(Max(ends))
    BY DEF ValidateLast
  <2> HIDE DEF ends
  <2>3. ends # {} => Max(ends) \in Nat
    BY <2>1, Positions
  <2> QED BY <1>1, <2>2, <2>3, VerdictIs
<1>7. ValidateText(class, s) \in Verdicts
  <2> DEFINE ends == {i \in DOMAIN s : IsEndOf(class, "text", s[i])}
  <2>1. ends \in SUBSET (DOMAIN s)
    OBVIOUS
  <2>2. ValidateText(class, s) = IF ends = {} THEN Eof(Len(s)) ELSE Ok(Max(ends) + TextGrowth)
    BY DEF ValidateText
  <2> HIDE DEF ends
  <2>3. ends # {} => Max(ends) + TextGrowth \in Nat
    <3> SUFFICES ASSUME ends # {} PROVE Max(ends) + TextGrowth \in Nat
      OBVIOUS
    <3>1. Max(ends) \in Nat /\ TextGrowth \in Nat
      BY <2>1, Positions, LimitsAssumption
    <3> QED BY <3>1
  <2> QED BY <1>1, <2>2, <2>3, VerdictIs
<1>8. ValidateScan(class, s) \in Verdicts
  <2> DEFINE stops == {i \in DOMAIN s : s[i] = Zero \/ IsEndOf(class, "scan", s[i])
                                        \/ (i > 1 /\ IsHeader(s[i]) /\ class[s[i][1]] = "scan")}
             i == Min(stops)
  <2>1. stops \in SUBSET (DOMAIN s)
    OBVIOUS
  <2>2. CASE stops = {}
    <3>1. ValidateScan(class, s) \in {Eof(Len(s)), Err}
      BY <2>2 DEF ValidateScan
    <3> QED BY <1>1, <3>1, VerdictIs
  <2>3. CASE stops # {}
    <3>1. ValidateScan(class, s) \in {Eof(i - 1), Err, Ok(i)}
      BY <2>3 DEF ValidateScan
    <3> HIDE DEF stops
    <3>2. i \in Nat \ {0}
      BY <2>1, <2>3, Positions
    <3> HIDE DEF i
    <3>3. i \in Nat /\ i - 1 \in Nat
      BY <3>2
    <3> QED BY <3>1, <3>3, VerdictIs
  <2> QED BY <2>2, <2>3
<1> QED BY <1>1, <1>2, <1>3, <1>4, <1>5, <1>6, <1>7, <1>8 DEF Validate, FileTypes, f

-----------------------------------------------------------------------------
(* Reading and carving.                                                    *)

Contents == { disk[l] : l \in Lba }

LEMMA OneExtent ==
  ASSUME NEW x \in Extents
  PROVE  Covered(<<x>>) = Sectors(x) /\ <<x>> # <<>> /\ <<x>>[1] = x
BY DEF Covered

LEMMA TwoExtents ==
  ASSUME NEW x \in Extents, NEW y \in Extents
  PROVE  Covered(<<x, y>>) = Sectors(x) \cup Sectors(y) /\ <<x, y>> # <<>> /\ <<x, y>>[1] = x /\ <<x, y>>[2] = y
BY DEF Covered

LEMMA PrefixIs ==
  ASSUME NEW S, NEW s \in Seq(S), NEW n \in 0 .. Len(s)
  PROVE  /\ SubSeq(s, 1, n) \in Seq(S) /\ Len(SubSeq(s, 1, n)) = n
         /\ \A i \in 1 .. n : SubSeq(s, 1, n)[i] = s[i]
<1>1. \A i \in 1 .. n : s[i] \in S
  OBVIOUS
<1> QED BY <1>1, SubSeqProperties

LEMMA DataIs ==
  ASSUME DiskOK, NEW first \in Nat, NEW n \in Nat, first + n <= Total
  PROVE  /\ Data(medium, first, n) \in Seq(Contents) /\ Len(Data(medium, first, n)) = n
         /\ \A k \in 1 .. n : /\ Data(medium, first, n)[k] = disk[first + k - 1]
                              /\ first + k - 1 \in Lba
<1>1. Total \in Nat
  BY LimitsAssumption
<1>2. \A k \in 1 .. n : first + k - 1 \in Lba
  BY <1>1 DEF Lba
<1>3. medium.disk = disk
  BY DEF medium
<1>4. Data(medium, first, n) = [k \in 1 .. n |-> disk[first + k - 1]]
  BY <1>3 DEF Data
<1>5. \A k \in 1 .. n : disk[first + k - 1] \in Contents
  BY <1>2 DEF Contents
<1> QED BY <1>2, <1>4, <1>5

(* What a candidate is: sectors of the medium from its header on, and what *)
(* the validator of its type says of them.                                 *)
LEMMA CandidateIs ==
  ASSUME DiskOK, scen \in Scenarios, NEW lba \in Lba, IsHeader(disk[lba]),
         NEW c, c = Candidate(scen.class, medium, lba), c.v.verdict # "none"
  PROVE  \E n \in 1 .. Total - lba :
           /\ c.data = Data(medium, lba, n) /\ c.v = Validate(scen.class, c.data)
           /\ c.v \in Verdicts
<1> DEFINE most == Min({MaxObject, Total - lba})
           fast == Min({most, FastWindow})
           full == Min({most, FullWindow})
           good(n) == [v |-> Validate(scen.class, Data(medium, lba, n)), data |-> Data(medium, lba, n)]
           no == [v |-> [verdict |-> "none", len |-> 0], data |-> <<>>]
<1>1. Total \in Nat /\ lba \in Nat /\ lba < Total /\ {MaxObject, FastWindow, FullWindow} \subseteq Nat \ {0}
  BY LimitsAssumption DEF Lba
<1>2. most \in 1 .. Total - lba
  <2> DEFINE U == {MaxObject, Total - lba}
  <2>1. U \in SUBSET Nat /\ Total - lba \in U /\ \A u \in U : u >= 1
    BY <1>1
  <2>2. most = Min(U)
    OBVIOUS
  <2> HIDE DEF U, most
  <2>3. Min(U) \in U /\ Min(U) <= Total - lba
    BY <2>1, LeastMin
  <2>4. Min(U) \in Nat /\ Min(U) >= 1
    BY <2>1, <2>3
  <2> QED BY <1>1, <2>2, <2>3, <2>4
<1> HIDE DEF most
<1>3. ASSUME NEW w \in Nat \ {0} PROVE Min({most, w}) \in 1 .. Total - lba
  <2> DEFINE U == {most, w}
  <2>1. U \in SUBSET Nat /\ most \in U /\ \A u \in U : u >= 1
    BY <1>2
  <2> HIDE DEF U
  <2>2. Min(U) \in U /\ Min(U) <= most
    BY <2>1, LeastMin
  <2>3. Min(U) \in Nat /\ Min(U) >= 1
    BY <2>1, <2>2
  <2> QED BY <1>1, <1>2, <2>2, <2>3 DEF U
<1>4. fast \in 1 .. Total - lba /\ full \in 1 .. Total - lba
  BY <1>1, <1>3
<1>5. c \in {no, good(fast), good(full)}
  BY DEF Candidate, most
<1> HIDE DEF fast, full
<1>6. c # no
  OBVIOUS
<1>7. PICK n \in {fast, full} : c = good(n)
  BY <1>5, <1>6
<1>8. n \in 1 .. Total - lba
  BY <1>4, <1>7
<1>9. c.data = Data(medium, lba, n) /\ c.v = Validate(scen.class, Data(medium, lba, n))
  BY <1>7
<1>10. Validate(scen.class, Data(medium, lba, n)) \in Verdicts
  <2> DEFINE s == Data(medium, lba, n)
  <2>1. n \in Nat /\ lba + n <= Total /\ 1 \in 1 .. n /\ lba + 1 - 1 = lba
    BY <1>1, <1>8
  <2>2. s \in Seq(Contents) /\ s[1] = disk[lba]
    BY <1>1, <2>1, DataIs
  <2> HIDE DEF s
  <2>3. s[1][1] \in Files
    BY <2>2 DEF IsHeader
  <2>4. scen.class \in [Files -> FileTypes]
    BY ScenarioAssumption
  <2>5. Validate(scen.class, s) \in Verdicts
    BY <2>2, <2>3, <2>4, ValidateIs
  <2> QED BY <2>5 DEF s
<1> QED BY <1>8, <1>9, <1>10

(* The finds of the tiers: what is listed, what has a known header and what *)
(* was put together from two fragments.                                     *)
Begin(a) == a.loc[1][1]
End(a)   == a.loc[1][1] + a.loc[1][2]

IsListing(a) == \E f \in Listed : a = ListedArtifact(f)

IsCarving(a) ==
  /\ a.tier = 2 /\ a.conf = "none" /\ a.limited \in BOOLEAN /\ a.payload \in Seq(Contents)
  /\ \E l \in Lba : \E n \in 1 .. Total - l : a.loc = <<<<l, n>>>>

IsRebuilding(a) ==
  /\ a.tier = 3 /\ a.conf = "none" /\ a.payload \in Seq(Contents)
  /\ a.limited \in BOOLEAN /\ a.limited
  /\ \E l \in Lba, k \in Lba : \E n \in 1 .. Total - l, m \in 1 .. Total - k :
       a.loc = <<<<l, n>>, <<k, m>>>>

LEMMA CarvingIs ==
  ASSUME NEW a, IsCarving(a)
  PROVE  /\ a.loc \in Seq(Extents) /\ a.loc # <<>> /\ Begin(a) \in Lba /\ End(a) \in Nat /\ End(a) <= Total
         /\ Covered(a.loc) = Begin(a) .. End(a) - 1 /\ Begin(a) \in Covered(a.loc) /\ Covered(a.loc) \subseteq Lba
<1>0. PICK l \in Lba : \E n \in 1 .. Total - l : a.loc = <<<<l, n>>>>
  BY DEF IsCarving
<1>1. PICK n \in 1 .. Total - l : a.loc = <<<<l, n>>>>
  BY <1>0
<1> DEFINE x == <<l, n>>
<1>2. Total \in Nat /\ l \in Nat /\ l < Total /\ n \in Nat /\ n >= 1 /\ l + n <= Total
  BY LimitsAssumption DEF Lba
<1>3. x \in Extents /\ x[1] = l /\ x[2] = n
  BY <1>2 DEF Extents
<1> HIDE DEF x
<1>4. a.loc = <<x>>
  BY <1>1 DEF x
<1>5. Covered(a.loc) = Sectors(x) /\ a.loc # <<>> /\ a.loc[1] = x /\ a.loc \in Seq(Extents)
  BY <1>3, <1>4, OneExtent
<1>6. Begin(a) = l /\ End(a) = l + n
  BY <1>3, <1>5 DEF Begin, End
<1>7. Sectors(x) = l .. l + n - 1
  BY <1>3 DEF Sectors
<1> HIDE DEF Begin, End
<1> QED BY <1>2, <1>5, <1>6, <1>7 DEF Lba

LEMMA RebuildingIs ==
  ASSUME NEW a, IsRebuilding(a)
  PROVE  /\ a.loc \in Seq(Extents) /\ a.loc # <<>> /\ Begin(a) \in Lba
         /\ Begin(a) \in Covered(a.loc) /\ Covered(a.loc) \subseteq Lba
<1>0. PICK l \in Lba, k \in Lba :
         \E n \in 1 .. Total - l, m \in 1 .. Total - k : a.loc = <<<<l, n>>, <<k, m>>>>
  BY DEF IsRebuilding
<1>1. PICK n \in 1 .. Total - l, m \in 1 .. Total - k : a.loc = <<<<l, n>>, <<k, m>>>>
  BY <1>0
<1> DEFINE x == <<l, n>>
           y == <<k, m>>
<1>2. /\ Total \in Nat /\ l \in Nat /\ l < Total /\ n \in Nat /\ n >= 1 /\ l + n <= Total
      /\ k \in Nat /\ m \in Nat /\ k + m <= Total
  BY LimitsAssumption DEF Lba
<1>3. x \in Extents /\ x[1] = l /\ x[2] = n /\ y \in Extents /\ y[1] = k /\ y[2] = m
  BY <1>2 DEF Extents
<1> HIDE DEF x, y
<1>4. a.loc = <<x, y>>
  BY <1>1 DEF x, y
<1>5. Covered(a.loc) = Sectors(x) \cup Sectors(y) /\ a.loc # <<>> /\ a.loc[1] = x /\ a.loc \in Seq(Extents)
  BY <1>3, <1>4, TwoExtents
<1>6. Begin(a) = l
  BY <1>3, <1>5 DEF Begin
<1>7. Sectors(x) = l .. l + n - 1 /\ Sectors(y) = k .. k + m - 1
  BY <1>3 DEF Sectors
<1>8. l \in Sectors(x) /\ Sectors(x) \subseteq Lba /\ Sectors(y) \subseteq Lba
  BY <1>2, <1>7 DEF Lba
<1> QED BY <1>2, <1>5, <1>6, <1>8

LEMMA ArtifactIs ==
  ASSUME NEW tier, NEW file, NEW loc, NEW conf, NEW payload, NEW limited,
         NEW a, a = Artifact(tier, file, loc, conf, payload, limited)
  PROVE  /\ a.tier = tier /\ a.file = file /\ a.loc = loc /\ a.conf = conf
         /\ a.payload = payload /\ a.limited = limited
BY DEF Artifact

LEMMA Tier2ArtifactIs ==
  ASSUME DiskOK, scen \in Scenarios, NEW lba \in Lba, IsHeader(disk[lba]),
         NEW a \in Tier2Artifact(scen.class, medium, lba)
  PROVE  IsCarving(a) /\ Begin(a) = lba /\ a.file = disk[lba][1]
<1> DEFINE c    == Candidate(scen.class, medium, lba)
           more == Min({c.v.len, Total - lba})
           data == IF c.v.len <= Len(c.data) THEN SubSeq(c.data, 1, c.v.len)
                   ELSE IF CanRead(medium, lba, more) THEN Data(medium, lba, more) ELSE <<>>
           n    == Max({Len(data), 1})
           loc  == <<<<lba, n>>>>
<1>1. c.v.verdict # "none"
  BY DEF Tier2Artifact, Carved
<1>2. PICK lim \in BOOLEAN : a = Artifact(2, medium.disk[lba][1], loc, "none", data, lim)
  BY DEF Tier2Artifact, Carved
<1>3. medium.disk = disk
  BY DEF medium
<1> HIDE DEF c
<1>4. PICK q \in 1 .. Total - lba :
           /\ c.data = Data(medium, lba, q) /\ c.v = Validate(scen.class, c.data)
           /\ c.v \in Verdicts
  BY <1>1, CandidateIs DEF c
<1>5. Total \in Nat /\ lba \in Nat /\ lba < Total /\ q \in Nat /\ q >= 1 /\ lba + q <= Total
  BY LimitsAssumption DEF Lba
<1>6. c.data \in Seq(Contents) /\ Len(c.data) = q
  BY <1>4, <1>5, DataIs
<1>7. c.v.len \in Nat
  BY <1>4 DEF Verdicts
<1>8. more \in 0 .. Total - lba
  <2> DEFINE U == {c.v.len, Total - lba}
  <2>1. U \in SUBSET Nat /\ Total - lba \in U
    BY <1>5, <1>7
  <2> HIDE DEF U
  <2>2. Min(U) \in U /\ Min(U) <= Total - lba
    BY <2>1, LeastMin
  <2>3. Min(U) \in Nat
    BY <2>1, <2>2
  <2> QED BY <1>5, <2>2, <2>3 DEF U
<1>9. data \in Seq(Contents) /\ Len(data) <= Total - lba
  <2>1. CASE c.v.len <= Len(c.data)
    <3>1. c.v.len \in 0 .. Len(c.data)
      BY <1>6, <1>7, <2>1
    <3>2. SubSeq(c.data, 1, c.v.len) \in Seq(Contents) /\ Len(SubSeq(c.data, 1, c.v.len)) = c.v.len
      BY <1>6, <3>1, PrefixIs
    <3> QED BY <1>5, <1>6, <1>7, <2>1, <3>2
  <2>2. CASE ~ (c.v.len <= Len(c.data))
    <3> HIDE DEF more
    <3> DEFINE d == Data(medium, lba, more)
    <3>1. d \in Seq(Contents) /\ Len(d) = more
      <4>1. more \in Nat /\ lba + more <= Total
        BY <1>5, <1>8
      <4> QED BY <1>5, <4>1, DataIs
    <3> HIDE DEF d
    <3>2. data = d \/ data = <<>>
      BY <2>2 DEF d
    <3> HIDE DEF data
    <3>3. CASE data = d
      BY <1>5, <1>8, <3>1, <3>3
    <3>4. CASE data = <<>>
      BY <1>5, <3>4
    <3> QED BY <3>2, <3>3, <3>4
  <2> QED BY <2>1, <2>2
<1> HIDE DEF data
<1>10. n \in 1 .. Total - lba
  <2> DEFINE U == {Len(data), 1}
  <2>1. U \in SUBSET Nat /\ 1 \in U /\ U # {} /\ \A u \in U : u <= Total - lba
    BY <1>5, <1>9
  <2>2. Total - lba \in Nat
    BY <1>5
  <2> HIDE DEF U
  <2>3. Max(U) \in U /\ 1 <= Max(U)
    BY <2>1, <2>2, BoundedMax
  <2>4. Max(U) \in Nat /\ Max(U) <= Total - lba
    BY <2>1, <2>3
  <2> QED BY <1>5, <2>3, <2>4 DEF U
<1> HIDE DEF n
<1>11. /\ a.tier = 2 /\ a.file = disk[lba][1] /\ a.loc = loc /\ a.conf = "none"
       /\ a.payload = data /\ a.limited = lim
  BY <1>2, <1>3, ArtifactIs
<1>12. a.loc = <<<<lba, n>>>>
  BY <1>11
<1>13. Begin(a) = lba
  BY <1>12 DEF Begin
<1> QED BY <1>9, <1>10, <1>11, <1>12, <1>13 DEF IsCarving

(* The first split in the order of the three loops exists.                 *)
LEMMA FirstSplitIs ==
  ASSUME NEW splits \in SUBSET (Nat \X Nat \X Nat), splits # {}
  PROVE  /\ FirstSplit(splits) \in splits
<1> DEFINE A == { s[1] : s \in splits }
           before(s, t) == \/ s[1] < t[1]
                           \/ (s[1] = t[1] /\ s[2] < t[2])
                           \/ (s[1] = t[1] /\ s[2] = t[2] /\ s[3] <= t[3])
<1>1. \A s \in splits : s[1] \in Nat /\ s[2] \in Nat /\ s[3] \in Nat
  OBVIOUS
<1>2. PICK a \in A : \A y \in A : a <= y
  <2>1. A \in SUBSET Nat /\ A # {}
    BY <1>1
  <2> HIDE DEF A
  <2> QED BY <2>1, LeastNumber
<1> DEFINE B == { s[2] : s \in { t \in splits : t[1] = a } }
<1>3. PICK b \in B : \A y \in B : b <= y
  <2>1. B \in SUBSET Nat /\ B # {}
    BY <1>1, <1>2
  <2> HIDE DEF B
  <2> QED BY <2>1, LeastNumber
<1> DEFINE C == { s[3] : s \in { t \in splits : t[1] = a /\ t[2] = b } }
<1>4. PICK c \in C : \A y \in C : c <= y
  <2>1. C \in SUBSET Nat /\ C # {}
    BY <1>1, <1>3
  <2> HIDE DEF C
  <2> QED BY <2>1, LeastNumber
<1>5. PICK s \in splits : s[1] = a /\ s[2] = b /\ s[3] = c
  BY <1>4
<1>6. ASSUME NEW t \in splits PROVE before(s, t)
  <2>1. t[1] \in A /\ a <= t[1]
    BY <1>2
  <2>2. t[1] = a => b <= t[2]
    BY <1>3
  <2>3. t[1] = a /\ t[2] = b => c <= t[3]
    BY <1>4
  <2>4. a \in Nat /\ b \in Nat /\ c \in Nat /\ t[1] \in Nat /\ t[2] \in Nat /\ t[3] \in Nat
    BY <1>1, <1>5
  <2> HIDE DEF A, B, C
  <2> QED BY <1>5, <2>1, <2>2, <2>3, <2>4
<1>7. FirstSplit(splits) = CHOOSE s_1 \in splits : \A t \in splits : before(s_1, t)
  BY DEF FirstSplit
<1> HIDE DEF before
<1> QED BY <1>5, <1>6, <1>7

LEMMA WiderSeq ==
  ASSUME NEW S, NEW R, S \subseteq R
  PROVE  Seq(S) \subseteq Seq(R)
OBVIOUS

LEMMA GapOrderIs ==
  ASSUME NEW lba \in Nat, NEW size \in Nat
  PROVE  /\ GapOrder(lba, size) \in Seq(Nat)
         /\ \A i \in DOMAIN GapOrder(lba, size) : GapFits(lba, size, GapOrder(lba, size)[i])
<1> DEFINE fits  == {g \in Nat : GapFits(lba, size, g)}
           few   == {i \in DOMAIN EmpiricalGaps : EmpiricalGaps[i] \in fits}
           first == Subsequence(EmpiricalGaps, few)
           all   == [g \in 1..Radius |-> g]
           more  == fits \ ToSet(first)
           rest  == Subsequence(all, more)
<1>1. EmpiricalGaps \in Seq(Nat) /\ Radius \in Nat
  BY LimitsAssumption
<1>2. GapOrder(lba, size) = first \o rest
  BY DEF GapOrder
<1>3. first \in Seq(fits)
  <2>1. first \in Seq({ EmpiricalGaps[k] : k \in DOMAIN EmpiricalGaps \cap few })
    BY <1>1, SubsequenceIs
  <2>2. { EmpiricalGaps[k] : k \in DOMAIN EmpiricalGaps \cap few } \subseteq fits
    OBVIOUS
  <2> HIDE DEF first, few, fits
  <2> QED BY <2>1, <2>2
<1>4. rest \in Seq(fits)
  <2>1. all \in Seq(Nat)
    BY <1>1
  <2>2. rest \in Seq({ all[k] : k \in DOMAIN all \cap more })
    BY <2>1, SubsequenceIs
  <2>3. { all[k] : k \in DOMAIN all \cap more } \subseteq more
    OBVIOUS
  <2>4. more \subseteq fits
    OBVIOUS
  <2> HIDE DEF rest, more, fits, all
  <2> QED BY <2>2, <2>3, <2>4
<1> HIDE DEF first, rest
<1>5. first \o rest \in Seq(fits)
  <2> HIDE DEF fits
  <2> QED BY <1>3, <1>4
<1>6. \A i \in DOMAIN (first \o rest) : (first \o rest)[i] \in fits
  <2> HIDE DEF fits
  <2> QED BY <1>5
<1>7. first \o rest \in Seq(Nat)
  <2>1. fits \subseteq Nat
    OBVIOUS
  <2> HIDE DEF fits
  <2>2. Seq(fits) \subseteq Seq(Nat)
    BY <2>1, WiderSeq
  <2> QED BY <1>5, <2>2, Zenon
<1> QED BY <1>2, <1>6, <1>7

(* A split that fits: the pieces, where they lie, and what they hold.      *)
LEMMA SplitIs ==
  ASSUME DiskOK, scen \in Scenarios, NEW lba \in Lba, NEW cl, NEW s \in Splits(scen.class, medium, cl, lba),
         NEW gap, gap = GapOrder(lba, s[1])[s[3]]
  PROVE  /\ s[1] \in Nat /\ s[2] \in Nat \ {0} /\ s[2] < s[1] /\ s[1] <= MaxPieces
         /\ gap \in Nat /\ gap <= Radius /\ gap + lba + s[1] < Total
         /\ Fits(scen.class, medium, cl, lba, s[1], s[2], gap)
<1>1. /\ s \in (2..MaxPieces) \X (1..MaxPieces) \X (1..Len(EmpiricalGaps) + Radius)
      /\ s[2] < s[1] /\ s[3] \in DOMAIN GapOrder(lba, s[1])
      /\ Fits(scen.class, medium, cl, lba, s[1], s[2], GapOrder(lba, s[1])[s[3]])
  BY DEF Splits
<1>2. s[1] \in 2 .. MaxPieces /\ s[2] \in 1 .. MaxPieces /\ MaxPieces \in Nat /\ lba \in Nat
  BY <1>1, LimitsAssumption DEF Lba
<1>3. s[1] \in Nat /\ s[1] <= MaxPieces /\ s[2] \in Nat \ {0}
  BY <1>2
<1>4. gap \in Nat /\ GapFits(lba, s[1], gap)
  <2> DEFINE order == GapOrder(lba, s[1])
  <2>1. order \in Seq(Nat) /\ \A i \in DOMAIN order : GapFits(lba, s[1], order[i])
    BY <1>2, <1>3, GapOrderIs
  <2>2. s[3] \in DOMAIN order /\ gap = order[s[3]]
    BY <1>1
  <2> HIDE DEF order
  <2> QED BY <2>1, <2>2
<1> QED BY <1>1, <1>3, <1>4 DEF GapFits

LEMMA Tier3ArtifactIs ==
  ASSUME DiskOK, scen \in Scenarios, NEW lba \in Lba, IsHeader(disk[lba]),
         NEW cl, NEW a \in Tier3Artifact(scen.class, medium, cl, lba)
  PROVE  /\ IsRebuilding(a) /\ Begin(a) = lba /\ a.file = disk[lba][1]
         /\ Covered(a.loc) \cap cl = {}
         /\ \E both \in Seq(Contents), n \in Nat :
              /\ both # <<>> /\ both[1] = disk[lba]
              /\ Validate(scen.class, both).verdict = "ok" /\ n = Validate(scen.class, both).len
              /\ a.payload = IF n <= Len(both) THEN SubSeq(both, 1, n) ELSE both
<1> DEFINE splits == Splits(scen.class, medium, cl, lba)
           s    == FirstSplit(splits)
           gap  == GapOrder(lba, s[1])[s[3]]
           loc  == Bifragment(lba, s[1], s[2], gap)
           both == Data(medium, lba, s[2]) \o Data(medium, loc[2][1], loc[2][2])
           n    == Validate(scen.class, both).len
           payload == IF n <= Len(both) THEN SubSeq(both, 1, n) ELSE both
<1>1. splits # {}
  BY DEF Tier3Artifact, Rebuilt
<1>2. a = Artifact(3, medium.disk[lba][1], loc, "none", payload, TRUE)
  BY DEF Tier3Artifact, Rebuilt
<1>3. medium.disk = disk
  BY DEF medium
<1>4. splits \in SUBSET (Nat \X Nat \X Nat)
  <2>1. splits \in SUBSET ((2..MaxPieces) \X (1..MaxPieces) \X (1..Len(EmpiricalGaps) + Radius))
    BY DEF Splits
  <2>2. 2 .. MaxPieces \subseteq Nat /\ 1 .. MaxPieces \subseteq Nat /\ 1..Len(EmpiricalGaps) + Radius \subseteq Nat
    BY LimitsAssumption
  <2> HIDE DEF splits
  <2> QED BY <2>1, <2>2
<1>5. s \in splits
  <2> HIDE DEF splits
  <2> QED BY <1>1, <1>4, FirstSplitIs
<1> HIDE DEF s
<1>6. /\ s[1] \in Nat /\ s[2] \in Nat \ {0} /\ s[2] < s[1] /\ s[1] <= MaxPieces
      /\ gap \in Nat /\ gap <= Radius /\ gap + lba + s[1] < Total
      /\ Fits(scen.class, medium, cl, lba, s[1], s[2], gap)
  BY <1>5, SplitIs
<1> HIDE DEF gap, splits
<1> DEFINE k == lba + s[2] + gap
           m == s[1] - s[2]
<1>7. Total \in Nat /\ lba \in Nat /\ lba < Total
  BY LimitsAssumption DEF Lba
<1>8. /\ s[2] \in 1 .. Total - lba /\ k \in Lba /\ m \in 1 .. Total - k
      /\ s[2] \in Nat /\ lba + s[2] <= Total /\ k \in Nat /\ m \in Nat /\ k + m <= Total
  BY <1>6, <1>7 DEF Lba
<1>9. loc = <<<<lba, s[2]>>, <<k, m>>>>
  BY DEF Bifragment
<1>10. loc[2][1] = k /\ loc[2][2] = m
  BY <1>9
<1> HIDE DEF k, m, loc
<1> DEFINE d == Data(medium, lba, s[2])
           e == Data(medium, k, m)
<1>11. both = d \o e
  BY <1>10
<1>12. d \in Seq(Contents) /\ Len(d) = s[2] /\ d[1] = disk[lba]
  <2>1. 1 \in 1 .. s[2] /\ lba + 1 - 1 = lba
    BY <1>6, <1>7
  <2>2. /\ d \in Seq(Contents) /\ Len(d) = s[2]
        /\ \A i \in 1 .. s[2] : d[i] = disk[lba + i - 1]
    BY <1>7, <1>8, DataIs
  <2> HIDE DEF d
  <2> QED BY <2>1, <2>2
<1>13. e \in Seq(Contents) /\ Len(e) = m
  BY <1>8, DataIs
<1>21. Validate(scen.class, both).verdict = "ok"
  BY <1>6 DEF Fits, loc
<1> HIDE DEF d, e, both
<1>14. both \in Seq(Contents) /\ both[1] = disk[lba] /\ both # <<>>
  <2> HIDE DEF Contents
  <2>1. Len(d) \in Nat /\ Len(d) >= 1
    BY <1>6, <1>12
  <2> QED BY <1>11, <1>12, <1>13, <2>1, ConcatProperties
<1>15. n \in Nat
  <2>1. both[1][1] \in Files
    BY <1>14 DEF IsHeader
  <2>2. scen.class \in [Files -> FileTypes]
    BY ScenarioAssumption
  <2>3. Validate(scen.class, both) \in Verdicts
    BY <1>14, <2>1, <2>2, ValidateIs
  <2> QED BY <2>3 DEF Verdicts
<1>22. n = Validate(scen.class, both).len
  OBVIOUS
<1> HIDE DEF n
<1>16. payload \in Seq(Contents)
  <2>1. CASE n <= Len(both)
    <3>1. n \in 0 .. Len(both)
      BY <1>14, <1>15, <2>1
    <3>2. SubSeq(both, 1, n) \in Seq(Contents)
      BY <1>14, <3>1, PrefixIs
    <3> QED BY <2>1, <3>2
  <2>2. CASE ~ (n <= Len(both))
    BY <1>14, <2>2
  <2> QED BY <2>1, <2>2
<1> HIDE DEF payload
<1>17. /\ a.tier = 3 /\ a.file = disk[lba][1] /\ a.loc = loc /\ a.conf = "none"
       /\ a.payload = payload /\ a.limited \in BOOLEAN /\ a.limited
  <2> DEFINE file == medium.disk[lba][1]
             lim == TRUE
  <2>1. a = Artifact(3, file, loc, "none", payload, lim)
    BY <1>2
  <2>2. file = disk[lba][1] /\ lim /\ lim \in BOOLEAN
    BY <1>3
  <2> HIDE DEF file, lim
  <2>3. /\ a.tier = 3 /\ a.file = file /\ a.loc = loc /\ a.conf = "none"
        /\ a.payload = payload /\ a.limited = lim
    BY <2>1, ArtifactIs
  <2> QED BY <2>2, <2>3
<1>18. a.loc = <<<<lba, s[2]>>, <<k, m>>>>
  BY <1>9, <1>17
<1>19. Begin(a) = lba
  BY <1>18 DEF Begin
<1>20. Covered(a.loc) \cap cl = {}
  BY <1>6, <1>17 DEF Fits, loc
<1>23. a.payload = IF n <= Len(both) THEN SubSeq(both, 1, n) ELSE both
  BY <1>17 DEF payload
<1> QED BY <1>8, <1>14, <1>15, <1>16, <1>17, <1>18, <1>19, <1>20, <1>21, <1>22, <1>23 DEF IsRebuilding

(* What tier 1 reads are contents of the medium, and all of the file when   *)
(* every extent can be read.                                                *)
Text(sectors) == [i \in DOMAIN sectors |-> disk[sectors[i]]]

LEMMA TextIs ==
  ASSUME NEW sectors \in Seq(Nat), ToSet(sectors) \subseteq Lba
  PROVE  Text(sectors) \in Seq(Contents) /\ Len(Text(sectors)) = Len(sectors)
<1>1. DOMAIN sectors = 1 .. Len(sectors) /\ Len(sectors) \in Nat
  OBVIOUS
<1>2. \A i \in 1 .. Len(sectors) : sectors[i] \in Lba
  BY <1>1 DEF ToSet
<1>3. \A i \in 1 .. Len(sectors) : disk[sectors[i]] \in Contents
  BY <1>2 DEF Contents
<1> QED BY <1>1, <1>3 DEF Text

LEMMA PayloadIs ==
  ASSUME NEW loc \in Seq(Extents), NEW size \in Nat
  PROVE  /\ Payload(loc, size) \in Seq(Contents)
         /\ (\A i \in DOMAIN loc : CanRead(medium, loc[i][1], loc[i][2])) =>
              /\ ToSet(SectorSeq(loc)) \subseteq Lba
              /\ Len(SectorSeq(loc)) <= size => Payload(loc, size) = Text(SectorSeq(loc))
<1> DEFINE kept == {i \in DOMAIN loc : CanRead(medium, loc[i][1], loc[i][2])}
           readable == Subsequence(loc, kept)
           data == [i \in DOMAIN SectorSeq(readable) |-> disk[SectorSeq(readable)[i]]]
           n == Min({size, Len(data)})
<1>1. Payload(loc, size) = SubSeq(data, 1, n)
  BY DEF Payload
<1>2. /\ readable \in Seq({ loc[k] : k \in DOMAIN loc \cap kept })
      /\ DOMAIN loc \subseteq kept => readable = loc
  BY SubsequenceIs
<1> HIDE DEF readable
<1>3. \A x \in { loc[k] : k \in DOMAIN loc \cap kept } :
         x \in Extents /\ \A l \in Sectors(x) : l \in Lba
  <2> SUFFICES ASSUME NEW k \in kept PROVE loc[k] \in Extents /\ \A l \in Sectors(loc[k]) : l \in Lba
    OBVIOUS
  <2>1. loc[k] \in Extents /\ CanRead(medium, loc[k][1], loc[k][2])
    OBVIOUS
  <2> DEFINE x == loc[k]
  <2> HIDE DEF x
  <2>2. x[1] \in Nat /\ x[2] \in Nat /\ x[1] + x[2] <= Total /\ Total \in Nat
    BY <2>1, LimitsAssumption DEF CanRead, Extents, x
  <2>3. \A l \in Sectors(x) : l \in Lba
    BY <2>2 DEF Sectors, Lba
  <2> QED BY <2>1, <2>3 DEF x
<1>4. readable \in Seq(Extents) /\ ToSet(SectorSeq(readable)) \subseteq Lba /\ SectorSeq(readable) \in Seq(Nat)
  <2> DEFINE X == { loc[k] : k \in DOMAIN loc \cap kept }
  <2>1. readable \in Seq(X) /\ \A x \in X : x \in Extents /\ \A l \in Sectors(x) : l \in Lba
    BY <1>2, <1>3
  <2> HIDE DEF X
  <2>2. readable \in Seq(Extents)
    <3>1. X \subseteq Extents
      BY <2>1
    <3>2. Seq(X) \subseteq Seq(Extents)
      BY <3>1, WiderSeq
    <3> QED BY <2>1, <3>2
  <2>3. \A i \in DOMAIN readable : readable[i] \in X
    BY <2>1
  <2>4. Covered(readable) \subseteq Lba
    BY <2>1, <2>3 DEF Covered
  <2> QED BY <2>2, <2>4, SectorSeqIs
<1> DEFINE text == Text(SectorSeq(readable))
<1>5. data = text
  BY DEF Text
<1>6. text \in Seq(Contents) /\ Len(text) = Len(SectorSeq(readable)) /\ Len(text) \in Nat
  BY <1>4, TextIs
<1>7. n = IF size <= Len(text) THEN size ELSE Len(text)
  BY <1>5, <1>6, LeastOfTwo
<1> HIDE DEF data, text
<1>8. n \in 0 .. Len(text)
  <2>1. CASE size <= Len(text)
    <3>1. n = size
      BY <1>7, <2>1
    <3> QED BY <1>6, <2>1, <3>1
  <2>2. CASE ~ (size <= Len(text))
    <3>1. n = Len(text)
      BY <1>7, <2>2
    <3> QED BY <1>6, <3>1
  <2> QED BY <2>1, <2>2
<1> HIDE DEF n
<1>9. SubSeq(text, 1, n) \in Seq(Contents) /\ Len(SubSeq(text, 1, n)) = n
      /\ \A i \in 1 .. n : SubSeq(text, 1, n)[i] = text[i]
  BY <1>6, <1>8, PrefixIs
<1>10. ASSUME \A i \in DOMAIN loc : CanRead(medium, loc[i][1], loc[i][2])
       PROVE  /\ ToSet(SectorSeq(loc)) \subseteq Lba
              /\ Len(SectorSeq(loc)) <= size => Payload(loc, size) = Text(SectorSeq(loc))
  <2>1. readable = loc
    BY <1>2, <1>10
  <2>2. ASSUME Len(SectorSeq(loc)) <= size PROVE Payload(loc, size) = Text(SectorSeq(loc))
    <3>1. text = Text(SectorSeq(loc)) /\ Len(text) <= size
      BY <1>6, <2>1, <2>2 DEF text
    <3>2. n = Len(text)
      BY <1>6, <1>7, <3>1
    <3> DEFINE part == SubSeq(text, 1, n)
    <3>3. part \in Seq(Contents) /\ Len(part) = n /\ \A i \in 1 .. n : part[i] = text[i]
      BY <1>9
    <3>4. Payload(loc, size) = part
      BY <1>1, <1>5
    <3> HIDE DEF part
    <3>5. part = text
      <4> HIDE DEF Contents
      <4> QED BY <1>6, <3>1, <3>2, <3>3, SeqEqual
    <3> QED BY <3>1, <3>4, <3>5
  <2> QED BY <1>4, <2>1, <2>2
<1> QED BY <1>1, <1>5, <1>9, <1>10

-----------------------------------------------------------------------------
(* The pipeline.                                                           *)

IsSure(a)  == a.conf \in {"Confirmed", "Partial"}
IsWhole(a) == a.tier = 2 /\ ~ a.limited

(* What every find is.                                                     *)
ShapesOK ==
  /\ \A a \in arts : IsListing(a) \/ IsCarving(a) \/ (phase = "done" /\ a \in rebuilt)
  /\ \A a \in rebuilt : IsRebuilding(a)

(* Where the search stands, and what is taken while it goes on.            *)
SearchOK ==
  /\ phase \in {"use", "tier1", "tier2", "tier3", "done", "failed"} /\ pos \in Nat
  /\ phase \in {"use", "tier1"} => pos = 0
  /\ phase \in {"use", "tier1", "failed"} => arts = {} /\ rebuilt = {}
  /\ phase = "tier2" => rebuilt = {} /\ \A a \in arts : IsWhole(a) => End(a) <= pos
  /\ \A a \in arts \cup rebuilt :
       IsSure(a) \/ IsWhole(a) \/ a.tier = 3 => Covered(a.loc) \subseteq claimed

(* Which finds share no sector.                                            *)
ApartOK ==
  /\ \A a, b \in arts : IsSure(a) /\ b.tier = 2 => Begin(b) \notin Covered(a.loc)
  /\ \A a \in arts, b \in rebuilt : IsSure(a) => Covered(a.loc) \cap Covered(b.loc) = {}
  /\ \A a \in arts \cup rebuilt, b \in rebuilt :
       IsWhole(a) \/ a.tier = 3 => a = b \/ Covered(a.loc) \cap Covered(b.loc) = {}
  /\ \A a, b \in arts : IsWhole(a) /\ IsWhole(b) => a = b \/ Covered(a.loc) \cap Covered(b.loc) = {}
  /\ phase = "done" => \A a \in arts, b \in rebuilt : a.tier = 2 => Begin(a) # Begin(b)

(* A run with tier 1 keeps what every listed file leads to.                *)
ListedOK ==
  1 \in tiers /\ phase \in {"tier2", "tier3", "done"} =>
    /\ ~ ParserFails
    /\ \A f \in Listed : ListedArtifact(f) \in arts \/ ListedArtifact(f).limited

(* The inductive invariant of the pipeline.                                *)
FindsOK == ShapesOK /\ SearchOK /\ ApartOK /\ ListedOK

LEMMA MediumStays ==
  ASSUME UNCHANGED volume
  PROVE  /\ Contents' = Contents /\ ParserFails' = ParserFails /\ Listed' = Listed
         /\ \A f : ListedArtifact(f)' = ListedArtifact(f)
<1>1. /\ scen' = scen /\ disk' = disk /\ table' = table /\ used' = used
      /\ entry' = entry /\ place' = place /\ damaged' = damaged
  BY DEF volume
<1>2. Contents' = Contents /\ medium' = medium /\ Live' = Live
  BY <1>1 DEF Contents, medium, Live
<1>3. \A f : Reachable(f)' = Reachable(f)
  BY <1>1, <1>2 DEF Reachable
<1>4. DirReadable' = DirReadable /\ Recognized' = Recognized /\ Detected' = Detected /\ IsFat' = IsFat
  BY <1>1 DEF DirReadable, Recognized, Detected, IsFat
<1>5. ParserFails' = ParserFails
  BY <1>1, <1>2, <1>3, <1>4 DEF ParserFails
<1>6. Listed' = Listed
  <2>1. ListedFat' = ListedFat
    BY <1>1, <1>3, <1>4 DEF ListedFat
  <2>2. ListedExt4' = ListedExt4
    BY <1>1, <1>2, <1>3, <1>4 DEF ListedExt4
  <2>3. ListedNtfs' = ListedNtfs
    BY <1>1 DEF ListedNtfs
  <2> QED BY <1>4, <2>1, <2>2, <2>3 DEF Listed
<1>7. ASSUME NEW f PROVE ListedArtifact(f)' = ListedArtifact(f)
  <2>1. Locate(f)' = Locate(f)
    BY <1>1 DEF Locate
  <2>2. \A loc, size : Payload(loc, size)' = Payload(loc, size)
    BY <1>1, <1>2 DEF Payload
  <2> QED BY <1>1, <2>1, <2>2 DEF ListedArtifact
<1> QED BY <1>2, <1>5, <1>6, <1>7

LEMMA ShapesStay ==
  ASSUME UNCHANGED volume
  PROVE  \A a : /\ IsListing(a)' <=> IsListing(a)
                /\ IsCarving(a)' <=> IsCarving(a)
                /\ IsRebuilding(a)' <=> IsRebuilding(a)
<1>1. ASSUME NEW a PROVE IsListing(a)' <=> IsListing(a)
  BY MediumStays DEF IsListing
<1>2. ASSUME NEW a PROVE (IsCarving(a)' <=> IsCarving(a)) /\ (IsRebuilding(a)' <=> IsRebuilding(a))
  BY MediumStays DEF IsCarving, IsRebuilding
<1> QED BY <1>1, <1>2

LEMMA ListedAreEntries == Listed \subseteq DOMAIN entry
BY DEF Listed, ListedFat, ListedNtfs, ListedExt4

LEMMA ListingIs ==
  ASSUME UseOK, NEW f \in Listed, NEW a, a = ListedArtifact(f)
  PROVE  /\ a.tier = 1 /\ a.file = f /\ a.loc = Locate(f).loc /\ a.conf = Locate(f).conf
         /\ a.payload = Payload(Locate(f).loc, entry[f].size)
         /\ a.limited = (a.payload = <<>> /\ entry[f].size > 0)
         /\ a.loc \in Locations /\ a.loc \in Seq(Extents) /\ a.conf \in Confidences
         /\ a.payload \in Seq(Contents) /\ f \in DOMAIN entry /\ f \in Names /\ entry[f].size \in Nat
<1>1. f \in DOMAIN entry /\ f \in Names /\ entry[f] \in Entries /\ (IsFat => IsTable(table))
  BY ListedAreEntries DEF UseOK, VolumeOK
<1>2. entry[f].size \in Nat
  BY <1>1 DEF Entries, FatEntries, NtfsEntries, ExtEntries
<1>3. Locate(f).loc \in Locations /\ Locate(f).loc \in Seq(Extents) /\ Locate(f).conf \in Confidences
  BY <1>1, LocateIs
<1> DEFINE payload == Payload(Locate(f).loc, entry[f].size)
           limited == payload = <<>> /\ entry[f].size > 0
<1>4. a = Artifact(1, f, Locate(f).loc, Locate(f).conf, payload, limited)
  BY DEF ListedArtifact
<1>5. payload \in Seq(Contents)
  BY <1>2, <1>3, PayloadIs
<1> HIDE DEF limited, payload
<1>6. /\ a.tier = 1 /\ a.file = f /\ a.loc = Locate(f).loc /\ a.conf = Locate(f).conf
      /\ a.payload = payload /\ a.limited = limited
  BY <1>4, ArtifactIs
<1> QED BY <1>1, <1>2, <1>3, <1>5, <1>6 DEF payload, limited

(* What every find has, whichever tier it is from.                         *)
LEMMA FindIs ==
  ASSUME UseOK, ShapesOK, NEW a \in arts \cup rebuilt
  PROVE  /\ a.loc \in Seq(Extents) /\ a.payload \in Seq(Contents) /\ a.limited \in BOOLEAN
         /\ \/ a.tier = 1 /\ a \in arts /\ \E f \in Listed : a = ListedArtifact(f)
            \/ a.tier = 2 /\ a \in arts /\ IsCarving(a) /\ ~ IsSure(a)
            \/ a.tier = 3 /\ a \in rebuilt /\ IsRebuilding(a) /\ ~ IsSure(a)
<1>1. CASE IsListing(a) /\ a \in arts
  <2>1. PICK f \in Listed : a = ListedArtifact(f)
    BY <1>1 DEF IsListing
  <2>2. /\ a.tier = 1 /\ a.loc \in Seq(Extents) /\ a.payload \in Seq(Contents)
        /\ a.limited = (a.payload = <<>> /\ entry[f].size > 0)
    BY <2>1, ListingIs
  <2>3. a.limited \in BOOLEAN
    BY <2>2
  <2> QED BY <1>1, <2>1, <2>2, <2>3
<1>2. CASE IsCarving(a) /\ a \in arts
  <2>1. a.tier = 2 /\ a.conf = "none" /\ a.payload \in Seq(Contents) /\ a.limited \in BOOLEAN
    BY <1>2 DEF IsCarving
  <2> QED BY <1>2, <2>1, CarvingIs DEF IsSure
<1>3. CASE a \in rebuilt
  <2>1. IsRebuilding(a)
    BY <1>3 DEF ShapesOK
  <2>2. a.tier = 3 /\ a.conf = "none" /\ a.payload \in Seq(Contents) /\ a.limited \in BOOLEAN
    BY <2>1 DEF IsRebuilding
  <2> QED BY <1>3, <2>1, <2>2, RebuildingIs DEF IsSure
<1> QED BY <1>1, <1>2, <1>3 DEF ShapesOK

LEMMA FindsInit ==
  ASSUME Init
  PROVE  FindsOK
BY DEF Init, FindsOK, ShapesOK, SearchOK, ApartOK, ListedOK

LEMMA InUseFinds ==
  ASSUME FindsOK, InUse
  PROVE  FindsOK'
<1>1. /\ phase = "use" /\ phase' = "use" /\ pos' = 0 /\ arts' = {} /\ rebuilt' = {}
  BY DEF InUse, pipeline, FindsOK, SearchOK
<1> QED BY <1>1 DEF FindsOK, ShapesOK, SearchOK, ApartOK, ListedOK

LEMMA StartFinds ==
  ASSUME FindsOK, Start
  PROVE  FindsOK'
<1>1. /\ phase = "use" /\ phase' = "tier1" /\ pos' = 0 /\ arts' = {} /\ rebuilt' = {}
  BY DEF Start, FindsOK, SearchOK
<1> QED BY <1>1 DEF FindsOK, ShapesOK, SearchOK, ApartOK, ListedOK

LEMMA RunTier1Finds ==
  ASSUME UseOK, FindsOK, RunTier1
  PROVE  FindsOK'
<1>1. /\ phase = "tier1" /\ pos = 0 /\ arts = {} /\ rebuilt = {} /\ rebuilt' = {} /\ pos' = 0
      /\ tiers' = tiers
  BY DEF RunTier1, FindsOK, SearchOK
<1>2. UNCHANGED volume
  BY DEF RunTier1
<1>3. CASE 1 \in tiers /\ ParserFails
  <2>1. phase' = "failed" /\ arts' = {}
    BY <1>1, <1>3 DEF RunTier1
  <2> QED BY <1>1, <2>1 DEF FindsOK, ShapesOK, SearchOK, ApartOK, ListedOK
<1>4. CASE ~ (1 \in tiers /\ ParserFails)
  <2>1. /\ phase' = "tier2" /\ claimed' = Claims(arts')
        /\ arts' = IF 1 \in tiers THEN {ListedArtifact(f) : f \in Listed} ELSE {}
    BY <1>4 DEF RunTier1
  <2>2. ASSUME NEW a \in arts' PROVE IsListing(a) /\ a.tier = 1
    <3>1. PICK f \in Listed : a = ListedArtifact(f)
      BY <2>1
    <3> QED BY <3>1, ListingIs DEF IsListing
  <2>3. ShapesOK'
    <3>1. \A a \in arts' : IsListing(a)'
      BY <1>2, <2>2, ShapesStay
    <3> QED BY <1>1, <3>1 DEF ShapesOK
  <2>4. SearchOK'
    <3>1. \A a \in arts' : IsSure(a) => Covered(a.loc) \subseteq claimed'
      BY <2>1 DEF Claims, IsSure
    <3>2. \A a \in arts' : ~ IsWhole(a) /\ a.tier # 3
      BY <2>2 DEF IsWhole
    <3> QED BY <1>1, <2>1, <3>1, <3>2 DEF SearchOK
  <2>5. ApartOK'
    BY <1>1, <2>1, <2>2 DEF ApartOK, IsWhole
  <2>6. ListedOK'
    <3> SUFFICES ASSUME 1 \in tiers
                 PROVE  ~ ParserFails' /\ \A f \in Listed' : ListedArtifact(f)' \in arts'
      BY <1>1 DEF ListedOK
    <3>1. ~ ParserFails' /\ Listed' = Listed /\ \A f : ListedArtifact(f)' = ListedArtifact(f)
      BY <1>2, <1>4, MediumStays
    <3> QED BY <2>1, <3>1
  <2> QED BY <2>3, <2>4, <2>5, <2>6 DEF FindsOK
<1> QED BY <1>3, <1>4

LEMMA ListedStays ==
  ASSUME ListedOK, UNCHANGED <<volume, tiers>>,
         phase \in {"tier2", "tier3"}, \A a \in arts : a \in arts' \/ a.limited
  PROVE  ListedOK'
<1> SUFFICES ASSUME 1 \in tiers
             PROVE  ~ ParserFails' /\ \A f \in Listed' : ListedArtifact(f)' \in arts' \/ ListedArtifact(f)'.limited
  BY DEF ListedOK
<1>1. ParserFails' = ParserFails /\ Listed' = Listed /\ \A f : ListedArtifact(f)' = ListedArtifact(f)
  BY MediumStays
<1>2. ~ ParserFails /\ \A f \in Listed : ListedArtifact(f) \in arts \/ ListedArtifact(f).limited
  BY DEF ListedOK
<1> QED BY <1>1, <1>2

LEMMA HeadersAre ==
  ASSUME Headers # {}
  PROVE  /\ Min(Headers) \in Lba /\ Min(Headers) \in Nat /\ Min(Headers) >= pos /\ Min(Headers) < Total
         /\ Min(Headers) \notin claimed /\ IsHeader(disk[Min(Headers)])
<1>1. Headers \in SUBSET Nat
  BY LimitsAssumption DEF Headers, Lba
<1>2. Min(Headers) \in Headers
  BY <1>1, LeastMin
<1> QED BY <1>2, LimitsAssumption DEF Headers, Lba

LEMMA OneFind ==
  /\ \A class, m, lba : \A a, b \in Tier2Artifact(class, m, lba) : a = b
  /\ \A class, m, cl, lba : \A a, b \in Tier3Artifact(class, m, cl, lba) : a = b
<1>1. ASSUME NEW class, NEW m, NEW lba, NEW a \in Tier2Artifact(class, m, lba), NEW b \in Tier2Artifact(class, m, lba)
      PROVE  a = b
  <2> DEFINE c    == Candidate(class, m, lba)
             more == Min({c.v.len, Total - lba})
             data == IF c.v.len <= Len(c.data) THEN SubSeq(c.data, 1, c.v.len)
                     ELSE IF CanRead(m, lba, more) THEN Data(m, lba, more) ELSE <<>>
             find(limited) == Artifact(2, m.disk[lba][1], <<<<lba, Max({Len(data), 1})>>>>, "none", data, limited)
  <2>1. Tier2Artifact(class, m, lba) = CASE c.v.verdict = "ok"  -> {find(FALSE)}
                                         [] c.v.verdict = "eof" -> {find(TRUE)}
                                         [] OTHER               -> {}
    BY DEF Tier2Artifact, Carved
  <2> DEFINE x == find(FALSE)
             y == find(TRUE)
             T == Tier2Artifact(class, m, lba)
  <2> HIDE DEF c, find
  <2>2. T = {x} \/ T = {y} \/ T = {}
    BY <2>1
  <2> HIDE DEF x, y, T
  <2>3. a \in T /\ b \in T
    BY DEF T
  <2> QED BY <2>2, <2>3
<1>2. ASSUME NEW class, NEW m, NEW cl, NEW lba,
             NEW a \in Tier3Artifact(class, m, cl, lba), NEW b \in Tier3Artifact(class, m, cl, lba)
      PROVE  a = b
  <2> DEFINE splits == Splits(class, m, cl, lba)
             s    == FirstSplit(splits)
             loc  == Bifragment(lba, s[1], s[2], GapOrder(lba, s[1])[s[3]])
             both == Data(m, lba, s[2]) \o Data(m, loc[2][1], loc[2][2])
             n    == Validate(class, both).len
             find == Artifact(3, m.disk[lba][1], loc, "none", IF n <= Len(both) THEN SubSeq(both, 1, n) ELSE both, TRUE)
  <2>1. Tier3Artifact(class, m, cl, lba) = IF splits = {} THEN {} ELSE {find}
    BY DEF Tier3Artifact, Rebuilt
  <2> HIDE DEF splits, find
  <2> QED BY <2>1
<1> QED BY <1>1, <1>2

LEMMA EndTier2Finds ==
  ASSUME FindsOK, EndTier2
  PROVE  FindsOK'
<1>1. /\ phase = "tier2" /\ phase' = "tier3" /\ pos' = 0 /\ arts' = arts /\ rebuilt' = rebuilt
      /\ claimed' = claimed /\ tiers' = tiers /\ UNCHANGED volume
  BY DEF EndTier2
<1>2. ShapesOK'
  BY <1>1, ShapesStay DEF FindsOK, ShapesOK
<1>3. SearchOK'
  BY <1>1 DEF FindsOK, SearchOK
<1>4. ApartOK'
  BY <1>1 DEF FindsOK, ApartOK
<1>5. ListedOK'
  BY <1>1, ListedStays DEF FindsOK
<1> QED BY <1>2, <1>3, <1>4, <1>5 DEF FindsOK

LEMMA CarveSignatureFinds ==
  ASSUME UseOK, FindsOK, CarveSignature
  PROVE  FindsOK'
<1> DEFINE lba   == Min(Headers)
           found == Tier2Artifact(scen.class, medium, lba)
           whole == {a \in found : ~a.limited}
           ends  == {lba + 1} \cup {a.loc[1][1] + a.loc[1][2] : a \in whole}
<1>1. /\ phase = "tier2" /\ phase' = "tier2" /\ Headers # {} /\ arts' = arts \cup found
      /\ claimed' = claimed \cup UNION {Covered(a.loc) : a \in whole}
      /\ pos' = Max(ends) /\ tiers' = tiers /\ rebuilt' = rebuilt /\ UNCHANGED volume
  BY DEF CarveSignature
<1>2. rebuilt = {} /\ pos \in Nat /\ \A a \in arts : IsWhole(a) => End(a) <= pos
  BY <1>1 DEF FindsOK, SearchOK
<1>3. /\ lba \in Lba /\ lba \in Nat /\ lba >= pos /\ lba < Total /\ lba \notin claimed /\ IsHeader(disk[lba])
      /\ Total \in Nat
  BY <1>1, HeadersAre, LimitsAssumption
<1> HIDE DEF lba
<1>4. ASSUME NEW a \in found PROVE IsCarving(a) /\ Begin(a) = lba /\ a.tier = 2 /\ ~ IsSure(a)
  <2>1. DiskOK /\ scen \in Scenarios
    BY DEF UseOK, VolumeOK
  <2>2. IsCarving(a) /\ Begin(a) = lba
    BY <1>3, <2>1, Tier2ArtifactIs
  <2> QED BY <2>2 DEF IsCarving, IsSure
<1>5. \A a, b \in found : a = b
  BY OneFind
<1> HIDE DEF found
<1>6. ASSUME NEW a \in found
      PROVE  /\ End(a) \in Nat /\ End(a) <= Total /\ lba \in Covered(a.loc)
             /\ Covered(a.loc) = lba .. End(a) - 1
  BY <1>4, CarvingIs
<1>7. pos' \in Nat /\ lba + 1 <= pos' /\ \A a \in whole : End(a) <= pos'
  <2>1. ends \in SUBSET Nat /\ \A x \in ends : x <= Total
    BY <1>3, <1>6 DEF End
  <2>2. lba + 1 \in ends /\ \A a \in whole : End(a) \in ends
    BY DEF End
  <2> HIDE DEF ends, whole
  <2>3. Max(ends) \in ends /\ \A x \in ends : x <= Max(ends)
    BY <1>3, <2>1, <2>2, BoundedMax
  <2> QED BY <1>1, <2>1, <2>2, <2>3
<1>8. \A a \in found : IsWhole(a) <=> a \in whole
  BY <1>4 DEF IsWhole
<1> HIDE DEF ends
<1>9. ASSUME NEW a \in arts \cup rebuilt
      PROVE  \/ a.tier = 1 /\ ~ IsWhole(a)
             \/ a.tier = 2 /\ IsCarving(a)
             \/ a.tier = 3 /\ ~ IsWhole(a)
  BY <1>9, FindIs DEF FindsOK, IsWhole
<1>10. ShapesOK'
  <2>1. \A a \in arts' : IsListing(a) \/ IsCarving(a)
    BY <1>1, <1>2, <1>4 DEF FindsOK, ShapesOK
  <2> QED BY <1>1, <1>2, <2>1, ShapesStay DEF ShapesOK
<1>11. SearchOK'
  <2>1. \A a \in arts' : IsWhole(a) => End(a) <= pos'
    <3>1. ASSUME NEW a \in arts, IsWhole(a) PROVE End(a) <= pos'
      <4>1. End(a) <= pos /\ IsCarving(a)
        BY <1>2, <1>9, <3>1 DEF IsWhole
      <4>2. End(a) \in Nat
        BY <4>1, CarvingIs
      <4> QED BY <1>2, <1>3, <1>7, <4>1, <4>2
    <3> QED BY <1>1, <1>7, <1>8, <3>1
  <2>2. \A a \in arts' : IsSure(a) \/ IsWhole(a) \/ a.tier = 3 => Covered(a.loc) \subseteq claimed'
    <3>1. \A a \in arts : IsSure(a) \/ IsWhole(a) \/ a.tier = 3 => Covered(a.loc) \subseteq claimed
      BY DEF FindsOK, SearchOK
    <3>2. \A a \in found : IsSure(a) \/ IsWhole(a) \/ a.tier = 3 => a \in whole
      BY <1>4, <1>8
    <3> QED BY <1>1, <3>1, <3>2
  <2> QED BY <1>1, <1>2, <1>7, <2>1, <2>2 DEF SearchOK
<1>12. ApartOK'
  <2>1. ASSUME NEW a \in arts', NEW b \in arts', IsSure(a), b.tier = 2 PROVE Begin(b) \notin Covered(a.loc)
    <3>1. a \in arts /\ Covered(a.loc) \subseteq claimed
      BY <1>1, <1>4, <2>1 DEF FindsOK, SearchOK
    <3>2. CASE b \in arts
      BY <2>1, <3>1, <3>2 DEF FindsOK, ApartOK
    <3>3. CASE b \in found
      BY <1>3, <1>4, <3>1, <3>3
    <3> QED BY <1>1, <3>2, <3>3
  <2>2. ASSUME NEW a \in arts, NEW b \in found, IsWhole(a) PROVE Covered(a.loc) \cap Covered(b.loc) = {}
    <3>1. IsCarving(a) /\ End(a) <= pos
      BY <1>2, <1>9, <2>2 DEF IsWhole
    <3>2. /\ Covered(a.loc) = Begin(a) .. End(a) - 1 /\ End(a) \in Nat /\ Begin(a) \in Nat
          /\ Covered(b.loc) = lba .. End(b) - 1 /\ End(b) \in Nat
      BY <1>6, <3>1, CarvingIs, LimitsAssumption DEF Lba
    <3> HIDE DEF lba
    <3> QED BY <1>2, <1>3, <3>1, <3>2
  <2>3. ASSUME NEW a \in arts', NEW b \in arts', IsWhole(a), IsWhole(b)
        PROVE  a = b \/ Covered(a.loc) \cap Covered(b.loc) = {}
    <3>1. CASE a \in arts /\ b \in arts
      BY <2>3, <3>1 DEF FindsOK, ApartOK
    <3>2. CASE a \in found /\ b \in found
      BY <1>5, <3>2
    <3>3. CASE a \in arts /\ b \in found
      BY <2>2, <2>3, <3>3
    <3>4. CASE a \in found /\ b \in arts
      <4>1. Covered(b.loc) \cap Covered(a.loc) = {}
        BY <2>2, <2>3, <3>4
      <4> QED BY <4>1
    <3> QED BY <1>1, <3>1, <3>2, <3>3, <3>4
  <2> QED BY <1>1, <1>2, <2>1, <2>3 DEF ApartOK
<1>13. ListedOK'
  BY <1>1, ListedStays DEF FindsOK
<1> QED BY <1>10, <1>11, <1>12, <1>13 DEF FindsOK

LEMMA CarveFragmentsFinds ==
  ASSUME UseOK, FindsOK, CarveFragments
  PROVE  FindsOK'
<1> DEFINE lba   == Min(Headers)
           found == Tier3Artifact(scen.class, medium, claimed, lba)
<1>1. /\ phase = "tier3" /\ phase' = "tier3" /\ Headers # {} /\ rebuilt' = rebuilt \cup found
      /\ claimed' = claimed \cup UNION {Covered(a.loc) : a \in found}
      /\ pos' = lba + 1 /\ tiers' = tiers /\ arts' = arts /\ UNCHANGED volume
  BY DEF CarveFragments
<1>2. /\ lba \in Lba /\ lba \in Nat /\ IsHeader(disk[lba])
  BY <1>1, HeadersAre
<1> HIDE DEF lba
<1>3. ASSUME NEW a \in found
      PROVE  IsRebuilding(a) /\ a.tier = 3 /\ ~ IsSure(a) /\ Covered(a.loc) \cap claimed = {}
  <2>1. DiskOK /\ scen \in Scenarios
    BY DEF UseOK, VolumeOK
  <2>2. IsRebuilding(a) /\ Covered(a.loc) \cap claimed = {}
    BY <1>2, <2>1, Tier3ArtifactIs
  <2> QED BY <2>2 DEF IsRebuilding, IsSure
<1>4. \A a, b \in found : a = b
  BY OneFind
<1> HIDE DEF found
<1>5. \A a \in arts \cup rebuilt :
         IsSure(a) \/ IsWhole(a) \/ a.tier = 3 => Covered(a.loc) \subseteq claimed
  BY DEF FindsOK, SearchOK
<1>6. ShapesOK'
  <2>1. \A a \in arts : IsListing(a) \/ IsCarving(a)
    BY <1>1 DEF FindsOK, ShapesOK
  <2>2. \A a \in rebuilt' : IsRebuilding(a)
    BY <1>1, <1>3 DEF FindsOK, ShapesOK
  <2> QED BY <1>1, <2>1, <2>2, ShapesStay DEF ShapesOK
<1>7. SearchOK'
  <2>1. \A a \in arts' \cup rebuilt' :
          IsSure(a) \/ IsWhole(a) \/ a.tier = 3 => Covered(a.loc) \subseteq claimed'
    BY <1>1, <1>5
  <2> QED BY <1>1, <1>2, <2>1 DEF SearchOK
<1>8. ApartOK'
  <2>1. ASSUME NEW a \in arts \cup rebuilt, NEW b \in found, IsSure(a) \/ IsWhole(a) \/ a.tier = 3
        PROVE  Covered(a.loc) \cap Covered(b.loc) = {}
    BY <1>3, <1>5, <2>1
  <2>2. ASSUME NEW a \in arts \cup rebuilt', NEW b \in rebuilt', IsWhole(a) \/ a.tier = 3
        PROVE  a = b \/ Covered(a.loc) \cap Covered(b.loc) = {}
    <3>1. CASE a \in arts \cup rebuilt /\ b \in rebuilt
      BY <2>2, <3>1 DEF FindsOK, ApartOK
    <3>2. CASE a \in found /\ b \in found
      BY <1>4, <3>2
    <3>3. CASE a \in arts \cup rebuilt /\ b \in found
      BY <2>1, <2>2, <3>3
    <3>4. CASE a \in found /\ b \in rebuilt
      <4>1. b.tier = 3
        BY <3>4 DEF FindsOK, ShapesOK, IsRebuilding
      <4>2. Covered(b.loc) \cap Covered(a.loc) = {}
        BY <2>1, <3>4, <4>1
      <4> QED BY <4>2
    <3> QED BY <1>1, <3>1, <3>2, <3>3, <3>4
  <2>3. ASSUME NEW a \in arts, NEW b \in rebuilt', IsSure(a)
        PROVE  Covered(a.loc) \cap Covered(b.loc) = {}
    BY <1>1, <2>1, <2>3 DEF FindsOK, ApartOK
  <2>4. /\ \A a, b \in arts : IsSure(a) /\ b.tier = 2 => Begin(b) \notin Covered(a.loc)
        /\ \A a, b \in arts : IsWhole(a) /\ IsWhole(b) => a = b \/ Covered(a.loc) \cap Covered(b.loc) = {}
    BY DEF FindsOK, ApartOK
  <2> QED BY <1>1, <2>2, <2>3, <2>4 DEF ApartOK
<1>9. ListedOK'
  BY <1>1, ListedStays DEF FindsOK
<1> QED BY <1>6, <1>7, <1>8, <1>9 DEF FindsOK

LEMMA FinishFinds ==
  ASSUME UseOK, FindsOK, Finish
  PROVE  FindsOK'
<1> DEFINE dropped(a) == a.limited /\ Starts({a}) \cap Starts(rebuilt) # {}
<1>1. /\ phase = "tier3" /\ phase' = "done" /\ rebuilt' = rebuilt /\ claimed' = claimed /\ pos' = pos
      /\ arts' = {a \in arts : ~ dropped(a)} \cup rebuilt
      /\ tiers' = tiers /\ UNCHANGED volume
  BY DEF Finish
<1> HIDE DEF dropped
<1>2. \A a \in arts' : (a \in arts /\ ~ dropped(a)) \/ a \in rebuilt
  BY <1>1
<1>3. \A a \in arts : IsListing(a) \/ IsCarving(a)
  BY <1>1 DEF FindsOK, ShapesOK
<1>4. \A a \in rebuilt : IsRebuilding(a) /\ a.tier = 3 /\ ~ IsSure(a) /\ ~ IsWhole(a)
  BY DEF FindsOK, ShapesOK, IsRebuilding, IsSure, IsWhole
<1>5. ShapesOK'
  BY <1>1, <1>2, <1>3, <1>4, ShapesStay DEF ShapesOK
<1>6. SearchOK'
  BY <1>1, <1>2 DEF FindsOK, SearchOK
<1>7. ApartOK'
  <2>1. /\ \A a, b \in arts : IsSure(a) /\ b.tier = 2 => Begin(b) \notin Covered(a.loc)
        /\ \A a \in arts, b \in rebuilt : IsSure(a) => Covered(a.loc) \cap Covered(b.loc) = {}
        /\ \A a \in arts \cup rebuilt, b \in rebuilt :
             IsWhole(a) \/ a.tier = 3 => a = b \/ Covered(a.loc) \cap Covered(b.loc) = {}
        /\ \A a, b \in arts : IsWhole(a) /\ IsWhole(b) => a = b \/ Covered(a.loc) \cap Covered(b.loc) = {}
    BY DEF FindsOK, ApartOK
  <2>2. ASSUME NEW a \in arts', NEW b \in rebuilt, a.tier = 2 PROVE Begin(a) # Begin(b)
    <3>1. a \in arts /\ ~ dropped(a)
      BY <1>2, <1>4, <2>2
    <3>2. IsCarving(a) /\ IsRebuilding(b)
      <4>1. a.tier = 1 \/ IsCarving(a)
        BY <3>1, <1>3, ListingIs DEF IsListing
      <4> QED BY <1>4, <2>2, <4>1
    <3>3. /\ Begin(a) \in Covered(a.loc) /\ Begin(b) \in Covered(b.loc)
          /\ a.loc # <<>> /\ b.loc # <<>>
      BY <3>2, CarvingIs, RebuildingIs
    <3>4. CASE IsWhole(a)
      <4>1. b.tier = 3 /\ a # b
        BY <1>4, <2>2
      <4>2. Covered(a.loc) \cap Covered(b.loc) = {}
        BY <2>1, <3>1, <3>4, <4>1
      <4> QED BY <3>3, <4>2
    <3>5. CASE ~ IsWhole(a)
      <4>1. a.limited
        BY <2>2, <3>5 DEF IsWhole
      <4>2. Starts({a}) \cap Starts(rebuilt) = {}
        BY <3>1, <4>1 DEF dropped
      <4>3. Begin(a) \in Starts({a}) /\ Begin(b) \in Starts(rebuilt)
        BY <3>3 DEF Starts, Begin
      <4> QED BY <4>2, <4>3
    <3> QED BY <3>4, <3>5
  <2>3. \A a, b \in arts' : IsSure(a) /\ b.tier = 2 => Begin(b) \notin Covered(a.loc)
    BY <1>2, <1>4, <2>1
  <2>4. \A a \in arts', b \in rebuilt : IsSure(a) => Covered(a.loc) \cap Covered(b.loc) = {}
    BY <1>2, <1>4, <2>1
  <2>5. \A a \in arts' \cup rebuilt, b \in rebuilt :
             IsWhole(a) \/ a.tier = 3 => a = b \/ Covered(a.loc) \cap Covered(b.loc) = {}
    BY <1>2, <2>1
  <2>6. \A a, b \in arts' : IsWhole(a) /\ IsWhole(b) => a = b \/ Covered(a.loc) \cap Covered(b.loc) = {}
    BY <1>2, <1>4, <2>1
  <2> QED BY <1>1, <2>2, <2>3, <2>4, <2>5, <2>6 DEF ApartOK
<1>8. ListedOK'
  <2>1. \A a \in arts : a \in arts' \/ a.limited
    BY <1>1 DEF dropped
  <2> QED BY <1>1, <2>1, ListedStays DEF FindsOK
<1> QED BY <1>5, <1>6, <1>7, <1>8 DEF FindsOK

LEMMA FindsStep ==
  ASSUME UseOK, FindsOK, [Next]_vars
  PROVE  FindsOK'
<1>1. CASE UNCHANGED vars
  <2>1. UNCHANGED volume /\ UNCHANGED pipeline
    BY <1>1 DEF vars
  <2>2. /\ phase' = phase /\ tiers' = tiers /\ pos' = pos /\ claimed' = claimed
        /\ arts' = arts /\ rebuilt' = rebuilt
    BY <2>1 DEF pipeline
  <2>3. ShapesOK'
    BY <2>1, <2>2, ShapesStay DEF FindsOK, ShapesOK
  <2>4. SearchOK' /\ ApartOK'
    BY <2>2 DEF FindsOK, SearchOK, ApartOK
  <2>5. ListedOK'
    BY <2>1, <2>2, MediumStays DEF FindsOK, ListedOK
  <2> QED BY <2>3, <2>4, <2>5 DEF FindsOK
<1> QED BY <1>1, InUseFinds, StartFinds, RunTier1Finds, CarveSignatureFinds, EndTier2Finds,
           CarveFragmentsFinds, FinishFinds DEF Next

(* What the pipeline has found so far: every find is what its tier makes,  *)
(* whatever is sure or complete is claimed, and finds that must not share  *)
(* a sector do not (pipeline, tier2 and tier3 of vajra-carve).             *)
THEOREM FindsAreOK == Spec => []FindsOK
<1>1. Init => FindsOK
  BY FindsInit
<1>2. UseOK /\ FindsOK /\ [Next]_vars => FindsOK'
  BY FindsStep
<1> QED BY <1>1, <1>2, UseIsOK, PTL DEF Spec

(* What the carving tiers find lies on the medium, and every find holds    *)
(* contents of its sectors (recover_tier1, tier2 and tier3): a listed file *)
(* may be placed outside by a damaged table.                               *)
THEOREM TypeCorrect == Spec => []TypeOK
<1>1. ASSUME UseOK, FindsOK PROVE TypeOK
  <2>1. phase \in {"use", "tier1", "tier2", "tier3", "done", "failed"}
    BY <1>1 DEF FindsOK, SearchOK
  <2>2. disk \in [Lba -> (((Files \cup {Dir}) \X (1..(Max({FileLen[f] : f \in Files}) + 1))) \cup {Zero, Noise})]
    BY <1>1 DEF UseOK, DiskOK, Parts, Names
  <2>3. ASSUME NEW a \in arts \cup rebuilt
        PROVE  /\ a.tier \in 1..3 /\ a.limited \in BOOLEAN
               /\ a.tier > 1 => Covered(a.loc) \subseteq Lba
               /\ \A i \in DOMAIN a.payload : a.payload[i] \in {disk[l] : l \in Lba}
    <3>1. /\ a.payload \in Seq(Contents) /\ a.limited \in BOOLEAN
          /\ a.tier = 1 \/ (a.tier = 2 /\ IsCarving(a)) \/ (a.tier = 3 /\ IsRebuilding(a))
      BY <1>1, <2>3, FindIs DEF FindsOK
    <3>2. \A i \in DOMAIN a.payload : a.payload[i] \in Contents
      <4> HIDE DEF Contents
      <4> QED BY <3>1
    <3> QED BY <3>1, <3>2, CarvingIs, RebuildingIs DEF Contents
  <2> QED BY <2>1, <2>2, <2>3 DEF TypeOK
<1> QED BY <1>1, UseIsOK, FindsAreOK, PTL

(* A deleted file whose location is called Confirmed shares no sector with *)
(* a live file: what was stored over it is noticed by the chain walk of    *)
(* the FAT parser and by evaluate_extents_confidence of the others.        *)
THEOREM ConfirmedAreFree == Spec => []ConfirmedBlocksAreFree
<1>1. ASSUME UseOK, FindsOK PROVE ConfirmedBlocksAreFree
  <2> SUFFICES ASSUME NEW a \in arts, a.tier = 1, a.conf = "Confirmed", a.file \in DOMAIN entry \ Live,
                      NEW g \in Live
               PROVE  Covered(a.loc) \cap ToSet(place[g]) = {}
    BY DEF ConfirmedBlocksAreFree
  <2>1. PICK f \in Listed : a = ListedArtifact(f)
    BY <1>1, FindIs DEF FindsOK
  <2>2. a.file = f /\ a.loc = Locate(f).loc /\ a.conf = Locate(f).conf
    BY <1>1, <2>1, ListingIs
  <2>3. f \in DOMAIN entry /\ entry[f].deleted
    BY <2>2 DEF Live
  <2> QED BY <1>1, <2>2, <2>3, ConfirmedIsFree DEF UseOK
<1> QED BY <1>1, UseIsOK, FindsAreOK, PTL

(* The precedence of the tiers, which AllocatedBlockMap is there for:      *)
(* carving starts in no sector tier 1 is sure of and tier 3 takes none of  *)
(* them; complete finds and rebuilt files share no sector; where a file    *)
(* was rebuilt no truncated find is left.                                  *)
THEOREM TiersAreApart == Spec => []TiersKeepApart
<1>1. ASSUME UseOK, FindsOK PROVE TiersKeepApart
  <2> DEFINE listed == {a \in arts : a.tier = 1}
             carved == {a \in arts : a.tier = 2}
             sure == Claims(listed)
  <2>1. \A a \in arts \cup rebuilt :
          \/ a.tier = 1 /\ a \in arts
          \/ a.tier = 2 /\ a \in arts /\ IsCarving(a) /\ ~ IsSure(a)
          \/ a.tier = 3 /\ a \in rebuilt /\ IsRebuilding(a) /\ ~ IsSure(a)
    BY <1>1, FindIs DEF FindsOK
  <2>2. /\ \A a, b \in arts : IsSure(a) /\ b.tier = 2 => Begin(b) \notin Covered(a.loc)
        /\ \A a \in arts, b \in rebuilt : IsSure(a) => Covered(a.loc) \cap Covered(b.loc) = {}
        /\ \A a \in arts \cup rebuilt, b \in rebuilt :
             IsWhole(a) \/ a.tier = 3 => a = b \/ Covered(a.loc) \cap Covered(b.loc) = {}
        /\ \A a, b \in arts : IsWhole(a) /\ IsWhole(b) => a = b \/ Covered(a.loc) \cap Covered(b.loc) = {}
        /\ phase = "done" => \A a \in arts, b \in rebuilt : a.tier = 2 => Begin(a) # Begin(b)
    BY <1>1 DEF FindsOK, ApartOK
  <2>3. \A l \in sure : \E a \in arts : IsSure(a) /\ l \in Covered(a.loc)
    BY DEF Claims, IsSure
  <2>4. \A as : \A l \in Starts(as) : \E a \in as : l = Begin(a)
    BY DEF Starts, Begin
  <2> HIDE DEF sure
  <2>5. Starts(carved) \cap sure = {}
    BY <2>2, <2>3, <2>4
  <2>6. \A a \in rebuilt : Covered(a.loc) \cap sure = {}
    BY <2>2, <2>3
  <2>7. ASSUME NEW a \in rebuilt \cup {c \in carved : ~c.limited}, NEW b \in rebuilt \cup {c \in carved : ~c.limited},
               a # b
        PROVE  Covered(a.loc) \cap Covered(b.loc) = {}
    <3>1. \A c \in rebuilt : c.tier = 3
      BY <1>1 DEF FindsOK, ShapesOK, IsRebuilding
    <3>2. \A c \in carved : c \in arts /\ (~ c.limited => IsWhole(c))
      BY DEF IsWhole
    <3>3. CASE b \in rebuilt
      BY <2>2, <2>7, <3>1, <3>2, <3>3
    <3>4. CASE a \in rebuilt /\ b \notin rebuilt
      <4>1. Covered(b.loc) \cap Covered(a.loc) = {}
        BY <2>2, <2>7, <3>2, <3>4
      <4> QED BY <4>1
    <3>5. CASE a \notin rebuilt /\ b \notin rebuilt
      BY <2>2, <2>7, <3>2, <3>5
    <3> QED BY <3>3, <3>4, <3>5
  <2>8. Done => Starts(carved) \cap Starts(rebuilt) = {}
    BY <2>2, <2>4 DEF Done
  <2> QED BY <2>5, <2>6, <2>7, <2>8 DEF TiersKeepApart, sure
<1> QED BY <1>1, UseIsOK, FindsAreOK, PTL

-----------------------------------------------------------------------------
(* What is live is recovered.                                              *)

LEMMA OwnParser ==
  ASSUME scen \in Scenarios, scen.boot
  PROVE  Recognized /\ Detected = Mark(scen.kind) /\ scen.kind \in {"fat", "ntfs", "ext4", "ext2"}
<1> DEFINE found == {i \in DOMAIN Priority : Priority[i] \in scen.marks}
<1>1. DOMAIN Priority = 1 .. 5
  BY DEF Priority
<1>2. PICK i \in 1 .. 5 : /\ Priority[i] = Mark(scen.kind) /\ Priority[i] \in scen.marks
                          /\ \A j \in 1 .. i - 1 : Priority[j] \notin scen.marks
  BY <1>1, ScenarioAssumption
<1>3. found \in SUBSET Nat /\ i \in found /\ found # {}
  BY <1>1, <1>2
<1>4. Min(found) \in found /\ Min(found) <= i
  <2> HIDE DEF found
  <2> QED BY <1>3, LeastMin
<1>5. \A j \in found : ~ (j < i)
  BY <1>1, <1>2
<1>6. Detected = Priority[Min(found)]
  BY <1>3 DEF Detected
<1> HIDE DEF found
<1>7. Min(found) \in Nat /\ ~ (Min(found) < i)
  BY <1>3, <1>4, <1>5
<1>8. Min(found) = i
  BY <1>4, <1>7
<1>9. Detected = Mark(scen.kind)
  BY <1>2, <1>6, <1>8
<1> QED BY <1>9, ScenarioAssumption DEF Recognized

LEMMA LiveIsListed ==
  ASSUME UseOK, NEW f \in Live, f # Dir, scen.boot,
         f \in scen.nested => Dir \in DOMAIN entry /\ DirReadable
  PROVE  f \in Listed
<1>1. Recognized /\ Detected = Mark(scen.kind) /\ scen.kind \in {"fat", "ntfs", "ext4", "ext2"}
  BY OwnParser DEF UseOK, VolumeOK
<1>2. f \in DOMAIN entry
  BY DEF Live
<1>3. Reachable(f)
  BY DEF UseOK, VolumeOK, Reachable
<1>4. CASE scen.kind = "fat"
  BY <1>1, <1>2, <1>3, <1>4 DEF Listed, Mark, ListedFat
<1>5. CASE scen.kind = "ntfs"
  BY <1>1, <1>2, <1>5 DEF Listed, Mark, ListedNtfs
<1>6. CASE scen.kind \in {"ext4", "ext2"}
  BY <1>1, <1>2, <1>3, <1>6 DEF Listed, Mark, ListedExt4
<1> QED BY <1>1, <1>4, <1>5, <1>6

(* Extents all of whose sectors are there and sound can be read.           *)
LEMMA SoundIsReadable ==
  ASSUME NEW loc \in Locations, Covered(loc) \subseteq Lba, Covered(loc) \cap scen.bad = {},
         NEW i \in DOMAIN loc
  PROVE  CanRead(medium, loc[i][1], loc[i][2])
<1>1. Total \in Nat
  BY LimitsAssumption
<1> DEFINE x == loc[i]
<1>2. x \in Runs1 \/ x = <<0, 0>>
  <2>1. CASE loc \in Seq(Runs1)
    <3> HIDE DEF Runs1
    <3> QED BY <2>1
  <2>2. CASE loc = <<<<0, 0>>>>
    <3> DEFINE y == <<0, 0>>
    <3> HIDE DEF y
    <3>1. loc = <<y>>
      BY <2>2 DEF y
    <3>2. x = y
      BY <3>1
    <3> QED BY <3>2 DEF y
  <2> QED BY <2>1, <2>2 DEF Locations
<1>3. Sectors(x) \subseteq Covered(loc)
  BY DEF Covered
<1> HIDE DEF x
<1>4. CASE x = <<0, 0>>
  <2>1. x[1] = 0 /\ x[2] = 0
    BY <1>4
  <2> QED BY <1>1, <2>1 DEF CanRead, x
<1>5. CASE x \in Runs1
  <2>1. x[1] \in Nat /\ x[2] \in Nat /\ x[2] >= 1
    BY <1>5 DEF Runs1
  <2>2. \A l \in x[1] .. x[1] + x[2] - 1 : l \in Lba /\ l \notin scen.bad
    BY <1>3 DEF Sectors
  <2>3. x[1] + x[2] - 1 \in Lba
    BY <2>1, <2>2
  <2>4. x[1] + x[2] <= Total
    BY <1>1, <2>1, <2>3 DEF Lba
  <2>5. medium.bad = scen.bad
    BY DEF medium
  <2>6. \A l \in x[1] .. x[1] + x[2] - 1 : l \notin medium.bad
    BY <2>2, <2>5
  <2> QED BY <2>4, <2>6 DEF CanRead, x
<1> QED BY <1>2, <1>4, <1>5

(* What tier 1 and the dump of one file give of a live file (mft.rs, inode.rs, *)
(* chain.rs and the pipeline) are the sectors the host laid it in, in order     *)
(* and none missing, claimed against carving: of a dense file what the host     *)
(* reads.  A hole is closed up, and an unwritten part is given as it lay there. *)
THEOREM LiveAreRecovered == Spec => []LiveFilesAreRecovered
<1>1. ASSUME UseOK, FindsOK PROVE LiveFilesAreRecovered
  <2> SUFFICES ASSUME Done, NEW f \in Live \ {Dir}, entry[f].size > 0,
                      IsFat => Chained(table, place[f]) = table,
                      scen.kind = "ext2" => entry[f].size <= DirectPointers
               PROVE  LET content == [k \in DOMAIN place[f] |-> disk[place[f][k]]]
                          sound   == /\ ToSet(place[f]) \cap scen.bad = {}
                                     /\ f \in scen.nested => Dir \in DOMAIN entry /\ DirReadable
                      IN  /\ DumpFails(f) \/ Dump(f) = content
                          /\ 1 \in tiers /\ sound /\ scen.boot =>
                               /\ ~DumpFails(f)
                               /\ \E a \in arts : /\ a.tier = 1 /\ a.file = f /\ ~a.limited
                                                  /\ a.payload = content
                                                  /\ ToSet(place[f]) \subseteq claimed
    BY DEF LiveFilesAreRecovered
  <2> DEFINE p == place[f]
             loc == Locate(f).loc
             content == [k \in DOMAIN p |-> disk[p[k]]]
  <2>1. /\ f \in Names /\ f # Dir /\ f \in Files /\ p \in Seq(Lba) /\ IsInjective(p) /\ entry[f] = EntryAt(f, p)
        /\ ToSet(p) \subseteq Lba /\ entry[f].size \in Nat /\ entry[f].size >= Len(p) /\ Len(p) \in Nat
        /\ (entry[f].size = 0 <=> p = <<>>) /\ f \in DOMAIN entry
    BY <1>1, LiveIs DEF UseOK, Names
  <2>2. p # <<>> /\ Len(p) > 0
    BY <2>1
  <2>3. /\ IsFat => IsTable(table) /\ Linked(table, p)
        /\ scen \in Scenarios /\ (scen.kind = "ext2" => entry[f].size <= DirectPointers)
    <3>1. IsFat => IsTable(table)
      BY <1>1 DEF UseOK, VolumeOK
    <3>2. IsFat => Linked(Chained(table, p), p)
      BY <2>1, <3>1, ChainedIs
    <3> QED BY <1>1, <3>1, <3>2 DEF UseOK, VolumeOK
  <2>4. SectorSeq(loc) = p /\ loc # <<>> /\ Locate(f).conf \in {"Confirmed", "Partial"}
    BY <2>1, <2>2, <2>3, LiveLocation
  <2>5. loc \in Locations /\ loc \in Seq(Extents)
    BY <1>1, <2>1, LocateIs DEF UseOK, VolumeOK
  <2>6. Covered(loc) = ToSet(p)
    BY <2>4, <2>5, SectorSeqIs
  <2>7. Dump(f) = content
    <3>1. Min({entry[f].size, Len(SectorSeq(loc))}) = Len(p)
      BY <2>1, <2>4, LeastOfTwo
    <3>2. Dump(f) = [i \in 1 .. Min({entry[f].size, Len(SectorSeq(loc))}) |-> disk[SectorSeq(loc)[i]]]
      BY DEF Dump
    <3>3. Dump(f) = [i \in 1 .. Len(p) |-> disk[p[i]]]
      BY <2>4, <3>1, <3>2
    <3>4. DOMAIN p = 1 .. Len(p)
      BY <2>1
    <3> QED BY <3>3, <3>4
  <2>8. ASSUME 1 \in tiers, ToSet(p) \cap scen.bad = {}, scen.boot,
               f \in scen.nested => Dir \in DOMAIN entry /\ DirReadable
        PROVE  /\ ~DumpFails(f)
               /\ \E a \in arts : /\ a.tier = 1 /\ a.file = f /\ ~a.limited
                                  /\ a.payload = content
                                  /\ ToSet(p) \subseteq claimed
    <3>1. f \in Listed
      BY <1>1, <2>8, LiveIsListed
    <3>2. ~ ParserFails /\ (ListedArtifact(f) \in arts \/ ListedArtifact(f).limited)
      BY <1>1, <2>8, <3>1 DEF FindsOK, ListedOK, Done
    <3>3. \A i \in DOMAIN loc : CanRead(medium, loc[i][1], loc[i][2])
      BY <2>1, <2>5, <2>6, <2>8, SoundIsReadable
    <3>4. ~ DumpFails(f)
      BY <2>4, <3>1, <3>2, <3>3 DEF DumpFails
    <3> DEFINE a == ListedArtifact(f)
    <3>5. /\ a.tier = 1 /\ a.file = f /\ a.loc = loc /\ a.conf = Locate(f).conf
          /\ a.payload = Payload(loc, entry[f].size)
          /\ a.limited = (a.payload = <<>> /\ entry[f].size > 0)
      BY <1>1, <3>1, ListingIs
    <3> HIDE DEF a
    <3>6. a.payload = Text(p)
      <4>1. Payload(loc, entry[f].size) = Text(SectorSeq(loc))
        BY <2>1, <2>4, <2>5, <3>3, PayloadIs
      <4> QED BY <2>1, <2>4, <3>5, <4>1
    <3>7. Len(Text(p)) = Len(p) /\ Text(p) = content
      <4>1. p \in Seq(Nat)
        <5>1. Lba \subseteq Nat
          BY LimitsAssumption DEF Lba
        <5>2. Seq(Lba) \subseteq Seq(Nat)
          BY <5>1, WiderSeq
        <5> QED BY <2>1, <5>2
      <4> QED BY <2>1, <4>1, TextIs DEF Text
    <3>8. a.payload # <<>>
      <4> HIDE DEF content
      <4> QED BY <2>2, <3>6, <3>7
    <3>9. ~ a.limited
      BY <3>5, <3>8
    <3>10. a \in arts
      BY <3>2, <3>9 DEF a
    <3>11. ToSet(p) \subseteq claimed
      <4>1. IsSure(a)
        BY <2>4, <3>5 DEF IsSure
      <4>2. Covered(a.loc) \subseteq claimed
        BY <1>1, <3>10, <4>1 DEF FindsOK, SearchOK
      <4> QED BY <2>6, <3>5, <4>2
    <3> QED BY <3>4, <3>5, <3>6, <3>7, <3>9, <3>10, <3>11
  <2> HIDE DEF content, p
  <2> QED BY <2>7, <2>8 DEF content, p
<1> QED BY <1>1, UseIsOK, FindsAreOK, PTL

-----------------------------------------------------------------------------
(* What is intact is carved.                                               *)

(* The types whose validators look at all of a file.                       *)
Checked(f) ==
  /\ scen.class[f] \in {"chunked", "mapped"}
  /\ scen.class[f] = "mapped" => FileLen[f] <= 3

LEMMA WholeIs ==
  ASSUME NEW f \in Files
  PROVE  /\ FileLen[f] \in Nat \ {0} /\ Whole(f) \in Seq(Files \X Nat) /\ Len(Whole(f)) = FileLen[f]
         /\ \A k \in 1 .. FileLen[f] : Whole(f)[k] = <<f, k>>
<1>1. FileLen[f] \in Nat \ {0}
  BY FilesAssumption
<1> QED BY <1>1 DEF Whole

(* A sequence that starts with the parts of a file, in order.              *)
LEMMA StartsWhole ==
  ASSUME NEW f \in Files, NEW S, NEW s \in Seq(S), FileLen[f] <= Len(s)
  PROVE  SubSeq(s, 1, FileLen[f]) = Whole(f) <=> \A k \in 1 .. FileLen[f] : s[k] = <<f, k>>
<1> DEFINE L == FileLen[f]
           part == SubSeq(s, 1, L)
           w == Whole(f)
           R == S \cup (Files \X Nat)
<1>1. L \in Nat \ {0} /\ w \in Seq(Files \X Nat) /\ Len(w) = L /\ \A k \in 1 .. L : w[k] = <<f, k>>
  BY WholeIs
<1>2. L \in 0 .. Len(s)
  BY <1>1
<1>3. part \in Seq(S) /\ Len(part) = L /\ \A k \in 1 .. L : part[k] = s[k]
  BY <1>2, PrefixIs
<1>4. Seq(S) \subseteq Seq(R) /\ Seq(Files \X Nat) \subseteq Seq(R)
  BY WiderSeq
<1> HIDE DEF L, part, w, R
<1>5. part \in Seq(R) /\ w \in Seq(R)
  BY <1>1, <1>3, <1>4
<1>6. (\A k \in 1 .. L : s[k] = <<f, k>>) => part = w
  BY <1>1, <1>3, <1>5, SeqEqual
<1>7. part = w => \A k \in 1 .. L : s[k] = <<f, k>>
  BY <1>1, <1>3
<1> QED BY <1>6, <1>7 DEF L, part, w

LEMMA TypeOfChecked ==
  ASSUME scen \in Scenarios, NEW f \in Files, NEW S, NEW s \in Seq(S), s[1] = <<f, 1>>
  PROVE  /\ scen.class[f] = "chunked" => Validate(scen.class, s) = ValidateChunked(s, f)
         /\ scen.class[f] = "mapped" => Validate(scen.class, s) = ValidateMapped(s, f)
<1>1. s[1][1] = f
  OBVIOUS
<1> QED BY <1>1 DEF Validate

(* The verdicts on such a file: accepted when it is there, and only then;  *)
(* a part of it that is too short counts as truncated.                     *)
LEMMA CheckedVerdicts ==
  ASSUME scen \in Scenarios, NEW f \in Files, NEW S, NEW s \in Seq(S), s[1] = <<f, 1>>, s # <<>>,
         scen.class[f] \in {"chunked", "mapped"}, NEW v, v = Validate(scen.class, s)
  PROVE  /\ Len(s) < FileLen[f] => v.verdict = "eof"
         /\ FileLen[f] <= Len(s) /\ (\A k \in 1 .. FileLen[f] : s[k] = <<f, k>>) => v = Ok(FileLen[f])
         /\ Checked(f) /\ v.verdict = "ok" =>
              /\ FileLen[f] <= Len(s) /\ v.len = FileLen[f] /\ SubSeq(s, 1, FileLen[f]) = Whole(f)
<1> DEFINE L == FileLen[f]
<1>1. L \in Nat \ {0} /\ Len(s) \in Nat /\ DOMAIN s = 1 .. Len(s)
  BY FilesAssumption
<1>2. scen.class[f] = "mapped" => L > 1
  BY ScenarioAssumption
<1>3. L <= Len(s) => (SubSeq(s, 1, L) = Whole(f) <=> \A k \in 1 .. L : s[k] = <<f, k>>)
  BY StartsWhole
<1> DEFINE part == SubSeq(s, 1, L) = Whole(f)
<1>4. \A n : /\ Ok(n).verdict = "ok" /\ Ok(n).len = n
             /\ Eof(n).verdict = "eof" /\ Err.verdict = "err"
  BY DEF Ok, Eof, Err
<1>5. CASE scen.class[f] = "chunked"
  <2>1. v = IF Len(s) < L THEN Eof(1) ELSE IF part THEN Ok(L) ELSE Err
    BY <1>5, TypeOfChecked DEF ValidateChunked
  <2> HIDE DEF part, L
  <2>2. CASE Len(s) < L
    BY <1>1, <1>4, <2>1, <2>2 DEF L
  <2>3. CASE ~ (Len(s) < L) /\ part
    <3>1. v = Ok(L) /\ L <= Len(s)
      BY <1>1, <2>1, <2>3
    <3> QED BY <1>4, <2>3, <3>1 DEF L, part
  <2>4. CASE ~ (Len(s) < L) /\ ~ part
    <3>1. v = Err /\ ~ (\A k \in 1 .. L : s[k] = <<f, k>>)
      BY <1>1, <1>3, <2>1, <2>4 DEF part
    <3> QED BY <1>4, <2>4, <3>1 DEF L
  <2> QED BY <2>2, <2>3, <2>4
<1>6. CASE scen.class[f] = "mapped"
  <2>1. v = IF ~HasTable(s, f) THEN Eof(Len(s)) ELSE IF HasDirectory(s, f) THEN Ok(L) ELSE Err
    BY <1>6, TypeOfChecked DEF ValidateMapped
  <2>2. HasTable(s, f) <=> L <= Len(s) /\ s[L] = <<f, L>>
    BY <1>1 DEF HasTable
  <2>3. HasDirectory(s, f) <=> s[2] = <<f, 2>>
    BY DEF HasDirectory
  <2> HIDE DEF L, part
  <2>4. Len(s) < L => v.verdict = "eof"
    BY <1>1, <1>4, <2>1, <2>2
  <2>5. ASSUME L <= Len(s), \A k \in 1 .. L : s[k] = <<f, k>> PROVE v = Ok(L)
    <3>1. L \in 1 .. L /\ 2 \in 1 .. L
      BY <1>1, <1>2, <1>6
    <3> QED BY <2>1, <2>2, <2>3, <2>5, <3>1
  <2>6. ASSUME Checked(f), v.verdict = "ok"
        PROVE  L <= Len(s) /\ v.len = L /\ part
    <3>1. HasTable(s, f) /\ HasDirectory(s, f) /\ v = Ok(L)
      BY <1>4, <2>1, <2>6
    <3>2. L <= 3
      BY <1>6, <2>6 DEF Checked, L
    <3>3. ASSUME NEW k \in 1 .. L PROVE s[k] = <<f, k>>
      <4>1. k = 1 \/ k = 2 \/ k = L
        BY <1>1, <3>2
      <4> QED BY <2>2, <2>3, <3>1, <4>1
    <3> QED BY <1>3, <1>4, <2>2, <3>1, <3>3 DEF part
  <2> QED BY <2>4, <2>5, <2>6 DEF L, part
<1> QED BY <1>5, <1>6

(* What a carving tier recorded of such a file is the file.                *)
LEMMA CandidateStarts ==
  ASSUME DiskOK, NEW lba \in Lba, NEW n \in 1 .. Total - lba, NEW s, s = Data(medium, lba, n)
  PROVE  /\ s \in Seq(Contents) /\ Len(s) = n /\ s # <<>> /\ s[1] = disk[lba]
         /\ \A k \in 1 .. n : s[k] = disk[lba + k - 1]
<1>1. Total \in Nat /\ lba \in Nat /\ n \in Nat /\ n >= 1 /\ lba + n <= Total
  BY LimitsAssumption DEF Lba
<1>2. s \in Seq(Contents) /\ Len(s) = n /\ \A k \in 1 .. n : s[k] = disk[lba + k - 1]
  BY <1>1, DataIs
<1>3. 1 \in 1 .. n /\ lba + 1 - 1 = lba
  BY <1>1
<1>4. s # <<>>
  <2> HIDE DEF Contents
  <2> QED BY <1>1, <1>2
<1> QED BY <1>2, <1>3, <1>4

LEMMA WholeFind ==
  ASSUME DiskOK, scen \in Scenarios, NEW lba \in Lba, NEW f \in Files, disk[lba] = <<f, 1>>, Checked(f),
         NEW a \in Tier2Artifact(scen.class, medium, lba), ~ a.limited
  PROVE  a.payload = Whole(f)
<1> DEFINE c    == Candidate(scen.class, medium, lba)
           more == Min({c.v.len, Total - lba})
           data == IF c.v.len <= Len(c.data) THEN SubSeq(c.data, 1, c.v.len)
                   ELSE IF CanRead(medium, lba, more) THEN Data(medium, lba, more) ELSE <<>>
           loc  == <<<<lba, Max({Len(data), 1})>>>>
           find(limited) == Artifact(2, medium.disk[lba][1], loc, "none", data, limited)
           T == Tier2Artifact(scen.class, medium, lba)
<1>1. T = CASE c.v.verdict = "ok"  -> {find(FALSE)}
            [] c.v.verdict = "eof" -> {find(TRUE)}
            [] OTHER               -> {}
  BY DEF Tier2Artifact, Carved
<1>2. \A lim : find(lim).payload = data /\ find(lim).limited = lim
  BY DEF Artifact
<1> HIDE DEF find
<1>3. c.v.verdict = "ok" /\ a.payload = data
  <2> DEFINE x == find(FALSE)
             y == find(TRUE)
  <2>1. ~ x.limited /\ y.limited /\ x.payload = data /\ y.payload = data
    BY <1>2
  <2>2. \/ c.v.verdict = "ok" /\ T = {x}
        \/ T = {y}
        \/ T = {}
    BY <1>1
  <2> HIDE DEF x, y, T, data, c
  <2>3. a \in T
    BY DEF T
  <2> QED BY <2>1, <2>2, <2>3
<1>4. IsHeader(disk[lba]) /\ c.v.verdict # "none"
  BY <1>3 DEF IsHeader
<1> DEFINE s == c.data
<1>5. PICK n \in 1 .. Total - lba : s = Data(medium, lba, n) /\ c.v = Validate(scen.class, s)
  <2> HIDE DEF c
  <2> QED BY <1>4, CandidateIs DEF c
<1>6. s \in Seq(Contents) /\ s # <<>> /\ s[1] = <<f, 1>>
  BY <1>5, CandidateStarts
<1> DEFINE v == c.v
<1>7. v.verdict = "ok" /\ v = Validate(scen.class, s) /\ scen.class[f] \in {"chunked", "mapped"}
  BY <1>3, <1>5 DEF Checked
<1>8. data = IF v.len <= Len(s) THEN SubSeq(s, 1, v.len)
             ELSE IF CanRead(medium, lba, more) THEN Data(medium, lba, more) ELSE <<>>
  OBVIOUS
<1> HIDE DEF data, s, v, c
<1>9. FileLen[f] <= Len(s) /\ v.len = FileLen[f] /\ SubSeq(s, 1, FileLen[f]) = Whole(f)
  BY <1>6, <1>7, CheckedVerdicts
<1> QED BY <1>3, <1>8, <1>9

LEMMA RebuiltFind ==
  ASSUME DiskOK, scen \in Scenarios, NEW lba \in Lba, NEW f \in Files, disk[lba] = <<f, 1>>, Checked(f),
         NEW cl, NEW a \in Tier3Artifact(scen.class, medium, cl, lba)
  PROVE  a.payload = Whole(f)
<1>1. IsHeader(disk[lba])
  BY DEF IsHeader
<1>2. PICK both \in Seq(Contents), n \in Nat :
              /\ both # <<>> /\ both[1] = disk[lba]
              /\ Validate(scen.class, both).verdict = "ok" /\ n = Validate(scen.class, both).len
              /\ a.payload = IF n <= Len(both) THEN SubSeq(both, 1, n) ELSE both
  BY <1>1, Tier3ArtifactIs
<1> DEFINE v == Validate(scen.class, both)
<1>3. v.verdict = "ok" /\ v.len = n /\ both[1] = <<f, 1>>
  BY <1>2
<1>4. scen.class[f] \in {"chunked", "mapped"}
  BY DEF Checked
<1>5. FileLen[f] <= Len(both) /\ v.len = FileLen[f] /\ SubSeq(both, 1, FileLen[f]) = Whole(f)
  BY <1>2, <1>3, <1>4, CheckedVerdicts
<1> QED BY <1>2, <1>3, <1>5

(* A file in one piece is found when its header is visited.                *)
LEMMA VisitedIsFound ==
  ASSUME DiskOK, scen \in Scenarios, scen.bad = {}, NEW lba \in Lba, NEW f \in Files,
         scen.class[f] \in {"chunked", "mapped"}, lba + FileLen[f] <= Total,
         \A k \in 1 .. FileLen[f] : disk[lba + k - 1] = <<f, k>>,
         FileLen[f] <= MaxObject, FileLen[f] <= FullWindow
  PROVE  \E a \in Tier2Artifact(scen.class, medium, lba) : ~ a.limited /\ a.payload = Whole(f)
<1> DEFINE L    == FileLen[f]
           most == Min({MaxObject, Total - lba})
           fast == Min({most, FastWindow})
           full == Min({most, FullWindow})
           s    == Data(medium, lba, fast)
           t    == Data(medium, lba, full)
           v    == Validate(scen.class, s)
           w    == Validate(scen.class, t)
           c    == Candidate(scen.class, medium, lba)
<1>1. /\ Total \in Nat /\ lba \in Nat /\ lba < Total /\ {MaxObject, FastWindow, FullWindow} \subseteq Nat \ {0}
      /\ L \in Nat \ {0}
  BY LimitsAssumption, FilesAssumption DEF Lba
<1>2. most \in Nat /\ L <= most /\ most <= Total - lba
  <2>1. Total - lba \in Nat /\ MaxObject \in Nat
    BY <1>1
  <2>2. most = IF MaxObject <= Total - lba THEN MaxObject ELSE Total - lba
    BY <2>1, LeastOfTwo
  <2> HIDE DEF most
  <2> QED BY <1>1, <2>1, <2>2
<1> HIDE DEF most
<1>3. fast \in 1 .. Total - lba /\ full \in 1 .. Total - lba /\ L <= full
  <2>1. FastWindow \in Nat \ {0} /\ FullWindow \in Nat \ {0}
    BY <1>1
  <2>2. fast = (IF most <= FastWindow THEN most ELSE FastWindow) /\ full = (IF most <= FullWindow THEN most ELSE FullWindow)
    BY <1>2, <2>1, LeastOfTwo
  <2> HIDE DEF fast, full
  <2> QED BY <1>1, <1>2, <2>1, <2>2
<1>4. c = IF ~CanRead(medium, lba, fast) THEN [v |-> [verdict |-> "none", len |-> 0], data |-> <<>>]
          ELSE IF /\ v.verdict = "eof" /\ full > fast
                  /\ CanRead(medium, lba, full) /\ w.verdict # "err"
               THEN [v |-> w, data |-> t]
               ELSE [v |-> v, data |-> s]
  BY DEF Candidate, most
<1> HIDE DEF fast, full
<1>5. CanRead(medium, lba, fast) /\ CanRead(medium, lba, full)
  <2>1. medium.bad = {}
    BY DEF medium
  <2>2. lba + fast <= Total /\ lba + full <= Total
    BY <1>1, <1>3
  <2> QED BY <2>1, <2>2 DEF CanRead
<1>6. disk[lba] = <<f, 1>>
  <2>1. 1 \in 1 .. L /\ lba + 1 - 1 = lba
    BY <1>1
  <2> QED BY <2>1
<1>7. /\ s \in Seq(Contents) /\ Len(s) = fast /\ s # <<>> /\ s[1] = <<f, 1>>
      /\ \A k \in 1 .. fast : s[k] = disk[lba + k - 1]
  BY <1>3, <1>6, CandidateStarts
<1>8. /\ t \in Seq(Contents) /\ Len(t) = full /\ t # <<>> /\ t[1] = <<f, 1>>
      /\ \A k \in 1 .. full : t[k] = disk[lba + k - 1]
  BY <1>3, <1>6, CandidateStarts
<1> HIDE DEF s, t
<1>9. \A k \in 1 .. L : t[k] = <<f, k>>
  <2>1. \A k \in 1 .. L : k \in 1 .. full
    BY <1>1, <1>3
  <2>2. \A k \in 1 .. L : t[k] = disk[lba + k - 1]
    BY <1>8, <2>1
  <2> QED BY <2>2
<1>10. w = Ok(L)
  BY SMTT(20), <1>3, <1>8, <1>9, CheckedVerdicts
<1>11. Ok(L).verdict = "ok" /\ Ok(L).len = L
  BY DEF Ok
<1> HIDE DEF w
<1>12. PICK d \in Seq(Contents) : /\ c = [v |-> Ok(L), data |-> d] /\ L <= Len(d)
                                  /\ \A k \in 1 .. L : d[k] = <<f, k>>
  <2>1. CASE L <= fast
    <3>1. \A k \in 1 .. L : s[k] = <<f, k>>
      <4> SUFFICES ASSUME NEW k \in 1 .. L PROVE s[k] = <<f, k>>
        OBVIOUS
      <4>1. fast \in Nat
        BY <1>1, <1>3
      <4>2. k \in 1 .. fast
        BY <1>1, <2>1, <4>1
      <4> QED BY <1>7, <4>2
    <3>2. v = Ok(L)
      BY <1>7, <2>1, <3>1, CheckedVerdicts
    <3> HIDE DEF v, c
    <3>3. c = [v |-> v, data |-> s]
      BY <1>4, <1>5, <1>11, <3>2
    <3> QED BY <1>7, <2>1, <3>1, <3>2, <3>3
  <2>2. CASE ~ (L <= fast)
    <3>1. fast < L /\ full > fast
      BY <1>1, <1>3, <2>2
    <3>2. v.verdict = "eof"
      BY <1>7, <3>1, CheckedVerdicts
    <3> HIDE DEF v, c
    <3>3. c = [v |-> w, data |-> t]
      BY <1>4, <1>5, <1>10, <1>11, <3>1, <3>2
    <3> QED BY <1>3, <1>8, <1>9, <1>10, <3>3
  <2> QED BY <2>1, <2>2
<1> HIDE DEF c
<1>13. c.v = Ok(L) /\ c.data = d
  BY <1>12
<1>14. SubSeq(d, 1, L) = Whole(f)
  BY <1>12, StartsWhole
<1> DEFINE more == Min({c.v.len, Total - lba})
           data == IF c.v.len <= Len(c.data) THEN SubSeq(c.data, 1, c.v.len)
                   ELSE IF CanRead(medium, lba, more) THEN Data(medium, lba, more) ELSE <<>>
           loc  == <<<<lba, Max({Len(data), 1})>>>>
           a    == Artifact(2, medium.disk[lba][1], loc, "none", data, FALSE)
<1>15. Tier2Artifact(scen.class, medium, lba) = {a}
  BY <1>11, <1>13 DEF Tier2Artifact, Carved, c
<1>16. data = Whole(f)
  BY <1>11, <1>12, <1>13, <1>14
<1>17. a.payload = data /\ a.limited = FALSE
  BY DEF Artifact
<1> HIDE DEF a, data
<1> QED BY <1>15, <1>16, <1>17

LEMMA SectorSeqTwo ==
  ASSUME NEW x \in Extents, NEW y \in Extents
  PROVE  SectorSeq(<<x, y>>) = Run(x) \o Run(y) /\ SectorSeq(<<x>>) = Run(x)
<1> DEFINE nil == <<>>
           one == <<x>>
           two == <<x, y>>
<1>1. /\ nil \in Seq(Extents) /\ Len(nil) = 0
      /\ one \in Seq(Extents) /\ Len(one) = 1 /\ one[1] = x
      /\ two \in Seq(Extents) /\ Len(two) = 2 /\ two[1] = x /\ two[2] = y
  <2> HIDE DEF Extents
  <2> QED OBVIOUS
<1>2. SectorSeq(nil) = nil
  BY SectorSeqNone
<1>3. Run(x) \in Seq(Nat)
  BY RunIs
<1> HIDE DEF nil, one, two
<1>4. Len(one) = Len(nil) + 1 /\ \A i \in 1 .. Len(nil) : nil[i] = one[i]
  BY <1>1
<1>5. SectorSeq(one) = SectorSeq(nil) \o Run(one[Len(one)])
  BY <1>1, <1>4, SectorSeqLast
<1>6. SectorSeq(one) = Run(x)
  <2>1. SectorSeq(one) = nil \o Run(x)
    BY <1>1, <1>2, <1>5
  <2> DEFINE r == Run(x)
  <2>2. r \in Seq(Nat)
    BY <1>3
  <2> HIDE DEF r
  <2>3. <<>> \o r = r
    BY <2>2
  <2> QED BY <2>1, <2>3 DEF nil, r
<1>7. Len(two) = Len(one) + 1 /\ \A i \in 1 .. Len(one) : one[i] = two[i]
  BY <1>1
<1>8. SectorSeq(two) = SectorSeq(one) \o Run(two[Len(two)])
  BY <1>1, <1>7, SectorSeqLast
<1>9. SectorSeq(two) = Run(x) \o Run(y)
  BY <1>1, <1>6, <1>8
<1> QED BY <1>6, <1>9 DEF one, two

(* Every gap that fits is tried.                                           *)
LEMMA GapIsTried ==
  ASSUME NEW lba \in Nat, NEW size \in Nat, NEW gap \in 1 .. Radius, GapFits(lba, size, gap)
  PROVE  \E i \in DOMAIN GapOrder(lba, size) :
           GapOrder(lba, size)[i] = gap /\ i \in 1 .. Len(EmpiricalGaps) + Radius
<1> DEFINE fits  == {g \in Nat : GapFits(lba, size, g)}
           few   == {i \in DOMAIN EmpiricalGaps : EmpiricalGaps[i] \in fits}
           first == Subsequence(EmpiricalGaps, few)
           all   == [g \in 1..Radius |-> g]
           more  == fits \ ToSet(first)
           rest  == Subsequence(all, more)
<1>1. EmpiricalGaps \in Seq(Nat) /\ Radius \in Nat
  BY LimitsAssumption
<1>2. GapOrder(lba, size) = first \o rest
  BY DEF GapOrder
<1>3. all \in Seq(Nat) /\ Len(all) = Radius /\ DOMAIN all = 1 .. Radius /\ all[gap] = gap
  BY <1>1
<1>4. first \in Seq({ EmpiricalGaps[k] : k \in DOMAIN EmpiricalGaps \cap few }) /\ Len(first) <= Len(EmpiricalGaps)
  BY <1>1, SubsequenceIs
<1>5. /\ rest \in Seq({ all[k] : k \in DOMAIN all \cap more }) /\ Len(rest) <= Radius
      /\ \A k \in DOMAIN all \cap more : \E i \in DOMAIN rest : rest[i] = all[k]
  <2>1. all \in Seq(Nat) /\ Len(all) = Radius
    BY <1>3
  <2> HIDE DEF all, more
  <2> QED BY <2>1, SubsequenceIs
<1> DEFINE A == { EmpiricalGaps[k] : k \in DOMAIN EmpiricalGaps \cap few }
           B == { all[k] : k \in DOMAIN all \cap more }
<1>6. gap \in fits /\ gap \in Nat
  BY <1>1
<1>7. gap \in ToSet(first) \/ \E i \in DOMAIN rest : rest[i] = gap
  BY <1>3, <1>5, <1>6
<1> HIDE DEF first, rest, all, A, B
<1>8. /\ first \in Seq(A) /\ rest \in Seq(B)
      /\ Len(first) \in Nat /\ Len(rest) \in Nat /\ Len(EmpiricalGaps) \in Nat
      /\ DOMAIN first = 1 .. Len(first) /\ DOMAIN rest = 1 .. Len(rest)
  BY <1>1, <1>4, <1>5 DEF A, B
<1> DEFINE both == first \o rest
<1>9. /\ Len(both) = Len(first) + Len(rest) /\ DOMAIN both = 1 .. Len(first) + Len(rest)
      /\ \A i \in 1 .. Len(first) + Len(rest) :
           both[i] = IF i <= Len(first) THEN first[i] ELSE rest[i - Len(first)]
  BY <1>8
<1> HIDE DEF both
<1>10. \E i \in DOMAIN both : both[i] = gap
  <2>1. CASE gap \in ToSet(first)
    <3>1. PICK i \in DOMAIN first : first[i] = gap
      BY <2>1 DEF ToSet
    <3>2. i \in 1 .. Len(first) + Len(rest) /\ i <= Len(first)
      BY <1>8
    <3> QED BY <1>9, <3>1, <3>2
  <2>2. CASE \E i \in DOMAIN rest : rest[i] = gap
    <3>1. PICK i \in DOMAIN rest : rest[i] = gap
      BY <2>2
    <3> DEFINE j == i + Len(first)
    <3>2. j \in 1 .. Len(first) + Len(rest) /\ ~ (j <= Len(first)) /\ j - Len(first) = i
      BY <1>8
    <3> QED BY <1>9, <3>1, <3>2
  <2> QED BY <1>7, <2>1, <2>2
<1>11. \A i \in DOMAIN both : i \in 1 .. Len(EmpiricalGaps) + Radius
  BY <1>1, <1>4, <1>5, <1>8, <1>9
<1> QED BY <1>2, <1>10, <1>11 DEF both

(* The pieces of a file that lies in two.                                  *)
LiesInTwo(f, lba, cut, gap) ==
  /\ cut \in 1 .. FileLen[f] - 1 /\ gap \in 1 .. Radius
  /\ lba + FileLen[f] + gap < Total /\ LiesAt(f, Bifragment(lba, FileLen[f], cut, gap))

(* What is read of them, and of one after the other.                      *)
TwoPieces(f, lba, cut, head, u) ==
  /\ head \in Seq(Contents) /\ Len(head) = cut /\ head # <<>> /\ head[1] = <<f, 1>>
  /\ u \in Seq(Contents) /\ Len(u) = FileLen[f] /\ u # <<>>
  /\ \A k \in 1 .. FileLen[f] : u[k] = <<f, k>>
  /\ disk[lba] = <<f, 1>>

LEMMA PiecesAre ==
  ASSUME DiskOK, NEW lba \in Lba, NEW f \in Files, NEW cut, NEW gap, LiesInTwo(f, lba, cut, gap),
         NEW head, head = Data(medium, lba, cut),
         NEW tail, tail = Data(medium, lba + cut + gap, FileLen[f] - cut),
         NEW u, u = head \o tail
  PROVE  TwoPieces(f, lba, cut, head, u)
<1> DEFINE L == FileLen[f]
           next == lba + cut + gap
           x == <<lba, cut>>
           y == <<next, L - cut>>
           loc == Bifragment(lba, L, cut, gap)
<1>1. /\ Total \in Nat /\ lba \in Nat /\ lba < Total /\ L \in Nat \ {0} /\ Radius \in Nat /\ gap \in Nat /\ gap >= 1
      /\ cut \in Nat /\ cut >= 1 /\ cut < L /\ L - cut \in Nat /\ L - cut >= 1 /\ next \in Nat /\ lba + cut <= Total
      /\ next + (L - cut) <= Total
  BY SMTT(20), LimitsAssumption, FilesAssumption DEF Lba, LiesInTwo
<1> HIDE DEF L, next
<1>2. x \in Extents /\ x[1] = lba /\ x[2] = cut /\ y \in Extents /\ y[1] = next /\ y[2] = L - cut
  BY <1>1 DEF Extents
<1>3. loc = <<x, y>>
  BY DEF Bifragment, next
<1> HIDE DEF x, y
<1>4. SectorSeq(loc) = Run(x) \o Run(y)
  BY <1>2, <1>3, SectorSeqTwo
<1> HIDE DEF loc
<1>5. /\ Run(x) \in Seq(Nat) /\ Len(Run(x)) = cut /\ \A k \in 1 .. cut : Run(x)[k] = lba + k - 1
      /\ Run(y) \in Seq(Nat) /\ Len(Run(y)) = L - cut /\ \A k \in 1 .. L - cut : Run(y)[k] = next + k - 1
  BY <1>2, RunIs
<1> DEFINE r == Run(x)
           s == Run(y)
<1> HIDE DEF r, s
<1>6. \A k \in 1 .. L : (r \o s)[k] = IF k <= cut THEN r[k] ELSE s[k - cut]
  <2>1. r \in Seq(Nat) /\ s \in Seq(Nat) /\ Len(r) = cut /\ Len(s) = L - cut
    BY <1>5 DEF r, s
  <2> QED BY <1>1, <2>1, ConcatProperties
<1>7. \A k \in 1 .. L : disk[(r \o s)[k]] = <<f, k>>
  <2>1. \A k \in 1 .. FileLen[f] : disk[SectorSeq(loc)[k]] = <<f, k>>
    BY DEF LiesInTwo, LiesAt, loc, L
  <2> QED BY <1>4, <2>1 DEF L, r, s
<1>8. /\ head \in Seq(Contents) /\ Len(head) = cut
      /\ \A k \in 1 .. cut : head[k] = disk[lba + k - 1]
  BY <1>1, DataIs
<1>9. /\ tail \in Seq(Contents) /\ Len(tail) = L - cut
      /\ \A k \in 1 .. L - cut : tail[k] = disk[next + k - 1]
  <2> DEFINE m == L - cut
  <2>1. tail = Data(medium, next, m)
    BY DEF next, L
  <2>2. m \in Nat /\ next + m <= Total /\ next \in Nat
    BY <1>1
  <2> HIDE DEF m
  <2>3. tail \in Seq(Contents) /\ Len(tail) = m /\ \A k \in 1 .. m : tail[k] = disk[next + k - 1]
    BY <2>1, <2>2, DataIs
  <2> QED BY <2>3 DEF m
<1>10. ASSUME NEW k \in 1 .. cut PROVE head[k] = <<f, k>>
  <2>1. k \in 1 .. L /\ k <= cut
    BY <1>1
  <2>2. r[k] = lba + k - 1 /\ (r \o s)[k] = r[k]
    BY <1>5, <1>6, <2>1 DEF r
  <2> QED BY <1>7, <1>8, <2>1, <2>2
<1>11. ASSUME NEW k \in 1 .. L, ~ (k <= cut) PROVE tail[k - cut] = <<f, k>>
  <2>1. k - cut \in 1 .. L - cut
    BY <1>1, <1>11
  <2>2. s[k - cut] = next + (k - cut) - 1 /\ (r \o s)[k] = s[k - cut]
    BY <1>5, <1>6, <1>11, <2>1 DEF s
  <2>3. tail[k - cut] = disk[next + (k - cut) - 1]
    BY <1>9, <2>1
  <2> QED BY <1>7, <2>2, <2>3
<1>12. u \in Seq(Contents) /\ Len(u) = L /\ \A k \in 1 .. L : u[k] = IF k <= cut THEN head[k] ELSE tail[k - cut]
  <2> HIDE DEF Contents
  <2>1. u \in Seq(Contents)
    BY <1>8, <1>9
  <2>2. Len(u) = L
    <3>1. Len(u) = Len(head) + Len(tail)
      BY <1>8, <1>9, ConcatProperties
    <3> QED BY <1>1, <1>8, <1>9, <3>1
  <2>3. \A k \in 1 .. L : u[k] = IF k <= cut THEN head[k] ELSE tail[k - cut]
    BY <1>1, <1>8, <1>9, ConcatProperties
  <2> QED BY <2>1, <2>2, <2>3
<1>13. ASSUME NEW k \in 1 .. L PROVE u[k] = <<f, k>>
  <2>1. CASE k <= cut
    <3>1. k \in 1 .. cut
      BY <1>1, <2>1
    <3> QED BY <1>10, <1>12, <2>1, <3>1
  <2>2. CASE ~ (k <= cut)
    BY <1>11, <1>12, <2>2
  <2> QED BY <2>1, <2>2
<1>14. head # <<>> /\ u # <<>>
  <2> HIDE DEF Contents
  <2> QED BY <1>1, <1>8, <1>12
<1>15. 1 \in 1 .. cut /\ lba + 1 - 1 = lba
  BY <1>1
<1>16. head[1] = <<f, 1>> /\ head[1] = disk[lba]
  BY <1>8, <1>10, <1>15
<1> QED BY <1>8, <1>12, <1>13, <1>14, <1>16 DEF L, TwoPieces

(* A file in two pieces is put together when its header is visited.        *)
LEMMA VisitedIsRebuilt ==
  ASSUME DiskOK, scen \in Scenarios, scen.bad = {}, NEW lba \in Lba, NEW f \in Files,
         NEW cut \in 1 .. FileLen[f] - 1, NEW gap \in 1 .. Radius,
         scen.class[f] \in {"chunked", "mapped"}, lba + FileLen[f] + gap < Total, FileLen[f] <= MaxPieces,
         LiesAt(f, Bifragment(lba, FileLen[f], cut, gap)),
         NEW cl, Covered(Bifragment(lba, FileLen[f], cut, gap)) \cap cl = {}
  PROVE  \E a : a \in Tier3Artifact(scen.class, medium, cl, lba)
<1> DEFINE L == FileLen[f]
           loc == Bifragment(lba, L, cut, gap)
           head == Data(medium, lba, cut)
           tail == Data(medium, loc[2][1], loc[2][2])
           both == head \o tail
<1>1. /\ Total \in Nat /\ lba \in Nat /\ lba < Total /\ L \in Nat \ {0} /\ Radius \in Nat /\ gap \in Nat
      /\ cut \in Nat /\ cut >= 1 /\ cut < L /\ L \in 2 .. MaxPieces /\ cut \in 1 .. MaxPieces
      /\ L - cut \in Nat /\ lba + cut + gap + (L - cut) <= Total /\ lba + cut <= Total
      /\ gap <= Radius /\ gap + lba + L < Total /\ lba + L < Total
  <2>1. /\ Total \in Nat /\ lba \in Nat /\ lba < Total /\ L \in Nat \ {0} /\ Radius \in Nat /\ MaxPieces \in Nat
    BY LimitsAssumption, FilesAssumption DEF Lba
  <2>2. lba + L + gap < Total /\ cut \in 1 .. L - 1 /\ gap \in 1 .. Radius /\ L <= MaxPieces
    OBVIOUS
  <2> HIDE DEF L
  <2>3. gap \in Nat /\ cut \in Nat /\ cut >= 1 /\ cut < L /\ gap <= Radius
    BY <2>1, <2>2
  <2> QED BY <2>1, <2>2, <2>3
<1>2. loc[2][1] = lba + cut + gap /\ loc[2][2] = L - cut
  BY DEF Bifragment
<1>3. tail = Data(medium, lba + cut + gap, FileLen[f] - cut)
  BY <1>2
<1>4. /\ head \in Seq(Contents) /\ Len(head) = cut /\ head # <<>> /\ head[1] = <<f, 1>>
      /\ both \in Seq(Contents) /\ Len(both) = L /\ both # <<>>
      /\ \A k \in 1 .. L : both[k] = <<f, k>>
      /\ disk[lba] = <<f, 1>>
  <2>1. LiesInTwo(f, lba, cut, gap)
    BY DEF LiesInTwo
  <2>2. head = Data(medium, lba, cut) /\ tail = Data(medium, lba + cut + gap, FileLen[f] - cut) /\ both = head \o tail
    BY <1>3
  <2> HIDE DEF head, tail, both
  <2>3. TwoPieces(f, lba, cut, head, both)
    BY <2>1, <2>2, PiecesAre
  <2> QED BY <2>3 DEF TwoPieces
<1>5. both[1] = <<f, 1>>
  <2>1. 1 \in 1 .. L
    BY <1>1
  <2> QED BY <1>4, <2>1
<1>6. Validate(scen.class, head).verdict = "eof"
  <2> DEFINE v == Validate(scen.class, head)
  <2>1. Len(head) < FileLen[f]
    BY <1>1, <1>4
  <2> HIDE DEF head
  <2>2. v.verdict = "eof"
    BY <1>4, <2>1, CheckedVerdicts
  <2> QED BY <2>2
<1>7. Validate(scen.class, both).verdict = "ok"
  <2> DEFINE v == Validate(scen.class, both)
  <2> HIDE DEF both
  <2>1. FileLen[f] <= Len(both) /\ \A k \in 1 .. FileLen[f] : both[k] = <<f, k>>
    BY SMTT(20), <1>1, <1>4
  <2>2. v = Ok(FileLen[f])
    BY <1>4, <1>5, <2>1, CheckedVerdicts
  <2> QED BY <2>2 DEF Ok
<1>8. CanRead(medium, lba, cut) /\ CanRead(medium, loc[2][1], loc[2][2])
  <2>1. medium.bad = {}
    BY DEF medium
  <2> QED BY <1>1, <1>2, <2>1 DEF CanRead
<1>9. Fits(scen.class, medium, cl, lba, L, cut, gap)
  BY <1>6, <1>7, <1>8 DEF Fits
<1>10. PICK i \in DOMAIN GapOrder(lba, L) : GapOrder(lba, L)[i] = gap /\ i \in 1 .. Len(EmpiricalGaps) + Radius
  <2>1. GapFits(lba, L, gap)
    BY <1>1 DEF GapFits
  <2>2. L \in Nat
    BY <1>1
  <2> QED BY <1>1, <2>1, <2>2, GapIsTried
<1> HIDE DEF L
<1> DEFINE t == <<L, cut, i>>
<1>11. /\ t \in (2..MaxPieces) \X (1..MaxPieces) \X (1..Len(EmpiricalGaps) + Radius)
       /\ t[1] = L /\ t[2] = cut /\ t[3] = i
  BY <1>1, <1>10
<1> HIDE DEF t
<1>12. t \in Splits(scen.class, medium, cl, lba)
  BY <1>1, <1>9, <1>10, <1>11 DEF Splits
<1> QED BY <1>12 DEF Tier3Artifact, Rebuilt

-----------------------------------------------------------------------------
(* No part of a file lies on the medium twice.                             *)

(* A part behind the end of the file is there once it has grown, and not a *)
(* second time; of a file that was never stored there is nothing.          *)
PartsOK ==
  /\ \A l, k \in Lba : disk[l] = disk[k] /\ disk[l][1] \in Files => l = k
  /\ \A l \in Lba, g \in Files : disk[l][1] = g =>
       /\ disk[l][2] > FileLen[g] => Len(place[g]) # FileLen[g]
       /\ job = NoJob => place[g] # <<>>

(* A step that only takes parts away.                                      *)
LEMMA PartsRemain ==
  ASSUME PartsOK, \A l \in Lba : disk'[l] = disk[l] \/ disk'[l][1] \notin Files,
         \A g \in Files : place'[g] = place[g] \/ place'[g] = <<>>,
         job' = NoJob => job = NoJob /\ place' = place
  PROVE  PartsOK'
<1>1. ASSUME NEW l \in Lba, NEW k \in Lba, disk'[l] = disk'[k], disk'[l][1] \in Files
      PROVE  l = k
  <2>1. disk'[l] = disk[l] /\ disk'[k] = disk[k]
    BY <1>1
  <2> QED BY <1>1, <2>1 DEF PartsOK
<1>2. ASSUME NEW l \in Lba, NEW g \in Files, disk'[l][1] = g
      PROVE  /\ disk'[l][2] > FileLen[g] => Len(place'[g]) # FileLen[g]
             /\ job' = NoJob => place'[g] # <<>>
  <2>1. disk'[l] = disk[l]
    BY <1>2
  <2>2. /\ disk[l][2] > FileLen[g] => Len(place[g]) # FileLen[g]
        /\ job = NoJob => place[g] # <<>>
    BY <1>2, <2>1 DEF PartsOK
  <2>3. FileLen[g] # 0 /\ Len(<<>>) = 0
    BY FilesAssumption
  <2>4. CASE place'[g] = place[g]
    BY <2>1, <2>2, <2>4
  <2>5. CASE place'[g] # place[g]
    <3>1. Len(place'[g]) = 0
      BY <2>3, <2>5
    <3> QED BY <2>3, <2>5, <3>1
  <2> QED BY <2>4, <2>5
<1>3. Lba' = Lba
  OBVIOUS
<1> QED BY <1>1, <1>2, <1>3 DEF PartsOK

LEMMA StoreParts ==
  ASSUME PartsOK, UseOK, job = NoJob, NEW f \in Files, Store(f)
  PROVE  PartsOK'
<1>1. PICK p \in Seq(Lba) :
        /\ p # <<>> /\ IsInjective(p) /\ ToSet(p) \subseteq FreeSectors /\ Occupy(f, p)
        /\ disk' = [l \in Lba |-> disk'[l]]
        /\ \A l \in Lba :
             \/ disk'[l] = disk[l]
             \/ \E k \in DOMAIN p : p[k] = l /\ disk'[l] = <<f, PartOf(f, k)>>
        /\ \A k \in DOMAIN p : PartOf(f, k) \in 1 .. FileLen[f]
        /\ \A i, k \in DOMAIN p : PartOf(f, i) = PartOf(f, k) => i = k
  BY StoreIs DEF UseOK, VolumeOK
<1>2. FileLen[f] \in Nat \ {0}
  BY FilesAssumption
<1>3. place[f] = <<>> /\ place' = [place EXCEPT ![f] = p] /\ place \in [Names -> Seq(Lba)] /\ f \in Names
  BY <1>1 DEF Store, Occupy, UseOK, VolumeOK, Names
<1> DEFINE at(l) == CHOOSE k \in DOMAIN p : p[k] = l /\ disk'[l] = <<f, PartOf(f, k)>>
           part(l) == PartOf(f, at(l))
<1>4. ASSUME NEW l \in Lba
      PROVE  \/ disk'[l] = <<f, part(l)>> /\ part(l) \in 1 .. FileLen[f] /\ at(l) \in DOMAIN p /\ p[at(l)] = l
             \/ disk'[l] = disk[l] /\ disk[l][1] # f
  <2>1. CASE disk'[l] # disk[l]
    <3>1. \E k \in DOMAIN p : p[k] = l /\ disk'[l] = <<f, PartOf(f, k)>>
      BY <1>1, <2>1
    <3>2. at(l) \in DOMAIN p /\ p[at(l)] = l /\ disk'[l] = <<f, part(l)>>
      BY <3>1
    <3> HIDE DEF at
    <3> QED BY <1>1, <3>2
  <2>2. CASE disk'[l] = disk[l]
    <3>1. disk[l][1] # f
      BY <1>3 DEF PartsOK
    <3> QED BY <2>2, <3>1
  <2> QED BY <2>1, <2>2
<1>p. \A l, k \in Lba : at(l) \in DOMAIN p /\ at(k) \in DOMAIN p /\ part(l) = part(k) => at(l) = at(k)
  <2> HIDE DEF at
  <2> QED BY <1>1
<1> HIDE DEF at, part
<1>5. ASSUME NEW l \in Lba, NEW k \in Lba, disk'[l] = disk'[k], disk'[l][1] \in Files
      PROVE  l = k
  <2>1. CASE disk'[l][1] = f
    <3>1. /\ disk'[l] = <<f, part(l)>> /\ disk'[k] = <<f, part(k)>> /\ p[at(l)] = l /\ p[at(k)] = k
          /\ at(l) \in DOMAIN p /\ at(k) \in DOMAIN p
      BY <1>4, <1>5, <2>1
    <3> DEFINE i == part(l)
               j == part(k)
    <3> HIDE DEF i, j
    <3>2. <<f, i>> = <<f, j>>
      BY <1>5, <3>1 DEF i, j
    <3>3. part(l) = part(k)
      BY <3>2 DEF i, j
    <3>4. at(l) = at(k)
      BY <1>p, <3>1, <3>3
    <3> QED BY <3>1, <3>4
  <2>2. CASE disk'[l][1] # f
    <3>1. disk'[l] = disk[l] /\ disk'[k] = disk[k]
      BY <1>4, <1>5, <2>2
    <3> QED BY <1>5, <3>1 DEF PartsOK
  <2> QED BY <2>1, <2>2
<1>6. ASSUME NEW l \in Lba, NEW g \in Files, disk'[l][1] = g
      PROVE  /\ disk'[l][2] > FileLen[g] => Len(place'[g]) # FileLen[g]
             /\ job' = NoJob => place'[g] # <<>>
  <2>1. CASE g = f
    <3>1. disk'[l][2] \in 1 .. FileLen[f]
      BY <1>4, <1>6, <2>1
    <3>2. place'[f] = p
      BY <1>3
    <3>3. ~ (disk'[l][2] > FileLen[f])
      BY <1>2, <3>1
    <3>4. p # <<>>
      BY <1>1
    <3> QED BY <2>1, <3>2, <3>3, <3>4
  <2>2. CASE g # f
    <3>1. disk'[l] = disk[l] /\ place'[g] = place[g]
      BY <1>3, <1>4, <1>6, <2>2 DEF Names
    <3> QED BY <1>6, <3>1 DEF PartsOK
  <2> QED BY <2>1, <2>2
<1> QED BY <1>5, <1>6 DEF PartsOK

LEMMA GrowParts ==
  ASSUME PartsOK, UseOK, job # NoJob, job' = job, Grow(job.file)
  PROVE  PartsOK'
<1> DEFINE f == job.file
           p == place[f]
<1>1. PICK l \in FreeSectors : /\ Occupy(f, Append(p, l))
                               /\ disk' = [disk EXCEPT ![l] = <<f, FileLen[f] + 1>>]
  BY DEF Grow
<1>2. f \in Files /\ Len(p) = FileLen[f] /\ FileLen[f] \in Nat
  BY FilesAssumption DEF Grow, UseOK, JobOK, Jobs
<1>3. p \in Seq(Lba) /\ place' = [place EXCEPT ![f] = Append(p, l)] /\ place \in [Names -> Seq(Lba)] /\ f \in Names
  BY <1>1, <1>2 DEF Occupy, UseOK, VolumeOK, Names
<1>4. l \in Lba
  BY <1>1 DEF FreeSectors
<1> HIDE DEF f, p
<1> DEFINE n == FileLen[f] + 1
           part == <<f, n>>
<1>5. n \in Nat /\ n > FileLen[f] /\ n # FileLen[f]
  BY <1>2
<1>6. part[1] = f /\ part[2] = n
  OBVIOUS
<1>7. disk'[l] = part /\ \A k \in Lba : k # l => disk'[k] = disk[k]
  BY <1>1, <1>4 DEF UseOK, DiskOK
<1> HIDE DEF n, part
<1>8. \A k \in Lba : disk[k] # part
  <2> SUFFICES ASSUME NEW k \in Lba, disk[k] = part PROVE FALSE
    OBVIOUS
  <2>1. disk[k][1] = f /\ disk[k][2] > FileLen[f]
    BY <1>5, <1>6
  <2>2. Len(place[f]) # FileLen[f]
    BY <1>2, <2>1 DEF PartsOK
  <2> QED BY <1>2, <2>2 DEF p
<1>9. ASSUME NEW x \in Lba, NEW k \in Lba, disk'[x] = disk'[k], disk'[x][1] \in Files
      PROVE  x = k
  <2>1. CASE x # l /\ k # l
    BY <1>7, <1>9, <2>1 DEF PartsOK
  <2> QED BY <1>7, <1>8, <1>9, <2>1
<1>10. ASSUME NEW x \in Lba, NEW g \in Files, disk'[x][1] = g, disk'[x][2] > FileLen[g]
       PROVE  Len(place'[g]) # FileLen[g]
  <2>1. CASE g = f
    <3>1. Len(Append(p, l)) = Len(p) + 1
      BY <1>3, <1>4, AppendProperties
    <3>2. place'[f] = Append(p, l)
      BY <1>3
    <3> QED BY <1>2, <2>1, <3>1, <3>2
  <2>2. CASE g # f
    <3>1. disk'[x] = disk[x] /\ place'[g] = place[g]
      BY <1>3, <1>6, <1>7, <1>10, <2>2 DEF Names
    <3> QED BY <1>10, <3>1 DEF PartsOK
  <2> QED BY <2>1, <2>2
<1> QED BY <1>9, <1>10 DEF PartsOK

(* A step after which nothing lies where nothing of a file lay, and which  *)
(* leaves an erasure under way.                                            *)
LEMMA ErasureParts ==
  ASSUME PartsOK, UseOK, ErasureStep
  PROVE  PartsOK'
<1>1. job' # NoJob
  <2>1. job.step # "none" => job \in Jobs
    BY JobIs DEF UseOK
  <2>2. ASSUME NEW step, job \in Jobs, job'.step = step, step # "none" PROVE job' # NoJob
    BY <2>2 DEF NoJob
  <2>3. ASSUME NEW f \in Files, BeginLocal(f) PROVE job'.step \in {"remove", "write"}
    BY <2>3 DEF BeginLocal
  <2>4. ASSUME NEW f \in Files, PipelineData(f) PROVE job'.step \in {"metadata", "failed"}
    BY <2>4 DEF PipelineData
  <2>5. ASSUME WritePass PROVE job'.step = "sync"
    BY <2>1, <2>5 DEF WritePass, Jobs
  <2>6. ASSUME SyncPass PROVE job'.step \in {"truncate", "write", "stopped"}
    BY <2>1, <2>6 DEF SyncPass, Jobs
  <2>7. ASSUME Truncate PROVE job'.step = "remove"
    BY <2>1, <2>7 DEF Truncate, Jobs
  <2>8. ASSUME Unlink PROVE job'.step = "removed"
    BY <2>1, <2>8 DEF Unlink, Jobs
  <2>9. ASSUME Stop PROVE job'.step = "failed"
    BY <2>1, <2>9 DEF Stop, Busy, Abandon, Jobs
  <2>10. ASSUME PipelineMetadata PROVE job'.step \in {"Sanitized", "PartiallySanitized", "ResidualTracesDetected"}
    BY <2>1, <2>10 DEF PipelineMetadata, ResidualScan, Jobs
  <2>11. job'.step # "none"
    BY <2>3, <2>4, <2>5, <2>6, <2>7, <2>8, <2>9, <2>10 DEF ErasureStep
  <2> QED BY <2>11 DEF NoJob
<1>2. \A g \in Files : place'[g] = place[g] \/ place'[g] = <<>>
  <2>1. CASE Truncate
    <3>1. place' = [place EXCEPT ![job.file] = <<>>] /\ place \in [Names -> Seq(Lba)]
      BY <2>1 DEF Truncate, UseOK, VolumeOK
    <3> DEFINE none == <<>>
    <3> HIDE DEF none
    <3>2. place' = [place EXCEPT ![job.file] = none]
      BY <3>1 DEF none
    <3>3. \A g \in Files : place'[g] = place[g] \/ place'[g] = none
      BY <3>1, <3>2 DEF Names
    <3> QED BY <3>3 DEF none
  <2>2. CASE ~ Truncate
    <3>1. place' = place
      BY <2>2 DEF ErasureStep, BeginLocal, PipelineData, WritePass, SyncPass, Unlink, Stop, PipelineMetadata, volume
    <3> QED BY <3>1
  <2> QED BY <2>1, <2>2
<1>3. \A l \in Lba : disk'[l] = disk[l] \/ disk'[l][1] \notin Files
  <2>1. ASSUME NEW sectors, NEW content \in {Zero, Noise}, Overwrite(sectors, content)
        PROVE  \A l \in Lba : disk'[l] = disk[l] \/ disk'[l][1] \notin Files
    <3>1. \A l \in Lba : disk'[l] = IF l \in sectors THEN content ELSE disk[l]
      BY <2>1 DEF Overwrite
    <3>2. content[1] \notin Files
      BY FilesAssumption DEF Zero, Noise
    <3> QED BY <3>1, <3>2
  <2>2. \A n : Pattern(n) \in {Zero, Noise}
    BY DEF Pattern
  <2>3. CASE SyncPass
    <3>1. disk' = disk \/ Overwrite(job.dirty, Pattern(job.pass))
      BY <2>3 DEF SyncPass
    <3> QED BY <2>1, <2>2, <3>1
  <2>4. CASE Stop
    <3>1. PICK part \in SUBSET (job.dirty \ scen.bad) : Overwrite(part, Pattern(job.pass))
      BY <2>4 DEF Stop
    <3> QED BY <2>1, <2>2, <3>1
  <2>5. ASSUME NEW f \in Files, PipelineData(f)
        PROVE  \A l \in Lba : disk'[l] = disk[l] \/ disk'[l][1] \notin Files
    <3>1. \E sectors : \E content \in {Zero, Noise} : Overwrite(sectors, content)
      BY <2>5 DEF PipelineData
    <3> QED BY <2>1, <3>1
  <2>6. CASE (\E f \in Files : BeginLocal(f)) \/ WritePass \/ Truncate \/ Unlink \/ PipelineMetadata
    BY <2>6 DEF BeginLocal, WritePass, Truncate, Unlink, PipelineMetadata, volume
  <2> QED BY <2>3, <2>4, <2>5, <2>6 DEF ErasureStep
<1> QED BY <1>1, <1>2, <1>3, PartsRemain

LEMMA HostParts ==
  ASSUME PartsOK, UseOK, Host
  PROVE  PartsOK'
<1>1. job' = job
  BY DEF Host
<1>2. CASE disk' = disk /\ place' = place
  BY <1>1, <1>2, PartsRemain
<1>3. ASSUME MakeDirectory PROVE PartsOK'
  <2>1. PICK l \in FreeSectors : Occupy(Dir, <<l>>) /\ disk' = [disk EXCEPT ![l] = <<Dir, 1>>]
    BY <1>3 DEF MakeDirectory
  <2>2. l \in Lba /\ Dir \notin Files /\ place \in [Names -> Seq(Lba)]
    BY <2>1, ScenarioAssumption DEF FreeSectors, UseOK, VolumeOK
  <2>3. \A g \in Files : place'[g] = place[g]
    BY <2>1, <2>2 DEF Occupy, Names
  <2>4. \A k \in Lba : disk'[k] = disk[k] \/ disk'[k] = <<Dir, 1>>
    BY <2>1, <2>2 DEF UseOK, DiskOK
  <2>5. \A l1, k1 \in Lba : disk'[l1] = disk'[k1] /\ disk'[l1][1] \in Files => l1 = k1
    BY <2>2, <2>4 DEF PartsOK
  <2>6. \A l1 \in Lba, g \in Files : disk'[l1][1] = g =>
          /\ disk'[l1][2] > FileLen[g] => Len(place'[g]) # FileLen[g]
          /\ job' = NoJob => place'[g] # <<>>
    BY <1>1, <2>2, <2>3, <2>4 DEF PartsOK
  <2> QED BY <2>5, <2>6 DEF PartsOK
<1>4. ASSUME NEW f, Delete(f) PROVE disk' = disk /\ place' = place
  BY <1>4 DEF Delete
<1>5. ASSUME Damage PROVE disk' = disk /\ place' = place
  BY <1>5 DEF Damage
<1>6. CASE job = NoJob /\ (MakeDirectory \/ Delete(Dir) \/ \E f \in Files : Store(f) \/ Delete(f))
  BY <1>2, <1>3, <1>4, <1>6, StoreParts
<1>7. CASE Busy /\ Grow(job.file)
  <2>1. job # NoJob
    BY <1>7 DEF Busy, NoJob
  <2> QED BY <1>1, <1>7, <2>1, GrowParts
<1>8. CASE job = NoJob /\ Damage
  BY <1>2, <1>5, <1>8
<1> QED BY <1>6, <1>7, <1>8 DEF Host

LEMMA PartsStep ==
  ASSUME PartsOK, UseOK, [Next]_vars
  PROVE  PartsOK'
<1>1. CASE InUse
  BY <1>1, HostParts, ErasureParts DEF InUse
<1>2. CASE UNCHANGED <<volume, job>>
  <2>1. disk' = disk /\ place' = place /\ job' = job
    BY <1>2 DEF volume
  <2> QED BY <2>1, PartsRemain
<1>3. [Next]_vars => InUse \/ UNCHANGED <<volume, job>>
  BY DEF Next, vars, Start, RunTier1, CarveSignature, EndTier2, CarveFragments, Finish
<1> QED BY <1>1, <1>2, <1>3

(* No part of a file lies on the medium twice, so that a header tells one  *)
(* file: what a host writes, and what both erasers overwrite.              *)
THEOREM PartsAreOnce == Spec => []PartsOK
<1>1. Init => PartsOK
  <2>1. Init => \A l \in Lba : disk[l][1] \notin Files
    BY PartsAre DEF Init, VolumeInit
  <2> QED BY <2>1 DEF PartsOK
<1>2. PartsOK /\ UseOK /\ [Next]_vars => PartsOK'
  BY PartsStep
<1> QED BY <1>1, <1>2, UseIsOK, PTL DEF Spec

-----------------------------------------------------------------------------
(* What was searched, and who took what was not.                           *)

SignatureAt(l)     == Tier2Artifact(scen.class, medium, l)
FragmentsAt(cl, l) == Tier3Artifact(scen.class, medium, cl, l)
Known(l) == IsHeader(disk[l]) /\ l \notin scen.bad
Takes(a) == IsSure(a) \/ IsWhole(a) \/ a.tier = 3

(* What is claimed was taken by a find.                                    *)
ClaimedOK == \A l \in claimed : \E a \in arts \cup rebuilt : Takes(a) /\ l \in Covered(a.loc)

(* What the carving tiers found lies where the header is.                  *)
OriginOK ==
  /\ \A a \in arts : a.tier = 2 => IsHeader(disk[Begin(a)]) /\ a \in SignatureAt(Begin(a))
  /\ \A a \in rebuilt : IsHeader(disk[Begin(a)]) /\ \E cl \in SUBSET claimed : a \in FragmentsAt(cl, Begin(a))

(* A header is still ahead, or taken, or what it leads to was found.       *)
AheadOK ==
  /\ 2 \in tiers /\ phase \in {"tier2", "tier3", "done"} =>
       \A l \in Lba : Known(l) =>
          \/ phase = "tier2" /\ l >= pos
          \/ \E a \in arts : (IsSure(a) \/ IsWhole(a)) /\ l \in Covered(a.loc)
          \/ \A a \in SignatureAt(l) : a \in arts \/ a.limited
  /\ 3 \in tiers /\ phase \in {"tier3", "done"} =>
       \A l \in Lba : Known(l) =>
          \/ phase = "tier3" /\ l >= pos
          \/ l \in claimed
          \/ \E cl \in SUBSET claimed : FragmentsAt(cl, l) \subseteq rebuilt

SearchedOK == ClaimedOK /\ OriginOK /\ AheadOK

LEMMA SearchStays ==
  ASSUME UNCHANGED volume
  PROVE  /\ \A l : SignatureAt(l)' = SignatureAt(l) /\ (Known(l)' <=> Known(l))
         /\ \A cl, l : FragmentsAt(cl, l)' = FragmentsAt(cl, l)
         /\ disk' = disk
<1>1. scen' = scen /\ disk' = disk
  BY DEF volume
<1>2. medium' = medium
  BY <1>1 DEF medium
<1> QED BY <1>1, <1>2 DEF SignatureAt, FragmentsAt, Known

(* A find of tier 1 that is dropped for a rebuilt file names no sector.    *)
LEMMA DroppedIsNothing ==
  ASSUME UseOK, FindsOK, NEW a \in arts, IsSure(a), Starts({a}) \cap Starts(rebuilt) # {}
  PROVE  Covered(a.loc) = {}
<1>1. PICK b \in rebuilt : a.loc # <<>> /\ b.loc # <<>> /\ Begin(a) = Begin(b)
  BY DEF Starts, Begin
<1>2. PICK f \in Listed : a = ListedArtifact(f)
  BY FindIs DEF FindsOK
<1>3. a.loc \in Locations
  BY <1>2, ListingIs
<1>4. Begin(b) \in Covered(b.loc)
  <2>1. IsRebuilding(b)
    BY DEF FindsOK, ShapesOK
  <2> QED BY <2>1, RebuildingIs
<1>5. Covered(a.loc) \cap Covered(b.loc) = {}
  BY DEF FindsOK, ApartOK
<1>6. CASE a.loc \in Seq(Runs1)
  <2>1. 1 \in DOMAIN a.loc /\ a.loc[1] \in Runs1
    BY <1>1, <1>6
  <2>2. a.loc[1][1] \in Sectors(a.loc[1])
    BY <2>1 DEF Runs1, Sectors
  <2>3. Begin(a) \in Covered(a.loc)
    BY <2>1, <2>2 DEF Covered, Begin
  <2> QED BY <1>1, <1>4, <1>5, <2>3
<1>7. CASE a.loc = <<<<0, 0>>>>
  BY <1>7, CoveredNone
<1> QED BY <1>3, <1>6, <1>7 DEF Locations

LEMMA TierTwoTakers ==
  ASSUME UseOK, FindsOK, ClaimedOK, rebuilt = {}, NEW l \in claimed
  PROVE  \E a \in arts : (IsSure(a) \/ IsWhole(a)) /\ l \in Covered(a.loc)
<1>1. PICK a \in arts \cup rebuilt : Takes(a) /\ l \in Covered(a.loc)
  BY DEF ClaimedOK
<1>2. a \in arts /\ a.tier # 3
  BY <1>1, FindIs DEF FindsOK
<1> QED BY <1>1, <1>2 DEF Takes

LEMMA SearchedInit ==
  ASSUME Init
  PROVE  SearchedOK
BY DEF Init, SearchedOK, ClaimedOK, OriginOK, AheadOK

LEMMA EarlySearched ==
  ASSUME SearchedOK, FindsOK, InUse \/ Start
  PROVE  SearchedOK'
<1>1. /\ phase' \in {"use", "tier1"} /\ claimed' = claimed /\ arts' = arts /\ rebuilt' = rebuilt
      /\ arts = {} /\ rebuilt = {}
  BY DEF InUse, Start, pipeline, FindsOK, SearchOK
<1>2. ClaimedOK'
  BY <1>1 DEF SearchedOK, ClaimedOK
<1>3. OriginOK' /\ AheadOK'
  BY <1>1 DEF OriginOK, AheadOK
<1> QED BY <1>2, <1>3 DEF SearchedOK

LEMMA RunTier1Searched ==
  ASSUME UseOK, SearchedOK, FindsOK, RunTier1
  PROVE  SearchedOK'
<1>1. /\ phase = "tier1" /\ pos = 0 /\ arts = {} /\ rebuilt = {} /\ rebuilt' = {} /\ pos' = 0
  BY DEF RunTier1, FindsOK, SearchOK
<1>2. CASE 1 \in tiers /\ ParserFails
  <2>1. phase' = "failed" /\ arts' = {} /\ claimed' = claimed
    BY <1>1, <1>2 DEF RunTier1
  <2> QED BY <1>1, <2>1 DEF SearchedOK, ClaimedOK, OriginOK, AheadOK
<1>3. CASE ~ (1 \in tiers /\ ParserFails)
  <2>1. /\ phase' = "tier2" /\ claimed' = Claims(arts')
        /\ arts' = IF 1 \in tiers THEN {ListedArtifact(f) : f \in Listed} ELSE {}
    BY <1>3 DEF RunTier1
  <2>2. ClaimedOK'
    BY <2>1 DEF ClaimedOK, Claims, Takes, IsSure
  <2>3. \A a \in arts' : a.tier = 1
    BY <2>1, ListingIs
  <2>4. OriginOK'
    BY <1>1, <2>3 DEF OriginOK
  <2>5. AheadOK'
    <3>1. \A l \in Lba : l >= pos'
      BY <1>1 DEF Lba
    <3> QED BY <2>1, <3>1 DEF AheadOK
  <2> QED BY <2>2, <2>4, <2>5 DEF SearchedOK
<1> QED BY <1>2, <1>3

LEMMA EndTier2Searched ==
  ASSUME UseOK, SearchedOK, FindsOK, EndTier2
  PROVE  SearchedOK'
<1>1. /\ phase = "tier2" /\ phase' = "tier3" /\ pos' = 0 /\ arts' = arts /\ rebuilt' = rebuilt
      /\ claimed' = claimed /\ tiers' = tiers /\ UNCHANGED volume
      /\ 2 \notin tiers \/ Headers = {}
  BY DEF EndTier2
<1>2. ClaimedOK' /\ OriginOK'
  BY <1>1, SearchStays DEF SearchedOK, ClaimedOK, OriginOK
<1>3. ASSUME 2 \in tiers, NEW l \in Lba, Known(l)
      PROVE  \/ \E a \in arts : (IsSure(a) \/ IsWhole(a)) /\ l \in Covered(a.loc)
             \/ \A a \in SignatureAt(l) : a \in arts \/ a.limited
  <2>1. CASE l >= pos
    <3>1. l \in claimed
      BY <1>1, <1>3, <2>1 DEF Headers, Known
    <3>2. rebuilt = {}
      BY <1>1 DEF FindsOK, SearchOK
    <3> QED BY <3>1, <3>2, TierTwoTakers DEF SearchedOK
  <2>2. CASE ~ (l >= pos)
    BY <1>1, <1>3, <2>2 DEF SearchedOK, AheadOK
  <2> QED BY <2>1, <2>2
<1>4. \A l \in Lba : l >= pos'
  BY <1>1 DEF Lba
<1>5. AheadOK'
  BY <1>1, <1>3, <1>4, SearchStays DEF AheadOK
<1> QED BY <1>2, <1>5 DEF SearchedOK

LEMMA CarveSignatureSearched ==
  ASSUME UseOK, SearchedOK, FindsOK, CarveSignature
  PROVE  SearchedOK'
<1> DEFINE lba   == Min(Headers)
           found == SignatureAt(lba)
           whole == {a \in found : ~a.limited}
           ends  == {lba + 1} \cup {a.loc[1][1] + a.loc[1][2] : a \in whole}
<1>1. /\ phase = "tier2" /\ phase' = "tier2" /\ Headers # {} /\ arts' = arts \cup found
      /\ claimed' = claimed \cup UNION {Covered(a.loc) : a \in whole}
      /\ pos' = Max(ends) /\ tiers' = tiers /\ rebuilt' = rebuilt /\ UNCHANGED volume
  BY DEF CarveSignature, SignatureAt
<1>2. rebuilt = {} /\ pos \in Nat
  BY <1>1 DEF FindsOK, SearchOK
<1>3. /\ lba \in Lba /\ lba \in Nat /\ lba >= pos /\ lba < Total /\ IsHeader(disk[lba]) /\ Total \in Nat
      /\ \A l \in Headers : lba <= l
  <2>1. Headers \in SUBSET Nat
    BY LimitsAssumption DEF Headers, Lba
  <2> QED BY <1>1, <2>1, LeastMin, HeadersAre, LimitsAssumption
<1> HIDE DEF lba
<1>4. ASSUME NEW a \in found
      PROVE  /\ Begin(a) = lba /\ a.tier = 2 /\ End(a) \in Nat /\ End(a) <= Total
             /\ Covered(a.loc) = lba .. End(a) - 1
  <2>1. DiskOK /\ scen \in Scenarios
    BY DEF UseOK, VolumeOK
  <2>2. IsCarving(a) /\ Begin(a) = lba
    BY <1>3, <2>1, Tier2ArtifactIs DEF SignatureAt
  <2>3. a.tier = 2
    BY <2>2 DEF IsCarving
  <2> QED BY <2>2, <2>3, CarvingIs
<1> HIDE DEF found
<1>5. pos' = lba + 1 \/ \E a \in whole : pos' = End(a)
  <2>1. ends \in SUBSET Nat /\ \A x \in ends : x <= Total
    BY <1>3, <1>4 DEF End
  <2>2. lba + 1 \in ends
    OBVIOUS
  <2>3. \A x \in ends : x = lba + 1 \/ \E a \in whole : x = End(a)
    BY DEF End
  <2> HIDE DEF ends
  <2>4. Max(ends) \in ends
    BY <1>3, <2>1, <2>2, BoundedMax
  <2> QED BY <1>1, <2>3, <2>4
<1> HIDE DEF ends
<1>6. ClaimedOK'
  <2>1. ASSUME NEW l \in claimed' PROVE \E a \in arts' \cup rebuilt' : Takes(a) /\ l \in Covered(a.loc)
    <3>1. CASE l \in claimed
      BY <1>1, <3>1 DEF SearchedOK, ClaimedOK
    <3>2. CASE l \notin claimed
      <4>1. PICK a \in whole : l \in Covered(a.loc)
        BY <1>1, <3>2
      <4>2. a \in arts' /\ Takes(a)
        BY <1>1, <1>4, <4>1 DEF Takes, IsWhole
      <4> QED BY <4>1, <4>2
    <3> QED BY <3>1, <3>2
  <2> QED BY <2>1 DEF ClaimedOK
<1>7. OriginOK'
  <2>1. ASSUME NEW a \in arts', a.tier = 2 PROVE IsHeader(disk[Begin(a)]) /\ a \in SignatureAt(Begin(a))
    <3>1. CASE a \in arts
      BY <2>1, <3>1 DEF SearchedOK, OriginOK
    <3>2. CASE a \in found
      BY <1>3, <1>4, <3>2 DEF found
    <3> QED BY <1>1, <3>1, <3>2
  <2> QED BY <1>1, <1>2, <2>1, SearchStays DEF OriginOK
<1>8. ASSUME 2 \in tiers, NEW l \in Lba, Known(l), ~ (l >= pos')
      PROVE  \/ \E a \in arts' : (IsSure(a) \/ IsWhole(a)) /\ l \in Covered(a.loc)
             \/ \A a \in SignatureAt(l) : a \in arts' \/ a.limited
  <2>1. CASE l < pos
    <3>1. \/ \E a \in arts : (IsSure(a) \/ IsWhole(a)) /\ l \in Covered(a.loc)
          \/ \A a \in SignatureAt(l) : a \in arts \/ a.limited
      <4>1. ~ (l >= pos)
        BY <1>2, <2>1, LimitsAssumption DEF Lba
      <4> QED BY <1>1, <1>8, <4>1 DEF SearchedOK, AheadOK
    <3> QED BY <1>1, <3>1
  <2>2. CASE l >= pos /\ l \in claimed
    BY <1>1, <1>2, <2>2, TierTwoTakers DEF SearchedOK
  <2>3. CASE l >= pos /\ l \notin claimed
    <3>1. l \in Headers
      BY <1>8, <2>3 DEF Headers, Known
    <3>2. lba <= l /\ l \in Nat
      BY <1>3, <3>1, LimitsAssumption DEF Lba
    <3>3. CASE l = lba
      BY <1>1, <3>3 DEF found
    <3>4. CASE l # lba
      <4>1. l >= lba + 1
        BY <1>3, <3>2, <3>4
      <4>2. PICK a \in whole : pos' = End(a)
        BY <1>5, <1>8, <4>1
      <4>3. l \in Covered(a.loc)
        BY <1>3, <1>4, <1>8, <3>2, <4>2
      <4>4. a \in arts' /\ IsWhole(a)
        BY <1>1, <1>4, <4>2 DEF IsWhole
      <4> QED BY <4>3, <4>4
    <3> QED BY <3>3, <3>4
  <2>4. l \in Nat
    BY LimitsAssumption DEF Lba
  <2> QED BY <1>2, <2>1, <2>2, <2>3, <2>4
<1>9. AheadOK'
  BY <1>1, <1>8, SearchStays DEF AheadOK
<1> QED BY <1>6, <1>7, <1>9 DEF SearchedOK

LEMMA CarveFragmentsSearched ==
  ASSUME UseOK, SearchedOK, FindsOK, CarveFragments
  PROVE  SearchedOK'
<1> DEFINE lba   == Min(Headers)
           found == FragmentsAt(claimed, lba)
<1>1. /\ phase = "tier3" /\ phase' = "tier3" /\ Headers # {} /\ rebuilt' = rebuilt \cup found
      /\ claimed' = claimed \cup UNION {Covered(a.loc) : a \in found}
      /\ pos' = lba + 1 /\ tiers' = tiers /\ arts' = arts /\ UNCHANGED volume
  BY DEF CarveFragments, FragmentsAt
<1>2. /\ lba \in Lba /\ lba \in Nat /\ IsHeader(disk[lba]) /\ \A l \in Headers : lba <= l
  <2>1. Headers \in SUBSET Nat
    BY LimitsAssumption DEF Headers, Lba
  <2> QED BY <1>1, <2>1, LeastMin, HeadersAre
<1> HIDE DEF lba
<1>3. ASSUME NEW a \in found PROVE Begin(a) = lba /\ a.tier = 3
  <2>1. DiskOK /\ scen \in Scenarios
    BY DEF UseOK, VolumeOK
  <2>2. IsRebuilding(a) /\ Begin(a) = lba
    BY <1>2, <2>1, Tier3ArtifactIs DEF FragmentsAt
  <2> QED BY <2>2 DEF IsRebuilding
<1> HIDE DEF found
<1>4. ClaimedOK'
  <2>1. ASSUME NEW l \in claimed' PROVE \E a \in arts' \cup rebuilt' : Takes(a) /\ l \in Covered(a.loc)
    <3>1. CASE l \in claimed
      BY <1>1, <3>1 DEF SearchedOK, ClaimedOK
    <3>2. CASE l \notin claimed
      <4>1. PICK a \in found : l \in Covered(a.loc)
        BY <1>1, <3>2
      <4> QED BY <1>1, <1>3, <4>1 DEF Takes
    <3> QED BY <3>1, <3>2
  <2> QED BY <2>1 DEF ClaimedOK
<1>5. claimed \in SUBSET claimed' /\ \A cl : cl \in SUBSET claimed => cl \in SUBSET claimed'
  BY <1>1
<1>6. OriginOK'
  <2>1. ASSUME NEW a \in rebuilt'
        PROVE  IsHeader(disk[Begin(a)]) /\ \E cl \in SUBSET claimed' : a \in FragmentsAt(cl, Begin(a))
    <3>1. CASE a \in rebuilt
      BY <1>5, <3>1 DEF SearchedOK, OriginOK
    <3>2. CASE a \in found
      BY <1>2, <1>3, <1>5, <3>2 DEF found
    <3> QED BY <1>1, <3>1, <3>2
  <2> QED BY <1>1, <2>1, SearchStays DEF SearchedOK, OriginOK
<1>7. ASSUME 3 \in tiers, NEW l \in Lba, Known(l), ~ (l >= pos')
      PROVE  \/ l \in claimed'
             \/ \E cl \in SUBSET claimed' : FragmentsAt(cl, l) \subseteq rebuilt'
  <2>1. CASE l >= pos /\ l \notin claimed
    <3>1. l \in Headers
      BY <1>7, <2>1 DEF Headers, Known
    <3>2. l = lba
      BY <1>1, <1>2, <1>7, <3>1, LimitsAssumption DEF Lba
    <3> QED BY <1>1, <1>5, <3>2 DEF found
  <2>2. CASE ~ (l >= pos) \/ l \in claimed
    <3>1. l \in claimed \/ \E cl \in SUBSET claimed : FragmentsAt(cl, l) \subseteq rebuilt
      BY <1>1, <1>7, <2>2 DEF SearchedOK, AheadOK
    <3>2. CASE l \in claimed
      BY <1>5, <3>2
    <3>3. CASE \E cl \in SUBSET claimed : FragmentsAt(cl, l) \subseteq rebuilt
      <4>1. PICK cl \in SUBSET claimed : FragmentsAt(cl, l) \subseteq rebuilt
        BY <3>3
      <4>2. cl \in SUBSET claimed' /\ FragmentsAt(cl, l) \subseteq rebuilt'
        BY <1>1, <1>5, <4>1
      <4> QED BY <4>2
    <3> QED BY <3>1, <3>2, <3>3
  <2> QED BY <2>1, <2>2
<1>8. AheadOK'
  <2>1. ASSUME 2 \in tiers, NEW l \in Lba, Known(l)
        PROVE  \/ \E a \in arts : (IsSure(a) \/ IsWhole(a)) /\ l \in Covered(a.loc)
               \/ \A a \in SignatureAt(l) : a \in arts \/ a.limited
    BY <1>1, <2>1 DEF SearchedOK, AheadOK
  <2>2. (2 \in tiers /\ phase \in {"tier2", "tier3", "done"} =>
       \A l \in Lba : Known(l) =>
          \/ phase = "tier2" /\ l >= pos
          \/ \E a \in arts : (IsSure(a) \/ IsWhole(a)) /\ l \in Covered(a.loc)
          \/ \A a \in SignatureAt(l) : a \in arts \/ a.limited)'
    BY <1>1, <2>1, SearchStays
  <2>3. (3 \in tiers /\ phase \in {"tier3", "done"} =>
       \A l \in Lba : Known(l) =>
          \/ phase = "tier3" /\ l >= pos
          \/ l \in claimed
          \/ \E cl \in SUBSET claimed : FragmentsAt(cl, l) \subseteq rebuilt)'
    BY <1>1, <1>7, SearchStays
  <2> QED BY <2>2, <2>3 DEF AheadOK
<1> QED BY <1>4, <1>6, <1>8 DEF SearchedOK

LEMMA FinishSearched ==
  ASSUME UseOK, SearchedOK, FindsOK, Finish
  PROVE  SearchedOK'
<1> DEFINE dropped(a) == a.limited /\ Starts({a}) \cap Starts(rebuilt) # {}
<1>1. /\ phase = "tier3" /\ phase' = "done" /\ rebuilt' = rebuilt /\ claimed' = claimed
      /\ arts' = {a \in arts : ~ dropped(a)} \cup rebuilt
      /\ tiers' = tiers /\ UNCHANGED volume /\ (3 \notin tiers \/ Headers = {})
  BY DEF Finish
<1>2. ASSUME NEW a \in arts, IsSure(a) \/ IsWhole(a), Covered(a.loc) # {} PROVE a \in arts'
  <2>1. ~ dropped(a)
    BY <1>2, DroppedIsNothing DEF IsWhole
  <2> QED BY <1>1, <2>1
<1>3. \A a \in arts : a \in arts' \/ a.limited
  BY <1>1
<1> HIDE DEF dropped
<1>4. \A a \in rebuilt : a.tier = 3
  BY DEF FindsOK, ShapesOK, IsRebuilding
<1>5. ClaimedOK'
  <2>1. ASSUME NEW l \in claimed PROVE \E a \in arts' \cup rebuilt' : Takes(a) /\ l \in Covered(a.loc)
    <3>1. PICK a \in arts \cup rebuilt : Takes(a) /\ l \in Covered(a.loc)
      BY DEF SearchedOK, ClaimedOK
    <3>2. CASE a \in rebuilt
      BY <1>1, <3>1, <3>2
    <3>3. CASE a \in arts /\ a \notin rebuilt
      <4>1. a.tier # 3
        BY <3>3, FindIs DEF FindsOK
      <4>2. IsSure(a) \/ IsWhole(a)
        BY <3>1, <4>1 DEF Takes
      <4>3. a \in arts'
        BY <1>2, <3>1, <3>3, <4>2
      <4> QED BY <3>1, <4>3
    <3> QED BY <3>2, <3>3
  <2> QED BY <1>1, <2>1 DEF ClaimedOK
<1>6. OriginOK'
  <2>1. ASSUME NEW a \in arts', a.tier = 2 PROVE IsHeader(disk[Begin(a)]) /\ a \in SignatureAt(Begin(a))
    <3>1. a \in arts
      BY <1>1, <1>4, <2>1
    <3> QED BY <2>1, <3>1 DEF SearchedOK, OriginOK
  <2>2. \A a \in rebuilt : IsHeader(disk[Begin(a)]) /\ \E cl \in SUBSET claimed : a \in FragmentsAt(cl, Begin(a))
    BY DEF SearchedOK, OriginOK
  <2>3. (\A a \in arts : a.tier = 2 => IsHeader(disk[Begin(a)]) /\ a \in SignatureAt(Begin(a)))'
    BY <2>1, <1>1, SearchStays
  <2>4. (\A a \in rebuilt : IsHeader(disk[Begin(a)]) /\ \E cl \in SUBSET claimed : a \in FragmentsAt(cl, Begin(a)))'
    BY <2>2, <1>1, SearchStays
  <2> QED BY <2>3, <2>4 DEF OriginOK
<1>7. ASSUME 2 \in tiers, NEW l \in Lba, Known(l)
      PROVE  \/ \E a \in arts' : (IsSure(a) \/ IsWhole(a)) /\ l \in Covered(a.loc)
             \/ \A a \in SignatureAt(l) : a \in arts' \/ a.limited
  <2>1. \/ \E a \in arts : (IsSure(a) \/ IsWhole(a)) /\ l \in Covered(a.loc)
        \/ \A a \in SignatureAt(l) : a \in arts \/ a.limited
    BY <1>1, <1>7 DEF SearchedOK, AheadOK
  <2>2. CASE \E a \in arts : (IsSure(a) \/ IsWhole(a)) /\ l \in Covered(a.loc)
    BY <1>2, <2>2
  <2>3. CASE \A a \in SignatureAt(l) : a \in arts \/ a.limited
    BY <1>3, <2>3
  <2> QED BY <2>1, <2>2, <2>3
<1>8. ASSUME 3 \in tiers, NEW l \in Lba, Known(l)
      PROVE  l \in claimed \/ \E cl \in SUBSET claimed : FragmentsAt(cl, l) \subseteq rebuilt
  <2>1. l >= pos => l \in claimed
    BY <1>1, <1>8 DEF Headers, Known
  <2> QED BY <1>1, <1>8, <2>1 DEF SearchedOK, AheadOK
<1>9. AheadOK'
  <2>1. (2 \in tiers /\ phase \in {"tier2", "tier3", "done"} =>
       \A l \in Lba : Known(l) =>
          \/ phase = "tier2" /\ l >= pos
          \/ \E a \in arts : (IsSure(a) \/ IsWhole(a)) /\ l \in Covered(a.loc)
          \/ \A a \in SignatureAt(l) : a \in arts \/ a.limited)'
    BY <1>1, <1>7, SearchStays
  <2>2. (3 \in tiers /\ phase \in {"tier3", "done"} =>
       \A l \in Lba : Known(l) =>
          \/ phase = "tier3" /\ l >= pos
          \/ l \in claimed
          \/ \E cl \in SUBSET claimed : FragmentsAt(cl, l) \subseteq rebuilt)'
    BY <1>1, <1>8, SearchStays
  <2> QED BY <2>1, <2>2 DEF AheadOK
<1> QED BY <1>5, <1>6, <1>9 DEF SearchedOK

LEMMA SearchedStep ==
  ASSUME UseOK, SearchedOK, FindsOK, [Next]_vars
  PROVE  SearchedOK'
<1>1. CASE UNCHANGED vars
  <2>1. UNCHANGED volume /\ UNCHANGED pipeline
    BY <1>1 DEF vars
  <2>2. /\ phase' = phase /\ tiers' = tiers /\ pos' = pos /\ claimed' = claimed
        /\ arts' = arts /\ rebuilt' = rebuilt
    BY <2>1 DEF pipeline
  <2>3. ClaimedOK' /\ OriginOK'
    BY <2>1, <2>2, SearchStays DEF SearchedOK, ClaimedOK, OriginOK
  <2>4. AheadOK'
    BY <2>1, <2>2, SearchStays DEF SearchedOK, AheadOK
  <2> QED BY <2>3, <2>4 DEF SearchedOK
<1> QED BY <1>1, EarlySearched, RunTier1Searched, CarveSignatureSearched, EndTier2Searched,
           CarveFragmentsSearched, FinishSearched DEF Next

(* What is claimed lies under a find; a header the search has passed lies  *)
(* under one too, or what it leads to was kept, unless it was truncated,   *)
(* or was rebuilt (AllocatedBlockMap and the scans of tiers 2 and 3).      *)
THEOREM AllIsSearched == Spec => []SearchedOK
<1>1. Init => SearchedOK
  BY SearchedInit
<1>2. UseOK /\ FindsOK /\ SearchedOK /\ [Next]_vars => SearchedOK'
  BY SearchedStep
<1> QED BY <1>1, <1>2, UseIsOK, FindsAreOK, PTL DEF Spec

-----------------------------------------------------------------------------
(* Intact files are carved.                                                *)

(* What was rebuilt is among the finds in the end.                         *)
KeptOK == Done => rebuilt \subseteq arts

LEMMA RebuiltAreKept == Spec => []KeptOK
<1>1. Init => KeptOK
  BY DEF Init, KeptOK, Done
<1>2. ASSUME KeptOK, [Next]_vars PROVE KeptOK'
  <2>1. CASE Finish
    BY <2>1 DEF Finish, KeptOK
  <2>2. CASE InUse \/ Start \/ RunTier1 \/ CarveSignature \/ EndTier2 \/ CarveFragments
    <3>1. phase' # "done"
      BY <2>2 DEF InUse, Start, RunTier1, CarveSignature, EndTier2, CarveFragments, pipeline
    <3> QED BY <3>1 DEF KeptOK, Done
  <2>3. CASE UNCHANGED vars
    <3>1. phase' = phase /\ arts' = arts /\ rebuilt' = rebuilt
      BY <2>3 DEF vars, pipeline
    <3> QED BY <1>2, <3>1 DEF KeptOK, Done
  <2> QED BY <1>2, <2>1, <2>2, <2>3 DEF Next
<1> QED BY <1>1, <1>2, PTL DEF Spec

LEMMA HeaderIs ==
  ASSUME DiskOK, NEW l \in Lba, NEW f \in Files, disk[l][1] = f, IsHeader(disk[l])
  PROVE  disk[l] = <<f, 1>>
<1>1. disk[l] \in Parts /\ disk[l][1] = f /\ disk[l][2] = 1
  BY DEF DiskOK, IsHeader
<1>2. disk[l] # Zero /\ disk[l] # Noise
  BY PartsAre
<1> DEFINE N == 1 .. (Max({FileLen[g] : g \in Files}) + 1)
<1>3. disk[l] \in (Files \cup {Dir}) \X N
  BY <1>1, <1>2 DEF Parts
<1> HIDE DEF N
<1> QED BY <1>1, <1>3

(* A find of a carving tier lies at the header of its file.                *)
LEMMA HeaderOfFind ==
  ASSUME UseOK, FindsOK, SearchedOK, NEW a \in arts \cup rebuilt, IsWhole(a) \/ a.tier = 3,
         NEW f \in Files, a.file = f
  PROVE  /\ Begin(a) \in Lba /\ disk[Begin(a)] = <<f, 1>>
         /\ \/ a.tier = 2 /\ a \in arts /\ ~ a.limited /\ a \in SignatureAt(Begin(a))
            \/ a.tier = 3 /\ a \in rebuilt /\ \E cl : a \in FragmentsAt(cl, Begin(a))
<1>1. DiskOK /\ scen \in Scenarios
  BY DEF UseOK, VolumeOK
<1>2. CASE IsWhole(a)
  <2>1. a.tier = 2 /\ ~ a.limited /\ a \in arts /\ IsCarving(a)
    BY <1>2, FindIs DEF FindsOK, IsWhole
  <2>2. IsHeader(disk[Begin(a)]) /\ a \in SignatureAt(Begin(a)) /\ Begin(a) \in Lba
    BY <2>1, CarvingIs DEF SearchedOK, OriginOK
  <2>3. a.file = disk[Begin(a)][1]
    BY <1>1, <2>2, Tier2ArtifactIs DEF SignatureAt
  <2> QED BY <1>1, <2>1, <2>2, <2>3, HeaderIs
<1>3. CASE a.tier = 3
  <2>1. a \in rebuilt /\ IsRebuilding(a)
    BY <1>3, FindIs DEF FindsOK
  <2>2. /\ IsHeader(disk[Begin(a)]) /\ Begin(a) \in Lba
        /\ \E cl : a \in FragmentsAt(cl, Begin(a))
    BY <2>1, RebuildingIs DEF SearchedOK, OriginOK
  <2>3. a.file = disk[Begin(a)][1]
    BY <1>1, <2>2, Tier3ArtifactIs DEF FragmentsAt
  <2> QED BY <1>1, <1>3, <2>1, <2>2, <2>3, HeaderIs
<1> QED BY <1>2, <1>3

(* What a file's own find holds is the file.                               *)
LEMMA OwnFind ==
  ASSUME UseOK, FindsOK, SearchedOK, KeptOK, Done, NEW f \in Files, Checked(f),
         NEW a \in arts \cup rebuilt, IsWhole(a) \/ a.tier = 3, a.file = f
  PROVE  Found(f)
<1>1. DiskOK /\ scen \in Scenarios /\ a \in arts
  BY DEF UseOK, VolumeOK, KeptOK
<1>2. CASE a.tier = 2 /\ a \in arts /\ ~ a.limited /\ a \in SignatureAt(Begin(a))
  <2>1. a.payload = Whole(f)
    BY <1>1, <1>2, HeaderOfFind, WholeFind DEF SignatureAt
  <2> QED BY <1>2, <2>1 DEF Found
<1>3. CASE a.tier = 3 /\ \E cl : a \in FragmentsAt(cl, Begin(a))
  <2>1. PICK cl : a \in FragmentsAt(cl, Begin(a))
    BY <1>3
  <2>2. a.payload = Whole(f)
    BY <1>1, <2>1, HeaderOfFind, RebuiltFind DEF FragmentsAt
  <2> QED BY <1>1, <1>3, <2>2 DEF Found
<1> QED BY <1>2, <1>3, HeaderOfFind

(* A sector neither tier 1 nor a find of another file took is taken by a   *)
(* find of the file, or by none.                                           *)
LEMMA TakerIs ==
  ASSUME UseOK, FindsOK, KeptOK, Done, NEW l, Sound({l}), NEW f, l \notin TakenByOthers(f),
         NEW a \in arts \cup rebuilt, Takes(a), l \in Covered(a.loc)
  PROVE  (IsWhole(a) \/ a.tier = 3) /\ a.file = f
<1>1. a \in arts
  BY DEF KeptOK
<1>2. ~ IsSure(a)
  <2> SUFFICES ASSUME IsSure(a) PROVE FALSE
    OBVIOUS
  <2>1. a.tier = 1
    BY FindIs DEF FindsOK
  <2>2. l \in Claims({b \in arts : b.tier = 1})
    BY <1>1, <2>1 DEF Claims, IsSure
  <2> QED BY <2>2 DEF Sound
<1>3. IsWhole(a) \/ a.tier = 3
  BY <1>2 DEF Takes
<1>4. a.tier > 1 /\ (~ a.limited \/ a.tier = 3)
  BY <1>3 DEF IsWhole
<1> QED BY <1>1, <1>3, <1>4 DEF TakenByOthers

LEMMA ClaimedIsFound ==
  ASSUME UseOK, FindsOK, SearchedOK, KeptOK, Done, NEW f \in Files, Checked(f),
         NEW l \in claimed, Sound({l}), l \notin TakenByOthers(f)
  PROVE  Found(f)
<1>1. PICK a \in arts \cup rebuilt : Takes(a) /\ l \in Covered(a.loc)
  BY DEF SearchedOK, ClaimedOK
<1>2. (IsWhole(a) \/ a.tier = 3) /\ a.file = f
  BY <1>1, TakerIs
<1> QED BY <1>2, OwnFind

(* A file in one piece.                                                    *)
LEMMA OnePieceIsFound ==
  ASSUME UseOK, FindsOK, SearchedOK, KeptOK, PartsOK, Done, 2 \in tiers, scen.bad = {},
         NEW f \in Files, scen.class[f] \in {"chunked", "mapped"}, NEW l \in 0 .. Total - FileLen[f],
         LiesAt(f, <<<<l, FileLen[f]>>>>), Sound({l}), l \notin TakenByOthers(f),
         FileLen[f] <= MaxObject, FileLen[f] <= FullWindow
  PROVE  Found(f)
<1>1. DiskOK /\ scen \in Scenarios
  BY DEF UseOK, VolumeOK
<1>2. l \in Lba /\ l \in Nat /\ l + FileLen[f] <= Total /\ FileLen[f] \in Nat \ {0}
  BY LimitsAssumption, FilesAssumption DEF Lba
<1> DEFINE x == <<l, FileLen[f]>>
<1>3. x \in Extents /\ x[1] = l /\ x[2] = FileLen[f]
  BY <1>2 DEF Extents
<1>4. SectorSeq(<<x>>) = Run(x) /\ \A k \in 1 .. FileLen[f] : Run(x)[k] = l + k - 1
  BY <1>3, SectorSeqTwo, RunIs
<1>5. \A k \in 1 .. FileLen[f] : disk[l + k - 1] = <<f, k>>
  BY <1>4 DEF LiesAt
<1> HIDE DEF x
<1>6. disk[l] = <<f, 1>>
  <2>1. 1 \in 1 .. FileLen[f] /\ l + 1 - 1 = l
    BY <1>2
  <2> QED BY <1>5, <2>1
<1>7. Known(l)
  BY <1>6 DEF Known, IsHeader
<1>8. PICK b \in SignatureAt(l) : ~ b.limited /\ b.payload = Whole(f)
  BY <1>1, <1>2, <1>5, VisitedIsFound DEF SignatureAt
<1>9. b.tier = 2
  BY <1>1, <1>2, <1>7, Tier2ArtifactIs DEF Known, SignatureAt, IsCarving
<1>10. b \in arts
  <2>1. CASE \E a \in arts : (IsSure(a) \/ IsWhole(a)) /\ l \in Covered(a.loc)
    <3>1. PICK a \in arts : (IsSure(a) \/ IsWhole(a)) /\ l \in Covered(a.loc)
      BY <2>1
    <3>2. (IsWhole(a) \/ a.tier = 3) /\ a.file = f
      BY <3>1, TakerIs DEF Takes
    <3>3. ~ IsSure(a)
      BY <3>2, FindIs DEF FindsOK, IsWhole
    <3>4. a.tier = 2 /\ disk[Begin(a)] = <<f, 1>> /\ Begin(a) \in Lba /\ a \in SignatureAt(Begin(a))
      BY <3>1, <3>2, <3>3, HeaderOfFind DEF IsWhole
    <3>5. Begin(a) = l
      <4>1. disk[Begin(a)] = disk[l] /\ disk[l][1] \in Files
        BY <1>6, <3>4
      <4> QED BY <1>2, <3>4, <4>1 DEF PartsOK
    <3>6. a = b
      BY <3>4, <3>5, OneFind DEF SignatureAt
    <3> QED BY <3>1, <3>6
  <2>2. CASE \A a \in SignatureAt(l) : a \in arts \/ a.limited
    BY <1>8, <2>2
  <2> QED BY <1>2, <1>7, <2>1, <2>2 DEF SearchedOK, AheadOK, Done
<1> QED BY <1>8, <1>9, <1>10 DEF Found

(* A file in two pieces.                                                   *)
LEMMA TwoPiecesAreFound ==
  ASSUME UseOK, FindsOK, SearchedOK, KeptOK, Done, 3 \in tiers, scen.bad = {},
         NEW f \in Files, Checked(f), NEW l \in Lba, NEW cut, NEW gap, LiesInTwo(f, l, cut, gap),
         FileLen[f] <= MaxPieces,
         NEW loc, loc = Bifragment(l, FileLen[f], cut, gap),
         Sound(Covered(loc)), Covered(loc) \cap TakenByOthers(f) = {}
  PROVE  Found(f)
<1>1. DiskOK /\ scen \in Scenarios /\ scen.class[f] \in {"chunked", "mapped"}
  BY DEF UseOK, VolumeOK, Checked
<1>2. disk[l] = <<f, 1>>
  <2> DEFINE head == Data(medium, l, cut)
             tail == Data(medium, l + cut + gap, FileLen[f] - cut)
             both == head \o tail
  <2> HIDE DEF head, tail, both
  <2>1. TwoPieces(f, l, cut, head, both)
    BY <1>1, PiecesAre DEF head, tail, both
  <2> QED BY <2>1 DEF TwoPieces
<1>3. Known(l)
  BY <1>2 DEF Known, IsHeader
<1>4. ASSUME NEW x \in claimed, x \in Covered(loc) PROVE Found(f)
  <2>1. Sound({x}) /\ x \notin TakenByOthers(f)
    BY <1>4 DEF Sound
  <2> QED BY <2>1, ClaimedIsFound
<1>5. CASE l \in claimed
  <2>1. l \in Covered(loc)
    <3>1. /\ l \in Nat /\ cut \in Nat /\ cut >= 1
      BY LimitsAssumption, FilesAssumption DEF Lba, LiesInTwo
    <3>2. loc[1] = <<l, cut>> /\ 1 \in DOMAIN loc
      BY DEF Bifragment
    <3>3. l \in Sectors(loc[1])
      BY <3>1, <3>2 DEF Sectors
    <3> QED BY <3>2, <3>3 DEF Covered
  <2> QED BY <1>4, <1>5, <2>1
<1>6. CASE \E cl \in SUBSET claimed : FragmentsAt(cl, l) \subseteq rebuilt
  <2>1. PICK cl \in SUBSET claimed : FragmentsAt(cl, l) \subseteq rebuilt
    BY <1>6
  <2>2. CASE Covered(loc) \cap cl = {}
    <3>1. PICK a : a \in Tier3Artifact(scen.class, medium, cl, l)
      BY <1>1, <2>2, VisitedIsRebuilt DEF LiesInTwo
    <3>2. a \in arts
      BY <2>1, <3>1 DEF FragmentsAt, KeptOK
    <3>3. a.payload = Whole(f)
      BY <1>1, <1>2, <3>1, RebuiltFind
    <3>4. a.tier = 3
      BY <1>1, <1>3, <3>1, Tier3ArtifactIs DEF Known, IsRebuilding
    <3> QED BY <3>2, <3>3, <3>4 DEF Found
  <2>3. CASE Covered(loc) \cap cl # {}
    BY <1>4, <2>1, <2>3
  <2> QED BY <2>2, <2>3
<1> QED BY <1>3, <1>5, <1>6 DEF SearchedOK, AheadOK, Done

(* A file whose validator checks its contents is carved when it lies whole *)
(* on the medium, in one piece or in two, and nothing of it was taken:     *)
(* carve_tier2_with_analyzer and carve_tier3_with_analyzer miss none.      *)
THEOREM IntactAreCarved == Spec => []IntactFilesAreCarved
<1>1. ASSUME UseOK, FindsOK, SearchedOK, KeptOK, PartsOK PROVE IntactFilesAreCarved
  <2> SUFFICES ASSUME Done, 2 \in tiers, 3 \in tiers, NEW f \in Files,
                      scen.class[f] \in {"chunked", "mapped"}, scen.bad = {}
               PROVE  /\ \A l \in 0 .. Total - FileLen[f] :
                           LET loc == <<<<l, FileLen[f]>>>> IN
                           /\ LiesAt(f, loc) /\ Sound({l}) /\ l \notin TakenByOthers(f)
                           /\ FileLen[f] <= Min({MaxObject, FullWindow})
                           => Found(f)
                      /\ \A l \in Lba, cut \in 1 .. FileLen[f] - 1, gap \in 1..Radius :
                           LET loc == Bifragment(l, FileLen[f], cut, gap) IN
                           /\ scen.class[f] = "mapped" => FileLen[f] <= 3
                           /\ l + FileLen[f] + gap < Total /\ FileLen[f] <= MaxPieces
                           /\ LiesAt(f, loc) /\ Sound(Covered(loc)) /\ Covered(loc) \cap TakenByOthers(f) = {}
                           => Found(f)
    BY DEF IntactFilesAreCarved
  <2>1. ASSUME NEW l \in 0 .. Total - FileLen[f], LiesAt(f, <<<<l, FileLen[f]>>>>),
               Sound({l}), l \notin TakenByOthers(f), FileLen[f] <= Min({MaxObject, FullWindow})
        PROVE  Found(f)
    <3>1. FileLen[f] <= MaxObject /\ FileLen[f] <= FullWindow
      <4>1. MaxObject \in Nat /\ FullWindow \in Nat /\ FileLen[f] \in Nat
        BY LimitsAssumption, FilesAssumption
      <4>2. Min({MaxObject, FullWindow}) = IF MaxObject <= FullWindow THEN MaxObject ELSE FullWindow
        BY <4>1, LeastOfTwo
      <4> QED BY <2>1, <4>1, <4>2
    <3> QED BY <1>1, <2>1, <3>1, OnePieceIsFound
  <2>2. ASSUME NEW l \in Lba, NEW cut \in 1 .. FileLen[f] - 1, NEW gap \in 1..Radius,
               scen.class[f] = "mapped" => FileLen[f] <= 3,
               l + FileLen[f] + gap < Total, FileLen[f] <= MaxPieces,
               NEW loc, loc = Bifragment(l, FileLen[f], cut, gap),
               LiesAt(f, loc), Sound(Covered(loc)), Covered(loc) \cap TakenByOthers(f) = {}
        PROVE  Found(f)
    <3>1. Checked(f) /\ LiesInTwo(f, l, cut, gap)
      BY <2>2 DEF Checked, LiesInTwo
    <3> QED BY <1>1, <2>2, <3>1, TwoPiecesAreFound
  <2> QED BY <2>1, <2>2
<1> QED BY <1>1, UseIsOK, FindsAreOK, AllIsSearched, RebuiltAreKept, PartsAreOnce, PTL

=============================================================================
