---------------------------- MODULE NatRecursion ----------------------------
(***************************************************************************)
(* Induction and recursion over the naturals, stated of sets and functions *)
(* instead of operators, so that a proof can use them with any backend.    *)
(* They rest on the library's theorem that every nonempty set of naturals  *)
(* has a least element (WFMin).                                            *)
(***************************************************************************)
EXTENDS Integers, WellFoundedInduction, TLAPS

(* Every nonempty set of naturals has a least element. *)
LEMMA LeastNatural ==
  ASSUME NEW T, T \subseteq Nat, T # {}
  PROVE  \E least \in T : \A n \in T : ~(n < least)
<1>1. IsWellFoundedOn(OpToRel(<, Nat), Nat)
  BY NatLessThanWellFounded
<1>2. \E least \in T : \A n \in T : ~(<<n, least>> \in OpToRel(<, Nat))
  BY <1>1, WFMin
<1> QED
  BY <1>2 DEF OpToRel

(* A set with 0 and the successors of its members has all naturals. *)
LEMMA Induction ==
  ASSUME NEW S, 0 \in S, \A n \in Nat : n \in S => n + 1 \in S
  PROVE  \A n \in Nat : n \in S
<1> DEFINE T == Nat \ S
<1> SUFFICES ASSUME T # {} PROVE FALSE
  OBVIOUS
<1>1. PICK least \in T : \A n \in T : ~(n < least)
  BY LeastNatural
<1>2. least # 0 /\ least - 1 \in Nat /\ least - 1 \notin T
  BY <1>1
<1> QED
  BY <1>1, <1>2

(* What comes in levels, the parts of a thing below it: all below level n. *)
Below(levels, n) == UNION {levels[m] : m \in 0 .. n - 1}

(* So has one that has every natural with all smaller ones. *)
LEMMA StrongInduction ==
  ASSUME NEW S, \A n \in Nat : (\A m \in 0 .. n - 1 : m \in S) => n \in S
  PROVE  \A n \in Nat : n \in S
<1> DEFINE T == {n \in Nat : \A m \in 0 .. n - 1 : m \in S}
<1>1. 0 \in T
  OBVIOUS
<1>2. ASSUME NEW n \in Nat, n \in T PROVE n + 1 \in T
  <2>1. n \in S
    BY <1>2
  <2>2. \A m \in 0 .. (n + 1) - 1 : m = n \/ m \in 0 .. n - 1
    OBVIOUS
  <2> QED
    BY <1>2, <2>1, <2>2
<1> HIDE DEF T
<1>3. \A n \in Nat : n \in T
  BY <1>1, <1>2, Induction
<1>4. \A n \in Nat : n + 1 \in Nat /\ n \in 0 .. (n + 1) - 1
  OBVIOUS
<1> QED
  BY <1>3, <1>4 DEF T

(* The sequence that begins with first and whose next value is made of the *)
(* place and the value before.                                             *)
Follows(f, first, step) ==
    f[0] = first /\ \A n \in Nat : f[n + 1] = step[<<n, f[n]>>]

(* The same of a sequence of n places. *)
FollowsAlong(g, n, first, step) ==
    /\ n > 0 => g[1] = first
    /\ \A r \in 1 .. n - 1 : g[r + 1] = step[<<r, g[r]>>]

(* A first value and a way from each value to the next make a sequence. *)
LEMMA Recursion ==
  ASSUME NEW V, NEW first \in V, NEW step \in [Nat \X V -> V]
  PROVE  \E f \in [Nat -> V] : Follows(f, first, step)
<1> DEFINE Upto(n) == {h \in [0 .. n -> V] :
                         h[0] = first /\ \A i \in 0 .. n - 1 : h[i + 1] = step[<<i, h[i]>>]}
           Some(n) == CHOOSE h : h \in Upto(n)
           f == [n \in Nat |-> Some(n)[n]]
<1>1. \A n \in Nat : Upto(n) # {}
  <2> DEFINE S == {n \in Nat : Upto(n) # {}}
  <2>1. 0 \in S
    <3>1. [i \in 0 .. 0 |-> first] \in Upto(0)
      OBVIOUS
    <3> QED
      BY <3>1
  <2>2. ASSUME NEW n \in Nat, n \in S PROVE n + 1 \in S
    <3>1. PICK h \in [0 .. n -> V] :
             h[0] = first /\ \A i \in 0 .. n - 1 : h[i + 1] = step[<<i, h[i]>>]
      BY <2>2
    <3> DEFINE g == [i \in 0 .. n + 1 |-> IF i = n + 1 THEN step[<<n, h[n]>>] ELSE h[i]]
    <3>2. h[n] \in V /\ step[<<n, h[n]>>] \in V
      BY <3>1
    <3>3. \A i \in 0 .. n + 1 : i = n + 1 \/ (i \in 0 .. n /\ i # n + 1)
      OBVIOUS
    <3>4. g \in [0 .. n + 1 -> V]
      BY <3>1, <3>2, <3>3
    <3>5. g[0] = first
      BY <3>1
    <3>6. ASSUME NEW i \in 0 .. (n + 1) - 1 PROVE g[i + 1] = step[<<i, g[i]>>]
      <4>1. i \in 0 .. n /\ i \in 0 .. n + 1 /\ i + 1 \in 0 .. n + 1 /\ i # n + 1
        OBVIOUS
      <4>2. g[i] = h[i]
        BY <4>1
      <4>3. CASE i = n
        BY <4>1, <4>2, <4>3
      <4>4. CASE i # n
        <5>1. i \in 0 .. n - 1 /\ i + 1 # n + 1
          BY <4>1, <4>4
        <5>2. g[i + 1] = h[i + 1]
          BY <4>1, <5>1
        <5> QED
          BY <3>1, <4>2, <5>1, <5>2
      <4> QED
        BY <4>3, <4>4
    <3> HIDE DEF g
    <3>7. g \in Upto(n + 1)
      BY <3>4, <3>5, <3>6
    <3> QED
      BY <3>7
  <2> HIDE DEF S
  <2>3. \A n \in Nat : n \in S
    BY <2>1, <2>2, Induction
  <2> QED
    BY <2>3 DEF S
<1>2. ASSUME NEW n \in Nat, NEW m \in Nat, NEW h \in Upto(n), NEW g \in Upto(m)
      PROVE  \A i \in Nat : i <= n /\ i <= m => h[i] = g[i]
  <2> DEFINE S == {i \in Nat : i <= n /\ i <= m => h[i] = g[i]}
  <2>1. 0 \in S
    OBVIOUS
  <2>2. ASSUME NEW i \in Nat, i \in S PROVE i + 1 \in S
    <3> SUFFICES ASSUME i + 1 <= n, i + 1 <= m PROVE h[i + 1] = g[i + 1]
      OBVIOUS
    <3>1. i \in 0 .. n - 1 /\ i \in 0 .. m - 1 /\ h[i] = g[i]
      BY <2>2
    <3> QED
      BY <3>1
  <2> HIDE DEF S
  <2>3. \A i \in Nat : i \in S
    BY <2>1, <2>2, Induction
  <2> QED
    BY <2>3 DEF S
<1>3. \A n \in Nat : Some(n) \in Upto(n)
  BY <1>1
<1> HIDE DEF Some
<1>4. f \in [Nat -> V] /\ f[0] = first
  BY <1>3
<1>5. ASSUME NEW n \in Nat PROVE f[n + 1] = step[<<n, f[n]>>]
  <2>1. Some(n + 1) \in Upto(n + 1) /\ Some(n) \in Upto(n)
    BY <1>3
  <2>2. Some(n + 1)[n] = Some(n)[n]
    <3> HIDE DEF Upto
    <3>1. n + 1 \in Nat /\ n <= n + 1
      OBVIOUS
    <3> QED
      BY <1>2, <2>1, <3>1
  <2>3. Some(n + 1)[n + 1] = step[<<n, Some(n + 1)[n]>>]
    <3>1. n \in 0 .. (n + 1) - 1
      OBVIOUS
    <3> QED
      BY <2>1, <3>1
  <2> QED
    BY <2>2, <2>3
<1> QED
  BY <1>4, <1>5 DEF Follows

(* Induction along a sequence of n places. *)
LEMMA InductionAlong ==
  ASSUME NEW n \in Nat, NEW S, n > 0 => 1 \in S, \A r \in 1 .. n - 1 : r \in S => r + 1 \in S
  PROVE  \A r \in 1 .. n : r \in S
<1> DEFINE T == {i \in Nat : i + 1 \in 1 .. n => i + 1 \in S}
<1>1. 0 \in T
  OBVIOUS
<1>2. ASSUME NEW i \in Nat, i \in T PROVE i + 1 \in T
  <2> SUFFICES ASSUME (i + 1) + 1 \in 1 .. n PROVE (i + 1) + 1 \in S
    OBVIOUS
  <2>1. i + 1 \in 1 .. n - 1 /\ i + 1 \in S
    BY <1>2
  <2> QED
    BY <2>1
<1> HIDE DEF T
<1>3. \A i \in Nat : i \in T
  BY <1>1, <1>2, Induction
<1>4. ASSUME NEW r \in 1 .. n PROVE r \in S
  <2>1. r - 1 \in Nat /\ (r - 1) + 1 = r
    OBVIOUS
  <2>2. r - 1 \in T
    BY <1>3, <2>1
  <2> QED
    BY <2>1, <2>2 DEF T
<1> QED
  BY <1>4

(* Recursion along a sequence of n places. *)
LEMMA RecursionAlong ==
  ASSUME NEW n \in Nat, NEW V, NEW first \in V, NEW step \in [Nat \X V -> V]
  PROVE  \E g \in [1 .. n -> V] : FollowsAlong(g, n, first, step)
<1> DEFINE from == [p \in Nat \X V |-> step[<<p[1] + 1, p[2]>>]]
<1>1. from \in [Nat \X V -> V]
  OBVIOUS
<1>2. \A i \in Nat, v \in V : from[<<i, v>>] = step[<<i + 1, v>>]
  OBVIOUS
<1> HIDE DEF from
<1>3. PICK f \in [Nat -> V] : Follows(f, first, from)
  BY <1>1, Recursion
<1>4. f[0] = first /\ \A i \in Nat : f[i + 1] = from[<<i, f[i]>>]
  BY <1>3 DEF Follows
<1> DEFINE g == [r \in 1 .. n |-> f[r - 1]]
<1>5. g \in [1 .. n -> V] /\ (n > 0 => g[1] = first)
  BY <1>4
<1>6. ASSUME NEW r \in 1 .. n - 1 PROVE g[r + 1] = step[<<r, g[r]>>]
  <2>1. r - 1 \in Nat /\ (r - 1) + 1 = r /\ r \in 1 .. n /\ r + 1 \in 1 .. n /\ (r + 1) - 1 = r
    OBVIOUS
  <2>2. f[r] = from[<<r - 1, f[r - 1]>>] /\ f[r - 1] \in V
    BY <1>4, <2>1
  <2>3. g[r + 1] = f[r] /\ g[r] = f[r - 1]
    BY <2>1
  <2> QED
    BY <1>2, <2>1, <2>2, <2>3
<1> QED
  BY <1>5, <1>6 DEF FollowsAlong
=============================================================================
