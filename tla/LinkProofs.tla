----------------------------- MODULE LinkProofs -----------------------------
(***************************************************************************)
(* Lists and rings of linked records: what a walk along a list finds, and  *)
(* what StartProcess of Semaphores.mod and of Processes.mod does to the    *)
(* ring of process descriptors.                                            *)
(***************************************************************************)
EXTENDS Links, Integers, FiniteSets, FiniteSetTheorems, TLAPS

(* Every set of natural numbers that is not empty has a least element.     *)
LEMMA LeastNatural ==
    ASSUME NEW T \in SUBSET Nat, T # {}
    PROVE  \E m \in T : \A n \in T : m <= n
<1> DEFINE R == OpToRel(<, Nat)
<1>1. IsWellFoundedOn(R, Nat)
  BY NatLessThanWellFounded
<1>2. \A x, y \in Nat : y < x => <<y, x>> \in R
  BY DEF OpToRel
<1> HIDE DEF R
<1>3. PICK x \in T : \A y \in T : ~(<<y, x>> \in R)
  BY <1>1, WFMin
<1>4. \A y \in T : y \in Nat /\ ~(y < x)
  BY <1>2, <1>3
<1>5. QED  BY <1>4

(* Induction, for a property given as the set S of what has it.            *)
LEMMA SetInduction ==
    ASSUME NEW S, 0 \in S, \A n \in Nat : n \in S => n + 1 \in S
    PROVE  \A n \in Nat : n \in S
<1> SUFFICES ASSUME NEW k \in Nat, k \notin S PROVE FALSE
  OBVIOUS
<1> DEFINE T == {n \in Nat : n \notin S}
<1>1. PICK m \in T : \A n \in T : m <= n
  <2>1. T \in SUBSET Nat /\ T # {}
    OBVIOUS
  <2> HIDE DEF T
  <2>2. QED  BY <2>1, LeastNatural
<1>2. m - 1 \in Nat /\ m - 1 \notin T
  BY <1>1
<1>3. QED  BY <1>1, <1>2
-----------------------------------------------------------------------------
(* s is the whole list from first on.                                      *)
IsPath(s, first, nx, nil) ==
    /\ s \in Seq(DOMAIN nx)
    /\ first = IF Len(s) = 0 THEN nil ELSE s[1]
    /\ \A i \in 1..Len(s) : nx[s[i]] = IF i = Len(s) THEN nil ELSE s[i + 1]

(* One more step of a walk. *)
Longer(v, nx, nil) ==
    [x \in DOMAIN nx \cup {nil} |-> IF x = nil THEN <<>> ELSE <<x>> \o v[nx[x]]]

Walks(w, nx, nil, n) ==
    /\ w = [k \in 0..n |-> w[k]]
    /\ w[0] = [x \in DOMAIN nx \cup {nil} |-> <<>>]
    /\ \A k \in 1..n : w[k] = Longer(w[k - 1], nx, nil)

LEMMA WalksExist ==
    ASSUME NEW nx, NEW nil, NEW n \in Nat
    PROVE  \E w : Walks(w, nx, nil, n)
<1> DEFINE S == {k \in Nat : \E w : Walks(w, nx, nil, k)}
<1>1. 0 \in S
  <2> DEFINE w == [k \in 0..0 |-> [x \in DOMAIN nx \cup {nil} |-> <<>>]]
  <2>1. Walks(w, nx, nil, 0)
    BY DEF Walks
  <2>2. QED  BY <2>1
<1>2. ASSUME NEW k \in Nat, k \in S PROVE k + 1 \in S
  <2>1. PICK w : Walks(w, nx, nil, k)
    BY <1>2
  <2> DEFINE v == [j \in 0..k + 1 |-> IF j <= k THEN w[j] ELSE Longer(w[k], nx, nil)]
  <2>2. DOMAIN v = 0..k + 1 /\ v[0] = w[0] /\ v[k + 1] = Longer(w[k], nx, nil)
    OBVIOUS
  <2>3. \A j \in 0..k : v[j] = w[j]
    OBVIOUS
  <2> HIDE DEF v
  <2>4. ASSUME NEW j \in 1..k + 1 PROVE v[j] = Longer(v[j - 1], nx, nil)
    <3>1. j - 1 \in 0..k /\ v[j - 1] = w[j - 1]
      BY <2>3
    <3>2. CASE j = k + 1
      BY <3>1, <3>2, <2>2
    <3>3. CASE j # k + 1
      <4>1. \A i \in 1..k : w[i] = Longer(w[i - 1], nx, nil)
        BY <2>1 DEF Walks
      <4>2. j \in 1..k /\ j \in 0..k
        BY <3>3
      <4>3. w[j] = Longer(w[j - 1], nx, nil) /\ v[j] = w[j]
        BY <4>1, <4>2, <2>3
      <4>4. QED  BY <3>1, <4>3
    <3>4. QED  BY <3>2, <3>3
  <2>5. Walks(v, nx, nil, k + 1)
    BY <2>1, <2>2, <2>4 DEF Walks
  <2>6. QED  BY <2>5
<1> HIDE DEF S
<1>3. n \in S
  BY <1>1, <1>2, SetInduction
<1>4. QED  BY <1>3 DEF S

(* What follows the first record of a list is a list. *)
LEMMA PathTail ==
    ASSUME NEW nx, NEW nil, NEW t, NEW x, IsPath(t, x, nx, nil), t # <<>>
    PROVE  /\ x = t[1] /\ x \in DOMAIN nx /\ t \in Seq(DOMAIN nx)
           /\ IsPath(Tail(t), nx[x], nx, nil)
           /\ Len(Tail(t)) = Len(t) - 1 /\ t = <<x>> \o Tail(t)
<1> DEFINE u == Tail(t)
           m == Len(t)
<1>1. t \in Seq(DOMAIN nx) /\ m \in Nat \ {0}
  BY DEF IsPath
<1>2. u \in Seq(DOMAIN nx) /\ Len(u) = m - 1 /\ \A i \in 1..Len(u) : u[i] = t[i + 1]
  BY <1>1
<1>3. x = t[1] /\ \A i \in 1..m : nx[t[i]] = IF i = m THEN nil ELSE t[i + 1]
  BY <1>1 DEF IsPath
<1>4. \A i \in 1..m : t[i] \in DOMAIN nx
  BY <1>1
<1>5. t = <<x>> \o u
  <2>1. <<x>> \in Seq(DOMAIN nx) /\ Len(<<x>>) = 1 /\ <<x>>[1] = x
    BY <1>1, <1>3, <1>4
  <2>2. /\ <<x>> \o u \in Seq(DOMAIN nx) /\ Len(<<x>> \o u) = 1 + (m - 1)
        /\ \A i \in 1..1 + (m - 1) : (<<x>> \o u)[i] = IF i <= 1 THEN <<x>>[i] ELSE u[i - 1]
    BY <2>1, <1>2
  <2> DEFINE v == <<x>> \o u
  <2> HIDE DEF u, v, m
  <2>3. \A i \in 1..m : t[i] = v[i]
    BY <1>1, <1>2, <1>3, <2>1, <2>2 DEF v
  <2>4. v \in Seq(DOMAIN nx) /\ Len(v) = m
    BY <1>1, <2>2 DEF v
  <2>5. t = v
    BY <1>1, <2>3, <2>4 DEF m
  <2>6. QED  BY <2>5 DEF v
<1>6. IsPath(u, nx[x], nx, nil)
  <2> HIDE DEF u, m
  <2>1. Len(u) = 0 => nx[x] = nil
    BY <1>1, <1>2, <1>3
  <2>2. Len(u) # 0 => nx[x] = u[1]
    BY <1>1, <1>2, <1>3
  <2>3. ASSUME NEW i \in 1..Len(u)
        PROVE  nx[u[i]] = IF i = Len(u) THEN nil ELSE u[i + 1]
    <3>1. i + 1 \in 1..m /\ u[i] = t[i + 1]
      BY <1>1, <1>2
    <3>2. nx[u[i]] = IF i + 1 = m THEN nil ELSE t[(i + 1) + 1]
      BY <3>1, <1>3
    <3>3. i + 1 # m => i + 1 \in 1..Len(u) /\ u[i + 1] = t[(i + 1) + 1]
      BY <3>1, <1>1, <1>2
    <3>4. QED  BY <3>2, <3>3, <1>1, <1>2
  <2>4. QED  BY <2>1, <2>2, <2>3, <1>2 DEF IsPath
<1>7. x \in DOMAIN nx
  BY <1>1, <1>3, <1>4
<1>8. Len(Tail(t)) = Len(t) - 1
  BY <1>2
<1> HIDE DEF m
<1>9. QED  BY <1>1, <1>3, <1>5, <1>6, <1>7, <1>8, Zenon

(* A walk of enough steps sees the whole list.                             *)
LEMMA WalkIsPath ==
    ASSUME NEW nx, NEW nil, nil \notin DOMAIN nx, NEW n \in Nat, NEW s, NEW first,
           IsPath(s, first, nx, nil), Len(s) <= n
    PROVE  Walk(first, nx, nil, n) = s
<1> DEFINE Step(w) == [k \in 0..n |-> [x \in DOMAIN nx \cup {nil} |->
                          IF k = 0 \/ x = nil THEN <<>> ELSE <<x>> \o w[k - 1][nx[x]]]]
           W == CHOOSE w : w = Step(w)
<1>1. PICK v : Walks(v, nx, nil, n)
  BY WalksExist
<1>2. v = Step(v)
  <2>1. ASSUME NEW k \in 0..n
        PROVE  v[k] = [x \in DOMAIN nx \cup {nil} |->
                          IF k = 0 \/ x = nil THEN <<>> ELSE <<x>> \o v[k - 1][nx[x]]]
    <3>1. CASE k = 0
      BY <3>1, <1>1 DEF Walks
    <3>2. CASE k # 0
      <4>1. \A i \in 1..n : v[i] = Longer(v[i - 1], nx, nil)
        BY <1>1 DEF Walks
      <4>2. k \in 1..n
        BY <3>2
      <4>3. v[k] = Longer(v[k - 1], nx, nil)
        BY <4>1, <4>2
      <4>4. QED  BY <4>3, <3>2 DEF Longer
    <3>3. QED  BY <3>1, <3>2
  <2>2. v = [k \in 0..n |-> v[k]]
    BY <1>1 DEF Walks
  <2>3. QED  BY <2>1, <2>2
<1>3. W = Step(W)
  BY <1>2
<1>4. Walk(first, nx, nil, n) = W[n][first]
  BY DEF Walk
<1> HIDE DEF W
<1>5. ASSUME NEW k \in 0..n
      PROVE  W[k] = [x \in DOMAIN nx \cup {nil} |->
                       IF k = 0 \/ x = nil THEN <<>> ELSE <<x>> \o W[k - 1][nx[x]]]
  BY <1>3
<1> HIDE DEF Step
<1>5a. \A k \in 0..n : W[k][nil] = <<>>
  BY <1>5
<1>5b. ASSUME NEW k \in Nat, k + 1 <= n, NEW x \in DOMAIN nx
       PROVE  W[k + 1][x] = <<x>> \o W[k][nx[x]]
  <2>1. k + 1 \in 0..n /\ k + 1 # 0 /\ x # nil /\ (k + 1) - 1 = k
    BY <1>5b
  <2>2. W[k + 1] = [y \in DOMAIN nx \cup {nil} |->
                       IF k + 1 = 0 \/ y = nil THEN <<>> ELSE <<y>> \o W[(k + 1) - 1][nx[y]]]
    BY <2>1, <1>5
  <2>3. QED  BY <2>1, <2>2
<1> DEFINE S == {k \in Nat : k <= n => \A t, x : IsPath(t, x, nx, nil) /\ Len(t) <= k => W[k][x] = t}
<1>6. 0 \in S
  <2> SUFFICES ASSUME NEW t, NEW x, IsPath(t, x, nx, nil), Len(t) <= 0 PROVE W[0][x] = t
    OBVIOUS
  <2>1. t = <<>> /\ x = nil
    BY DEF IsPath
  <2>2. QED  BY <2>1, <1>5a
<1>7. ASSUME NEW k \in Nat, k \in S PROVE k + 1 \in S
  <2> SUFFICES ASSUME k + 1 <= n, NEW t, NEW x, IsPath(t, x, nx, nil), Len(t) <= k + 1
               PROVE  W[k + 1][x] = t
    OBVIOUS
  <2>1. CASE t = <<>>
    <3>1. x = nil
      BY <2>1 DEF IsPath
    <3>2. QED  BY <3>1, <2>1, <1>5a
  <2>2. CASE t # <<>>
    <3>1. /\ x = t[1] /\ x \in DOMAIN nx /\ t \in Seq(DOMAIN nx)
          /\ IsPath(Tail(t), nx[x], nx, nil)
          /\ Len(Tail(t)) = Len(t) - 1 /\ t = <<x>> \o Tail(t)
      BY <2>2, PathTail
    <3>2. Len(Tail(t)) <= k /\ k <= n
      BY <3>1
    <3>3. W[k][nx[x]] = Tail(t)
      <4> DEFINE u == Tail(t)
                 y == nx[x]
      <4>1. k <= n => \A tt, z : IsPath(tt, z, nx, nil) /\ Len(tt) <= k => W[k][z] = tt
        BY <1>7
      <4>2. IsPath(u, y, nx, nil) /\ Len(u) <= k
        BY <3>1, <3>2
      <4> HIDE DEF u, y
      <4>3. W[k][y] = u
        BY <4>1, <4>2, <3>2
      <4>4. QED  BY <4>3 DEF u, y
    <3>4. W[k + 1][x] = <<x>> \o W[k][nx[x]]
      BY <3>1, <1>5b
    <3>5. QED  BY <3>1, <3>3, <3>4
  <2>3. QED  BY <2>1, <2>2
<1> HIDE DEF S
<1>8. n \in S
  BY <1>6, <1>7, SetInduction
<1>9. QED  BY <1>4, <1>8 DEF S

(* A list without repetitions is no longer than the set of records.        *)
LEMMA PathLength ==
    ASSUME NEW S, IsFiniteSet(S), NEW s \in Seq(S),
           \A i, j \in 1..Len(s) : s[i] = s[j] => i = j
    PROVE  Len(s) \in Nat /\ Len(s) <= Cardinality(S) /\ Cardinality(S) \in Nat
<1>1. Len(s) \in Nat /\ s \in [1..Len(s) -> S]
  OBVIOUS
<1>2. s \in Injection(1..Len(s), S)
  BY <1>1 DEF Injection, IsInjective
<1>3. Cardinality(1..Len(s)) <= Cardinality(S) /\ Cardinality(S) \in Nat
  BY <1>2, FS_Injection, FS_CardinalityType
<1>4. Cardinality(1..Len(s)) = Len(s)
  BY <1>1, FS_Interval
<1>5. QED  BY <1>1, <1>3, <1>4
(* A path is the same along links that agree on its members. *)
LEMMA PathSame ==
    ASSUME NEW nx, NEW nx1, NEW nil, NEW s, NEW first, IsPath(s, first, nx, nil),
           DOMAIN nx1 = DOMAIN nx, \A i \in 1..Len(s) : nx1[s[i]] = nx[s[i]]
    PROVE  IsPath(s, first, nx1, nil)
  BY DEF IsPath

(* The links nx hold a path that starts with x and has the members of s    *)
(* besides.                                                                *)
IsPathWith(x, s, nx, nil) ==
    \E u : /\ IsPath(u, x, nx, nil)
           /\ \A i, j \in 1..Len(u) : u[i] = u[j] => i = j
           /\ \A y : (\E i \in 1..Len(u) : u[i] = y)
                    <=> (y = x \/ \E i \in 1..Len(s) : s[i] = y)

(* A new element in front of a path. *)
LEMMA PathCons ==
    ASSUME NEW nx, NEW nx1, NEW nil, NEW s, NEW first, IsPath(s, first, nx, nil),
           NEW x \in DOMAIN nx, \A i \in 1..Len(s) : s[i] # x,
           DOMAIN nx1 = DOMAIN nx, nx1[x] = first,
           \A i \in 1..Len(s) : nx1[s[i]] = nx[s[i]],
           \A i, j \in 1..Len(s) : s[i] = s[j] => i = j
    PROVE  IsPathWith(x, s, nx1, nil)
<1> DEFINE u == <<x>> \o s
           m == Len(s)
<1>1. s \in Seq(DOMAIN nx) /\ m \in Nat /\ IsPath(s, first, nx1, nil)
  BY PathSame DEF IsPath
<1>2. <<x>> \in Seq(DOMAIN nx) /\ Len(<<x>>) = 1 /\ <<x>>[1] = x
  OBVIOUS
<1>3. /\ u \in Seq(DOMAIN nx) /\ Len(u) = m + 1 /\ u[1] = x
      /\ \A i \in 1..m : u[i + 1] = s[i]
  <2>1. /\ u \in Seq(DOMAIN nx) /\ Len(u) = Len(<<x>>) + Len(s)
        /\ \A i \in 1..Len(<<x>>) + Len(s) :
              u[i] = IF i <= Len(<<x>>) THEN <<x>>[i] ELSE s[i - Len(<<x>>)]
    BY <1>1, <1>2
  <2>2. Len(u) = m + 1 /\ u[1] = x
    BY <2>1, <1>1, <1>2
  <2>3. ASSUME NEW i \in 1..m PROVE u[i + 1] = s[i]
    <3>1. i + 1 \in 1..1 + m /\ ~(i + 1 <= 1) /\ (i + 1) - 1 = i
      BY <1>1
    <3>2. QED  BY <3>1, <2>1, <1>2
  <2>4. QED  BY <2>1, <2>2, <2>3
<1> HIDE DEF u
<1>4. /\ first = IF m = 0 THEN nil ELSE s[1]
      /\ \A i \in 1..m : nx1[s[i]] = IF i = m THEN nil ELSE s[i + 1]
      /\ \A i, j \in 1..m : s[i] = s[j] => i = j
      /\ \A i \in 1..m : s[i] # x
  BY <1>1 DEF IsPath
<1> HIDE DEF m
<1>5. ASSUME NEW i \in 1..m + 1
      PROVE  \/ i = 1 /\ u[i] = x
             \/ i - 1 \in 1..m /\ i = (i - 1) + 1 /\ u[i] = s[i - 1]
  <2>1. CASE i = 1
    BY <2>1, <1>3
  <2>2. CASE i # 1
    <3>1. i - 1 \in 1..m /\ i = (i - 1) + 1
      BY <2>2, <1>1
    <3>2. u[(i - 1) + 1] = s[i - 1]
      BY <3>1, <1>3
    <3>3. QED  BY <3>1, <3>2
  <2>3. QED  BY <2>1, <2>2
<1>6. ASSUME NEW i \in 1..m + 1
      PROVE  nx1[u[i]] = IF i = m + 1 THEN nil ELSE u[i + 1]
  <2>1. CASE i = 1 /\ m = 0
    BY <2>1, <1>3, <1>4
  <2>2. CASE i = 1 /\ m # 0
    <3>1. 1 \in 1..m /\ u[1 + 1] = s[1] /\ i # m + 1
      BY <2>2, <1>1, <1>3
    <3>2. QED  BY <2>2, <3>1, <1>3, <1>4
  <2>3. CASE i # 1
    <3>1. i - 1 \in 1..m /\ i = (i - 1) + 1 /\ u[i] = s[i - 1]
      BY <2>3, <1>5
    <3>2. nx1[u[i]] = IF i - 1 = m THEN nil ELSE s[i]
      BY <3>1, <1>4
    <3>3. CASE i = m + 1
      BY <3>2, <3>3, <1>1
    <3>4. CASE i # m + 1
      <4>1. i \in 1..m /\ i - 1 # m
        BY <3>4, <1>1
      <4>2. u[i + 1] = s[i]
        BY <4>1, <1>3
      <4>3. QED  BY <4>1, <4>2, <3>2, <3>4
    <3>5. QED  BY <3>3, <3>4
  <2>4. QED  BY <2>1, <2>2, <2>3
<1>7. IsPath(u, x, nx1, nil)
  <2>1. Len(u) # 0
    BY <1>1, <1>3
  <2>2. QED  BY <2>1, <1>3, <1>6 DEF IsPath
<1>8. ASSUME NEW i \in 1..m + 1, NEW j \in 1..m + 1, u[i] = u[j] PROVE i = j
  <2>1. CASE i = 1
    BY <2>1, <1>3, <1>4, <1>5, <1>8
  <2>2. CASE j = 1
    BY <2>2, <1>3, <1>4, <1>5, <1>8
  <2>3. CASE i # 1 /\ j # 1
    <3>1. i - 1 = j - 1
      BY <2>3, <1>4, <1>5, <1>8
    <3>2. QED  BY <3>1
  <2>4. QED  BY <2>1, <2>2, <2>3
<1>9. ASSUME NEW y
      PROVE  (\E i \in 1..m + 1 : u[i] = y) <=> (y = x \/ \E i \in 1..m : s[i] = y)
  <2>1. ASSUME NEW i \in 1..m + 1, u[i] = y PROVE y = x \/ \E k \in 1..m : s[k] = y
    BY <2>1, <1>5
  <2>2. ASSUME NEW i \in 1..m, s[i] = y PROVE \E k \in 1..m + 1 : u[k] = y
    <3>1. i + 1 \in 1..m + 1 /\ s[i] = u[i + 1]
      BY <1>1, <1>3
    <3>2. QED  BY <3>1, <2>2
  <2>3. y = x => \E k \in 1..m + 1 : u[k] = y
    <3>1. 1 \in 1..m + 1
      BY <1>1
    <3>2. QED  BY <3>1, <1>3
  <2>4. QED  BY <2>1, <2>2, <2>3
<1>10. \A i, j \in 1..Len(u) : u[i] = u[j] => i = j
  BY <1>3, <1>8
<1>11. \A y : (\E i \in 1..Len(u) : u[i] = y) <=> (y = x \/ \E i \in 1..Len(s) : s[i] = y)
  BY <1>3, <1>9 DEF m
<1>12. QED  BY <1>7, <1>10, <1>11, Zenon DEF IsPathWith
-----------------------------------------------------------------------------
(* No part of R is closed under nx but the whole. *)
IsOneRing(R, nx) ==
    \A S \in SUBSET R : (S # {} /\ \A q \in S : nx[q] \in S) => S = R

(* p is new, and inserted behind the member c of the ring R (nx becomes    *)
(* nx1): the result is again one ring.                                     *)
LEMMA InsertKeepsOneRing ==
    ASSUME NEW R, NEW nx, NEW nx1, NEW c \in R, NEW p, p \notin R,
           \A q \in R : nx[q] \in R,
           IsOneRing(R, nx),
           nx1[p] = nx[c], nx1[c] = p,
           \A q \in R \ {c} : nx1[q] = nx[q]
    PROVE  IsOneRing(R \cup {p}, nx1)
<1> SUFFICES ASSUME NEW S \in SUBSET (R \cup {p}), S # {}, \A q \in S : nx1[q] \in S
             PROVE  S = R \cup {p}
  BY DEF IsOneRing
<1> DEFINE T == S \ {p}
<1>1. T # {} /\ T \in SUBSET R
  OBVIOUS
<1>2. \A q \in T : nx[q] \in T
  <2> TAKE q \in T
  <2>1. CASE q = c
    BY <2>1
  <2>2. CASE q # c
    BY <2>2
  <2> QED
    BY <2>1, <2>2
<1>3. T = R
  BY <1>1, <1>2 DEF IsOneRing
<1>4. p \in S
  BY <1>3
<1> QED
  BY <1>3, <1>4
=============================================================================
