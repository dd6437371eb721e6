----------------------------- MODULE Induction -----------------------------
(***************************************************************************)
(* Induction over the natural numbers, for a set instead of a predicate,   *)
(* and what follows from it about functions defined by recursion.          *)
(***************************************************************************)
EXTENDS Integers, FiniteSetTheorems, FunctionTheorems, TLAPS

(* A set with 0 in it that is closed under successors has every number: if *)
(* m were missing, the members below m could be mapped one to one into     *)
(* themselves by adding 1, which leaves out 0; but they are finitely many. *)
THEOREM SetInduction ==
  ASSUME NEW S, 0 \in S, \A n \in Nat : n \in S => n + 1 \in S
  PROVE  Nat \subseteq S
<1> SUFFICES ASSUME NEW m \in Nat, m \notin S PROVE FALSE
  OBVIOUS
<1> DEFINE A == {i \in 0 .. m : i \in S}
           f == [i \in A |-> i + 1]
<1>1. IsFiniteSet(A)
  <2>1. IsFiniteSet(0 .. m)
    BY FS_Interval
  <2> QED
    BY <2>1, FS_Subset
<1>2. ASSUME NEW i \in A PROVE i + 1 \in A
  <2>1. i \in Nat /\ i <= m /\ i \in S /\ i # m
    OBVIOUS
  <2>2. i + 1 \in 0 .. m /\ i + 1 \in S
    BY <2>1
  <2> QED
    BY <2>2
<1>3. f \in Injection(A, A)
  BY <1>2 DEF Injection, IsInjective
<1>4. f \in Surjection(A, A)
  BY <1>1, <1>3, FS_Injection
<1>5. 0 \in A
  OBVIOUS
<1>6. PICK i \in A : f[i] = 0
  <2> HIDE DEF f, A
  <2> QED
    BY <1>4, <1>5 DEF Surjection
<1>7. f[i] = i + 1 /\ i \in Nat
  OBVIOUS
<1> QED
  BY <1>6, <1>7

(* The same up to a bound.                                                 *)
THEOREM BoundedInduction ==
  ASSUME NEW S, NEW m \in Nat, 0 \in S, \A n \in 0 .. m - 1 : n \in S => n + 1 \in S
  PROVE  0 .. m \subseteq S
<1> DEFINE T == {n \in Nat : n <= m => n \in S}
<1>1. 0 \in T
  OBVIOUS
<1>2. \A n \in Nat : n \in T => n + 1 \in T
  OBVIOUS
<1> HIDE DEF T
<1>3. Nat \subseteq T
  BY <1>1, <1>2, SetInduction
<1> QED
  BY <1>3 DEF T

(* A non-empty set of numbers has a least one.                             *)
THEOREM LeastNumber ==
  ASSUME NEW S, S \subseteq Nat, S # {}
  PROVE  \E n \in S : \A m \in S : n <= m
<1> SUFFICES ASSUME \A n \in S : \E m \in S : m < n PROVE FALSE
  OBVIOUS
<1> DEFINE T == {n \in Nat : \A m \in S : n <= m}
<1>1. 0 \in T
  OBVIOUS
<1>2. ASSUME NEW n \in Nat, n \in T PROVE n + 1 \in T
  <2>1. ASSUME NEW m \in S PROVE n + 1 <= m
    <3>1. m \in Nat /\ n <= m
      BY <1>2
    <3>2. PICK k \in S : k < m
      OBVIOUS
    <3>3. k \in Nat /\ n <= k
      BY <1>2
    <3> QED
      BY <3>1, <3>2, <3>3
  <2> QED
    BY <2>1
<1> HIDE DEF T
<1>3. Nat \subseteq T
  BY <1>1, <1>2, SetInduction
<1>4. PICK n \in S : TRUE
  OBVIOUS
<1>5. n + 1 \in T /\ n \in Nat
  BY <1>3
<1> QED
  BY <1>5 DEF T

(* A value to begin with and a step from one value to the next make a      *)
(* function.                                                               *)
Iterates(D, base, step, g) == /\ g \in [Nat -> D]
                              /\ g[0] = base
                              /\ \A n \in Nat : g[n + 1] = step[n][g[n]]

THEOREM Recursion ==
  ASSUME NEW D, NEW base \in D, NEW step \in [Nat -> [D -> D]]
  PROVE  \E g : Iterates(D, base, step, g)
<1> DEFINE Upto(m, g) == /\ g \in [0 .. m -> D] /\ g[0] = base
                         /\ \A n \in 0 .. m - 1 : g[n + 1] = step[n][g[n]]
           S == {m \in Nat : \E g : Upto(m, g)}
<1>1. 0 \in S
  <2> DEFINE g == [n \in 0 .. 0 |-> base]
  <2>1. Upto(0, g)
    OBVIOUS
  <2> QED
    BY <2>1
<1>2. ASSUME NEW m \in Nat, m \in S PROVE m + 1 \in S
  <2>1. PICK g : Upto(m, g)
    BY <1>2
  <2> DEFINE h == [n \in 0 .. m + 1 |-> IF n <= m THEN g[n] ELSE step[m][g[m]]]
  <2>2. g[m] \in D /\ step[m][g[m]] \in D
    BY <2>1
  <2>3. h \in [0 .. m + 1 -> D] /\ h[0] = base
    BY <2>1, <2>2
  <2>4. ASSUME NEW n \in 0 .. m PROVE h[n + 1] = step[n][h[n]]
    <3>1. CASE n = m
      BY <2>1, <3>1
    <3>2. CASE n < m
      <4>1. n \in 0 .. m - 1 /\ n + 1 <= m
        BY <3>2
      <4> QED
        BY <2>1, <4>1
    <3> QED
      BY <3>1, <3>2
  <2>5. m + 1 - 1 = m
    OBVIOUS
  <2> HIDE DEF h
  <2>6. Upto(m + 1, h)
    BY <2>3, <2>4, <2>5
  <2> QED
    BY <2>6
<1> HIDE DEF S
<1>3. Nat \subseteq S
  BY <1>1, <1>2, SetInduction
<1>4. ASSUME NEW m \in Nat, NEW k \in Nat, NEW g, NEW h, Upto(m, g), Upto(k, h), m <= k
      PROVE  g[m] = h[m]
  <2> DEFINE T == {n \in Nat : n <= m => g[n] = h[n]}
  <2>1. 0 \in T
    BY <1>4
  <2>2. ASSUME NEW n \in Nat, n \in T PROVE n + 1 \in T
    <3> SUFFICES ASSUME n + 1 <= m PROVE g[n + 1] = h[n + 1]
      OBVIOUS
    <3>1. n \in 0 .. m - 1 /\ n \in 0 .. k - 1 /\ g[n] = h[n]
      BY <1>4, <2>2
    <3> QED
      BY <1>4, <3>1
  <2> HIDE DEF T
  <2>3. Nat \subseteq T
    BY <2>1, <2>2, SetInduction
  <2> QED
    BY <2>3 DEF T
<1> DEFINE G == [m \in Nat |-> CHOOSE g : Upto(m, g)]
           f == [m \in Nat |-> G[m][m]]
<1>5. ASSUME NEW m \in Nat PROVE Upto(m, G[m])
  <2>0. m \in S
    BY <1>3
  <2>1. \E g : Upto(m, g)
    BY <2>0 DEF S
  <2> HIDE DEF Upto
  <2> QED
    BY <2>1
<1>6. f \in [Nat -> D]
  <2> HIDE DEF G
  <2>1. ASSUME NEW m \in Nat PROVE G[m][m] \in D
    <3>1. G[m] \in [0 .. m -> D] /\ m \in 0 .. m
      BY <1>5
    <3> QED
      BY <3>1
  <2> QED
    BY <2>1
<1>7. f[0] = base
  BY <1>5
<1>8. ASSUME NEW n \in Nat PROVE f[n + 1] = step[n][f[n]]
  <2> HIDE DEF G
  <2>1. n + 1 \in Nat /\ n <= n + 1 /\ n \in 0 .. (n + 1) - 1
    OBVIOUS
  <2>2. G[n + 1][n] = G[n][n]
    <3>1. Upto(n, G[n]) /\ Upto(n + 1, G[n + 1])
      BY <1>5, <2>1
    <3> HIDE DEF Upto
    <3> QED
      BY <1>4, <2>1, <3>1
  <2>3. G[n + 1][n + 1] = step[n][G[n + 1][n]]
    BY <1>5, <2>1
  <2> QED
    BY <2>1, <2>2, <2>3
<1> HIDE DEF f
<1>9. Iterates(D, base, step, f)
  BY <1>6, <1>7, <1>8 DEF Iterates
<1> QED
  BY <1>9

(* A function defined by recursion: what it gives at x is made of what it  *)
(* gives where the measure m is less.                                      *)
Recurs(A, D, m, make) ==
    /\ m \in [A -> Nat]
    /\ make \in [[A -> D] -> [A -> D]]
    /\ \A g, h \in [A -> D] : \A x \in A :
          (\A y \in A : m[y] < m[x] => g[y] = h[y]) => make[g][x] = make[h][x]

THEOREM Recursive ==
  ASSUME NEW A, NEW D, D # {}, NEW m, NEW make, Recurs(A, D, m, make)
  PROVE  \E f \in [A -> D] : f = make[f]
<1> DEFINE F == [A -> D]
<1>1. /\ m \in [A -> Nat] /\ make \in [F -> F]
      /\ \A g, h \in F : \A x \in A :
            (\A y \in A : m[y] < m[x] => g[y] = h[y]) => make[g][x] = make[h][x]
  BY DEF Recurs
<1>2. PICK d \in D : TRUE
  OBVIOUS
<1>3. [x \in A |-> d] \in F
  OBVIOUS
<1> HIDE DEF F
<1>4. [n \in Nat |-> make] \in [Nat -> [F -> F]]
  BY <1>1
<1>5. PICK s : Iterates(F, [x \in A |-> d], [n \in Nat |-> make], s)
  BY <1>3, <1>4, Recursion
<1>6. s \in [Nat -> F] /\ \A n \in Nat : s[n + 1] = make[s[n]]
  BY <1>5 DEF Iterates
<1> DEFINE S == {n \in Nat : \A x \in A : m[x] < n => s[n + 1][x] = s[n][x]}
<1>7. 0 \in S
  BY <1>1
<1>8. ASSUME NEW n \in Nat, n \in S PROVE n + 1 \in S
  <2> SUFFICES ASSUME NEW x \in A, m[x] < n + 1 PROVE s[n + 1 + 1][x] = s[n + 1][x]
    OBVIOUS
  <2>1. s[n] \in F /\ s[n + 1] \in F /\ s[n + 1] = make[s[n]] /\ s[n + 1 + 1] = make[s[n + 1]]
    BY <1>6
  <2>2. ASSUME NEW y \in A, m[y] < m[x] PROVE s[n + 1][y] = s[n][y]
    <3>1. m[y] \in Nat /\ m[x] \in Nat
      BY <1>1
    <3>2. m[y] < n
      BY <2>2, <3>1
    <3> QED
      BY <1>8, <3>2
  <2>3. make[s[n + 1]][x] = make[s[n]][x]
    BY <1>1, <2>1, <2>2
  <2> QED
    BY <2>1, <2>3
<1> HIDE DEF S
<1>9. Nat \subseteq S
  BY <1>7, <1>8, SetInduction
<1>10. ASSUME NEW x \in A, NEW n \in Nat, m[x] < n PROVE s[n + 1][x] = s[n][x]
  <2>1. n \in S
    BY <1>9
  <2> QED
    BY <1>10, <2>1 DEF S
<1> DEFINE f == [x \in A |-> s[m[x] + 1][x]]
<1>11. ASSUME NEW x \in A, NEW n \in Nat, m[x] < n PROVE s[n][x] = f[x]
  <2> DEFINE T == {k \in Nat : m[x] < k => s[k][x] = f[x]}
  <2>1. m[x] \in Nat
    BY <1>1
  <2>2. 0 \in T
    BY <2>1
  <2>3. ASSUME NEW k \in Nat, k \in T PROVE k + 1 \in T
    <3> SUFFICES ASSUME m[x] < k + 1 PROVE s[k + 1][x] = f[x]
      OBVIOUS
    <3>1. CASE m[x] = k
      BY <3>1
    <3>2. CASE m[x] # k
      <4>1. m[x] < k
        BY <2>1, <3>2
      <4> QED
        BY <1>10, <2>3, <4>1
    <3> QED
      BY <3>1, <3>2
  <2> HIDE DEF T
  <2>4. Nat \subseteq T
    BY <2>2, <2>3, SetInduction
  <2>5. n \in T
    BY <2>4
  <2> QED
    BY <1>11, <2>5 DEF T
<1>12. ASSUME NEW x \in A PROVE f[x] \in D
  <2>1. s[m[x] + 1] \in F
    BY <1>1, <1>6
  <2> QED
    BY <2>1 DEF F
<1>13. f \in F
  BY <1>12 DEF F
<1>14. ASSUME NEW x \in A PROVE f[x] = make[f][x]
  <2>1. m[x] \in Nat /\ s[m[x]] \in F
    BY <1>1, <1>6
  <2>2. ASSUME NEW y \in A, m[y] < m[x] PROVE s[m[x]][y] = f[y]
    BY <1>11, <2>1, <2>2
  <2> HIDE DEF f
  <2>3. make[s[m[x]]][x] = make[f][x]
    BY <1>1, <1>13, <2>1, <2>2
  <2>4. s[m[x] + 1][x] = make[s[m[x]]][x]
    BY <1>6, <2>1
  <2>5. s[m[x] + 1][x] = f[x]
    BY <1>11, <2>1
  <2> QED
    BY <2>3, <2>4, <2>5
<1> HIDE DEF f
<1>15. make[f] \in F
  BY <1>1, <1>13
<1>16. f = make[f]
  BY <1>13, <1>14, <1>15 DEF F
<1> QED
  BY <1>13, <1>16 DEF F
=============================================================================
