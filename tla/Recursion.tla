----------------------------- MODULE Recursion -----------------------------
(***************************************************************************)
(* Induction and recursion on the natural numbers, for sets and functions: *)
(* the property to be shown is a set of numbers, the step of a recursion a *)
(* function, so that the lemmas can be cited for any of them.              *)
(***************************************************************************)
EXTENDS Integers, SequencesExt, SequenceTheorems, WellFoundedInduction, TLAPS

Below == {p \in Nat \X Nat : p[1] < p[2]}

LEMMA BelowIsWellFounded == IsWellFoundedOn(Below, Nat)
BY NatLessThanWellFounded, Zenon DEF Below, OpToRel

(* A set of natural numbers that is not empty has a least element. *)
LEMMA LeastElement ==
  ASSUME NEW T \in SUBSET Nat, T # {}
  PROVE  \E n \in T : \A m \in T : n <= m
<1>1. PICK n \in T : \A m \in T : <<m, n>> \notin Below
  BY BelowIsWellFounded, WFMin, Zenon
<1>2. ASSUME NEW m \in T PROVE n <= m
  <2>1. m \in Nat /\ n \in Nat
    OBVIOUS
  <2>2. <<m, n>> \in Nat \X Nat /\ <<m, n>> \notin Below
    BY <1>1, <2>1
  <2>3. ~(m < n)
    BY <2>2 DEF Below
  <2> QED BY <2>1, <2>3
<1> QED
  BY <1>2

(* A set of numbers with a bound has a greatest element. *)
LEMMA GreatestElement ==
  ASSUME NEW m \in Nat, NEW T \in SUBSET (0 .. m), T # {}
  PROVE  \E n \in T : \A k \in T : k <= n
<1> DEFINE U == {i \in 0 .. m : m - i \in T}
<1>1. U \in SUBSET Nat /\ U # {}
  <2>1. PICK k \in T : TRUE
    OBVIOUS
  <2>2. m - k \in 0 .. m /\ m - (m - k) = k
    OBVIOUS
  <2>3. m - k \in U
    BY <2>2
  <2>4. U \in SUBSET Nat
    OBVIOUS
  <2> HIDE DEF U
  <2> QED BY <2>3, <2>4
<1> HIDE DEF U
<1>2. PICK i \in U : \A j \in U : i <= j
  BY <1>1, LeastElement, Zenon
<1>3. m - i \in T
  BY <1>2 DEF U
<1>4. ASSUME NEW k \in T PROVE k <= m - i
  <2>1. m - k \in 0 .. m /\ m - (m - k) = k
    OBVIOUS
  <2>2. m - k \in U
    BY <2>1 DEF U
  <2>3. i <= m - k /\ i \in Nat
    BY <1>1, <1>2, <2>2
  <2> QED BY <2>3
<1> QED
  BY <1>3, <1>4

(* What holds of 0 and with every number of the next holds of them all. *)
LEMMA Induction ==
  ASSUME NEW S, 0 \in S, \A n \in Nat : n \in S => n + 1 \in S
  PROVE  \A n \in Nat : n \in S
<1> SUFFICES ASSUME Nat \ S # {}
             PROVE  FALSE
  OBVIOUS
<1>1. (Nat \ S) \in SUBSET Nat
  OBVIOUS
<1>2. PICK n \in Nat \ S : \A m \in Nat \ S : n <= m
  BY <1>1, LeastElement, Zenon
<1>3. n # 0 /\ n - 1 \in Nat /\ ~(n <= n - 1) /\ (n - 1) + 1 = n
  BY <1>2
<1> QED
  BY <1>2, <1>3

(* The same up to a bound. *)
LEMMA BoundedInduction ==
  ASSUME NEW S, NEW n \in Nat, 0 \in S, \A i \in 0 .. n - 1 : i \in S => i + 1 \in S
  PROVE  \A i \in 0 .. n : i \in S
<1> DEFINE U == {i \in Nat : i <= n => i \in S}
<1>1. 0 \in U
  OBVIOUS
<1>2. \A i \in Nat : i \in U => i + 1 \in U
  OBVIOUS
<1> HIDE DEF U
<1>3. \A i \in Nat : i \in U
  BY <1>1, <1>2, Induction, Zenon
<1> QED
  BY <1>3 DEF U

-----------------------------------------------------------------------------
(* What a recursion from c on by the step d gives: the values of f. *)
Recurs(f, n, c, d) == f[0] = c /\ \A i \in 1 .. n : f[i] = d[<<f[i - 1], i>>]

LEMMA RecursionExists ==
  ASSUME NEW n \in Nat, NEW X, NEW c \in X, NEW d \in [X \X (1 .. n) -> X]
  PROVE  \E f \in [0 .. n -> X] : Recurs(f, n, c, d)
<1> DEFINE S == {k \in Nat : \E f \in [0 .. k -> X] : Recurs(f, k, c, d)}
<1>1. 0 \in S
  <2> DEFINE f == [i \in 0 .. 0 |-> c]
  <2>1. f \in [0 .. 0 -> X] /\ Recurs(f, 0, c, d)
    BY DEF Recurs
  <2> QED
    BY <2>1
<1>2. ASSUME NEW k \in 0 .. n - 1, k \in S
      PROVE  k + 1 \in S
  <2>1. PICK f \in [0 .. k -> X] : Recurs(f, k, c, d)
    BY <1>2
  <2> DEFINE g == [i \in 0 .. k + 1 |-> IF i <= k THEN f[i] ELSE d[<<f[k], k + 1>>]]
  <2>2. f[k] \in X /\ k + 1 \in 1 .. n
    OBVIOUS
  <2>3. <<f[k], k + 1>> \in X \X (1 .. n)
    BY <2>2
  <2>4. d[<<f[k], k + 1>>] \in X
    BY <2>3
  <2>5. g \in [0 .. k + 1 -> X]
    BY <2>4
  <2>6. g[0] = c
    BY <2>1 DEF Recurs
  <2>7. ASSUME NEW i \in 1 .. k + 1
        PROVE  g[i] = d[<<g[i - 1], i>>]
    <3>1. CASE i = k + 1
      <4>1. g[i] = d[<<f[k], k + 1>>] /\ g[i - 1] = f[k]
        BY <3>1
      <4> QED BY <3>1, <4>1
    <3>2. CASE i # k + 1
      <4>1. g[i] = f[i] /\ g[i - 1] = f[i - 1] /\ i \in 1 .. k
        BY <3>2
      <4> QED BY <2>1, <4>1 DEF Recurs
    <3> QED BY <3>1, <3>2
  <2>8. Recurs(g, k + 1, c, d)
    BY <2>6, <2>7 DEF Recurs
  <2> HIDE DEF g
  <2> QED
    BY <2>5, <2>8
<1> HIDE DEF S
<1>3. n \in S
  BY <1>1, <1>2, BoundedInduction
<1> QED
  BY <1>3 DEF S

-----------------------------------------------------------------------------
(* Sequences, one after the other *)

(* Where the runs end, and what stands in them. *)
RunsEnd(e, runs) ==
  /\ e[0] = 0
  /\ \A k \in 1 .. Len(runs) : e[k - 1] \in Nat /\ e[k] = e[k - 1] + Len(runs[k])

Joined(e, runs, k, s) ==
  /\ Len(s) = e[k]
  /\ \A j \in 1 .. k : \A i \in 1 .. Len(runs[j]) :
       e[j - 1] + i \in 1 .. Len(s) /\ s[e[j - 1] + i] = runs[j][i]

LEMMA JoinedMore ==
  ASSUME NEW T, NEW runs \in Seq(Seq(T)), NEW e, RunsEnd(e, runs), NEW k \in 1 .. Len(runs),
         NEW s \in Seq(T), Joined(e, runs, k - 1, s)
  PROVE  s \o runs[k] \in Seq(T) /\ Joined(e, runs, k, s \o runs[k])
<1> DEFINE t == s \o runs[k]
<1>1. runs[k] \in Seq(T) /\ Len(runs[k]) \in Nat /\ Len(s) \in Nat /\ Len(s) = e[k - 1]
  BY DEF Joined
<1>2. /\ t \in Seq(T) /\ Len(t) = Len(s) + Len(runs[k])
      /\ \A i \in 1 .. Len(s) + Len(runs[k]) :
           t[i] = IF i <= Len(s) THEN s[i] ELSE runs[k][i - Len(s)]
  BY <1>1, ConcatProperties, Zenon
<1> HIDE DEF t
<1>3. Len(t) = e[k]
  BY <1>1, <1>2 DEF RunsEnd
<1>4. ASSUME NEW j \in 1 .. k, NEW i \in 1 .. Len(runs[j])
      PROVE  e[j - 1] + i \in 1 .. Len(t) /\ t[e[j - 1] + i] = runs[j][i]
  <2>1. CASE j = k
    <3>1. e[j - 1] + i \in 1 .. Len(t) /\ ~(e[j - 1] + i <= Len(s)) /\ (e[j - 1] + i) - Len(s) = i
      BY <1>1, <1>2, <2>1, SMTT(30)
    <3> QED
      BY <1>2, <2>1, <3>1
  <2>2. CASE j # k
    <3>1. j \in 1 .. k - 1
      BY <2>2
    <3>2. e[j - 1] + i \in 1 .. Len(s) /\ s[e[j - 1] + i] = runs[j][i]
      BY <3>1 DEF Joined
    <3>3. ASSUME NEW p \in 1 .. Len(s)
          PROVE  p \in 1 .. Len(t) /\ t[p] = s[p]
      <4>1. p \in 1 .. Len(s) + Len(runs[k]) /\ p <= Len(s)
        BY <1>1
      <4>2. Len(t) = Len(s) + Len(runs[k]) /\ t[p] = s[p]
        BY <1>2, <4>1
      <4> QED
        BY <4>1, <4>2
    <3> QED
      BY <3>2, <3>3, Zenon
  <2> QED
    BY <2>1, <2>2
<1> QED
  BY <1>2, <1>3, <1>4 DEF Joined, t

(* What flattening computes: the runs one after the other. *)
LEMMA FlattenJoins ==
  ASSUME NEW T, NEW runs \in Seq(Seq(T)), runs # <<>>
  PROVE  \E e : /\ e \in [0 .. Len(runs) -> Nat] /\ RunsEnd(e, runs)
                /\ FlattenSeq(runs) \in Seq(T)
                /\ Joined(e, runs, Len(runs), FlattenSeq(runs))
<1> DEFINE n == Len(runs)
           flatten[i \in 1 .. n] == IF i = 1 THEN runs[i] ELSE flatten[i - 1] \o runs[i]
           sum  == [p \in Nat \X (1 .. n) |-> p[1] + Len(runs[p[2]])]
           join == [p \in Seq(T) \X (1 .. n) |-> p[1] \o runs[p[2]]]
<1>1. n \in Nat \ {0} /\ \A i \in 1 .. n : runs[i] \in Seq(T) /\ Len(runs[i]) \in Nat
  OBVIOUS
<1>2. sum \in [Nat \X (1 .. n) -> Nat] /\ join \in [Seq(T) \X (1 .. n) -> Seq(T)]
  BY <1>1, SMTT(30)
<1>3. ASSUME NEW a \in Nat, NEW i \in 1 .. n PROVE sum[<<a, i>>] = a + Len(runs[i])
  <2>1. <<a, i>> \in Nat \X (1 .. n) /\ <<a, i>>[1] = a /\ <<a, i>>[2] = i
    OBVIOUS
  <2> QED BY <2>1
<1>4. ASSUME NEW s \in Seq(T), NEW i \in 1 .. n PROVE join[<<s, i>>] = s \o runs[i]
  <2>1. <<s, i>> \in Seq(T) \X (1 .. n) /\ <<s, i>>[1] = s /\ <<s, i>>[2] = i
    OBVIOUS
  <2> QED BY <2>1
<1> HIDE DEF n, sum, join
<1>5. PICK e \in [0 .. n -> Nat] : Recurs(e, n, 0, sum)
  BY <1>1, <1>2, RecursionExists
<1>6. <<>> \in Seq(T) /\ \A s \in Seq(T) : <<>> \o s = s
  BY EmptySeq, ConcatEmptySeq
<1>7. PICK f \in [0 .. n -> Seq(T)] : Recurs(f, n, <<>>, join)
  BY <1>1, <1>2, <1>6, RecursionExists
<1>8. \A i \in 1 .. n : i - 1 \in 0 .. n
  BY <1>1
<1>9. RunsEnd(e, runs)
  BY <1>3, <1>5, <1>8 DEF RunsEnd, Recurs, n
<1>10. f[0] = <<>> /\ \A i \in 1 .. n : f[i] = f[i - 1] \o runs[i]
  BY <1>4, <1>7, <1>8 DEF Recurs
(* The recursion starts with the first run. *)
<1>11. flatten = [i \in 1 .. n |-> IF i = 1 THEN runs[i] ELSE flatten[i - 1] \o runs[i]]
  <2> DEFINE g == [i \in 1 .. n |-> f[i]]
  <2>1. \A i \in 1 .. n : g[i] = f[i] /\ (i # 1 => i - 1 \in 1 .. n)
    BY <1>1
  <2>2. \A i \in 1 .. n : g[i] = IF i = 1 THEN runs[i] ELSE g[i - 1] \o runs[i]
    <3>1. f[1] = <<>> \o runs[1] /\ runs[1] \in Seq(T)
      <4>1. 1 \in 1 .. n /\ 1 - 1 = 0
        BY <1>1
      <4> QED BY <1>1, <1>10, <4>1
    <3>2. f[1] = runs[1]
      BY <1>6, <3>1
    <3> QED BY <1>10, <2>1, <3>2
  <2>3. g = [i \in 1 .. n |-> IF i = 1 THEN runs[i] ELSE g[i - 1] \o runs[i]]
    BY <2>2
  <2> HIDE DEF g
  <2> QED BY <2>3
<1>12. FlattenSeq(runs) = flatten[n]
  BY <1>1 DEF FlattenSeq, n
<1> HIDE DEF flatten
<1>13. \A i \in 1 .. n : flatten[i] = IF i = 1 THEN runs[i] ELSE flatten[i - 1] \o runs[i]
  BY <1>11
<1> DEFINE Same == {k \in 0 .. n : k = 0 \/ flatten[k] = f[k]}
           Good == {k \in 0 .. n : Joined(e, runs, k, f[k])}
<1>14. 0 \in Same /\ 0 \in Good
  BY <1>1, <1>5, <1>10 DEF Joined, Recurs
<1>15. ASSUME NEW k \in 0 .. n - 1, k \in Same PROVE k + 1 \in Same
  <2>1. k + 1 \in 1 .. n /\ (k + 1) - 1 = k /\ (k + 1 = 1 <=> k = 0)
    BY <1>1
  <2>2. f[k + 1] = f[k] \o runs[k + 1]
    BY <1>10, <2>1
  <2>3. CASE k = 0
    <3>1. f[1] = <<>> \o runs[1] /\ runs[1] \in Seq(T) /\ flatten[1] = runs[1]
      BY <1>1, <1>10, <1>13, <2>1, <2>2, <2>3
    <3>2. f[1] = runs[1]
      BY <1>6, <3>1
    <3>3. 1 \in 0 .. n /\ k + 1 = 1
      BY <1>1, <2>3
    <3> QED BY <3>1, <3>2, <3>3
  <2>4. CASE k # 0
    <3>1. flatten[k + 1] = flatten[k] \o runs[k + 1] /\ flatten[k] = f[k]
      BY <1>13, <1>15, <2>1, <2>4
    <3>2. flatten[k + 1] = f[k + 1] /\ k + 1 \in 0 .. n
      BY <1>1, <2>1, <2>2, <3>1
    <3> QED BY <3>2
  <2> QED
    BY <2>3, <2>4
<1>16. ASSUME NEW k \in 0 .. n - 1, k \in Good PROVE k + 1 \in Good
  <2>1. k + 1 \in 1 .. n /\ (k + 1) - 1 = k /\ f[k] \in Seq(T)
    BY <1>1
  <2>2. Joined(e, runs, k + 1, f[k] \o runs[k + 1])
    BY <1>9, <1>16, <2>1, JoinedMore DEF n
  <2>3. f[k + 1] = f[k] \o runs[k + 1]
    BY <1>10, <2>1
  <2>4. Joined(e, runs, k + 1, f[k + 1])
    BY <2>2, <2>3, Zenon
  <2> QED
    BY <2>1, <2>4
<1> HIDE DEF Same, Good
<1>17. \A k \in 0 .. n : k \in Same
  BY <1>1, <1>14, <1>15, BoundedInduction
<1>18. \A k \in 0 .. n : k \in Good
  BY <1>1, <1>14, <1>16, BoundedInduction
<1>19. flatten[n] = f[n] /\ Joined(e, runs, n, f[n]) /\ f[n] \in Seq(T)
  BY <1>1, <1>17, <1>18 DEF Same, Good
<1> QED
  BY <1>5, <1>9, <1>12, <1>19 DEF n
=============================================================================
