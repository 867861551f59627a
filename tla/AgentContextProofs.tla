------------------------- MODULE AgentContextProofs -------------------------
(***************************************************************************)
(* Theorems about AgentContext.  Its operators are recursive functions on  *)
(* the places of a sequence, so their lemmas are proved by induction on a  *)
(* place (Induct), which needs no theorem with an operator parameter: the  *)
(* statement is a set of numbers.                                          *)
(***************************************************************************)
EXTENDS AgentContext, TLAPS, FiniteSetTheorems, SequenceTheorems,
        WellFoundedInduction

\* A nonempty finite set of integers has the maximum that Max chooses.
LEMMA MaxOfFinite ==
  ASSUME NEW S \in SUBSET Int, IsFiniteSet(S), S # {}
  PROVE  Max(S) \in S /\ \A i \in S : i <= Max(S)
<1> DEFINE Above(i) == {j \in S : j > i}
           T == {Above(i) : i \in S}
<1>1. IsWellFoundedOn(StrictSubsetOrdering(S), FiniteSubsetsOf(S))
  BY FS_StrictSubsetOrderingWellFounded
<1>2. T \subseteq FiniteSubsetsOf(S)
  <2>1. \A i \in S : Above(i) \in SUBSET S
    OBVIOUS
  <2>2. \A i \in S : IsFiniteSet(Above(i))
    BY <2>1, FS_Subset
  <2> QED BY <2>1, <2>2 DEF FiniteSubsetsOf
<1>3. PICK X \in T : \A Y \in T : ~(<<Y, X>> \in StrictSubsetOrdering(S))
  <2> HIDE DEF T
  <2>1. T # {}
    BY DEF T
  <2> QED BY <1>1, <1>2, <2>1, WFMin
<1>4. PICK m \in S : X = Above(m)
  OBVIOUS
<1>5. \A j \in S : j <= m
  <2> SUFFICES ASSUME NEW j \in S, j > m PROVE FALSE
    OBVIOUS
  <2>0. j \in Int /\ m \in Int
    OBVIOUS
  <2>1. Above(j) \subseteq Above(m) /\ Above(j) # Above(m)
    <3>1. \A k \in S : k > j => k > m
      BY <2>0
    <3>2. j \in Above(m) /\ j \notin Above(j)
      BY <2>0
    <3> QED BY <3>1, <3>2
  <2>2. <<Above(j), Above(m)>> \in StrictSubsetOrdering(S)
    BY <2>1 DEF StrictSubsetOrdering
  <2> QED BY <1>3, <1>4, <2>2
<1>6. \E x \in S : \A y \in S : x >= y
  BY <1>5
<1> QED BY <1>6 DEF Max

\* Likewise the minimum that Min chooses.
LEMMA MinOfFinite ==
  ASSUME NEW S \in SUBSET Int, IsFiniteSet(S), S # {}
  PROVE  Min(S) \in S /\ \A i \in S : Min(S) <= i
<1> DEFINE Under(i) == {j \in S : j < i}
           T == {Under(i) : i \in S}
<1>1. IsWellFoundedOn(StrictSubsetOrdering(S), FiniteSubsetsOf(S))
  BY FS_StrictSubsetOrderingWellFounded
<1>2. T \subseteq FiniteSubsetsOf(S)
  <2>1. \A i \in S : Under(i) \in SUBSET S
    OBVIOUS
  <2>2. \A i \in S : IsFiniteSet(Under(i))
    BY <2>1, FS_Subset
  <2> QED BY <2>1, <2>2 DEF FiniteSubsetsOf
<1>3. PICK X \in T : \A Y \in T : ~(<<Y, X>> \in StrictSubsetOrdering(S))
  <2> HIDE DEF T
  <2>1. T # {}
    BY DEF T
  <2> QED BY <1>1, <1>2, <2>1, WFMin
<1>4. PICK m \in S : X = Under(m)
  OBVIOUS
<1>5. \A j \in S : m <= j
  <2> SUFFICES ASSUME NEW j \in S, j < m PROVE FALSE
    OBVIOUS
  <2>0. j \in Int /\ m \in Int
    OBVIOUS
  <2>1. Under(j) \subseteq Under(m) /\ Under(j) # Under(m)
    <3>1. \A k \in S : k < j => k < m
      BY <2>0
    <3>2. j \in Under(m) /\ j \notin Under(j)
      BY <2>0
    <3> QED BY <3>1, <3>2
  <2>2. <<Under(j), Under(m)>> \in StrictSubsetOrdering(S)
    BY <2>1 DEF StrictSubsetOrdering
  <2> QED BY <1>3, <1>4, <2>2
<1>6. \E x \in S : \A y \in S : x <= y
  BY <1>5
<1> QED BY <1>6 DEF Min

\* What holds of 0 and goes from each number to the next holds up to n.
LEMMA Induct ==
  ASSUME NEW n \in Nat, NEW T, 0 \in T, \A i \in 1 .. n : i - 1 \in T => i \in T
  PROVE  \A i \in 0 .. n : i \in T
<1> DEFINE U == {i \in 0 .. n : i \notin T}
<1> SUFFICES ASSUME U # {} PROVE FALSE
  OBVIOUS
<1>1. IsFiniteSet(U) /\ U \in SUBSET Int
  <2>1. IsFiniteSet(0 .. n) /\ U \in SUBSET (0 .. n)
    BY FS_Interval
  <2>2. IsFiniteSet(U)
    BY <2>1, FS_Subset
  <2>3. QED
    BY <2>1, <2>2
<1>2. Min(U) \in U /\ \A i \in U : Min(U) <= i
  BY <1>1, MinOfFinite
<1>3. Min(U) \in 1 .. n /\ Min(U) - 1 \in 0 .. n /\ ~(Min(U) <= Min(U) - 1)
  BY <1>2
<1>4. Min(U) - 1 \in T
  BY <1>2, <1>3
<1>5. QED
  BY <1>2, <1>3, <1>4

\* There is a function that starts with base and goes on by step.
Unfolds(f, n, S, base, step) ==
  /\ f \in [0 .. n -> S] /\ f[0] = base
  /\ \A i \in 1 .. n : f[i] = step[i][f[i - 1]]

LEMMA Recursion ==
  ASSUME NEW n \in Nat, NEW S, NEW base \in S, NEW step \in [1 .. n -> [S -> S]]
  PROVE  \E f : Unfolds(f, n, S, base, step)
<1> DEFINE Goes(f, k) == Unfolds(f, k, S, base, step)
           T == {k \in 0 .. n : \E f : Goes(f, k)}
<1>1. 0 \in T
  <2>1. Goes([i \in 0 .. 0 |-> base], 0)
    BY DEF Unfolds
  <2>2. \E f : Goes(f, 0)
    BY <2>1
  <2> HIDE DEF Goes
  <2>3. QED
    BY <2>2
<1>2. ASSUME NEW k \in 1 .. n, k - 1 \in T
      PROVE  k \in T
  <2>0. PICK f : Goes(f, k - 1)
    BY <1>2
  <2>1. /\ f \in [0 .. (k - 1) -> S] /\ f[0] = base
        /\ \A i \in 1 .. (k - 1) : f[i] = step[i][f[i - 1]]
    BY <2>0 DEF Unfolds
  <2> DEFINE g == [i \in 0 .. k |-> IF i = k THEN step[k][f[k - 1]] ELSE f[i]]
  <2>2. \A i \in 0 .. (k - 1) : g[i] = f[i] /\ f[i] \in S
    BY <2>1
  <2>3. g[k] = step[k][f[k - 1]] /\ g[k] \in S
    BY <2>2
  <2>4. g \in [0 .. k -> S]
    <3>1. \A i \in 0 .. k : i = k \/ i \in 0 .. (k - 1)
      OBVIOUS
    <3>2. \A i \in 0 .. k : g[i] \in S
      BY <2>2, <2>3, <3>1
    <3>3. g = [i \in 0 .. k |-> g[i]]
      OBVIOUS
    <3> HIDE DEF g
    <3>4. QED
      BY <3>2, <3>3
  <2> HIDE DEF g
  <2>5. \A i \in 1 .. k : g[i] = step[i][g[i - 1]]
    <3>1. \A i \in 1 .. (k - 1) : g[i] = step[i][g[i - 1]]
      BY <2>1, <2>2
    <3>2. g[k - 1] = f[k - 1]
      BY <2>2
    <3>3. QED
      BY <2>3, <3>1, <3>2
  <2>6. g[0] = base
    BY <2>1, <2>2
  <2>7. Goes(g, k)
    BY <2>4, <2>5, <2>6 DEF Unfolds
  <2>8. QED
    BY <2>7
<1>3. n \in T
  <2> HIDE DEF T
  <2>1. \A k \in 1 .. n : k - 1 \in T => k \in T
    BY <1>2
  <2>2. \A k \in 0 .. n : k \in T
    BY <1>1, <2>1, Induct
  <2>3. QED
    BY <2>2
<1>4. QED
  BY <1>3

-----------------------------------------------------------------------------
(* Sequences                                                               *)

\* Only is built one place at a time.
OnlyStep(s, places, u, i) ==
  u[i] = IF i \in places THEN Append(u[i - 1], s[i]) ELSE u[i - 1]

LEMMA OnlyUpto ==
  ASSUME NEW S, NEW s \in Seq(S), NEW places
  PROVE  \E u \in [0 .. Len(s) -> Seq(S)] :
           /\ Only(s, places) = u[Len(s)] /\ u[0] = <<>>
           /\ \A i \in 1 .. Len(s) : OnlyStep(s, places, u, i)
<1> DEFINE Body(g) == [n \in 0 .. Len(s) |->
                         IF n = 0 THEN <<>>
                         ELSE IF n \in places THEN Append(g[n - 1], s[n]) ELSE g[n - 1]]
           u == CHOOSE g : g = Body(g)
           step == [i \in 1 .. Len(s) |-> [a \in Seq(S) |->
                      IF i \in places THEN Append(a, s[i]) ELSE a]]
<1>0. Len(s) \in Nat /\ <<>> \in Seq(S) /\ \A i \in 1 .. Len(s) : s[i] \in S
  OBVIOUS
<1>1. \E g : g = Body(g)
  <2>1. step \in [1 .. Len(s) -> [Seq(S) -> Seq(S)]]
    BY <1>0
  <2> HIDE DEF step
  <2>2. PICK f : Unfolds(f, Len(s), Seq(S), <<>>, step)
    BY <1>0, <2>1, Recursion
  <2>3. /\ f \in [0 .. Len(s) -> Seq(S)] /\ f[0] = <<>>
        /\ \A i \in 1 .. Len(s) : f[i] = step[i][f[i - 1]]
    BY <2>2 DEF Unfolds
  <2> HIDE DEF Body, step
  <2>4. \A i \in 1 .. Len(s) : i - 1 \in 0 .. Len(s) /\ f[i - 1] \in Seq(S)
    <3>1. \A i \in 1 .. Len(s) : i - 1 \in 0 .. Len(s)
      BY <1>0
    <3>2. \A j \in 0 .. Len(s) : f[j] \in Seq(S)
      BY <2>3
    <3>3. QED
      BY <3>1, <3>2
  <2>5. \A i \in 1 .. Len(s) :
          f[i] = IF i \in places THEN Append(f[i - 1], s[i]) ELSE f[i - 1]
    BY <2>3, <2>4 DEF step
  <2>6. f = Body(f)
    <3>1. \A i \in 0 .. Len(s) :
            f[i] = IF i = 0 THEN <<>>
                   ELSE IF i \in places THEN Append(f[i - 1], s[i]) ELSE f[i - 1]
      <4>1. \A i \in 0 .. Len(s) : i = 0 \/ i \in 1 .. Len(s)
        BY <1>0
      <4>2. QED
        BY <2>3, <2>5, <4>1
    <3>2. f = [i \in 0 .. Len(s) |-> f[i]]
      BY <2>3
    <3>3. QED
      BY <3>1, <3>2 DEF Body
  <2>7. QED
    BY <2>6
<1>2. u = Body(u)
  <2> HIDE DEF Body
  <2>1. QED
    BY <1>1
<1>3. Only(s, places) = u[Len(s)]
  BY Zenon DEF Only
<1> HIDE DEF u
<1>4. u[0] = <<>> /\ \A i \in 1 .. Len(s) : OnlyStep(s, places, u, i)
  <2>1. \A i \in 0 .. Len(s) : u[i] = Body(u)[i]
    BY <1>2
  <2>2. u[0] = <<>>
    BY <1>0, <2>1
  <2>3. \A i \in 1 .. Len(s) : OnlyStep(s, places, u, i)
    BY <1>0, <2>1 DEF OnlyStep
  <2>4. QED
    BY <2>2, <2>3
<1>5. u \in [0 .. Len(s) -> Seq(S)]
  <2> DEFINE T == {i \in 0 .. Len(s) : u[i] \in Seq(S)}
  <2>1. 0 \in T
    <3>1. 0 \in 0 .. Len(s) /\ u[0] \in Seq(S)
      BY <1>0, <1>4
    <3>2. QED
      BY <3>1
  <2>2. ASSUME NEW i \in 1 .. Len(s), i - 1 \in T PROVE i \in T
    <3>1. u[i - 1] \in Seq(S) /\ s[i] \in S /\ i \in 0 .. Len(s)
      BY <1>0, <2>2
    <3>2. u[i] \in Seq(S)
      <4> HIDE DEF T
      <4>1. CASE i \in places
        <5>1. u[i] = Append(u[i - 1], s[i])
          BY <1>4, <4>1 DEF OnlyStep
        <5>2. Append(u[i - 1], s[i]) \in Seq(S)
          BY <3>1, AppendProperties
        <5>3. QED
          BY <5>1, <5>2
      <4>2. CASE i \notin places
        <5>1. u[i] = u[i - 1]
          BY <1>4, <4>2 DEF OnlyStep
        <5>2. QED
          BY <3>1, <5>1
      <4>3. QED
        BY <4>1, <4>2
    <3>3. QED
      BY <3>1, <3>2
  <2>3. \A i \in 0 .. Len(s) : i \in T
    <3> HIDE DEF T
    <3>1. QED
      BY <1>0, <2>1, <2>2, Induct
  <2>4. u = [i \in 0 .. Len(s) |-> u[i]]
    BY <1>2
  <2>5. QED
    BY <2>3, <2>4
<1>6. QED
  BY <1>3, <1>4, <1>5

\* A list of the numbers of I, in order.
Lists(f, m, I) ==
  /\ f \in [1 .. m -> I]
  /\ \A j, k \in 1 .. m : j < k => f[j] < f[k]
  /\ \A i \in I : \E k \in 1 .. m : f[k] = i

\* The last number is the last of the list.
LEMMA ListOneMore ==
  ASSUME NEW m \in Nat, NEW i \in Nat, NEW I \in SUBSET (0 .. (i - 1)),
         NEW f, Lists(f, m, I)
  PROVE  Lists([k \in 1 .. (m + 1) |-> IF k = m + 1 THEN i ELSE f[k]], m + 1, I \cup {i})
<1> DEFINE g == [k \in 1 .. (m + 1) |-> IF k = m + 1 THEN i ELSE f[k]]
<1>1. /\ f \in [1 .. m -> I] /\ \A j, k \in 1 .. m : j < k => f[j] < f[k]
      /\ \A j \in I : \E k \in 1 .. m : f[k] = j
  BY DEF Lists
<1>2. \A k \in 1 .. m : k \in 1 .. (m + 1) /\ g[k] = f[k] /\ f[k] \in I /\ f[k] < i
  <2>0. \A j \in I : j < i
    OBVIOUS
  <2>1. \A k \in 1 .. m : f[k] \in I /\ f[k] < i
    BY <1>1, <2>0
  <2>2. \A k \in 1 .. m : k \in 1 .. (m + 1) /\ k # m + 1
    OBVIOUS
  <2>3. QED
    BY <2>1, <2>2
<1>3. m + 1 \in 1 .. (m + 1) /\ g[m + 1] = i
  OBVIOUS
<1>4. \A k \in 1 .. (m + 1) : k \in 1 .. m \/ k = m + 1
  OBVIOUS
<1>5. g \in [1 .. (m + 1) -> I \cup {i}]
  <2>1. \A k \in 1 .. (m + 1) : g[k] \in I \cup {i}
    BY <1>2, <1>3, <1>4
  <2>2. g = [k \in 1 .. (m + 1) |-> g[k]]
    OBVIOUS
  <2> HIDE DEF g
  <2>3. QED
    BY <2>1, <2>2
<1> HIDE DEF g
<1>6. ASSUME NEW j \in 1 .. (m + 1), NEW k \in 1 .. (m + 1), j < k
      PROVE  g[j] < g[k]
  <2>1. j \in 1 .. m
    BY <1>6
  <2>2. CASE k \in 1 .. m
    BY <1>1, <1>2, <1>6, <2>1, <2>2
  <2>3. CASE k = m + 1
    BY <1>2, <1>3, <2>1, <2>3
  <2>4. QED
    BY <1>4, <2>2, <2>3
<1>7. \A j \in I \cup {i} : \E k \in 1 .. (m + 1) : g[k] = j
  BY <1>1, <1>2, <1>3
<1>8. Lists(g, m + 1, I \cup {i})
  BY <1>5, <1>6, <1>7 DEF Lists
<1>9. QED
  BY <1>8 DEF g

\* Only holds what the sequence holds at the places, in their order.
LEMMA OnlyPlaces ==
  ASSUME NEW S, NEW s \in Seq(S), NEW I \in SUBSET (1 .. Len(s))
  PROVE  /\ Only(s, I) \in Seq(S)
         /\ \E f : /\ Lists(f, Len(Only(s, I)), I)
                   /\ \A k \in 1 .. Len(Only(s, I)) : Only(s, I)[k] = s[f[k]]
<1>1. PICK u \in [0 .. Len(s) -> Seq(S)] :
        /\ Only(s, I) = u[Len(s)] /\ u[0] = <<>>
        /\ \A i \in 1 .. Len(s) : OnlyStep(s, I, u, i)
  BY OnlyUpto
<1>2. Len(s) \in Nat /\ \A i \in 1 .. Len(s) : s[i] \in S
  OBVIOUS
<1> DEFINE Holds(f, i) == /\ Lists(f, Len(u[i]), I \cap (1 .. i))
                          /\ \A k \in 1 .. Len(u[i]) : u[i][k] = s[f[k]]
           T == {i \in 0 .. Len(s) : \E f : Holds(f, i)}
<1>3. 0 \in T
  <2>1. Len(u[0]) = 0
    BY <1>1
  <2>2. I \cap (1 .. 0) = {} /\ 1 .. 0 = {}
    OBVIOUS
  <2>3. Lists([k \in {} |-> 0], 0, {})
    BY <2>2 DEF Lists
  <2>4. Holds([k \in {} |-> 0], 0)
    BY <2>1, <2>2, <2>3
  <2>5. \E f : Holds(f, 0)
    BY <2>4
  <2> HIDE DEF Holds
  <2>6. QED
    BY <1>2, <2>5
<1>4. ASSUME NEW i \in 1 .. Len(s), i - 1 \in T
      PROVE  i \in T
  <2>1. PICK f : Holds(f, i - 1)
    BY <1>4
  <2>2. /\ Lists(f, Len(u[i - 1]), I \cap (1 .. (i - 1)))
        /\ \A k \in 1 .. Len(u[i - 1]) : u[i - 1][k] = s[f[k]]
    BY <2>1
  <2>3. u[i - 1] \in Seq(S) /\ Len(u[i - 1]) \in Nat /\ i \in Nat /\ s[i] \in S
    BY <1>1, <1>2
  <2> SUFFICES \E g : Holds(g, i)
    BY <1>2
  <2>4. CASE i \in I
    <3> DEFINE m == Len(u[i - 1])
               J == I \cap (1 .. (i - 1))
               g == [k \in 1 .. (m + 1) |-> IF k = m + 1 THEN i ELSE f[k]]
    <3> HIDE DEF m
    <3>1. u[i] = Append(u[i - 1], s[i])
      BY <1>1, <2>4 DEF OnlyStep
    <3>2. /\ Len(u[i]) = m + 1 /\ u[i][m + 1] = s[i]
          /\ \A k \in 1 .. m : u[i][k] = u[i - 1][k]
      BY <2>3, <3>1, AppendProperties DEF m
    <3>3. I \cap (1 .. i) = J \cup {i} /\ J \in SUBSET (0 .. (i - 1))
      BY <2>3, <2>4
    <3>4. m \in Nat /\ Lists(f, m, J)
      BY <2>2, <2>3 DEF m
    <3>5. Lists(g, m + 1, J \cup {i})
      <4> HIDE DEF J
      <4>1. QED
        BY <2>3, <3>3, <3>4, ListOneMore
    <3>6. \A k \in 1 .. (m + 1) : u[i][k] = s[g[k]]
      <4>1. \A k \in 1 .. (m + 1) : k \in 1 .. m \/ k = m + 1
        BY <3>4
      <4>2. \A k \in 1 .. m : k \in 1 .. (m + 1) /\ k # m + 1
        BY <3>4
      <4>3. m + 1 \in 1 .. (m + 1)
        BY <3>4
      <4>4. (\A k \in 1 .. m : g[k] = f[k]) /\ g[m + 1] = i
        BY <4>2, <4>3
      <4> HIDE DEF g
      <4>5. QED
        BY <2>2, <3>2, <4>1, <4>4 DEF m
    <3> HIDE DEF g
    <3>7. QED
      BY <3>2, <3>3, <3>5, <3>6 DEF m
  <2>5. CASE i \notin I
    <3>1. u[i] = u[i - 1]
      BY <1>1, <2>5 DEF OnlyStep
    <3>2. I \cap (1 .. i) = I \cap (1 .. (i - 1))
      BY <2>3, <2>5
    <3>3. Holds(f, i)
      BY <2>2, <3>1, <3>2
    <3>4. QED
      BY <3>3
  <2>6. QED
    BY <2>4, <2>5
<1>5. Len(s) \in T
  <2> HIDE DEF T
  <2>1. \A i \in 1 .. Len(s) : i - 1 \in T => i \in T
    BY <1>4
  <2>2. \A i \in 0 .. Len(s) : i \in T
    BY <1>2, <1>3, <2>1, Induct
  <2>3. QED
    BY <1>2, <2>2
<1>6. PICK f : Holds(f, Len(s))
  BY <1>5
<1>7. I \cap (1 .. Len(s)) = I
  OBVIOUS
<1>8. u[Len(s)] \in Seq(S)
  BY <1>1, <1>2
<1>9. QED
  BY <1>1, <1>6, <1>7, <1>8

\* At all its places a sequence holds itself.
LEMMA OnlyAll ==
  ASSUME NEW S, NEW s \in Seq(S)
  PROVE  Only(s, 1 .. Len(s)) = s
<1> DEFINE I == 1 .. Len(s)
<1>1. PICK u \in [0 .. Len(s) -> Seq(S)] :
        /\ Only(s, I) = u[Len(s)] /\ u[0] = <<>>
        /\ \A i \in 1 .. Len(s) : OnlyStep(s, I, u, i)
  BY OnlyUpto
<1>2. Len(s) \in Nat /\ \A i \in 1 .. Len(s) : s[i] \in S
  OBVIOUS
<1> DEFINE T == {i \in 0 .. Len(s) : Len(u[i]) = i /\ \A k \in 1 .. i : u[i][k] = s[k]}
<1>3. 0 \in T
  BY <1>1, <1>2
<1>4. ASSUME NEW i \in 1 .. Len(s), i - 1 \in T
      PROVE  i \in T
  <2>1. u[i - 1] \in Seq(S) /\ Len(u[i - 1]) = i - 1 /\ s[i] \in S
    BY <1>1, <1>2, <1>4
  <2>2. u[i] = Append(u[i - 1], s[i])
    BY <1>1 DEF OnlyStep
  <2>3. Len(u[i]) = i /\ u[i][i] = s[i] /\ \A k \in 1 .. (i - 1) : u[i][k] = u[i - 1][k]
    BY <2>1, <2>2, AppendProperties
  <2>4. \A k \in 1 .. i : k \in 1 .. (i - 1) \/ k = i
    OBVIOUS
  <2>5. \A k \in 1 .. (i - 1) : u[i - 1][k] = s[k]
    BY <1>4
  <2>6. QED
    BY <1>2, <2>3, <2>4, <2>5
<1>5. Len(s) \in T
  <2> HIDE DEF T
  <2>1. \A i \in 1 .. Len(s) : i - 1 \in T => i \in T
    BY <1>4
  <2>2. \A i \in 0 .. Len(s) : i \in T
    BY <1>2, <1>3, <2>1, Induct
  <2>3. QED
    BY <1>2, <2>2
<1>6. u[Len(s)] \in Seq(S) /\ Len(u[Len(s)]) = Len(s)
  BY <1>1, <1>2, <1>5
<1>7. \A k \in 1 .. Len(s) : u[Len(s)][k] = s[k]
  BY <1>5
<1>8. QED
  BY <1>1, <1>6, <1>7, SeqEqual

\* A list has as many places as there are numbers.
LEMMA ListCount ==
  ASSUME NEW m \in Nat, NEW I \in SUBSET Nat, NEW f, Lists(f, m, I)
  PROVE  Cardinality(I) = m
<1>1. \A j, k \in 1 .. m : f[j] \in Int /\ (f[j] = f[k] => j = k)
  <2>1. \A j, k \in 1 .. m : f[j] \in Nat /\ (j < k => f[j] < f[k])
    BY DEF Lists
  <2>2. \A j, k \in 1 .. m : j < k \/ k < j \/ j = k
    OBVIOUS
  <2>3. QED
    BY <2>1, <2>2
<1>2. f \in Bijection(1 .. m, I)
  BY <1>1 DEF Lists, Bijection, Injection, Surjection, IsInjective
<1>3. ExistsBijection(1 .. m, I)
  BY <1>2 DEF ExistsBijection
<1>4. QED
  BY <1>3, FS_CountingElements

\* What a sequence holds at some places has as many elements as there are places.
LEMMA OnlyCount ==
  ASSUME NEW S, NEW s \in Seq(S), NEW I \in SUBSET (1 .. Len(s))
  PROVE  Len(Only(s, I)) = Cardinality(I)
<1> DEFINE m == Len(Only(s, I))
<1>1. m \in Nat /\ I \in SUBSET Nat
  BY OnlyPlaces
<1>2. PICK f : Lists(f, m, I)
  BY OnlyPlaces
<1> HIDE DEF m
<1>3. Cardinality(I) = m
  BY <1>1, <1>2, ListCount
<1>4. QED
  BY <1>3 DEF m

-----------------------------------------------------------------------------
(* Messages                                                                *)

Msg == [role : {"system", "user", "assistant", "tool"}, resp : Nat,
        calls : Seq(Nat), event : Nat]

\* Messages of which none has to go.
Sound(ms) ==
  /\ ms \in Seq(Msg) /\ Paired(ms)
  /\ \A i \in DOMAIN ms :
       ms[i].role # "tool" => ms[i].resp = 0 \/ ms[i].calls # <<>>

\* What is shown of a history: its events, a summary, and what was masked.
Shown ==
  {e \in [kind : Kinds \cup {"summary", "masked"}, id : Nat, resp : Nat, call : Nat,
          calls : Nat, forgets : SUBSET Nat, summary : BOOLEAN] :
     e.kind = "call" => e.calls # 0}

LEMMA MessagesAre ==
  ASSUME NEW ms \in Seq(Msg), NEW i \in DOMAIN ms
  PROVE  /\ ms[i] \in Msg /\ ms[i].calls \in Seq(Nat) /\ Len(ms[i].calls) \in Nat
         /\ ms[i].resp \in Nat /\ DOMAIN ms[i].calls = 1 .. Len(ms[i].calls)
<1>1. ms[i] \in Msg
  OBVIOUS
<1>2. ms[i].calls \in Seq(Nat) /\ ms[i].resp \in Nat
  BY <1>1 DEF Msg
<1>3. QED
  BY <1>1, <1>2

LEMMA NothingIsSound == Sound(<<>>)
<1>1. <<>> \in Seq(Msg) /\ DOMAIN <<>> = {}
  OBVIOUS
<1>2. QED
  BY <1>1 DEF Sound, Paired

\* Conversations that pair calls and results do so one after the other.
LEMMA SoundConcat ==
  ASSUME NEW a, NEW b, Sound(a), Sound(b)
  PROVE  Sound(a \o b)
<1> DEFINE n == Len(a)
           ms == a \o b
<1>1. a \in Seq(Msg) /\ b \in Seq(Msg) /\ n \in Nat /\ Len(b) \in Nat
  BY DEF Sound
<1>2. ms \in Seq(Msg) /\ Len(ms) = n + Len(b) /\ DOMAIN ms = 1 .. (n + Len(b))
  BY <1>1
<1>3. \A i \in 1 .. n : i \in DOMAIN ms /\ ms[i] = a[i]
  BY <1>1
<1>4. \A i \in 1 .. Len(b) : n + i \in DOMAIN ms /\ ms[n + i] = b[i]
  BY <1>1
<1>5. \A i \in DOMAIN ms :
        \/ i \in 1 .. n /\ i \in DOMAIN a
        \/ \E j \in 1 .. Len(b) : i = n + j /\ j \in DOMAIN b
  <2>1. \A i \in DOMAIN ms : i \in 1 .. n \/ (i - n \in 1 .. Len(b) /\ i = n + (i - n))
    BY <1>1, <1>2
  <2>2. DOMAIN a = 1 .. n /\ DOMAIN b = 1 .. Len(b)
    BY <1>1
  <2>3. QED
    BY <2>1, <2>2
<1> HIDE DEF ms, n
<1>6. ASSUME NEW i \in DOMAIN ms, ms[i].role = "assistant"
      PROVE  FollowedByResults(ms, i)
  <2>1. CASE i \in 1 .. n /\ i \in DOMAIN a
    <3>1. FollowedByResults(a, i)
      BY <1>3, <1>6, <2>1 DEF Sound, Paired
    <3>2. ASSUME NEW k \in DOMAIN ms[i].calls
          PROVE  /\ i + k <= Len(ms) /\ ms[i + k].role = "tool"
                 /\ ms[i + k].resp = ms[i].resp /\ ms[i + k].calls = <<ms[i].calls[k]>>
      <4>1. /\ i + k <= Len(a) /\ a[i + k].role = "tool"
            /\ a[i + k].resp = a[i].resp /\ a[i + k].calls = <<a[i].calls[k]>>
        BY <1>3, <2>1, <3>1 DEF FollowedByResults
      <4>2. a[i].calls \in Seq(Nat)
        BY <1>1, <2>1, MessagesAre
      <4>3. k \in Nat \ {0} /\ i \in Nat \ {0}
        BY <1>3, <2>1, <4>2
      <4>4. i + k \in 1 .. n
        BY <1>1, <4>1, <4>3 DEF n
      <4>5. QED
        BY <1>1, <1>2, <1>3, <2>1, <4>1, <4>4
    <3>3. QED
      BY <3>2 DEF FollowedByResults
  <2>2. CASE \E j \in 1 .. Len(b) : i = n + j /\ j \in DOMAIN b
    <3>1. PICK j \in 1 .. Len(b) : i = n + j /\ j \in DOMAIN b
      BY <2>2
    <3>2. FollowedByResults(b, j)
      BY <1>4, <1>6, <3>1 DEF Sound, Paired
    <3>3. ASSUME NEW k \in DOMAIN ms[i].calls
          PROVE  /\ i + k <= Len(ms) /\ ms[i + k].role = "tool"
                 /\ ms[i + k].resp = ms[i].resp /\ ms[i + k].calls = <<ms[i].calls[k]>>
      <4>1. /\ j + k <= Len(b) /\ b[j + k].role = "tool"
            /\ b[j + k].resp = b[j].resp /\ b[j + k].calls = <<b[j].calls[k]>>
        BY <1>4, <3>1, <3>2 DEF FollowedByResults
      <4>2. b[j].calls \in Seq(Nat)
        BY <1>1, <3>1, MessagesAre
      <4>3. k \in Nat \ {0} /\ j \in Nat \ {0} /\ ms[i] = b[j]
        BY <1>4, <3>1, <4>2
      <4>4. j + k \in 1 .. Len(b) /\ i + k = n + (j + k)
        BY <1>1, <3>1, <4>1, <4>3
      <4>5. QED
        BY <1>1, <1>2, <1>4, <4>1, <4>3, <4>4
    <3>4. QED
      BY <3>3 DEF FollowedByResults
  <2>3. QED
    BY <1>5, <2>1, <2>2
<1>7. ASSUME NEW j \in DOMAIN ms, ms[j].role = "tool"
      PROVE  \E i \in 1 .. (j - 1) :
               ms[i].role = "assistant" /\ j <= i + Len(ms[i].calls)
  <2>1. CASE j \in 1 .. n /\ j \in DOMAIN a
    <3>1. PICK i \in 1 .. (j - 1) : a[i].role = "assistant" /\ j <= i + Len(a[i].calls)
      BY <1>3, <1>7, <2>1 DEF Sound, Paired
    <3>2. i \in 1 .. n
      BY <1>1, <2>1
    <3>3. QED
      BY <1>3, <3>1, <3>2
  <2>2. CASE \E k \in 1 .. Len(b) : j = n + k /\ k \in DOMAIN b
    <3>1. PICK k \in 1 .. Len(b) : j = n + k /\ k \in DOMAIN b
      BY <2>2
    <3>2. PICK i \in 1 .. (k - 1) : b[i].role = "assistant" /\ k <= i + Len(b[i].calls)
      BY <1>4, <1>7, <3>1 DEF Sound, Paired
    <3>3. i \in 1 .. Len(b) /\ n + i \in 1 .. (j - 1) /\ ms[n + i] = b[i]
      BY <1>1, <1>4, <3>1
    <3>4. i \in DOMAIN b /\ Len(b[i].calls) \in Nat
      BY <1>1, <3>3, MessagesAre
    <3>5. j <= (n + i) + Len(b[i].calls)
      <4>1. i \in Nat /\ k \in Nat
        BY <3>3
      <4>2. QED
        BY <1>1, <3>1, <3>2, <3>4, <4>1
    <3>6. QED
      BY <3>2, <3>3, <3>5
  <2>3. QED
    BY <1>5, <2>1, <2>2
<1>8. \A i \in DOMAIN ms : ms[i].role # "tool" => ms[i].resp = 0 \/ ms[i].calls # <<>>
  BY <1>3, <1>4, <1>5 DEF Sound
<1>9. Sound(ms)
  BY <1>2, <1>6, <1>7, <1>8 DEF Sound, Paired
<1>10. QED
  BY <1>9 DEF ms

LEMMA SayIsSound ==
  ASSUME NEW role \in {"system", "user", "assistant"}, NEW e \in Shown
  PROVE  /\ Sound(Say(role, e)) /\ Len(Say(role, e)) = 1
         /\ Say(role, e)[1].role = role /\ Say(role, e)[1].event = e.id
<1> DEFINE m == Message(role, 0, <<>>, e.id)
<1>1. /\ m \in Msg /\ m.role = role /\ m.resp = 0 /\ m.calls = <<>> /\ m.event = e.id
  <2>1. m = [role |-> role, resp |-> 0, calls |-> <<>>, event |-> e.id]
    BY DEF Message
  <2>2. e.id \in Nat /\ <<>> \in Seq(Nat)
    BY DEF Shown
  <2> HIDE DEF m
  <2>3. QED
    BY <2>1, <2>2 DEF Msg
<1>2. Say(role, e) = <<m>>
  BY DEF Say
<1> HIDE DEF m
<1>3. <<m>> \in Seq(Msg) /\ DOMAIN <<m>> = {1} /\ <<m>>[1] = m /\ Len(<<m>>) = 1
  BY <1>1
<1>4. DOMAIN m.calls = {}
  BY <1>1
<1>5. FollowedByResults(<<m>>, 1)
  BY <1>3, <1>4 DEF FollowedByResults
<1>6. Sound(<<m>>)
  BY <1>1, <1>3, <1>5 DEF Sound, Paired
<1>7. QED
  BY <1>1, <1>2, <1>3, <1>6

LEMMA DirectIsSound ==
  ASSUME NEW e \in Shown
  PROVE  Sound(Direct(e))
<1>1. CASE e.kind = "system"
  BY <1>1, SayIsSound DEF Direct
<1>2. CASE e.kind \in {"user", "recalled", "summary", "masked"}
  BY <1>2, SayIsSound DEF Direct
<1>3. CASE e.kind \in {"say", "finish"}
  BY <1>3, SayIsSound DEF Direct
<1>4. CASE e.kind \notin {"system", "user", "recalled", "summary", "masked", "say", "finish"}
  BY <1>4, NothingIsSound DEF Direct
<1>5. QED
  BY <1>1, <1>2, <1>3, <1>4

\* A response of which some calls are not answered yet.
Wait == [resp : Nat, calls : Nat \ {0}]

LEMMA ExchangeIsSound ==
  ASSUME NEW w \in Wait
  PROVE  Sound(Exchange(w))
<1> DEFINE m == Asked(w)
           results == [c \in 1 .. w.calls |-> Tool(w, c)]
           ms == Exchange(w)
<1>1. w.resp \in Nat /\ w.calls \in Nat \ {0}
  BY DEF Wait
<1>2. /\ m \in Msg /\ m.role = "assistant" /\ m.resp = w.resp
      /\ m.calls = [c \in 1 .. w.calls |-> c]
  <2> DEFINE cs == [c \in 1 .. w.calls |-> c]
  <2>1. m = [role |-> "assistant", resp |-> w.resp, calls |-> cs, event |-> 0]
    BY DEF Asked, Message
  <2>2. cs \in Seq(Nat)
    BY <1>1
  <2> HIDE DEF m, cs
  <2>3. /\ m \in Msg /\ m.role = "assistant" /\ m.resp = w.resp /\ m.calls = cs
    BY <1>1, <2>1, <2>2 DEF Msg
  <2>4. QED
    BY <2>3 DEF cs
<1>3. \A c \in 1 .. w.calls : /\ Tool(w, c) \in Msg /\ Tool(w, c).role = "tool"
                              /\ Tool(w, c).resp = w.resp /\ Tool(w, c).calls = <<c>>
  <2>1. \A c : Tool(w, c) = [role |-> "tool", resp |-> w.resp, calls |-> <<c>>, event |-> 0]
    BY DEF Tool, Message
  <2>2. \A c \in 1 .. w.calls : <<c>> \in Seq(Nat)
    BY <1>1
  <2>3. QED
    <3> TAKE c \in 1 .. w.calls
    <3>1. Tool(w, c) = [role |-> "tool", resp |-> w.resp, calls |-> <<c>>, event |-> 0]
      BY <2>1
    <3>2. <<c>> \in Seq(Nat) /\ 0 \in Nat
      BY <2>2
    <3>3. QED
      BY <1>1, <3>1, <3>2 DEF Msg
<1>4. results \in Seq(Msg) /\ Len(results) = w.calls
  BY <1>1, <1>3
<1>5. Len(m.calls) = w.calls /\ DOMAIN m.calls = 1 .. w.calls /\ m.calls # <<>>
      /\ \A k \in 1 .. w.calls : m.calls[k] = k
  BY <1>1, <1>2
<1> HIDE DEF m
<1>6. <<m>> \in Seq(Msg) /\ Len(<<m>>) = 1 /\ <<m>>[1] = m
  BY <1>2
<1>7. ms = <<m>> \o results
  BY DEF Exchange, m
<1>8. /\ ms \in Seq(Msg) /\ Len(ms) = 1 + w.calls /\ ms[1] = m
      /\ \A c \in 1 .. w.calls : ms[1 + c] = Tool(w, c)
  <2> HIDE DEF ms, results
  <2>1. /\ ms \in Seq(Msg) /\ Len(ms) = 1 + w.calls
        /\ \A i \in 1 .. (1 + w.calls) : ms[i] = IF i <= 1 THEN <<m>>[i] ELSE results[i - 1]
    BY <1>4, <1>6, <1>7, ConcatProperties
  <2>2. ms[1] = m
    BY <1>1, <1>6, <2>1
  <2>3. \A c \in 1 .. w.calls : 1 + c \in 1 .. (1 + w.calls) /\ ~(1 + c <= 1) /\ (1 + c) - 1 = c
    BY <1>1
  <2>4. \A c \in 1 .. w.calls : ms[1 + c] = results[c]
    BY <2>1, <2>3
  <2>5. QED
    BY <2>1, <2>2, <2>4 DEF results
<1> HIDE DEF ms
<1>9. \A i \in DOMAIN ms : i = 1 \/ \E c \in 1 .. w.calls : i = 1 + c
  <2>0. DOMAIN ms = 1 .. (1 + w.calls)
    BY <1>8
  <2>1. \A i \in DOMAIN ms : i = 1 \/ (i - 1 \in 1 .. w.calls /\ i = 1 + (i - 1))
    BY <1>1, <2>0
  <2>2. QED
    BY <2>1
<1>10. FollowedByResults(ms, 1)
  <2>1. \A k \in 1 .. w.calls : 1 + k <= Len(ms)
    BY <1>1, <1>8
  <2>2. \A k \in 1 .. w.calls : /\ ms[1 + k].role = "tool" /\ ms[1 + k].resp = w.resp
                                /\ ms[1 + k].calls = <<k>>
    BY <1>3, <1>8
  <2>3. \A k \in 1 .. w.calls : <<m.calls[k]>> = <<k>>
    BY <1>5
  <2>4. ms[1].resp = w.resp /\ DOMAIN ms[1].calls = 1 .. w.calls /\ ms[1].calls = m.calls
    BY <1>2, <1>5, <1>8
  <2>5. QED
    BY <2>1, <2>2, <2>3, <2>4 DEF FollowedByResults
<1>11. \A i \in DOMAIN ms : ms[i].role = "assistant" => FollowedByResults(ms, i)
  BY <1>3, <1>8, <1>9, <1>10
<1>12. ASSUME NEW j \in DOMAIN ms, ms[j].role = "tool"
       PROVE  \E i \in 1 .. (j - 1) : ms[i].role = "assistant" /\ j <= i + Len(ms[i].calls)
  <2>1. PICK c \in 1 .. w.calls : j = 1 + c
    BY <1>2, <1>8, <1>9, <1>12
  <2>2. 1 \in 1 .. (j - 1) /\ j <= 1 + w.calls
    BY <1>1, <2>1
  <2>3. QED
    BY <1>2, <1>5, <1>8, <2>2
<1>13. \A i \in DOMAIN ms : ms[i].role # "tool" => ms[i].resp = 0 \/ ms[i].calls # <<>>
  BY <1>3, <1>5, <1>8, <1>9
<1>14. Sound(ms)
  BY <1>8, <1>11, <1>12, <1>13 DEF Sound, Paired
<1>15. QED
  BY <1>14 DEF ms

\* So do the exchanges of several responses.
LEMMA FlattenedIsSound ==
  ASSUME NEW seqs \in Seq({ms \in Seq(Msg) : Sound(ms)})
  PROVE  Sound(FlattenSeq(seqs))
<1> DEFINE X == {ms \in Seq(Msg) : Sound(ms)}
           n == Len(seqs)
           Body(g) == [i \in 1 .. n |-> IF i = 1 THEN seqs[i] ELSE g[i - 1] \o seqs[i]]
           u == CHOOSE g : g = Body(g)
           step == [i \in 1 .. n |-> [a \in X |-> a \o seqs[i]]]
<1>1. n \in Nat /\ \A i \in 1 .. n : seqs[i] \in X
  OBVIOUS
<1>2. <<>> \in X /\ \A a, b \in X : a \o b \in X
  <2>1. \A a \in X : Sound(a)
    OBVIOUS
  <2>2. \A a : Sound(a) => a \in X
    BY DEF Sound
  <2> HIDE DEF X
  <2>3. QED
    BY <2>1, <2>2, NothingIsSound, SoundConcat
<1> HIDE DEF X
<1>3. CASE n = 0
  <2>1. FlattenSeq(seqs) = <<>>
    BY <1>3 DEF FlattenSeq
  <2>2. QED
    BY <2>1, NothingIsSound
<1>4. CASE n # 0
  <2>1. \E g : g = Body(g)
    <3>1. step \in [1 .. n -> [X -> X]]
      BY <1>1, <1>2
    <3> HIDE DEF step, n
    <3>2. PICK f : Unfolds(f, n, X, <<>>, step)
      BY <1>1, <1>2, <3>1, Recursion
    <3>3. /\ f \in [0 .. n -> X] /\ f[0] = <<>>
          /\ \A i \in 1 .. n : f[i] = step[i][f[i - 1]]
      BY <3>2 DEF Unfolds
    <3>4. \A i \in 1 .. n : i - 1 \in 0 .. n /\ f[i - 1] \in X
      BY <1>1, <3>3
    <3>5. \A i \in 1 .. n : f[i] = f[i - 1] \o seqs[i]
      BY <3>3, <3>4 DEF step
    <3>6. 1 \in 1 .. n => f[1] = seqs[1]
      <4> SUFFICES ASSUME 1 \in 1 .. n PROVE f[1] = seqs[1]
        OBVIOUS
      <4>1. f[1] = f[0] \o seqs[1]
        <5>1. \A i \in 1 .. n : i = 1 => i - 1 = 0
          OBVIOUS
        <5>2. \A i \in 1 .. n : i = 1 => f[i] = f[0] \o seqs[i]
          BY <3>5, <5>1
        <5>3. QED
          BY <5>2
      <4>2. seqs[1] \in Seq(Msg)
        BY <1>1 DEF X
      <4>3. QED
        BY <3>3, <4>1, <4>2, ConcatEmptySeq
    <3> DEFINE h == [i \in 1 .. n |-> f[i]]
    <3>7. \A i \in 1 .. n : h[i] = IF i = 1 THEN seqs[i] ELSE h[i - 1] \o seqs[i]
      <4>1. \A i \in 1 .. n : i = 1 \/ i - 1 \in 1 .. n
        BY <1>1
      <4>2. QED
        BY <3>5, <3>6, <4>1
    <3>8. h = [i \in 1 .. n |-> h[i]]
      OBVIOUS
    <3> HIDE DEF h
    <3>9. h = Body(h)
      BY <3>7, <3>8
    <3>10. QED
      BY <3>9
  <2>2. u = Body(u)
    <3> HIDE DEF Body
    <3>1. QED
      BY <2>1
  <2>3. FlattenSeq(seqs) = u[n]
    BY <1>4, Zenon DEF FlattenSeq
  <2> HIDE DEF u
  <2>4. \A i \in 1 .. n : u[i] = IF i = 1 THEN seqs[i] ELSE u[i - 1] \o seqs[i]
    BY <2>2
  <2> DEFINE T == {i \in 0 .. n : i = 0 \/ u[i] \in X}
  <2>5. 0 \in T
    BY <1>1
  <2>6. ASSUME NEW i \in 1 .. n, i - 1 \in T
        PROVE  i \in T
    <3>1. CASE i = 1
      BY <1>1, <2>4, <2>6, <3>1
    <3>2. CASE i # 1
      <4>1. u[i - 1] \in X /\ seqs[i] \in X
        BY <1>1, <2>6, <3>2
      <4>2. u[i] = u[i - 1] \o seqs[i]
        BY <2>4, <3>2
      <4>3. i \in 0 .. n
        BY <1>1
      <4>4. QED
        BY <1>2, <4>1, <4>2, <4>3
    <3>3. QED
      BY <3>1, <3>2
  <2>7. n \in T
    <3> HIDE DEF T
    <3>1. \A i \in 1 .. n : i - 1 \in T => i \in T
      BY <2>6
    <3>2. \A i \in 0 .. n : i \in T
      BY <1>1, <2>5, <3>1, Induct
    <3>3. QED
      BY <1>1, <3>2
  <2>8. u[n] \in X
    BY <1>4, <2>7
  <2>9. QED
    BY <2>3, <2>8 DEF X
<1>5. QED
  BY <1>3, <1>4

\* What process_events has so far.
Progress ==
  {a \in [out : Seq(Msg), waits : Seq(Wait), got : SUBSET (Nat \X Nat)] :
     Sound(a.out)}

\* An event adds its own message and whole exchanges.
LEMMA EventIsProcessed ==
  ASSUME NEW acc \in Progress, NEW e \in Shown
  PROVE  /\ ProcessEvent(acc, e) \in Progress
         /\ \E b : Sound(b) /\ ProcessEvent(acc, e).out = (acc.out \o Direct(e)) \o b
<1> DEFINE new == e.kind = "call" /\ \A i \in DOMAIN acc.waits :
                    acc.waits[i].resp # e.resp
           waits == IF new
                      THEN Append(acc.waits, [resp |-> e.resp, calls |-> e.calls])
                      ELSE acc.waits
           got == IF e.kind \in {"result", "page"}
                    THEN acc.got \cup {<<e.resp, e.call>>} ELSE acc.got
           ready == {i \in DOMAIN waits : AllGot(waits[i], got)}
           done == Only(waits, ready)
           exchanges == [i \in DOMAIN done |-> Exchange(done[i])]
           b == FlattenSeq(exchanges)
           rest == Only(waits, DOMAIN waits \ ready)
           left == {g \in got : \A i \in DOMAIN done : done[i].resp # g[1]}
<1>1. /\ acc.waits \in Seq(Wait) /\ acc.got \in SUBSET (Nat \X Nat)
      /\ acc.out \in Seq(Msg) /\ Sound(acc.out)
  BY DEF Progress
<1>2. e.resp \in Nat /\ e.call \in Nat /\ (e.kind = "call" => e.calls \in Nat \ {0})
  BY DEF Shown
<1>3. waits \in Seq(Wait)
  <2>1. CASE new
    <3>1. [resp |-> e.resp, calls |-> e.calls] \in Wait
      BY <1>2, <2>1 DEF Wait
    <3>2. QED
      BY <1>1, <2>1, <3>1, AppendProperties
  <2>2. CASE ~new
    BY <1>1, <2>2
  <2>3. QED
    BY <2>1, <2>2
<1> HIDE DEF waits
<1>4. got \in SUBSET (Nat \X Nat)
  BY <1>1, <1>2
<1> HIDE DEF got
<1>5. done \in Seq(Wait) /\ rest \in Seq(Wait)
  <2>1. ready \in SUBSET (1 .. Len(waits))
    BY <1>3
  <2>2. DOMAIN waits \ ready \in SUBSET (1 .. Len(waits))
    BY <1>3
  <2> HIDE DEF ready
  <2>3. QED
    BY <1>3, <2>1, <2>2, OnlyPlaces
<1> HIDE DEF done, rest
<1>6. Sound(b)
  <2> DEFINE X == {ms \in Seq(Msg) : Sound(ms)}
  <2>1. \A i \in 1 .. Len(done) : done[i] \in Wait
    BY <1>5
  <2>2. \A i \in 1 .. Len(done) : Sound(Exchange(done[i]))
    BY <2>1, ExchangeIsSound
  <2>3. \A ms : Sound(ms) => ms \in X
    BY DEF Sound
  <2>4. DOMAIN done = 1 .. Len(done) /\ Len(done) \in Nat
    BY <1>5
  <2>5. exchanges \in Seq(X)
    <3> HIDE DEF X
    <3>1. QED
      BY <2>2, <2>3, <2>4
  <2> HIDE DEF exchanges
  <2>6. QED
    BY <2>5, FlattenedIsSound
<1> HIDE DEF b
<1>7. left \in SUBSET (Nat \X Nat)
  BY <1>4
<1> HIDE DEF left
<1>8. ProcessEvent(acc, e) =
        [out |-> acc.out \o Direct(e) \o b, waits |-> rest, got |-> left]
  BY DEF ProcessEvent, b, exchanges, rest, left, done, ready, got, waits, new
<1>9. Sound((acc.out \o Direct(e)) \o b)
  BY <1>1, <1>6, DirectIsSound, SoundConcat
<1>10. (acc.out \o Direct(e)) \o b \in Seq(Msg)
  BY <1>9 DEF Sound
<1> DEFINE more == (acc.out \o Direct(e)) \o b
<1>11. ProcessEvent(acc, e) = [out |-> more, waits |-> rest, got |-> left]
  BY <1>8
<1> HIDE DEF more
<1>12. more \in Seq(Msg) /\ Sound(more)
  BY <1>9, <1>10 DEF more
<1>13. ProcessEvent(acc, e) \in Progress
  BY <1>5, <1>7, <1>11, <1>12 DEF Progress
<1>14. ProcessEvent(acc, e).out = more
  BY <1>11
<1>15. QED
  BY <1>6, <1>13, <1>14 DEF more

Nothing == [out |-> <<>>, waits |-> <<>>, got |-> {}]

\* Events are processed one by one.
LEMMA ProcessedUpto ==
  ASSUME NEW v \in Seq(Shown)
  PROVE  \E u \in [0 .. Len(v) -> Progress] :
           /\ Processed(v) = u[Len(v)].out /\ u[0] = Nothing
           /\ \A i \in 1 .. Len(v) : u[i] = ProcessEvent(u[i - 1], v[i])
<1> DEFINE n == Len(v)
           Body(g) == [i \in 0 .. n |->
                         IF i = 0 THEN [out |-> <<>>, waits |-> <<>>, got |-> {}]
                         ELSE ProcessEvent(g[i - 1], v[i])]
           u == CHOOSE g : g = Body(g)
           step == [i \in 1 .. n |-> [a \in Progress |-> ProcessEvent(a, v[i])]]
<1>1. n \in Nat /\ \A i \in 1 .. n : v[i] \in Shown
  OBVIOUS
<1>2. Nothing \in Progress
  <2>1. <<>> \in Seq(Msg) /\ <<>> \in Seq(Wait)
    OBVIOUS
  <2>2. QED
    BY <2>1, NothingIsSound DEF Nothing, Progress
<1>3. \A a \in Progress, i \in 1 .. n : ProcessEvent(a, v[i]) \in Progress
  BY <1>1, EventIsProcessed
<1>4. \E g : g = Body(g)
  <2>1. step \in [1 .. n -> [Progress -> Progress]]
    BY <1>3
  <2> HIDE DEF step, n
  <2>2. PICK f : Unfolds(f, n, Progress, Nothing, step)
    BY <1>1, <1>2, <2>1, Recursion
  <2>3. /\ f \in [0 .. n -> Progress] /\ f[0] = Nothing
        /\ \A i \in 1 .. n : f[i] = step[i][f[i - 1]]
    BY <2>2 DEF Unfolds
  <2>4. \A i \in 1 .. n : i - 1 \in 0 .. n /\ f[i - 1] \in Progress
    BY <1>1, <2>3
  <2>5. \A i \in 1 .. n : f[i] = ProcessEvent(f[i - 1], v[i])
    BY <2>3, <2>4 DEF step
  <2>6. \A i \in 0 .. n : f[i] = IF i = 0 THEN Nothing ELSE ProcessEvent(f[i - 1], v[i])
    <3>1. \A i \in 0 .. n : i = 0 \/ i \in 1 .. n
      BY <1>1
    <3>2. QED
      BY <2>3, <2>5, <3>1
  <2>7. f = [i \in 0 .. n |-> f[i]]
    BY <2>3
  <2>8. f = Body(f)
    BY <2>6, <2>7 DEF Nothing
  <2>9. QED
    BY <2>8
<1>5. u = Body(u)
  <2> HIDE DEF Body
  <2>1. QED
    BY <1>4
<1>6. Processed(v) = u[n].out
  BY Zenon DEF Processed
<1> HIDE DEF u
<1>7. u[0] = Nothing /\ \A i \in 1 .. n : u[i] = ProcessEvent(u[i - 1], v[i])
  <2>1. \A i \in 0 .. n : u[i] = IF i = 0 THEN Nothing ELSE ProcessEvent(u[i - 1], v[i])
    BY <1>5 DEF Nothing
  <2>2. 0 \in 0 .. n /\ \A i \in 1 .. n : i \in 0 .. n /\ i # 0
    BY <1>1
  <2>3. QED
    BY <2>1, <2>2
<1> DEFINE T == {i \in 0 .. n : u[i] \in Progress}
<1>8. 0 \in T
  BY <1>1, <1>2, <1>7
<1>9. ASSUME NEW i \in 1 .. n, i - 1 \in T
      PROVE  i \in T
  <2>1. u[i - 1] \in Progress /\ i \in 0 .. n
    BY <1>1, <1>9
  <2>2. u[i] \in Progress
    BY <1>3, <1>7, <2>1
  <2>3. QED
    BY <2>1, <2>2
<1>10. \A i \in 0 .. n : i \in T
  <2> HIDE DEF T
  <2>1. \A i \in 1 .. n : i - 1 \in T => i \in T
    BY <1>9
  <2>2. QED
    BY <1>1, <1>8, <2>1, Induct
<1>11. u \in [0 .. n -> Progress]
  <2>1. u = [i \in 0 .. n |-> u[i]]
    BY <1>5
  <2>2. QED
    BY <1>10, <2>1
<1>12. QED
  BY <1>6, <1>7, <1>11

\* The first event adds its own message only.
LEMMA FirstIsProcessed ==
  ASSUME NEW e \in Shown, e.kind # "call"
  PROVE  ProcessEvent(Nothing, e).out = Direct(e)
<1> DEFINE got == IF e.kind \in {"result", "page"}
                    THEN {} \cup {<<e.resp, e.call>>} ELSE {}
           ready == {i \in DOMAIN <<>> : AllGot(<<>>[i], got)}
           done == Only(<<>>, ready)
           exchanges == [i \in DOMAIN done |-> Exchange(done[i])]
<1>1. <<>> \in Seq(Wait) /\ Len(<<>>) = 0 /\ DOMAIN <<>> = {}
  OBVIOUS
<1>2. \A places : Only(<<>>, places) = <<>>
  <2> TAKE places
  <2>1. PICK u \in [0 .. Len(<<>>) -> Seq(Wait)] :
          Only(<<>>, places) = u[Len(<<>>)] /\ u[0] = <<>>
    BY <1>1, OnlyUpto
  <2>2. QED
    BY <1>1, <2>1
<1>3. exchanges = <<>>
  <2>1. done = <<>>
    BY <1>2
  <2> HIDE DEF done
  <2>2. QED
    BY <2>1
<1>4. FlattenSeq(exchanges) = <<>>
  <2> HIDE DEF exchanges
  <2>1. QED
    BY <1>3 DEF FlattenSeq
<1>5. ProcessEvent(Nothing, e).out = <<>> \o Direct(e) \o FlattenSeq(exchanges)
  BY DEF ProcessEvent, Nothing
<1>6. Direct(e) \in Seq(Msg)
  BY DirectIsSound DEF Sound
<1> HIDE DEF exchanges
<1>7. QED
  BY <1>4, <1>5, <1>6, ConcatEmptySeq

\* Whatever is processed, calls and results are paired.
LEMMA ProcessedIsSound ==
  ASSUME NEW v \in Seq(Shown)
  PROVE  Sound(Processed(v))
<1>1. PICK u \in [0 .. Len(v) -> Progress] : Processed(v) = u[Len(v)].out
  BY ProcessedUpto
<1>2. u[Len(v)] \in Progress
  OBVIOUS
<1>3. QED
  BY <1>1, <1>2 DEF Progress

\* The messages of the system and of the user come first if their events do.
Opens(ms, system, user) ==
  /\ ms \in Seq(Msg) /\ Len(ms) >= 2
  /\ ms[1].role = "system" /\ ms[1].event = system
  /\ ms[2].role = "user" /\ ms[2].event = user

LEMMA ProcessedOpens ==
  ASSUME NEW v \in Seq(Shown), Len(v) >= 2, v[1].kind = "system", v[2].kind = "user"
  PROVE  Opens(Processed(v), v[1].id, v[2].id)
<1>1. PICK u \in [0 .. Len(v) -> Progress] :
        /\ Processed(v) = u[Len(v)].out /\ u[0] = Nothing
        /\ \A i \in 1 .. Len(v) : u[i] = ProcessEvent(u[i - 1], v[i])
  BY ProcessedUpto
<1>2. Len(v) \in Nat /\ v[1] \in Shown /\ v[2] \in Shown
  OBVIOUS
<1> DEFINE a == Say("system", v[1])
           b == Say("user", v[2])
<1>3. /\ a \in Seq(Msg) /\ Len(a) = 1 /\ a[1].role = "system" /\ a[1].event = v[1].id
      /\ b \in Seq(Msg) /\ Len(b) = 1 /\ b[1].role = "user" /\ b[1].event = v[2].id
  BY <1>2, SayIsSound DEF Sound
<1>4. Direct(v[1]) = a /\ Direct(v[2]) = b
  BY DEF Direct
<1> HIDE DEF a, b
<1>5. \A i \in 1 .. Len(v) : i - 1 \in 0 .. Len(v) /\ i \in 0 .. Len(v)
                             /\ u[i - 1] \in Progress /\ u[i - 1].out \in Seq(Msg)
  <2>1. \A i \in 1 .. Len(v) : i - 1 \in 0 .. Len(v) /\ i \in 0 .. Len(v)
    BY <1>2
  <2>2. QED
    BY <2>1 DEF Progress
<1>6. \A i \in 1 .. Len(v) :
        \E c \in Seq(Msg) : u[i].out = (u[i - 1].out \o Direct(v[i])) \o c
  <2> TAKE i \in 1 .. Len(v)
  <2>1. u[i] = ProcessEvent(u[i - 1], v[i]) /\ v[i] \in Shown /\ u[i - 1] \in Progress
    BY <1>1, <1>5
  <2>2. QED
    BY <2>1, EventIsProcessed DEF Sound
<1>7. u[1].out = a
  <2>1. u[1] = ProcessEvent(Nothing, v[1])
    <3>1. u[1] = ProcessEvent(u[1 - 1], v[1]) /\ 1 - 1 = 0
      BY <1>1, <1>2
    <3>2. QED
      BY <1>1, <3>1
  <2>2. QED
    BY <1>2, <1>4, <2>1, FirstIsProcessed
<1>8. Opens(u[2].out, v[1].id, v[2].id)
  <2>1. PICK c \in Seq(Msg) : u[2].out = (u[2 - 1].out \o Direct(v[2])) \o c
    BY <1>2, <1>6
  <2> DEFINE d == a \o b
  <2>2. u[2].out = d \o c
    <3>1. 2 - 1 = 1
      OBVIOUS
    <3>2. u[2 - 1].out = a /\ Direct(v[2]) = b
      BY <1>4, <1>7, <3>1
    <3>3. QED
      BY <2>1, <3>2
  <2>3. d \in Seq(Msg) /\ Len(d) = 2 /\ d[1] = a[1] /\ d[2] = b[1]
    <3>1. /\ d \in Seq(Msg) /\ Len(d) = Len(a) + Len(b)
          /\ \A i \in 1 .. (Len(a) + Len(b)) :
               d[i] = IF i <= Len(a) THEN a[i] ELSE b[i - Len(a)]
      <4>1. a \in Seq(Msg) /\ b \in Seq(Msg)
        BY <1>3
      <4>2. QED
        BY <4>1, ConcatProperties, Zenon
    <3> HIDE DEF d
    <3>2. /\ 1 \in 1 .. (Len(a) + Len(b)) /\ 2 \in 1 .. (Len(a) + Len(b))
          /\ 1 <= Len(a) /\ ~(2 <= Len(a)) /\ 2 - Len(a) = 1 /\ Len(a) + Len(b) = 2
      BY <1>3
    <3>3. QED
      BY <3>1, <3>2
  <2> HIDE DEF d
  <2>4. (d \o c) \in Seq(Msg) /\ Len(d \o c) >= 2 /\ (d \o c)[1] = d[1] /\ (d \o c)[2] = d[2]
    <3>1. /\ (d \o c) \in Seq(Msg) /\ Len(d \o c) = Len(d) + Len(c)
          /\ \A i \in 1 .. (Len(d) + Len(c)) :
               (d \o c)[i] = IF i <= Len(d) THEN d[i] ELSE c[i - Len(d)]
      BY <2>3, ConcatProperties
    <3>2. /\ 1 \in 1 .. (Len(d) + Len(c)) /\ 2 \in 1 .. (Len(d) + Len(c))
          /\ 1 <= Len(d) /\ 2 <= Len(d) /\ Len(d) + Len(c) >= 2
      BY <2>3
    <3>3. QED
      BY <3>1, <3>2
  <2>5. QED
    BY <1>3, <2>2, <2>3, <2>4 DEF Opens
<1> DEFINE T == {i \in 0 .. Len(v) : i >= 2 => Opens(u[i].out, v[1].id, v[2].id)}
<1>9. 0 \in T
  BY <1>2
<1>10. ASSUME NEW i \in 1 .. Len(v), i - 1 \in T
       PROVE  i \in T
  <2>1. CASE i <= 2
    BY <1>2, <1>8, <2>1
  <2>2. CASE i > 2
    <3>1. PICK c \in Seq(Msg) : u[i].out = (u[i - 1].out \o Direct(v[i])) \o c
      BY <1>6
    <3> DEFINE o == u[i - 1].out
               d == o \o Direct(v[i])
    <3>2. Opens(o, v[1].id, v[2].id)
      BY <1>10, <2>2
    <3>3. Direct(v[i]) \in Seq(Msg)
      BY DirectIsSound DEF Sound
    <3> HIDE DEF o
    <3>4. d \in Seq(Msg) /\ Len(d) >= 2 /\ d[1] = o[1] /\ d[2] = o[2]
      BY <3>2, <3>3 DEF Opens
    <3>5. u[i].out = d \o c
      BY <3>1 DEF o
    <3> HIDE DEF d
    <3>6. (d \o c) \in Seq(Msg) /\ Len(d \o c) >= 2 /\ (d \o c)[1] = d[1] /\ (d \o c)[2] = d[2]
      BY <3>4
    <3>7. Opens(u[i].out, v[1].id, v[2].id)
      BY <3>2, <3>4, <3>5, <3>6 DEF Opens
    <3>8. QED
      BY <1>5, <3>7
  <2>3. QED
    BY <2>1, <2>2
<1>11. Len(v) \in T
  <2> HIDE DEF T
  <2>1. \A i \in 1 .. Len(v) : i - 1 \in T => i \in T
    BY <1>10
  <2>2. \A i \in 0 .. Len(v) : i \in T
    BY <1>2, <1>9, <2>1, Induct
  <2>3. QED
    BY <1>2, <2>2
<1>12. QED
  BY <1>1, <1>11

\* Of sound messages the filter keeps each as it is.
LEMMA SoundIsMatched ==
  ASSUME NEW ms, Sound(ms)
  PROVE  Matched(ms) = ms
<1>1. ms \in Seq(Msg) /\ DOMAIN ms = 1 .. Len(ms) /\ Len(ms) \in Nat
  BY DEF Sound
<1>2. ASSUME NEW i \in DOMAIN ms, ms[i].role = "assistant", NEW k \in DOMAIN ms[i].calls
      PROVE  <<ms[i].resp, ms[i].calls[k]>> \in ResponseIds(ms)
  <2>1. /\ i + k <= Len(ms) /\ ms[i + k].role = "tool"
        /\ ms[i + k].resp = ms[i].resp /\ ms[i + k].calls = <<ms[i].calls[k]>>
    BY <1>2 DEF Sound, Paired, FollowedByResults
  <2>2. k \in Nat \ {0} /\ i \in Nat \ {0}
    BY <1>1, MessagesAre
  <2>3. i + k \in DOMAIN ms
    BY <1>1, <2>1, <2>2
  <2>4. ms[i + k].calls[1] = ms[i].calls[k]
    BY <2>1
  <2>5. QED
    BY <2>1, <2>3, <2>4 DEF ResponseIds
<1>3. Pruned(ms) = ms
  <2>1. ASSUME NEW i \in DOMAIN ms, ms[i].role = "assistant"
        PROVE  AnsweredCalls(ms[i], ms) = ms[i].calls
    <3>1. ms[i].calls \in Seq(Nat) /\ DOMAIN ms[i].calls = 1 .. Len(ms[i].calls)
      BY <1>1, MessagesAre
    <3>2. {k \in DOMAIN ms[i].calls : <<ms[i].resp, ms[i].calls[k]>> \in ResponseIds(ms)}
            = 1 .. Len(ms[i].calls)
      BY <1>2, <2>1, <3>1
    <3>3. QED
      BY <3>1, <3>2, OnlyAll DEF AnsweredCalls
  <2>2. ASSUME NEW i \in DOMAIN ms
        PROVE  Pruned(ms)[i] = ms[i]
    <3>1. CASE ms[i].role # "assistant"
      BY <3>1 DEF Pruned
    <3>2. CASE ms[i].role = "assistant"
      <4>1. Pruned(ms)[i] = [ms[i] EXCEPT !.calls = ms[i].calls]
        BY <2>1, <3>2 DEF Pruned
      <4>2. ms[i] \in Msg
        BY <1>1, MessagesAre
      <4>3. QED
        BY <4>1, <4>2 DEF Msg
    <3>3. QED
      BY <3>1, <3>2
  <2>3. Pruned(ms) = [i \in DOMAIN ms |-> Pruned(ms)[i]]
    BY DEF Pruned
  <2>4. ms = [i \in DOMAIN ms |-> ms[i]]
    BY <1>1
  <2>5. QED
    BY <2>2, <2>3, <2>4
<1>4. ASSUME NEW i \in DOMAIN ms
      PROVE  Keeps(ms[i], ms)
  <2>1. CASE ms[i].role # "tool"
    BY <2>1 DEF Keeps, Sound
  <2>2. CASE ms[i].role = "tool"
    <3>1. PICK j \in 1 .. (i - 1) : ms[j].role = "assistant" /\ i <= j + Len(ms[j].calls)
      BY <2>2 DEF Sound, Paired
    <3>2. j \in DOMAIN ms /\ j \in Nat /\ i \in Nat
      BY <1>1, <3>1
    <3>3. Len(ms[j].calls) \in Nat /\ DOMAIN ms[j].calls = 1 .. Len(ms[j].calls)
      BY <1>1, <3>2, MessagesAre
    <3>4. i - j \in DOMAIN ms[j].calls /\ j + (i - j) = i
      BY <3>1, <3>2, <3>3
    <3>5. ms[i].resp = ms[j].resp /\ ms[i].calls = <<ms[j].calls[i - j]>>
      <4>1. FollowedByResults(ms, j)
        BY <3>1, <3>2 DEF Sound, Paired
      <4>2. QED
        BY <3>4, <4>1 DEF FollowedByResults
    <3>6. ms[i].calls[1] \in ToSet(ms[j].calls)
      BY <3>4, <3>5 DEF ToSet
    <3>7. <<ms[i].resp, ms[i].calls[1]>> \in CallIds(ms)
      BY <3>1, <3>2, <3>5, <3>6 DEF CallIds
    <3>8. QED
      BY <2>2, <3>7 DEF Keeps
  <2>3. QED
    BY <2>1, <2>2
<1>5. {i \in DOMAIN Pruned(ms) : Keeps(Pruned(ms)[i], ms)} = 1 .. Len(ms)
  BY <1>1, <1>3, <1>4
<1>6. Matched(ms) = Only(ms, 1 .. Len(ms))
  BY <1>3, <1>5 DEF Matched
<1>7. QED
  BY <1>1, <1>6, OnlyAll

-----------------------------------------------------------------------------
(* The view                                                                *)

\* An event as the history has it at place n.
Entered(e, n) ==
  /\ e \in Entry /\ e.id = n /\ e.forgets \subseteq 0 .. (n - 1)
  /\ e.kind = "call" => e.calls # 0
Recorded(h) == h \in Seq(Entry) /\ \A i \in 1 .. Len(h) : Entered(h[i], i)
Remembered(h) == {i \in DOMAIN h : i \notin Forgotten(h)}

LEMMA ForgottenIs ==
  ASSUME NEW h, NEW i
  PROVE  i \in Forgotten(h) <=>
           \/ i \in Requests(h)
           \/ \E j \in Condensations(h) : i \in h[j].forgets \/ i = j
<1> DEFINE U == {h[j].forgets \cup {j} : j \in Condensations(h)}
<1>1. Forgotten(h) = (UNION U) \cup Requests(h)
  BY DEF Forgotten
<1>2. \A S : S \in U <=> \E j \in Condensations(h) : S = h[j].forgets \cup {j}
  OBVIOUS
<1>3. i \in UNION U <=> \E S \in U : i \in S
  <2> HIDE DEF U
  <2>1. QED
    OBVIOUS
<1> HIDE DEF U
<1>4. \A j : i \in h[j].forgets \cup {j} <=> i \in h[j].forgets \/ i = j
  OBVIOUS
<1>5. i \in UNION U => \E j \in Condensations(h) : i \in h[j].forgets \/ i = j
  BY <1>2, <1>3, <1>4
<1>6. ASSUME NEW j \in Condensations(h), i \in h[j].forgets \/ i = j
      PROVE  i \in UNION U
  <2>1. h[j].forgets \cup {j} \in U
    BY <1>2
  <2>2. i \in h[j].forgets \cup {j}
    BY <1>4, <1>6
  <2>3. QED
    BY <1>3, <2>1, <2>2
<1>7. QED
  BY <1>1, <1>5, <1>6

LEMMA EnteredIsShown ==
  ASSUME NEW e, NEW n, Entered(e, n)
  PROVE  e \in Shown /\ e.kind # "summary" /\ e.kind # "masked"
<1>1. "summary" \notin Kinds /\ "masked" \notin Kinds
  BY DEF Kinds
<1>2. QED
  BY <1>1 DEF Entered, Entry, Shown

\* The events that are kept, in their order.
LEMMA KeptIs ==
  ASSUME NEW h, Recorded(h)
  PROVE  /\ Kept(h) \in Seq(Shown) /\ Len(Kept(h)) \in Nat
         /\ Len(Kept(h)) = Cardinality(Remembered(h))
         /\ \A k \in 1 .. Len(Kept(h)) :
              Kept(h)[k].kind # "summary" /\ Kept(h)[k].kind # "masked"
         /\ \E f : /\ Lists(f, Len(Kept(h)), Remembered(h))
                   /\ \A k \in 1 .. Len(Kept(h)) :
                        Kept(h)[k] = h[f[k]] /\ Kept(h)[k].id = f[k]
<1>1. h \in Seq(Entry) /\ DOMAIN h = 1 .. Len(h) /\ Len(h) \in Nat
      /\ \A i \in 1 .. Len(h) : Entered(h[i], i)
  BY DEF Recorded
<1>2. \A i \in 1 .. Len(h) : /\ h[i] \in Shown /\ h[i].id = i
                            /\ h[i].kind # "summary" /\ h[i].kind # "masked"
  <2>1. \A i \in 1 .. Len(h) : h[i].id = i
    BY <1>1 DEF Entered
  <2>2. QED
    BY <1>1, <2>1, EnteredIsShown
<1>3. h \in Seq(Shown)
  BY <1>1, <1>2
<1>4. Remembered(h) = {i \in DOMAIN h : h[i].id \notin Forgotten(h)}
  BY <1>1, <1>2 DEF Remembered
<1>5. Remembered(h) \in SUBSET (1 .. Len(h)) /\ Kept(h) = Only(h, Remembered(h))
  BY <1>1, <1>4 DEF Remembered, Kept
<1>6. /\ Kept(h) \in Seq(Shown)
      /\ \E f : /\ Lists(f, Len(Kept(h)), Remembered(h))
                /\ \A k \in 1 .. Len(Kept(h)) : Kept(h)[k] = h[f[k]]
  BY <1>3, <1>5, OnlyPlaces
<1>7. Len(Kept(h)) = Cardinality(Remembered(h))
  BY <1>3, <1>5, OnlyCount
<1>8. PICK f : /\ Lists(f, Len(Kept(h)), Remembered(h))
               /\ \A k \in 1 .. Len(Kept(h)) : Kept(h)[k] = h[f[k]]
  BY <1>6
<1>9. \A k \in 1 .. Len(Kept(h)) : f[k] \in 1 .. Len(h)
  BY <1>5, <1>8 DEF Lists
<1>10. \A k \in 1 .. Len(Kept(h)) : /\ Kept(h)[k].kind # "summary"
                                    /\ Kept(h)[k].kind # "masked" /\ Kept(h)[k].id = f[k]
  BY <1>2, <1>8, <1>9
<1>11. Len(Kept(h)) \in Nat
  BY <1>6
<1>12. QED
  BY <1>6, <1>7, <1>8, <1>10, <1>11

LEMMA InsertIs ==
  ASSUME NEW S, NEW s \in Seq(S), NEW e \in S, NEW i \in 1 .. (Len(s) + 1)
  PROVE  /\ InsertAt(s, i, e) \in Seq(S) /\ Len(InsertAt(s, i, e)) = Len(s) + 1
         /\ \A j \in 1 .. (i - 1) : InsertAt(s, i, e)[j] = s[j]
         /\ InsertAt(s, i, e)[i] = e
         /\ \A j \in i .. Len(s) : InsertAt(s, i, e)[j + 1] = s[j]
<1> DEFINE a == SubSeq(s, 1, i - 1)
           b == <<e>>
           c == SubSeq(s, i, Len(s))
           ab == a \o b
           r == ab \o c
<1>1. Len(s) \in Nat /\ i \in Nat /\ \A j \in 1 .. Len(s) : s[j] \in S
  OBVIOUS
<1>2. a \in Seq(S) /\ Len(a) = i - 1 /\ \A j \in 1 .. (i - 1) : a[j] = s[j]
  <2>1. \A j \in 1 .. (i - 1) : s[j] \in S
    BY <1>1
  <2>2. /\ a \in Seq(S) /\ Len(a) = IF 1 <= i - 1 THEN (i - 1) - 1 + 1 ELSE 0
        /\ \A j \in 1 .. (i - 1) - 1 + 1 : a[j] = s[1 + j - 1]
    BY <1>1, <2>1, SubSeqProperties
  <2> HIDE DEF a
  <2>3. \A j \in 1 .. (i - 1) : j \in 1 .. (i - 1) - 1 + 1 /\ 1 + j - 1 = j
    BY <1>1
  <2>4. QED
    BY <1>1, <2>2, <2>3
<1>3. c \in Seq(S) /\ Len(c) = Len(s) - i + 1
      /\ \A j \in 1 .. (Len(s) - i + 1) : c[j] = s[i + j - 1]
  <2>1. \A j \in i .. Len(s) : s[j] \in S
    BY <1>1
  <2>2. /\ c \in Seq(S) /\ Len(c) = IF i <= Len(s) THEN Len(s) - i + 1 ELSE 0
        /\ \A j \in 1 .. Len(s) - i + 1 : c[j] = s[i + j - 1]
    BY <1>1, <2>1, SubSeqProperties
  <2> HIDE DEF c
  <2>3. QED
    BY <1>1, <2>2
<1>4. b \in Seq(S) /\ Len(b) = 1 /\ b[1] = e
  OBVIOUS
<1>5. InsertAt(s, i, e) = r
  BY DEF InsertAt
<1> HIDE DEF a, b, c
<1>6. /\ ab \in Seq(S) /\ Len(ab) = i
      /\ \A j \in 1 .. (i - 1) : ab[j] = s[j]
      /\ ab[i] = e
  <2>1. /\ ab \in Seq(S) /\ Len(ab) = Len(a) + Len(b)
        /\ \A j \in 1 .. (Len(a) + Len(b)) : ab[j] = IF j <= Len(a) THEN a[j] ELSE b[j - Len(a)]
    BY <1>2, <1>4, ConcatProperties
  <2> HIDE DEF ab
  <2>2. /\ Len(a) + Len(b) = i /\ i \in 1 .. (Len(a) + Len(b)) /\ ~(i <= Len(a)) /\ i - Len(a) = 1
        /\ \A j \in 1 .. (i - 1) : j \in 1 .. (Len(a) + Len(b)) /\ j <= Len(a)
    BY <1>1, <1>2, <1>4
  <2>3. QED
    BY <1>2, <1>4, <2>1, <2>2
<1> HIDE DEF ab
<1>7. /\ r \in Seq(S) /\ Len(r) = Len(s) + 1
      /\ \A j \in 1 .. i : r[j] = ab[j]
      /\ \A j \in i .. Len(s) : r[j + 1] = s[j]
  <2>1. /\ r \in Seq(S) /\ Len(r) = Len(ab) + Len(c)
        /\ \A j \in 1 .. (Len(ab) + Len(c)) : r[j] = IF j <= Len(ab) THEN ab[j] ELSE c[j - Len(ab)]
    BY <1>3, <1>6, ConcatProperties
  <2> HIDE DEF r
  <2>2. Len(ab) + Len(c) = Len(s) + 1
        /\ \A j \in 1 .. i : j \in 1 .. (Len(ab) + Len(c)) /\ j <= Len(ab)
    BY <1>1, <1>3, <1>6
  <2>3. \A j \in i .. Len(s) : /\ j + 1 \in 1 .. (Len(ab) + Len(c)) /\ ~(j + 1 <= Len(ab))
                               /\ (j + 1) - Len(ab) \in 1 .. (Len(s) - i + 1)
                               /\ i + ((j + 1) - Len(ab)) - 1 = j
    BY <1>1, <1>3, <1>6
  <2>4. QED
    BY <1>3, <2>1, <2>2, <2>3
<1>8. i \in 1 .. i /\ \A j \in 1 .. (i - 1) : j \in 1 .. i
  BY <1>1
<1> HIDE DEF r
<1>9. QED
  BY <1>5, <1>6, <1>7, <1>8

LEMMA MinOfTwo ==
  ASSUME NEW a \in Nat, NEW b \in Nat
  PROVE  Min({a, b}) = IF a <= b THEN a ELSE b
<1>1. IsFiniteSet({a, b})
  <2>1. IsFiniteSet({a}) /\ {a} \cup {b} = {a, b}
    BY FS_Singleton
  <2>2. QED
    BY <2>1, FS_AddElement
<1>2. Min({a, b}) \in {a, b} /\ \A i \in {a, b} : Min({a, b}) <= i
  BY <1>1, MinOfFinite
<1>3. QED
  BY <1>2

\* Where the summary stands.
SummaryPlace(h) == (IF KeepFirst <= Len(Kept(h)) THEN KeepFirst ELSE Len(Kept(h))) + 1

LEMMA ViewIs ==
  ASSUME NEW h, Recorded(h)
  PROVE  /\ View(h) \in Seq(Shown)
         /\ ~HasSummary(h) => View(h) = Kept(h)
         /\ HasSummary(h) =>
              /\ SummaryPlace(h) \in 1 .. (Len(Kept(h)) + 1)
              /\ Len(View(h)) = Len(Kept(h)) + 1
              /\ \A j \in 1 .. (SummaryPlace(h) - 1) : View(h)[j] = Kept(h)[j]
              /\ View(h)[SummaryPlace(h)] = Make("summary")
              /\ \A j \in SummaryPlace(h) .. Len(Kept(h)) : View(h)[j + 1] = Kept(h)[j]
<1>1. Kept(h) \in Seq(Shown) /\ Len(Kept(h)) \in Nat
  BY KeptIs
<1>2. Make("summary") \in Shown
  BY DEF Make, Shown
<1>3. SummaryPlace(h) \in 1 .. (Len(Kept(h)) + 1)
  BY <1>1, SizesOK DEF SummaryPlace
<1>4. Min({KeepFirst, Len(Kept(h))}) + 1 = SummaryPlace(h)
  BY <1>1, SizesOK, MinOfTwo DEF SummaryPlace
<1>5. View(h) = IF HasSummary(h) THEN InsertAt(Kept(h), SummaryPlace(h), Make("summary"))
                ELSE Kept(h)
  BY <1>4 DEF View
<1> DEFINE s == Kept(h)
           p == SummaryPlace(h)
           r == InsertAt(s, p, Make("summary"))
<1> HIDE DEF s, p
<1>6. /\ r \in Seq(Shown) /\ Len(r) = Len(s) + 1
      /\ \A j \in 1 .. (p - 1) : r[j] = s[j]
      /\ r[p] = Make("summary")
      /\ \A j \in p .. Len(s) : r[j + 1] = s[j]
  BY <1>1, <1>2, <1>3, InsertIs DEF s, p
<1> HIDE DEF r
<1>7. View(h) = IF HasSummary(h) THEN r ELSE s
  BY <1>5 DEF r, s, p
<1>8. QED
  BY <1>1, <1>3, <1>6, <1>7 DEF s, p

\* What is shown at a place of the view: a kept event or the summary.
LEMMA ViewShows ==
  ASSUME NEW h, Recorded(h), NEW i \in DOMAIN View(h)
  PROVE  /\ View(h)[i] \in Shown
         /\ View(h)[i].kind = "summary" => i = SummaryPlace(h) /\ View(h)[i].id = 0
         /\ View(h)[i].kind # "summary" => View(h)[i].id \in Remembered(h)
<1> DEFINE n == Len(Kept(h))
           p == SummaryPlace(h)
<1>1. Kept(h) \in Seq(Shown) /\ n \in Nat
  BY KeptIs
<1>2. PICK f : /\ Lists(f, n, Remembered(h))
               /\ \A k \in 1 .. n : Kept(h)[k] = h[f[k]] /\ Kept(h)[k].id = f[k]
  BY KeptIs
<1>3. \A k \in 1 .. n : Kept(h)[k].id \in Remembered(h) /\ Kept(h)[k].kind # "summary"
  BY <1>2, KeptIs DEF Lists
<1>4. View(h)[i] \in Shown
  BY ViewIs
<1>5. CASE ~HasSummary(h)
  <2>1. View(h) = Kept(h) /\ i \in 1 .. n
    BY <1>1, <1>5, ViewIs
  <2>2. QED
    BY <1>3, <1>4, <2>1
<1>6. CASE HasSummary(h)
  <2>1. /\ p \in 1 .. (n + 1) /\ Len(View(h)) = n + 1
        /\ \A j \in 1 .. (p - 1) : View(h)[j] = Kept(h)[j]
        /\ View(h)[p] = Make("summary")
        /\ \A j \in p .. n : View(h)[j + 1] = Kept(h)[j]
    BY <1>6, ViewIs
  <2>2. i \in 1 .. (n + 1)
    BY <2>1, ViewIs
  <2> HIDE DEF p, n
  <2>3. CASE i < p
    <3>1. i \in 1 .. (p - 1) /\ i \in 1 .. n
      BY <1>1, <2>1, <2>2, <2>3
    <3>2. QED
      BY <1>3, <1>4, <2>1, <3>1
  <2>4. CASE i = p
    <3>1. Make("summary").kind = "summary" /\ Make("summary").id = 0
      BY DEF Make
    <3>2. QED
      BY <1>4, <2>1, <2>4, <3>1 DEF p
  <2>5. CASE i > p
    <3>1. i - 1 \in p .. n /\ (i - 1) + 1 = i /\ i - 1 \in 1 .. n
      BY <1>1, <2>1, <2>2, <2>5
    <3>2. View(h)[i] = Kept(h)[i - 1]
      BY <2>1, <3>1
    <3>3. QED
      BY <1>3, <1>4, <3>1, <3>2
  <2>6. QED
    BY <1>1, <2>1, <2>2, <2>3, <2>4, <2>5
<1>7. QED
  BY <1>5, <1>6

\* Masking leaves every place what it is, or a placeholder for a page.
LEMMA MaskedIs ==
  ASSUME NEW v \in Seq(Shown)
  PROVE  /\ Masked(v) \in Seq(Shown) /\ Len(Masked(v)) = Len(v) /\ Len(v) \in Nat
         /\ \A i \in 1 .. Len(v) :
              \/ Masked(v)[i] = v[i]
              \/ v[i].kind = "page" /\ Masked(v)[i] = Make("masked")
<1> DEFINE later(i) == {j \in (i + 1) .. Len(v) : v[j].kind = "page"}
           hides(i) == v[i].kind = "page" /\ Cardinality(later(i)) >= AttentionWindow
           w == [i \in 1 .. Len(v) |-> IF hides(i) THEN Make("masked") ELSE v[i]]
<1>1. Len(v) \in Nat /\ DOMAIN v = 1 .. Len(v) /\ \A i \in 1 .. Len(v) : v[i] \in Shown
  OBVIOUS
<1>2. Masked(v) = w
  BY <1>1 DEF Masked
<1>3. Make("masked") \in Shown
  BY DEF Make, Shown
<1>4. \A i \in 1 .. Len(v) : v[i].kind # "page" => ~hides(i)
  OBVIOUS
<1> HIDE DEF hides
<1>5. \A i \in 1 .. Len(v) : w[i] = IF hides(i) THEN Make("masked") ELSE v[i]
  OBVIOUS
<1>6. w \in [1 .. Len(v) -> Shown]
  BY <1>1, <1>3
<1> HIDE DEF w
<1>7. w \in Seq(Shown) /\ Len(w) = Len(v)
  BY <1>1, <1>6
<1>8. QED
  BY <1>1, <1>2, <1>4, <1>5, <1>7

-----------------------------------------------------------------------------
(* The prompt                                                              *)

LEMMA PlacesAre ==
  ASSUME NEW S, NEW v \in Seq(S), NEW kind, Places(v, kind) # {}
  PROVE  /\ Min(Places(v, kind)) \in Places(v, kind)
         /\ \A i \in Places(v, kind) : Min(Places(v, kind)) <= i
<1>1. Places(v, kind) \in SUBSET (1 .. Len(v)) /\ Len(v) \in Nat
  BY DEF Places
<1>2. IsFiniteSet(Places(v, kind))
  <2>1. IsFiniteSet(1 .. Len(v))
    BY <1>1, FS_Interval
  <2>2. QED
    BY <1>1, <2>1, FS_Subset
<1>3. Places(v, kind) \in SUBSET Int
  BY <1>1
<1>4. QED
  BY <1>2, <1>3, MinOfFinite

LEMMA EventIsShown == Event \in Shown
BY DEF Event, Make, Shown, Kinds

\* The prompt pairs calls and results whatever is left of the history.
LEMMA PromptIsSound ==
  ASSUME NEW h, Recorded(h), Places(h, "user") # {}
  PROVE  /\ Prompt(h) = Processed(WithUser(WithSystem(Masked(View(h))), h))
         /\ Sound(Prompt(h))
<1> DEFINE v == Masked(View(h))
           w == WithSystem(v)
           x == WithUser(w, h)
<1>1. h \in Seq(Entry) /\ \A i \in 1 .. Len(h) : Entered(h[i], i)
  BY DEF Recorded
<1>2. InitialUser(h) \in Shown
  <2>1. Min(Places(h, "user")) \in 1 .. Len(h)
    <3>1. Min(Places(h, "user")) \in Places(h, "user")
      BY <1>1, PlacesAre
    <3>2. Places(h, "user") \subseteq 1 .. Len(h)
      BY <1>1 DEF Places
    <3>3. QED
      BY <3>1, <3>2
  <2>2. QED
    BY <1>1, <2>1, EnteredIsShown DEF InitialUser
<1>3. v \in Seq(Shown)
  BY ViewIs, MaskedIs
<1> HIDE DEF v
<1>4. w \in Seq(Shown) /\ Len(w) >= 1
  <2>1. CASE Places(v, "system") # {}
    <3>1. DOMAIN v # {} /\ DOMAIN v = 1 .. Len(v) /\ Len(v) \in Nat
      BY <1>3, <2>1 DEF Places
    <3>2. Len(v) >= 1
      BY <3>1
    <3>3. QED
      BY <1>3, <2>1, <3>2 DEF WithSystem
  <2>2. CASE Places(v, "system") = {}
    <3>1. w = <<Event>> \o v
      BY <2>2 DEF WithSystem
    <3>2. <<Event>> \in Seq(Shown) /\ Len(<<Event>>) = 1
      BY EventIsShown
    <3>3. QED
      BY <1>3, <3>1, <3>2, ConcatProperties
  <2>3. QED
    BY <2>1, <2>2
<1> HIDE DEF w
<1>5. x \in Seq(Shown)
  <2>1. 2 \in 1 .. (Len(w) + 1)
    BY <1>4
  <2>2. InsertAt(w, 2, InitialUser(h)) \in Seq(Shown)
    BY <1>2, <1>4, <2>1, InsertIs
  <2>3. x = w \/ x = InsertAt(w, 2, InitialUser(h))
    BY DEF WithUser
  <2>4. QED
    BY <1>4, <2>2, <2>3
<1> HIDE DEF x
<1>6. Prompt(h) = Matched(Processed(x))
  BY DEF Prompt, x, w, v
<1>7. Sound(Processed(x))
  BY <1>5, ProcessedIsSound
<1>8. QED
  BY <1>6, <1>7, SoundIsMatched DEF x, w, v

\* The history begins with the instructions and the user's first message, and
\* no condensation forgets them.
Opened(h) ==
  /\ Len(h) >= 2 /\ h[1].kind = "system" /\ h[2].kind = "user"
  /\ \A i \in 1 .. Len(h) : 1 \notin h[i].forgets /\ 2 \notin h[i].forgets

LEMMA ListStarts ==
  ASSUME NEW m \in Nat, NEW I \in SUBSET (Nat \ {0}), 1 \in I, 2 \in I,
         NEW f, Lists(f, m, I)
  PROVE  m >= 2 /\ f[1] = 1 /\ f[2] = 2
<1>1. /\ \A k \in 1 .. m : f[k] \in Nat \ {0}
      /\ \A j, k \in 1 .. m : j < k => f[j] < f[k]
      /\ \A i \in I : \E k \in 1 .. m : f[k] = i
  BY DEF Lists
<1>2. PICK k1 \in 1 .. m : f[k1] = 1
  BY <1>1
<1>3. PICK k2 \in 1 .. m : f[k2] = 2
  BY <1>1
<1>4. k1 = 1
  <2>1. ~(1 < k1)
    <3>1. 1 < k1 => f[1] < f[k1] /\ f[1] \in Nat \ {0}
      BY <1>1, <1>2
    <3>2. QED
      BY <1>2, <3>1
  <2>2. QED
    BY <1>2, <2>1
<1>5. k2 = 2
  <2>1. k2 # 1
    BY <1>2, <1>3, <1>4
  <2>2. ~(2 < k2)
    <3>1. 2 < k2 => 1 \in 1 .. m /\ 2 \in 1 .. m /\ f[1] < f[2] /\ f[2] < f[k2]
      BY <1>1, <1>3
    <3>2. 2 \in 1 .. m => f[2] \in Nat
      BY <1>1
    <3>3. QED
      BY <1>2, <1>3, <1>4, <3>1, <3>2
  <2>3. QED
    BY <1>3, <2>1, <2>2
<1>6. QED
  BY <1>2, <1>3, <1>4, <1>5

\* Then the view begins with them, too.
LEMMA ViewOpens ==
  ASSUME NEW h, Recorded(h), Opened(h), KeepFirst >= 2
  PROVE  /\ Len(View(h)) >= 2 /\ View(h)[1] = h[1] /\ View(h)[2] = h[2]
         /\ \A f : Lists(f, Len(Kept(h)), Remembered(h)) =>
                     Len(Kept(h)) >= 2 /\ f[1] = 1 /\ f[2] = 2
<1> DEFINE n == Len(Kept(h))
           I == Remembered(h)
<1>1. /\ h \in Seq(Entry) /\ DOMAIN h = 1 .. Len(h) /\ Len(h) \in Nat /\ Len(h) >= 2
      /\ \A i \in 1 .. Len(h) : 1 \notin h[i].forgets /\ 2 \notin h[i].forgets
  BY DEF Recorded, Opened
<1>2. 1 \in I /\ 2 \in I
  <2>1. \A i \in {1, 2} : i \in DOMAIN h /\ i \notin Condensations(h) /\ i \notin Requests(h)
    BY <1>1 DEF Opened, Condensations, Requests
  <2>2. \A i \in {1, 2} : \A j \in Condensations(h) : i \notin h[j].forgets /\ i # j
    BY <1>1, <2>1 DEF Condensations
  <2>3. \A i \in {1, 2} : i \notin Forgotten(h)
    BY <2>1, <2>2, ForgottenIs
  <2>4. QED
    BY <2>1, <2>3 DEF Remembered
<1>3. I \in SUBSET (Nat \ {0})
  BY <1>1 DEF Remembered
<1>4. Kept(h) \in Seq(Shown) /\ n \in Nat
  BY KeptIs
<1>5. \A f : Lists(f, n, I) => n >= 2 /\ f[1] = 1 /\ f[2] = 2
  <2> HIDE DEF n, I
  <2>1. QED
    BY <1>2, <1>3, <1>4, ListStarts
<1>6. n >= 2 /\ Kept(h)[1] = h[1] /\ Kept(h)[2] = h[2]
  <2>1. PICK f : Lists(f, n, I) /\ \A k \in 1 .. n : Kept(h)[k] = h[f[k]]
    BY KeptIs
  <2>2. n >= 2 /\ f[1] = 1 /\ f[2] = 2
    BY <1>5, <2>1
  <2>3. 1 \in 1 .. n /\ 2 \in 1 .. n
    BY <1>4, <2>2
  <2>4. QED
    BY <2>1, <2>2, <2>3
<1>7. CASE ~HasSummary(h)
  <2>1. View(h) = Kept(h)
    BY <1>7, ViewIs
  <2>2. QED
    BY <1>5, <1>6, <2>1
<1>8. CASE HasSummary(h)
  <2>1. /\ Len(View(h)) = n + 1
        /\ \A j \in 1 .. (SummaryPlace(h) - 1) : View(h)[j] = Kept(h)[j]
    BY <1>8, ViewIs
  <2>2. SummaryPlace(h) - 1 >= 2 /\ SummaryPlace(h) \in Nat
    BY <1>4, <1>6, SizesOK DEF SummaryPlace
  <2>3. 1 \in 1 .. (SummaryPlace(h) - 1) /\ 2 \in 1 .. (SummaryPlace(h) - 1)
    BY <2>2
  <2>4. QED
    BY <1>4, <1>5, <1>6, <2>1, <2>3
<1>9. QED
  BY <1>7, <1>8

\* And so does the prompt.
LEMMA PromptOpens ==
  ASSUME NEW h, Recorded(h), Opened(h), KeepFirst >= 2
  PROVE  Opens(Prompt(h), 1, 2) /\ InitialUser(h).id = 2
<1> DEFINE v == Masked(View(h))
<1>1. v \in Seq(Shown) /\ Len(v) \in Nat
  BY ViewIs, MaskedIs
<1>3. /\ h \in Seq(Entry) /\ DOMAIN h = 1 .. Len(h) /\ Len(h) \in Nat /\ Len(h) >= 2
      /\ h[1].kind = "system" /\ h[2].kind = "user" /\ h[1].id = 1 /\ h[2].id = 2
  <2>1. /\ h \in Seq(Entry) /\ DOMAIN h = 1 .. Len(h) /\ Len(h) \in Nat /\ Len(h) >= 2
    BY DEF Recorded, Opened
  <2>2. h[1].id = 1 /\ h[2].id = 2
    BY <2>1 DEF Recorded, Entered
  <2>3. QED
    BY <2>1, <2>2 DEF Opened
<1>2. Len(v) >= 2 /\ v[1] = h[1] /\ v[2] = h[2]
  <2>1. /\ View(h) \in Seq(Shown) /\ Len(View(h)) >= 2
        /\ View(h)[1] = h[1] /\ View(h)[2] = h[2]
    BY ViewIs, ViewOpens
  <2>2. /\ Len(v) = Len(View(h)) /\ Len(v) \in Nat
        /\ \A i \in 1 .. Len(View(h)) : v[i] = View(h)[i] \/ View(h)[i].kind = "page"
    BY <2>1, MaskedIs
  <2> HIDE DEF v
  <2>3. 1 \in 1 .. Len(View(h)) /\ 2 \in 1 .. Len(View(h))
    BY <2>1, <2>2
  <2>4. QED
    BY <1>3, <2>1, <2>2, <2>3
<1>4. Min(Places(h, "user")) = 2
  <2>1. 2 \in Places(h, "user") /\ 1 \notin Places(h, "user")
    BY <1>3 DEF Places
  <2>2. Min(Places(h, "user")) \in 1 .. Len(h) /\ Min(Places(h, "user")) # 1
        /\ Min(Places(h, "user")) <= 2
    <3>1. Min(Places(h, "user")) \in Places(h, "user") /\ Min(Places(h, "user")) <= 2
      BY <1>3, <2>1, PlacesAre
    <3>2. QED
      BY <1>3, <2>1, <3>1 DEF Places
  <2>3. QED
    BY <1>3, <2>2
<1>5. InitialUser(h) = h[2] /\ Places(h, "user") # {}
  BY <1>3, <1>4 DEF InitialUser, Places
<1>6. WithSystem(v) = v
  <2>1. 1 \in Places(v, "system")
    BY <1>1, <1>2, <1>3 DEF Places
  <2>2. QED
    BY <2>1 DEF WithSystem
<1>7. WithUser(v, h) = v
  BY <1>1, <1>2, <1>3 DEF WithUser
<1>8. Prompt(h) = Processed(v)
  BY <1>5, <1>6, <1>7, PromptIsSound
<1> HIDE DEF v
<1>9. Opens(Processed(v), 1, 2)
  BY <1>1, <1>2, <1>3, ProcessedOpens
<1>10. QED
  BY <1>3, <1>5, <1>8, <1>9

-----------------------------------------------------------------------------
(* Condensations                                                           *)

\* A history that grows by an event of its next place.
LEMMA RecordedGrows ==
  ASSUME NEW h, Recorded(h), NEW e, Entered(e, Len(h) + 1)
  PROVE  /\ Recorded(Append(h, e)) /\ Len(Append(h, e)) = Len(h) + 1
         /\ Append(h, e)[Len(h) + 1] = e
         /\ \A i \in 1 .. Len(h) : Append(h, e)[i] = h[i]
<1>1. h \in Seq(Entry) /\ Len(h) \in Nat /\ \A i \in 1 .. Len(h) : Entered(h[i], i)
  BY DEF Recorded
<1>2. e \in Entry
  BY DEF Entered
<1> DEFINE g == Append(h, e)
<1>3. /\ g \in Seq(Entry) /\ Len(g) = Len(h) + 1 /\ g[Len(h) + 1] = e
      /\ \A i \in 1 .. Len(h) : g[i] = h[i]
  BY <1>1, <1>2, AppendProperties
<1> HIDE DEF g
<1>4. \A i \in 1 .. Len(g) : i \in 1 .. Len(h) \/ i = Len(h) + 1
  BY <1>1, <1>3
<1>5. \A i \in 1 .. Len(g) : Entered(g[i], i)
  BY <1>1, <1>3, <1>4
<1>6. QED
  BY <1>3, <1>5 DEF Recorded, g

\* What a condensation of the view can name was an event before it.
LEMMA IdsAreBefore ==
  ASSUME NEW h, Recorded(h)
  PROVE  Ids(View(h)) \subseteq 0 .. Len(h)
<1>1. Remembered(h) \subseteq 1 .. Len(h) /\ Len(h) \in Nat
  BY DEF Recorded, Remembered
<1>2. ASSUME NEW i \in DOMAIN View(h)
      PROVE  View(h)[i].id \in 0 .. Len(h)
  BY <1>1, ViewShows
<1>3. QED
  BY <1>2 DEF Ids

\* An event with another id, condensation or answer, is an event.
LEMMA Stamped ==
  ASSUME NEW e \in Entry, NEW n \in Nat
  PROVE  LET d == [e EXCEPT !.id = n] IN
         /\ d \in Entry /\ d.id = n /\ d.kind = e.kind /\ d.calls = e.calls
         /\ d.forgets = e.forgets /\ d.summary = e.summary
BY DEF Entry

LEMMA Forgets ==
  ASSUME NEW e \in Entry, NEW S \in SUBSET Nat
  PROVE  LET d == [e EXCEPT !.forgets = S] IN
         /\ d \in Entry /\ d.kind = e.kind /\ d.forgets = S /\ d.calls = e.calls
BY DEF Entry

LEMMA Sums ==
  ASSUME NEW e \in Entry, NEW S \in SUBSET Nat
  PROVE  LET d == [e EXCEPT !.forgets = S, !.summary = TRUE] IN
         /\ d \in Entry /\ d.kind = e.kind /\ d.forgets = S /\ d.calls = e.calls
         /\ d.summary = TRUE
BY DEF Entry

LEMMA Made ==
  ASSUME NEW kind \in Kinds
  PROVE  /\ Make(kind) \in Entry /\ Make(kind).kind = kind /\ Make(kind).forgets = {}
         /\ Make(kind).id = 0 /\ Make(kind).calls = 0
BY DEF Make, Entry

\* The condensation of the window.
Windowed(h) == [Window(View(h)) EXCEPT !.id = Len(h) + 1]

LEMMA WindowIs ==
  ASSUME NEW h, Recorded(h)
  PROVE  /\ Entered(Windowed(h), Len(h) + 1) /\ Windowed(h).kind = "condensation"
         /\ Windowed(h).forgets \subseteq Ids(View(h))
         /\ Places(View(h), "user") # {} =>
              \A i \in Essential(View(h)) : View(h)[i].id \notin Windowed(h).forgets
<1> DEFINE v == View(h)
           recent == Max({1, (Len(v) - Cardinality(Essential(v))) \div 2})
           slice == (Len(v) - recent + 1) .. Len(v)
           valid == {i \in slice : \E j \in slice : j <= i /\ ~IsObservation(v[j])}
           keep == Essential(v) \cup valid
           forgets == IF Places(v, "user") = {} THEN {}
                      ELSE Ids(v) \ {v[i].id : i \in keep}
<1>1. Window(v) = [Make("condensation") EXCEPT !.forgets = forgets]
  BY DEF Window
<1>2. \A i \in Essential(v) : i \in keep
  OBVIOUS
<1> HIDE DEF v, keep
<1>3. forgets \subseteq Ids(v)
  OBVIOUS
<1>4. Places(v, "user") # {} => \A i \in keep : v[i].id \notin forgets
  OBVIOUS
<1> HIDE DEF forgets
<1>5. forgets \in SUBSET (0 .. Len(h)) /\ Len(h) \in Nat
  BY <1>3, IdsAreBefore DEF v, Recorded
<1>6. /\ Windowed(h) \in Entry /\ Windowed(h).id = Len(h) + 1
      /\ Windowed(h).kind = "condensation" /\ Windowed(h).forgets = forgets
  <2> DEFINE c == Make("condensation")
             d == [c EXCEPT !.forgets = forgets]
             e == [d EXCEPT !.id = Len(h) + 1]
  <2>1. c \in Entry /\ c.kind = "condensation"
    BY Made DEF Kinds
  <2>2. Windowed(h) = e
    BY <1>1 DEF Windowed, v
  <2> HIDE DEF c
  <2>3. d \in Entry /\ d.kind = "condensation" /\ d.forgets = forgets
    <3>1. forgets \in SUBSET Nat
      BY <1>5
    <3>2. QED
      BY <2>1, <3>1, Forgets
  <2> HIDE DEF d
  <2>4. e \in Entry /\ e.id = Len(h) + 1 /\ e.kind = "condensation" /\ e.forgets = forgets
    <3>1. Len(h) + 1 \in Nat
      BY <1>5
    <3>2. QED
      BY <2>3, <3>1, Stamped
  <2>5. QED
    BY <2>2, <2>4
<1>7. Entered(Windowed(h), Len(h) + 1)
  <2>1. (Len(h) + 1) - 1 = Len(h)
    BY <1>5
  <2>2. QED
    BY <1>5, <1>6, <2>1 DEF Entered
<1>8. QED
  BY <1>2, <1>3, <1>4, <1>6, <1>7 DEF v

\* What the condensation with a summary names: the events kept between head and
\* tail of which no placeholder is shown.  A summary before shifts their places.
Summed(h) == [Summarized(Masked(View(h))) EXCEPT !.id = Len(h) + 1]
LastOfMiddle(h) == Len(Kept(h)) - EventsFromTail
Shift(h) == IF HasSummary(h) THEN 1 ELSE 0
Named(h) == {k \in (KeepFirst + 1) .. LastOfMiddle(h) :
               Masked(View(h))[k + Shift(h)].kind # "masked"}
FirstNamed(h) == Min(Named(h))
LastNamed(h) == Max(Named(h))

LEMMA Half ==
  /\ EventsFromTail \in Nat /\ MaxSize \div 2 \in Nat
  /\ EventsFromTail = (MaxSize \div 2) - KeepFirst - 1 /\ MaxSize \div 2 <= MaxSize
BY SizesOK DEF EventsFromTail

\* The middle of what is shown is the middle of what is kept, after the summary.
LEMMA MiddleIs ==
  ASSUME NEW h, Recorded(h), TooLong(Masked(View(h)))
  PROVE  /\ LastOfMiddle(h) \in Nat /\ KeepFirst + 1 <= LastOfMiddle(h)
         /\ LastOfMiddle(h) <= Len(Kept(h)) /\ Shift(h) \in {0, 1}
         /\ Middle(Masked(View(h))) = (KeepFirst + 1) .. (LastOfMiddle(h) + Shift(h))
         /\ Shift(h) = 1 => Masked(View(h))[KeepFirst + 1].kind = "summary"
         /\ \A k \in (KeepFirst + 1) .. LastOfMiddle(h) :
              \/ Masked(View(h))[k + Shift(h)] = Kept(h)[k] /\ Kept(h)[k].kind # "masked"
                 /\ Kept(h)[k].kind # "summary"
              \/ Masked(View(h))[k + Shift(h)].kind = "masked"
<1> DEFINE v == View(h)
           w == Masked(v)
           s == Kept(h)
           n == Len(s)
           m == Len(w)
           K == KeepFirst
           t == EventsFromTail
           d == Shift(h)
<1>1. /\ s \in Seq(Shown) /\ n \in Nat
      /\ \A k \in 1 .. n : s[k].kind # "summary" /\ s[k].kind # "masked"
  BY KeptIs
<1>2. /\ v \in Seq(Shown) /\ Len(v) = m /\ m \in Nat /\ m > MaxSize
      /\ \A i \in 1 .. m : w[i] = v[i] \/ (v[i].kind = "page" /\ w[i].kind = "masked")
  BY ViewIs, MaskedIs DEF TooLong, Make
<1>3. /\ K \in Nat /\ MaxSize \in Nat /\ t \in Nat /\ t = (MaxSize \div 2) - K - 1
      /\ MaxSize \div 2 <= MaxSize /\ K + 1 < MaxSize \div 2 /\ MaxSize \div 2 \in Nat
  BY SizesOK, Half
<1>4. /\ m = n + d /\ d \in {0, 1}
      /\ d = 1 => m >= K + 1 /\ v[K + 1].kind = "summary"
      /\ \A k \in (K + 1) .. n : v[k + d] = s[k]
  <2>1. CASE ~HasSummary(h)
    <3>1. v = s /\ d = 0
      BY <2>1, ViewIs DEF Shift
    <3> HIDE DEF v, s, d, w
    <3>2. \A k \in (K + 1) .. n : k + d = k
      BY <1>1, <1>3, <3>1
    <3>3. QED
      BY <1>1, <1>2, <3>1, <3>2
  <2>2. CASE HasSummary(h)
    <3>1. /\ Len(v) = n + 1 /\ d = 1
          /\ v[SummaryPlace(h)] = Make("summary")
          /\ \A j \in SummaryPlace(h) .. n : v[j + 1] = s[j]
      BY <2>2, ViewIs DEF Shift
    <3>2. SummaryPlace(h) = K + 1
      <4>1. K <= n
        BY <1>1, <1>2, <1>3, <3>1
      <4>2. QED
        BY <4>1 DEF SummaryPlace
    <3>3. Make("summary").kind = "summary"
      BY DEF Make
    <3> HIDE DEF v, s, d, w
    <3>4. QED
      BY <1>1, <1>2, <1>3, <3>1, <3>2, <3>3
  <2>3. QED
    BY <2>1, <2>2
<1>5. /\ LastOfMiddle(h) = n - t /\ m - t = (n - t) + d /\ n - t \in Nat
      /\ n - t <= n /\ K + 1 <= n - t
  <2>1. LastOfMiddle(h) = n - t
    BY DEF LastOfMiddle
  <2> HIDE DEF v, s, d, w, n, m, t
  <2>2. QED
    BY <1>1, <1>2, <1>3, <1>4, <2>1
<1>6. Middle(w) = (K + 1) .. ((n - t) + d)
  BY <1>5 DEF Middle
<1> HIDE DEF v, s, d, w, n, m, t, K
<1>7. ASSUME d = 1
      PROVE  w[K + 1].kind = "summary"
  <2>1. K + 1 \in 1 .. m
    BY <1>2, <1>3, <1>4, <1>7
  <2>2. QED
    BY <1>2, <1>4, <1>7, <2>1
<1>8. ASSUME NEW k \in (K + 1) .. (n - t)
      PROVE  \/ w[k + d] = s[k] /\ s[k].kind # "masked" /\ s[k].kind # "summary"
             \/ w[k + d].kind = "masked"
  <2>1. k \in 1 .. n /\ k \in (K + 1) .. n /\ k + d \in 1 .. m
    BY <1>1, <1>2, <1>3, <1>4, <1>5
  <2>2. v[k + d] = s[k]
    BY <1>4, <2>1
  <2>3. QED
    BY <1>1, <1>2, <2>1, <2>2
<1>9. QED
  BY <1>4, <1>5, <1>6, <1>7, <1>8 DEF v, s, d, w, n, m, t, K

\* What is to be summarized are the events that are named.
LEMMA NamedIs ==
  ASSUME NEW h, Recorded(h), TooLong(Masked(View(h))),
         ToSummarize(Masked(View(h))) # {}
  PROVE  /\ ToSummarize(Masked(View(h))) = {k + Shift(h) : k \in Named(h)}
         /\ \A k \in Named(h) : Masked(View(h))[k + Shift(h)] = Kept(h)[k]
         /\ Named(h) \subseteq Nat
         /\ FirstNamed(h) \in Named(h) /\ LastNamed(h) \in Named(h)
         /\ \A k \in Named(h) : FirstNamed(h) <= k /\ k <= LastNamed(h)
<1> DEFINE w == Masked(View(h))
           lo == KeepFirst + 1
           hi == LastOfMiddle(h)
           d == Shift(h)
           N == Named(h)
<1>1. /\ lo \in Nat /\ hi \in Nat /\ d \in {0, 1} /\ Middle(w) = lo .. (hi + d)
      /\ d = 1 => w[lo].kind = "summary"
      /\ \A k \in lo .. hi :
           \/ w[k + d] = Kept(h)[k] /\ Kept(h)[k].kind # "masked"
              /\ Kept(h)[k].kind # "summary"
           \/ w[k + d].kind = "masked"
  BY MiddleIs, SizesOK
<1>2. N = {k \in lo .. hi : w[k + d].kind # "masked"}
  BY DEF Named
<1>3. \A i : i \in ToSummarize(w) <=> i \in Middle(w) /\ w[i].kind \notin {"summary", "masked"}
  BY DEF ToSummarize, IsSummary
<1>4. ToSummarize(w) # {}
  OBVIOUS
<1> HIDE DEF w, lo, hi, d, N
<1>5. \A k \in N : w[k + d] = Kept(h)[k] /\ w[k + d].kind # "summary" /\ k \in lo .. hi
  BY <1>1, <1>2
<1>6. ASSUME NEW i \in ToSummarize(w)
      PROVE  i - d \in N /\ i = (i - d) + d
  <2>1. i \in lo .. (hi + d) /\ w[i].kind \notin {"summary", "masked"}
    BY <1>1, <1>3
  <2>2. ~(d = 1 /\ i = lo)
    BY <1>1, <2>1
  <2>3. i - d \in lo .. hi /\ i = (i - d) + d
    BY <1>1, <2>1, <2>2
  <2>4. QED
    BY <1>2, <2>1, <2>3
<1>7. ASSUME NEW k \in N
      PROVE  k + d \in ToSummarize(w)
  <2>1. k + d \in lo .. (hi + d)
    BY <1>1, <1>5
  <2>2. w[k + d].kind # "masked"
    BY <1>2
  <2>3. QED
    BY <1>1, <1>3, <1>5, <2>1, <2>2
<1>8. ToSummarize(w) = {k + d : k \in N}
  BY <1>6, <1>7
<1>9. N # {} /\ N \subseteq lo .. hi
  BY <1>4, <1>5, <1>6
<1>10. IsFiniteSet(N) /\ N \in SUBSET Int /\ N \subseteq Nat
  <2>1. IsFiniteSet(lo .. hi) /\ lo .. hi \subseteq Nat
    BY <1>1, FS_Interval
  <2>2. N \subseteq Nat /\ N \in SUBSET Int
    BY <1>9, <2>1
  <2>3. IsFiniteSet(N)
    BY <1>9, <2>1, FS_Subset
  <2>4. QED
    BY <2>2, <2>3
<1>11. /\ Min(N) \in N /\ Max(N) \in N
       /\ \A k \in N : Min(N) <= k /\ k <= Max(N)
  BY <1>9, <1>10, MinOfFinite, MaxOfFinite
<1>12. QED
  BY <1>5, <1>8, <1>10, <1>11 DEF w, d, N, FirstNamed, LastNamed

\* Numbers of a list from one of its places to another.
Between(S, f, m, I, a, b) ==
  /\ m \in Nat /\ I \in SUBSET Nat /\ Lists(f, m, I)
  /\ a \in 1 .. m /\ b \in a .. m
  /\ S \subseteq {f[k] : k \in a .. b} /\ f[a] \in S /\ f[b] \in S

LEMMA ListRange ==
  ASSUME NEW S, NEW f, NEW m, NEW I, NEW a, NEW b, Between(S, f, m, I, a, b)
  PROVE  /\ Min(S) = f[a] /\ Max(S) = f[b] /\ S \subseteq Nat
         /\ \A k \in 1 .. m : f[k] \in f[a] .. f[b] <=> k \in a .. b
<1>0. /\ m \in Nat /\ I \in SUBSET Nat /\ Lists(f, m, I)
      /\ a \in 1 .. m /\ b \in a .. m
      /\ S \subseteq {f[k] : k \in a .. b} /\ f[a] \in S /\ f[b] \in S
  BY DEF Between
<1>1. /\ \A k \in 1 .. m : f[k] \in Nat
      /\ \A j, k \in 1 .. m : j < k => f[j] < f[k]
  BY <1>0 DEF Lists
<1>2. a \in Nat /\ b \in Nat /\ a <= b /\ b <= m /\ 1 <= a /\ a .. b \subseteq 1 .. m
  BY <1>0
<1>3. \A j, k \in 1 .. m : j <= k => f[j] <= f[k]
  <2>1. \A j, k \in 1 .. m : j <= k => j < k \/ j = k
    BY <1>2
  <2>2. QED
    BY <1>1, <2>1
<1>4. f[a] \in S /\ f[b] \in S /\ S \subseteq Nat /\ f[a] \in Int /\ f[b] \in Int
  <2>1. a \in a .. b /\ b \in a .. b
    BY <1>2
  <2>2. f[a] \in S /\ f[b] \in S /\ S \subseteq Nat
    BY <1>0, <1>1, <1>2, <2>1
  <2>3. \A x \in Nat : x \in Int
    OBVIOUS
  <2>4. QED
    BY <2>2, <2>3, Zenon
<1>5. \A i \in S : f[a] <= i /\ i <= f[b]
  <2>1. \A k \in a .. b : a \in 1 .. m /\ b \in 1 .. m /\ k \in 1 .. m /\ a <= k /\ k <= b
    BY <1>2
  <2>2. QED
    BY <1>0, <1>3, <2>1
<1>6. IsFiniteSet(S)
  <2>1. S \subseteq f[a] .. f[b]
    BY <1>4, <1>5
  <2>2. IsFiniteSet(f[a] .. f[b])
    BY <1>4, FS_Interval
  <2>3. QED
    BY <2>1, <2>2, FS_Subset
<1>7. Min(S) \in S /\ Max(S) \in S /\ Min(S) <= f[a] /\ Max(S) >= f[b]
  <2>1. S \in SUBSET Int /\ S # {}
    BY <1>4
  <2>2. QED
    BY <1>4, <1>6, <2>1, MinOfFinite, MaxOfFinite
<1>8. Min(S) = f[a] /\ Max(S) = f[b]
  <2>1. f[a] \in Nat /\ f[b] \in Nat /\ Min(S) \in Nat /\ Max(S) \in Nat
    BY <1>4, <1>7
  <2>2. f[a] <= Min(S) /\ Max(S) <= f[b]
    BY <1>5, <1>7
  <2>3. QED
    BY <1>7, <2>1, <2>2
<1>9. ASSUME NEW k \in 1 .. m
      PROVE  f[k] \in f[a] .. f[b] <=> k \in a .. b
  <2>1. f[k] \in Nat /\ f[a] \in Nat /\ f[b] \in Nat /\ k \in Nat
    BY <1>1, <1>2
  <2>2. k < a => f[k] < f[a]
    BY <1>1, <1>2
  <2>3. b < k => f[b] < f[k]
    BY <1>1, <1>2
  <2>4. k \in a .. b => f[a] <= f[k] /\ f[k] <= f[b]
    BY <1>2, <1>3
  <2>5. QED
    BY <1>2, <2>1, <2>2, <2>3, <2>4
<1>10. QED
  BY <1>4, <1>8, <1>9

LEMMA SummedIs ==
  ASSUME NEW h, NEW g, Recorded(h), TooLong(Masked(View(h))),
         ToSummarize(Masked(View(h))) # {},
         Lists(g, Len(Kept(h)), Remembered(h)),
         \A k \in 1 .. Len(Kept(h)) : Kept(h)[k].id = g[k]
  PROVE  /\ Entered(Summed(h), Len(h) + 1) /\ Summed(h).kind = "condensation"
         /\ Summed(h).summary = TRUE
         /\ Summed(h).forgets = g[FirstNamed(h)] .. g[LastNamed(h)]
<1> DEFINE n == Len(Kept(h))
           w == Masked(View(h))
           lo == FirstNamed(h)
           hi == LastNamed(h)
           ids == {w[i].id : i \in ToSummarize(w)}
           forgets == g[lo] .. g[hi]
<1>1. n \in Nat /\ lo \in 1 .. n /\ hi \in lo .. n /\ Remembered(h) \in SUBSET (1 .. Len(h))
      /\ Len(h) \in Nat /\ lo .. hi \subseteq 1 .. n
  <2>1. n \in Nat /\ Remembered(h) \in SUBSET (1 .. Len(h)) /\ Len(h) \in Nat
    BY KeptIs DEF Recorded, Remembered
  <2>2. /\ lo \in Named(h) /\ hi \in Named(h) /\ lo <= hi
        /\ Named(h) \subseteq (KeepFirst + 1) .. LastOfMiddle(h)
    BY NamedIs DEF Named
  <2>3. /\ LastOfMiddle(h) \in Nat /\ LastOfMiddle(h) <= n /\ KeepFirst \in Nat
    BY MiddleIs, SizesOK
  <2> HIDE DEF lo, hi, n
  <2>4. QED
    BY <2>1, <2>2, <2>3
<1>2. /\ ids \subseteq {g[k] : k \in lo .. hi}
      /\ g[lo] \in ids /\ g[hi] \in ids
  <2> DEFINE d == Shift(h)
  <2>1. /\ ToSummarize(w) = {k + d : k \in Named(h)}
        /\ \A k \in Named(h) : w[k + d] = Kept(h)[k] /\ lo <= k /\ k <= hi /\ k \in Nat
        /\ lo \in Named(h) /\ hi \in Named(h)
    BY NamedIs
  <2> HIDE DEF d, w, n, lo, hi
  <2>2. \A k \in Named(h) : k \in lo .. hi /\ k \in 1 .. n
    BY <1>1, <2>1
  <2>3. \A k \in Named(h) : w[k + d].id = g[k] /\ k + d \in ToSummarize(w)
    <3>1. \A k \in Named(h) : w[k + d] = Kept(h)[k] /\ k + d \in ToSummarize(w)
      BY <2>1
    <3>2. \A k \in Named(h) : Kept(h)[k].id = g[k]
      BY <2>2 DEF n
    <3>3. QED
      BY <3>1, <3>2
  <2>4. \A i \in ToSummarize(w) : \E k \in Named(h) : i = k + d
    BY <2>1
  <2>5. \A k \in Named(h) : g[k] \in ids
    <3>1. \A i \in ToSummarize(w) : w[i].id \in ids
      OBVIOUS
    <3> HIDE DEF ids
    <3>2. QED
      BY <2>3, <3>1
  <2>6. \A x \in ids : \E k \in Named(h) : x = g[k]
    <3>1. \A x \in ids : \E i \in ToSummarize(w) : x = w[i].id
      OBVIOUS
    <3> HIDE DEF ids
    <3>2. QED
      BY <2>3, <2>4, <3>1
  <2> HIDE DEF ids
  <2>7. ids \subseteq {g[k] : k \in lo .. hi}
    BY <2>2, <2>6
  <2>8. QED
    BY <2>1, <2>5, <2>7
<1>3. Min(ids) = g[lo] /\ Max(ids) = g[hi]
  <2> HIDE DEF ids, n, lo, hi, forgets, w
  <2>1. Remembered(h) \in SUBSET Nat /\ Lists(g, n, Remembered(h))
    BY <1>1 DEF n
  <2>2. Between(ids, g, n, Remembered(h), lo, hi)
    BY <1>1, <1>2, <2>1 DEF Between
  <2>3. QED
    BY <2>2, ListRange
<1>4. Summarized(w) = [Make("condensation") EXCEPT !.forgets = forgets, !.summary = TRUE]
  BY <1>3 DEF Summarized
<1>5. g[lo] \in 1 .. Len(h) /\ g[hi] \in 1 .. Len(h)
  <2>1. lo \in 1 .. n /\ hi \in 1 .. n
    <3> HIDE DEF n, lo, hi
    <3>1. QED
      BY <1>1
  <2>2. QED
    BY <1>1, <2>1 DEF Lists
<1>6. forgets \in SUBSET (0 .. Len(h))
  <2> HIDE DEF lo, hi
  <2>1. QED
    BY <1>1, <1>5
<1> HIDE DEF forgets
<1>7. /\ Summed(h) \in Entry /\ Summed(h).id = Len(h) + 1
      /\ Summed(h).kind = "condensation" /\ Summed(h).forgets = forgets
      /\ Summed(h).summary = TRUE
  <2> DEFINE c == Make("condensation")
             d == [c EXCEPT !.forgets = forgets, !.summary = TRUE]
             e == [d EXCEPT !.id = Len(h) + 1]
  <2>1. c \in Entry /\ c.kind = "condensation"
    BY Made DEF Kinds
  <2>2. Summed(h) = e
    BY <1>4 DEF Summed
  <2> HIDE DEF c
  <2>3. d \in Entry /\ d.kind = "condensation" /\ d.forgets = forgets /\ d.summary = TRUE
    <3>1. forgets \in SUBSET Nat
      BY <1>6
    <3>2. QED
      BY <2>1, <3>1, Sums
  <2> HIDE DEF d
  <2>4. /\ e \in Entry /\ e.id = Len(h) + 1 /\ e.kind = "condensation"
        /\ e.forgets = forgets /\ e.summary = TRUE
    <3>1. Len(h) + 1 \in Nat
      BY <1>1
    <3>2. QED
      BY <2>3, <3>1, Stamped
  <2>5. QED
    BY <2>2, <2>4
<1>8. Entered(Summed(h), Len(h) + 1)
  <2>1. (Len(h) + 1) - 1 = Len(h)
    BY <1>1
  <2>2. QED
    BY <1>6, <1>7, <2>1 DEF Entered
<1>9. QED
  BY <1>7, <1>8 DEF forgets

\* Neither condensation forgets what the history begins with.
LEMMA WindowSpares ==
  ASSUME NEW h, Recorded(h), Opened(h), KeepFirst >= 2
  PROVE  1 \notin Windowed(h).forgets /\ 2 \notin Windowed(h).forgets
<1> DEFINE v == View(h)
<1>1. v \in Seq(Shown) /\ Len(v) >= 2 /\ v[1] = h[1] /\ v[2] = h[2]
  BY ViewIs, ViewOpens
<1>2. /\ h[1].kind = "system" /\ h[2].kind = "user" /\ h[1].id = 1 /\ h[2].id = 2
      /\ Len(h) \in Nat /\ Len(h) >= 2
  <2>1. Len(h) \in Nat /\ Len(h) >= 2
    BY DEF Recorded, Opened
  <2>2. h[1].id = 1 /\ h[2].id = 2
    BY <2>1 DEF Recorded, Entered
  <2>3. QED
    BY <2>1, <2>2 DEF Opened
<1> HIDE DEF v
<1>3. /\ 1 \in Places(v, "system") /\ 2 \in Places(v, "user") /\ 1 \notin Places(v, "user")
      /\ Places(v, "system") \subseteq Nat \ {0} /\ Places(v, "user") \subseteq Nat \ {0}
  BY <1>1, <1>2 DEF Places
<1>4. Min(Places(v, "system")) = 1
  <2>1. /\ Min(Places(v, "system")) \in Places(v, "system")
        /\ Min(Places(v, "system")) <= 1
    BY <1>1, <1>3, PlacesAre
  <2>2. Min(Places(v, "system")) \in Nat \ {0}
    BY <1>3, <2>1
  <2>3. QED
    BY <2>1, <2>2
<1>5. Min(Places(v, "user")) = 2
  <2>1. /\ Min(Places(v, "user")) \in Places(v, "user")
        /\ Min(Places(v, "user")) <= 2
    BY <1>1, <1>3, PlacesAre
  <2>2. Min(Places(v, "user")) \in Nat \ {0} /\ Min(Places(v, "user")) # 1
    BY <1>3, <2>1
  <2>3. QED
    BY <2>1, <2>2
<1>6. 1 \in First(Places(v, "system")) /\ 2 \in First(Places(v, "user"))
  BY <1>3, <1>4, <1>5 DEF First
<1>7. 1 \in Essential(v) /\ 2 \in Essential(v)
  BY <1>6 DEF Essential
<1>8. v[1].id \notin Windowed(h).forgets /\ v[2].id \notin Windowed(h).forgets
  BY <1>3, <1>7, WindowIs DEF v
<1>9. QED
  BY <1>1, <1>2, <1>8

LEMMA SummarySpares ==
  ASSUME NEW h, Recorded(h), Opened(h), KeepFirst >= 2, TooLong(Masked(View(h))),
         ToSummarize(Masked(View(h))) # {}
  PROVE  1 \notin Summed(h).forgets /\ 2 \notin Summed(h).forgets
<1> DEFINE a == FirstNamed(h)
<1>1. PICK f : /\ Lists(f, Len(Kept(h)), Remembered(h))
               /\ \A k \in 1 .. Len(Kept(h)) : Kept(h)[k].id = f[k]
  BY KeptIs
<1>2. Summed(h).forgets = f[a] .. f[LastNamed(h)]
  BY <1>1, SummedIs
<1>3. Len(Kept(h)) \in Nat /\ a \in 1 .. Len(Kept(h)) /\ 2 \in 1 .. Len(Kept(h)) /\ 2 < a
  <2>1. a \in (KeepFirst + 1) .. LastOfMiddle(h)
    BY NamedIs DEF Named
  <2>2. /\ LastOfMiddle(h) \in Nat /\ LastOfMiddle(h) <= Len(Kept(h))
        /\ Len(Kept(h)) \in Nat /\ KeepFirst \in Nat
    BY MiddleIs, KeptIs, SizesOK
  <2> HIDE DEF a
  <2>3. QED
    BY <2>1, <2>2
<1> HIDE DEF a
<1>4. f[2] = 2
  BY <1>1, ViewOpens
<1>5. f[2] < f[a] /\ f[a] \in Nat
  <2>1. Remembered(h) \subseteq Nat
    BY DEF Remembered, Recorded
  <2>2. QED
    BY <1>1, <1>3, <2>1 DEF Lists
<1>6. f[a] > 2
  BY <1>4, <1>5
<1>7. \A i \in f[a] .. f[LastNamed(h)] : i > 2
  BY <1>5, <1>6
<1>8. QED
  BY <1>2, <1>7

----------------------------------------------------------------------------
(* The invariant                                                           *)

\* A history that started with the instructions and goes on with the user's
\* first message, neither of which is ever forgotten.
Started(h) ==
  /\ Recorded(h) /\ Len(h) >= 1 /\ h[1].kind = "system"
  /\ Len(h) > 1 => h[2].kind = "user"
  /\ KeepFirst >= 2 =>
       \A i \in 1 .. Len(h) : 1 \notin h[i].forgets /\ 2 \notin h[i].forgets

\* What is waited for is in the history, and nothing happens before the user
\* has said something.
Waits ==
  /\ pending \in open \cup {0} /\ open \subseteq 1 .. Len(history)
  /\ plan \in Seq(Planned)
  /\ state \in {"running", "waiting", "stopped"} /\ stops \in 0 .. MaxStops
  /\ Len(history) = 1 => open = {} /\ state # "running"

\* TypeOK is not inductive by itself: that a summary spares the user's first
\* message depends on where the message is.
IInv == Started(history) /\ Waits

\* An event that a started history may have next.
Follows(e, h) ==
  /\ Entered(e, Len(h) + 1)
  /\ Len(h) = 1 => e.kind = "user"
  /\ KeepFirst >= 2 => 1 \notin e.forgets /\ 2 \notin e.forgets

LEMMA StartedGrows ==
  ASSUME NEW h, Started(h), NEW e, Follows(e, h)
  PROVE  /\ Started(Append(h, e)) /\ Len(Append(h, e)) = Len(h) + 1
         /\ Len(h) \in Nat \ {0}
         /\ \A i \in 1 .. Len(h) : Append(h, e)[i] = h[i]
<1> DEFINE g == Append(h, e)
<1>1. /\ Recorded(h) /\ Len(h) \in Nat \ {0} /\ h[1].kind = "system"
      /\ Len(h) > 1 => h[2].kind = "user"
  BY DEF Started, Recorded
<1>2. /\ Recorded(g) /\ Len(g) = Len(h) + 1 /\ g[Len(h) + 1] = e
      /\ \A i \in 1 .. Len(h) : g[i] = h[i]
  BY <1>1, RecordedGrows DEF Follows
<1> HIDE DEF g
<1>3. Len(g) >= 1 /\ g[1].kind = "system"
  BY <1>1, <1>2
<1>4. g[2].kind = "user"
  <2>1. CASE Len(h) = 1
    <3>1. g[2] = e
      BY <1>2, <2>1
    <3>2. QED
      BY <2>1, <3>1 DEF Follows
  <2>2. CASE Len(h) > 1
    BY <1>1, <1>2, <2>2
  <2>3. \A n \in Nat \ {0} : n = 1 \/ n > 1
    OBVIOUS
  <2>4. QED
    BY <1>1, <2>1, <2>2, <2>3
<1>5. ASSUME KeepFirst >= 2, NEW i \in 1 .. Len(g)
      PROVE  1 \notin g[i].forgets /\ 2 \notin g[i].forgets
  <2>1. CASE i \in 1 .. Len(h)
    BY <1>2, <1>5, <2>1 DEF Started
  <2>2. CASE i = Len(h) + 1
    BY <1>2, <1>5, <2>2 DEF Follows
  <2>3. QED
    BY <1>1, <1>2, <2>1, <2>2
<1>6. QED
  BY <1>1, <1>2, <1>3, <1>4, <1>5 DEF Started, g

\* An event that is no condensation follows any history that has begun.
LEMMA PlainFollows ==
  ASSUME NEW h, Started(h), NEW e \in Entry, e.forgets = {},
         e.kind = "call" => e.calls # 0, Len(h) = 1 => e.kind = "user"
  PROVE  Follows([e EXCEPT !.id = Len(h) + 1], h)
<1> DEFINE d == [e EXCEPT !.id = Len(h) + 1]
<1>1. Len(h) \in Nat /\ Len(h) + 1 \in Nat
  BY DEF Started, Recorded
<1>2. /\ d \in Entry /\ d.id = Len(h) + 1 /\ d.kind = e.kind /\ d.calls = e.calls
      /\ d.forgets = {}
  BY <1>1, Stamped
<1> HIDE DEF d
<1>3. QED
  BY <1>2 DEF Follows, Entered, d

\* Once the user has said something the history is open as the view needs it.
LEMMA StartedOpens ==
  ASSUME NEW h, Started(h), Len(h) # 1, KeepFirst >= 2
  PROVE  Opened(h)
<1>1. Len(h) \in Nat /\ Len(h) >= 1
  BY DEF Started, Recorded
<1>2. Len(h) >= 2 /\ Len(h) > 1
  <2>1. \A n \in Nat : n >= 1 /\ n # 1 => n >= 2 /\ n > 1
    OBVIOUS
  <2>2. QED
    BY <1>1, <2>1
<1>3. QED
  BY <1>2 DEF Started, Opened

LEMMA PlannedIs ==
  ASSUME NEW e \in Planned
  PROVE  /\ e \in Entry /\ e.forgets = {} /\ e.calls # 0
         /\ e.kind \in {"call", "finish"}
<1>1. {"call", "finish"} \subseteq Kinds /\ {0} \subseteq Nat
  BY DEF Kinds
<1>2. {{}} \subseteq SUBSET Nat /\ {FALSE} \subseteq BOOLEAN /\ Nat \ {0} \subseteq Nat
  OBVIOUS
<1>3. e \in Entry
  BY <1>1, <1>2 DEF Planned, Entry
<1>4. e.forgets = {} /\ e.calls # 0 /\ e.kind \in {"call", "finish"}
  BY DEF Planned
<1>5. QED
  BY <1>3, <1>4

\* A response is a plan of at least one action.
LEMMA ResponseIs ==
  ASSUME Started(history), NEW shape \in Shapes
  PROVE  /\ Head(Response(shape)) \in Planned /\ Tail(Response(shape)) \in Seq(Planned)
<1>1. /\ shape \in Seq({"call", "finish"}) /\ Len(shape) \in Nat \ {0}
      /\ DOMAIN shape = 1 .. Len(shape) /\ \A i \in 1 .. Len(shape) : shape[i] \in {"call", "finish"}
  <2>1. shape \in Seq({"call", "finish"}) /\ shape # <<>>
    BY ShapesOK
  <2>2. QED
    BY <2>1
<1>2. Len(history) + 1 \in Nat
  BY DEF Started, Recorded
<1>3. ASSUME NEW kind \in {"call", "finish"}, NEW i \in Nat \ {0}, NEW n \in Nat \ {0},
             NEW r \in Nat
      PROVE  [Make(kind) EXCEPT !.resp = r, !.call = i, !.calls = n] \in Planned
  BY DEF Make, Planned
<1>4. Response(shape) \in Seq(Planned)
  <2> DEFINE e(i) == [Make(shape[i]) EXCEPT !.resp = Len(history) + 1, !.call = i,
                                            !.calls = Len(shape)]
  <2>1. ASSUME NEW i \in 1 .. Len(shape)
        PROVE  e(i) \in Planned
    <3>1. i \in Nat \ {0} /\ shape[i] \in {"call", "finish"}
      BY <1>1
    <3>2. QED
      BY <1>1, <1>2, <1>3, <3>1
  <2>2. Response(shape) = [i \in 1 .. Len(shape) |-> e(i)]
    BY <1>1 DEF Response
  <2> HIDE DEF e
  <2>3. QED
    BY <1>1, <2>1, <2>2
<1>5. Response(shape) # <<>>
  <2>1. 1 \in DOMAIN Response(shape)
    BY <1>1 DEF Response
  <2>2. QED
    BY <2>1
<1>6. QED
  BY <1>4, <1>5, HeadTailProperties

\* An answer is plain.
LEMMA AnswerToIs ==
  ASSUME Started(history), NEW i \in 1 .. Len(history)
  PROVE  /\ AnswerTo(i) \in Entry /\ AnswerTo(i).forgets = {}
         /\ AnswerTo(i).kind \in {"recalled", "result"}
         /\ \A e \in Answers(i) : e \in Entry /\ e.forgets = {} /\ e.kind # "call"
<1>1. history[i] \in Entry /\ history[i].resp \in Nat /\ history[i].call \in Nat /\ i \in Nat
  <2>1. history[i] \in Entry
    BY DEF Started, Recorded, Entered
  <2>2. QED
    BY <2>1 DEF Entry
<1>2. ASSUME history[i].kind = "recall"
      PROVE  /\ AnswerTo(i) \in Entry /\ AnswerTo(i).forgets = {}
             /\ AnswerTo(i).kind = "recalled"
  <2> DEFINE m == Make("recalled")
  <2>1. m \in Entry /\ m.kind = "recalled" /\ m.forgets = {}
    BY Made DEF Kinds
  <2>2. AnswerTo(i) = [m EXCEPT !.call = i]
    BY <1>2 DEF AnswerTo
  <2> HIDE DEF m
  <2>3. QED
    BY <1>1, <2>1, <2>2 DEF Entry
<1>3. ASSUME history[i].kind # "recall"
      PROVE  /\ AnswerTo(i) \in Entry /\ AnswerTo(i).forgets = {}
             /\ AnswerTo(i).kind = "result"
  <2> DEFINE m == Make("result")
             r == history[i].resp
             c == history[i].call
  <2>1. m \in Entry /\ m.kind = "result" /\ m.forgets = {} /\ r \in Nat /\ c \in Nat
    BY <1>1, Made DEF Kinds
  <2>2. AnswerTo(i) = [m EXCEPT !.resp = r, !.call = c]
    BY <1>3 DEF AnswerTo
  <2> HIDE DEF m, r, c
  <2>3. QED
    BY <2>1, <2>2 DEF Entry
<1>4. /\ AnswerTo(i) \in Entry /\ AnswerTo(i).forgets = {}
      /\ AnswerTo(i).kind \in {"recalled", "result"}
  BY <1>2, <1>3
<1> DEFINE a == AnswerTo(i)
           page == [a EXCEPT !.kind = "page"]
<1>5. \A e \in Answers(i) : e = a \/ e = page
  BY DEF Answers
<1> HIDE DEF a
<1>6. a \in Entry /\ a.forgets = {} /\ a.kind # "call"
  BY <1>4 DEF a
<1>7. page \in Entry /\ page.forgets = {} /\ page.kind = "page"
  BY <1>6 DEF Entry, Kinds
<1> HIDE DEF page
<1>8. QED
  BY <1>4, <1>5, <1>6, <1>7

\* What an event does that the agent's step adds.
LEMMA EmitStep ==
  ASSUME IInv, Steps, NEW e, NEW rest \in Seq(Planned), Emit(e, rest),
         Follows([e EXCEPT !.id = Len(history) + 1], history)
  PROVE  IInv'
<1> DEFINE d == [e EXCEPT !.id = Len(history) + 1]
<1>1. /\ history' = Append(history, d) /\ plan' = rest
      /\ state' \in {"waiting", "running"} /\ stops' = stops
  BY DEF Emit, Add
<1>2. \/ pending' = Len(history) + 1 /\ open' = open \cup {Len(history) + 1}
      \/ pending' = pending /\ open' = open
  BY DEF Emit
<1>3. /\ Started(history)' /\ Len(history') = Len(history) + 1
      /\ Len(history) \in Nat \ {0}
  BY <1>1, StartedGrows DEF IInv
<1> HIDE DEF d
<1>4. open' \subseteq 1 .. Len(history') /\ pending' \in open' \cup {0}
  <2>1. open \subseteq 1 .. Len(history) /\ pending \in open \cup {0}
    BY DEF IInv, Waits
  <2>2. QED
    BY <1>2, <1>3, <2>1
<1>5. Len(history') # 1
  BY <1>3
<1>6. Waits'
  BY <1>1, <1>4, <1>5 DEF IInv, Waits
<1>7. QED
  BY <1>3, <1>6 DEF IInv

\* The agent runs only after the user has said something.
LEMMA StepsAfterUser ==
  ASSUME IInv, CanStep
  PROVE  Len(history) # 1 /\ Started(history)
BY DEF IInv, Waits, CanStep

LEMMA TypeInit == Init => IInv
<1> SUFFICES ASSUME Init
             PROVE  IInv
  OBVIOUS
<1> DEFINE e == [Event EXCEPT !.id = 1]
<1>1. /\ history = <<e>> /\ pending = 0 /\ open = {} /\ plan = <<>>
      /\ state = "waiting" /\ stops = 0
  BY DEF Init
<1>2. /\ e \in Entry /\ e.id = 1 /\ e.kind = "system" /\ e.forgets = {}
  <2> DEFINE m == Make("system")
  <2>1. m \in Entry /\ m.kind = "system" /\ m.forgets = {}
    BY Made DEF Kinds
  <2>2. e = [m EXCEPT !.id = 1]
    BY DEF Event
  <2> HIDE DEF m, e
  <2>3. QED
    BY <2>1, <2>2, Stamped
<1> HIDE DEF e
<1>3. history \in Seq(Entry) /\ Len(history) = 1 /\ history[1] = e
  BY <1>1, <1>2
<1>4. \A i \in 1 .. Len(history) : i = 1
  BY <1>3
<1>5. Entered(e, 1)
  BY <1>2 DEF Entered
<1>6. Started(history)
  BY <1>2, <1>3, <1>4, <1>5 DEF Started, Recorded
<1>7. Waits
  <2>1. MaxStops \in Nat
    BY BoundsOK
  <2>2. <<>> \in Seq(Planned)
    OBVIOUS
  <2>3. QED
    BY <1>1, <2>1, <2>2 DEF Waits
<1>8. QED
  BY <1>6, <1>7 DEF IInv

\* A message of the user and what the memory is asked for it.
LEMMA UserStep ==
  ASSUME IInv, User
  PROVE  IInv'
<1> DEFINE n == Len(history)
           a == [Make("user") EXCEPT !.id = n + 1]
           m == [Make("recall") EXCEPT !.call = n + 1]
           b == [m EXCEPT !.id = n + 2]
           mid == Append(history, a)
<1>1. Started(history) /\ n \in Nat /\ n + 1 \in Nat /\ (n + 1) + 1 = n + 2
  BY DEF IInv, Started, Recorded
<1>2. Follows(a, history)
  <2> DEFINE u == Make("user")
  <2>1. u \in Entry /\ u.kind = "user" /\ u.forgets = {}
    BY Made DEF Kinds
  <2> HIDE DEF u
  <2>2. Follows([u EXCEPT !.id = Len(history) + 1], history)
    BY <1>1, <2>1, PlainFollows
  <2>3. QED
    BY <2>2 DEF u
<1>3. Started(mid) /\ Len(mid) = n + 1 /\ n >= 1
  BY <1>1, <1>2, StartedGrows
<1>4. m \in Entry /\ m.kind = "recall" /\ m.forgets = {}
  <2> DEFINE u == Make("recall")
  <2>1. u \in Entry /\ u.kind = "recall" /\ u.forgets = {}
    BY Made DEF Kinds
  <2> HIDE DEF u
  <2>2. [u EXCEPT !.call = n + 1] \in Entry /\ [u EXCEPT !.call = n + 1].kind = "recall"
        /\ [u EXCEPT !.call = n + 1].forgets = {}
    BY <1>1, <2>1 DEF Entry
  <2>3. QED
    BY <2>2 DEF u
<1>5. Follows(b, mid)
  <2> HIDE DEF m, mid, n
  <2>1. Len(mid) # 1 /\ Len(mid) + 1 = n + 2
    BY <1>1, <1>3
  <2>2. Follows([m EXCEPT !.id = Len(mid) + 1], mid)
    BY <1>3, <1>4, <2>1, PlainFollows
  <2>3. QED
    BY <2>1, <2>2
<1>6. Started(Append(mid, b)) /\ Len(Append(mid, b)) = n + 2
  <2> HIDE DEF mid, b
  <2>1. Started(Append(mid, b)) /\ Len(Append(mid, b)) = Len(mid) + 1
    BY <1>3, <1>5, StartedGrows
  <2>2. QED
    BY <1>1, <1>3, <2>1
<1>7. history' = Append(mid, b)
  <2>1. history' = history \o <<a, [Make("recall") EXCEPT !.id = n + 2, !.call = n + 1]>>
    BY DEF User
  <2>2. [Make("recall") EXCEPT !.id = n + 2, !.call = n + 1] = b
    BY DEF Make
  <2>3. history \in Seq(Entry) /\ a \in Entry /\ b \in Entry
    BY <1>2, <1>5, <1>1 DEF Follows, Entered, Started, Recorded
  <2> HIDE DEF a, b, n
  <2>4. history \o <<a, b>> = Append(Append(history, a), b)
    BY <2>3
  <2>5. QED
    BY <2>1, <2>2, <2>4
<1>8. /\ pending' = n + 2 /\ open' = open \cup {n + 2} /\ state' = "running"
      /\ plan' = plan /\ stops' = stops
  BY DEF User
<1> HIDE DEF mid, a, b, m
<1>9. open' \subseteq 1 .. Len(history') /\ pending' \in open' \cup {0} /\ Len(history') # 1
  <2>1. open \subseteq 1 .. n
    BY DEF IInv, Waits
  <2> HIDE DEF n
  <2>2. QED
    BY <1>1, <1>3, <1>6, <1>7, <1>8, <2>1
<1>10. Waits'
  BY <1>8, <1>9 DEF IInv, Waits
<1>11. QED
  BY <1>6, <1>7, <1>10 DEF IInv

\* The rest of a plan, and the steps that condense.
LEMMA PlanStep ==
  ASSUME IInv, NextOfPlan
  PROVE  IInv'
<1>1. Steps /\ Emit(Head(plan), Tail(plan)) /\ plan \in Seq(Planned) /\ plan # <<>>
  BY DEF NextOfPlan, IInv, Waits
<1>2. Head(plan) \in Planned /\ Tail(plan) \in Seq(Planned)
  BY <1>1, HeadTailProperties
<1>3. Len(history) # 1 /\ Started(history)
  BY <1>1, StepsAfterUser DEF Steps
<1>4. Follows([Head(plan) EXCEPT !.id = Len(history) + 1], history)
  BY <1>2, <1>3, PlannedIs, PlainFollows
<1>5. QED
  BY <1>1, <1>2, <1>4, EmitStep

LEMMA WindowStep ==
  ASSUME IInv, CondenseWindow
  PROVE  IInv'
<1>1. Steps /\ Emit(Window(View(history)), <<>>) /\ <<>> \in Seq(Planned)
  BY DEF CondenseWindow
<1>2. Len(history) # 1 /\ Started(history) /\ Recorded(history)
  BY <1>1, StepsAfterUser DEF Steps, Started
<1>3. Entered(Windowed(history), Len(history) + 1)
  BY <1>2, WindowIs
<1>4. KeepFirst >= 2 =>
        1 \notin Windowed(history).forgets /\ 2 \notin Windowed(history).forgets
  BY <1>2, StartedOpens, WindowSpares
<1>5. Follows(Windowed(history), history)
  BY <1>2, <1>3, <1>4 DEF Follows
<1>6. QED
  BY <1>1, <1>5, EmitStep DEF Windowed

LEMMA SummaryStep ==
  ASSUME IInv, Summarize
  PROVE  IInv'
<1>1. /\ Steps /\ TooLong(Masked(View(history))) /\ <<>> \in Seq(Planned)
      /\ ToSummarize(Masked(View(history))) # {}
      /\ Emit(Summarized(Masked(View(history))), <<>>)
  BY DEF Summarize, Condensed
<1>2. Len(history) # 1 /\ Started(history) /\ Recorded(history)
  BY <1>1, StepsAfterUser DEF Steps, Started
<1>3. Entered(Summed(history), Len(history) + 1)
  <2>1. PICK f : /\ Lists(f, Len(Kept(history)), Remembered(history))
                 /\ \A k \in 1 .. Len(Kept(history)) : Kept(history)[k].id = f[k]
    BY <1>2, KeptIs
  <2>2. QED
    BY <1>1, <1>2, <2>1, SummedIs
<1>4. KeepFirst >= 2 =>
        1 \notin Summed(history).forgets /\ 2 \notin Summed(history).forgets
  BY <1>1, <1>2, StartedOpens, SummarySpares
<1>5. Follows(Summed(history), history)
  BY <1>2, <1>3, <1>4 DEF Follows
<1>6. QED
  BY <1>1, <1>5, EmitStep DEF Summed

\* What the model answers, or that the window was exceeded.
LEMMA AskStep ==
  ASSUME IInv, Ask
  PROVE  IInv'
<1>1. Steps /\ <<>> \in Seq(Planned)
  BY DEF Ask, Asks, Steps
<1>2. Len(history) # 1 /\ Started(history)
  BY <1>1, StepsAfterUser DEF Steps
<1>3. ASSUME NEW shape \in Shapes,
             Emit(Head(Response(shape)), Tail(Response(shape)))
      PROVE  IInv'
  <2>1. /\ Head(Response(shape)) \in Planned
        /\ Tail(Response(shape)) \in Seq(Planned)
    BY <1>2, ResponseIs
  <2>2. Follows([Head(Response(shape)) EXCEPT !.id = Len(history) + 1], history)
    BY <1>2, <2>1, PlannedIs, PlainFollows
  <2>3. QED
    BY <1>1, <1>3, <2>1, <2>2, EmitStep
<1>4. ASSUME NEW kind \in {"say", "request"}, Emit(Make(kind), <<>>)
      PROVE  IInv'
  <2>1. kind \in Kinds /\ kind # "call"
    BY DEF Kinds
  <2>2. Make(kind) \in Entry /\ Make(kind).forgets = {} /\ Make(kind).kind # "call"
    BY <2>1, Made
  <2>3. Follows([Make(kind) EXCEPT !.id = Len(history) + 1], history)
    BY <1>2, <2>2, PlainFollows
  <2>4. QED
    BY <1>1, <1>4, <2>3, EmitStep
<1>5. QED
  BY <1>3, <1>4 DEF Ask

\* An answer of the runtime or of the memory.
LEMMA AnswerStep ==
  ASSUME IInv, NEW i \in open, Answer(i)
  PROVE  IInv'
<1>1. /\ Started(history) /\ open \subseteq 1 .. Len(history)
      /\ pending \in open \cup {0} /\ Len(history) # 1 /\ i \in 1 .. Len(history)
  BY DEF IInv, Waits
<1>2. Len(history) \in Nat
  BY <1>1 DEF Started, Recorded
<1>3. /\ open' = open \ {i} /\ pending' = IF pending = i THEN 0 ELSE pending
      /\ plan' = plan /\ state' = state /\ stops' = stops
  BY DEF Answer, Released
<1>4. Started(history)' /\ Len(history') # 1 /\ 1 .. Len(history) \subseteq 1 .. Len(history')
  <2>1. CASE history' = history
    BY <1>1, <2>1
  <2>2. CASE \E e \in Answers(i) : Add(e)
    <3>0. PICK e \in Answers(i) : Add(e)
      BY <2>2
    <3> DEFINE d == [e EXCEPT !.id = Len(history) + 1]
    <3>1. Follows(d, history)
      <4>1. e \in Entry /\ e.forgets = {} /\ e.kind # "call"
        BY <1>1, AnswerToIs
      <4>2. QED
        BY <1>1, <4>1, PlainFollows
    <3>2. history' = Append(history, d)
      BY <3>0 DEF Add
    <3> HIDE DEF d
    <3>3. Started(history)' /\ Len(history') = Len(history) + 1
      BY <1>1, <3>1, <3>2, StartedGrows
    <3>4. QED
      BY <1>1, <1>2, <3>3
  <2>3. QED
    BY <2>1, <2>2 DEF Answer
<1>5. open' \subseteq 1 .. Len(history') /\ pending' \in open' \cup {0}
  BY <1>1, <1>3, <1>4
<1>6. Waits'
  BY <1>3, <1>4, <1>5 DEF IInv, Waits
<1>7. QED
  BY <1>4, <1>6 DEF IInv

\* The reset answers for what is pending, which the user's message made so.
LEMMA StopStep ==
  ASSUME IInv, Stop
  PROVE  IInv'
<1>1. /\ Started(history) /\ open \subseteq 1 .. Len(history)
      /\ pending \in open \cup {0}
      /\ Len(history) = 1 => open = {}
  BY DEF IInv, Waits
<1>2. Len(history) \in Nat
  BY <1>1 DEF Started, Recorded
<1>3. /\ open' = open /\ pending' = 0 /\ plan' = <<>> /\ state' = "stopped"
      /\ stops' = stops + 1 /\ stops < MaxStops
  BY DEF Stop
<1>4. /\ Started(history)' /\ 1 .. Len(history) \subseteq 1 .. Len(history')
      /\ Len(history') = 1 => open = {}
  <2>1. CASE history' = history
    BY <1>1, <2>1
  <2>2. CASE pending # 0 /\ Add(AnswerTo(pending))
    <3> DEFINE d == [AnswerTo(pending) EXCEPT !.id = Len(history) + 1]
    <3>1. pending \in 1 .. Len(history) /\ Len(history) # 1
      BY <1>1, <2>2
    <3>2. Follows(d, history)
      BY <1>1, <3>1, AnswerToIs, PlainFollows
    <3>3. history' = Append(history, d)
      BY <2>2 DEF Add
    <3> HIDE DEF d
    <3>4. Started(history)' /\ Len(history') = Len(history) + 1
      BY <1>1, <3>2, <3>3, StartedGrows
    <3>5. QED
      BY <1>2, <3>1, <3>4
  <2>3. QED
    BY <2>1, <2>2 DEF Stop
<1>5. open' \subseteq 1 .. Len(history') /\ pending' \in open' \cup {0}
  BY <1>1, <1>3, <1>4
<1>6. plan' \in Seq(Planned) /\ stops' \in 0 .. MaxStops
  <2>1. stops \in 0 .. MaxStops /\ MaxStops \in Nat
    BY BoundsOK DEF IInv, Waits
  <2>2. QED
    BY <1>3, <2>1
<1>7. Waits'
  BY <1>1, <1>3, <1>4, <1>5, <1>6 DEF Waits
<1>8. QED
  BY <1>4, <1>7 DEF IInv

LEMMA TypeNext == IInv /\ [Next]_vars => IInv'
<1> SUFFICES ASSUME IInv, [Next]_vars
             PROVE  IInv'
  OBVIOUS
<1>1. CASE User
  BY <1>1, UserStep
<1>2. CASE NextOfPlan
  BY <1>2, PlanStep
<1>3. CASE CondenseWindow
  BY <1>3, WindowStep
<1>4. CASE Summarize
  BY <1>4, SummaryStep
<1>5. CASE Ask
  BY <1>5, AskStep
<1>6. CASE Stop
  BY <1>6, StopStep
<1>7. CASE \E i \in open : Answer(i)
  BY <1>7, AnswerStep
<1>8. CASE UNCHANGED vars
  BY <1>8 DEF vars, IInv, Waits
<1>9. QED
  BY <1>1, <1>2, <1>3, <1>4, <1>5, <1>6, <1>7, <1>8 DEF Next

\* In every reachable state.
LEMMA Invariance == Spec => []IInv
<1>1. Init => IInv
  BY TypeInit
<1>2. IInv /\ [Next]_vars => IInv'
  BY TypeNext
<1>3. QED
  BY <1>1, <1>2, PTL DEF Spec

\* Each variable holds what the code puts there, whatever the sizes and bounds:
\* events are numbered by their places and forget only what was before them.
THEOREM TypeCorrect == Spec => []TypeOK
<1>1. IInv => TypeOK
  <2> SUFFICES ASSUME IInv
               PROVE  TypeOK
    OBVIOUS
  <2>1. history \in Seq(Entry) /\ DOMAIN history = 1 .. Len(history)
    BY DEF IInv, Started, Recorded
  <2>2. ASSUME NEW i \in DOMAIN history
        PROVE  history[i].id = i /\ history[i].forgets \subseteq 0 .. (i - 1)
    BY <2>1, <2>2 DEF IInv, Started, Recorded, Entered
  <2>3. QED
    BY <2>1, <2>2 DEF TypeOK, IInv, Waits
<1>2. QED
  BY <1>1, Invariance, PTL

\* When the model is asked, there is a message of the user.
LEMMA UserIsThere ==
  ASSUME IInv, Asks
  PROVE  Recorded(history) /\ Places(history, "user") # {}
<1>1. Len(history) # 1 /\ Started(history) /\ Recorded(history)
  BY StepsAfterUser DEF Asks, Started
<1>2. 2 \in Places(history, "user")
  <2>1. Len(history) \in Nat /\ Len(history) >= 1
    BY <1>1 DEF Started, Recorded
  <2>2. Len(history) > 1 /\ 2 \in 1 .. Len(history)
    <3>1. \A n \in Nat : n >= 1 /\ n # 1 => n > 1 /\ 2 \in 1 .. n
      OBVIOUS
    <3>2. QED
      BY <1>1, <2>1, <3>1
  <2>3. QED
    BY <1>1, <2>2 DEF Started, Recorded, Places
<1>3. QED
  BY <1>1, <1>2

\* Whatever was condensed and in whatever order answers came, the prompt of a
\* step pairs each call with its result (process_events).
THEOREM PromptsPair == Spec => []PromptWellFormed
<1>1. IInv => PromptWellFormed
  <2> SUFFICES ASSUME IInv, Asks
               PROVE  Paired(Prompt(history))
    BY DEF PromptWellFormed
  <2>1. Recorded(history) /\ Places(history, "user") # {}
    BY UserIsThere
  <2>2. Sound(Prompt(history))
    BY <2>1, PromptIsSound
  <2>3. QED
    BY <2>2 DEF Sound
<1>2. QED
  BY <1>1, Invariance, PTL

\* The filter of unmatched tool calls (_filter_unmatched_tool_calls) finds
\* nothing to filter: process_events adds a call only with all its results.
THEOREM FilterIsIdle ==
  Spec => [](Asks => LET shown == WithUser(WithSystem(Condensed), history) IN
                       Matched(Processed(shown)) = Processed(shown))
<1>1. IInv => (Asks => LET shown == WithUser(WithSystem(Condensed), history) IN
                         Matched(Processed(shown)) = Processed(shown))
  <2> SUFFICES ASSUME IInv, Asks
               PROVE  Prompt(history)
                        = Processed(WithUser(WithSystem(Masked(View(history))), history))
    BY DEF Prompt, Condensed
  <2>1. Recorded(history) /\ Places(history, "user") # {}
    BY UserIsThere
  <2>2. QED
    BY <2>1, PromptIsSound
<1>2. QED
  BY <1>1, Invariance, PTL

\* The model is told its instructions, the user's first message and a summary
\* if there is one, whenever it is asked.  A summary that leaves less than two
\* events at the head may forget the user's first message, and another of the
\* user's may then stand in its place; session.py has keep_first=4.
THEOREM EssentialsAreShown ==
  ASSUME KeepFirst >= 2
  PROVE  Spec => []EssentialsStay
<1>1. IInv => EssentialsStay
  <2> SUFFICES ASSUME IInv, Asks
               PROVE  /\ Prompt(history)[1].role = "system"
                      /\ Prompt(history)[2].event = InitialUser(history).id
                      /\ (\E i \in Condensations(history) : history[i].summary)
                           => Places(Condensed, "summary") # {}
    BY DEF EssentialsStay
  <2>1. Len(history) # 1 /\ Started(history) /\ Recorded(history)
    BY StepsAfterUser DEF Asks, Started
  <2>2. Opened(history)
    BY <2>1, StartedOpens
  <2>3. Opens(Prompt(history), 1, 2) /\ InitialUser(history).id = 2
    BY <2>1, <2>2, PromptOpens
  <2>4. ASSUME \E i \in Condensations(history) : history[i].summary
        PROVE  Places(Condensed, "summary") # {}
    <3>1. HasSummary(history)
      BY <2>4 DEF HasSummary, Summaries
    <3>2. /\ SummaryPlace(history) \in 1 .. (Len(Kept(history)) + 1)
          /\ Len(View(history)) = Len(Kept(history)) + 1
          /\ View(history)[SummaryPlace(history)] = Make("summary")
          /\ View(history) \in Seq(Shown)
      BY <2>1, <3>1, ViewIs
    <3>3. SummaryPlace(history) \in DOMAIN View(history)
      BY <3>2
    <3>4. /\ Condensed[SummaryPlace(history)] = View(history)[SummaryPlace(history)]
          /\ SummaryPlace(history) \in DOMAIN Condensed
      <4>1. View(history)[SummaryPlace(history)].kind # "page"
        BY <3>2 DEF Make
      <4>2. /\ Len(Condensed) = Len(View(history)) /\ Condensed \in Seq(Shown)
            /\ \A i \in 1 .. Len(View(history)) :
                 Condensed[i] = View(history)[i] \/ View(history)[i].kind = "page"
        BY <3>2, MaskedIs DEF Condensed
      <4>3. SummaryPlace(history) \in 1 .. Len(View(history))
        BY <3>2, <3>3
      <4>4. QED
        BY <4>1, <4>2, <4>3
    <3>6. SummaryPlace(history) \in Places(Condensed, "summary")
      BY <3>2, <3>4 DEF Places, Make
    <3>5. QED
      BY <3>6
  <2>5. QED
    BY <2>3, <2>4 DEF Opens
<1>2. QED
  BY <1>1, Invariance, PTL

\* A list without what is between two of its places.
LEMMA ListWithout ==
  ASSUME NEW S, NEW f, NEW m, NEW I, NEW a, NEW b, Between(S, f, m, I, a, b)
  PROVE  Cardinality(I \ (f[a] .. f[b])) = m - (b - a + 1)
<1> DEFINE d == b - a + 1
           n == m - d
           rest == I \ (f[a] .. f[b])
           g == [k \in 1 .. n |-> IF k < a THEN f[k] ELSE f[k + d]]
<1>1. /\ m \in Nat /\ I \in SUBSET Nat /\ a \in 1 .. m /\ b \in a .. m
      /\ f \in [1 .. m -> I] /\ \A j, k \in 1 .. m : j < k => f[j] < f[k]
      /\ \A i \in I : \E k \in 1 .. m : f[k] = i
  BY DEF Between, Lists
<1>2. /\ n \in Nat /\ d \in Nat \ {0} /\ n + d = m /\ a \in Nat \ {0} /\ b \in Nat
      /\ b = (a + d) - 1 /\ a <= n + 1
  BY <1>1
<1>3. \A k \in 1 .. m : f[k] \in rest <=> k \notin a .. b
  <2>1. \A k \in 1 .. m : f[k] \in f[a] .. f[b] <=> k \in a .. b
    BY ListRange
  <2>2. QED
    BY <1>1, <2>1
<1> HIDE DEF d, n, rest
<1>4. \A k \in 1 .. n :
        /\ k < a => k \in 1 .. m /\ k \notin a .. b /\ g[k] = f[k]
        /\ k >= a => k + d \in 1 .. m /\ k + d \notin a .. b /\ g[k] = f[k + d]
        /\ k < a \/ k >= a
  BY <1>1, <1>2
<1>5. g \in [1 .. n -> rest]
  <2>1. \A k \in 1 .. n : g[k] \in rest
    BY <1>3, <1>4
  <2>2. QED
    BY <2>1
<1> HIDE DEF g
<1>6. ASSUME NEW j \in 1 .. n, NEW k \in 1 .. n, j < k
      PROVE  g[j] < g[k]
  <2>1. CASE j < a /\ k < a
    BY <1>1, <1>4, <1>6, <2>1
  <2>2. CASE j < a /\ k >= a
    <3>1. j < k + d /\ j \in 1 .. m /\ k + d \in 1 .. m
      BY <1>2, <1>4, <1>6, <2>2
    <3>2. QED
      BY <1>1, <1>4, <2>2, <3>1
  <2>3. CASE j >= a /\ k >= a
    <3>1. j + d < k + d /\ j + d \in 1 .. m /\ k + d \in 1 .. m
      BY <1>2, <1>4, <1>6, <2>3
    <3>2. QED
      BY <1>1, <1>4, <2>3, <3>1
  <2>4. QED
    BY <1>2, <1>4, <1>6, <2>1, <2>2, <2>3
<1>7. ASSUME NEW i \in rest
      PROVE  \E k \in 1 .. n : g[k] = i
  <2>1. PICK k \in 1 .. m : f[k] = i
    BY <1>1 DEF rest
  <2>2. k \notin a .. b
    BY <1>3, <2>1
  <2>3. CASE k < a
    <3>1. k \in 1 .. n
      BY <1>1, <1>2, <2>3
    <3>2. QED
      BY <1>4, <2>1, <2>3, <3>1
  <2>4. CASE k > b
    <3>1. k - d \in 1 .. n /\ k - d >= a /\ (k - d) + d = k
      BY <1>1, <1>2, <2>4
    <3>2. QED
      BY <1>4, <2>1, <3>1
  <2>5. QED
    BY <1>1, <1>2, <2>2, <2>3, <2>4
<1>8. Lists(g, n, rest)
  BY <1>5, <1>6, <1>7 DEF Lists
<1>9. rest \in SUBSET Nat
  BY <1>1 DEF rest
<1>10. Cardinality(rest) = n
  BY <1>2, <1>8, <1>9, ListCount
<1>11. QED
  BY <1>10 DEF rest, n, d

\* Two stretches of numbers that do not meet.
Apart(a, b, c, d) == (a .. (b - 1)) \cup ((c + 1) .. d)

LEMMA CountApart ==
  ASSUME NEW a \in Nat, NEW b \in Nat, NEW c \in Nat, NEW d \in Nat,
         a <= b, b <= c, c <= d
  PROVE  Cardinality(Apart(a, b, c, d)) = (b - a) + (d - c)
<1>1. /\ IsFiniteSet(a .. (b - 1)) /\ Cardinality(a .. (b - 1)) = b - a
      /\ IsFiniteSet((c + 1) .. d) /\ Cardinality((c + 1) .. d) = d - c
  <2>1. b - 1 \in Int /\ c + 1 \in Int /\ a \in Int /\ d \in Int
    OBVIOUS
  <2>2. /\ IsFiniteSet(a .. (b - 1)) /\ IsFiniteSet((c + 1) .. d)
        /\ Cardinality(a .. (b - 1)) = IF a > b - 1 THEN 0 ELSE (b - 1) - a + 1
        /\ Cardinality((c + 1) .. d) = IF c + 1 > d THEN 0 ELSE d - (c + 1) + 1
    BY <2>1, FS_Interval
  <2>3. QED
    BY <2>2
<1>2. (a .. (b - 1)) \cap ((c + 1) .. d) = {}
  OBVIOUS
<1> DEFINE S == a .. (b - 1)
           T == (c + 1) .. d
<1> HIDE DEF S, T
<1>3. Cardinality(S \cup T) = Cardinality(S) + Cardinality(T) - Cardinality(S \cap T)
  BY <1>1, FS_Union DEF S, T
<1>4. Cardinality(S \cap T) = 0
  BY <1>2, FS_EmptySet DEF S, T
<1>5. Cardinality(S \cup T) = (b - a) + (d - c)
  BY <1>1, <1>3, <1>4 DEF S, T
<1>6. QED
  BY <1>5 DEF S, T, Apart

\* How many placeholders the range of the named events does not reach.
LEMMA BeyondIs ==
  ASSUME NEW h, Recorded(h), TooLong(Masked(View(h))),
         ToSummarize(Masked(View(h))) # {}
  PROVE  Cardinality(Beyond(Masked(View(h))))
           = (FirstNamed(h) - (KeepFirst + 1)) + (LastOfMiddle(h) - LastNamed(h))
<1> DEFINE w == Masked(View(h))
           lo == KeepFirst + 1
           hi == LastOfMiddle(h)
           d == Shift(h)
           a == FirstNamed(h)
           b == LastNamed(h)
           N == Named(h)
           left == ((lo + d) .. ((a + d) - 1)) \cup (((b + d) + 1) .. (hi + d))
<1>1. /\ lo \in Nat /\ hi \in Nat /\ d \in {0, 1} /\ Middle(w) = lo .. (hi + d)
      /\ d = 1 => w[lo].kind = "summary"
  BY MiddleIs, SizesOK
<1>2. /\ N = {k \in lo .. hi : w[k + d].kind # "masked"}
      /\ ToSummarize(w) = {k + d : k \in N}
      /\ a \in N /\ b \in N /\ \A k \in N : a <= k /\ k <= b
  BY NamedIs DEF Named
<1>3. \A i : i \in Beyond(w) <=>
         /\ i \in Middle(w) /\ i \notin ToSummarize(w) /\ w[i].kind = "masked"
         /\ \/ \A j \in ToSummarize(w) : i < j
            \/ \A j \in ToSummarize(w) : j < i
  BY DEF Beyond
<1>4. \A i \in ToSummarize(w) : w[i].kind # "masked"
  BY DEF ToSummarize, IsSummary
<1> HIDE DEF w, lo, hi, d, a, b, N
<1>5. a \in lo .. hi /\ b \in lo .. hi /\ a <= b /\ N \subseteq lo .. hi
  BY <1>1, <1>2
<1>6. ASSUME NEW i \in Beyond(w)
      PROVE  i \in left
  <2>1. /\ i \in lo .. (hi + d) /\ w[i].kind = "masked"
        /\ \/ \A j \in ToSummarize(w) : i < j
           \/ \A j \in ToSummarize(w) : j < i
    BY <1>1, <1>3
  <2>2. a + d \in ToSummarize(w) /\ b + d \in ToSummarize(w)
    BY <1>2
  <2>3. i < a + d \/ b + d < i
    BY <2>1, <2>2
  <2>4. ~(d = 1 /\ i = lo)
    BY <1>1, <2>1
  <2>5. QED
    BY <1>1, <1>5, <2>1, <2>3, <2>4
<1>7. ASSUME NEW i \in left
      PROVE  i \in Beyond(w)
  <2>1. /\ i - d \in lo .. hi /\ i = (i - d) + d /\ i \in lo .. (hi + d)
        /\ i - d < a \/ b < i - d
    BY <1>1, <1>5
  <2>2. i - d \notin N
    <3>1. \A k \in N : ~(k < a) /\ ~(b < k)
      <4>1. \A k \in N : a <= k /\ k <= b /\ k \in Int /\ a \in Int /\ b \in Int
        BY <1>1, <1>2, <1>5
      <4>2. \A k, x, y \in Int : x <= k /\ k <= y => ~(k < x) /\ ~(y < k)
        OBVIOUS
      <4>3. QED
        BY <4>1, <4>2
    <3>2. QED
      BY <2>1, <3>1
  <2>3. w[i].kind = "masked"
    <3>1. w[(i - d) + d].kind = "masked"
      BY <1>2, <2>1, <2>2
    <3>2. QED
      BY <2>1, <3>1
  <2>4. CASE i - d < a
    <3>1. \A j \in ToSummarize(w) : i < j
      <4>1. \A k \in N : i < k + d
        BY <1>1, <1>2, <1>5, <2>1, <2>4
      <4>2. QED
        BY <1>2, <4>1
    <3>2. QED
      BY <1>1, <1>3, <1>4, <2>1, <2>3, <3>1
  <2>5. CASE b < i - d
    <3>1. \A j \in ToSummarize(w) : j < i
      <4>1. \A k \in N : k + d < i
        BY <1>1, <1>2, <1>5, <2>1, <2>5
      <4>2. QED
        BY <1>2, <4>1
    <3>2. QED
      BY <1>1, <1>3, <1>4, <2>1, <2>3, <3>1
  <2>6. QED
    BY <2>1, <2>4, <2>5
<1>8. Beyond(w) = left
  <2> HIDE DEF left
  <2>1. QED
    BY <1>6, <1>7
<1>9. Cardinality(left) = ((a + d) - (lo + d)) + ((hi + d) - (b + d))
  <2>1. /\ lo + d \in Nat /\ a + d \in Nat /\ b + d \in Nat /\ hi + d \in Nat
        /\ lo + d <= a + d /\ a + d <= b + d /\ b + d <= hi + d
    BY <1>1, <1>5
  <2> DEFINE p == lo + d
             q == a + d
             x == b + d
             y == hi + d
  <2>2. p \in Nat /\ q \in Nat /\ x \in Nat /\ y \in Nat /\ p <= q /\ q <= x /\ x <= y
    BY <2>1
  <2> HIDE DEF p, q, x, y
  <2>3. Cardinality(Apart(p, q, x, y)) = (q - p) + (y - x)
    BY <2>2, CountApart
  <2>4. left = Apart(p, q, x, y)
    BY DEF p, q, x, y, Apart
  <2>5. QED
    BY <2>3, <2>4 DEF p, q, x, y
<1>10. ((a + d) - (lo + d)) + ((hi + d) - (b + d)) = (a - lo) + (hi - b)
  BY <1>1, <1>5
<1>11. Cardinality(Beyond(w)) = (a - lo) + (hi - b)
  BY <1>8, <1>9, <1>10
<1>12. QED
  BY <1>11 DEF w, lo, hi, a, b

\* What is left after a condensation with a summary.
LEMMA SummaryHalves ==
  ASSUME NEW h, Recorded(h), TooLong(Masked(View(h))),
         ToSummarize(Masked(View(h))) # {}
  PROVE  Len(View(Append(h, Summed(h))))
           = MaxSize \div 2 + Cardinality(Beyond(Masked(View(h))))
<1> DEFINE n == Len(Kept(h))
           e == Summed(h)
           next == Append(h, e)
           c == Len(h) + 1
           lo == FirstNamed(h)
           hi == LastNamed(h)
           beyond == Cardinality(Beyond(Masked(View(h))))
<1>1. PICK g : /\ Lists(g, n, Remembered(h))
               /\ \A k \in 1 .. n : Kept(h)[k].id = g[k]
  BY KeptIs
<1>2. /\ Entered(e, c) /\ e.kind = "condensation" /\ e.summary = TRUE
      /\ e.forgets = g[lo] .. g[hi]
  BY <1>1, SummedIs
<1>3. /\ Recorded(next) /\ Len(next) = c /\ next[c] = e /\ Len(h) \in Nat
      /\ \A i \in 1 .. Len(h) : next[i] = h[i]
  BY <1>2, RecordedGrows DEF Recorded
<1>4. DOMAIN next = 1 .. c /\ DOMAIN h = 1 .. Len(h)
  BY <1>3 DEF Recorded
<1> HIDE DEF next, e
<1>5. \A i \in 1 .. c : i \in 1 .. Len(h) \/ i = c
  BY <1>3
<1>6. c \in 1 .. c /\ c \notin 1 .. Len(h) /\ 1 .. Len(h) \subseteq 1 .. c
  BY <1>3
<1> HIDE DEF c
<1>7. Condensations(next) = Condensations(h) \cup {c}
  BY <1>2, <1>3, <1>4, <1>5, <1>6 DEF Condensations
<1>8. Requests(next) = Requests(h)
  BY <1>2, <1>3, <1>4, <1>5, <1>6 DEF Requests
<1>9. \A j \in Condensations(h) : next[j].forgets = h[j].forgets
  BY <1>3, <1>4 DEF Condensations
<1>10. \A i : i \in Forgotten(next) <=> i \in Forgotten(h) \/ i \in e.forgets \/ i = c
  <2>1. ASSUME NEW i
        PROVE  i \in Forgotten(next) <=>
                 \/ i \in Requests(h)
                 \/ \E j \in Condensations(h) \cup {c} : i \in next[j].forgets \/ i = j
    BY <1>7, <1>8, ForgottenIs
  <2>2. ASSUME NEW i
        PROVE  (\E j \in Condensations(h) \cup {c} : i \in next[j].forgets \/ i = j)
                 <=> \/ \E j \in Condensations(h) : i \in h[j].forgets \/ i = j
                     \/ i \in e.forgets \/ i = c
    BY <1>3, <1>9
  <2>3. QED
    BY <2>1, <2>2, ForgottenIs
<1>11. Remembered(next) = Remembered(h) \ (g[lo] .. g[hi])
  BY <1>2, <1>4, <1>5, <1>6, <1>10 DEF Remembered
<1>12. /\ lo \in Nat \ {0} /\ hi \in Nat /\ lo <= hi /\ hi <= n /\ n \in Nat
       /\ KeepFirst \in Nat
       /\ beyond = (lo - (KeepFirst + 1)) + ((n - EventsFromTail) - hi)
  <2>1. /\ lo \in Named(h) /\ hi \in Named(h) /\ lo <= hi
        /\ Named(h) \subseteq (KeepFirst + 1) .. LastOfMiddle(h)
    BY NamedIs DEF Named
  <2>2. /\ LastOfMiddle(h) \in Nat /\ LastOfMiddle(h) <= n /\ KeepFirst \in Nat
        /\ n \in Nat
    BY MiddleIs, KeptIs, SizesOK
  <2>3. beyond = (lo - (KeepFirst + 1)) + ((n - EventsFromTail) - hi)
    BY BeyondIs DEF LastOfMiddle
  <2> HIDE DEF lo, hi, n, beyond
  <2>4. QED
    BY <2>1, <2>2, <2>3
<1>13. Cardinality(Remembered(next)) = n - (hi - lo + 1)
  <2> DEFINE S == {g[k] : k \in lo .. hi}
  <2> HIDE DEF beyond
  <2>1. Remembered(h) \in SUBSET Nat
    BY <1>4 DEF Remembered
  <2>2. lo \in 1 .. n /\ hi \in lo .. n
    BY <1>12
  <2> HIDE DEF lo, hi, n
  <2>3. lo \in lo .. hi /\ hi \in lo .. hi
    BY <1>12, <2>2
  <2>5. Between(S, g, n, Remembered(h), lo, hi)
    BY <1>1, <1>12, <2>1, <2>2, <2>3 DEF Between
  <2> HIDE DEF S
  <2>4. QED
    BY <1>11, <2>5, ListWithout
<1> HIDE DEF lo, hi, n, beyond
<1>14. Len(Kept(next)) = KeepFirst + EventsFromTail + beyond
  <2>1. Len(Kept(next)) = n - (hi - lo + 1)
    BY <1>3, <1>13, KeptIs DEF n
  <2>2. QED
    BY <1>12, <2>1, Half
<1>15. HasSummary(next)
  BY <1>2, <1>3, <1>7 DEF HasSummary, Summaries
<1>16. Len(View(next)) = Len(Kept(next)) + 1
  BY <1>3, <1>15, ViewIs
<1>17. Len(View(next)) = (MaxSize \div 2) + beyond
  <2>0. beyond \in Int
    BY <1>12, Half
  <2>1. KeepFirst \in Nat /\ EventsFromTail \in Nat /\ MaxSize \div 2 \in Nat
    BY <1>12, Half
  <2>2. EventsFromTail = (MaxSize \div 2) - KeepFirst - 1
    BY Half
  <2>3. Len(View(next)) = (KeepFirst + EventsFromTail + beyond) + 1
    BY <1>14, <1>16
  <2>4. \A k, t, half \in Nat, x \in Int :
          t = half - k - 1 => (k + t + x) + 1 = half + x
    OBVIOUS
  <2>5. QED
    BY <2>0, <2>1, <2>2, <2>3, <2>4
<1>18. QED
  BY <1>17 DEF next, e, beyond

\* A summary leaves half of max_size in the view, however the history came
\* about: the first of its events, the summary, and the last of them; and of
\* what it was to summarize the placeholders at either end, no more and no less.
THEOREM HalfIsLeft == Spec => CondensationHalves
<1>1. ASSUME IInv, [Next]_vars, Summarize
      PROVE  Len(View(history')) = MaxSize \div 2 + Cardinality(Beyond(Condensed))
  <2>1. Recorded(history)
    BY <1>1 DEF IInv, Started
  <2>2. /\ TooLong(Condensed) /\ ToSummarize(Condensed) # {}
        /\ history' = Append(history, Summed(history))
    BY <1>1 DEF Summarize, Emit, Add, Summed, Condensed
  <2>3. QED
    BY <2>1, <2>2, SummaryHalves DEF Condensed
<1>2. IInv /\ [Next]_vars =>
        [Summarize => Len(View(history'))
                        = MaxSize \div 2 + Cardinality(Beyond(Condensed))]_vars
  BY <1>1
<1>3. QED
  BY <1>2, Invariance, PTL DEF Spec, CondensationHalves
=============================================================================
