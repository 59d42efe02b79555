-------------------------- MODULE SelectionProofs --------------------------
(***************************************************************************)
(* What the loop selects: the elements at the indices, all of them, in      *)
(* their order; where the indices are the last ones, the end of the slice.  *)
(***************************************************************************)
EXTENDS Selection, TLAPS, WellFoundedInduction

\* Induction up to m over a set, for what cannot be said of an operator.
LEMMA UpTo ==
  ASSUME NEW m \in Nat, NEW G, 0 \in G, \A n \in 1..m : n - 1 \in G => n \in G
  PROVE  \A n \in 0..m : n \in G
<1> DEFINE Bad == 0..m \ G
<1> SUFFICES ASSUME Bad # {} PROVE FALSE
  OBVIOUS
<1>1. Bad \subseteq Nat
  OBVIOUS
<1>2. PICK n \in Bad : \A k \in Bad : ~(<<k, n>> \in OpToRel(<, Nat))
  BY <1>1, NatLessThanWellFounded, WFMin
<1>3. n \in 1..m /\ n \notin G
  OBVIOUS
<1>4. n - 1 \in 0..m /\ <<n - 1, n>> \in OpToRel(<, Nat)
  BY <1>3 DEF OpToRel
<1>5. n - 1 \in G
  BY <1>2, <1>4
<1> QED BY <1>3, <1>5

\* g is what the loop has appended after each of its first n steps.
IsSelecting(g, n, s, I, S) ==
  /\ g \in [0..n -> Seq(S)]
  /\ g[0] = <<>>
  /\ \A i \in 1..n : g[i] = IF i \in I THEN Append(g[i - 1], s[i]) ELSE g[i - 1]

\* One more step.
LEMMA LoopExtends ==
  ASSUME NEW S, NEW s \in Seq(S), NEW I, NEW n \in 1..Len(s),
         NEW g, IsSelecting(g, n - 1, s, I, S)
  PROVE  \E h : IsSelecting(h, n, s, I, S)
<1>1. g \in [0..(n - 1) -> Seq(S)] /\ s[n] \in S /\ n \in Nat \ {0}
  BY DEF IsSelecting
<1>2. n - 1 \in 0..(n - 1) /\ 0 \in 0..(n - 1)
  BY <1>1
<1> DEFINE v == IF n \in I THEN Append(g[n - 1], s[n]) ELSE g[n - 1]
           h == [i \in 0..n |-> IF i = n THEN v ELSE g[i]]
<1>3. v \in Seq(S)
  BY <1>1, <1>2
<1> HIDE DEF v
<1>4. h \in [0..n -> Seq(S)]
  BY <1>1, <1>3
<1>5. h[0] = <<>> /\ h[n] = v /\ h[n - 1] = g[n - 1]
  BY <1>1, <1>2 DEF IsSelecting
<1>6. \A i \in 1..(n - 1) : h[i] = g[i] /\ h[i - 1] = g[i - 1]
  BY <1>1
<1>7. ASSUME NEW i \in 1..n
      PROVE  h[i] = IF i \in I THEN Append(h[i - 1], s[i]) ELSE h[i - 1]
  <2> HIDE DEF h
  <2>1. CASE i = n
    BY <1>5, <2>1 DEF v
  <2>2. CASE i # n
    <3>1. i \in 1..(n - 1)
      BY <1>1, <2>2
    <3> QED BY <1>6, <3>1 DEF IsSelecting
  <2> QED BY <2>1, <2>2
<1> HIDE DEF h
<1> QED BY <1>4, <1>5, <1>7 DEF IsSelecting

\* The loop can be run to any step.
LEMMA LoopExists ==
  ASSUME NEW S, NEW s \in Seq(S), NEW I, NEW m \in 0..Len(s)
  PROVE  \E g : IsSelecting(g, m, s, I, S)
<1> DEFINE Good == {n \in 0..Len(s) : \E g : IsSelecting(g, n, s, I, S)}
<1>1. IsSelecting([i \in 0..0 |-> <<>>], 0, s, I, S)
  BY DEF IsSelecting
<1>2. 0 \in Good
  BY <1>1
<1>3. ASSUME NEW n \in 1..Len(s), n - 1 \in Good PROVE n \in Good
  <2>1. PICK g : IsSelecting(g, n - 1, s, I, S)
    BY <1>3
  <2>2. \E h : IsSelecting(h, n, s, I, S)
    BY <2>1, LoopExtends
  <2> QED BY <2>2
<1>4. Len(s) \in Nat
  OBVIOUS
<1> HIDE DEF Good
<1>5. \A n \in 0..Len(s) : n \in Good
  BY <1>2, <1>3, <1>4, UpTo
<1> QED BY <1>5 DEF Good

\* The recursive function is what the loop does.
LEMMA LoopSteps ==
  ASSUME NEW S, NEW s \in Seq(S), NEW I
  PROVE  IsSelecting(Selecting(s, I), Len(s), s, I, S)
<1> DEFINE Step(g) == [i \in 0..Len(s) |->
                         IF i = 0 THEN <<>>
                         ELSE IF i \in I THEN Append(g[i - 1], s[i]) ELSE g[i - 1]]
<1>1. PICK g : IsSelecting(g, Len(s), s, I, S)
  <2>1. Len(s) \in 0..Len(s)
    OBVIOUS
  <2> QED BY <2>1, LoopExists
<1>2. g = Step(g)
  <2>1. DOMAIN g = 0..Len(s) /\ g = [i \in DOMAIN g |-> g[i]]
    BY <1>1 DEF IsSelecting
  <2>2. ASSUME NEW i \in 0..Len(s) PROVE g[i] = Step(g)[i]
    <3>1. i # 0 => i \in 1..Len(s)
      OBVIOUS
    <3> QED BY <1>1, <3>1 DEF IsSelecting
  <2>3. g = [i \in 0..Len(s) |-> g[i]]
    BY <2>1
  <2>4. Step(g) = [i \in 0..Len(s) |-> Step(g)[i]]
    OBVIOUS
  <2> HIDE DEF Step
  <2> QED BY <2>2, <2>3, <2>4
<1> DEFINE h == Selecting(s, I)
<1>3. h = CHOOSE f : f = Step(f)
  BY DEF Selecting
<1>4. h = Step(h)
  BY <1>2, <1>3
<1> HIDE DEF h
<1>5. /\ h[0] = <<>> /\ h = [i \in 0..Len(s) |-> h[i]]
      /\ \A i \in 1..Len(s) : h[i] = IF i \in I THEN Append(h[i - 1], s[i]) ELSE h[i - 1]
  <2>1. h = [i \in 0..Len(s) |-> Step(h)[i]]
    BY <1>4
  <2>2. \A i \in 0..Len(s) : h[i] = Step(h)[i]
    BY <1>4
  <2>3. h = [i \in 0..Len(s) |-> h[i]]
    BY <1>4
  <2>4. h[0] = <<>>
    BY <2>2
  <2>5. ASSUME NEW i \in 1..Len(s)
        PROVE  h[i] = IF i \in I THEN Append(h[i - 1], s[i]) ELSE h[i - 1]
    BY <2>2
  <2> QED BY <2>3, <2>4, <2>5
<1>6. \A i \in 0..Len(s) : h[i] \in Seq(S)
  <2> DEFINE Good == {i \in 0..Len(s) : h[i] \in Seq(S)}
  <2>1. 0 \in Good
    BY <1>5
  <2>2. ASSUME NEW n \in 1..Len(s), n - 1 \in Good PROVE n \in Good
    <3>1. h[n - 1] \in Seq(S) /\ s[n] \in S
      BY <2>2
    <3>2. Append(h[n - 1], s[n]) \in Seq(S)
      BY <3>1
    <3>3. h[n] \in Seq(S)
      BY <1>5, <3>1, <3>2
    <3> QED BY <3>3
  <2>3. Len(s) \in Nat
    OBVIOUS
  <2> HIDE DEF Good
  <2>4. \A n \in 0..Len(s) : n \in Good
    BY <2>1, <2>2, <2>3, UpTo
  <2> QED BY <2>4 DEF Good
<1> QED BY <1>5, <1>6 DEF IsSelecting, h

\* One step appends the element or leaves what there is.
LEMMA OneStep ==
  ASSUME NEW S, NEW s \in Seq(S), NEW I, NEW n \in 1..Len(s)
  PROVE  LET p == Selecting(s, I)[n - 1]
             q == Selecting(s, I)[n]
         IN  /\ p \in Seq(S) /\ q \in Seq(S)
             /\ n \in I => /\ Len(q) = Len(p) + 1 /\ q[Len(p) + 1] = s[n]
                           /\ \A j \in 1..Len(p) : q[j] = p[j]
             /\ n \notin I => q = p
<1> DEFINE h == Selecting(s, I)
           p == h[n - 1]
<1> HIDE DEF h
<1>1. IsSelecting(h, Len(s), s, I, S)
  BY LoopSteps DEF h
<1>2. n \in 0..Len(s) /\ n - 1 \in 0..Len(s) /\ s[n] \in S
  OBVIOUS
<1>3. h[n] \in Seq(S) /\ p \in Seq(S)
  BY <1>1, <1>2 DEF IsSelecting
<1>4. h[n] = IF n \in I THEN Append(p, s[n]) ELSE p
  BY <1>1 DEF IsSelecting
<1> HIDE DEF p
<1>5. /\ Len(Append(p, s[n])) = Len(p) + 1 /\ Append(p, s[n])[Len(p) + 1] = s[n]
      /\ \A j \in 1..Len(p) : Append(p, s[n])[j] = p[j]
  BY <1>2, <1>3
<1>6. /\ p \in Seq(S) /\ h[n] \in Seq(S)
      /\ n \in I => /\ Len(h[n]) = Len(p) + 1 /\ h[n][Len(p) + 1] = s[n]
                    /\ \A j \in 1..Len(p) : h[n][j] = p[j]
      /\ n \notin I => h[n] = p
  BY <1>3, <1>4, <1>5
<1> QED BY <1>6 DEF p, h

\* Before the first step there is nothing.
LEMMA NoStep ==
  ASSUME NEW S, NEW s \in Seq(S), NEW I
  PROVE  Selecting(s, I)[0] = <<>> /\ Len(s) \in Nat
  BY LoopSteps DEF IsSelecting

\* What is selected are elements, and not more of them.
LEMMA SelectedTyped ==
  ASSUME NEW S, NEW s \in Seq(S), NEW I
  PROVE  Selected(s, I) \in Seq(S) /\ Len(Selected(s, I)) \in 0..Len(s)
<1> DEFINE h == Selecting(s, I)
           Good == {i \in 0..Len(s) : h[i] \in Seq(S) /\ Len(h[i]) <= i}
<1> HIDE DEF h
<1>1. h[0] = <<>> /\ Len(s) \in Nat
  BY NoStep DEF h
<1>2. 0 \in Good
  <2>1. h[0] \in Seq(S) /\ Len(h[0]) = 0 /\ 0 \in 0..Len(s)
    BY <1>1
  <2> QED BY <2>1
<1>3. ASSUME NEW n \in 1..Len(s), n - 1 \in Good PROVE n \in Good
  <2>1. h[n - 1] \in Seq(S) /\ Len(h[n - 1]) <= n - 1
    BY <1>3
  <2>2. h[n] \in Seq(S) /\ (Len(h[n]) = Len(h[n - 1]) + 1 \/ h[n] = h[n - 1])
    BY OneStep DEF h
  <2>3. Len(h[n]) <= n
    BY <2>1, <2>2
  <2> QED BY <2>2, <2>3
<1> HIDE DEF Good
<1>4. \A n \in 0..Len(s) : n \in Good
  BY <1>1, <1>2, <1>3, UpTo
<1>5. Len(h[Len(s)]) <= Len(s) /\ h[Len(s)] \in Seq(S)
  BY <1>1, <1>4 DEF Good
<1> QED BY <1>1, <1>5 DEF Selected, h

\* If the indices are the last ones, what is selected is the end of the sequence.
LEMMA SelectedEnd ==
  ASSUME NEW S, NEW s \in Seq(S), NEW I,
         \A i, j \in 1..Len(s) : i \in I /\ i <= j => j \in I
  PROVE  LET k == Len(s) - Len(Selected(s, I))
         IN  /\ \A j \in 1..Len(Selected(s, I)) : Selected(s, I)[j] = s[k + j]
             /\ \A i \in 1..Len(s) : i \in I <=> i > k
<1> DEFINE h == Selecting(s, I)
           Copies(n) == \A j \in 1..Len(h[n]) : h[n][j] = s[n - Len(h[n]) + j]
           Takes(n) == \A i \in 1..n : i \in I <=> i > n - Len(h[n])
           Good == {n \in 0..Len(s) : Copies(n) /\ Takes(n)}
<1> HIDE DEF h
<1>1. h[0] = <<>> /\ Len(s) \in Nat
  BY NoStep DEF h
<1>2. 0 \in Good
  BY <1>1
<1>3. ASSUME NEW n \in 1..Len(s), n - 1 \in Good PROVE n \in Good
  <2> DEFINE p == h[n - 1]
             q == h[n]
  <2>1. /\ p \in Seq(S) /\ q \in Seq(S)
        /\ n \in I => /\ Len(q) = Len(p) + 1 /\ q[Len(p) + 1] = s[n]
                      /\ \A j \in 1..Len(p) : q[j] = p[j]
        /\ n \notin I => q = p
    BY OneStep DEF h
  <2>2. /\ \A j \in 1..Len(p) : p[j] = s[n - 1 - Len(p) + j]
        /\ \A i \in 1..(n - 1) : i \in I <=> i > n - 1 - Len(p)
    BY <1>3
  <2>3. (\A j \in 1..Len(q) : q[j] = s[n - Len(q) + j]) /\ (\A i \in 1..n : i \in I <=> i > n - Len(q))
        => n \in Good
    <3>1. n \in 0..Len(s)
      OBVIOUS
    <3>2. Copies(n) /\ Takes(n) => n \in Good
      <4> HIDE DEF Copies, Takes, p, q
      <4> QED BY <3>1
    <3> QED BY <3>2
  <2> HIDE DEF p, q, Good
  <2>4. Len(p) \in Nat /\ Len(q) \in Nat /\ n \in Nat \ {0}
    BY <2>1
  <2>5. CASE n \in I
    <3>1. n - Len(q) = n - 1 - Len(p)
      BY <2>1, <2>4, <2>5, SMTT(20)
    <3>2. ASSUME NEW j \in 1..Len(q) PROVE q[j] = s[n - Len(q) + j]
      <4>1. CASE j = Len(q)
        BY <2>1, <2>4, <2>5, <4>1
      <4>2. CASE j # Len(q)
        <5>1. j \in 1..Len(p)
          BY <2>1, <2>4, <2>5, <4>2
        <5> QED BY <2>1, <2>2, <2>5, <3>1, <5>1
      <4> QED BY <4>1, <4>2
    <3>3. ASSUME NEW i \in 1..n PROVE i \in I <=> i > n - Len(q)
      <4>1. CASE i = n
        BY <2>1, <2>4, <2>5, <4>1
      <4>2. CASE i # n
        BY <2>2, <2>4, <3>1, <4>2
      <4> QED BY <4>1, <4>2
    <3> QED BY <2>3, <3>2, <3>3
  <2>6. CASE n \notin I
    <3>1. \A i \in 1..n : i \notin I
      BY <2>6
    <3>2. Len(p) = 0
      <4>1. ASSUME Len(p) # 0, n - 1 # 0 PROVE FALSE
        <5>1. n - 1 \in 1..(n - 1) /\ n - 1 \in 1..n /\ n - 1 > n - 1 - Len(p)
          BY <2>4, <4>1
        <5> QED BY <2>2, <3>1, <5>1
      <4>2. ASSUME Len(p) # 0, n - 1 = 0 PROVE FALSE
        BY <1>1, <4>2 DEF p
      <4> QED BY <4>1, <4>2
    <3>3. Len(q) = 0
      BY <2>1, <2>6, <3>2
    <3> QED BY <2>3, <2>4, <3>1, <3>3
  <2> QED BY <2>5, <2>6
<1> HIDE DEF Good
<1>4. \A n \in 0..Len(s) : n \in Good
  BY <1>1, <1>2, <1>3, UpTo
<1>5. Copies(Len(s)) /\ Takes(Len(s))
  <2> HIDE DEF Copies, Takes
  <2>1. Len(s) \in Good
    BY <1>1, <1>4
  <2> QED BY <2>1 DEF Good
<1> QED BY <1>5 DEF Selected, h

\* f says where the elements of r come from: from all the indices in I, in order.
Enumerates(f, r, s, n, I) ==
  /\ f \in [1..Len(r) -> 1..n]
  /\ \A j \in 1..Len(r) : r[j] = s[f[j]] /\ f[j] \in I
  /\ \A j, k \in 1..Len(r) : j < k => f[j] < f[k]
  /\ \A i \in 1..n : i \in I => \E j \in 1..Len(r) : f[j] = i

\* One more element, or none.
LEMMA EnumerateOneMore ==
  ASSUME NEW S, NEW s \in Seq(S), NEW I, NEW n \in 1..Len(s), NEW p \in Seq(S), NEW q \in Seq(S),
         NEW f, Enumerates(f, p, s, n - 1, I),
         n \in I => /\ Len(q) = Len(p) + 1 /\ q[Len(p) + 1] = s[n]
                    /\ \A j \in 1..Len(p) : q[j] = p[j],
         n \notin I => q = p
  PROVE  \E g : Enumerates(g, q, s, n, I)
<1>1. Len(p) \in Nat /\ Len(q) \in Nat /\ n \in Nat \ {0}
  OBVIOUS
<1>2. /\ f \in [1..Len(p) -> 1..(n - 1)]
      /\ \A j \in 1..Len(p) : p[j] = s[f[j]] /\ f[j] \in I
      /\ \A j, k \in 1..Len(p) : j < k => f[j] < f[k]
      /\ \A i \in 1..(n - 1) : i \in I => \E j \in 1..Len(p) : f[j] = i
  BY DEF Enumerates
<1>3. CASE n \notin I
  <2>1. f \in [1..Len(p) -> 1..n]
    BY <1>1, <1>2
  <2>2. \A i \in 1..n : i \in I => i \in 1..(n - 1)
    BY <1>1, <1>3
  <2>3. Enumerates(f, p, s, n, I)
    BY <1>2, <2>1, <2>2 DEF Enumerates
  <2> QED BY <1>3, <2>3
<1>4. CASE n \in I
  <2> DEFINE m == Len(p)
             g == [j \in 1..(m + 1) |-> IF j = m + 1 THEN n ELSE f[j]]
  <2>1. Len(q) = m + 1 /\ q[m + 1] = s[n] /\ m \in Nat /\ \A j \in 1..m : q[j] = p[j]
    BY <1>1, <1>4
  <2>2. /\ f \in [1..m -> 1..(n - 1)]
        /\ \A j \in 1..m : p[j] = s[f[j]] /\ f[j] \in I
        /\ \A j, k \in 1..m : j < k => f[j] < f[k]
        /\ \A i \in 1..(n - 1) : i \in I => \E j \in 1..m : f[j] = i
    BY <1>2
  <2> HIDE DEF m
  <2>3. g[m + 1] = n /\ \A j \in 1..m : g[j] = f[j] /\ f[j] \in 1..(n - 1)
    BY <2>1, <2>2
  <2>4. \A j \in 1..(m + 1) : j = m + 1 \/ j \in 1..m
    BY <2>1
  <2>5. g \in [1..(m + 1) -> 1..n]
    BY <1>1, <2>1, <2>2
  <2> HIDE DEF g
  <2>6. \A j \in 1..(m + 1) : q[j] = s[g[j]] /\ g[j] \in I
    BY <1>4, <2>1, <2>2, <2>3, <2>4
  <2>7. \A j, k \in 1..(m + 1) : j < k => g[j] < g[k]
    <3>1. ASSUME NEW j \in 1..(m + 1), NEW k \in 1..(m + 1), j < k PROVE g[j] < g[k]
      <4>1. j \in 1..m
        BY <2>1, <3>1
      <4>2. CASE k = m + 1
        BY <1>1, <2>3, <4>1, <4>2
      <4>3. CASE k \in 1..m
        BY <2>2, <2>3, <3>1, <4>1, <4>3
      <4> QED BY <2>4, <4>2, <4>3
    <3> QED BY <3>1
  <2>8. \A i \in 1..n : i \in I => \E j \in 1..(m + 1) : g[j] = i
    <3>1. ASSUME NEW i \in 1..n, i \in I PROVE \E j \in 1..(m + 1) : g[j] = i
      <4>1. CASE i = n
        <5>1. m + 1 \in 1..(m + 1)
          BY <2>1
        <5> QED BY <2>3, <4>1, <5>1
      <4>2. CASE i # n
        <5>1. i \in 1..(n - 1)
          BY <1>1, <4>2
        <5>2. PICK j \in 1..m : f[j] = i
          BY <2>2, <3>1, <5>1
        <5>3. g[j] = i /\ j \in 1..(m + 1)
          BY <2>1, <2>3, <5>2
        <5> QED BY <5>3
      <4> QED BY <4>1, <4>2
    <3> QED BY <3>1
  <2>9. Enumerates(g, q, s, n, I)
    BY <2>1, <2>5, <2>6, <2>7, <2>8 DEF Enumerates
  <2> QED BY <2>9
<1> QED BY <1>3, <1>4

\* What is selected are the elements at the indices, all of them, in their order.
LEMMA SelectedEnumerates ==
  ASSUME NEW S, NEW s \in Seq(S), NEW I
  PROVE  \E f : Enumerates(f, Selected(s, I), s, Len(s), I)
<1> DEFINE h == Selecting(s, I)
           Good == {n \in 0..Len(s) : h[n] \in Seq(S) /\ \E f : Enumerates(f, h[n], s, n, I)}
<1> HIDE DEF h
<1>1. h[0] = <<>> /\ Len(s) \in Nat
  BY NoStep DEF h
<1>2. 0 \in Good
  <2>1. h[0] \in Seq(S) /\ Len(h[0]) = 0 /\ 0 \in 0..Len(s)
    BY <1>1
  <2>2. Enumerates([j \in 1..0 |-> 0], h[0], s, 0, I)
    BY <2>1 DEF Enumerates
  <2> QED BY <2>1, <2>2
<1>3. ASSUME NEW n \in 1..Len(s), n - 1 \in Good PROVE n \in Good
  <2>1. PICK f : Enumerates(f, h[n - 1], s, n - 1, I)
    BY <1>3
  <2>2. /\ h[n - 1] \in Seq(S) /\ h[n] \in Seq(S)
        /\ n \in I => /\ Len(h[n]) = Len(h[n - 1]) + 1 /\ h[n][Len(h[n - 1]) + 1] = s[n]
                      /\ \A j \in 1..Len(h[n - 1]) : h[n][j] = h[n - 1][j]
        /\ n \notin I => h[n] = h[n - 1]
    BY OneStep DEF h
  <2>3. \E g : Enumerates(g, h[n], s, n, I)
    BY <2>1, <2>2, EnumerateOneMore
  <2>4. n \in 0..Len(s)
    OBVIOUS
  <2> QED BY <2>2, <2>3, <2>4
<1> HIDE DEF Good
<1>4. \A n \in 0..Len(s) : n \in Good
  BY <1>1, <1>2, <1>3, UpTo
<1>5. \E f : Enumerates(f, h[Len(s)], s, Len(s), I)
  BY <1>1, <1>4 DEF Good
<1> QED BY <1>5 DEF Selected, h
=============================================================================
