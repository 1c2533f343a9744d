------------------------- MODULE FilterClauseProofs -------------------------
(***************************************************************************)
(* Proofs about FilterClause.                                              *)
(***************************************************************************)
EXTENDS FilterClause, FiniteSetTheorems, SequenceTheorems, WellFoundedInduction, TLAPS

-----------------------------------------------------------------------------
(* Induction over the natural numbers, for a set of numbers.               *)

LEMMA Induction ==
  ASSUME NEW S, 0 \in S, \A n \in Nat : n \in S => n + 1 \in S
  PROVE  \A n \in Nat : n \in S
<1> DEFINE rest == Nat \ S
<1>1. SUFFICES ASSUME rest # {} PROVE FALSE
  BY <1>1
<1>2. PICK m \in rest : \A k \in rest : <<k, m>> \notin OpToRel(<, Nat)
  BY <1>1, NatLessThanWellFounded, WFMin
<1>3. \A k \in rest : ~(k < m)
  BY <1>2 DEF OpToRel
<1>4. m # 0 /\ m - 1 \in Nat /\ m - 1 < m
  OBVIOUS
<1>5. m - 1 \in S
  BY <1>3, <1>4
<1>6. (m - 1) + 1 \in S
  BY <1>4, <1>5
<1>7. QED
  BY <1>6

\* The same up to a bound.
LEMMA BoundedInduction ==
  ASSUME NEW N \in Nat, NEW S, 0 \in S, \A n \in 0 .. N - 1 : n \in S => n + 1 \in S
  PROVE  \A n \in 0 .. N : n \in S
<1> DEFINE T == {n \in Nat : n \in 0 .. N => n \in S}
<1>1. 0 \in T
  OBVIOUS
<1>2. \A n \in Nat : n \in T => n + 1 \in T
  OBVIOUS
<1> HIDE DEF T
<1>3. \A n \in Nat : n \in T
  BY <1>1, <1>2, Induction
<1>4. QED
  BY <1>3 DEF T

Steps(N, X) == [(1 .. N) \X X -> X]
Follows(f, N, X, first, next) ==
    /\ f \in [0 .. N -> X]
    /\ f[0] = first
    /\ \A j \in 1 .. N : f[j] = next[<<j, f[j - 1]>>]

\* A function defined by what it is at 0 and how a value follows from the one
\* before exists.
LEMMA Recursion ==
  ASSUME NEW N \in Nat, NEW X, NEW first \in X, NEW next \in Steps(N, X)
  PROVE  \E f : Follows(f, N, X, first, next)
<1> USE DEF Steps
<1> DEFINE Upto(f, n) == f[0] = first /\ \A j \in 1 .. n : f[j] = next[<<j, f[j - 1]>>]
           S == {n \in 0 .. N : \E f \in [0 .. n -> X] : Upto(f, n)}
<1>1. 0 \in S
  <2>1. [j \in 0 .. 0 |-> first] \in [0 .. 0 -> X] /\ Upto([j \in 0 .. 0 |-> first], 0)
    OBVIOUS
  <2>2. 0 \in 0 .. N
    OBVIOUS
  <2> HIDE DEF Upto
  <2>3. QED
    BY <2>1, <2>2
<1>2. ASSUME NEW n \in 0 .. N - 1, n \in S PROVE n + 1 \in S
  <2>1. PICK f \in [0 .. n -> X] : Upto(f, n)
    BY <1>2
  <2> DEFINE g == [j \in 0 .. n + 1 |-> IF j <= n THEN f[j] ELSE next[<<n + 1, f[n]>>]]
  <2>2. f[n] \in X /\ next[<<n + 1, f[n]>>] \in X
    BY <2>1
  <2>3. g \in [0 .. n + 1 -> X]
    BY <2>2
  <2>4. g[0] = first /\ g[n + 1] = next[<<n + 1, g[n]>>]
    BY <2>1
  <2>5. ASSUME NEW j \in 1 .. n PROVE g[j] = next[<<j, g[j - 1]>>]
    <3>1. j \in 0 .. n + 1 /\ j <= n /\ j - 1 \in 0 .. n + 1 /\ j - 1 <= n
      OBVIOUS
    <3>2. g[j] = f[j] /\ g[j - 1] = f[j - 1]
      BY <3>1
    <3>3. QED
      BY <2>1, <3>2
  <2> HIDE DEF g
  <2>6. \A j \in 1 .. n + 1 : j \in 1 .. n \/ j = n + 1
    OBVIOUS
  <2>7. \A j \in 1 .. n + 1 : g[j] = next[<<j, g[j - 1]>>]
    <3>1. (n + 1) - 1 = n
      OBVIOUS
    <3>2. QED
      BY <2>4, <2>5, <2>6, <3>1
  <2>10. Upto(g, n + 1)
    BY <2>4, <2>7
  <2>8. n + 1 \in 0 .. N
    OBVIOUS
  <2>9. QED
    BY <2>3, <2>8, <2>10
<1> HIDE DEF S
<1>3. N \in S
  BY <1>1, <1>2, BoundedInduction
<1>4. PICK f \in [0 .. N -> X] : Upto(f, N)
  BY <1>3 DEF S
<1>5. QED
  BY <1>4 DEF Follows

\* FlattenSeq puts the sequences one after the other.
Flattens(g, ss, T) ==
    /\ g \in [0 .. Len(ss) -> Seq(T)]
    /\ g[0] = << >>
    /\ \A i \in 1 .. Len(ss) : g[i] = g[i - 1] \o ss[i]
    /\ FlattenSeq(ss) = g[Len(ss)]

LEMMA Flattened ==
  ASSUME NEW T, NEW ss \in Seq(Seq(T))
  PROVE  \E g : Flattens(g, ss, T)
<1> USE DEF Flattens
<1> DEFINE N == Len(ss)
           next == [x \in (1 .. N) \X Seq(T) |-> x[2] \o ss[x[1]]]
<1>1. N \in Nat /\ \A i \in 1 .. N : ss[i] \in Seq(T)
  OBVIOUS
<1>2. << >> \in Seq(T)
  OBVIOUS
<1>3. next \in Steps(N, Seq(T))
  <2>1. ASSUME NEW x \in (1 .. N) \X Seq(T) PROVE x[2] \o ss[x[1]] \in Seq(T)
    <3>1. x[1] \in 1 .. N /\ x[2] \in Seq(T)
      OBVIOUS
    <3>2. ss[x[1]] \in Seq(T)
      BY <1>1, <3>1
    <3>3. QED
      BY <3>1, <3>2, ConcatProperties
  <2>2. QED
    BY <2>1 DEF Steps
<1>10. \A i \in 1 .. N, s \in Seq(T) : next[<<i, s>>] = s \o ss[i]
  OBVIOUS
<1> HIDE DEF next
<1>4. PICK g \in [0 .. N -> Seq(T)] : g[0] = << >> /\ \A j \in 1 .. N : g[j] = next[<<j, g[j - 1]>>]
  <2> DEFINE X == Seq(T)
             first == << >>
  <2>1. N \in Nat /\ first \in X /\ next \in Steps(N, X)
    BY <1>1, <1>2, <1>3
  <2> HIDE DEF N, X, first
  <2>2. \E g : Follows(g, N, X, first, next)
    BY <2>1, Recursion
  <2>3. QED
    BY <2>2 DEF Follows, X, first
<1>5. g[0] = << >>
  BY <1>4
<1>6. ASSUME NEW i \in 1 .. N PROVE g[i] = g[i - 1] \o ss[i]
  <2>1. g[i] = next[<<i, g[i - 1]>>] /\ i - 1 \in 0 .. N
    BY <1>1, <1>4
  <2>2. QED
    BY <1>10, <2>1
<1>7. CASE N = 0
  <2>1. FlattenSeq(ss) = ss
    BY <1>7 DEF FlattenSeq
  <2>2. ss = << >>
    BY <1>7, EmptySeq
  <2>3. QED
    BY <1>1, <1>5, <1>6, <1>7, <2>1, <2>2
<1>8. CASE N # 0
  <2> DEFINE f == [i \in 1 .. N |-> g[i]]
             Body(h) == [i \in 1 .. N |-> IF i = 1 THEN ss[i] ELSE h[i - 1] \o ss[i]]
  <2>1. g[1] = ss[1]
    <3>1. 1 \in 1 .. N /\ 1 - 1 = 0
      BY <1>1, <1>8
    <3>2. g[1] = << >> \o ss[1] /\ ss[1] \in Seq(T)
      BY <1>1, <1>5, <1>6, <3>1
    <3>3. QED
      BY <3>2, ConcatEmptySeq
  <2>2. ASSUME NEW i \in 1 .. N PROVE f[i] = IF i = 1 THEN ss[i] ELSE f[i - 1] \o ss[i]
    <3>1. CASE i = 1
      BY <2>1, <3>1
    <3>2. CASE i # 1
      <4>1. i - 1 \in 1 .. N
        BY <3>2
      <4>2. QED
        BY <1>6, <3>2, <4>1
    <3>3. QED
      BY <3>1, <3>2
  <2>3. f = Body(f)
    BY <2>2
  <2> HIDE DEF f
  <2>4. (CHOOSE h : h = Body(h)) = Body(CHOOSE h : h = Body(h))
    BY <2>3
  <2> DEFINE h == CHOOSE h : h = Body(h)
  <2>5. FlattenSeq(ss) = h[N]
    BY <1>8 DEF FlattenSeq
  <2>6. h = Body(h)
    BY <2>4
  <2> HIDE DEF h
  <2>7. \A i \in 1 .. N : h[i] = IF i = 1 THEN ss[i] ELSE h[i - 1] \o ss[i]
    BY <2>6
  <2> DEFINE S == {n \in Nat : n \in 1 .. N => h[n] = g[n]}
  <2>8. 0 \in S
    OBVIOUS
  <2>9. ASSUME NEW n \in Nat, n \in S PROVE n + 1 \in S
    <3>1. SUFFICES ASSUME n + 1 \in 1 .. N PROVE h[n + 1] = g[n + 1]
      OBVIOUS
    <3>2. CASE n = 0
      BY <2>1, <2>7, <3>1, <3>2
    <3>3. CASE n # 0
      <4>1. n \in 1 .. N /\ (n + 1) - 1 = n /\ n + 1 # 1
        BY <1>1, <3>1, <3>3
      <4>2. h[n] = g[n]
        BY <2>9, <4>1
      <4>3. h[n + 1] = h[n] \o ss[n + 1]
        BY <2>7, <3>1, <4>1
      <4>4. g[n + 1] = g[n] \o ss[n + 1]
        BY <1>6, <3>1, <4>1
      <4>5. QED
        BY <4>2, <4>3, <4>4
    <3>4. QED
      BY <3>2, <3>3
  <2> HIDE DEF S
  <2>10. N \in S
    BY <1>1, <2>8, <2>9, Induction
  <2>11. h[N] = g[N]
    BY <1>1, <1>8, <2>10 DEF S
  <2>12. QED
    BY <1>5, <1>6, <2>5, <2>11
<1>9. QED
  BY <1>7, <1>8

LEMMA TwoInOne ==
  ASSUME NEW T, NEW x \in T, NEW y \in T
  PROVE  <<x>> \o <<y>> = <<x, y>>
<1> DEFINE s == <<x>> \o <<y>>
           t == <<x, y>>
<1>1. s \in Seq(T) /\ t \in Seq(T) /\ Len(s) = 2 /\ Len(t) = 2
  OBVIOUS
<1>2. s[1] = x /\ s[2] = y
  OBVIOUS
<1>3. t[1] = x /\ t[2] = y
  OBVIOUS
<1> HIDE DEF s, t
<1>4. \A i \in 1 .. Len(s) : s[i] = t[i]
  BY <1>1, <1>2, <1>3
<1>5. s = t
  BY <1>1, <1>4, SeqEqual
<1>6. QED
  BY <1>5 DEF s, t

-----------------------------------------------------------------------------
(* LIKE.                                                                   *)

Beginning == [matched |-> 0, escaped |-> FALSE]

\* The states of a match the patterns of a condition come to: some numbers of
\* characters matched, with or without a \ just read.
Plain(I) == {[matched |-> n, escaped |-> FALSE] : n \in I}
Escaped(I) == {[matched |-> n, escaped |-> TRUE] : n \in I}

\* Reached by its recursion.
Reaches(f, text, p) ==
    /\ f \in [0 .. Len(p) -> SUBSET MatchStates(text)]
    /\ f[0] = {Beginning}
    /\ \A j \in 1 .. Len(p) : f[j] = NextStates(text, f[j - 1], p[j])
    /\ Reached(text, p) = f[Len(p)]

LEMMA ReachedIs ==
  ASSUME NEW C, NEW text \in Seq(C), NEW p \in Seq(C)
  PROVE  \E f : Reaches(f, text, p)
<1> DEFINE N == Len(p)
           X == SUBSET MatchStates(text)
           first == {Beginning}
           next == [x \in (1 .. N) \X X |-> NextStates(text, x[2], p[x[1]])]
<1>1. N \in Nat
  OBVIOUS
<1>2. first \in X
  <2>1. Beginning.matched \in 0 .. Len(text)
    BY DEF Beginning
  <2>2. Beginning \in MatchStates(text)
    BY <2>1 DEF Beginning, MatchStates
  <2>3. QED
    BY <2>2
<1>3. next \in Steps(N, X)
  BY DEF NextStates, Steps
<1>4. \A i \in 1 .. N, s \in X : next[<<i, s>>] = NextStates(text, s, p[i])
  OBVIOUS
<1> HIDE DEF next
<1>5. PICK g : Follows(g, N, X, first, next)
  <2> HIDE DEF N, X, first
  <2>1. QED
    BY <1>1, <1>2, <1>3, Recursion
<1>6. g \in [0 .. N -> X] /\ g[0] = first
  BY <1>5 DEF Follows
<1>7. ASSUME NEW i \in 1 .. N PROVE g[i] = NextStates(text, g[i - 1], p[i])
  <2>1. g[i] = next[<<i, g[i - 1]>>] /\ i - 1 \in 0 .. N
    BY <1>1, <1>5 DEF Follows
  <2>2. g[i - 1] \in X
    BY <1>6, <2>1
  <2>3. QED
    BY <1>4, <2>1, <2>2
<1> HIDE DEF X
<1> DEFINE Body(h) == [j \in 0 .. N |-> IF j = 0 THEN first ELSE NextStates(text, h[j - 1], p[j])]
<1>8. g = Body(g)
  <2>1. \A j \in 0 .. N : g[j] = IF j = 0 THEN first ELSE NextStates(text, g[j - 1], p[j])
    BY <1>1, <1>6, <1>7
  <2>2. QED
    BY <1>6, <2>1
<1>9. (CHOOSE h : h = Body(h)) = Body(CHOOSE h : h = Body(h))
  BY <1>8
<1> DEFINE h == CHOOSE h : h = Body(h)
<1>10. Reached(text, p) = h[N]
  BY DEF Reached, Beginning
<1>11. h = Body(h)
  BY <1>9
<1> HIDE DEF h
<1> HIDE DEF first
<1>12. h[0] = first /\ \A j \in 1 .. N : h[j] = NextStates(text, h[j - 1], p[j])
  <2> HIDE DEF N
  <2>1. \A j \in 0 .. N : h[j] = IF j = 0 THEN first ELSE NextStates(text, h[j - 1], p[j])
    BY <1>11
  <2>2. QED
    BY <1>1, <2>1
<1> DEFINE S == {n \in 0 .. N : h[n] = g[n]}
<1>13. 0 \in S
  BY <1>1, <1>6, <1>12
<1>14. ASSUME NEW n \in 0 .. N - 1, n \in S PROVE n + 1 \in S
  <2>1. n + 1 \in 1 .. N /\ (n + 1) - 1 = n /\ n + 1 \in 0 .. N
    BY <1>1
  <2>2. h[n + 1] = NextStates(text, h[n], p[n + 1])
    BY <1>12, <2>1
  <2>3. g[n + 1] = NextStates(text, g[n], p[n + 1])
    BY <1>7, <2>1
  <2>4. QED
    BY <1>14, <2>1, <2>2, <2>3
<1> HIDE DEF S
<1>15. N \in S
  <2> HIDE DEF N
  <2>1. \A n \in 0 .. N - 1 : n \in S => n + 1 \in S
    BY <1>14
  <2>2. \A n \in 0 .. N : n \in S
    BY <1>1, <1>13, <2>1, BoundedInduction
  <2>3. QED
    BY <1>1, <2>2
<1>16. h[N] = g[N]
  BY <1>15 DEF S
<1>17. QED
  BY <1>6, <1>7, <1>10, <1>16 DEF Reaches, X, first

LEMMA ReachedEmpty ==
  ASSUME NEW C, NEW text \in Seq(C)
  PROVE  Reached(text, << >>) = {Beginning}
<1>1. << >> \in Seq(C) /\ Len(<< >>) = 0
  OBVIOUS
<1> DEFINE none == << >>
<1>2. PICK f : Reaches(f, text, none)
  <2> HIDE DEF none
  <2>1. QED
    BY <1>1, ReachedIs DEF none
<1>3. QED
  BY <1>1, <1>2 DEF Reaches

\* A longer pattern goes on from the states of the shorter one.
LEMMA ReachedAppend ==
  ASSUME NEW C, NEW text \in Seq(C), NEW p \in Seq(C), NEW ch \in C
  PROVE  Reached(text, p \o <<ch>>) = NextStates(text, Reached(text, p), ch)
<1> DEFINE q == p \o <<ch>>
           N == Len(p)
<1>1. N \in Nat /\ q \in Seq(C) /\ Len(q) = N + 1
  OBVIOUS
<1>2. q[N + 1] = ch /\ \A j \in 1 .. N : q[j] = p[j]
  OBVIOUS
<1> HIDE DEF q
<1>12. PICK f : Reaches(f, text, p)
  BY ReachedIs
<1>13. PICK g : Reaches(g, text, q)
  BY <1>1, ReachedIs
<1>3. /\ f[0] = {Beginning}
      /\ \A j \in 1 .. N : f[j] = NextStates(text, f[j - 1], p[j])
      /\ Reached(text, p) = f[N]
  BY <1>12 DEF Reaches
<1>4. /\ g[0] = {Beginning}
      /\ \A j \in 1 .. Len(q) : g[j] = NextStates(text, g[j - 1], q[j])
      /\ Reached(text, q) = g[Len(q)]
  BY <1>13 DEF Reaches
<1> HIDE DEF N
<1> DEFINE S == {n \in 0 .. N : f[n] = g[n]}
<1>5. 0 \in S
  <2>1. f[0] = g[0]
    BY <1>3, <1>4
  <2>2. QED
    BY <1>1, <2>1
<1>6. ASSUME NEW n \in 0 .. N - 1, n \in S PROVE n + 1 \in S
  <2>1. n + 1 \in 1 .. N /\ (n + 1) - 1 = n /\ n + 1 \in 0 .. N /\ n + 1 \in 1 .. Len(q)
    BY <1>1
  <2>2. f[n + 1] = NextStates(text, f[n], p[n + 1])
    BY <1>3, <2>1
  <2>3. g[n + 1] = NextStates(text, g[n], p[n + 1])
    BY <1>2, <1>4, <2>1
  <2>4. QED
    BY <1>6, <2>1, <2>2, <2>3
<1> HIDE DEF S
<1>7. N \in S
  <2>1. \A n \in 0 .. N - 1 : n \in S => n + 1 \in S
    BY <1>6
  <2>2. \A n \in 0 .. N : n \in S
    BY <1>1, <1>5, <2>1, BoundedInduction
  <2>3. QED
    BY <1>1, <2>2
<1>8. f[N] = g[N]
  BY <1>7 DEF S
<1>9. N + 1 \in 1 .. Len(q) /\ (N + 1) - 1 = N
  BY <1>1
<1>10. g[N + 1] = NextStates(text, g[N], ch)
  BY <1>2, <1>4, <1>9
<1>11. QED
  BY <1>1, <1>3, <1>4, <1>8, <1>10 DEF q

LEMMA SpecialDiffer == Percent # Backslash /\ Percent # Underscore /\ Backslash # Underscore
BY Zenon DEF Percent, Backslash, Underscore

\* The numbers of characters matched when the next one is to be x.
Onward(text, I, x) == {n \in 1 .. Len(text) : n - 1 \in I /\ Fold(text[n]) = Fold(x)}

LEMMA AfterBackslash ==
  ASSUME NEW C, NEW text \in Seq(C), NEW I \in SUBSET (0 .. Len(text))
  PROVE  NextStates(text, Plain(I), Backslash) = Escaped(I)
<1>1. ASSUME NEW to \in NextStates(text, Plain(I), Backslash) PROVE to \in Escaped(I)
  <2>1. PICK n \in I : Takes(text, [matched |-> n, escaped |-> FALSE], Backslash, to)
    BY DEF NextStates, Plain
  <2>2. to \in MatchStates(text)
    BY DEF NextStates
  <2>3. to.matched = n /\ to.escaped
    BY <2>1, SpecialDiffer DEF Takes
  <2>4. to = [matched |-> n, escaped |-> TRUE]
    BY <2>2, <2>3 DEF MatchStates
  <2>5. QED
    BY <2>4 DEF Escaped
<1>2. ASSUME NEW n \in I PROVE [matched |-> n, escaped |-> TRUE] \in NextStates(text, Plain(I), Backslash)
  <2>1. [matched |-> n, escaped |-> TRUE] \in MatchStates(text)
    BY DEF MatchStates
  <2>2. Takes(text, [matched |-> n, escaped |-> FALSE], Backslash, [matched |-> n, escaped |-> TRUE])
    BY DEF Takes
  <2>3. QED
    BY <2>1, <2>2 DEF NextStates, Plain
<1>3. QED
  BY <1>1, <1>2 DEF Escaped

LEMMA AfterPercent ==
  ASSUME NEW C, NEW text \in Seq(C), NEW I \in SUBSET (0 .. Len(text))
  PROVE  NextStates(text, Plain(I), Percent) = Plain({m \in 0 .. Len(text) : \E n \in I : n <= m})
<1> DEFINE J == {m \in 0 .. Len(text) : \E n \in I : n <= m}
<1>1. ASSUME NEW to \in NextStates(text, Plain(I), Percent) PROVE to \in Plain(J)
  <2>1. PICK n \in I : Takes(text, [matched |-> n, escaped |-> FALSE], Percent, to)
    BY DEF NextStates, Plain
  <2>2. to \in MatchStates(text)
    BY DEF NextStates
  <2>3. to.matched >= n /\ ~to.escaped
    BY <2>1, SpecialDiffer DEF Takes
  <2>4. to = [matched |-> to.matched, escaped |-> FALSE] /\ to.matched \in 0 .. Len(text)
    BY <2>2, <2>3 DEF MatchStates
  <2>5. to.matched \in J
    BY <2>3, <2>4
  <2>6. QED
    BY <2>4, <2>5 DEF Plain
<1>2. ASSUME NEW m \in J PROVE [matched |-> m, escaped |-> FALSE] \in NextStates(text, Plain(I), Percent)
  <2>1. [matched |-> m, escaped |-> FALSE] \in MatchStates(text)
    BY DEF MatchStates
  <2>2. PICK n \in I : n <= m
    OBVIOUS
  <2>3. Takes(text, [matched |-> n, escaped |-> FALSE], Percent, [matched |-> m, escaped |-> FALSE])
    BY <2>2 DEF Takes
  <2>4. QED
    BY <2>1, <2>3 DEF NextStates, Plain
<1>3. QED
  BY <1>1, <1>2 DEF Plain

\* A character that stands for itself, by what it is or by the \ before it.
LEMMA AfterCharacter ==
  ASSUME NEW C, NEW text \in Seq(C), NEW I \in SUBSET (0 .. Len(text)), NEW x,
         NEW states,
         \/ states = Escaped(I)
         \/ states = Plain(I) /\ x \notin Special
  PROVE  NextStates(text, states, x) = Plain(Onward(text, I, x))
<1>1. ASSUME NEW to \in NextStates(text, states, x) PROVE to \in Plain(Onward(text, I, x))
  <2>1. PICK old \in states : Takes(text, old, x, to)
    BY DEF NextStates
  <2>2. to \in MatchStates(text)
    BY DEF NextStates
  <2>3. old.matched \in I /\ (old.escaped \/ x \notin Special)
    <3>1. CASE states = Escaped(I)
      BY <3>1 DEF Escaped
    <3>2. CASE states = Plain(I) /\ x \notin Special
      BY <3>2 DEF Plain
    <3>3. QED
      BY <3>1, <3>2
  <2>4. /\ old.matched < Len(text)
        /\ Fold(text[old.matched + 1]) = Fold(x)
        /\ to.matched = old.matched + 1 /\ ~to.escaped
    BY <2>1, <2>3 DEF Takes, Special
  <2>5. to = [matched |-> to.matched, escaped |-> FALSE] /\ to.matched \in 0 .. Len(text)
    BY <2>2, <2>4 DEF MatchStates
  <2>10. old.matched \in 0 .. Len(text)
    BY <2>3
  <2>8. old.matched \in 0 .. Len(text) /\ Len(text) \in Nat
    BY <2>10
  <2> DEFINE n == old.matched
  <2>9. n + 1 \in 1 .. Len(text) /\ (n + 1) - 1 \in I /\ Fold(text[n + 1]) = Fold(x)
    <3>1. (n + 1) - 1 = n
      BY <2>8
    <3>2. n + 1 \in 1 .. Len(text)
      BY <2>4, <2>8
    <3>3. QED
      BY <2>3, <2>4, <3>1, <3>2
  <2>6. to.matched \in Onward(text, I, x)
    BY <2>4, <2>9 DEF Onward
  <2>7. QED
    BY <2>5, <2>6 DEF Plain
<1>2. ASSUME NEW n \in Onward(text, I, x) PROVE [matched |-> n, escaped |-> FALSE] \in NextStates(text, states, x)
  <2>1. n \in 1 .. Len(text) /\ n - 1 \in I /\ Fold(text[n]) = Fold(x) /\ (n - 1) + 1 = n /\ n - 1 < Len(text)
    <3>1. n \in 1 .. Len(text) /\ n - 1 \in I /\ Fold(text[n]) = Fold(x)
      BY DEF Onward
    <3>2. Len(text) \in Nat
      OBVIOUS
    <3>3. QED
      BY <3>1, <3>2
  <2>2. [matched |-> n, escaped |-> FALSE] \in MatchStates(text)
    BY <2>1 DEF MatchStates
  <2>3. CASE states = Escaped(I)
    <3>1. Takes(text, [matched |-> n - 1, escaped |-> TRUE], x, [matched |-> n, escaped |-> FALSE])
      BY <2>1 DEF Takes
    <3>2. [matched |-> n - 1, escaped |-> TRUE] \in states
      BY <2>1, <2>3 DEF Escaped
    <3>3. QED
      BY <2>2, <3>1, <3>2 DEF NextStates
  <2>4. CASE states = Plain(I) /\ x \notin Special
    <3>1. Takes(text, [matched |-> n - 1, escaped |-> FALSE], x, [matched |-> n, escaped |-> FALSE])
      BY <2>1, <2>4 DEF Takes, Special
    <3>2. [matched |-> n - 1, escaped |-> FALSE] \in states
      BY <2>1, <2>4 DEF Plain
    <3>3. QED
      BY <2>2, <3>1, <3>2 DEF NextStates
  <2>5. QED
    BY <2>3, <2>4
<1>3. QED
  BY <1>1, <1>2 DEF Plain

\* A character as LikeEscape writes it.
Piece(x) == IF x \in Special THEN <<Backslash, x>> ELSE <<x>>

LEMMA AfterPiece ==
  ASSUME NEW C, Special \subseteq C, NEW text \in Seq(C), NEW p \in Seq(C), NEW x \in C,
         NEW I \in SUBSET (0 .. Len(text)), Reached(text, p) = Plain(I)
  PROVE  Piece(x) \in Seq(C) /\ Reached(text, p \o Piece(x)) = Plain(Onward(text, I, x))
<1>1. Backslash \in C
  BY DEF Special
<1>2. CASE x \in Special
  <2>1. Piece(x) = <<Backslash, x>> /\ Piece(x) \in Seq(C)
    BY <1>1, <1>2 DEF Piece
  <2> DEFINE q == p \o <<Backslash>>
  <2>2. p \o <<Backslash, x>> = q \o <<x>>
    <3>1. <<Backslash>> \in Seq(C) /\ <<x>> \in Seq(C)
      BY <1>1
    <3>2. <<Backslash>> \o <<x>> = <<Backslash, x>>
      BY <1>1, TwoInOne
    <3>3. QED
      BY <3>1, <3>2, ConcatAssociative
  <2>3. q \in Seq(C)
    BY <1>1
  <2>4. Reached(text, q) = Escaped(I)
    BY <1>1, ReachedAppend, AfterBackslash
  <2> HIDE DEF q
  <2>5. Reached(text, q \o <<x>>) = NextStates(text, Escaped(I), x)
    BY <2>3, <2>4, ReachedAppend
  <2>6. QED
    BY <2>1, <2>2, <2>5, AfterCharacter
<1>3. CASE x \notin Special
  <2>1. Piece(x) = <<x>> /\ Piece(x) \in Seq(C)
    BY <1>3 DEF Piece
  <2>2. Reached(text, p \o <<x>>) = NextStates(text, Plain(I), x)
    BY ReachedAppend
  <2>3. NextStates(text, Plain(I), x) = Plain(Onward(text, I, x))
    BY <1>3, AfterCharacter
  <2>4. QED
    BY <2>1, <2>2, <2>3
<1>4. QED
  BY <1>2, <1>3

\* After an escaped text the match has found that text as it is written.
LEMMA AfterEscaped ==
  ASSUME NEW C, Special \subseteq C, NEW text \in Seq(C), NEW p \in Seq(C), NEW part \in Seq(C),
         NEW I \in SUBSET (0 .. Len(text)), Reached(text, p) = Plain(I)
  PROVE  /\ LikeEscape(part) \in Seq(C)
         /\ Reached(text, p \o LikeEscape(part))
              = Plain({n \in 0 .. Len(text) : n - Len(part) \in I /\ At(text, part, n - Len(part))})
<1> DEFINE N == Len(part)
           ss == [i \in 1 .. N |-> Piece(part[i])]
           M(k) == {n \in 0 .. Len(text) :
                       n - k \in I /\ \A j \in 1 .. k : Fold(text[(n - k) + j]) = Fold(part[j])}
<1>1. N \in Nat /\ Len(text) \in Nat /\ \A i \in 1 .. N : part[i] \in C
  OBVIOUS
<1>15. \A a, b, c \in Seq(C) : (a \o b) \o c = a \o (b \o c)
  BY ConcatAssociative
<1>2. \A x \in C : Piece(x) \in Seq(C)
  BY DEF Piece, Special
<1>3. ss \in Seq(Seq(C)) /\ Len(ss) = N
  BY <1>1, <1>2
<1>4. LikeEscape(part) = FlattenSeq(ss)
  BY DEF LikeEscape, Piece
<1>5. \A i \in 1 .. N : ss[i] = Piece(part[i])
  OBVIOUS
<1> HIDE DEF ss
<1>14. PICK g : Flattens(g, ss, C)
  BY <1>3, Flattened
<1>6. /\ g \in [0 .. N -> Seq(C)]
      /\ g[0] = << >>
      /\ \A i \in 1 .. N : g[i] = g[i - 1] \o ss[i]
      /\ FlattenSeq(ss) = g[N]
  BY <1>3, <1>14 DEF Flattens
<1> HIDE DEF N
<1> DEFINE S == {k \in 0 .. N : Reached(text, p \o g[k]) = Plain(M(k))}
<1>7. 0 \in S
  <2>1. M(0) = I
    <3>1. \A n \in 0 .. Len(text) : n - 0 = n
      BY <1>1
    <3>2. 1 .. 0 = {}
      OBVIOUS
    <3>3. QED
      BY <3>1, <3>2
  <2>2. p \o g[0] = p
    BY <1>6, ConcatEmptySeq
  <2>4. 0 \in 0 .. N
    BY <1>1
  <2> HIDE DEF M
  <2>3. QED
    BY <2>1, <2>2, <2>4
<1>8. ASSUME NEW k \in 0 .. N - 1, k \in S PROVE k + 1 \in S
  <2>1. k + 1 \in 1 .. N /\ k + 1 \in 0 .. N /\ (k + 1) - 1 = k /\ k \in 0 .. N
    BY <1>1
  <2>2. g[k + 1] = g[k] \o Piece(part[k + 1]) /\ g[k] \in Seq(C) /\ part[k + 1] \in C
    BY <1>1, <1>5, <1>6, <2>1
  <2>3. Reached(text, p \o g[k]) = Plain(M(k)) /\ M(k) \in SUBSET (0 .. Len(text))
    BY <1>8
  <2> HIDE DEF M
  <2> DEFINE q == p \o g[k]
             x == part[k + 1]
             J == M(k)
  <2>4. q \in Seq(C) /\ x \in C /\ J \in SUBSET (0 .. Len(text)) /\ Reached(text, q) = Plain(J)
    BY <2>2, <2>3
  <2>5. Reached(text, q \o Piece(x)) = Plain(Onward(text, M(k), part[k + 1]))
    <3> HIDE DEF q, J
    <3>1. Reached(text, q \o Piece(x)) = Plain(Onward(text, J, x))
      BY <2>4, AfterPiece
    <3>2. QED
      BY <3>1 DEF J
  <2>6. q \o Piece(x) = p \o g[k + 1]
    <3> DEFINE y == Piece(x)
               u == g[k]
    <3>1. y \in Seq(C) /\ u \in Seq(C) /\ g[k + 1] = u \o y
      BY <1>2, <2>2
    <3> HIDE DEF y, u
    <3>2. (p \o u) \o y = p \o (u \o y)
      BY <1>15, <3>1
    <3>3. QED
      BY <3>1, <3>2 DEF y, u
  <2> HIDE DEF q, J, x
  <2>7. Onward(text, M(k), part[k + 1]) = M(k + 1)
    <3>1. ASSUME NEW n \in Onward(text, M(k), part[k + 1]) PROVE n \in M(k + 1)
      <4>1. n \in 1 .. Len(text) /\ n - 1 \in M(k) /\ Fold(text[n]) = Fold(part[k + 1])
        BY DEF Onward
      <4>2. (n - 1) - k \in I /\ \A j \in 1 .. k : Fold(text[((n - 1) - k) + j]) = Fold(part[j])
        BY <4>1 DEF M
      <4>3. n - (k + 1) = (n - 1) - k /\ ((n - 1) - k) + (k + 1) = n /\ n \in 0 .. Len(text)
        BY <1>1, <2>1, <4>1
      <4>4. \A j \in 1 .. k + 1 : j \in 1 .. k \/ j = k + 1
        BY <2>1
      <4>5. \A j \in 1 .. k + 1 : Fold(text[((n - 1) - k) + j]) = Fold(part[j])
        BY <4>1, <4>2, <4>3, <4>4
      <4>6. QED
        BY <4>2, <4>3, <4>5 DEF M
    <3>2. ASSUME NEW n \in M(k + 1) PROVE n \in Onward(text, M(k), part[k + 1])
      <4>1. /\ n \in 0 .. Len(text) /\ n - (k + 1) \in I
            /\ \A j \in 1 .. k + 1 : Fold(text[(n - (k + 1)) + j]) = Fold(part[j])
        BY DEF M
      <4>2. n - (k + 1) \in 0 .. Len(text)
        BY <4>1
      <4>3. n \in 1 .. Len(text) /\ n - 1 \in 0 .. Len(text) /\ (n - 1) - k = n - (k + 1)
            /\ (n - (k + 1)) + (k + 1) = n
        BY <1>1, <2>1, <4>1, <4>2
      <4>4. k + 1 \in 1 .. k + 1 /\ \A j \in 1 .. k : j \in 1 .. k + 1
        BY <2>1
      <4>5. Fold(text[n]) = Fold(part[k + 1])
        BY <4>1, <4>3, <4>4
      <4>6. \A j \in 1 .. k : Fold(text[((n - 1) - k) + j]) = Fold(part[j])
        BY <4>1, <4>3, <4>4
      <4>7. n - 1 \in M(k)
        BY <4>1, <4>3, <4>6 DEF M
      <4>8. QED
        BY <4>3, <4>5, <4>7 DEF Onward
    <3>3. QED
      BY <3>1, <3>2
  <2>8. QED
    BY <2>1, <2>5, <2>6, <2>7
<1> HIDE DEF S
<1>9. N \in S
  <2>1. \A k \in 0 .. N - 1 : k \in S => k + 1 \in S
    BY <1>8
  <2>2. \A k \in 0 .. N : k \in S
    BY <1>1, <1>7, <2>1, BoundedInduction
  <2>3. QED
    BY <1>1, <2>2
<1> DEFINE goal == {n \in 0 .. Len(text) : n - N \in I /\ At(text, part, n - N)}
<1>10. M(N) = goal
  <2>1. ASSUME NEW n \in 0 .. Len(text), n - N \in I
        PROVE  At(text, part, n - N) <=> \A j \in 1 .. N : Fold(text[(n - N) + j]) = Fold(part[j])
    <3>1. (n - N) + N <= Len(text)
      BY <1>1
    <3>2. QED
      BY <3>1 DEF At, N
  <2>2. QED
    BY <2>1
<1>11. Reached(text, p \o g[N]) = Plain(M(N))
  BY <1>9 DEF S
<1>12. LikeEscape(part) = g[N] /\ g[N] \in Seq(C)
  BY <1>1, <1>4, <1>6
<1>13. QED
  BY <1>10, <1>11, <1>12 DEF N

LEMMA AtTheBeginning ==
  ASSUME NEW C, Special \subseteq C, NEW text \in Seq(C)
  PROVE  /\ Reached(text, << >>) = Plain({0})
         /\ Reached(text, <<Percent>>) = Plain(0 .. Len(text))
<1> DEFINE none == << >>
           zero == {0}
<1>1. Len(text) \in Nat /\ Percent \in C
  BY DEF Special
<1>2. none \in Seq(C) /\ zero \in SUBSET (0 .. Len(text))
  BY <1>1
<1>3. Reached(text, none) = Plain(zero)
  BY ReachedEmpty DEF Plain, Beginning
<1>4. none \o <<Percent>> = <<Percent>>
  BY <1>1, ConcatEmptySeq
<1>5. {m \in 0 .. Len(text) : \E n \in zero : n <= m} = 0 .. Len(text)
  BY <1>1
<1> HIDE DEF none, zero
<1>6. Reached(text, none \o <<Percent>>) = NextStates(text, Plain(zero), Percent)
  BY <1>1, <1>2, <1>3, ReachedAppend
<1>7. NextStates(text, Plain(zero), Percent) = Plain({m \in 0 .. Len(text) : \E n \in zero : n <= m})
  BY <1>2, AfterPercent
<1>8. QED
  BY <1>3, <1>4, <1>5, <1>6, <1>7 DEF none, zero

\* A % at the end lets the rest of the text be anything.
LEMMA PercentAtTheEnd ==
  ASSUME NEW C, Special \subseteq C, NEW text \in Seq(C), NEW p \in Seq(C),
         NEW I \in SUBSET (0 .. Len(text)), Reached(text, p) = Plain(I)
  PROVE  Like(text, p \o <<Percent>>) <=> I # {}
<1> DEFINE J == {m \in 0 .. Len(text) : \E n \in I : n <= m}
<1>1. Len(text) \in Nat /\ Percent \in C
  BY DEF Special
<1>2. Reached(text, p \o <<Percent>>) = Plain(J)
  BY <1>1, ReachedAppend, AfterPercent
<1>6. \A n \in I : n \in 0 .. Len(text)
  OBVIOUS
<1>7. \A n \in I : n <= Len(text)
  BY <1>6
<1>8. Len(text) \in 0 .. Len(text)
  BY <1>1
<1>3. Len(text) \in J <=> I # {}
  BY <1>7, <1>8
<1> HIDE DEF J
<1>4. [matched |-> Len(text), escaped |-> FALSE] \in Plain(J) <=> Len(text) \in J
  BY DEF Plain
<1>5. QED
  BY <1>2, <1>3, <1>4 DEF Like

\* The pattern of `contains` finds a text as it is written, anywhere in the
\* column: like_escape leaves no character its meaning to LIKE.
THEOREM FindsContained ==
  ASSUME NEW C, Special \subseteq C, NEW text \in Seq(C), NEW part \in Seq(C)
  PROVE  Like(text, <<Percent>> \o LikeEscape(part) \o <<Percent>>)
           <=> \E i \in 0 .. Len(text) : At(text, part, i)
<1> DEFINE first == <<Percent>>
           p == first \o LikeEscape(part)
           I == 0 .. Len(text)
           J == {n \in 0 .. Len(text) : n - Len(part) \in I /\ At(text, part, n - Len(part))}
<1>1. Len(text) \in Nat /\ Len(part) \in Nat /\ Percent \in C
  BY DEF Special
<1>2. first \in Seq(C) /\ I \in SUBSET (0 .. Len(text)) /\ Reached(text, first) = Plain(I)
  BY <1>1, AtTheBeginning
<1>3. LikeEscape(part) \in Seq(C) /\ Reached(text, p) = Plain(J)
  <2> HIDE DEF first, I
  <2>1. QED
    BY <1>2, AfterEscaped
<1>4. p \in Seq(C) /\ J \in SUBSET (0 .. Len(text))
  BY <1>2, <1>3
<1>5. Like(text, p \o <<Percent>>) <=> J # {}
  <2> HIDE DEF p, J
  <2>1. QED
    BY <1>3, <1>4, PercentAtTheEnd
<1>6. J # {} <=> \E i \in 0 .. Len(text) : At(text, part, i)
  <2>1. ASSUME NEW i \in 0 .. Len(text), At(text, part, i) PROVE J # {}
    <3>1. i + Len(part) \in 0 .. Len(text) /\ (i + Len(part)) - Len(part) = i
      BY <1>1, <2>1 DEF At
    <3>2. i + Len(part) \in J
      BY <2>1, <3>1
    <3>3. QED
      BY <3>2
  <2>2. QED
    BY <2>1
<1> HIDE DEF J
<1>7. Like(text, (<<Percent>> \o LikeEscape(part)) \o <<Percent>>) <=> J # {}
  BY <1>5
<1>8. QED
  BY <1>6, <1>7

\* That of `starts_with` finds it at the beginning.
THEOREM FindsPrefix ==
  ASSUME NEW C, Special \subseteq C, NEW text \in Seq(C), NEW part \in Seq(C)
  PROVE  Like(text, LikeEscape(part) \o <<Percent>>) <=> At(text, part, 0)
<1> DEFINE first == << >>
           p == LikeEscape(part)
           I == {0}
           J == {n \in 0 .. Len(text) : n - Len(part) \in I /\ At(text, part, n - Len(part))}
<1>1. Len(text) \in Nat /\ Len(part) \in Nat
  OBVIOUS
<1>2. first \in Seq(C) /\ I \in SUBSET (0 .. Len(text)) /\ Reached(text, first) = Plain(I)
  BY <1>1, AtTheBeginning
<1>3. p \in Seq(C) /\ Reached(text, first \o p) = Plain(J)
  <2> HIDE DEF first, I
  <2>1. QED
    BY <1>2, AfterEscaped
<1>4. first \o p = p
  BY <1>3, ConcatEmptySeq
<1>5. J \in SUBSET (0 .. Len(text))
  OBVIOUS
<1>6. Like(text, p \o <<Percent>>) <=> J # {}
  <2> HIDE DEF p, J, first
  <2>1. QED
    BY <1>3, <1>4, <1>5, PercentAtTheEnd
<1>7. J # {} <=> At(text, part, 0)
  <2>1. ASSUME NEW n \in J PROVE At(text, part, 0)
    OBVIOUS
  <2>2. ASSUME At(text, part, 0) PROVE J # {}
    <3>1. Len(part) \in 0 .. Len(text) /\ Len(part) - Len(part) = 0
      BY <1>1, <2>2 DEF At
    <3>2. Len(part) \in J
      BY <2>2, <3>1
    <3>3. QED
      BY <3>2
  <2>3. QED
    BY <2>1, <2>2
<1>8. QED
  BY <1>6, <1>7

\* That of `ends_with` finds it at the end.
THEOREM FindsSuffix ==
  ASSUME NEW C, Special \subseteq C, NEW text \in Seq(C), NEW part \in Seq(C)
  PROVE  Like(text, <<Percent>> \o LikeEscape(part))
           <=> Len(part) <= Len(text) /\ At(text, part, Len(text) - Len(part))
<1> DEFINE first == <<Percent>>
           p == first \o LikeEscape(part)
           I == 0 .. Len(text)
           J == {n \in 0 .. Len(text) : n - Len(part) \in I /\ At(text, part, n - Len(part))}
<1>1. Len(text) \in Nat /\ Len(part) \in Nat /\ Percent \in C
  BY DEF Special
<1>2. first \in Seq(C) /\ I \in SUBSET (0 .. Len(text)) /\ Reached(text, first) = Plain(I)
  BY <1>1, AtTheBeginning
<1>3. Reached(text, p) = Plain(J)
  <2> HIDE DEF first, I
  <2>1. QED
    BY <1>2, AfterEscaped
<1>4. Len(text) \in J <=> Len(part) <= Len(text) /\ At(text, part, Len(text) - Len(part))
  BY <1>1
<1> HIDE DEF J, p
<1>5. [matched |-> Len(text), escaped |-> FALSE] \in Plain(J) <=> Len(text) \in J
  BY DEF Plain
<1>6. Like(text, p) <=> Len(text) \in J
  BY <1>3, <1>5 DEF Like
<1>7. QED
  BY <1>4, <1>6 DEF p

-----------------------------------------------------------------------------
(* One condition.                                                          *)

\* What a condition comes to on a value, by what it means.
ValueOf(c, v) == IF Holds(c, v) THEN "true" ELSE IF Undecided(c, v) THEN "unknown" ELSE "false"

Word(w) == [t |-> w]
PredicateToken(col, sql, arg) == [t |-> "predicate", col |-> col, sql |-> sql, arg |-> arg]

LEMMA AndPredicateIs ==
  ASSUME NEW col, NEW sql, NEW arg
  PROVE  AndPredicate(col, sql, arg) = <<Word("AND"), PredicateToken(col, sql, arg)>>
<1> DEFINE x == Word("AND")
           y == PredicateToken(col, sql, arg)
           T == {x, y}
<1>1. Token("AND") = <<x>> /\ Predicate(col, sql, arg) = <<y>>
  BY DEF Token, Predicate, Word, PredicateToken
<1>2. x \in T /\ y \in T
  OBVIOUS
<1> HIDE DEF x, y, T
<1>3. <<x>> \o <<y>> = <<x, y>>
  BY <1>2, TwoInOne
<1>4. QED
  BY <1>1, <1>3 DEF AndPredicate, x, y

\* The comparison a predicate makes of two values that are not NULL.
Meets(sql, v, arg) ==
    CASE sql = "=" -> v = arg
      [] sql = "!=" -> v # arg
      [] sql = ">" -> v > arg
      [] sql = ">=" -> v >= arg
      [] sql = "<" -> v < arg
      [] sql = "<=" -> v <= arg
      [] sql = "IN" -> v \in arg
      [] sql = "NOT IN" -> v \notin arg
      [] sql = "LIKE" -> Like(v, arg)

AsksForNull == {"IS NULL", "IS NOT NULL"}

LEMMA Compared ==
  ASSUME NEW col, NEW sql, sql \notin AsksForNull, NEW arg, arg # Null, NEW v
  PROVE  SqlPredicate(PredicateToken(col, sql, arg), v) =
           IF v = Null THEN "unknown" ELSE Truth(Meets(sql, v, arg))
<1> DEFINE p == PredicateToken(col, sql, arg)
<1>1. p.sql = sql /\ p.arg = arg
  BY DEF PredicateToken
<1> HIDE DEF p
<1>2. v = Null => SqlPredicate(p, v) = "unknown"
  BY <1>1 DEF SqlPredicate, AsksForNull
<1>3. v # Null => SqlPredicate(p, v) = Truth(Meets(sql, v, arg))
  BY <1>1 DEF SqlPredicate, Meets, AsksForNull
<1>4. QED
  BY <1>2, <1>3 DEF p

LEMMA AskedForNull ==
  ASSUME NEW col, NEW v
  PROVE  /\ SqlPredicate(PredicateToken(col, "IS NULL", Null), v) = Truth(v = Null)
         /\ SqlPredicate(PredicateToken(col, "IS NOT NULL", Null), v) = Truth(v # Null)
<1>1. PredicateToken(col, "IS NULL", Null).sql = "IS NULL"
  BY DEF PredicateToken
<1>2. PredicateToken(col, "IS NOT NULL", Null).sql = "IS NOT NULL"
  BY DEF PredicateToken
<1>3. QED
  BY <1>1, <1>2 DEF SqlPredicate

\* What a token that is not a keyword comes to on a row.
AtomValue(tok, r) == IF tok.t = "1=0" THEN "false" ELSE SqlPredicate(tok, r[tok.col])

\* A condition is pushed as AND and one token that comes to what the condition
\* means, or as nothing when it always holds.
Faithful(c, r) ==
    \/ FieldArm(c) = << >> /\ Holds(c, r[c.col])
    \/ \E tok :
          /\ FieldArm(c) = <<Word("AND"), tok>>
          /\ tok.t \in {"1=0", "predicate"}
          /\ AtomValue(tok, r) = ValueOf(c, r[c.col])

LEMMA FaithfulPredicate ==
  ASSUME NEW c, NEW r, NEW sql, NEW arg,
         FieldArm(c) = AndPredicate(c.col, sql, arg),
         SqlPredicate(PredicateToken(c.col, sql, arg), r[c.col]) = ValueOf(c, r[c.col])
  PROVE  Faithful(c, r)
<1> DEFINE tok == PredicateToken(c.col, sql, arg)
<1>1. tok.t = "predicate" /\ tok.col = c.col
  BY DEF PredicateToken
<1>2. FieldArm(c) = <<Word("AND"), tok>>
  BY AndPredicateIs
<1> HIDE DEF tok
<1>3. AtomValue(tok, r) = ValueOf(c, r[c.col])
  BY <1>1 DEF AtomValue, tok
<1>4. QED
  BY <1>1, <1>2, <1>3 DEF Faithful

LEMMA FaithfulNull ==
  ASSUME NEW c, NEW r, c.op \in {"equals", "not"}, c.arg = Null
  PROVE  Faithful(c, r)
<1> DEFINE v == r[c.col]
<1>1. CASE c.op = "equals"
  <2>1. FieldArm(c) = AndPredicate(c.col, "IS NULL", Null)
    BY <1>1 DEF FieldArm
  <2>2. Holds(c, v) <=> v = Null
    BY <1>1 DEF Holds
  <2>3. ~Undecided(c, v)
    BY <1>1 DEF Undecided
  <2>4. ValueOf(c, v) = Truth(v = Null)
    BY <2>2, <2>3 DEF ValueOf, Truth
  <2>5. SqlPredicate(PredicateToken(c.col, "IS NULL", Null), v) = ValueOf(c, v)
    BY <2>4, AskedForNull
  <2>6. QED
    BY <2>1, <2>5, FaithfulPredicate
<1>2. CASE c.op = "not"
  <2>1. FieldArm(c) = AndPredicate(c.col, "IS NOT NULL", Null)
    BY <1>2 DEF FieldArm
  <2>2. Holds(c, v) <=> v # Null
    BY <1>2 DEF Holds
  <2>3. ~Undecided(c, v)
    BY <1>2 DEF Undecided
  <2>4. ValueOf(c, v) = Truth(v # Null)
    BY <2>2, <2>3 DEF ValueOf, Truth
  <2>5. SqlPredicate(PredicateToken(c.col, "IS NOT NULL", Null), v) = ValueOf(c, v)
    BY <2>4, AskedForNull
  <2>6. QED
    BY <2>1, <2>5, FaithfulPredicate
<1>3. QED
  BY <1>1, <1>2

\* A comparison that meets what the condition means on the values it decides.
LEMMA FaithfulIfMeets ==
  ASSUME NEW c, NEW r, NEW sql, sql \notin AsksForNull, NEW arg, arg # Null,
         FieldArm(c) = AndPredicate(c.col, sql, arg),
         Undecided(c, r[c.col]) <=> r[c.col] = Null,
         r[c.col] = Null => ~Holds(c, r[c.col]),
         r[c.col] # Null => (Meets(sql, r[c.col], arg) <=> Holds(c, r[c.col]))
  PROVE  Faithful(c, r)
<1> DEFINE v == r[c.col]
<1>1. SqlPredicate(PredicateToken(c.col, sql, arg), v) =
           IF v = Null THEN "unknown" ELSE Truth(Meets(sql, v, arg))
  BY Compared
<1>2. ValueOf(c, v) = IF v = Null THEN "unknown" ELSE Truth(Holds(c, v))
  BY DEF ValueOf, Truth
<1>3. v # Null => Truth(Meets(sql, v, arg)) = Truth(Holds(c, v))
  BY DEF Truth
<1>4. SqlPredicate(PredicateToken(c.col, sql, arg), v) = ValueOf(c, v)
  BY <1>1, <1>2, <1>3
<1>5. QED
  BY <1>4, FaithfulPredicate

LEMMA FaithfulComparison ==
  ASSUME NEW c, NEW r, c.op \in {"equals", "not", "gt", "gte", "lt", "lte"}, c.arg # Null
  PROVE  Faithful(c, r)
<1> DEFINE v == r[c.col]
           sql == Symbol[c.op]
<1>1. /\ c.op = "equals" => sql = "="
      /\ c.op = "not" => sql = "!="
      /\ c.op = "gt" => sql = ">"
      /\ c.op = "gte" => sql = ">="
      /\ c.op = "lt" => sql = "<"
      /\ c.op = "lte" => sql = "<="
  BY DEF Symbol
<1>2. FieldArm(c) = AndPredicate(c.col, sql, c.arg)
  BY DEF FieldArm
<1>3. (Undecided(c, v) <=> v = Null) /\ (v = Null => ~Holds(c, v))
  BY DEF Holds, Undecided
<1> HIDE DEF sql
<1>4. sql \notin AsksForNull
  BY <1>1 DEF AsksForNull
<1>5. ASSUME v # Null PROVE Meets(sql, v, c.arg) <=> Holds(c, v)
  <2> HIDE DEF v
  <2>1. CASE c.op = "equals"
    BY <1>1, <1>5, <2>1 DEF Meets, Holds
  <2>2. CASE c.op = "not"
    BY <1>1, <1>5, <2>2 DEF Meets, Holds
  <2>3. CASE c.op = "gt"
    BY <1>1, <1>5, <2>3 DEF Meets, Holds
  <2>4. CASE c.op = "gte"
    BY <1>1, <1>5, <2>4 DEF Meets, Holds
  <2>5. CASE c.op = "lt"
    BY <1>1, <1>5, <2>5 DEF Meets, Holds
  <2>6. CASE c.op = "lte"
    BY <1>1, <1>5, <2>6 DEF Meets, Holds
  <2>7. QED
    BY <2>1, <2>2, <2>3, <2>4, <2>5, <2>6
<1>6. QED
  BY <1>2, <1>3, <1>4, <1>5, FaithfulIfMeets

LEMMA FaithfulList ==
  ASSUME NEW c, NEW r, c.op \in {"in", "not_in"}, c.arg # Null
  PROVE  Faithful(c, r)
<1> DEFINE v == r[c.col]
<1>1. FieldArm(c) = InArms(c)
  BY DEF FieldArm
<1>2. CASE c.op = "in" /\ c.arg = {}
  <2> DEFINE x == Word("AND")
             tok == Word("1=0")
             T == {x, tok}
  <2>1. Token("AND") = <<x>> /\ Token("1=0") = <<tok>> /\ tok.t = "1=0"
    BY DEF Token, Word
  <2>2. FieldArm(c) = Token("AND") \o Token("1=0")
    BY <1>1, <1>2 DEF InArms
  <2>3. ValueOf(c, v) = "false"
    BY <1>2 DEF ValueOf, Holds, Undecided
  <2>4. x \in T /\ tok \in T
    OBVIOUS
  <2> HIDE DEF x, tok, T, v
  <2>5. FieldArm(c) = <<x, tok>>
    BY <2>1, <2>2, <2>4, TwoInOne
  <2>6. AtomValue(tok, r) = "false"
    BY <2>1 DEF AtomValue
  <2>7. QED
    BY <2>1, <2>3, <2>5, <2>6 DEF Faithful, x, v
<1>3. CASE c.op = "not_in" /\ c.arg = {}
  <2>1. FieldArm(c) = << >>
    BY <1>1, <1>3 DEF InArms
  <2>2. Holds(c, v)
    BY <1>3 DEF Holds
  <2>3. QED
    BY <2>1, <2>2 DEF Faithful
<1>4. CASE c.op = "in" /\ c.arg # {}
  <2>1. FieldArm(c) = AndPredicate(c.col, "IN", c.arg)
    BY <1>1, <1>4 DEF InArms
  <2>2. (Undecided(c, v) <=> v = Null) /\ (v = Null => ~Holds(c, v))
    BY <1>4 DEF Holds, Undecided
  <2>3. v # Null => (Meets("IN", v, c.arg) <=> Holds(c, v))
    BY <1>4 DEF Holds, Meets
  <2>4. "IN" \notin AsksForNull
    BY DEF AsksForNull
  <2>5. QED
    BY <2>1, <2>2, <2>3, <2>4, FaithfulIfMeets
<1>5. CASE c.op = "not_in" /\ c.arg # {}
  <2>1. FieldArm(c) = AndPredicate(c.col, "NOT IN", c.arg)
    BY <1>1, <1>5 DEF InArms
  <2>2. (Undecided(c, v) <=> v = Null) /\ (v = Null => ~Holds(c, v))
    BY <1>5 DEF Holds, Undecided
  <2>3. v # Null => (Meets("NOT IN", v, c.arg) <=> Holds(c, v))
    BY <1>5 DEF Holds, Meets
  <2>4. "NOT IN" \notin AsksForNull
    BY DEF AsksForNull
  <2>5. QED
    BY <2>1, <2>2, <2>3, <2>4, FaithfulIfMeets
<1>6. QED
  BY <1>2, <1>3, <1>4, <1>5

TextOperators == {"contains", "starts_with", "ends_with"}

LEMMA FaithfulText ==
  ASSUME NEW c, NEW r, c.op \in TextOperators, c.arg \in Text, r[c.col] \in Text \cup {Null}
  PROVE  Faithful(c, r)
<1> DEFINE v == r[c.col]
           C == Characters
           arg == c.arg
           escaped == LikeEscape(arg)
           pattern == CASE c.op = "contains" -> <<Percent>> \o escaped \o <<Percent>>
                        [] c.op = "starts_with" -> escaped \o <<Percent>>
                        [] c.op = "ends_with" -> <<Percent>> \o escaped
<1>1. FieldArm(c) = AndPredicate(c.col, "LIKE", pattern)
  BY DEF FieldArm, LikeArms, TextOperators
<1>2. Special \subseteq C /\ Null \notin Seq(C) /\ arg \in Seq(C) /\ v \in Seq(C) \cup {Null}
  BY TextAssumption DEF Text
<1>3. Percent \in C /\ <<Percent>> \in Seq(C)
  BY <1>2 DEF Special
<1>4. escaped \in Seq(C)
  <2> DEFINE none == << >>
             I == {0}
  <2>3. none \in Seq(C) /\ I \in SUBSET (0 .. Len(none))
    OBVIOUS
  <2>4. Reached(none, none) = Plain(I)
    <3> DEFINE text == none
    <3>1. text \in Seq(C)
      OBVIOUS
    <3> HIDE DEF text, C, arg
    <3>2. Reached(text, << >>) = Plain({0})
      BY <1>2, <3>1, AtTheBeginning
    <3>3. QED
      BY <3>2 DEF text
  <2>1. none \in Seq(C) /\ I \in SUBSET (0 .. Len(none)) /\ Reached(none, none) = Plain(I)
    BY <2>3, <2>4
  <2> HIDE DEF none, I, C, arg
  <2>2. QED
    BY <1>2, <2>1, AfterEscaped
<1> HIDE DEF escaped
<1>5. pattern \in Seq(C)
  <2>1. CASE c.op = "contains"
    BY <1>3, <1>4, <2>1
  <2>2. CASE c.op = "starts_with"
    BY <1>3, <1>4, <2>2
  <2>3. CASE c.op = "ends_with"
    BY <1>3, <1>4, <2>3
  <2>4. QED
    BY <2>1, <2>2, <2>3 DEF TextOperators
<1>6. pattern # Null
  BY <1>2, <1>5
<1>7. (Undecided(c, v) <=> v = Null) /\ (v = Null => ~Holds(c, v))
  BY DEF Holds, Undecided, TextOperators
<1>8. Meets("LIKE", v, pattern) <=> Like(v, pattern)
  BY DEF Meets
<1>9. ASSUME v # Null PROVE Like(v, pattern) <=> Holds(c, v)
  <2>1. v \in Seq(C)
    BY <1>2, <1>9
  <2> HIDE DEF v, C
  <2>2. CASE c.op = "contains"
    <3>1. pattern = <<Percent>> \o escaped \o <<Percent>>
      BY <2>2
    <3>2. Holds(c, v) <=> \E i \in 0 .. Len(v) : At(v, c.arg, i)
      BY <1>9, <2>2 DEF Holds
    <3> HIDE DEF arg
    <3>3. Like(v, <<Percent>> \o escaped \o <<Percent>>) <=> \E i \in 0 .. Len(v) : At(v, arg, i)
      BY <1>2, <2>1, FindsContained DEF escaped
    <3>4. QED
      BY <3>1, <3>2, <3>3 DEF arg
  <2>3. CASE c.op = "starts_with"
    <3>1. pattern = escaped \o <<Percent>>
      BY <2>3
    <3>2. Holds(c, v) <=> At(v, c.arg, 0)
      BY <1>9, <2>3 DEF Holds
    <3> HIDE DEF arg
    <3>3. Like(v, escaped \o <<Percent>>) <=> At(v, arg, 0)
      BY <1>2, <2>1, FindsPrefix DEF escaped
    <3>4. QED
      BY <3>1, <3>2, <3>3 DEF arg
  <2>4. CASE c.op = "ends_with"
    <3>1. pattern = <<Percent>> \o escaped
      BY <2>4
    <3>2. Holds(c, v) <=> Len(c.arg) <= Len(v) /\ At(v, c.arg, Len(v) - Len(c.arg))
      BY <1>9, <2>4 DEF Holds
    <3> HIDE DEF arg
    <3>3. Like(v, <<Percent>> \o escaped) <=> Len(arg) <= Len(v) /\ At(v, arg, Len(v) - Len(arg))
      BY <1>2, <2>1, FindsSuffix DEF escaped
    <3>4. QED
      BY <3>1, <3>2, <3>3 DEF arg
  <2>5. QED
    BY <2>2, <2>3, <2>4 DEF TextOperators
<1> HIDE DEF pattern, v
<1>10. "LIKE" \notin AsksForNull
  BY DEF AsksForNull
<1>11. QED
  BY <1>1, <1>6, <1>7, <1>8, <1>9, <1>10, FaithfulIfMeets DEF v

\* Every condition the filter types have is pushed as one token that comes to
\* what the condition means on any row, or as nothing where it always holds
\* (gen_where_arms).
THEOREM EveryConditionFaithful ==
  ASSUME NEW c, IsCondition(c), NEW r \in Rows
  PROVE  Faithful(c, r)
<1> DEFINE kind == Kinds[c.col]
<1>1. kind \in FilterKinds
  BY KindsAssumption DEF IsCondition
<1>2. c.op \in Operators(kind)
  BY DEF IsCondition
<1> HIDE DEF kind
<1>3. /\ c.op \in {"equals", "not", "gt", "gte", "lt", "lte", "in", "not_in"} \cup TextOperators
      /\ c.op \in TextOperators => kind \in {"String", "NullableString"}
  BY <1>1, <1>2 DEF Operators, TextOperators, FilterKinds
<1>4. c.arg = Null => c.op \in {"equals", "not"}
  BY DEF IsCondition
<1>5. CASE c.op \in {"equals", "not"} /\ c.arg = Null
  BY <1>5, FaithfulNull
<1>6. CASE c.op \in {"equals", "not", "gt", "gte", "lt", "lte"} /\ c.arg # Null
  BY <1>6, FaithfulComparison
<1>7. CASE c.op \in {"in", "not_in"} /\ c.arg # Null
  BY <1>7, FaithfulList
<1>8. CASE c.op \in TextOperators
  <2>1. c.arg \in Text /\ c.col \in DOMAIN Kinds
    BY <1>8 DEF IsCondition, TextOperators
  <2>2. r[c.col] \in Text \cup {Null}
    BY <1>3, <1>8, <2>1, RowsAssumption DEF kind
  <2>3. QED
    BY <1>8, <2>1, <2>2, FaithfulText
<1>9. QED
  BY <1>3, <1>4, <1>5, <1>6, <1>7, <1>8

-----------------------------------------------------------------------------
(* Parentheses.                                                            *)

Parentheses == {"(", ")"}
Change(tok) == IF tok.t = "(" THEN 1 ELSE IF tok.t = ")" THEN -1 ELSE 0

\* How many of the first n tokens are w.
Count(s, n, w) == Cardinality({k \in 1 .. n : s[k].t = w})

LEMMA CountNext ==
  ASSUME NEW s, NEW n \in Nat, NEW w
  PROVE  /\ Count(s, 0, w) = 0
         /\ Count(s, n, w) \in Nat
         /\ Count(s, n + 1, w) = Count(s, n, w) + IF s[n + 1].t = w THEN 1 ELSE 0
<1> DEFINE S(m) == {k \in 1 .. m : s[k].t = w}
<1>1. \A m \in Nat : IsFiniteSet(S(m))
  <2>1. ASSUME NEW m \in Nat PROVE IsFiniteSet(S(m))
    <3>1. IsFiniteSet(1 .. m) /\ S(m) \in SUBSET (1 .. m)
      BY FS_Interval
    <3>2. QED
      BY <3>1, FS_Subset
  <2>2. QED
    BY <2>1
<1>2. S(0) = {}
  OBVIOUS
<1>3. Count(s, 0, w) = 0
  BY <1>2, FS_EmptySet DEF Count
<1>4. Count(s, n, w) \in Nat
  BY <1>1, FS_CardinalityType DEF Count
<1>5. CASE s[n + 1].t = w
  <2>1. S(n + 1) = S(n) \cup {n + 1}
    BY <1>5
  <2>2. n + 1 \notin S(n)
    OBVIOUS
  <2>3. Cardinality(S(n) \cup {n + 1}) = Cardinality(S(n)) + 1
    BY <1>1, <2>2, FS_AddElement
  <2>4. QED
    BY <1>3, <1>4, <1>5, <2>1, <2>3 DEF Count
<1>6. CASE s[n + 1].t # w
  <2>1. S(n + 1) = S(n)
    BY <1>6
  <2>2. Count(s, n + 1, w) = Count(s, n, w)
    BY <2>1 DEF Count
  <2>3. QED
    BY <1>3, <1>4, <1>6, <2>2
<1>7. QED
  BY <1>5, <1>6

LEMMA DepthNext ==
  ASSUME NEW s, NEW i \in Nat \ {0}
  PROVE  /\ Depth(s, 1) = 0
         /\ Depth(s, i) \in Int
         /\ Depth(s, i + 1) = Depth(s, i) + Change(s[i])
<1> DEFINE n == i - 1
<1>1. n \in Nat /\ n + 1 = i /\ (i + 1) - 1 = n + 1 /\ 1 - 1 = 0
  OBVIOUS
<1>2. \A j : Depth(s, j) = Count(s, j - 1, "(") - Count(s, j - 1, ")")
  BY DEF Depth, Count
<1>3. Depth(s, i) = Count(s, n, "(") - Count(s, n, ")")
  BY <1>2
<1>4. Depth(s, i + 1) = Count(s, n + 1, "(") - Count(s, n + 1, ")")
  BY <1>1, <1>2
<1>5. Depth(s, 1) = Count(s, 0, "(") - Count(s, 0, ")")
  BY <1>1, <1>2
<1> HIDE DEF n
<1>6. /\ Count(s, 0, "(") = 0 /\ Count(s, n, "(") \in Nat
      /\ Count(s, n + 1, "(") = Count(s, n, "(") + IF s[n + 1].t = "(" THEN 1 ELSE 0
  BY <1>1, CountNext
<1>7. /\ Count(s, 0, ")") = 0 /\ Count(s, n, ")") \in Nat
      /\ Count(s, n + 1, ")") = Count(s, n, ")") + IF s[n + 1].t = ")" THEN 1 ELSE 0
  BY <1>1, CountNext
<1>8. QED
  BY <1>1, <1>3, <1>4, <1>5, <1>6, <1>7 DEF Change

LEMMA DepthLeft ==
  ASSUME NEW T, NEW a \in Seq(T), NEW b \in Seq(T), NEW i \in 1 .. Len(a) + 1
  PROVE  Depth(a \o b, i) = Depth(a, i)
<1>1. \A k \in 1 .. i - 1 : (a \o b)[k] = a[k]
  OBVIOUS
<1>2. /\ {k \in 1 .. i - 1 : (a \o b)[k].t = "("} = {k \in 1 .. i - 1 : a[k].t = "("}
      /\ {k \in 1 .. i - 1 : (a \o b)[k].t = ")"} = {k \in 1 .. i - 1 : a[k].t = ")"}
  BY <1>1
<1>3. QED
  BY <1>2 DEF Depth

LEMMA DepthRight ==
  ASSUME NEW T, NEW a \in Seq(T), NEW b \in Seq(T), NEW i \in 0 .. Len(b)
  PROVE  Depth(a \o b, Len(a) + i + 1) = Depth(a, Len(a) + 1) + Depth(b, i + 1)
<1> DEFINE s == a \o b
           n == Len(a)
           S == {j \in 0 .. Len(b) : Depth(s, n + j + 1) = Depth(a, n + 1) + Depth(b, j + 1)}
<1>1. n \in Nat /\ Len(b) \in Nat
  OBVIOUS
<1>2. \A j \in 1 .. Len(b) : s[n + j] = b[j]
  OBVIOUS
<1>3. Depth(s, n + 1) = Depth(a, n + 1)
  BY <1>1, DepthLeft
<1> HIDE DEF s, n
<1>4. Depth(b, 1) = 0 /\ Depth(a, n + 1) \in Int
  BY <1>1, DepthNext
<1>5. 0 \in S
  BY <1>1, <1>3, <1>4
<1>6. ASSUME NEW j \in 0 .. Len(b) - 1, j \in S PROVE j + 1 \in S
  <2>1. j + 1 \in 1 .. Len(b) /\ n + j + 1 \in Nat \ {0} /\ n + j + 1 = n + (j + 1) /\ j + 1 \in Nat \ {0}
    BY <1>1
  <2>2. Depth(s, (n + j + 1) + 1) = Depth(s, n + j + 1) + Change(s[n + j + 1])
    BY <2>1, DepthNext
  <2>3. Depth(b, (j + 1) + 1) = Depth(b, j + 1) + Change(b[j + 1]) /\ Depth(b, j + 1) \in Int
    BY <2>1, DepthNext
  <2>4. s[n + j + 1] = b[j + 1]
    BY <1>2, <2>1
  <2>5. Change(b[j + 1]) \in Int
    BY DEF Change
  <2>6. Depth(s, n + j + 1) = Depth(a, n + 1) + Depth(b, j + 1)
    BY <1>6
  <2>7. n + (j + 1) + 1 = (n + j + 1) + 1 /\ j + 1 \in 0 .. Len(b)
    BY <1>1, <2>1
  <2>8. Depth(s, n + (j + 1) + 1) = Depth(a, n + 1) + Depth(b, (j + 1) + 1)
    BY <1>4, <2>2, <2>3, <2>4, <2>5, <2>6, <2>7
  <2>9. QED
    BY <2>7, <2>8
<1> HIDE DEF S
<1>7. \A j \in 0 .. Len(b) - 1 : j \in S => j + 1 \in S
  BY <1>6
<1>8. \A j \in 0 .. Len(b) : j \in S
  BY <1>1, <1>5, <1>7, BoundedInduction
<1>9. QED
  BY <1>8 DEF S, s, n

Total(s) == Depth(s, Len(s) + 1)

\* Every parenthesis that closes has been opened, and every one that opens is
\* closed.
Balanced(s) == Total(s) = 0 /\ \A i \in 1 .. Len(s) + 1 : Depth(s, i) >= 0

LEMMA TotalConcat ==
  ASSUME NEW T, NEW a \in Seq(T), NEW b \in Seq(T)
  PROVE  Total(a \o b) = Total(a) + Total(b)
<1>1. Len(a) \in Nat /\ Len(b) \in Nat /\ Len(a \o b) = Len(a) + Len(b) /\ Len(b) \in 0 .. Len(b)
  OBVIOUS
<1>2. Depth(a \o b, Len(a) + Len(b) + 1) = Depth(a, Len(a) + 1) + Depth(b, Len(b) + 1)
  BY <1>1, DepthRight
<1>3. QED
  BY <1>1, <1>2 DEF Total

LEMMA BalancedConcat ==
  ASSUME NEW T, NEW a \in Seq(T), NEW b \in Seq(T), Balanced(a), Balanced(b)
  PROVE  Balanced(a \o b)
<1>1. Len(a) \in Nat /\ Len(b) \in Nat /\ Len(a \o b) = Len(a) + Len(b)
  OBVIOUS
<1>2. Total(a \o b) = 0
  BY TotalConcat DEF Balanced
<1>3. ASSUME NEW i \in 1 .. Len(a \o b) + 1 PROVE Depth(a \o b, i) >= 0
  <2>1. CASE i <= Len(a)
    <3>1. i \in 1 .. Len(a) + 1
      BY <1>1, <2>1
    <3>2. QED
      BY <3>1, DepthLeft DEF Balanced
  <2>2. CASE i > Len(a)
    <3> DEFINE j == i - Len(a) - 1
    <3>1. j \in 0 .. Len(b) /\ Len(a) + j + 1 = i /\ j + 1 \in 1 .. Len(b) + 1
      BY <1>1, <2>2
    <3> HIDE DEF j
    <3>2. Depth(a \o b, i) = Total(a) + Depth(b, j + 1)
      BY <3>1, DepthRight DEF Total
    <3>3. Depth(b, j + 1) >= 0 /\ Total(a) = 0
      BY <3>1 DEF Balanced
    <3>4. Depth(b, j + 1) \in Int
      <4>1. j + 1 \in Nat \ {0}
        BY <3>1
      <4>2. QED
        BY <4>1, DepthNext
    <3>5. QED
      BY <3>2, <3>3, <3>4
  <2>3. QED
    BY <1>1, <2>1, <2>2
<1>4. QED
  BY <1>2, <1>3 DEF Balanced

\* A word cuts the second of two sequences where it cut it before, when the
\* first leaves no parenthesis open.
LEMMA CutsConcat ==
  ASSUME NEW T, NEW a \in Seq(T), NEW b \in Seq(T), Total(a) = 0, NEW w
  PROVE  /\ \A i \in 1 .. Len(a) : i \in Cuts(a \o b, w) <=> i \in Cuts(a, w)
         /\ \A i \in 1 .. Len(b) : Len(a) + i \in Cuts(a \o b, w) <=> i \in Cuts(b, w)
<1>1. Len(a) \in Nat /\ Len(b) \in Nat /\ Len(a \o b) = Len(a) + Len(b)
  OBVIOUS
<1>2. ASSUME NEW i \in 1 .. Len(a) PROVE i \in Cuts(a \o b, w) <=> i \in Cuts(a, w)
  <2>1. i \in 1 .. Len(a \o b) /\ (a \o b)[i] = a[i] /\ i \in 1 .. Len(a) + 1
    BY <1>1
  <2>2. Depth(a \o b, i) = Depth(a, i)
    BY <2>1, DepthLeft
  <2>3. QED
    BY <2>1, <2>2 DEF Cuts
<1>3. ASSUME NEW i \in 1 .. Len(b) PROVE Len(a) + i \in Cuts(a \o b, w) <=> i \in Cuts(b, w)
  <2> DEFINE j == i - 1
  <2>1. Len(a) + i \in 1 .. Len(a \o b) /\ (a \o b)[Len(a) + i] = b[i]
    BY <1>1
  <2>2. j \in 0 .. Len(b) /\ j + 1 = i /\ Len(a) + j + 1 = Len(a) + i /\ i \in Nat \ {0}
    BY <1>1
  <2> HIDE DEF j
  <2>3. Depth(a \o b, Len(a) + i) = Total(a) + Depth(b, i)
    BY <2>2, DepthRight DEF Total
  <2>4. Depth(b, i) \in Int
    BY <2>2, DepthNext
  <2>5. Depth(a \o b, Len(a) + i) = Depth(b, i)
    BY <2>3, <2>4
  <2>6. QED
    BY <2>1, <2>5 DEF Cuts
<1>4. QED
  BY <1>2, <1>3

LEMMA CutsAre ==
  ASSUME NEW s, Len(s) \in Nat, NEW w
  PROVE  Cuts(s, w) \subseteq 1 .. Len(s)
BY DEF Cuts

LEMMA OneToken ==
  ASSUME NEW tok, tok.t \notin Parentheses
  PROVE  /\ Total(<<tok>>) = 0 /\ Balanced(<<tok>>)
         /\ \A w : Cuts(<<tok>>, w) = IF tok.t = w THEN {1} ELSE {}
<1> DEFINE s == <<tok>>
<1>1. Len(s) = 1 /\ s[1] = tok
  OBVIOUS
<1> HIDE DEF s
<1>2. 1 \in Nat \ {0} /\ 1 + 1 = 2
  OBVIOUS
<1>3. Change(tok) = 0
  BY DEF Change, Parentheses
<1>4. Depth(s, 1) = 0 /\ Depth(s, 2) = 0
  BY <1>1, <1>2, <1>3, DepthNext
<1>5. Total(s) = 0 /\ Balanced(s)
  <2>1. \A i \in 1 .. Len(s) + 1 : i = 1 \/ i = 2
    BY <1>1
  <2>2. QED
    BY <1>1, <1>4, <2>1 DEF Total, Balanced
<1>6. \A w : Cuts(s, w) = IF tok.t = w THEN {1} ELSE {}
  <2>1. 1 .. Len(s) = {1}
    BY <1>1
  <2>2. QED
    BY <1>1, <1>4, <2>1 DEF Cuts
<1>7. QED
  BY <1>5, <1>6 DEF s

-----------------------------------------------------------------------------
(* The parts of a sequence.                                                *)

Ends(s, w) == {0, Len(s) + 1} \cup Cuts(s, w)

\* No w stands between the ends i and j.
Adjacent(s, w, i, j) ==
    /\ i \in Ends(s, w) /\ j \in Ends(s, w) /\ i < j
    /\ \A k \in Cuts(s, w) : k <= i \/ j <= k

LEMMA PartsAre ==
  ASSUME NEW T, NEW s \in Seq(T), NEW w, NEW p
  PROVE  p \in Parts(s, w) <=>
           \E i \in Ends(s, w), j \in Ends(s, w) :
              Adjacent(s, w, i, j) /\ p = SubSeq(s, i + 1, j - 1)
<1>1. Ends(s, w) \subseteq Int /\ Cuts(s, w) \subseteq Int
  BY CutsAre DEF Ends
<1>2. \A i, j \in Int : (\A k \in Cuts(s, w) : k \notin i + 1 .. j - 1) <=> \A k \in Cuts(s, w) : k <= i \/ j <= k
  BY <1>1
<1> DEFINE E == Ends(s, w)
           A == {q \in E \X E : q[1] < q[2] /\ \A k \in Cuts(s, w) : k \notin q[1] + 1 .. q[2] - 1}
<1>3. Parts(s, w) = {SubSeq(s, q[1] + 1, q[2] - 1) : q \in A}
  BY DEF Parts, Ends
<1>4. \A i, j \in E : <<i, j>> \in A <=> Adjacent(s, w, i, j)
  BY <1>1, <1>2 DEF Adjacent
<1>5. \A q \in A : q = <<q[1], q[2]>> /\ q[1] \in E /\ q[2] \in E
  OBVIOUS
<1> HIDE DEF A, E
<1>6. ASSUME p \in Parts(s, w)
      PROVE  \E i \in E, j \in E : Adjacent(s, w, i, j) /\ p = SubSeq(s, i + 1, j - 1)
  <2>1. PICK q \in A : p = SubSeq(s, q[1] + 1, q[2] - 1)
    BY <1>3, <1>6
  <2>2. Adjacent(s, w, q[1], q[2])
    BY <1>4, <1>5
  <2>3. QED
    BY <1>5, <2>1, <2>2
<1>7. ASSUME NEW i \in E, NEW j \in E, Adjacent(s, w, i, j), p = SubSeq(s, i + 1, j - 1)
      PROVE  p \in Parts(s, w)
  <2> DEFINE q == <<i, j>>
  <2>1. q \in A
    BY <1>4, <1>7
  <2>2. q[1] = i /\ q[2] = j
    OBVIOUS
  <2> HIDE DEF q
  <2>3. p = SubSeq(s, q[1] + 1, q[2] - 1)
    BY <1>7, <2>2
  <2>4. QED
    BY <1>3, <2>1, <2>3
<1>8. QED
  BY <1>6, <1>7 DEF E

\* A sequence in which w does not stand is its only part.
LEMMA PartsWhole ==
  ASSUME NEW T, NEW s \in Seq(T), NEW w, Cuts(s, w) = {}
  PROVE  Parts(s, w) = {s}
<1>1. Len(s) \in Nat /\ SubSeq(s, 1, Len(s)) = s
  BY SubSeqFull
<1>2. Ends(s, w) = {0, Len(s) + 1}
  BY DEF Ends
<1>3. \A i, j : Adjacent(s, w, i, j) <=> i = 0 /\ j = Len(s) + 1
  BY <1>1, <1>2 DEF Adjacent
<1>4. 0 + 1 = 1 /\ (Len(s) + 1) - 1 = Len(s)
  BY <1>1
<1>5. ASSUME NEW p PROVE p \in Parts(s, w) <=> p = s
  <2>1. p \in Parts(s, w) <=>
           \E i \in Ends(s, w), j \in Ends(s, w) :
              Adjacent(s, w, i, j) /\ p = SubSeq(s, i + 1, j - 1)
    BY PartsAre
  <2>2. 0 \in Ends(s, w) /\ Len(s) + 1 \in Ends(s, w)
    BY <1>2
  <2>3. SubSeq(s, 0 + 1, (Len(s) + 1) - 1) = s
    BY <1>1, <1>4
  <2>4. ASSUME p \in Parts(s, w) PROVE p = s
    <3>1. PICK i \in Ends(s, w), j \in Ends(s, w) : Adjacent(s, w, i, j) /\ p = SubSeq(s, i + 1, j - 1)
      BY <2>1, <2>4
    <3>2. i = 0 /\ j = Len(s) + 1
      BY <1>3, <3>1
    <3>3. QED
      BY <2>3, <3>1, <3>2
  <2>5. ASSUME p = s PROVE p \in Parts(s, w)
    <3>1. Adjacent(s, w, 0, Len(s) + 1)
      BY <1>3
    <3>2. QED
      BY <2>1, <2>2, <2>3, <2>5, <3>1
  <2>6. QED
    BY <2>4, <2>5
<1>6. QED
  BY <1>5

LEMMA CutsSplit ==
  ASSUME NEW T, NEW a \in Seq(T), NEW b \in Seq(T), NEW tok \in T,
         tok.t \notin Parentheses, Total(a) = 0
  PROVE  LET s == a \o (<<tok>> \o b)
             n == Len(a) + 1
         IN  \A i \in Int :
                i \in Cuts(s, tok.t) <=> i \in Cuts(a, tok.t) \/ i = n \/ i - n \in Cuts(b, tok.t)
<1> DEFINE x == <<tok>>
           c == x \o b
           s == a \o c
           n == Len(a) + 1
           w == tok.t
<1>1. x \in Seq(T) /\ Len(x) = 1
  OBVIOUS
<1>2. Total(x) = 0 /\ Cuts(x, w) = {1}
  BY OneToken
<1> HIDE DEF x
<1>3. c \in Seq(T) /\ Len(c) = Len(b) + 1 /\ Len(a) \in Nat /\ Len(b) \in Nat
  <2>1. c \in Seq(T) /\ Len(c) = Len(x) + Len(b)
    BY <1>1, ConcatProperties
  <2>2. Len(a) \in Nat /\ Len(b) \in Nat
    OBVIOUS
  <2>3. QED
    BY <1>1, <2>1, <2>2
<1>4. /\ \A i \in 1 .. Len(x) : i \in Cuts(c, w) <=> i \in Cuts(x, w)
      /\ \A i \in 1 .. Len(b) : Len(x) + i \in Cuts(c, w) <=> i \in Cuts(b, w)
  BY <1>1, <1>2, CutsConcat
<1> HIDE DEF c
<1>5. s \in Seq(T) /\ Len(s) = Len(a) + Len(c)
  BY <1>3, ConcatProperties
<1>6. /\ \A i \in 1 .. Len(a) : i \in Cuts(s, w) <=> i \in Cuts(a, w)
      /\ \A i \in 1 .. Len(c) : Len(a) + i \in Cuts(s, w) <=> i \in Cuts(c, w)
  BY <1>3, CutsConcat
<1> HIDE DEF s, w
<1>7. Cuts(s, w) \subseteq 1 .. Len(s) /\ Cuts(a, w) \subseteq 1 .. Len(a) /\ Cuts(b, w) \subseteq 1 .. Len(b)
  BY DEF Cuts
<1>8. ASSUME NEW i \in Int
      PROVE  i \in Cuts(s, w) <=> i \in Cuts(a, w) \/ i = n \/ i - n \in Cuts(b, w)
  <2>1. CASE i \in 1 .. Len(a)
    BY <1>3, <1>6, <1>7, <2>1
  <2>2. CASE i = n
    <3>1. 1 \in Cuts(c, w)
      BY <1>1, <1>2, <1>4
    <3>2. QED
      BY <1>3, <1>6, <2>2, <3>1
  <2>3. CASE i \in n + 1 .. n + Len(b)
    <3> DEFINE j == i - n
    <3>1. j \in 1 .. Len(b) /\ 1 + j \in 1 .. Len(c) /\ Len(a) + (1 + j) = i
      BY <1>3, <2>3
    <3> HIDE DEF j
    <3>2. i \in Cuts(s, w) <=> j \in Cuts(b, w)
      BY <1>1, <1>4, <1>6, <3>1
    <3>3. i \notin Cuts(a, w) /\ i # n
      BY <1>3, <1>7, <2>3
    <3>4. QED
      BY <3>2, <3>3 DEF j
  <2>4. CASE i \notin 1 .. n + Len(b)
    <3>1. i \notin Cuts(s, w) /\ i \notin Cuts(a, w) /\ i # n /\ i - n \notin Cuts(b, w)
      BY <1>3, <1>5, <1>7, <2>4
    <3>2. QED
      BY <3>1
  <2>5. QED
    BY <1>3, <2>1, <2>2, <2>3, <2>4
<1>9. QED
  BY <1>8 DEF s, c, x, w

LEMMA AdjacentSplit ==
  ASSUME NEW T, NEW a \in Seq(T), NEW b \in Seq(T), NEW tok \in T,
         tok.t \notin Parentheses, Total(a) = 0
  PROVE  LET s == a \o (<<tok>> \o b)
             n == Len(a) + 1
         IN  /\ s \in Seq(T) /\ Len(s) = n + Len(b)
             /\ \A i, j \in Int :
                  Adjacent(s, tok.t, i, j) <=>
                    \/ Adjacent(a, tok.t, i, j)
                    \/ Adjacent(b, tok.t, i - n, j - n)
<1> DEFINE x == <<tok>>
           c == x \o b
           s == a \o c
           n == Len(a) + 1
           w == tok.t
<1>1. s \in Seq(T) /\ Len(s) = n + Len(b)
  <2>1. x \in Seq(T) /\ Len(x) = 1
    OBVIOUS
  <2> HIDE DEF x
  <2>2. c \in Seq(T) /\ Len(c) = Len(x) + Len(b)
    BY <2>1, ConcatProperties
  <2> HIDE DEF c
  <2>3. s \in Seq(T) /\ Len(s) = Len(a) + Len(c)
    BY <2>2, ConcatProperties
  <2>4. Len(a) \in Nat /\ Len(b) \in Nat
    OBVIOUS
  <2>5. QED
    BY <2>1, <2>2, <2>3, <2>4
<1>2. \A i \in Int : i \in Cuts(s, w) <=> i \in Cuts(a, w) \/ i = n \/ i - n \in Cuts(b, w)
  BY CutsSplit
<1>3. Len(a) \in Nat /\ Len(b) \in Nat
  OBVIOUS
<1> HIDE DEF s, w
<1>4. Cuts(s, w) \subseteq 1 .. Len(s) /\ Cuts(a, w) \subseteq 1 .. Len(a) /\ Cuts(b, w) \subseteq 1 .. Len(b)
  BY DEF Cuts
<1> DEFINE C == Cuts(s, w)
           A == Cuts(a, w)
           B == Cuts(b, w)
<1>5. \A i, j \in Int : Adjacent(s, w, i, j) <=>
        /\ i \in {0, Len(s) + 1} \cup C /\ j \in {0, Len(s) + 1} \cup C /\ i < j
        /\ \A k \in C : k <= i \/ j <= k
  BY DEF Adjacent, Ends
<1>6. \A i, j \in Int : Adjacent(a, w, i, j) <=>
        /\ i \in {0, n} \cup A /\ j \in {0, n} \cup A /\ i < j
        /\ \A k \in A : k <= i \/ j <= k
  BY DEF Adjacent, Ends
<1>7. \A i, j \in Int : Adjacent(b, w, i, j) <=>
        /\ i \in {0, Len(b) + 1} \cup B /\ j \in {0, Len(b) + 1} \cup B /\ i < j
        /\ \A k \in B : k <= i \/ j <= k
  BY DEF Adjacent, Ends
<1>8. n \in Int /\ n = Len(a) + 1
  BY <1>3
<1> DEFINE la == Len(a)
           lb == Len(b)
           ls == Len(s)
<1>9. la \in Nat /\ lb \in Nat /\ ls = n + lb /\ C \subseteq 1 .. ls /\ A \subseteq 1 .. la /\ B \subseteq 1 .. lb /\ n = la + 1
  BY <1>1, <1>3, <1>4
<1>10. \A i \in Int : i \in C <=> i \in A \/ i = n \/ i - n \in B
  BY <1>2
<1> HIDE DEF C, A, B, la, lb, ls, n
<1>11. ASSUME NEW i \in Int, NEW j \in Int, Adjacent(s, w, i, j)
       PROVE  Adjacent(a, w, i, j) \/ Adjacent(b, w, i - n, j - n)
  <2>1. /\ i \in {0, ls + 1} \cup C /\ j \in {0, ls + 1} \cup C /\ i < j
        /\ \A k \in C : k <= i \/ j <= k
    BY <1>5, <1>11 DEF ls
  <2>2. n \in C
    BY <1>8, <1>10
  <2>3. CASE j <= n
    <3>4. \A k \in {0, ls + 1} \cup C : k \in Int /\ (k <= n => k = 0 \/ k = n \/ k \in A)
      <4>1. ASSUME NEW k \in C PROVE k \in Int /\ (k <= n => k = n \/ k \in A)
        <5>1. k \in Int /\ (k \in A \/ k = n \/ k - n \in B)
          BY <1>9, <1>10
        <5>2. k - n \in B => k > n
          BY <1>8, <1>9, <5>1
        <5>3. QED
          BY <1>8, <5>1, <5>2
      <4>2. ls + 1 \in Int /\ ls + 1 > n
        BY <1>8, <1>9
      <4>3. QED
        BY <1>8, <4>1, <4>2
    <3>5. i <= n
      BY <1>8, <2>1, <2>3
    <3>1. i \in {0, n} \cup A /\ j \in {0, n} \cup A
      BY <2>1, <2>3, <3>4, <3>5
    <3>2. \A k \in A : k \in C
      BY <1>9, <1>10
    <3>3. QED
      BY <1>6, <2>1, <3>1, <3>2
  <2>4. CASE n <= i
    <3>1. i - n \in {0, lb + 1} \cup B /\ j - n \in {0, lb + 1} \cup B /\ i - n < j - n
      BY <1>8, <1>9, <1>10, <2>1, <2>4
    <3>2. \A k \in B : k + n \in C
      BY <1>8, <1>9, <1>10
    <3>3. \A k \in B : k <= i - n \/ j - n <= k
      BY <1>8, <1>9, <2>1, <3>2
    <3>4. QED
      BY <1>7, <1>8, <3>1, <3>3 DEF lb
  <2>5. QED
    BY <2>1, <2>2, <2>3, <2>4
<1>12. ASSUME NEW i \in Int, NEW j \in Int, Adjacent(a, w, i, j)
       PROVE  Adjacent(s, w, i, j)
  <2>1. /\ i \in {0, n} \cup A /\ j \in {0, n} \cup A /\ i < j
        /\ \A k \in A : k <= i \/ j <= k
    BY <1>6, <1>12
  <2>2. i \in {0, ls + 1} \cup C /\ j \in {0, ls + 1} \cup C
    BY <1>8, <1>9, <1>10, <2>1
  <2>3. ASSUME NEW k \in C PROVE k <= i \/ j <= k
    <3>1. k \in A \/ k = n \/ k - n \in B
      BY <1>9, <1>10
    <3>2. CASE k \in A
      BY <2>1, <3>2
    <3>3. CASE k \notin A
      <4>1. k >= n
        BY <1>8, <1>9, <3>1, <3>3
      <4>2. j <= n
        BY <1>8, <1>9, <2>1
      <4>3. QED
        BY <1>8, <1>9, <4>1, <4>2
    <3>4. QED
      BY <3>2, <3>3
  <2>4. QED
    BY <1>5, <2>1, <2>2, <2>3 DEF ls
<1>13. ASSUME NEW i \in Int, NEW j \in Int, Adjacent(b, w, i - n, j - n)
       PROVE  Adjacent(s, w, i, j)
  <2>1. /\ i - n \in {0, lb + 1} \cup B /\ j - n \in {0, lb + 1} \cup B /\ i - n < j - n
        /\ \A k \in B : k <= i - n \/ j - n <= k
    BY <1>7, <1>8, <1>13 DEF lb
  <2>2. i \in {0, ls + 1} \cup C /\ j \in {0, ls + 1} \cup C /\ i < j /\ n <= i
    BY <1>8, <1>9, <1>10, <2>1
  <2>3. ASSUME NEW k \in C PROVE k <= i \/ j <= k
    <3>1. k \in A \/ k = n \/ k - n \in B
      BY <1>9, <1>10
    <3>2. CASE k - n \in B
      BY <1>8, <1>9, <2>1, <3>2
    <3>3. CASE k - n \notin B
      BY <1>8, <1>9, <2>2, <3>1, <3>3
    <3>4. QED
      BY <3>2, <3>3
  <2>4. QED
    BY <1>5, <2>2, <2>3 DEF ls
<1>14. \A i, j \in Int : Adjacent(s, w, i, j) <=> Adjacent(a, w, i, j) \/ Adjacent(b, w, i - n, j - n)
  BY <1>11, <1>12, <1>13
<1>15. QED
  BY <1>1, <1>14 DEF s, c, x, w, n

\* A w between two sequences in which no parenthesis is left open cuts one from
\* the other.
LEMMA PartsSplit ==
  ASSUME NEW T, NEW a \in Seq(T), NEW b \in Seq(T), NEW tok \in T,
         tok.t \notin Parentheses, Total(a) = 0
  PROVE  Parts(a \o (<<tok>> \o b), tok.t) = Parts(a, tok.t) \cup Parts(b, tok.t)
<1> DEFINE x == <<tok>>
           c == x \o b
           s == a \o c
           n == Len(a) + 1
           w == tok.t
<1>1. s \in Seq(T) /\ Len(s) = n + Len(b)
  BY AdjacentSplit
<1>2. \A i, j \in Int : Adjacent(s, w, i, j) <=> Adjacent(a, w, i, j) \/ Adjacent(b, w, i - n, j - n)
  BY AdjacentSplit
<1>3. Len(a) \in Nat /\ Len(b) \in Nat /\ n \in Int
  OBVIOUS
<1>4. x \in Seq(T) /\ Len(x) = 1
  OBVIOUS
<1> HIDE DEF x
<1>5. c \in Seq(T) /\ Len(c) = Len(b) + 1
  <2>1. c \in Seq(T) /\ Len(c) = Len(x) + Len(b)
    BY <1>4, ConcatProperties
  <2>2. QED
    BY <1>3, <1>4, <2>1
<1>6. \A k \in 1 .. Len(b) : c[k + 1] = b[k]
  <2>1. \A k \in 1 .. Len(x) + Len(b) : c[k] = IF k <= Len(x) THEN x[k] ELSE b[k - Len(x)]
    BY <1>4, ConcatProperties
  <2>2. ASSUME NEW k \in 1 .. Len(b) PROVE c[k + 1] = b[k]
    <3>1. k + 1 \in 1 .. Len(x) + Len(b) /\ ~(k + 1 <= Len(x)) /\ (k + 1) - Len(x) = k
      BY <1>3, <1>4
    <3>2. QED
      BY <2>1, <3>1
  <2>3. QED
    BY <2>2
<1> HIDE DEF c
<1>7. \A k \in 1 .. Len(a) : s[k] = a[k]
  <2>1. \A k \in 1 .. Len(a) + Len(c) : s[k] = IF k <= Len(a) THEN a[k] ELSE c[k - Len(a)]
    BY <1>5, ConcatProperties
  <2>2. QED
    BY <1>3, <1>5, <2>1
<1>8. \A k \in 1 .. Len(b) : s[k + n] = b[k]
  <2>1. \A k \in 1 .. Len(a) + Len(c) : s[k] = IF k <= Len(a) THEN a[k] ELSE c[k - Len(a)]
    BY <1>5, ConcatProperties
  <2>2. ASSUME NEW k \in 1 .. Len(b) PROVE s[k + n] = b[k]
    <3>1. k + n \in 1 .. Len(a) + Len(c) /\ ~(k + n <= Len(a)) /\ (k + n) - Len(a) = k + 1
      BY <1>3, <1>5
    <3>2. QED
      BY <1>6, <2>1, <3>1
  <2>3. QED
    BY <2>2
<1> HIDE DEF s, w, n
<1>9. \A i, j : Adjacent(s, w, i, j) => i \in 0 .. Len(s) + 1 /\ j \in 0 .. Len(s) + 1
  BY <1>1, CutsAre DEF Adjacent, Ends
<1>10. \A i, j : Adjacent(a, w, i, j) => i \in 0 .. n /\ j \in 0 .. n /\ i < j
  BY <1>3, CutsAre DEF Adjacent, Ends, n
<1>11. \A i, j : Adjacent(b, w, i, j) => i \in 0 .. Len(b) + 1 /\ j \in 0 .. Len(b) + 1 /\ i < j
  BY <1>3, CutsAre DEF Adjacent, Ends
<1>12. ASSUME NEW i, NEW j, Adjacent(a, w, i, j)
       PROVE  SubSeq(s, i + 1, j - 1) = SubSeq(a, i + 1, j - 1)
  <2> DEFINE p == SubSeq(s, i + 1, j - 1)
             q == SubSeq(a, i + 1, j - 1)
  <2>1. i \in 0 .. n /\ j \in 0 .. n /\ i < j
    BY <1>10, <1>12
  <2>2. i + 1 \in Int /\ j - 1 \in Int /\ \A k \in (i + 1) .. (j - 1) : k \in 1 .. Len(a)
    BY <1>3, <2>1 DEF n
  <2>3. \A k \in (i + 1) .. (j - 1) : s[k] = a[k] /\ a[k] \in T
    BY <1>7, <2>2, ElementOfSeq
  <2>4. /\ p \in Seq(T) /\ Len(p) = (IF i + 1 <= j - 1 THEN (j - 1) - (i + 1) + 1 ELSE 0)
        /\ \A k \in 1 .. (j - 1) - (i + 1) + 1 : p[k] = s[(i + 1) + k - 1]
    BY <2>2, <2>3, SubSeqProperties
  <2>5. /\ q \in Seq(T) /\ Len(q) = (IF i + 1 <= j - 1 THEN (j - 1) - (i + 1) + 1 ELSE 0)
        /\ \A k \in 1 .. (j - 1) - (i + 1) + 1 : q[k] = a[(i + 1) + k - 1]
    BY <2>2, <2>3, SubSeqProperties
  <2> HIDE DEF p, q
  <2>6. ASSUME NEW k \in 1 .. Len(p) PROVE p[k] = q[k]
    <3>1. k \in 1 .. (j - 1) - (i + 1) + 1 /\ (i + 1) + k - 1 \in (i + 1) .. (j - 1)
      BY <2>2, <2>4
    <3>2. QED
      BY <2>3, <2>4, <2>5, <3>1
  <2>7. p = q
    BY <2>4, <2>5, <2>6, SeqEqual
  <2>8. QED
    BY <2>7 DEF p, q
<1>13. ASSUME NEW i, NEW j, Adjacent(b, w, i, j)
       PROVE  SubSeq(s, (i + n) + 1, (j + n) - 1) = SubSeq(b, i + 1, j - 1)
  <2> DEFINE u == (i + n) + 1
             v == (j + n) - 1
             p == SubSeq(s, u, v)
             q == SubSeq(b, i + 1, j - 1)
  <2>1. i \in 0 .. Len(b) + 1 /\ j \in 0 .. Len(b) + 1 /\ i < j
    BY <1>11, <1>13
  <2>2. i + 1 \in Int /\ j - 1 \in Int /\ \A k \in (i + 1) .. (j - 1) : k \in 1 .. Len(b)
    BY <1>3, <2>1
  <2>3. u \in Int /\ v \in Int /\ u = (i + 1) + n /\ v = (j - 1) + n
    BY <1>3, <2>1
  <2> HIDE DEF u, v
  <2>9. \A k \in (i + 1) .. (j - 1) : b[k] \in T
    BY <2>2, ElementOfSeq
  <2>10. \A k \in u .. v : s[k] \in T
    <3>1. ASSUME NEW k \in u .. v PROVE s[k] \in T
      <4>1. k - n \in (i + 1) .. (j - 1) /\ (k - n) + n = k
        BY <1>3, <2>2, <2>3
      <4>2. QED
        BY <1>8, <2>2, <2>9, <4>1
    <3>2. QED
      BY <3>1
  <2>4. /\ p \in Seq(T) /\ Len(p) = (IF u <= v THEN v - u + 1 ELSE 0)
        /\ \A k \in 1 .. v - u + 1 : p[k] = s[u + k - 1]
    BY <2>3, <2>10, SubSeqProperties
  <2>5. /\ q \in Seq(T) /\ Len(q) = (IF i + 1 <= j - 1 THEN (j - 1) - (i + 1) + 1 ELSE 0)
        /\ \A k \in 1 .. (j - 1) - (i + 1) + 1 : q[k] = b[(i + 1) + k - 1]
    BY <2>2, <2>9, SubSeqProperties
  <2> HIDE DEF p, q
  <2>6. ASSUME NEW k \in 1 .. Len(p) PROVE p[k] = q[k]
    <3>1. /\ k \in 1 .. (j - 1) - (i + 1) + 1 /\ (i + 1) + k - 1 \in (i + 1) .. (j - 1)
          /\ k \in 1 .. v - u + 1 /\ u + k - 1 = ((i + 1) + k - 1) + n
      <4>1. u <= v /\ k \in Int /\ 1 <= k /\ k <= v - u + 1
        BY <2>3, <2>4
      <4>2. v - u = (j - 1) - (i + 1)
        BY <1>3, <2>2, <2>3
      <4>3. i + 1 \in Int /\ j - 1 \in Int /\ (i + 1) + n = u
        BY <2>2, <2>3
      <4> DEFINE e == i + 1
                 f == j - 1
      <4>4. e \in Int /\ f \in Int /\ e + n = u /\ v - u = f - e
        BY <4>2, <4>3
      <4> HIDE DEF e, f
      <4>5. k \in 1 .. f - e + 1 /\ e + k - 1 \in e .. f /\ k \in 1 .. v - u + 1 /\ u + k - 1 = (e + k - 1) + n
        BY <1>3, <2>3, <4>1, <4>4
      <4>6. QED
        BY <4>5 DEF e, f
    <3>2. QED
      BY <1>8, <2>2, <2>4, <2>5, <3>1
  <2>11. Len(p) = Len(q)
    BY <1>3, <2>2, <2>3, <2>4, <2>5
  <2>7. p = q
    BY <2>4, <2>5, <2>6, <2>11, SeqEqual
  <2>8. QED
    BY <2>7 DEF p, q, u, v
<1>14. ASSUME NEW p \in Parts(s, w) PROVE p \in Parts(a, w) \cup Parts(b, w)
  <2>1. PICK i \in Ends(s, w), j \in Ends(s, w) : Adjacent(s, w, i, j) /\ p = SubSeq(s, i + 1, j - 1)
    BY <1>1, PartsAre
  <2>2. i \in Int /\ j \in Int
    BY <1>9, <2>1
  <2>3. CASE Adjacent(a, w, i, j)
    <3>1. i \in Ends(a, w) /\ j \in Ends(a, w) /\ p = SubSeq(a, i + 1, j - 1)
      BY <1>12, <2>1, <2>3 DEF Adjacent
    <3>2. p \in Parts(a, w)
      BY <2>3, <3>1, PartsAre
    <3>3. QED
      BY <3>2
  <2>4. CASE Adjacent(b, w, i - n, j - n)
    <3> DEFINE f == i - n
               g == j - n
    <3>1. f + n = i /\ g + n = j
      BY <1>3, <2>2
    <3> HIDE DEF f, g
    <3>2. Adjacent(b, w, f, g)
      BY <2>4 DEF f, g
    <3>3. f \in Ends(b, w) /\ g \in Ends(b, w) /\ p = SubSeq(b, f + 1, g - 1)
      BY <1>13, <2>1, <3>1, <3>2 DEF Adjacent
    <3>4. p \in Parts(b, w)
      BY <3>2, <3>3, PartsAre
    <3>5. QED
      BY <3>4
  <2>5. QED
    BY <1>2, <2>1, <2>2, <2>3, <2>4
<1>15. ASSUME NEW p \in Parts(a, w) PROVE p \in Parts(s, w)
  <2>1. PICK i \in Ends(a, w), j \in Ends(a, w) : Adjacent(a, w, i, j) /\ p = SubSeq(a, i + 1, j - 1)
    BY PartsAre
  <2>2. i \in Int /\ j \in Int
    BY <1>10, <2>1
  <2>3. Adjacent(s, w, i, j) /\ p = SubSeq(s, i + 1, j - 1)
    BY <1>2, <1>12, <2>1, <2>2
  <2>4. QED
    BY <1>1, <2>3, PartsAre DEF Adjacent
<1>16. ASSUME NEW p \in Parts(b, w) PROVE p \in Parts(s, w)
  <2>1. PICK i \in Ends(b, w), j \in Ends(b, w) : Adjacent(b, w, i, j) /\ p = SubSeq(b, i + 1, j - 1)
    BY PartsAre
  <2>2. i \in Int /\ j \in Int
    BY <1>11, <2>1
  <2> DEFINE f == i + n
             g == j + n
  <2>3. f \in Int /\ g \in Int /\ f - n = i /\ g - n = j
    BY <1>3, <2>2
  <2>4. p = SubSeq(s, f + 1, g - 1)
    BY <1>13, <2>1
  <2> HIDE DEF f, g
  <2>5. Adjacent(s, w, f, g)
    BY <1>2, <2>1, <2>3
  <2>6. QED
    BY <1>1, <2>4, <2>5, PartsAre DEF Adjacent
<1>17. Parts(s, w) = Parts(a, w) \cup Parts(b, w)
  BY <1>14, <1>15, <1>16
<1>18. QED
  BY <1>17 DEF s, c, x, w

-----------------------------------------------------------------------------
(* Groups.                                                                 *)

Open == <<Word("(")>>
Close == <<Word(")")>>

LEMMA OpenClose ==
  /\ Len(Open) = 1 /\ Open[1] = Word("(") /\ Len(Close) = 1 /\ Close[1] = Word(")")
  /\ Depth(Open, 1) = 0 /\ Depth(Open, 2) = 1
  /\ Depth(Close, 1) = 0 /\ Depth(Close, 2) = -1
<1>1. /\ Len(Open) = 1 /\ Open[1] = Word("(") /\ Len(Close) = 1 /\ Close[1] = Word(")")
  BY DEF Open, Close
<1>2. Change(Word("(")) = 1 /\ Change(Word(")")) = -1
  BY DEF Change, Word
<1>3. 1 \in Nat \ {0} /\ 1 + 1 = 2
  OBVIOUS
<1>4. Depth(Open, 1) = 0 /\ Depth(Open, 2) = 1
  BY <1>1, <1>2, <1>3, DepthNext
<1>5. Depth(Close, 1) = 0 /\ Depth(Close, 2) = -1
  BY <1>1, <1>2, <1>3, DepthNext
<1>6. QED
  BY <1>1, <1>4, <1>5

\* Nothing is cut inside parentheses.
Group(s) == Open \o (s \o Close)

LEMMA GroupIs ==
  ASSUME NEW T, NEW s \in Seq(T), Balanced(s), Word("(") \in T, Word(")") \in T
  PROVE  /\ Group(s) \in Seq(T) /\ Group(s) # << >>
         /\ Group(s)[1] = Word("(")
         /\ SubSeq(Group(s), 2, Len(Group(s)) - 1) = s
         /\ Balanced(Group(s))
         /\ \A w : w \notin Parentheses => Cuts(Group(s), w) = {}
<1> DEFINE b == s \o Close
           g == Open \o b
           n == Len(s)
<1>1. Open \in Seq(T) /\ Close \in Seq(T)
  BY DEF Open, Close
<1>2. b \in Seq(T) /\ Len(b) = n + 1 /\ n \in Nat
  BY <1>1, OpenClose, ConcatProperties, LenProperties
<1>3. \A k \in 1 .. n + 1 : b[k] = IF k <= n THEN s[k] ELSE Close[k - n]
  BY <1>1, OpenClose, ConcatProperties
<1>4. Depth(s, n + 1) = 0 /\ \A i \in 1 .. n + 1 : Depth(s, i) >= 0 /\ Depth(s, i) \in Int
  <2>1. \A i \in 1 .. n + 1 : i \in Nat \ {0}
    OBVIOUS
  <2>2. QED
    BY <2>1, DepthNext DEF Balanced, Total
<1>5. \A i \in 1 .. n + 1 : Depth(b, i) = Depth(s, i)
  BY <1>1, DepthLeft
<1>6. Depth(b, n + 2) = -1
  <2>1. 1 \in 0 .. Len(Close) /\ n + 1 + 1 = n + 2 /\ 1 + 1 = 2
    BY <1>2, OpenClose
  <2>2. Depth(b, n + 1 + 1) = Depth(s, n + 1) + Depth(Close, 1 + 1)
    BY <1>1, <2>1, DepthRight
  <2>3. QED
    BY <1>4, <2>1, <2>2, OpenClose
<1> HIDE DEF b
<1>7. g \in Seq(T) /\ Len(g) = n + 2
  <2>1. g \in Seq(T) /\ Len(g) = Len(Open) + Len(b)
    BY <1>1, <1>2, ConcatProperties
  <2>2. QED
    BY <1>2, <2>1, OpenClose
<1>8. \A k \in 1 .. n + 2 : g[k] = IF k <= 1 THEN Open[k] ELSE b[k - 1]
  <2>1. \A k \in 1 .. Len(Open) + Len(b) : g[k] = IF k <= Len(Open) THEN Open[k] ELSE b[k - Len(Open)]
    BY <1>1, <1>2, ConcatProperties
  <2>2. Len(Open) = 1 /\ Len(Open) + Len(b) = n + 2
    BY <1>2, OpenClose
  <2> HIDE DEF g, n
  <2>3. QED
    BY <2>1, <2>2
<1>9. \A i \in 1 .. n + 2 : Depth(g, i + 1) = 1 + Depth(b, i)
  <2>1. ASSUME NEW i \in 1 .. n + 2 PROVE Depth(g, i + 1) = 1 + Depth(b, i)
    <3> DEFINE j == i - 1
    <3>1. j \in 0 .. Len(b) /\ 1 + j + 1 = i + 1 /\ j + 1 = i
      BY <1>2
    <3> HIDE DEF j
    <3>2. Depth(g, Len(Open) + j + 1) = Depth(Open, Len(Open) + 1) + Depth(b, j + 1)
      BY <1>1, <1>2, <3>1, DepthRight
    <3>3. QED
      BY <3>1, <3>2, OpenClose
  <2>2. QED
    BY <2>1
<1>10. Depth(g, 1) = 0
  <2>1. 1 \in Nat \ {0}
    OBVIOUS
  <2>2. QED
    BY <2>1, DepthNext
<1>11. g[1] = Word("(") /\ g[n + 2] = Word(")")
  <2>1. g[1] = Open[1]
    BY <1>2, <1>8
  <2>2. g[n + 2] = b[n + 1]
    <3>1. n + 2 \in 1 .. n + 2 /\ ~(n + 2 <= 1) /\ (n + 2) - 1 = n + 1
      BY <1>2
    <3> HIDE DEF g, n
    <3>2. QED
      BY <1>8, <3>1
  <2>3. b[n + 1] = Close[1]
    BY <1>2, <1>3
  <2>4. QED
    BY <2>1, <2>2, <2>3, OpenClose
<1> HIDE DEF g
<1>12. \A i \in 2 .. n + 2 : Depth(g, i) >= 1
  <2>1. ASSUME NEW i \in 2 .. n + 2 PROVE Depth(g, i) >= 1
    <3> DEFINE j == i - 1
    <3>1. j \in 1 .. n + 1 /\ j \in 1 .. n + 2 /\ j + 1 = i
      BY <1>2
    <3> HIDE DEF j
    <3>2. Depth(g, i) = 1 + Depth(s, j) /\ Depth(s, j) >= 0 /\ Depth(s, j) \in Int
      BY <1>4, <1>5, <1>9, <3>1
    <3>3. QED
      BY <3>2
  <2>2. QED
    BY <2>1
<1>13. Depth(g, n + 3) = 0
  <2>1. n + 2 \in 1 .. n + 2 /\ (n + 2) + 1 = n + 3
    BY <1>2
  <2>2. QED
    BY <1>6, <1>9, <2>1
<1>14. Balanced(g)
  <2>1. Total(g) = 0
    BY <1>2, <1>7, <1>13 DEF Total
  <2>2. ASSUME NEW i \in 1 .. Len(g) + 1 PROVE Depth(g, i) >= 0
    <3>1. i = 1 \/ i \in 2 .. n + 2 \/ i = n + 3
      BY <1>2, <1>7
    <3>2. i \in 2 .. n + 2 => Depth(g, i) \in Int
      <4>1. i \in Nat \ {0}
        BY <1>7
      <4>2. QED
        BY <4>1, DepthNext
    <3>3. QED
      BY <1>10, <1>12, <1>13, <3>1, <3>2
  <2>3. QED
    BY <2>1, <2>2 DEF Balanced
<1>15. ASSUME NEW w, w \notin Parentheses PROVE Cuts(g, w) = {}
  <2>1. ASSUME NEW i \in 1 .. n + 2 PROVE ~(g[i].t = w /\ Depth(g, i) = 0)
    <3>1. CASE i = 1
      BY <1>11, <1>15, <3>1 DEF Parentheses, Word
    <3>2. CASE i # 1
      <4>1. i \in 2 .. n + 2
        BY <1>2, <3>2
      <4>2. QED
        BY <1>12, <4>1
    <3>3. QED
      BY <3>1, <3>2
  <2>2. QED
    BY <1>7, <2>1 DEF Cuts
<1>16. SubSeq(g, 2, Len(g) - 1) = s
  <2> DEFINE m == n + 1
             p == SubSeq(g, 2, m)
  <2>1. \A k \in 2 .. m : g[k] \in T
    BY <1>2, <1>7, ElementOfSeq
  <2>2. m \in Int /\ 2 \in Int /\ m - 2 + 1 = n /\ Len(g) - 1 = m
    BY <1>2, <1>7
  <2> HIDE DEF m
  <2>3. /\ p \in Seq(T) /\ Len(p) = IF 2 <= m THEN m - 2 + 1 ELSE 0
        /\ \A k \in 1 .. m - 2 + 1 : p[k] = g[2 + k - 1]
    BY <2>1, <2>2, SubSeqProperties
  <2> HIDE DEF p
  <2>4. Len(p) = n
    BY <1>2, <2>2, <2>3
  <2>5. ASSUME NEW k \in 1 .. n PROVE p[k] = s[k]
    <3>1. 2 + k - 1 = k + 1 /\ k + 1 \in 1 .. n + 2 /\ ~(k + 1 <= 1) /\ (k + 1) - 1 = k /\ k <= n /\ k \in 1 .. n + 1
      BY <1>2
    <3>2. p[k] = g[k + 1]
      BY <2>2, <2>3, <3>1
    <3>3. g[k + 1] = b[k]
      BY <1>8, <3>1
    <3>4. b[k] = s[k]
      BY <1>3, <3>1
    <3>5. QED
      BY <3>2, <3>3, <3>4
  <2>6. p = s
    BY <2>3, <2>4, <2>5, SeqEqual
  <2>7. QED
    BY <2>2, <2>6 DEF p
<1>17. g # << >>
  <2>1. Len(g) # 0
    BY <1>2, <1>7
  <2>2. QED
    BY <2>1
<1>18. g = Group(s)
  BY DEF Group, g, b
<1>19. QED
  BY <1>7, <1>11, <1>14, <1>15, <1>16, <1>17, <1>18

-----------------------------------------------------------------------------
(* What an arm adds to the clause.                                         *)

\* After any sequence that leaves no parenthesis open, A adds F to the parts
\* between the ANDs, and no OR.
Adds(A, F, T) ==
    /\ A \in Seq(T)
    /\ Balanced(A)
    /\ Cuts(A, "OR") = {}
    /\ \A a \in Seq(T) : Total(a) = 0 => Parts(a \o A, "AND") = Parts(a, "AND") \cup F

LEMMA NoCutsConcat ==
  ASSUME NEW T, NEW a \in Seq(T), NEW b \in Seq(T), Total(a) = 0, NEW w,
         Cuts(a, w) = {}, Cuts(b, w) = {}
  PROVE  Cuts(a \o b, w) = {}
<1> DEFINE s == a \o b
<1>1. Len(a) \in Nat /\ Len(b) \in Nat /\ Len(s) = Len(a) + Len(b)
  OBVIOUS
<1>2. /\ \A i \in 1 .. Len(a) : i \in Cuts(s, w) <=> i \in Cuts(a, w)
      /\ \A i \in 1 .. Len(b) : Len(a) + i \in Cuts(s, w) <=> i \in Cuts(b, w)
  BY CutsConcat
<1> HIDE DEF s
<1>3. Cuts(s, w) \subseteq 1 .. Len(s)
  BY DEF Cuts
<1>4. ASSUME NEW i \in Cuts(s, w) PROVE FALSE
  <2>1. CASE i <= Len(a)
    BY <1>1, <1>2, <1>3, <2>1
  <2>2. CASE i > Len(a)
    <3> DEFINE j == i - Len(a)
    <3>1. j \in 1 .. Len(b) /\ Len(a) + j = i
      BY <1>1, <1>3, <2>2
    <3> HIDE DEF j
    <3>2. QED
      BY <1>2, <3>1
  <2>3. QED
    BY <1>1, <1>3, <2>1, <2>2
<1>5. QED
  BY <1>4 DEF s

LEMMA AddsNothing ==
  ASSUME NEW T
  PROVE  Adds(<< >>, {}, T)
<1> DEFINE e == << >>
<1>1. e \in Seq(T) /\ Len(e) = 0
  OBVIOUS
<1>2. \A a \in Seq(T) : a \o e = a
  BY ConcatEmptySeq
<1> HIDE DEF e
<1>3. Depth(e, 1) = 0
  <2>1. 1 \in Nat \ {0}
    OBVIOUS
  <2>2. QED
    BY <2>1, DepthNext
<1>4. Balanced(e)
  <2>1. \A i \in 1 .. Len(e) + 1 : i = 1
    BY <1>1
  <2>2. QED
    BY <1>1, <1>3, <2>1 DEF Balanced, Total
<1>5. Cuts(e, "OR") = {}
  BY <1>1 DEF Cuts
<1>6. QED
  BY <1>1, <1>2, <1>4, <1>5 DEF Adds, e

LEMMA AddsBoth ==
  ASSUME NEW T, NEW A, NEW B, NEW F, NEW G, Adds(A, F, T), Adds(B, G, T)
  PROVE  Adds(A \o B, F \cup G, T)
<1>1. A \in Seq(T) /\ B \in Seq(T) /\ Balanced(A) /\ Balanced(B)
  BY DEF Adds
<1>2. A \o B \in Seq(T)
  BY <1>1, ConcatProperties
<1>3. Balanced(A \o B)
  BY <1>1, BalancedConcat
<1>4. Cuts(A \o B, "OR") = {}
  BY <1>1, NoCutsConcat DEF Adds, Balanced
<1>5. ASSUME NEW a \in Seq(T), Total(a) = 0
      PROVE  Parts(a \o (A \o B), "AND") = Parts(a, "AND") \cup (F \cup G)
  <2> DEFINE c == a \o A
  <2>1. (a \o A) \o B = a \o (A \o B)
    BY <1>1, ConcatAssociative
  <2>2. c \in Seq(T) /\ Total(c) = 0
    <3>1. c \in Seq(T)
      BY <1>1, ConcatProperties
    <3>2. Total(c) = Total(a) + Total(A)
      BY <1>1, TotalConcat
    <3>3. QED
      BY <1>1, <1>5, <3>1, <3>2 DEF Balanced
  <2>3. Parts(c, "AND") = Parts(a, "AND") \cup F
    BY <1>5 DEF Adds
  <2> HIDE DEF c
  <2>4. Parts(c \o B, "AND") = Parts(c, "AND") \cup G
    BY <2>2 DEF Adds
  <2>5. c \o B = a \o (A \o B)
    BY <2>1 DEF c
  <2>6. QED
    BY <2>3, <2>4, <2>5
<1>6. QED
  BY <1>2, <1>3, <1>4, <1>5 DEF Adds

\* AND and a part in which nothing is cut.
LEMMA AddsPart ==
  ASSUME NEW T, NEW f \in Seq(T), Balanced(f), Cuts(f, "OR") = {}, Cuts(f, "AND") = {},
         Word("AND") \in T
  PROVE  Adds(<<Word("AND")>> \o f, {f}, T)
<1> DEFINE tok == Word("AND")
           x == <<tok>>
           A == x \o f
<1>1. tok \in T /\ tok.t = "AND" /\ tok.t \notin Parentheses
  BY DEF Word, Parentheses
<1> HIDE DEF tok
<1>2. x \in Seq(T)
  BY <1>1
<1>3. Balanced(x) /\ Total(x) = 0 /\ Cuts(x, "OR") = {}
  BY <1>1, OneToken
<1>4. \A a \in Seq(T) : Total(a) = 0 => Parts(a \o (x \o f), tok.t) = Parts(a, tok.t) \cup Parts(f, tok.t)
  BY <1>1, PartsSplit
<1>5. Parts(f, "AND") = {f}
  BY PartsWhole
<1> HIDE DEF x
<1>6. A \in Seq(T)
  BY <1>2, ConcatProperties
<1>7. Balanced(A)
  BY <1>2, <1>3, BalancedConcat
<1>8. Cuts(A, "OR") = {}
  BY <1>2, <1>3, NoCutsConcat
<1>9. QED
  BY <1>1, <1>4, <1>5, <1>6, <1>7, <1>8 DEF Adds, x, tok

LEMMA AddsInTurn ==
  ASSUME NEW T, NEW ss \in Seq(Seq(T)), NEW F, \A i \in 1 .. Len(ss) : Adds(ss[i], F[i], T)
  PROVE  Adds(FlattenSeq(ss), UNION {F[i] : i \in 1 .. Len(ss)}, T)
<1> DEFINE N == Len(ss)
           U(n) == UNION {F[i] : i \in 1 .. n}
<1>1. PICK g : Flattens(g, ss, T)
  BY Flattened
<1>2. N \in Nat
  OBVIOUS
<1>3. g[0] = << >> /\ FlattenSeq(ss) = g[N] /\ \A i \in 1 .. N : g[i] = g[i - 1] \o ss[i]
  BY <1>1 DEF Flattens
<1>4. \A i \in 1 .. N : Adds(ss[i], F[i], T)
  OBVIOUS
<1> HIDE DEF N
<1> DEFINE S == {n \in 0 .. N : Adds(g[n], U(n), T)}
<1>5. 0 \in S
  <2>1. U(0) = {} /\ 0 \in 0 .. N
    BY <1>2
  <2> HIDE DEF U
  <2>2. QED
    BY <1>3, <2>1, AddsNothing
<1>6. ASSUME NEW n \in 0 .. N - 1, n \in S PROVE n + 1 \in S
  <2>1. n + 1 \in 1 .. N /\ (n + 1) - 1 = n /\ n + 1 \in 0 .. N
    BY <1>2
  <2>2. g[n + 1] = g[n] \o ss[n + 1]
    BY <1>3, <2>1
  <2>3. U(n + 1) = U(n) \cup F[n + 1]
    <3>1. 1 .. n + 1 = (1 .. n) \cup {n + 1}
      BY <2>1
    <3>2. {F[i] : i \in 1 .. n + 1} = {F[i] : i \in 1 .. n} \cup {F[n + 1]}
      BY <3>1
    <3>3. QED
      BY <3>2
  <2>4. Adds(g[n], U(n), T)
    BY <1>6
  <2>5. Adds(ss[n + 1], F[n + 1], T)
    BY <1>4, <2>1
  <2> HIDE DEF U
  <2>6. Adds(g[n] \o ss[n + 1], U(n) \cup F[n + 1], T)
    BY <2>4, <2>5, AddsBoth
  <2>7. QED
    BY <2>1, <2>2, <2>3, <2>6
<1> HIDE DEF S
<1>7. \A n \in 0 .. N - 1 : n \in S => n + 1 \in S
  BY <1>6
<1>8. \A n \in 0 .. N : n \in S
  BY <1>2, <1>5, <1>7, BoundedInduction
<1>9. N \in S
  BY <1>2, <1>8
<1>10. QED
  BY <1>3, <1>9 DEF S, N

\* SetToSeq lists the elements of a finite set.
LEMMA ListOf ==
  ASSUME NEW S, IsFiniteSet(S)
  PROVE  /\ SetToSeq(S) \in Seq(S)
         /\ Len(SetToSeq(S)) = Cardinality(S) /\ Cardinality(S) \in Nat
         /\ \A x \in S : \E i \in 1 .. Cardinality(S) : SetToSeq(S)[i] = x
<1> DEFINE n == Cardinality(S)
           D == 1 .. n
<1>1. n \in Nat /\ Bijection(D, S) # {}
  BY FS_CardinalityType DEF ExistsBijection
<1>2. PICK h : h \in Bijection(D, S)
  BY <1>1
<1>3. h \in [D -> S] /\ IsInjective(h)
  BY <1>2 DEF Bijection, Injection
<1> DEFINE f == CHOOSE k \in [D -> S] : IsInjective(k)
<1>4. f \in [D -> S] /\ IsInjective(f)
  BY <1>3
<1>5. SetToSeq(S) = f
  BY DEF SetToSeq
<1> HIDE DEF f
<1>6. f \in Injection(D, S)
  BY <1>4 DEF Injection
<1>7. Cardinality(D) = n /\ IsFiniteSet(D)
  BY <1>1, FS_Interval
<1>8. f \in Surjection(D, S)
  <2> HIDE DEF D
  <2>1. QED
    BY <1>6, <1>7, FS_Injection
<1>9. f \in Seq(S) /\ Len(f) = n
  BY <1>1, <1>4
<1>10. \A x \in S : \E i \in D : f[i] = x
  BY <1>8 DEF Surjection
<1>11. QED
  BY <1>1, <1>5, <1>9, <1>10

LEMMA AddsEither ==
  ASSUME NEW T, NEW A, NEW Fs, Fs # {}, \A F \in Fs : Adds(A, F, T)
  PROVE  Adds(A, UNION Fs, T)
<1>1. A \in Seq(T) /\ Balanced(A) /\ Cuts(A, "OR") = {}
  BY DEF Adds
<1>2. ASSUME NEW a \in Seq(T), Total(a) = 0
      PROVE  Parts(a \o A, "AND") = Parts(a, "AND") \cup UNION Fs
  <2> DEFINE P == Parts(a \o A, "AND")
             Q == Parts(a, "AND")
  <2>1. \A F \in Fs : P = Q \cup F
    BY <1>2 DEF Adds
  <2> HIDE DEF P, Q
  <2>2. P = Q \cup UNION Fs
    BY <2>1
  <2>3. QED
    BY <2>2 DEF P, Q
<1>3. QED
  BY <1>1, <1>2 DEF Adds

\* The arms of a set of things add what each of them adds, whatever the order
\* they are pushed in.
EachAdds(ws, arm, F, T) == IsFiniteSet(ws) /\ \A x \in ws : Adds(arm[x], F[x], T)
ArmsOf(ws, arm) == {arm[x] : x \in ws}
PartsOf(ws, F) == UNION {F[x] : x \in ws}

LEMMA AddsEach ==
  ASSUME NEW T, NEW ws, NEW arm, NEW F, EachAdds(ws, arm, F, T)
  PROVE  Adds(FlattenSeq(SetToSeq(ArmsOf(ws, arm))), PartsOf(ws, F), T)
<1>13. IsFiniteSet(ws) /\ \A x \in ws : Adds(arm[x], F[x], T)
  BY DEF EachAdds
<1> DEFINE S == {arm[x] : x \in ws}
           list == SetToSeq(S)
           With(A) == {F[x] : x \in {y \in ws : arm[y] = A}}
<1>1. IsFiniteSet(S)
  <2> DEFINE h == [x \in ws |-> arm[x]]
  <2>1. h \in Surjection(ws, S)
    BY DEF Surjection
  <2> HIDE DEF h, S
  <2>2. QED
    BY <1>13, <2>1, FS_Surjection
<1>2. \A A \in S : With(A) # {} /\ \A G \in With(A) : Adds(A, G, T)
  BY <1>13
<1>3. \A A \in S : Adds(A, UNION With(A), T)
  <2> HIDE DEF With, S
  <2>1. QED
    BY <1>2, AddsEither
<1>4. UNION {F[x] : x \in ws} = UNION {UNION With(A) : A \in S}
  OBVIOUS
<1>5. S \subseteq Seq(T)
  BY <1>13 DEF Adds
<1> HIDE DEF S, With
<1>6. /\ list \in Seq(S) /\ Len(list) \in Nat
      /\ \A A \in S : \E i \in 1 .. Len(list) : list[i] = A
  BY <1>1, ListOf
<1>7. list \in Seq(Seq(T))
  BY <1>5, <1>6, SeqMonotonic
<1>8. \A i \in 1 .. Len(list) : list[i] \in S
  BY <1>6, ElementOfSeq
<1> DEFINE n == Len(list)
           G == [i \in 1 .. n |-> UNION With(list[i])]
<1>9. \A i \in 1 .. n : Adds(list[i], G[i], T)
  BY <1>3, <1>8
<1>10. UNION {G[i] : i \in 1 .. n} = UNION {UNION With(A) : A \in S}
  <2> DEFINE H == [A \in S |-> UNION With(A)]
  <2>1. \A i \in 1 .. n : G[i] = H[list[i]]
    BY <1>8
  <2>2. {UNION With(A) : A \in S} = {H[A] : A \in S}
    OBVIOUS
  <2> HIDE DEF G, H
  <2>3. {G[i] : i \in 1 .. n} = {H[A] : A \in S}
    BY <1>6, <1>8, <2>1
  <2>4. QED
    BY <2>2, <2>3
<1> HIDE DEF list, G
<1>11. Adds(FlattenSeq(list), UNION {G[i] : i \in 1 .. n}, T)
  BY <1>7, <1>9, AddsInTurn
<1>12. QED
  BY <1>4, <1>10, <1>11 DEF list, S, ArmsOf, PartsOf

\* WHERE 1=1 followed by arms.
LEMMA TrueAnd ==
  ASSUME NEW T, NEW A, NEW F, Adds(A, F, T), Word("1=1") \in T
  PROVE  LET s == <<Word("1=1")>> \o A
         IN  /\ s \in Seq(T)
             /\ Balanced(s)
             /\ Parts(s, "OR") = {s}
             /\ Parts(s, "AND") = {<<Word("1=1")>>} \cup F
<1> DEFINE tok == Word("1=1")
           x == <<tok>>
           s == x \o A
<1>1. tok.t = "1=1" /\ tok.t \notin Parentheses
  BY DEF Word, Parentheses
<1>2. tok \in T
  OBVIOUS
<1> HIDE DEF tok
<1>3. x \in Seq(T)
  BY <1>2
<1>4. Balanced(x) /\ Total(x) = 0 /\ Cuts(x, "OR") = {} /\ Cuts(x, "AND") = {}
  BY <1>1, OneToken
<1>5. A \in Seq(T) /\ Balanced(A) /\ Cuts(A, "OR") = {}
  BY DEF Adds
<1> HIDE DEF x
<1>6. s \in Seq(T)
  BY <1>3, <1>5, ConcatProperties
<1>7. Balanced(s)
  BY <1>3, <1>4, <1>5, BalancedConcat
<1>8. Parts(s, "OR") = {s}
  <2>1. Cuts(s, "OR") = {}
    BY <1>3, <1>4, <1>5, NoCutsConcat
  <2> HIDE DEF s
  <2>2. QED
    BY <1>6, <2>1, PartsWhole
<1>9. Parts(s, "AND") = {x} \cup F
  <2>1. Parts(x, "AND") = {x}
    BY <1>3, <1>4, PartsWhole
  <2>2. QED
    BY <1>3, <1>4, <2>1 DEF Adds
<1>10. QED
  BY <1>6, <1>7, <1>8, <1>9 DEF x, tok

LEMMA TailOf ==
  ASSUME NEW T, NEW tok \in T, NEW f \in Seq(T)
  PROVE  LET s == <<tok>> \o f IN s \in Seq(T) /\ s # << >> /\ s[1] = tok /\ Tail(s) = f
<1> DEFINE x == <<tok>>
           s == x \o f
           t == Tail(s)
<1>1. x \in Seq(T) /\ Len(x) = 1 /\ x[1] = tok
  OBVIOUS
<1> HIDE DEF x
<1>2. /\ s \in Seq(T) /\ Len(s) = 1 + Len(f)
      /\ \A i \in 1 .. Len(x) + Len(f) : s[i] = IF i <= Len(x) THEN x[i] ELSE f[i - Len(x)]
  BY <1>1, ConcatProperties
<1>3. Len(f) \in Nat
  OBVIOUS
<1> HIDE DEF s
<1>4. Len(s) # 0
  BY <1>2, <1>3
<1>5. s # << >>
  BY <1>4
<1>6. s[1] = tok
  <2>1. 1 \in 1 .. Len(x) + Len(f) /\ 1 <= Len(x)
    BY <1>1, <1>3
  <2>2. QED
    BY <1>1, <1>2, <2>1
<1>7. t \in Seq(T) /\ Len(t) = Len(s) - 1 /\ \A i \in 1 .. Len(t) : t[i] = s[i + 1]
  BY <1>2, <1>5, HeadTailProperties
<1> HIDE DEF t
<1>8. Len(t) = Len(f)
  BY <1>2, <1>3, <1>7
<1>9. ASSUME NEW i \in 1 .. Len(t) PROVE t[i] = f[i]
  <2>1. i + 1 \in 1 .. Len(x) + Len(f) /\ ~(i + 1 <= Len(x)) /\ (i + 1) - Len(x) = i
    BY <1>1, <1>3, <1>8
  <2>2. QED
    BY <1>2, <1>7, <2>1
<1>10. t = f
  BY <1>7, <1>8, <1>9, SeqEqual
<1>11. QED
  BY <1>2, <1>5, <1>6, <1>10 DEF s, x, t

-----------------------------------------------------------------------------
(* The clause of an input.                                                 *)

\* The tokens that conditions are pushed as, and those of a clause over them.
Pushed(conditions) == {c \in conditions : FieldArm(c) # << >>}
Atoms(conditions) == {FieldArm(c)[2] : c \in Pushed(conditions)}
KeyWords == {"(", ")", "AND", "OR", "NOT", "1=1"}
Tokens(conditions) == {Word(k) : k \in KeyWords} \cup Atoms(conditions)
AtomParts(conditions) == {<<tok>> : tok \in Atoms(conditions)}

LEMMA KeyWordsAreTokens ==
  ASSUME NEW conditions, NEW k \in KeyWords
  PROVE  Word(k) \in Tokens(conditions)
BY DEF Tokens

LEMMA PushedAs ==
  ASSUME NEW conditions, AreConditions(conditions), NEW r \in Rows, NEW c \in conditions
  PROVE  \/ c \notin Pushed(conditions) /\ FieldArm(c) = << >> /\ Holds(c, r[c.col])
         \/ /\ c \in Pushed(conditions)
            /\ FieldArm(c) = <<Word("AND"), FieldArm(c)[2]>>
            /\ FieldArm(c)[2].t \in {"1=0", "predicate"}
            /\ AtomValue(FieldArm(c)[2], r) = ValueOf(c, r[c.col])
<1>1. Faithful(c, r)
  BY EveryConditionFaithful DEF AreConditions
<1>2. CASE FieldArm(c) = << >> /\ Holds(c, r[c.col])
  BY <1>2 DEF Pushed
<1>3. CASE \E tok : /\ FieldArm(c) = <<Word("AND"), tok>>
                    /\ tok.t \in {"1=0", "predicate"}
                    /\ AtomValue(tok, r) = ValueOf(c, r[c.col])
  <2>1. PICK tok : /\ FieldArm(c) = <<Word("AND"), tok>>
                   /\ tok.t \in {"1=0", "predicate"}
                   /\ AtomValue(tok, r) = ValueOf(c, r[c.col])
    BY <1>3
  <2>2. FieldArm(c)[2] = tok /\ FieldArm(c) # << >>
    BY <2>1
  <2>3. c \in Pushed(conditions)
    BY <2>2 DEF Pushed
  <2>4. QED
    BY <2>1, <2>2, <2>3
<1>4. QED
  BY <1>1, <1>2, <1>3 DEF Faithful

\* AND and one token.
LEMMA AddsAtom ==
  ASSUME NEW T, NEW tok \in T, tok.t \in {"1=0", "predicate"}, Word("AND") \in T
  PROVE  Adds(<<Word("AND"), tok>>, {<<tok>>}, T)
<1> DEFINE x == <<tok>>
           y == Word("AND")
<1>1. x \in Seq(T)
  OBVIOUS
<1>2. tok.t \notin Parentheses /\ tok.t # "AND" /\ tok.t # "OR"
  BY DEF Parentheses
<1>3. Balanced(x) /\ Cuts(x, "AND") = {} /\ Cuts(x, "OR") = {}
  BY <1>2, OneToken
<1>4. <<y>> \o x = <<y, tok>>
  <2>1. y \in T
    OBVIOUS
  <2> HIDE DEF y
  <2>2. <<y>> \o <<tok>> = <<y, tok>>
    BY <2>1, TwoInOne
  <2>3. QED
    BY <2>2
<1> HIDE DEF x
<1>5. Adds(<<Word("AND")>> \o x, {x}, T)
  BY <1>1, <1>3, AddsPart
<1>6. QED
  BY <1>4, <1>5 DEF x, y

LEMMA WhereArmsAdd ==
  ASSUME NEW conditions, AreConditions(conditions), NEW all, conditions \subseteq all, NEW r \in Rows
  PROVE  Adds(WhereArms(conditions), AtomParts(conditions), Tokens(all))
<1> DEFINE T == Tokens(all)
           arm == [c \in conditions |-> FieldArm(c)]
           F == [c \in conditions |-> IF c \in Pushed(conditions) THEN {<<FieldArm(c)[2]>>} ELSE {}]
<1>1. ASSUME NEW c \in conditions PROVE Adds(arm[c], F[c], T)
  <2>1. CASE c \notin Pushed(conditions)
    <3>1. arm[c] = << >> /\ F[c] = {}
      BY <2>1 DEF Pushed
    <3>2. QED
      BY <3>1, AddsNothing
  <2>2. CASE c \in Pushed(conditions)
    <3> DEFINE tok == FieldArm(c)[2]
    <3>1. FieldArm(c) = <<Word("AND"), tok>> /\ tok.t \in {"1=0", "predicate"}
      BY <2>2, PushedAs
    <3>2. tok \in T
      BY <2>2 DEF Tokens, Atoms, Pushed
    <3>3. F[c] = {<<tok>>} /\ arm[c] = <<Word("AND"), tok>>
      BY <2>2, <3>1
    <3>4. Word("AND") \in T
      BY DEF Tokens, KeyWords
    <3> HIDE DEF tok, T, arm, F
    <3>5. QED
      BY <3>1, <3>2, <3>3, <3>4, AddsAtom
  <2>3. QED
    BY <2>1, <2>2
<1>2. {arm[c] : c \in conditions} = {FieldArm(c) : c \in conditions}
  OBVIOUS
<1>3. UNION {F[c] : c \in conditions} = AtomParts(conditions)
  BY DEF AtomParts, Atoms, Pushed
<1>4. IsFiniteSet(conditions)
  BY DEF AreConditions
<1> HIDE DEF T, arm, F
<1>7. EachAdds(conditions, arm, F, T)
  BY <1>1, <1>4 DEF EachAdds
<1>5. Adds(FlattenSeq(SetToSeq(ArmsOf(conditions, arm))), PartsOf(conditions, F), T)
  BY <1>7, AddsEach
<1>6. QED
  BY <1>2, <1>3, <1>5 DEF WhereArms, T, ArmsOf, PartsOf

\* The input of a group: 1=1 and its conditions.
Inner(x) == <<Word("1=1")>> \o WhereArms(x.own)

LEMMA GroupedIs ==
  ASSUME NEW x, AreConditions(x.own), NEW all, x.own \subseteq all, NEW r \in Rows
  PROVE  /\ Grouped(x) = Group(Inner(x))
         /\ Inner(x) \in Seq(Tokens(all))
         /\ Balanced(Inner(x))
         /\ Parts(Inner(x), "OR") = {Inner(x)}
         /\ Parts(Inner(x), "AND") = {<<Word("1=1")>>} \cup AtomParts(x.own)
<1> DEFINE T == Tokens(all)
           A == WhereArms(x.own)
           one == <<Word("1=1")>>
<1>1. Adds(A, AtomParts(x.own), T)
  BY WhereArmsAdd
<1>2. Word("1=1") \in T /\ Word("(") \in T /\ Word(")") \in T
  BY DEF Tokens, KeyWords
<1>3. one \in Seq(T) /\ Open \in Seq(T) /\ Close \in Seq(T)
  BY <1>2 DEF Open, Close
<1>4. A \in Seq(T)
  BY <1>1 DEF Adds
<1>5. \A a, b, c \in Seq(T) : (a \o b) \o c = a \o (b \o c) /\ a \o b \in Seq(T)
  BY ConcatAssociative, ConcatProperties
<1>6. Grouped(x) = ((Open \o one) \o A) \o Close
  BY DEF Grouped, Token, Open, Close, Word
<1> HIDE DEF A, T, one
<1>7. ((Open \o one) \o A) \o Close = Open \o ((one \o A) \o Close)
  <2>1. (Open \o one) \o A = Open \o (one \o A) /\ one \o A \in Seq(T)
    BY <1>3, <1>4, <1>5
  <2> DEFINE B == one \o A
  <2>2. B \in Seq(T) /\ (Open \o one) \o A = Open \o B
    BY <2>1
  <2> HIDE DEF B
  <2>3. (Open \o B) \o Close = Open \o (B \o Close)
    BY <1>3, <1>5, <2>2
  <2>4. QED
    BY <2>2, <2>3 DEF B
<1>8. Grouped(x) = Group(Inner(x))
  BY <1>6, <1>7 DEF Group, Inner, one, A
<1>9. /\ Inner(x) \in Seq(T)
      /\ Balanced(Inner(x))
      /\ Parts(Inner(x), "OR") = {Inner(x)}
      /\ Parts(Inner(x), "AND") = {<<Word("1=1")>>} \cup AtomParts(x.own)
  <2>1. LET s == <<Word("1=1")>> \o A
        IN  /\ s \in Seq(T)
            /\ Balanced(s)
            /\ Parts(s, "OR") = {s}
            /\ Parts(s, "AND") = {<<Word("1=1")>>} \cup AtomParts(x.own)
    BY <1>1, <1>2, TrueAnd
  <2>2. QED
    BY <2>1 DEF Inner, A
<1>10. QED
  BY <1>8, <1>9 DEF T

-----------------------------------------------------------------------------
(* What a group of conditions comes to.                                    *)

Values == {"true", "false", "unknown"}

LEMMA OneTerm ==
  ASSUME NEW v \in Values
  PROVE  Or3({v}) = v /\ And3({v}) = v
BY DEF Or3, And3, Values

LEMMA AndIsAValue ==
  ASSUME NEW S
  PROVE  And3(S) \in Values
BY DEF And3, Values

\* What conditions come to on a row.
ConditionsValue(conditions, r) == And3({"true"} \cup {ValueOf(c, r[c.col]) : c \in conditions})

\* A token is read the same at every depth.
LEMMA AtomRead ==
  ASSUME NEW tok, tok.t \in {"1=0", "predicate"}, NEW r
  PROVE  /\ Factor(Unread, <<tok>>, r) = AtomValue(tok, r)
         /\ Factor(ReadConditions, <<tok>>, r) = AtomValue(tok, r)
         /\ Factor(ReadGroups, <<tok>>, r) = AtomValue(tok, r)
<1> DEFINE s == <<tok>>
<1>1. s[1] = tok
  OBVIOUS
<1> HIDE DEF s
<1>2. Factor(Unread, s, r) = AtomValue(tok, r)
  BY <1>1 DEF Factor, Primary, AtomValue
<1>3. Factor(ReadConditions, s, r) = AtomValue(tok, r)
  BY <1>1 DEF Factor, Primary, AtomValue
<1>4. Factor(ReadGroups, s, r) = AtomValue(tok, r)
  BY <1>1 DEF Factor, Primary, AtomValue
<1>5. QED
  BY <1>2, <1>3, <1>4 DEF s

LEMMA TrueRead ==
  ASSUME NEW r
  PROVE  /\ Factor(Unread, <<Word("1=1")>>, r) = "true"
         /\ Factor(ReadConditions, <<Word("1=1")>>, r) = "true"
         /\ Factor(ReadGroups, <<Word("1=1")>>, r) = "true"
<1> DEFINE s == <<Word("1=1")>>
<1>1. s[1].t = "1=1"
  BY DEF Word
<1> HIDE DEF s
<1>2. Factor(Unread, s, r) = "true"
  BY <1>1 DEF Factor, Primary
<1>3. Factor(ReadConditions, s, r) = "true"
  BY <1>1 DEF Factor, Primary
<1>4. Factor(ReadGroups, s, r) = "true"
  BY <1>1 DEF Factor, Primary
<1>5. QED
  BY <1>2, <1>3, <1>4 DEF s

LEMMA ValuesOfConditions ==
  ASSUME NEW conditions, AreConditions(conditions), NEW r \in Rows
  PROVE  {AtomValue(tok, r) : tok \in Atoms(conditions)} \cup {"true"}
           = {"true"} \cup {ValueOf(c, r[c.col]) : c \in conditions}
<1> DEFINE V == {ValueOf(c, r[c.col]) : c \in conditions}
           A == {AtomValue(tok, r) : tok \in Atoms(conditions)}
<1>1. ASSUME NEW v \in A PROVE v \in V
  <2>1. PICK c \in Pushed(conditions) : v = AtomValue(FieldArm(c)[2], r)
    BY DEF Atoms
  <2>2. c \in conditions
    BY DEF Pushed
  <2>3. v = ValueOf(c, r[c.col])
    BY <2>1, <2>2, PushedAs
  <2>4. QED
    BY <2>2, <2>3
<1>2. ASSUME NEW v \in V PROVE v \in A \cup {"true"}
  <2>1. PICK c \in conditions : v = ValueOf(c, r[c.col])
    OBVIOUS
  <2>2. CASE c \in Pushed(conditions)
    <3>1. v = AtomValue(FieldArm(c)[2], r)
      BY <2>1, <2>2, PushedAs
    <3>2. FieldArm(c)[2] \in Atoms(conditions)
      BY <2>2 DEF Atoms
    <3>3. QED
      BY <3>1, <3>2
  <2>3. CASE c \notin Pushed(conditions)
    <3>1. Holds(c, r[c.col])
      BY <2>3, PushedAs
    <3>2. v = "true"
      BY <2>1, <3>1 DEF ValueOf
    <3>3. QED
      BY <3>2
  <2>4. QED
    BY <2>2, <2>3
<1> HIDE DEF V, A
<1>3. A \cup {"true"} = {"true"} \cup V
  BY <1>1, <1>2
<1>4. QED
  BY <1>3 DEF V, A

\* 1=1 and the conditions of an input come to what the conditions come to.
LEMMA ConditionsRead ==
  ASSUME NEW x, AreConditions(x.own), NEW r \in Rows
  PROVE  /\ ReadConditions(Inner(x), r) = ConditionsValue(x.own, r)
         /\ ReadGroups(Inner(x), r) = ConditionsValue(x.own, r)
<1> DEFINE s == Inner(x)
           v == ConditionsValue(x.own, r)
           A == Atoms(x.own)
           P == {<<Word("1=1")>>} \cup {<<tok>> : tok \in A}
           V == {"true"} \cup {ValueOf(c, r[c.col]) : c \in x.own}
<1>1. Parts(s, "OR") = {s} /\ Parts(s, "AND") = P
  <2>1. x.own \subseteq x.own
    OBVIOUS
  <2>2. QED
    BY <2>1, GroupedIs DEF AtomParts
<1>2. {AtomValue(tok, r) : tok \in A} \cup {"true"} = V
  BY ValuesOfConditions
<1>3. \A tok \in A : tok.t \in {"1=0", "predicate"}
  <2>1. ASSUME NEW tok \in A PROVE tok.t \in {"1=0", "predicate"}
    <3>1. PICK c \in Pushed(x.own) : tok = FieldArm(c)[2]
      BY DEF Atoms
    <3>2. c \in x.own
      BY DEF Pushed
    <3>3. QED
      BY <3>1, <3>2, PushedAs
  <2>2. QED
    BY <2>1
<1>4. v = And3(V)
  BY DEF ConditionsValue
<1>5. Or3({v}) = v
  BY <1>4, AndIsAValue, OneTerm
<1> HIDE DEF s, v, A, V
<1>6. {Factor(Unread, f, r) : f \in P} = V
  <2>1. \A tok \in A : Factor(Unread, <<tok>>, r) = AtomValue(tok, r)
    BY <1>3, AtomRead
  <2>2. {Factor(Unread, f, r) : f \in P} = {Factor(Unread, <<Word("1=1")>>, r)} \cup {Factor(Unread, <<tok>>, r) : tok \in A}
    OBVIOUS
  <2>3. {Factor(Unread, <<tok>>, r) : tok \in A} = {AtomValue(tok, r) : tok \in A}
    BY <2>1
  <2>4. QED
    BY <1>2, <2>2, <2>3, TrueRead
<1>7. {Factor(ReadConditions, f, r) : f \in P} = V
  <2>1. \A tok \in A : Factor(ReadConditions, <<tok>>, r) = AtomValue(tok, r)
    BY <1>3, AtomRead
  <2>2. {Factor(ReadConditions, f, r) : f \in P}
          = {Factor(ReadConditions, <<Word("1=1")>>, r)} \cup {Factor(ReadConditions, <<tok>>, r) : tok \in A}
    OBVIOUS
  <2>3. {Factor(ReadConditions, <<tok>>, r) : tok \in A} = {AtomValue(tok, r) : tok \in A}
    BY <2>1
  <2>4. QED
    BY <1>2, <2>2, <2>3, TrueRead
<1> HIDE DEF P
<1>8. ReadConditions(s, r) = v
  <2>1. ReadConditions(s, r) = Or3({And3({Factor(Unread, f, r) : f \in Parts(term, "AND")}) : term \in Parts(s, "OR")})
    BY DEF ReadConditions, Reading
  <2>2. {And3({Factor(Unread, f, r) : f \in Parts(term, "AND")}) : term \in {s}}
          = {And3({Factor(Unread, f, r) : f \in Parts(s, "AND")})}
    OBVIOUS
  <2>3. QED
    BY <1>1, <1>4, <1>5, <1>6, <2>1, <2>2
<1>9. ReadGroups(s, r) = v
  <2>1. ReadGroups(s, r) = Or3({And3({Factor(ReadConditions, f, r) : f \in Parts(term, "AND")}) : term \in Parts(s, "OR")})
    BY DEF ReadGroups, Reading
  <2>2. {And3({Factor(ReadConditions, f, r) : f \in Parts(term, "AND")}) : term \in {s}}
          = {And3({Factor(ReadConditions, f, r) : f \in Parts(s, "AND")})}
    OBVIOUS
  <2>3. QED
    BY <1>1, <1>4, <1>5, <1>7, <2>1, <2>2
<1>10. QED
  BY <1>8, <1>9 DEF s, v

LEMMA ConditionsValueIs ==
  ASSUME NEW x, NEW r
  PROVE  /\ ConditionsValue(x.own, r) = "true" <=> AllHold(x, r)
         /\ ConditionsValue(x.own, r) = "false" <=> Fails(x, r)
<1> DEFINE V == {"true"} \cup {ValueOf(c, r[c.col]) : c \in x.own}
<1>1. \A c \in x.own : /\ ValueOf(c, r[c.col]) = "true" <=> Holds(c, r[c.col])
                       /\ ValueOf(c, r[c.col]) = "false" <=> ~Holds(c, r[c.col]) /\ ~Undecided(c, r[c.col])
                       /\ ValueOf(c, r[c.col]) \in Values
  BY DEF ValueOf, Values
<1>2. "false" \in V <=> Fails(x, r)
  BY <1>1 DEF Fails
<1>3. "false" \notin V /\ "unknown" \notin V <=> AllHold(x, r)
  BY <1>1 DEF AllHold, Values
<1> HIDE DEF V
<1>4. ConditionsValue(x.own, r) = And3(V)
  BY DEF ConditionsValue, V
<1>5. QED
  BY <1>2, <1>3, <1>4 DEF And3

LEMMA GroupRead ==
  ASSUME NEW T, NEW s \in Seq(T), Balanced(s), Word("(") \in T, Word(")") \in T, NEW r
  PROVE  /\ Factor(ReadConditions, Group(s), r) = ReadConditions(s, r)
         /\ Factor(ReadGroups, Group(s), r) = ReadGroups(s, r)
         /\ Primary(ReadGroups, Group(s), r) = ReadGroups(s, r)
<1> DEFINE g == Group(s)
<1>1. g[1].t = "(" /\ SubSeq(g, 2, Len(g) - 1) = s
  BY GroupIs DEF Word
<1> HIDE DEF g
<1>2. Factor(ReadConditions, g, r) = ReadConditions(s, r)
  BY <1>1 DEF Factor, Primary
<1>3. Factor(ReadGroups, g, r) = ReadGroups(s, r)
  BY <1>1 DEF Factor, Primary
<1>4. Primary(ReadGroups, g, r) = ReadGroups(s, r)
  BY <1>1 DEF Primary
<1>5. QED
  BY <1>2, <1>3, <1>4 DEF g

LEMMA NotRead ==
  ASSUME NEW T, NEW s \in Seq(T), Balanced(s), Word("(") \in T, Word(")") \in T, Word("NOT") \in T, NEW r
  PROVE  Factor(ReadGroups, <<Word("NOT")>> \o Group(s), r) = Not3(ReadGroups(s, r))
<1> DEFINE f == <<Word("NOT")>> \o Group(s)
           g == Group(s)
<1>1. g \in Seq(T)
  BY GroupIs
<1>2. f[1].t = "NOT" /\ Tail(f) = g
  <2> DEFINE tok == Word("NOT")
  <2>1. tok \in T /\ tok.t = "NOT"
    BY DEF Word
  <2> HIDE DEF tok, g
  <2>2. LET q == <<tok>> \o g IN q[1] = tok /\ Tail(q) = g
    BY <1>1, <2>1, TailOf
  <2>3. QED
    BY <2>1, <2>2 DEF tok, g
<1>3. Primary(ReadGroups, g, r) = ReadGroups(s, r)
  BY GroupRead
<1> HIDE DEF f, g
<1>4. Factor(ReadGroups, f, r) = Not3(ReadGroups(s, r))
  BY <1>2, <1>3 DEF Factor
<1>5. QED
  BY <1>4 DEF f

-----------------------------------------------------------------------------
(* The arms of the nested inputs.                                          *)

LEMMA GroupedWhole ==
  ASSUME NEW x, AreConditions(x.own), NEW all, x.own \subseteq all, NEW r \in Rows
  PROVE  /\ Grouped(x) \in Seq(Tokens(all))
         /\ Balanced(Grouped(x))
         /\ Cuts(Grouped(x), "AND") = {} /\ Cuts(Grouped(x), "OR") = {}
         /\ Parts(Grouped(x), "AND") = {Grouped(x)} /\ Parts(Grouped(x), "OR") = {Grouped(x)}
         /\ Factor(ReadConditions, Grouped(x), r) = ConditionsValue(x.own, r)
         /\ Factor(ReadGroups, <<Word("NOT")>> \o Grouped(x), r) = Not3(ConditionsValue(x.own, r))
<1> DEFINE T == Tokens(all)
           g == Grouped(x)
           s == Inner(x)
<1>1. g = Group(s) /\ s \in Seq(T) /\ Balanced(s)
  BY GroupedIs
<1>2. ReadConditions(s, r) = ConditionsValue(x.own, r) /\ ReadGroups(s, r) = ConditionsValue(x.own, r)
  BY ConditionsRead
<1>3. Word("(") \in T /\ Word(")") \in T /\ Word("NOT") \in T
  BY DEF Tokens, KeyWords
<1>4. "AND" \notin Parentheses /\ "OR" \notin Parentheses
  BY DEF Parentheses
<1> HIDE DEF T, g, s
<1>5. g \in Seq(T) /\ Balanced(g) /\ Cuts(g, "AND") = {} /\ Cuts(g, "OR") = {}
  BY <1>1, <1>3, <1>4, GroupIs
<1>6. Parts(g, "AND") = {g} /\ Parts(g, "OR") = {g}
  BY <1>5, PartsWhole
<1>7. Factor(ReadConditions, g, r) = ConditionsValue(x.own, r)
  BY <1>1, <1>2, <1>3, GroupRead
<1>8. Factor(ReadGroups, <<Word("NOT")>> \o g, r) = Not3(ConditionsValue(x.own, r))
  BY <1>1, <1>2, <1>3, NotRead
<1>9. QED
  BY <1>5, <1>6, <1>7, <1>8 DEF T, g

\* What stands in the parentheses of an `or` list.
Alternative(list, i) == (IF i > 1 THEN Token("OR") ELSE << >>) \o Grouped(list[i])
Alternatives(list) == FlattenSeq([i \in 1 .. Len(list) |-> Alternative(list, i)])

LEMMA AlternativesAre ==
  ASSUME NEW ws, NEW list \in Seq(ws), list # << >>, NEW all,
         \A x \in ws : AreConditions(x.own) /\ x.own \subseteq all, NEW r \in Rows
  PROVE  /\ Alternatives(list) \in Seq(Tokens(all))
         /\ Balanced(Alternatives(list))
         /\ Parts(Alternatives(list), "OR") = {Grouped(list[i]) : i \in 1 .. Len(list)}
<1> DEFINE T == Tokens(all)
           n == Len(list)
           ss == [i \in 1 .. n |-> Alternative(list, i)]
           or == Word("OR")
           x == <<or>>
           P(m) == {Grouped(list[i]) : i \in 1 .. m}
<1>1. n \in Nat /\ n >= 1
  BY EmptySeq
<1>2. \A i \in 1 .. n : /\ Grouped(list[i]) \in Seq(T) /\ Balanced(Grouped(list[i]))
                        /\ Parts(Grouped(list[i]), "OR") = {Grouped(list[i])}
  <2>1. ASSUME NEW i \in 1 .. n
        PROVE  /\ Grouped(list[i]) \in Seq(T) /\ Balanced(Grouped(list[i]))
               /\ Parts(Grouped(list[i]), "OR") = {Grouped(list[i])}
    <3>1. list[i] \in ws
      BY ElementOfSeq
    <3>2. AreConditions(list[i].own) /\ list[i].own \subseteq all
      BY <3>1
    <3>3. QED
      BY <3>2, GroupedWhole
  <2>2. QED
    BY <2>1
<1>3. or \in T /\ or.t = "OR" /\ or.t \notin Parentheses
  BY DEF Word, Parentheses, Tokens, KeyWords
<1>4. Token("OR") = x
  BY DEF Token, Word
<1> HIDE DEF or
<1>5. x \in Seq(T) /\ << >> \in Seq(T) /\ Balanced(x)
  BY <1>3, OneToken
<1>6. \A i \in 1 .. n : ss[i] = IF i > 1 THEN x \o Grouped(list[i]) ELSE Grouped(list[i])
  <2>1. ASSUME NEW i \in 1 .. n PROVE ss[i] = IF i > 1 THEN x \o Grouped(list[i]) ELSE Grouped(list[i])
    <3> HIDE DEF x
    <3>1. << >> \o Grouped(list[i]) = Grouped(list[i])
      BY <1>2, ConcatEmptySeq
    <3>2. CASE i > 1
      BY <1>4, <3>2 DEF Alternative
    <3>3. CASE ~(i > 1)
      BY <3>1, <3>3 DEF Alternative
    <3>4. QED
      BY <3>2, <3>3
  <2>2. QED
    BY <2>1
<1>7. \A i \in 1 .. n : ss[i] \in Seq(T)
  <2>1. ASSUME NEW i \in 1 .. n PROVE ss[i] \in Seq(T)
    <3> DEFINE g == Grouped(list[i])
    <3>1. g \in Seq(T) /\ ss[i] = IF i > 1 THEN x \o g ELSE g
      BY <1>2, <1>6
    <3> HIDE DEF g, ss, x
    <3>2. x \o g \in Seq(T)
      BY <1>5, <3>1, ConcatProperties
    <3>3. QED
      BY <3>1, <3>2
  <2>2. QED
    BY <2>1
<1>8. ss \in Seq(Seq(T)) /\ Len(ss) = n
  <2>1. \A i \in 1 .. n : Alternative(list, i) \in Seq(T)
    BY <1>7
  <2> DEFINE X == Seq(T)
  <2> HIDE DEF X, n
  <2>2. ss \in Seq(X) /\ Len(ss) = n
    BY <1>1, <2>1 DEF X
  <2>3. QED
    BY <2>2 DEF X
<1>9. Alternatives(list) = FlattenSeq(ss)
  BY DEF Alternatives
<1> HIDE DEF ss, n, T
<1>10. PICK g : Flattens(g, ss, T)
  BY <1>8, Flattened
<1>11. /\ g[0] = << >> /\ FlattenSeq(ss) = g[n]
       /\ \A i \in 1 .. n : g[i] = g[i - 1] \o ss[i]
  BY <1>8, <1>10 DEF Flattens
<1> DEFINE Good(m) == g[m] \in Seq(T) /\ Balanced(g[m]) /\ Parts(g[m], "OR") = P(m)
<1>12. Good(1)
  <2>1. 1 \in 1 .. n /\ ~(1 > 1) /\ 1 - 1 = 0
    BY <1>1
  <2>2. g[1] = << >> \o Grouped(list[1])
    BY <1>6, <1>11, <2>1
  <2>3. g[1] = Grouped(list[1])
    BY <1>2, <2>1, <2>2, ConcatEmptySeq
  <2>4. P(1) = {Grouped(list[1])}
    <3>1. 1 .. 1 = {1}
      OBVIOUS
    <3>2. QED
      BY <3>1
  <2>5. QED
    BY <1>2, <2>1, <2>3, <2>4
<1>13. ASSUME NEW m \in 1 .. n - 1, Good(m) PROVE Good(m + 1)
  <2> DEFINE h == Grouped(list[m + 1])
             a == g[m]
  <2>1. m + 1 \in 1 .. n /\ m + 1 > 1 /\ (m + 1) - 1 = m
    BY <1>1
  <2>2. h \in Seq(T) /\ Balanced(h) /\ Parts(h, "OR") = {h}
    BY <1>2, <2>1
  <2>3. g[m + 1] = a \o (x \o h)
    BY <1>6, <1>11, <2>1
  <2>4. a \in Seq(T) /\ Balanced(a) /\ Parts(a, "OR") = P(m)
    BY <1>13
  <2>5. P(m + 1) = P(m) \cup {h}
    <3>1. 1 .. m + 1 = (1 .. m) \cup {m + 1}
      BY <2>1
    <3>2. QED
      BY <3>1
  <2> HIDE DEF h, a, P
  <2>6. Total(a) = 0
    BY <2>4 DEF Balanced
  <2>7. Parts(a \o (<<or>> \o h), or.t) = Parts(a, or.t) \cup Parts(h, or.t)
    <3>1. a \in Seq(T) /\ h \in Seq(T) /\ or \in T /\ or.t \notin Parentheses /\ Total(a) = 0
      BY <1>3, <2>2, <2>4, <2>6
    <3>2. QED
      BY <3>1, PartsSplit
  <2>8. Parts(a \o (x \o h), "OR") = P(m) \cup {h}
    BY <1>3, <2>2, <2>4, <2>7
  <2> HIDE DEF x
  <2>9. x \o h \in Seq(T) /\ Balanced(x \o h)
    BY <1>5, <2>2, ConcatProperties, BalancedConcat
  <2> DEFINE c == x \o h
  <2> HIDE DEF c
  <2>10. a \o c \in Seq(T) /\ Balanced(a \o c)
    <3>1. c \in Seq(T) /\ Balanced(c)
      BY <2>9 DEF c
    <3>2. QED
      BY <2>4, <3>1, ConcatProperties, BalancedConcat
  <2>11. QED
    BY <2>3, <2>5, <2>8, <2>10 DEF c
<1> DEFINE S == {m \in 0 .. n - 1 : Good(m + 1)}
<1> HIDE DEF Good
<1>14. 0 \in S
  <2>1. 0 \in 0 .. n - 1 /\ 0 + 1 = 1
    BY <1>1
  <2>2. QED
    BY <1>12, <2>1
<1>15. \A m \in 0 .. (n - 1) - 1 : m \in S => m + 1 \in S
  <2>1. ASSUME NEW m \in 0 .. (n - 1) - 1, m \in S PROVE m + 1 \in S
    <3>1. m + 1 \in 1 .. n - 1 /\ m + 1 \in 0 .. n - 1
      BY <1>1
    <3>2. Good(m + 1)
      BY <2>1
    <3>3. Good((m + 1) + 1)
      BY <1>13, <3>1, <3>2
    <3>4. QED
      BY <3>1, <3>3
  <2>2. QED
    BY <2>1
<1> HIDE DEF S
<1>16. n - 1 \in Nat
  BY <1>1
<1>17. \A m \in 0 .. n - 1 : m \in S
  <2> DEFINE N == n - 1
  <2>1. N \in Nat /\ \A m \in 0 .. N - 1 : m \in S => m + 1 \in S
    BY <1>15, <1>16
  <2> HIDE DEF N
  <2>2. \A m \in 0 .. N : m \in S
    BY <1>14, <2>1, BoundedInduction
  <2>3. QED
    BY <2>2 DEF N
<1>18. Good(n)
  <2>1. n - 1 \in S /\ (n - 1) + 1 = n
    BY <1>16, <1>17, <1>1
  <2>2. Good((n - 1) + 1)
    BY <2>1 DEF S
  <2>3. QED
    BY <2>1, <2>2
<1>19. QED
  BY <1>9, <1>11, <1>18 DEF Good, T, n

\* The inputs of a list, over the conditions in all.
AreInputs(ws, all) ==
    IsFiniteSet(ws) /\ \A x \in ws : AreConditions(x.own) /\ x.own \subseteq all

LEMMA AndArmsAdd ==
  ASSUME NEW ws, NEW all, AreInputs(ws, all), NEW r \in Rows
  PROVE  Adds(AndArms(ws), UNION {AtomParts(x.own) : x \in ws}, Tokens(all))
<1> DEFINE T == Tokens(all)
           arm == [x \in ws |-> WhereArms(x.own)]
           F == [x \in ws |-> AtomParts(x.own)]
<1>1. ASSUME NEW x \in ws PROVE Adds(arm[x], F[x], T)
  BY WhereArmsAdd DEF AreInputs
<1>2. {arm[x] : x \in ws} = {WhereArms(x.own) : x \in ws} /\ {F[x] : x \in ws} = {AtomParts(x.own) : x \in ws}
  OBVIOUS
<1>3. IsFiniteSet(ws)
  BY DEF AreInputs
<1> HIDE DEF T, arm, F
<1>4. Adds(FlattenSeq(SetToSeq(ArmsOf(ws, arm))), PartsOf(ws, F), T)
  <2>1. EachAdds(ws, arm, F, T)
    BY <1>1, <1>3 DEF EachAdds
  <2>2. QED
    BY <2>1, AddsEach
<1>5. QED
  BY <1>2, <1>4 DEF AndArms, T, ArmsOf, PartsOf

\* What a NOT of an input adds.
Negation(x) == <<Word("NOT")>> \o Grouped(x)

LEMMA NegationAdds ==
  ASSUME NEW x, AreConditions(x.own), NEW all, x.own \subseteq all, NEW r \in Rows
  PROVE  Adds(Token("AND") \o Token("NOT") \o Grouped(x), {Negation(x)}, Tokens(all))
<1> DEFINE T == Tokens(all)
           g == Grouped(x)
           tok == Word("NOT")
           no == <<tok>>
           and == <<Word("AND")>>
           f == no \o g
<1>1. g \in Seq(T) /\ Balanced(g) /\ Cuts(g, "AND") = {} /\ Cuts(g, "OR") = {}
  BY GroupedWhole
<1>2. tok \in T /\ Word("AND") \in T /\ tok.t = "NOT" /\ tok.t \notin Parentheses
  BY DEF Tokens, KeyWords, Word, Parentheses
<1>3. Token("AND") = and /\ Token("NOT") = no
  BY DEF Token, Word
<1> HIDE DEF T, g, tok
<1>4. no \in Seq(T) /\ and \in Seq(T)
  BY <1>2
<1>5. Balanced(no) /\ Total(no) = 0 /\ Cuts(no, "AND") = {} /\ Cuts(no, "OR") = {}
  BY <1>2, OneToken
<1> HIDE DEF no
<1>6. f \in Seq(T) /\ Balanced(f)
  BY <1>1, <1>4, <1>5, ConcatProperties, BalancedConcat
<1>7. Cuts(f, "AND") = {} /\ Cuts(f, "OR") = {}
  BY <1>1, <1>4, <1>5, NoCutsConcat
<1>8. (and \o no) \o g = and \o f
  <2> HIDE DEF and
  <2>1. QED
    BY <1>1, <1>4, ConcatAssociative
<1> HIDE DEF f
<1>9. Adds(<<Word("AND")>> \o f, {f}, T)
  BY <1>2, <1>6, <1>7, AddsPart
<1>10. QED
  BY <1>3, <1>8, <1>9 DEF T, g, f, no, tok, Negation

LEMMA NotArmsAdd ==
  ASSUME NEW ws, NEW all, AreInputs(ws, all), NEW r \in Rows
  PROVE  Adds(NotArms(ws), {Negation(x) : x \in ws}, Tokens(all))
<1> DEFINE T == Tokens(all)
           arm == [x \in ws |-> Token("AND") \o Token("NOT") \o Grouped(x)]
           F == [x \in ws |-> {Negation(x)}]
<1>1. ASSUME NEW x \in ws PROVE Adds(arm[x], F[x], T)
  BY NegationAdds DEF AreInputs
<1>2. /\ {arm[x] : x \in ws} = {Token("AND") \o Token("NOT") \o Grouped(x) : x \in ws}
      /\ UNION {F[x] : x \in ws} = {Negation(x) : x \in ws}
  OBVIOUS
<1>3. IsFiniteSet(ws)
  BY DEF AreInputs
<1> HIDE DEF T, arm, F
<1>4. Adds(FlattenSeq(SetToSeq(ArmsOf(ws, arm))), PartsOf(ws, F), T)
  <2>1. EachAdds(ws, arm, F, T)
    BY <1>1, <1>3 DEF EachAdds
  <2>2. QED
    BY <2>1, AddsEach
<1>5. QED
  BY <1>2, <1>4 DEF NotArms, T, ArmsOf, PartsOf

\* What an `or` list adds.
Choice(ws) == Alternatives(SetToSeq(ws))
ChoicePart(ws) == IF ws = {} THEN {} ELSE {Group(Choice(ws))}

LEMMA ChoiceIs ==
  ASSUME NEW ws, ws # {}, NEW all, AreInputs(ws, all), NEW r \in Rows
  PROVE  /\ Choice(ws) \in Seq(Tokens(all))
         /\ Balanced(Choice(ws))
         /\ Parts(Choice(ws), "OR") = {Grouped(x) : x \in ws}
<1> DEFINE list == SetToSeq(ws)
<1>1. /\ list \in Seq(ws) /\ Len(list) = Cardinality(ws) /\ Cardinality(ws) \in Nat
      /\ \A x \in ws : \E i \in 1 .. Cardinality(ws) : list[i] = x
  BY ListOf DEF AreInputs
<1> HIDE DEF list
<1>2. list # << >>
  <2>1. PICK x \in ws : TRUE
    OBVIOUS
  <2>2. PICK i \in 1 .. Len(list) : list[i] = x
    BY <1>1, <2>1
  <2>3. Len(list) # 0
    BY <2>2
  <2>4. QED
    BY <2>3
<1>3. /\ Alternatives(list) \in Seq(Tokens(all))
      /\ Balanced(Alternatives(list))
      /\ Parts(Alternatives(list), "OR") = {Grouped(list[i]) : i \in 1 .. Len(list)}
  BY <1>1, <1>2, AlternativesAre DEF AreInputs
<1>4. \A i \in 1 .. Len(list) : list[i] \in ws
  BY <1>1, ElementOfSeq
<1>5. {Grouped(list[i]) : i \in 1 .. Len(list)} = {Grouped(x) : x \in ws}
  BY <1>1, <1>4
<1>6. QED
  BY <1>3, <1>5 DEF Choice, list

LEMMA OrArmsAdd ==
  ASSUME NEW ws, NEW all, AreInputs(ws, all), NEW r \in Rows
  PROVE  Adds(OrArms(ws), ChoicePart(ws), Tokens(all))
<1> DEFINE T == Tokens(all)
           c == Choice(ws)
           g == Group(c)
           and == <<Word("AND")>>
<1>1. CASE ws = {}
  BY <1>1, AddsNothing DEF OrArms, ChoicePart
<1>2. CASE ws # {}
  <2>1. c \in Seq(T) /\ Balanced(c)
    BY <1>2, ChoiceIs
  <2>2. Word("(") \in T /\ Word(")") \in T /\ Word("AND") \in T
    BY DEF Tokens, KeyWords
  <2>3. "AND" \notin Parentheses /\ "OR" \notin Parentheses
    BY DEF Parentheses
  <2>4. OrArms(ws) = ((and \o Open) \o c) \o Close
    BY <1>2 DEF OrArms, Choice, Alternatives, Alternative, Token, Word, Open, Close
  <2>5. ChoicePart(ws) = {g}
    BY <1>2 DEF ChoicePart
  <2>6. and \in Seq(T) /\ Open \in Seq(T) /\ Close \in Seq(T)
    BY <2>2 DEF Open, Close
  <2> HIDE DEF T, c
  <2>7. g \in Seq(T) /\ Balanced(g) /\ Cuts(g, "AND") = {} /\ Cuts(g, "OR") = {}
    BY <2>1, <2>2, <2>3, GroupIs
  <2>8. ((and \o Open) \o c) \o Close = and \o g
    <3> HIDE DEF and
    <3>1. \A p, q, s \in Seq(T) : (p \o q) \o s = p \o (q \o s) /\ p \o q \in Seq(T)
      BY ConcatAssociative, ConcatProperties
    <3>2. (and \o Open) \o c = and \o (Open \o c)
      BY <2>1, <2>6, <3>1
    <3> DEFINE d == Open \o c
    <3>3. d \in Seq(T)
      BY <2>1, <2>6, <3>1
    <3>4. d \o Close = g
      BY <2>1, <2>6, <3>1 DEF Group
    <3> HIDE DEF d, g
    <3>5. (and \o d) \o Close = and \o (d \o Close)
      BY <2>6, <3>1, <3>3
    <3>6. QED
      BY <3>2, <3>4, <3>5 DEF d
  <2> HIDE DEF g
  <2>9. Adds(<<Word("AND")>> \o g, {g}, T)
    BY <2>2, <2>7, AddsPart
  <2>10. QED
    BY <2>4, <2>5, <2>8, <2>9 DEF T
<1>3. QED
  BY <1>1, <1>2

-----------------------------------------------------------------------------
(* The clause of a filter, and what it comes to.                           *)

\* Of a value each factor has, the conjunction is true when all are.
AllTrue(F, r) == \A f \in F : Factor(ReadGroups, f, r) = "true"
HaveValues(F, r) == \A f \in F : Factor(ReadGroups, f, r) \in Values

LEMMA AtomsTrue ==
  ASSUME NEW x, AreConditions(x.own), NEW r \in Rows
  PROVE  /\ HaveValues(AtomParts(x.own), r)
         /\ AllTrue(AtomParts(x.own), r) <=> AllHold(x, r)
<1>1. \A c \in x.own : /\ ValueOf(c, r[c.col]) = "true" <=> Holds(c, r[c.col])
                       /\ ValueOf(c, r[c.col]) \in Values
  BY DEF ValueOf, Values
<1>2. \A c \in Pushed(x.own) : /\ c \in x.own
                               /\ Factor(ReadGroups, <<FieldArm(c)[2]>>, r) = ValueOf(c, r[c.col])
  <2>1. ASSUME NEW c \in Pushed(x.own)
        PROVE  c \in x.own /\ Factor(ReadGroups, <<FieldArm(c)[2]>>, r) = ValueOf(c, r[c.col])
    <3> DEFINE tok == FieldArm(c)[2]
    <3>1. c \in x.own
      BY DEF Pushed
    <3>2. tok.t \in {"1=0", "predicate"} /\ AtomValue(tok, r) = ValueOf(c, r[c.col])
      BY <3>1, PushedAs
    <3> HIDE DEF tok
    <3>3. Factor(ReadGroups, <<tok>>, r) = AtomValue(tok, r)
      BY <3>2, AtomRead
    <3>4. QED
      BY <3>1, <3>2, <3>3 DEF tok
  <2>2. QED
    BY <2>1
<1>3. AtomParts(x.own) = {<<FieldArm(c)[2]>> : c \in Pushed(x.own)}
  BY DEF AtomParts, Atoms
<1>4. \A c \in x.own : c \notin Pushed(x.own) => Holds(c, r[c.col])
  BY PushedAs
<1>5. HaveValues(AtomParts(x.own), r)
  BY <1>1, <1>2, <1>3 DEF HaveValues
<1>6. AllTrue(AtomParts(x.own), r) <=> \A c \in Pushed(x.own) : Holds(c, r[c.col])
  BY <1>1, <1>2, <1>3 DEF AllTrue
<1>7. (\A c \in Pushed(x.own) : Holds(c, r[c.col])) <=> \A c \in x.own : Holds(c, r[c.col])
  BY <1>2, <1>4
<1>8. QED
  BY <1>5, <1>6, <1>7 DEF AllHold

LEMMA NegationsTrue ==
  ASSUME NEW ws, NEW all, AreInputs(ws, all), NEW r \in Rows
  PROVE  LET F == {Negation(x) : x \in ws}
         IN  /\ HaveValues(F, r)
             /\ AllTrue(F, r) <=> \A x \in ws : Fails(x, r)
<1>1. ASSUME NEW x \in ws
      PROVE  /\ Factor(ReadGroups, Negation(x), r) \in Values
             /\ Factor(ReadGroups, Negation(x), r) = "true" <=> Fails(x, r)
  <2> DEFINE v == ConditionsValue(x.own, r)
  <2>1. AreConditions(x.own) /\ x.own \subseteq all
    BY DEF AreInputs
  <2>2. Factor(ReadGroups, Negation(x), r) = Not3(v)
    BY <2>1, GroupedWhole DEF Negation
  <2>3. v \in Values
    BY AndIsAValue DEF ConditionsValue
  <2>4. v = "false" <=> Fails(x, r)
    BY ConditionsValueIs
  <2> HIDE DEF v
  <2>5. Not3(v) \in Values /\ (Not3(v) = "true" <=> v = "false")
    BY <2>3 DEF Not3, Values
  <2>6. QED
    BY <2>2, <2>4, <2>5
<1>2. QED
  BY <1>1 DEF HaveValues, AllTrue

LEMMA ChoiceTrue ==
  ASSUME NEW ws, NEW all, AreInputs(ws, all), NEW r \in Rows
  PROVE  /\ HaveValues(ChoicePart(ws), r)
         /\ AllTrue(ChoicePart(ws), r) <=> (ws # {} => \E x \in ws : AllHold(x, r))
<1>1. CASE ws = {}
  BY <1>1 DEF ChoicePart, HaveValues, AllTrue
<1>2. CASE ws # {}
  <2> DEFINE T == Tokens(all)
             c == Choice(ws)
             V == {ConditionsValue(x.own, r) : x \in ws}
  <2>1. c \in Seq(T) /\ Balanced(c) /\ Parts(c, "OR") = {Grouped(x) : x \in ws}
    BY <1>2, ChoiceIs
  <2>2. Word("(") \in T /\ Word(")") \in T
    BY DEF Tokens, KeyWords
  <2>3. ChoicePart(ws) = {Group(c)}
    BY <1>2 DEF ChoicePart
  <2>4. \A x \in ws : ConditionsValue(x.own, r) \in Values
    BY AndIsAValue DEF ConditionsValue
  <2>5. \A x \in ws : And3({Factor(ReadConditions, f, r) : f \in Parts(Grouped(x), "AND")}) = ConditionsValue(x.own, r)
    <3>1. ASSUME NEW x \in ws
          PROVE  And3({Factor(ReadConditions, f, r) : f \in Parts(Grouped(x), "AND")}) = ConditionsValue(x.own, r)
      <4>1. AreConditions(x.own) /\ x.own \subseteq all
        BY DEF AreInputs
      <4>2. /\ Parts(Grouped(x), "AND") = {Grouped(x)}
            /\ Factor(ReadConditions, Grouped(x), r) = ConditionsValue(x.own, r)
        BY <4>1, GroupedWhole
      <4>3. {Factor(ReadConditions, f, r) : f \in {Grouped(x)}} = {Factor(ReadConditions, Grouped(x), r)}
        OBVIOUS
      <4>4. And3({ConditionsValue(x.own, r)}) = ConditionsValue(x.own, r)
        BY <2>4, OneTerm
      <4>5. QED
        BY <4>2, <4>3, <4>4
    <3>2. QED
      BY <3>1
  <2> HIDE DEF T, c
  <2>6. Factor(ReadGroups, Group(c), r) = ReadGroups(c, r)
    BY <2>1, <2>2, GroupRead
  <2>7. ReadGroups(c, r) = Or3({And3({Factor(ReadConditions, f, r) : f \in Parts(term, "AND")}) : term \in Parts(c, "OR")})
    BY DEF ReadGroups, Reading
  <2>8. {And3({Factor(ReadConditions, f, r) : f \in Parts(term, "AND")}) : term \in Parts(c, "OR")}
          = {And3({Factor(ReadConditions, f, r) : f \in Parts(Grouped(x), "AND")}) : x \in ws}
    BY <2>1
  <2>9. {And3({Factor(ReadConditions, f, r) : f \in Parts(Grouped(x), "AND")}) : x \in ws} = V
    BY <2>5
  <2>10. Factor(ReadGroups, Group(c), r) = Or3(V)
    BY <2>6, <2>7, <2>8, <2>9
  <2>11. "true" \in V <=> \E x \in ws : AllHold(x, r)
    BY ConditionsValueIs
  <2> HIDE DEF V
  <2>12. Or3(V) \in Values /\ (Or3(V) = "true" <=> "true" \in V)
    BY DEF Or3, Values
  <2>13. QED
    BY <1>2, <2>3, <2>10, <2>11, <2>12 DEF HaveValues, AllTrue
<1>3. QED
  BY <1>1, <1>2

\* All the conditions of a filter, and the parts between its ANDs.
AllConditions(w) == w.own \cup UNION {x.own : x \in w.and \cup w.or \cup w.not}
PushedParts(w) ==
    ((AtomParts(w.own) \cup UNION {AtomParts(x.own) : x \in w.and})
     \cup ChoicePart(w.or)) \cup {Negation(x) : x \in w.not}

LEMMA InputsAre ==
  ASSUME NEW w \in Wheres
  PROVE  /\ AreConditions(w.own) /\ w.own \subseteq AllConditions(w)
         /\ AreInputs(w.and, AllConditions(w))
         /\ AreInputs(w.or, AllConditions(w))
         /\ AreInputs(w.not, AllConditions(w))
<1>1. /\ AreConditions(w.own)
      /\ IsFiniteSet(w.and) /\ \A x \in w.and : IsLeaf(x)
      /\ IsFiniteSet(w.or) /\ \A x \in w.or : IsLeaf(x)
      /\ IsFiniteSet(w.not) /\ \A x \in w.not : IsLeaf(x)
  BY WheresAssumption
<1>2. \A x \in w.and \cup w.or \cup w.not : x.own \subseteq AllConditions(w)
  BY DEF AllConditions
<1>3. w.own \subseteq AllConditions(w)
  BY DEF AllConditions
<1>4. QED
  BY <1>1, <1>2, <1>3 DEF AreInputs, IsLeaf

LEMMA BuildWhereIs ==
  ASSUME NEW w \in Wheres, NEW r \in Rows
  PROVE  /\ BuildWhere(w) # << >>
         /\ Parts(BuildWhere(w), "OR") = {BuildWhere(w)}
         /\ Parts(BuildWhere(w), "AND") = {<<Word("1=1")>>} \cup PushedParts(w)
<1> DEFINE all == AllConditions(w)
           T == Tokens(all)
           one == <<Word("1=1")>>
           A == WhereArms(w.own)
           B == AndArms(w.and)
           C == OrArms(w.or)
           D == NotArms(w.not)
           arms == ((A \o B) \o C) \o D
<1>1. Adds(A, AtomParts(w.own), T)
  BY InputsAre, WhereArmsAdd
<1>2. Adds(B, UNION {AtomParts(x.own) : x \in w.and}, T)
  BY InputsAre, AndArmsAdd
<1>3. Adds(C, ChoicePart(w.or), T)
  BY InputsAre, OrArmsAdd
<1>4. Adds(D, {Negation(x) : x \in w.not}, T)
  BY InputsAre, NotArmsAdd
<1>5. Word("1=1") \in T
  BY DEF Tokens, KeyWords
<1>6. BuildWhere(w) = (((one \o A) \o B) \o C) \o D
  BY DEF BuildWhere, Token, Word
<1> HIDE DEF A, B, C, D, T
<1>7. Adds(arms, PushedParts(w), T)
  <2> DEFINE F == AtomParts(w.own)
             G == UNION {AtomParts(x.own) : x \in w.and}
             H == ChoicePart(w.or)
             K == {Negation(x) : x \in w.not}
  <2>1. PushedParts(w) = ((F \cup G) \cup H) \cup K
    BY DEF PushedParts
  <2> HIDE DEF F, G, H, K
  <2>2. Adds(A, F, T) /\ Adds(B, G, T) /\ Adds(C, H, T) /\ Adds(D, K, T)
    BY <1>1, <1>2, <1>3, <1>4 DEF F, G, H, K
  <2>3. Adds(A \o B, F \cup G, T)
    BY <2>2, AddsBoth
  <2>4. Adds((A \o B) \o C, (F \cup G) \cup H, T)
    BY <2>2, <2>3, AddsBoth
  <2>5. Adds(((A \o B) \o C) \o D, ((F \cup G) \cup H) \cup K, T)
    BY <2>2, <2>4, AddsBoth
  <2>6. QED
    BY <2>1, <2>5
<1>8. BuildWhere(w) = one \o arms
  <2>1. A \in Seq(T) /\ B \in Seq(T) /\ C \in Seq(T) /\ D \in Seq(T) /\ one \in Seq(T)
    BY <1>1, <1>2, <1>3, <1>4, <1>5 DEF Adds
  <2> HIDE DEF one
  <2>2. \A p, q, s \in Seq(T) : (p \o q) \o s = p \o (q \o s) /\ p \o q \in Seq(T)
    BY ConcatAssociative, ConcatProperties
  <2> DEFINE E == A \o B
  <2>3. E \in Seq(T) /\ (one \o A) \o B = one \o E
    BY <2>1, <2>2
  <2> HIDE DEF E
  <2> DEFINE I == E \o C
  <2>4. I \in Seq(T) /\ (one \o E) \o C = one \o I
    <3>1. one \in Seq(T) /\ E \in Seq(T) /\ C \in Seq(T)
      BY <2>1, <2>3
    <3> HIDE DEF arms, all
    <3>2. E \o C \in Seq(T) /\ (one \o E) \o C = one \o (E \o C)
      BY <3>1, ConcatAssociative, ConcatProperties
    <3>3. QED
      BY <3>2
  <2> HIDE DEF I
  <2>5. (one \o I) \o D = one \o (I \o D)
    <3>1. one \in Seq(T) /\ I \in Seq(T) /\ D \in Seq(T)
      BY <2>1, <2>4
    <3>2. QED
      BY <3>1, ConcatAssociative
  <2>6. QED
    BY <1>6, <2>3, <2>4, <2>5 DEF E, I
<1> HIDE DEF arms
<1>9. LET s == <<Word("1=1")>> \o arms
      IN  /\ s \in Seq(T)
          /\ Balanced(s)
          /\ Parts(s, "OR") = {s}
          /\ Parts(s, "AND") = {<<Word("1=1")>>} \cup PushedParts(w)
  BY <1>5, <1>7, TrueAnd
<1>10. BuildWhere(w) # << >>
  <2> DEFINE tok == Word("1=1")
  <2>1. tok \in T /\ arms \in Seq(T)
    BY <1>5, <1>7 DEF Adds
  <2> HIDE DEF tok
  <2>2. LET s == <<tok>> \o arms IN s # << >>
    BY <2>1, TailOf
  <2>3. QED
    BY <1>8, <2>2 DEF tok
<1>11. QED
  BY <1>8, <1>9, <1>10

LEMMA PushedPartsTrue ==
  ASSUME NEW w \in Wheres, NEW r \in Rows
  PROVE  /\ HaveValues(PushedParts(w), r)
         /\ AllTrue(PushedParts(w), r) <=> Found(w, r)
<1> DEFINE all == AllConditions(w)
           F == AtomParts(w.own)
           G == UNION {AtomParts(x.own) : x \in w.and}
           H == ChoicePart(w.or)
           K == {Negation(x) : x \in w.not}
<1>1. HaveValues(F, r) /\ (AllTrue(F, r) <=> AllHold(w, r))
  BY InputsAre, AtomsTrue
<1>2. HaveValues(G, r) /\ (AllTrue(G, r) <=> \A x \in w.and : AllHold(x, r))
  <2>1. \A x \in w.and : AreConditions(x.own)
    BY InputsAre DEF AreInputs
  <2>2. \A x \in w.and : HaveValues(AtomParts(x.own), r) /\ (AllTrue(AtomParts(x.own), r) <=> AllHold(x, r))
    BY <2>1, AtomsTrue
  <2>3. HaveValues(G, r)
    BY <2>2 DEF HaveValues
  <2>4. AllTrue(G, r) <=> \A x \in w.and : AllTrue(AtomParts(x.own), r)
    BY DEF AllTrue
  <2>5. QED
    BY <2>2, <2>3, <2>4
<1>3. HaveValues(H, r) /\ (AllTrue(H, r) <=> (w.or # {} => \E x \in w.or : AllHold(x, r)))
  BY InputsAre, ChoiceTrue
<1>4. HaveValues(K, r) /\ (AllTrue(K, r) <=> \A x \in w.not : Fails(x, r))
  BY InputsAre, NegationsTrue
<1>5. PushedParts(w) = ((F \cup G) \cup H) \cup K
  BY DEF PushedParts
<1> HIDE DEF F, G, H, K
<1>6. HaveValues(PushedParts(w), r)
  BY <1>1, <1>2, <1>3, <1>4, <1>5 DEF HaveValues
<1>7. AllTrue(PushedParts(w), r) <=> AllTrue(F, r) /\ AllTrue(G, r) /\ AllTrue(H, r) /\ AllTrue(K, r)
  BY <1>5 DEF AllTrue
<1>8. QED
  BY <1>1, <1>2, <1>3, <1>4, <1>6, <1>7 DEF Found

\* The database finds a row with the clause build_where makes of a filter
\* exactly when the filter finds it.
THEOREM ClauseFindsWhatTheFilterSays ==
  ASSUME NEW w \in Wheres, NEW r \in Rows
  PROVE  Evaluate(BuildWhere(w), r) = "true" <=> Found(w, r)
<1> DEFINE s == BuildWhere(w)
           one == <<Word("1=1")>>
           F == PushedParts(w)
           V == {Factor(ReadGroups, f, r) : f \in {one} \cup F}
<1>1. Parts(s, "OR") = {s} /\ Parts(s, "AND") = {one} \cup F
  BY BuildWhereIs
<1>2. HaveValues(F, r) /\ (AllTrue(F, r) <=> Found(w, r))
  BY PushedPartsTrue
<1>3. Factor(ReadGroups, one, r) = "true"
  BY TrueRead
<1>4. Evaluate(s, r) = Or3({And3({Factor(ReadGroups, f, r) : f \in Parts(term, "AND")}) : term \in Parts(s, "OR")})
  BY DEF Evaluate, Reading
<1> HIDE DEF s, one, F
<1>5. {And3({Factor(ReadGroups, f, r) : f \in Parts(term, "AND")}) : term \in {s}}
        = {And3({Factor(ReadGroups, f, r) : f \in Parts(s, "AND")})}
  OBVIOUS
<1>6. V \subseteq Values /\ (AllTrue(F, r) <=> \A v \in V : v = "true")
  BY <1>2, <1>3 DEF HaveValues, AllTrue, Values
<1>7. {Factor(ReadGroups, f, r) : f \in Parts(s, "AND")} = V
  BY <1>1
<1> HIDE DEF V
<1>8. Evaluate(s, r) = Or3({And3(V)})
  BY <1>1, <1>4, <1>5, <1>7
<1>9. Or3({And3(V)}) = And3(V)
  BY AndIsAValue, OneTerm
<1>10. And3(V) = "true" <=> \A v \in V : v = "true"
  BY <1>6 DEF And3, Values
<1>11. QED
  BY <1>2, <1>6, <1>8, <1>9, <1>10 DEF s

-----------------------------------------------------------------------------
(* The program.                                                            *)

\* The verdict is what the clause of the filter comes to on the row.
IInv ==
    /\ where \in Wheres
    /\ row \in Rows
    /\ clause \in {<< >>, BuildWhere(where)}
    /\ verdict # "none" => verdict = Evaluate(BuildWhere(where), row)

\* A filter finds a row exactly when what its author wrote holds of it: the
\* clause build_where pushes means to the database what the filter means.
THEOREM FilterFindsWhatItSays == Spec => []FindsWhatItSays
<1>1. Init => IInv
  BY DEF Init, IInv
<1>2. IInv /\ [Next]_vars => IInv'
  <2> SUFFICES ASSUME IInv, [Next]_vars PROVE IInv'
    OBVIOUS
  <2>1. CASE Build
    BY <2>1 DEF Build, IInv
  <2>2. CASE Run
    <3>1. clause = BuildWhere(where)
      BY <2>2 DEF Run, IInv
    <3>2. verdict' = Evaluate(BuildWhere(where), row)
      BY <2>2, <3>1 DEF Run
    <3>3. QED
      BY <2>2, <3>2 DEF Run, IInv
  <2>3. CASE UNCHANGED vars
    BY <2>3 DEF vars, IInv
  <2>4. QED
    BY <2>1, <2>2, <2>3 DEF Next
<1>3. IInv => FindsWhatItSays
  <2> SUFFICES ASSUME IInv, verdict # "none" PROVE verdict = "true" <=> Found(where, row)
    BY DEF FindsWhatItSays
  <2>1. where \in Wheres /\ row \in Rows /\ verdict = Evaluate(BuildWhere(where), row)
    BY DEF IInv
  <2>2. QED
    BY <2>1, ClauseFindsWhatTheFilterSays
<1>4. QED
  BY <1>1, <1>2, <1>3, PTL DEF Spec
=============================================================================
