------------------------------- MODULE Lemmas -------------------------------
(***************************************************************************)
(* What the proofs share: induction over the natural numbers with a set in *)
(* the place of the predicate, what it says of the recursive functions     *)
(* that the models define, and the theorems about Frame: the escaping of   *)
(* header values and the parser, on bytes of any length.                   *)
(***************************************************************************)
EXTENDS Frame, SequenceTheorems, WellFoundedInduction, TLAPS

\* A set of natural numbers has a least element.
LEMMA LeastElement ==
    ASSUME NEW S, S \subseteq Nat, S # {}
    PROVE  \E m \in S : \A n \in S : m <= n
<1> DEFINE R == OpToRel(<, Nat)
<1>1. IsWellFoundedOn(R, Nat)
    BY NatLessThanWellFounded
<1>2. \A x, y \in Nat : <<y, x>> \in R <=> y < x
    BY DEF OpToRel
<1> HIDE DEF R
<1>3. PICK m \in S : \A n \in S : ~(<<n, m>> \in R)
    BY <1>1, WFMin
<1>4. \A n \in S : ~(n < m)
    BY <1>2, <1>3
<1> QED  BY <1>3, <1>4

\* A set that holds zero and the successor of each number it holds, up to a
\* bound, holds them all.
LEMMA Induction ==
    ASSUME NEW S, NEW N \in Nat, 0 \in S,
           \A n \in 0..(N - 1) : n \in S => n + 1 \in S
    PROVE  \A n \in 0..N : n \in S
<1> DEFINE T == {n \in 0..N : n \notin S}
<1> SUFFICES T = {}
    OBVIOUS
<1> SUFFICES ASSUME T # {} PROVE FALSE
    OBVIOUS
<1>1. PICK m \in T : \A n \in T : m <= n
  <2>1. T \subseteq Nat
      OBVIOUS
  <2> HIDE DEF T
  <2> QED  BY <2>1, LeastElement
<1>2. m \in 0..N /\ m \notin S /\ m # 0
    BY <1>1
<1>3. m - 1 \in 0..(N - 1) /\ (m - 1) + 1 = m
    BY <1>2
<1>4. m - 1 \notin T
    BY <1>1, <1>3
<1>5. m - 1 \in S
    BY <1>3, <1>4
<1> QED  BY <1>2, <1>3, <1>5

\* Induction from the end.
LEMMA InductionDown ==
    ASSUME NEW S, NEW N \in Nat,
           \A i \in 1..N : (\A j \in (i + 1)..N : j \in S) => i \in S
    PROVE  \A i \in 1..N : i \in S
<1> DEFINE T == {n \in 0..N : \A j \in (N + 1 - n)..N : j \in S}
<1>1. 0 \in T
    OBVIOUS
<1>2. ASSUME NEW n \in 0..(N - 1), n \in T PROVE n + 1 \in T
  <2>1. PICK i : i = N - n
      OBVIOUS
  <2>2. i \in 1..N /\ N + 1 - n = i + 1 /\ N + 1 - (n + 1) = i /\ n + 1 \in 0..N
      BY <2>1
  <2>3. i \in S
      BY <1>2, <2>2
  <2>4. \A j \in i..N : j = i \/ j \in (i + 1)..N
      BY <2>2
  <2> QED  BY <1>2, <2>2, <2>3, <2>4
<1> HIDE DEF T
<1>3. N \in T
  <2>1. \A n \in 0..N : n \in T
      BY <1>1, <1>2, Induction
  <2> QED  BY <2>1
<1> QED  BY <1>3 DEF T

-----------------------------------------------------------------------------
(* Selected *)

\* f solves the equation by which Selected is defined.
Solves(f, s, D) ==
    f = [i \in 0..Len(s) |-> IF i = 0 THEN << >>
             ELSE IF i \in D THEN Append(f[i - 1], s[i]) ELSE f[i - 1]]

\* Which, read at each position, is a recursion.
LEMMA SolvesAt ==
    ASSUME NEW s, NEW D, Len(s) \in Nat, NEW f, Solves(f, s, D)
    PROVE  /\ f[0] = << >>
           /\ \A i \in 1..Len(s) : f[i] = IF i \in D THEN Append(f[i - 1], s[i]) ELSE f[i - 1]
<1>1. \A i \in 0..Len(s) : f[i] = IF i = 0 THEN << >>
                               ELSE IF i \in D THEN Append(f[i - 1], s[i]) ELSE f[i - 1]
    BY DEF Solves
<1>2. 0 \in 0..Len(s) /\ \A i \in 1..Len(s) : i \in 0..Len(s) /\ i # 0
    OBVIOUS
<1> QED  BY <1>1, <1>2

\* It has at most one solution.
LEMMA SolvesUnique ==
    ASSUME NEW s, NEW D, Len(s) \in Nat, NEW g, NEW h, Solves(g, s, D), Solves(h, s, D)
    PROVE  \A i \in 0..Len(s) : g[i] = h[i]
<1> DEFINE N == Len(s)
           S == {i \in 0..N : g[i] = h[i]}
<1>0. /\ g[0] = h[0]
      /\ \A i \in 1..N : g[i] = IF i \in D THEN Append(g[i - 1], s[i]) ELSE g[i - 1]
      /\ \A i \in 1..N : h[i] = IF i \in D THEN Append(h[i - 1], s[i]) ELSE h[i - 1]
    BY SolvesAt
<1>1. 0 \in S
    BY <1>0
<1>2. ASSUME NEW n \in 0..(N - 1), n \in S PROVE n + 1 \in S
  <2>1. n + 1 \in 0..N /\ n + 1 \in 1..N /\ (n + 1) - 1 = n
      OBVIOUS
  <2>2. g[n + 1] = IF n + 1 \in D THEN Append(g[n], s[n + 1]) ELSE g[n]
      BY <1>0, <2>1
  <2>3. h[n + 1] = IF n + 1 \in D THEN Append(h[n], s[n + 1]) ELSE h[n]
      BY <1>0, <2>1
  <2> QED  BY <1>2, <2>1, <2>2, <2>3
<1> HIDE DEF S
<1>3. \A n \in 0..N : n \in S
    BY <1>1, <1>2, Induction
<1> QED  BY <1>3 DEF S

\* So that any solution gives the value of Selected.
LEMMA SelectedSolves ==
    ASSUME NEW s, NEW D, Len(s) \in Nat, NEW g, Solves(g, s, D)
    PROVE  Selected(s, D) = g[Len(s)]
<1>1. PICK h : h = (CHOOSE f : Solves(f, s, D))
    OBVIOUS
<1>2. Selected(s, D) = h[Len(s)]
    BY <1>1 DEF Selected, Solves
<1>3. Solves(h, s, D)
    BY <1>1
<1>4. Len(s) \in 0..Len(s)
    OBVIOUS
<1> QED  BY <1>2, <1>3, <1>4, SolvesUnique

\* The recursion read at each position, with its domain, makes a solution.
LEMMA SolvesFrom ==
    ASSUME NEW s, NEW D, Len(s) \in Nat, NEW f,
           f = [i \in 0..Len(s) |-> f[i]], f[0] = << >>,
           \A i \in 1..Len(s) : f[i] = IF i \in D THEN Append(f[i - 1], s[i]) ELSE f[i - 1]
    PROVE  Solves(f, s, D)
<1>1. \A i \in 0..Len(s) : i = 0 \/ i \in 1..Len(s)
    OBVIOUS
<1>2. \A i \in 0..Len(s) : f[i] = IF i = 0 THEN << >>
                               ELSE IF i \in D THEN Append(f[i - 1], s[i]) ELSE f[i - 1]
    BY <1>1
<1> QED  BY <1>2 DEF Solves

\* f solves it for the first n positions.
SolvesTo(f, s, D, n) ==
    /\ f[0] = << >>
    /\ \A i \in 1..n : f[i] = IF i \in D THEN Append(f[i - 1], s[i]) ELSE f[i - 1]

\* There is a solution for every sequence.
LEMMA SolutionExists ==
    ASSUME NEW s, NEW D, Len(s) \in Nat
    PROVE  \E f : Solves(f, s, D)
<1> DEFINE N == Len(s)
           S == {n \in 0..N : \E f : SolvesTo(f, s, D, n)}
<1>1. 0 \in S
  <2> DEFINE f == [i \in 0..0 |-> << >>]
  <2>1. f[0] = << >>
      OBVIOUS
  <2> HIDE DEF f
  <2>2. SolvesTo(f, s, D, 0)
      BY <2>1 DEF SolvesTo
  <2> QED  BY <2>2
<1>2. ASSUME NEW n \in 0..(N - 1), n \in S PROVE n + 1 \in S
  <2>1. PICK f : SolvesTo(f, s, D, n)
      BY <1>2
  <2> DEFINE x == IF n + 1 \in D THEN Append(f[n], s[n + 1]) ELSE f[n]
             g == [i \in 0..(n + 1) |-> IF i = n + 1 THEN x ELSE f[i]]
  <2>2. /\ \A i \in 0..n : g[i] = f[i]
        /\ g[n + 1] = x
    <3> HIDE DEF x
    <3> QED  OBVIOUS
  <2> HIDE DEF g
  <2>3. SolvesTo(g, s, D, n + 1)
    <3>1. g[0] = << >>
        BY <2>1, <2>2 DEF SolvesTo
    <3>2. ASSUME NEW i \in 1..(n + 1)
          PROVE  g[i] = IF i \in D THEN Append(g[i - 1], s[i]) ELSE g[i - 1]
      <4>1. CASE i = n + 1
        <5>1. i - 1 \in 0..n /\ i - 1 = n
            BY <4>1
        <5> QED  BY <2>2, <4>1, <5>1
      <4>2. CASE i # n + 1
        <5>1. i \in 1..n /\ i \in 0..n /\ i - 1 \in 0..n
            BY <4>2
        <5> QED  BY <2>1, <2>2, <5>1 DEF SolvesTo
      <4> QED  BY <4>1, <4>2
    <3> QED  BY <3>1, <3>2 DEF SolvesTo
  <2>4. n + 1 \in 0..N
      OBVIOUS
  <2> QED  BY <2>3, <2>4
<1> HIDE DEF S
<1>3. N \in S
  <2>1. \A n \in 0..N : n \in S
      BY <1>1, <1>2, Induction
  <2> QED  BY <2>1
<1>4. PICK f : SolvesTo(f, s, D, N)
    BY <1>3 DEF S
<1> DEFINE g == [i \in 0..N |-> f[i]]
<1>5. \A i \in 0..N : g[i] = f[i]
    OBVIOUS
<1>6. g = [i \in 0..N |-> g[i]]
    OBVIOUS
<1> HIDE DEF g
<1>7. g[0] = << >>
    BY <1>4, <1>5 DEF SolvesTo
<1>8. ASSUME NEW i \in 1..N
      PROVE  g[i] = IF i \in D THEN Append(g[i - 1], s[i]) ELSE g[i - 1]
  <2>1. i \in 0..N /\ i - 1 \in 0..N
      OBVIOUS
  <2> QED  BY <1>4, <1>5, <2>1 DEF SolvesTo
<1>9. Solves(g, s, D)
    BY <1>6, <1>7, <1>8, SolvesFrom
<1> QED  BY <1>9

\* Nothing is selected from nothing.
LEMMA SelectedEmpty == ASSUME NEW s, NEW D, Len(s) = 0 PROVE Selected(s, D) = << >>
<1>0. Len(s) \in Nat
    OBVIOUS
<1>1. PICK f : Solves(f, s, D)
    BY <1>0, SolutionExists
<1>2. f[0] = << >>
  <2>1. 0 \in 0..Len(s)
      OBVIOUS
  <2> QED  BY <1>1, <2>1 DEF Solves
<1>3. Selected(s, D) = f[Len(s)]
    BY <1>0, <1>1, SelectedSolves
<1> QED  BY <1>2, <1>3

\* A sequence with one more element: it is selected last, or not.
LEMMA SelectedAppend ==
    ASSUME NEW s, NEW D, Len(s) \in Nat, NEW t, NEW E, Len(t) = Len(s) + 1,
           \A i \in 1..Len(s) : t[i] = s[i] /\ (i \in E <=> i \in D)
    PROVE  Selected(t, E) = IF Len(t) \in E THEN Append(Selected(s, D), t[Len(t)])
                            ELSE Selected(s, D)
<1>1. PICK f : Solves(f, t, E)
    BY SolutionExists
<1>2. /\ f[0] = << >>
      /\ \A i \in 1..Len(t) : f[i] = IF i \in E THEN Append(f[i - 1], t[i]) ELSE f[i - 1]
    BY <1>1, SolvesAt
<1>3. Selected(t, E) = f[Len(t)]
    BY <1>1, SelectedSolves
<1> DEFINE g == [i \in 0..Len(s) |-> f[i]]
<1>4. g = [i \in 0..Len(s) |-> g[i]] /\ \A i \in 0..Len(s) : g[i] = f[i]
    OBVIOUS
<1> HIDE DEF g
<1>5. g[0] = << >>
    BY <1>2, <1>4
<1>6. ASSUME NEW i \in 1..Len(s)
      PROVE  g[i] = IF i \in D THEN Append(g[i - 1], s[i]) ELSE g[i - 1]
  <2>1. i \in 0..Len(s) /\ i - 1 \in 0..Len(s) /\ i \in 1..Len(t)
      OBVIOUS
  <2> QED  BY <1>2, <1>4, <2>1
<1>7. Selected(s, D) = g[Len(s)]
  <2>1. Solves(g, s, D)
      BY <1>4, <1>5, <1>6, SolvesFrom
  <2> QED  BY <2>1, SelectedSolves
<1>8. Len(t) \in 1..Len(t) /\ Len(t) - 1 = Len(s) /\ Len(s) \in 0..Len(s)
    OBVIOUS
<1> QED  BY <1>2, <1>3, <1>4, <1>7, <1>8

\* Counting up to one more is counting and one more.
LEMMA CountAppend ==
    ASSUME NEW n \in Nat
    PROVE  /\ Append([m \in 1..n |-> m], n + 1) = [m \in 1..(n + 1) |-> m]
           /\ Len([m \in 1..n |-> m]) = n
<1> DEFINE c == [m \in 1..n |-> m]
           a == Append(c, n + 1)
<1>1. c \in [1..n -> Nat]
    OBVIOUS
<1>2. \A m \in 1..n : c[m] = m
    OBVIOUS
<1> HIDE DEF c
<1>3. c \in Seq(Nat) /\ Len(c) = n
    BY <1>1
<1>4. /\ a \in Seq(Nat) /\ Len(a) = n + 1
      /\ \A m \in 1..n : a[m] = c[m]
      /\ a[n + 1] = n + 1
    BY <1>3, AppendProperties
<1> HIDE DEF a
<1>5. ASSUME NEW m \in 1..(n + 1) PROVE a[m] = m
  <2>1. m = n + 1 \/ m \in 1..n
      OBVIOUS
  <2> QED  BY <1>2, <1>4, <2>1
<1>6. DOMAIN a = 1..(n + 1) /\ a = [m \in DOMAIN a |-> a[m]]
    BY <1>4, LenProperties
<1>7. a = [m \in 1..(n + 1) |-> m]
    BY <1>5, <1>6
<1> QED  BY <1>3, <1>7 DEF a, c

\* Selected from a sequence whose elements at the positions in D count up from
\* one: the numbers up to as many as there are. done says how many there are
\* among the first i.
LEMMA SelectedCounts ==
    ASSUME NEW s, NEW D, Len(s) \in Nat, NEW done \in [0..Len(s) -> Nat], done[0] = 0,
           \A i \in 1..Len(s) :
               IF i \in D THEN done[i] = done[i - 1] + 1 /\ s[i] = done[i]
               ELSE done[i] = done[i - 1]
    PROVE  Selected(s, D) = [m \in 1..done[Len(s)] |-> m]
<1> DEFINE Count(n) == [m \in 1..n |-> m]
           g == [i \in 0..Len(s) |-> Count(done[i])]
<1>1. \A n \in Nat : Append(Count(n), n + 1) = Count(n + 1)
    BY CountAppend
<1>2. Solves(g, s, D)
  <2>1. Count(0) = << >>
      OBVIOUS
  <2>2. ASSUME NEW i \in 0..Len(s), i # 0
        PROVE  Count(done[i]) = IF i \in D THEN Append(Count(done[i - 1]), s[i])
                                ELSE Count(done[i - 1])
    <3>1. i \in 1..Len(s) /\ i - 1 \in 0..Len(s) /\ done[i - 1] \in Nat
        BY <2>2, SMTT(30)
    <3> HIDE DEF Count
    <3> QED  BY <1>1, <3>1
  <2>3. ASSUME NEW i \in 0..Len(s), i # 0 PROVE g[i - 1] = Count(done[i - 1])
    <3>1. i - 1 \in 0..Len(s)
        BY <2>3
    <3> HIDE DEF Count
    <3> QED  BY <3>1
  <2> HIDE DEF Count
  <2>4. g = [i \in 0..Len(s) |-> IF i = 0 THEN << >>
                ELSE IF i \in D THEN Append(g[i - 1], s[i]) ELSE g[i - 1]]
      BY <2>1, <2>2, <2>3
  <2> HIDE DEF g
  <2> QED  BY <2>4 DEF Solves
<1>3. g[Len(s)] = Count(done[Len(s)])
    OBVIOUS
<1> HIDE DEF g
<1>4. Selected(s, D) = g[Len(s)]
    BY <1>2, SelectedSolves
<1> QED  BY <1>3, <1>4

-----------------------------------------------------------------------------
(* Sequences of sequences, one behind the other *)

\* flat solves the equation by which FlattenSeq is defined.
Flattens(flat, seqs) ==
    flat = [i \in 1..Len(seqs) |-> IF i = 1 THEN seqs[i] ELSE flat[i - 1] \o seqs[i]]

\* It does so for the first n.
FlattensTo(flat, seqs, n) ==
    \A i \in 1..n : flat[i] = IF i = 1 THEN seqs[i] ELSE flat[i - 1] \o seqs[i]

LEMMA FlattenExists ==
    ASSUME NEW seqs, Len(seqs) \in Nat
    PROVE  \E flat : Flattens(flat, seqs)
<1> DEFINE N == Len(seqs)
           S == {n \in 0..N : \E f : FlattensTo(f, seqs, n)}
<1>1. 0 \in S
    BY DEF FlattensTo
<1>2. ASSUME NEW n \in 0..(N - 1), n \in S PROVE n + 1 \in S
  <2>1. PICK f : FlattensTo(f, seqs, n)
      BY <1>2
  <2> DEFINE x == IF n + 1 = 1 THEN seqs[n + 1] ELSE f[n] \o seqs[n + 1]
             g == [i \in 1..(n + 1) |-> IF i = n + 1 THEN x ELSE f[i]]
  <2>2. g[n + 1] = x /\ \A i \in 1..n : g[i] = f[i]
    <3> HIDE DEF x
    <3> QED  OBVIOUS
  <2> HIDE DEF g
  <2>3. ASSUME NEW i \in 1..(n + 1)
        PROVE  g[i] = IF i = 1 THEN seqs[i] ELSE g[i - 1] \o seqs[i]
    <3>1. CASE i = n + 1
      <4>1. i # 1 => i - 1 \in 1..n /\ i - 1 = n
          BY <3>1
      <4> QED  BY <2>2, <3>1, <4>1
    <3>2. CASE i # n + 1
      <4>1. i \in 1..n /\ (i # 1 => i - 1 \in 1..n)
          BY <3>2
      <4> QED  BY <2>1, <2>2, <4>1 DEF FlattensTo
    <3> QED  BY <3>1, <3>2
  <2>4. n + 1 \in 0..N /\ FlattensTo(g, seqs, n + 1)
      BY <2>3 DEF FlattensTo
  <2> QED  BY <2>4
<1> HIDE DEF S
<1>3. \A n \in 0..N : n \in S
    BY <1>1, <1>2, Induction
<1>4. PICK f : FlattensTo(f, seqs, N)
    BY <1>3 DEF S
<1> DEFINE g == [i \in 1..N |-> f[i]]
<1>5. g = [i \in 1..N |-> g[i]] /\ \A i \in 1..N : g[i] = f[i]
    OBVIOUS
<1> HIDE DEF g
<1>6. ASSUME NEW i \in 1..N
      PROVE  g[i] = IF i = 1 THEN seqs[i] ELSE g[i - 1] \o seqs[i]
  <2>1. i # 1 => i - 1 \in 1..N
      OBVIOUS
  <2> QED  BY <1>4, <1>5, <2>1 DEF FlattensTo
<1>7. Flattens(g, seqs)
    BY <1>5, <1>6 DEF Flattens
<1> QED  BY <1>7

\* w holds e from behind position p on.
HoldsAt(w, p, e) == p + Len(e) <= Len(w) /\ \A k \in 1..Len(e) : w[p + k] = e[k]

\* Nothing that was there moves when something is put behind it.
LEMMA HoldsStays ==
    ASSUME NEW S, NEW w \in Seq(S), NEW x \in Seq(S), NEW e \in Seq(S), NEW p \in Nat,
           HoldsAt(w, p, e)
    PROVE  HoldsAt(w \o x, p, e)
<1>1. /\ Len(w) \in Nat /\ Len(x) \in Nat /\ Len(e) \in Nat
      /\ Len(w \o x) = Len(w) + Len(x)
      /\ \A i \in 1..(Len(w) + Len(x)) :
            (w \o x)[i] = IF i <= Len(w) THEN w[i] ELSE x[i - Len(w)]
    BY ConcatProperties, LenProperties
<1>2. p + Len(e) <= Len(w) /\ \A k \in 1..Len(e) : w[p + k] = e[k]
    BY DEF HoldsAt
<1>3. ASSUME NEW k \in 1..Len(e) PROVE (w \o x)[p + k] = e[k]
  <2>1. p + k \in 1..(Len(w) + Len(x)) /\ p + k <= Len(w)
      BY <1>1, <1>2
  <2> QED  BY <1>1, <1>2, <2>1
<1>4. p + Len(e) <= Len(w \o x)
    BY <1>1, <1>2
<1> QED  BY <1>3, <1>4 DEF HoldsAt

LEMMA HoldsBehind ==
    ASSUME NEW S, NEW w \in Seq(S), NEW x \in Seq(S)
    PROVE  HoldsAt(w \o x, Len(w), x)
<1>1. /\ Len(w) \in Nat /\ Len(x) \in Nat
      /\ Len(w \o x) = Len(w) + Len(x)
      /\ \A i \in 1..(Len(w) + Len(x)) :
            (w \o x)[i] = IF i <= Len(w) THEN w[i] ELSE x[i - Len(w)]
    BY ConcatProperties, LenProperties
<1>2. ASSUME NEW k \in 1..Len(x) PROVE (w \o x)[Len(w) + k] = x[k]
  <2>1. Len(w) + k \in 1..(Len(w) + Len(x)) /\ ~(Len(w) + k <= Len(w)) /\ (Len(w) + k) - Len(w) = k
      BY <1>1
  <2> QED  BY <1>1, <2>1
<1>3. Len(w) + Len(x) <= Len(w \o x)
    BY <1>1
<1> QED  BY <1>2, <1>3 DEF HoldsAt

\* at[i] is where the i-th of seqs ends in w, and the next one begins.
Places(at, w, seqs) ==
    /\ at[0] = 0 /\ at[Len(seqs)] = Len(w)
    /\ \A i \in 0..Len(seqs) : at[i] \in Nat
    /\ \A i \in 1..Len(seqs) : at[i] = at[i - 1] + Len(seqs[i]) /\ HoldsAt(w, at[i - 1], seqs[i])

\* FlattenSeq puts each of seqs in its place, and nothing else.
LEMMA FlattenPlaces ==
    ASSUME NEW S, NEW seqs, Len(seqs) \in Nat \ {0}, \A i \in 1..Len(seqs) : seqs[i] \in Seq(S)
    PROVE  /\ FlattenSeq(seqs) \in Seq(S)
           /\ \E at : Places(at, FlattenSeq(seqs), seqs)
<1> DEFINE N == Len(seqs)
<1>1. PICK flat : flat = (CHOOSE f : Flattens(f, seqs))
    OBVIOUS
<1>2. FlattenSeq(seqs) = flat[N]
    BY <1>1 DEF FlattenSeq, Flattens
<1>3. Flattens(flat, seqs)
    BY <1>1, FlattenExists
<1>4. \A i \in 1..N : flat[i] = IF i = 1 THEN seqs[i] ELSE flat[i - 1] \o seqs[i]
    BY <1>3 DEF Flattens
<1> DEFINE at == [i \in 0..N |-> IF i = 0 THEN 0 ELSE Len(flat[i])]
           Good(m) ==
             /\ flat[m] \in Seq(S)
             /\ \A i \in 0..m : at[i] \in Nat
             /\ \A i \in 1..m : at[i] = at[i - 1] + Len(seqs[i]) /\ HoldsAt(flat[m], at[i - 1], seqs[i])
           T == {n \in 0..(N - 1) : Good(n + 1)}
<1>5. at[0] = 0 /\ \A i \in 1..N : at[i] = Len(flat[i])
    OBVIOUS
<1> HIDE DEF at
<1>6. 0 \in T
  <2>1. 1 \in 1..N /\ flat[1] = seqs[1] /\ seqs[1] \in Seq(S)
      BY <1>4
  <2>2. Len(seqs[1]) \in Nat /\ at[1] = Len(seqs[1])
      BY <1>5, <2>1, LenProperties
  <2>3. HoldsAt(flat[1], at[0], seqs[1])
      BY <1>5, <2>1, <2>2 DEF HoldsAt
  <2>4. at[1] = at[0] + Len(seqs[1])
      BY <1>5, <2>2
  <2>5. \A i \in 0..1 : at[i] \in Nat
    <3>1. \A i \in 0..1 : i = 0 \/ i = 1
        OBVIOUS
    <3> QED  BY <1>5, <2>2, <3>1
  <2>6. Good(1)
      BY <2>1, <2>3, <2>4, <2>5
  <2> HIDE DEF Good
  <2> QED  BY <2>6
<1>7. ASSUME NEW n \in 0..((N - 1) - 1), n \in T PROVE n + 1 \in T
  <2>1. PICK m, k : m = n + 1 /\ k = (n + 1) + 1
      OBVIOUS
  <2>2. /\ m \in 1..N /\ k \in 1..N /\ k # 1 /\ k - 1 = m /\ m + 1 = k
        /\ n + 1 \in 0..(N - 1) /\ m \in Nat
      BY <2>1
  <2>3. Good(m)
    <3> HIDE DEF Good
    <3> QED  BY <1>7, <2>1
  <2>4. flat[m] \in Seq(S) /\ seqs[k] \in Seq(S) /\ flat[k] = flat[m] \o seqs[k]
      BY <1>4, <2>2, <2>3
  <2>5. flat[k] \in Seq(S) /\ Len(flat[k]) = Len(flat[m]) + Len(seqs[k])
      BY <2>4, ConcatProperties
  <2>6. \A i \in 0..k : at[i] \in Nat
    <3>1. \A i \in 0..k : i \in 0..m \/ i = k
        BY <2>2
    <3>2. at[k] \in Nat
        BY <1>5, <2>2, <2>5, LenProperties
    <3> QED  BY <2>3, <3>1, <3>2
  <2>7. ASSUME NEW i \in 1..k
        PROVE  at[i] = at[i - 1] + Len(seqs[i]) /\ HoldsAt(flat[k], at[i - 1], seqs[i])
    <3>1. CASE i \in 1..m
      <4>1. i - 1 \in 0..m /\ i \in 1..N
          BY <2>2, <3>1
      <4>2. /\ seqs[i] \in Seq(S) /\ HoldsAt(flat[m], at[i - 1], seqs[i]) /\ at[i - 1] \in Nat
            /\ at[i] = at[i - 1] + Len(seqs[i])
          BY <2>3, <3>1, <4>1
      <4> QED  BY <2>4, <4>2, HoldsStays
    <3>2. CASE i = k
      <4>1. at[i - 1] = Len(flat[m]) /\ at[i] = Len(flat[k])
          BY <1>5, <2>2, <3>2
      <4>2. HoldsAt(flat[k], Len(flat[m]), seqs[k])
          BY <2>4, HoldsBehind
      <4> QED  BY <2>5, <3>2, <4>1, <4>2
    <3>3. i \in 1..m \/ i = k
        BY <2>2
    <3> QED  BY <3>1, <3>2, <3>3
  <2>8. Good(k)
      BY <2>5, <2>6, <2>7
  <2> HIDE DEF Good
  <2> QED  BY <2>1, <2>2, <2>8
<1>8. Good(N)
  <2> HIDE DEF T
  <2>1. N - 1 \in Nat /\ N - 1 \in 0..(N - 1) /\ (N - 1) + 1 = N
      OBVIOUS
  <2>2. \A n \in 0..(N - 1) : n \in T
      BY <1>6, <1>7, <2>1, Induction
  <2>3. N - 1 \in T
      BY <2>1, <2>2
  <2> HIDE DEF Good
  <2> QED  BY <2>1, <2>3 DEF T
<1>9. at[N] = Len(flat[N])
  <2>1. N \in 1..N
      OBVIOUS
  <2> QED  BY <1>5, <2>1
<1>10. Places(at, flat[N], seqs)
    BY <1>5, <1>8, <1>9 DEF Places
<1> QED  BY <1>2, <1>8, <1>10

-----------------------------------------------------------------------------
(* Escaping header values *)

\* What Unescape makes of w from position i on, given what it makes of the
\* positions behind.
UnescapeAt(f, w, i) ==
    IF i > Len(w) THEN << >>
    ELSE IF w[i] = "ESC" /\ i < Len(w) THEN UnescapeOf(w[i + 1]) \o f[i + 2]
         ELSE <<w[i]>> \o f[i + 1]

Unescapes(f, w) == f = [i \in 1..(Len(w) + 1) |-> UnescapeAt(f, w, i)]

\* It looks only at what is behind.
LEMMA UnescapeLooksBehind ==
    ASSUME NEW w, Len(w) \in Nat, NEW f, NEW g, NEW i \in 1..(Len(w) + 1),
           \A j \in (i + 1)..(Len(w) + 1) : f[j] = g[j]
    PROVE  UnescapeAt(f, w, i) = UnescapeAt(g, w, i)
<1>1. CASE i > Len(w)
    BY <1>1 DEF UnescapeAt
<1>2. CASE ~(i > Len(w))
  <2>1. i + 1 \in (i + 1)..(Len(w) + 1)
      BY <1>2
  <2>2. i < Len(w) => i + 2 \in (i + 1)..(Len(w) + 1)
      BY <1>2
  <2> QED  BY <1>2, <2>1, <2>2 DEF UnescapeAt
<1> QED  BY <1>1, <1>2

\* Such an f exists, whatever w is: it is built from the end.
LEMMA UnescapeExists ==
    ASSUME NEW w, Len(w) \in Nat
    PROVE  \E f : Unescapes(f, w)
<1> DEFINE N == Len(w)
           To(f, n) == \A i \in (N + 1 - n)..(N + 1) : f[i] = UnescapeAt(f, w, i)
           S == {n \in 0..N : \E f : To(f, n)}
<1>1. 0 \in S
  <2> DEFINE f == [i \in {N + 1} |-> << >>]
  <2>1. f[N + 1] = << >>
      OBVIOUS
  <2> HIDE DEF f
  <2>2. UnescapeAt(f, w, N + 1) = << >>
      BY DEF UnescapeAt
  <2>3. \A i \in (N + 1 - 0)..(N + 1) : i = N + 1
      OBVIOUS
  <2>4. To(f, 0)
      BY <2>1, <2>2, <2>3
  <2> HIDE DEF To
  <2> QED  BY <2>4
<1>2. ASSUME NEW n \in 0..(N - 1), n \in S PROVE n + 1 \in S
  <2>1. PICK f : To(f, n)
    <3> HIDE DEF To
    <3> QED  BY <1>2
  <2>2. PICK m : m = N - n
      OBVIOUS
  <2>3. /\ m \in 1..N /\ m \in 1..(N + 1) /\ N + 1 - n = m + 1 /\ N + 1 - (n + 1) = m
        /\ n + 1 \in 0..N
      BY <2>2
  <2> DEFINE g == [i \in m..(N + 1) |-> IF i = m THEN UnescapeAt(f, w, m) ELSE f[i]]
  <2>4. g[m] = UnescapeAt(f, w, m) /\ \A i \in (m + 1)..(N + 1) : g[i] = f[i]
      BY <2>3
  <2> HIDE DEF g
  <2>5. ASSUME NEW i \in m..(N + 1) PROVE g[i] = UnescapeAt(g, w, i)
    <3>1. i \in 1..(N + 1) /\ \A j \in (i + 1)..(N + 1) : j \in (m + 1)..(N + 1)
        BY <2>3
    <3>2. \A j \in (i + 1)..(N + 1) : f[j] = g[j]
        BY <2>4, <3>1
    <3>3. UnescapeAt(f, w, i) = UnescapeAt(g, w, i)
        BY <3>1, <3>2, UnescapeLooksBehind
    <3>4. CASE i = m
        BY <2>4, <3>3, <3>4
    <3>5. CASE i # m
      <4>1. i \in (m + 1)..(N + 1)
          BY <2>3, <3>5
      <4> QED  BY <2>1, <2>3, <2>4, <3>3, <4>1
    <3> QED  BY <3>4, <3>5
  <2>6. To(g, n + 1)
      BY <2>3, <2>5
  <2> HIDE DEF To
  <2> QED  BY <2>3, <2>6
<1> HIDE DEF S
<1>3. \A n \in 0..N : n \in S
    BY <1>1, <1>2, Induction
<1>4. PICK f : To(f, N)
  <2> HIDE DEF To
  <2> QED  BY <1>3 DEF S
<1> DEFINE g == [i \in 1..(N + 1) |-> f[i]]
<1>5. g = [i \in 1..(N + 1) |-> g[i]] /\ \A i \in 1..(N + 1) : g[i] = f[i]
    OBVIOUS
<1> HIDE DEF g
<1>6. ASSUME NEW i \in 1..(N + 1) PROVE g[i] = UnescapeAt(g, w, i)
  <2>1. \A j \in (i + 1)..(N + 1) : f[j] = g[j]
      BY <1>5
  <2>2. UnescapeAt(f, w, i) = UnescapeAt(g, w, i)
      BY <2>1, UnescapeLooksBehind
  <2>3. i \in (N + 1 - N)..(N + 1)
      OBVIOUS
  <2> QED  BY <1>4, <1>5, <2>2, <2>3
<1>7. Unescapes(g, w)
    BY <1>5, <1>6 DEF Unescapes
<1> QED  BY <1>7

\* Unescape is the first value of such an f.
LEMMA UnescapeIs ==
    ASSUME NEW w, Len(w) \in Nat
    PROVE  \E f : Unescape(w) = f[1] /\ \A i \in 1..(Len(w) + 1) : f[i] = UnescapeAt(f, w, i)
<1>1. PICK f : f = (CHOOSE g : Unescapes(g, w))
    OBVIOUS
<1>2. Unescape(w) = f[1]
    BY <1>1 DEF Unescape, Unescapes, UnescapeAt
<1>3. Unescapes(f, w)
    BY <1>1, UnescapeExists
<1> QED  BY <1>2, <1>3 DEF Unescapes

\* The symbols that escaping leaves alone, and those it writes instead.
Separators == {"CR", "LF", ":"}
Safe(B) == (B \cup {"ESC", "r", "n", "c"}) \ Separators

\* A symbol is written as it is, or behind a backslash as one that stands
\* for it.
LEMMA EscapeOfCases ==
    ASSUME NEW B, NEW b \in B
    PROVE  /\ EscapeOf(b) \in Seq(Safe(B))
           /\ \/ EscapeOf(b) = <<b>> /\ b # "ESC"
              \/ \E c \in {"r", "n", "c", "ESC"} : EscapeOf(b) = <<"ESC", c>> /\ UnescapeOf(c) = <<b>>
<1>1. CASE b = "CR"
    BY <1>1 DEF EscapeOf, UnescapeOf, Safe, Separators
<1>2. CASE b = "LF"
    BY <1>2 DEF EscapeOf, UnescapeOf, Safe, Separators
<1>3. CASE b = ":"
    BY <1>3 DEF EscapeOf, UnescapeOf, Safe, Separators
<1>4. CASE b = "ESC"
    BY <1>4 DEF EscapeOf, UnescapeOf, Safe, Separators
<1>5. CASE b \notin {"CR", "LF", ":", "ESC"}
  <2>1. EscapeOf(b) = <<b>>
      BY <1>5 DEF EscapeOf
  <2>2. b \in Safe(B)
      BY <1>5 DEF Safe, Separators
  <2> QED  BY <1>5, <2>1, <2>2
<1> QED  BY <1>1, <1>2, <1>3, <1>4, <1>5

\* Escaping writes each symbol in its place.
LEMMA EscapePlaces ==
    ASSUME NEW B, NEW v \in Seq(B), Len(v) # 0
    PROVE  /\ Escape(v) \in Seq(Safe(B))
           /\ \E at, seqs :
                /\ Len(seqs) = Len(v) /\ Places(at, Escape(v), seqs)
                /\ \A i \in 1..Len(v) : seqs[i] = EscapeOf(v[i])
<1> DEFINE seqs == [i \in DOMAIN v |-> EscapeOf(v[i])]
<1>1. Len(v) \in Nat /\ DOMAIN v = 1..Len(v) /\ \A i \in 1..Len(v) : v[i] \in B
    BY LenProperties, ElementOfSeq
<1>2. \A i \in 1..Len(v) : seqs[i] = EscapeOf(v[i]) /\ seqs[i] \in Seq(Safe(B))
    BY <1>1, EscapeOfCases
<1>3. Len(seqs) = Len(v)
  <2>1. seqs \in [1..Len(v) -> Seq(Safe(B))]
      BY <1>1, <1>2
  <2> HIDE DEF seqs
  <2> QED  BY <1>1, <2>1
<1>4. Escape(v) = FlattenSeq(seqs)
    BY DEF Escape
<1> HIDE DEF seqs
<1>5. Len(seqs) \in Nat \ {0}
    BY <1>1, <1>3
<1>6. \A i \in 1..Len(seqs) : seqs[i] \in Seq(Safe(B))
    BY <1>2, <1>3
<1>7. FlattenSeq(seqs) \in Seq(Safe(B)) /\ \E at : Places(at, FlattenSeq(seqs), seqs)
    BY <1>5, <1>6, FlattenPlaces
<1> QED  BY <1>2, <1>3, <1>4, <1>7

LEMMA EscapeEmpty ==
    ASSUME NEW B, NEW v \in Seq(B), Len(v) = 0
    PROVE  v = << >> /\ Escape(v) = << >>
<1>1. v = << >>
    OBVIOUS
<1>2. [i \in DOMAIN v |-> EscapeOf(v[i])] = << >>
    BY <1>1
<1> QED  BY <1>1, <1>2 DEF Escape, FlattenSeq

\* A header value that was escaped (write_escaped) holds no line ending and
\* no colon: whatever it was, it can end neither its line nor its name.
THEOREM EscapedIsOneField ==
    ASSUME NEW B, NEW v \in Seq(B)
    PROVE  \A i \in 1..Len(Escape(v)) : Escape(v)[i] \notin Separators
<1>1. Escape(v) \in Seq(Safe(B))
  <2>1. CASE Len(v) = 0
    <3>1. Escape(v) = << >>
        BY <2>1, EscapeEmpty
    <3> QED  BY <3>1
  <2>2. CASE Len(v) # 0
      BY <2>2, EscapePlaces
  <2> QED  BY <2>1, <2>2
<1>2. \A i \in 1..Len(Escape(v)) : Escape(v)[i] \in Safe(B)
    BY <1>1, ElementOfSeq
<1> QED  BY <1>2 DEF Safe

\* A header value comes back from the wire as it was (unescape_header_value
\* behind write_escaped), for every value of any length: also one that is
\* full of backslashes, or looks escaped already.
THEOREM EscapeRoundTrip ==
    ASSUME NEW B, NEW v \in Seq(B)
    PROVE  Unescape(Escape(v)) = v
<1> DEFINE w == Escape(v)
           N == Len(v)
<1>0. N \in Nat /\ \A i \in 1..N : v[i] \in B
    BY LenProperties, ElementOfSeq
<1>1. CASE N = 0
  <2>1. v = << >> /\ w = << >>
      BY <1>1, EscapeEmpty
  <2>2. Len(w) = 0
      BY <2>1
  <2>3. PICK f : Unescape(w) = f[1] /\ \A i \in 1..(Len(w) + 1) : f[i] = UnescapeAt(f, w, i)
      BY <2>2, UnescapeIs
  <2>4. 1 \in 1..(Len(w) + 1) /\ 1 > Len(w)
      BY <2>2
  <2> QED  BY <2>1, <2>3, <2>4 DEF UnescapeAt
<1>2. CASE N # 0
  <2>1. PICK at, seqs :
           /\ Len(seqs) = N /\ Places(at, w, seqs)
           /\ \A i \in 1..N : seqs[i] = EscapeOf(v[i])
      BY <1>2, EscapePlaces
  <2>2. w \in Seq(Safe(B)) /\ Len(w) \in Nat
      BY <1>2, EscapePlaces, LenProperties
  <2> HIDE DEF w
  <2>3. PICK f : Unescape(w) = f[1] /\ \A i \in 1..(Len(w) + 1) : f[i] = UnescapeAt(f, w, i)
      BY <2>2, UnescapeIs
  <2>4. /\ at[0] = 0 /\ at[N] = Len(w)
        /\ \A i \in 0..N : at[i] \in Nat
        /\ \A i \in 1..N : at[i] = at[i - 1] + Len(EscapeOf(v[i]))
                           /\ HoldsAt(w, at[i - 1], EscapeOf(v[i]))
      BY <2>1 DEF Places
  <2>5. ASSUME NEW i \in 1..N PROVE f[at[i - 1] + 1] = <<v[i]>> \o f[at[i] + 1]
    <3>1. PICK p : p = at[i - 1]
        OBVIOUS
    <3>2. /\ p \in Nat /\ v[i] \in B /\ at[i] = p + Len(EscapeOf(v[i]))
          /\ HoldsAt(w, p, EscapeOf(v[i]))
      <4>1. i - 1 \in 0..N
          BY <1>0
      <4> QED  BY <1>0, <2>4, <3>1, <4>1
    <3>3. CASE EscapeOf(v[i]) = <<v[i]>> /\ v[i] # "ESC"
      <4>1. at[i] = p + 1 /\ p + 1 <= Len(w) /\ w[p + 1] = v[i]
        <5>1. Len(<<v[i]>>) = 1 /\ 1 \in 1..1 /\ <<v[i]>>[1] = v[i]
            OBVIOUS
        <5> QED  BY <3>2, <3>3, <5>1 DEF HoldsAt
      <4>2. p + 1 \in 1..(Len(w) + 1) /\ ~(p + 1 > Len(w)) /\ (p + 1) + 1 = at[i] + 1
          BY <2>2, <3>2, <4>1
      <4>3. f[p + 1] = UnescapeAt(f, w, p + 1)
          BY <2>3, <4>2
      <4> QED  BY <3>1, <3>3, <4>1, <4>2, <4>3 DEF UnescapeAt
    <3>4. ASSUME NEW c \in {"r", "n", "c", "ESC"},
                 EscapeOf(v[i]) = <<"ESC", c>>, UnescapeOf(c) = <<v[i]>>
          PROVE  f[p + 1] = <<v[i]>> \o f[at[i] + 1]
      <4>1. /\ at[i] = p + 2 /\ p + 2 <= Len(w) /\ w[p + 1] = "ESC" /\ w[p + 2] = c
        <5>1. /\ Len(<<"ESC", c>>) = 2 /\ 1 \in 1..2 /\ 2 \in 1..2
              /\ <<"ESC", c>>[1] = "ESC" /\ <<"ESC", c>>[2] = c
            OBVIOUS
        <5> QED  BY <3>2, <3>4, <5>1 DEF HoldsAt
      <4>2. /\ p + 1 \in 1..(Len(w) + 1) /\ ~(p + 1 > Len(w)) /\ p + 1 < Len(w)
            /\ (p + 1) + 1 = p + 2 /\ (p + 1) + 2 = at[i] + 1
          BY <2>2, <3>2, <4>1
      <4>3. f[p + 1] = UnescapeAt(f, w, p + 1)
          BY <2>3, <4>2
      <4> QED  BY <3>4, <4>1, <4>2, <4>3 DEF UnescapeAt
    <3> QED  BY <3>1, <3>2, <3>3, <3>4, EscapeOfCases
  <2> DEFINE S == {n \in 0..N : f[at[N - n] + 1] = SubSeq(v, (N - n) + 1, N)}
  <2>6. 0 \in S
    <3>1. f[Len(w) + 1] = << >>
      <4>1. Len(w) + 1 \in 1..(Len(w) + 1) /\ Len(w) + 1 > Len(w)
          BY <2>2
      <4> QED  BY <2>3, <4>1 DEF UnescapeAt
    <3>2. SubSeq(v, N + 1, N) = << >>
        BY <1>0
    <3>3. N - 0 = N /\ 0 \in 0..N
        BY <1>0
    <3> QED  BY <2>4, <3>1, <3>2, <3>3
  <2>7. ASSUME NEW n \in 0..(N - 1), n \in S PROVE n + 1 \in S
    <3>1. PICK i : i = N - n
        OBVIOUS
    <3>2. i \in 1..N /\ i - 1 = N - (n + 1) /\ (i - 1) + 1 = i /\ n + 1 \in 0..N
        BY <1>0, <3>1
    <3>3. f[at[i] + 1] = SubSeq(v, i + 1, N)
        BY <2>7, <3>1
    <3>4. f[at[i - 1] + 1] = SubSeq(v, i, N)
      <4>1. N \in i..Len(v) /\ i \in 1..Len(v)
          BY <1>0, <3>2
      <4>2. SubSeq(v, i, N) = <<v[i]>> \o SubSeq(v, i + 1, N)
          BY <4>1, SubSeqRecursiveFirst
      <4> QED  BY <2>5, <3>2, <3>3, <4>2
    <3> QED  BY <3>2, <3>4
  <2> HIDE DEF S
  <2>8. N \in S
    <3>1. \A n \in 0..N : n \in S
        BY <1>0, <2>6, <2>7, Induction
    <3> QED  BY <1>0, <3>1
  <2>9. f[1] = SubSeq(v, 1, N)
    <3>1. N - N = 0 /\ 0 + 1 = 1
        BY <1>0
    <3> QED  BY <2>4, <2>8, <3>1 DEF S
  <2>10. SubSeq(v, 1, N) = v
      OBVIOUS
  <2> QED  BY <2>3, <2>9, <2>10 DEF w
<1> QED  BY <1>1, <1>2

-----------------------------------------------------------------------------
(* The parser's building blocks *)

\* u is s, with more behind it perhaps.
Extends(s, u) ==
    /\ Len(s) \in Nat /\ Len(u) \in Nat /\ Len(s) <= Len(u)
    /\ \A j \in 1..Len(s) : u[j] = s[j]

\* A set of natural numbers has its least element as Min.
LEMMA MinIs ==
    ASSUME NEW S, S \subseteq Nat, S # {}
    PROVE  Min(S) \in S /\ \A y \in S : Min(S) <= y
<1>1. \E x \in S : \A y \in S : x <= y
    BY LeastElement
<1> QED  BY <1>1 DEF Min

LEMMA FirstOfIs ==
    ASSUME NEW s, Len(s) \in Nat, NEW i \in Nat, i <= Len(s) + 1, NEW stops
    PROVE  /\ FirstOf(s, i, stops) \in i..(Len(s) + 1)
           /\ \A j \in i..(FirstOf(s, i, stops) - 1) : s[j] \notin stops
           /\ FirstOf(s, i, stops) <= Len(s) => s[FirstOf(s, i, stops)] \in stops
<1> DEFINE S == {j \in i..Len(s) : s[j] \in stops} \cup {Len(s) + 1}
<1>1. PICK f : f = FirstOf(s, i, stops)
    OBVIOUS
<1>2. S \subseteq Nat /\ S # {}
    OBVIOUS
<1>3. f = Min(S)
    BY <1>1 DEF FirstOf
<1>4. f \in S /\ \A y \in S : f <= y
  <2> HIDE DEF S
  <2> QED  BY <1>2, <1>3, MinIs
<1>5. f \in i..(Len(s) + 1)
    BY <1>4
<1>6. ASSUME NEW j \in i..(f - 1) PROVE s[j] \notin stops
    BY <1>4, <1>5
<1>7. f <= Len(s) => s[f] \in stops
    BY <1>4
<1> QED  BY <1>1, <1>5, <1>6, <1>7

\* The first place is the only one with nothing of the kind before it.
LEMMA FirstOfUnique ==
    ASSUME NEW s, Len(s) \in Nat, NEW i \in Nat, NEW stops, NEW f \in i..Len(s),
           s[f] \in stops, \A j \in i..(f - 1) : s[j] \notin stops
    PROVE  FirstOf(s, i, stops) = f
<1>1. PICK g : g = FirstOf(s, i, stops)
    OBVIOUS
<1>2. /\ g \in i..(Len(s) + 1)
      /\ \A j \in i..(g - 1) : s[j] \notin stops
      /\ g <= Len(s) => s[g] \in stops
  <2>1. i <= Len(s) + 1
      OBVIOUS
  <2> QED  BY <1>1, <2>1, FirstOfIs
<1>3. ~(f < g)
    BY <1>2
<1>4. ~(g < f)
    BY <1>2
<1> QED  BY <1>1, <1>2, <1>3, <1>4

LEMMA FirstOfStable ==
    ASSUME NEW s, NEW u, Extends(s, u), NEW i \in Nat \ {0}, i <= Len(s) + 1, NEW stops,
           FirstOf(s, i, stops) <= Len(s)
    PROVE  FirstOf(u, i, stops) = FirstOf(s, i, stops)
<1>0. /\ Len(s) \in Nat /\ Len(u) \in Nat /\ Len(s) <= Len(u)
      /\ \A j \in 1..Len(s) : u[j] = s[j]
    BY DEF Extends
<1>1. PICK f : f = FirstOf(s, i, stops)
    OBVIOUS
<1>2. /\ f \in i..Len(s) /\ s[f] \in stops
      /\ \A j \in i..(f - 1) : s[j] \notin stops
    BY <1>0, <1>1, FirstOfIs
<1>3. f \in i..Len(u) /\ u[f] \in stops
    BY <1>0, <1>2
<1>4. \A j \in i..(f - 1) : u[j] \notin stops
    BY <1>0, <1>2
<1> QED  BY <1>0, <1>1, <1>3, <1>4, FirstOfUnique

\* What a line ending can be.
LEMMA LineEndingIs ==
    ASSUME NEW s, Len(s) \in Nat, NEW i \in Nat \ {0}, i <= Len(s) + 1
    PROVE  \/ LineEnding(s, i) = More
           \/ LineEnding(s, i) = Bad
           \/ \E at \in (i + 1)..(Len(s) + 1) : LineEnding(s, i) = Found(at)
BY DEF LineEnding

LEMMA LineEndingStable ==
    ASSUME NEW s, NEW u, Extends(s, u), NEW i \in Nat \ {0}, LineEnding(s, i) # More
    PROVE  LineEnding(u, i) = LineEnding(s, i)
<1>0. /\ Len(s) \in Nat /\ Len(u) \in Nat /\ Len(s) <= Len(u)
      /\ \A j \in 1..Len(s) : u[j] = s[j]
    BY DEF Extends
<1>1. i \in 1..Len(s)
    BY <1>0 DEF LineEnding
<1>2. u[i] = s[i] /\ (i < Len(s) => u[i + 1] = s[i + 1])
    BY <1>0, <1>1
<1>3. CASE s[i] = "LF"
    BY <1>0, <1>1, <1>2, <1>3 DEF LineEnding
<1>4. CASE s[i] = "CR"
  <2>1. i < Len(s)
      BY <1>0, <1>1, <1>4 DEF LineEnding
  <2>2. i < Len(u) /\ i # Len(s) /\ i # Len(u) /\ ~(i > Len(s)) /\ ~(i > Len(u))
      BY <1>0, <1>1, <2>1
  <2> QED  BY <1>2, <1>4, <2>1, <2>2 DEF LineEnding
<1>5. CASE s[i] \notin {"CR", "LF"}
    BY <1>0, <1>1, <1>2, <1>5 DEF LineEnding
<1> QED  BY <1>3, <1>4, <1>5

LEMMA VerdictsAre ==
    /\ More.is = "more" /\ Bad.is = "bad" /\ More # Bad
    /\ \A at : Found(at).is = "ok" /\ Found(at).at = at /\ Found(at) # More /\ Found(at) # Bad
BY DEF More, Bad, Found

LEMMA ParseHeaderIs ==
    ASSUME NEW s, Len(s) \in Nat, NEW i \in Nat \ {0}, i <= Len(s) + 1
    PROVE  \/ ParseHeader(s, i) = More
           \/ ParseHeader(s, i) = Bad
           \/ \E at \in (i + 2)..(Len(s) + 1) :
                /\ ParseHeader(s, i) = Found(at)
                /\ FirstOf(s, i, {":", "CR", "LF"}) \in i..Len(s)
                /\ s[FirstOf(s, i, {":", "CR", "LF"})] = ":"
                /\ FirstOf(s, FirstOf(s, i, {":", "CR", "LF"}) + 1, {"CR", "LF"}) <= Len(s)
<1>1. PICK c : c = FirstOf(s, i, {":", "CR", "LF"})
    OBVIOUS
<1>2. PICK e : e = FirstOf(s, c + 1, {"CR", "LF"})
    OBVIOUS
<1>3. c \in i..(Len(s) + 1)
    BY <1>1, FirstOfIs
<1>4. ParseHeader(s, i) = IF c > Len(s) THEN More ELSE IF c = i \/ s[c] # ":" THEN Bad
                          ELSE LineEnding(s, e)
    BY <1>1, <1>2 DEF ParseHeader
<1>5. CASE c > Len(s) \/ c = i \/ s[c] # ":"
    BY <1>4, <1>5
<1>6. CASE ~(c > Len(s)) /\ c # i /\ s[c] = ":"
  <2>1. c + 1 \in Nat /\ c + 1 <= Len(s) + 1 /\ c \in i..Len(s)
      BY <1>3, <1>6
  <2>2. e \in (c + 1)..(Len(s) + 1)
      BY <1>2, <2>1, FirstOfIs
  <2>3. e \in Nat \ {0} /\ e <= Len(s) + 1
      BY <1>3, <2>2
  <2>4. ParseHeader(s, i) = LineEnding(s, e)
      BY <1>4, <1>6
  <2>5. ASSUME NEW at \in (e + 1)..(Len(s) + 1), LineEnding(s, e) = Found(at)
        PROVE  at \in (i + 2)..(Len(s) + 1) /\ e <= Len(s)
      BY <1>3, <2>2, <2>5
  <2> QED  BY <1>1, <1>2, <1>6, <2>1, <2>3, <2>4, <2>5, LineEndingIs
<1> QED  BY <1>5, <1>6

LEMMA ParseHeaderStable ==
    ASSUME NEW s, NEW u, Extends(s, u), NEW i \in Nat \ {0}, i <= Len(s) + 1,
           ParseHeader(s, i) # More
    PROVE  ParseHeader(u, i) = ParseHeader(s, i)
<1>0. /\ Len(s) \in Nat /\ Len(u) \in Nat /\ Len(s) <= Len(u)
      /\ \A j \in 1..Len(s) : u[j] = s[j]
    BY DEF Extends
<1>1. PICK c : c = FirstOf(s, i, {":", "CR", "LF"})
    OBVIOUS
<1>2. PICK e : e = FirstOf(s, c + 1, {"CR", "LF"})
    OBVIOUS
<1>3. ParseHeader(s, i) = IF c > Len(s) THEN More ELSE IF c = i \/ s[c] # ":" THEN Bad
                          ELSE LineEnding(s, e)
    BY <1>1, <1>2 DEF ParseHeader
<1>4. c \in i..Len(s)
  <2>1. c \in i..(Len(s) + 1)
      BY <1>0, <1>1, FirstOfIs
  <2> QED  BY <1>0, <1>3, <2>1
<1>5. FirstOf(u, i, {":", "CR", "LF"}) = c /\ u[c] = s[c] /\ ~(c > Len(u)) /\ ~(c > Len(s))
    BY <1>0, <1>1, <1>4, FirstOfStable
<1>6. CASE c = i \/ s[c] # ":"
    BY <1>3, <1>5, <1>6 DEF ParseHeader
<1>7. CASE ~(c = i \/ s[c] # ":")
  <2>1. ParseHeader(s, i) = LineEnding(s, e) /\ LineEnding(s, e) # More
      BY <1>3, <1>5, <1>7
  <2>2. c + 1 \in Nat \ {0} /\ c + 1 <= Len(s) + 1
      BY <1>0, <1>4
  <2>3. e \in (c + 1)..(Len(s) + 1)
      BY <1>0, <1>2, <2>2, FirstOfIs
  <2>4. e <= Len(s)
      BY <1>0, <2>1, <2>3 DEF LineEnding
  <2>5. FirstOf(u, c + 1, {"CR", "LF"}) = e
      BY <1>2, <2>2, <2>4, FirstOfStable
  <2>6. e \in Nat \ {0}
      BY <2>2, <2>3
  <2>7. LineEnding(u, e) = LineEnding(s, e)
      BY <2>1, <2>6, LineEndingStable
  <2> QED  BY <1>5, <1>7, <2>1, <2>5, <2>7 DEF ParseHeader
<1> QED  BY <1>6, <1>7

LEMMA SubSeqStable ==
    ASSUME NEW B, NEW s \in Seq(B), NEW u \in Seq(B), Extends(s, u),
           NEW a \in Nat \ {0}, NEW b \in Int, b <= Len(s)
    PROVE  SubSeq(u, a, b) = SubSeq(s, a, b) /\ SubSeq(s, a, b) \in Seq(B)
<1>0. /\ Len(s) \in Nat /\ Len(u) \in Nat /\ Len(s) <= Len(u)
      /\ \A j \in 1..Len(s) : u[j] = s[j]
    BY DEF Extends
<1>1. \A i \in a..b : s[i] \in B /\ u[i] = s[i] /\ u[i] \in B
  <2>1. \A i \in a..b : i \in 1..Len(s)
      BY <1>0
  <2> QED  BY <1>0, <2>1, ElementOfSeq
<1>2. /\ SubSeq(s, a, b) \in Seq(B)
      /\ Len(SubSeq(s, a, b)) = IF a <= b THEN b - a + 1 ELSE 0
      /\ \A i \in 1..(b - a + 1) : SubSeq(s, a, b)[i] = s[a + i - 1]
    BY <1>1, SubSeqProperties
<1>3. /\ SubSeq(u, a, b) \in Seq(B)
      /\ Len(SubSeq(u, a, b)) = IF a <= b THEN b - a + 1 ELSE 0
      /\ \A i \in 1..(b - a + 1) : SubSeq(u, a, b)[i] = u[a + i - 1]
    BY <1>1, SubSeqProperties
<1>4. ASSUME NEW i \in 1..Len(SubSeq(s, a, b)) PROVE SubSeq(u, a, b)[i] = SubSeq(s, a, b)[i]
  <2>1. i \in 1..(b - a + 1) /\ a + i - 1 \in a..b
      BY <1>2
  <2> QED  BY <1>1, <1>2, <1>3, <2>1
<1> QED  BY <1>2, <1>3, <1>4, SeqEqual

\* The header that ends a line of its own is the same, whatever comes behind.
LEMMA HeaderAtStable ==
    ASSUME NEW B, NEW s \in Seq(B), NEW u \in Seq(B), Extends(s, u),
           NEW i \in Nat \ {0}, i <= Len(s) + 1, ParseHeader(s, i).is = "ok"
    PROVE  HeaderAt(u, i) = HeaderAt(s, i)
<1>0. /\ Len(s) \in Nat /\ Len(u) \in Nat /\ Len(s) <= Len(u)
      /\ \A j \in 1..Len(s) : u[j] = s[j]
    BY DEF Extends
<1>1. PICK c : c = FirstOf(s, i, {":", "CR", "LF"})
    OBVIOUS
<1>2. PICK e : e = FirstOf(s, c + 1, {"CR", "LF"})
    OBVIOUS
<1>3. c \in i..Len(s) /\ s[c] = ":" /\ e <= Len(s)
    BY <1>0, <1>1, <1>2, ParseHeaderIs, VerdictsAre
<1>4. FirstOf(s, i, {":"}) = c
  <2>1. \A j \in i..(c - 1) : s[j] \notin {":", "CR", "LF"}
      BY <1>0, <1>1, FirstOfIs
  <2> QED  BY <1>0, <1>3, <2>1, FirstOfUnique
<1>5. FirstOf(u, i, {":"}) = c
    BY <1>0, <1>3, <1>4, FirstOfStable
<1>6. c + 1 \in Nat \ {0} /\ c + 1 <= Len(s) + 1
    BY <1>0, <1>3
<1>7. FirstOf(u, c + 1, {"CR", "LF"}) = e
    BY <1>2, <1>3, <1>6, FirstOfStable
<1>8. e \in Nat
    BY <1>0, <1>2, <1>6, FirstOfIs
<1>9. SubSeq(u, i, c - 1) = SubSeq(s, i, c - 1)
  <2>1. PICK b \in Int : b = c - 1 /\ b <= Len(s)
      BY <1>0, <1>3
  <2> QED  BY <2>1, SubSeqStable, SMTT(30)
<1>10. SubSeq(u, c + 1, e - 1) = SubSeq(s, c + 1, e - 1)
  <2>1. PICK lo, hi : lo = c + 1 /\ hi = e - 1 /\ lo \in Nat \ {0} /\ hi \in Int /\ hi <= Len(s)
      BY <1>0, <1>3, <1>6, <1>8
  <2>2. lo \in Nat \ {0} /\ hi \in Int /\ hi <= Len(s)
      BY <2>1
  <2>3. SubSeq(u, lo, hi) = SubSeq(s, lo, hi)
      BY <2>2, SubSeqStable
  <2> QED  BY <2>1, <2>3
<1> QED  BY <1>2, <1>4, <1>5, <1>7, <1>9, <1>10 DEF HeaderAt

-----------------------------------------------------------------------------
(* All headers *)

\* What the parser makes of the headers from i on, given what it makes of
\* those behind.
HeadersAt(f, s, i) ==
    LET h == ParseHeader(s, i)
        end == LineEnding(s, i)
        rest == f[h.at]
    IN  CASE h.is = "more" -> More
          [] h.is = "bad"  ->
               IF end.is # "ok" THEN end
               ELSE [is |-> "ok", at |-> end.at, headers |-> << >>]
          [] OTHER ->
               IF rest.is # "ok" THEN rest
               ELSE [is |-> "ok", at |-> rest.at,
                     headers |-> <<HeaderAt(s, i)>> \o rest.headers]

Heads(f, s) == f = [i \in 1..(Len(s) + 1) |-> HeadersAt(f, s, i)]

LEMMA HeadersLookBehind ==
    ASSUME NEW s, Len(s) \in Nat, NEW f, NEW g, NEW i \in 1..(Len(s) + 1),
           \A j \in (i + 1)..(Len(s) + 1) : f[j] = g[j]
    PROVE  HeadersAt(f, s, i) = HeadersAt(g, s, i)
<1>1. CASE ParseHeader(s, i) = More \/ ParseHeader(s, i) = Bad
    BY <1>1, VerdictsAre DEF HeadersAt
<1>2. ASSUME NEW at \in (i + 2)..(Len(s) + 1), ParseHeader(s, i) = Found(at)
      PROVE  HeadersAt(f, s, i) = HeadersAt(g, s, i)
  <2>1. at \in (i + 1)..(Len(s) + 1)
      BY <1>2
  <2>2. f[at] = g[at]
      BY <2>1
  <2>3. ParseHeader(s, i).is = "ok" /\ ParseHeader(s, i).at = at
      BY <1>2, VerdictsAre
  <2> QED  BY <2>2, <2>3 DEF HeadersAt
<1> QED  BY <1>1, <1>2, ParseHeaderIs

LEMMA HeadsExist ==
    ASSUME NEW s, Len(s) \in Nat
    PROVE  \E f : Heads(f, s)
<1> DEFINE N == Len(s)
           To(f, n) == \A i \in (N + 1 - n)..(N + 1) : f[i] = HeadersAt(f, s, i)
           S == {n \in 0..N : \E f : To(f, n)}
<1>1. 0 \in S
  <2> DEFINE f == [i \in {N + 1} |-> More]
  <2>1. f[N + 1] = More
      OBVIOUS
  <2> HIDE DEF f
  <2>2. HeadersAt(f, s, N + 1) = More
    <3>1. PICK c : c = FirstOf(s, N + 1, {":", "CR", "LF"})
        OBVIOUS
    <3>2. c \in (N + 1)..(N + 1)
        BY <3>1, FirstOfIs
    <3>3. ParseHeader(s, N + 1) = More
        BY <3>1, <3>2 DEF ParseHeader
    <3> QED  BY <3>3, VerdictsAre DEF HeadersAt
  <2>3. \A i \in (N + 1 - 0)..(N + 1) : i = N + 1
      OBVIOUS
  <2>4. To(f, 0)
      BY <2>1, <2>2, <2>3
  <2> HIDE DEF To
  <2> QED  BY <2>4
<1>2. ASSUME NEW n \in 0..(N - 1), n \in S PROVE n + 1 \in S
  <2>1. PICK f : To(f, n)
    <3> HIDE DEF To
    <3> QED  BY <1>2
  <2>2. PICK m : m = N - n
      OBVIOUS
  <2>3. /\ m \in 1..N /\ m \in 1..(N + 1) /\ N + 1 - n = m + 1 /\ N + 1 - (n + 1) = m
        /\ n + 1 \in 0..N
      BY <2>2
  <2> DEFINE g == [i \in m..(N + 1) |-> IF i = m THEN HeadersAt(f, s, m) ELSE f[i]]
  <2>4. g[m] = HeadersAt(f, s, m) /\ \A i \in (m + 1)..(N + 1) : g[i] = f[i]
      BY <2>3
  <2> HIDE DEF g
  <2>5. ASSUME NEW i \in m..(N + 1) PROVE g[i] = HeadersAt(g, s, i)
    <3>1. i \in 1..(N + 1) /\ \A j \in (i + 1)..(N + 1) : j \in (m + 1)..(N + 1)
        BY <2>3
    <3>2. \A j \in (i + 1)..(N + 1) : f[j] = g[j]
        BY <2>4, <3>1
    <3>3. HeadersAt(f, s, i) = HeadersAt(g, s, i)
        BY <3>1, <3>2, HeadersLookBehind
    <3>4. CASE i = m
        BY <2>4, <3>3, <3>4
    <3>5. CASE i # m
      <4>1. i \in (m + 1)..(N + 1)
          BY <2>3, <3>5
      <4> QED  BY <2>1, <2>3, <2>4, <3>3, <4>1
    <3> QED  BY <3>4, <3>5
  <2>6. To(g, n + 1)
      BY <2>3, <2>5
  <2> HIDE DEF To
  <2> QED  BY <2>3, <2>6
<1> HIDE DEF S
<1>3. \A n \in 0..N : n \in S
    BY <1>1, <1>2, Induction
<1>4. PICK f : To(f, N)
  <2> HIDE DEF To
  <2> QED  BY <1>3 DEF S
<1> DEFINE g == [i \in 1..(N + 1) |-> f[i]]
<1>5. g = [i \in 1..(N + 1) |-> g[i]] /\ \A i \in 1..(N + 1) : g[i] = f[i]
    OBVIOUS
<1> HIDE DEF g
<1>6. ASSUME NEW i \in 1..(N + 1) PROVE g[i] = HeadersAt(g, s, i)
  <2>1. \A j \in (i + 1)..(N + 1) : f[j] = g[j]
      BY <1>5
  <2>2. HeadersAt(f, s, i) = HeadersAt(g, s, i)
      BY <2>1, HeadersLookBehind
  <2>3. i \in (N + 1 - N)..(N + 1)
      OBVIOUS
  <2> QED  BY <1>4, <1>5, <2>2, <2>3
<1>7. Heads(g, s)
    BY <1>5, <1>6 DEF Heads
<1> QED  BY <1>7

\* ParseHeaders is such an f.
LEMMA ParseHeadersIs ==
    ASSUME NEW s, Len(s) \in Nat
    PROVE  \E f : \A i \in 1..(Len(s) + 1) :
               ParseHeaders(s, i) = f[i] /\ f[i] = HeadersAt(f, s, i)
<1>1. PICK f : f = (CHOOSE g : Heads(g, s))
    OBVIOUS
<1>2. \A i : ParseHeaders(s, i) = f[i]
    BY <1>1 DEF ParseHeaders, Heads, HeadersAt
<1>3. Heads(f, s)
    BY <1>1, HeadsExist
<1> QED  BY <1>2, <1>3 DEF Heads

\* The recursion by which headers are parsed.
LEMMA ParseHeadersStep ==
    ASSUME NEW s, Len(s) \in Nat, NEW i \in 1..(Len(s) + 1)
    PROVE  /\ ParseHeader(s, i) = More => ParseHeaders(s, i) = More
           /\ ParseHeader(s, i) = Bad =>
                ParseHeaders(s, i) =
                    IF LineEnding(s, i).is # "ok" THEN LineEnding(s, i)
                    ELSE [is |-> "ok", at |-> LineEnding(s, i).at, headers |-> << >>]
           /\ \A at \in (i + 2)..(Len(s) + 1) : ParseHeader(s, i) = Found(at) =>
                ParseHeaders(s, i) =
                    IF ParseHeaders(s, at).is # "ok" THEN ParseHeaders(s, at)
                    ELSE [is |-> "ok", at |-> ParseHeaders(s, at).at,
                          headers |-> <<HeaderAt(s, i)>> \o ParseHeaders(s, at).headers]
<1>1. PICK f : \A j \in 1..(Len(s) + 1) :
           ParseHeaders(s, j) = f[j] /\ f[j] = HeadersAt(f, s, j)
    BY ParseHeadersIs
<1>2. ParseHeaders(s, i) = HeadersAt(f, s, i)
    BY <1>1
<1>3. ASSUME NEW at \in (i + 2)..(Len(s) + 1), ParseHeader(s, i) = Found(at)
      PROVE  ParseHeaders(s, i) =
                    IF ParseHeaders(s, at).is # "ok" THEN ParseHeaders(s, at)
                    ELSE [is |-> "ok", at |-> ParseHeaders(s, at).at,
                          headers |-> <<HeaderAt(s, i)>> \o ParseHeaders(s, at).headers]
  <2>1. at \in 1..(Len(s) + 1)
      OBVIOUS
  <2>2. ParseHeaders(s, at) = f[at]
      BY <1>1, <2>1
  <2>3. ParseHeader(s, i).is = "ok" /\ ParseHeader(s, i).at = at
      BY <1>3, VerdictsAre
  <2> QED  BY <1>2, <2>2, <2>3 DEF HeadersAt
<1>4. ParseHeader(s, i) = More => ParseHeaders(s, i) = More
    BY <1>2, VerdictsAre DEF HeadersAt
<1>5. ParseHeader(s, i) = Bad =>
                ParseHeaders(s, i) =
                    IF LineEnding(s, i).is # "ok" THEN LineEnding(s, i)
                    ELSE [is |-> "ok", at |-> LineEnding(s, i).at, headers |-> << >>]
    BY <1>2, VerdictsAre DEF HeadersAt
<1> QED  BY <1>3, <1>4, <1>5

\* p is a verdict, and what was found ends between lo and hi.
Ends(p, lo, hi) == p = More \/ p = Bad \/ (p.is = "ok" /\ p.at \in lo..hi)

LEMMA ParseHeadersEnd ==
    ASSUME NEW s, Len(s) \in Nat
    PROVE  \A i \in 1..(Len(s) + 1) : Ends(ParseHeaders(s, i), i + 1, Len(s) + 1)
<1> DEFINE N == Len(s) + 1
           S == {i \in 1..N : Ends(ParseHeaders(s, i), i + 1, N)}
<1>1. ASSUME NEW i \in 1..N, \A j \in (i + 1)..N : j \in S PROVE i \in S
  <2>0. i \in Nat \ {0} /\ i <= Len(s) + 1
      OBVIOUS
  <2>1. CASE ParseHeader(s, i) = More
      BY <2>1, ParseHeadersStep DEF Ends
  <2>2. CASE ParseHeader(s, i) = Bad
    <3>1. ParseHeaders(s, i) = IF LineEnding(s, i).is # "ok" THEN LineEnding(s, i)
                    ELSE [is |-> "ok", at |-> LineEnding(s, i).at, headers |-> << >>]
        BY <2>2, ParseHeadersStep
    <3>2. CASE LineEnding(s, i) = More \/ LineEnding(s, i) = Bad
        BY <3>1, <3>2, VerdictsAre DEF Ends
    <3>3. ASSUME NEW at \in (i + 1)..N, LineEnding(s, i) = Found(at) PROVE i \in S
      <4>1. LineEnding(s, i).is = "ok" /\ LineEnding(s, i).at = at
          BY <3>3, VerdictsAre
      <4> QED  BY <3>1, <4>1 DEF Ends
    <3> QED  BY <2>0, <3>2, <3>3, LineEndingIs
  <2>3. ASSUME NEW at \in (i + 2)..N, ParseHeader(s, i) = Found(at) PROVE i \in S
    <3>1. ParseHeaders(s, i) =
             IF ParseHeaders(s, at).is # "ok" THEN ParseHeaders(s, at)
             ELSE [is |-> "ok", at |-> ParseHeaders(s, at).at,
                   headers |-> <<HeaderAt(s, i)>> \o ParseHeaders(s, at).headers]
        BY <2>3, ParseHeadersStep
    <3>2. at \in (i + 1)..N
        OBVIOUS
    <3>3. Ends(ParseHeaders(s, at), at + 1, N)
        BY <1>1, <3>2
    <3>4. CASE ParseHeaders(s, at).is # "ok"
        BY <3>1, <3>3, <3>4 DEF Ends
    <3>5. CASE ParseHeaders(s, at).is = "ok"
      <4>1. ParseHeaders(s, at).at \in (at + 1)..N
          BY <3>3, <3>5, VerdictsAre DEF Ends
      <4>2. ParseHeaders(s, at).at \in (i + 1)..N
          BY <4>1
      <4> QED  BY <3>1, <3>5, <4>2 DEF Ends
    <3> QED  BY <3>4, <3>5
  <2> QED  BY <2>0, <2>1, <2>2, <2>3, ParseHeaderIs
<1> HIDE DEF S
<1>2. N \in Nat
    OBVIOUS
<1>3. \A i \in 1..N : i \in S
  <2> HIDE DEF N
  <2> QED  BY <1>1, <1>2, InductionDown
<1> QED  BY <1>3 DEF S

LEMMA ParseHeadersStable ==
    ASSUME NEW B, NEW s \in Seq(B), NEW u \in Seq(B), Extends(s, u)
    PROVE  \A i \in 1..(Len(s) + 1) :
               ParseHeaders(s, i) # More => ParseHeaders(u, i) = ParseHeaders(s, i)
<1>0. Len(s) \in Nat /\ Len(u) \in Nat /\ Len(s) <= Len(u)
    BY DEF Extends
<1> DEFINE N == Len(s) + 1
           S == {i \in 1..N : ParseHeaders(s, i) # More => ParseHeaders(u, i) = ParseHeaders(s, i)}
<1>1. ASSUME NEW i \in 1..N, \A j \in (i + 1)..N : j \in S PROVE i \in S
  <2> SUFFICES ASSUME ParseHeaders(s, i) # More PROVE ParseHeaders(u, i) = ParseHeaders(s, i)
      OBVIOUS
  <2>0. i \in Nat \ {0} /\ i <= Len(s) + 1 /\ i \in 1..(Len(u) + 1)
      BY <1>0
  <2>1. ParseHeader(s, i) # More
      BY <1>0, ParseHeadersStep
  <2>2. ParseHeader(u, i) = ParseHeader(s, i)
      BY <2>0, <2>1, ParseHeaderStable
  <2>3. CASE ParseHeader(s, i) = Bad
    <3>1. ParseHeaders(s, i) = IF LineEnding(s, i).is # "ok" THEN LineEnding(s, i)
                    ELSE [is |-> "ok", at |-> LineEnding(s, i).at, headers |-> << >>]
        BY <1>0, <2>3, ParseHeadersStep
    <3>2. ParseHeaders(u, i) = IF LineEnding(u, i).is # "ok" THEN LineEnding(u, i)
                    ELSE [is |-> "ok", at |-> LineEnding(u, i).at, headers |-> << >>]
        BY <1>0, <2>0, <2>2, <2>3, ParseHeadersStep
    <3>3. LineEnding(s, i) # More
        BY <3>1, VerdictsAre
    <3>4. LineEnding(u, i) = LineEnding(s, i)
        BY <2>0, <3>3, LineEndingStable
    <3> QED  BY <3>1, <3>2, <3>4
  <2>4. ASSUME NEW at \in (i + 2)..N, ParseHeader(s, i) = Found(at)
        PROVE  ParseHeaders(u, i) = ParseHeaders(s, i)
    <3>0. at \in (i + 2)..(Len(u) + 1) /\ at \in (i + 1)..N
        BY <1>0
    <3>1. ParseHeaders(s, i) =
             IF ParseHeaders(s, at).is # "ok" THEN ParseHeaders(s, at)
             ELSE [is |-> "ok", at |-> ParseHeaders(s, at).at,
                   headers |-> <<HeaderAt(s, i)>> \o ParseHeaders(s, at).headers]
        BY <1>0, <2>4, ParseHeadersStep
    <3>2. ParseHeaders(u, i) =
             IF ParseHeaders(u, at).is # "ok" THEN ParseHeaders(u, at)
             ELSE [is |-> "ok", at |-> ParseHeaders(u, at).at,
                   headers |-> <<HeaderAt(u, i)>> \o ParseHeaders(u, at).headers]
        BY <1>0, <2>0, <2>2, <2>4, <3>0, ParseHeadersStep
    <3>3. ParseHeaders(s, at) # More
        BY <3>1, VerdictsAre
    <3>4. ParseHeaders(u, at) = ParseHeaders(s, at)
        BY <1>1, <3>0, <3>3
    <3>5. HeaderAt(u, i) = HeaderAt(s, i)
        BY <2>0, <2>4, VerdictsAre, HeaderAtStable
    <3> QED  BY <3>1, <3>2, <3>4, <3>5
  <2> QED  BY <1>0, <2>0, <2>1, <2>3, <2>4, ParseHeaderIs
<1> HIDE DEF S
<1>2. N \in Nat
    BY <1>0
<1>3. \A i \in 1..N : i \in S
    BY <1>1, <1>2, InductionDown
<1> QED  BY <1>3 DEF S

-----------------------------------------------------------------------------
(* A frame *)

LEMMA ContentLengthIs ==
    ASSUME NEW headers
    PROVE  ContentLength(headers) \subseteq 0..4
BY DEF ContentLength

\* A frame that begins with no line ending: its command comes first.
LEMMA ParseCommandIs ==
    ASSUME NEW s, Len(s) \in Nat \ {0}, s[1] \notin {"CR", "LF"}
    PROVE  /\ s[1] \in NotAlpha => ParseCommand(s) = Bad
           /\ s[1] \notin NotAlpha =>
                ParseCommand(s) = IF LineEnding(s, 2).is # "ok" THEN LineEnding(s, 2)
                                  ELSE [is |-> "ok", at |-> LineEnding(s, 2).at, command |-> s[1]]
<1>1. LineEnding(s, 1) = Bad
    BY DEF LineEnding
<1>2. Opt(s, 1) = 1
    BY <1>1, VerdictsAre DEF Opt
<1>3. ~(1 > Len(s)) /\ 1 + 1 = 2
    OBVIOUS
<1> QED  BY <1>2, <1>3 DEF ParseCommand

LEMMA BodyEndIs ==
    ASSUME NEW s, Len(s) \in Nat, NEW start \in Nat \ {0}, start <= Len(s) + 1, NEW headers
    PROVE  BodyEnd(s, start, headers) \in Nat /\ BodyEnd(s, start, headers) >= start
<1>1. CASE ContentLength(headers) = {}
  <2>1. FirstOf(s, start, {"NUL"}) \in start..(Len(s) + 1)
      BY FirstOfIs
  <2> QED  BY <1>1, <2>1 DEF BodyEnd
<1>2. CASE ContentLength(headers) # {}
  <2>1. PICK n : /\ n \in ContentLength(headers)
                 /\ BodyEnd(s, start, headers) = start + n
      BY <1>2 DEF BodyEnd
  <2>2. n \in 0..4
      BY <2>1, ContentLengthIs
  <2> QED  BY <2>1, <2>2
<1> QED  BY <1>1, <1>2

LEMMA BodyEndStable ==
    ASSUME NEW s, NEW u, Extends(s, u), NEW start \in Nat \ {0}, start <= Len(s) + 1, NEW headers,
           BodyEnd(s, start, headers) <= Len(s)
    PROVE  BodyEnd(u, start, headers) = BodyEnd(s, start, headers)
<1>1. CASE ContentLength(headers) = {}
    BY <1>1, FirstOfStable DEF BodyEnd
<1>2. CASE ContentLength(headers) # {}
    BY <1>2 DEF BodyEnd
<1> QED  BY <1>1, <1>2

LEMMA ParseBodyStable ==
    ASSUME NEW B, NEW s \in Seq(B), NEW u \in Seq(B), Extends(s, u),
           NEW start \in Nat \ {0}, start <= Len(s) + 1, NEW command, NEW headers,
           ParseBody(s, start, command, headers) # More
    PROVE  \/ /\ ParseBody(s, start, command, headers) = Bad
              /\ ParseBody(u, start, command, headers) = Bad
           \/ \E e \in start..Len(s) :
                /\ s[e] = "NUL"
                /\ ParseBody(s, start, command, headers).is = "ok"
                /\ ParseBody(u, start, command, headers).is = "ok"
                /\ ParseBody(s, start, command, headers).at = Opt(s, e + 1)
                /\ ParseBody(u, start, command, headers).at = Opt(u, e + 1)
                /\ ParseBody(u, start, command, headers).frame
                       = ParseBody(s, start, command, headers).frame
<1>0. /\ Len(s) \in Nat /\ Len(u) \in Nat /\ Len(s) <= Len(u)
      /\ \A j \in 1..Len(s) : u[j] = s[j]
    BY DEF Extends
<1>1. PICK e : e = BodyEnd(s, start, headers)
    OBVIOUS
<1>2. e \in Nat /\ e >= start /\ e <= Len(s)
    BY <1>0, <1>1, BodyEndIs DEF ParseBody
<1>3. BodyEnd(u, start, headers) = e
    BY <1>1, <1>2, BodyEndStable
<1>4. e \in start..Len(s) /\ u[e] = s[e] /\ ~(e > Len(s)) /\ ~(e > Len(u))
    BY <1>0, <1>2
<1>5. SubSeq(u, start, e - 1) = SubSeq(s, start, e - 1)
  <2>1. PICK b : b = e - 1
      OBVIOUS
  <2>2. b \in Int /\ b <= Len(s)
      BY <1>0, <1>2, <2>1
  <2>3. SubSeq(u, start, b) = SubSeq(s, start, b)
      BY <2>2, SubSeqStable
  <2> QED  BY <2>1, <2>3
<1>6. CASE s[e] # "NUL"
    BY <1>1, <1>3, <1>4, <1>6 DEF ParseBody
<1>7. CASE s[e] = "NUL"
    BY <1>1, <1>3, <1>4, <1>5, <1>7 DEF ParseBody
<1> QED  BY <1>6, <1>7

\* The two cases of ParseFrame, once the command is there.
LEMMA ParseFrameSplit ==
    ASSUME NEW s, Len(s) \in Nat \ {0}, s[1] \notin {"CR", "LF"}
    PROVE  \/ ParseFrame(s) = More /\ s[1] \notin NotAlpha /\ LineEnding(s, 2) = More
           \/ ParseFrame(s) = Bad /\ (s[1] \in NotAlpha \/ LineEnding(s, 2) = Bad)
           \/ \E at \in 3..(Len(s) + 1) :
                /\ s[1] \notin NotAlpha /\ LineEnding(s, 2) = Found(at)
                /\ ParseFrame(s) = IF ParseHeaders(s, at).is # "ok" THEN ParseHeaders(s, at)
                                   ELSE ParseBody(s, ParseHeaders(s, at).at, s[1],
                                                  ParseHeaders(s, at).headers)
<1>1. CASE s[1] \in NotAlpha
  <2>1. ParseCommand(s) = Bad
      BY <1>1, ParseCommandIs
  <2> QED  BY <1>1, <2>1, VerdictsAre DEF ParseFrame
<1>2. CASE s[1] \notin NotAlpha
  <2>1. ParseCommand(s) = IF LineEnding(s, 2).is # "ok" THEN LineEnding(s, 2)
                          ELSE [is |-> "ok", at |-> LineEnding(s, 2).at, command |-> s[1]]
      BY <1>2, ParseCommandIs
  <2>2. CASE LineEnding(s, 2) = More \/ LineEnding(s, 2) = Bad
    <3>1. ParseCommand(s) = LineEnding(s, 2) /\ ParseCommand(s).is # "ok"
        BY <2>1, <2>2, VerdictsAre
    <3>2. ParseFrame(s) = LineEnding(s, 2)
        BY <3>1 DEF ParseFrame
    <3> QED  BY <1>2, <2>2, <3>2
  <2>3. ASSUME NEW at \in 3..(Len(s) + 1), LineEnding(s, 2) = Found(at)
        PROVE  ParseFrame(s) = IF ParseHeaders(s, at).is # "ok" THEN ParseHeaders(s, at)
                               ELSE ParseBody(s, ParseHeaders(s, at).at, s[1],
                                              ParseHeaders(s, at).headers)
    <3>1. LineEnding(s, 2).is = "ok" /\ LineEnding(s, 2).at = at
        BY <2>3, VerdictsAre
    <3>2. /\ ParseCommand(s).is = "ok" /\ ParseCommand(s).at = at
          /\ ParseCommand(s).command = s[1]
        BY <2>1, <3>1
    <3> QED  BY <3>2 DEF ParseFrame
  <2>4. 2 \in Nat \ {0} /\ 2 <= Len(s) + 1 /\ 2 + 1 = 3
      OBVIOUS
  <2> QED  BY <1>2, <2>2, <2>3, <2>4, LineEndingIs
<1> QED  BY <1>1, <1>2

\* The parser's verdict on the bytes of a frame stands when more bytes come
\* behind them: what has failed fails, and what was a frame is that frame and
\* ends at the same NUL. All it takes is that no line ending comes first,
\* which decode sees to (parse_frame on Partial input).
THEOREM ParserIsStable ==
    ASSUME NEW B, NEW s \in Seq(B), NEW u \in Seq(B), Extends(s, u),
           s # << >>, s[1] \notin {"CR", "LF"}
    PROVE  \/ ParseFrame(s) = More
           \/ ParseFrame(s) = Bad /\ ParseFrame(u) = Bad
           \/ /\ ParseFrame(s).is = "ok" /\ ParseFrame(u).is = "ok"
              /\ ParseFrame(u).frame = ParseFrame(s).frame
              /\ \E e \in 1..Len(s) : /\ s[e] = "NUL"
                                      /\ ParseFrame(s).at = Opt(s, e + 1)
                                      /\ ParseFrame(u).at = Opt(u, e + 1)
<1> SUFFICES ASSUME ParseFrame(s) # More
             PROVE  \/ ParseFrame(s) = Bad /\ ParseFrame(u) = Bad
                    \/ /\ ParseFrame(s).is = "ok" /\ ParseFrame(u).is = "ok"
                       /\ ParseFrame(u).frame = ParseFrame(s).frame
                       /\ \E e \in 1..Len(s) : /\ s[e] = "NUL"
                                               /\ ParseFrame(s).at = Opt(s, e + 1)
                                               /\ ParseFrame(u).at = Opt(u, e + 1)
    OBVIOUS
<1>0. /\ Len(s) \in Nat \ {0} /\ Len(u) \in Nat \ {0} /\ Len(s) <= Len(u) /\ u[1] = s[1]
  <2>1. Len(s) \in Nat \ {0}
      BY EmptySeq
  <2> QED  BY <2>1 DEF Extends
<1>1. CASE s[1] \in NotAlpha
  <2>1. ParseFrame(s) = Bad /\ ParseFrame(u) = Bad
      BY <1>0, <1>1, ParseFrameSplit
  <2> QED  BY <2>1
<1>2. CASE s[1] \notin NotAlpha
  <2>1. LineEnding(s, 2) # More
    <3>1. ~(\E at \in 3..(Len(s) + 1) : More = Found(at)) /\ More # Bad
        BY VerdictsAre
    <3> QED  BY <1>0, <1>2, <3>1, ParseFrameSplit
  <2>2. LineEnding(u, 2) = LineEnding(s, 2)
      BY <2>1, LineEndingStable
  <2>3. CASE LineEnding(s, 2) = Bad
    <3>1. ~(\E at : Bad = Found(at)) /\ More # Bad
        BY VerdictsAre
    <3>2. ParseFrame(s) = Bad
        BY <1>0, <1>2, <2>3, <3>1, ParseFrameSplit
    <3>3. ParseFrame(u) = Bad
        BY <1>0, <1>2, <2>2, <2>3, <3>1, ParseFrameSplit
    <3> QED  BY <3>2, <3>3
  <2>4. ASSUME NEW at \in 3..(Len(s) + 1), LineEnding(s, 2) = Found(at),
               ParseFrame(s) = IF ParseHeaders(s, at).is # "ok" THEN ParseHeaders(s, at)
                               ELSE ParseBody(s, ParseHeaders(s, at).at, s[1],
                                              ParseHeaders(s, at).headers)
        PROVE  \/ ParseFrame(s) = Bad /\ ParseFrame(u) = Bad
               \/ /\ ParseFrame(s).is = "ok" /\ ParseFrame(u).is = "ok"
                  /\ ParseFrame(u).frame = ParseFrame(s).frame
                  /\ \E e \in 1..Len(s) : /\ s[e] = "NUL"
                                          /\ ParseFrame(s).at = Opt(s, e + 1)
                                          /\ ParseFrame(u).at = Opt(u, e + 1)
    <3>1. ParseFrame(u) = IF ParseHeaders(u, at).is # "ok" THEN ParseHeaders(u, at)
                          ELSE ParseBody(u, ParseHeaders(u, at).at, u[1],
                                         ParseHeaders(u, at).headers)
      <4>1. \A a, b : Found(a) = Found(b) => a = b
          BY VerdictsAre
      <4>2. LineEnding(u, 2) = Found(at) /\ LineEnding(u, 2) # More /\ LineEnding(u, 2) # Bad
          BY <2>2, <2>4, VerdictsAre
      <4>3. u[1] \notin NotAlpha /\ u[1] \notin {"CR", "LF"}
          BY <1>0, <1>2
      <4>4. PICK b \in 3..(Len(u) + 1) :
                /\ LineEnding(u, 2) = Found(b)
                /\ ParseFrame(u) = IF ParseHeaders(u, b).is # "ok" THEN ParseHeaders(u, b)
                                   ELSE ParseBody(u, ParseHeaders(u, b).at, u[1],
                                                  ParseHeaders(u, b).headers)
          BY <1>0, <4>2, <4>3, ParseFrameSplit
      <4>5. b = at
          BY <4>1, <4>2, <4>4
      <4> QED  BY <4>4, <4>5
    <3>2. at \in 1..(Len(s) + 1)
        OBVIOUS
    <3>3. Ends(ParseHeaders(s, at), at + 1, Len(s) + 1)
        BY <1>0, <3>2, ParseHeadersEnd
    <3>4. ParseHeaders(s, at) # More
        BY <2>4, VerdictsAre
    <3>5. ParseHeaders(u, at) = ParseHeaders(s, at)
        BY <3>2, <3>4, ParseHeadersStable
    <3>6. CASE ParseHeaders(s, at) = Bad
      <4>1. ParseFrame(s) = Bad
          BY <2>4, <3>6, VerdictsAre
      <4>2. ParseFrame(u) = Bad
          BY <3>1, <3>5, <3>6, VerdictsAre
      <4> QED  BY <4>1, <4>2
    <3>7. CASE ParseHeaders(s, at).is = "ok" /\ ParseHeaders(s, at).at \in (at + 1)..(Len(s) + 1)
      <4>1. PICK start, headers : start = ParseHeaders(s, at).at /\ headers = ParseHeaders(s, at).headers
          OBVIOUS
      <4>2. start \in Nat \ {0} /\ start <= Len(s) + 1
          BY <3>7, <4>1
      <4>3. ParseFrame(s) = ParseBody(s, start, s[1], headers)
          BY <2>4, <3>7, <4>1
      <4>4. ParseFrame(u) = ParseBody(u, start, s[1], headers)
          BY <1>0, <3>1, <3>5, <3>7, <4>1
      <4>5. \A e \in start..Len(s) : e \in 1..Len(s)
          BY <4>2
      <4> QED  BY <4>2, <4>3, <4>4, <4>5, ParseBodyStable
    <3> QED  BY <3>3, <3>4, <3>6, <3>7 DEF Ends
  <2> QED  BY <1>0, <1>2, <2>1, <2>3, <2>4, ParseFrameSplit
<1> QED  BY <1>1, <1>2

-----------------------------------------------------------------------------
(* Reading what serialize wrote *)

LEMMA HoldsConcat ==
    ASSUME NEW S, NEW x \in Seq(S), NEW y \in Seq(S), NEW w, Len(w) \in Nat, NEW p \in Nat,
           HoldsAt(w, p, x \o y)
    PROVE  HoldsAt(w, p, x) /\ HoldsAt(w, p + Len(x), y)
<1>1. /\ Len(x) \in Nat /\ Len(y) \in Nat /\ Len(x \o y) = Len(x) + Len(y)
      /\ \A i \in 1..(Len(x) + Len(y)) : (x \o y)[i] = IF i <= Len(x) THEN x[i] ELSE y[i - Len(x)]
    BY ConcatProperties, LenProperties
<1>2. p + Len(x) + Len(y) <= Len(w) /\ \A k \in 1..(Len(x) + Len(y)) : w[p + k] = (x \o y)[k]
    BY <1>1 DEF HoldsAt
<1>3. ASSUME NEW k \in 1..Len(x) PROVE w[p + k] = x[k]
  <2>1. k \in 1..(Len(x) + Len(y)) /\ k <= Len(x)
      BY <1>1
  <2> QED  BY <1>1, <1>2, <2>1
<1>4. ASSUME NEW k \in 1..Len(y) PROVE w[(p + Len(x)) + k] = y[k]
  <2>1. PICK j : j = Len(x) + k
      OBVIOUS
  <2>2. /\ j \in 1..(Len(x) + Len(y)) /\ ~(j <= Len(x)) /\ j - Len(x) = k
        /\ (p + Len(x)) + k = p + j
      BY <1>1, <2>1
  <2> QED  BY <1>1, <1>2, <2>2
<1>5. p + Len(x) <= Len(w) /\ (p + Len(x)) + Len(y) <= Len(w)
    BY <1>1, <1>2
<1> QED  BY <1>3, <1>4, <1>5 DEF HoldsAt

LEMMA HoldsWithin ==
    ASSUME NEW w, NEW x, NEW y, Len(w) \in Nat, Len(x) \in Nat, Len(y) \in Nat,
           NEW p \in Nat, NEW q \in Nat, HoldsAt(w, p, x), HoldsAt(x, q, y)
    PROVE  HoldsAt(w, p + q, y)
<1>1. /\ p + Len(x) <= Len(w) /\ \A k \in 1..Len(x) : w[p + k] = x[k]
      /\ q + Len(y) <= Len(x) /\ \A k \in 1..Len(y) : x[q + k] = y[k]
    BY DEF HoldsAt
<1>2. ASSUME NEW k \in 1..Len(y) PROVE w[(p + q) + k] = y[k]
  <2>1. q + k \in 1..Len(x) /\ (p + q) + k = p + (q + k)
      BY <1>1
  <2> QED  BY <1>1, <2>1
<1>3. (p + q) + Len(y) <= Len(w)
    BY <1>1
<1> QED  BY <1>2, <1>3 DEF HoldsAt

\* What bytes are written with. The marks, which mean something to the
\* parser, are strings too, but the provers do not know it of a literal.
Marks == {"CR", "LF", "NUL", ":", "ESC", "r", "n", "c", "0", "1", "2", "3", "4", "content-length"}

\* The same of what to_frame writes.
Words == {"CONNECT", "DISCONNECT", "SEND", "SUBSCRIBE", "UNSUBSCRIBE", "ACK", "NACK", "BEGIN",
          "COMMIT", "ABORT", "accept-version", "host", "login", "heart-beat", "passcode",
          "receipt", "destination", "transaction", "id", "ack", "auto", "client",
          "client-individual", ",", "1.2"}

Symbols == STRING \cup Marks \cup Words

LEMMA StringsAreSymbols ==
    /\ STRING \subseteq Symbols
    /\ \A s : s \in Seq(STRING) => s \in Seq(Symbols)
<1>1. STRING \subseteq Symbols
    BY DEF Symbols
<1>2. ASSUME NEW s \in Seq(STRING) PROVE s \in Seq(Symbols)
  <2>1. Len(s) \in Nat /\ \A i \in 1..Len(s) : s[i] \in Symbols
      BY <1>1, LenProperties, ElementOfSeq
  <2>2. s = [i \in 1..Len(s) |-> s[i]]
      BY LenProperties
  <2>3. s \in [1..Len(s) -> Symbols]
      BY <2>1, <2>2
  <2> QED  BY <2>1, <2>3
<1> QED  BY <1>1, <1>2

Eols == {<<"LF">>, <<"CR", "LF">>}

LEMMA EolIs ==
    ASSUME NEW eol \in Eols
    PROVE  /\ eol \in Seq(Symbols) /\ Len(eol) \in 1..2
           /\ eol[1] \in {"CR", "LF"}
<1>1. "CR" \in Symbols /\ "LF" \in Symbols
    BY DEF Symbols, Marks
<1>2. CASE eol = <<"LF">>
    BY <1>1, <1>2
<1>3. CASE eol = <<"CR", "LF">>
    BY <1>1, <1>3
<1> QED  BY <1>2, <1>3 DEF Eols

LEMMA HoldsEol ==
    ASSUME NEW s, Len(s) \in Nat, NEW p \in Nat, NEW eol \in Eols, HoldsAt(s, p, eol)
    PROVE  /\ LineEnding(s, p + 1) = Found((p + 1) + Len(eol))
           /\ s[p + 1] \in {"CR", "LF"}
           /\ ParseHeader(s, p + 1) = Bad
           /\ p + 1 <= Len(s)
<1>1. p + Len(eol) <= Len(s) /\ \A k \in 1..Len(eol) : s[p + k] = eol[k]
    BY DEF HoldsAt
<1>4. /\ LineEnding(s, p + 1) = Found((p + 1) + Len(eol))
      /\ s[p + 1] \in {"CR", "LF"} /\ p + 1 <= Len(s)
  <2>1. CASE eol = <<"LF">>
    <3>1. Len(eol) = 1 /\ s[p + 1] = "LF" /\ ~(p + 1 > Len(s)) /\ p + 1 <= Len(s)
        BY <1>1, <2>1
    <3> QED  BY <3>1 DEF LineEnding
  <2>2. CASE eol = <<"CR", "LF">>
    <3>1. /\ Len(eol) = 2 /\ s[p + 1] = "CR" /\ s[p + 2] = "LF" /\ ~(p + 1 > Len(s))
          /\ p + 1 < Len(s) /\ p + 1 # Len(s) /\ (p + 1) + 1 = p + 2 /\ p + 1 <= Len(s)
          /\ (p + 1) + 2 = (p + 1) + Len(eol)
        BY <1>1, <2>2
    <3> QED  BY <3>1 DEF LineEnding
  <2> QED  BY <2>1, <2>2 DEF Eols
<1>5. FirstOf(s, p + 1, {":", "CR", "LF"}) = p + 1
  <2>1. PICK i : i = p + 1
      OBVIOUS
  <2>2. i \in Nat /\ i \in i..Len(s) /\ s[i] \in {":", "CR", "LF"}
      BY <1>4, <2>1
  <2>3. \A j \in i..(i - 1) : s[j] \notin {":", "CR", "LF"}
      BY <2>2
  <2>4. FirstOf(s, i, {":", "CR", "LF"}) = i
      BY <2>2, <2>3, FirstOfUnique
  <2> QED  BY <2>1, <2>4
<1>6. ParseHeader(s, p + 1) = Bad
  <2>1. ~(p + 1 > Len(s))
      BY <1>4
  <2> QED  BY <1>5, <2>1 DEF ParseHeader
<1> QED  BY <1>4, <1>6

\* A name and a value that leave the line whole.
Clean(key, value) ==
    /\ key \in Seq(Symbols) /\ value \in Seq(Symbols) /\ key # << >>
    /\ \A i \in 1..Len(key) : key[i] \notin {":", "CR", "LF"}
    /\ \A i \in 1..Len(value) : value[i] \notin {"CR", "LF"}

Line(key, value, eol) == key \o <<":">> \o value \o eol

LEMMA LineIs ==
    ASSUME NEW key \in Seq(Symbols), NEW value \in Seq(Symbols), NEW eol \in Eols
    PROVE  /\ Line(key, value, eol) \in Seq(Symbols)
           /\ Len(Line(key, value, eol)) = Len(key) + 1 + Len(value) + Len(eol)
<1>1. <<":">> \in Seq(Symbols) /\ Len(<<":">>) = 1
    BY DEF Symbols, Marks
<1>2. eol \in Seq(Symbols)
    BY EolIs
<1>3. key \o <<":">> \in Seq(Symbols) /\ Len(key \o <<":">>) = Len(key) + 1
    BY <1>1, ConcatProperties
<1>4. /\ (key \o <<":">>) \o value \in Seq(Symbols)
      /\ Len((key \o <<":">>) \o value) = Len(key) + 1 + Len(value)
    BY <1>3, ConcatProperties
<1>5. /\ ((key \o <<":">>) \o value) \o eol \in Seq(Symbols)
      /\ Len(((key \o <<":">>) \o value) \o eol) = Len(key) + 1 + Len(value) + Len(eol)
    BY <1>2, <1>4, ConcatProperties
<1> QED  BY <1>5 DEF Line

LEMMA LineHolds ==
    ASSUME NEW key \in Seq(Symbols), NEW value \in Seq(Symbols), NEW eol \in Eols,
           NEW w, Len(w) \in Nat, NEW p \in Nat, HoldsAt(w, p, Line(key, value, eol))
    PROVE  /\ HoldsAt(w, p, key) /\ w[p + Len(key) + 1] = ":"
           /\ HoldsAt(w, p + Len(key) + 1, value)
           /\ HoldsAt(w, p + Len(key) + 1 + Len(value), eol)
<1>0. Len(key) \in Nat /\ Len(value) \in Nat
    BY LenProperties
<1>1. <<":">> \in Seq(Symbols) /\ Len(<<":">>) = 1 /\ <<":">>[1] = ":"
    BY DEF Symbols, Marks
<1>2. eol \in Seq(Symbols)
    BY EolIs
<1> DEFINE kc == key \o <<":">>
           kv == kc \o value
<1>3. kc \in Seq(Symbols) /\ Len(kc) = Len(key) + 1
    BY <1>1, ConcatProperties
<1>4. kv \in Seq(Symbols) /\ Len(kv) = Len(key) + 1 + Len(value)
    BY <1>3, ConcatProperties
<1>5. HoldsAt(w, p, kv \o eol)
    BY DEF Line
<1> HIDE DEF kv
<1>6. HoldsAt(w, p, kv) /\ HoldsAt(w, p + Len(kv), eol)
    BY <1>2, <1>4, <1>5, HoldsConcat
<1>7. HoldsAt(w, p, kc \o value)
    BY <1>6 DEF kv
<1> HIDE DEF kc
<1>8. HoldsAt(w, p, kc) /\ HoldsAt(w, p + Len(kc), value)
    BY <1>3, <1>7, HoldsConcat
<1>9. HoldsAt(w, p, key \o <<":">>)
    BY <1>8 DEF kc
<1>10. HoldsAt(w, p, key) /\ HoldsAt(w, p + Len(key), <<":">>)
    BY <1>1, <1>9, HoldsConcat
<1>11. w[p + Len(key) + 1] = ":"
    BY <1>1, <1>10 DEF HoldsAt
<1>12. p + Len(kc) = p + Len(key) + 1 /\ p + Len(kv) = p + Len(key) + 1 + Len(value)
    BY <1>0, <1>3, <1>4
<1> QED  BY <1>6, <1>8, <1>10, <1>11, <1>12

\* What w holds behind p is a part of w.
LEMMA HoldsSubSeq ==
    ASSUME NEW S, NEW x \in Seq(S), NEW w, Len(w) \in Nat, NEW p \in Nat, HoldsAt(w, p, x)
    PROVE  SubSeq(w, p + 1, p + Len(x)) = x
<1> DEFINE lo == p + 1
           hi == p + Len(x)
<1>0. Len(x) \in Nat /\ \A k \in 1..Len(x) : x[k] \in S
    BY LenProperties, ElementOfSeq
<1>1. \A k \in 1..Len(x) : w[p + k] = x[k]
    BY DEF HoldsAt
<1>2. lo \in Int /\ hi \in Int /\ hi - lo + 1 = Len(x) /\ (lo <= hi <=> Len(x) # 0)
    BY <1>0
<1>3. \A i \in lo..hi : w[i] \in S
  <2>1. \A i \in lo..hi : i - p \in 1..Len(x) /\ p + (i - p) = i
      BY <1>0
  <2> QED  BY <1>0, <1>1, <2>1
<1>4. /\ SubSeq(w, lo, hi) \in Seq(S)
      /\ Len(SubSeq(w, lo, hi)) = IF lo <= hi THEN hi - lo + 1 ELSE 0
      /\ \A i \in 1..(hi - lo + 1) : SubSeq(w, lo, hi)[i] = w[lo + i - 1]
  <2> HIDE DEF lo, hi
  <2> QED  BY <1>2, <1>3, SubSeqProperties
<1>5. Len(SubSeq(w, lo, hi)) = Len(x)
    BY <1>0, <1>2, <1>4
<1>6. ASSUME NEW i \in 1..Len(x) PROVE SubSeq(w, lo, hi)[i] = x[i]
  <2>1. i \in 1..(hi - lo + 1) /\ lo + i - 1 = p + i
      BY <1>0, <1>2
  <2> QED  BY <1>1, <1>4, <2>1
<1> QED  BY <1>4, <1>5, <1>6, SeqEqual

\* parse_header reads a line back.
LEMMA HeaderLine ==
    ASSUME NEW key, NEW value, Clean(key, value), NEW eol \in Eols, NEW s, Len(s) \in Nat,
           NEW p \in Nat, HoldsAt(s, p, Line(key, value, eol)), NEW i, i = p + 1,
           NEW at, at = i + Len(Line(key, value, eol))
    PROVE  /\ i \in 1..Len(s) /\ at \in (i + 2)..(Len(s) + 1)
           /\ ParseHeader(s, i) = Found(at)
           /\ HeaderAt(s, i) = [key |-> key, value |-> value]
<1>0. /\ key \in Seq(Symbols) /\ value \in Seq(Symbols) /\ Len(key) \in Nat \ {0} /\ Len(value) \in Nat
      /\ Len(eol) \in 1..2
      /\ \A k \in 1..Len(key) : key[k] \notin {":", "CR", "LF"}
      /\ \A k \in 1..Len(value) : value[k] \notin {"CR", "LF"}
    BY LenProperties, EmptySeq, EolIs DEF Clean
<1>1. PICK c : c = p + Len(key) + 1
    OBVIOUS
<1>2. PICK e : e = c + Len(value) + 1
    OBVIOUS
<1>3. PICK q : q = c + Len(value)
    OBVIOUS
<1>4. /\ HoldsAt(s, p, key) /\ s[c] = ":"
      /\ HoldsAt(s, c, value) /\ HoldsAt(s, q, eol)
    BY <1>0, <1>1, <1>3, LineHolds
<1>5. at = i + (Len(key) + 1 + Len(value) + Len(eol))
    BY <1>0, LineIs
<1>6. /\ i \in Nat \ {0} /\ c \in Nat /\ e \in Nat /\ q \in Nat /\ i < c /\ c < e /\ e = q + 1
      /\ at = e + Len(eol)
    BY <1>0, <1>1, <1>2, <1>3, <1>5
<1>7. /\ LineEnding(s, e) = Found(at) /\ s[e] \in {"CR", "LF"} /\ e <= Len(s)
    BY <1>4, <1>6, HoldsEol
<1>8. at <= Len(s) + 1
  <2>1. q + Len(eol) <= Len(s)
      BY <1>4 DEF HoldsAt
  <2> QED  BY <1>0, <1>6, <2>1
<1>9. \A j \in i..(c - 1) : s[j] \notin {":", "CR", "LF"}
  <2>1. \A k \in 1..Len(key) : s[p + k] = key[k]
      BY <1>4 DEF HoldsAt
  <2>2. \A j \in i..(c - 1) : j - p \in 1..Len(key) /\ p + (j - p) = j
      BY <1>0, <1>1
  <2> QED  BY <1>0, <2>1, <2>2
<1>10. PICK d : d = c + 1
    OBVIOUS
<1>11. \A j \in d..(e - 1) : s[j] \notin {"CR", "LF"}
  <2>1. \A k \in 1..Len(value) : s[c + k] = value[k]
      BY <1>4 DEF HoldsAt
  <2>2. \A j \in d..(e - 1) : j - c \in 1..Len(value) /\ c + (j - c) = j
      BY <1>0, <1>2, <1>6, <1>10
  <2> QED  BY <1>0, <2>1, <2>2
<1>12. FirstOf(s, i, {":", "CR", "LF"}) = c
  <2>1. c \in i..Len(s) /\ s[c] \in {":", "CR", "LF"}
      BY <1>4, <1>6, <1>7
  <2> QED  BY <1>6, <1>9, <2>1, FirstOfUnique
<1>13. FirstOf(s, i, {":"}) = c
  <2>1. c \in i..Len(s) /\ s[c] \in {":"} /\ \A j \in i..(c - 1) : s[j] \notin {":"}
      BY <1>4, <1>6, <1>7, <1>9
  <2> QED  BY <1>6, <2>1, FirstOfUnique
<1>14. FirstOf(s, d, {"CR", "LF"}) = e
  <2>1. d \in Nat /\ e \in d..Len(s)
      BY <1>6, <1>7, <1>10
  <2> QED  BY <1>7, <1>11, <2>1, FirstOfUnique
<1>15. ParseHeader(s, i) = Found(at)
  <2>1. ~(c > Len(s)) /\ c # i
      BY <1>6, <1>7
  <2> QED  BY <1>4, <1>7, <1>10, <1>12, <1>14, <2>1 DEF ParseHeader
<1>16. HeaderAt(s, i) = [key |-> key, value |-> value]
  <2>1. SubSeq(s, i, c - 1) = key
    <3>1. PICK hi : hi = c - 1
        OBVIOUS
    <3>2. hi = p + Len(key)
        BY <1>0, <1>1, <3>1
    <3>3. key \in Seq(Symbols) /\ HoldsAt(s, p, key)
        BY <1>0, <1>4
    <3>4. SubSeq(s, i, hi) = key
      <4>1. SubSeq(s, p + 1, p + Len(key)) = key
          BY <3>3, HoldsSubSeq
      <4> QED  BY <3>2, <4>1
    <3> QED  BY <3>1, <3>4
  <2>2. SubSeq(s, c + 1, e - 1) = value
    <3>1. PICK hi : hi = e - 1
        OBVIOUS
    <3>2. hi = c + Len(value)
        BY <1>0, <1>2, <1>6, <3>1
    <3>3. value \in Seq(Symbols) /\ HoldsAt(s, c, value) /\ c \in Nat
        BY <1>0, <1>4, <1>6
    <3>4. SubSeq(s, d, hi) = value
      <4>1. SubSeq(s, c + 1, c + Len(value)) = value
          BY <3>3, HoldsSubSeq
      <4> QED  BY <1>10, <3>2, <4>1
    <3> QED  BY <1>10, <3>1, <3>4
  <2> QED  BY <1>10, <1>13, <1>14, <2>1, <2>2 DEF HeaderAt
<1>17. i \in 1..Len(s) /\ at \in (i + 2)..(Len(s) + 1)
    BY <1>0, <1>6, <1>7, <1>8
<1> QED  BY <1>15, <1>16, <1>17

\* A sequence from j on: the element there, and the rest.
LEMMA SubSeqFrom ==
    ASSUME NEW S, NEW x \in Seq(S), NEW j \in 1..Len(x), NEW k, k = j + 1
    PROVE  <<x[j]>> \o SubSeq(x, k, Len(x)) = SubSeq(x, j, Len(x))
<1>0. /\ Len(x) \in Nat /\ \A i \in 1..Len(x) : x[i] \in S
      /\ Len(x) \in Int /\ j \in Int /\ k \in Int
    BY LenProperties, ElementOfSeq
<1> DEFINE a == <<x[j]>>
           b == SubSeq(x, k, Len(x))
           c == SubSeq(x, j, Len(x))
<1>1. a \in Seq(S) /\ Len(a) = 1 /\ a[1] = x[j]
    BY <1>0
<1>2. /\ b \in Seq(S) /\ Len(b) = Len(x) - j
      /\ \A i \in 1..(Len(x) - j) : b[i] = x[j + i]
  <2>1. \A i \in k..Len(x) : x[i] \in S
      BY <1>0
  <2>2. /\ b \in Seq(S) /\ Len(b) = IF k <= Len(x) THEN Len(x) - k + 1 ELSE 0
        /\ \A i \in 1..(Len(x) - k + 1) : b[i] = x[k + i - 1]
      BY <1>0, <2>1, SubSeqProperties
  <2> HIDE DEF b
  <2>3. /\ Len(b) = Len(x) - j /\ Len(x) - k + 1 = Len(x) - j
        /\ \A i \in 1..(Len(x) - j) : k + i - 1 = j + i
      BY <1>0, <2>2
  <2> QED  BY <2>2, <2>3
<1>3. /\ c \in Seq(S) /\ Len(c) = Len(x) - j + 1
      /\ \A i \in 1..(Len(x) - j + 1) : c[i] = x[j + i - 1]
  <2>1. \A i \in j..Len(x) : x[i] \in S
      BY <1>0
  <2> QED  BY <1>0, <2>1, SubSeqProperties
<1> HIDE DEF a, b, c
<1>4. /\ a \o b \in Seq(S) /\ Len(a \o b) = Len(x) - j + 1
      /\ \A i \in 1..(Len(x) - j + 1) : (a \o b)[i] = IF i <= 1 THEN a[i] ELSE b[i - 1]
  <2>1. /\ a \o b \in Seq(S) /\ Len(a \o b) = Len(a) + Len(b)
        /\ \A i \in 1..(Len(a) + Len(b)) : (a \o b)[i] = IF i <= Len(a) THEN a[i] ELSE b[i - Len(a)]
      BY <1>1, <1>2, ConcatProperties
  <2>2. Len(a) + Len(b) = Len(x) - j + 1
      BY <1>0, <1>1, <1>2
  <2> QED  BY <1>1, <2>1, <2>2
<1>5. ASSUME NEW i \in 1..(Len(x) - j + 1) PROVE (a \o b)[i] = c[i]
  <2>1. CASE i = 1
    <3>1. j + i - 1 = j /\ i <= 1
        BY <2>1
    <3> QED  BY <1>1, <1>3, <1>4, <2>1, <3>1
  <2>2. CASE i # 1
    <3>1. ~(i <= 1) /\ i - 1 \in 1..(Len(x) - j) /\ j + (i - 1) = j + i - 1
        BY <1>0, <2>2
    <3>2. b[i - 1] = x[j + (i - 1)]
        BY <1>2, <3>1
    <3> QED  BY <1>3, <1>4, <3>1, <3>2
  <2> QED  BY <2>1, <2>2
<1>6. a \o b = c
    BY <1>3, <1>4, <1>5, SeqEqual
<1> QED  BY <1>6 DEF a, b, c

Headers == [key : Seq(Symbols), value : Seq(Symbols)]

\* The lines of headers stand in s, one behind the other from p on, and an
\* empty line behind them.
Lines(s, p, at, headers, eol) ==
    /\ at[0] = p /\ \A n \in 0..Len(headers) : at[n] \in Nat
    /\ \A n \in 1..Len(headers) :
         LET line == Line(headers[n].key, headers[n].value, eol)
         IN  at[n] = at[n - 1] + Len(line) /\ HoldsAt(s, at[n - 1], line)
    /\ HoldsAt(s, at[Len(headers)], eol)

LEMMA ParseLines ==
    ASSUME NEW s, Len(s) \in Nat, NEW p \in Nat, NEW eol \in Eols, NEW at,
           NEW headers \in Seq(Headers), Lines(s, p, at, headers, eol),
           \A n \in 1..Len(headers) : Clean(headers[n].key, headers[n].value)
    PROVE  ParseHeaders(s, p + 1) = [is |-> "ok", at |-> at[Len(headers)] + 1 + Len(eol),
                                     headers |-> headers]
<1> DEFINE N == Len(headers)
           end == at[N] + 1 + Len(eol)
           Good(n) == ParseHeaders(s, at[N - n] + 1) =
                          [is |-> "ok", at |-> end, headers |-> SubSeq(headers, N - n + 1, N)]
           S == {n \in 0..N : Good(n)}
<1>0. N \in Nat
    BY LenProperties
<1>1. 0 \in S
  <2>1. at[N] \in Nat /\ HoldsAt(s, at[N], eol)
      BY <1>0 DEF Lines
  <2>2. PICK i : i = at[N] + 1
      OBVIOUS
  <2>3. /\ LineEnding(s, i) = Found(i + Len(eol)) /\ ParseHeader(s, i) = Bad
        /\ i \in 1..(Len(s) + 1)
    <3>1. PICK q : q = at[N] /\ q \in Nat /\ HoldsAt(s, q, eol)
        BY <2>1
    <3>2. /\ LineEnding(s, q + 1) = Found((q + 1) + Len(eol)) /\ ParseHeader(s, q + 1) = Bad
          /\ q + 1 <= Len(s)
        BY <3>1, HoldsEol
    <3>3. i = q + 1 /\ i \in 1..(Len(s) + 1)
        BY <2>2, <3>1, <3>2
    <3> QED  BY <3>2, <3>3
  <2>4. LineEnding(s, i).is = "ok" /\ LineEnding(s, i).at = i + Len(eol)
      BY <2>3, VerdictsAre
  <2>5. ParseHeaders(s, i) = [is |-> "ok", at |-> i + Len(eol), headers |-> << >>]
      BY <2>3, <2>4, ParseHeadersStep
  <2>6. SubSeq(headers, N - 0 + 1, N) = << >>
    <3>1. N - 0 + 1 \in Int /\ N - 0 + 1 > N
        BY <1>0
    <3>2. \A k \in (N - 0 + 1)..N : headers[k] \in Headers
        BY <1>0
    <3>3. PICK lo : lo = N - 0 + 1
        OBVIOUS
    <3> HIDE DEF N
    <3>4. SubSeq(headers, lo, N) \in Seq(Headers) /\ Len(SubSeq(headers, lo, N)) = 0
        BY <1>0, <3>1, <3>2, <3>3, SubSeqProperties
    <3>5. SubSeq(headers, lo, N) = << >>
        BY <3>4, EmptySeq
    <3> QED  BY <3>3, <3>5
  <2>7. N - 0 = N /\ 0 \in 0..N
      BY <1>0
  <2>8. end = i + Len(eol)
      BY <2>2
  <2> HIDE DEF N, end
  <2> QED  BY <2>2, <2>5, <2>6, <2>7, <2>8
<1>2. ASSUME NEW n \in 0..(N - 1), n \in S PROVE n + 1 \in S
  <2>1. PICK j : j = N - n
      OBVIOUS
  <2>2. j \in 1..N /\ N - (n + 1) = j - 1 /\ j - 1 \in 0..N /\ n + 1 \in 0..N
        /\ N - (n + 1) + 1 = j
      BY <1>0, <2>1
  <2> DEFINE line == Line(headers[j].key, headers[j].value, eol)
  <2>3. PICK q, i, e : q = at[j - 1] /\ i = q + 1 /\ e = i + Len(line)
      OBVIOUS
  <2>4. /\ q \in Nat /\ HoldsAt(s, q, line) /\ at[j] = q + Len(line)
        /\ Clean(headers[j].key, headers[j].value)
      BY <2>2, <2>3 DEF Lines
  <2>5. Len(line) \in Nat
      BY <2>4, LineIs, LenProperties, EolIs DEF Clean
  <2>6. /\ i \in 1..Len(s) /\ e \in (i + 2)..(Len(s) + 1)
        /\ ParseHeader(s, i) = Found(e)
        /\ HeaderAt(s, i) = [key |-> headers[j].key, value |-> headers[j].value]
    <3>1. PICK key, value : key = headers[j].key /\ value = headers[j].value
        OBVIOUS
    <3>2. Clean(key, value) /\ HoldsAt(s, q, Line(key, value, eol)) /\ e = i + Len(Line(key, value, eol))
        BY <2>3, <2>4, <3>1
    <3>3. /\ i \in 1..Len(s) /\ e \in (i + 2)..(Len(s) + 1)
          /\ ParseHeader(s, i) = Found(e)
          /\ HeaderAt(s, i) = [key |-> key, value |-> value]
      <4>1. i = q + 1 /\ e = i + Len(Line(key, value, eol)) /\ q \in Nat
          BY <2>3, <2>4, <3>2
      <4> QED  BY <3>2, <4>1, HeaderLine
    <3> QED  BY <3>1, <3>3
  <2>7. HeaderAt(s, i) = headers[j]
    <3>1. headers[j] \in Headers
        BY <2>2
    <3> QED  BY <2>6, <3>1 DEF Headers
  <2>8. e = at[j] + 1
      BY <2>3, <2>4, <2>5
  <2>9. ParseHeaders(s, e) = [is |-> "ok", at |-> end, headers |-> SubSeq(headers, j + 1, N)]
      BY <1>2, <2>1, <2>8
  <2> HIDE DEF N, end
  <2>10. /\ ParseHeaders(s, e).is = "ok" /\ ParseHeaders(s, e).at = end
         /\ ParseHeaders(s, e).headers = SubSeq(headers, j + 1, N)
    <3>1. PICK h : h = SubSeq(headers, j + 1, N)
        OBVIOUS
    <3>2. ParseHeaders(s, e) = [is |-> "ok", at |-> end, headers |-> h]
        BY <2>9, <3>1
    <3>3. ParseHeaders(s, e).is = "ok" /\ ParseHeaders(s, e).at = end /\ ParseHeaders(s, e).headers = h
        BY <3>2
    <3> QED  BY <3>1, <3>3
  <2>11. i \in 1..(Len(s) + 1)
      BY <2>6
  <2>12. ParseHeaders(s, i) = [is |-> "ok", at |-> end,
                               headers |-> <<headers[j]>> \o SubSeq(headers, j + 1, N)]
      BY <2>6, <2>7, <2>10, <2>11, ParseHeadersStep
  <2>13. <<headers[j]>> \o SubSeq(headers, j + 1, N) = SubSeq(headers, j, N)
      BY <2>2, SubSeqFrom DEF N
  <2>14. Good(n + 1)
      BY <2>2, <2>3, <2>12, <2>13
  <2> QED  BY <2>2, <2>14
<1> HIDE DEF S
<1>3. N \in S
  <2> HIDE DEF N
  <2>1. \A n \in 0..N : n \in S
      BY <1>0, <1>1, <1>2, Induction
  <2> QED  BY <1>0, <2>1
<1>4. Good(N)
    BY <1>3 DEF S
<1>5. N - N = 0 /\ N - N + 1 = 1 /\ at[0] = p
    BY <1>0 DEF Lines
<1>6. SubSeq(headers, 1, N) = headers
    BY SubSeqFull
<1> HIDE DEF N, end
<1>7. ParseHeaders(s, p + 1) = [is |-> "ok", at |-> end, headers |-> headers]
    BY <1>4, <1>5, <1>6
<1> QED  BY <1>7 DEF end, N

LEMMA AllPlaces ==
    ASSUME NEW S, NEW seqs \in Seq(Seq(S))
    PROVE  FlattenSeq(seqs) \in Seq(S) /\ \E at : Places(at, FlattenSeq(seqs), seqs)
<1>0. Len(seqs) \in Nat /\ \A i \in 1..Len(seqs) : seqs[i] \in Seq(S)
    BY LenProperties, ElementOfSeq
<1>1. CASE Len(seqs) = 0
  <2>1. seqs = << >> /\ FlattenSeq(seqs) = << >>
      BY <1>1, EmptySeq DEF FlattenSeq
  <2> DEFINE at == [i \in 0..0 |-> 0]
  <2>2. at[0] = 0
      OBVIOUS
  <2>3. Len(<< >>) = 0 /\ << >> \in Seq(S)
      OBVIOUS
  <2> HIDE DEF at
  <2>4. Places(at, FlattenSeq(seqs), seqs)
      BY <1>1, <2>1, <2>2, <2>3 DEF Places
  <2> QED  BY <2>1, <2>3, <2>4
<1>2. CASE Len(seqs) # 0
  <2>1. Len(seqs) \in Nat \ {0}
      BY <1>0, <1>2
  <2> QED  BY <1>0, <2>1, FlattenPlaces
<1> QED  BY <1>1, <1>2

\* The frames serialize is given, and what it does not escape: names of
\* which nothing is left to escape, and, in CONNECT and CONNECTED, values on
\* one line.
Wellformed(f) ==
    /\ f.command \in Symbols \ NotAlpha /\ f.headers \in Seq(Headers)
    /\ f.body \in Seq(Symbols) /\ f.eol \in Eols
    /\ \A i \in DOMAIN f.headers : Clean(Escaped(f)[i].key, Escaped(f)[i].value)

\* The parts of an encoded frame, in their places.
LEMMA SerializePlaces ==
    ASSUME NEW f, Wellformed(f)
    PROVE  /\ Escaped(f) \in Seq(Headers) /\ Len(Escaped(f)) = Len(f.headers)
           /\ Serialize(f) \in Seq(Symbols) /\ Serialize(f)[1] = f.command
           /\ HoldsAt(Serialize(f), 1, f.eol)
           /\ \E at, start :
                /\ Lines(Serialize(f), 1 + Len(f.eol), at, Escaped(f), f.eol)
                /\ start = at[Len(f.headers)] + Len(f.eol)
                /\ HoldsAt(Serialize(f), start, f.body)
                /\ HoldsAt(Serialize(f), start + Len(f.body), <<"NUL">>)
                /\ Len(Serialize(f)) = start + Len(f.body) + 1
<1> DEFINE hs == Escaped(f)
           N == Len(f.headers)
           line(h) == h.key \o <<":">> \o h.value \o f.eol
           seqs == [i \in DOMAIN f.headers |-> line(Escaped(f)[i])]
           flat == FlattenSeq(seqs)
           c == <<f.command>>
           z == <<"NUL">>
<1>0. /\ f.command \in Symbols /\ f.headers \in Seq(Headers) /\ f.body \in Seq(Symbols) /\ f.eol \in Eols
      /\ f.eol \in Seq(Symbols) /\ Len(f.eol) \in Nat \ {0} /\ Len(f.body) \in Nat
      /\ N \in Nat /\ DOMAIN f.headers = 1..N
  <2>1. /\ f.command \in Symbols /\ f.headers \in Seq(Headers) /\ f.body \in Seq(Symbols) /\ f.eol \in Eols
      BY DEF Wellformed
  <2> QED  BY <2>1, EolIs, LenProperties
<1>1. ASSUME NEW i \in 1..N
      PROVE  /\ hs[i] \in Headers /\ hs[i].key \in Seq(Symbols) /\ hs[i].value \in Seq(Symbols)
             /\ line(hs[i]) = Line(hs[i].key, hs[i].value, f.eol)
             /\ line(hs[i]) \in Seq(Symbols)
  <2>1. Clean(hs[i].key, hs[i].value)
      BY <1>0 DEF Wellformed
  <2>2. hs[i].key \in Seq(Symbols) /\ hs[i].value \in Seq(Symbols)
      BY <2>1 DEF Clean
  <2>3. hs[i] \in Headers
    <3>1. hs[i] = IF HeadersAreEscaped(f.command)
                  THEN [key |-> Escape(f.headers[i].key), value |-> Escape(f.headers[i].value)]
                  ELSE f.headers[i]
        BY <1>0 DEF Escaped
    <3>2. f.headers[i] \in Headers
        BY <1>0
    <3>3. CASE HeadersAreEscaped(f.command)
        BY <2>2, <3>1, <3>3 DEF Headers
    <3>4. CASE ~HeadersAreEscaped(f.command)
        BY <3>1, <3>2, <3>4
    <3> QED  BY <3>3, <3>4
  <2>4. line(hs[i]) = Line(hs[i].key, hs[i].value, f.eol)
      BY DEF Line
  <2>5. Line(hs[i].key, hs[i].value, f.eol) \in Seq(Symbols)
    <3>1. PICK key, value, eol : key = hs[i].key /\ value = hs[i].value /\ eol = f.eol
        OBVIOUS
    <3>2. key \in Seq(Symbols) /\ value \in Seq(Symbols) /\ eol \in Eols
        BY <1>0, <2>2, <3>1
    <3>3. Line(key, value, eol) \in Seq(Symbols)
        BY <3>2, LineIs
    <3> QED  BY <3>1, <3>3
  <2> HIDE DEF line, hs
  <2> QED  BY <2>2, <2>3, <2>4, <2>5
<1>2. hs \in Seq(Headers) /\ Len(hs) = N
  <2>1. DOMAIN hs = 1..N /\ hs = [i \in DOMAIN hs |-> hs[i]]
      BY <1>0 DEF Escaped
  <2> HIDE DEF hs
  <2>2. hs \in [1..N -> Headers]
      BY <1>1, <2>1
  <2> QED  BY <1>0, <2>2, SMTT(30)
<1>3. /\ seqs \in Seq(Seq(Symbols)) /\ Len(seqs) = N
      /\ \A i \in 1..N : seqs[i] = Line(hs[i].key, hs[i].value, f.eol)
  <2> HIDE DEF line
  <2>1. seqs \in [1..N -> Seq(Symbols)]
      BY <1>0, <1>1
  <2>2. \A i \in 1..N : seqs[i] = Line(hs[i].key, hs[i].value, f.eol)
      BY <1>0, <1>1
  <2> HIDE DEF seqs
  <2>3. seqs \in Seq(Seq(Symbols)) /\ Len(seqs) = N
    <3>1. N \in Nat
        BY <1>0
    <3> HIDE DEF N
    <3> QED  BY <2>1, <3>1
  <2> QED  BY <2>2, <2>3
<1> HIDE DEF seqs
<1>4. flat \in Seq(Symbols) /\ \E pl : Places(pl, flat, seqs)
    BY <1>3, AllPlaces
<1>5. /\ c \in Seq(Symbols) /\ Len(c) = 1 /\ c[1] = f.command
      /\ z \in Seq(Symbols) /\ Len(z) = 1
  <2>1. "NUL" \in Symbols
      BY DEF Symbols, Marks
  <2> QED  BY <1>0, <2>1
<1>6. Serialize(f) = c \o f.eol \o flat \o f.eol \o f.body \o z
    BY DEF Serialize, seqs
<1> HIDE DEF flat, c, z
<1> DEFINE w1 == c \o f.eol
           w2 == w1 \o flat
           w3 == w2 \o f.eol
           w4 == w3 \o f.body
           w5 == w4 \o z
<1>7. w5 = Serialize(f)
    BY <1>6
<1>8. w1 \in Seq(Symbols) /\ Len(w1) = 1 + Len(f.eol) /\ HoldsAt(w1, 1, f.eol) /\ w1[1] = f.command
  <2>1. /\ w1 \in Seq(Symbols) /\ Len(w1) = Len(c) + Len(f.eol) /\ HoldsAt(w1, Len(c), f.eol)
        /\ \A i \in 1..(Len(c) + Len(f.eol)) : w1[i] = IF i <= Len(c) THEN c[i] ELSE f.eol[i - Len(c)]
      BY <1>0, <1>5, ConcatProperties, HoldsBehind, ZenonT(30)
  <2>2. 1 \in 1..(Len(c) + Len(f.eol)) /\ 1 <= Len(c)
      BY <1>0, <1>5
  <2> HIDE DEF w1
  <2> QED  BY <1>5, <2>1, <2>2
<1> HIDE DEF w1
<1>9. w2 \in Seq(Symbols) /\ Len(w2) = Len(w1) + Len(flat) /\ HoldsAt(w2, Len(w1), flat)
    BY <1>4, <1>8, ConcatProperties, HoldsBehind
<1>10. HoldsAt(w2, 1, f.eol) /\ HoldsAt(w2, 0, w1)
  <2>1. HoldsAt(w1, 0, w1)
      BY <1>8 DEF HoldsAt
  <2> QED  BY <1>0, <1>4, <1>8, <2>1, HoldsStays
<1> HIDE DEF w2
<1>11. w3 \in Seq(Symbols) /\ Len(w3) = Len(w2) + Len(f.eol) /\ HoldsAt(w3, Len(w2), f.eol)
    BY <1>0, <1>9, ConcatProperties, HoldsBehind
<1>12. HoldsAt(w3, 1, f.eol) /\ HoldsAt(w3, 0, w1) /\ HoldsAt(w3, Len(w1), flat)
    BY <1>0, <1>4, <1>8, <1>9, <1>10, HoldsStays, LenProperties
<1> HIDE DEF w3
<1>13. w4 \in Seq(Symbols) /\ Len(w4) = Len(w3) + Len(f.body) /\ HoldsAt(w4, Len(w3), f.body)
    BY <1>0, <1>11, ConcatProperties, HoldsBehind
<1>14. /\ HoldsAt(w4, 1, f.eol) /\ HoldsAt(w4, 0, w1) /\ HoldsAt(w4, Len(w1), flat)
       /\ HoldsAt(w4, Len(w2), f.eol)
    BY <1>0, <1>4, <1>8, <1>9, <1>11, <1>12, HoldsStays, LenProperties
<1> HIDE DEF w4
<1>15. w5 \in Seq(Symbols) /\ Len(w5) = Len(w4) + Len(z) /\ HoldsAt(w5, Len(w4), z)
    BY <1>5, <1>13, ConcatProperties, HoldsBehind
<1>16. /\ HoldsAt(w5, 1, f.eol) /\ HoldsAt(w5, 0, w1) /\ HoldsAt(w5, Len(w1), flat)
       /\ HoldsAt(w5, Len(w2), f.eol) /\ HoldsAt(w5, Len(w3), f.body)
    BY <1>0, <1>4, <1>5, <1>8, <1>9, <1>11, <1>13, <1>14, HoldsStays, LenProperties
<1> HIDE DEF w5
<1>17. PICK pl : Places(pl, flat, seqs)
    BY <1>4
<1>18. /\ Len(flat) \in Nat /\ Len(w1) \in Nat /\ Len(w2) \in Nat /\ Len(w3) \in Nat /\ Len(w4) \in Nat
       /\ Len(w5) \in Nat
    BY <1>4, <1>8, <1>9, <1>11, <1>13, <1>15, LenProperties
<1> DEFINE at == [n \in 0..N |-> Len(w1) + pl[n]]
<1>19. \A n \in 0..N : at[n] = Len(w1) + pl[n]
    OBVIOUS
<1> HIDE DEF at
<1>20. /\ pl[0] = 0 /\ pl[N] = Len(flat) /\ \A n \in 0..N : pl[n] \in Nat
       /\ \A n \in 1..N : pl[n] = pl[n - 1] + Len(seqs[n]) /\ HoldsAt(flat, pl[n - 1], seqs[n])
    BY <1>3, <1>17 DEF Places
<1>21. at[0] = 1 + Len(f.eol) /\ at[N] = Len(w2) /\ \A n \in 0..N : at[n] \in Nat
  <2> HIDE DEF N
  <2>1. 0 \in 0..N /\ N \in 0..N
      BY <1>0
  <2>2. at[0] = Len(w1) + 0 /\ at[N] = Len(w1) + Len(flat)
      BY <1>19, <1>20, <2>1
  <2>3. \A n \in 0..N : at[n] \in Nat
      BY <1>18, <1>19, <1>20
  <2> QED  BY <1>8, <1>9, <1>18, <2>2, <2>3
<1>22. ASSUME NEW n \in 1..N
       PROVE  /\ at[n] = at[n - 1] + Len(Line(hs[n].key, hs[n].value, f.eol))
              /\ HoldsAt(w5, at[n - 1], Line(hs[n].key, hs[n].value, f.eol))
  <2> HIDE DEF N, hs
  <2>1. n \in 0..N /\ n - 1 \in 0..N
      BY <1>0
  <2>2. PICK x : x = seqs[n] /\ x = Line(hs[n].key, hs[n].value, f.eol)
      BY <1>3
  <2>3. Len(x) \in Nat
    <3>1. seqs[n] \in Seq(Symbols)
        BY <1>3, ElementOfSeq
    <3> QED  BY <2>2, <3>1, LenProperties
  <2>4. PICK q : q = pl[n - 1]
      OBVIOUS
  <2>5. q \in Nat /\ HoldsAt(flat, q, x) /\ pl[n] = q + Len(x)
      BY <1>20, <2>1, <2>2, <2>4
  <2>6. HoldsAt(w5, Len(w1) + q, x)
      BY <1>16, <1>18, <2>3, <2>5, HoldsWithin
  <2>7. at[n - 1] = Len(w1) + q /\ at[n] = Len(w1) + (q + Len(x))
      BY <1>19, <2>1, <2>4, <2>5
  <2>8. at[n] = at[n - 1] + Len(x)
      BY <1>18, <2>3, <2>5, <2>7
  <2> QED  BY <2>2, <2>6, <2>7, <2>8
<1>23. Lines(w5, 1 + Len(f.eol), at, hs, f.eol)
    BY <1>2, <1>16, <1>21, <1>22 DEF Lines
<1>24. PICK start : start = at[N] + Len(f.eol)
    OBVIOUS
<1>25. /\ start = Len(w3) /\ start + Len(f.body) = Len(w4) /\ Len(w5) = start + Len(f.body) + 1
    BY <1>0, <1>5, <1>11, <1>13, <1>15, <1>18, <1>21, <1>24
<1>26. w5[1] = f.command
  <2>1. 1 \in 1..Len(w1) /\ 0 + 1 = 1
      BY <1>0, <1>8
  <2>2. w5[0 + 1] = w1[1]
      BY <1>16, <2>1 DEF HoldsAt
  <2> QED  BY <1>8, <2>1, <2>2
<1>27. /\ HoldsAt(w5, start, f.body) /\ HoldsAt(w5, start + Len(f.body), z)
    BY <1>15, <1>16, <1>25
<1> HIDE DEF hs
<1>28. \E at1, start1 :
                /\ Lines(w5, 1 + Len(f.eol), at1, hs, f.eol)
                /\ start1 = at1[Len(f.headers)] + Len(f.eol)
                /\ HoldsAt(w5, start1, f.body)
                /\ HoldsAt(w5, start1 + Len(f.body), z)
                /\ Len(w5) = start1 + Len(f.body) + 1
  <2> WITNESS at, start
  <2> QED  BY <1>23, <1>24, <1>25, <1>27
<1> QED  BY <1>2, <1>7, <1>15, <1>16, <1>26, <1>28 DEF hs, z

\* The body ends where its length, or else the first NUL, says.
Delimited(headers, body) ==
    \/ ContentLength(headers) = {Len(body)}
    \/ ContentLength(headers) = {} /\ \A i \in 1..Len(body) : body[i] # "NUL"

\* The frame of an encoding: the header values are not unescaped yet.
Parsed(f) ==
    [command |-> f.command, headers |-> Escaped(f),
     body |-> IF f.body = << >> /\ ContentLength(Escaped(f)) = {} THEN {} ELSE {f.body}]

\* parse_frame reads back what serialize wrote, to the last byte: the command,
\* the headers as they were escaped, and the body.
THEOREM ParseSerialize ==
    ASSUME NEW f, Wellformed(f), Delimited(Escaped(f), f.body)
    PROVE  ParseFrame(Serialize(f)) =
               [is |-> "ok", at |-> Len(Serialize(f)) + 1, frame |-> Parsed(f)]
<1> DEFINE b == Serialize(f)
           hs == Escaped(f)
           N == Len(f.headers)
<1>0. /\ f.command \notin NotAlpha /\ f.body \in Seq(Symbols) /\ f.eol \in Eols
      /\ Len(f.body) \in Nat /\ Len(f.eol) \in Nat \ {0}
      /\ \A i \in DOMAIN f.headers : Clean(hs[i].key, hs[i].value)
      /\ DOMAIN f.headers = 1..N /\ N \in Nat
  <2>1. /\ f.command \notin NotAlpha /\ f.body \in Seq(Symbols) /\ f.eol \in Eols
        /\ \A i \in DOMAIN f.headers : Clean(hs[i].key, hs[i].value)
        /\ f.headers \in Seq(Headers)
      BY DEF Wellformed
  <2> QED  BY <2>1, EolIs, LenProperties
<1>1. /\ hs \in Seq(Headers) /\ Len(hs) = N /\ b \in Seq(Symbols) /\ b[1] = f.command
      /\ HoldsAt(b, 1, f.eol)
    BY SerializePlaces
<1>2. PICK at, start :
                /\ Lines(b, 1 + Len(f.eol), at, hs, f.eol)
                /\ start = at[N] + Len(f.eol)
                /\ HoldsAt(b, start, f.body)
                /\ HoldsAt(b, start + Len(f.body), <<"NUL">>)
                /\ Len(b) = start + Len(f.body) + 1
    BY SerializePlaces
<1> HIDE DEF b, hs
<1>3. start \in Nat /\ at[N] \in Nat
  <2>1. at[Len(hs)] \in Nat
    <3>1. Len(hs) \in 0..Len(hs)
        BY <1>0, <1>1
    <3> QED  BY <1>2, <3>1 DEF Lines
  <2> QED  BY <1>0, <1>1, <1>2, <2>1
<1>4. PICK e : e = start + Len(f.body) + 1
    OBVIOUS
<1>5. Len(b) = e /\ e \in Nat \ {0} /\ Len(b) \in Nat \ {0}
    BY <1>0, <1>2, <1>3, <1>4
<1>6. b[e] = "NUL"
  <2>1. Len(<<"NUL">>) = 1 /\ <<"NUL">>[1] = "NUL"
      OBVIOUS
  <2>2. b[(start + Len(f.body)) + 1] = "NUL"
      BY <1>2, <2>1 DEF HoldsAt
  <2> QED  BY <1>4, <2>2
<1>7. PICK p : p = 1 + Len(f.eol)
    OBVIOUS
<1>8. p \in Nat /\ p + 1 = (1 + 1) + Len(f.eol)
    BY <1>0, <1>7
<1>9. LineEnding(b, 1 + 1) = Found((1 + 1) + Len(f.eol))
    BY <1>0, <1>1, <1>5, HoldsEol
<1>10. ParseHeaders(b, p + 1) = [is |-> "ok", at |-> start + 1, headers |-> hs]
  <2>1. ParseHeaders(b, p + 1) = [is |-> "ok", at |-> at[Len(hs)] + 1 + Len(f.eol), headers |-> hs]
    <3>1. \A n \in 1..Len(hs) : Clean(hs[n].key, hs[n].value)
        BY <1>0, <1>1
    <3>2. Lines(b, p, at, hs, f.eol)
        BY <1>2, <1>7
    <3>3. PICK eol : eol = f.eol
        OBVIOUS
    <3>4. ParseHeaders(b, p + 1) = [is |-> "ok", at |-> at[Len(hs)] + 1 + Len(eol), headers |-> hs]
        BY <1>0, <1>1, <1>5, <1>8, <3>1, <3>2, <3>3, ParseLines
    <3> QED  BY <3>3, <3>4
  <2>2. at[Len(hs)] + 1 + Len(f.eol) = start + 1
    <3>1. PICK a, l : a = at[N] /\ l = Len(f.eol)
        OBVIOUS
    <3>2. a \in Nat /\ l \in Nat /\ start = a + l /\ at[Len(hs)] = a
        BY <1>0, <1>1, <1>2, <1>3, <3>1
    <3> QED  BY <3>1, <3>2, SMTT(30)
  <2> QED  BY <2>1, <2>2
<1>11. ParseFrame(b) = ParseBody(b, start + 1, f.command, hs)
  <2>1. b[1] \notin NotAlpha /\ b[1] \notin {"CR", "LF"}
      BY <1>0, <1>1 DEF NotAlpha
  <2>2. 1 + 1 = 2
      OBVIOUS
  <2>3. LineEnding(b, 2) = Found(p + 1) /\ LineEnding(b, 2) # More /\ LineEnding(b, 2) # Bad
      BY <1>8, <1>9, <2>2, VerdictsAre
  <2>4. PICK a \in 3..(Len(b) + 1) :
                /\ LineEnding(b, 2) = Found(a)
                /\ ParseFrame(b) = IF ParseHeaders(b, a).is # "ok" THEN ParseHeaders(b, a)
                                   ELSE ParseBody(b, ParseHeaders(b, a).at, b[1],
                                                  ParseHeaders(b, a).headers)
      BY <1>5, <2>1, <2>3, ParseFrameSplit
  <2>5. a = p + 1
    <3>1. Found(a).at = a /\ Found(p + 1).at = p + 1
        BY VerdictsAre
    <3> QED  BY <2>3, <2>4, <3>1
  <2>6. /\ ParseHeaders(b, a).is = "ok" /\ ParseHeaders(b, a).at = start + 1
        /\ ParseHeaders(b, a).headers = hs
      BY <1>10, <2>5
  <2> QED  BY <1>1, <2>4, <2>6
<1>12. PICK i : i = start + 1
    OBVIOUS
<1>13. /\ i \in Nat \ {0} /\ i <= Len(b) /\ e = i + Len(f.body) /\ e - 1 = start + Len(f.body) /\ e \in i..Len(b)
  <2>1. PICK l : l = Len(f.body)
      OBVIOUS
  <2>2. l \in Nat /\ e = start + l + 1
      BY <1>0, <1>4, <2>1
  <2>3. i \in Nat \ {0} /\ i <= e /\ e = i + l /\ e - 1 = start + l
      BY <1>3, <1>12, <2>2
  <2> QED  BY <1>5, <2>1, <2>3
<1>14. BodyEnd(b, i, hs) = e
  <2>1. CASE ContentLength(hs) = {Len(f.body)}
    <3>1. (CHOOSE n \in ContentLength(hs) : TRUE) = Len(f.body) /\ ContentLength(hs) # {}
        BY <2>1
    <3> QED  BY <1>13, <3>1 DEF BodyEnd
  <2>2. CASE ContentLength(hs) = {} /\ \A k \in 1..Len(f.body) : f.body[k] # "NUL"
    <3>1. \A k \in 1..Len(f.body) : b[start + k] = f.body[k]
        BY <1>2 DEF HoldsAt
    <3>2. \A j \in i..(e - 1) : j - start \in 1..Len(f.body) /\ start + (j - start) = j
        BY <1>0, <1>3, <1>4, <1>12
    <3>3. \A j \in i..(e - 1) : b[j] \notin {"NUL"}
        BY <2>2, <3>1, <3>2
    <3>4. b[e] \in {"NUL"}
        BY <1>6
    <3>5. FirstOf(b, i, {"NUL"}) = e
        BY <1>5, <1>13, <3>3, <3>4, FirstOfUnique
    <3> QED  BY <2>2, <3>5 DEF BodyEnd
  <2> QED  BY <2>1, <2>2 DEF Delimited, hs
<1>15. SubSeq(b, i, e - 1) = f.body
  <2>1. PICK body : body = f.body
      OBVIOUS
  <2>2. SubSeq(b, start + 1, start + Len(body)) = body
      BY <1>0, <1>2, <1>3, <1>5, <2>1, HoldsSubSeq
  <2> QED  BY <1>12, <1>13, <2>1, <2>2
<1>16. Opt(b, e + 1) = e + 1
  <2>1. e + 1 > Len(b)
      BY <1>5
  <2>2. LineEnding(b, e + 1) = More
      BY <2>1 DEF LineEnding
  <2> QED  BY <2>2, VerdictsAre DEF Opt
<1>17. ParseBody(b, i, f.command, hs) =
            [is |-> "ok", at |-> e + 1,
             frame |-> [command |-> f.command, headers |-> hs,
                        body |-> IF f.body = << >> /\ ContentLength(hs) = {} THEN {} ELSE {f.body}]]
  <2>1. ~(e > Len(b))
      BY <1>5
  <2> QED  BY <1>6, <1>14, <1>15, <1>16, <2>1 DEF ParseBody
<1>18. ParseFrame(b) = [is |-> "ok", at |-> e + 1, frame |-> Parsed(f)]
    BY <1>11, <1>12, <1>17 DEF Parsed, hs
<1> QED  BY <1>5, <1>18 DEF b

LEMMA LineEndingLast ==
    ASSUME NEW s, Len(s) \in Nat, NEW i \in Nat \ {0}, NEW at, LineEnding(s, i) = Found(at)
    PROVE  at \in Int /\ s[at - 1] = "LF"
<1>1. ~(i > Len(s))
    BY VerdictsAre DEF LineEnding
<1>2. CASE s[i] = "LF"
  <2>1. LineEnding(s, i) = Found(i + 1)
      BY <1>1, <1>2 DEF LineEnding
  <2>2. at = i + 1
    <3>1. Found(at).at = at /\ Found(i + 1).at = i + 1
        BY VerdictsAre
    <3> QED  BY <2>1, <3>1
  <2>3. at \in Int /\ at - 1 = i
      BY <2>2
  <2> QED  BY <1>2, <2>3
<1>3. CASE s[i] # "LF"
  <2>1. s[i] = "CR" /\ i < Len(s) /\ s[i + 1] = "LF"
      BY <1>1, <1>3, VerdictsAre DEF LineEnding
  <2>2. LineEnding(s, i) = Found(i + 2)
      BY <1>1, <2>1 DEF LineEnding
  <2>3. at = i + 2
    <3>1. Found(at).at = at /\ Found(i + 2).at = i + 2
        BY VerdictsAre
    <3> QED  BY <2>2, <3>1
  <2>4. at \in Int /\ at - 1 = i + 1
      BY <2>3
  <2> QED  BY <2>1, <2>4
<1> QED  BY <1>2, <1>3

\* A frame that ends in its NUL ends nowhere else.
LEMMA OptAtEnd ==
    ASSUME NEW u, Len(u) \in Nat \ {0}, u[Len(u)] = "NUL", NEW e \in 1..Len(u),
           Opt(u, e + 1) = Len(u) + 1
    PROVE  e = Len(u)
<1>1. PICK i : i = e + 1
    OBVIOUS
<1>2. i \in Nat \ {0} /\ i <= Len(u) + 1
    BY <1>1
<1>3. CASE LineEnding(u, i).is = "ok"
  <2>1. PICK at \in (i + 1)..(Len(u) + 1) : LineEnding(u, i) = Found(at)
      BY <1>2, <1>3, LineEndingIs, VerdictsAre
  <2>2. Opt(u, i) = at
      BY <1>3, <2>1, VerdictsAre DEF Opt
  <2>3. u[at - 1] = "LF"
      BY <1>2, <2>1, LineEndingLast
  <2>4. at - 1 = Len(u)
      BY <1>1, <2>2
  <2> QED  BY <2>3, <2>4
<1>4. CASE LineEnding(u, i).is # "ok"
  <2>1. Opt(u, i) = i
      BY <1>4 DEF Opt
  <2> QED  BY <1>1, <2>1
<1> QED  BY <1>3, <1>4

\* The bytes of a frame that was sent, in a buffer: a part of them is not
\* enough, whichever part it is, and whatever follows them makes no
\* difference but for the line ending behind the NUL.
THEOREM FrameInStream ==
    ASSUME NEW f, Wellformed(f), Delimited(Escaped(f), f.body), NEW w \in Seq(Symbols), w # << >>
    PROVE  /\ Extends(w, Serialize(f)) /\ Len(w) < Len(Serialize(f)) => ParseFrame(w) = More
           /\ Extends(Serialize(f), w) =>
                /\ ParseFrame(w).is = "ok" /\ ParseFrame(w).frame = Parsed(f)
                /\ ParseFrame(w).at = Opt(w, Len(Serialize(f)) + 1)
<1> DEFINE b == Serialize(f)
<1>0. b \in Seq(Symbols) /\ b[1] = f.command
    BY SerializePlaces
<1>1. f.command \notin {"CR", "LF"} /\ Len(f.body) \in Nat
    BY LenProperties DEF Wellformed, NotAlpha
<1>2. Len(b) \in Nat \ {0} /\ b[Len(b)] = "NUL"
  <2>1. PICK at, start :
                /\ Lines(b, 1 + Len(f.eol), at, Escaped(f), f.eol)
                /\ start = at[Len(f.headers)] + Len(f.eol)
                /\ HoldsAt(b, start + Len(f.body), <<"NUL">>)
                /\ Len(b) = start + Len(f.body) + 1
      BY SerializePlaces
  <2>2. PICK q : q = start + Len(f.body)
      OBVIOUS
  <2>3. Len(<<"NUL">>) = 1 /\ <<"NUL">>[1] = "NUL"
      OBVIOUS
  <2>4. b[q + 1] = "NUL" /\ Len(b) = q + 1
      BY <2>1, <2>2, <2>3 DEF HoldsAt
  <2>5. b # << >>
    <3>1. Len(f.eol) \in Nat \ {0} /\ HoldsAt(b, 1, f.eol)
      <4>1. f.eol \in Eols
          BY DEF Wellformed
      <4>2. Len(f.eol) \in Nat \ {0}
          BY <4>1, EolIs
      <4> QED  BY <4>2, SerializePlaces
    <3>2. 1 + Len(f.eol) <= Len(b)
        BY <3>1 DEF HoldsAt
    <3>3. Len(<< >>) = 0
        OBVIOUS
    <3> HIDE DEF b
    <3> QED  BY <3>1, <3>2, <3>3
  <2> HIDE DEF b
  <2>6. Len(b) \in Nat \ {0}
      BY <1>0, <2>5, LenProperties, EmptySeq
  <2> QED  BY <2>4, <2>6
<1>3. ParseFrame(b) = [is |-> "ok", at |-> Len(b) + 1, frame |-> Parsed(f)]
    BY ParseSerialize
<1> HIDE DEF b
<1>4. ParseFrame(b).is = "ok" /\ ParseFrame(b).at = Len(b) + 1 /\ ParseFrame(b).frame = Parsed(f)
      /\ ParseFrame(b) # Bad /\ ParseFrame(b) # More
    BY <1>3, VerdictsAre
<1>5. Len(w) \in Nat \ {0}
    BY LenProperties, EmptySeq
<1>6. ASSUME Extends(w, b), Len(w) < Len(b) PROVE ParseFrame(w) = More
  <2>1. w[1] \notin {"CR", "LF"}
      BY <1>0, <1>1, <1>5, <1>6 DEF Extends
  <2>2. ASSUME NEW e \in 1..Len(w), ParseFrame(b).at = Opt(b, e + 1) PROVE FALSE
    <3>1. e \in 1..Len(b) /\ Opt(b, e + 1) = Len(b) + 1
        BY <1>2, <1>4, <1>5, <1>6, <2>2
    <3>2. e = Len(b)
        BY <1>2, <3>1, OptAtEnd
    <3> QED  BY <1>2, <1>5, <1>6, <3>2
  <2> QED  BY <1>0, <1>4, <1>6, <2>1, <2>2, ParserIsStable
<1>7. ASSUME Extends(b, w)
      PROVE  /\ ParseFrame(w).is = "ok" /\ ParseFrame(w).frame = Parsed(f)
             /\ ParseFrame(w).at = Opt(w, Len(b) + 1)
  <2>1. b # << >> /\ b[1] \notin {"CR", "LF"}
    <3>1. Len(<< >>) = 0
        OBVIOUS
    <3> QED  BY <1>0, <1>1, <1>2, <3>1
  <2>2. /\ ParseFrame(w).is = "ok" /\ ParseFrame(w).frame = ParseFrame(b).frame
        /\ \E e \in 1..Len(b) : /\ ParseFrame(b).at = Opt(b, e + 1)
                                /\ ParseFrame(w).at = Opt(w, e + 1)
      BY <1>0, <1>4, <1>7, <2>1, ParserIsStable
  <2>3. PICK e \in 1..Len(b) : ParseFrame(b).at = Opt(b, e + 1) /\ ParseFrame(w).at = Opt(w, e + 1)
      BY <2>2
  <2>4. e = Len(b)
      BY <1>2, <1>4, <2>3, OptAtEnd
  <2> QED  BY <1>4, <2>2, <2>3, <2>4
<1> QED  BY <1>6, <1>7 DEF b

\* A symbol that needs no escape is written as it is.
LEMMA EscapePlain ==
    ASSUME NEW b \in Symbols, b \notin {"CR", "LF", ":", "ESC"}
    PROVE  Escape(<<b>>) = <<b>>
<1> DEFINE v == <<b>>
           w == Escape(v)
<1>1. v \in Seq(Symbols) /\ Len(v) = 1 /\ v[1] = b /\ Len(v) # 0
    OBVIOUS
<1>2. EscapeOf(b) = v
    BY DEF EscapeOf
<1> HIDE DEF v
<1>3. w \in Seq(Safe(Symbols)) /\ \E at, seqs : /\ Len(seqs) = Len(v) /\ Places(at, w, seqs)
                                                /\ \A i \in 1..Len(v) : seqs[i] = EscapeOf(v[i])
  <2>1. v \in Seq(Symbols) /\ Len(v) # 0
      BY <1>1
  <2>2. PICK B : B = Symbols
      OBVIOUS
  <2>3. v \in Seq(B)
      BY <2>1, <2>2
  <2>4. Escape(v) \in Seq(Safe(B)) /\ \E at, seqs : /\ Len(seqs) = Len(v) /\ Places(at, Escape(v), seqs)
                                                /\ \A i \in 1..Len(v) : seqs[i] = EscapeOf(v[i])
      BY <2>1, <2>3, EscapePlaces
  <2> QED  BY <2>2, <2>4
<1>4. PICK at, seqs : /\ Len(seqs) = 1 /\ Places(at, w, seqs) /\ seqs[1] = v
    BY <1>1, <1>2, <1>3
<1> HIDE DEF w
<1>5. at[1] = Len(w) /\ at[0] = 0 /\ at[1] = at[0] + Len(v) /\ HoldsAt(w, at[0], v)
  <2>1. 1 \in 1..1 /\ 1 - 1 = 0
      OBVIOUS
  <2> QED  BY <1>4, <2>1 DEF Places
<1>6. Len(w) = 1 /\ HoldsAt(w, 0, v)
    BY <1>1, <1>5
<1>7. w[1] = b
  <2>1. 0 + 1 = 1 /\ 1 \in 1..Len(v)
      BY <1>1
  <2> QED  BY <1>1, <1>6, <2>1 DEF HoldsAt
<1>8. w = v
  <2>1. \A i \in 1..Len(w) : w[i] = v[i]
      BY <1>1, <1>6, <1>7
  <2>2. PICK T : w \in Seq(T) /\ v \in Seq(T)
    <3> DEFINE T == Symbols \cup Safe(Symbols)
    <3>1. w \in Seq(T) /\ v \in Seq(T)
        BY <1>1, <1>3
    <3> HIDE DEF T
    <3> QED  BY <3>1
  <2> QED  BY <1>1, <1>6, <2>1, <2>2, SeqEqual
<1> QED  BY <1>8 DEF v, w

LEMMA EscapedIsSymbols ==
    ASSUME NEW v \in Seq(Symbols)
    PROVE  Escape(v) \in Seq(Symbols)
<1>1. CASE Len(v) = 0
  <2>1. Escape(v) = << >>
      BY <1>1, EscapeEmpty
  <2> QED  BY <2>1
<1>2. CASE Len(v) # 0
  <2>1. Escape(v) \in Seq(Safe(Symbols))
      BY <1>2, EscapePlaces
  <2>2. Safe(Symbols) \subseteq Symbols
      BY DEF Safe, Symbols, Marks
  <2> QED  BY <2>1, <2>2
<1> QED  BY <1>1, <1>2

\* The frames a sender may make, before they are escaped: names that are not
\* empty and need no escape, and in CONNECT and CONNECTED, whose headers are
\* not escaped, values on one line.
Sendable(f) ==
    /\ f.command \in Symbols \ NotAlpha /\ f.headers \in Seq(Headers)
    /\ f.body \in Seq(Symbols) /\ f.eol \in Eols
    /\ \A i \in DOMAIN f.headers :
         /\ f.headers[i].key # << >> /\ Escape(f.headers[i].key) = f.headers[i].key
         /\ ~HeadersAreEscaped(f.command) =>
                \A j \in 1..Len(f.headers[i].value) : f.headers[i].value[j] \notin {"CR", "LF"}

LEMMA SendableIs ==
    ASSUME NEW f, Sendable(f)
    PROVE  /\ Wellformed(f)
           /\ \A i \in DOMAIN f.headers :
                /\ Escaped(f)[i].key = f.headers[i].key
                /\ Escaped(f)[i] = IF HeadersAreEscaped(f.command)
                                   THEN [key |-> f.headers[i].key, value |-> Escape(f.headers[i].value)]
                                   ELSE f.headers[i]
<1>0. f.headers \in Seq(Headers) /\ DOMAIN f.headers = 1..Len(f.headers)
    BY LenProperties DEF Sendable
<1>1. ASSUME NEW i \in DOMAIN f.headers
      PROVE  /\ Escaped(f)[i].key = f.headers[i].key
             /\ Escaped(f)[i] = IF HeadersAreEscaped(f.command)
                                THEN [key |-> f.headers[i].key, value |-> Escape(f.headers[i].value)]
                                ELSE f.headers[i]
             /\ Clean(Escaped(f)[i].key, Escaped(f)[i].value)
  <2>1. PICK key, value : key = f.headers[i].key /\ value = f.headers[i].value
      OBVIOUS
  <2>2. /\ key \in Seq(Symbols) /\ value \in Seq(Symbols) /\ key # << >> /\ Escape(key) = key
        /\ ~HeadersAreEscaped(f.command) => \A j \in 1..Len(value) : value[j] \notin {"CR", "LF"}
    <3>1. f.headers[i] \in Headers
        BY <1>0, ElementOfSeq
    <3> QED  BY <2>1, <3>1 DEF Sendable, Headers
  <2>3. Escaped(f)[i] = IF HeadersAreEscaped(f.command)
                        THEN [key |-> key, value |-> Escape(value)]
                        ELSE f.headers[i]
      BY <2>1, <2>2 DEF Escaped
  <2>4. \A j \in 1..Len(key) : key[j] \notin {":", "CR", "LF"}
    <3>1. \A j \in 1..Len(Escape(key)) : Escape(key)[j] \notin Separators
        BY <2>2, EscapedIsOneField
    <3> QED  BY <2>2, <3>1 DEF Separators
  <2>5. Escape(value) \in Seq(Symbols) /\ \A j \in 1..Len(Escape(value)) : Escape(value)[j] \notin {"CR", "LF"}
    <3>1. \A j \in 1..Len(Escape(value)) : Escape(value)[j] \notin Separators
        BY <2>2, EscapedIsOneField
    <3> QED  BY <2>2, <3>1, EscapedIsSymbols DEF Separators
  <2>6. CASE HeadersAreEscaped(f.command)
    <3>1. Escaped(f)[i].key = key /\ Escaped(f)[i].value = Escape(value)
        BY <2>3, <2>6
    <3> QED  BY <2>1, <2>2, <2>3, <2>4, <2>5, <3>1 DEF Clean
  <2>7. CASE ~HeadersAreEscaped(f.command)
    <3>1. Escaped(f)[i] = f.headers[i]
        BY <2>3, <2>7
    <3>2. Clean(key, value)
        BY <2>2, <2>4, <2>7 DEF Clean
    <3> QED  BY <2>1, <2>7, <3>1, <3>2
  <2> QED  BY <2>6, <2>7
<1> QED  BY <1>1 DEF Wellformed, Sendable

\* get_content_length finds in the escaped headers what it finds in them.
LEMMA ContentLengthKept ==
    ASSUME NEW f, Sendable(f)
    PROVE  ContentLength(Escaped(f)) = ContentLength(f.headers)
<1> DEFINE hs == Escaped(f)
           gs == f.headers
           I == {i \in 1..Len(gs) : gs[i].key = <<"content-length">>}
<1>1. gs \in Seq(Headers) /\ Len(gs) \in Nat /\ DOMAIN gs = 1..Len(gs) /\ Len(hs) = Len(gs)
    BY LenProperties, SendableIs, SerializePlaces DEF Sendable
<1>2. I = {i \in 1..Len(hs) : hs[i].key = <<"content-length">>}
    BY <1>1, SendableIs
<1>3. ContentLength(gs) = IF I = {} THEN {} ELSE {n \in 0..4 : gs[Min(I)].value = <<Numerals[n + 1]>>}
  <2>1. I # {} => Min(I) # 0
    <3>1. I \subseteq Nat /\ 0 \notin I
        OBVIOUS
    <3> HIDE DEF I
    <3> QED  BY <3>1, MinIs
  <2> QED  BY <2>1 DEF ContentLength, SelectInSeq
<1>4. ContentLength(hs) = IF I = {} THEN {} ELSE {n \in 0..4 : hs[Min(I)].value = <<Numerals[n + 1]>>}
  <2>1. I # {} => Min(I) # 0
    <3>1. I \subseteq Nat /\ 0 \notin I
        OBVIOUS
    <3> HIDE DEF I
    <3> QED  BY <3>1, MinIs
  <2> HIDE DEF hs
  <2>2. ContentLength(hs) = LET first == IF {i \in 1..Len(hs) : hs[i].key = <<"content-length">>} # {}
                                         THEN Min({i \in 1..Len(hs) : hs[i].key = <<"content-length">>})
                                         ELSE 0
                            IN  IF first = 0 THEN {}
                                ELSE {n \in 0..4 : hs[first].value = <<Numerals[n + 1]>>}
      BY DEF ContentLength, SelectInSeq
  <2> QED  BY <1>2, <2>1, <2>2
<1>5. ASSUME NEW i \in I, NEW n \in 0..4
      PROVE  hs[i].value = <<Numerals[n + 1]>> <=> gs[i].value = <<Numerals[n + 1]>>
  <2>1. PICK value, b : value = gs[i].value /\ b = Numerals[n + 1]
      OBVIOUS
  <2>2. b \in Symbols /\ b \notin {"CR", "LF", ":", "ESC"}
    <3>1. n \in {0, 1, 2, 3, 4}
        OBVIOUS
    <3>2. b \in {"0", "1", "2", "3", "4"}
        BY <2>1, <3>1 DEF Numerals
    <3> QED  BY <3>2 DEF Symbols, Marks
  <2>3. Escape(<<b>>) = <<b>>
      BY <2>2, EscapePlain
  <2>4. value \in Seq(Symbols)
    <3>1. gs[i] \in Headers
        BY <1>1, ElementOfSeq
    <3> QED  BY <2>1, <3>1 DEF Headers
  <2>5. hs[i].value = Escape(value) \/ hs[i].value = value
    <3>1. hs[i] = IF HeadersAreEscaped(f.command) THEN [key |-> gs[i].key, value |-> Escape(value)] ELSE gs[i]
        BY <1>1, <2>1, SendableIs
    <3> HIDE DEF hs, gs
    <3> QED  BY <2>1, <3>1
  <2>6. <<b>> \in Seq(Symbols)
      BY <2>2
  <2>7. Escape(value) = <<b>> <=> value = <<b>>
    <3>1. Unescape(Escape(value)) = value
        BY <2>4, EscapeRoundTrip
    <3>2. Unescape(Escape(<<b>>)) = <<b>>
        BY <2>6, EscapeRoundTrip
    <3> QED  BY <2>3, <3>1, <3>2
  <2> QED  BY <2>1, <2>5, <2>7
<1>6. CASE I = {}
    BY <1>3, <1>4, <1>6
<1>7. CASE I # {}
  <2>1. I \subseteq Nat
      OBVIOUS
  <2> HIDE DEF I, hs, gs
  <2>2. Min(I) \in I
      BY <1>7, <2>1, MinIs
  <2> QED  BY <1>3, <1>4, <1>5, <1>7, <2>2 DEF hs, gs
<1> QED  BY <1>6, <1>7 DEF hs, gs

-----------------------------------------------------------------------------
(* Headers by their names *)

\* pos[j] is the place in s of the j-th element selected from its first n.
Chooses(pos, s, D, t, n) ==
    /\ \A j \in 1..Len(t) : pos[j] \in D /\ pos[j] \in 1..n /\ t[j] = s[pos[j]]
    /\ \A j, k \in 1..Len(t) : j < k => pos[j] < pos[k]
    /\ \A i \in 1..n : i \in D => \E j \in 1..Len(t) : pos[j] = i

LEMMA ChoosesOne ==
    ASSUME NEW S, NEW s \in Seq(S), NEW D, NEW n \in Nat, n < Len(s), NEW t \in Seq(S),
           NEW pos, Chooses(pos, s, D, t, n), n + 1 \in D
    PROVE  \E q : Chooses(q, s, D, Append(t, s[n + 1]), n + 1)
<1> DEFINE L == Len(t)
           u == Append(t, s[n + 1])
           q == [j \in 1..(L + 1) |-> IF j = L + 1 THEN n + 1 ELSE pos[j]]
<1>1. /\ L \in Nat /\ s[n + 1] \in S
    BY LenProperties, ElementOfSeq
<1>2. /\ Len(u) = L + 1 /\ u[L + 1] = s[n + 1] /\ \A j \in 1..L : u[j] = t[j]
    BY <1>1, AppendProperties
<1>3. /\ \A j \in 1..L : pos[j] \in D /\ pos[j] \in 1..n /\ t[j] = s[pos[j]]
      /\ \A j, k \in 1..L : j < k => pos[j] < pos[k]
      /\ \A i \in 1..n : i \in D => \E j \in 1..L : pos[j] = i
    BY DEF Chooses
<1>4. q[L + 1] = n + 1 /\ \A j \in 1..L : q[j] = pos[j]
    BY <1>1
<1> HIDE DEF q, u, L
<1>5. ASSUME NEW j \in 1..(L + 1)
      PROVE  q[j] \in D /\ q[j] \in 1..(n + 1) /\ u[j] = s[q[j]]
  <2>1. CASE j = L + 1
      BY <1>2, <1>4, <2>1
  <2>2. CASE j # L + 1
    <3>1. j \in 1..L
        BY <1>1, <2>2
    <3>2. q[j] = pos[j] /\ pos[j] \in D /\ pos[j] \in 1..n /\ u[j] = s[pos[j]]
        BY <1>2, <1>3, <1>4, <3>1
    <3> QED  BY <3>2
  <2> QED  BY <2>1, <2>2
<1>6. ASSUME NEW j \in 1..(L + 1), NEW k \in 1..(L + 1), j < k
      PROVE  q[j] < q[k]
  <2>1. j \in 1..L
      BY <1>1, <1>6
  <2>2. CASE k = L + 1
    <3>1. q[j] = pos[j] /\ pos[j] \in 1..n /\ q[k] = n + 1
        BY <1>3, <1>4, <2>1, <2>2
    <3> QED  BY <3>1
  <2>3. CASE k # L + 1
    <3>1. k \in 1..L
        BY <1>1, <2>3
    <3> QED  BY <1>3, <1>4, <1>6, <2>1, <3>1
  <2> QED  BY <2>2, <2>3
<1>7. ASSUME NEW i \in 1..(n + 1), i \in D
      PROVE  \E j \in 1..(L + 1) : q[j] = i
  <2>1. CASE i = n + 1
    <3>1. L + 1 \in 1..(L + 1)
        BY <1>1
    <3> QED  BY <1>4, <2>1, <3>1
  <2>2. CASE i # n + 1
    <3>1. i \in 1..n
        BY <2>2
    <3>2. PICK j \in 1..L : pos[j] = i
        BY <1>3, <1>7, <3>1
    <3>3. j \in 1..(L + 1)
        BY <1>1
    <3> QED  BY <1>4, <3>2, <3>3
  <2> QED  BY <2>1, <2>2
<1>8. Chooses(q, s, D, u, n + 1)
    BY <1>2, <1>5, <1>6, <1>7 DEF Chooses
<1> QED  BY <1>8 DEF u

LEMMA ChoosesNone ==
    ASSUME NEW s, NEW D, NEW n \in Nat, NEW t,
           NEW pos, Chooses(pos, s, D, t, n), n + 1 \notin D
    PROVE  Chooses(pos, s, D, t, n + 1)
<1>1. \A i \in 1..(n + 1) : i \in 1..n \/ i = n + 1
    OBVIOUS
<1>2. \A i \in 1..n : i \in 1..(n + 1)
    OBVIOUS
<1> QED  BY <1>1, <1>2 DEF Chooses

\* What is selected from a sequence are its elements in their order.
LEMMA SelectedIs ==
    ASSUME NEW S, NEW s \in Seq(S), NEW D
    PROVE  /\ Selected(s, D) \in Seq(S)
           /\ \E pos : Chooses(pos, s, D, Selected(s, D), Len(s))
<1> DEFINE N == Len(s)
           I == {n \in 0..N : \A t \in Seq(S) :
                     (Len(t) = n /\ \A i \in 1..n : t[i] = s[i]) =>
                        /\ Selected(t, D) \in Seq(S)
                        /\ \E pos : Chooses(pos, s, D, Selected(t, D), n)}
<1>0. N \in Nat
    BY LenProperties
<1>1. 0 \in I
  <2> SUFFICES ASSUME NEW t \in Seq(S), Len(t) = 0
               PROVE  Selected(t, D) \in Seq(S) /\ \E pos : Chooses(pos, s, D, Selected(t, D), 0)
      BY <1>0
  <2>1. Selected(t, D) = << >>
      BY SelectedEmpty
  <2>2. << >> \in Seq(S)
      BY EmptySeq
  <2>3. \A pos : Chooses(pos, s, D, << >>, 0)
      BY DEF Chooses
  <2> QED  BY <2>1, <2>2, <2>3
<1>2. ASSUME NEW n \in 0..(N - 1), n \in I PROVE n + 1 \in I
  <2>0. n \in Nat /\ n < N /\ n + 1 \in 0..N /\ n + 1 \in 1..N
      BY <1>0
  <2> SUFFICES ASSUME NEW t \in Seq(S), Len(t) = n + 1, \A i \in 1..(n + 1) : t[i] = s[i]
               PROVE  /\ Selected(t, D) \in Seq(S)
                      /\ \E pos : Chooses(pos, s, D, Selected(t, D), n + 1)
      BY <2>0
  <2> DEFINE u == [i \in 1..n |-> s[i]]
  <2>1. \A i \in 1..n : s[i] \in S
      BY <1>0, <2>0, ElementOfSeq
  <2>2. u \in Seq(S) /\ Len(u) = n /\ \A i \in 1..n : u[i] = s[i]
    <3>1. u \in [1..n -> S]
        BY <2>1
    <3> QED  BY <2>0, <3>1
  <2> HIDE DEF u
  <2>3. Selected(u, D) \in Seq(S) /\ \E pos : Chooses(pos, s, D, Selected(u, D), n)
      BY <1>2, <2>2
  <2>4. \A i \in 1..n : t[i] = u[i]
      BY <2>0, <2>2
  <2>5. Selected(t, D) = IF n + 1 \in D THEN Append(Selected(u, D), s[n + 1]) ELSE Selected(u, D)
    <3>1. Len(u) \in Nat /\ Len(t) = Len(u) + 1 /\ \A i \in 1..Len(u) : t[i] = u[i]
        BY <2>0, <2>2, <2>4
    <3>2. Selected(t, D) = IF Len(t) \in D THEN Append(Selected(u, D), t[Len(t)]) ELSE Selected(u, D)
        BY <3>1, SelectedAppend
    <3>3. t[n + 1] = s[n + 1]
        BY <2>0
    <3> QED  BY <3>2, <3>3
  <2>6. PICK v, pos : v = Selected(u, D) /\ Chooses(pos, s, D, v, n) /\ v \in Seq(S)
      BY <2>3
  <2>7. CASE n + 1 \in D
    <3>1. Selected(t, D) = Append(v, s[n + 1]) /\ s[n + 1] \in S
        BY <2>0, <2>5, <2>6, <2>7, ElementOfSeq
    <3>2. \E q : Chooses(q, s, D, Append(v, s[n + 1]), n + 1)
        BY <2>0, <2>6, <2>7, ChoosesOne
    <3>3. Append(v, s[n + 1]) \in Seq(S)
        BY <2>6, <3>1, AppendProperties
    <3> QED  BY <3>1, <3>2, <3>3
  <2>8. CASE n + 1 \notin D
    <3>1. Selected(t, D) = v
        BY <2>5, <2>6, <2>8
    <3>2. Chooses(pos, s, D, v, n + 1)
        BY <2>0, <2>6, <2>8, ChoosesNone
    <3> QED  BY <2>6, <3>1, <3>2
  <2> QED  BY <2>7, <2>8
<1> HIDE DEF I
<1>3. \A n \in 0..N : n \in I
    BY <1>0, <1>1, <1>2, Induction
<1>4. N \in I
    BY <1>0, <1>3
<1> QED  BY <1>4 DEF I

\* The first header of a name.
IsFirst(headers, key, i) ==
    /\ i \in 1..Len(headers) /\ headers[i].key = key
    /\ \A j \in 1..Len(headers) : headers[j].key = key => i <= j

LEMMA FetchIs ==
    ASSUME NEW S, NEW headers \in Seq(S), NEW name
    PROVE  /\ HasKey(headers, <<name>>) <=> \E i : IsFirst(headers, <<name>>, i)
           /\ \A i : IsFirst(headers, <<name>>, i) => Fetch(headers, name) = {headers[i].value}
           /\ ~HasKey(headers, <<name>>) => Fetch(headers, name) = {}
<1> DEFINE I == {i \in 1..Len(headers) : headers[i].key = <<name>>}
<1>1. Len(headers) \in Nat /\ DOMAIN headers = 1..Len(headers)
    BY LenProperties
<1>2. HasKey(headers, <<name>>) <=> I # {}
    BY <1>1 DEF HasKey
<1>3. I # {} => Fetch(headers, name) = {headers[Min(I)].value}
    BY <1>2 DEF Fetch, SelectInSeq
<1>4. I = {} => Fetch(headers, name) = {}
    BY <1>2 DEF Fetch
<1>5. I \subseteq Nat
    BY <1>1
<1>6. \A i \in I : i \in 1..Len(headers) /\ headers[i].key = <<name>>
    OBVIOUS
<1>7. \A i \in 1..Len(headers) : headers[i].key = <<name>> => i \in I
    OBVIOUS
<1> HIDE DEF I
<1>8. I # {} => Min(I) \in I /\ \A j \in I : Min(I) <= j
    BY <1>5, MinIs
<1>9. I # {} => IsFirst(headers, <<name>>, Min(I))
    BY <1>6, <1>7, <1>8 DEF IsFirst
<1>10. ASSUME NEW i, IsFirst(headers, <<name>>, i) PROVE I # {} /\ i = Min(I)
  <2>1. i \in I /\ \A j \in I : i <= j
      BY <1>6, <1>7, <1>10 DEF IsFirst
  <2>2. Min(I) \in I /\ Min(I) <= i /\ i <= Min(I)
      BY <1>8, <2>1
  <2>3. Min(I) \in Nat /\ i \in Nat
      BY <1>5, <2>1, <2>2
  <2> QED  BY <2>1, <2>2, <2>3
<1> QED  BY <1>2, <1>3, <1>4, <1>9, <1>10

\* Of two lists, one behind the other, the first that has the name.
LEMMA FetchConcat ==
    ASSUME NEW S, NEW x \in Seq(S), NEW y \in Seq(S), NEW name
    PROVE  /\ \A key : HasKey(x \o y, key) <=> HasKey(x, key) \/ HasKey(y, key)
           /\ Fetch(x \o y, name) = IF HasKey(x, <<name>>) THEN Fetch(x, name) ELSE Fetch(y, name)
<1>1. /\ x \o y \in Seq(S) /\ Len(x) \in Nat /\ Len(y) \in Nat /\ Len(x \o y) = Len(x) + Len(y)
      /\ DOMAIN x = 1..Len(x) /\ DOMAIN y = 1..Len(y) /\ DOMAIN (x \o y) = 1..Len(x \o y)
      /\ \A i \in 1..(Len(x) + Len(y)) : (x \o y)[i] = IF i <= Len(x) THEN x[i] ELSE y[i - Len(x)]
    BY ConcatProperties, LenProperties
<1>2. PICK z : z = x \o y
    OBVIOUS
<1>3. ASSUME NEW i \in 1..Len(x) PROVE i \in 1..Len(z) /\ z[i] = x[i]
  <2>1. i \in 1..(Len(x) + Len(y)) /\ i <= Len(x)
      BY <1>1
  <2> QED  BY <1>1, <1>2, <2>1
<1>4. ASSUME NEW i \in 1..Len(y) PROVE Len(x) + i \in 1..Len(z) /\ z[Len(x) + i] = y[i]
  <2>1. PICK k : k = Len(x) + i
      OBVIOUS
  <2>2. k \in 1..(Len(x) + Len(y)) /\ ~(k <= Len(x)) /\ k - Len(x) = i
      BY <1>1, <2>1
  <2> QED  BY <1>1, <1>2, <2>1, <2>2
<1>5. ASSUME NEW i \in 1..Len(z)
      PROVE  i \in 1..Len(x) \/ \E j \in 1..Len(y) : i = Len(x) + j
  <2>1. CASE i <= Len(x)
      BY <1>1, <2>1
  <2>2. CASE ~(i <= Len(x))
    <3>1. i - Len(x) \in 1..Len(y) /\ i = Len(x) + (i - Len(x))
        BY <1>1, <1>2, <2>2
    <3> QED  BY <3>1
  <2> QED  BY <2>1, <2>2
<1>6. ASSUME NEW key PROVE HasKey(z, key) <=> HasKey(x, key) \/ HasKey(y, key)
  <2>1. HasKey(x, key) => HasKey(z, key)
      BY <1>1, <1>2, <1>3 DEF HasKey
  <2>2. HasKey(y, key) => HasKey(z, key)
      BY <1>1, <1>2, <1>4 DEF HasKey
  <2>3. ASSUME HasKey(z, key) PROVE HasKey(x, key) \/ HasKey(y, key)
    <3>1. PICK i \in 1..Len(z) : z[i].key = key
      <4>1. DOMAIN z = 1..Len(z)
          BY <1>1, <1>2
      <4> QED  BY <2>3, <4>1 DEF HasKey
    <3>2. CASE i \in 1..Len(x)
        BY <1>1, <1>2, <1>3, <3>1, <3>2 DEF HasKey
    <3>3. ASSUME NEW j \in 1..Len(y), i = Len(x) + j PROVE HasKey(y, key)
        BY <1>1, <1>2, <1>4, <3>1, <3>3 DEF HasKey
    <3> QED  BY <1>5, <3>1, <3>2, <3>3
  <2> QED  BY <2>1, <2>2, <2>3
<1>7. CASE HasKey(x, <<name>>)
  <2>1. PICK i : IsFirst(x, <<name>>, i)
      BY <1>7, FetchIs
  <2>2. i \in 1..Len(x) /\ x[i].key = <<name>> /\ \A j \in 1..Len(x) : x[j].key = <<name>> => i <= j
      BY <2>1 DEF IsFirst
  <2>3. ASSUME NEW j \in 1..Len(z), z[j].key = <<name>> PROVE i <= j
    <3>1. CASE j \in 1..Len(x)
        BY <1>3, <2>2, <2>3, <3>1
    <3>2. CASE j \notin 1..Len(x)
      <4>1. i \in Nat /\ j \in Nat /\ Len(x) < j /\ i <= Len(x)
          BY <1>1, <1>2, <2>2, <3>2
      <4> QED  BY <1>1, <4>1
    <3> QED  BY <3>1, <3>2
  <2>4. IsFirst(z, <<name>>, i) /\ z[i] = x[i]
      BY <1>3, <2>2, <2>3 DEF IsFirst
  <2> QED  BY <1>1, <1>2, <1>6, <1>7, <2>1, <2>4, FetchIs
<1>8. CASE ~HasKey(x, <<name>>) /\ HasKey(y, <<name>>)
  <2>1. PICK i : IsFirst(y, <<name>>, i)
      BY <1>8, FetchIs
  <2>2. i \in 1..Len(y) /\ y[i].key = <<name>> /\ \A j \in 1..Len(y) : y[j].key = <<name>> => i <= j
      BY <2>1 DEF IsFirst
  <2>3. ASSUME NEW j \in 1..Len(z), z[j].key = <<name>> PROVE Len(x) + i <= j
    <3>1. j \notin 1..Len(x)
        BY <1>1, <1>3, <1>8, <2>3 DEF HasKey
    <3>2. PICK k \in 1..Len(y) : j = Len(x) + k
        BY <1>5, <3>1
    <3>3. y[k].key = <<name>>
        BY <1>4, <2>3, <3>2
    <3>4. i <= k
        BY <2>2, <3>3
    <3> QED  BY <1>1, <2>2, <3>2, <3>4
  <2>4. PICK p : p = Len(x) + i
      OBVIOUS
  <2>5. IsFirst(z, <<name>>, p) /\ z[p] = y[i]
    <3>1. p \in 1..Len(z) /\ z[p] = y[i]
        BY <1>4, <2>2, <2>4
    <3>2. \A j \in 1..Len(z) : z[j].key = <<name>> => p <= j
        BY <2>3, <2>4
    <3> QED  BY <2>2, <3>1, <3>2 DEF IsFirst
  <2>6. Fetch(z, name) = {z[p].value}
      BY <1>1, <1>2, <2>5, FetchIs
  <2>7. Fetch(y, name) = {y[i].value}
      BY <2>1, FetchIs
  <2> QED  BY <1>2, <1>6, <1>8, <2>5, <2>6, <2>7
<1>9. CASE ~HasKey(x, <<name>>) /\ ~HasKey(y, <<name>>)
  <2>1. ~HasKey(z, <<name>>)
      BY <1>6, <1>9
  <2> QED  BY <1>1, <1>2, <1>6, <1>9, <2>1, FetchIs
<1> QED  BY <1>2, <1>6, <1>7, <1>8, <1>9

\* The names in a selection.
LEMMA SelectedKeys ==
    ASSUME NEW S, NEW headers \in Seq(S), NEW D, NEW key
    PROVE  HasKey(Selected(headers, D), key) <=>
               \E i \in 1..Len(headers) : i \in D /\ headers[i].key = key
<1>1. PICK t, pos : t = Selected(headers, D) /\ t \in Seq(S) /\ Chooses(pos, headers, D, t, Len(headers))
    BY SelectedIs
<1>2. /\ Len(t) \in Nat /\ DOMAIN t = 1..Len(t) /\ Len(headers) \in Nat
      /\ \A j \in 1..Len(t) : pos[j] \in D /\ pos[j] \in 1..Len(headers) /\ t[j] = headers[pos[j]]
      /\ \A j, k \in 1..Len(t) : j < k => pos[j] < pos[k]
      /\ \A i \in 1..Len(headers) : i \in D => \E j \in 1..Len(t) : pos[j] = i
    BY <1>1, LenProperties DEF Chooses
<1>3. ASSUME HasKey(t, key) PROVE \E i \in 1..Len(headers) : i \in D /\ headers[i].key = key
  <2>1. PICK j \in 1..Len(t) : t[j].key = key
        BY <1>2, <1>3 DEF HasKey
  <2>2. pos[j] \in D /\ pos[j] \in 1..Len(headers) /\ headers[pos[j]].key = key
        BY <1>2, <2>1
  <2> QED  BY <2>2
<1>4. ASSUME NEW i \in 1..Len(headers), i \in D, headers[i].key = key PROVE HasKey(t, key)
  <2>1. PICK j \in 1..Len(t) : pos[j] = i
        BY <1>2, <1>4
  <2>2. t[j].key = key
        BY <1>2, <1>4, <2>1
  <2> QED  BY <1>2, <2>1, <2>2 DEF HasKey
<1> QED  BY <1>1, <1>3, <1>4

\* A selection that takes all the headers of a name, or none of them.
LEMMA FetchSelected ==
    ASSUME NEW S, NEW headers \in Seq(S), NEW D, NEW name
    PROVE  /\ (\A i \in 1..Len(headers) : headers[i].key = <<name>> => i \in D) =>
                 Fetch(Selected(headers, D), name) = Fetch(headers, name)
           /\ (\A i \in 1..Len(headers) : headers[i].key = <<name>> => i \notin D) =>
                 Fetch(Selected(headers, D), name) = {}
<1>1. PICK t, pos : t = Selected(headers, D) /\ t \in Seq(S) /\ Chooses(pos, headers, D, t, Len(headers))
    BY SelectedIs
<1>2. /\ Len(t) \in Nat /\ DOMAIN t = 1..Len(t) /\ Len(headers) \in Nat
      /\ \A j \in 1..Len(t) : pos[j] \in D /\ pos[j] \in 1..Len(headers) /\ t[j] = headers[pos[j]]
      /\ \A j, k \in 1..Len(t) : j < k => pos[j] < pos[k]
      /\ \A i \in 1..Len(headers) : i \in D => \E j \in 1..Len(t) : pos[j] = i
    BY <1>1, LenProperties DEF Chooses
<1>3. HasKey(t, <<name>>) <=> \E i \in 1..Len(headers) : i \in D /\ headers[i].key = <<name>>
    BY <1>1, SelectedKeys
<1>4. ASSUME \A i \in 1..Len(headers) : headers[i].key = <<name>> => i \in D
      PROVE  Fetch(t, name) = Fetch(headers, name)
  <2>1. CASE HasKey(t, <<name>>)
    <3>1. PICK j : IsFirst(t, <<name>>, j)
        BY <1>1, <2>1, FetchIs
    <3>2. j \in 1..Len(t) /\ t[j].key = <<name>> /\ \A k \in 1..Len(t) : t[k].key = <<name>> => j <= k
        BY <3>1 DEF IsFirst
    <3>3. ASSUME NEW i \in 1..Len(headers), headers[i].key = <<name>> PROVE pos[j] <= i
      <4>1. PICK k \in 1..Len(t) : pos[k] = i
          BY <1>2, <1>4, <3>3
      <4>2. t[k].key = <<name>>
          BY <1>2, <3>3, <4>1
      <4>3. j <= k
          BY <3>2, <4>2
      <4>4. j \in Nat /\ k \in Nat /\ pos[j] \in Nat /\ pos[k] \in Nat
          BY <1>2, <3>2
      <4>5. CASE j = k
          BY <4>1, <4>4, <4>5
      <4>6. CASE j < k
        <5>1. pos[j] < pos[k]
            BY <1>2, <3>2, <4>6
        <5> QED  BY <4>1, <4>4, <5>1
      <4> QED  BY <4>3, <4>4, <4>5, <4>6
    <3>4. IsFirst(headers, <<name>>, pos[j]) /\ headers[pos[j]] = t[j]
        BY <1>2, <3>2, <3>3 DEF IsFirst
    <3>5. Fetch(t, name) = {t[j].value}
        BY <1>1, <3>1, FetchIs
    <3>6. Fetch(headers, name) = {headers[pos[j]].value}
        BY <3>4, FetchIs
    <3> QED  BY <3>4, <3>5, <3>6
  <2>2. CASE ~HasKey(t, <<name>>)
    <3>1. ~HasKey(headers, <<name>>)
      <4>1. DOMAIN headers = 1..Len(headers)
          BY LenProperties
      <4> QED  BY <1>3, <1>4, <2>2, <4>1 DEF HasKey
    <3>2. Fetch(t, name) = {}
        BY <1>1, <2>2, FetchIs
    <3>3. Fetch(headers, name) = {}
        BY <3>1, FetchIs
    <3> QED  BY <3>2, <3>3
  <2> QED  BY <2>1, <2>2
<1>5. ASSUME \A i \in 1..Len(headers) : headers[i].key = <<name>> => i \notin D
      PROVE  Fetch(t, name) = {}
  <2>1. ~HasKey(t, <<name>>)
      BY <1>3, <1>5
  <2> QED  BY <1>1, <2>1, FetchIs
<1> QED  BY <1>1, <1>4, <1>5

\* The headers with names that are not expected, by their names.
LEMMA OthersIs ==
    ASSUME NEW S, NEW headers \in Seq(S), NEW names
    PROVE  /\ Others(headers, names) \in Seq(S)
           /\ \A key : HasKey(Others(headers, names), key) <=>
                         HasKey(headers, key) /\ \A k \in names : key # <<k>>
           /\ \A k : k \notin names => Fetch(Others(headers, names), k) = Fetch(headers, k)
<1> DEFINE D == {i \in DOMAIN headers : \A k \in names : headers[i].key # <<k>>}
<1>1. DOMAIN headers = 1..Len(headers)
    BY LenProperties
<1>2. Others(headers, names) = Selected(headers, D)
    BY DEF Others
<1>3. \A i \in 1..Len(headers) : i \in D <=> \A k \in names : headers[i].key # <<k>>
    BY <1>1
<1> HIDE DEF D
<1>4. Selected(headers, D) \in Seq(S)
    BY SelectedIs
<1>5. ASSUME NEW key
      PROVE  HasKey(Selected(headers, D), key) <=>
                 HasKey(headers, key) /\ \A k \in names : key # <<k>>
  <2>1. HasKey(Selected(headers, D), key) <=> \E i \in 1..Len(headers) : i \in D /\ headers[i].key = key
      BY SelectedKeys
  <2> QED  BY <1>1, <1>3, <2>1 DEF HasKey
<1>6. ASSUME NEW k, k \notin names PROVE Fetch(Selected(headers, D), k) = Fetch(headers, k)
  <2>1. \A j \in names : <<j>> # <<k>>
      BY <1>6
  <2>2. \A i \in 1..Len(headers) : headers[i].key = <<k>> => i \in D
      BY <1>3, <2>1
  <2> QED  BY <2>2, FetchSelected
<1> QED  BY <1>2, <1>4, <1>5, <1>6

\* get_content_length takes the first header of its name.
LEMMA ContentLengthFetched ==
    ASSUME NEW S, NEW headers \in Seq(S)
    PROVE  ContentLength(headers) =
               {n \in 0..4 : Fetch(headers, "content-length") = {<<Numerals[n + 1]>>}}
<1> DEFINE first == SelectInSeq(headers, LAMBDA h : h.key = <<"content-length">>)
           I == {i \in 1..Len(headers) : headers[i].key = <<"content-length">>}
<1>1. Len(headers) \in Nat /\ DOMAIN headers = 1..Len(headers)
    BY LenProperties
<1>2. first = IF I # {} THEN Min(I) ELSE 0
    BY DEF SelectInSeq
<1>3. HasKey(headers, <<"content-length">>) <=> I # {}
    BY <1>1 DEF HasKey
<1>4. I # {} => Min(I) # 0
  <2>1. I \subseteq Nat /\ 0 \notin I
      OBVIOUS
  <2> HIDE DEF I
  <2> QED  BY <2>1, MinIs
<1>5. ContentLength(headers) = IF first = 0 THEN {}
                               ELSE {n \in 0..4 : headers[first].value = <<Numerals[n + 1]>>}
    BY DEF ContentLength
<1>6. Fetch(headers, "content-length") =
          IF HasKey(headers, <<"content-length">>) THEN {headers[first].value} ELSE {}
    BY DEF Fetch
<1> HIDE DEF first, I
<1>7. CASE I # {}
    BY <1>2, <1>3, <1>4, <1>5, <1>6, <1>7
<1>8. CASE I = {}
    BY <1>2, <1>3, <1>5, <1>6, <1>8
<1> QED  BY <1>7, <1>8

\* Of the escaped headers the names are the same, and the values escaped.
LEMMA FetchEscaped ==
    ASSUME NEW f, Sendable(f), NEW name
    PROVE  /\ \A key : HasKey(Escaped(f), key) <=> HasKey(f.headers, key)
           /\ Fetch(Escaped(f), name) =
                {IF HeadersAreEscaped(f.command) THEN Escape(t) ELSE t : t \in Fetch(f.headers, name)}
<1> DEFINE hs == Escaped(f)
           gs == f.headers
<1>1. /\ gs \in Seq(Headers) /\ Len(gs) \in Nat /\ DOMAIN gs = 1..Len(gs)
      /\ hs \in Seq(Headers) /\ Len(hs) = Len(gs) /\ DOMAIN hs = 1..Len(gs)
    BY LenProperties, SendableIs, SerializePlaces DEF Sendable
<1>2. \A i \in 1..Len(gs) :
          /\ hs[i].key = gs[i].key
          /\ hs[i] = IF HeadersAreEscaped(f.command)
                     THEN [key |-> gs[i].key, value |-> Escape(gs[i].value)] ELSE gs[i]
    BY <1>1, SendableIs
<1> HIDE DEF hs, gs
<1>3. \A key : HasKey(hs, key) <=> HasKey(gs, key)
    BY <1>1, <1>2 DEF HasKey
<1>4. CASE HasKey(gs, <<name>>)
  <2>1. PICK i : IsFirst(gs, <<name>>, i)
      BY <1>1, <1>4, FetchIs
  <2>2. IsFirst(hs, <<name>>, i) /\ i \in 1..Len(gs)
      BY <1>1, <1>2, <2>1 DEF IsFirst
  <2>3. Fetch(gs, name) = {gs[i].value}
      BY <1>1, <2>1, FetchIs
  <2>4. Fetch(hs, name) = {hs[i].value}
      BY <1>1, <2>2, FetchIs
  <2>5. hs[i].value = IF HeadersAreEscaped(f.command) THEN Escape(gs[i].value) ELSE gs[i].value
    <3>1. hs[i] = IF HeadersAreEscaped(f.command)
                  THEN [key |-> gs[i].key, value |-> Escape(gs[i].value)] ELSE gs[i]
        BY <1>2, <2>2
    <3>2. CASE HeadersAreEscaped(f.command)
      <4>1. hs[i] = [key |-> gs[i].key, value |-> Escape(gs[i].value)]
          BY <3>1, <3>2
      <4> QED  BY <3>2, <4>1
    <3> QED  BY <3>1, <3>2
  <2>6. PICK t, u : t = gs[i].value /\ u = hs[i].value
      OBVIOUS
  <2>7. Fetch(hs, name) = {IF HeadersAreEscaped(f.command) THEN Escape(x) ELSE x : x \in {t}}
      BY <2>4, <2>5, <2>6
  <2> QED  BY <1>3, <2>3, <2>6, <2>7 DEF hs, gs
<1>5. CASE ~HasKey(gs, <<name>>)
  <2>1. Fetch(gs, name) = {} /\ Fetch(hs, name) = {}
      BY <1>1, <1>3, <1>5, FetchIs
  <2> QED  BY <1>3, <2>1 DEF hs, gs
<1> QED  BY <1>4, <1>5

\* What comes back of a frame, with the values as they were before they were
\* escaped.
LEMMA ParsedIs ==
    ASSUME NEW f, Sendable(f)
    PROVE  /\ Parsed(f).command = f.command /\ Parsed(f).headers = Escaped(f)
           /\ Parsed(f).body = IF f.body = << >> /\ ContentLength(f.headers) = {} THEN {} ELSE {f.body}
           /\ Unescaped(Parsed(f)) = f.headers
<1> DEFINE hs == Escaped(f)
           gs == f.headers
<1>1. /\ gs \in Seq(Headers) /\ Len(gs) \in Nat /\ DOMAIN gs = 1..Len(gs)
      /\ hs \in Seq(Headers) /\ Len(hs) = Len(gs) /\ DOMAIN hs = 1..Len(gs)
    BY LenProperties, SendableIs, SerializePlaces DEF Sendable
<1>2. ASSUME NEW i \in 1..Len(gs)
      PROVE  (IF HeadersAreEscaped(f.command) THEN [hs[i] EXCEPT !.value = Unescape(@)] ELSE hs[i]) = gs[i]
  <2>1. PICK key, value : key = gs[i].key /\ value = gs[i].value
      OBVIOUS
  <2>2. gs[i] = [key |-> key, value |-> value] /\ value \in Seq(Symbols)
    <3>1. gs[i] \in Headers
        BY <1>1, ElementOfSeq
    <3> QED  BY <2>1, <3>1 DEF Headers
  <2>3. hs[i] = IF HeadersAreEscaped(f.command) THEN [key |-> key, value |-> Escape(value)] ELSE gs[i]
      BY <1>1, <2>1, SendableIs
  <2>4. Unescape(Escape(value)) = value
      BY <2>2, EscapeRoundTrip
  <2> HIDE DEF hs, gs
  <2>5. CASE HeadersAreEscaped(f.command)
    <3>1. [hs[i] EXCEPT !.value = Unescape(@)] = [key |-> key, value |-> Unescape(Escape(value))]
        BY <2>3, <2>5
    <3> QED  BY <2>2, <2>4, <2>5, <3>1
  <2>6. CASE ~HeadersAreEscaped(f.command)
      BY <2>3, <2>6
  <2> QED  BY <2>5, <2>6
<1>3. Unescaped(Parsed(f)) = gs
  <2>1. Parsed(f).command = f.command /\ Parsed(f).headers = hs
      BY DEF Parsed
  <2>2. Unescaped(Parsed(f)) = [i \in 1..Len(gs) |-> IF HeadersAreEscaped(f.command)
                                   THEN [hs[i] EXCEPT !.value = Unescape(@)] ELSE hs[i]]
    <3> HIDE DEF hs
    <3> QED  BY <1>1, <2>1 DEF Unescaped
  <2>3. gs = [i \in 1..Len(gs) |-> gs[i]]
      BY <1>1
  <2> HIDE DEF hs, gs
  <2> QED  BY <1>2, <2>2, <2>3
<1>4. /\ Parsed(f).command = f.command /\ Parsed(f).headers = Escaped(f)
      /\ Parsed(f).body = IF f.body = << >> /\ ContentLength(f.headers) = {} THEN {} ELSE {f.body}
    BY ContentLengthKept DEF Parsed
<1> QED  BY <1>3, <1>4

\* What to_server_msg makes of a frame that was parsed is the message that
\* was meant: the values as they were before they were escaped.
THEOREM ReadBack ==
    ASSUME NEW f, Sendable(f)
    PROVE  /\ IsMessage(f.command, Escaped(f)) <=> IsMessage(f.command, f.headers)
           /\ ToServerMsg(Parsed(f)) =
                MessageOf(f.command, f.headers, Escaped(f),
                          IF f.body = << >> /\ ContentLength(f.headers) = {} THEN {} ELSE {f.body})
<1>1. \A key : HasKey(Escaped(f), key) <=> HasKey(f.headers, key)
    BY FetchEscaped
<1>2. IsMessage(f.command, Escaped(f)) <=> IsMessage(f.command, f.headers)
    BY <1>1 DEF IsMessage
<1>3. ToServerMsg(Parsed(f)) = MessageOf(f.command, f.headers, Escaped(f), Parsed(f).body)
    BY ParsedIs DEF ToServerMsg
<1> QED  BY <1>2, <1>3, ParsedIs
=============================================================================
