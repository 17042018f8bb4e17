--------------------------- MODULE SequenceFacts ----------------------------
(***************************************************************************)
(* What the operators on sequences return, position by position, and what  *)
(* FlattenSeq does to a longer sequence of sequences.  FlattenSeq is a     *)
(* recursive function, so these facts need induction; the library's        *)
(* theorems on induction take an operator as a parameter, so the one used  *)
(* here is stated of a set of numbers and comes from the well-foundedness  *)
(* of < alone.                                                             *)
(***************************************************************************)
EXTENDS Selection, WellFoundedInduction, TLAPS

LEMMA AppendAt ==
  ASSUME NEW S, NEW s \in Seq(S), NEW e \in S
  PROVE  /\ Append(s, e) \in Seq(S)
         /\ Len(s) \in Nat
         /\ Len(Append(s, e)) = Len(s) + 1
         /\ \A i \in 1 .. Len(s) : Append(s, e)[i] = s[i]
         /\ Append(s, e)[Len(s) + 1] = e
  OBVIOUS

LEMMA TailAt ==
  ASSUME NEW S, NEW s \in Seq(S), s # << >>
  PROVE  /\ Tail(s) \in Seq(S)
         /\ Len(s) \in Nat \ {0}
         /\ Len(Tail(s)) = Len(s) - 1
         /\ \A i \in 1 .. Len(s) - 1 : Tail(s)[i] = s[i + 1]
         /\ Head(s) = s[1]
  OBVIOUS

LEMMA DropAt ==
  ASSUME NEW S, NEW s \in Seq(S), NEW k \in 0 .. Len(s)
  PROVE  /\ SubSeq(s, k + 1, Len(s)) \in Seq(S)
         /\ Len(s) \in Nat
         /\ Len(SubSeq(s, k + 1, Len(s))) = Len(s) - k
         /\ \A i \in 1 .. Len(s) - k : SubSeq(s, k + 1, Len(s))[i] = s[i + k]
  OBVIOUS

LEMMA SliceAt ==
  ASSUME NEW S, NEW s \in Seq(S), NEW a \in Nat, NEW b \in Nat, a <= b, b <= Len(s)
  PROVE  /\ SubSeq(s, a + 1, b) \in Seq(S)
         /\ Len(SubSeq(s, a + 1, b)) = b - a
         /\ \A i \in 1 .. b - a : SubSeq(s, a + 1, b)[i] = s[i + a]
  OBVIOUS

LEMMA JoinAt ==
  ASSUME NEW S, NEW s \in Seq(S), NEW t \in Seq(S)
  PROVE  /\ s \o t \in Seq(S)
         /\ Len(s) \in Nat
         /\ Len(t) \in Nat
         /\ Len(s \o t) = Len(s) + Len(t)
         /\ \A i \in 1 .. Len(s) : (s \o t)[i] = s[i]
         /\ \A i \in 1 .. Len(t) : (s \o t)[Len(s) + i] = t[i]
  OBVIOUS

LEMMA SameItems ==
  ASSUME NEW S, NEW s \in Seq(S), NEW t \in Seq(S),
         Len(s) = Len(t), \A i \in 1 .. Len(s) : s[i] = t[i]
  PROVE  s = t
  OBVIOUS

LEMMA NoItems ==
  ASSUME NEW S, NEW s \in Seq(S), Len(s) = 0
  PROVE  s = << >>
  OBVIOUS

LEMMA JoinAssociates ==
  ASSUME NEW S, NEW s \in Seq(S), NEW t \in Seq(S), NEW u \in Seq(S)
  PROVE  (s \o t) \o u = s \o (t \o u)
  OBVIOUS

LEMMA JoinEmpty ==
  ASSUME NEW S, NEW s \in Seq(S)
  PROVE  s \o << >> = s /\ << >> \o s = s
  OBVIOUS

LEMMA JoinAppend ==
  ASSUME NEW S, NEW s \in Seq(S), NEW t \in Seq(S), NEW e \in S
  PROVE  s \o Append(t, e) = Append(s \o t, e)
  OBVIOUS

\* What was taken off the head and put back.
LEMMA HeadBack ==
  ASSUME NEW S, NEW s \in Seq(S), s # << >>
  PROVE  s = << Head(s) >> \o Tail(s)
  OBVIOUS

\* Two neighbouring slices are one.
LEMMA SlicesJoin ==
  ASSUME NEW S, NEW s \in Seq(S), NEW a \in Nat, NEW b \in Nat, NEW c \in Nat,
         a <= b, b <= c, c <= Len(s)
  PROVE  SubSeq(s, a + 1, b) \o SubSeq(s, b + 1, c) = SubSeq(s, a + 1, c)
<1> DEFINE t == SubSeq(s, a + 1, b)
           u == SubSeq(s, b + 1, c)
           v == SubSeq(s, a + 1, c)
<1>1. /\ t \in Seq(S) /\ Len(t) = b - a
      /\ \A i \in 1 .. b - a : t[i] = s[i + a]
  BY SliceAt
<1>2. /\ u \in Seq(S) /\ Len(u) = c - b
      /\ \A i \in 1 .. c - b : u[i] = s[i + b]
  BY SliceAt
<1>3. /\ v \in Seq(S) /\ Len(v) = c - a
      /\ \A i \in 1 .. c - a : v[i] = s[i + a]
  BY SliceAt
<1> HIDE DEF t, u, v
<1>4. t \o u \in Seq(S) /\ Len(t \o u) = c - a
  <2>1. t \o u \in Seq(S) /\ Len(t \o u) = Len(t) + Len(u)
    BY ONLY <1>1, <1>2, JoinAt
  <2> QED
    BY <1>1, <1>2, <2>1
<1>5. \A i \in 1 .. c - a : (t \o u)[i] = v[i]
  <2>1. /\ \A i \in 1 .. b - a : (t \o u)[i] = t[i]
        /\ \A i \in 1 .. c - b : (t \o u)[(b - a) + i] = u[i]
    BY ONLY <1>1, <1>2, JoinAt
  <2> SUFFICES ASSUME NEW i \in 1 .. c - a PROVE (t \o u)[i] = v[i]
    OBVIOUS
  <2>2. CASE i <= b - a
    <3>1. i \in 1 .. b - a
      BY <2>2
    <3>2. (t \o u)[i] = t[i] /\ t[i] = s[i + a]
      BY <1>1, <2>1, <3>1
    <3>3. v[i] = s[i + a]
      BY <1>3
    <3> QED
      BY <3>2, <3>3
  <2>3. CASE ~(i <= b - a)
    <3>1. PICK j \in 1 .. c - b : i = (b - a) + j
      <4>1. i - (b - a) \in 1 .. c - b /\ i = (b - a) + (i - (b - a))
        BY <2>3
      <4> QED
        BY <4>1
    <3>2. j + b = i + a
      BY <3>1
    <3> QED
      BY <1>2, <1>3, <2>1, <3>1, <3>2
  <2> QED
    BY ONLY <2>2, <2>3
<1>6. t \o u = v
  BY <1>3, <1>4, <1>5, SameItems
<1> QED
  BY <1>6 DEF t, u, v

LEMMA TakeTake ==
  ASSUME NEW S, NEW s \in Seq(S), NEW b \in Nat, NEW c \in Nat, b <= c, c <= Len(s)
  PROVE  SubSeq(s, 1, b) \o SubSeq(s, b + 1, c) = SubSeq(s, 1, c)
<1>1. PICK a \in Nat : a = 0
  OBVIOUS
<1>2. Len(s) \in Nat /\ a <= b /\ a + 1 = 1
  BY <1>1
<1>3. SubSeq(s, a + 1, b) \o SubSeq(s, b + 1, c) = SubSeq(s, a + 1, c)
  BY <1>2, SlicesJoin
<1> QED
  BY ONLY <1>2, <1>3

LEMMA TakeDrop ==
  ASSUME NEW S, NEW s \in Seq(S), NEW k \in 0 .. Len(s)
  PROVE  SubSeq(s, 1, k) \o SubSeq(s, k + 1, Len(s)) = s
<1>1. PICK n \in Nat : n = Len(s)
  OBVIOUS
<1>2. k \in Nat /\ k <= n /\ n <= Len(s)
  BY <1>1
<1>3. SubSeq(s, 1, k) \o SubSeq(s, k + 1, n) = SubSeq(s, 1, n)
  BY ONLY <1>2, TakeTake
<1>4. SubSeq(s, 1, n) = s
  BY <1>1
<1> QED
  BY ONLY <1>1, <1>3, <1>4

LEMMA ConsParts ==
  ASSUME NEW S, NEW x \in S, NEW y \in Seq(S)
  PROVE  Head(<< x >> \o y) = x /\ Tail(<< x >> \o y) = y
<1>1. PICK all : all = << x >> \o y
  OBVIOUS
<1>2. << x >> \in Seq(S) /\ Len(<< x >>) = 1 /\ << x >>[1] = x
  OBVIOUS
<1>3. /\ all \in Seq(S) /\ Len(all) = 1 + Len(y) /\ Len(y) \in Nat
      /\ all[1] = x
      /\ \A i \in 1 .. Len(y) : all[1 + i] = y[i]
  BY <1>1, <1>2, JoinAt
<1>4. all # << >>
  BY <1>3
<1>5. /\ Tail(all) \in Seq(S) /\ Len(Tail(all)) = Len(y)
      /\ \A i \in 1 .. Len(y) : Tail(all)[i] = all[i + 1]
      /\ Head(all) = all[1]
  <2>1. Len(all) - 1 = Len(y)
    BY <1>3
  <2> QED
    BY <1>3, <1>4, <2>1, TailAt
<1>6. ASSUME NEW i \in 1 .. Len(y) PROVE Tail(all)[i] = y[i]
  <2>1. i + 1 = 1 + i
    OBVIOUS
  <2> QED
    BY <1>3, <1>5, <2>1
<1>7. Tail(all) = y
  BY <1>5, <1>6, SameItems
<1> QED
  BY <1>1, <1>3, <1>5, <1>7

LEMMA AppendFront ==
  ASSUME NEW S, NEW s \in Seq(S), s # << >>, NEW e \in S
  PROVE  /\ Append(s, e) # << >>
         /\ Head(Append(s, e)) = Head(s)
         /\ Tail(Append(s, e)) = Append(Tail(s), e)
<1>1. /\ Len(s) \in Nat \ {0} /\ Head(s) = s[1]
      /\ Tail(s) \in Seq(S) /\ Len(Tail(s)) = Len(s) - 1
      /\ \A i \in 1 .. Len(s) - 1 : Tail(s)[i] = s[i + 1]
  BY TailAt
<1>2. PICK t, u : t = Append(s, e) /\ u = Append(Tail(s), e)
  OBVIOUS
<1>3. /\ t \in Seq(S) /\ Len(t) = Len(s) + 1
      /\ \A i \in 1 .. Len(s) : t[i] = s[i]
      /\ t[Len(s) + 1] = e
  BY <1>2, AppendAt
<1>4. /\ u \in Seq(S) /\ Len(u) = Len(s)
      /\ \A i \in 1 .. Len(s) - 1 : u[i] = s[i + 1]
      /\ u[Len(s)] = e
  <2>1. /\ u \in Seq(S) /\ Len(u) = Len(Tail(s)) + 1
        /\ \A i \in 1 .. Len(Tail(s)) : u[i] = Tail(s)[i]
        /\ u[Len(Tail(s)) + 1] = e
    BY <1>1, <1>2, AppendAt
  <2>2. Len(Tail(s)) + 1 = Len(s)
    BY <1>1
  <2> QED
    BY <1>1, <2>1, <2>2
<1>5. t # << >>
  BY <1>1, <1>3
<1>6. /\ Tail(t) \in Seq(S) /\ Len(Tail(t)) = Len(s)
      /\ \A i \in 1 .. Len(s) : Tail(t)[i] = t[i + 1]
      /\ Head(t) = t[1]
  <2>1. /\ Tail(t) \in Seq(S) /\ Len(Tail(t)) = Len(t) - 1
        /\ \A i \in 1 .. Len(t) - 1 : Tail(t)[i] = t[i + 1]
        /\ Head(t) = t[1]
    BY <1>3, <1>5, TailAt
  <2>2. Len(t) - 1 = Len(s)
    BY <1>1, <1>3
  <2> QED
    BY <2>1, <2>2
<1>7. ASSUME NEW i \in 1 .. Len(s) PROVE Tail(t)[i] = u[i]
  <2>1. CASE i = Len(s)
    BY <1>3, <1>4, <1>6, <2>1
  <2>2. CASE i # Len(s)
    <3>1. i \in 1 .. Len(s) - 1 /\ i + 1 \in 1 .. Len(s)
      <4>1. PICK n \in Nat : n = Len(s)
        BY <1>1
      <4>2. i \in 1 .. n /\ i # n
        BY <2>2, <4>1
      <4>3. i \in 1 .. n - 1 /\ i + 1 \in 1 .. n
        BY ONLY <4>2
      <4> QED
        BY ONLY <4>1, <4>3
    <3> QED
      BY <1>3, <1>4, <1>6, <3>1
  <2> QED
    BY <2>1, <2>2
<1>8. Tail(t) = u
  BY <1>4, <1>6, <1>7, SameItems
<1>9. Head(t) = Head(s)
  BY <1>1, <1>3, <1>6
<1> QED
  BY <1>2, <1>5, <1>8, <1>9

\* The head of a slice, and what follows it.
LEMMA SliceHead ==
  ASSUME NEW S, NEW s \in Seq(S), NEW k \in 0 .. Len(s) - 1, NEW t \in Seq(S),
         NEW all, all = SubSeq(s, k + 1, Len(s)) \o t
  PROVE  /\ Head(all) = s[k + 1]
         /\ Tail(all) = SubSeq(s, (k + 1) + 1, Len(s)) \o t
<1>1. PICK u, v : u = SubSeq(s, k + 1, Len(s)) /\ v = SubSeq(s, (k + 1) + 1, Len(s))
  OBVIOUS
<1>2. /\ u \in Seq(S) /\ Len(u) = Len(s) - k /\ Len(s) \in Nat
      /\ \A i \in 1 .. Len(s) - k : u[i] = s[i + k]
  BY <1>1, DropAt
<1>3. /\ v \in Seq(S) /\ Len(v) = Len(s) - (k + 1)
      /\ \A i \in 1 .. Len(s) - (k + 1) : v[i] = s[i + (k + 1)]
  <2>1. k + 1 \in 0 .. Len(s)
    OBVIOUS
  <2> QED
    BY <1>1, <2>1, DropAt
<1>4. u # << >> /\ Head(u) = s[k + 1] /\ Tail(u) = v
  <2>1. u # << >> /\ Len(u) - 1 = Len(v)
    BY <1>2, <1>3
  <2>2. /\ Tail(u) \in Seq(S) /\ Len(Tail(u)) = Len(u) - 1
        /\ \A i \in 1 .. Len(u) - 1 : Tail(u)[i] = u[i + 1]
        /\ Head(u) = u[1]
    BY <1>2, <2>1, TailAt
  <2>3. u[1] = s[1 + k]
    BY <1>2
  <2>4. ASSUME NEW i \in 1 .. Len(v) PROVE Tail(u)[i] = v[i]
    <3>1. i + 1 \in 1 .. Len(s) - k /\ (i + 1) + k = i + (k + 1)
      BY <1>3
    <3> QED
      BY <1>2, <1>3, <2>1, <2>2, <3>1
  <2>5. Tail(u) = v
    BY <1>3, <2>1, <2>2, <2>4, SameItems
  <2> QED
    BY <2>1, <2>2, <2>3, <2>5
<1>5. Head(u \o t) = Head(u) /\ Tail(u \o t) = Tail(u) \o t
  <2>1. PICK x \in S, w \in Seq(S) : u = << x >> \o w /\ x = Head(u) /\ w = Tail(u)
    <3>1. Head(u) \in S /\ Tail(u) \in Seq(S)
      BY <1>2, <1>4, TailAt
    <3>2. u = << Head(u) >> \o Tail(u)
      BY <1>2, <1>4, HeadBack
    <3> QED
      BY <3>1, <3>2
  <2>2. << x >> \in Seq(S)
    OBVIOUS
  <2>3. u \o t = << x >> \o (w \o t)
    BY <2>1, <2>2, JoinAssociates
  <2>4. w \o t \in Seq(S)
    BY JoinAt
  <2>5. \A y \in Seq(S) : Head(<< x >> \o y) = x /\ Tail(<< x >> \o y) = y
    BY ConsParts
  <2> QED
    BY <2>1, <2>3, <2>4, <2>5
<1> QED
  BY <1>1, <1>4, <1>5

-----------------------------------------------------------------------------
(* Induction on the natural numbers, for a set of them.                     *)

LEMMA Least ==
  ASSUME NEW T \in SUBSET Nat, T # {}
  PROVE  \E m \in T : \A k \in T : m <= k
<1> DEFINE R == {ss \in Nat \X Nat : ss[1] < ss[2]}
<1>1. IsWellFoundedOn(R, Nat)
  BY NatLessThanWellFounded DEF OpToRel
<1>2. \A k \in Nat, m \in Nat : k < m => << k, m >> \in R
  OBVIOUS
<1> HIDE DEF R
<1>3. PICK m \in T : \A k \in T : ~(<< k, m >> \in R)
  BY <1>1, WFMin
<1>4. ASSUME NEW k \in T PROVE m <= k
  <2>1. k \in Nat /\ m \in Nat /\ ~(k < m)
    BY <1>2, <1>3
  <2> QED
    BY <2>1
<1> QED
  BY <1>4

LEMMA Induction ==
  ASSUME NEW T, 0 \in T, \A n \in Nat : n \in T => n + 1 \in T
  PROVE  \A n \in Nat : n \in T
<1> SUFFICES ASSUME NEW n \in Nat, n \notin T PROVE FALSE
  OBVIOUS
<1> DEFINE U == Nat \ T
<1>1. U \in SUBSET Nat /\ U # {}
  OBVIOUS
<1>2. PICK m \in U : \A k \in U : m <= k
  BY <1>1, Least
<1>3. m \in Nat /\ m # 0 /\ m \notin T
  OBVIOUS
<1>4. m - 1 \in Nat /\ m - 1 \notin U
  BY <1>2, <1>3
<1>5. m - 1 \in T
  BY <1>4
<1>6. (m - 1) + 1 \in T
  BY <1>4, <1>5
<1> QED
  BY <1>3, <1>6

-----------------------------------------------------------------------------
(* FlattenSeq.                                                              *)

\* The equation that FlattenSeq solves.
Flattens(f, ss, n) ==
  f = [i \in 1 .. n |-> IF i = 1 THEN ss[i] ELSE f[i - 1] \o ss[i]]

LEMMA FlattensExists ==
  ASSUME NEW ss, NEW n \in Nat
  PROVE  \E f : Flattens(f, ss, n)
<1> DEFINE T == {k \in Nat : \E f : Flattens(f, ss, k)}
<1>1. 0 \in T
  <2>1. Flattens([i \in 1 .. 0 |-> ss[i]], ss, 0)
    BY DEF Flattens
  <2> QED
    BY <2>1
<1>2. ASSUME NEW k \in Nat, k \in T PROVE k + 1 \in T
  <2>1. PICK f : Flattens(f, ss, k)
    BY <1>2
  <2> DEFINE last == IF k = 0 THEN ss[1] ELSE f[k] \o ss[k + 1]
             g == [i \in 1 .. k + 1 |-> IF i = k + 1 THEN last ELSE f[i]]
             h == [i \in 1 .. k + 1 |-> IF i = 1 THEN ss[i] ELSE g[i - 1] \o ss[i]]
  <2>2. ASSUME NEW i \in 1 .. k + 1 PROVE g[i] = h[i]
    <3>1. CASE i = k + 1
      <4>1. CASE k = 0
        BY <3>1, <4>1
      <4>2. CASE k # 0
        <5>1. i # 1 /\ i - 1 \in 1 .. k + 1 /\ i - 1 # k + 1 /\ i - 1 = k
          BY <3>1, <4>2
        <5>2. g[i - 1] = f[k] /\ g[i] = f[k] \o ss[k + 1]
          BY <3>1, <4>2, <5>1
        <5> QED
          BY <3>1, <5>1, <5>2
      <4> QED
        BY <4>1, <4>2
    <3>2. CASE i # k + 1
      <4>1. i \in 1 .. k /\ g[i] = f[i]
        BY <3>2
      <4>2. f[i] = IF i = 1 THEN ss[i] ELSE f[i - 1] \o ss[i]
        BY <2>1, <4>1 DEF Flattens
      <4>3. i # 1 => i - 1 \in 1 .. k + 1 /\ i - 1 # k + 1
        BY <4>1
      <4>4. i # 1 => g[i - 1] = f[i - 1]
        BY <4>3
      <4> QED
        BY <4>1, <4>2, <4>4
    <3> QED
      BY <3>1, <3>2
  <2>3. g = h
    BY <2>2
  <2>4. Flattens(g, ss, k + 1)
    BY <2>3 DEF Flattens
  <2> QED
    BY <2>4
<1> HIDE DEF T
<1>3. \A k \in Nat : k \in T
  BY <1>1, <1>2, Induction
<1> QED
  BY <1>3 DEF T

LEMMA FlattenSolves ==
  ASSUME NEW ss, Len(ss) \in Nat \ {0}
  PROVE  \E f : Flattens(f, ss, Len(ss)) /\ FlattenSeq(ss) = f[Len(ss)]
<1> DEFINE g == CHOOSE f : Flattens(f, ss, Len(ss))
<1>1. Flattens(g, ss, Len(ss))
  BY FlattensExists
<1>2. FlattenSeq(ss) = g[Len(ss)]
  BY DEF FlattenSeq, Flattens
<1> QED
  BY <1>1, <1>2

\* Where two sequences agree, so do the solutions, and they are sequences.
LEMMA FlattensAgree ==
  ASSUME NEW R, \A x \in R, y \in R : x \o y \in R, NEW ss, NEW tt, NEW m \in Nat, NEW n \in Nat, m <= n,
         NEW f, NEW g, Flattens(f, ss, m), Flattens(g, tt, n),
         \A i \in 1 .. m : ss[i] \in R /\ ss[i] = tt[i]
  PROVE  \A i \in 1 .. m : f[i] = g[i] /\ f[i] \in R
<1> DEFINE T == {k \in Nat : k \in 1 .. m => f[k] = g[k] /\ f[k] \in R}
<1>1. 0 \in T
  OBVIOUS
<1>2. ASSUME NEW k \in Nat, k \in T PROVE k + 1 \in T
  <2> SUFFICES ASSUME k + 1 \in 1 .. m
               PROVE  f[k + 1] = g[k + 1] /\ f[k + 1] \in R
    OBVIOUS
  <2>1. k + 1 \in 1 .. n /\ ss[k + 1] = tt[k + 1] /\ ss[k + 1] \in R
    OBVIOUS
  <2>2. f[k + 1] = IF k + 1 = 1 THEN ss[k + 1] ELSE f[(k + 1) - 1] \o ss[k + 1]
    BY DEF Flattens
  <2>3. g[k + 1] = IF k + 1 = 1 THEN tt[k + 1] ELSE g[(k + 1) - 1] \o tt[k + 1]
    BY <2>1 DEF Flattens
  <2>4. CASE k = 0
    BY <2>1, <2>2, <2>3, <2>4
  <2>5. CASE k # 0
    <3>1. f[k] = g[k] /\ f[k] \in R
      BY <1>2, <2>5
    <3>2. (k + 1) - 1 = k /\ k + 1 # 1
      BY <2>5
    <3>3. f[k + 1] = f[k] \o ss[k + 1] /\ g[k + 1] = g[k] \o ss[k + 1]
      BY <2>1, <2>2, <2>3, <3>2
    <3> QED
      BY <2>1, <3>1, <3>3
  <2> QED
    BY <2>4, <2>5
<1> HIDE DEF T
<1>3. \A k \in Nat : k \in T
  BY <1>1, <1>2, Induction
<1> QED
  BY <1>3 DEF T

LEMMA FlattenEmpty == FlattenSeq(<< >>) = << >>
  BY DEF FlattenSeq

\* In what follows R is Seq(S); this is all that is used of it.
Joins(R) ==
  /\ << >> \in R
  /\ \A x \in R, y \in R : x \o y \in R
  /\ \A x \in R : << >> \o x = x /\ x \o << >> = x
  /\ \A x \in R, y \in R, z \in R : (x \o y) \o z = x \o (y \o z)

LEMMA SequencesJoin == ASSUME NEW S PROVE Joins(Seq(S))
  BY JoinAt, JoinEmpty, JoinAssociates DEF Joins

LEMMA FlattenInto ==
  ASSUME NEW R, Joins(R), NEW ss \in Seq(R)
  PROVE  FlattenSeq(ss) \in R
<1>1. CASE Len(ss) = 0
  <2>1. ss = << >>
    BY <1>1
  <2> QED
    BY <2>1, FlattenEmpty DEF Joins
<1>2. CASE Len(ss) # 0
  <2>1. Len(ss) \in Nat \ {0} /\ \A i \in 1 .. Len(ss) : ss[i] \in R /\ ss[i] = ss[i]
    BY <1>2
  <2>2. PICK f : Flattens(f, ss, Len(ss)) /\ FlattenSeq(ss) = f[Len(ss)]
    BY <2>1, FlattenSolves
  <2>3. Len(ss) \in Nat /\ Len(ss) <= Len(ss)
    BY <2>1
  <2>4. \A x \in R, y \in R : x \o y \in R
    BY DEF Joins
  <2>5. \A i \in 1 .. Len(ss) : f[i] = f[i] /\ f[i] \in R
    BY ONLY <2>1, <2>2, <2>3, <2>4, FlattensAgree
  <2> QED
    BY <2>1, <2>2, <2>5
<1> QED
  BY <1>1, <1>2

LEMMA FlattenLast ==
  ASSUME NEW R, Joins(R), NEW ss \in Seq(R), NEW t \in R
  PROVE  FlattenSeq(Append(ss, t)) = FlattenSeq(ss) \o t
<1> DEFINE tt == Append(ss, t)
           n == Len(ss)
<1>1. /\ n \in Nat
      /\ Len(tt) = n + 1
      /\ \A i \in 1 .. n : ss[i] \in R /\ ss[i] = tt[i]
      /\ tt[n + 1] = t
  OBVIOUS
<1>2. PICK g : Flattens(g, tt, n + 1) /\ FlattenSeq(tt) = g[n + 1]
  <2>1. Len(tt) \in Nat \ {0}
    BY <1>1
  <2> QED
    BY <1>1, <2>1, FlattenSolves
<1> HIDE DEF tt
<1>3. g[n + 1] = IF n + 1 = 1 THEN tt[n + 1] ELSE g[(n + 1) - 1] \o tt[n + 1]
  <2>1. n + 1 \in 1 .. n + 1
    BY <1>1
  <2> QED
    BY <1>2, <2>1 DEF Flattens
<1>4. CASE n = 0
  <2>1. ss = << >> /\ g[n + 1] = t
    BY <1>1, <1>3, <1>4
  <2>2. FlattenSeq(ss) \o t = t
    BY <2>1, FlattenEmpty DEF Joins
  <2> QED
    BY <1>2, <2>1, <2>2 DEF tt
<1>5. CASE n # 0
  <2>1. PICK f : Flattens(f, ss, n) /\ FlattenSeq(ss) = f[n]
    BY <1>1, <1>5, FlattenSolves
  <2>2. n + 1 \in Nat /\ n <= n + 1
    BY <1>1
  <2>3. \A x \in R, y \in R : x \o y \in R
    BY DEF Joins
  <2> HIDE DEF n
  <2>4. \A i \in 1 .. n : f[i] = g[i] /\ f[i] \in R
    <3>1. PICK m : m = n + 1
      OBVIOUS
    <3>2. m \in Nat /\ n \in Nat /\ n <= m
      BY <1>1, <3>1
    <3>3. Flattens(f, ss, n) /\ Flattens(g, tt, m)
      BY <1>2, <2>1, <3>1
    <3>4. \A i \in 1 .. n : ss[i] \in R /\ ss[i] = tt[i]
      BY <1>1
    <3> QED
      BY ONLY <2>3, <3>2, <3>3, <3>4, FlattensAgree
  <2>5. f[n] = g[n] /\ (n + 1) - 1 = n /\ n + 1 # 1
    BY <1>1, <1>5, <2>4
  <2>6. FlattenSeq(tt) = f[n] \o t
    BY <1>1, <1>2, <1>3, <2>5
  <2> QED
    BY <2>1, <2>6 DEF tt
<1> QED
  BY <1>4, <1>5

LEMMA FrontAndLast ==
  ASSUME NEW R, NEW n \in Nat, NEW s \in Seq(R), Len(s) = n + 2
  PROVE  \E front \in Seq(R), last \in R :
           /\ Len(front) = n + 1 /\ front # << >>
           /\ s = Append(front, last)
           /\ Tail(front) \in Seq(R)
           /\ Head(front) = Head(s)
           /\ Tail(s) = Append(Tail(front), last)
           /\ Head(s) \in R
<1>0. PICK front, last : front = SubSeq(s, 1, n + 1) /\ last = s[n + 2]
  OBVIOUS
<1>1. /\ front \in Seq(R) /\ Len(front) = n + 1
      /\ \A i \in 1 .. n + 1 : front[i] = s[i]
      /\ last \in R
  BY <1>0
<1>2. front # << >> /\ Head(front) = s[1] /\ Head(s) = s[1] /\ s[1] \in R
  BY <1>1
<1>3. s = Append(front, last)
  <2>1. /\ Append(front, last) \in Seq(R) /\ Len(Append(front, last)) = n + 2
        /\ \A i \in 1 .. n + 1 : Append(front, last)[i] = front[i]
        /\ Append(front, last)[n + 2] = last
    BY <1>1
  <2>2. ASSUME NEW i \in 1 .. n + 2 PROVE Append(front, last)[i] = s[i]
    <3>1. CASE i = n + 2
      BY <1>0, <2>1, <3>1
    <3>2. CASE i # n + 2
      <4>1. i \in 1 .. n + 1
        BY <3>2
      <4> QED
        BY <1>1, <2>1, <4>1
    <3> QED
      BY <3>1, <3>2
  <2> QED
    BY <2>1, <2>2, SameItems
<1>4. /\ Tail(front) \in Seq(R) /\ Len(Tail(front)) = n
      /\ \A i \in 1 .. n : Tail(front)[i] = front[i + 1]
  BY <1>1, <1>2, TailAt
<1>5. Tail(s) = Append(Tail(front), last)
  <2> DEFINE t == Append(Tail(front), last)
  <2>1. /\ t \in Seq(R) /\ Len(t) = n + 1
        /\ \A i \in 1 .. n : t[i] = front[i + 1]
        /\ t[n + 1] = last
    BY <1>1, <1>4, AppendAt
  <2>2. /\ Tail(s) \in Seq(R) /\ Len(Tail(s)) = n + 1
        /\ \A i \in 1 .. n + 1 : Tail(s)[i] = s[i + 1]
    BY TailAt
  <2> HIDE DEF t
  <2>3. \A i \in 1 .. n : front[i + 1] = s[i + 1]
    BY <1>1
  <2>4. ASSUME NEW i \in 1 .. n + 1 PROVE t[i] = Tail(s)[i]
    <3>1. CASE i = n + 1
      BY <1>0, <2>1, <2>2, <3>1
    <3>2. CASE i # n + 1
      <4>1. i \in 1 .. n
        BY <3>2
      <4> QED
        BY <2>1, <2>2, <2>3, <4>1
    <3> QED
      BY <3>1, <3>2
  <2>5. t = Tail(s)
    BY <2>1, <2>2, <2>4, SameItems
  <2> QED
    BY <2>5 DEF t
<1> QED
  BY <1>1, <1>2, <1>3, <1>4, <1>5

LEMMA OneItem ==
  ASSUME NEW R, NEW s \in Seq(R), Len(s) = 1
  PROVE  /\ Head(s) \in R /\ Tail(s) = << >> /\ << >> \in Seq(R)
         /\ s = Append(<< >>, Head(s))
<1>1. s # << >>
  OBVIOUS
<1>2. Tail(s) \in Seq(R) /\ Len(Tail(s)) = 0 /\ Head(s) = s[1]
  BY <1>1, TailAt
<1>3. Head(s) \in R /\ << >> \in Seq(R) /\ Tail(s) = << >>
  <2>1. s[1] \in R
    OBVIOUS
  <2>2. << >> \in Seq(R) /\ Len(<< >>) = 0
    OBVIOUS
  <2>3. Tail(s) = << >>
    BY ONLY <1>2, NoItems
  <2> QED
    BY ONLY <1>2, <2>1, <2>2, <2>3
<1> DEFINE t == Append(<< >>, Head(s))
<1>4. t \in Seq(R) /\ Len(t) = 1 /\ t[1] = s[1]
  BY <1>2, <1>3
<1>5. t = s
  BY <1>4, SameItems
<1> QED
  BY <1>3, <1>5

\* A sequence is its head and the rest, and so is what it is flattened to.
LEMMA FlattenFirst ==
  ASSUME NEW R, Joins(R), NEW ss \in Seq(R), ss # << >>
  PROVE  FlattenSeq(ss) = Head(ss) \o FlattenSeq(Tail(ss))
<1> DEFINE T == {n \in Nat : \A tt \in Seq(R) : Len(tt) = n + 1 =>
                   FlattenSeq(tt) = Head(tt) \o FlattenSeq(Tail(tt))}
<1>1. 0 \in T
  <2> SUFFICES ASSUME NEW tt \in Seq(R), Len(tt) = 1
               PROVE  FlattenSeq(tt) = Head(tt) \o FlattenSeq(Tail(tt))
    OBVIOUS
  <2>1. /\ Head(tt) \in R /\ Tail(tt) = << >> /\ << >> \in Seq(R)
        /\ tt = Append(<< >>, Head(tt))
    BY OneItem
  <2>2. FlattenSeq(Append(<< >>, Head(tt))) = FlattenSeq(<< >>) \o Head(tt)
    BY <2>1, FlattenLast
  <2> QED
    BY <2>1, <2>2, FlattenEmpty DEF Joins
<1>2. ASSUME NEW n \in Nat, n \in T PROVE n + 1 \in T
  <2> SUFFICES ASSUME NEW tt \in Seq(R), Len(tt) = n + 2
               PROVE  FlattenSeq(tt) = Head(tt) \o FlattenSeq(Tail(tt))
    OBVIOUS
  <2>1. PICK front \in Seq(R), last \in R :
        /\ Len(front) = n + 1 /\ front # << >>
        /\ tt = Append(front, last)
        /\ Tail(front) \in Seq(R)
        /\ Head(front) = Head(tt)
        /\ Tail(tt) = Append(Tail(front), last)
        /\ Head(tt) \in R
    BY FrontAndLast
  <2>2. FlattenSeq(front) = Head(front) \o FlattenSeq(Tail(front))
    BY <1>2, <2>1
  <2>3. FlattenSeq(tt) = FlattenSeq(front) \o last
    BY <2>1, FlattenLast
  <2>4. FlattenSeq(Tail(tt)) = FlattenSeq(Tail(front)) \o last
    BY <2>1, FlattenLast
  <2>5. FlattenSeq(Tail(front)) \in R
    BY <2>1, FlattenInto
  <2>6. (Head(tt) \o FlattenSeq(Tail(front))) \o last
           = Head(tt) \o (FlattenSeq(Tail(front)) \o last)
    <3>1. \A x \in R, y \in R, z \in R : (x \o y) \o z = x \o (y \o z)
      BY DEF Joins
    <3> QED
      BY ONLY <2>1, <2>5, <3>1
  <2> QED
    BY ONLY <2>1, <2>2, <2>3, <2>4, <2>6
<1> HIDE DEF T
<1>3. \A n \in Nat : n \in T
  BY <1>1, <1>2, Induction
<1>4. Len(ss) - 1 \in Nat /\ Len(ss) = (Len(ss) - 1) + 1
  OBVIOUS
<1> QED
  BY <1>3, <1>4 DEF T

-----------------------------------------------------------------------------
(* Each item replaced by a sequence.                                        *)

Into(f, S, R) == \A x \in S : f[x] \in R

Mapped(f, s) == [ i \in DOMAIN s |-> f[s[i]] ]

FlatMap(f, s) == FlattenSeq(Mapped(f, s))

LEMMA MapAppend ==
  ASSUME NEW S, NEW R, NEW f, Into(f, S, R), NEW s \in Seq(S), NEW e \in S
  PROVE  /\ Mapped(f, s) \in Seq(R)
         /\ Mapped(f, Append(s, e)) = Append(Mapped(f, s), f[e])
<1> DEFINE u == Append(s, e)
           m == [ i \in DOMAIN s |-> f[s[i]] ]
           n == [ i \in DOMAIN u |-> f[u[i]] ]
<1>1. /\ u \in Seq(S) /\ Len(s) \in Nat /\ Len(u) = Len(s) + 1
      /\ \A i \in 1 .. Len(s) : u[i] = s[i]
      /\ u[Len(s) + 1] = e
  BY AppendAt
<1> HIDE DEF u
<1>2. DOMAIN s = 1 .. Len(s) /\ DOMAIN u = 1 .. Len(u)
  BY <1>1
<1>3. ASSUME NEW v \in Seq(S) PROVE \A i \in 1 .. Len(v) : f[v[i]] \in R
  BY DEF Into
<1>4. /\ m \in Seq(R) /\ Len(m) = Len(s)
      /\ \A i \in 1 .. Len(s) : m[i] = f[s[i]]
  BY <1>1, <1>2, <1>3
<1>5. /\ n \in Seq(R) /\ Len(n) = Len(s) + 1
      /\ \A i \in 1 .. Len(s) + 1 : n[i] = f[u[i]]
  BY <1>1, <1>2, <1>3
<1> HIDE DEF m, n
<1>6. /\ Append(m, f[e]) \in Seq(R) /\ Len(Append(m, f[e])) = Len(s) + 1
      /\ \A i \in 1 .. Len(s) : Append(m, f[e])[i] = m[i]
      /\ Append(m, f[e])[Len(s) + 1] = f[e]
  <2>1. f[e] \in R
    BY DEF Into
  <2> QED
    BY <1>1, <1>4, <2>1, AppendAt
<1>7. ASSUME NEW i \in 1 .. Len(n) PROVE n[i] = Append(m, f[e])[i]
  <2>1. CASE i = Len(s) + 1
    BY <1>1, <1>5, <1>6, <2>1
  <2>2. CASE i # Len(s) + 1
    <3>1. i \in 1 .. Len(s)
      BY <1>1, <1>5, <2>2
    <3> QED
      BY <1>1, <1>4, <1>5, <1>6, <3>1
  <2> QED
    BY <2>1, <2>2
<1>8. n = Append(m, f[e])
  BY <1>5, <1>6, <1>7, SameItems
<1> QED
  BY <1>4, <1>8 DEF m, n, u, Mapped

LEMMA MapHead ==
  ASSUME NEW S, NEW R, NEW f, Into(f, S, R), NEW s \in Seq(S), s # << >>
  PROVE  /\ Mapped(f, s) \in Seq(R) /\ Mapped(f, s) # << >>
         /\ Head(Mapped(f, s)) = f[Head(s)]
         /\ Tail(Mapped(f, s)) = Mapped(f, Tail(s))
<1> DEFINE u == Tail(s)
           m == [ i \in DOMAIN s |-> f[s[i]] ]
           n == [ i \in DOMAIN u |-> f[u[i]] ]
<1>1. /\ u \in Seq(S) /\ Len(s) \in Nat \ {0} /\ Len(u) = Len(s) - 1
      /\ \A i \in 1 .. Len(s) - 1 : u[i] = s[i + 1]
      /\ Head(s) = s[1]
  BY TailAt
<1> HIDE DEF u
<1>2. DOMAIN s = 1 .. Len(s) /\ DOMAIN u = 1 .. Len(u)
  BY <1>1
<1>3. ASSUME NEW v \in Seq(S) PROVE \A i \in 1 .. Len(v) : f[v[i]] \in R
  BY DEF Into
<1>4. /\ m \in Seq(R) /\ Len(m) = Len(s)
      /\ \A i \in 1 .. Len(s) : m[i] = f[s[i]]
  BY <1>1, <1>2, <1>3
<1>5. /\ n \in Seq(R) /\ Len(n) = Len(s) - 1
      /\ \A i \in 1 .. Len(s) - 1 : n[i] = f[u[i]]
  BY <1>1, <1>2, <1>3
<1> HIDE DEF m, n
<1>6. m # << >>
  BY <1>1, <1>4
<1>7. /\ Tail(m) \in Seq(R) /\ Len(Tail(m)) = Len(s) - 1
      /\ \A i \in 1 .. Len(s) - 1 : Tail(m)[i] = m[i + 1]
      /\ Head(m) = m[1]
  BY <1>4, <1>6, TailAt
<1>8. ASSUME NEW i \in 1 .. Len(n) PROVE n[i] = Tail(m)[i]
  <2>1. i \in 1 .. Len(s) - 1 /\ i + 1 \in 1 .. Len(s)
    BY <1>1, <1>5
  <2> QED
    BY <1>1, <1>4, <1>5, <1>7, <2>1
<1>9. n = Tail(m)
  BY <1>5, <1>7, <1>8, SameItems
<1>10. Head(m) = f[Head(s)]
  BY <1>1, <1>4, <1>7
<1> QED
  BY <1>4, <1>6, <1>9, <1>10 DEF m, n, u, Mapped

LEMMA FlatMapEmpty ==
  ASSUME NEW f
  PROVE  FlatMap(f, << >>) = << >>
<1>1. Mapped(f, << >>) = << >>
  BY DEF Mapped
<1> QED
  BY <1>1, FlattenEmpty DEF FlatMap

LEMMA FlatMapAppend ==
  ASSUME NEW S, NEW R, Joins(R), NEW f, Into(f, S, R), NEW s \in Seq(S), NEW e \in S
  PROVE  FlatMap(f, Append(s, e)) = FlatMap(f, s) \o f[e]
<1>1. f[e] \in R
  BY DEF Into
<1>2. /\ Mapped(f, s) \in Seq(R)
      /\ Mapped(f, Append(s, e)) = Append(Mapped(f, s), f[e])
  BY MapAppend
<1>3. FlattenSeq(Append(Mapped(f, s), f[e])) = FlattenSeq(Mapped(f, s)) \o f[e]
  BY <1>1, <1>2, FlattenLast
<1> QED
  BY <1>2, <1>3 DEF FlatMap

LEMMA FlatMapHead ==
  ASSUME NEW S, NEW R, Joins(R), NEW f, Into(f, S, R), NEW s \in Seq(S), s # << >>
  PROVE  FlatMap(f, s) = f[Head(s)] \o FlatMap(f, Tail(s))
<1>1. /\ Mapped(f, s) \in Seq(R) /\ Mapped(f, s) # << >>
      /\ Head(Mapped(f, s)) = f[Head(s)]
      /\ Tail(Mapped(f, s)) = Mapped(f, Tail(s))
  BY MapHead
<1>2. FlattenSeq(Mapped(f, s)) = Head(Mapped(f, s)) \o FlattenSeq(Tail(Mapped(f, s)))
  BY <1>1, FlattenFirst
<1> QED
  BY <1>1, <1>2 DEF FlatMap

LEMMA FlatMapType ==
  ASSUME NEW S, NEW R, Joins(R), NEW f, Into(f, S, R), NEW s \in Seq(S)
  PROVE  FlatMap(f, s) \in R
<1>1. CASE s = << >>
  BY <1>1, FlatMapEmpty DEF Joins
<1>2. CASE s # << >>
  <2>1. Mapped(f, s) \in Seq(R)
    BY <1>2, MapHead
  <2> QED
    BY <2>1, FlattenInto DEF FlatMap
<1> QED
  BY <1>1, <1>2
\* A sequence in two parts: the parts are its slices.
LEMMA LaidOut ==
  ASSUME NEW S, NEW s \in Seq(S), NEW t \in Seq(S), NEW all, all = s \o t
  PROVE  /\ all \in Seq(S) /\ Len(all) \in Nat /\ Len(s) \in Nat
         /\ Len(s) <= Len(all)
         /\ SubSeq(all, 1, Len(s)) = s
         /\ SubSeq(all, Len(s) + 1, Len(all)) = t
<1>1. /\ all \in Seq(S) /\ Len(s) \in Nat /\ Len(t) \in Nat
      /\ Len(all) = Len(s) + Len(t)
      /\ \A i \in 1 .. Len(s) : all[i] = s[i]
      /\ \A i \in 1 .. Len(t) : all[Len(s) + i] = t[i]
  BY JoinAt
<1>2. PICK n \in Nat, m \in Nat : n = Len(s) /\ m = Len(all) /\ n <= m
  BY ONLY <1>1
<1>3. SubSeq(all, 1, n) = s
  <2>1. /\ SubSeq(all, 1, n) \in Seq(S) /\ Len(SubSeq(all, 1, n)) = n
        /\ \A i \in 1 .. n : SubSeq(all, 1, n)[i] = all[i]
    BY ONLY <1>1, <1>2
  <2>2. PICK u : u = SubSeq(all, 1, n)
    OBVIOUS
  <2>3. u \in Seq(S) /\ Len(u) = Len(s) /\ \A i \in 1 .. Len(u) : u[i] = s[i]
    BY ONLY <1>1, <1>2, <2>1, <2>2
  <2>4. u = s
    BY ONLY <2>3, s \in Seq(S), SameItems
  <2> QED
    BY <2>2, <2>4
<1>4. SubSeq(all, n + 1, m) = t
  <2>1. PICK u : u = SubSeq(all, n + 1, m)
    OBVIOUS
  <2>2. /\ u \in Seq(S) /\ Len(u) = m - n
        /\ \A i \in 1 .. m - n : u[i] = all[i + n]
    <3>1. all \in Seq(S) /\ n \in 0 .. Len(all) /\ u = SubSeq(all, n + 1, Len(all))
      BY ONLY <1>1, <1>2, <2>1
    <3>2. /\ u \in Seq(S) /\ Len(u) = Len(all) - n
          /\ \A i \in 1 .. Len(all) - n : u[i] = all[i + n]
      BY ONLY <3>1, DropAt
    <3> QED
      BY ONLY <1>2, <3>2
  <2>3. m - n = Len(t)
    BY ONLY <1>1, <1>2
  <2>4. ASSUME NEW i \in 1 .. Len(u) PROVE u[i] = t[i]
    <3>1. i \in 1 .. Len(t) /\ i \in 1 .. m - n /\ i + n = n + i
      BY ONLY <1>1, <1>2, <2>2, <2>3, i \in 1 .. Len(u)
    <3> QED
      BY ONLY <1>1, <1>2, <2>2, <3>1
  <2>5. u = t
    BY ONLY <2>2, <2>3, <2>4, t \in Seq(S), SameItems
  <2> QED
    BY ONLY <2>1, <2>5
<1> QED
  BY ONLY <1>1, <1>2, <1>3, <1>4

\* The head of the first part is the head of the whole.
LEMMA JoinHead ==
  ASSUME NEW S, NEW s \in Seq(S), s # << >>, NEW t \in Seq(S), NEW all, all = s \o t
  PROVE  /\ all # << >> /\ Head(all) = Head(s) /\ Head(s) \in S
         /\ Tail(s) \in Seq(S)
         /\ Tail(all) = Tail(s) \o t
         /\ s = << Head(s) >> \o Tail(s)
<1>1. Head(s) \in S /\ Tail(s) \in Seq(S)
  BY TailAt
<1>2. s = << Head(s) >> \o Tail(s)
  BY HeadBack
<1>3. PICK x \in S, w \in Seq(S) : x = Head(s) /\ w = Tail(s) /\ s = << x >> \o w
  BY <1>1, <1>2
<1>4. << x >> \in Seq(S)
  OBVIOUS
<1>5. (<< x >> \o w) \o t = << x >> \o (w \o t)
  BY ONLY <1>4, w \in Seq(S), t \in Seq(S), JoinAssociates
<1>6. w \o t \in Seq(S)
  BY JoinAt
<1>7. PICK v \in Seq(S) : v = w \o t
  BY <1>6
<1>8. all = << x >> \o v
  BY ONLY <1>3, <1>5, <1>7, all = s \o t
<1>9. Head(all) = x /\ Tail(all) = v
  BY ONLY <1>8, x \in S, v \in Seq(S), ConsParts
<1>10. all # << >>
  <2>1. Len(s) \in Nat \ {0}
    BY TailAt
  <2>2. Len(all) = Len(s) + Len(t) /\ Len(t) \in Nat
    BY ONLY s \in Seq(S), t \in Seq(S), all = s \o t, JoinAt
  <2> QED
    BY <2>1, <2>2
<1> QED
  BY <1>1, <1>2, <1>3, <1>7, <1>9, <1>10

\* The head of the second part moved to the end of the first one.
LEMMA MoveHead ==
  ASSUME NEW S, NEW s \in Seq(S), NEW t \in Seq(S), t # << >>
  PROVE  Append(s, Head(t)) \o Tail(t) = s \o t
<1>1. Head(t) \in S /\ Tail(t) \in Seq(S) /\ t = << Head(t) >> \o Tail(t)
  BY TailAt, HeadBack
<1>2. PICK x \in S, w \in Seq(S) : x = Head(t) /\ w = Tail(t) /\ t = << x >> \o w
  BY <1>1
<1>3. << x >> \in Seq(S) /\ Append(s, x) = s \o << x >>
  OBVIOUS
<1>4. (s \o << x >>) \o w = s \o (<< x >> \o w)
  BY ONLY <1>3, s \in Seq(S), w \in Seq(S), JoinAssociates
<1> QED
  BY ONLY <1>2, <1>3, <1>4
-----------------------------------------------------------------------------
(* What is true of the empty sequence, and of a sequence with one item more *)
(* if it is true of that sequence, is true of all.                          *)

LEMMA LastOff ==
  ASSUME NEW S, NEW n \in Nat, NEW s \in Seq(S), Len(s) = n + 1
  PROVE  \E front \in Seq(S), last \in S : Len(front) = n /\ s = Append(front, last)
<1>1. PICK front, last : front = SubSeq(s, 1, n) /\ last = s[n + 1]
  OBVIOUS
<1>2. /\ front \in Seq(S) /\ Len(front) = n
      /\ \A i \in 1 .. n : front[i] = s[i]
      /\ last \in S
  BY <1>1
<1>3. /\ Append(front, last) \in Seq(S) /\ Len(Append(front, last)) = n + 1
      /\ \A i \in 1 .. n : Append(front, last)[i] = front[i]
      /\ Append(front, last)[n + 1] = last
  BY <1>2
<1>4. ASSUME NEW i \in 1 .. n + 1 PROVE Append(front, last)[i] = s[i]
  <2>1. CASE i = n + 1
    BY <1>1, <1>3, <2>1
  <2>2. CASE i # n + 1
    <3>1. i \in 1 .. n
      BY <2>2
    <3> QED
      BY <1>2, <1>3, <3>1
  <2> QED
    BY <2>1, <2>2
<1>5. s = Append(front, last)
  BY <1>3, <1>4, SameItems
<1> QED
  BY <1>2, <1>5

LEMMA SequenceInduction ==
  ASSUME NEW S, NEW G, << >> \in G,
         \A s \in Seq(S), e \in S : s \in G => Append(s, e) \in G
  PROVE  \A s \in Seq(S) : s \in G
<1> DEFINE T == { n \in Nat : \A s \in Seq(S) : Len(s) = n => s \in G }
<1>1. 0 \in T
  <2>1. ASSUME NEW s \in Seq(S), Len(s) = 0 PROVE s \in G
    <3>1. s = << >>
      BY <2>1, NoItems
    <3> QED
      BY <3>1
  <2> QED
    BY <2>1
<1>2. ASSUME NEW n \in Nat, n \in T PROVE n + 1 \in T
  <2>1. ASSUME NEW s \in Seq(S), Len(s) = n + 1 PROVE s \in G
    <3>1. PICK front \in Seq(S), last \in S : Len(front) = n /\ s = Append(front, last)
      BY <2>1, LastOff
    <3>2. front \in G
      BY <1>2, <3>1
    <3> QED
      BY <3>1, <3>2
  <2> QED
    BY <2>1
<1> HIDE DEF T
<1>3. \A n \in Nat : n \in T
  BY <1>1, <1>2, Induction
<1>4. \A s \in Seq(S) : Len(s) \in Nat
  OBVIOUS
<1> QED
  BY <1>3, <1>4 DEF T

-----------------------------------------------------------------------------
(* Selected items.                                                          *)

Keep(S, T) == [ x \in S |-> IF x \in T THEN << x >> ELSE << >> ]

LEMMA KeepInto ==
  ASSUME NEW S, NEW T
  PROVE  Into(Keep(S, T), S, Seq(S \cap T)) /\ Joins(Seq(S \cap T))
<1>1. ASSUME NEW x \in S PROVE Keep(S, T)[x] \in Seq(S \cap T)
  <2>1. CASE x \in T
    <3>1. x \in S \cap T
      BY <2>1
    <3>2. << x >> \in Seq(S \cap T)
      BY <3>1
    <3> QED
      BY <2>1, <3>2 DEF Keep
  <2>2. CASE x \notin T
    <3>1. << >> \in Seq(S \cap T)
      OBVIOUS
    <3> QED
      BY <2>2, <3>1 DEF Keep
  <2> QED
    BY <2>1, <2>2
<1> QED
  BY <1>1, SequencesJoin DEF Into

LEMMA SelectedFlat ==
  ASSUME NEW S, NEW T, NEW s \in Seq(S)
  PROVE  Selected(s, T) = FlatMap(Keep(S, T), s)
<1>1. \A i \in DOMAIN s : s[i] \in S
  OBVIOUS
<1>2. [ i \in DOMAIN s |-> IF s[i] \in T THEN << s[i] >> ELSE << >> ]
        = [ i \in DOMAIN s |-> Keep(S, T)[s[i]] ]
  BY <1>1 DEF Keep
<1> QED
  BY <1>2 DEF Selected, FlatMap, Mapped

LEMMA SelectedType ==
  ASSUME NEW S, NEW T, NEW s \in Seq(S)
  PROVE  Selected(s, T) \in Seq(S \cap T) /\ Selected(s, T) \in Seq(S)
<1>1. Selected(s, T) \in Seq(S \cap T)
  <2>1. PICK R, f : R = Seq(S \cap T) /\ f = Keep(S, T)
    OBVIOUS
  <2>2. Into(f, S, R) /\ Joins(R)
    BY <2>1, KeepInto
  <2>3. FlatMap(f, s) \in R
    BY ONLY <2>2, s \in Seq(S), FlatMapType
  <2> QED
    BY <2>1, <2>3, SelectedFlat
<1>2. PICK t : t = Selected(s, T)
  OBVIOUS
<1>3. t \in Seq(S)
  BY <1>1, <1>2
<1> QED
  BY <1>1, <1>2, <1>3

LEMMA SelectedEmpty ==
  ASSUME NEW T PROVE Selected(<< >>, T) = << >>
<1>1. << >> \in Seq({})
  OBVIOUS
<1> QED
  BY <1>1, SelectedFlat, FlatMapEmpty

LEMMA SelectedAppend ==
  ASSUME NEW S, NEW T, NEW s \in Seq(S), NEW e \in S
  PROVE  Selected(Append(s, e), T) =
           IF e \in T THEN Append(Selected(s, T), e) ELSE Selected(s, T)
<1>1. Append(s, e) \in Seq(S)
  BY AppendAt
<1>2. Selected(Append(s, e), T) = Selected(s, T) \o Keep(S, T)[e]
  <2>1. PICK R, f : R = Seq(S \cap T) /\ f = Keep(S, T)
    OBVIOUS
  <2>2. Into(f, S, R) /\ Joins(R)
    BY <2>1, KeepInto
  <2>3. FlatMap(f, Append(s, e)) = FlatMap(f, s) \o f[e]
    BY ONLY <2>2, s \in Seq(S), e \in S, FlatMapAppend
  <2>4. Selected(s, T) = FlatMap(f, s)
    BY <2>1, SelectedFlat
  <2>5. Selected(Append(s, e), T) = FlatMap(f, Append(s, e))
    BY <1>1, <2>1, SelectedFlat
  <2> QED
    BY <2>1, <2>3, <2>4, <2>5
<1>3. PICK t \in Seq(S) : t = Selected(s, T)
  BY SelectedType
<1>4. CASE e \in T
  <2>1. t \o << e >> = Append(t, e)
    OBVIOUS
  <2> QED
    BY <1>2, <1>3, <1>4, <2>1 DEF Keep
<1>5. CASE e \notin T
  <2>1. t \o << >> = t
    BY ONLY <1>3, JoinEmpty
  <2> QED
    BY <1>2, <1>3, <1>5, <2>1 DEF Keep
<1> QED
  BY <1>4, <1>5

LEMMA SelectedJoin ==
  ASSUME NEW S, NEW T, NEW s \in Seq(S), NEW u \in Seq(S)
  PROVE  Selected(s \o u, T) = Selected(s, T) \o Selected(u, T)
<1> DEFINE G == { t \in Seq(S) : Selected(s \o t, T) = Selected(s, T) \o Selected(t, T) }
<1>1. PICK a \in Seq(S) : a = Selected(s, T)
  BY SelectedType
<1>2. << >> \in G
  <2>1. s \o << >> = s /\ a \o << >> = a /\ << >> \in Seq(S)
    BY JoinEmpty
  <2> QED
    BY <1>1, <2>1, SelectedEmpty
<1>3. ASSUME NEW t \in Seq(S), NEW e \in S, t \in G PROVE Append(t, e) \in G
  <2>1. PICK b \in Seq(S), w \in Seq(S) : b = Selected(t, T) /\ w = s \o t
    BY SelectedType, JoinAt
  <2>2. Append(t, e) \in Seq(S) /\ s \o Append(t, e) = Append(w, e)
    BY <2>1, JoinAppend, AppendAt
  <2>3. Selected(w, T) = a \o b
    BY <1>1, <1>3, <2>1
  <2>4. CASE e \in T
    <3>1. Selected(Append(w, e), T) = Append(a \o b, e)
      BY <2>3, <2>4, SelectedAppend
    <3>2. Selected(Append(t, e), T) = Append(b, e)
      BY <2>1, <2>4, SelectedAppend
    <3>3. a \o Append(b, e) = Append(a \o b, e)
      BY JoinAppend
    <3> QED
      BY <1>1, <2>2, <3>1, <3>2, <3>3
  <2>5. CASE e \notin T
    <3>1. Selected(Append(w, e), T) = a \o b
      BY <2>3, <2>5, SelectedAppend
    <3>2. Selected(Append(t, e), T) = b
      BY <2>1, <2>5, SelectedAppend
    <3> QED
      BY <1>1, <2>2, <3>1, <3>2
  <2> QED
    BY <2>4, <2>5
<1> HIDE DEF G
<1>4. u \in G
  BY <1>2, <1>3, SequenceInduction
<1> QED
  BY <1>4 DEF G

\* What is selected are items, in the same order.
SelectedOf(t, s) ==
  /\ \A k \in 1 .. Len(t) : \E i \in 1 .. Len(s) : t[k] = s[i]
  /\ \A k, l \in 1 .. Len(t) :
       k < l => \E i, j \in 1 .. Len(s) : i < j /\ t[k] = s[i] /\ t[l] = s[j]

LEMMA SelectedItems ==
  ASSUME NEW S, NEW T, NEW u \in Seq(S)
  PROVE  SelectedOf(Selected(u, T), u)
<1> DEFINE G == { s \in Seq(S) : SelectedOf(Selected(s, T), s) }
<1>1. << >> \in G
  <2>1. << >> \in Seq(S) /\ Len(<< >>) = 0
    OBVIOUS
  <2> QED
    BY <2>1, SelectedEmpty DEF SelectedOf
<1>2. ASSUME NEW s \in Seq(S), NEW e \in S, s \in G PROVE Append(s, e) \in G
  <2>1. PICK t, w : t = Selected(s, T) /\ w = Append(s, e) /\ t \in Seq(S)
    BY SelectedType
  <2>2. /\ w \in Seq(S) /\ Len(s) \in Nat /\ Len(w) = Len(s) + 1
        /\ \A i \in 1 .. Len(s) : w[i] = s[i]
        /\ w[Len(s) + 1] = e
    BY <2>1, AppendAt
  <2>3. SelectedOf(t, s)
    BY <1>2, <2>1
  <2>4. /\ \A k \in 1 .. Len(t) : \E i \in 1 .. Len(s) : t[k] = w[i]
        /\ \A k, l \in 1 .. Len(t) :
             k < l => \E i, j \in 1 .. Len(s) : i < j /\ t[k] = w[i] /\ t[l] = w[j]
    <3>1. ASSUME NEW k \in 1 .. Len(t) PROVE \E i \in 1 .. Len(s) : t[k] = w[i]
      BY <2>2, <2>3 DEF SelectedOf
    <3>2. ASSUME NEW k \in 1 .. Len(t), NEW l \in 1 .. Len(t), k < l
          PROVE  \E i, j \in 1 .. Len(s) : i < j /\ t[k] = w[i] /\ t[l] = w[j]
      <4>1. PICK i \in 1 .. Len(s), j \in 1 .. Len(s) : i < j /\ t[k] = s[i] /\ t[l] = s[j]
        BY ONLY <2>3, <3>2, k \in 1 .. Len(t), l \in 1 .. Len(t) DEF SelectedOf
      <4>2. t[k] = w[i] /\ t[l] = w[j]
        BY <2>2, <4>1
      <4> QED
        BY <4>1, <4>2
    <3> QED
      BY <3>1, <3>2
  <2>5. 1 .. Len(s) \subseteq 1 .. Len(w) /\ Len(s) + 1 \in 1 .. Len(w)
    BY <2>2
  <2>6. SelectedOf(t, w)
    BY <2>4, <2>5 DEF SelectedOf
  <2>7. SelectedOf(Append(t, e), w)
    <3>1. PICK x : x = Append(t, e)
      OBVIOUS
    <3>2. /\ Len(t) \in Nat /\ Len(x) = Len(t) + 1
          /\ \A k \in 1 .. Len(t) : x[k] = t[k]
          /\ x[Len(t) + 1] = e
      BY <3>1, AppendAt
    <3>3. ASSUME NEW k \in 1 .. Len(x) PROVE \E i \in 1 .. Len(w) : x[k] = w[i]
      <4>1. CASE k = Len(t) + 1
        BY <2>2, <2>5, <3>2, <4>1
      <4>2. CASE k # Len(t) + 1
        <5>1. k \in 1 .. Len(t)
          BY <3>2, <4>2
        <5> QED
          BY <2>4, <2>5, <3>2, <5>1
      <4> QED
        BY <4>1, <4>2
    <3>4. ASSUME NEW k \in 1 .. Len(x), NEW l \in 1 .. Len(x), k < l
          PROVE  \E i, j \in 1 .. Len(w) : i < j /\ x[k] = w[i] /\ x[l] = w[j]
      <4>1. k \in 1 .. Len(t)
        BY <3>2, <3>4
      <4>2. CASE l = Len(t) + 1
        <5>1. PICK i \in 1 .. Len(s) : x[k] = w[i]
          BY <2>4, <3>2, <4>1
        <5>2. i < Len(s) + 1 /\ x[l] = w[Len(s) + 1] /\ i \in 1 .. Len(w)
          BY <2>2, <2>5, <3>2, <4>2
        <5> QED
          BY <2>5, <5>1, <5>2
      <4>3. CASE l # Len(t) + 1
        <5>1. l \in 1 .. Len(t)
          BY <3>2, <4>3
        <5>2. PICK i \in 1 .. Len(s), j \in 1 .. Len(s) : i < j /\ t[k] = w[i] /\ t[l] = w[j]
          BY ONLY <2>4, <3>4, <4>1, <5>1
        <5>3. i \in 1 .. Len(w) /\ j \in 1 .. Len(w) /\ x[k] = w[i] /\ x[l] = w[j]
          BY <2>5, <3>2, <4>1, <5>1, <5>2
        <5> QED
          BY <5>2, <5>3
      <4> QED
        BY <4>2, <4>3
    <3>5. SelectedOf(x, w)
      BY <3>3, <3>4 DEF SelectedOf
    <3> QED
      BY <3>1, <3>5
  <2>8. SelectedOf(Selected(w, T), w)
    <3>1. Selected(w, T) = IF e \in T THEN Append(t, e) ELSE t
      BY <2>1, SelectedAppend
    <3> QED
      BY <2>6, <2>7, <3>1
  <2> QED
    BY <2>1, <2>2, <2>8
<1> HIDE DEF G
<1>3. u \in G
  BY <1>1, <1>2, SequenceInduction
<1> QED
  BY <1>3 DEF G

\* An item of what is left of a list is an item of the list, and is chosen.
LEMMA SelectedFrom ==
  ASSUME NEW S, NEW T, NEW s \in Seq(S), NEW i \in 1 .. Len(Selected(s, T))
  PROVE  /\ Selected(s, T)[i] \in T /\ Selected(s, T)[i] \in S
         /\ \E j \in 1 .. Len(s) : Selected(s, T)[i] = s[j]
<1>1. PICK t : t = Selected(s, T)
  OBVIOUS
<1>2. t \in Seq(S \cap T) /\ SelectedOf(t, s) /\ i \in 1 .. Len(t)
  BY <1>1, SelectedType, SelectedItems
<1>3. t[i] \in S \cap T
  BY ONLY <1>2
<1>4. \E j \in 1 .. Len(s) : t[i] = s[j]
  BY <1>2 DEF SelectedOf
<1> QED
  BY <1>1, <1>3, <1>4

\* Nothing is selected if no item is one of those.
LEMMA SelectedNone ==
  ASSUME NEW S, NEW T, NEW s \in Seq(S), \A i \in 1 .. Len(s) : s[i] \notin T
  PROVE  Selected(s, T) = << >>
<1>1. PICK t : t = Selected(s, T)
  OBVIOUS
<1>2. t \in Seq(S) /\ t \in Seq(S \cap T) /\ SelectedOf(t, s)
  BY <1>1, SelectedType, SelectedItems
<1>3. ASSUME Len(t) # 0 PROVE FALSE
  <2>1. 1 \in 1 .. Len(t)
    BY <1>2, <1>3
  <2>2. t[1] \in T
    BY <1>2, <2>1
  <2>3. \E i \in 1 .. Len(s) : t[1] = s[i]
    BY <1>2, <2>1 DEF SelectedOf
  <2> QED
    BY <2>2, <2>3
<1>4. t = << >>
  BY <1>2, <1>3, NoItems
<1> QED
  BY <1>1, <1>4
\* A slice of the first part of a sequence, and one that ends in the second.
LEMMA SliceWithin ==
  ASSUME NEW S, NEW s \in Seq(S), NEW t \in Seq(S), NEW all, all = s \o t,
         NEW a \in Nat, NEW b \in Nat, a <= b, b <= Len(s)
  PROVE  SubSeq(all, a + 1, b) = SubSeq(s, a + 1, b)
<1>1. /\ all \in Seq(S) /\ Len(all) = Len(s) + Len(t)
      /\ Len(s) \in Nat /\ Len(t) \in Nat
      /\ \A i \in 1 .. Len(s) : all[i] = s[i]
  BY JoinAt
<1>2. b <= Len(all)
  BY <1>1
<1>3. PICK x, y : x = SubSeq(all, a + 1, b) /\ y = SubSeq(s, a + 1, b)
  OBVIOUS
<1>4. /\ x \in Seq(S) /\ Len(x) = b - a
      /\ \A i \in 1 .. b - a : x[i] = all[i + a]
  BY <1>1, <1>2, <1>3, SliceAt
<1>5. /\ y \in Seq(S) /\ Len(y) = b - a
      /\ \A i \in 1 .. b - a : y[i] = s[i + a]
  BY <1>3, SliceAt
<1>6. ASSUME NEW i \in 1 .. Len(x) PROVE x[i] = y[i]
  <2>1. i \in 1 .. b - a /\ i + a \in 1 .. Len(s)
    BY <1>1, <1>4
  <2> QED
    BY <1>1, <1>4, <1>5, <2>1
<1> QED
  BY <1>3, <1>4, <1>5, <1>6, SameItems

InThree(all, s, t, r) == all = (s \o t) \o r

LEMMA SliceAcross ==
  ASSUME NEW S, NEW s \in Seq(S), NEW t \in Seq(S), NEW r \in Seq(S),
         NEW all, InThree(all, s, t, r), NEW a \in 0 .. Len(s), NEW m \in 0 .. Len(t)
  PROVE  /\ SubSeq(all, a + 1, Len(s) + m) = SubSeq(s, a + 1, Len(s)) \o SubSeq(t, 1, m)
         /\ Len(s) + m \in 0 .. Len(all) /\ a \in 0 .. Len(all) /\ a <= Len(s) + m
<1>1. PICK n \in Nat, k \in Nat : n = Len(s) /\ k = Len(t)
  BY JoinAt
<1>2. /\ a \in 0 .. n /\ m \in 0 .. k
      /\ a \in Nat /\ m \in Nat /\ a <= n /\ m <= k
  BY <1>1
<1>3. PICK u : u = s \o t
  OBVIOUS
<1>4. /\ u \in Seq(S) /\ Len(u) = n + k
      /\ \A i \in 1 .. n : u[i] = s[i]
      /\ \A i \in 1 .. k : u[n + i] = t[i]
  BY <1>1, <1>3, JoinAt
<1>5. /\ all \in Seq(S) /\ Len(all) = (n + k) + Len(r) /\ Len(r) \in Nat
      /\ \A i \in 1 .. n + k : all[i] = u[i]
  <2>1. all = u \o r
    BY <1>3 DEF InThree
  <2>2. /\ all \in Seq(S) /\ Len(all) = Len(u) + Len(r) /\ Len(r) \in Nat
        /\ \A i \in 1 .. Len(u) : all[i] = u[i]
    BY ONLY <1>4, <2>1, r \in Seq(S), JoinAt
  <2> QED
    BY ONLY <1>4, <2>2
<1>6. PICK x, y, z : /\ x = SubSeq(all, a + 1, n + m)
                     /\ y = SubSeq(s, a + 1, n)
                     /\ z = SubSeq(t, 1, m)
  OBVIOUS
<1>7. n + m \in Nat /\ a <= n + m /\ n + m <= Len(all)
  BY <1>2, <1>5
<1>8. /\ x \in Seq(S) /\ Len(x) = (n + m) - a
      /\ \A i \in 1 .. (n + m) - a : x[i] = all[i + a]
  BY ONLY <1>2, <1>5, <1>6, <1>7, SliceAt
<1>9. /\ y \in Seq(S) /\ Len(y) = n - a
      /\ \A i \in 1 .. n - a : y[i] = s[i + a]
  BY <1>1, <1>2, <1>6, SliceAt
<1>10. /\ z \in Seq(S) /\ Len(z) = m
       /\ \A i \in 1 .. m : z[i] = t[i]
  BY <1>1, <1>2, <1>6
<1>11. PICK w : w = y \o z
  OBVIOUS
<1>12. /\ w \in Seq(S) /\ Len(w) = (n - a) + m
       /\ \A i \in 1 .. n - a : w[i] = y[i]
       /\ \A i \in 1 .. m : w[(n - a) + i] = z[i]
  <2>1. /\ w \in Seq(S) /\ Len(w) = Len(y) + Len(z)
        /\ \A i \in 1 .. Len(y) : w[i] = y[i]
        /\ \A i \in 1 .. Len(z) : w[Len(y) + i] = z[i]
    <3>1. y \in Seq(S) /\ z \in Seq(S)
      BY ONLY <1>9, <1>10
    <3> QED
      BY ONLY <3>1, <1>11, JoinAt
  <2> QED
    BY ONLY <1>9, <1>10, <2>1
<1>13. ASSUME NEW i \in 1 .. Len(x) PROVE x[i] = w[i]
  <2>1. i \in 1 .. (n + m) - a /\ x[i] = all[i + a] /\ i \in Nat
    BY ONLY <1>8, i \in 1 .. Len(x)
  <2>2. CASE i <= n - a
    <3>1. i \in 1 .. n - a /\ i + a \in 1 .. n /\ i + a \in 1 .. n + k
      BY <1>2, <1>8, <2>1, <2>2
    <3> QED
      BY <1>4, <1>5, <1>9, <1>12, <2>1, <3>1
  <2>3. CASE ~(i <= n - a)
    <3>1. PICK j \in 1 .. m : i = (n - a) + j
      <4>1. i - (n - a) \in 1 .. m /\ i = (n - a) + (i - (n - a))
        BY <1>2, <1>8, <2>1, <2>3
      <4> QED
        BY <4>1
    <3>2. i + a = n + j /\ n + j \in 1 .. n + k /\ j \in 1 .. k
      BY <1>2, <3>1
    <3> QED
      BY <1>4, <1>5, <1>10, <1>12, <2>1, <3>1, <3>2
  <2> QED
    BY <2>2, <2>3
<1>14. x = w
  <2>1. Len(x) = Len(w)
    BY <1>2, <1>8, <1>12
  <2> QED
    BY ONLY <1>8, <1>12, <1>13, <2>1, SameItems
<1>15. n + m \in 0 .. Len(all) /\ a \in 0 .. Len(all)
  BY ONLY <1>2, <1>5, <1>7
<1> QED
  BY ONLY <1>1, <1>6, <1>7, <1>11, <1>14, <1>15

\* What follows a position, when more is added.
LEMMA RestJoin ==
  ASSUME NEW S, NEW s \in Seq(S), NEW t \in Seq(S), NEW from \in 0 .. Len(s),
         NEW all, all = s \o t
  PROVE  SubSeq(all, from + 1, Len(all)) = SubSeq(s, from + 1, Len(s)) \o t
<1>1. PICK n \in Nat, k \in Nat : n = Len(s) /\ k = Len(t)
  BY JoinAt
<1>2. /\ all \in Seq(S) /\ Len(all) = n + k
      /\ \A i \in 1 .. n : all[i] = s[i]
      /\ \A i \in 1 .. k : all[n + i] = t[i]
      /\ from \in 0 .. n /\ from \in 0 .. Len(all)
  BY <1>1, JoinAt
<1>3. PICK x, y, z : /\ x = SubSeq(all, from + 1, Len(all))
                     /\ y = SubSeq(s, from + 1, Len(s))
                     /\ z = y \o t
  OBVIOUS
<1>4. /\ x \in Seq(S) /\ Len(x) = (n + k) - from
      /\ \A i \in 1 .. (n + k) - from : x[i] = all[i + from]
  BY ONLY <1>2, <1>3, DropAt
<1>5. /\ y \in Seq(S) /\ Len(y) = n - from
      /\ \A i \in 1 .. n - from : y[i] = s[i + from]
  BY ONLY <1>1, <1>2, <1>3, s \in Seq(S), DropAt
<1>6. /\ z \in Seq(S) /\ Len(z) = (n - from) + k
      /\ \A i \in 1 .. n - from : z[i] = y[i]
      /\ \A i \in 1 .. k : z[(n - from) + i] = t[i]
  <2>1. /\ z \in Seq(S) /\ Len(z) = Len(y) + Len(t)
        /\ \A i \in 1 .. Len(y) : z[i] = y[i]
        /\ \A i \in 1 .. Len(t) : z[Len(y) + i] = t[i]
    <3>1. y \in Seq(S) /\ z = y \o t
      BY ONLY <1>3, <1>5
    <3> QED
      BY ONLY <3>1, t \in Seq(S), JoinAt
  <2> QED
    BY ONLY <1>1, <1>5, <2>1
<1>7. ASSUME NEW i \in 1 .. Len(x) PROVE x[i] = z[i]
  <2>1. i \in 1 .. (n + k) - from /\ x[i] = all[i + from]
    BY ONLY <1>4, i \in 1 .. Len(x)
  <2>2. CASE i <= n - from
    <3>1. i \in 1 .. n - from /\ i + from \in 1 .. n
      BY <1>2, <2>1, <2>2
    <3> QED
      BY <1>2, <1>5, <1>6, <2>1, <3>1
  <2>3. CASE ~(i <= n - from)
    <3>1. PICK j \in 1 .. k : i = (n - from) + j
      <4>1. i - (n - from) \in 1 .. k /\ i = (n - from) + (i - (n - from))
        BY <1>2, <2>1, <2>3
      <4> QED
        BY <4>1
    <3>2. i + from = n + j
      BY <1>2, <3>1
    <3> QED
      BY <1>2, <1>6, <2>1, <3>1, <3>2
  <2> QED
    BY <2>2, <2>3
<1>8. Len(x) = Len(z)
  BY ONLY <1>1, <1>2, <1>4, <1>6
<1>9. x = z
  BY ONLY <1>4, <1>6, <1>7, <1>8, SameItems
<1> QED
  BY ONLY <1>3, <1>9

\* Both parts of what follows a position.
LEMMA RestOfRest ==
  ASSUME NEW S, NEW s \in Seq(S), NEW m \in 0 .. Len(s),
         NEW r, r = SubSeq(s, m + 1, Len(s)), NEW n \in 0 .. Len(r)
  PROVE  /\ SubSeq(r, 1, n) = SubSeq(s, m + 1, m + n)
         /\ SubSeq(r, n + 1, Len(r)) = SubSeq(s, (m + n) + 1, Len(s))
         /\ m + n \in 0 .. Len(s)
<1>1. PICK l \in Nat : l = Len(s)
  OBVIOUS
<1>2. /\ r \in Seq(S) /\ Len(r) = l - m /\ m \in 0 .. l
      /\ \A i \in 1 .. l - m : r[i] = s[i + m]
  BY <1>1, DropAt
<1>3. /\ n \in 0 .. l - m /\ m \in Nat /\ n \in Nat /\ m + n \in Nat
      /\ m <= m + n /\ m + n <= l /\ m + n \in 0 .. l
  BY <1>2
<1>4. PICK a, b, c, d : /\ a = SubSeq(r, 1, n) /\ b = SubSeq(s, m + 1, m + n)
                        /\ c = SubSeq(r, n + 1, Len(r)) /\ d = SubSeq(s, (m + n) + 1, Len(s))
  OBVIOUS
<1>5. a \in Seq(S) /\ Len(a) = n /\ \A i \in 1 .. n : a[i] = s[i + m]
  BY <1>2, <1>3, <1>4
<1>6. b \in Seq(S) /\ Len(b) = n /\ \A i \in 1 .. n : b[i] = s[i + m]
  <2>1. /\ b \in Seq(S) /\ Len(b) = (m + n) - m
        /\ \A i \in 1 .. (m + n) - m : b[i] = s[i + m]
    BY <1>1, <1>3, <1>4, SliceAt
  <2> QED
    BY ONLY <1>3, <2>1
<1>7. c \in Seq(S) /\ Len(c) = (l - m) - n /\ \A i \in 1 .. (l - m) - n : c[i] = s[i + (m + n)]
  <2>1. /\ c \in Seq(S) /\ Len(c) = (l - m) - n
        /\ \A i \in 1 .. (l - m) - n : c[i] = r[i + n]
    BY ONLY <1>2, <1>4, n \in 0 .. Len(r), DropAt
  <2>2. \A i \in 1 .. (l - m) - n : i + n \in 1 .. l - m /\ (i + n) + m = i + (m + n)
    BY ONLY <1>3, l \in Nat
  <2> QED
    BY ONLY <1>2, <2>1, <2>2
<1>8. d \in Seq(S) /\ Len(d) = l - (m + n) /\ \A i \in 1 .. l - (m + n) : d[i] = s[i + (m + n)]
  BY <1>1, <1>3, <1>4, DropAt
<1>9. a = b
  BY ONLY <1>5, <1>6, SameItems
<1>10. c = d
  <2>1. (l - m) - n = l - (m + n)
    BY <1>2, <1>3
  <2> QED
    BY ONLY <1>7, <1>8, <2>1, SameItems
<1> QED
  BY ONLY <1>1, <1>3, <1>4, <1>9, <1>10
=============================================================================
