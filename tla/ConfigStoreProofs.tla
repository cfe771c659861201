------------------------- MODULE ConfigStoreProofs -------------------------
(***************************************************************************)
(* Proofs for ConfigStore, for files of any length, any forms and every    *)
(* size of the buffers.                                                    *)
(*                                                                         *)
(* Files are sequences, which the save goes through line by line, so the   *)
(* first part is induction on their length: a property of all sequences of *)
(* n lines is a set of numbers n, and a set of numbers that were left out  *)
(* would have a least element.                                             *)
(***************************************************************************)
EXTENDS ConfigStore, FiniteSetTheorems, SequenceTheorems,
        WellFoundedInduction, TLAPS

(***************************************************************************)
(* Induction, in the form of sets of numbers.                              *)
(***************************************************************************)

\* Every set of numbers has a least element.
LEMMA Least ==
    ASSUME NEW T \in SUBSET Nat, T # {}
    PROVE  \E x \in T : \A y \in T : x <= y
<1>1. PICK x \in T : \A y \in T : ~ (<<y, x>> \in OpToRel(<, Nat))
  BY NatLessThanWellFounded, WFMin
<1>2. \A y \in T : ~ (y < x)
  BY <1>1 DEF OpToRel
<1> QED BY <1>2

\* Every set of places in a sequence has a last one.
LEMMA Greatest ==
    ASSUME NEW n \in Nat, NEW T \in SUBSET (1 .. n), T # {}
    PROVE  \E x \in T : \A y \in T : y <= x
<1> DEFINE D == {n - x : x \in T}
<1>1. D \in SUBSET Nat /\ D # {}
  <2>1. \A x \in T : n - x \in Nat
    OBVIOUS
  <2> QED BY <2>1
<1>2. PICK d \in D : \A e \in D : d <= e
  <2> HIDE DEF D
  <2> QED BY <1>1, Least
<1>3. PICK x \in T : d = n - x
  BY <1>2
<1>4. ASSUME NEW y \in T
      PROVE  y <= x
  <2>1. d <= n - y
    BY <1>2
  <2> QED BY <1>3, <2>1
<1> QED BY <1>4

\* What holds of 0 and of the successor of every number it holds of.
LEMMA Induction ==
    ASSUME NEW S, 0 \in S, \A n \in Nat : n \in S => n + 1 \in S
    PROVE  \A n \in Nat : n \in S
<1> DEFINE T == {n \in Nat : n \notin S}
<1>1. SUFFICES ASSUME T # {} PROVE FALSE
  OBVIOUS
<1>2. PICK x \in T : \A y \in T : x <= y
  <2>1. T \in SUBSET Nat
    OBVIOUS
  <2> HIDE DEF T
  <2> QED BY <1>1, <2>1, Least
<1>3. x # 0 /\ x \in Nat /\ x - 1 \in Nat /\ x - 1 \notin T
  BY <1>2
<1>4. (x - 1) + 1 \in S
  BY <1>3
<1> QED BY <1>3, <1>4

\* A sequence of n + 1 elements is one of n elements and an element.
LEMMA Split ==
    ASSUME NEW T, NEW s \in Seq(T), NEW n \in Nat, Len(s) = n + 1
    PROVE  \E r \in Seq(T), x \in T : s = Append(r, x) /\ Len(r) = n
<1>1. s # <<>>
  BY EmptySeq
<1>2. PICK r \in Seq(T), x \in T : s = Append(r, x)
  BY <1>1, SequenceEmptyOrAppend, Zenon
<1>3. Len(s) = Len(r) + 1 /\ Len(r) \in Nat
  BY <1>2, AppendProperties, LenProperties
<1> QED BY <1>2, <1>3

(***************************************************************************)
(* What Keep returns.                                                      *)
(***************************************************************************)

\* The recursion inside Keep has a solution.
LEMMA KeepUnfolds ==
    ASSUME NEW T, NEW s \in Seq(T), NEW S
    PROVE  \E f : /\ f[0] = <<>>
                  /\ \A n \in 1 .. Len(s) :
                        f[n] = IF s[n] \in S THEN Append(f[n - 1], s[n])
                                             ELSE f[n - 1]
                  /\ Keep(s, S) = f[Len(s)]
<1> DEFINE Solves(f, m) ==
             f = [n \in 0 .. m |->
                    IF n = 0 THEN <<>>
                    ELSE IF s[n] \in S THEN Append(f[n - 1], s[n])
                                       ELSE f[n - 1]]
           Solved == {m \in Nat : \E f : Solves(f, m)}
           kept == CHOOSE f : Solves(f, Len(s))
<1>1. 0 \in Solved
  <2>1. Solves([n \in 0 .. 0 |-> <<>>], 0)
    OBVIOUS
  <2> QED BY <2>1
<1>2. ASSUME NEW m \in Nat, m \in Solved
      PROVE  m + 1 \in Solved
  <2>1. PICK f : Solves(f, m)
    BY <1>2
  <2> DEFINE g == [n \in 0 .. (m + 1) |->
                     IF n <= m THEN f[n]
                     ELSE IF s[m + 1] \in S THEN Append(f[m], s[m + 1])
                                            ELSE f[m]]
  <2>2. ASSUME NEW n \in 0 .. (m + 1)
        PROVE  g[n] = IF n = 0 THEN <<>>
                      ELSE IF s[n] \in S THEN Append(g[n - 1], s[n])
                                         ELSE g[n - 1]
    <3>1. CASE n = 0
      BY <2>1, <3>1
    <3>2. CASE n # 0 /\ n <= m
      <4>1. /\ n - 1 \in 0 .. m /\ n \in 0 .. m
            /\ g[n] = f[n] /\ g[n - 1] = f[n - 1]
        BY <3>2
      <4>2. f[n] = IF s[n] \in S THEN Append(f[n - 1], s[n])
                                 ELSE f[n - 1]
        BY <2>1, <3>2, <4>1
      <4> HIDE DEF g
      <4> QED BY <3>2, <4>1, <4>2
    <3>3. CASE n = m + 1
      <4>1. n # 0 /\ g[n - 1] = f[m]
        BY <3>3
      <4> QED BY <3>3, <4>1
    <3> QED BY <3>1, <3>2, <3>3
  <2>3. Solves(g, m + 1)
    <3> DEFINE h == [n \in 0 .. (m + 1) |->
                       IF n = 0 THEN <<>>
                       ELSE IF s[n] \in S THEN Append(g[n - 1], s[n])
                                          ELSE g[n - 1]]
    <3>1. \A n \in 0 .. (m + 1) : g[n] = h[n]
      BY <2>2
    <3>2. /\ g = [n \in 0 .. (m + 1) |-> g[n]]
          /\ h = [n \in 0 .. (m + 1) |-> h[n]]
      OBVIOUS
    <3>3. g = h
      <4> HIDE DEF g, h
      <4> QED BY <3>1, <3>2
    <3> QED BY <3>3
  <2>4. \E e : Solves(e, m + 1)
    <3> HIDE DEF g, Solves
    <3> QED BY <2>3
  <2> HIDE DEF Solves, g
  <2> QED BY <2>4
<1>3. \A m \in Nat : m \in Solved
  <2> HIDE DEF Solved
  <2> QED BY <1>1, <1>2, Induction
<1>4. Len(s) \in Nat
  BY LenProperties
<1>5. Solves(kept, Len(s))
  <2>1. \E f : Solves(f, Len(s))
    BY <1>3, <1>4
  <2> QED BY <2>1
<1>6. Keep(s, S) = kept[Len(s)]
  BY DEF Keep
<1> HIDE DEF kept
<1>7. kept[0] = <<>>
  BY <1>4, <1>5
<1>8. ASSUME NEW n \in 1 .. Len(s)
      PROVE  kept[n] = IF s[n] \in S THEN Append(kept[n - 1], s[n])
                                     ELSE kept[n - 1]
  <2>1. n \in 0 .. Len(s) /\ n # 0
    BY <1>4
  <2> QED BY <1>5, <2>1
<1> QED BY <1>6, <1>7, <1>8

\* Nothing is kept of nothing.
LEMMA KeepEmpty == ASSUME NEW S PROVE Keep(<<>>, S) = <<>>
<1> DEFINE s == <<>>
<1>1. s \in Seq({}) /\ Len(s) = 0
  OBVIOUS
<1> HIDE DEF s
<1>2. PICK f : /\ f[0] = <<>>
               /\ \A n \in 1 .. Len(s) :
                     f[n] = IF s[n] \in S THEN Append(f[n - 1], s[n])
                                          ELSE f[n - 1]
               /\ Keep(s, S) = f[Len(s)]
  BY <1>1, KeepUnfolds
<1> QED BY <1>1, <1>2 DEF s

\* Keep goes through a sequence element by element.
LEMMA KeepAppend ==
    ASSUME NEW T, NEW s \in Seq(T), NEW x \in T, NEW S
    PROVE  Keep(Append(s, x), S) =
             IF x \in S THEN Append(Keep(s, S), x) ELSE Keep(s, S)
<1> DEFINE t == Append(s, x)
<1>1. PICK f : /\ f[0] = <<>>
               /\ \A n \in 1 .. Len(s) :
                     f[n] = IF s[n] \in S THEN Append(f[n - 1], s[n])
                                          ELSE f[n - 1]
               /\ Keep(s, S) = f[Len(s)]
  BY KeepUnfolds
<1>2. /\ t \in Seq(T) /\ Len(t) = Len(s) + 1 /\ Len(s) \in Nat
      /\ \A n \in 1 .. Len(s) : t[n] = s[n]
      /\ t[Len(s) + 1] = x
  BY AppendProperties, LenProperties
<1> HIDE DEF t
<1>3. PICK g : /\ g[0] = <<>>
               /\ \A n \in 1 .. Len(t) :
                     g[n] = IF t[n] \in S THEN Append(g[n - 1], t[n])
                                          ELSE g[n - 1]
               /\ Keep(t, S) = g[Len(t)]
  BY <1>2, KeepUnfolds
<1> DEFINE Same == {n \in Nat : n <= Len(s) => f[n] = g[n]}
<1>4. 0 \in Same
  BY <1>1, <1>3
<1>5. ASSUME NEW n \in Nat, n \in Same
      PROVE  n + 1 \in Same
  <2> SUFFICES ASSUME n + 1 <= Len(s)
               PROVE  f[n + 1] = g[n + 1]
    OBVIOUS
  <2>1. /\ n + 1 \in 1 .. Len(s) /\ n + 1 \in 1 .. Len(t)
        /\ (n + 1) - 1 = n /\ f[n] = g[n]
    BY <1>2, <1>5
  <2> QED BY <1>1, <1>2, <1>3, <2>1
<1>6. f[Len(s)] = g[Len(s)]
  <2> HIDE DEF Same
  <2>1. Len(s) \in Same
    BY <1>2, <1>4, <1>5, Induction
  <2> QED BY <1>2, <2>1 DEF Same
<1>7. Len(t) \in 1 .. Len(t) /\ Len(t) - 1 = Len(s)
  BY <1>2
<1>8. g[Len(t)] = IF x \in S THEN Append(g[Len(s)], x) ELSE g[Len(s)]
  BY <1>2, <1>3, <1>7
<1> QED BY <1>1, <1>3, <1>6, <1>8 DEF t

\* What is kept is in S and comes from the sequence.
LEMMA KeepType ==
    ASSUME NEW T, NEW S, NEW s \in Seq(T)
    PROVE  /\ Keep(s, S) \in Seq(T)
           /\ Len(Keep(s, S)) \in Nat
           /\ \A i \in 1 .. Len(Keep(s, S)) :
                 /\ Keep(s, S)[i] \in S
                 /\ \E j \in 1 .. Len(s) : Keep(s, S)[i] = s[j]
<1> DEFINE Typed(r) ==
             /\ Keep(r, S) \in Seq(T)
             /\ \A i \in 1 .. Len(Keep(r, S)) :
                   /\ Keep(r, S)[i] \in S
                   /\ \E j \in 1 .. Len(r) : Keep(r, S)[i] = r[j]
           D == {n \in Nat : \A r \in Seq(T) : Len(r) = n => Typed(r)}
<1>1. 0 \in D
  <2> SUFFICES ASSUME NEW r \in Seq(T), Len(r) = 0
               PROVE  Typed(r)
    OBVIOUS
  <2>1. r = <<>>
    BY EmptySeq
  <2>2. Keep(r, S) = <<>> /\ <<>> \in Seq(T) /\ Len(<<>>) = 0
    BY <2>1, KeepEmpty, EmptySeq
  <2> QED BY <2>2
<1>2. ASSUME NEW n \in Nat, n \in D
      PROVE  n + 1 \in D
  <2> SUFFICES ASSUME NEW r \in Seq(T), Len(r) = n + 1
               PROVE  Typed(r)
    OBVIOUS
  <2>1. PICK q \in Seq(T), x \in T : r = Append(q, x) /\ Len(q) = n
    BY Split
  <2>2. Typed(q)
    BY <1>2, <2>1
  <2>3. /\ Len(r) = Len(q) + 1 /\ Len(q) \in Nat
        /\ \A j \in 1 .. Len(q) : r[j] = q[j]
        /\ r[Len(q) + 1] = x
    BY <2>1, AppendProperties, LenProperties
  <2> DEFINE k == Keep(q, S)
  <2>4. CASE x \in S
    <3>1. Keep(r, S) = Append(k, x)
      BY <2>1, <2>4, KeepAppend
    <3>2. /\ k \in Seq(T) /\ Len(k) \in Nat
          /\ Append(k, x) \in Seq(T) /\ Len(Append(k, x)) = Len(k) + 1
          /\ \A i \in 1 .. Len(k) : Append(k, x)[i] = k[i]
          /\ Append(k, x)[Len(k) + 1] = x
      BY <2>2, AppendProperties, LenProperties
    <3>3. \A i \in 1 .. Len(k) : /\ k[i] \in S
                                 /\ \E j \in 1 .. Len(q) : k[i] = q[j]
      BY <2>2
    <3> HIDE DEF k
    <3>4. ASSUME NEW i \in 1 .. Len(Append(k, x))
          PROVE  /\ Append(k, x)[i] \in S
                 /\ \E j \in 1 .. Len(r) : Append(k, x)[i] = r[j]
      <4>1. CASE i \in 1 .. Len(k)
        <5>1. PICK j \in 1 .. Len(q) : k[i] = q[j]
          BY <3>3, <4>1
        <5>2. j \in 1 .. Len(r) /\ Append(k, x)[i] = r[j]
          BY <2>3, <3>2, <4>1, <5>1
        <5> QED BY <3>2, <3>3, <4>1, <5>2
      <4>2. CASE i = Len(k) + 1
        <5>1. Len(q) + 1 \in 1 .. Len(r)
          BY <2>3
        <5> QED BY <2>3, <2>4, <3>2, <4>2, <5>1
      <4> QED BY <3>2, <4>1, <4>2
    <3> QED BY <3>1, <3>2, <3>4
  <2>5. CASE x \notin S
    <3>1. Keep(r, S) = k
      BY <2>1, <2>5, KeepAppend
    <3>2. ASSUME NEW i \in 1 .. Len(k)
          PROVE  k[i] \in S /\ \E j \in 1 .. Len(r) : k[i] = r[j]
      <4>1. k[i] \in S /\ \E j \in 1 .. Len(q) : k[i] = q[j]
        BY <2>2
      <4> HIDE DEF k
      <4> QED BY <2>3, <4>1
    <3> QED BY <2>2, <3>1, <3>2
  <2> QED BY <2>4, <2>5
<1>3. Len(s) \in D
  <2> HIDE DEF D
  <2> QED BY <1>1, <1>2, Induction, LenProperties
<1> QED BY <1>3, LenProperties

\* Keep distributes over concatenation.
LEMMA KeepConcat ==
    ASSUME NEW T, NEW S, NEW s \in Seq(T), NEW t \in Seq(T)
    PROVE  Keep(s \o t, S) = Keep(s, S) \o Keep(t, S)
<1> DEFINE Splits(r) == Keep(s \o r, S) = Keep(s, S) \o Keep(r, S)
           D == {n \in Nat : \A r \in Seq(T) : Len(r) = n => Splits(r)}
<1>a. Keep(s, S) \in Seq(T)
  BY KeepType
<1>1. 0 \in D
  <2> SUFFICES ASSUME NEW r \in Seq(T), Len(r) = 0
               PROVE  Splits(r)
    OBVIOUS
  <2>1. r = <<>> /\ Keep(r, S) = <<>>
    BY EmptySeq, KeepEmpty
  <2> QED BY <1>a, <2>1, ConcatEmptySeq
<1>2. ASSUME NEW n \in Nat, n \in D
      PROVE  n + 1 \in D
  <2> SUFFICES ASSUME NEW r \in Seq(T), Len(r) = n + 1
               PROVE  Splits(r)
    OBVIOUS
  <2>1. PICK q \in Seq(T), x \in T : r = Append(q, x) /\ Len(q) = n
    BY Split
  <2>2. Splits(q)
    BY <1>2, <2>1
  <2>3. s \o q \in Seq(T) /\ s \o r = Append(s \o q, x)
    BY <2>1
  <2>4. Keep(q, S) \in Seq(T)
    BY KeepType
  <2>5. Keep(s, S) \o Append(Keep(q, S), x)
          = Append(Keep(s, S) \o Keep(q, S), x)
    BY <1>a, <2>4
  <2>6. CASE x \in S
    <3>1. Keep(r, S) = Append(Keep(q, S), x)
      BY <2>1, <2>6, KeepAppend
    <3>2. Keep(s \o r, S) = Append(Keep(s \o q, S), x)
      BY <2>3, <2>6, KeepAppend
    <3> QED BY <2>2, <2>5, <3>1, <3>2
  <2>7. CASE x \notin S
    <3>1. Keep(r, S) = Keep(q, S)
      BY <2>1, <2>7, KeepAppend
    <3>2. Keep(s \o r, S) = Keep(s \o q, S)
      <4>1. Keep(Append(s \o q, x), S) = Keep(s \o q, S)
        BY <2>3, <2>7, KeepAppend
      <4> QED BY <2>3, <4>1
    <3> QED BY <2>2, <3>1, <3>2
  <2> QED BY <2>6, <2>7
<1>3. Len(t) \in D
  <2> HIDE DEF D
  <2> QED BY <1>1, <1>2, Induction, LenProperties
<1> QED BY <1>3, LenProperties

\* Sequences that agree on what is kept are the same to Keep.
LEMMA KeepSame ==
    ASSUME NEW T, NEW S, NEW s \in Seq(T), NEW t \in Seq(T),
           Len(s) = Len(t),
           \A i \in 1 .. Len(s) : s[i] \in S \/ t[i] \in S => s[i] = t[i]
    PROVE  Keep(s, S) = Keep(t, S)
<1> DEFINE Agree(p, q) ==
             \A i \in 1 .. Len(p) : p[i] \in S \/ q[i] \in S => p[i] = q[i]
           D == {n \in Nat : \A p, q \in Seq(T) :
                   Len(p) = n /\ Len(q) = n /\ Agree(p, q)
                     => Keep(p, S) = Keep(q, S)}
<1>1. 0 \in D
  <2> SUFFICES ASSUME NEW p \in Seq(T), NEW q \in Seq(T),
                      Len(p) = 0, Len(q) = 0
               PROVE  Keep(p, S) = Keep(q, S)
    OBVIOUS
  <2> QED BY EmptySeq
<1>2. ASSUME NEW n \in Nat, n \in D
      PROVE  n + 1 \in D
  <2> SUFFICES ASSUME NEW p \in Seq(T), NEW q \in Seq(T),
                      Len(p) = n + 1, Len(q) = n + 1, Agree(p, q)
               PROVE  Keep(p, S) = Keep(q, S)
    OBVIOUS
  <2>1. PICK u \in Seq(T), x \in T : p = Append(u, x) /\ Len(u) = n
    BY Split
  <2>2. PICK v \in Seq(T), y \in T : q = Append(v, y) /\ Len(v) = n
    BY Split
  <2>3. /\ \A i \in 1 .. n : p[i] = u[i] /\ q[i] = v[i]
        /\ p[n + 1] = x /\ q[n + 1] = y
    BY <2>1, <2>2, AppendProperties
  <2>4. Agree(u, v)
    <3> SUFFICES ASSUME NEW i \in 1 .. n, u[i] \in S \/ v[i] \in S
                 PROVE  u[i] = v[i]
      BY <2>1
    <3>1. i \in 1 .. Len(p)
      OBVIOUS
    <3> QED BY <2>3, <3>1
  <2>5. Keep(u, S) = Keep(v, S)
    BY <1>2, <2>1, <2>2, <2>4
  <2>6. x \in S \/ y \in S => x = y
    <3>1. n + 1 \in 1 .. Len(p)
      OBVIOUS
    <3> QED BY <2>3, <3>1
  <2>7. Keep(p, S) = IF x \in S THEN Append(Keep(u, S), x) ELSE Keep(u, S)
    BY <2>1, KeepAppend
  <2>8. Keep(q, S) = IF y \in S THEN Append(Keep(v, S), y) ELSE Keep(v, S)
    BY <2>2, KeepAppend
  <2> QED BY <2>5, <2>6, <2>7, <2>8
<1>3. Len(s) \in D
  <2> HIDE DEF D
  <2> QED BY <1>1, <1>2, Induction, LenProperties
<1>4. Agree(s, t)
  OBVIOUS
<1> QED BY <1>3, <1>4

\* Of a sequence without elements of S nothing is kept.
LEMMA KeepNone ==
    ASSUME NEW T, NEW S, NEW s \in Seq(T),
           \A i \in 1 .. Len(s) : s[i] \notin S
    PROVE  Keep(s, S) = <<>>
<1>1. /\ Keep(s, S) \in Seq(T) /\ Len(Keep(s, S)) \in Nat
      /\ \A i \in 1 .. Len(Keep(s, S)) :
            /\ Keep(s, S)[i] \in S
            /\ \E j \in 1 .. Len(s) : Keep(s, S)[i] = s[j]
  BY KeepType
<1>2. Len(Keep(s, S)) = 0
  BY <1>1
<1> QED BY <1>1, <1>2, EmptySeq

\* Nothing of S gets lost.
LEMMA KeepMembers ==
    ASSUME NEW T, NEW S, NEW s \in Seq(T),
           NEW j \in 1 .. Len(s), s[j] \in S
    PROVE  \E i \in 1 .. Len(Keep(s, S)) : Keep(s, S)[i] = s[j]
<1> DEFINE Found(r) ==
             \A m \in 1 .. Len(r) : r[m] \in S =>
                \E i \in 1 .. Len(Keep(r, S)) : Keep(r, S)[i] = r[m]
           D == {n \in Nat : \A r \in Seq(T) : Len(r) = n => Found(r)}
<1>1. 0 \in D
  OBVIOUS
<1>2. ASSUME NEW n \in Nat, n \in D
      PROVE  n + 1 \in D
  <2> SUFFICES ASSUME NEW r \in Seq(T), Len(r) = n + 1
               PROVE  Found(r)
    OBVIOUS
  <2>1. PICK q \in Seq(T), x \in T : r = Append(q, x) /\ Len(q) = n
    BY Split
  <2> DEFINE k == Keep(q, S)
  <2>2. /\ \A i \in 1 .. n : r[i] = q[i]
        /\ r[n + 1] = x
    BY <2>1, AppendProperties
  <2>3. k \in Seq(T) /\ Len(k) \in Nat
    BY KeepType
  <2>4. Keep(r, S) = IF x \in S THEN Append(k, x) ELSE k
    BY <2>1, KeepAppend
  <2>5. /\ Append(k, x) \in Seq(T) /\ Len(Append(k, x)) = Len(k) + 1
        /\ \A i \in 1 .. Len(k) : Append(k, x)[i] = k[i]
        /\ Append(k, x)[Len(k) + 1] = x
    BY <2>3, AppendProperties
  <2>6. \A m \in 1 .. n : q[m] \in S => \E i \in 1 .. Len(k) : k[i] = q[m]
    BY <1>2, <2>1
  <2> HIDE DEF k
  <2> SUFFICES ASSUME NEW m \in 1 .. Len(r), r[m] \in S
               PROVE  \E i \in 1 .. Len(Keep(r, S)) : Keep(r, S)[i] = r[m]
    OBVIOUS
  <2>7. CASE m \in 1 .. n
    <3>1. PICK i \in 1 .. Len(k) : k[i] = q[m]
      BY <2>2, <2>6, <2>7
    <3>2. i \in 1 .. Len(Keep(r, S)) /\ Keep(r, S)[i] = k[i]
      BY <2>3, <2>4, <2>5
    <3> QED BY <2>2, <2>7, <3>1, <3>2
  <2>8. CASE m = n + 1
    <3>1. Keep(r, S) = Append(k, x)
      BY <2>2, <2>4, <2>8
    <3>2. Len(k) + 1 \in 1 .. Len(Append(k, x))
      BY <2>3, <2>5
    <3> QED BY <2>2, <2>5, <2>8, <3>1, <3>2
  <2> QED BY <2>7, <2>8
<1>3. Len(s) \in D
  <2> HIDE DEF D
  <2> QED BY <1>1, <1>2, Induction, LenProperties
<1> QED BY <1>3

\* No element occurs twice.
Distinct(seq) ==
    \A i, j \in 1 .. Len(seq) : seq[i] = seq[j] => i = j

\* Keep does not duplicate.
LEMMA KeepDistinct ==
    ASSUME NEW T, NEW S, NEW s \in Seq(T), Distinct(s)
    PROVE  Distinct(Keep(s, S))
<1> DEFINE D == {n \in Nat : \A r \in Seq(T) :
                   Len(r) = n /\ Distinct(r) => Distinct(Keep(r, S))}
<1>1. 0 \in D
  <2> SUFFICES ASSUME NEW r \in Seq(T), Len(r) = 0
               PROVE  Distinct(Keep(r, S))
    OBVIOUS
  <2>1. Keep(r, S) = <<>> /\ Len(<<>>) = 0
    BY EmptySeq, KeepEmpty
  <2> QED BY <2>1 DEF Distinct
<1>2. ASSUME NEW n \in Nat, n \in D
      PROVE  n + 1 \in D
  <2> SUFFICES ASSUME NEW r \in Seq(T), Len(r) = n + 1, Distinct(r)
               PROVE  Distinct(Keep(r, S))
    OBVIOUS
  <2>1. PICK q \in Seq(T), x \in T : r = Append(q, x) /\ Len(q) = n
    BY Split
  <2> DEFINE k == Keep(q, S)
  <2>2. /\ \A i \in 1 .. n : i \in 1 .. Len(r) /\ r[i] = q[i]
        /\ n + 1 \in 1 .. Len(r) /\ r[n + 1] = x
    BY <2>1, AppendProperties
  <2>3. Distinct(q)
    BY <2>1, <2>2 DEF Distinct
  <2>4. Distinct(k)
    BY <1>2, <2>1, <2>3
  <2>5. k \in Seq(T) /\ Len(k) \in Nat
    BY KeepType
  <2>6. \A i \in 1 .. Len(k) : k[i] # x
    <3> SUFFICES ASSUME NEW i \in 1 .. Len(k), k[i] = x
                 PROVE  FALSE
      OBVIOUS
    <3>1. \E j \in 1 .. Len(q) : k[i] = q[j]
      <4>1. \A a \in 1 .. Len(k) : \E j \in 1 .. Len(q) : k[a] = q[j]
        BY KeepType
      <4> HIDE DEF k
      <4> QED BY <4>1
    <3>2. PICK j \in 1 .. n : r[j] = r[n + 1]
      BY <2>1, <2>2, <3>1
    <3> QED BY <2>2, <3>2 DEF Distinct
  <2>7. /\ Append(k, x) \in Seq(T) /\ Len(Append(k, x)) = Len(k) + 1
        /\ \A i \in 1 .. Len(k) : Append(k, x)[i] = k[i]
        /\ Append(k, x)[Len(k) + 1] = x
    BY <2>5, AppendProperties
  <2>8. Keep(r, S) = IF x \in S THEN Append(k, x) ELSE k
    BY <2>1, KeepAppend
  <2> HIDE DEF k
  <2>9. Distinct(Append(k, x))
    <3> SUFFICES ASSUME NEW i \in 1 .. Len(k) + 1, NEW j \in 1 .. Len(k) + 1,
                        Append(k, x)[i] = Append(k, x)[j]
                 PROVE  i = j
      BY <2>7 DEF Distinct
    <3>1. CASE i \in 1 .. Len(k) /\ j \in 1 .. Len(k)
      BY <2>4, <2>7, <3>1 DEF Distinct
    <3>2. CASE ~ (i \in 1 .. Len(k) /\ j \in 1 .. Len(k))
      BY <2>5, <2>6, <2>7, <3>2
    <3> QED BY <3>1, <3>2
  <2> QED BY <2>4, <2>8, <2>9
<1>3. Len(s) \in D
  <2> HIDE DEF D
  <2> QED BY <1>1, <1>2, Induction, LenProperties
<1> QED BY <1>3

\* Keeping twice is keeping what both times keep.
LEMMA KeepKeep ==
    ASSUME NEW T, NEW A, NEW B, NEW s \in Seq(T),
           \A x \in T : x \in B => x \in A
    PROVE  Keep(Keep(s, A), B) = Keep(s, B)
<1> DEFINE D == {n \in Nat : \A r \in Seq(T) :
                   Len(r) = n => Keep(Keep(r, A), B) = Keep(r, B)}
<1>1. 0 \in D
  <2> SUFFICES ASSUME NEW r \in Seq(T), Len(r) = 0
               PROVE  Keep(Keep(r, A), B) = Keep(r, B)
    OBVIOUS
  <2> QED BY EmptySeq, KeepEmpty
<1>2. ASSUME NEW n \in Nat, n \in D
      PROVE  n + 1 \in D
  <2> SUFFICES ASSUME NEW r \in Seq(T), Len(r) = n + 1
               PROVE  Keep(Keep(r, A), B) = Keep(r, B)
    OBVIOUS
  <2>1. PICK q \in Seq(T), x \in T : r = Append(q, x) /\ Len(q) = n
    BY Split
  <2>2. Keep(Keep(q, A), B) = Keep(q, B)
    BY <1>2, <2>1
  <2>3. /\ Keep(r, A) = IF x \in A THEN Append(Keep(q, A), x) ELSE Keep(q, A)
        /\ Keep(r, B) = IF x \in B THEN Append(Keep(q, B), x) ELSE Keep(q, B)
    BY <2>1, KeepAppend
  <2>4. Keep(q, A) \in Seq(T)
    BY KeepType
  <2>5. Keep(Append(Keep(q, A), x), B) =
           IF x \in B THEN Append(Keep(Keep(q, A), B), x)
                      ELSE Keep(Keep(q, A), B)
    BY <2>4, KeepAppend
  <2>6. CASE x \in A
    BY <2>2, <2>3, <2>5, <2>6
  <2>7. CASE x \notin A
    BY <2>2, <2>3, <2>7
  <2> QED BY <2>6, <2>7
<1>3. Len(s) \in D
  <2> HIDE DEF D
  <2> QED BY <1>1, <1>2, Induction, LenProperties
<1> QED BY <1>3

\* Keep does not add.
LEMMA KeepLength ==
    ASSUME NEW T, NEW S, NEW s \in Seq(T)
    PROVE  Len(Keep(s, S)) <= Len(s)
<1> DEFINE D == {n \in Nat : \A r \in Seq(T) :
                   Len(r) = n => Len(Keep(r, S)) <= n}
<1>1. 0 \in D
  <2> SUFFICES ASSUME NEW r \in Seq(T), Len(r) = 0
               PROVE  Len(Keep(r, S)) <= 0
    OBVIOUS
  <2>1. Keep(r, S) = <<>> /\ Len(<<>>) = 0
    BY EmptySeq, KeepEmpty
  <2> QED BY <2>1
<1>2. ASSUME NEW n \in Nat, n \in D
      PROVE  n + 1 \in D
  <2> SUFFICES ASSUME NEW r \in Seq(T), Len(r) = n + 1
               PROVE  Len(Keep(r, S)) <= n + 1
    OBVIOUS
  <2>1. PICK q \in Seq(T), x \in T : r = Append(q, x) /\ Len(q) = n
    BY Split
  <2> DEFINE k == Keep(q, S)
  <2>2. k \in Seq(T) /\ Len(k) \in Nat /\ Len(k) <= n
    BY <1>2, <2>1, KeepType
  <2>3. Keep(r, S) = IF x \in S THEN Append(k, x) ELSE k
    BY <2>1, KeepAppend
  <2> HIDE DEF k
  <2>4. Len(Append(k, x)) = Len(k) + 1
    BY <2>2, AppendProperties
  <2> QED BY <2>2, <2>3, <2>4
<1>3. Len(s) \in D
  <2> HIDE DEF D
  <2> QED BY <1>1, <1>2, Induction, LenProperties
<1> QED BY <1>3, LenProperties

(***************************************************************************)
(* Keys, texts and lines.                                                  *)
(***************************************************************************)

\* The keys that are modelled.
LEMMA Keys ==
    /\ Managed = {"nodeaddr", "protocol", "dmx_holdtime", "dmx_port0_mode",
                  "dmx2_label", "addr_mode", "lcd_contrast"}
    /\ Strand = {"nodeaddr", "protocol", "dmx_holdtime", "dmx_port0_mode"}
<1>1. Managed = {"nodeaddr", "protocol", "dmx_holdtime", "dmx_port0_mode",
                 "dmx2_label", "addr_mode", "lcd_contrast"}
  BY DEF Managed, managed_keys, ToSet
<1>2. Strand = {"nodeaddr", "protocol", "dmx_holdtime", "dmx_port0_mode"}
  BY DEF Strand, strand_keys, ToSet
<1> QED BY <1>1, <1>2

\* A line that is not managed is told from those that are.
LEMMA OtherKey == "other" \notin Managed /\ Strand \subseteq Managed
  BY Keys

\* The lists of keys have no duplicates.
LEMMA KeyLists ==
    /\ managed_keys \in Seq(Managed) /\ Distinct(managed_keys)
    /\ ToSet(managed_keys) = Managed
    /\ strand_keys \in Seq(Strand) /\ Distinct(strand_keys)
    /\ ToSet(strand_keys) = Strand /\ Len(strand_keys) = 4
<1>1. managed_keys \in Seq(Managed)
  BY Keys DEF managed_keys
<1>2. Distinct(managed_keys)
  BY DEF managed_keys, Distinct
<1>3. strand_keys \in Seq(Strand) /\ Len(strand_keys) = 4
  BY Keys DEF strand_keys
<1>4. Distinct(strand_keys)
  BY DEF strand_keys, Distinct
<1> QED BY <1>1, <1>2, <1>3, <1>4 DEF Managed, Strand

\* Words and numbers are text and read back.
LEMMA WordType ==
    /\ \A w \in Names : Word(w) \in Text /\ Word(w).word = w
    /\ Word("") \in Text /\ Word("glued") \in Text
    /\ \A k \in Managed \cup {"fragment"} :
          Word(k) \in Text /\ Word(k).word = k
    /\ \A n \in Int : Num(n) \in Text /\ Num(n).num = n
<1>1. \A w \in Words : Word(w) \in Text /\ Word(w).word = w
  BY DEF Word, Text
<1>2. \A w \in Names \cup Managed \cup {"", "number", "glued", "fragment"} :
         w \in Words
  BY ConfigFileAssumption
<1>3. \A n \in Int : Num(n) \in Text /\ Num(n).num = n
  BY <1>2 DEF Num, Text
<1> QED BY <1>1, <1>2, <1>3

\* The largest hold time of a form fits its field.
LEMMA UINT16_MAXType == UINT16_MAX \in Nat /\ UINT16_MAX >= 300
  BY SMT DEF UINT16_MAX

\* Whatever the text says, the field it sets is in range.
LEMMA ParseType ==
    ASSUME NEW t \in Text
    PROVE  /\ parse_key("nodeaddr", t) \in Nat
           /\ parse_key("protocol", t) \in {"sacn", "artnet", "shownet", "none"}
           /\ parse_key("dmx_holdtime", t) \in 0 .. UINT16_MAX
           /\ parse_key("dmx_port0_mode", t) \in {"tx", "rx", "off"}
           /\ parse_key("dmx2_label", t) = t
           /\ parse_key("addr_mode", t) \in
                 {"dhcp", "static", "dhcp_static", "sentinel"}
           /\ parse_key("lcd_contrast", t) \in 0 .. 255
<1>0. t.num \in Int
  BY DEF Text
<1>1. parse_key("nodeaddr", t) = parse_ip(t)
  BY DEF parse_key
<1>2. parse_key("protocol", t) = parse_protocol(t)
  BY DEF parse_key
<1>3. parse_key("dmx_holdtime", t) = uint16(t.num)
  BY DEF parse_key
<1>4. parse_key("dmx_port0_mode", t) = parse_mode(t)
  BY DEF parse_key
<1>5. parse_key("addr_mode", t) = parse_addr_mode(t)
  BY DEF parse_key
<1>6. parse_key("lcd_contrast", t) = Clamp(t.num, 0, 255)
  BY DEF parse_key
<1>13. parse_key("dmx2_label", t) = t
  BY DEF parse_key
<1>7. parse_ip(t) \in Nat
  BY <1>0 DEF parse_ip
<1>8. parse_protocol(t) \in {"sacn", "artnet", "shownet", "none"}
  BY DEF parse_protocol
<1>9. uint16(t.num) \in 0 .. UINT16_MAX
  BY <1>0, UINT16_MAXType DEF uint16
<1>10. parse_mode(t) \in {"tx", "rx", "off"}
  BY DEF parse_mode
<1>11. parse_addr_mode(t) \in {"dhcp", "static", "dhcp_static", "sentinel"}
  BY DEF parse_addr_mode
<1>12. Clamp(t.num, 0, 255) \in 0 .. 255
  BY <1>0 DEF Clamp
<1> QED
  BY <1>1, <1>2, <1>3, <1>4, <1>5, <1>6, <1>7, <1>8, <1>9, <1>10, <1>11, <1>12,
     <1>13

\* The text a field is saved as.
LEMMA FormatText ==
    ASSUME NEW c, NEW k
    PROVE  /\ format_key(k, c).key = k /\ format_key(k, c).nl
           /\ k = "nodeaddr" => format_key(k, c).text =
                 Num(IF c.addr_mode = "dhcp" THEN 0 ELSE c.nodeaddr)
           /\ k = "addr_mode" => format_key(k, c).text =
                 Word(IF c.addr_mode = "sentinel" THEN "static"
                                                  ELSE c.addr_mode)
           /\ k \in {"protocol", "dmx_port0_mode"} =>
                 format_key(k, c).text = Word(c[k])
           /\ k = "dmx2_label" => format_key(k, c).text = c[k]
           /\ k \in {"dmx_holdtime", "lcd_contrast"} =>
                 format_key(k, c).text = Num(c[k])
           /\ format_key(k, c) =
                 [key |-> k, text |-> format_key(k, c).text, nl |-> TRUE]
<1> DEFINE t == CASE k = "nodeaddr" ->
                       Num(IF c.addr_mode = "dhcp" THEN 0 ELSE c.nodeaddr)
                  [] k = "addr_mode" ->
                       Word(IF c.addr_mode = "sentinel" THEN "static"
                                                        ELSE c.addr_mode)
                  [] k \in {"protocol", "dmx_port0_mode"} -> Word(c[k])
                  [] k = "dmx2_label" -> c[k]
                  [] OTHER -> Num(c[k])
<1>1. format_key(k, c) = [key |-> k, text |-> t, nl |-> TRUE]
  BY DEF format_key, Line
<1>2. /\ k = "nodeaddr" =>
            t = Num(IF c.addr_mode = "dhcp" THEN 0 ELSE c.nodeaddr)
      /\ k = "addr_mode" =>
            t = Word(IF c.addr_mode = "sentinel" THEN "static"
                                                 ELSE c.addr_mode)
      /\ k \in {"protocol", "dmx_port0_mode"} => t = Word(c[k])
      /\ k = "dmx2_label" => t = c[k]
      /\ k \in {"dmx_holdtime", "lcd_contrast"} => t = Num(c[k])
  OBVIOUS
<1> HIDE DEF t
<1> QED BY <1>1, <1>2

\* A saved field reads back as it was.
LEMMA RoundTrip ==
    ASSUME NEW c \in Config, c.addr_mode = "dhcp" => c.nodeaddr = 0,
           NEW k \in Managed
    PROVE  parse_key(k, format_key(k, c).text) = AsSaved(c)[k]
<1> DEFINE t == format_key(k, c).text
<1>0. /\ c.nodeaddr \in Nat /\ c.dmx_holdtime \in 0 .. UINT16_MAX
      /\ c.lcd_contrast \in 0 .. 255
      /\ c.protocol \in {"sacn", "artnet", "shownet", "none"}
      /\ c.dmx_port0_mode \in {"tx", "rx", "off"}
      /\ c.addr_mode \in {"dhcp", "static", "dhcp_static", "sentinel"}
  BY DEF Config
<1>t. AsSaved(c)[k] = IF k = "addr_mode" /\ c.addr_mode = "sentinel"
                      THEN "static" ELSE c[k]
  BY Keys DEF AsSaved, Config
<1>d. k = "dmx2_label" => t = c[k]
  BY FormatText
<1>f. /\ k = "nodeaddr" =>
            t.num = IF c.addr_mode = "dhcp" THEN 0 ELSE c.nodeaddr
      /\ k = "addr_mode" =>
            t.word = IF c.addr_mode = "sentinel" THEN "static" ELSE c.addr_mode
      /\ k \in {"protocol", "dmx_port0_mode"} => t.word = c[k]
      /\ k \in {"dmx_holdtime", "lcd_contrast"} => t.num = c[k]
  <2>1. /\ \A w : Word(w).word = w
        /\ \A n : Num(n).num = n
    BY DEF Word, Num
  <2>2. ASSUME k = "nodeaddr"
        PROVE  t.num = IF c.addr_mode = "dhcp" THEN 0 ELSE c.nodeaddr
    <3>1. t = Num(IF c.addr_mode = "dhcp" THEN 0 ELSE c.nodeaddr)
      BY <2>2, FormatText
    <3> HIDE DEF t
    <3> QED BY <2>1, <3>1, Zenon
  <2>3. ASSUME k = "addr_mode"
        PROVE  t.word = IF c.addr_mode = "sentinel" THEN "static"
                                                    ELSE c.addr_mode
    <3>1. t = Word(IF c.addr_mode = "sentinel" THEN "static" ELSE c.addr_mode)
      BY <2>3, FormatText
    <3> HIDE DEF t
    <3> QED BY <2>1, <3>1, Zenon
  <2>4. ASSUME k \in {"protocol", "dmx_port0_mode"}
        PROVE  t.word = c[k]
    <3>1. t = Word(c[k])
      BY <2>4, FormatText
    <3> HIDE DEF t
    <3> QED BY <2>1, <3>1, Zenon
  <2>5. ASSUME k \in {"dmx_holdtime", "lcd_contrast"}
        PROVE  t.num = c[k]
    <3>1. t = Num(c[k])
      BY <2>5, FormatText
    <3> HIDE DEF t
    <3> QED BY <2>1, <3>1, Zenon
  <2> HIDE DEF t
  <2> QED BY <2>2, <2>3, <2>4, <2>5
<1> HIDE DEF t
<1>1. CASE k = "nodeaddr"
  <2>1. parse_key(k, t) = parse_ip(t)
    BY <1>1 DEF parse_key
  <2> QED BY <1>0, <1>1, <1>f, <1>t, <2>1 DEF parse_ip, t
<1>2. CASE k = "protocol"
  <2>1. parse_key(k, t) = parse_protocol(t)
    BY <1>2 DEF parse_key
  <2> QED BY <1>0, <1>2, <1>f, <1>t, <2>1 DEF parse_protocol, t
<1>3. CASE k = "dmx_holdtime"
  <2>1. parse_key(k, t) = uint16(t.num)
    BY <1>3 DEF parse_key
  <2> QED BY <1>0, <1>3, <1>f, <1>t, <2>1, UINT16_MAXType DEF uint16, t
<1>4. CASE k = "dmx_port0_mode"
  <2>1. parse_key(k, t) = parse_mode(t)
    BY <1>4 DEF parse_key
  <2> QED BY <1>0, <1>4, <1>f, <1>t, <2>1 DEF parse_mode, t
<1>7. CASE k = "dmx2_label"
  <2>1. parse_key(k, t) = t
    BY <1>7 DEF parse_key
  <2> QED BY <1>7, <1>d, <1>t, <2>1 DEF t
<1>5. CASE k = "addr_mode"
  <2>1. parse_key(k, t) = parse_addr_mode(t)
    BY <1>5 DEF parse_key
  <2> QED BY <1>0, <1>5, <1>f, <1>t, <2>1 DEF parse_addr_mode, t
<1>6. CASE k = "lcd_contrast"
  <2>1. parse_key(k, t) = Clamp(t.num, 0, 255)
    BY <1>6 DEF parse_key
  <2> QED BY <1>0, <1>6, <1>f, <1>t, <2>1 DEF Clamp, t
<1> QED BY <1>1, <1>2, <1>3, <1>4, <1>5, <1>6, <1>7, Keys

\* A saved line is a line of its key.
LEMMA FormatType ==
    ASSUME NEW c \in Config, NEW k \in Managed
    PROVE  /\ format_key(k, c) \in AnyLine
           /\ format_key(k, c).key = k /\ format_key(k, c).nl
<1>0. /\ c.nodeaddr \in Nat /\ c.dmx_holdtime \in 0 .. UINT16_MAX
      /\ c.lcd_contrast \in 0 .. 255
      /\ c.protocol \in Names /\ c.dmx_port0_mode \in Names
      /\ c.addr_mode \in {"dhcp", "static", "dhcp_static", "sentinel"}
      /\ c["dmx2_label"] \in Text
  BY DEF Config, Names
<1> DEFINE t == format_key(k, c).text
<1>1. \/ \E n \in Int : t = Num(n)
      \/ \E w \in Names : t = Word(w)
      \/ t \in Text
  <2>1. CASE k = "nodeaddr"
    BY <1>0, <2>1, FormatText
  <2>2. CASE k \in {"protocol", "dmx_port0_mode"}
    <3>1. t = Word(c[k]) /\ c[k] \in Names
      BY <1>0, <2>2, FormatText
    <3> HIDE DEF t
    <3> QED BY <3>1
  <2>3. CASE k \in {"dmx_holdtime", "lcd_contrast"}
    <3>1. t = Num(c[k]) /\ c[k] \in Int
      BY <1>0, <2>3, FormatText
    <3> HIDE DEF t
    <3> QED BY <3>1
  <2>4. CASE k = "addr_mode"
    <3> DEFINE w == IF c.addr_mode = "sentinel" THEN "static" ELSE c.addr_mode
    <3>1. t = Word(w)
      BY <2>4, FormatText
    <3>2. w \in Names
      BY <1>0 DEF Names
    <3> HIDE DEF t, w
    <3> QED BY <3>1, <3>2
  <2>5. CASE k = "dmx2_label"
    BY <1>0, <2>5, FormatText
  <2> QED BY <2>1, <2>2, <2>3, <2>4, <2>5, Keys
<1>2. t \in Text
  <2> HIDE DEF t
  <2> QED BY <1>1, WordType
<1>3. format_key(k, c).key = k /\ format_key(k, c).nl
  BY FormatText, Zenon
<1>4. format_key(k, c) = [key |-> k, text |-> t, nl |-> TRUE]
  BY FormatText, Zenon
<1> HIDE DEF t
<1>5. [key |-> k, text |-> t, nl |-> TRUE] \in AnyLine
  BY <1>2 DEF AnyLine, Keyed
<1> QED BY <1>3, <1>4, <1>5, Zenon

(***************************************************************************)
(* Loading.                                                                *)
(***************************************************************************)

\* The fields of a line.
LEMMA LineFields ==
    /\ \A l \in AnyLine : l.key \in Managed \cup {"other"}
                          /\ l.text \in Text /\ l.nl \in BOOLEAN
    /\ \A l \in AnyLine : \A K : l \in Keyed(K) <=> l.key \in K
  BY DEF AnyLine, Keyed

\* If a line has the key, one of them is the last.
LEMMA LastMention ==
    ASSUME NEW lines \in Seq(AnyLine), NEW k, Mentions(lines, k) # {}
    PROVE  \E i \in 1 .. Len(lines) :
              lines[i].key = k /\ LastText(lines, k) = lines[i].text
<1> DEFINE M == Mentions(lines, k)
           last == CHOOSE i \in M : \A j \in M : j <= i
<1>1. M \in SUBSET (1 .. Len(lines)) /\ M # {} /\ Len(lines) \in Nat
  BY LenProperties DEF Mentions
<1>2. \E i \in M : \A j \in M : j <= i
  <2> HIDE DEF M
  <2> QED BY <1>1, Greatest
<1>3. last \in M
  BY <1>2
<1>4. LastText(lines, k) = lines[last].text
  BY DEF LastText
<1>5. last \in 1 .. Len(lines) /\ lines[last].key = k
  BY <1>1, <1>3 DEF Mentions
<1> QED BY <1>4, <1>5

\* What decides is text.
LEMMA LastTextType ==
    ASSUME NEW lines \in Seq(AnyLine), NEW k, Mentions(lines, k) # {}
    PROVE  LastText(lines, k) \in Text
<1>1. PICK i \in 1 .. Len(lines) : LastText(lines, k) = lines[i].text
  BY LastMention
<1>2. lines[i] \in AnyLine
  BY ElementOfSeq
<1> QED BY <1>1, <1>2, LineFields

\* The defaults are in range.
LEMMA DefaultsType == config_defaults \in Config
<1> DEFINE empty == Word("")
<1>1. empty \in Text
  BY WordType
<1>2. config_defaults =
         [nodeaddr |-> 0, protocol |-> "sacn", dmx_holdtime |-> 5,
          dmx_port0_mode |-> "tx", dmx2_label |-> empty,
          addr_mode |-> "sentinel", lcd_contrast |-> 128]
  BY DEF config_defaults
<1>3. 5 \in 0 .. UINT16_MAX
  BY UINT16_MAXType
<1> HIDE DEF empty
<1> QED BY <1>1, <1>2, <1>3 DEF Config

\* Whatever the lines say, the fields they set are in range.
LEMMA FieldsType ==
    ASSUME NEW lines \in Seq(AnyLine)
    PROVE  Fields(lines) \in Config
<1> DEFINE F(k) == IF Mentions(lines, k) = {} THEN config_defaults[k]
                   ELSE parse_key(k, LastText(lines, k))
<1>1. Fields(lines) = [k \in Managed |-> F(k)]
  BY DEF Fields
<1>2. \A k \in Managed : Mentions(lines, k) # {} => LastText(lines, k) \in Text
  BY LastTextType
<1>3. ASSUME NEW k \in Managed
      PROVE  F(k) = config_defaults[k] \/ \E t \in Text : F(k) = parse_key(k, t)
  BY <1>2
<1> HIDE DEF F
<1>4. /\ F("nodeaddr") \in Nat
      /\ F("protocol") \in {"sacn", "artnet", "shownet", "none"}
      /\ F("dmx_holdtime") \in 0 .. UINT16_MAX
      /\ F("dmx_port0_mode") \in {"tx", "rx", "off"}
      /\ F("dmx2_label") \in Text
      /\ F("addr_mode") \in {"dhcp", "static", "dhcp_static", "sentinel"}
      /\ F("lcd_contrast") \in 0 .. 255
  <2>1. F("nodeaddr") \in Nat
    <3>1. /\ "nodeaddr" \in Managed
          /\ config_defaults["nodeaddr"] \in Nat
      BY DefaultsType, Keys DEF Config
    <3> QED BY <1>3, <3>1, ParseType
  <2>2. F("protocol") \in {"sacn", "artnet", "shownet", "none"}
    <3>1. /\ "protocol" \in Managed
          /\ config_defaults["protocol"] \in
                {"sacn", "artnet", "shownet", "none"}
      BY DefaultsType, Keys DEF Config
    <3> QED BY <1>3, <3>1, ParseType
  <2>3. F("dmx_holdtime") \in 0 .. UINT16_MAX
    <3>1. /\ "dmx_holdtime" \in Managed
          /\ config_defaults["dmx_holdtime"] \in 0 .. UINT16_MAX
      BY DefaultsType, Keys DEF Config
    <3> QED BY <1>3, <3>1, ParseType
  <2>4. F("dmx_port0_mode") \in {"tx", "rx", "off"}
    <3>1. /\ "dmx_port0_mode" \in Managed
          /\ config_defaults["dmx_port0_mode"] \in {"tx", "rx", "off"}
      BY DefaultsType, Keys DEF Config
    <3> QED BY <1>3, <3>1, ParseType
  <2>5. F("addr_mode") \in {"dhcp", "static", "dhcp_static", "sentinel"}
    <3>1. /\ "addr_mode" \in Managed
          /\ config_defaults["addr_mode"] \in
                {"dhcp", "static", "dhcp_static", "sentinel"}
      BY DefaultsType, Keys DEF Config
    <3> QED BY <1>3, <3>1, ParseType
  <2>6. F("lcd_contrast") \in 0 .. 255
    <3>1. /\ "lcd_contrast" \in Managed
          /\ config_defaults["lcd_contrast"] \in 0 .. 255
      BY DefaultsType, Keys DEF Config
    <3> QED BY <1>3, <3>1, ParseType
  <2>7. F("dmx2_label") \in Text
    <3>1. /\ "dmx2_label" \in Managed
          /\ config_defaults["dmx2_label"] \in Text
      BY DefaultsType, Keys DEF Config
    <3> QED BY <1>3, <3>1, ParseType
  <2> QED BY <2>1, <2>2, <2>3, <2>4, <2>5, <2>6, <2>7
<1> QED BY <1>1, <1>4, Keys DEF Config

\* So are they after inference.
LEMMA InferredType ==
    ASSUME NEW c \in Config
    PROVE  Inferred(c) \in Config
  BY DEF Inferred, Config

(***************************************************************************)
(* Lines that are cut.                                                     *)
(***************************************************************************)

\* Files; one that is missing has no lines.
File ==
    {file \in [there : BOOLEAN, lines : Seq(AnyLine)] :
        file.there \/ file.lines = <<>>}

\* Only the last line may be without its newline.
CutOnce(lines) == \A i \in 1 .. Len(lines) : lines[i].nl \/ i = Len(lines)

\* Only one line may, and another than the last only if it is not managed.
OneCut(lines) ==
    \A i \in 1 .. Len(lines) :
        \/ lines[i].nl
        \/ /\ i = Len(lines) \/ lines[i].key = "other"
           /\ \A j \in 1 .. Len(lines) : j # i => lines[j].nl

\* The lines q are the lines p, but line i of p and the next are one.
GluedAt(p, q, i) ==
    /\ i \in 1 .. (Len(p) - 1)
    /\ ~ p[i].nl /\ p[i].key = "other"
    /\ Len(q) = Len(p) - 1
    /\ q[i] = Glued(p[i], p[i + 1]) /\ q[i] \in AnyLine
    /\ \A j \in 1 .. (i - 1) : q[j] = p[j]
    /\ \A j \in (i + 1) .. Len(q) : q[j] = p[j + 1]

\* A file of Strand's keys fits the buffer of a save.
LEMMA ReadCapType == ReadCap \in Nat /\ ReadCap >= 4
  BY ConfigFileAssumption, KeyLists

\* The shapes of lines are those of the lines before.
LEMMA CutShapes ==
    /\ \A p \in Seq(AnyLine) : CutOnce(p) => OneCut(p)
    /\ \A p \in Seq(AnyLine), q \in Seq(AnyLine) : OneCut(p \o q) => OneCut(p)
    /\ CutOnce(<<>>) /\ OneCut(<<>>)
<1>1. ASSUME NEW p \in Seq(AnyLine), CutOnce(p)
      PROVE  OneCut(p)
  BY <1>1 DEF CutOnce, OneCut
<1>2. ASSUME NEW p \in Seq(AnyLine), NEW q \in Seq(AnyLine), OneCut(p \o q)
      PROVE  OneCut(p)
  <2>1. /\ Len(p \o q) = Len(p) + Len(q) /\ Len(p) \in Nat /\ Len(q) \in Nat
        /\ \A i \in 1 .. Len(p) + Len(q) :
              (p \o q)[i] = IF i <= Len(p) THEN p[i] ELSE q[i - Len(p)]
    BY ConcatProperties, LenProperties
  <2>2. \A i \in 1 .. Len(p) : i \in 1 .. Len(p \o q) /\ (p \o q)[i] = p[i]
    BY <2>1
  <2> SUFFICES ASSUME NEW i \in 1 .. Len(p), ~ p[i].nl
               PROVE  /\ i = Len(p) \/ p[i].key = "other"
                      /\ \A j \in 1 .. Len(p) : j # i => p[j].nl
    BY DEF OneCut
  <2>3. /\ i = Len(p \o q) \/ p[i].key = "other"
        /\ \A j \in 1 .. Len(p) : j # i => p[j].nl
    BY <1>2, <2>2 DEF OneCut
  <2>4. i = Len(p \o q) => i = Len(p)
    BY <2>1
  <2> QED BY <2>3, <2>4
<1>3. CutOnce(<<>>) /\ OneCut(<<>>)
  <2>1. Len(<<>>) = 0
    OBVIOUS
  <2> QED BY <2>1 DEF CutOnce, OneCut
<1> QED BY <1>1, <1>2, <1>3

\* Two lines that read as one are a line: of the key the first ends behind, or
\* of the first one's.
LEMMA GluedType ==
    ASSUME NEW l \in AnyLine, NEW next \in AnyLine
    PROVE  /\ Glued(l, next) \in AnyLine /\ Glued(l, next).nl = next.nl
           /\ l.key = "other" =>
                 Glued(l, next).key \in {"other"} \cup
                                        (Managed \cap {l.text.word})
<1>1. Word("glued") \in Text
  BY WordType
<1>2. l.key \in Managed \cup {"other"} /\ next.nl \in BOOLEAN
  BY DEF AnyLine, Keyed
<1> DEFINE k == IF l.key = "other" /\ l.text.word \in Managed THEN l.text.word
                                                           ELSE l.key
<1>3. k \in Managed \cup {"other"}
  BY <1>2
<1>4. l.key = "other" => k \in {"other"} \cup (Managed \cap {l.text.word})
  OBVIOUS
<1>5. Glued(l, next) = [key |-> k, text |-> Word("glued"), nl |-> next.nl]
  BY DEF Glued
<1> HIDE DEF Word, k
<1> QED BY <1>1, <1>2, <1>3, <1>4, <1>5 DEF AnyLine, Keyed

\* Lines with their newlines are read as they are.
LEMMA LinesWhole ==
    ASSUME NEW p \in Seq(AnyLine), CutOnce(p)
    PROVE  Lines(p) = p
<1>1. {i \in 1 .. (Len(p) - 1) : ~ p[i].nl} = {}
  BY LenProperties DEF CutOnce
<1> QED BY <1>1 DEF Lines

\* Where a line has lost its newline, it and the next are one.
LEMMA LinesCut ==
    ASSUME NEW p \in Seq(AnyLine), OneCut(p), ~ CutOnce(p)
    PROVE  /\ Lines(p) \in Seq(AnyLine) /\ CutOnce(Lines(p))
           /\ \E i \in 1 .. Len(p) : GluedAt(p, Lines(p), i)
<1> DEFINE open == {i \in 1 .. (Len(p) - 1) : ~ p[i].nl}
           at == CHOOSE i \in open : TRUE
<1>0. Len(p) \in Nat /\ \A i \in 1 .. Len(p) : p[i] \in AnyLine
  BY LenProperties, ElementOfSeq
<1>1. PICK i0 \in 1 .. Len(p) : ~ p[i0].nl /\ i0 # Len(p)
  BY DEF CutOnce
<1>2. open # {}
  BY <1>0, <1>1
<1>3. at \in open
  BY <1>2
<1>4. Lines(p) = SubSeq(p, 1, at - 1) \o <<Glued(p[at], p[at + 1])>>
                   \o SubSeq(p, at + 2, Len(p))
  BY <1>2 DEF Lines
<1>5. at \in 1 .. Len(p) - 1 /\ ~ p[at].nl
  BY <1>3
<1> HIDE DEF at
<1>6. /\ p[at].key = "other"
      /\ \A j \in 1 .. Len(p) : j # at => p[j].nl
  BY <1>0, <1>5 DEF OneCut
<1> DEFINE a == SubSeq(p, 1, at - 1)
           g == Glued(p[at], p[at + 1])
           b == SubSeq(p, at + 2, Len(p))
<1>7. /\ at \in Nat /\ at >= 1 /\ at + 1 <= Len(p)
      /\ at \in 1 .. Len(p) /\ at + 1 \in 1 .. Len(p)
  BY <1>0, <1>5
<1>8. /\ a \in Seq(AnyLine) /\ Len(a) = at - 1
      /\ \A i \in 1 .. at - 1 : a[i] = p[i]
  <2>1. \A i \in 1 .. at - 1 : p[i] \in AnyLine
    BY <1>0, <1>7
  <2> QED BY <1>0, <1>7, <2>1, SubSeqProperties
<1>9. /\ b \in Seq(AnyLine) /\ Len(b) = Len(p) - at - 1
      /\ \A i \in 1 .. Len(b) : b[i] = p[i + at + 1]
  <2>1. \A i \in at + 2 .. Len(p) : p[i] \in AnyLine
    BY <1>0, <1>7
  <2>2. /\ b \in Seq(AnyLine)
        /\ Len(b) = IF at + 2 <= Len(p) THEN Len(p) - (at + 2) + 1 ELSE 0
        /\ \A i \in 1 .. Len(p) - (at + 2) + 1 : b[i] = p[(at + 2) + i - 1]
    BY <1>0, <1>7, <2>1, SubSeqProperties
  <2> HIDE DEF b
  <2>3. Len(b) = Len(p) - at - 1
    BY <1>0, <1>7, <2>2
  <2>4. ASSUME NEW i \in 1 .. Len(b)
        PROVE  b[i] = p[i + at + 1]
    <3>1. (at + 2) + i - 1 = i + at + 1
      BY <1>7, <2>3
    <3>2. i \in 1 .. Len(p) - (at + 2) + 1
      BY <1>0, <1>7, <2>3
    <3> QED BY <2>2, <3>1, <3>2
  <2> QED BY <2>2, <2>3, <2>4
<1>10. g \in AnyLine /\ g.nl
  <2>1. p[at] \in AnyLine /\ p[at + 1] \in AnyLine
    BY <1>0, <1>7
  <2>2. p[at + 1].nl
    BY <1>6, <1>7
  <2>3. Glued(p[at], p[at + 1]).nl = p[at + 1].nl
    BY <2>1, GluedType
  <2> QED BY <2>1, <2>2, <2>3, GluedType
<1>g. g = Glued(p[at], p[at + 1])
  OBVIOUS
<1>l. Lines(p) = a \o <<g>> \o b
  BY <1>4
<1> HIDE DEF a, b, g
<1> DEFINE r == <<g>> \o b
<1>11. /\ r \in Seq(AnyLine) /\ Len(r) = Len(b) + 1 /\ r[1] = g
       /\ \A i \in 2 .. Len(r) : r[i] = b[i - 1]
  BY <1>9, <1>10
<1>12. Lines(p) = a \o r
  BY <1>l, <1>8, <1>9, <1>10, SMTT(30)
<1> HIDE DEF r
<1>13. /\ Lines(p) \in Seq(AnyLine) /\ Len(Lines(p)) = Len(p) - 1
       /\ \A i \in 1 .. at - 1 : Lines(p)[i] = p[i]
       /\ Lines(p)[at] = g
       /\ \A i \in at + 1 .. Len(p) - 1 : Lines(p)[i] = p[i + 1]
  <2>1. /\ a \o r \in Seq(AnyLine) /\ Len(a \o r) = Len(a) + Len(r)
        /\ \A i \in 1 .. Len(a) + Len(r) :
              (a \o r)[i] = IF i <= Len(a) THEN a[i] ELSE r[i - Len(a)]
    BY <1>8, <1>11, ConcatProperties
  <2>2. Len(a) + Len(r) = Len(p) - 1
    BY <1>0, <1>7, <1>8, <1>9, <1>11
  <2>3. \A i \in 1 .. at - 1 : (a \o r)[i] = p[i]
    BY <1>0, <1>7, <1>8, <2>1, <2>2
  <2>4. (a \o r)[at] = g
    <3>1. at \in 1 .. Len(a) + Len(r) /\ ~ (at <= Len(a)) /\ at - Len(a) = 1
      BY <1>0, <1>7, <1>8, <2>2
    <3> QED BY <1>11, <2>1, <3>1
  <2>5. ASSUME NEW i \in at + 1 .. Len(p) - 1
        PROVE  (a \o r)[i] = p[i + 1]
    <3> DEFINE n == i - (at - 1)
    <3>1. /\ i \in 1 .. Len(a) + Len(r) /\ ~ (i <= Len(a)) /\ i - Len(a) = n
          /\ n \in 2 .. Len(r) /\ n - 1 \in 1 .. Len(b)
          /\ (n - 1) + at + 1 = i + 1
      BY <1>0, <1>7, <1>8, <1>9, <1>11, <2>2
    <3> HIDE DEF n
    <3>2. (a \o r)[i] = r[n]
      BY <2>1, <3>1
    <3> QED BY <1>9, <1>11, <3>1, <3>2
  <2> QED BY <1>12, <2>1, <2>2, <2>3, <2>4, <2>5
<1>14. ASSUME NEW i \in 1 .. Len(Lines(p))
       PROVE  Lines(p)[i].nl
  <2>1. CASE i < at
    <3>1. /\ i \in 1 .. at - 1 /\ i \in 1 .. Len(p) /\ i # at
      BY <1>0, <1>7, <1>13, <2>1
    <3> QED BY <1>6, <1>13, <3>1
  <2>2. CASE i = at
    BY <1>10, <1>13, <2>2
  <2>3. CASE i > at
    <3>1. /\ i \in at + 1 .. Len(p) - 1 /\ i + 1 \in 1 .. Len(p)
          /\ i + 1 # at
      BY <1>0, <1>7, <1>13, <2>3
    <3> QED BY <1>6, <1>13, <3>1
  <2> QED BY <1>0, <1>7, <1>13, <2>1, <2>2, <2>3
<1>15. CutOnce(Lines(p))
  BY <1>14 DEF CutOnce
<1>16. GluedAt(p, Lines(p), at)
  BY <1>5, <1>6, <1>10, <1>13, <1>g DEF GluedAt
<1> QED BY <1>7, <1>13, <1>15, <1>16

\* What a reader sees of a file: its lines, or those with two made one.
LEMMA LinesShape ==
    ASSUME NEW p \in Seq(AnyLine), OneCut(p)
    PROVE  /\ Lines(p) \in Seq(AnyLine) /\ CutOnce(Lines(p))
           /\ \/ Lines(p) = p /\ CutOnce(p)
              \/ \E i \in 1 .. Len(p) : GluedAt(p, Lines(p), i)
<1>1. CASE CutOnce(p)
  BY <1>1, LinesWhole
<1>2. CASE ~ CutOnce(p)
  BY <1>2, LinesCut
<1> QED BY <1>1, <1>2

\* What the buffer may take of a line is a line.
LEMMA FragmentType ==
    ASSUME NEW l \in AnyLine, NEW f \in Fragment(l)
    PROVE  f \in AnyLine
<1>2. \A x \in AnyLine : [x EXCEPT !.nl = FALSE] \in AnyLine
  BY DEF AnyLine, Keyed
<1>1. ASSUME NEW k \in Managed \cup {"fragment"}
      PROVE  [Other(k) EXCEPT !.nl = FALSE] \in AnyLine
  <2>1. Word(k) \in Text
    BY WordType
  <2> HIDE DEF Word
  <2>2. Other(k) \in AnyLine
    BY <2>1 DEF Other, Line, AnyLine, Keyed
  <2> QED BY <1>2, <2>2
<1>3. \/ f = [Other("fragment") EXCEPT !.nl = FALSE]
      \/ f = [l EXCEPT !.nl = FALSE]
      \/ \E k \in Managed : f = [Other(k) EXCEPT !.nl = FALSE]
  BY DEF Fragment, OpenKey
<1> QED BY <1>1, <1>2, <1>3

\* What a save reads of a file it finds: all that fits.
LEMMA ReadsShape ==
    ASSUME NEW file \in File, OneCut(file.lines)
    PROVE  /\ \E e \in Reads(file) : TRUE
           /\ \A e \in Reads(file) :
                 /\ e \in Seq(AnyLine) /\ CutOnce(e)
                 /\ Len(e) \in Nat /\ Len(e) <= ReadCap + 1
                 /\ Len(Lines(file.lines)) <= ReadCap => e = Lines(file.lines)
<1> DEFINE p == file.lines
           l == Lines(p)
           head == SubSeq(l, 1, ReadCap)
<1>1. p \in Seq(AnyLine) /\ (file.there \/ p = <<>>)
  BY DEF File
<1>2. OneCut(p)
  OBVIOUS
<1>3. l \in Seq(AnyLine) /\ CutOnce(l)
  <2> HIDE DEF p
  <2> QED BY <1>1, <1>2, LinesShape
<1>4. Len(l) \in Nat /\ ReadCap \in Nat
  BY <1>3, LenProperties, ReadCapType
<1>5. Reads(file) =
         IF Len(l) <= ReadCap THEN {l}
         ELSE {head} \cup {Append(head, f) : f \in Fragment(l[ReadCap + 1])}
  <2>1. p = <<>> => l = <<>>
    <3>1. <<>> \in Seq(AnyLine) /\ CutOnce(<<>>)
      BY EmptySeq, CutShapes
    <3>2. Lines(<<>>) = <<>>
      BY <3>1, LinesWhole
    <3> QED BY <3>2
  <2>2. (IF file.there THEN Lines(p) ELSE <<>>) = l
    BY <1>1, <2>1
  <2> QED BY <2>2 DEF Reads
<1>l. l = Lines(file.lines)
  OBVIOUS
<1> HIDE DEF p, l
<1>6. CASE Len(l) <= ReadCap
  <2>1. Reads(file) = {l}
    BY <1>5, <1>6, Zenon
  <2>2. Len(l) <= ReadCap + 1
    BY <1>4, <1>6
  <2> QED BY <1>3, <1>4, <1>l, <2>1, <2>2
<1>7. CASE ~ (Len(l) <= ReadCap)
  <2>1. Reads(file) =
          {head} \cup {Append(head, f) : f \in Fragment(l[ReadCap + 1])}
    BY <1>5, <1>7, Zenon
  <2>2. \A i \in 1 .. Len(l) : l[i] \in AnyLine
    BY <1>3, ElementOfSeq
  <2>3. /\ head \in Seq(AnyLine) /\ Len(head) = ReadCap
        /\ \A i \in 1 .. ReadCap : head[i] = l[i]
    <3>1. \A i \in 1 .. ReadCap : l[i] \in AnyLine
      BY <1>4, <1>7, <2>2
    <3> QED BY <1>4, <3>1, SubSeqProperties
  <2>4. \A i \in 1 .. ReadCap : head[i].nl
    BY <1>3, <1>4, <1>7, <2>3 DEF CutOnce
  <2> HIDE DEF head
  <2>5. head \in Seq(AnyLine) /\ CutOnce(head) /\ Len(head) <= ReadCap + 1
    BY <1>4, <2>3, <2>4 DEF CutOnce
  <2>6. ASSUME NEW f \in Fragment(l[ReadCap + 1])
        PROVE  /\ Append(head, f) \in Seq(AnyLine) /\ CutOnce(Append(head, f))
               /\ Len(Append(head, f)) = ReadCap + 1
    <3>1. l[ReadCap + 1] \in AnyLine
      BY <1>4, <1>7, <2>2
    <3>2. f \in AnyLine
      BY <3>1, FragmentType
    <3>3. /\ Append(head, f) \in Seq(AnyLine)
          /\ Len(Append(head, f)) = ReadCap + 1
          /\ \A i \in 1 .. ReadCap : Append(head, f)[i] = head[i]
      BY <2>3, <3>2, AppendProperties
    <3>4. CutOnce(Append(head, f))
      BY <1>4, <2>4, <3>3 DEF CutOnce
    <3> QED BY <3>3, <3>4
  <2>7. ASSUME NEW e \in Reads(file)
        PROVE  /\ e \in Seq(AnyLine) /\ CutOnce(e)
               /\ Len(e) \in Nat /\ Len(e) <= ReadCap + 1
    <3>1. CASE e = head
      BY <1>4, <2>3, <2>5, <3>1
    <3>2. CASE e # head
      <4>1. PICK f \in Fragment(l[ReadCap + 1]) : e = Append(head, f)
        BY <2>1, <2>7, <3>2
      <4> QED BY <1>4, <2>6, <4>1
    <3> QED BY <3>1, <3>2
  <2>8. head \in Reads(file)
    BY <2>1
  <2> QED BY <1>7, <1>l, <2>7, <2>8
<1> QED BY <1>6, <1>7

(***************************************************************************)
(* What a save writes.                                                     *)
(***************************************************************************)

\* What Mentions tells.
LEMMA Mentioned ==
    ASSUME NEW lines \in Seq(AnyLine), NEW k
    PROVE  Mentions(lines, k) # {} <=>
              \E i \in 1 .. Len(lines) : lines[i].key = k
  BY LenProperties DEF Mentions

\* A line that lost its newline is the last one when others are left out, too.
LEMMA KeepCut ==
    ASSUME NEW S, NEW e \in Seq(AnyLine), CutOnce(e)
    PROVE  LET q == Keep(e, S)
           IN  /\ CutOnce(q)
               /\ \A i \in 1 .. Len(q) :
                     ~ q[i].nl => Len(e) > 0 /\ q[i] = e[Len(e)]
<1> DEFINE q == Keep(e, S)
<1>0. Len(e) \in Nat
  BY LenProperties
<1>1. CASE Len(e) = 0
  <2>1. q = <<>> /\ Len(<<>>) = 0
    BY <1>1, EmptySeq, KeepEmpty
  <2> HIDE DEF q
  <2>2. Len(q) = 0
    BY <2>1
  <2> QED BY <2>2 DEF CutOnce, q
<1>2. CASE Len(e) # 0
  <2>0. Len(e) - 1 \in Nat /\ Len(e) = (Len(e) - 1) + 1
    BY <1>0, <1>2
  <2>1. PICK r \in Seq(AnyLine), x \in AnyLine :
           e = Append(r, x) /\ Len(r) = Len(e) - 1
    BY <2>0, Split
  <2> DEFINE k == Keep(r, S)
  <2>2. /\ k \in Seq(AnyLine) /\ Len(k) \in Nat
        /\ \A i \in 1 .. Len(k) : \E j \in 1 .. Len(r) : k[i] = r[j]
    BY KeepType
  <2>3. q = IF x \in S THEN Append(k, x) ELSE k
    BY <2>1, KeepAppend
  <2>4. /\ e[Len(e)] = x
        /\ \A j \in 1 .. Len(r) : j \in 1 .. Len(e) /\ j # Len(e) /\ e[j] = r[j]
    BY <1>0, <2>1, AppendProperties
  <2> HIDE DEF k, q
  <2>5. \A i \in 1 .. Len(k) : k[i].nl
    BY <2>2, <2>4 DEF CutOnce
  <2>6. /\ Len(Append(k, x)) = Len(k) + 1
        /\ \A i \in 1 .. Len(k) : Append(k, x)[i] = k[i]
        /\ Append(k, x)[Len(k) + 1] = x
    BY <2>2, AppendProperties
  <2>7. ASSUME NEW i \in 1 .. Len(q), ~ q[i].nl
        PROVE  i = Len(q) /\ q[i] = x
    <3>1. CASE x \in S
      <4>1. q = Append(k, x)
        BY <2>3, <3>1
      <4>2. i \notin 1 .. Len(k)
        <5> SUFFICES ASSUME i \in 1 .. Len(k) PROVE FALSE
          OBVIOUS
        <5>1. q[i] = k[i]
          BY <2>6, <4>1
        <5> QED BY <2>5, <2>7, <5>1
      <4>3. i = Len(k) + 1 /\ Len(q) = Len(k) + 1
        BY <2>2, <2>6, <4>1, <4>2
      <4> QED BY <2>6, <4>1, <4>3
    <3>2. CASE x \notin S
      <4>1. q = k
        BY <2>3, <3>2
      <4> QED BY <2>5, <2>7, <4>1
    <3> QED BY <3>1, <3>2
  <2>8. Len(e) > 0
    BY <1>0, <1>2
  <2>9. CutOnce(q)
    BY <2>7 DEF CutOnce
  <2> QED BY <2>4, <2>7, <2>8, <2>9 DEF q
<1> QED BY <1>1, <1>2

\* What a save of the keys K passes on of the lines it found.
Passed(found, K) == Keep(found, Keyed(K \cup {"other"}))

\* The lines of other keys are left out, and nothing else.
LEMMA PassedShape ==
    ASSUME NEW e \in Seq(AnyLine), CutOnce(e), NEW K \in SUBSET Managed
    PROVE  LET q == Passed(e, K)
           IN  /\ q \in Seq(AnyLine) /\ Len(q) \in Nat /\ Len(q) <= Len(e)
               /\ CutOnce(q)
               /\ \A i \in 1 .. Len(q) : /\ q[i] \in AnyLine
                                         /\ q[i].key \in K \cup {"other"}
               /\ \A i \in 1 .. Len(q) :
                     ~ q[i].nl => Len(e) > 0 /\ q[i] = e[Len(e)]
               /\ \A k \in K : Mentions(q, k) = {} <=> Mentions(e, k) = {}
               /\ Others(q) = Others(e)
<1> DEFINE S == Keyed(K \cup {"other"})
           q == Passed(e, K)
<1>0. q = Keep(e, S)
  BY DEF Passed
<1>1. \A l \in AnyLine : l \in S <=> l.key \in K \cup {"other"}
  BY LineFields
<1> HIDE DEF S, q
<1>2. /\ q \in Seq(AnyLine) /\ Len(q) \in Nat
      /\ \A i \in 1 .. Len(q) :
            q[i] \in S /\ \E j \in 1 .. Len(e) : q[i] = e[j]
  BY <1>0, KeepType
<1>3. \A i \in 1 .. Len(q) : q[i] \in AnyLine
  BY <1>2, ElementOfSeq
<1>4. /\ CutOnce(q)
      /\ \A i \in 1 .. Len(q) : ~ q[i].nl => Len(e) > 0 /\ q[i] = e[Len(e)]
  BY <1>0, KeepCut
<1>5. Len(q) <= Len(e)
  BY <1>0, KeepLength
<1>6. ASSUME NEW k \in K
      PROVE  Mentions(q, k) # {} <=> Mentions(e, k) # {}
  <2>1. ASSUME NEW i \in 1 .. Len(q), q[i].key = k
        PROVE  \E j \in 1 .. Len(e) : e[j].key = k
    BY <1>2, <2>1
  <2>2. ASSUME NEW j \in 1 .. Len(e), e[j].key = k
        PROVE  \E i \in 1 .. Len(q) : q[i].key = k
    <3>1. e[j] \in AnyLine
      BY ElementOfSeq
    <3>2. e[j] \in S
      BY <1>1, <2>2, <3>1
    <3>3. \E i \in 1 .. Len(Keep(e, S)) : Keep(e, S)[i] = e[j]
      BY <3>2, KeepMembers
    <3> QED BY <1>0, <2>2, <3>3
  <2> QED BY <1>2, <2>1, <2>2, Mentioned
<1>7. Others(q) = Others(e)
  <2>1. \A l \in AnyLine : l \in Keyed({"other"}) => l \in S
    BY <1>1, LineFields
  <2> QED BY <1>0, <2>1, KeepKeep DEF Others
<1> QED BY <1>1, <1>2, <1>3, <1>4, <1>5, <1>6, <1>7 DEF q

\* Every line that is passed on is kept in its place.
LEMMA KeptShape ==
    ASSUME NEW e \in Seq(AnyLine), CutOnce(e), NEW c \in Config,
           NEW K \in SUBSET Managed, NEW keys, ToSet(keys) = K,
           NEW skip \in BOOLEAN, skip \/ K = Managed
    PROVE  LET q == Passed(e, K)
               out == Kept(e, c, keys, skip)
           IN  /\ out \in Seq(AnyLine) /\ Len(out) = Len(q)
               /\ \A i \in 1 .. Len(q) :
                     out[i] = IF q[i].key \in K
                              THEN format_key(q[i].key, c) ELSE q[i]
<1> DEFINE q == Passed(e, K)
           f == [i \in DOMAIN q |->
                   IF q[i].key \in K THEN format_key(q[i].key, c) ELSE q[i]]
<1>1. (IF skip THEN ToSet(keys) ELSE Managed) = K
  OBVIOUS
<1>2. Kept(e, c, keys, skip) = f
  BY <1>1 DEF Kept, Passed
<1>3. /\ q \in Seq(AnyLine) /\ Len(q) \in Nat
      /\ \A i \in 1 .. Len(q) : q[i] \in AnyLine
  BY PassedShape
<1> HIDE DEF q
<1>4. DOMAIN q = 1 .. Len(q)
  BY <1>3, LenProperties
<1>5. \A i \in 1 .. Len(q) : f[i] \in AnyLine
  BY <1>3, <1>4, FormatType
<1>6. f \in Seq(AnyLine) /\ Len(f) = Len(q)
  <2>1. f \in [1 .. Len(q) -> AnyLine]
    <3>1. f = [i \in 1 .. Len(q) |-> f[i]]
      BY <1>4
    <3> HIDE DEF f
    <3> QED BY <1>5, <3>1
  <2> HIDE DEF f
  <2> QED BY <1>3, <2>1
<1> QED BY <1>2, <1>4, <1>6 DEF q

\* The missing keys, each once.
LEMMA MissingShape ==
    ASSUME NEW e \in Seq(AnyLine), NEW K, NEW keys \in Seq(K), Distinct(keys),
           ToSet(keys) = K
    PROVE  LET m == Missing(e, keys)
           IN  /\ m \in Seq(K) /\ Len(m) \in Nat /\ Len(m) <= Len(keys)
               /\ Distinct(m)
               /\ \A i \in 1 .. Len(m) : m[i] \in K /\ Mentions(e, m[i]) = {}
               /\ \A k \in K : Mentions(e, k) = {} =>
                     \E i \in 1 .. Len(m) : m[i] = k
<1> DEFINE S == {k \in K : Mentions(e, k) = {}}
           m == Missing(e, keys)
<1>1. m = Keep(keys, S)
  BY DEF Missing
<1>2. m \in Seq(K) /\ Len(m) \in Nat /\ \A i \in 1 .. Len(m) : m[i] \in S
  <2> HIDE DEF S
  <2> QED BY <1>1, KeepType
<1>6. Len(m) <= Len(keys)
  <2> HIDE DEF S
  <2> QED BY <1>1, KeepLength
<1>3. Distinct(m)
  <2> HIDE DEF S
  <2> QED BY <1>1, KeepDistinct
<1>4. ASSUME NEW k \in S
      PROVE  \E i \in 1 .. Len(m) : m[i] = k
  <2>1. k \in ToSet(keys)
    OBVIOUS
  <2>2. PICK j \in 1 .. Len(keys) : keys[j] = k
    BY <2>1, LenProperties DEF ToSet
  <2> HIDE DEF S
  <2>3. \E i \in 1 .. Len(Keep(keys, S)) : Keep(keys, S)[i] = keys[j]
    BY <1>4, <2>2, KeepMembers
  <2> HIDE DEF m
  <2> QED BY <1>1, <2>2, <2>3
<1> HIDE DEF m
<1>5. \A i \in 1 .. Len(m) : m[i] \in K /\ Mentions(e, m[i]) = {}
  BY <1>2
<1> QED BY <1>2, <1>3, <1>4, <1>5, <1>6 DEF m

\* The output of a save of the keys K is a, the lines it read, and b, the
\* lines of the keys m it did not find.
SaveParts(e, c, K, a, b, m) ==
    /\ Len(a) = Len(e)
    /\ \A i \in 1 .. Len(e) :
          a[i] = IF e[i].key \in K THEN format_key(e[i].key, c) ELSE e[i]
    /\ Len(b) = Len(m) /\ Distinct(m)
    /\ \A i \in 1 .. Len(m) :
          b[i] = format_key(m[i], c) /\ m[i] \in K /\ Mentions(e, m[i]) = {}
    /\ \A k \in K : Mentions(e, k) = {} => \E i \in 1 .. Len(m) : m[i] = k

\* Such parts exist for every save, of the lines it passes on.
LEMMA SaveShape ==
    ASSUME NEW e \in Seq(AnyLine), CutOnce(e), NEW c \in Config,
           NEW K \in SUBSET Managed, NEW keys \in Seq(K), Distinct(keys),
           ToSet(keys) = K, NEW skip \in BOOLEAN, skip \/ K = Managed
    PROVE  \E a \in Seq(AnyLine), b \in Seq(AnyLine), m \in Seq(K) :
              /\ config_save_internal(e, c, keys, skip) = a \o b
              /\ SaveParts(Passed(e, K), c, K, a, b, m)
              /\ m = Missing(e, keys) /\ Len(m) \in Nat
              /\ Len(m) <= Len(keys)
<1> DEFINE q == Passed(e, K)
           m == Missing(e, keys)
           a == Kept(e, c, keys, skip)
           b == [i \in DOMAIN m |-> format_key(m[i], c)]
<1>1. config_save_internal(e, c, keys, skip) = a \o b
  BY DEF config_save_internal
<1>2. /\ a \in Seq(AnyLine) /\ Len(a) = Len(q)
      /\ \A i \in 1 .. Len(q) :
            a[i] = IF q[i].key \in K THEN format_key(q[i].key, c) ELSE q[i]
  BY KeptShape
<1>3. /\ m \in Seq(K) /\ Len(m) \in Nat /\ Len(m) <= Len(keys) /\ Distinct(m)
      /\ \A i \in 1 .. Len(m) : m[i] \in K /\ Mentions(e, m[i]) = {}
      /\ \A k \in K : Mentions(e, k) = {} => \E i \in 1 .. Len(m) : m[i] = k
  BY MissingShape
<1>q. \A k \in K : Mentions(q, k) = {} <=> Mentions(e, k) = {}
  BY PassedShape
<1>m. m = Missing(e, keys)
  OBVIOUS
<1> HIDE DEF m, a, q
<1>4. DOMAIN m = 1 .. Len(m)
  BY <1>3, LenProperties
<1>5. \A i \in 1 .. Len(m) : b[i] = format_key(m[i], c) /\ b[i] \in AnyLine
  <2>1. \A i \in 1 .. Len(m) : format_key(m[i], c) \in AnyLine
    BY <1>3, FormatType
  <2> QED BY <1>4, <2>1
<1>6. b \in Seq(AnyLine) /\ Len(b) = Len(m)
  <2>1. b \in [1 .. Len(m) -> AnyLine]
    <3>1. b = [i \in 1 .. Len(m) |-> b[i]]
      BY <1>4
    <3> HIDE DEF b
    <3> QED BY <1>5, <3>1
  <2> HIDE DEF b
  <2> QED BY <1>3, <2>1, SMTT(30)
<1> HIDE DEF b
<1>7. SaveParts(q, c, K, a, b, m)
  BY <1>2, <1>3, <1>5, <1>6, <1>q DEF SaveParts
<1> QED BY <1>1, <1>2, <1>3, <1>6, <1>7, <1>m DEF q

\* The lines say of every key in K what c says.
Written(lines, K, c) ==
    /\ \A i \in 1 .. Len(lines) :
          lines[i].key \in K => lines[i] = format_key(lines[i].key, c)
    /\ \A k \in K : \E i \in 1 .. Len(lines) : lines[i].key = k

\* The lines of a save's output, by place.
LEMMA SaveLines ==
    ASSUME NEW e \in Seq(AnyLine), NEW c \in Config, NEW K,
           NEW a \in Seq(AnyLine), NEW b \in Seq(AnyLine), NEW m \in Seq(K),
           SaveParts(e, c, K, a, b, m)
    PROVE  /\ a \o b \in Seq(AnyLine) /\ Len(a \o b) = Len(e) + Len(m)
           /\ Len(e) \in Nat /\ Len(m) \in Nat
           /\ \A i \in 1 .. Len(e) :
                 /\ (a \o b)[i] = a[i] /\ a[i].key = e[i].key
                 /\ e[i].key \in K => a[i] = format_key(e[i].key, c)
                 /\ e[i].key \notin K => a[i] = e[i]
           /\ \A i \in 1 .. Len(m) :
                 /\ (a \o b)[Len(e) + i] = format_key(m[i], c)
                 /\ b[i] = format_key(m[i], c) /\ b[i].key = m[i]
                 /\ m[i] \in K
<1>1. Len(e) \in Nat /\ Len(m) \in Nat
  BY LenProperties
<1>2. Len(a) = Len(e) /\ Len(b) = Len(m)
  BY DEF SaveParts
<1>3. /\ a \o b \in Seq(AnyLine) /\ Len(a \o b) = Len(a) + Len(b)
      /\ \A i \in 1 .. Len(a) + Len(b) :
            (a \o b)[i] = IF i <= Len(a) THEN a[i] ELSE b[i - Len(a)]
  BY ConcatProperties
<1>4. ASSUME NEW i \in 1 .. Len(e)
      PROVE  /\ (a \o b)[i] = a[i] /\ a[i].key = e[i].key
             /\ e[i].key \in K => a[i] = format_key(e[i].key, c)
             /\ e[i].key \notin K => a[i] = e[i]
  <2>1. (a \o b)[i] = a[i]
    BY <1>1, <1>2, <1>3
  <2>2. a[i] = IF e[i].key \in K THEN format_key(e[i].key, c) ELSE e[i]
    BY DEF SaveParts
  <2>3. format_key(e[i].key, c).key = e[i].key
    BY FormatText
  <2> QED BY <2>1, <2>2, <2>3
<1>5. ASSUME NEW i \in 1 .. Len(m)
      PROVE  /\ (a \o b)[Len(e) + i] = format_key(m[i], c)
             /\ b[i] = format_key(m[i], c) /\ b[i].key = m[i]
             /\ m[i] \in K
  <2>1. /\ Len(e) + i \in 1 .. Len(a) + Len(b) /\ ~ (Len(e) + i <= Len(a))
        /\ Len(e) + i - Len(a) = i
    BY <1>1, <1>2
  <2>2. (a \o b)[Len(e) + i] = b[i]
    BY <1>3, <2>1
  <2>3. b[i] = format_key(m[i], c) /\ m[i] \in K
    BY DEF SaveParts
  <2>4. format_key(m[i], c).key = m[i]
    BY FormatText
  <2> QED BY <2>2, <2>3, <2>4
<1> QED BY <1>1, <1>2, <1>3, <1>4, <1>5

\* A save writes every key it is asked for.
LEMMA SaveWritten ==
    ASSUME NEW e \in Seq(AnyLine), NEW c \in Config, NEW K,
           NEW a \in Seq(AnyLine), NEW b \in Seq(AnyLine), NEW m \in Seq(K),
           SaveParts(e, c, K, a, b, m)
    PROVE  Written(a \o b, K, c)
<1> DEFINE out == a \o b
<1>1. /\ out \in Seq(AnyLine) /\ Len(out) = Len(e) + Len(m)
      /\ Len(e) \in Nat /\ Len(m) \in Nat
      /\ \A i \in 1 .. Len(e) :
            /\ out[i] = a[i] /\ a[i].key = e[i].key
            /\ e[i].key \in K => a[i] = format_key(e[i].key, c)
      /\ \A i \in 1 .. Len(m) : /\ out[Len(e) + i] = format_key(m[i], c)
                                /\ b[i] = format_key(m[i], c)
                                /\ b[i].key = m[i]
  BY SaveLines, SMTT(30)
<1> HIDE DEF out
<1>2. ASSUME NEW i \in 1 .. Len(out), out[i].key \in K
      PROVE  out[i] = format_key(out[i].key, c)
  <2>1. CASE i <= Len(e)
    <3>1. i \in 1 .. Len(e)
      BY <1>1, <2>1
    <3>2. out[i].key = e[i].key
      BY <1>1, <3>1
    <3> QED BY <1>1, <1>2, <3>1, <3>2
  <2>2. CASE i > Len(e)
    <3> DEFINE j == i - Len(e)
    <3>1. j \in 1 .. Len(m) /\ i = Len(e) + j
      BY <1>1, <2>2
    <3> HIDE DEF j
    <3>2. out[i] = b[j] /\ b[j] = format_key(m[j], c) /\ b[j].key = m[j]
      BY <1>1, <3>1
    <3> QED BY <3>2
  <2> QED BY <1>1, <2>1, <2>2
<1>3. ASSUME NEW k \in K
      PROVE  \E i \in 1 .. Len(out) : out[i].key = k
  <2>1. CASE Mentions(e, k) # {}
    <3>1. PICK i \in 1 .. Len(e) : e[i].key = k
      BY <2>1, Mentioned
    <3>2. i \in 1 .. Len(out) /\ out[i].key = k
      BY <1>1, <3>1
    <3> QED BY <3>2
  <2>2. CASE Mentions(e, k) = {}
    <3>1. PICK i \in 1 .. Len(m) : m[i] = k
      BY <2>2 DEF SaveParts
    <3>2. Len(e) + i \in 1 .. Len(out)
      BY <1>1
    <3>3. out[Len(e) + i] = b[i] /\ b[i].key = m[i]
      BY <1>1
    <3>4. out[Len(e) + i].key = k
      BY <3>1, <3>3
    <3> QED BY <3>2, <3>4
  <2> QED BY <2>1, <2>2
<1> QED BY <1>2, <1>3 DEF Written, out

\* There are no more keys than the list has.
LEMMA ManagedFinite == IsFiniteSet(Managed)
<1>1. managed_keys \in Surjection(DOMAIN managed_keys, Managed)
  BY KeyLists, LenProperties DEF ToSet, Surjection
<1>2. IsFiniteSet(DOMAIN managed_keys)
  <2>1. DOMAIN managed_keys = 1 .. Len(managed_keys)
        /\ Len(managed_keys) \in Nat
    BY KeyLists, LenProperties
  <2> QED BY <2>1, FS_Interval
<1> QED BY <1>1, <1>2, FS_Surjection

\* A save adds a line for each key it did not find, and no more.
LEMMA SaveLength ==
    ASSUME NEW e \in Seq(AnyLine), NEW c \in Config, NEW K \in SUBSET Managed,
           NEW a \in Seq(AnyLine), NEW b \in Seq(AnyLine), NEW m \in Seq(K),
           SaveParts(e, c, K, a, b, m)
    PROVE  Len(a \o b) <=
              Len(e) + Cardinality({k \in K : Mentions(e, k) = {}})
<1> DEFINE absent == {k \in K : Mentions(e, k) = {}}
<1>1. /\ Len(a \o b) = Len(e) + Len(m)
      /\ Len(e) \in Nat /\ Len(m) \in Nat
  BY SaveLines
<1>2. IsFiniteSet(absent)
  <2>1. absent \in SUBSET Managed
    OBVIOUS
  <2> HIDE DEF absent
  <2> QED BY <2>1, ManagedFinite, FS_Subset
<1>3. m \in Injection(1 .. Len(m), absent)
  <2>1. \A i \in 1 .. Len(m) : m[i] \in absent
    BY DEF SaveParts
  <2>2. m \in [1 .. Len(m) -> absent]
    <3>1. m \in [1 .. Len(m) -> K]
      BY LenProperties
    <3> HIDE DEF absent
    <3> QED BY <2>1, <3>1
  <2>3. Distinct(m)
    BY DEF SaveParts
  <2> HIDE DEF absent
  <2> QED BY <2>2, <2>3 DEF Distinct, Injection, IsInjective
<1> HIDE DEF absent
<1>4. Cardinality(1 .. Len(m)) <= Cardinality(absent)
  BY <1>2, <1>3, FS_Injection
<1>5. Cardinality(1 .. Len(m)) = Len(m)
  <2>0. 1 \in Int /\ Len(m) \in Int
    BY <1>1
  <2>1. Cardinality(1 .. Len(m)) = IF 1 > Len(m) THEN 0 ELSE Len(m) - 1 + 1
    BY <2>0, FS_Interval, Zenon
  <2> QED BY <1>1, <2>1
<1>6. Cardinality(absent) \in Nat
  BY <1>2, FS_CardinalityType
<1>7. Len(a \o b) <= Len(e) + Cardinality(absent)
  BY <1>1, <1>4, <1>5, <1>6
<1> QED BY <1>7 DEF absent

\* A save keeps the lines it does not manage, in their order.
LEMMA SaveOthers ==
    ASSUME NEW e \in Seq(AnyLine), NEW c \in Config, NEW K \in SUBSET Managed,
           NEW a \in Seq(AnyLine), NEW b \in Seq(AnyLine), NEW m \in Seq(K),
           SaveParts(e, c, K, a, b, m)
    PROVE  Others(a \o b) = Others(e)
<1>1. /\ Len(a) = Len(e) /\ Len(b) = Len(m)
      /\ \A i \in 1 .. Len(e) :
            /\ a[i].key = e[i].key
            /\ e[i].key \notin K => a[i] = e[i]
      /\ \A i \in 1 .. Len(m) : b[i].key = m[i] /\ m[i] \in K
  <2>1. Len(a) = Len(e) /\ Len(b) = Len(m)
    BY DEF SaveParts
  <2> QED BY <2>1, SaveLines
<1>2. /\ \A i \in 1 .. Len(e) : e[i] \in AnyLine
      /\ \A i \in 1 .. Len(a) : a[i] \in AnyLine
      /\ \A i \in 1 .. Len(b) : b[i] \in AnyLine
  BY ElementOfSeq
<1>3. Others(a) = Others(e)
  <2>1. \A i \in 1 .. Len(a) :
           a[i] \in Keyed({"other"}) \/ e[i] \in Keyed({"other"}) => a[i] = e[i]
    BY <1>1, <1>2, LineFields, OtherKey
  <2> QED BY <1>1, <2>1, KeepSame DEF Others
<1>4. Others(b) = <<>>
  <2>1. \A i \in 1 .. Len(b) : b[i] \notin Keyed({"other"})
    BY <1>1, <1>2, LineFields, OtherKey
  <2> QED BY <2>1, KeepNone DEF Others
<1>5. Others(a \o b) = Others(a) \o Others(b)
  BY KeepConcat DEF Others
<1>6. Others(e) \in Seq(AnyLine)
  BY KeepType DEF Others
<1> QED BY <1>3, <1>4, <1>5, <1>6, ConcatEmptySeq

\* The output of a save of the keys K over the lines found: a line without its
\* newline and the line behind it are what the save spoils.
Saved(out, found, keys, K, c) ==
    /\ out \in Seq(AnyLine) /\ OneCut(out) /\ Written(out, K, c)
    /\ \A i \in 1 .. Len(out) : out[i].key \in K \cup {"other"}
    /\ \A i \in 1 .. (Len(out) - 1) :
          ~ out[i].nl => Spoiled(found, keys) =
                {out[i + 1].key} \cup (Managed \cap {out[i].text.word})
    /\ Others(out) = Others(found)
    /\ Len(out) <= Len(found) + Len(keys)
    /\ Len(out) <=
          Len(found) + Cardinality({k \in K : Mentions(found, k) = {}})

\* This is what every save writes.
LEMMA SaveOutput ==
    ASSUME NEW e \in Seq(AnyLine), CutOnce(e), NEW c \in Config,
           NEW K \in SUBSET Managed, NEW keys \in Seq(K), Distinct(keys),
           ToSet(keys) = K, NEW skip \in BOOLEAN, skip \/ K = Managed
    PROVE  Saved(config_save_internal(e, c, keys, skip), e, keys, K, c)
<1> DEFINE q == Passed(e, K)
           out == config_save_internal(e, c, keys, skip)
<1>1. PICK a \in Seq(AnyLine), b \in Seq(AnyLine), m \in Seq(K) :
           /\ out = a \o b /\ SaveParts(q, c, K, a, b, m)
           /\ m = Missing(e, keys) /\ Len(m) \in Nat /\ Len(m) <= Len(keys)
  BY SaveShape
<1>2. /\ q \in Seq(AnyLine) /\ Len(q) \in Nat /\ Len(q) <= Len(e)
      /\ CutOnce(q)
      /\ \A i \in 1 .. Len(q) :
            q[i] \in AnyLine /\ q[i].key \in K \cup {"other"}
      /\ \A i \in 1 .. Len(q) : ~ q[i].nl => Len(e) > 0 /\ q[i] = e[Len(e)]
      /\ \A k \in K : Mentions(q, k) = {} <=> Mentions(e, k) = {}
      /\ Others(q) = Others(e)
  BY PassedShape
<1>e. Len(e) \in Nat /\ Len(keys) \in Nat
  BY LenProperties
<1> HIDE DEF q, out
<1>3. Written(out, K, c)
  BY <1>1, <1>2, SaveWritten
<1>4. Others(out) = Others(e)
  <2>0. q \in Seq(AnyLine) /\ SaveParts(q, c, K, a, b, m)
    BY <1>1, <1>2
  <2>1. Others(a \o b) = Others(q)
    BY <2>0, SaveOthers
  <2> QED BY <1>1, <1>2, <2>1
<1>5. /\ out \in Seq(AnyLine) /\ Len(out) = Len(q) + Len(m)
      /\ \A i \in 1 .. Len(q) :
            /\ out[i] = a[i] /\ a[i].key = q[i].key
            /\ q[i].key \in K => a[i] = format_key(q[i].key, c)
            /\ q[i].key \notin K => a[i] = q[i]
      /\ \A i \in 1 .. Len(m) : /\ out[Len(q) + i] = format_key(m[i], c)
                                /\ m[i] \in K
  <2>1. /\ a \o b \in Seq(AnyLine) /\ Len(a \o b) = Len(q) + Len(m)
        /\ \A i \in 1 .. Len(q) :
              /\ (a \o b)[i] = a[i] /\ a[i].key = q[i].key
              /\ q[i].key \in K => a[i] = format_key(q[i].key, c)
              /\ q[i].key \notin K => a[i] = q[i]
        /\ \A i \in 1 .. Len(m) : /\ (a \o b)[Len(q) + i] = format_key(m[i], c)
                                  /\ m[i] \in K
    BY <1>1, <1>2, SaveLines, SMTT(30)
  <2> QED BY <1>1, <2>1
<1>6. \A k : format_key(k, c).nl /\ format_key(k, c).key = k
  BY FormatText
<1>7. ASSUME NEW i \in 1 .. Len(out)
      PROVE  /\ out[i].key \in K \cup {"other"}
             /\ \/ out[i].nl
                \/ /\ out[i].key = "other" /\ i = Len(q)
                   /\ Len(e) > 0 /\ out[i] = e[Len(e)]
  <2>1. CASE i \in 1 .. Len(q)
    <3>1. CASE q[i].key \in K
      BY <1>5, <1>6, <2>1, <3>1
    <3>2. CASE q[i].key \notin K
      <4>1. out[i] = q[i] /\ q[i].key = "other"
        BY <1>2, <1>5, <2>1, <3>2
      <4>2. q[i].nl \/ (i = Len(q) /\ Len(e) > 0 /\ q[i] = e[Len(e)])
        BY <1>2, <2>1 DEF CutOnce
      <4> QED BY <4>1, <4>2
    <3> QED BY <3>1, <3>2
  <2>2. CASE i > Len(q)
    <3> DEFINE j == i - Len(q)
    <3>1. j \in 1 .. Len(m) /\ i = Len(q) + j
      BY <1>1, <1>2, <1>5, <2>2
    <3> HIDE DEF j
    <3> QED BY <1>5, <1>6, <3>1
  <2> QED BY <1>1, <1>2, <1>5, <2>1, <2>2
<1>8. OneCut(out)
  BY <1>7 DEF OneCut
<1>9. ASSUME NEW i \in 1 .. (Len(out) - 1), ~ out[i].nl
      PROVE  Spoiled(e, keys) =
                {out[i + 1].key} \cup (Managed \cap {out[i].text.word})
  <2>1. i \in 1 .. Len(out)
    BY <1>1, <1>2, <1>5
  <2>2. /\ out[i].key = "other" /\ i = Len(q)
        /\ Len(e) > 0 /\ out[i] = e[Len(e)]
    BY <1>7, <1>9, <2>1
  <2>3. Len(m) > 0 /\ 1 \in 1 .. Len(m)
    BY <1>1, <1>2, <1>5, <2>2
  <2>4. out[i + 1].key = m[1]
    <3>1. out[Len(q) + 1] = format_key(m[1], c)
      BY <1>5, <2>3
    <3> QED BY <1>6, <2>2, <3>1
  <2>5. e # <<>> /\ m # <<>>
    <3>1. Len(<<>>) = 0
      OBVIOUS
    <3> QED BY <2>2, <2>3, <3>1
  <2>6. Last(e) = e[Len(e)] /\ Head(m) = m[1]
    <3>1. Head(m) = m[1]
      BY <1>1, <2>5
    <3> QED BY <3>1 DEF Last
  <2>7. ~ (e = <<>> \/ m = <<>> \/ Last(e).nl \/ Last(e).key # "other")
    BY <1>9, <2>2, <2>5, <2>6
  <2>8. Spoiled(e, keys) = {Head(m)} \cup (Managed \cap {Last(e).text.word})
    BY <1>1, <2>7 DEF Spoiled
  <2> QED BY <2>2, <2>4, <2>6, <2>8
<1>10. Len(out) <= Len(e) + Len(keys)
  BY <1>1, <1>2, <1>5, <1>e
<1>11. Len(out) <= Len(e) + Cardinality({k \in K : Mentions(e, k) = {}})
  <2>1. Len(out) <= Len(q) + Cardinality({k \in K : Mentions(q, k) = {}})
    BY <1>1, <1>2, SaveLength
  <2>2. {k \in K : Mentions(q, k) = {}} = {k \in K : Mentions(e, k) = {}}
    BY <1>2
  <2> DEFINE n == Cardinality({k \in K : Mentions(e, k) = {}})
  <2>3. n \in Nat
    <3>1. IsFiniteSet(Managed)
      BY ManagedFinite
    <3>2. {k \in K : Mentions(e, k) = {}} \in SUBSET Managed
      OBVIOUS
    <3> QED BY <3>1, <3>2, FS_Subset, FS_CardinalityType
  <2>4. Len(out) <= Len(q) + n
    BY <2>1, <2>2
  <2> HIDE DEF n
  <2>5. Len(out) \in Nat
    BY <1>5, LenProperties
  <2>6. Len(out) <= Len(e) + n
    BY <1>2, <1>e, <2>3, <2>4, <2>5
  <2> QED BY <2>6 DEF n
<1> QED BY <1>3, <1>4, <1>5, <1>7, <1>8, <1>9, <1>10, <1>11 DEF Saved, out

\* Both saves of a POST.
LEMMA SaveOutputs ==
    ASSUME NEW e \in Seq(AnyLine), CutOnce(e), NEW c \in Config
    PROVE  /\ Saved(config_save_internal(e, c, managed_keys, FALSE),
                    e, managed_keys, Managed, c)
           /\ Saved(config_save_internal(e, c, strand_keys, TRUE),
                    e, strand_keys, Strand, c)
<1>1. Managed \in SUBSET Managed /\ Strand \in SUBSET Managed
  BY OtherKey
<1>2. Saved(config_save_internal(e, c, managed_keys, FALSE),
            e, managed_keys, Managed, c)
  <2>1. FALSE \in BOOLEAN /\ (FALSE \/ Managed = Managed)
    OBVIOUS
  <2> QED BY <1>1, <2>1, KeyLists, SaveOutput
<1>3. Saved(config_save_internal(e, c, strand_keys, TRUE),
            e, strand_keys, Strand, c)
  <2>1. TRUE \in BOOLEAN /\ (TRUE \/ Strand = Managed)
    OBVIOUS
  <2> QED BY <1>1, <2>1, KeyLists, SaveOutput
<1> QED BY <1>2, <1>3

\* Of the keys in K, and of no others but those in X, a reader of the lines p
\* sees what c says.
Sees(p, X, K, c) ==
    /\ OneCut(p) /\ Lines(p) \in Seq(AnyLine) /\ CutOnce(Lines(p))
    /\ \A i \in 1 .. Len(Lines(p)) :
          Lines(p)[i].key \in Managed \ X =>
             /\ Lines(p)[i].key \in K
             /\ Lines(p)[i] = format_key(Lines(p)[i].key, c)

\* What a reader sees of the beginning of a save's output: of the keys that
\* are not spoiled, those that were asked for, and as c has them.
LEMMA SavePart ==
    ASSUME NEW found, NEW keys, NEW K \in SUBSET Managed, NEW c,
           NEW p \in Seq(AnyLine), NEW t \in Seq(AnyLine),
           Saved(p \o t, found, keys, K, c)
    PROVE  Sees(p, Spoiled(found, keys), K, c)
<1> DEFINE out == p \o t
           l == Lines(p)
           X == Spoiled(found, keys)
<1>1. OneCut(p)
  BY CutShapes DEF Saved
<1>2. /\ l \in Seq(AnyLine) /\ CutOnce(l)
      /\ \/ l = p
         \/ \E i \in 1 .. Len(p) : GluedAt(p, l, i)
  BY <1>1, LinesShape
<1>3. /\ Len(out) = Len(p) + Len(t) /\ Len(p) \in Nat /\ Len(t) \in Nat
      /\ Len(l) \in Nat
      /\ \A i \in 1 .. Len(p) : i \in 1 .. Len(out) /\ out[i] = p[i]
  <2>1. Len(l) \in Nat
    BY <1>2, LenProperties
  <2>2. /\ Len(p \o t) = Len(p) + Len(t) /\ Len(p) \in Nat /\ Len(t) \in Nat
        /\ \A i \in 1 .. Len(p) + Len(t) :
              (p \o t)[i] = IF i <= Len(p) THEN p[i] ELSE t[i - Len(p)]
    BY ConcatProperties, LenProperties
  <2> HIDE DEF l
  <2> QED BY <2>1, <2>2
<1>4. \A i \in 1 .. Len(p) :
         /\ p[i] \in AnyLine /\ p[i].key \in K \cup {"other"}
         /\ p[i].key \in K => p[i] = format_key(p[i].key, c)
  <2>1. \A i \in 1 .. Len(out) :
           /\ out[i].key \in K \cup {"other"}
           /\ out[i].key \in K => out[i] = format_key(out[i].key, c)
    BY DEF Saved, Written
  <2> HIDE DEF out
  <2> QED BY <1>3, <2>1, ElementOfSeq
<1>5. \A i \in 1 .. (Len(p) - 1) :
         ~ p[i].nl => X = {p[i + 1].key} \cup (Managed \cap {p[i].text.word})
  <2>1. \A i \in 1 .. (Len(out) - 1) :
           ~ out[i].nl =>
              X = {out[i + 1].key} \cup (Managed \cap {out[i].text.word})
    BY DEF Saved
  <2> HIDE DEF out, X
  <2> SUFFICES ASSUME NEW i \in 1 .. (Len(p) - 1), ~ p[i].nl
               PROVE  X = {p[i + 1].key} \cup (Managed \cap {p[i].text.word})
    OBVIOUS
  <2>2. /\ i \in 1 .. Len(p) /\ i + 1 \in 1 .. Len(p)
        /\ i \in 1 .. (Len(out) - 1)
    BY <1>3
  <2> QED BY <1>3, <2>1, <2>2
<1> HIDE DEF l, X, out
<1>6. ASSUME NEW i \in 1 .. Len(l), l[i].key \in Managed \ X
      PROVE  l[i].key \in K /\ l[i] = format_key(l[i].key, c)
  <2>1. ASSUME NEW j \in 1 .. Len(p), l[i] = p[j]
        PROVE  l[i].key \in K /\ l[i] = format_key(l[i].key, c)
    BY <1>4, <1>6, <2>1, OtherKey
  <2>2. CASE l = p
    BY <2>1, <2>2
  <2>3. CASE \E n \in 1 .. Len(p) : GluedAt(p, l, n)
    <3>1. PICK n \in 1 .. Len(p) : GluedAt(p, l, n)
      BY <2>3
    <3>2. /\ n \in 1 .. (Len(p) - 1) /\ ~ p[n].nl /\ p[n].key = "other"
          /\ Len(l) = Len(p) - 1 /\ l[n] = Glued(p[n], p[n + 1])
          /\ \A j \in 1 .. (n - 1) : l[j] = p[j]
          /\ \A j \in (n + 1) .. Len(l) : l[j] = p[j + 1]
      BY <3>1 DEF GluedAt
    <3>3. CASE i < n
      <4>1. i \in 1 .. (n - 1) /\ i \in 1 .. Len(p)
        BY <1>3, <3>2, <3>3
      <4> QED BY <2>1, <3>2, <4>1
    <3>4. CASE i > n
      <4>1. i \in (n + 1) .. Len(l) /\ i + 1 \in 1 .. Len(p)
        BY <1>3, <3>2, <3>4
      <4> QED BY <2>1, <3>2, <4>1
    <3>5. CASE i = n
      <4>1. n + 1 \in 1 .. Len(p)
        BY <1>3, <3>2
      <4>2. p[n] \in AnyLine /\ p[n + 1] \in AnyLine
        BY <1>4, <4>1
      <4>3. Glued(p[n], p[n + 1]).key \in
               {"other"} \cup (Managed \cap {p[n].text.word})
        BY <3>2, <4>2, GluedType
      <4>4. l[i].key \in {"other"} \cup (Managed \cap {p[n].text.word})
        BY <3>2, <3>5, <4>3
      <4>5. Managed \cap {p[n].text.word} \subseteq X
        BY <1>5, <3>2
      <4>6. l[i].key \notin X
        BY <1>6
      <4> QED BY <1>6, <4>4, <4>5, <4>6, OtherKey
    <3> QED BY <1>3, <3>2, <3>3, <3>4, <3>5
  <2> QED BY <1>2, <2>2, <2>3
<1> QED BY <1>1, <1>2, <1>6 DEF Sees, l, X

\* What a reader sees of all of it: every key that is not spoiled.  If none is,
\* it sees every line, too.
LEMMA SaveWhole ==
    ASSUME NEW found, NEW keys, NEW K \in SUBSET Managed, NEW c,
           NEW out, Saved(out, found, keys, K, c)
    PROVE  /\ Lines(out) \in Seq(AnyLine) /\ CutOnce(Lines(out))
           /\ Written(Lines(out), K \ Spoiled(found, keys), c)
           /\ \A i \in 1 .. Len(Lines(out)) :
                 Lines(out)[i].key \notin (Managed \ K) \ Spoiled(found, keys)
           /\ Spoiled(found, keys) = {} => Others(Lines(out)) = Others(found)
<1> DEFINE l == Lines(out)
           X == Spoiled(found, keys)
<1>1. out \in Seq(AnyLine) /\ <<>> \in Seq(AnyLine) /\ out = out \o <<>>
  BY EmptySeq, ConcatEmptySeq DEF Saved
<1>2. /\ l \in Seq(AnyLine) /\ CutOnce(l) /\ OneCut(out)
      /\ \A i \in 1 .. Len(l) :
            l[i].key \in Managed \ X =>
               l[i].key \in K /\ l[i] = format_key(l[i].key, c)
  <2> DEFINE t == <<>>
  <2>1. Saved(out \o t, found, keys, K, c) /\ t \in Seq(AnyLine)
    BY <1>1
  <2> HIDE DEF t
  <2>2. Sees(out, Spoiled(found, keys), K, c)
    <3>1. out \in Seq(AnyLine)
      BY <1>1
    <3> QED BY <2>1, <3>1, SavePart
  <2> QED BY <2>2 DEF Sees
<1>3. \/ l = out
      \/ \E i \in 1 .. Len(out) : GluedAt(out, l, i)
  BY <1>1, <1>2, LinesShape
<1>4. /\ \A i \in 1 .. (Len(out) - 1) :
            ~ out[i].nl =>
               X = {out[i + 1].key} \cup (Managed \cap {out[i].text.word})
      /\ \A k \in K : \E i \in 1 .. Len(out) : out[i].key = k
      /\ Others(out) = Others(found)
  BY DEF Saved, Written
<1>5. Len(out) \in Nat /\ Len(l) \in Nat
  BY <1>1, <1>2, LenProperties
<1> HIDE DEF l, X
<1>6. ASSUME NEW k \in K \ X
      PROVE  \E i \in 1 .. Len(l) : l[i].key = k
  <2>1. PICK j \in 1 .. Len(out) : out[j].key = k
    BY <1>4
  <2>2. CASE l = out
    BY <2>1, <2>2
  <2>3. CASE \E n \in 1 .. Len(out) : GluedAt(out, l, n)
    <3>1. PICK n \in 1 .. Len(out) : GluedAt(out, l, n)
      BY <2>3
    <3>2. /\ n \in 1 .. (Len(out) - 1) /\ ~ out[n].nl /\ out[n].key = "other"
          /\ Len(l) = Len(out) - 1
          /\ \A i \in 1 .. (n - 1) : l[i] = out[i]
          /\ \A i \in (n + 1) .. Len(l) : l[i] = out[i + 1]
      BY <3>1 DEF GluedAt
    <3>3. j # n
      BY <2>1, <3>2, OtherKey
    <3>4. j # n + 1
      <4>1. out[n + 1].key \in X
        BY <1>4, <3>2
      <4> QED BY <2>1, <4>1
    <3>5. CASE j < n
      <4>1. j \in 1 .. (n - 1) /\ j \in 1 .. Len(l)
        BY <1>5, <3>2, <3>5
      <4> QED BY <2>1, <3>2, <4>1
    <3>6. CASE j > n + 1
      <4>1. /\ j - 1 \in (n + 1) .. Len(l) /\ j - 1 \in 1 .. Len(l)
            /\ (j - 1) + 1 = j
        BY <1>5, <3>2, <3>6
      <4>2. l[j - 1] = out[j]
        BY <3>2, <4>1
      <4> QED BY <2>1, <4>1, <4>2
    <3> QED BY <1>5, <3>2, <3>3, <3>4, <3>5, <3>6
  <2> QED BY <1>3, <2>2, <2>3
<1>7. ASSUME X = {}
      PROVE  Others(l) = Others(found)
  <2>1. ~ \E n \in 1 .. Len(out) : GluedAt(out, l, n)
    <3> SUFFICES ASSUME NEW n \in 1 .. Len(out), GluedAt(out, l, n)
                 PROVE  FALSE
      OBVIOUS
    <3>1. n \in 1 .. (Len(out) - 1) /\ ~ out[n].nl
      BY DEF GluedAt
    <3>2. out[n + 1].key \in X
      BY <1>4, <3>1
    <3> QED BY <1>7, <3>2
  <2> QED BY <1>3, <1>4, <2>1
<1>8. Written(l, K \ X, c)
  BY <1>2, <1>6 DEF Written
<1>9. \A i \in 1 .. Len(l) : l[i].key \notin (Managed \ K) \ X
  BY <1>2
<1> QED BY <1>2, <1>7, <1>8, <1>9 DEF l, X

(***************************************************************************)
(* What is loaded.                                                         *)
(***************************************************************************)

\* The fields of a saved configuration.
LEMMA AsSavedFields ==
    ASSUME NEW c \in Config
    PROVE  /\ AsSaved(c) = [k \in Managed |-> AsSaved(c)[k]]
           /\ AsSaved(c).addr_mode =
                 IF c.addr_mode = "sentinel" THEN "static" ELSE c.addr_mode
           /\ \A k \in Managed \ {"addr_mode"} : AsSaved(c)[k] = c[k]
  BY Keys DEF AsSaved, Config

\* A line of c's for a key, or the default.
LEMMA LoadedField ==
    ASSUME NEW p \in Seq(AnyLine), NEW c \in Config,
           c.addr_mode = "dhcp" => c.nodeaddr = 0, NEW k \in Managed,
           \A i \in 1 .. Len(p) : p[i].key = k => p[i] = format_key(k, c)
    PROVE  Fields(p)[k] = IF \E i \in 1 .. Len(p) : p[i].key = k
                          THEN AsSaved(c)[k] ELSE config_defaults[k]
<1>1. Fields(p)[k] = IF Mentions(p, k) = {} THEN config_defaults[k]
                     ELSE parse_key(k, LastText(p, k))
  BY DEF Fields
<1>2. CASE Mentions(p, k) = {}
  <2>1. ~ \E i \in 1 .. Len(p) : p[i].key = k
    BY <1>2, Mentioned
  <2> QED BY <1>1, <1>2, <2>1, Zenon
<1>3. CASE Mentions(p, k) # {}
  <2>1. PICK i \in 1 .. Len(p) :
           p[i].key = k /\ LastText(p, k) = p[i].text
    BY <1>3, LastMention
  <2>2. LastText(p, k) = format_key(k, c).text
    BY <2>1
  <2>3. parse_key(k, format_key(k, c).text) = AsSaved(c)[k]
    BY RoundTrip
  <2> QED BY <1>1, <1>3, <2>1, <2>2, <2>3, Zenon
<1> QED BY <1>2, <1>3

\* Every file loads as a configuration in range.
LEMMA LoadType ==
    ASSUME NEW file \in File, OneCut(file.lines)
    PROVE  config_load(file) \in Config
<1>1. file.lines \in Seq(AnyLine)
  BY DEF File
<1>2. Lines(file.lines) \in Seq(AnyLine)
  BY <1>1, LinesShape
<1>3. Inferred(Fields(Lines(file.lines))) \in Config
  BY <1>2, FieldsType, InferredType
<1> QED BY <1>3, DefaultsType DEF config_load

\* What is read of a configuration's lines is loaded as it was saved.
LEMMA ConfigLoads ==
    ASSUME NEW file, file.there, NEW c \in Config,
           c.addr_mode = "dhcp" => c.nodeaddr = 0, NEW X,
           Lines(file.lines) \in Seq(AnyLine),
           Written(Lines(file.lines), Managed \ X, c)
    PROVE  \A k \in Managed \ X : config_load(file)[k] = AsSaved(c)[k]
<1> DEFINE p == Lines(file.lines)
           g == Fields(p)
           f == config_load(file)
<1>1. f = Inferred(g)
  BY DEF config_load
<1>2. ASSUME NEW k \in Managed \ X
      PROVE  g[k] = AsSaved(c)[k]
  <2>1. \A i \in 1 .. Len(p) : p[i].key = k => p[i] = format_key(k, c)
    BY DEF Written
  <2>2. \E i \in 1 .. Len(p) : p[i].key = k
    BY DEF Written
  <2>3. g[k] = IF \E i \in 1 .. Len(p) : p[i].key = k
               THEN AsSaved(c)[k] ELSE config_defaults[k]
    <3>1. p \in Seq(AnyLine) /\ k \in Managed
      OBVIOUS
    <3> HIDE DEF p
    <3> QED BY <2>1, <3>1, LoadedField
  <2> QED BY <2>2, <2>3, Zenon
<1>3. g \in Config
  BY FieldsType
<1> HIDE DEF p, g
<1>4. ASSUME NEW k \in Managed \ X
      PROVE  f[k] = AsSaved(c)[k]
  <2>1. CASE k = "addr_mode"
    <3>1. AsSaved(c).addr_mode # "sentinel"
      BY AsSavedFields
    <3>2. g.addr_mode # "sentinel"
      BY <1>2, <2>1, <3>1
    <3>3. f = g
      BY <1>1, <3>2 DEF Inferred
    <3> QED BY <1>2, <3>3
  <2>2. CASE k # "addr_mode"
    <3>1. f[k] = g[k]
      <4>1. DOMAIN g = Managed
        BY <1>3, Keys DEF Config
      <4> HIDE DEF f
      <4> QED BY <1>1, <2>2, <4>1 DEF Inferred
    <3> QED BY <1>2, <3>1
  <2> QED BY <2>1, <2>2
<1> QED BY <1>4

\* A file of Strand's keys gives back all of them, and an address mode that
\* follows from the address.
LEMMA StrandLoads ==
    ASSUME NEW lines, NEW c \in Config,
           c.addr_mode = "dhcp" => c.nodeaddr = 0,
           Lines(lines) \in Seq(AnyLine), Written(Lines(lines), Strand, c),
           \A i \in 1 .. Len(Lines(lines)) :
              Lines(lines)[i].key # "addr_mode"
    PROVE  LET f == config_load(FileOf(lines))
           IN  /\ \A k \in Strand : f[k] = c[k]
               /\ f.addr_mode = IF c.nodeaddr = 0 THEN "dhcp" ELSE "static"
<1> DEFINE p == Lines(lines)
           g == Fields(p)
           f == config_load(FileOf(lines))
<1>1. p \in Seq(AnyLine) /\ Written(p, Strand, c)
  OBVIOUS
<1>2. f = Inferred(g)
  BY DEF config_load, FileOf
<1>p. \A i \in 1 .. Len(p) : p[i].key # "addr_mode"
  OBVIOUS
<1> HIDE DEF p
<1>3. ASSUME NEW k \in Strand
      PROVE  g[k] = c[k]
  <2>1. k \in Managed /\ k # "addr_mode"
    BY Keys
  <2>2. \A i \in 1 .. Len(p) : p[i].key = k => p[i] = format_key(k, c)
    BY <1>1 DEF Written
  <2>3. \E i \in 1 .. Len(p) : p[i].key = k
    BY <1>1 DEF Written
  <2>4. Fields(p)[k] = IF \E i \in 1 .. Len(p) : p[i].key = k
                       THEN AsSaved(c)[k] ELSE config_defaults[k]
    BY <1>1, <2>1, <2>2, LoadedField
  <2>5. AsSaved(c)[k] = c[k]
    BY <2>1, AsSavedFields
  <2> QED BY <2>3, <2>4, <2>5, Zenon
<1>4. g.addr_mode = "sentinel"
  <2>1. \A i \in 1 .. Len(p) : p[i].key # "addr_mode"
    BY <1>p
  <2>2. Mentions(p, "addr_mode") = {}
    BY <1>1, <2>1, Mentioned
  <2>3. "addr_mode" \in Managed
    BY Keys
  <2>4. g["addr_mode"] = config_defaults["addr_mode"]
    BY <2>2, <2>3 DEF Fields
  <2>5. config_defaults["addr_mode"] = "sentinel"
    BY DEF config_defaults
  <2> HIDE DEF g
  <2> QED BY <2>4, <2>5
<1>5. g \in Config
  BY <1>1, FieldsType
<1> HIDE DEF g, f
<1>6. f = [g EXCEPT !.addr_mode = IF g.nodeaddr = 0 THEN "dhcp" ELSE "static"]
  BY <1>2, <1>4 DEF Inferred
<1>7. f.addr_mode = IF g.nodeaddr = 0 THEN "dhcp" ELSE "static"
  BY <1>5, <1>6 DEF Config
<1>8. \A k \in Strand : f[k] = g[k]
  <2>1. \A k \in Strand : k # "addr_mode"
    BY Keys
  <2>2. DOMAIN g = Managed
    BY <1>5, Keys DEF Config
  <2> QED BY <1>6, <2>1, <2>2, OtherKey
<1>9. g.nodeaddr = c.nodeaddr
  BY <1>3, Keys
<1> QED BY <1>3, <1>7, <1>8, <1>9 DEF f

\* Of a part of a saved file every key is loaded as saved or by default, or,
\* for the address mode, by inference.
LEMMA PartLoads ==
    ASSUME NEW file, file.there, NEW c \in Config,
           c.addr_mode = "dhcp" => c.nodeaddr = 0,
           Lines(file.lines) \in Seq(AnyLine), NEW k \in Managed,
           \A i \in 1 .. Len(Lines(file.lines)) :
              Lines(file.lines)[i].key = k =>
                 Lines(file.lines)[i] = format_key(k, c)
    PROVE  LET f == config_load(file)
           IN  \/ f[k] \in {AsSaved(c)[k], config_defaults[k]}
               \/ /\ k = "addr_mode"
                  /\ f = Inferred([f EXCEPT !.addr_mode = "sentinel"])
<1> DEFINE p == Lines(file.lines)
           g == Fields(p)
           f == config_load(file)
<1>1. /\ p \in Seq(AnyLine)
      /\ \A i \in 1 .. Len(p) : p[i].key = k => p[i] = format_key(k, c)
  OBVIOUS
<1>2. f = Inferred(g)
  BY DEF config_load
<1>3. g \in Config
  BY <1>1, FieldsType
<1>4. g[k] \in {AsSaved(c)[k], config_defaults[k]}
  <2> HIDE DEF p
  <2>1. g[k] = IF \E i \in 1 .. Len(p) : p[i].key = k
               THEN AsSaved(c)[k] ELSE config_defaults[k]
    BY <1>1, LoadedField
  <2> HIDE DEF g
  <2> QED BY <2>1
<1> HIDE DEF p, g, f
<1>5. CASE g.addr_mode # "sentinel"
  BY <1>2, <1>4, <1>5 DEF Inferred, f
<1>6. CASE g.addr_mode = "sentinel"
  <2> DEFINE mode == IF g.nodeaddr = 0 THEN "dhcp" ELSE "static"
  <2>1. f = [g EXCEPT !.addr_mode = mode]
    BY <1>2, <1>6 DEF Inferred
  <2>2. DOMAIN g = Managed /\ g = [j \in Managed |-> g[j]]
    BY <1>3, Keys DEF Config
  <2> HIDE DEF mode
  <2>3. CASE k = "addr_mode"
    <3>1. [f EXCEPT !.addr_mode = "sentinel"] = g
      BY <1>6, <2>1, <2>2, Keys
    <3> QED BY <1>2, <2>3, <3>1 DEF f
  <2>4. CASE k # "addr_mode"
    <3>1. f[k] = g[k]
      BY <2>1, <2>2, <2>4
    <3> QED BY <1>4, <3>1 DEF f
  <2> QED BY <2>3, <2>4
<1> QED BY <1>5, <1>6

(***************************************************************************)
(* Forms and buffers.                                                      *)
(***************************************************************************)

\* Every form leaves the configuration in range, and DHCP no address.
LEMMA FormType ==
    ASSUME NEW form \in Forms, NEW c \in Config
    PROVE  LET f == parse_formdata(form, c)
           IN  f \in Config /\ (f.addr_mode = "dhcp" => f.nodeaddr = 0)
<1>1. \A k \in DOMAIN form : form[k] \in Text
  BY StoreAssumption
<1>2. \A t \in Text : t.num \in Int
  BY DEF Text
<1> DEFINE has(k) == k \in DOMAIN form
           v1 == IF has("ipaddr") THEN parse_ip(form.ipaddr) ELSE c.nodeaddr
           v2 == IF has("protocol") THEN parse_protocol(form.protocol)
                                    ELSE c.protocol
           v3 == IF has("dmx_hold_time")
                 THEN Clamp(form.dmx_hold_time.num, 0, 300)
                 ELSE c.dmx_holdtime
           v4 == IF has("port0_mode") THEN parse_mode(form.port0_mode)
                                      ELSE c.dmx_port0_mode
           v5 == IF has("addr_mode") THEN parse_addr_mode(form.addr_mode)
                                     ELSE c.addr_mode
           v6 == IF has("lcd_contrast")
                 THEN Clamp(form.lcd_contrast.num, 0, 255)
                 ELSE c.lcd_contrast
           v7 == IF has("port1_label") THEN form.port1_label ELSE c.dmx2_label
           merged == [nodeaddr |-> v1, protocol |-> v2, dmx_holdtime |-> v3,
                      dmx_port0_mode |-> v4, dmx2_label |-> v7,
                      addr_mode |-> v5, lcd_contrast |-> v6]
<1>c. /\ c.nodeaddr \in Nat /\ c.dmx_holdtime \in 0 .. UINT16_MAX
      /\ c.lcd_contrast \in 0 .. 255
      /\ c.protocol \in {"sacn", "artnet", "shownet", "none"}
      /\ c.dmx_port0_mode \in {"tx", "rx", "off"}
      /\ c.addr_mode \in {"dhcp", "static", "dhcp_static", "sentinel"}
  BY DEF Config
<1>3. v1 \in Nat
  BY <1>1, <1>2, <1>c DEF parse_ip
<1>4. v2 \in {"sacn", "artnet", "shownet", "none"}
  BY <1>c DEF parse_protocol
<1>5. v3 \in 0 .. UINT16_MAX
  <2>1. 0 .. 300 \subseteq 0 .. UINT16_MAX
    BY UINT16_MAXType
  <2>2. has("dmx_hold_time") => v3 \in 0 .. 300
    <3>1. \A n \in Int : Clamp(n, 0, 300) \in 0 .. 300
      BY DEF Clamp
    <3>2. has("dmx_hold_time") => form.dmx_hold_time.num \in Int
      BY <1>1, <1>2
    <3> QED BY <3>1, <3>2
  <2> QED BY <1>c, <2>1, <2>2
<1>6. v4 \in {"tx", "rx", "off"}
  BY <1>c DEF parse_mode
<1>7. v5 \in {"dhcp", "static", "dhcp_static", "sentinel"}
  BY <1>c DEF parse_addr_mode
<1>8. v6 \in 0 .. 255
  <2>1. \A n \in Int : Clamp(n, 0, 255) \in 0 .. 255
    BY DEF Clamp
  <2>2. has("lcd_contrast") => form.lcd_contrast.num \in Int
    BY <1>1, <1>2
  <2> QED BY <1>c, <2>1, <2>2
<1>l. v7 \in Text
  <2>1. has("port1_label") => form.port1_label \in Text
    BY <1>1
  <2>2. c.dmx2_label \in Text
    BY DEF Config
  <2> QED BY <2>1, <2>2
<1>9. parse_formdata(form, c) =
         IF v5 = "dhcp" THEN [merged EXCEPT !.nodeaddr = 0] ELSE merged
  BY DEF parse_formdata
<1> HIDE DEF v1, v2, v3, v4, v5, v6, v7
<1>10. /\ merged \in Config /\ merged.addr_mode = v5
       /\ [merged EXCEPT !.nodeaddr = 0] \in Config
       /\ [merged EXCEPT !.nodeaddr = 0].nodeaddr = 0
  BY <1>3, <1>4, <1>5, <1>6, <1>7, <1>8, <1>l DEF Config
<1> HIDE DEF merged
<1> QED BY <1>9, <1>10

\* The buffer and the rest are what was to do.
LEMMA Flushing ==
    ASSUME todo \in Seq(AnyLine)
    PROVE  /\ Buffer \in Seq(AnyLine) /\ Rest \in Seq(AnyLine)
           /\ Buffer \o Rest = todo
<1> DEFINE n == IF Len(todo) < FlushLines THEN Len(todo) ELSE FlushLines
<1>0. /\ Len(todo) \in Nat /\ FlushLines \in Nat /\ FlushLines > 0
      /\ \A i \in 1 .. Len(todo) : todo[i] \in AnyLine
  BY StoreAssumption, LenProperties, ElementOfSeq
<1>1. n \in 0 .. Len(todo) /\ n <= FlushLines
  BY <1>0
<1>2. /\ Buffer = SubSeq(todo, 1, n)
      /\ Rest = SubSeq(todo, FlushLines + 1, Len(todo))
  BY DEF Buffer, Rest
<1>3. Rest = SubSeq(todo, n + 1, Len(todo))
  <2>1. CASE Len(todo) < FlushLines
    <3>1. Rest = <<>>
      <4>1. /\ FlushLines + 1 \in Int /\ Len(todo) \in Int
            /\ Len(todo) < FlushLines + 1
        BY <1>0, <2>1
      <4> QED BY <1>2, <4>1, SubSeqEmpty
    <3>2. SubSeq(todo, n + 1, Len(todo)) = <<>>
      <4>1. n + 1 \in Int /\ Len(todo) \in Int /\ Len(todo) < n + 1
        BY <1>0, <2>1
      <4> HIDE DEF n
      <4> QED BY <4>1, SubSeqEmpty
    <3> QED BY <3>1, <3>2
  <2>2. CASE ~ (Len(todo) < FlushLines)
    BY <1>2, <2>2
  <2> QED BY <2>1, <2>2
<1> HIDE DEF n
<1>4. SubSeq(todo, 1, n) \in Seq(AnyLine)
  <2>1. \A i \in 1 .. n : todo[i] \in AnyLine
    BY <1>0, <1>1
  <2>2. 1 \in Int /\ n \in Int
    BY <1>1
  <2> QED BY <2>1, <2>2, SubSeqProperties
<1>5. SubSeq(todo, n + 1, Len(todo)) \in Seq(AnyLine)
  <2>1. \A i \in n + 1 .. Len(todo) : todo[i] \in AnyLine
    BY <1>0, <1>1
  <2>2. n + 1 \in Int /\ Len(todo) \in Int
    BY <1>0, <1>1
  <2> QED BY <2>1, <2>2, SubSeqProperties
<1>6. SubSeq(todo, 1, n) \o SubSeq(todo, n + 1, Len(todo)) = todo
  <2>1. /\ 1 \in 1 .. Len(todo) + 1 /\ n \in 1 - 1 .. Len(todo)
        /\ Len(todo) \in n .. Len(todo)
    BY <1>0, <1>1
  <2> QED BY <2>1, ConcatAdjacentSubSeq, SubSeqFull
<1> QED BY <1>2, <1>3, <1>4, <1>5, <1>6

\* A flush moves lines from what is to do to the file.
LEMMA FlushedLines ==
    ASSUME todo \in Seq(AnyLine), NEW lines \in Seq(AnyLine)
    PROVE  /\ lines \o Buffer \in Seq(AnyLine) /\ Rest \in Seq(AnyLine)
           /\ (lines \o Buffer) \o Rest = lines \o todo
           /\ Rest = <<>> => lines \o Buffer = lines \o todo
<1>1. Buffer \in Seq(AnyLine) /\ Rest \in Seq(AnyLine) /\ Buffer \o Rest = todo
  BY Flushing
<1>2. (lines \o Buffer) \o Rest = lines \o (Buffer \o Rest)
  <2>1. ASSUME NEW s \in Seq(AnyLine), NEW t \in Seq(AnyLine),
               NEW u \in Seq(AnyLine)
        PROVE  (s \o t) \o u = s \o (t \o u)
    BY ConcatAssociative, SMTT(30)
  <2> QED BY <1>1, <2>1, Zenon
<1>3. lines \o Buffer \in Seq(AnyLine)
  BY <1>1, ConcatProperties
<1>4. (lines \o Buffer) \o <<>> = lines \o Buffer
  BY <1>3, ConcatEmptySeq
<1> QED BY <1>1, <1>2, <1>3, <1>4

(***************************************************************************)
(* The inductive invariant.                                                *)
(***************************************************************************)

\* Files as saves leave them: one line may be without its newline.
Sane(file) == file \in File /\ OneCut(file.lines)

\* The lines are a save's of what it read of the file, or, if it may have
\* failed to, of nothing.
SavedFrom(lines, file, failing, keys, K, c) ==
    \E e \in Reads(file) \cup (IF failing THEN {<<>>} ELSE {}) :
        Saved(lines, e, keys, K, c)

\* No step leaves a file of another shape.
Typed ==
    /\ Sane(config_file) /\ Sane(strand_file)
    /\ Sane(before) /\ Sane(strand_before)
    /\ flash \in Seq(AnyLine) /\ OneCut(flash)
    /\ todo \in Seq(AnyLine)
    /\ cfg \in Config /\ failed \in BOOLEAN
    /\ pc \in {"idle", "config", "write config", "strand", "write strand",
               "ifup", "script"}
    /\ settled \in {"files", "flash", "nothing"}

\* A POST that shows is over; a merged configuration has no address with DHCP.
Merged ==
    /\ settled # "nothing" => pc = "idle"
    /\ pc # "idle" \/ settled # "nothing" =>
          (cfg.addr_mode = "dhcp" => cfg.nodeaddr = 0)

\* The configuration file: as found, with what is left to do as saved, and
\* then saved, unless it could not be opened.
ConfigDone ==
    /\ pc = "config" => config_file = before
    /\ pc = "write config" =>
          /\ config_file.there
          /\ SavedFrom(config_file.lines \o todo, before, failed,
                       managed_keys, Managed, cfg)
    /\ pc \in {"strand", "write strand", "ifup", "script"}
         \/ settled = "files" =>
          \/ /\ config_file.there
             /\ SavedFrom(config_file.lines, before, failed,
                          managed_keys, Managed, cfg)
          \/ failed /\ config_file = before

\* The file for the flash: as found until its save begins, then as saved,
\* unless a file could not be opened.
StrandDone ==
    /\ pc \in {"config", "write config", "strand"} =>
          strand_file = strand_before
    /\ pc = "write strand" =>
          /\ strand_file.there
          /\ SavedFrom(strand_file.lines \o todo, strand_before, failed,
                       strand_keys, Strand, cfg)
    /\ (pc \in {"ifup", "script"} \/ settled = "files") /\ ~ failed =>
          /\ strand_file.there
          /\ SavedFrom(strand_file.lines, strand_before, FALSE,
                       strand_keys, Strand, cfg)

\* The script, unless a file could not be opened.
ScriptDone ==
    (pc = "script" \/ settled = "files") /\ ~ failed =>
        ifup_file = IfupScript(cfg)

\* The flash has what was saved for it, unless a file could not be opened.
FlashDone ==
    settled # "nothing" /\ ~ failed =>
        SavedFrom(flash, strand_before, FALSE, strand_keys, Strand, cfg)

\* The inductive invariant.
IInv ==
    Typed /\ Merged /\ ConfigDone /\ StrandDone /\ ScriptDone /\ FlashDone

\* Empty and missing files are sane.
LEMMA EmptyFile ==
    /\ Sane(NoFile) /\ <<>> \in Seq(AnyLine)
    /\ Sane(FileOf(<<>>)) /\ FileOf(<<>>).there /\ FileOf(<<>>).lines = <<>>
<1>1. <<>> \in Seq(AnyLine) /\ OneCut(<<>>)
  BY EmptySeq, CutShapes
<1> QED BY <1>1 DEF Sane, NoFile, FileOf, File

\* Lines of files, files of lines.
LEMMA FileType ==
    /\ \A file : Sane(file) => /\ file \in File /\ OneCut(file.lines)
                               /\ file.lines \in Seq(AnyLine)
    /\ \A lines \in Seq(AnyLine) :
          /\ FileOf(lines) \in File /\ FileOf(lines).lines = lines
          /\ FileOf(lines).there
          /\ OneCut(lines) => Sane(FileOf(lines))
  BY DEF Sane, File, FileOf

\* Whatever a save read, its output is one.
LEMMA Begun ==
    ASSUME NEW file, Sane(file), NEW c \in Config, NEW failing \in BOOLEAN,
           NEW e, e \in Reads(file) \/ (failing /\ e = <<>>)
    PROVE  LET a == config_save_internal(e, c, managed_keys, FALSE)
               b == config_save_internal(e, c, strand_keys, TRUE)
           IN  /\ a \in Seq(AnyLine) /\ b \in Seq(AnyLine)
               /\ SavedFrom(a, file, failing, managed_keys, Managed, c)
               /\ SavedFrom(b, file, failing, strand_keys, Strand, c)
<1>1. e \in Seq(AnyLine) /\ CutOnce(e)
  <2>1. CASE e \in Reads(file)
    BY <2>1, FileType, ReadsShape
  <2>2. CASE e = <<>>
    BY <2>2, EmptyFile, CutShapes
  <2> QED BY <2>1, <2>2
<1> DEFINE a == config_save_internal(e, c, managed_keys, FALSE)
           b == config_save_internal(e, c, strand_keys, TRUE)
<1>2. /\ Saved(a, e, managed_keys, Managed, c)
      /\ Saved(b, e, strand_keys, Strand, c)
  BY <1>1, SaveOutputs
<1>3. e \in Reads(file) \cup (IF failing THEN {<<>>} ELSE {})
  OBVIOUS
<1>4. a \in Seq(AnyLine) /\ b \in Seq(AnyLine)
  BY <1>2 DEF Saved
<1> HIDE DEF a, b
<1>5. /\ SavedFrom(a, file, failing, managed_keys, Managed, c)
      /\ SavedFrom(b, file, failing, strand_keys, Strand, c)
  BY <1>2, <1>3 DEF SavedFrom
<1> QED BY <1>4, <1>5 DEF a, b

\* What was saved is sane; that a save may have failed does not matter to it.
LEMMA SavedType ==
    ASSUME NEW lines, NEW file, NEW failing \in BOOLEAN, NEW keys, NEW K, NEW c,
           SavedFrom(lines, file, failing, keys, K, c)
    PROVE  /\ lines \in Seq(AnyLine) /\ OneCut(lines)
           /\ SavedFrom(lines, file, TRUE, keys, K, c)
<1>1. PICK e \in Reads(file) \cup (IF failing THEN {<<>>} ELSE {}) :
         Saved(lines, e, keys, K, c)
  BY DEF SavedFrom
<1>2. lines \in Seq(AnyLine) /\ OneCut(lines)
  BY <1>1 DEF Saved
<1>3. e \in Reads(file) \cup (IF TRUE THEN {<<>>} ELSE {})
  OBVIOUS
<1> QED BY <1>1, <1>2, <1>3 DEF SavedFrom

\* The invariant holds when the node starts.
LEMMA InitInv == Init => IInv
<1> SUFFICES ASSUME Init PROVE IInv
  OBVIOUS
<1>1. ASSUME NEW file \in InitFiles \cup StrandFiles
      PROVE  Sane(file)
  <2>1. /\ file \in File
        /\ \A i \in DOMAIN file.lines :
              file.lines[i].nl \/ i = Len(file.lines)
    BY StoreAssumption DEF File
  <2>2. file.lines \in Seq(AnyLine)
    BY <2>1 DEF File
  <2>3. CutOnce(file.lines)
    <3>1. DOMAIN file.lines = 1 .. Len(file.lines)
      BY <2>2, LenProperties
    <3> QED BY <2>1, <3>1 DEF CutOnce
  <2> QED BY <2>1, <2>2, <2>3, CutShapes DEF Sane
<1>2. Sane(config_file) /\ Sane(strand_file)
  BY <1>1 DEF Init
<1>3. config_load(config_file) \in Config
  BY <1>2, FileType, LoadType
<1>4. config_file.lines \in Seq(AnyLine) /\ OneCut(config_file.lines)
  BY <1>2, FileType
<1>5. Typed
  BY <1>2, <1>3, <1>4, EmptyFile DEF Typed, Init
<1>6. Merged /\ ConfigDone /\ StrandDone /\ ScriptDone /\ FlashDone
  BY DEF Init, Merged, ConfigDone, StrandDone, ScriptDone, FlashDone
<1> QED BY <1>5, <1>6 DEF IInv

\* A form arrives.
LEMMA PostInv ==
    ASSUME IInv, NEW form \in Forms, Post(form)
    PROVE  IInv'
<1>1. PICK loaded \in {config_load(config_file)} \cup IfFails(config_defaults) :
         /\ cfg' = parse_formdata(form, loaded)
         /\ failed' = (loaded # config_load(config_file))
  BY DEF Post
<1>2. loaded \in Config
  <2>1. config_load(config_file) \in Config
    BY FileType, LoadType DEF IInv, Typed
  <2> QED BY <1>1, <2>1, DefaultsType DEF IfFails
<1>3. cfg' \in Config /\ (cfg'.addr_mode = "dhcp" => cfg'.nodeaddr = 0)
  BY <1>1, <1>2, FormType
<1>4. failed' \in BOOLEAN
  BY <1>1, Zenon
<1>5. /\ pc' = "config" /\ settled' = "nothing"
      /\ before' = config_file /\ strand_before' = strand_file
      /\ UNCHANGED <<config_file, strand_file, ifup_file, flash, todo>>
  BY DEF Post
<1>6. Typed'
  BY <1>3, <1>4, <1>5 DEF IInv, Typed
<1>7. Merged'
  BY <1>3, <1>5 DEF Merged
<1>8. ConfigDone' /\ StrandDone' /\ ScriptDone' /\ FlashDone'
  BY <1>5 DEF ConfigDone, StrandDone, ScriptDone, FlashDone
<1> QED BY <1>6, <1>7, <1>8 DEF IInv

\* The configuration file is read back and truncated.
LEMMA OpenConfigInv ==
    ASSUME IInv, OpenConfig
    PROVE  IInv'
<1>1. /\ pc = "config" /\ pc' = "write config" /\ config_file' = FileOf(<<>>)
      /\ UNCHANGED <<strand_file, ifup_file, flash, cfg, before, strand_before,
                     settled>>
  BY DEF OpenConfig
<1>2. PICK e \in Existing(config_file) :
         /\ todo' = config_save_internal(e, cfg, managed_keys, FALSE)
         /\ IF e \in Reads(config_file)
            THEN UNCHANGED <<fails, failed>>
            ELSE fails' = fails + 1 /\ failed' = TRUE
  BY DEF OpenConfig
<1>3. /\ failed' \in BOOLEAN
      /\ e \in Reads(config_file) \/ (failed' /\ e = <<>>)
  BY <1>2 DEF Existing, IfFails, IInv, Typed
<1>4. config_file = before /\ Sane(before) /\ cfg \in Config
  BY <1>1 DEF IInv, ConfigDone, Typed
<1>5. /\ todo' \in Seq(AnyLine)
      /\ SavedFrom(todo', before, failed', managed_keys, Managed, cfg)
  <2>1. LET a == config_save_internal(e, cfg, managed_keys, FALSE)
        IN  /\ a \in Seq(AnyLine)
            /\ SavedFrom(a, before, failed', managed_keys, Managed, cfg)
    BY <1>3, <1>4, Begun
  <2> QED BY <1>2, <2>1
<1>6. /\ Sane(config_file') /\ config_file'.there
      /\ config_file'.lines \o todo' = todo'
  BY <1>1, <1>5, EmptyFile, ConcatEmptySeq
<1>7. Typed'
  BY <1>1, <1>3, <1>5, <1>6 DEF IInv, Typed
<1>8. Merged'
  BY <1>1 DEF IInv, Merged
<1>9. ConfigDone'
  <2>1. settled' = "nothing"
    BY <1>1 DEF IInv, Merged
  <2> QED BY <1>1, <1>5, <1>6, <2>1 DEF ConfigDone
<1>10. StrandDone' /\ ScriptDone' /\ FlashDone'
  BY <1>1 DEF IInv, StrandDone, ScriptDone, FlashDone, Merged
<1> QED BY <1>7, <1>8, <1>9, <1>10 DEF IInv

\* A buffer goes to the configuration file.
LEMMA FlushConfigInv ==
    ASSUME IInv, FlushConfig
    PROVE  IInv'
<1>1. /\ pc = "write config" /\ config_file' = Flushed(config_file)
      /\ todo' = Rest /\ pc' = IF Rest = <<>> THEN "strand" ELSE pc
      /\ UNCHANGED <<strand_file, ifup_file, flash, cfg, before, strand_before,
                     failed, settled>>
  BY DEF FlushConfig
<1> DEFINE lines == config_file.lines
<1>2. lines \in Seq(AnyLine) /\ todo \in Seq(AnyLine)
  BY FileType DEF IInv, Typed
<1>3. /\ lines \o Buffer \in Seq(AnyLine) /\ Rest \in Seq(AnyLine)
      /\ (lines \o Buffer) \o Rest = lines \o todo
      /\ Rest = <<>> => lines \o Buffer = lines \o todo
  BY <1>2, FlushedLines
<1>4. SavedFrom(lines \o todo, before, failed, managed_keys, Managed, cfg)
  BY <1>1 DEF IInv, ConfigDone
<1>5. OneCut(lines \o Buffer)
  <2>1. OneCut((lines \o Buffer) \o Rest)
    BY <1>3, <1>4, SavedType DEF IInv, Typed
  <2> QED BY <1>3, <2>1, CutShapes
<1>6. /\ Sane(config_file') /\ config_file'.there
      /\ config_file'.lines = lines \o Buffer
  BY <1>1, <1>3, <1>5, FileType DEF Flushed
<1> HIDE DEF lines
<1>7. Typed'
  BY <1>1, <1>3, <1>6 DEF IInv, Typed
<1>8. Merged'
  BY <1>1 DEF IInv, Merged
<1>9. ConfigDone'
  <2>1. settled' = "nothing"
    BY <1>1 DEF IInv, Merged
  <2>2. CASE Rest = <<>>
    BY <1>1, <1>3, <1>4, <1>6, <2>1, <2>2 DEF ConfigDone
  <2>3. CASE Rest # <<>>
    BY <1>1, <1>3, <1>4, <1>6, <2>1, <2>3 DEF ConfigDone
  <2> QED BY <2>2, <2>3
<1>10. StrandDone' /\ ScriptDone' /\ FlashDone'
  BY <1>1 DEF IInv, StrandDone, ScriptDone, FlashDone, Merged
<1> QED BY <1>7, <1>8, <1>9, <1>10 DEF IInv

\* The file for the flash is read back and truncated.
LEMMA OpenStrandInv ==
    ASSUME IInv, OpenStrand
    PROVE  IInv'
<1>1. /\ pc = "strand" /\ pc' = "write strand" /\ strand_file' = FileOf(<<>>)
      /\ UNCHANGED <<config_file, ifup_file, flash, cfg, before, strand_before,
                     settled>>
  BY DEF OpenStrand
<1>2. PICK e \in Existing(strand_file) :
         /\ todo' = config_save_internal(e, cfg, strand_keys, TRUE)
         /\ IF e \in Reads(strand_file)
            THEN UNCHANGED <<fails, failed>>
            ELSE fails' = fails + 1 /\ failed' = TRUE
  BY DEF OpenStrand
<1>3. /\ failed' \in BOOLEAN /\ (failed' = failed \/ failed' = TRUE)
      /\ e \in Reads(strand_file) \/ (failed' /\ e = <<>>)
  BY <1>2 DEF Existing, IfFails, IInv, Typed
<1>4. strand_file = strand_before /\ Sane(strand_before) /\ cfg \in Config
  BY <1>1 DEF IInv, StrandDone, Typed
<1>5. /\ todo' \in Seq(AnyLine)
      /\ SavedFrom(todo', strand_before, failed', strand_keys, Strand, cfg)
  <2>1. LET b == config_save_internal(e, cfg, strand_keys, TRUE)
        IN  /\ b \in Seq(AnyLine)
            /\ SavedFrom(b, strand_before, failed', strand_keys, Strand, cfg)
    BY <1>3, <1>4, Begun
  <2> QED BY <1>2, <2>1
<1>6. /\ Sane(strand_file') /\ strand_file'.there
      /\ strand_file'.lines \o todo' = todo'
  BY <1>1, <1>5, EmptyFile, ConcatEmptySeq
<1>7. Typed'
  BY <1>1, <1>3, <1>5, <1>6 DEF IInv, Typed
<1>8. Merged'
  BY <1>1 DEF IInv, Merged
<1>9. settled' = "nothing"
  BY <1>1 DEF IInv, Merged
<1>10. ConfigDone'
  <2>1. \/ /\ config_file.there
           /\ SavedFrom(config_file.lines, before, failed,
                        managed_keys, Managed, cfg)
        \/ failed /\ config_file = before
    BY <1>1 DEF IInv, ConfigDone
  <2>2. CASE failed' = failed
    BY <1>1, <1>9, <2>1, <2>2 DEF ConfigDone
  <2>3. CASE failed' = TRUE
    <3>1. \/ /\ config_file.there
             /\ SavedFrom(config_file.lines, before, TRUE,
                          managed_keys, Managed, cfg)
          \/ config_file = before
      BY <2>1, SavedType DEF IInv, Typed
    <3> QED BY <1>1, <1>9, <2>3, <3>1 DEF ConfigDone
  <2> QED BY <1>3, <2>2, <2>3
<1>11. StrandDone'
  BY <1>1, <1>5, <1>6, <1>9 DEF StrandDone
<1>12. ScriptDone' /\ FlashDone'
  BY <1>1, <1>9 DEF ScriptDone, FlashDone
<1> QED BY <1>7, <1>8, <1>10, <1>11, <1>12 DEF IInv

\* A buffer goes to the file for the flash.
LEMMA FlushStrandInv ==
    ASSUME IInv, FlushStrand
    PROVE  IInv'
<1>1. /\ pc = "write strand" /\ strand_file' = Flushed(strand_file)
      /\ todo' = Rest /\ pc' = IF Rest = <<>> THEN "ifup" ELSE pc
      /\ UNCHANGED <<config_file, ifup_file, flash, cfg, before, strand_before,
                     failed, settled>>
  BY DEF FlushStrand
<1> DEFINE lines == strand_file.lines
<1>2. lines \in Seq(AnyLine) /\ todo \in Seq(AnyLine)
  BY FileType DEF IInv, Typed
<1>3. /\ lines \o Buffer \in Seq(AnyLine) /\ Rest \in Seq(AnyLine)
      /\ (lines \o Buffer) \o Rest = lines \o todo
      /\ Rest = <<>> => lines \o Buffer = lines \o todo
  BY <1>2, FlushedLines
<1>4. SavedFrom(lines \o todo, strand_before, failed, strand_keys, Strand, cfg)
  BY <1>1 DEF IInv, StrandDone
<1>5. OneCut(lines \o Buffer)
  <2>1. OneCut((lines \o Buffer) \o Rest)
    BY <1>3, <1>4, SavedType DEF IInv, Typed
  <2> QED BY <1>3, <2>1, CutShapes
<1>6. /\ Sane(strand_file') /\ strand_file'.there
      /\ strand_file'.lines = lines \o Buffer
  BY <1>1, <1>3, <1>5, FileType DEF Flushed
<1> HIDE DEF lines
<1>7. Typed'
  BY <1>1, <1>3, <1>6 DEF IInv, Typed
<1>8. Merged'
  BY <1>1 DEF IInv, Merged
<1>9. settled' = "nothing"
  BY <1>1 DEF IInv, Merged
<1>10. StrandDone'
  <2>1. CASE Rest = <<>>
    <3>1. ~ failed => failed = FALSE
      BY DEF IInv, Typed
    <3> QED BY <1>1, <1>3, <1>4, <1>6, <1>9, <2>1, <3>1 DEF StrandDone
  <2>2. CASE Rest # <<>>
    BY <1>1, <1>3, <1>4, <1>6, <1>9, <2>2 DEF StrandDone
  <2> QED BY <2>1, <2>2
<1>11. ConfigDone' /\ ScriptDone' /\ FlashDone'
  BY <1>1 DEF IInv, ConfigDone, ScriptDone, FlashDone, Merged
<1> QED BY <1>7, <1>8, <1>10, <1>11 DEF IInv

\* A file cannot be opened.
LEMMA OpenFailsInv ==
    ASSUME IInv, OpenFails
    PROVE  IInv'
<1>1. /\ \/ pc = "config" /\ pc' = "strand"
         \/ pc = "strand" /\ pc' = "ifup"
         \/ pc = "ifup" /\ pc' = "script"
      /\ failed' = TRUE
      /\ UNCHANGED <<config_file, strand_file, ifup_file, flash, todo, cfg,
                     before, strand_before, settled>>
  BY DEF OpenFails, After
<1>2. Typed'
  BY <1>1 DEF IInv, Typed
<1>3. Merged'
  BY <1>1 DEF IInv, Merged
<1>4. settled' = "nothing"
  BY <1>1 DEF IInv, Merged
<1>5. ConfigDone'
  <2>1. CASE pc = "config"
    <3>1. config_file = before
      BY <2>1 DEF IInv, ConfigDone
    <3> QED BY <1>1, <1>4, <2>1, <3>1 DEF ConfigDone
  <2>2. CASE pc # "config"
    <3>1. \/ /\ config_file.there
             /\ SavedFrom(config_file.lines, before, TRUE,
                          managed_keys, Managed, cfg)
          \/ config_file = before
      BY <1>1, <2>2, SavedType DEF IInv, ConfigDone, Typed
    <3> QED BY <1>1, <1>4, <2>2, <3>1 DEF ConfigDone
  <2> QED BY <2>1, <2>2
<1>6. StrandDone' /\ ScriptDone' /\ FlashDone'
  BY <1>1, <1>4 DEF IInv, StrandDone, ScriptDone, FlashDone
<1> QED BY <1>2, <1>3, <1>5, <1>6 DEF IInv

\* The network script is written.
LEMMA IfupInv ==
    ASSUME IInv, config_generate_ifup
    PROVE  IInv'
<1> USE DEF config_generate_ifup
<1>1. Typed'
  BY DEF IInv, Typed
<1>2. Merged'
  BY DEF IInv, Merged
<1>3. ConfigDone' /\ StrandDone'
  BY DEF IInv, ConfigDone, StrandDone
<1>4. ScriptDone' /\ FlashDone'
  BY DEF IInv, ScriptDone, FlashDone, Merged
<1> QED BY <1>1, <1>2, <1>3, <1>4 DEF IInv

\* What was saved for the flash is not too large for it.
LEMMA StrandFits ==
    ASSUME NEW lines, NEW file, Sane(file), NEW c,
           SavedFrom(lines, file, FALSE, strand_keys, Strand, c)
    PROVE  Len(lines) < PutLimit
<1>1. PICK e \in Reads(file) : Saved(lines, e, strand_keys, Strand, c)
  BY DEF SavedFrom
<1>2. Len(e) \in Nat /\ Len(e) <= ReadCap + 1
  BY FileType, ReadsShape
<1>3. Len(lines) <= Len(e) + Len(strand_keys) /\ Len(lines) \in Nat
  BY <1>1, LenProperties DEF Saved
<1>4. /\ PutLimit \in Nat /\ PutLimit > ReadCap + 1 + Len(strand_keys)
      /\ Len(strand_keys) = 4 /\ ReadCap \in Nat
  BY StoreAssumption, KeyLists, ReadCapType
<1> QED BY <1>2, <1>3, <1>4

\* The flash is written.
LEMMA PutInv ==
    ASSUME IInv, Put
    PROVE  IInv'
<1>1. /\ pc = "script" /\ pc' = "idle" /\ settled' = "files"
      /\ flash' = IF strand_file.there /\ Len(strand_file.lines) < PutLimit
                  THEN strand_file.lines ELSE flash
      /\ UNCHANGED <<config_file, strand_file, ifup_file, todo, cfg, before,
                     strand_before, failed>>
  BY DEF Put
<1>2. strand_file.lines \in Seq(AnyLine) /\ OneCut(strand_file.lines)
  BY FileType DEF IInv, Typed
<1>3. Typed'
  BY <1>1, <1>2 DEF IInv, Typed
<1>4. Merged'
  BY <1>1 DEF IInv, Merged
<1>5. ConfigDone' /\ ScriptDone' /\ StrandDone'
  BY <1>1 DEF IInv, ConfigDone, ScriptDone, StrandDone
<1>6. FlashDone'
  <2>1. SUFFICES ASSUME ~ failed
                 PROVE  SavedFrom(flash', strand_before, FALSE,
                                  strand_keys, Strand, cfg)
    BY <1>1 DEF FlashDone
  <2>2. /\ strand_file.there
        /\ SavedFrom(strand_file.lines, strand_before, FALSE,
                     strand_keys, Strand, cfg)
    BY <1>1, <2>1 DEF IInv, StrandDone
  <2>3. Len(strand_file.lines) < PutLimit
    BY <2>2, StrandFits DEF IInv, Typed
  <2> QED BY <1>1, <2>2, <2>3
<1> QED BY <1>3, <1>4, <1>5, <1>6 DEF IInv

\* The power fails.
LEMMA PowerLossInv ==
    ASSUME IInv, PowerLoss
    PROVE  IInv'
<1>0. /\ pc' = "idle" /\ todo' = <<>> /\ UNCHANGED flash
      /\ IF settled' = "nothing"
         THEN /\ cfg' = config_load(config_file')
              /\ before' = config_file'
              /\ strand_before' = strand_file'
              /\ failed' = FALSE
         ELSE UNCHANGED <<cfg, before, strand_before, failed>>
      /\ \/ /\ UNCHANGED <<config_file, strand_file, ifup_file>>
            /\ settled' = IF pc = "idle" THEN settled ELSE "nothing"
         \/ /\ \E lines \in Generated : config_file' = FileOf(lines)
            /\ strand_file' = NoFile
            /\ settled' = IF pc = "idle" /\ settled # "nothing" THEN "flash"
                                                              ELSE "nothing"
  BY DEF PowerLoss
<1>1. ASSUME NEW lines \in Generated
      PROVE  Sane(FileOf(lines))
  <2>1. flash \in Seq(AnyLine) /\ OneCut(flash)
    BY DEF IInv, Typed
  <2>2. CASE lines = flash
    BY <2>1, <2>2, FileType
  <2>3. CASE lines = Keep(Lines(flash), Keyed({"nodeaddr", "other"}))
    <3>1. Lines(flash) \in Seq(AnyLine) /\ CutOnce(Lines(flash))
      BY <2>1, LinesShape
    <3>2. lines \in Seq(AnyLine)
      BY <2>3, <3>1, KeepType
    <3>3. CutOnce(lines)
      BY <2>3, <3>1, KeepCut
    <3> QED BY <3>2, <3>3, CutShapes, FileType
  <2> QED BY <2>2, <2>3 DEF Generated
<1>2. Sane(config_file') /\ Sane(strand_file')
  BY <1>0, <1>1, EmptyFile DEF IInv, Typed
<1>3. config_load(config_file') \in Config
  BY <1>2, FileType, LoadType
<1>4. settled' \in {"files", "flash", "nothing"}
  BY <1>0 DEF IInv, Typed
<1>5. Typed'
  BY <1>0, <1>2, <1>3, <1>4, EmptyFile DEF IInv, Typed
<1>6. CASE settled' = "nothing"
  BY <1>0, <1>5, <1>6
     DEF IInv, Merged, ConfigDone, StrandDone, ScriptDone, FlashDone
<1>7. CASE settled' # "nothing"
  <2>1. /\ settled # "nothing"
        /\ settled' = "files" =>
              /\ settled = "files"
              /\ UNCHANGED <<config_file, strand_file, ifup_file>>
    BY <1>0, <1>7
  <2>2. UNCHANGED <<cfg, before, strand_before, failed>>
    BY <1>0, <1>7
  <2>3. Merged'
    BY <1>0, <2>1, <2>2 DEF IInv, Merged
  <2>4. ConfigDone' /\ StrandDone' /\ ScriptDone' /\ FlashDone'
    BY <1>0, <2>1, <2>2
       DEF IInv, ConfigDone, StrandDone, ScriptDone, FlashDone
  <2> QED BY <1>5, <2>3, <2>4 DEF IInv
<1> QED BY <1>6, <1>7

\* Every step preserves the invariant.
LEMMA NextInv == IInv /\ [Next]_vars => IInv'
<1> SUFFICES ASSUME IInv, [Next]_vars PROVE IInv'
  OBVIOUS
<1>1. ASSUME NEW form \in Forms, Post(form) PROVE IInv'
  BY <1>1, PostInv
<1>2. CASE OpenConfig
  BY <1>2, OpenConfigInv
<1>3. CASE FlushConfig
  BY <1>3, FlushConfigInv
<1>4. CASE OpenStrand
  BY <1>4, OpenStrandInv
<1>5. CASE FlushStrand
  BY <1>5, FlushStrandInv
<1>6. CASE OpenFails
  BY <1>6, OpenFailsInv
<1>7. CASE config_generate_ifup
  BY <1>7, IfupInv
<1>8. CASE Put
  BY <1>8, PutInv
<1>9. CASE PowerLoss
  BY <1>9, PowerLossInv
<1>10. CASE UNCHANGED vars
  BY <1>10 DEF vars, IInv, Typed, Merged, ConfigDone, StrandDone, ScriptDone,
               FlashDone
<1> QED BY <1>1, <1>2, <1>3, <1>4, <1>5, <1>6, <1>7, <1>8, <1>9, <1>10
        DEF Next, Save

\* The invariant holds in every reachable state.
LEMMA Invariance == Spec => []IInv
  BY InitInv, NextInv, PTL DEF Spec

(***************************************************************************)
(* The properties.                                                         *)
(***************************************************************************)

\* Whatever the files and forms contain, every configuration in use is in range:
\* the CGI's and the one a daemon would load, by config_load's fall-backs and
\* clamps.
THEOREM TypeCorrect == Spec => []TypeOK
<1>1. IInv => TypeOK
  <2> SUFFICES ASSUME IInv PROVE TypeOK
    OBVIOUS
  <2>1. g_config \in Config
    BY FileType, LoadType DEF IInv, Typed, g_config
  <2> QED BY <2>1 DEF IInv, Typed, TypeOK
<1> QED BY <1>1, Invariance, PTL

\* What a reader sees of lines that were saved.
LEMMA SavedRead ==
    ASSUME NEW lines, NEW file, NEW failing \in BOOLEAN, NEW keys,
           NEW K \in SUBSET Managed, NEW c, Sane(file),
           SavedFrom(lines, file, failing, keys, K, c)
    PROVE  \E found \in Reads(file) :
              /\ Lines(lines) \in Seq(AnyLine)
              /\ Written(Lines(lines), K \ Spoiled(found, keys), c)
<1>1. PICK e \in Reads(file) \cup (IF failing THEN {<<>>} ELSE {}) :
         Saved(lines, e, keys, K, c)
  BY DEF SavedFrom
<1>2. /\ Lines(lines) \in Seq(AnyLine)
      /\ Written(Lines(lines), K \ Spoiled(e, keys), c)
  BY <1>1, SaveWhole
<1>3. CASE e \in Reads(file)
  BY <1>2, <1>3
<1>4. CASE e = <<>>
  <2>1. PICK found \in Reads(file) : TRUE
    BY FileType, ReadsShape
  <2>2. Spoiled(e, keys) = {}
    BY <1>4 DEF Spoiled
  <2>3. Written(Lines(lines), K \ Spoiled(found, keys), c)
    BY <1>2, <2>2 DEF Written
  <2> QED BY <1>2, <2>3
<1> QED BY <1>1, <1>3, <1>4

\* What was saved is loaded, but for the keys that were spoiled.
LEMMA SavedLoads ==
    ASSUME IInv, config_file.there,
           cfg.addr_mode = "dhcp" => cfg.nodeaddr = 0,
           SavedFrom(config_file.lines, before, failed,
                     managed_keys, Managed, cfg)
    PROVE  \E found \in Reads(before) :
              \A k \in Managed \ Spoiled(found, managed_keys) :
                 config_load(config_file)[k] = AsSaved(cfg)[k]
<1>1. Sane(before) /\ failed \in BOOLEAN /\ cfg \in Config
  BY DEF IInv, Typed
<1>2. Managed \in SUBSET Managed
  OBVIOUS
<1>3. PICK found \in Reads(before) :
         /\ Lines(config_file.lines) \in Seq(AnyLine)
         /\ Written(Lines(config_file.lines),
                    Managed \ Spoiled(found, managed_keys), cfg)
  BY <1>1, <1>2, SavedRead
<1>4. \A k \in Managed \ Spoiled(found, managed_keys) :
         config_load(config_file)[k] = AsSaved(cfg)[k]
  BY <1>1, <1>3, ConfigLoads
<1> QED BY <1>4

\* The files of a POST, when all of them could be opened.
LEMMA CleanFile ==
    ASSUME IInv, Clean
    PROVE  /\ config_file.there /\ cfg \in Config
           /\ cfg.addr_mode = "dhcp" => cfg.nodeaddr = 0
           /\ failed = FALSE /\ Sane(before) /\ Sane(strand_before)
           /\ SavedFrom(config_file.lines, before, FALSE,
                        managed_keys, Managed, cfg)
           /\ SavedFrom(strand_file.lines, strand_before, FALSE,
                        strand_keys, Strand, cfg)
           /\ ifup_file = IfupScript(cfg)
<1>1. settled = "files" /\ ~ failed /\ failed = FALSE
  BY DEF IInv, Typed, Clean
<1>2. /\ config_file.there
      /\ SavedFrom(config_file.lines, before, FALSE,
                   managed_keys, Managed, cfg)
  BY <1>1 DEF IInv, ConfigDone
<1> QED BY <1>1, <1>2 DEF IInv, Typed, Merged, StrandDone, ScriptDone

\* The configuration a POST saved is the one that is loaded, whatever mixture of
\* old, duplicate, missing and cut lines config_save found, and wherever its
\* buffer ended: all but the keys at the end of what it read.
THEOREM SavesTakeEffect == Spec => []SaveTakesEffect
<1>1. IInv => SaveTakesEffect
  BY CleanFile, SavedLoads DEF SaveTakesEffect
<1> QED BY <1>1, Invariance, PTL

\* A save keeps the lines it does not manage, in their order, if the file fits
\* the buffer and nothing is added to its last line.
THEOREM UnknownLinesAreKept == Spec => []UnknownKept
<1>1. IInv => UnknownKept
  <2> SUFFICES ASSUME IInv, Clean, Fits(before), Sound(before, managed_keys)
               PROVE  Others(Lines(config_file.lines)) =
                         Others(Lines(before.lines))
    BY DEF UnknownKept
  <2>1. PICK e \in Reads(before) :
           Saved(config_file.lines, e, managed_keys, Managed, cfg)
    BY CleanFile DEF SavedFrom
  <2>2. e = Lines(before.lines)
    BY CleanFile, FileType, ReadsShape DEF Fits
  <2>3. Spoiled(e, managed_keys) = {}
    BY DEF Sound
  <2>4. Managed \in SUBSET Managed
    OBVIOUS
  <2>5. Others(Lines(config_file.lines)) = Others(e)
    BY <2>1, <2>3, <2>4, SaveWhole
  <2> QED BY <2>2, <2>5
<1> QED BY <1>1, Invariance, PTL

\* What the flash has been given.
LEMMA FlashSaved ==
    ASSUME IInv, settled # "nothing", ~ failed,
           Sound(strand_before, strand_keys)
    PROVE  /\ Sane(strand_before) /\ Strand \in SUBSET Managed
           /\ \E e \in Reads(strand_before) :
                 /\ Saved(flash, e, strand_keys, Strand, cfg)
                 /\ Spoiled(e, strand_keys) = {}
<1>1. PICK e \in Reads(strand_before) :
         Saved(flash, e, strand_keys, Strand, cfg)
  BY DEF IInv, FlashDone, SavedFrom
<1>2. Spoiled(e, strand_keys) = {}
  BY DEF Sound
<1> QED BY <1>1, <1>2, OtherKey DEF IInv, Typed

\* The flash alone gives back the DMX settings of the last POST and the address
\* it had chosen.
THEOREM FlashIsThePost == Spec => []FlashAgrees
<1>1. IInv => FlashAgrees
  <2> SUFFICES ASSUME IInv, settled # "nothing", ~ failed,
                      Sound(strand_before, strand_keys)
               PROVE  LET c == config_load(FileOf(flash))
                      IN /\ \A k \in {"protocol", "dmx_holdtime",
                                      "dmx_port0_mode"} : c[k] = cfg[k]
                         /\ cfg.addr_mode = "dhcp" => c.addr_mode = "dhcp"
                         /\ cfg.nodeaddr # 0 =>
                               /\ c.addr_mode = "static"
                               /\ c.nodeaddr = cfg.nodeaddr
    BY DEF FlashAgrees
  <2> DEFINE c == config_load(FileOf(flash))
             l == Lines(flash)
  <2>1. cfg \in Config /\ (cfg.addr_mode = "dhcp" => cfg.nodeaddr = 0)
    BY DEF IInv, Typed, Merged
  <2>2. PICK e \in Reads(strand_before) :
           /\ Saved(flash, e, strand_keys, Strand, cfg)
           /\ Spoiled(e, strand_keys) = {}
    BY FlashSaved
  <2>3. /\ l \in Seq(AnyLine)
        /\ Written(l, Strand \ {}, cfg)
        /\ \A i \in 1 .. Len(l) : l[i].key \notin (Managed \ Strand) \ {}
    BY <2>2, FlashSaved, SaveWhole
  <2>4. Written(l, Strand, cfg) /\ \A i \in 1 .. Len(l) : l[i].key # "addr_mode"
    <3>1. Strand \ {} = Strand /\ "addr_mode" \in (Managed \ Strand) \ {}
      BY Keys
    <3> HIDE DEF l
    <3> QED BY <2>3, <3>1
  <2>5. /\ \A k \in Strand : c[k] = cfg[k]
        /\ c.addr_mode = IF cfg.nodeaddr = 0 THEN "dhcp" ELSE "static"
    BY <2>1, <2>3, <2>4, StrandLoads
  <2> HIDE DEF c
  <2>6. c["nodeaddr"] = cfg["nodeaddr"]
    BY <2>5, Keys
  <2>7. \A k \in {"protocol", "dmx_holdtime", "dmx_port0_mode"} : c[k] = cfg[k]
    BY <2>5, Keys
  <2> QED BY <2>1, <2>5, <2>6, <2>7 DEF c
<1> QED BY <1>1, Invariance, PTL

\* The flash has Strand's own lines of the file for it and no extension key,
\* after power losses and failures as well.
THEOREM FlashIsForStrand == Spec => []FlashForStrand
<1>1. IInv => FlashForStrand
  <2> SUFFICES ASSUME IInv, settled # "nothing", ~ failed,
                      Sound(strand_before, strand_keys), Fits(strand_before)
               PROVE  LET lines == Lines(flash)
                      IN /\ Others(lines) = Others(Lines(strand_before.lines))
                         /\ \A i \in DOMAIN lines :
                               lines[i].key \notin Extension
    BY DEF FlashForStrand
  <2> DEFINE l == Lines(flash)
  <2>1. PICK e \in Reads(strand_before) :
           /\ Saved(flash, e, strand_keys, Strand, cfg)
           /\ Spoiled(e, strand_keys) = {}
    BY FlashSaved
  <2>2. e = Lines(strand_before.lines)
    BY FlashSaved, FileType, ReadsShape DEF Fits
  <2>3. /\ l \in Seq(AnyLine) /\ Others(l) = Others(e)
        /\ \A i \in 1 .. Len(l) : l[i].key \notin (Managed \ Strand) \ {}
    <3>1. Strand \in SUBSET Managed
      BY FlashSaved
    <3>2. \A i \in 1 .. Len(l) :
             l[i].key \notin (Managed \ Strand) \ Spoiled(e, strand_keys)
      BY <2>1, <3>1, SaveWhole
    <3>3. l \in Seq(AnyLine) /\ Others(l) = Others(e)
      BY <2>1, <3>1, SaveWhole
    <3> HIDE DEF l
    <3> QED BY <2>1, <3>2, <3>3
  <2>4. DOMAIN l = 1 .. Len(l)
    <3> HIDE DEF l
    <3> QED BY <2>3, LenProperties
  <2> HIDE DEF l
  <2>5. \A i \in DOMAIN l : l[i].key \notin Extension
    BY <2>3, <2>4 DEF Extension
  <2> QED BY <2>2, <2>3, <2>5 DEF l
<1> QED BY <1>1, Invariance, PTL

\* The network script sets up what the configuration file says.
THEOREM ScriptIsTheFile == Spec => []ScriptAgrees
<1>1. IInv => ScriptAgrees
  <2> SUFFICES ASSUME IInv, Clean, Sound(before, managed_keys)
               PROVE  LET c == config_load(config_file)
                      IN ifup_file = [addr_mode |-> c.addr_mode,
                                      nodeaddr |-> c.nodeaddr]
    BY DEF ScriptAgrees
  <2> DEFINE c == config_load(config_file)
  <2>1. /\ cfg \in Config /\ (cfg.addr_mode = "dhcp" => cfg.nodeaddr = 0)
        /\ ifup_file = IfupScript(cfg)
    BY CleanFile
  <2>2. c["addr_mode"] = AsSaved(cfg)["addr_mode"]
        /\ c["nodeaddr"] = AsSaved(cfg)["nodeaddr"]
    <3>1. PICK found \in Reads(before) :
             \A k \in Managed \ Spoiled(found, managed_keys) :
                c[k] = AsSaved(cfg)[k]
      BY CleanFile, SavedLoads
    <3>2. Spoiled(found, managed_keys) = {}
      BY DEF Sound
    <3> HIDE DEF c
    <3> QED BY <3>1, <3>2, Keys
  <2> HIDE DEF c
  <2>3. /\ AsSaved(cfg).addr_mode =
              IF cfg.addr_mode = "sentinel" THEN "static" ELSE cfg.addr_mode
        /\ AsSaved(cfg)["nodeaddr"] = cfg["nodeaddr"]
    BY <2>1, AsSavedFields, Keys
  <2>4. cfg.addr_mode \in {"dhcp", "static", "dhcp_static", "sentinel"}
    BY <2>1 DEF Config
  <2>5. IfupScript(cfg) = [addr_mode |-> AsSaved(cfg).addr_mode,
                           nodeaddr |-> AsSaved(cfg).nodeaddr]
    BY <2>1, <2>3, <2>4 DEF IfupScript
  <2> QED BY <2>1, <2>2, <2>5 DEF c
<1> QED BY <1>1, Invariance, PTL

\* No sequence of saves makes a file grow beyond a line for each key it lacked.
THEOREM FilesDoNotGrow == Spec => []NoGrowth
<1>1. IInv => NoGrowth
  <2> SUFFICES ASSUME IInv, Clean
               PROVE  NoGrowth
    BY DEF NoGrowth
  <2>1. PICK e \in Reads(before) :
           Saved(config_file.lines, e, managed_keys, Managed, cfg)
    BY CleanFile DEF SavedFrom
  <2>2. Len(config_file.lines) <=
           Len(e) + Cardinality({k \in Managed : Mentions(e, k) = {}})
    BY <2>1 DEF Saved
  <2>3. PICK f \in Reads(strand_before) :
           Saved(strand_file.lines, f, strand_keys, Strand, cfg)
    BY CleanFile DEF SavedFrom
  <2>4. Len(strand_file.lines) <=
           Len(f) + Cardinality({k \in Strand : Mentions(f, k) = {}})
    BY <2>3 DEF Saved
  <2> QED BY <2>2, <2>4 DEF NoGrowth
<1> QED BY <1>1, Invariance, PTL

\* Even if files cannot be opened, a POST leaves the configuration it was
\* given or the one it found.
THEOREM AllOrNothing == Spec => []SavedOrKept
<1>1. IInv => SavedOrKept
  <2> SUFFICES ASSUME IInv, settled = "files", config_file # before
               PROVE  \E found \in Reads(before) :
                         \A k \in Managed \ Spoiled(found, managed_keys) :
                            config_load(config_file)[k] = AsSaved(cfg)[k]
    BY DEF SavedOrKept
  <2>1. /\ config_file.there
        /\ SavedFrom(config_file.lines, before, failed,
                     managed_keys, Managed, cfg)
    BY DEF IInv, ConfigDone
  <2>2. cfg.addr_mode = "dhcp" => cfg.nodeaddr = 0
    BY DEF IInv, Merged
  <2> QED BY <2>1, <2>2, SavedLoads
<1> QED BY <1>1, Invariance, PTL

\* A daemon started while config_save writes loads new values and defaults,
\* never an old value or part of one, but of the keys at the end of what the
\* save read.
THEOREM PartsAreHarmless == Spec => []PartialLoad
<1>1. IInv => PartialLoad
  <2> DEFINE Harmless(k) ==
                \/ g_config[k] \in {AsSaved(cfg)[k], config_defaults[k]}
                \/ /\ k = "addr_mode"
                   /\ g_config =
                        Inferred([g_config EXCEPT !.addr_mode = "sentinel"])
  <2> SUFFICES ASSUME IInv, pc = "write config"
               PROVE  \E found \in Reads(before) :
                         \A k \in Managed \ Spoiled(found, managed_keys) :
                            Harmless(k)
    BY DEF PartialLoad
  <2>1. /\ config_file.lines \in Seq(AnyLine) /\ todo \in Seq(AnyLine)
        /\ cfg \in Config /\ (cfg.addr_mode = "dhcp" => cfg.nodeaddr = 0)
        /\ Sane(before) /\ Managed \in SUBSET Managed
    BY FileType DEF IInv, Typed, Merged
  <2>2. /\ config_file.there
        /\ SavedFrom(config_file.lines \o todo, before, failed,
                     managed_keys, Managed, cfg)
    BY DEF IInv, ConfigDone
  <2>3. PICK e \in Reads(before) \cup (IF failed THEN {<<>>} ELSE {}) :
           Saved(config_file.lines \o todo, e, managed_keys, Managed, cfg)
    BY <2>2 DEF SavedFrom
  <2>4. Sees(config_file.lines, Spoiled(e, managed_keys), Managed, cfg)
    BY <2>1, <2>3, SavePart
  <2>5. ASSUME NEW k \in Managed \ Spoiled(e, managed_keys)
        PROVE  Harmless(k)
    <3>1. /\ Lines(config_file.lines) \in Seq(AnyLine)
          /\ \A i \in 1 .. Len(Lines(config_file.lines)) :
                Lines(config_file.lines)[i].key = k =>
                   Lines(config_file.lines)[i] = format_key(k, cfg)
      BY <2>4 DEF Sees
    <3> QED BY <2>1, <2>2, <3>1, PartLoads DEF g_config
  <2> HIDE DEF Harmless
  <2>6. CASE e \in Reads(before)
    BY <2>5, <2>6
  <2>7. CASE e = <<>>
    <3>1. PICK found \in Reads(before) : TRUE
      BY <2>1, FileType, ReadsShape
    <3>2. Spoiled(e, managed_keys) = {}
      BY <2>7 DEF Spoiled
    <3>3. \A k \in Managed \ Spoiled(found, managed_keys) : Harmless(k)
      BY <2>5, <3>2
    <3> QED BY <3>3
  <2> QED BY <2>3, <2>6, <2>7
<1> QED BY <1>1, Invariance, PTL

=============================================================================
