-------------------------------- MODULE Lemmas --------------------------------
(***************************************************************************)
(* What the proofs of several modules need: induction over numbers and     *)
(* lists, facts about Python's lists, and facts about the risk engine for  *)
(* every finding and every moment.                                         *)
(***************************************************************************)
EXTENDS Risk, FiniteSets, SequencesExt, SequenceTheorems, FiniteSetTheorems,
        WellFoundedInduction, TLAPS

(***************************************************************************)
(* Induction.  The library's theorems take an operator, which no prover    *)
(* instantiates; these take a set.                                         *)
(***************************************************************************)

\* Every set of numbers that is not empty has a least element.
LEMMA LeastNumber ==
  ASSUME NEW T, T \subseteq Nat, T # {}
  PROVE  \E m \in T : \A k \in T : m <= k
<1>1. OpToRel(<, Nat) = {p \in Nat \X Nat : p[1] < p[2]}
  BY DEF OpToRel
<1>2. IsWellFoundedOn({p \in Nat \X Nat : p[1] < p[2]}, Nat)
  BY NatLessThanWellFounded, <1>1
<1>3. PICK m \in T : \A k \in T : ~(<<k, m>> \in {p \in Nat \X Nat : p[1] < p[2]})
  BY <1>2, WFMin
<1>4. \A k \in T : ~(k < m)
  BY <1>3
<1> QED BY <1>4

\* A set that contains 0, and with each number the next, contains them all.
LEMMA NumberInduction ==
  ASSUME NEW T, 0 \in T, \A n \in Nat : n \in T => n + 1 \in T
  PROVE  Nat \subseteq T
<1> SUFFICES ASSUME Nat \ T # {} PROVE FALSE
  OBVIOUS
<1>1. PICK m \in Nat \ T : \A k \in Nat \ T : m <= k
  BY LeastNumber, Nat \ T \subseteq Nat
<1>2. m # 0 /\ m - 1 \in Nat
  BY <1>1
<1>3. m - 1 \in T
  BY <1>1, <1>2
<1> QED BY <1>1, <1>2, <1>3

\* A set of lists that contains the empty one, and with each list the list with
\* one element more, contains them all.
LEMMA ListInduction ==
  ASSUME NEW S, NEW T, <<>> \in T, \A s \in Seq(S) : \A e \in S : s \in T => Append(s, e) \in T
  PROVE  Seq(S) \subseteq T
<1> DEFINE N == {n \in Nat : \A s \in Seq(S) : Len(s) = n => s \in T}
<1>1. 0 \in N
  OBVIOUS
<1>2. ASSUME NEW n \in Nat, n \in N PROVE n + 1 \in N
  <2> SUFFICES ASSUME NEW s \in Seq(S), Len(s) = n + 1 PROVE s \in T
    OBVIOUS
  <2>1. PICK r \in Seq(S), e \in S : s = Append(r, e)
    BY SequenceEmptyOrAppend
  <2>2. Len(r) = n
    BY <2>1
  <2> QED BY <1>2, <2>1, <2>2
<1> HIDE DEF N
<1>3. Nat \subseteq N
  BY <1>1, <1>2, NumberInduction
<1> SUFFICES ASSUME NEW s \in Seq(S) PROVE s \in T
  OBVIOUS
<1>4. Len(s) \in N
  BY <1>3
<1> QED BY <1>4 DEF N

(***************************************************************************)
(* Lists: sequences of anything, whose elements the models do not gather   *)
(* in a set.                                                               *)
(***************************************************************************)

IsSequence(s) == \E S : s \in Seq(S)

\* A list has a length and its positions are the numbers up to it.
LEMMA SequenceFacts ==
  ASSUME NEW s, IsSequence(s)
  PROVE  /\ Len(s) \in Nat
         /\ DOMAIN s = 1..Len(s)
         /\ s = <<>> <=> Len(s) = 0
BY DEF IsSequence

\* One element more, at the end.
LEMMA Appended ==
  ASSUME NEW s, IsSequence(s), NEW e
  PROVE  /\ IsSequence(Append(s, e))
         /\ Len(Append(s, e)) = Len(s) + 1
         /\ Append(s, e)[Len(s) + 1] = e
         /\ \A i \in 1..Len(s) : Append(s, e)[i] = s[i]
<1>1. PICK S : s \in Seq(S)
  BY DEF IsSequence
<1>2. s \in Seq(S \cup {e})
  BY <1>1
<1>3. Append(s, e) \in Seq(S \cup {e})
  BY <1>2
<1> QED BY <1>2, <1>3 DEF IsSequence

\* One element fewer, at the end.
LEMMA Shortened ==
  ASSUME NEW s, IsSequence(s), s # <<>>, NEW t, t = SubSeq(s, 1, Len(s) - 1)
  PROVE  /\ IsSequence(t)
         /\ Len(t) = Len(s) - 1
         /\ \A i \in 1..Len(s) - 1 : t[i] = s[i]
<1>1. PICK S : s \in Seq(S)
  BY DEF IsSequence
<1> DEFINE n == Len(s) - 1
<1>2. n \in Nat /\ \A i \in 1..n : s[i] \in S
  BY <1>1
<1> HIDE DEF n
<1>3. /\ SubSeq(s, 1, n) \in Seq(S)
      /\ Len(SubSeq(s, 1, n)) = n
      /\ \A i \in 1..n : SubSeq(s, 1, n)[i] = s[i]
  BY <1>2, SubSeqProperties
<1>4. t = SubSeq(s, 1, n)
  BY DEF n
<1>5. IsSequence(t)
  BY <1>3, <1>4 DEF IsSequence
<1> QED BY <1>3, <1>4, <1>5 DEF n

\* One element changed.
LEMMA Replaced ==
  ASSUME NEW s, IsSequence(s), NEW n \in 1..Len(s), NEW e
  PROVE  /\ IsSequence([s EXCEPT ![n] = e])
         /\ Len([s EXCEPT ![n] = e]) = Len(s)
         /\ \A i \in 1..Len(s) : [s EXCEPT ![n] = e][i] = IF i = n THEN e ELSE s[i]
<1>1. PICK S : s \in Seq(S)
  BY DEF IsSequence
<1>2. s \in Seq(S \cup {e}) /\ e \in S \cup {e}
  BY <1>1
<1>3. /\ [s EXCEPT ![n] = e] \in Seq(S \cup {e})
      /\ Len([s EXCEPT ![n] = e]) = Len(s)
      /\ \A i \in 1..Len(s) : [s EXCEPT ![n] = e][i] = IF i = n THEN e ELSE s[i]
  BY <1>2, ExceptSeq
<1>4. IsSequence([s EXCEPT ![n] = e])
  BY <1>3 DEF IsSequence
<1> QED BY <1>3, <1>4

\* One list after another.
LEMMA Joined ==
  ASSUME NEW s, IsSequence(s), NEW t, IsSequence(t)
  PROVE  IsSequence(s \o t)
<1>1. PICK S : s \in Seq(S)
  BY DEF IsSequence
<1>2. PICK T : t \in Seq(T)
  BY DEF IsSequence
<1>3. s \in Seq(S \cup T) /\ t \in Seq(S \cup T)
  BY <1>1, <1>2
<1>4. s \o t \in Seq(S \cup T)
  BY <1>3
<1> QED BY <1>4 DEF IsSequence

\* Where its elements are.
LEMMA JoinedAt ==
  ASSUME NEW s, IsSequence(s), NEW t, IsSequence(t), NEW u, u = s \o t
  PROVE  /\ IsSequence(u) /\ Len(u) = Len(s) + Len(t) /\ DOMAIN u = 1..Len(s) + Len(t)
         /\ \A i \in 1..Len(s) : u[i] = s[i]
         /\ \A i \in 1..Len(t) : u[Len(s) + i] = t[i]
         /\ \A i \in 1..Len(u) : i \in 1..Len(s)
              \/ \E j \in 1..Len(t) : i = Len(s) + j /\ u[i] = t[j]
<1>1. PICK S : s \in Seq(S)
  BY DEF IsSequence
<1>2. PICK T : t \in Seq(T)
  BY DEF IsSequence
<1>3. s \in Seq(S \cup T) /\ t \in Seq(S \cup T)
  BY <1>1, <1>2
<1>4. /\ Len(s) \in Nat /\ Len(t) \in Nat /\ Len(u) = Len(s) + Len(t)
      /\ DOMAIN u = 1..Len(s) + Len(t)
      /\ \A i \in 1..Len(s) : u[i] = s[i]
      /\ \A i \in 1..Len(t) : u[Len(s) + i] = t[i]
  BY <1>3, ConcatProperties
<1>5. ASSUME NEW i \in 1..Len(u), i \notin 1..Len(s)
      PROVE  \E j \in 1..Len(t) : i = Len(s) + j /\ u[i] = t[j]
  <2> DEFINE j == i - Len(s)
  <2>1. j \in 1..Len(t) /\ i = Len(s) + j
    BY <1>4, <1>5
  <2> QED BY <1>4, <2>1
<1> QED BY <1>4, <1>5, Joined

\* Lists are the same when they have the same elements at the same positions.
LEMMA SameList ==
  ASSUME NEW s, IsSequence(s), NEW t, IsSequence(t), Len(s) = Len(t),
         \A i \in 1..Len(s) : s[i] = t[i]
  PROVE  s = t
<1>1. s = [i \in 1..Len(s) |-> s[i]] /\ t = [i \in 1..Len(t) |-> t[i]]
  BY DEF IsSequence
<1> QED BY <1>1

\* A list of up to four elements is determined by them.
LEMMA ListIs ==
  /\ \A a, t : IsSequence(t) /\ Len(t) = 1 /\ t[1] = a => t = <<a>>
  /\ \A a, b, t : IsSequence(t) /\ Len(t) = 2 /\ t[1] = a /\ t[2] = b => t = <<a, b>>
  /\ \A a, b, c, t : IsSequence(t) /\ Len(t) = 3 /\ t[1] = a /\ t[2] = b /\ t[3] = c
                       => t = <<a, b, c>>
  /\ \A a, b, c, d, t : IsSequence(t) /\ Len(t) = 4 /\ t[1] = a /\ t[2] = b /\ t[3] = c /\ t[4] = d
                       => t = <<a, b, c, d>>
<1>1. \A t : IsSequence(t) => t = [i \in 1..Len(t) |-> t[i]]
  BY DEF IsSequence
<1>2. ASSUME NEW a, NEW t, IsSequence(t), Len(t) = 1, t[1] = a PROVE t = <<a>>
  BY <1>1, <1>2
<1>3. ASSUME NEW a, NEW b, NEW t, IsSequence(t), Len(t) = 2, t[1] = a, t[2] = b PROVE t = <<a, b>>
  BY <1>1, <1>3
<1>4. ASSUME NEW a, NEW b, NEW c, NEW t, IsSequence(t), Len(t) = 3, t[1] = a, t[2] = b, t[3] = c
      PROVE t = <<a, b, c>>
  BY <1>1, <1>4
<1>5. ASSUME NEW a, NEW b, NEW c, NEW d, NEW t, IsSequence(t), Len(t) = 4, t[1] = a, t[2] = b,
             t[3] = c, t[4] = d
      PROVE t = <<a, b, c, d>>
  BY <1>1, <1>5
<1> QED BY <1>2, <1>3, <1>4, <1>5

\* Short lists one after the other.
LEMMA JoinedLists ==
  /\ \A a, b : <<a>> \o <<b>> = <<a, b>>
  /\ \A a, b, c : <<a, b>> \o <<c>> = <<a, b, c>>
  /\ \A a, b, c : <<a>> \o <<b, c>> = <<a, b, c>>
  /\ \A a, b, c, d : <<a, b, c>> \o <<d>> = <<a, b, c, d>>
  /\ \A a, b, c, d : <<a, b>> \o <<c, d>> = <<a, b, c, d>>
<1>1. ASSUME NEW a, NEW b PROVE <<a>> \o <<b>> = <<a, b>>
  <2> DEFINE u == <<a>> \o <<b>>
  <2>1. <<a>> \in Seq({a, b}) /\ <<b>> \in Seq({a, b}) /\ Len(<<a>>) = 1 /\ Len(<<b>>) = 1
    OBVIOUS
  <2>2. u \in Seq({a, b}) /\ Len(u) = 2
    BY <2>1
  <2>3. u[1] = a
    BY <2>1
  <2>4. u[2] = b
    BY <2>1
  <2> HIDE DEF u
  <2>5. u = <<a, b>>
    BY <2>2, <2>3, <2>4, ListIs DEF IsSequence
  <2> QED BY <2>5 DEF u
<1>2. ASSUME NEW a, NEW b, NEW c PROVE <<a, b>> \o <<c>> = <<a, b, c>>
  <2> DEFINE u == <<a, b>> \o <<c>>
  <2>1. <<a, b>> \in Seq({a, b, c}) /\ <<c>> \in Seq({a, b, c}) /\ Len(<<a, b>>) = 2 /\ Len(<<c>>) = 1
    OBVIOUS
  <2>2. u \in Seq({a, b, c}) /\ Len(u) = 3
    BY <2>1
  <2>3. u[1] = a
    BY <2>1
  <2>4. u[2] = b
    BY <2>1
  <2>5. u[3] = c
    BY <2>1
  <2> HIDE DEF u
  <2>6. u = <<a, b, c>>
    BY <2>2, <2>3, <2>4, <2>5, ListIs DEF IsSequence
  <2> QED BY <2>6 DEF u
<1>3. ASSUME NEW a, NEW b, NEW c PROVE <<a>> \o <<b, c>> = <<a, b, c>>
  <2> DEFINE u == <<a>> \o <<b, c>>
  <2>1. <<a>> \in Seq({a, b, c}) /\ <<b, c>> \in Seq({a, b, c}) /\ Len(<<a>>) = 1 /\ Len(<<b, c>>) = 2
    OBVIOUS
  <2>2. u \in Seq({a, b, c}) /\ Len(u) = 3
    BY <2>1
  <2>3. u[1] = a
    BY <2>1
  <2>4. u[2] = b
    BY <2>1
  <2>5. u[3] = c
    BY <2>1
  <2> HIDE DEF u
  <2>6. u = <<a, b, c>>
    BY <2>2, <2>3, <2>4, <2>5, ListIs DEF IsSequence
  <2> QED BY <2>6 DEF u
<1>4. ASSUME NEW a, NEW b, NEW c, NEW d PROVE <<a, b, c>> \o <<d>> = <<a, b, c, d>>
  <2> DEFINE u == <<a, b, c>> \o <<d>>
  <2>1. <<a, b, c>> \in Seq({a, b, c, d}) /\ <<d>> \in Seq({a, b, c, d}) /\ Len(<<a, b, c>>) = 3 /\ Len(<<d>>) = 1
    OBVIOUS
  <2>2. u \in Seq({a, b, c, d}) /\ Len(u) = 4
    BY <2>1
  <2>3. u[1] = a
    BY <2>1
  <2>4. u[2] = b
    BY <2>1
  <2>5. u[3] = c
    BY <2>1
  <2>6. u[4] = d
    BY <2>1
  <2> HIDE DEF u
  <2>7. u = <<a, b, c, d>>
    BY <2>2, <2>3, <2>4, <2>5, <2>6, ListIs DEF IsSequence
  <2> QED BY <2>7 DEF u
<1>5. ASSUME NEW a, NEW b, NEW c, NEW d PROVE <<a, b>> \o <<c, d>> = <<a, b, c, d>>
  <2> DEFINE u == <<a, b>> \o <<c, d>>
  <2>1. <<a, b>> \in Seq({a, b, c, d}) /\ <<c, d>> \in Seq({a, b, c, d}) /\ Len(<<a, b>>) = 2 /\ Len(<<c, d>>) = 2
    OBVIOUS
  <2>2. u \in Seq({a, b, c, d}) /\ Len(u) = 4
    BY <2>1
  <2>3. u[1] = a
    BY <2>1
  <2>4. u[2] = b
    BY <2>1
  <2>5. u[3] = c
    BY <2>1
  <2>6. u[4] = d
    BY <2>1
  <2> HIDE DEF u
  <2>7. u = <<a, b, c, d>>
    BY <2>2, <2>3, <2>4, <2>5, <2>6, ListIs DEF IsSequence
  <2> QED BY <2>7 DEF u
<1> QED BY <1>1, <1>2, <1>3, <1>4, <1>5

\* A list put in another order.
LEMMA Reordered ==
  ASSUME NEW s, IsSequence(s), NEW p \in [DOMAIN s -> DOMAIN s],
         NEW t, t = [i \in DOMAIN s |-> s[p[i]]]
  PROVE  IsSequence(t)
<1>1. PICK S : s \in Seq(S)
  BY DEF IsSequence
<1>2. t \in [1..Len(s) -> S] /\ Len(s) \in Nat
  BY <1>1
<1>3. t \in Seq(S)
  BY <1>2
<1> QED BY <1>3 DEF IsSequence

(***************************************************************************)
(* A list of lists, joined                                                 *)
(***************************************************************************)

\* g[i] joins the first i of the lists.
Chain(g, ss, n) == g = [i \in 1..n |-> IF i = 1 THEN ss[i] ELSE g[i - 1] \o ss[i]]

\* There is a chain of any length, ...
LEMMA ChainExists ==
  ASSUME NEW ss, NEW n \in Nat
  PROVE  \E g : Chain(g, ss, n)
<1> DEFINE T == {m \in Nat : \E g : Chain(g, ss, m)}
<1>1. 0 \in T
  <2>1. Chain(<<>>, ss, 0)
    BY DEF Chain
  <2> QED BY <2>1
<1>2. ASSUME NEW m \in Nat, m \in T PROVE m + 1 \in T
  <2>1. PICK g : Chain(g, ss, m)
    BY <1>2
  <2> DEFINE h == [i \in 1..m + 1 |-> IF i <= m THEN g[i] ELSE IF i = 1 THEN ss[i] ELSE g[i - 1] \o ss[i]]
  <2>2. ASSUME NEW i \in 1..m + 1
        PROVE  h[i] = IF i = 1 THEN ss[i] ELSE h[i - 1] \o ss[i]
    <3>1. \A j \in 1..m : g[j] = IF j = 1 THEN ss[j] ELSE g[j - 1] \o ss[j]
      BY <2>1, Zenon DEF Chain
    <3>2. i - 1 \in 1..m => h[i - 1] = g[i - 1]
      OBVIOUS
    <3>3. CASE i <= m
      <4>1. h[i] = g[i]
        BY <3>3
      <4> QED BY <3>1, <3>2, <3>3, <4>1
    <3>4. CASE i = m + 1
      <4>1. h[i] = IF i = 1 THEN ss[i] ELSE g[i - 1] \o ss[i]
        BY <3>4
      <4> QED BY <3>2, <3>4, <4>1
    <3> QED BY <3>3, <3>4
  <2> HIDE DEF h
  <2>3. DOMAIN h = 1..m + 1 /\ h = [i \in 1..m + 1 |-> h[i]]
    BY DEF h
  <2>4. Chain(h, ss, m + 1)
    BY <2>2, <2>3, Zenon DEF Chain
  <2> QED BY <2>4
<1> HIDE DEF T
<1>3. Nat \subseteq T
  BY <1>1, <1>2, NumberInduction
<1> QED BY <1>3 DEF T

\* ... and two chains over the same lists agree.
LEMMA ChainUnique ==
  ASSUME NEW ss, NEW tt, NEW m \in Nat, NEW n \in Nat, m <= n, \A i \in 1..m : ss[i] = tt[i],
         NEW g, Chain(g, ss, m), NEW h, Chain(h, tt, n), NEW i \in 1..m
  PROVE  g[i] = h[i]
<1> DEFINE T == {j \in 1..m : g[j] # h[j]}
<1> SUFFICES ASSUME T # {} PROVE FALSE
  OBVIOUS
<1>1. PICK k \in T : \A j \in T : k <= j
  BY LeastNumber, T \subseteq Nat
<1>2. k \in 1..m /\ k \in 1..n /\ (k # 1 => k - 1 \in 1..m /\ k - 1 \notin T)
  BY <1>1
<1>3. k # 1 => g[k - 1] = h[k - 1]
  BY <1>2
<1>4. ss[k] = tt[k]
  BY <1>2
<1>5. \A j \in 1..m : g[j] = IF j = 1 THEN ss[j] ELSE g[j - 1] \o ss[j]
  BY Zenon DEF Chain
<1>6. \A j \in 1..n : h[j] = IF j = 1 THEN tt[j] ELSE h[j - 1] \o tt[j]
  BY Zenon DEF Chain
<1>7. g[k] = h[k]
  BY <1>2, <1>3, <1>4, <1>5, <1>6
<1> QED BY <1>1, <1>7

\* FlattenSeq is the last of such a chain.
LEMMA FlattenIs ==
  ASSUME NEW ss, IsSequence(ss), ss # <<>>
  PROVE  \E g : Chain(g, ss, Len(ss)) /\ FlattenSeq(ss) = g[Len(ss)]
<1>1. Len(ss) \in Nat /\ Len(ss) # 0
  BY DEF IsSequence
<1> DEFINE f == CHOOSE g : g = [i \in 1..Len(ss) |-> IF i = 1 THEN ss[i] ELSE g[i - 1] \o ss[i]]
<1>2. Chain(f, ss, Len(ss))
  BY <1>1, ChainExists DEF Chain
<1>3. FlattenSeq(ss) = f[Len(ss)]
  BY <1>1 DEF FlattenSeq
<1> QED BY <1>2, <1>3

\* Joining no list gives none, ...
LEMMA FlattenEmpty == FlattenSeq(<<>>) = <<>>
BY DEF FlattenSeq

\* ... and one list more adds its elements at the end.
LEMMA FlattenAppend ==
  ASSUME NEW ss, IsSequence(ss), NEW s, IsSequence(s)
  PROVE  FlattenSeq(Append(ss, s)) = FlattenSeq(ss) \o s
<1> DEFINE tt == Append(ss, s)
<1>1. /\ IsSequence(tt) /\ Len(ss) \in Nat /\ Len(tt) = Len(ss) + 1
      /\ tt[Len(tt)] = s /\ \A i \in 1..Len(ss) : ss[i] = tt[i]
  BY Appended, SequenceFacts
<1> HIDE DEF tt
<1>2. tt # <<>>
  BY <1>1
<1>3. PICK h : Chain(h, tt, Len(tt)) /\ FlattenSeq(tt) = h[Len(tt)]
  BY <1>1, <1>2, FlattenIs
<1>4. CASE ss = <<>>
  <2>1. Len(tt) = 1
    BY <1>1, <1>4
  <2>2. h[1] = s
    <3>1. Chain(h, tt, 1) /\ 1 \in 1..1
      BY <1>3, <2>1
    <3>2. \A j \in 1..1 : h[j] = IF j = 1 THEN tt[j] ELSE h[j - 1] \o tt[j]
      BY <3>1, Zenon DEF Chain
    <3> QED BY <1>1, <2>1, <3>2
  <2>3. <<>> \o s = s
    BY DEF IsSequence
  <2> QED BY <1>3, <1>4, <2>1, <2>2, <2>3, FlattenEmpty DEF tt
<1>5. CASE ss # <<>>
  <2>1. PICK g : Chain(g, ss, Len(ss)) /\ FlattenSeq(ss) = g[Len(ss)]
    BY <1>5, FlattenIs
  <2>2. Len(ss) # 0
    BY <1>5 DEF IsSequence
  <2>3. Len(ss) \in 1..Len(ss) /\ Len(ss) <= Len(tt) /\ Len(tt) \in Nat
    BY <1>1, <2>2
  <2>4. g[Len(ss)] = h[Len(ss)]
    <3> DEFINE m == Len(ss)
               n == Len(tt)
    <3>1. m \in Nat /\ n \in Nat /\ m <= n /\ m \in 1..m /\ Chain(g, ss, m) /\ Chain(h, tt, n)
      BY <1>1, <1>3, <2>1, <2>3
    <3> HIDE DEF m, n
    <3>2. \A i \in 1..m : ss[i] = tt[i]
      BY <1>1 DEF m
    <3>3. g[m] = h[m]
      BY <3>1, <3>2, ChainUnique
    <3> QED BY <3>3 DEF m
  <2>5. Len(tt) \in 1..Len(tt) /\ Len(tt) # 1 /\ Len(tt) - 1 = Len(ss)
    BY <1>1, <2>2
  <2>6. h[Len(tt)] = h[Len(tt) - 1] \o tt[Len(tt)]
    <3>1. \A j \in 1..Len(tt) : h[j] = IF j = 1 THEN tt[j] ELSE h[j - 1] \o tt[j]
      BY <1>3, Zenon DEF Chain
    <3> QED BY <2>5, <3>1
  <2> QED BY <1>1, <1>3, <2>1, <2>4, <2>5, <2>6 DEF tt
<1> QED BY <1>4, <1>5

\* The joined list has the elements' type.
LEMMA FlattenType ==
  ASSUME NEW S, NEW ss \in Seq(Seq(S))
  PROVE  FlattenSeq(ss) \in Seq(S)
<1> DEFINE T == {r \in Seq(Seq(S)) : FlattenSeq(r) \in Seq(S)}
<1>1. <<>> \in T
  <2>1. <<>> \in Seq(Seq(S)) /\ <<>> \in Seq(S)
    OBVIOUS
  <2> QED BY <2>1, FlattenEmpty, Zenon
<1>2. ASSUME NEW r \in Seq(Seq(S)), NEW e \in Seq(S), r \in T PROVE Append(r, e) \in T
  <2>1. FlattenSeq(Append(r, e)) = FlattenSeq(r) \o e
    BY FlattenAppend DEF IsSequence
  <2>2. Append(r, e) \in Seq(Seq(S)) /\ FlattenSeq(r) \in Seq(S) /\ e \in Seq(S)
    BY <1>2
  <2>3. FlattenSeq(r) \o e \in Seq(S)
    BY <2>2
  <2>4. FlattenSeq(Append(r, e)) \in Seq(S)
    BY <2>1, <2>3
  <2> QED BY <2>2, <2>4
<1> HIDE DEF T
<1>3. Seq(Seq(S)) \subseteq T
  BY <1>1, <1>2, ListInduction
<1> QED BY <1>3 DEF T

\* What is in a list.
Has(s, x) == \E i \in DOMAIN s : s[i] = x

\* Membership in one list after another.
LEMMA HasJoin ==
  ASSUME NEW s, IsSequence(s), NEW t, IsSequence(t), NEW x
  PROVE  Has(s \o t, x) <=> Has(s, x) \/ Has(t, x)
<1>1. PICK S : s \in Seq(S)
  BY DEF IsSequence
<1>2. PICK T : t \in Seq(T)
  BY DEF IsSequence
<1>3. s \in Seq(S \cup T) /\ t \in Seq(S \cup T)
  BY <1>1, <1>2
<1>4. /\ Len(s) \in Nat /\ Len(t) \in Nat /\ DOMAIN s = 1..Len(s) /\ DOMAIN t = 1..Len(t)
      /\ DOMAIN (s \o t) = 1..Len(s) + Len(t)
      /\ \A i \in 1..Len(s) : (s \o t)[i] = s[i]
      /\ \A i \in 1..Len(t) : (s \o t)[Len(s) + i] = t[i]
  BY <1>3, ConcatProperties
<1>5. \A i \in DOMAIN (s \o t) :
        i \in 1..Len(s) \/ (i - Len(s) \in 1..Len(t) /\ i = Len(s) + (i - Len(s)))
  BY <1>4
<1>6. ASSUME Has(s \o t, x) PROVE Has(s, x) \/ Has(t, x)
  <2>1. PICK i \in DOMAIN (s \o t) : (s \o t)[i] = x
    BY <1>6 DEF Has
  <2>2. CASE i \in 1..Len(s)
    BY <1>4, <2>1, <2>2 DEF Has
  <2>3. CASE i - Len(s) \in 1..Len(t)
    <3>1. (s \o t)[Len(s) + (i - Len(s))] = t[i - Len(s)] /\ i = Len(s) + (i - Len(s))
      BY <1>4, <2>1, <2>3
    <3> QED BY <1>4, <2>1, <2>3, <3>1 DEF Has
  <2> QED BY <1>5, <2>2, <2>3
<1>7. ASSUME Has(s, x) PROVE Has(s \o t, x)
  <2>1. PICK i \in 1..Len(s) : s[i] = x
    BY <1>4, <1>7 DEF Has
  <2> QED BY <1>4, <2>1 DEF Has
<1>8. ASSUME Has(t, x) PROVE Has(s \o t, x)
  <2>1. PICK i \in 1..Len(t) : t[i] = x
    BY <1>4, <1>8 DEF Has
  <2>2. Len(s) + i \in 1..Len(s) + Len(t)
    BY <1>4, <2>1
  <2> QED BY <1>4, <2>1, <2>2 DEF Has
<1> QED BY <1>6, <1>7, <1>8

\* The joined list has what the lists have.
LEMMA FlattenHas ==
  ASSUME NEW S, NEW ss \in Seq(Seq(S)), NEW x
  PROVE  Has(FlattenSeq(ss), x) <=> \E i \in DOMAIN ss : Has(ss[i], x)
<1> DEFINE T == {r \in Seq(Seq(S)) :
                   Has(FlattenSeq(r), x) <=> \E i \in DOMAIN r : Has(r[i], x)}
<1>1. <<>> \in T
  <2>1. ~Has(<<>>, x)
    BY DEF Has
  <2> QED BY <2>1, FlattenEmpty
<1>2. ASSUME NEW r \in Seq(Seq(S)), NEW e \in Seq(S), r \in T PROVE Append(r, e) \in T
  <2>1. FlattenSeq(Append(r, e)) = FlattenSeq(r) \o e
    BY FlattenAppend DEF IsSequence
  <2>2. Has(FlattenSeq(r) \o e, x) <=> Has(FlattenSeq(r), x) \/ Has(e, x)
    BY FlattenType, HasJoin DEF IsSequence
  <2>3. /\ Len(r) \in Nat /\ DOMAIN r = 1..Len(r) /\ DOMAIN Append(r, e) = 1..Len(r) + 1
        /\ Append(r, e)[Len(r) + 1] = e /\ \A i \in 1..Len(r) : Append(r, e)[i] = r[i]
    OBVIOUS
  <2>4. (\E i \in DOMAIN Append(r, e) : Has(Append(r, e)[i], x))
          <=> (\E i \in DOMAIN r : Has(r[i], x)) \/ Has(e, x)
    <3> DEFINE a == Append(r, e)
    <3>1. /\ DOMAIN a = DOMAIN r \cup {Len(r) + 1} /\ a[Len(r) + 1] = e
          /\ \A i \in DOMAIN r : a[i] = r[i]
      BY <2>3
    <3> HIDE DEF a
    <3>2. (\E i \in DOMAIN a : Has(a[i], x)) <=> (\E i \in DOMAIN r : Has(r[i], x)) \/ Has(e, x)
      BY <3>1, Zenon
    <3> QED BY <3>2 DEF a
  <2>5. Has(FlattenSeq(r), x) <=> \E i \in DOMAIN r : Has(r[i], x)
    BY <1>2
  <2>6. Has(FlattenSeq(Append(r, e)), x) <=> \E i \in DOMAIN Append(r, e) : Has(Append(r, e)[i], x)
    BY <2>1, <2>2, <2>4, <2>5
  <2>7. Append(r, e) \in Seq(Seq(S))
    OBVIOUS
  <2> QED BY <2>6, <2>7
<1> HIDE DEF T
<1>3. Seq(Seq(S)) \subseteq T
  BY <1>1, <1>2, ListInduction
<1> QED BY <1>3 DEF T

\* Lists of anything have their elements in one set.
LEMMA Gathered ==
  ASSUME NEW n \in Nat, NEW p, \A i \in 1..n : IsSequence(p[i])
  PROVE  \E S : [i \in 1..n |-> p[i]] \in Seq(Seq(S))
<1> DEFINE S == UNION {{p[i][j] : j \in DOMAIN p[i]} : i \in 1..n}
<1>1. ASSUME NEW i \in 1..n PROVE p[i] \in Seq(S)
  <2>1. PICK R : p[i] \in Seq(R)
    BY DEF IsSequence
  <2>2. p[i] = [j \in 1..Len(p[i]) |-> p[i][j]] /\ Len(p[i]) \in Nat /\ DOMAIN p[i] = 1..Len(p[i])
    BY <2>1
  <2>3. \A j \in 1..Len(p[i]) : p[i][j] \in S
    BY <2>2
  <2> QED BY <2>2, <2>3
<1> HIDE DEF S
<1> QED BY <1>1

\* A list has its elements in a set, and in any that is larger.
LEMMA SetOfList ==
  ASSUME NEW s, IsSequence(s)
  PROVE  s \in Seq(ToSet(s)) /\ \A S : ToSet(s) \subseteq S => s \in Seq(S)
<1>1. Len(s) \in Nat /\ s = [i \in 1..Len(s) |-> s[i]] /\ DOMAIN s = 1..Len(s)
  BY DEF IsSequence
<1>2. \A i \in 1..Len(s) : s[i] \in ToSet(s)
  BY <1>1 DEF ToSet
<1> HIDE DEF ToSet
<1> QED BY <1>1, <1>2

\* Joining lists of anything makes a list, of what they have.
LEMMA FlattenLists ==
  ASSUME NEW n \in Nat, NEW p, p = [i \in 1..n |-> p[i]], \A i \in 1..n : IsSequence(p[i])
  PROVE  /\ IsSequence(FlattenSeq(p))
         /\ \A x : Has(FlattenSeq(p), x) <=> \E i \in 1..n : Has(p[i], x)
<1>1. PICK S : p \in Seq(Seq(S))
  <2>1. \E S : [i \in 1..n |-> p[i]] \in Seq(Seq(S))
    BY Gathered
  <2> QED BY <2>1
<1>2. FlattenSeq(p) \in Seq(S)
  BY <1>1, FlattenType
<1>3. DOMAIN p = 1..n
  BY <1>1
<1>4. \A x : Has(FlattenSeq(p), x) <=> \E i \in DOMAIN p : Has(p[i], x)
  BY <1>1, FlattenHas
<1> QED BY <1>2, <1>3, <1>4 DEF IsSequence

(***************************************************************************)
(* Each element of a list turned into a list of its own                    *)
(***************************************************************************)

Mapped(g, s) == FlattenSeq([n \in DOMAIN s |-> g[s[n]]])

\* g turns the elements of S into lists of elements of R.
Turns(g, S, R) == \A x \in S : g[x] \in Seq(R)

\* No element gives nothing.
LEMMA MappedEmpty == \A g : Mapped(g, <<>>) = <<>>
<1> SUFFICES ASSUME NEW g PROVE Mapped(g, <<>>) = <<>>
  OBVIOUS
<1>1. [n \in DOMAIN <<>> |-> g[<<>>[n]]] = <<>>
  OBVIOUS
<1> QED BY <1>1, FlattenEmpty DEF Mapped

\* The lists a list is turned into.
LEMMA MappedPieces ==
  ASSUME NEW S, NEW R, NEW g, Turns(g, S, R), NEW s \in Seq(S)
  PROVE  [n \in DOMAIN s |-> g[s[n]]] \in Seq(Seq(R))
<1>1. DOMAIN s = 1..Len(s) /\ Len(s) \in Nat /\ \A n \in 1..Len(s) : s[n] \in S
  OBVIOUS
<1>2. \A n \in 1..Len(s) : g[s[n]] \in Seq(R)
  BY <1>1 DEF Turns
<1> QED BY <1>1, <1>2

\* What the elements turn into is a list of what each may turn into.
LEMMA MappedType ==
  ASSUME NEW S, NEW R, NEW g, Turns(g, S, R), NEW s \in Seq(S)
  PROVE  Mapped(g, s) \in Seq(R)
BY MappedPieces, FlattenType DEF Mapped

\* One element more.
LEMMA MappedAppend ==
  ASSUME NEW S, NEW R, NEW g, Turns(g, S, R), NEW s \in Seq(S), NEW e \in S
  PROVE  Mapped(g, Append(s, e)) = Mapped(g, s) \o g[e]
<1> DEFINE ss == [n \in DOMAIN s |-> g[s[n]]]
           t == Append(s, e)
<1>1. ss \in Seq(Seq(R)) /\ g[e] \in Seq(R)
  BY MappedPieces DEF Turns
<1>2. /\ Len(s) \in Nat /\ DOMAIN s = 1..Len(s) /\ DOMAIN t = 1..Len(s) + 1
      /\ t[Len(s) + 1] = e /\ \A n \in 1..Len(s) : t[n] = s[n]
  OBVIOUS
<1>3. DOMAIN ss = 1..Len(s) /\ Len(ss) = Len(s) /\ \A n \in 1..Len(s) : ss[n] = g[s[n]]
  BY <1>1, <1>2
<1> HIDE DEF ss, t
<1>4. [n \in DOMAIN t |-> g[t[n]]] = Append(ss, g[e])
  <2>1. /\ Append(ss, g[e]) \in Seq(Seq(R)) /\ Len(Append(ss, g[e])) = Len(s) + 1
        /\ Append(ss, g[e])[Len(s) + 1] = g[e] /\ \A n \in 1..Len(s) : Append(ss, g[e])[n] = g[s[n]]
    BY <1>1, <1>2, <1>3
  <2> DEFINE r == Append(ss, g[e])
  <2>2. r = [n \in 1..Len(s) + 1 |-> r[n]]
    BY <2>1
  <2> HIDE DEF r
  <2>3. \A n \in 1..Len(s) + 1 : r[n] = g[t[n]]
    BY <1>2, <2>1 DEF r
  <2>4. [n \in DOMAIN t |-> g[t[n]]] = r
    BY <1>2, <2>2, <2>3
  <2> QED BY <2>4 DEF r
<1>5. FlattenSeq(Append(ss, g[e])) = FlattenSeq(ss) \o g[e]
  BY <1>1, FlattenAppend DEF IsSequence
<1> QED BY <1>4, <1>5 DEF Mapped, ss, t

\* One element.
LEMMA MappedOne ==
  ASSUME NEW S, NEW R, NEW g, Turns(g, S, R), NEW e \in S
  PROVE  Mapped(g, <<e>>) = g[e]
<1>1. Mapped(g, Append(<<>>, e)) = Mapped(g, <<>>) \o g[e]
  BY MappedAppend, <<>> \in Seq(S)
<1>2. Append(<<>>, e) = <<e>> /\ <<>> \o g[e] = g[e]
  BY DEF Turns
<1> QED BY <1>1, <1>2, MappedEmpty

\* Two lists, one after the other.
LEMMA MappedJoin ==
  ASSUME NEW S, NEW R, NEW g, Turns(g, S, R), NEW s \in Seq(S), NEW t \in Seq(S)
  PROVE  Mapped(g, s \o t) = Mapped(g, s) \o Mapped(g, t)
<1> DEFINE T == {r \in Seq(S) : Mapped(g, s \o r) = Mapped(g, s) \o Mapped(g, r)}
<1>1. <<>> \in T
  <2>1. Mapped(g, s) \in Seq(R) /\ s \o <<>> = s /\ <<>> \in Seq(S)
    BY MappedType
  <2>2. Mapped(g, s) \o <<>> = Mapped(g, s)
    BY <2>1
  <2> QED BY <2>1, <2>2, MappedEmpty
<1>2. ASSUME NEW r \in Seq(S), NEW e \in S, r \in T PROVE Append(r, e) \in T
  <2>1. s \o Append(r, e) = Append(s \o r, e) /\ s \o r \in Seq(S) /\ Append(r, e) \in Seq(S)
    OBVIOUS
  <2>2. Mapped(g, Append(s \o r, e)) = Mapped(g, s \o r) \o g[e]
    <3> DEFINE q == s \o r
    <3>1. q \in Seq(S)
      BY <2>1
    <3> HIDE DEF q
    <3>2. Mapped(g, Append(q, e)) = Mapped(g, q) \o g[e]
      BY <3>1, MappedAppend
    <3> QED BY <3>2 DEF q
  <2>3. Mapped(g, Append(r, e)) = Mapped(g, r) \o g[e]
    BY MappedAppend
  <2>4. Mapped(g, s) \in Seq(R) /\ Mapped(g, r) \in Seq(R) /\ g[e] \in Seq(R)
    BY MappedType DEF Turns
  <2>5. (Mapped(g, s) \o Mapped(g, r)) \o g[e] = Mapped(g, s) \o (Mapped(g, r) \o g[e])
    <3>1. \A a, b, c \in Seq(R) : (a \o b) \o c = a \o (b \o c)
      OBVIOUS
    <3> QED BY <2>4, <3>1
  <2>6. Mapped(g, s \o r) = Mapped(g, s) \o Mapped(g, r)
    BY <1>2
  <2>7. Mapped(g, s \o Append(r, e)) = Mapped(g, s) \o Mapped(g, Append(r, e))
    BY <2>1, <2>2, <2>3, <2>5, <2>6
  <2> QED BY <2>1, <2>7
<1> HIDE DEF T
<1>3. Seq(S) \subseteq T
  BY <1>1, <1>2, ListInduction
<1> QED BY <1>3 DEF T

\* Only what becomes of the elements counts.
LEMMA MappedSame ==
  ASSUME NEW S, NEW g, NEW h, \A x \in S : g[x] = h[x], NEW s \in Seq(S)
  PROVE  Mapped(g, s) = Mapped(h, s)
<1>1. \A n \in DOMAIN s : g[s[n]] = h[s[n]]
  OBVIOUS
<1>2. [n \in DOMAIN s |-> g[s[n]]] = [n \in DOMAIN s |-> h[s[n]]]
  BY <1>1
<1> QED BY <1>2 DEF Mapped

\* A list whose elements all stay, and one whose elements all go.
LEMMA MappedAll ==
  ASSUME NEW S, NEW g, \A x \in S : g[x] = <<x>>, NEW s \in Seq(S)
  PROVE  Mapped(g, s) = s
<1> DEFINE T == {r \in Seq(S) : Mapped(g, r) = r}
<1>1. Turns(g, S, S)
  <2>1. \A x \in S : <<x>> \in Seq(S)
    OBVIOUS
  <2> QED BY <2>1 DEF Turns
<1>2. <<>> \in T
  BY MappedEmpty
<1>3. ASSUME NEW r \in Seq(S), NEW e \in S, r \in T PROVE Append(r, e) \in T
  <2>1. Mapped(g, Append(r, e)) = Mapped(g, r) \o g[e]
    BY <1>1, MappedAppend
  <2>2. r \o <<e>> = Append(r, e) /\ Append(r, e) \in Seq(S)
    OBVIOUS
  <2> QED BY <1>3, <2>1, <2>2
<1> HIDE DEF T
<1>4. Seq(S) \subseteq T
  BY <1>2, <1>3, ListInduction
<1> QED BY <1>4 DEF T

\* When every element turns into nothing, so does the list.
LEMMA MappedNone ==
  ASSUME NEW S, NEW g, \A x \in S : g[x] = <<>>, NEW s \in Seq(S)
  PROVE  Mapped(g, s) = <<>>
<1> DEFINE T == {r \in Seq(S) : Mapped(g, r) = <<>>}
<1>1. Turns(g, S, {})
  <2>1. <<>> \in Seq({})
    OBVIOUS
  <2> QED BY <2>1 DEF Turns
<1>2. <<>> \in T
  BY MappedEmpty
<1>3. ASSUME NEW r \in Seq(S), NEW e \in S, r \in T PROVE Append(r, e) \in T
  <2>1. Mapped(g, Append(r, e)) = Mapped(g, r) \o g[e]
    BY <1>1, MappedAppend
  <2>2. Append(r, e) \in Seq(S) /\ <<>> \o <<>> = <<>>
    OBVIOUS
  <2> QED BY <1>3, <2>1, <2>2
<1> HIDE DEF T
<1>4. Seq(S) \subseteq T
  BY <1>2, <1>3, ListInduction
<1> QED BY <1>4 DEF T

\* Turning twice.
LEMMA MappedTwice ==
  ASSUME NEW S, NEW R, NEW Q, NEW g, Turns(g, S, R),
         NEW k, Turns(k, R, Q), NEW h, \A x \in S : h[x] = Mapped(k, g[x]),
         NEW s \in Seq(S)
  PROVE  Mapped(k, Mapped(g, s)) = Mapped(h, s)
<1> DEFINE T == {r \in Seq(S) : Mapped(k, Mapped(g, r)) = Mapped(h, r)}
<1>1. Turns(h, S, Q)
  BY MappedType DEF Turns
<1>2. <<>> \in T
  BY MappedEmpty
<1>3. ASSUME NEW r \in Seq(S), NEW e \in S, r \in T PROVE Append(r, e) \in T
  <2>1. Mapped(g, Append(r, e)) = Mapped(g, r) \o g[e]
    BY MappedAppend
  <2>2. Mapped(g, r) \in Seq(R) /\ g[e] \in Seq(R)
    BY MappedType DEF Turns
  <2>3. Mapped(k, Mapped(g, r) \o g[e]) = Mapped(k, Mapped(g, r)) \o Mapped(k, g[e])
    BY <2>2, MappedJoin
  <2>4. Mapped(h, Append(r, e)) = Mapped(h, r) \o h[e]
    BY <1>1, MappedAppend
  <2>5. Mapped(k, Mapped(g, r)) = Mapped(h, r)
    BY <1>3
  <2>6. Mapped(k, Mapped(g, Append(r, e))) = Mapped(h, Append(r, e))
    BY <2>1, <2>3, <2>4, <2>5
  <2> QED BY <2>6
<1> HIDE DEF T
<1>4. Seq(S) \subseteq T
  BY <1>2, <1>3, ListInduction
<1> QED BY <1>4 DEF T

(***************************************************************************)
(* How often a list has something                                          *)
(***************************************************************************)

Copies(s, x) == Cardinality({i \in DOMAIN s : s[i] = x})

\* Nothing is in the empty list, ...
LEMMA CopiesEmpty == \A x : Copies(<<>>, x) = 0
<1> SUFFICES ASSUME NEW x PROVE Copies(<<>>, x) = 0
  OBVIOUS
<1>1. {i \in DOMAIN <<>> : <<>>[i] = x} = {}
  OBVIOUS
<1> QED BY <1>1, FS_EmptySet DEF Copies

\* ... one element more counts once more, ...
LEMMA CopiesAppend ==
  ASSUME NEW s, IsSequence(s), NEW e, NEW x
  PROVE  /\ Copies(s, x) \in Nat
         /\ Copies(Append(s, e), x) = Copies(s, x) + (IF e = x THEN 1 ELSE 0)
<1> DEFINE P == {i \in DOMAIN s : s[i] = x}
           Q == {i \in DOMAIN Append(s, e) : Append(s, e)[i] = x}
<1>1. /\ Len(s) \in Nat /\ DOMAIN s = 1..Len(s) /\ DOMAIN Append(s, e) = 1..Len(s) + 1
      /\ Append(s, e)[Len(s) + 1] = e /\ \A i \in 1..Len(s) : Append(s, e)[i] = s[i]
  BY Appended, SequenceFacts
<1>2. IsFiniteSet(P)
  <2>1. IsFiniteSet(1..Len(s))
    BY <1>1, FS_Interval
  <2> QED BY <1>1, <2>1, FS_Subset
<1>3. Cardinality(P) \in Nat
  BY <1>2, FS_CardinalityType
<1>4. CASE e = x
  <2>1. Q = P \cup {Len(s) + 1} /\ Len(s) + 1 \notin P
    BY <1>1, <1>4
  <2> HIDE DEF P, Q
  <2>2. Cardinality(Q) = Cardinality(P) + 1
    BY <1>2, <2>1, FS_AddElement
  <2> QED BY <1>3, <1>4, <2>2 DEF Copies, P, Q
<1>5. CASE e # x
  <2>1. Q = P
    BY <1>1, <1>5
  <2>2. Copies(s, x) = Cardinality(P) /\ Copies(Append(s, e), x) = Cardinality(Q)
    BY DEF Copies
  <2> HIDE DEF P, Q
  <2> QED BY <1>3, <1>5, <2>1, <2>2
<1> QED BY <1>4, <1>5

\* ... and two lists count together.
LEMMA CopiesJoin ==
  ASSUME NEW S, NEW s \in Seq(S), NEW t \in Seq(S), NEW x
  PROVE  Copies(s \o t, x) = Copies(s, x) + Copies(t, x) /\ Copies(s, x) \in Nat /\ Copies(t, x) \in Nat
<1> DEFINE T == {r \in Seq(S) : Copies(s \o r, x) = Copies(s, x) + Copies(r, x)}
<1>1. \A r \in Seq(S) : Copies(r, x) \in Nat
  BY CopiesAppend DEF IsSequence
<1>2. <<>> \in T
  <2>1. s \o <<>> = s /\ <<>> \in Seq(S)
    OBVIOUS
  <2>2. Copies(s, x) = Copies(s, x) + 0
    BY <1>1
  <2> QED BY <2>1, <2>2, CopiesEmpty
<1>3. ASSUME NEW r \in Seq(S), NEW e \in S, r \in T PROVE Append(r, e) \in T
  <2>1. s \o Append(r, e) = Append(s \o r, e) /\ s \o r \in Seq(S) /\ Append(r, e) \in Seq(S)
    OBVIOUS
  <2> DEFINE d == IF e = x THEN 1 ELSE 0
  <2>2. Copies(Append(s \o r, e), x) = Copies(s \o r, x) + d
    <3> DEFINE q == s \o r
    <3>1. IsSequence(q)
      BY <2>1 DEF IsSequence
    <3> HIDE DEF q
    <3>2. Copies(Append(q, e), x) = Copies(q, x) + d
      BY <3>1, CopiesAppend
    <3> QED BY <3>2 DEF q
  <2>3. Copies(Append(r, e), x) = Copies(r, x) + d
    BY CopiesAppend DEF IsSequence
  <2>4. d \in Nat /\ Copies(s, x) \in Nat /\ Copies(r, x) \in Nat
    BY <1>1
  <2>5. Copies(s \o r, x) = Copies(s, x) + Copies(r, x)
    BY <1>3
  <2> HIDE DEF d
  <2>6. Copies(s \o Append(r, e), x) = Copies(s, x) + Copies(Append(r, e), x)
    BY <2>1, <2>2, <2>3, <2>4, <2>5
  <2> QED BY <2>1, <2>6
<1> HIDE DEF T
<1>4. Seq(S) \subseteq T
  BY <1>2, <1>3, ListInduction
<1> QED BY <1>1, <1>4 DEF T

\* What a list has, it has at least once.
LEMMA CopiesRange ==
  ASSUME NEW r, IsSequence(r), NEW x
  PROVE  x \in Range(r) <=> Copies(r, x) # 0
<1> DEFINE P == {i \in DOMAIN r : r[i] = x}
<1>1. IsFiniteSet(P)
  <2>1. IsFiniteSet(1..Len(r)) /\ DOMAIN r = 1..Len(r)
    BY SequenceFacts, FS_Interval
  <2> QED BY <2>1, FS_Subset
<1>2. P = {} <=> x \notin Range(r)
  BY DEF Range
<1> HIDE DEF P
<1>3. Cardinality(P) = 0 <=> P = {}
  BY <1>1, FS_EmptySet
<1> QED BY <1>2, <1>3 DEF Copies, P

\* Lists that have everything equally often are one bag.
LEMMA SameBag ==
  ASSUME NEW s, IsSequence(s), NEW t, IsSequence(t), \A x : Copies(s, x) = Copies(t, x)
  PROVE  ToBag(s) = ToBag(t)
<1>1. Range(s) = Range(t)
  BY CopiesRange
<1> QED BY <1>1 DEF ToBag, Copies

\* A list backwards.
LEMMA ReverseAppend ==
  ASSUME NEW S, NEW s \in Seq(S), NEW e \in S
  PROVE  Reverse(Append(s, e)) = <<e>> \o Reverse(s) /\ Reverse(s) \in Seq(S)
<1> DEFINE n == Len(s)
           r == Reverse(s)
           a == Append(s, e)
           b == Reverse(a)
           c == <<e>> \o r
<1>1. n \in Nat /\ r \in Seq(S) /\ Len(r) = n /\ \A i \in 1..n : r[i] = s[n - i + 1]
  BY DEF Reverse
<1>2. /\ Len(a) = n + 1 /\ a[n + 1] = e /\ \A i \in 1..n : a[i] = s[i]
  OBVIOUS
<1>3. b = [i \in 1..n + 1 |-> a[(n + 1 - i) + 1]]
  BY <1>2 DEF Reverse
<1> HIDE DEF r, a, b
<1>4. <<e>> \in Seq(S) /\ Len(<<e>>) = 1 /\ <<e>>[1] = e
  OBVIOUS
<1>5. c \in Seq(S) /\ Len(c) = n + 1 /\ c[1] = e /\ \A i \in 1..n : c[i + 1] = r[i]
  <2>1. \A i \in 1..n : c[1 + i] = r[i]
    BY <1>1, <1>4, ConcatProperties
  <2>2. c \in Seq(S) /\ Len(c) = n + 1 /\ c[1] = e
    BY <1>1, <1>4, ConcatProperties
  <2>3. \A i \in 1..n : 1 + i = i + 1
    BY <1>1
  <2> QED BY <2>1, <2>2, <2>3
<1>6. c = [i \in 1..n + 1 |-> c[i]]
  BY <1>5
<1> HIDE DEF n, c
<1>7. ASSUME NEW i \in 1..n + 1 PROVE b[i] = c[i]
  <2>1. CASE i = 1
    <3>1. (n + 1 - i) + 1 = n + 1
      BY <1>1, <2>1
    <3> QED BY <1>1, <1>2, <1>3, <1>5, <2>1, <3>1
  <2>2. CASE i # 1
    <3> DEFINE j == i - 1
    <3>1. j \in 1..n /\ i = j + 1 /\ (n + 1 - i) + 1 = n - j + 1 /\ n - j + 1 \in 1..n
      BY <1>1, <2>2
    <3> HIDE DEF j
    <3>2. c[i] = s[n - j + 1]
      BY <1>1, <1>5, <3>1
    <3>3. b[i] = a[n - j + 1]
      BY <1>3, <3>1
    <3> QED BY <1>2, <3>1, <3>2, <3>3
  <2> QED BY <2>1, <2>2
<1>8. b = c
  BY <1>3, <1>6, <1>7
<1> QED BY <1>1, <1>8 DEF a, b, c, r

\* Turning a list round changes nothing in how often the lists it becomes have
\* something.
LEMMA MappedReverse ==
  ASSUME NEW S, NEW R, NEW g, Turns(g, S, R), NEW s \in Seq(S), NEW x
  PROVE  Copies(Mapped(g, Reverse(s)), x) = Copies(Mapped(g, s), x)
<1> DEFINE T == {r \in Seq(S) : Copies(Mapped(g, Reverse(r)), x) = Copies(Mapped(g, r), x)}
<1>1. <<>> \in T
  <2>1. Reverse(<<>>) = <<>>
    BY DEF Reverse
  <2> QED BY <2>1
<1>2. ASSUME NEW r \in Seq(S), NEW e \in S, r \in T PROVE Append(r, e) \in T
  <2>1. Reverse(Append(r, e)) = <<e>> \o Reverse(r) /\ Reverse(r) \in Seq(S) /\ <<e>> \in Seq(S)
    BY ReverseAppend
  <2>2. Mapped(g, <<e>> \o Reverse(r)) = Mapped(g, <<e>>) \o Mapped(g, Reverse(r))
    <3> DEFINE a == <<e>>
               b == Reverse(r)
    <3>1. a \in Seq(S) /\ b \in Seq(S)
      BY <2>1
    <3> HIDE DEF a, b
    <3>2. Mapped(g, a \o b) = Mapped(g, a) \o Mapped(g, b)
      BY <3>1, MappedJoin
    <3> QED BY <3>2 DEF a, b
  <2>3. Mapped(g, Append(r, e)) = Mapped(g, r) \o g[e]
    BY MappedAppend
  <2>4. Mapped(g, <<e>>) = g[e]
    BY MappedOne
  <2>5. Mapped(g, r) \in Seq(R) /\ Mapped(g, Reverse(r)) \in Seq(R) /\ g[e] \in Seq(R)
    BY <2>1, MappedType DEF Turns
  <2>6. /\ Copies(g[e] \o Mapped(g, Reverse(r)), x) = Copies(g[e], x) + Copies(Mapped(g, Reverse(r)), x)
        /\ Copies(Mapped(g, r) \o g[e], x) = Copies(Mapped(g, r), x) + Copies(g[e], x)
        /\ Copies(g[e], x) \in Nat /\ Copies(Mapped(g, r), x) \in Nat
    BY <2>5, CopiesJoin
  <2>7. Copies(Mapped(g, Reverse(r)), x) = Copies(Mapped(g, r), x)
    BY <1>2
  <2>8. Copies(g[e], x) + Copies(Mapped(g, r), x) = Copies(Mapped(g, r), x) + Copies(g[e], x)
    BY <2>6
  <2>9. Copies(Mapped(g, Reverse(Append(r, e))), x) = Copies(Mapped(g, Append(r, e)), x)
    BY <2>1, <2>2, <2>3, <2>4, <2>6, <2>7, <2>8
  <2> QED BY <2>9
<1> HIDE DEF T
<1>3. Seq(S) \subseteq T
  BY <1>1, <1>2, ListInduction
<1> QED BY <1>3 DEF T

\* The first m pieces, joined.
Pieces(p, m) == FlattenSeq([i \in 1..m |-> p[i]])

\* No piece joins to nothing, ...
LEMMA NoPieces == ASSUME NEW p PROVE Pieces(p, 0) = <<>>
<1>1. [i \in 1..0 |-> p[i]] = <<>>
  OBVIOUS
<1> QED BY <1>1, FlattenEmpty DEF Pieces

\* ... and one piece more adds its elements at the end.
LEMMA OnePieceMore ==
  ASSUME NEW p, NEW m \in Nat, \A i \in 1..m + 1 : IsSequence(p[i])
  PROVE  Pieces(p, m + 1) = Pieces(p, m) \o p[m + 1] /\ IsSequence(Pieces(p, m))
<1>1. PICK S : [i \in 1..m + 1 |-> p[i]] \in Seq(Seq(S))
  <2> DEFINE n == m + 1
  <2>1. n \in Nat /\ \A i \in 1..n : IsSequence(p[i])
    OBVIOUS
  <2> HIDE DEF n
  <2>2. \E S : [i \in 1..n |-> p[i]] \in Seq(Seq(S))
    BY <2>1, Gathered
  <2> QED BY <2>2 DEF n
<1>2. [i \in 1..m |-> p[i]] \in Seq(Seq(S)) /\ p[m + 1] \in Seq(S)
  <2>1. \A i \in 1..m + 1 : p[i] \in Seq(S)
    BY <1>1
  <2> QED BY <2>1
<1>3. [i \in 1..m + 1 |-> p[i]] = Append([i \in 1..m |-> p[i]], p[m + 1])
  OBVIOUS
<1>4. FlattenSeq(Append([i \in 1..m |-> p[i]], p[m + 1])) = FlattenSeq([i \in 1..m |-> p[i]]) \o p[m + 1]
  BY <1>2, FlattenAppend DEF IsSequence
<1>5. FlattenSeq([i \in 1..m |-> p[i]]) \in Seq(S)
  BY <1>2, FlattenType
<1> QED BY <1>3, <1>4, <1>5 DEF Pieces, IsSequence

(***************************************************************************)
(* Risk levels                                                             *)
(***************************************************************************)

\* Ranks are the numbers from 0 to 4.
LEMMA RankType == \A l \in RiskLevel : Rank[l] \in 0..4
  BY DEF RiskLevel, Rank

\* A nonempty set of levels has a highest one, and MaxRisk is it.
LEMMA MaxRiskOfNonempty ==
  ASSUME NEW levels \in SUBSET RiskLevel, levels # {}
  PROVE  MaxRisk(levels) \in levels /\ \A m \in levels : Rank[m] <= Rank[MaxRisk(levels)]
<1>1. \E l \in levels : \A m \in levels : Rank[m] <= Rank[l]
  <2>1. CASE "critical" \in levels  BY <2>1 DEF RiskLevel, Rank
  <2>2. CASE "critical" \notin levels /\ "high" \in levels  BY <2>2 DEF RiskLevel, Rank
  <2>3. CASE "critical" \notin levels /\ "high" \notin levels /\ "medium" \in levels
    BY <2>3 DEF RiskLevel, Rank
  <2>4. CASE levels \subseteq {"info", "low"} /\ "low" \in levels  BY <2>4 DEF Rank
  <2>5. CASE levels = {"info"}  BY <2>5 DEF Rank
  <2> QED  BY <2>1, <2>2, <2>3, <2>4, <2>5 DEF RiskLevel
<1> QED  BY <1>1 DEF MaxRisk

\* The highest of some levels, or info if there is none, is a level.
LEMMA MaxRiskType ==
  ASSUME NEW levels \in SUBSET RiskLevel
  PROVE  MaxRisk(levels) \in RiskLevel
<1>1. CASE levels = {}  BY <1>1 DEF MaxRisk, RiskLevel
<1>2. CASE levels # {}  BY <1>2, MaxRiskOfNonempty
<1> QED  BY <1>1, <1>2

\* If every level of the first set is reached in the second, so is its maximum.
LEMMA MaxRiskMonotone ==
  ASSUME NEW A \in SUBSET RiskLevel, NEW B \in SUBSET RiskLevel,
         \A l \in A : \E m \in B : Rank[l] <= Rank[m]
  PROVE  Rank[MaxRisk(A)] <= Rank[MaxRisk(B)]
<1>1. CASE A = {}
  <2>1. MaxRisk(A) = "info" /\ Rank["info"] = 0  BY <1>1 DEF MaxRisk, Rank
  <2>2. Rank[MaxRisk(B)] \in 0..4  BY RankType, MaxRiskType
  <2> QED  BY <2>1, <2>2
<1>2. CASE A # {}
  <2>1. PICK m \in B : Rank[MaxRisk(A)] <= Rank[m]  BY <1>2, MaxRiskOfNonempty
  <2>2. Rank[m] <= Rank[MaxRisk(B)]  BY <2>1, MaxRiskOfNonempty
  <2>3. Rank[MaxRisk(A)] \in Int /\ Rank[m] \in Int /\ Rank[MaxRisk(B)] \in Int
    BY RankType, MaxRiskType
  <2> QED  BY <2>1, <2>2, <2>3
<1> QED  BY <1>1, <1>2

(***************************************************************************)
(* Reasons                                                                 *)
(***************************************************************************)

AnyReason == [weakness : Weakness, level : RiskLevel]

\* The levels of well-formed reasons are risk levels.
LEMMA LevelsType ==
  ASSUME NEW reasons \in SUBSET AnyReason
  PROVE  Levels(reasons) \in SUBSET RiskLevel
  BY DEF Levels, AnyReason

\* The reasons a finding gives whatever the date.
Timeless(f) ==
  VerificationReasons(f) \cup BrokenReasons(f) \cup ModeReasons(f)
    \cup PaddingReasons(f) \cup KeySizeReasons(f)

\* Only the expiry reasons among the classical ones depend on the time.
LEMMA ClassicalSplit ==
  \A f, t : ClassicalReasons(f, t) = Timeless(f) \cup ExpiryReasons(f, t)
  BY DEF ClassicalReasons, Timeless

Expiry == {"expired_certificate", "expiring_certificate"}

\* Escalating stops at critical.
LEMMA EscalateType == \A l \in RiskLevel : Escalate(l) \in RiskLevel
<1> SUFFICES ASSUME NEW l \in RiskLevel PROVE Escalate(l) \in RiskLevel  OBVIOUS
<1>1. \E m \in RiskLevel : Rank[m] = IF l = "critical" THEN Rank[l] ELSE Rank[l] + 1
  BY DEF RiskLevel, Rank
<1> QED  BY <1>1 DEF Escalate

\* Well-formed reasons that say nothing of a certificate's expiry.
Dateless(reasons) == \A r \in reasons : r \in AnyReason /\ r.weakness \notin Expiry

\* A reason other than the two of expiry is dateless,
LEMMA DatelessReason ==
  \A w \in Weakness \ Expiry, l \in RiskLevel : Dateless({Reason(w, l)})
  BY DEF Dateless, Reason, AnyReason

\* so are the reasons of two kinds together,
LEMMA DatelessUnion ==
  ASSUME NEW A, NEW B, Dateless(A), Dateless(B)
  PROVE  Dateless(A \cup B)
  BY DEF Dateless

\* and no reasons at all.
LEMMA DatelessNone == Dateless({})
  BY DEF Dateless

TimelessWeakness ==
  {"broken_algorithm", "deprecated_algorithm", "no_algorithm", "insecure_mode",
   "vulnerable_padding", "weak_key_size", "weak_curve", "verification_disabled"}

\* The reasons that the rules of the classical axis name.
LEMMA DatelessLiterals ==
  \A w \in TimelessWeakness, l \in {"critical", "high", "medium"} : Dateless({Reason(w, l)})
<1>1. TimelessWeakness \subseteq Weakness \ Expiry
  BY DEF TimelessWeakness, Weakness, Expiry
<1>2. {"critical", "high", "medium"} \subseteq RiskLevel  BY DEF RiskLevel
<1> QED  BY <1>1, <1>2, DatelessReason

\* What the table of broken algorithms says,
LEMMA BrokenAlgorithmDateless ==
  ASSUME NEW name
  PROVE  Dateless(BrokenAlgorithm(name))
  BY DatelessLiterals, DatelessNone DEF TimelessWeakness, BrokenAlgorithm

\* escalated or not,
LEMMA BrokenReasonsDateless ==
  ASSUME NEW f
  PROVE  Dateless(BrokenReasons(f))
<1> DEFINE Found == IF Len(f.algorithm) = 1 THEN BrokenAlgorithm(f.algorithm[1])
                                            ELSE BrokenComposite(f.algorithm)
<1>1. Dateless(Found)
  BY BrokenAlgorithmDateless, DatelessNone DEF BrokenComposite
<1> SUFFICES ASSUME NEW r \in BrokenReasons(f)
             PROVE  r \in AnyReason /\ r.weakness \notin Expiry
  BY DEF Dateless
<1>2. PICK q \in Found : r = IF q.weakness = "broken_algorithm" /\ IsSecurityCritical(f)
                             THEN Reason(q.weakness, Escalate(q.level)) ELSE q
  BY DEF BrokenReasons
<1>3. q \in AnyReason /\ q.weakness \notin Expiry  BY <1>1 DEF Dateless
<1> QED  BY <1>2, <1>3, EscalateType DEF Reason, AnyReason

\* and everything else on the classical axis but the expiry.
LEMMA TimelessDateless ==
  ASSUME NEW f
  PROVE  Dateless(Timeless(f))
<1>1. Dateless(VerificationReasons(f))  BY DatelessLiterals, DatelessNone DEF TimelessWeakness, VerificationReasons
<1>2. Dateless(ModeReasons(f))  BY DatelessLiterals, DatelessNone DEF TimelessWeakness, ModeReasons
<1>3. Dateless(PaddingReasons(f))  BY DatelessLiterals, DatelessNone DEF TimelessWeakness, PaddingReasons
<1>4. Dateless(KeySizeReasons(f))  BY DatelessLiterals, DatelessNone DEF TimelessWeakness, KeySizeReasons
<1> QED  BY <1>1, <1>2, <1>3, <1>4, BrokenReasonsDateless, DatelessUnion DEF Timeless

\* The expiry gives at most one reason, of one of its two kinds.
LEMMA ExpiryReasonsType ==
  ASSUME NEW f, NEW t
  PROVE  ExpiryReasons(f, t) \in SUBSET AnyReason
<1>1. Reason("expired_certificate", "high") \in AnyReason
  BY DEF Reason, AnyReason, Weakness, RiskLevel
<1>2. Reason("expiring_certificate", "medium") \in AnyReason
  BY DEF Reason, AnyReason, Weakness, RiskLevel
<1> QED  BY <1>1, <1>2 DEF ExpiryReasons

\* The quantum axis never speaks of the expiry.
LEMMA QuantumReasonsDateless ==
  ASSUME NEW f, NEW t
  PROVE  Dateless(QuantumReasons(f, t))
<1>1. \A w \in {"harvest_now_decrypt_later", "quantum_vulnerable_signature",
                "quantum_vulnerable_unknown_purpose", "unidentified_algorithm",
                "outlives_quantum_deadline"} :
        w \in Weakness \ Expiry
  BY DEF Weakness, Expiry
<1>2. \A l \in {"low", "medium", "high"} : l \in RiskLevel  BY DEF RiskLevel
<1>3. Dateless({QuantumRisk(f.purpose)})  BY <1>1, <1>2, DatelessReason DEF QuantumRisk
<1>4. Dateless(OutlivedDeadline(f, t))
  BY <1>1, <1>2, DatelessReason, DatelessNone DEF OutlivedDeadline
<1>5. Dateless({Reason("unidentified_algorithm", "low")})  BY <1>1, <1>2, DatelessReason
<1> QED  BY <1>3, <1>4, <1>5, DatelessUnion, DatelessNone DEF QuantumReasons

\* The reasons on both axes are well formed.
LEMMA ReasonsType ==
  ASSUME NEW f, NEW t
  PROVE  /\ ClassicalReasons(f, t) \in SUBSET AnyReason
         /\ QuantumReasons(f, t) \in SUBSET AnyReason
  BY ClassicalSplit, TimelessDateless, ExpiryReasonsType, QuantumReasonsDateless DEF Dateless

\* Whatever the reasons, the priority is a priority.
LEMMA PriorityType ==
  ASSUME NEW level, NEW quantum
  PROVE  PriorityOf(level, quantum) \in Priority
  BY DEF PriorityOf, Priority

\* Every assessment is complete.
LEMMA AssessType ==
  ASSUME NEW f, NEW t
  PROVE  Assess(f, t) \in Assessment
<1>1. MaxRisk(Levels(ClassicalReasons(f, t))) \in RiskLevel
  BY ReasonsType, LevelsType, MaxRiskType
<1>2. MaxRisk(Levels(QuantumReasons(f, t))) \in RiskLevel
  BY ReasonsType, LevelsType, MaxRiskType
<1> QED  BY <1>1, <1>2, PriorityType, ReasonsType DEF Assess, Assessment, AnyReason
=============================================================================
