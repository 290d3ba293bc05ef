--------------------------- MODULE SequenceLemmas ---------------------------
(***************************************************************************)
(* Facts that the proofs about the proxies share: what happens to a wire,  *)
(* a concatenation of segments, when a message is added at its end, passes *)
(* from one segment to the one before, or is delivered; induction, for a   *)
(* loop that carries a value; and the parts that a parser cuts out of a    *)
(* sequence.                                                               *)
(***************************************************************************)
EXTENDS SequenceTheorems, FiniteSetTheorems, TLAPS

(* Moving the head of what follows to the end of what precedes changes      *)
(* nothing of the whole.                                                    *)
LEMMA MoveHead ==
  ASSUME NEW S, NEW s \in Seq(S), NEW t \in Seq(S), t # <<>>
  PROVE  Append(s, Head(t)) \o Tail(t) = s \o t
<1> DEFINE u == Append(s, Head(t)) \o Tail(t)
<1>1. /\ Head(t) \in S /\ Tail(t) \in Seq(S) /\ Len(Tail(t)) = Len(t) - 1
      /\ \A i \in 1 .. Len(Tail(t)) : Tail(t)[i] = t[i + 1]
  BY HeadTailProperties
<1>2. Len(t) \in Nat \ {0} /\ Len(s) \in Nat /\ Head(t) = t[1]
  OBVIOUS
<1>3. /\ Append(s, Head(t)) \in Seq(S) /\ Len(Append(s, Head(t))) = Len(s) + 1
      /\ \A i \in 1 .. Len(s) : Append(s, Head(t))[i] = s[i]
      /\ Append(s, Head(t))[Len(s) + 1] = t[1]
  BY <1>1, <1>2
<1>4. /\ u \in Seq(S) /\ Len(u) = Len(s) + Len(t)
      /\ \A i \in 1 .. Len(s) + Len(t) :
           u[i] = IF i <= Len(s) + 1 THEN Append(s, Head(t))[i]
                                     ELSE Tail(t)[i - (Len(s) + 1)]
  BY <1>1, <1>2, <1>3, ConcatProperties
<1>5. /\ s \o t \in Seq(S) /\ Len(s \o t) = Len(s) + Len(t)
      /\ \A i \in 1 .. Len(s) + Len(t) :
           (s \o t)[i] = IF i <= Len(s) THEN s[i] ELSE t[i - Len(s)]
  BY ConcatProperties
<1> HIDE DEF u
<1>6. \A i \in 1 .. Len(u) : u[i] = (s \o t)[i]
  <2> SUFFICES ASSUME NEW i \in 1 .. Len(s) + Len(t) PROVE u[i] = (s \o t)[i]
    BY <1>4
  <2>1. CASE i <= Len(s)
    BY <1>2, <1>3, <1>4, <1>5, <2>1
  <2>2. CASE i = Len(s) + 1
    BY <1>2, <1>3, <1>4, <1>5, <2>2
  <2>3. CASE i > Len(s) + 1
    <3>1. /\ i - (Len(s) + 1) \in 1 .. Len(Tail(t))
          /\ i - (Len(s) + 1) + 1 = i - Len(s)
      BY <1>1, <1>2, <2>3
    <3> QED BY <1>1, <1>2, <1>4, <1>5, <2>3, <3>1
  <2> QED BY <1>2, <2>1, <2>2, <2>3
<1>7. u = s \o t
  BY <1>4, <1>5, <1>6, SeqEqual
<1> QED BY <1>7 DEF u

(* Appending commutes with concatenation.                                   *)
LEMMA ConcatAppend ==
  ASSUME NEW S, NEW s \in Seq(S), NEW t \in Seq(S), NEW x \in S
  PROVE  s \o Append(t, x) = Append(s \o t, x)
<1>1. /\ <<x>> \in Seq(S) /\ Append(t, x) = t \o <<x>>
      /\ s \o t \in Seq(S) /\ Append(s \o t, x) = (s \o t) \o <<x>>
  BY ConcatProperties
<1> QED BY <1>1, ConcatAssociative

(* The first message in transit is the first one not yet delivered.         *)
LEMMA NextInTransit ==
  ASSUME NEW S, NEW s \in Seq(S), NEW t \in Seq(S), t # <<>>
  PROVE  Len(s) < Len(s \o t) /\ (s \o t)[Len(s) + 1] = Head(t)
<1>1. Len(t) \in Nat \ {0} /\ Len(s) \in Nat /\ Head(t) = t[1]
  OBVIOUS
<1>2. /\ Len(s \o t) = Len(s) + Len(t)
      /\ \A i \in 1 .. Len(s) + Len(t) :
           (s \o t)[i] = IF i <= Len(s) THEN s[i] ELSE t[i - Len(s)]
  BY ConcatProperties
<1> QED BY <1>1, <1>2

(* Reading k messages of a sequence splits it in two.                       *)
LEMMA SplitAt ==
  ASSUME NEW S, NEW s \in Seq(S), NEW k \in 1 .. Len(s)
  PROVE  /\ SubSeq(s, 1, k) \in Seq(S) /\ Len(SubSeq(s, 1, k)) = k
         /\ SubSeq(s, k + 1, Len(s)) \in Seq(S)
         /\ SubSeq(s, 1, k) \o SubSeq(s, k + 1, Len(s)) = s
<1>1. Len(s) \in Nat /\ \A i \in 1 .. Len(s) : s[i] \in S
  OBVIOUS
<1>2. SubSeq(s, 1, k) \in Seq(S) /\ Len(SubSeq(s, 1, k)) = k
  BY <1>1, SubSeqProperties
<1>3. SubSeq(s, k + 1, Len(s)) \in Seq(S)
  BY <1>1, SubSeqProperties
<1>4. SubSeq(s, 1, k) \o SubSeq(s, k + 1, Len(s)) = SubSeq(s, 1, Len(s))
  BY <1>1, ConcatAdjacentSubSeq
<1> QED BY <1>2, <1>3, <1>4, SubSeqFull

(* What is left of a sequence after its first i messages begins with the     *)
(* next one.                                                                *)
LEMMA RestAfter ==
  ASSUME NEW S, NEW s \in Seq(S), NEW i \in Nat, i < Len(s)
  PROVE  /\ SubSeq(s, i + 1, Len(s)) \in Seq(S) /\ SubSeq(s, i + 1, Len(s)) # <<>>
         /\ Head(SubSeq(s, i + 1, Len(s))) = s[i + 1]
         /\ Tail(SubSeq(s, i + 1, Len(s))) = SubSeq(s, i + 2, Len(s))
         /\ s[i + 1] \in S
<1> DEFINE rest == SubSeq(s, i + 1, Len(s))
<1>1. Len(s) \in Nat /\ i + 1 \in 1 .. Len(s) /\ \A j \in 1 .. Len(s) : s[j] \in S
  OBVIOUS
<1>2. rest \in Seq(S) /\ Len(rest) = IF i + 1 <= Len(s) THEN Len(s) - (i + 1) + 1 ELSE 0
  <2>1. \A j \in i + 1 .. Len(s) : s[j] \in S
    BY <1>1
  <2> QED BY <1>1, <2>1, SubSeqProperties
<1>3. /\ Head(rest) = s[i + 1]
      /\ Tail(rest) = SubSeq(s, (i + 1) + 1, Len(s))
  BY <1>1, HeadTailOfSubSeq
<1>4. rest # <<>>
  <2> HIDE DEF rest
  <2>1. Len(rest) > 0
    BY <1>1, <1>2
  <2> QED BY <2>1
<1>5. (i + 1) + 1 = i + 2
  OBVIOUS
<1> QED BY <1>1, <1>2, <1>3, <1>4, <1>5

-----------------------------------------------------------------------------
(* Induction, for a set in the place of a predicate.  Were n missing, adding *)
(* one would map the members below n into themselves but for 0, one for one, *)
(* and there are finitely many of them.                                      *)
LEMMA SetInduction ==
  ASSUME NEW S \in SUBSET Nat, 0 \in S, \A n \in S : n + 1 \in S
  PROVE  S = Nat
<1> SUFFICES ASSUME NEW n \in Nat, n \notin S PROVE FALSE
  OBVIOUS
<1> DEFINE A == {x \in S : x <= n}
           f == [x \in A |-> x + 1]
<1>1. IsFiniteSet(A)
  <2>1. IsFiniteSet(0 .. n)
    BY FS_Interval
  <2>2. \A x \in A : x \in 0 .. n
    OBVIOUS
  <2>3. A \in SUBSET (0 .. n)
    BY <2>2
  <2> QED BY <2>1, <2>3, FS_Subset
<1>2. 0 \in A
  OBVIOUS
<1>3. IsFiniteSet(A \ {0}) /\ Cardinality(A \ {0}) = Cardinality(A) - 1
  BY <1>1, <1>2, FS_RemoveElement
<1>4. f \in Injection(A, A \ {0})
  <2>1. ASSUME NEW x \in A PROVE x + 1 \in A \ {0}
    <3>1. x # n /\ x \in Nat /\ x + 1 \in S
      OBVIOUS
    <3> QED BY <3>1
  <2>2. f \in [A -> A \ {0}]
    BY <2>1
  <2>3. \A x, y \in A : f[x] = f[y] => x = y
    OBVIOUS
  <2> QED BY <2>2, <2>3 DEF Injection, IsInjective
<1>5. Cardinality(A) <= Cardinality(A \ {0})
  BY <1>3, <1>4, FS_Injection
<1>6. Cardinality(A) \in Nat
  BY <1>1, FS_CardinalityType
<1> QED BY <1>3, <1>5, <1>6

(* A loop from 1 to N that carries a value has a run. *)
IsRun(f, T, base, N, step) ==
  f \in [0 .. N -> T] /\ f[0] = base /\ \A i \in 1 .. N : f[i] = step[i][f[i - 1]]

(* There is one, by induction over its length.                            *)
LEMMA LoopHasRun ==
  ASSUME NEW T, NEW base \in T, NEW N \in Nat, NEW step \in [1 .. N -> [T -> T]]
  PROVE  \E f : IsRun(f, T, base, N, step)
<1> DEFINE Run(f, n) == /\ f \in [0 .. n -> T] /\ f[0] = base
                        /\ \A i \in 1 .. n : f[i] = step[i][f[i - 1]]
           S == {n \in Nat : n <= N => \E f : Run(f, n)}
<1>1. Run([i \in 0 .. 0 |-> base], 0)
  OBVIOUS
<1>2. ASSUME NEW n \in Nat, n + 1 <= N, NEW f, Run(f, n)
      PROVE  \E g : Run(g, n + 1)
  <2> DEFINE g == [i \in 0 .. n + 1 |-> IF i = n + 1 THEN step[n + 1][f[n]] ELSE f[i]]
  <2>1. f \in [0 .. n -> T] /\ f[0] = base /\ \A i \in 1 .. n : f[i] = step[i][f[i - 1]]
    BY <1>2
  <2>2. n + 1 \in 1 .. N /\ f[n] \in T
    BY <1>2, <2>1
  <2>3. step[n + 1][f[n]] \in T
    BY <2>2
  <2>4. g \in [0 .. n + 1 -> T] /\ g[0] = base
    BY <2>1, <2>2, <2>3
  <2>5. ASSUME NEW i \in 1 .. n + 1 PROVE g[i] = step[i][g[i - 1]]
    <3>1. i - 1 \in 0 .. n /\ g[i - 1] = f[i - 1]
      BY <2>2
    <3>2. CASE i = n + 1
      BY <2>2, <3>1, <3>2
    <3>3. CASE i # n + 1
      <4>1. i \in 1 .. n /\ g[i] = f[i]
        BY <2>2, <3>3
      <4> QED BY <2>1, <3>1, <4>1
    <3> QED BY <3>2, <3>3
  <2> HIDE DEF g
  <2>6. Run(g, n + 1)
    BY <2>4, <2>5
  <2> HIDE DEF Run
  <2> QED BY <2>6
<1> HIDE DEF Run
<1>3. 0 \in S
  BY <1>1
<1>4. ASSUME NEW n \in S PROVE n + 1 \in S
  <2>1. n \in Nat /\ (n <= N => \E f : Run(f, n))
    OBVIOUS
  <2>2. n + 1 <= N => \E f : Run(f, n + 1)
    BY <1>2, <2>1
  <2> QED BY <2>1, <2>2
<1>5. S = Nat
  <2>1. S \in SUBSET Nat /\ \A n \in S : n + 1 \in S
    BY <1>4
  <2> HIDE DEF S
  <2> QED BY <1>3, <2>1, SetInduction
<1>6. PICK f : Run(f, N)
  <2>1. N \in S
    <3> HIDE DEF S
    <3> QED BY <1>5
  <2>2. N <= N
    OBVIOUS
  <2> QED BY <2>1, <2>2
<1> QED BY <1>6 DEF Run, IsRun

(* A sequence over a set is one over every larger set.                     *)
LEMMA LargerSeq ==
  ASSUME NEW S, NEW T, S \subseteq T, NEW s \in Seq(S)
  PROVE  s \in Seq(T)
OBVIOUS

(* A sequence of one.                                                     *)
LEMMA One ==
  ASSUME NEW S, NEW x \in S
  PROVE  <<x>> \in Seq(S) /\ Len(<<x>>) = 1 /\ <<x>>[1] = x
OBVIOUS

-----------------------------------------------------------------------------
(* Parts of sequences: SubSeq(s, a + 1, b) is what follows the place a, up *)
(* to the place b.                                                         *)
LEMMA PartFacts ==
  ASSUME NEW S, NEW s \in Seq(S), NEW a \in Nat, NEW b \in Nat, a <= b, b <= Len(s)
  PROVE  /\ SubSeq(s, a + 1, b) \in Seq(S) /\ Len(SubSeq(s, a + 1, b)) = b - a
         /\ \A i \in 1 .. b - a : SubSeq(s, a + 1, b)[i] = s[a + i]
<1>1. Len(s) \in Nat /\ \A i \in 1 .. Len(s) : s[i] \in S
  OBVIOUS
<1>2. a + 1 \in Int /\ b \in Int /\ \A i \in a + 1 .. b : s[i] \in S
  BY <1>1
<1>3. /\ SubSeq(s, a + 1, b) \in Seq(S)
      /\ Len(SubSeq(s, a + 1, b)) = IF a + 1 <= b THEN b - (a + 1) + 1 ELSE 0
      /\ \A i \in 1 .. b - (a + 1) + 1 : SubSeq(s, a + 1, b)[i] = s[a + 1 + i - 1]
  BY <1>2, SubSeqProperties
<1>4. b - (a + 1) + 1 = b - a /\ \A i \in 1 .. b - a : a + 1 + i - 1 = a + i
  OBVIOUS
<1>5. Len(SubSeq(s, a + 1, b)) = b - a
  BY <1>3
<1> QED BY <1>3, <1>4, <1>5

\* A part of a part.
LEMMA PartOfPart ==
  ASSUME NEW S, NEW s \in Seq(S), NEW p \in Nat, NEW q \in Nat, p <= q, q <= Len(s),
         NEW a \in Nat, NEW b \in Nat, a <= b, b <= q - p
  PROVE  SubSeq(SubSeq(s, p + 1, q), a + 1, b) = SubSeq(s, (p + a) + 1, p + b)
<1> DEFINE r == SubSeq(s, p + 1, q)
           x == SubSeq(r, a + 1, b)
           y == SubSeq(s, (p + a) + 1, p + b)
<1>1. /\ r \in Seq(S) /\ Len(r) = q - p /\ \A i \in 1 .. q - p : r[i] = s[p + i]
  BY PartFacts
<1> HIDE DEF r
<1>2. x \in Seq(S) /\ Len(x) = b - a /\ \A i \in 1 .. b - a : x[i] = r[a + i]
  BY <1>1, PartFacts
<1>n. Len(s) \in Nat
  OBVIOUS
<1>3. y \in Seq(S) /\ Len(y) = (p + b) - (p + a) /\ \A i \in 1 .. (p + b) - (p + a) : y[i] = s[(p + a) + i]
  <2>1. p + a \in Nat /\ p + b \in Nat /\ p + a <= p + b /\ p + b <= Len(s)
    BY <1>n
  <2> QED BY <2>1, PartFacts
<1>4. (p + b) - (p + a) = b - a
  OBVIOUS
<1> HIDE DEF x, y
<1>5. \A i \in 1 .. Len(x) : x[i] = y[i]
  <2> SUFFICES ASSUME NEW i \in 1 .. b - a PROVE x[i] = y[i]
    BY <1>2
  <2>1. a + i \in 1 .. q - p /\ p + (a + i) = (p + a) + i
    OBVIOUS
  <2> QED BY <1>1, <1>2, <1>3, <1>4, <2>1
<1>6. x = y
  BY <1>2, <1>3, <1>4, <1>5, SeqEqual
<1> QED BY <1>6 DEF x, y, r

\* What a longer sequence begins with.
LEMMA PartOfConcat ==
  ASSUME NEW S, NEW s \in Seq(S), NEW t \in Seq(S), NEW a \in Nat, NEW b \in Nat, a <= b, b <= Len(s)
  PROVE  SubSeq(s \o t, a + 1, b) = SubSeq(s, a + 1, b)
<1> DEFINE u == s \o t
           x == SubSeq(u, a + 1, b)
           y == SubSeq(s, a + 1, b)
<1>1. /\ u \in Seq(S) /\ Len(u) = Len(s) + Len(t) /\ Len(s) \in Nat /\ Len(t) \in Nat
      /\ \A i \in 1 .. Len(s) + Len(t) : u[i] = IF i <= Len(s) THEN s[i] ELSE t[i - Len(s)]
  BY ConcatProperties
<1> HIDE DEF u
<1>2. b <= Len(u)
  BY <1>1
<1>3. x \in Seq(S) /\ Len(x) = b - a /\ \A i \in 1 .. b - a : x[i] = u[a + i]
  BY <1>1, <1>2, PartFacts
<1>4. y \in Seq(S) /\ Len(y) = b - a /\ \A i \in 1 .. b - a : y[i] = s[a + i]
  BY PartFacts
<1> HIDE DEF x, y
<1>5. \A i \in 1 .. Len(x) : x[i] = y[i]
  <2> SUFFICES ASSUME NEW i \in 1 .. b - a PROVE x[i] = y[i]
    BY <1>3
  <2>1. a + i \in 1 .. Len(s) + Len(t) /\ a + i <= Len(s)
    BY <1>1
  <2> QED BY <1>1, <1>3, <1>4, <2>1
<1>6. x = y
  BY <1>3, <1>4, <1>5, SeqEqual
<1> QED BY <1>6 DEF x, y, u

\* What follows a place, when more is added at the end.
LEMMA RestGrows ==
  ASSUME NEW S, NEW s \in Seq(S), NEW t \in Seq(S), NEW p \in 0 .. Len(s)
  PROVE  SubSeq(s \o t, p + 1, Len(s \o t)) = SubSeq(s, p + 1, Len(s)) \o t
<1> DEFINE u == s \o t
           r == SubSeq(s, p + 1, Len(s))
           x == SubSeq(u, p + 1, Len(u))
           y == r \o t
<1>1. /\ u \in Seq(S) /\ Len(u) = Len(s) + Len(t) /\ Len(s) \in Nat /\ Len(t) \in Nat
      /\ \A i \in 1 .. Len(s) + Len(t) : u[i] = IF i <= Len(s) THEN s[i] ELSE t[i - Len(s)]
  BY ConcatProperties
<1> HIDE DEF u
<1>2. r \in Seq(S) /\ Len(r) = Len(s) - p /\ \A i \in 1 .. Len(s) - p : r[i] = s[p + i]
  BY <1>1, PartFacts
<1>3. x \in Seq(S) /\ Len(x) = Len(u) - p /\ \A i \in 1 .. Len(u) - p : x[i] = u[p + i]
  BY <1>1, PartFacts
<1> HIDE DEF r
<1>4. /\ y \in Seq(S) /\ Len(y) = Len(r) + Len(t)
      /\ \A i \in 1 .. Len(r) + Len(t) : y[i] = IF i <= Len(r) THEN r[i] ELSE t[i - Len(r)]
  BY <1>2, ConcatProperties
<1> HIDE DEF x, y
<1>5. Len(x) = Len(y)
  BY <1>1, <1>2, <1>3, <1>4
<1>6. \A i \in 1 .. Len(x) : x[i] = y[i]
  <2> SUFFICES ASSUME NEW i \in 1 .. Len(x) PROVE x[i] = y[i]
    OBVIOUS
  <2>1. i \in 1 .. Len(u) - p /\ p + i \in 1 .. Len(s) + Len(t) /\ i \in 1 .. Len(r) + Len(t)
    BY <1>1, <1>2, <1>3
  <2>2. x[i] = IF p + i <= Len(s) THEN s[p + i] ELSE t[(p + i) - Len(s)]
    BY <1>1, <1>3, <2>1
  <2>3. CASE p + i <= Len(s)
    <3>1. i <= Len(r) /\ i \in 1 .. Len(s) - p
      BY <1>1, <1>2, <2>3
    <3> QED BY <1>2, <1>4, <2>1, <2>2, <2>3, <3>1
  <2>4. CASE ~(p + i <= Len(s))
    <3>1. ~(i <= Len(r)) /\ (p + i) - Len(s) = i - Len(r)
      BY <1>1, <1>2, <2>4
    <3> QED BY <1>4, <2>1, <2>2, <2>4, <3>1
  <2> QED BY <2>3, <2>4
<1>7. x = y
  BY <1>3, <1>4, <1>5, <1>6, SeqEqual
<1> QED BY <1>7 DEF x, y, r, u

=============================================================================
