-------------------------- MODULE Parsers_proofs ----------------------------
(***************************************************************************)
(* LineFramer for any bounds, any stream and any way it is cut into        *)
(* chunks: LinesInv, by FramerInv.  Text, the decoded stream, has been     *)
(* split up to a place where a line begins, and buf is the rest of it, or, *)
(* while the framer discards a line, that line is too long already; what   *)
(* was handed on are the lines, in their order.                            *)
(*                                                                         *)
(* Classifier for any names and strings that are JSON, and any depth of    *)
(* nesting: ProxiesAgree, by ScanInv.  Between two pieces of the text the  *)
(* scanner stands outside a string at the writer's depth, knows where a    *)
(* name may begin, and has collected what JSON.parse has of the members so *)
(* far.  The lemmas before it follow the scanner through a string, where   *)
(* brackets, colons and escaped quotes must mean nothing to it.            *)
(*                                                                         *)
(* SseParser for any bounds and any text: EventsAreTheStreams, by SseInv.  *)
(* Each turn of the loop adds a line to the text consumed, and a line adds *)
(* to what the text says nothing, one field or one event, at its end.      *)
(***************************************************************************)
EXTENDS MCParsers, SequenceLemmas

-----------------------------------------------------------------------------
(* Least and greatest members of a set.                                    *)

\* Nothing else is the least member.
LEMMA SmallestIsMin ==
  ASSUME NEW S \in SUBSET Nat, NEW l \in S, \A i \in S : l <= i
  PROVE  Min(S) = l
<1>1. Min(S) \in S /\ \A i \in S : Min(S) <= i
  BY DEF Min
<1>2. l \in Nat /\ Min(S) \in Nat /\ Min(S) <= l /\ l <= Min(S)
  BY <1>1
<1> QED BY <1>2

\* Nothing else is the greatest.
LEMMA LargestIsMax ==
  ASSUME NEW S \in SUBSET Nat, NEW g \in S, \A i \in S : i <= g
  PROVE  Max(S) = g
<1>1. g \in S /\ \A i \in S : g >= i
  OBVIOUS
<1>2. Max(S) \in S /\ \A i \in S : Max(S) >= i
  BY <1>1 DEF Max
<1>3. g \in Nat /\ Max(S) \in Nat /\ Max(S) >= g /\ g >= Max(S)
  BY <1>1, <1>2
<1> QED BY <1>3

\* A set of numbers that has a member has a smallest one.
LEMMA HasSmallest ==
  ASSUME NEW S \in SUBSET Nat, S # {}
  PROVE  Min(S) \in S /\ \A i \in S : Min(S) <= i
<1>1. \E l \in S : \A i \in S : l <= i
  <2> SUFFICES ASSUME \A l \in S : \E i \in S : i < l PROVE FALSE
    OBVIOUS
  <2> DEFINE B == {n \in Nat : \A i \in S : n < i}
  <2>1. 0 \in B
    <3> SUFFICES ASSUME NEW i \in S PROVE 0 < i
      OBVIOUS
    <3>1. PICK j \in S : j < i
      OBVIOUS
    <3> QED BY <3>1
  <2>2. ASSUME NEW n \in B PROVE n + 1 \in B
    <3> SUFFICES ASSUME NEW i \in S PROVE n + 1 < i
      OBVIOUS
    <3>1. PICK j \in S : j < i
      OBVIOUS
    <3>2. n < j /\ n \in Nat /\ j \in Nat /\ i \in Nat
      OBVIOUS
    <3> QED BY <3>1, <3>2
  <2>3. B = Nat
    <3>1. B \in SUBSET Nat /\ \A n \in B : n + 1 \in B
      BY <2>2
    <3> HIDE DEF B
    <3> QED BY <2>1, <3>1, SetInduction
  <2>4. PICK i \in S : TRUE
    OBVIOUS
  <2>5. i \in B
    <3> HIDE DEF B
    <3> QED BY <2>3, <2>4
  <2> QED BY <2>4, <2>5
<1>2. PICK l \in S : \A i \in S : l <= i
  BY <1>1
<1> QED BY <1>2, SmallestIsMin

-----------------------------------------------------------------------------
(* LineFramer: the decoder, which holds back a character until its last    *)
(* byte is there.                                                          *)

\* Characters whose last byte is at one of the places after m, up to n.
CharsIn(m, n) == [c : Bytes \ {"h"}, at : m + 1 .. n]

\* In the order of the stream.
InOrder(s) == \A i, j \in DOMAIN s : i < j => s[i].at < s[j].at

\* f decodes bs, which follows n bytes.
Decodes(f, bs, n) ==
  /\ f \in [0 .. Len(bs) -> Seq(CharsIn(n, n + Len(bs)))] /\ f[0] = <<>>
  /\ \A i \in 1 .. Len(bs) :
       f[i] = IF bs[i] = "h" THEN f[i - 1] ELSE Append(f[i - 1], [c |-> bs[i], at |-> n + i])

\* Decoded is the last value of a loop over the bytes.
LEMMA DecodedLoop ==
  ASSUME NEW bs \in Seq(Bytes), NEW n \in Nat
  PROVE  \E f : Decodes(f, bs, n) /\ Decoded(bs, n) = f[Len(bs)]
<1> DEFINE N == Len(bs)
           T == Seq(CharsIn(n, n + N))
           ch(i) == [c |-> bs[i], at |-> n + i]
           Keep(s, i) == IF bs[i] = "h" THEN s ELSE Append(s, ch(i))
           IsOf(f) == f = [i \in 0 .. N |-> IF i = 0 THEN <<>> ELSE Keep(f[i - 1], i)]
<1>1. N \in Nat /\ \A i \in 1 .. N : bs[i] \in Bytes
  OBVIOUS
<1> HIDE DEF N
<1>t. ASSUME NEW i \in 1 .. N, NEW s \in T PROVE Keep(s, i) \in T
  <2>1. CASE bs[i] # "h"
    <3>1. n + i \in n + 1 .. n + N /\ bs[i] \in Bytes \ {"h"}
      BY <1>1, <2>1
    <3>2. ch(i) \in CharsIn(n, n + N)
      BY <3>1 DEF CharsIn
    <3> HIDE DEF ch
    <3> QED BY <2>1, <3>2, AppendProperties
  <2> QED BY <2>1
<1>2. \E f : Decodes(f, bs, n)
  <2> DEFINE step == [i \in 1 .. N |-> [s \in T |-> Keep(s, i)]]
  <2>1. step \in [1 .. N -> [T -> T]] /\ <<>> \in T
    <3> HIDE DEF Keep, T
    <3>1. step \in [1 .. N -> [T -> T]]
      BY <1>t
    <3> QED BY <3>1 DEF T
  <2>2. PICK f : IsRun(f, T, <<>>, N, step)
    <3> HIDE DEF step, T
    <3> QED BY <1>1, <2>1, LoopHasRun
  <2>3. f \in [0 .. N -> T] /\ f[0] = <<>> /\ \A i \in 1 .. N : f[i] = step[i][f[i - 1]]
    BY <2>2 DEF IsRun
  <2>4. ASSUME NEW i \in 1 .. N PROVE f[i] = Keep(f[i - 1], i)
    <3>1. i - 1 \in 0 .. N
      BY <1>1
    <3>2. f[i - 1] \in T
      BY <2>3, <3>1
    <3> HIDE DEF Keep, T
    <3> QED BY <2>3, <3>2
  <2> QED BY <2>3, <2>4 DEF Decodes, N
<1>3. PICK g : Decodes(g, bs, n)
  BY <1>2
<1>4. g \in [0 .. N -> T] /\ g[0] = <<>> /\ \A i \in 1 .. N : g[i] = Keep(g[i - 1], i)
  BY <1>3 DEF Decodes, N
<1>5. IsOf(g)
  <2>1. ASSUME NEW i \in 0 .. N PROVE g[i] = IF i = 0 THEN <<>> ELSE Keep(g[i - 1], i)
    <3> HIDE DEF Keep
    <3> QED BY <1>1, <1>4
  <2> HIDE DEF Keep, T
  <2> QED BY <1>4, <2>1
<1> DEFINE of == CHOOSE f : IsOf(f)
<1>6. Decoded(bs, n) = of[N]
  BY SMTT(30) DEF Decoded, N
<1>7. IsOf(of)
  BY <1>5
<1>8. of[0] = <<>> /\ \A i \in 1 .. N : of[i] = Keep(of[i - 1], i)
  <2> HIDE DEF of, Keep
  <2> QED BY <1>1, <1>7
<1> HIDE DEF of, IsOf
<1> DEFINE S == {i \in Nat : i <= N => of[i] = g[i]}
<1>9. 0 \in S
  BY <1>4, <1>8
<1>10. ASSUME NEW i \in S PROVE i + 1 \in S
  <2>1. i + 1 <= N => of[i + 1] = g[i + 1]
    <3> SUFFICES ASSUME i + 1 <= N PROVE of[i + 1] = g[i + 1]
      OBVIOUS
    <3>1. i + 1 \in 1 .. N /\ of[i] = g[i] /\ (i + 1) - 1 = i
      BY <1>1
    <3>2. of[i + 1] = Keep(of[i], i + 1) /\ g[i + 1] = Keep(g[i], i + 1)
      BY <1>4, <1>8, <3>1
    <3> QED BY <3>1, <3>2
  <2> QED BY <2>1
<1>11. S = Nat
  <2>1. S \in SUBSET Nat /\ \A i \in S : i + 1 \in S
    BY <1>10
  <2> HIDE DEF S
  <2> QED BY <1>9, <2>1, SetInduction
<1>12. of[N] = g[N]
  <2>1. N \in S
    <3> HIDE DEF S
    <3> QED BY <1>1, <1>11
  <2> QED BY <2>1
<1> QED BY <1>3, <1>6, <1>12 DEF N

\* At most one character for each byte, in the order of the bytes.
LEMMA DecodedFacts ==
  ASSUME NEW bs \in Seq(Bytes), NEW n \in Nat
  PROVE  /\ Decoded(bs, n) \in Seq(CharsIn(n, n + Len(bs))) /\ Len(Decoded(bs, n)) <= Len(bs)
         /\ InOrder(Decoded(bs, n))
<1>1. PICK f : Decodes(f, bs, n) /\ Decoded(bs, n) = f[Len(bs)]
  BY DecodedLoop
<1>2. Len(bs) \in Nat
  OBVIOUS
<1> DEFINE Good(i) == Len(f[i]) <= i /\ InOrder(f[i]) /\ \A j \in 1 .. Len(f[i]) : f[i][j].at <= n + i
           S == {i \in Nat : i <= Len(bs) => Good(i)}
<1>f. /\ f \in [0 .. Len(bs) -> Seq(CharsIn(n, n + Len(bs)))] /\ f[0] = <<>>
      /\ \A i \in 1 .. Len(bs) :
           f[i] = IF bs[i] = "h" THEN f[i - 1] ELSE Append(f[i - 1], [c |-> bs[i], at |-> n + i])
  BY <1>1 DEF Decodes
<1>3. Good(0)
  BY <1>f DEF InOrder
<1>4. ASSUME NEW i \in Nat, i + 1 <= Len(bs), Good(i) PROVE Good(i + 1)
  <2>1. i + 1 \in 1 .. Len(bs) /\ i \in 0 .. Len(bs) /\ (i + 1) - 1 = i
    BY <1>2, <1>4
  <2> DEFINE s == f[i]
             x == [c |-> bs[i + 1], at |-> n + (i + 1)]
  <2>2. s \in Seq(CharsIn(n, n + Len(bs)))
    BY <1>f, <2>1
  <2>3. f[i + 1] = IF bs[i + 1] = "h" THEN s ELSE Append(s, x)
    BY <1>f, <2>1
  <2>4. \A j \in 1 .. Len(s) : s[j].at \in Nat
    <3> SUFFICES ASSUME NEW j \in 1 .. Len(s) PROVE s[j].at \in Nat
      OBVIOUS
    <3>1. s[j] \in CharsIn(n, n + Len(bs))
      BY <2>2
    <3> QED BY <1>2, <3>1 DEF CharsIn
  <2>5. Len(s) <= i /\ InOrder(s) /\ \A j \in 1 .. Len(s) : s[j].at <= n + i
    BY <1>4
  <2>6. Len(s) \in Nat /\ DOMAIN s = 1 .. Len(s)
    BY <2>2
  <2>7. x.at = n + (i + 1)
    OBVIOUS
  <2> HIDE DEF s, x
  <2>8. CASE bs[i + 1] = "h"
    <3>1. f[i + 1] = s
      BY <2>3, <2>8
    <3>2. \A j \in 1 .. Len(s) : s[j].at <= n + (i + 1)
      BY <2>4, <2>5
    <3>3. Len(s) <= i + 1
      BY <2>5, <2>6
    <3> QED BY <2>5, <3>1, <3>2, <3>3
  <2>9. CASE bs[i + 1] # "h"
    <3> DEFINE t == Append(s, x)
    <3>1. /\ Len(t) = Len(s) + 1 /\ DOMAIN t = 1 .. Len(s) + 1
          /\ \A j \in 1 .. Len(s) : t[j] = s[j]
          /\ t[Len(s) + 1] = x
      BY <2>2
    <3> HIDE DEF t
    <3>2. \A j \in 1 .. Len(s) + 1 : t[j].at <= n + (i + 1)
      <4> SUFFICES ASSUME NEW j \in 1 .. Len(s) + 1 PROVE t[j].at <= n + (i + 1)
        OBVIOUS
      <4>1. CASE j \in 1 .. Len(s)
        BY <2>4, <2>5, <3>1, <4>1
      <4>2. CASE j = Len(s) + 1
        BY <2>7, <3>1, <4>2
      <4> QED BY <2>6, <4>1, <4>2
    <3>3. InOrder(t)
      <4> SUFFICES ASSUME NEW j \in 1 .. Len(s) + 1, NEW k \in 1 .. Len(s) + 1, j < k
                   PROVE  t[j].at < t[k].at
        BY <3>1 DEF InOrder
      <4>1. CASE k = Len(s) + 1
        <5>1. j \in 1 .. Len(s)
          BY <2>6, <4>1
        <5>2. t[j].at <= n + i /\ t[j].at \in Nat
          BY <2>4, <2>5, <3>1, <5>1
        <5>3. t[k].at = n + (i + 1)
          BY <2>7, <3>1, <4>1
        <5> QED BY <5>2, <5>3
      <4>2. CASE k # Len(s) + 1
        <5>1. j \in 1 .. Len(s) /\ k \in 1 .. Len(s)
          BY <2>6, <4>2
        <5> QED BY <2>5, <2>6, <3>1, <5>1 DEF InOrder
      <4> QED BY <4>1, <4>2
    <3>4. f[i + 1] = t
      BY <2>3, <2>9 DEF t
    <3>5. Len(t) <= i + 1
      BY <2>5, <2>6, <3>1
    <3> QED BY <3>1, <3>2, <3>3, <3>4, <3>5
  <2> QED BY <2>8, <2>9
<1> HIDE DEF Good
<1>5. 0 \in S
  BY <1>3
<1>6. ASSUME NEW i \in S PROVE i + 1 \in S
  <2>1. i + 1 <= Len(bs) => Good(i)
    BY <1>2
  <2> QED BY <1>4, <2>1
<1>7. S = Nat
  <2>1. S \in SUBSET Nat /\ \A i \in S : i + 1 \in S
    BY <1>6
  <2> HIDE DEF S
  <2> QED BY <1>5, <2>1, SetInduction
<1>8. Good(Len(bs))
  <2>1. Len(bs) \in S
    <3> HIDE DEF S
    <3> QED BY <1>2, <1>7
  <2> QED BY <1>2, <2>1
<1>9. f[Len(bs)] \in Seq(CharsIn(n, n + Len(bs)))
  BY <1>2, <1>f
<1> QED BY <1>1, <1>8, <1>9 DEF Good

\* Decoding in two pieces.
LEMMA DecodedTwice ==
  ASSUME NEW bs \in Seq(Bytes), NEW cs \in Seq(Bytes)
  PROVE  Decoded(bs \o cs, 0) = Decoded(bs, 0) \o Decoded(cs, Len(bs))
<1> DEFINE as == bs \o cs
           M == Len(bs)
           N == Len(cs)
<1>1. /\ as \in Seq(Bytes) /\ Len(as) = M + N /\ M \in Nat /\ N \in Nat
      /\ \A i \in 1 .. M + N : as[i] = IF i <= M THEN bs[i] ELSE cs[i - M]
  BY ConcatProperties
<1> HIDE DEF as, M, N
<1>2. PICK f : Decodes(f, as, 0) /\ Decoded(as, 0) = f[M + N]
  BY <1>1, DecodedLoop
<1>3. PICK g : Decodes(g, bs, 0) /\ Decoded(bs, 0) = g[M]
  BY DecodedLoop DEF M
<1>4. PICK h : Decodes(h, cs, M) /\ Decoded(cs, M) = h[N]
  BY <1>1, DecodedLoop DEF N
<1> DEFINE byte(b, at) == [c |-> b, at |-> at]
<1>f. f[0] = <<>> /\ \A i \in 1 .. M + N :
        f[i] = IF as[i] = "h" THEN f[i - 1] ELSE Append(f[i - 1], byte(as[i], 0 + i))
  BY <1>1, <1>2 DEF Decodes
<1>g. /\ g \in [0 .. M -> Seq(CharsIn(0, 0 + M))] /\ g[0] = <<>>
      /\ \A i \in 1 .. M :
           g[i] = IF bs[i] = "h" THEN g[i - 1] ELSE Append(g[i - 1], byte(bs[i], 0 + i))
  BY <1>3 DEF Decodes, M
<1>h. /\ h \in [0 .. N -> Seq(CharsIn(M, M + N))] /\ h[0] = <<>>
      /\ \A i \in 1 .. N :
           h[i] = IF cs[i] = "h" THEN h[i - 1] ELSE Append(h[i - 1], byte(cs[i], M + i))
  BY <1>4 DEF Decodes, N
<1> HIDE DEF byte
<1> DEFINE S == {i \in Nat : i <= M => f[i] = g[i]}
<1>5. S = Nat
  <2>1. 0 \in S
    BY <1>f, <1>g
  <2>2. ASSUME NEW i \in S PROVE i + 1 \in S
    <3> SUFFICES ASSUME i + 1 <= M PROVE f[i + 1] = g[i + 1]
      OBVIOUS
    <3>1. i + 1 \in 1 .. M /\ i + 1 \in 1 .. M + N /\ (i + 1) - 1 = i /\ f[i] = g[i]
      BY <1>1
    <3>2. as[i + 1] = bs[i + 1]
      BY <1>1, <3>1
    <3> QED BY <1>f, <1>g, <3>1, <3>2
  <2>3. S \in SUBSET Nat /\ \A i \in S : i + 1 \in S
    BY <2>2
  <2> HIDE DEF S
  <2> QED BY <2>1, <2>3, SetInduction
<1>6. f[M] = g[M]
  <2>1. M \in S
    <3> HIDE DEF S
    <3> QED BY <1>1, <1>5
  <2> QED BY <1>1, <2>1
\* Both kinds of characters are characters.
<1> DEFINE C == CharsIn(0, M + N)
<1>7. /\ g[M] \in Seq(C)
      /\ \A i \in 0 .. N : h[i] \in Seq(C)
      /\ \A i \in 1 .. N : cs[i] # "h" => byte(cs[i], M + i) \in C
  <2>1. CharsIn(0, 0 + M) \subseteq C /\ CharsIn(M, M + N) \subseteq C
    BY <1>1 DEF CharsIn
  <2>2. ASSUME NEW i \in 1 .. N, cs[i] # "h" PROVE byte(cs[i], M + i) \in C
    <3>1. cs[i] \in Bytes
      BY DEF N
    <3>2. M + i \in 0 + 1 .. M + N
      BY <1>1
    <3> QED BY <2>2, <3>1, <3>2 DEF CharsIn, byte
  <2> HIDE DEF C
  <2>3. g[M] \in Seq(C)
    <3>1. g[M] \in Seq(CharsIn(0, 0 + M))
      BY <1>1, <1>g
    <3> QED BY <2>1, <3>1, LargerSeq
  <2>4. ASSUME NEW i \in 0 .. N PROVE h[i] \in Seq(C)
    <3>1. h[i] \in Seq(CharsIn(M, M + N))
      BY <1>h
    <3> QED BY <2>1, <3>1, LargerSeq
  <2> QED BY <2>2, <2>3, <2>4
<1> HIDE DEF C
<1>s. \A i \in Nat : i + 1 <= N =>
        /\ i + 1 \in 1 .. N /\ i \in 0 .. N /\ (i + 1) - 1 = i
        /\ M + (i + 1) \in 1 .. M + N /\ (M + (i + 1)) - 1 = M + i /\ 0 + (M + (i + 1)) = M + (i + 1)
        /\ ~(M + (i + 1) <= M) /\ (M + (i + 1)) - M = i + 1
  BY <1>1
<1> DEFINE Q(i) == f[M + i] = g[M] \o h[i]
<1>8. ASSUME NEW i \in Nat, i + 1 <= N, Q(i) PROVE Q(i + 1)
  <2> DEFINE x == byte(cs[i + 1], M + (i + 1))
  <2>1. /\ i + 1 \in 1 .. N /\ i \in 0 .. N /\ (i + 1) - 1 = i
        /\ M + (i + 1) \in 1 .. M + N /\ (M + (i + 1)) - 1 = M + i /\ 0 + (M + (i + 1)) = M + (i + 1)
        /\ ~(M + (i + 1) <= M) /\ (M + (i + 1)) - M = i + 1
    BY <1>s, <1>8
  <2>2. as[M + (i + 1)] = cs[i + 1]
    <3>1. as[M + (i + 1)] = IF M + (i + 1) <= M THEN bs[M + (i + 1)] ELSE cs[(M + (i + 1)) - M]
      BY <1>1, <2>1
    <3> QED BY <2>1, <3>1
  <2>3. f[M + (i + 1)] = IF cs[i + 1] = "h" THEN f[M + i] ELSE Append(f[M + i], x)
    BY <1>f, <2>1, <2>2
  <2>4. h[i + 1] = IF cs[i + 1] = "h" THEN h[i] ELSE Append(h[i], x)
    BY <1>h, <2>1
  <2>5. cs[i + 1] # "h" => x \in C
    BY <1>7, <2>1
  <2>6. g[M] \in Seq(C) /\ h[i] \in Seq(C)
    BY <1>7, <2>1
  <2>7. f[M + i] = g[M] \o h[i]
    BY <1>8
  <2> HIDE DEF x
  <2>8. CASE cs[i + 1] = "h"
    BY <2>3, <2>4, <2>7, <2>8
  <2>9. CASE cs[i + 1] # "h"
    <3>1. g[M] \o Append(h[i], x) = Append(g[M] \o h[i], x)
      <4>1. x \in C
        BY <2>5, <2>9
      <4> DEFINE a == g[M]
                 b == h[i]
      <4>2. a \in Seq(C) /\ b \in Seq(C)
        BY <2>6
      <4> HIDE DEF a, b
      <4>3. a \o Append(b, x) = Append(a \o b, x)
        BY <4>1, <4>2, ConcatAppend
      <4> QED BY <4>3 DEF a, b
    <3>2. f[M + (i + 1)] = Append(g[M] \o h[i], x)
      BY <2>3, <2>7, <2>9
    <3>3. h[i + 1] = Append(h[i], x)
      BY <2>4, <2>9
    <3> QED BY <3>1, <3>2, <3>3
  <2> QED BY <2>8, <2>9
<1>0. Q(0)
  <2>1. M + 0 = M
    BY <1>1
  <2>2. g[M] \o <<>> = g[M]
    BY <1>7, ConcatEmptySeq
  <2> QED BY <1>6, <1>h, <2>1, <2>2
<1>9. Q(N)
  <2> HIDE DEF Q
  <2> DEFINE P == {i \in Nat : i <= N => Q(i)}
  <2>1. 0 \in P
    BY <1>0
  <2>2. ASSUME NEW i \in P PROVE i + 1 \in P
    <3>1. i \in Nat /\ (i <= N => Q(i)) /\ (i + 1 <= N => i <= N)
      BY <1>1
    <3>2. i + 1 <= N => Q(i + 1)
      BY <1>8, <3>1
    <3> QED BY <3>1, <3>2
  <2>3. P = Nat
    <3>1. P \in SUBSET Nat /\ \A i \in P : i + 1 \in P
      BY <2>2
    <3> HIDE DEF P
    <3> QED BY <2>1, <3>1, SetInduction
  <2>4. N \in P
    <3> HIDE DEF P
    <3> QED BY <1>1, <2>3
  <2> QED BY <1>1, <2>4
<1> QED BY <1>2, <1>3, <1>4, <1>9 DEF as, M

\* The line of s that the newline at i ends.
StartOf(s, i) == Max({b \in {0} \cup NewlinesOf(s) : b < i})
LineOf(s, i) == SubSeq(s, StartOf(s, i) + 1, i - 1)

\* The observer has been given, in order, the lines of s up to the place p: all
\* those that are neither blank nor too long, and nothing else.
Handed(s, p, lines) ==
  /\ \A i \in NewlinesOf(s) :
       i <= p /\ Len(LineOf(s, i)) <= MaxLine /\ ~IsBlank(LineOf(s, i))
         => \E k \in DOMAIN lines : lines[k] = LineOf(s, i)
  /\ \A k \in DOMAIN lines :
       \E i \in NewlinesOf(s) : i <= p /\ lines[k] = LineOf(s, i) /\ ~IsBlank(lines[k])
  /\ \A j, k \in DOMAIN lines : j < k => Last(lines[j]).at < Head(lines[k]).at

\* How the first newline of r, the rest of s after the place q, splits r and s.
FirstSplits(s, q, r, j) ==
  /\ j \in 1 .. Len(r) /\ q + j \in NewlinesOf(s) /\ q + j \in 1 .. Len(s)
  /\ \A k \in NewlinesOf(s) : k < q + j => k <= q
  /\ SubSeq(r, 1, j - 1) = SubSeq(s, q + 1, (q + j) - 1)
  /\ After(r, j) = SubSeq(s, (q + j) + 1, Len(s))
  /\ Len(SubSeq(r, 1, j - 1)) = j - 1
  /\ Len(After(r, j)) = Len(r) - j

\* The stream has been split up to the place p, a line's beginning, and rest is
\* what is left of it.
SplitUpTo(s, p, lines, rest) ==
  /\ p \in {0} \cup NewlinesOf(s) /\ Handed(s, p, lines) /\ rest = SubSeq(s, p + 1, Len(s))

\* What follows p is one line so far, already too long, and is being discarded.
Discarding(s, p, lines) ==
  /\ p \in {0} \cup NewlinesOf(s) /\ Handed(s, p, lines)
  /\ Len(s) - p > MaxLine /\ \A i \in NewlinesOf(s) : i <= p

\* No line is held or handed on that is longer than the cap and a chunk.
Bounded ==
  /\ pc = "split" => Len(buf) <= MaxLine + MaxChunk
  /\ pc = "idle" => Len(buf) <= MaxLine
  /\ \A k \in DOMAIN emitted : Len(emitted[k]) < MaxLine + MaxChunk

\* The inductive invariant: see above.
FramerInv ==
  /\ TypeOK
  /\ ~overflow => \E p \in 0 .. Len(Text) : SplitUpTo(Text, p, emitted, buf)
  /\ overflow => buf = <<>> /\ \E p \in 0 .. Len(Text) : Discarding(Text, p, emitted)
  /\ overflow => pc = "idle" /\ ~threw
  /\ pc = "idle" /\ ~threw => NewlinesOf(buf) = {}
  /\ throws = 0 => ~threw /\ Bounded

\* So has a bounded one a largest.
LEMMA HasLargest ==
  ASSUME NEW S \in SUBSET Nat, S # {}, NEW n \in Nat, \A i \in S : i <= n
  PROVE  Max(S) \in S /\ \A i \in S : i <= Max(S)
<1> DEFINE D == {n - i : i \in S}
<1>1. D \in SUBSET Nat /\ D # {}
  <2>1. \A i \in S : n - i \in Nat
    OBVIOUS
  <2> QED BY <2>1
<1>2. Min(D) \in D /\ \A d \in D : Min(D) <= d
  <2> HIDE DEF D
  <2> QED BY <1>1, HasSmallest
<1>3. PICK g \in S : Min(D) = n - g
  BY <1>2
<1>4. \A i \in S : i <= g
  <2> SUFFICES ASSUME NEW i \in S PROVE i <= g
    OBVIOUS
  <2>1. n - g <= n - i
    BY <1>2, <1>3
  <2>2. i \in Nat /\ g \in Nat
    OBVIOUS
  <2> QED BY <2>1, <2>2
<1>5. Max(S) = g
  BY <1>4, LargestIsMax
<1> QED BY <1>4, <1>5

\* The newlines of a text are places of it.
LEMMA NewlineFacts ==
  ASSUME NEW S, NEW s \in Seq(S)
  PROVE  /\ NewlinesOf(s) \in SUBSET (1 .. Len(s)) /\ Len(s) \in Nat
         /\ \A i \in 1 .. Len(s) : i \in NewlinesOf(s) <=> s[i].c = "n"
BY DEF NewlinesOf

\* Where the line that ends at a newline begins.
LEMMA LineFacts ==
  ASSUME NEW S, NEW s \in Seq(S), NEW i \in NewlinesOf(s)
  PROVE  /\ StartOf(s, i) \in {0} \cup NewlinesOf(s)
         /\ StartOf(s, i) \in Nat /\ i \in Nat /\ i - 1 \in Nat /\ i <= Len(s)
         /\ StartOf(s, i) <= i - 1
         /\ \A b \in {0} \cup NewlinesOf(s) : b < i => b <= StartOf(s, i)
         /\ LineOf(s, i) = SubSeq(s, StartOf(s, i) + 1, i - 1)
         /\ LineOf(s, i) \in Seq(S) /\ Len(LineOf(s, i)) = (i - 1) - StartOf(s, i)
         /\ \A k \in 1 .. (i - 1) - StartOf(s, i) : LineOf(s, i)[k] = s[StartOf(s, i) + k]
<1> DEFINE B == {b \in {0} \cup NewlinesOf(s) : b < i}
           m == Max(B)
<1>1. NewlinesOf(s) \in SUBSET (1 .. Len(s)) /\ Len(s) \in Nat
  BY NewlineFacts
<1>2. i \in 1 .. Len(s) /\ i \in Nat /\ i - 1 \in Nat /\ i - 1 <= Len(s) /\ i <= Len(s)
  BY <1>1
<1>3. B \in SUBSET Nat /\ 0 \in B /\ \A b \in B : b <= i
  BY <1>1, <1>2
<1>4. m \in B /\ \A b \in B : b <= m
  <2> HIDE DEF B
  <2> QED BY <1>2, <1>3, HasLargest
<1>5. m \in {0} \cup NewlinesOf(s) /\ m \in Nat /\ m < i /\ \A b \in {0} \cup NewlinesOf(s) : b < i => b <= m
  <2>1. m \in {0} \cup NewlinesOf(s) /\ m < i
    BY <1>4
  <2>2. \A b \in {0} \cup NewlinesOf(s) : b < i => b <= m
    BY <1>4
  <2>3. m \in Nat
    BY <1>3, <1>4
  <2> QED BY <2>1, <2>2, <2>3
<1>6. LineOf(s, i) = SubSeq(s, m + 1, i - 1)
  BY DEF LineOf, StartOf
<1>7. m = StartOf(s, i)
  BY DEF StartOf
<1> HIDE DEF m
<1>8. m <= i - 1
  BY <1>2, <1>5
<1>9. /\ SubSeq(s, m + 1, i - 1) \in Seq(S) /\ Len(SubSeq(s, m + 1, i - 1)) = (i - 1) - m
      /\ \A k \in 1 .. (i - 1) - m : SubSeq(s, m + 1, i - 1)[k] = s[m + k]
  BY <1>2, <1>5, <1>8, PartFacts
<1> QED BY <1>2, <1>5, <1>6, <1>7, <1>8, <1>9

\* The line between a newline and the next.
LEMMA NextLine ==
  ASSUME NEW S, NEW s \in Seq(S), NEW p \in {0} \cup NewlinesOf(s), NEW i \in NewlinesOf(s), p < i,
         \A k \in NewlinesOf(s) : k < i => k <= p
  PROVE  LineOf(s, i) = SubSeq(s, p + 1, i - 1)
<1> DEFINE m == StartOf(s, i)
<1>1. /\ m \in {0} \cup NewlinesOf(s)
      /\ m \in Nat /\ i \in Nat /\ m <= i - 1 /\ \A b \in {0} \cup NewlinesOf(s) : b < i => b <= m
      /\ LineOf(s, i) = SubSeq(s, m + 1, i - 1)
  BY LineFacts
<1> HIDE DEF m
<1>2. NewlinesOf(s) \in SUBSET (1 .. Len(s)) /\ Len(s) \in Nat
  BY NewlineFacts
<1>3. p \in Nat /\ p <= m
  BY <1>1, <1>2
<1>4. m <= p
  BY <1>1, <1>2, <1>3
<1>5. m = p
  BY <1>1, <1>3, <1>4
<1> QED BY <1>1, <1>5

\* A line stays what it is when more is sent.
LEMMA LineExtends ==
  ASSUME NEW S, NEW s \in Seq(S), NEW t \in Seq(S)
  PROVE  /\ \A i \in NewlinesOf(s) : i \in NewlinesOf(s \o t) /\ LineOf(s \o t, i) = LineOf(s, i)
         /\ \A i \in NewlinesOf(s \o t) : i <= Len(s) => i \in NewlinesOf(s)
<1> DEFINE u == s \o t
<1>1. /\ u \in Seq(S) /\ Len(u) = Len(s) + Len(t) /\ Len(s) \in Nat /\ Len(t) \in Nat
      /\ \A i \in 1 .. Len(s) + Len(t) : u[i] = IF i <= Len(s) THEN s[i] ELSE t[i - Len(s)]
  BY ConcatProperties
<1> HIDE DEF u
<1>2. /\ NewlinesOf(s) \in SUBSET (1 .. Len(s)) /\ NewlinesOf(u) \in SUBSET (1 .. Len(u))
      /\ \A i \in 1 .. Len(s) : i \in NewlinesOf(s) <=> s[i].c = "n"
      /\ \A i \in 1 .. Len(u) : i \in NewlinesOf(u) <=> u[i].c = "n"
  BY <1>1, NewlineFacts
<1>3. \A i \in 1 .. Len(s) : i \in NewlinesOf(u) <=> i \in NewlinesOf(s)
  <2> SUFFICES ASSUME NEW i \in 1 .. Len(s) PROVE i \in NewlinesOf(u) <=> i \in NewlinesOf(s)
    OBVIOUS
  <2>1. i \in 1 .. Len(s) + Len(t) /\ i <= Len(s)
    BY <1>1
  <2>2. u[i] = s[i] /\ i \in 1 .. Len(u)
    BY <1>1, <2>1
  <2> QED BY <1>2, <2>2
<1>4. ASSUME NEW i \in NewlinesOf(s) PROVE i \in NewlinesOf(u) /\ LineOf(u, i) = LineOf(s, i)
  <2>1. i \in NewlinesOf(u)
    BY <1>2, <1>3
  <2> DEFINE m == StartOf(s, i)
  <2>2. /\ m \in {0} \cup NewlinesOf(s)
          /\ m \in Nat /\ i \in Nat /\ m <= i - 1 /\ i - 1 \in Nat /\ i <= Len(s)
          /\ \A b \in {0} \cup NewlinesOf(s) : b < i => b <= m
          /\ LineOf(s, i) = SubSeq(s, m + 1, i - 1)
    BY LineFacts
  <2> HIDE DEF m
  <2>3. m \in {0} \cup NewlinesOf(u)
    BY <1>2, <1>3, <2>2
  <2>4. m < i /\ \A k \in NewlinesOf(u) : k < i => k <= m
    <3>1. \A k \in NewlinesOf(u) : k < i => k \in NewlinesOf(s)
      BY <1>1, <1>2, <1>3, <2>2
    <3> QED BY <2>2, <3>1
  <2>5. LineOf(u, i) = SubSeq(u, m + 1, i - 1)
    BY <1>1, <2>1, <2>3, <2>4, NextLine
  <2>6. SubSeq(u, m + 1, i - 1) = SubSeq(s, m + 1, i - 1)
    <3>1. i - 1 <= Len(s)
      BY <1>1, <2>2
    <3> QED BY <2>2, <3>1, PartOfConcat DEF u
  <2> QED BY <2>1, <2>2, <2>5, <2>6, SMTT(30)
<1>5. ASSUME NEW i \in NewlinesOf(u), i <= Len(s) PROVE i \in NewlinesOf(s)
  <2>1. i \in 1 .. Len(s)
    BY <1>1, <1>2, <1>5
  <2> QED BY <1>3, <2>1
<1> QED BY <1>4, <1>5 DEF u

\* The first newline of the rest of a sequence is the next one of the sequence.
LEMMA RestNewline ==
  ASSUME NEW S, NEW s \in Seq(S), NEW q \in 0 .. Len(s), NEW r, r = SubSeq(s, q + 1, Len(s)),
         NewlinesOf(r) # {}
  PROVE  /\ FirstSplits(s, q, r, FirstNewline(r))
         /\ SubSeq(r, 1, FirstNewline(r) - 1) \in Seq(S)
<1> DEFINE j == FirstNewline(r)
<1>1. Len(s) \in Nat /\ q \in Nat /\ q <= Len(s) /\ Len(s) <= Len(s)
  OBVIOUS
<1>2. r \in Seq(S) /\ Len(r) = Len(s) - q /\ \A i \in 1 .. Len(s) - q : r[i] = s[q + i]
  BY <1>1, PartFacts
<1>3. /\ NewlinesOf(s) \in SUBSET (1 .. Len(s)) /\ NewlinesOf(r) \in SUBSET (1 .. Len(r))
      /\ \A i \in 1 .. Len(s) : i \in NewlinesOf(s) <=> s[i].c = "n"
      /\ \A i \in 1 .. Len(r) : i \in NewlinesOf(r) <=> r[i].c = "n"
  BY <1>2, NewlineFacts
<1>4. j \in NewlinesOf(r) /\ \A i \in NewlinesOf(r) : j <= i
  <2>1. NewlinesOf(r) \in SUBSET Nat
    BY <1>1, <1>2, <1>3
  <2> QED BY <2>1, HasSmallest DEF FirstNewline
<1> HIDE DEF j
<1>5. j \in 1 .. Len(r) /\ j \in 1 .. Len(s) - q /\ j \in Nat
  BY <1>1, <1>2, <1>3, <1>4
<1>6. q + j \in 1 .. Len(s)
  BY <1>1, <1>5
<1>7. q + j \in NewlinesOf(s)
  <2>1. s[q + j] = r[j]
    BY <1>2, <1>5
  <2> QED BY <1>3, <1>4, <1>5, <1>6, <2>1
<1>8. ASSUME NEW k \in NewlinesOf(s), k < q + j PROVE k <= q
  <2> SUFFICES ASSUME ~(k <= q) PROVE FALSE
    OBVIOUS
  <2>1. k \in 1 .. Len(s)
    BY <1>3
  <2>2. k - q \in 1 .. Len(s) - q /\ q + (k - q) = k /\ k - q < j
    BY <1>1, <1>5, <1>8, <2>1
  <2>3. r[k - q] = s[k]
    BY <1>2, <2>2
  <2>4. k - q \in 1 .. Len(r)
    BY <1>2, <2>2
  <2>5. k - q \in NewlinesOf(r)
    BY <1>3, <2>1, <2>3, <2>4
  <2>6. j <= k - q
    BY <1>4, <2>5
  <2> QED BY <1>5, <2>2, <2>6
<1>9. SubSeq(r, 1, j - 1) = SubSeq(s, q + 1, (q + j) - 1)
  <2>1. 0 \in Nat /\ j - 1 \in Nat /\ 0 <= j - 1 /\ j - 1 <= Len(s) - q
    BY <1>1, <1>5
  <2> DEFINE b == j - 1
  <2>b. b \in Nat /\ 0 <= b /\ b <= Len(s) - q
    BY <2>1
  <2>2. SubSeq(r, 0 + 1, b) = SubSeq(s, (q + 0) + 1, q + b)
    <3> HIDE DEF b
    <3> QED BY <1>1, <2>b, PartOfPart
  <2>3. 0 + 1 = 1 /\ (q + 0) + 1 = q + 1 /\ q + (j - 1) = (q + j) - 1
    BY <1>1, <1>5
  <2> QED BY <2>2, <2>3
<1>10. After(r, j) = SubSeq(s, (q + j) + 1, Len(s))
  <2>1. Len(r) \in Nat /\ j <= Len(r) /\ Len(r) <= Len(s) - q
    BY <1>1, <1>2, <1>5
  <2>2. SubSeq(r, j + 1, Len(r)) = SubSeq(s, (q + j) + 1, q + Len(r))
    BY <1>1, <1>5, <2>1, PartOfPart
  <2>3. q + Len(r) = Len(s)
    BY <1>1, <1>2
  <2> QED BY <2>2, <2>3 DEF After
<1>11. SubSeq(r, 1, j - 1) \in Seq(S) /\ Len(SubSeq(r, 1, j - 1)) = j - 1
  <2>1. 0 \in Nat /\ j - 1 \in Nat /\ 0 <= j - 1 /\ j - 1 <= Len(r)
    BY <1>2, <1>5
  <2>2. SubSeq(r, 0 + 1, j - 1) \in Seq(S) /\ Len(SubSeq(r, 0 + 1, j - 1)) = (j - 1) - 0
    BY <1>2, <2>1, PartFacts
  <2>3. (j - 1) - 0 = j - 1 /\ 0 + 1 = 1
    BY <1>5
  <2> QED BY <2>2, <2>3
<1>12. Len(After(r, j)) = Len(r) - j
  <2>1. Len(r) \in Nat /\ j <= Len(r) /\ Len(r) <= Len(r)
    BY <1>2, <1>5
  <2> QED BY <1>2, <1>5, <2>1, PartFacts DEF After
<1>13. \A k \in NewlinesOf(s) : k < q + j => k <= q
  BY <1>8
<1>14. FirstSplits(s, q, r, j)
  BY <1>5, <1>6, <1>7, <1>9, <1>10, <1>11, <1>12, <1>13 DEF FirstSplits
<1> QED BY <1>11, <1>14 DEF j

\* Being handed the lines up to a place does not depend on what is sent later.
LEMMA HandedGrows ==
  ASSUME NEW S, NEW s \in Seq(S), NEW t \in Seq(S), NEW p \in 0 .. Len(s), NEW lines,
         Handed(s, p, lines)
  PROVE  Handed(s \o t, p, lines)
<1> DEFINE u == s \o t
<1>1. /\ \A i \in NewlinesOf(s) : i \in NewlinesOf(u) /\ LineOf(u, i) = LineOf(s, i)
      /\ \A i \in NewlinesOf(u) : i <= Len(s) => i \in NewlinesOf(s)
  BY LineExtends
<1>2. u \in Seq(S) /\ Len(s) \in Nat
  BY ConcatProperties
<1> HIDE DEF u
<1>3. \A i \in NewlinesOf(u) : i \in Nat
  BY <1>2, NewlineFacts
<1>4. \A i \in NewlinesOf(u) : i <= p => i \in NewlinesOf(s)
  BY <1>1, <1>2, <1>3
<1>5. ASSUME NEW i \in NewlinesOf(u), i <= p, Len(LineOf(u, i)) <= MaxLine, ~IsBlank(LineOf(u, i))
      PROVE  \E k \in DOMAIN lines : lines[k] = LineOf(u, i)
  <2>1. i \in NewlinesOf(s) /\ LineOf(u, i) = LineOf(s, i)
    BY <1>1, <1>4, <1>5
  <2> QED BY <1>5, <2>1 DEF Handed
<1>6. ASSUME NEW k \in DOMAIN lines
      PROVE  \E i \in NewlinesOf(u) : i <= p /\ lines[k] = LineOf(u, i) /\ ~IsBlank(lines[k])
  <2>1. PICK i \in NewlinesOf(s) : i <= p /\ lines[k] = LineOf(s, i) /\ ~IsBlank(lines[k])
    BY DEF Handed
  <2>2. i \in NewlinesOf(u) /\ LineOf(u, i) = LineOf(s, i)
    BY <1>1
  <2> QED BY <2>1, <2>2
<1>7. \A j, k \in DOMAIN lines : j < k => Last(lines[j]).at < Head(lines[k]).at
  BY DEF Handed
<1> QED BY <1>5, <1>6, <1>7 DEF Handed, u

\* A line that is blank or too long need not be handed on.
LEMMA HandedSkips ==
  ASSUME NEW S, NEW s \in Seq(S), NEW p \in 0 .. Len(s), NEW i \in NewlinesOf(s), p < i,
         \A k \in NewlinesOf(s) : k < i => k <= p, NEW lines,
         Handed(s, p, lines), IsBlank(LineOf(s, i)) \/ ~(Len(LineOf(s, i)) <= MaxLine)
  PROVE  Handed(s, i, lines)
<1>1. \A k \in NewlinesOf(s) : k \in Nat
  BY NewlineFacts
<1>2. p \in Nat /\ i \in Nat
  BY <1>1
<1>3. ASSUME NEW k \in NewlinesOf(s), k <= i, Len(LineOf(s, k)) <= MaxLine, ~IsBlank(LineOf(s, k))
      PROVE  \E n \in DOMAIN lines : lines[n] = LineOf(s, k)
  <2>1. k # i
    BY <1>3
  <2>2. k <= p
    BY <1>1, <1>2, <1>3, <2>1
  <2> QED BY <1>3, <2>2 DEF Handed
<1>4. ASSUME NEW n \in DOMAIN lines
      PROVE  \E k \in NewlinesOf(s) : k <= i /\ lines[n] = LineOf(s, k) /\ ~IsBlank(lines[n])
  <2>1. PICK k \in NewlinesOf(s) : k <= p /\ lines[n] = LineOf(s, k) /\ ~IsBlank(lines[n])
    BY DEF Handed
  <2>2. k <= i
    BY <1>1, <1>2, <2>1
  <2> QED BY <2>1, <2>2
<1>5. \A j, k \in DOMAIN lines : j < k => Last(lines[j]).at < Head(lines[k]).at
  BY DEF Handed
<1> QED BY <1>3, <1>4, <1>5 DEF Handed

\* The last character of a line that is not blank.
LEMMA LineEnds ==
  ASSUME NEW S, NEW s \in Seq(S), NEW i \in NewlinesOf(s), ~IsBlank(LineOf(s, i))
  PROVE  /\ i - 1 \in 1 .. Len(s) /\ Last(LineOf(s, i)) = s[i - 1]
         /\ \A b \in {0} \cup NewlinesOf(s) : b < i => b < i - 1
<1> DEFINE m == StartOf(s, i)
<1>1. /\ m \in {0} \cup NewlinesOf(s)
        /\ m \in Nat /\ i \in Nat /\ m <= i - 1 /\ i - 1 \in Nat /\ i <= Len(s)
        /\ \A b \in {0} \cup NewlinesOf(s) : b < i => b <= m
        /\ LineOf(s, i) = SubSeq(s, m + 1, i - 1)
        /\ LineOf(s, i) \in Seq(S) /\ Len(LineOf(s, i)) = (i - 1) - m
        /\ \A k \in 1 .. (i - 1) - m : LineOf(s, i)[k] = s[m + k]
  BY LineFacts
<1> HIDE DEF m
<1> DEFINE l == LineOf(s, i)
           n == (i - 1) - m
<1>2. l \in Seq(S) /\ Len(l) = n /\ ~IsBlank(l) /\ \A k \in 1 .. n : l[k] = s[m + k]
  BY <1>1
<1>3. n \in Nat /\ m + n = i - 1
  BY <1>1
<1> HIDE DEF l
<1>4. n > 0
  <2>1. CASE n = 0
    <3>1. DOMAIN l = {}
      BY <1>2, <2>1
    <3> QED BY <1>2, <3>1 DEF IsBlank
  <2> QED BY <1>3, <2>1
<1>5. i - 1 \in 1 .. Len(s) /\ m < i - 1
  <2>1. Len(s) \in Nat
    OBVIOUS
  <2> QED BY <1>1, <1>4, <2>1
<1>6. \A b \in {0} \cup NewlinesOf(s) : b < i => b < i - 1
  <2>1. \A b \in {0} \cup NewlinesOf(s) : b \in Nat
    BY NewlineFacts
  <2>2. \A b \in {0} \cup NewlinesOf(s) : b < i => b <= m
    BY <1>1
  <2>3. \A b \in Nat : b <= m => b < i - 1
    <3>1. m \in Nat /\ i - 1 \in Nat /\ m < i - 1
      BY <1>1, <1>5
    <3> QED BY <3>1
  <2> QED BY <2>1, <2>2, <2>3
<1> HIDE DEF n
<1>7. Last(l) = s[i - 1]
  <2>1. n \in 1 .. n
    BY <1>3, <1>4
  <2>2. l[n] = s[m + n]
    BY <1>2, <2>1
  <2> QED BY <1>2, <1>3, <2>2 DEF Last
<1> QED BY <1>5, <1>6, <1>7 DEF l

\* The next line handed on.
LEMMA HandedOn ==
  ASSUME NEW S, S \subseteq Char, NEW s \in Seq(S), InOrder(s),
         NEW p \in {0} \cup NewlinesOf(s), NEW i \in NewlinesOf(s), p < i,
         \A k \in NewlinesOf(s) : k < i => k <= p, NEW lines \in Seq(Seq(S)),
         Handed(s, p, lines), ~IsBlank(LineOf(s, i))
  PROVE  Handed(s, i, Append(lines, LineOf(s, i)))
<1> DEFINE line == LineOf(s, i)
           more == Append(lines, line)
<1>1. /\ \A k \in NewlinesOf(s) : k \in Nat /\ k \in 1 .. Len(s)
      /\ Len(s) \in Nat
  BY NewlineFacts
<1>2. p \in Nat /\ i \in Nat /\ p <= i - 1 /\ i - 1 \in Nat /\ i - 1 <= Len(s)
  BY <1>1
<1>l. \A k \in NewlinesOf(s) : k <= p => k <= i
  BY <1>1, <1>2
<1>3. line = SubSeq(s, p + 1, i - 1)
  BY NextLine
<1>4. /\ line \in Seq(S) /\ Len(line) = (i - 1) - p
      /\ \A k \in 1 .. (i - 1) - p : line[k] = s[p + k]
  BY <1>2, <1>3, PartFacts
<1>5. ~IsBlank(line)
  OBVIOUS
<1>6. line = LineOf(s, i)
  OBVIOUS
<1> HIDE DEF line
<1>7. /\ Len(more) = Len(lines) + 1 /\ DOMAIN more = 1 .. Len(lines) + 1 /\ Len(lines) \in Nat
      /\ DOMAIN lines = 1 .. Len(lines)
      /\ \A k \in 1 .. Len(lines) : more[k] = lines[k]
      /\ more[Len(lines) + 1] = line
  BY <1>4
<1> HIDE DEF more
<1>8. ASSUME NEW k \in NewlinesOf(s), k <= i, Len(LineOf(s, k)) <= MaxLine, ~IsBlank(LineOf(s, k))
      PROVE  \E n \in DOMAIN more : more[n] = LineOf(s, k)
  <2>1. CASE k = i
    <3>1. Len(lines) + 1 \in DOMAIN more
      BY <1>7
    <3> QED BY <1>6, <1>7, <2>1, <3>1
  <2>2. CASE k # i
    <3>1. k <= p
      BY <1>1, <1>2, <1>8, <2>2
    <3>2. PICK n \in DOMAIN lines : lines[n] = LineOf(s, k)
      BY <1>8, <3>1 DEF Handed
    <3>3. n \in DOMAIN more /\ more[n] = lines[n]
      BY <1>7
    <3> QED BY <3>2, <3>3
  <2> QED BY <2>1, <2>2
<1>9. ASSUME NEW n \in DOMAIN more
      PROVE  \E k \in NewlinesOf(s) : k <= i /\ more[n] = LineOf(s, k) /\ ~IsBlank(more[n])
  <2>1. CASE n = Len(lines) + 1
    BY <1>2, <1>5, <1>6, <1>7, <2>1
  <2>2. CASE n \in 1 .. Len(lines)
    <3>1. PICK k \in NewlinesOf(s) : k <= p /\ lines[n] = LineOf(s, k) /\ ~IsBlank(lines[n])
      BY <1>7, <2>2 DEF Handed
    <3>2. k <= i
      BY <1>l, <3>1
    <3> QED BY <1>7, <2>2, <3>1, <3>2
  <2> QED BY <1>7, <2>1, <2>2
<1>10. Len(line) > 0
  <2>1. CASE Len(line) = 0
    <3>1. DOMAIN line = {}
      BY <1>4, <2>1
    <3> QED BY <1>5, <3>1 DEF IsBlank
  <2> QED BY <1>2, <1>4, <2>1
<1>11. Head(line) = s[p + 1] /\ p + 1 \in 1 .. Len(s)
  <2>1. 1 \in 1 .. (i - 1) - p
    BY <1>2, <1>4, <1>10
  <2>2. line[1] = s[p + 1]
    BY <1>4, <2>1
  <2>a. (i - 1) - p > 0
    BY <1>4, <1>10
  <2>b. p + 1 <= i - 1
    BY <1>2, <2>a
  <2>3. p + 1 \in 1 .. Len(s)
    <3>1. p + 1 <= Len(s) /\ p + 1 >= 1
      <4>1. i - 1 <= Len(s) /\ Len(s) \in Nat
        BY <1>1, <1>2
      <4> QED BY <1>2, <2>b, <4>1
    <3>2. p + 1 \in Nat /\ Len(s) \in Nat
      BY <1>1, <1>2
    <3> QED BY <3>1, <3>2
  <2>4. line # <<>> /\ line \in Seq(S)
    BY <1>4, <1>10
  <2> QED BY <2>2, <2>3, <2>4
<1>12. ASSUME NEW j \in 1 .. Len(lines)
       PROVE  Last(lines[j]).at < Head(line).at
  <2>1. PICK k \in NewlinesOf(s) : k <= p /\ lines[j] = LineOf(s, k) /\ ~IsBlank(lines[j])
    BY <1>7 DEF Handed
  <2>2. ~IsBlank(LineOf(s, k))
    BY <2>1
  <2>3. k - 1 \in 1 .. Len(s) /\ Last(LineOf(s, k)) = s[k - 1]
    BY <2>2, LineEnds
  <2>8. k - 1 \in 1 .. Len(s) /\ k - 1 < p + 1
    BY <1>1, <1>2, <2>1, <2>3
  <2>9. s[k - 1].at < s[p + 1].at
    <3>1. DOMAIN s = 1 .. Len(s)
      OBVIOUS
    <3> QED BY <1>11, <2>8, <3>1 DEF InOrder
  <2>10. Last(lines[j]) = s[k - 1]
    BY <2>1, <2>3
  <2> QED BY <1>11, <2>9, <2>10
<1>13. ASSUME NEW j \in DOMAIN more, NEW k \in DOMAIN more, j < k
       PROVE  Last(more[j]).at < Head(more[k]).at
  <2>1. CASE k = Len(lines) + 1
    <3>1. j \in 1 .. Len(lines)
      BY <1>7, <1>13, <2>1
    <3> QED BY <1>7, <1>12, <2>1, <3>1
  <2>2. CASE k # Len(lines) + 1
    <3>1. j \in 1 .. Len(lines) /\ k \in 1 .. Len(lines)
      BY <1>7, <1>13, <2>2
    <3>2. Last(lines[j]).at < Head(lines[k]).at
      BY <1>7, <1>13, <3>1 DEF Handed
    <3> QED BY <1>7, <3>1, <3>2
  <2> QED BY <2>1, <2>2
<1> QED BY <1>8, <1>9, <1>13 DEF Handed, more, line

\* So is where a line begins.
LEMMA PlaceFacts ==
  ASSUME NEW S, NEW s \in Seq(S), NEW p \in {0} \cup NewlinesOf(s)
  PROVE  p \in Nat /\ Len(s) \in Nat /\ p <= Len(s) /\ p \in 0 .. Len(s)
<1>1. NewlinesOf(s) \in SUBSET (1 .. Len(s)) /\ Len(s) \in Nat
  BY NewlineFacts
<1> QED BY <1>1

\* What has been split stays so when more comes in,
LEMMA SplitGrows ==
  ASSUME NEW S, NEW s \in Seq(S), NEW t \in Seq(S), NEW p, NEW lines, NEW rest,
         SplitUpTo(s, p, lines, rest)
  PROVE  SplitUpTo(s \o t, p, lines, rest \o t)
<1>1. p \in {0} \cup NewlinesOf(s) /\ Handed(s, p, lines) /\ rest = SubSeq(s, p + 1, Len(s))
  BY DEF SplitUpTo
<1>2. p \in 0 .. Len(s)
  BY <1>1, PlaceFacts
<1>3. p \in {0} \cup NewlinesOf(s \o t)
  BY <1>1, LineExtends
<1>4. Handed(s \o t, p, lines)
  BY <1>1, <1>2, HandedGrows
<1>5. SubSeq(s \o t, p + 1, Len(s \o t)) = rest \o t
  BY <1>1, <1>2, RestGrows
<1> QED BY <1>3, <1>4, <1>5 DEF SplitUpTo

\* and so does what is discarded, unless a newline comes.
LEMMA DiscardsMore ==
  ASSUME NEW S, NEW s \in Seq(S), NEW t \in Seq(S), NEW p, NEW lines,
         Discarding(s, p, lines), NewlinesOf(t) = {}, MaxLine \in Nat
  PROVE  Discarding(s \o t, p, lines)
<1> DEFINE u == s \o t
<1>1. /\ p \in {0} \cup NewlinesOf(s) /\ Handed(s, p, lines)
      /\ Len(s) - p > MaxLine /\ \A i \in NewlinesOf(s) : i <= p
  BY DEF Discarding
<1>2. p \in Nat /\ p \in 0 .. Len(s)
  BY <1>1, PlaceFacts
<1>3. p \in {0} \cup NewlinesOf(u)
  BY <1>1, LineExtends
<1>4. Handed(u, p, lines)
  BY <1>1, <1>2, HandedGrows
<1>5. /\ u \in Seq(S) /\ Len(u) = Len(s) + Len(t) /\ Len(s) \in Nat /\ Len(t) \in Nat
      /\ \A i \in 1 .. Len(s) + Len(t) : u[i] = IF i <= Len(s) THEN s[i] ELSE t[i - Len(s)]
  BY ConcatProperties
<1>6. Len(u) - p > MaxLine
  BY <1>1, <1>2, <1>5
<1>7. \A i \in NewlinesOf(u) : i <= Len(s) => i \in NewlinesOf(s)
  BY LineExtends
<1> HIDE DEF u
<1>8. ASSUME NEW i \in NewlinesOf(u) PROVE i <= p
  <2>1. i \in 1 .. Len(u) /\ u[i].c = "n"
    BY <1>5, NewlineFacts
  <2>2. CASE i <= Len(s)
    BY <1>1, <1>7, <2>2
  <2>3. CASE ~(i <= Len(s))
    <3>1. i - Len(s) \in 1 .. Len(t) /\ i \in 1 .. Len(s) + Len(t)
      BY <1>5, <2>1, <2>3
    <3>2. t[i - Len(s)].c = "n"
      BY <1>5, <2>1, <2>3, <3>1
    <3>3. i - Len(s) \in NewlinesOf(t)
      BY <3>1, <3>2, NewlineFacts
    <3> QED BY <3>3
  <2> QED BY <2>2, <2>3
<1> QED BY <1>3, <1>4, <1>6, <1>8 DEF Discarding, u

\* The end of a line that is being discarded.
LEMMA Resyncs ==
  ASSUME NEW S, NEW s \in Seq(S), NEW t \in Seq(S), NEW p, NEW lines,
         Discarding(s, p, lines), NewlinesOf(t) # {}, MaxLine \in Nat
  PROVE  /\ \E i \in Nat : SplitUpTo(s \o t, i, lines, Resync(t))
         /\ Len(Resync(t)) <= Len(t)
<1> DEFINE u == s \o t
           q == Len(s)
           j == FirstNewline(t)
           i == q + j
<1>1. /\ p \in {0} \cup NewlinesOf(s) /\ Handed(s, p, lines)
      /\ Len(s) - p > MaxLine /\ \A k \in NewlinesOf(s) : k <= p
  BY DEF Discarding
<1>2. p \in Nat /\ p \in 0 .. Len(s) /\ q \in 0 .. Len(s) /\ q \in Nat
  BY <1>1, PlaceFacts
<1>3. p \in {0} \cup NewlinesOf(u)
  BY <1>1, LineExtends
<1>4. Handed(u, p, lines)
  BY <1>1, <1>2, HandedGrows
<1>5. /\ u \in Seq(S) /\ Len(u) = Len(s) + Len(t) /\ Len(s) \in Nat /\ Len(t) \in Nat
  BY ConcatProperties
<1>6. t = SubSeq(u, q + 1, Len(u))
  <2>1. SubSeq(s \o t, q + 1, Len(s \o t)) = SubSeq(s, q + 1, Len(s)) \o t
    BY <1>2, RestGrows
  <2>2. SubSeq(s, q + 1, Len(s)) \in Seq(S) /\ Len(SubSeq(s, q + 1, Len(s))) = q - q
    BY <1>2, PartFacts
  <2>3. SubSeq(s, q + 1, Len(s)) = <<>>
    BY <1>2, <2>2
  <2>4. <<>> \o t = t
    OBVIOUS
  <2> QED BY <2>1, <2>3, <2>4
<1>7. \A k \in NewlinesOf(u) : k <= Len(s) => k \in NewlinesOf(s)
  BY LineExtends
<1> HIDE DEF u
<1>8. q \in 0 .. Len(u)
  BY <1>2, <1>5
<1> HIDE DEF q
<1>9. /\ j \in 1 .. Len(t) /\ i \in NewlinesOf(u) /\ i \in 1 .. Len(u)
      /\ \A k \in NewlinesOf(u) : k < i => k <= q
      /\ After(t, j) = SubSeq(u, i + 1, Len(u))
      /\ Len(After(t, j)) = Len(t) - j
  <2>1. FirstSplits(u, q, t, j)
    BY <1>5, <1>6, <1>8, RestNewline
  <2> HIDE DEF j
  <2> QED BY <2>1 DEF FirstSplits
<1>q. q = Len(s)
  BY DEF q
<1>10. j \in Nat /\ i = q + j /\ i \in Nat /\ 0 < j /\ j <= Len(t)
  <2>1. i = q + j
    OBVIOUS
  <2>2. j \in 1 .. Len(t) /\ Len(t) \in Nat /\ q \in Nat
    BY <1>2, <1>5, <1>9 DEF q
  <2> HIDE DEF j, i
  <2> QED BY <2>1, <2>2
<1> HIDE DEF j, i
<1>11. p < i
  BY <1>2, <1>10, <1>q
<1>12. \A k \in NewlinesOf(u) : k < i => k <= p
  BY <1>1, <1>7, <1>9, <1>q
<1>13. ~(Len(LineOf(u, i)) <= MaxLine)
  <2>1. LineOf(u, i) = SubSeq(u, p + 1, i - 1)
    BY <1>3, <1>5, <1>9, <1>11, <1>12, NextLine
  <2>2. i - 1 \in Nat /\ p <= i - 1 /\ i - 1 <= Len(u)
    BY <1>2, <1>5, <1>9, <1>10, <1>11
  <2>3. Len(LineOf(u, i)) = (i - 1) - p
    BY <1>2, <1>5, <2>1, <2>2, PartFacts
  <2>4. (i - 1) - p > MaxLine
    BY <1>1, <1>2, <1>10, <1>q
  <2> QED BY <1>2, <1>10, <2>3, <2>4
<1>14. Handed(u, i, lines)
  <2>1. p \in 0 .. Len(u)
    BY <1>2, <1>5
  <2> QED BY <1>4, <1>5, <1>9, <1>11, <1>12, <1>13, <2>1, HandedSkips
<1>15. SplitUpTo(u, i, lines, Resync(t))
  BY <1>9, <1>14 DEF SplitUpTo, Resync, j
<1>16. Len(Resync(t)) <= Len(t)
  <2>1. Len(Resync(t)) = Len(t) - j
    BY <1>9 DEF Resync, j
  <2> QED BY <1>5, <1>10, <2>1
<1> QED BY <1>10, <1>15, <1>16 DEF u

\* One turn of the loop.
LEMMA Takes ==
  ASSUME NEW S, S \subseteq Char, NEW s \in Seq(S), InOrder(s), NEW p, NEW lines \in Seq(Seq(S)),
         NEW rest, SplitUpTo(s, p, lines, rest), NewlinesOf(rest) # {}
  PROVE  LET j == FirstNewline(rest)
             line == SubSeq(rest, 1, j - 1)
         IN  /\ line \in Seq(S) /\ Len(line) < Len(rest)
             /\ After(rest, j) \in Seq(S) /\ Len(After(rest, j)) < Len(rest)
             /\ IsBlank(line) => \E i \in Nat : SplitUpTo(s, i, lines, After(rest, j))
             /\ ~IsBlank(line) => \E i \in Nat : SplitUpTo(s, i, Append(lines, line), After(rest, j))
<1> DEFINE j == FirstNewline(rest)
           line == SubSeq(rest, 1, j - 1)
           i == p + j
<1>1. p \in {0} \cup NewlinesOf(s) /\ Handed(s, p, lines) /\ rest = SubSeq(s, p + 1, Len(s))
  BY DEF SplitUpTo
<1>2. p \in Nat /\ p \in 0 .. Len(s) /\ Len(s) \in Nat /\ p <= Len(s)
  BY <1>1, PlaceFacts
<1>3. rest \in Seq(S) /\ Len(rest) = Len(s) - p /\ Len(rest) \in Nat
  BY <1>1, <1>2, PartFacts
<1>j. FirstSplits(s, p, rest, j) /\ line \in Seq(S)
  BY <1>1, <1>2, RestNewline
<1> HIDE DEF j
<1>4. /\ j \in 1 .. Len(rest) /\ i \in NewlinesOf(s) /\ i \in 1 .. Len(s)
      /\ \A k \in NewlinesOf(s) : k < i => k <= p
      /\ line = SubSeq(s, p + 1, i - 1)
      /\ After(rest, j) = SubSeq(s, i + 1, Len(s))
      /\ line \in Seq(S) /\ Len(line) = j - 1
      /\ Len(After(rest, j)) = Len(rest) - j
  BY <1>j DEF FirstSplits
<1> HIDE DEF line
<1>5. j \in Nat /\ 0 < j /\ i = p + j /\ i \in Nat /\ p < i
  BY <1>2, <1>3, <1>4
<1> HIDE DEF i
<1>6. line = LineOf(s, i)
  BY <1>1, <1>4, <1>5, NextLine
<1>7. Len(line) < Len(rest) /\ Len(After(rest, j)) < Len(rest)
  <2>1. Len(line) = j - 1 /\ Len(After(rest, j)) = Len(rest) - j /\ j <= Len(rest)
    BY <1>3, <1>4
  <2> QED BY <1>3, <1>5, <2>1
<1>8. After(rest, j) \in Seq(S)
  <2>1. i <= Len(s) /\ Len(s) <= Len(s)
    BY <1>2, <1>4
  <2>2. SubSeq(s, i + 1, Len(s)) \in Seq(S)
    BY <1>2, <1>5, <2>1, PartFacts
  <2> QED BY <1>4, <2>2
<1>9. ASSUME IsBlank(line) PROVE SplitUpTo(s, i, lines, After(rest, j))
  <2>1. Handed(s, i, lines)
    BY <1>1, <1>2, <1>4, <1>5, <1>6, <1>9, HandedSkips
  <2> QED BY <1>4, <2>1 DEF SplitUpTo
<1>10. ASSUME ~IsBlank(line) PROVE SplitUpTo(s, i, Append(lines, line), After(rest, j))
  <2>1. Handed(s, i, Append(lines, line))
    BY <1>1, <1>4, <1>5, <1>6, <1>10, HandedOn
  <2> QED BY <1>4, <2>1 DEF SplitUpTo
<1> QED BY <1>4, <1>5, <1>7, <1>8, <1>9, <1>10 DEF j, line

\* The end of push, when what is left is too long.
LEMMA Drops ==
  ASSUME NEW S, NEW s \in Seq(S), NEW p, NEW lines, NEW rest, MaxLine \in Nat,
         SplitUpTo(s, p, lines, rest), NewlinesOf(rest) = {}, TooLong(rest)
  PROVE  Discarding(s, p, lines)
<1>1. p \in {0} \cup NewlinesOf(s) /\ Handed(s, p, lines) /\ rest = SubSeq(s, p + 1, Len(s))
  BY DEF SplitUpTo
<1>2. p \in Nat /\ Len(s) \in Nat /\ p <= Len(s)
  BY <1>1, PlaceFacts
<1>3. rest \in Seq(S) /\ Len(rest) = Len(s) - p /\ \A k \in 1 .. Len(s) - p : rest[k] = s[p + k]
  BY <1>1, <1>2, PartFacts
<1>4. Len(s) - p > MaxLine
  BY <1>3 DEF TooLong
<1>5. ASSUME NEW i \in NewlinesOf(s) PROVE i <= p
  <2> SUFFICES ASSUME ~(i <= p) PROVE FALSE
    OBVIOUS
  <2>1. i \in 1 .. Len(s) /\ s[i].c = "n"
    BY NewlineFacts
  <2>2. i - p \in 1 .. Len(s) - p /\ p + (i - p) = i
    BY <1>2, <2>1
  <2>3. rest[i - p] = s[p + (i - p)]
    BY <1>3, <2>2
  <2>4. rest[i - p].c = "n" /\ i - p \in 1 .. Len(rest)
    BY <1>3, <2>1, <2>2, <2>3
  <2>5. i - p \in NewlinesOf(rest)
    BY <1>3, <2>4, NewlineFacts
  <2> QED BY <2>5
<1> QED BY <1>1, <1>4, <1>5 DEF Discarding

\* The bounds are numbers.
LEMMA Bounds == MaxLine \in Nat /\ MaxChunk \in Nat /\ MaxBytes \in Nat /\ MaxThrows \in Nat
BY BoundsAssumption

\* The text of a stream within the bound.
LEMMA TextFacts ==
  ASSUME NEW bs \in Seq(Bytes), NEW n \in Nat, n + Len(bs) <= MaxBytes
  PROVE  /\ Decoded(bs, n) \in Seq(Char) /\ InOrder(Decoded(bs, n))
         /\ Len(Decoded(bs, n)) <= Len(bs) /\ Len(Decoded(bs, n)) \in Nat
<1>1. /\ Decoded(bs, n) \in Seq(CharsIn(n, n + Len(bs))) /\ Len(Decoded(bs, n)) <= Len(bs)
      /\ InOrder(Decoded(bs, n))
  BY DecodedFacts
<1>2. CharsIn(n, n + Len(bs)) \subseteq Char
  <2>1. Len(bs) \in Nat /\ MaxBytes \in Nat
    BY Bounds
  <2>2. n + 1 .. n + Len(bs) \subseteq 1 .. MaxBytes
    BY <2>1
  <2> QED BY <2>2 DEF CharsIn, Char
<1>3. Decoded(bs, n) \in Seq(Char)
  BY <1>1, <1>2, LargerSeq
<1> QED BY <1>1, <1>3

\* A chunk has a byte at least.
LEMMA ChunkFacts ==
  ASSUME NEW chunk \in Chunks
  PROVE  chunk \in Seq(Bytes) /\ Len(chunk) \in Nat /\ Len(chunk) >= 1 /\ Len(chunk) <= MaxChunk
<1>1. PICK k \in 1 .. MaxChunk : chunk \in [1 .. k -> Bytes]
  BY DEF Chunks
<1>2. k \in Nat /\ k >= 1 /\ k <= MaxChunk
  BY <1>1, Bounds
<1>3. chunk \in Seq(Bytes) /\ Len(chunk) = k
  BY <1>1, <1>2
<1> QED BY <1>2, <1>3

\* Nothing has been sent, and nothing split.
LEMMA InitFramer == Init => FramerInv
<1> SUFFICES ASSUME Init PROVE FramerInv
  OBVIOUS
<1>1. /\ sent = <<>> /\ held = <<>> /\ buf = <<>> /\ overflow = FALSE
      /\ emitted = <<>> /\ pc = "idle" /\ threw = FALSE /\ throws = 0
  BY DEF Init
<1>2. Text \in Seq(Char) /\ Len(Text) = 0
  <2>1. sent \in Seq(Bytes) /\ Len(sent) = 0
    BY <1>1
  <2>2. Text \in Seq(Char) /\ Len(Text) <= Len(sent) /\ Len(Text) \in Nat
    <3>1. 0 \in Nat /\ 0 + Len(sent) <= MaxBytes
      BY <2>1, Bounds
    <3> QED BY <2>1, <3>1, TextFacts DEF Text
  <2> QED BY <2>1, <2>2
<1>3. Text = <<>>
  BY <1>2
<1>4. NewlinesOf(<<>>) = {}
  BY DEF NewlinesOf
<1>5. SplitUpTo(Text, 0, emitted, buf)
  <2>1. Handed(Text, 0, emitted)
    BY <1>1, <1>3, <1>4 DEF Handed
  <2>2. SubSeq(Text, 0 + 1, Len(Text)) = <<>>
    BY <1>2, <1>3
  <2> QED BY <1>1, <2>1, <2>2 DEF SplitUpTo
<1>6. TypeOK
  <2>1. \A S : <<>> \in Seq(S) /\ Len(<<>>) = 0
    OBVIOUS
  <2>2. sent \in Seq(Bytes) /\ Len(sent) = 0 /\ buf \in Seq(Char) /\ emitted \in Seq(Seq(Char))
    BY <1>1, <2>1
  <2>3. throws \in 0 .. MaxThrows /\ Len(sent) <= MaxBytes
    BY <1>1, <2>2, Bounds
  <2> QED BY <1>1, <2>2, <2>3 DEF TypeOK
<1>7. throws = 0 => ~threw /\ Bounded
  BY <1>1, Bounds DEF Bounded
<1>8. ~overflow => \E p \in 0 .. Len(Text) : SplitUpTo(Text, p, emitted, buf)
  BY <1>2, <1>5
<1> QED BY <1>1, <1>4, <1>6, <1>7, <1>8 DEF FramerInv

\* What a chunk adds to the text.
LEMMA PushStep ==
  ASSUME FramerInv, PushSome
  PROVE  FramerInv'
<1>1. PICK chunk \in Chunks : Len(sent) + Len(chunk) <= MaxBytes /\ Push(chunk) /\ pc = "idle"
  BY DEF PushSome
<1>2. chunk \in Seq(Bytes) /\ Len(chunk) \in Nat /\ Len(chunk) >= 1 /\ Len(chunk) <= MaxChunk
  BY ChunkFacts
<1>t. TypeOK
  BY DEF FramerInv
<1>3. /\ sent \in Seq(Bytes) /\ Len(sent) \in Nat /\ Len(sent) <= MaxBytes
      /\ buf \in Seq(Char) /\ overflow \in BOOLEAN
  BY <1>t DEF TypeOK
<1> DEFINE s == Text
           d == Decode(chunk)
<1>4. d \in Seq(Char) /\ Len(d) \in Nat /\ Len(d) <= MaxChunk
  <2>1. d \in Seq(Char) /\ Len(d) \in Nat /\ Len(d) <= Len(chunk)
    BY <1>1, <1>2, <1>3, TextFacts DEF Decode
  <2> QED BY <1>2, <2>1, Bounds
<1>5. s \in Seq(Char) /\ InOrder(s) /\ Len(s) \in Nat
  BY <1>3, TextFacts DEF Text
<1>6. /\ sent' = sent \o chunk /\ emitted' = emitted /\ threw' = threw /\ throws' = throws
      /\ held' = IF Last(chunk) = "h" THEN <<"h">> ELSE <<>>
  BY <1>1 DEF Push
<1>7. Text' = s \o d
  <2>1. Decoded(sent \o chunk, 0) = Decoded(sent, 0) \o Decoded(chunk, Len(sent))
    BY <1>2, <1>3, DecodedTwice
  <2> QED BY <1>6, <2>1 DEF Text, Decode
<1>8. /\ Len(s \o d) = Len(s) + Len(d) /\ s \o d \in Seq(Char)
  BY <1>4, <1>5
<1>9. /\ sent' \in Seq(Bytes) /\ Len(sent') <= MaxBytes /\ held' \in {<<>>, <<"h">>}
  BY <1>1, <1>2, <1>3, <1>6
<1>10. IF overflow /\ NewlinesOf(d) = {}
       THEN buf' = buf /\ overflow' = overflow /\ pc' = pc
       ELSE /\ buf' = IF overflow THEN Resync(d) ELSE buf \o d
            /\ overflow' = FALSE /\ pc' = "split"
  BY <1>1 DEF Push
<1> HIDE DEF s, d
<1>11. CASE overflow /\ NewlinesOf(d) = {}
  <2>1. buf' = buf /\ overflow' = overflow /\ pc' = pc
    BY <1>10, <1>11
  <2>2. TypeOK'
    BY <1>6, <1>9, <1>t, <2>1 DEF TypeOK
  <2>3. PICK p \in 0 .. Len(s) : Discarding(s, p, emitted) /\ buf = <<>>
    BY <1>11 DEF FramerInv, s
  <2>4. Discarding(s \o d, p, emitted)
    BY <1>4, <1>5, <1>11, <2>3, Bounds, DiscardsMore
  <2>5. p \in 0 .. Len(s \o d)
    BY <1>4, <1>5, <1>8, <2>3
  <2>6. \E i \in 0 .. Len(Text') : Discarding(Text', i, emitted')
    BY <1>6, <1>7, <2>4, <2>5
  <2>7. throws = 0 => ~threw /\ Bounded
    BY DEF FramerInv
  <2>8. throws' = 0 => ~threw' /\ Bounded'
    BY <1>6, <2>1, <2>7 DEF Bounded
  <2>9. /\ overflow => pc = "idle" /\ ~threw
        /\ pc = "idle" /\ ~threw => NewlinesOf(buf) = {}
    BY DEF FramerInv
  <2>10. /\ overflow' => pc' = "idle" /\ ~threw'
         /\ pc' = "idle" /\ ~threw' => NewlinesOf(buf') = {}
    BY <1>6, <2>1, <2>9
  <2>11. overflow' => buf' = <<>> /\ \E i \in 0 .. Len(Text') : Discarding(Text', i, emitted')
    BY <2>1, <2>3, <2>6
  <2>12. overflow'
    BY <1>11, <2>1
  <2> QED BY <2>2, <2>8, <2>10, <2>11, <2>12 DEF FramerInv
<1>12. CASE ~(overflow /\ NewlinesOf(d) = {})
  <2>1. /\ buf' = IF overflow THEN Resync(d) ELSE buf \o d
        /\ overflow' = FALSE /\ pc' = "split"
    BY <1>10, <1>12
  <2>2. /\ \E i \in Nat : SplitUpTo(s \o d, i, emitted, buf')
        /\ throws = 0 => Len(buf') <= MaxLine + MaxChunk
    <3>1. CASE overflow
      <4>1. PICK p \in 0 .. Len(s) : Discarding(s, p, emitted)
        BY <3>1 DEF FramerInv, s
      <4>2. /\ \E i \in Nat : SplitUpTo(s \o d, i, emitted, Resync(d))
            /\ Len(Resync(d)) <= Len(d)
        BY <1>4, <1>5, <1>12, <3>1, <4>1, Bounds, Resyncs
      <4>3. buf' = Resync(d)
        BY <2>1, <3>1
      <4>4. PICK i \in Nat : SplitUpTo(s \o d, i, emitted, buf')
        BY <4>2, <4>3
      <4>5. Len(buf') \in Nat
        <5>1. i \in {0} \cup NewlinesOf(s \o d) /\ buf' = SubSeq(s \o d, i + 1, Len(s \o d))
          BY <4>4 DEF SplitUpTo
        <5>2. i \in Nat /\ Len(s \o d) \in Nat /\ i <= Len(s \o d)
          BY <1>8, <5>1, PlaceFacts
        <5>3. buf' \in Seq(Char)
          BY <1>8, <5>1, <5>2, PartFacts
        <5> QED BY <5>3
      <4>6. Len(buf') <= MaxLine + MaxChunk
        BY <1>4, <4>2, <4>3, <4>5, Bounds
      <4> QED BY <4>4, <4>6
    <3>2. CASE ~overflow
      <4>1. PICK p \in 0 .. Len(s) : SplitUpTo(s, p, emitted, buf)
        BY <3>2 DEF FramerInv, s
      <4>2. SplitUpTo(s \o d, p, emitted, buf \o d)
        BY <1>4, <1>5, <4>1, SplitGrows
      <4>3. buf' = buf \o d /\ p \in Nat
        BY <1>5, <2>1, <3>2
      <4>4. throws = 0 => Len(buf) <= MaxLine
        BY <1>1 DEF FramerInv, Bounded
      <4>5. Len(buf \o d) = Len(buf) + Len(d) /\ Len(buf) \in Nat
        BY <1>3, <1>4
      <4>6. throws = 0 => Len(buf') <= MaxLine + MaxChunk
        BY <1>4, <4>3, <4>4, <4>5, Bounds
      <4> QED BY <4>2, <4>3, <4>6
    <3> QED BY <3>1, <3>2
  <2>3. PICK p \in Nat : SplitUpTo(s \o d, p, emitted, buf')
    BY <2>2
  <2>4. p \in 0 .. Len(s \o d) /\ buf' \in Seq(Char)
    <3>1. p \in {0} \cup NewlinesOf(s \o d) /\ buf' = SubSeq(s \o d, p + 1, Len(s \o d))
      BY <2>3 DEF SplitUpTo
    <3>2. p \in Nat /\ Len(s \o d) \in Nat /\ p <= Len(s \o d) /\ p \in 0 .. Len(s \o d)
      BY <1>8, <3>1, PlaceFacts
    <3>3. buf' \in Seq(Char)
      BY <1>8, <3>1, <3>2, PartFacts
    <3> QED BY <3>2, <3>3
  <2>5. \E i \in 0 .. Len(Text') : SplitUpTo(Text', i, emitted', buf')
    BY <1>6, <1>7, <2>3, <2>4
  <2>6. TypeOK'
    BY <1>6, <1>9, <1>t, <2>1, <2>4 DEF TypeOK
  <2>7. throws = 0 => ~threw /\ Bounded
    BY DEF FramerInv
  <2>8. throws' = 0 => ~threw' /\ Bounded'
    BY <1>6, <2>1, <2>2, <2>7 DEF Bounded
  <2> QED BY <2>1, <2>5, <2>6, <2>8 DEF FramerInv
<1> QED BY <1>11, <1>12

\* The loop hands on a line, or drops it for being too long, or throws.
LEMMA TakeStep ==
  ASSUME FramerInv, TakeLine
  PROVE  FramerInv'
<1> DEFINE s == Text
           j == FirstNewline(buf)
           line == SubSeq(buf, 1, j - 1)
<1>t. TypeOK
  BY DEF FramerInv
<1>1. /\ pc = "split" /\ NewlinesOf(buf) # {}
      /\ IF IsBlank(line)
         THEN emitted' = emitted /\ pc' = pc /\ threw' = threw /\ throws' = throws
         ELSE /\ emitted' = Append(emitted, line)
              /\ \/ pc' = pc /\ threw' = threw /\ throws' = throws
                 \/ /\ throws < MaxThrows
                    /\ pc' = "idle" /\ threw' = TRUE /\ throws' = throws + 1
      /\ buf' = After(buf, j)
      /\ sent' = sent /\ held' = held /\ overflow' = overflow
  BY DEF TakeLine
<1>2. /\ sent \in Seq(Bytes) /\ Len(sent) \in Nat /\ Len(sent) <= MaxBytes
      /\ buf \in Seq(Char) /\ emitted \in Seq(Seq(Char)) /\ throws \in 0 .. MaxThrows /\ throws \in Nat
      /\ Len(buf) \in Nat
  BY <1>t DEF TypeOK
<1>3. s \in Seq(Char) /\ InOrder(s) /\ Len(s) \in Nat
  BY <1>2, TextFacts DEF Text
<1>4. Text' = s
  BY <1>1 DEF Text
<1>5. ~overflow
  BY <1>1 DEF FramerInv
<1>6. PICK p \in 0 .. Len(s) : SplitUpTo(s, p, emitted, buf)
  BY <1>5 DEF FramerInv
<1>7. /\ line \in Seq(Char) /\ Len(line) < Len(buf)
      /\ After(buf, j) \in Seq(Char) /\ Len(After(buf, j)) < Len(buf)
      /\ IsBlank(line) => \E i \in Nat : SplitUpTo(s, i, emitted, After(buf, j))
      /\ ~IsBlank(line) => \E i \in Nat : SplitUpTo(s, i, Append(emitted, line), After(buf, j))
  <2> HIDE DEF s
  <2> QED BY <1>1, <1>2, <1>3, <1>6, Takes
<1> HIDE DEF s, line, j
<1>8. PICK i \in Nat : SplitUpTo(s, i, emitted', buf')
  BY <1>1, <1>7
<1>9. i \in 0 .. Len(s)
  <2>1. i \in {0} \cup NewlinesOf(s)
    BY <1>8 DEF SplitUpTo
  <2> QED BY <1>3, <2>1, PlaceFacts
<1>10. \E q \in 0 .. Len(Text') : SplitUpTo(Text', q, emitted', buf')
  BY <1>4, <1>8, <1>9
<1>11. emitted' \in Seq(Seq(Char)) /\ buf' \in Seq(Char)
  <2>1. Append(emitted, line) \in Seq(Seq(Char))
    BY <1>2, <1>7, AppendProperties
  <2> QED BY <1>1, <1>2, <1>7, <2>1
<1>12. throws' \in 0 .. MaxThrows /\ pc' \in {"idle", "split"} /\ threw' \in BOOLEAN
  <2>1. CASE pc' = pc /\ threw' = threw /\ throws' = throws
    BY <1>t, <2>1 DEF TypeOK
  <2>2. CASE throws < MaxThrows /\ pc' = "idle" /\ threw' = TRUE /\ throws' = throws + 1
    <3>1. throws' \in 0 .. MaxThrows
      BY <1>2, <2>2, Bounds
    <3> QED BY <2>2, <3>1
  <2> QED BY <1>1, <2>1, <2>2
<1>13. TypeOK'
  BY <1>1, <1>11, <1>12, <1>t DEF TypeOK
<1>14. /\ overflow' => pc' = "idle" /\ ~threw'
       /\ pc' = "idle" /\ ~threw' => NewlinesOf(buf') = {}
  BY <1>1, <1>5
<1>15. throws' = 0 => ~threw' /\ Bounded'
  <2> SUFFICES ASSUME throws' = 0 PROVE ~threw' /\ Bounded'
    OBVIOUS
  <2>1. throws = 0 /\ pc' = pc /\ threw' = threw
    BY <1>1, <1>2
  <2>2. ~threw /\ Bounded
    BY <2>1 DEF FramerInv
  <2>3. Len(buf) <= MaxLine + MaxChunk /\ \A k \in DOMAIN emitted : Len(emitted[k]) < MaxLine + MaxChunk
    BY <1>1, <2>2 DEF Bounded
  <2>4. Len(buf') \in Nat /\ Len(line) \in Nat
    BY <1>7, <1>11
  <2>5. Len(buf') <= MaxLine + MaxChunk /\ Len(line) < MaxLine + MaxChunk
    BY <1>1, <1>2, <1>7, <2>3, <2>4, Bounds
  <2>6. \A k \in DOMAIN emitted' : Len(emitted'[k]) < MaxLine + MaxChunk
    <3>1. CASE emitted' = emitted
      BY <2>3, <3>1
    <3>2. CASE emitted' = Append(emitted, line)
      <4>1. \A k \in DOMAIN emitted' :
               (k \in DOMAIN emitted /\ emitted'[k] = emitted[k]) \/ emitted'[k] = line
        <5>1. /\ DOMAIN emitted = 1 .. Len(emitted) /\ Len(emitted) \in Nat
              /\ Len(emitted') = Len(emitted) + 1 /\ DOMAIN emitted' = 1 .. Len(emitted) + 1
              /\ \A k \in 1 .. Len(emitted) : emitted'[k] = emitted[k]
              /\ emitted'[Len(emitted) + 1] = line
          BY <1>2, <1>7, <3>2, AppendProperties
        <5> QED BY <5>1
      <4> QED BY <2>3, <2>5, <4>1
    <3> QED BY <1>1, <3>1, <3>2
  <2> QED BY <1>1, <2>1, <2>2, <2>5, <2>6 DEF Bounded
<1> QED BY <1>1, <1>5, <1>10, <1>13, <1>14, <1>15 DEF FramerInv

\* The loop ends: what is left stays, unless it is too long already.
LEMMA EndStep ==
  ASSUME FramerInv, EndPush
  PROVE  FramerInv'
<1> DEFINE s == Text
<1>t. TypeOK
  BY DEF FramerInv
<1>1. /\ pc = "split" /\ NewlinesOf(buf) = {}
      /\ pc' = "idle" /\ threw' = FALSE
      /\ IF TooLong(buf)
         THEN overflow' = TRUE /\ buf' = <<>>
         ELSE overflow' = overflow /\ buf' = buf
      /\ sent' = sent /\ held' = held /\ emitted' = emitted /\ throws' = throws
  BY DEF EndPush
<1>2. /\ sent \in Seq(Bytes) /\ Len(sent) \in Nat /\ Len(sent) <= MaxBytes
      /\ buf \in Seq(Char) /\ Len(buf) \in Nat
  BY <1>t DEF TypeOK
<1>3. s \in Seq(Char) /\ Len(s) \in Nat
  BY <1>2, TextFacts DEF Text
<1>4. Text' = s
  BY <1>1 DEF Text
<1>5. ~overflow
  BY <1>1 DEF FramerInv
<1>6. PICK p \in 0 .. Len(s) : SplitUpTo(s, p, emitted, buf)
  BY <1>5 DEF FramerInv
<1> HIDE DEF s
<1>7. NewlinesOf(buf') = {}
  BY <1>1 DEF NewlinesOf
<1>8. TypeOK'
  <2>1. buf' \in Seq(Char) /\ overflow' \in BOOLEAN
    <3>1. <<>> \in Seq(Char)
      OBVIOUS
    <3> QED BY <1>1, <1>2, <1>t, <3>1 DEF TypeOK
  <2> QED BY <1>1, <1>t, <2>1 DEF TypeOK
<1>9. throws' = 0 => ~threw' /\ Bounded'
  <2> SUFFICES ASSUME throws = 0 PROVE ~threw' /\ Bounded'
    BY <1>1
  <2>1. \A k \in DOMAIN emitted : Len(emitted[k]) < MaxLine + MaxChunk
    BY DEF FramerInv, Bounded
  <2>2. Len(buf') <= MaxLine
    <3>1. CASE TooLong(buf)
      <4>1. buf' = <<>>
        BY <1>1, <3>1
      <4> QED BY <4>1, Bounds
    <3>2. CASE ~TooLong(buf)
      <4>1. buf' = buf
        BY <1>1, <3>2
      <4> QED BY <1>2, <3>2, <4>1, Bounds DEF TooLong
    <3> QED BY <3>1, <3>2
  <2> QED BY <1>1, <2>1, <2>2 DEF Bounded
<1>10. CASE TooLong(buf)
  <2>1. Discarding(s, p, emitted)
    BY <1>1, <1>3, <1>6, <1>10, Bounds, Drops
  <2>2. \E i \in 0 .. Len(Text') : Discarding(Text', i, emitted')
    BY <1>1, <1>4, <1>6, <2>1
  <2>3. overflow' /\ buf' = <<>>
    BY <1>1, <1>10
  <2> QED BY <1>1, <1>7, <1>8, <1>9, <2>2, <2>3 DEF FramerInv
<1>11. CASE ~TooLong(buf)
  <2>1. ~overflow' /\ buf' = buf
    BY <1>1, <1>5, <1>11
  <2>2. \E i \in 0 .. Len(Text') : SplitUpTo(Text', i, emitted', buf')
    BY <1>1, <1>4, <1>6, <2>1
  <2> QED BY <1>1, <1>7, <1>8, <1>9, <2>1, <2>2 DEF FramerInv
<1> QED BY <1>10, <1>11

\* FramerInv is inductive,
LEMMA NextFramer == FramerInv /\ [Next]_vars => FramerInv'
<1> SUFFICES ASSUME FramerInv, [Next]_vars PROVE FramerInv'
  OBVIOUS
<1>1. CASE PushSome
  BY <1>1, PushStep
<1>2. CASE TakeLine
  BY <1>2, TakeStep
<1>3. CASE EndPush
  BY <1>3, EndStep
<1>4. CASE UNCHANGED vars
  BY <1>4 DEF vars, FramerInv, TypeOK, Bounded, Text
<1> QED BY <1>1, <1>2, <1>3, <1>4 DEF Next, Finished

\* and says what the run checks.
LEMMA FramerImplies == FramerInv => LinesInv
<1> SUFFICES ASSUME FramerInv PROVE LinesInv
  OBVIOUS
<1> DEFINE s == Text
<1>t. TypeOK
  BY DEF FramerInv
<1>1. sent \in Seq(Bytes) /\ Len(sent) \in Nat /\ Len(sent) <= MaxBytes /\ pc \in {"idle", "split"}
  BY <1>t DEF TypeOK
<1>2. s \in Seq(Char) /\ InOrder(s) /\ Len(s) \in Nat
  BY <1>1, TextFacts DEF Text
<1>3. Lines = {LineOf(s, i) : i \in NewlinesOf(s)}
  BY DEF Lines, LineBefore, LineOf, StartOf, Breaks
<1>4. PICK p \in 0 .. Len(s) :
        /\ p \in {0} \cup NewlinesOf(s) /\ Handed(s, p, emitted)
        /\ ~overflow => buf = SubSeq(s, p + 1, Len(s))
        /\ overflow => \A i \in NewlinesOf(s) : i <= p
  <2>1. CASE overflow
    <3>1. PICK p \in 0 .. Len(s) : Discarding(s, p, emitted)
      BY <2>1 DEF FramerInv
    <3> HIDE DEF s
    <3> QED BY <2>1, <3>1 DEF Discarding
  <2>2. CASE ~overflow
    <3>1. PICK p \in 0 .. Len(s) : SplitUpTo(s, p, emitted, buf)
      BY <2>2 DEF FramerInv
    <3> HIDE DEF s
    <3> QED BY <2>2, <3>1 DEF SplitUpTo
  <2> QED BY <2>1, <2>2
<1> HIDE DEF s
<1>5. EmittedAreLines
  <2>1. ASSUME NEW k \in DOMAIN emitted PROVE emitted[k] \in Lines
    <3>1. PICK i \in NewlinesOf(s) : emitted[k] = LineOf(s, i)
      BY <1>4 DEF Handed
    <3> QED BY <1>3, <3>1
  <2>2. \A j, k \in DOMAIN emitted : j < k => Last(emitted[j]).at < Head(emitted[k]).at
    BY <1>4 DEF Handed
  <2> QED BY <2>1, <2>2 DEF EmittedAreLines
<1>6. NoShortLineLost
  <2> SUFFICES ASSUME pc = "idle", NEW line \in Lines, Len(line) <= MaxLine, ~IsBlank(line)
               PROVE  \/ \E k \in DOMAIN emitted : emitted[k] = line
                      \/ threw /\ \E i \in DOMAIN buf : buf[i] = Last(line)
    BY DEF NoShortLineLost
  <2>1. PICK i \in NewlinesOf(s) : line = LineOf(s, i)
    BY <1>3
  <2>2. CASE i <= p
    BY <1>4, <2>1, <2>2 DEF Handed
  <2>3. CASE ~(i <= p)
    <3>1. ~overflow /\ buf = SubSeq(s, p + 1, Len(s))
      BY <1>4, <2>3
    <3>2. p \in Nat /\ p <= Len(s) /\ i \in Nat /\ i \in 1 .. Len(s) /\ p < i
      BY <1>2, <2>3, NewlineFacts
    <3>3. buf \in Seq(Char) /\ Len(buf) = Len(s) - p /\ \A k \in 1 .. Len(s) - p : buf[k] = s[p + k]
      BY <1>2, <3>1, <3>2, PartFacts
    <3>4. DOMAIN buf = 1 .. Len(s) - p
      BY <3>3
    <3>5. threw
      <4>1. s[i].c = "n"
        BY <1>2, NewlineFacts
      <4>2. i - p \in 1 .. Len(s) - p /\ p + (i - p) = i
        BY <1>2, <3>2
      <4>3. buf[i - p].c = "n"
        BY <3>3, <4>1, <4>2
      <4>4. i - p \in NewlinesOf(buf)
        BY <3>4, <4>2, <4>3 DEF NewlinesOf
      <4> QED BY <4>4 DEF FramerInv
    <3>6. /\ i - 1 \in 1 .. Len(s) /\ Last(LineOf(s, i)) = s[i - 1]
          /\ \A b \in {0} \cup NewlinesOf(s) : b < i => b < i - 1
      <4>1. ~IsBlank(LineOf(s, i))
        BY <2>1
      <4> QED BY <1>2, <4>1, LineEnds
    <3>7. p < i - 1
      BY <1>4, <3>2, <3>6
    <3>8. (i - 1) - p \in 1 .. Len(s) - p /\ p + ((i - 1) - p) = i - 1
      BY <1>2, <3>2, <3>6, <3>7
    <3>9. buf[(i - 1) - p] = s[i - 1]
      BY <3>3, <3>8
    <3> QED BY <2>1, <3>4, <3>5, <3>6, <3>8, <3>9
  <2> QED BY <2>2, <2>3
<1>7. BufferIsCapped
  BY DEF FramerInv, Bounded, BufferIsCapped
<1> QED BY <1>t, <1>5, <1>6, <1>7 DEF LinesInv

\* However the stream is cut into chunks, and if a consumer throws, the lines
\* handed on are lines of the stream, each once and in its order; all of the stream
\* that is not blank and not too long has been handed on or is in buf; and with no
\* exception the buffer is capped (LineFramer in src/framing.ts).
THEOREM LinesAreTheStreams == Spec => []LinesInv
<1>1. Init => FramerInv
  BY InitFramer
<1>2. FramerInv /\ [Next]_vars => FramerInv'
  BY NextFramer
<1>3. FramerInv => LinesInv
  BY FramerImplies
<1> QED BY <1>1, <1>2, <1>3, PTL DEF Spec

-----------------------------------------------------------------------------
(* Classifier: the scanner, one character at a time.                       *)

\* Characters.  (The provers do not know that these are strings.)
Alphabet == STRING \cup {"quote", "{", "[", "}", "]", ":", ",", "null", "number"}

\* A name or a string, as JSON writes it.
LEMMA Texts ==
  ASSUME NEW t \in Keys \cup Strings
  PROVE  t \in Seq(Alphabet) /\ Json!IsJsonText(t)
<1>1. t \in Seq(STRING) /\ Json!IsJsonText(t)
  BY JsonAssumption DEF Json!TextsAreJson
<1>2. STRING \subseteq Alphabet
  BY DEF Alphabet
<1> QED BY <1>1, <1>2, LargerSeq

\* Of the scanner's locals.
Value == Json!Values \cup {Json!NoValue}

Scan == [object : BOOLEAN, array : BOOLEAN, first : BOOLEAN, over : BOOLEAN,
         has : SUBSET Json!Known, idNull : BOOLEAN, method : Value,
         depth : Int, inStr : BOOLEAN, esc : BOOLEAN, expectKey : BOOLEAN,
         reading : BOOLEAN, key : Seq(Alphabet), pendingKey : Json!Known \cup {Json!None}]

\* The scanner at another depth is a scanner.
LEMMA DepthType ==
  ASSUME NEW s \in Scan, NEW d \in Int
  PROVE  [s EXCEPT !.depth = d] \in Scan
BY DEF Scan

\* The scanner stays a scanner.
LEMMA ScanType ==
  ASSUME NEW s \in Scan, NEW c \in Alphabet, NEW v \in Value
  PROVE  Json!ScanChar(s, c, v) \in Scan
<1>1. Append(s.key, c) \in Seq(Alphabet) /\ <<>> \in Seq(Alphabet)
  BY AppendProperties DEF Scan
<1>2. Json!Grow(s, c) \in Seq(Alphabet)
  BY <1>1 DEF Json!Grow, Scan
<1>3. Json!ScanFirst(s, c) \in Scan
  <2>1. CASE c = "{"
    <3> DEFINE r == [s EXCEPT !.first = FALSE, !.object = TRUE]
    <3>1. Json!ScanFirst(s, c) = [[r EXCEPT !.depth = 1] EXCEPT !.expectKey = TRUE]
      BY <2>1 DEF Json!ScanFirst
    <3>2. r \in Scan
      BY DEF Scan
    <3> HIDE DEF r
    <3> DEFINE q == [r EXCEPT !.depth = 1]
    <3>3. q \in Scan
      BY <3>2, DepthType
    <3> HIDE DEF q
    <3>4. [q EXCEPT !.expectKey = TRUE] \in Scan
      BY <3>3 DEF Scan
    <3> QED BY <3>1, <3>4 DEF q
  <2>2. CASE c = "["
    <3>1. Json!ScanFirst(s, c) = [s EXCEPT !.first = FALSE, !.array = TRUE, !.over = TRUE]
      BY <2>2 DEF Json!ScanFirst
    <3> QED BY <3>1 DEF Scan
  <2>3. CASE c \notin {"{", "["}
    <3>1. Json!ScanFirst(s, c) = [s EXCEPT !.first = FALSE, !.over = TRUE]
      BY <2>3 DEF Json!ScanFirst
    <3> QED BY <3>1 DEF Scan
  <2> QED BY <2>1, <2>2, <2>3
<1>4. Json!ScanInString(s, c) \in Scan
  <2>1. Json!Recognize(s.key) \in Json!Known \cup {Json!None}
    BY DEF Json!Recognize
  <2>2. Json!EndString(s) \in Scan
    <3> DEFINE name == Json!Recognize(s.key)
    <3>1. s.has \cup ({name} \ {Json!None}) \in SUBSET Json!Known
      BY <2>1 DEF Scan
    <3> HIDE DEF name
    <3>2. name \in Json!Known \cup {Json!None}
      BY <2>1 DEF name
    <3> QED BY <1>1, <3>1, <3>2 DEF Json!EndString, Scan, name
  <2> QED BY <1>2, <2>2 DEF Json!ScanInString, Scan
<1>5. Json!ScanPlain(s, c, v) \in Scan
  <2>1. Json!MethodOf(s, v) \in Value /\ Json!IdNull(s, v) \in BOOLEAN
    BY DEF Json!MethodOf, Json!IdNull, Value
  <2>2. Json!ScanColon(s, v) \in Scan
    <3> DEFINE null == IF s.pendingKey = "id" THEN Json!IdNull(s, v) ELSE s.idNull
               method == IF s.pendingKey = "method" THEN Json!MethodOf(s, v) ELSE s.method
    <3>1. null \in BOOLEAN /\ method \in Value
      BY <2>1 DEF Scan
    <3>2. Json!ScanColon(s, v)
            = IF s.depth # 1 THEN s
              ELSE [s EXCEPT !.pendingKey = Json!None, !.idNull = null, !.method = method]
      BY DEF Json!ScanColon
    <3> HIDE DEF null, method
    <3>3. [s EXCEPT !.pendingKey = Json!None, !.idNull = null, !.method = method] \in Scan
      BY <3>1 DEF Scan
    <3> QED BY <3>2, <3>3
  <2>3. /\ [s EXCEPT !.inStr = TRUE, !.reading = TRUE] \in Scan
        /\ [s EXCEPT !.inStr = TRUE] \in Scan
        /\ [s EXCEPT !.expectKey = TRUE, !.pendingKey = Json!None] \in Scan
    BY DEF Scan
  <2>4. [s EXCEPT !.depth = @ + 1] \in Scan /\ [s EXCEPT !.depth = @ - 1] \in Scan
    <3>1. s.depth + 1 \in Int /\ s.depth - 1 \in Int
      BY DEF Scan
    <3> QED BY <3>1, DepthType
  <2>5. [s EXCEPT !.depth = @ - 1, !.over = (s.depth = 1)] \in Scan
    <3> DEFINE q == [s EXCEPT !.depth = @ - 1]
    <3>1. [q EXCEPT !.over = (s.depth = 1)] \in Scan
      <4> HIDE DEF q
      <4>1. q \in Scan
        BY <2>4 DEF q
      <4> QED BY <4>1 DEF Scan
    <3> QED BY <3>1
  <2> QED BY <2>2, <2>3, <2>4, <2>5 DEF Json!ScanPlain
<1> QED BY <1>3, <1>4, <1>5 DEF Json!ScanChar

-----------------------------------------------------------------------------
\* f is the scanner's run over a piece.
IsScan(f, s, piece, v) ==
  /\ f \in [0 .. Len(piece) -> Scan] /\ f[0] = s
  /\ \A i \in 1 .. Len(piece) : f[i] = Json!ScanChar(f[i - 1], piece[i], v)

\* Scanned is the last value of a run.
LEMMA ScanLoop ==
  ASSUME NEW s \in Scan, NEW piece \in Seq(Alphabet), NEW v \in Value
  PROVE  \E f : IsScan(f, s, piece, v) /\ Json!Scanned(s, piece, v) = f[Len(piece)]
<1> DEFINE N == Len(piece)
           Keep(x, i) == Json!ScanChar(x, piece[i], v)
           IsOf(f) == f = [n \in 0 .. N |-> IF n = 0 THEN s ELSE Keep(f[n - 1], n)]
<1>1. N \in Nat /\ \A i \in 1 .. N : piece[i] \in Alphabet
  OBVIOUS
<1> HIDE DEF N
<1>2. \E f : IsScan(f, s, piece, v)
  <2> DEFINE step == [i \in 1 .. N |-> [x \in Scan |-> Keep(x, i)]]
  <2>1. \A i \in 1 .. N : \A x \in Scan : Keep(x, i) \in Scan
    BY <1>1, ScanType
  <2>2. step \in [1 .. N -> [Scan -> Scan]]
    <3> HIDE DEF Keep
    <3> QED BY <2>1
  <2>3. PICK f : IsRun(f, Scan, s, N, step)
    <3> HIDE DEF step
    <3> QED BY <1>1, <2>2, LoopHasRun
  <2>4. f \in [0 .. N -> Scan] /\ f[0] = s /\ \A i \in 1 .. N : f[i] = step[i][f[i - 1]]
    BY <2>3 DEF IsRun
  <2>5. ASSUME NEW i \in 1 .. N PROVE f[i] = Keep(f[i - 1], i)
    <3>1. i - 1 \in 0 .. N
      BY <1>1
    <3>2. f[i - 1] \in Scan
      BY <2>4, <3>1
    <3> HIDE DEF Keep
    <3> QED BY <2>4, <3>2
  <2> QED BY <2>4, <2>5 DEF IsScan, N
<1>3. PICK g : IsScan(g, s, piece, v)
  BY <1>2
<1>4. g \in [0 .. N -> Scan] /\ g[0] = s /\ \A i \in 1 .. N : g[i] = Keep(g[i - 1], i)
  BY <1>3 DEF IsScan, N
<1>5. IsOf(g)
  <2>1. ASSUME NEW i \in 0 .. N PROVE g[i] = IF i = 0 THEN s ELSE Keep(g[i - 1], i)
    <3> HIDE DEF Keep
    <3> QED BY <1>1, <1>4
  <2> HIDE DEF Keep
  <2> QED BY <1>4, <2>1
<1> DEFINE of == CHOOSE f : IsOf(f)
<1>6. Json!Scanned(s, piece, v) = of[N]
  BY DEF Json!Scanned, N
<1>7. IsOf(of)
  BY <1>5
<1>8. of[0] = s /\ \A i \in 1 .. N : of[i] = Keep(of[i - 1], i)
  <2> HIDE DEF of, Keep
  <2> QED BY <1>1, <1>7
<1> HIDE DEF of, IsOf
<1> DEFINE S == {n \in Nat : n <= N => of[n] = g[n]}
<1>9. 0 \in S
  BY <1>4, <1>8
<1>10. ASSUME NEW n \in S PROVE n + 1 \in S
  <2>1. n + 1 <= N => of[n + 1] = g[n + 1]
    <3> SUFFICES ASSUME n + 1 <= N PROVE of[n + 1] = g[n + 1]
      OBVIOUS
    <3>1. n + 1 \in 1 .. N /\ of[n] = g[n] /\ (n + 1) - 1 = n
      BY <1>1
    <3>2. of[n + 1] = Keep(of[n], n + 1) /\ g[n + 1] = Keep(g[n], n + 1)
      BY <1>4, <1>8, <3>1
    <3> QED BY <3>1, <3>2
  <2> QED BY <2>1
<1>11. S = Nat
  <2>1. S \in SUBSET Nat /\ \A n \in S : n + 1 \in S
    BY <1>10
  <2> HIDE DEF S
  <2> QED BY <1>9, <2>1, SetInduction
<1>12. of[N] = g[N]
  <2>1. N \in S
    <3> HIDE DEF S
    <3> QED BY <1>1, <1>11
  <2> QED BY <2>1
<1> QED BY <1>3, <1>6, <1>12 DEF N

\* Where the next character is a token of the top object's text.
Ready(s) ==
  /\ ~s.over /\ ~s.first /\ ~s.inStr /\ ~s.esc /\ ~s.reading
  /\ s.key = <<>> /\ s.pendingKey = Json!None

\* Inside a string that began at s: whether it is a key, whether the next
\* character is escaped, and what the scanner keeps of it.
InString(s, reading, esc, key) ==
  [s EXCEPT !.inStr = TRUE, !.reading = reading, !.esc = esc, !.key = key]

\* The quote that opens a string,
LEMMA StringOpens ==
  ASSUME NEW s \in Scan, Ready(s), NEW v
  PROVE  Json!ScanChar(s, "quote", v) = InString(s, Json!KeyMayStart(s), FALSE, <<>>)
<1>1. Json!ScanChar(s, "quote", v) = Json!ScanPlain(s, "quote", v)
  BY DEF Json!ScanChar, Ready
<1>2. CASE Json!KeyMayStart(s)
  <2>1. Json!ScanPlain(s, "quote", v) = [s EXCEPT !.inStr = TRUE, !.reading = TRUE]
    BY <1>2 DEF Json!ScanPlain
  <2>2. [s EXCEPT !.inStr = TRUE, !.reading = TRUE] = InString(s, TRUE, FALSE, <<>>)
    BY DEF InString, Ready, Scan
  <2>3. Json!KeyMayStart(s) = TRUE
    BY <1>2 DEF Json!KeyMayStart
  <2> QED BY <1>1, <2>1, <2>2, <2>3
<1>3. CASE ~Json!KeyMayStart(s)
  <2>1. Json!ScanPlain(s, "quote", v) = [s EXCEPT !.inStr = TRUE]
    BY <1>3 DEF Json!ScanPlain
  <2>2. [s EXCEPT !.inStr = TRUE] = InString(s, FALSE, FALSE, <<>>)
    BY DEF InString, Ready, Scan
  <2>3. Json!KeyMayStart(s) = FALSE
    BY <1>3 DEF Json!KeyMayStart
  <2> QED BY <1>1, <2>1, <2>2, <2>3
<1> QED BY <1>2, <1>3

\* a character inside one,
LEMMA StringGoesOn ==
  ASSUME NEW s \in Scan, Ready(s), NEW v, NEW reading \in BOOLEAN, NEW esc \in BOOLEAN,
         NEW key \in Seq(Alphabet), NEW c \in Alphabet, c = "quote" => esc
  PROVE  Json!ScanChar(InString(s, reading, esc, key), c, v)
           = InString(s, reading, c = "\\" /\ ~esc, IF reading THEN Append(key, c) ELSE key)
<1> DEFINE r == InString(s, reading, esc, key)
<1>1. /\ r.over = s.over /\ r.first = s.first /\ r.inStr = TRUE /\ r.esc = esc
      /\ r.reading = reading /\ r.key = key
  BY DEF InString, Scan
<1>2. ~s.over /\ ~s.first
  BY DEF Ready
<1>3. \A e, k : [r EXCEPT !.esc = e, !.key = k] = InString(s, reading, e, k)
  BY DEF InString, Scan
<1>4. \A k : [r EXCEPT !.key = k] = InString(s, reading, esc, k)
  BY DEF InString, Scan
<1> HIDE DEF r
<1>5. Json!ScanChar(r, c, v) = Json!ScanInString(r, c)
  BY <1>1, <1>2 DEF Json!ScanChar
<1>6. Json!Grow(r, c) = IF reading THEN Append(key, c) ELSE key
  BY <1>1 DEF Json!Grow
<1> DEFINE next == c = "\\" /\ ~esc
           kept == IF reading THEN Append(key, c) ELSE key
<1> SUFFICES Json!ScanChar(r, c, v) = InString(s, reading, next, kept)
  BY DEF r
<1>7. CASE esc
  <2>1. Json!ScanInString(r, c) = [r EXCEPT !.esc = FALSE, !.key = Json!Grow(r, c)]
    BY <1>1, <1>7 DEF Json!ScanInString
  <2>2. next = FALSE
    BY <1>7
  <2> HIDE DEF next, kept
  <2>3. Json!ScanChar(r, c, v) = InString(s, reading, FALSE, Json!Grow(r, c))
    BY <1>3, <1>5, <2>1
  <2> QED BY <1>6, <2>2, <2>3 DEF kept
<1>8. CASE ~esc /\ c = "\\"
  <2>1. Json!ScanInString(r, c) = [r EXCEPT !.esc = TRUE, !.key = Json!Grow(r, c)]
    BY <1>1, <1>8 DEF Json!ScanInString
  <2>2. next = TRUE
    BY <1>8
  <2> HIDE DEF next, kept
  <2>3. Json!ScanChar(r, c, v) = InString(s, reading, TRUE, Json!Grow(r, c))
    BY <1>3, <1>5, <2>1
  <2> QED BY <1>6, <2>2, <2>3 DEF kept
<1>9. CASE ~esc /\ c # "\\"
  <2>1. Json!ScanInString(r, c) = [r EXCEPT !.key = Json!Grow(r, c)]
    BY <1>1, <1>9 DEF Json!ScanInString
  <2>2. next = FALSE /\ esc = FALSE
    BY <1>9
  <2> HIDE DEF next, kept
  <2>3. Json!ScanChar(r, c, v) = InString(s, reading, esc, Json!Grow(r, c))
    BY <1>4, <1>5, <2>1
  <2> QED BY <1>6, <2>2, <2>3 DEF kept
<1> QED BY <1>7, <1>8, <1>9

\* What a string leaves behind: nothing, or the name it was.
AfterString(s, t) ==
  IF Json!KeyMayStart(s)
  THEN [s EXCEPT !.expectKey = FALSE, !.has = @ \cup ({Json!Recognize(t)} \ {Json!None}),
                 !.pendingKey = Json!Recognize(t)]
  ELSE s

\* and the quote that closes it.
LEMMA StringEnds ==
  ASSUME NEW s \in Scan, Ready(s), NEW v, NEW t \in Seq(Alphabet)
  PROVE  Json!ScanChar(InString(s, Json!KeyMayStart(s), FALSE, IF Json!KeyMayStart(s) THEN t ELSE <<>>), "quote", v)
           = AfterString(s, t)
<1> DEFINE r == InString(s, Json!KeyMayStart(s), FALSE, IF Json!KeyMayStart(s) THEN t ELSE <<>>)
           name == Json!Recognize(t)
<1>1. /\ r.over = s.over /\ r.first = s.first /\ r.inStr = TRUE /\ r.esc = FALSE
      /\ r.reading = Json!KeyMayStart(s) /\ r.key = IF Json!KeyMayStart(s) THEN t ELSE <<>>
  BY DEF InString, Scan
<1>2. ~s.over /\ ~s.first
  BY DEF Ready
<1>3. Json!ScanChar(r, "quote", v) = Json!EndString(r)
  <2> HIDE DEF r
  <2> QED BY <1>1, <1>2 DEF Json!ScanChar, Json!ScanInString
<1>4. CASE Json!KeyMayStart(s)
  <2>1. r = InString(s, TRUE, FALSE, t)
    <3>1. Json!KeyMayStart(s) = TRUE
      BY <1>4 DEF Json!KeyMayStart
    <3> QED BY <3>1
  <2>2. r.reading /\ r.key = t
    BY <1>1, <1>4
  <2>3. Json!EndString(r) = [r EXCEPT !.inStr = FALSE, !.reading = FALSE, !.key = <<>>,
                          !.expectKey = FALSE, !.has = @ \cup ({name} \ {Json!None}),
                          !.pendingKey = name]
    <3> HIDE DEF r
    <3> QED BY <2>2 DEF Json!EndString
  <2>4. AfterString(s, t) = [s EXCEPT !.expectKey = FALSE, !.has = @ \cup ({name} \ {Json!None}),
                                      !.pendingKey = name]
    BY <1>4 DEF AfterString
  <2> HIDE DEF name, r
  <2>5. [InString(s, TRUE, FALSE, t)
           EXCEPT !.inStr = FALSE, !.reading = FALSE, !.key = <<>>,
                  !.expectKey = FALSE, !.has = @ \cup ({name} \ {Json!None}), !.pendingKey = name]
        = [s EXCEPT !.expectKey = FALSE, !.has = @ \cup ({name} \ {Json!None}), !.pendingKey = name]
    BY DEF InString, Ready, Scan
  <2> QED BY <1>3, <2>1, <2>3, <2>4, <2>5 DEF r
<1>5. CASE ~Json!KeyMayStart(s)
  <2>1. r = InString(s, FALSE, FALSE, <<>>)
    <3>1. Json!KeyMayStart(s) = FALSE
      BY <1>5 DEF Json!KeyMayStart
    <3> QED BY <3>1
  <2>2. ~r.reading
    BY <1>1, <1>5
  <2>3. Json!EndString(r) = [r EXCEPT !.inStr = FALSE]
    <3> HIDE DEF r
    <3> QED BY <2>2 DEF Json!EndString
  <2>4. [InString(s, FALSE, FALSE, <<>>) EXCEPT !.inStr = FALSE] = s
    BY DEF InString, Ready, Scan
  <2>5. AfterString(s, t) = s
    BY <1>5 DEF AfterString
  <2> QED BY <1>3, <2>1, <2>3, <2>4, <2>5
<1> QED BY <1>4, <1>5

\* A run over a piece that begins with a quoted text.
LEMMA QuotedRun ==
  ASSUME NEW s \in Scan, Ready(s), NEW v \in Value, NEW t \in Keys \cup Strings,
         NEW piece \in Seq(Alphabet), Len(piece) >= Len(t) + 2,
         piece[1] = "quote", piece[Len(t) + 2] = "quote", \A i \in 1 .. Len(t) : piece[i + 1] = t[i],
         NEW f, IsScan(f, s, piece, v)
  PROVE  f[Len(t) + 2] = AfterString(s, t)
<1> DEFINE N == Len(t)
           K == Json!KeyMayStart(s)
           Inside(n) == IF K THEN SubSeq(t, 1, n) ELSE <<>>
<1>1. PICK esc \in [1 .. N + 1 -> BOOLEAN] :
        /\ ~esc[1] /\ ~esc[N + 1]
        /\ \A i \in DOMAIN t : /\ esc[i + 1] = (t[i] = "\\" /\ ~esc[i])
                               /\ t[i] = "quote" => esc[i]
  BY Texts DEF Json!IsJsonText
<1>2. t \in Seq(Alphabet) /\ N \in Nat /\ \A i \in 1 .. N : t[i] \in Alphabet
  BY Texts
<1>3. K \in BOOLEAN
  BY DEF Json!KeyMayStart, Scan
<1>4. ASSUME NEW n \in 0 .. N
      PROVE  SubSeq(t, 1, n) \in Seq(Alphabet) /\ Inside(n) \in Seq(Alphabet)
  <2>1. SubSeq(t, 1, n) \in Seq(Alphabet)
    BY <1>2, SubSeqProperties
  <2>2. <<>> \in Seq(Alphabet)
    OBVIOUS
  <2> QED BY <2>1, <2>2
<1> DEFINE S == {n \in Nat : n <= N => f[n + 1] = InString(s, K, esc[n + 1], Inside(n))}
<1>5. 0 \in S
  <2>1. f[0] = s /\ f[1] = Json!ScanChar(f[0], piece[1], v)
    BY <1>2 DEF IsScan
  <2>2. f[1] = InString(s, K, FALSE, <<>>)
    BY <2>1, StringOpens
  <2>3. SubSeq(t, 1, 0) = <<>>
    BY <1>2, SubSeqEmpty
  <2>4. esc[1] = FALSE
    BY <1>1, <1>2
  <2>5. Inside(0) = <<>>
    BY <2>3
  <2>6. f[1] = InString(s, K, esc[1], Inside(0))
    BY <2>2, <2>4, <2>5
  <2> QED BY <2>6
<1>6. ASSUME NEW n \in S PROVE n + 1 \in S
  <2> SUFFICES ASSUME n + 1 <= N
               PROVE  f[n + 2] = InString(s, K, esc[n + 2], Inside(n + 1))
    BY <1>2
  <2>1. n \in 0 .. N /\ n + 1 \in 1 .. N /\ n + 2 \in 1 .. Len(piece) /\ (n + 2) - 1 = n + 1
        /\ (n + 1) + 1 = n + 2
    BY <1>2
  <2>2. f[n + 1] = InString(s, K, esc[n + 1], Inside(n))
    BY <2>1
  <2> DEFINE c == t[n + 1]
  <2>3. f[n + 2] = Json!ScanChar(f[n + 1], piece[n + 2], v)
    BY <2>1 DEF IsScan
  <2>4. piece[n + 2] = c
    BY <2>1
  <2>5. /\ c \in Alphabet /\ esc[n + 1] \in BOOLEAN
        /\ esc[n + 2] = (c = "\\" /\ ~esc[n + 1])
        /\ c = "quote" => esc[n + 1]
    <3>1. n + 1 \in DOMAIN t /\ n + 1 \in 1 .. N + 1
      BY <1>2, <2>1
    <3>2. esc[(n + 1) + 1] = (t[n + 1] = "\\" /\ ~esc[n + 1]) /\ (t[n + 1] = "quote" => esc[n + 1])
      BY <1>1, <3>1
    <3> QED BY <1>1, <1>2, <2>1, <3>1, <3>2
  <2>6. Inside(n) \in Seq(Alphabet)
    BY <1>4, <2>1
  <2>7. Inside(n + 1) = IF K THEN Append(Inside(n), c) ELSE Inside(n)
    <3>1. SubSeq(t, 1, n + 1) = Append(SubSeq(t, 1, n), t[n + 1])
      BY <1>2, <2>1
    <3> QED BY <3>1
  <2> HIDE DEF S, K, Inside, c
  <2>8. Json!ScanChar(InString(s, K, esc[n + 1], Inside(n)), c, v)
          = InString(s, K, c = "\\" /\ ~esc[n + 1], IF K THEN Append(Inside(n), c) ELSE Inside(n))
    BY <1>3, <2>5, <2>6, StringGoesOn
  <2> QED BY <2>2, <2>3, <2>4, <2>5, <2>7, <2>8
<1>7. S = Nat
  <2>1. S \in SUBSET Nat /\ \A n \in S : n + 1 \in S
    BY <1>6
  <2> HIDE DEF S
  <2> QED BY <1>5, <2>1, SetInduction
<1>8. f[N + 1] = InString(s, K, FALSE, IF K THEN t ELSE <<>>)
  <2>1. N \in S
    <3> HIDE DEF S
    <3> QED BY <1>2, <1>7
  <2>2. f[N + 1] = InString(s, K, esc[N + 1], Inside(N))
    BY <1>2, <2>1
  <2>3. SubSeq(t, 1, N) = t
    BY <1>2, SubSeqFull
  <2>4. esc[N + 1] = FALSE
    BY <1>1, <1>2
  <2> QED BY <2>2, <2>3, <2>4
<1>9. f[N + 2] = Json!ScanChar(f[N + 1], "quote", v)
  <2>1. N + 2 \in 1 .. Len(piece) /\ (N + 2) - 1 = N + 1
    BY <1>2
  <2> QED BY <2>1 DEF IsScan
<1> QED BY <1>2, <1>8, <1>9, StringEnds

\* Where the writer is: what is open, and what may come.
Grammar ==
  /\ open = <<>> <=> todo \in {"start", "end"}
  /\ todo \in {"firstKey", "key", "value"} => Last(open) = "obj"
  /\ todo \in {"firstItem", "item"} => Last(open) = "arr"
  /\ todo = "value" => val \in Json!Values

\* What the scanner has collected is what JSON.parse has.
Collected ==
  /\ scan.has = {k \in Json!Known : Json!Defined(k)}
  /\ scan.idNull = (view.last["id"].k = "null")
  /\ scan.method = IF view.last["method"].k = "string" THEN view.last["method"] ELSE Json!NoValue

\* In an object the scanner is at the writer's depth, between two tokens, and
\* knows where a name may begin.
InObject ==
  /\ ~scan.array /\ ~scan.first
  /\ scan.depth = Len(open)
  /\ open # <<>> => Ready(scan) /\ open[1] = "obj"
  /\ Len(open) = 1 /\ todo \in {"firstKey", "key"} => scan.expectKey
  /\ Len(open) = 1 /\ todo = "value" => ~scan.expectKey

\* Of anything else it has seen enough, and it has no members.
InOther ==
  /\ scan.over /\ \A k \in Json!Known : view.last[k] = Json!NoValue
  /\ open # <<>> => open[1] = "arr"

\* Before the first character.
AtStart ==
  /\ scan.first /\ ~scan.object /\ ~scan.array /\ ~scan.over /\ ~scan.inStr /\ ~scan.esc
  /\ ~scan.reading /\ scan.key = <<>> /\ scan.pendingKey = Json!None
  /\ \A k \in Json!Known : view.last[k] = Json!NoValue

\* The inductive invariant.
ScanInv ==
  /\ Json!TypeOK /\ scan \in Scan
  /\ view \in [kind : {Json!None, "obj", "arr", "number"}, last : [Json!Known -> Value]]
  /\ Grammar /\ Collected
  /\ todo = "start" => AtStart
  /\ todo # "start" => IF scan.object THEN InObject ELSE InOther

\* The empty text.
LEMMA EmptyIsSeq == <<>> \in Seq(Alphabet) /\ Len(<<>>) = 0
OBVIOUS

\* The pieces the writer writes.
LEMMA OneCharacter ==
  ASSUME NEW s \in Scan, NEW c \in Alphabet, NEW v \in Value
  PROVE  Json!Scanned(s, <<c>>, v) = Json!ScanChar(s, c, v)
<1> DEFINE piece == <<c>>
<1>1. piece \in Seq(Alphabet) /\ Len(piece) = 1 /\ piece[1] = c
  BY One
<1> HIDE DEF piece
<1>2. PICK f : IsScan(f, s, piece, v) /\ Json!Scanned(s, piece, v) = f[Len(piece)]
  BY <1>1, ScanLoop
<1>3. f[0] = s /\ f[1] = Json!ScanChar(f[1 - 1], piece[1], v)
  <2>1. 1 \in 1 .. Len(piece)
    BY <1>1
  <2> QED BY <1>2, <2>1 DEF IsScan
<1>4. 1 - 1 = 0
  OBVIOUS
<1>5. f[1] = Json!ScanChar(s, c, v)
  BY <1>1, <1>3, <1>4
<1> QED BY <1>1, <1>2, <1>5 DEF piece

\* A scanner that is over looks at no more of the text.
LEMMA NothingMore ==
  ASSUME NEW s \in Scan, s.over, NEW piece \in Seq(Alphabet), NEW v \in Value
  PROVE  Json!Scanned(s, piece, v) = s
<1>1. PICK f : IsScan(f, s, piece, v) /\ Json!Scanned(s, piece, v) = f[Len(piece)]
  BY ScanLoop
<1> DEFINE S == {n \in Nat : n <= Len(piece) => f[n] = s}
<1>2. 0 \in S
  BY <1>1 DEF IsScan
<1>3. ASSUME NEW n \in S PROVE n + 1 \in S
  <2> SUFFICES ASSUME n + 1 <= Len(piece) PROVE f[n + 1] = s
    OBVIOUS
  <2>1. n + 1 \in 1 .. Len(piece) /\ (n + 1) - 1 = n /\ f[n] = s
    OBVIOUS
  <2>2. f[n + 1] = Json!ScanChar(f[(n + 1) - 1], piece[n + 1], v)
    BY <1>1, <2>1 DEF IsScan
  <2>3. f[n + 1] = Json!ScanChar(s, piece[n + 1], v)
    BY <2>1, <2>2
  <2> QED BY <2>3 DEF Json!ScanChar
<1>4. S = Nat
  <2>1. S \in SUBSET Nat /\ \A n \in S : n + 1 \in S
    BY <1>3
  <2> HIDE DEF S
  <2> QED BY <1>2, <2>1, SetInduction
<1>5. Len(piece) \in S
  <2> HIDE DEF S
  <2> QED BY <1>4
<1> QED BY <1>1, <1>5

\* A text between its quotes.
LEMMA QuotedText ==
  ASSUME NEW t \in Seq(Alphabet)
  PROVE  /\ Json!Quoted(t) \in Seq(Alphabet) /\ Len(Json!Quoted(t)) = Len(t) + 2
         /\ Json!Quoted(t)[1] = "quote" /\ Json!Quoted(t)[Len(t) + 2] = "quote"
         /\ \A i \in 1 .. Len(t) : Json!Quoted(t)[i + 1] = t[i]
<1> DEFINE q == <<"quote">>
           a == q \o t
<1>1. q \in Seq(Alphabet) /\ Len(q) = 1 /\ q[1] = "quote"
  BY One DEF Alphabet
<1> HIDE DEF q
<1>2. /\ a \in Seq(Alphabet) /\ Len(a) = Len(t) + 1
      /\ \A i \in 1 .. Len(t) + 1 : a[i] = IF i <= 1 THEN q[i] ELSE t[i - 1]
  <2>1. /\ a \in Seq(Alphabet) /\ Len(a) = Len(q) + Len(t)
        /\ \A i \in 1 .. Len(q) + Len(t) : a[i] = IF i <= Len(q) THEN q[i] ELSE t[i - Len(q)]
    BY <1>1, ConcatProperties
  <2>2. Len(q) + Len(t) = Len(t) + 1
    BY <1>1
  <2> QED BY <1>1, <2>1, <2>2
<1> HIDE DEF a
<1>3. /\ a \o q \in Seq(Alphabet) /\ Len(a \o q) = Len(t) + 2
      /\ \A i \in 1 .. Len(t) + 2 : (a \o q)[i] = IF i <= Len(t) + 1 THEN a[i] ELSE q[i - (Len(t) + 1)]
  <2>1. Len(t) \in Nat
    OBVIOUS
  <2>2. Len(a) + Len(q) = Len(t) + 2
    BY <1>1, <1>2, <2>1
  <2>3. /\ a \o q \in Seq(Alphabet) /\ Len(a \o q) = Len(a) + Len(q)
        /\ \A i \in 1 .. Len(a) + Len(q) : (a \o q)[i] = IF i <= Len(a) THEN a[i] ELSE q[i - Len(a)]
    BY <1>1, <1>2, ConcatProperties
  <2> QED BY <1>2, <2>2, <2>3
<1>4. Json!Quoted(t) = a \o q
  BY DEF Json!Quoted, a, q
<1>5. Len(t) \in Nat
  OBVIOUS
<1> DEFINE w == a \o q
<1>6. w[1] = "quote" /\ w[Len(t) + 2] = "quote"
  <2>1. w[1] = a[1] /\ a[1] = q[1]
    BY <1>2, <1>3, <1>5
  <2>2. (Len(t) + 2) - (Len(t) + 1) = 1 /\ ~(Len(t) + 2 <= Len(t) + 1) /\ Len(t) + 2 \in 1 .. Len(t) + 2
    BY <1>5
  <2>3. w[Len(t) + 2] = q[1]
    BY <1>3, <2>2
  <2> QED BY <1>1, <2>1, <2>3
<1>7. ASSUME NEW i \in 1 .. Len(t) PROVE w[i + 1] = t[i]
  <2>1. i + 1 \in 1 .. Len(t) + 1 /\ i + 1 \in 1 .. Len(t) + 2 /\ ~(i + 1 <= 1) /\ (i + 1) - 1 = i
    BY <1>5
  <2>2. w[i + 1] = a[i + 1]
    BY <1>3, <1>5, <2>1
  <2> QED BY <1>2, <2>1, <2>2
<1> QED BY <1>3, <1>4, <1>6, <1>7

\* A whole string.
LEMMA StringScanned ==
  ASSUME NEW s \in Scan, Ready(s), NEW v \in Value, NEW t \in Keys \cup Strings
  PROVE  Json!Scanned(s, Json!Quoted(t), v) = AfterString(s, t)
<1>1. t \in Seq(Alphabet)
  BY Texts
<1>2. /\ Json!Quoted(t) \in Seq(Alphabet) /\ Len(Json!Quoted(t)) = Len(t) + 2
      /\ Json!Quoted(t)[1] = "quote" /\ Json!Quoted(t)[Len(t) + 2] = "quote"
      /\ \A i \in 1 .. Len(t) : Json!Quoted(t)[i + 1] = t[i]
  BY <1>1, QuotedText
<1>3. PICK f : IsScan(f, s, Json!Quoted(t), v) /\ Json!Scanned(s, Json!Quoted(t), v) = f[Len(Json!Quoted(t))]
  BY <1>2, ScanLoop
<1>4. Len(Json!Quoted(t)) >= Len(t) + 2
  BY <1>1, <1>2
<1> QED BY <1>2, <1>3, <1>4, QuotedRun

\* A name, and the value its colon shows.
LEMMA NameScanned ==
  ASSUME NEW s \in Scan, Ready(s), NEW v \in Value, NEW k \in Keys
  PROVE  /\ AfterString(s, k) \in Scan
         /\ Json!Scanned(s, Json!Quoted(k) \o <<":">>, v) = Json!ScanChar(AfterString(s, k), ":", v)
         /\ Json!Quoted(k) \o <<":">> \in Seq(Alphabet)
<1> DEFINE q == Json!Quoted(k)
           piece == q \o <<":">>
<1>1. k \in Seq(Alphabet) /\ k \in Keys \cup Strings
  BY Texts
<1>2. /\ q \in Seq(Alphabet) /\ Len(q) = Len(k) + 2
      /\ q[1] = "quote" /\ q[Len(k) + 2] = "quote"
      /\ \A i \in 1 .. Len(k) : q[i + 1] = k[i]
  BY <1>1, QuotedText
<1>3. Len(k) \in Nat
  BY <1>1
<1> HIDE DEF q
<1>4. /\ piece \in Seq(Alphabet) /\ Len(piece) = Len(k) + 3 /\ piece[Len(k) + 3] = ":"
      /\ \A i \in 1 .. Len(k) + 2 : piece[i] = q[i]
  <2>0. ":" \in Alphabet
    BY DEF Alphabet
  <2>1. piece = Append(q, ":")
    BY <1>2, <2>0
  <2>2. /\ Append(q, ":") \in Seq(Alphabet) /\ Len(Append(q, ":")) = Len(q) + 1
        /\ Append(q, ":")[Len(q) + 1] = ":"
        /\ \A i \in 1 .. Len(q) : Append(q, ":")[i] = q[i]
    BY <1>2, <2>0, AppendProperties
  <2>3. Len(q) + 1 = Len(k) + 3
    BY <1>2, <1>3
  <2> QED BY <1>2, <2>1, <2>2, <2>3
<1> HIDE DEF piece
<1>5. PICK f : IsScan(f, s, piece, v) /\ Json!Scanned(s, piece, v) = f[Len(piece)]
  BY <1>4, ScanLoop
<1>6. f[Len(k) + 2] = AfterString(s, k)
  <2>1. /\ Len(piece) >= Len(k) + 2 /\ piece[1] = "quote" /\ piece[Len(k) + 2] = "quote"
        /\ 1 \in 1 .. Len(k) + 2 /\ Len(k) + 2 \in 1 .. Len(k) + 2
    BY <1>2, <1>3, <1>4
  <2>2. ASSUME NEW i \in 1 .. Len(k) PROVE piece[i + 1] = k[i]
    <3>1. i + 1 \in 1 .. Len(k) + 2
      BY <1>3
    <3> QED BY <1>2, <1>4, <3>1
  <2> QED BY <1>1, <1>4, <1>5, <2>1, <2>2, QuotedRun
<1>7. f[Len(k) + 3] = Json!ScanChar(f[Len(k) + 2], ":", v)
  <2>1. Len(k) + 3 \in 1 .. Len(piece) /\ (Len(k) + 3) - 1 = Len(k) + 2
    BY <1>3, <1>4
  <2> QED BY <1>4, <1>5, <2>1 DEF IsScan
<1>8. f[Len(k) + 2] \in Scan
  <2>1. Len(k) + 2 \in 0 .. Len(piece)
    BY <1>3, <1>4
  <2> QED BY <1>5, <2>1 DEF IsScan
<1> QED BY <1>4, <1>5, <1>6, <1>7, <1>8 DEF piece, q

\* The containers the writer has opened.
Stacks == Seq({"obj", "arr"})

\* What is left of the open containers when the last is closed.
LEMMA StackFacts ==
  ASSUME NEW s \in Stacks, s # <<>>
  PROVE  /\ Len(s) \in Nat \ {0} /\ Last(s) = s[Len(s)] /\ s[1] \in {"obj", "arr"}
         /\ Last(s) \in {"obj", "arr"}
         /\ Front(s) \in Stacks /\ Len(Front(s)) = Len(s) - 1
         /\ Front(s) = <<>> <=> Len(s) = 1
         /\ Front(s) # <<>> => Front(s)[1] = s[1]
         /\ s = <<"obj">> <=> Len(s) = 1 /\ s[1] = "obj"
<1> USE DEF Stacks
<1>1. Len(s) \in Nat \ {0} /\ \A i \in 1 .. Len(s) : s[i] \in {"obj", "arr"}
  OBVIOUS
<1>2. Last(s) = s[Len(s)]
  BY DEF Last
<1>3. Front(s) = SubSeq(s, 1, Len(s) - 1)
  BY DEF Front
<1>4. Front(s) \in Stacks /\ Len(Front(s)) = Len(s) - 1
      /\ \A i \in 1 .. Len(s) - 1 : Front(s)[i] = s[i]
  <2> DEFINE n == Len(s) - 1
  <2>1. n \in Nat /\ \A i \in 1 .. n : s[i] \in {"obj", "arr"}
    BY <1>1
  <2> HIDE DEF n
  <2>2. /\ SubSeq(s, 1, n) \in Seq({"obj", "arr"})
        /\ Len(SubSeq(s, 1, n)) = IF 1 <= n THEN n - 1 + 1 ELSE 0
        /\ \A i \in 1 .. n - 1 + 1 : SubSeq(s, 1, n)[i] = s[1 + i - 1]
    BY <1>1, <2>1, SubSeqProperties
  <2>3. n - 1 + 1 = n /\ Len(SubSeq(s, 1, n)) = n
    BY <2>1, <2>2
  <2>4. ASSUME NEW i \in 1 .. n PROVE SubSeq(s, 1, n)[i] = s[i]
    <3>1. 1 + i - 1 = i
      BY <2>1
    <3> QED BY <2>2, <2>3, <3>1
  <2> QED BY <1>3, <2>2, <2>3, <2>4 DEF n
<1>5. Front(s) = <<>> <=> Len(s) = 1
  <2> HIDE DEF Stacks
  <2>1. Len(Front(s)) = Len(s) - 1 /\ Front(s) \in Seq({"obj", "arr"})
    BY <1>4 DEF Stacks
  <2>2. \A f \in Seq({"obj", "arr"}) : f = <<>> <=> Len(f) = 0
    OBVIOUS
  <2> QED BY <1>1, <2>1, <2>2
<1>6. Front(s) # <<>> => Front(s)[1] = s[1]
  BY <1>1, <1>4, <1>5
<1>7. s = <<"obj">> <=> Len(s) = 1 /\ s[1] = "obj"
  OBVIOUS
<1> QED BY <1>1, <1>2, <1>4, <1>5, <1>6, <1>7

\* One more container opens.
LEMMA PushOpen ==
  ASSUME NEW s \in Stacks, NEW x \in {"obj", "arr"}
  PROVE  /\ Append(s, x) \in Stacks /\ Len(Append(s, x)) = Len(s) + 1 /\ Len(s) \in Nat
         /\ Last(Append(s, x)) = x /\ Append(s, x) # <<>>
         /\ Append(s, x)[1] = IF s = <<>> THEN x ELSE s[1]
BY DEF Stacks, Last

-----------------------------------------------------------------------------
\* What the scanner makes of the characters that are no text.
LEMMA Tokens ==
  ASSUME NEW s \in Scan, Ready(s), NEW v
  PROVE  /\ \A c \in {"{", "["} : Json!ScanChar(s, c, v) = [s EXCEPT !.depth = @ + 1]
         /\ Json!ScanChar(s, "}", v) = [s EXCEPT !.depth = @ - 1, !.over = (s.depth = 1)]
         /\ Json!ScanChar(s, "]", v) = [s EXCEPT !.depth = @ - 1]
         /\ Json!ScanChar(s, ",", v) = IF s.depth = 1 THEN [s EXCEPT !.expectKey = TRUE, !.pendingKey = Json!None]
                                                 ELSE s
         /\ \A c \in {"null", "number"} : Json!ScanChar(s, c, v) = s
<1>1. \A c : Json!ScanChar(s, c, v) = Json!ScanPlain(s, c, v)
  BY DEF Json!ScanChar, Ready
<1>2. \A c \in {"{", "["} : Json!ScanPlain(s, c, v) = [s EXCEPT !.depth = @ + 1]
  BY DEF Json!ScanPlain
<1>3. Json!ScanPlain(s, "}", v) = [s EXCEPT !.depth = @ - 1, !.over = (s.depth = 1)]
  BY DEF Json!ScanPlain
<1>4. Json!ScanPlain(s, "]", v) = [s EXCEPT !.depth = @ - 1]
  BY DEF Json!ScanPlain
<1>5. Json!ScanPlain(s, ",", v) = IF s.depth = 1 THEN [s EXCEPT !.expectKey = TRUE, !.pendingKey = Json!None]
                                            ELSE s
  BY DEF Json!ScanPlain
<1>6. \A c \in {"null", "number"} : Json!ScanPlain(s, c, v) = s
  BY DEF Json!ScanPlain
<1> QED BY <1>1, <1>2, <1>3, <1>4, <1>5, <1>6

\* A name of the top object and its colon.
LEMMA TopName ==
  ASSUME NEW s \in Scan, Ready(s), NEW v, NEW k, Json!KeyMayStart(s)
  PROVE  Json!ScanChar(AfterString(s, k), ":", v)
           = [s EXCEPT !.expectKey = FALSE, !.has = @ \cup ({Json!Recognize(k)} \ {Json!None}),
                       !.idNull = IF Json!Recognize(k) = "id" THEN v.k = "null" ELSE @,
                       !.method = IF Json!Recognize(k) = "method" THEN Json!MethodOf(s, v) ELSE @]
<1> DEFINE name == Json!Recognize(k)
           r == [s EXCEPT !.expectKey = FALSE, !.has = @ \cup ({name} \ {Json!None}), !.pendingKey = name]
<1>1. AfterString(s, k) = r
  BY DEF AfterString
<1> HIDE DEF name
<1>2. /\ r.over = s.over /\ r.first = s.first /\ r.inStr = s.inStr /\ r.depth = s.depth
      /\ r.pendingKey = name
  BY DEF Scan
<1>3. Json!ScanChar(r, ":", v) = Json!ScanColon(r, v)
  <2> HIDE DEF r
  <2>1. Json!ScanChar(r, ":", v) = Json!ScanPlain(r, ":", v)
    BY <1>2 DEF Json!ScanChar, Ready
  <2>2. Json!ScanPlain(r, ":", v) = Json!ScanColon(r, v)
    BY DEF Json!ScanPlain
  <2> QED BY <2>1, <2>2
<1>4. Json!ScanColon(r, v) = [r EXCEPT !.pendingKey = Json!None,
                           !.idNull = IF name = "id" THEN v.k = "null" ELSE @,
                           !.method = IF name = "method" THEN Json!MethodOf(s, v) ELSE @]
  <2> HIDE DEF r
  <2> QED BY <1>2 DEF Json!ScanColon, Json!KeyMayStart, Json!IdNull, Json!MethodOf
<1>5. [r EXCEPT !.pendingKey = Json!None, !.idNull = IF name = "id" THEN v.k = "null" ELSE @,
                !.method = IF name = "method" THEN Json!MethodOf(s, v) ELSE @]
      = [s EXCEPT !.expectKey = FALSE, !.has = @ \cup ({name} \ {Json!None}),
                  !.idNull = IF name = "id" THEN v.k = "null" ELSE @,
                  !.method = IF name = "method" THEN Json!MethodOf(s, v) ELSE @]
  <2> HIDE DEF Json!MethodOf
  <2> QED BY DEF Scan, Ready
<1> QED BY <1>1, <1>3, <1>4, <1>5 DEF name

\* A name further down.
LEMMA InnerName ==
  ASSUME NEW s \in Scan, Ready(s), NEW v, NEW k, s.depth # 1
  PROVE  Json!ScanChar(AfterString(s, k), ":", v) = s
<1>1. AfterString(s, k) = s
  BY DEF AfterString, Json!KeyMayStart
<1>2. Json!ScanChar(s, ":", v) = Json!ScanPlain(s, ":", v)
  BY DEF Json!ScanChar, Ready
<1>3. Json!ScanPlain(s, ":", v) = Json!ScanColon(s, v)
  BY DEF Json!ScanPlain
<1> QED BY <1>1, <1>2, <1>3 DEF Json!ScanColon

\* The values the writer writes.
LEMMA ValueFacts ==
  ASSUME NEW v \in Json!Values
  PROVE  /\ v \in Value /\ v # Json!NoValue /\ v.k \in {"null", "number", "obj", "arr", "string"}
         /\ v.k = "string" => v.s \in Strings
         /\ Json!NoValue \in Value /\ Json!NoValue.k = Json!None /\ Json!None \notin Json!Known
BY DEF Json!Values, Value, Json!NoValue, Json!None, Json!Known

\* Where the writer may be, and what JSON.parse may have.
Todo == {"start", "firstKey", "key", "value", "firstItem", "item", "after", "end"}
View == [kind : {Json!None, "obj", "arr", "number"}, last : [Json!Known -> Value]]

\* What every step leaves in order.
LEMMA Typed ==
  ASSUME todo' \in Todo, open' \in Stacks, Len(open') <= MaxNesting, val' \in Value,
         scan' \in Scan, scan'.depth \in 0 .. MaxNesting, view' \in View
  PROVE  Json!TypeOK'
BY DEF Json!TypeOK, Todo, Stacks, Value, Scan, View

\* What ScanInv says of the types.
LEMMA Given ==
  ASSUME ScanInv
  PROVE  /\ todo \in Todo /\ open \in Stacks /\ Len(open) <= MaxNesting /\ val \in Value
         /\ scan \in Scan /\ scan.depth \in 0 .. MaxNesting /\ view \in View
BY DEF ScanInv, Json!TypeOK, Todo, Stacks, Value, View

\* Collected speaks of these only.
LEMMA StillCollected ==
  ASSUME Collected, scan' \in Scan, scan'.has = scan.has, scan'.idNull = scan.idNull,
         scan'.method = scan.method, view'.last = view.last
  PROVE  Collected'
BY DEF Collected, Json!Defined

\* The scanner has seen nothing, and nothing has been written.
LEMMA InitScan == Json!Init => ScanInv
<1> SUFFICES ASSUME Json!Init PROVE ScanInv
  OBVIOUS
<1>1. Json!NoValue \in Value /\ Json!NoValue # [Json!NoValue EXCEPT !.k = "null"] /\ Json!NoValue.k = Json!None
  BY DEF Value, Json!NoValue, Json!None
<1>2. view \in View /\ \A k \in Json!Known : view.last[k] = Json!NoValue
  BY <1>1 DEF Json!Init, View
<1>3. /\ scan.object = FALSE /\ scan.array = FALSE /\ scan.first = TRUE /\ scan.over = FALSE
      /\ scan.has = {} /\ scan.idNull = FALSE /\ scan.method = Json!NoValue /\ scan.depth = 0
      /\ scan.inStr = FALSE /\ scan.esc = FALSE /\ scan.reading = FALSE /\ scan.key = <<>>
      /\ scan.pendingKey = Json!None
  BY DEF Json!Init
<1>4. scan \in Scan
  <2>1. <<>> \in Seq(Alphabet)
    BY EmptyIsSeq
  <2> HIDE DEF Value, Alphabet
  <2> QED BY <1>1, <2>1 DEF Json!Init, Scan
<1>5. open = <<>> /\ open \in Stacks /\ Len(open) = 0 /\ todo = "start" /\ val = Json!NoValue
  BY DEF Json!Init, Stacks
<1>6. Json!TypeOK
  BY <1>1, <1>2, <1>3, <1>4, <1>5, NestingAssumption DEF Json!TypeOK, Stacks, Value, Scan, View
<1>7. Grammar
  BY <1>5 DEF Grammar
<1>8. Collected
  <2>1. "id" \in Json!Known /\ "method" \in Json!Known
    BY DEF Json!Known
  <2> QED BY <1>1, <1>2, <1>3, <2>1 DEF Collected, Json!Defined, Json!None
<1>9. AtStart
  BY <1>2, <1>3 DEF AtStart
<1> QED BY <1>2, <1>4, <1>5, <1>6, <1>7, <1>8, <1>9 DEF ScanInv, View

-----------------------------------------------------------------------------
\* The message begins: an object, or what no member will follow.
LEMMA TopStep ==
  ASSUME ScanInv, Json!Top
  PROVE  ScanInv'
<1>g. /\ todo \in Todo /\ open \in Stacks /\ Len(open) <= MaxNesting /\ val \in Value
      /\ scan \in Scan /\ scan.depth \in 0 .. MaxNesting /\ view \in View
  BY Given
<1>0. /\ todo = "start" /\ val' = val
      /\ \E v \in Json!Values : /\ v.k \in {"obj", "arr", "number"}
                           /\ Json!WriteValue(v)
                           /\ view' = [view EXCEPT !.kind = v.k]
  BY DEF Json!Top
<1>1. PICK v \in Json!Values : /\ v.k \in {"obj", "arr", "number"} /\ Json!WriteValue(v)
                          /\ view' = [view EXCEPT !.kind = v.k]
  BY <1>0
<1>2. open = <<>> /\ AtStart /\ Collected
  BY <1>0 DEF ScanInv, Grammar
<1>3. scan.first /\ ~scan.over
  BY <1>2 DEF AtStart
<1>v. Json!NoValue \in Value
  BY ValueFacts, <1>1
<1>4. view' \in View /\ view'.last = view.last
  BY <1>g, <1>1 DEF View
<1>5. \A c \in Alphabet : Json!Scanned(scan, <<c>>, Json!NoValue) = Json!ScanFirst(scan, c)
  BY <1>g, <1>3, <1>v, OneCharacter DEF Json!ScanChar
<1>6. "{" \in Alphabet /\ "[" \in Alphabet /\ "number" \in Alphabet
  BY DEF Alphabet
<1>7. /\ scan.inStr = FALSE /\ scan.esc = FALSE /\ scan.reading = FALSE /\ scan.key = <<>>
      /\ scan.pendingKey = Json!None /\ scan.array = FALSE /\ scan.object = FALSE
      /\ \A k \in Json!Known : view.last[k] = Json!NoValue
  BY <1>2, <1>g DEF AtStart, Scan
<1>8. CASE v.k = "obj"
  <2>1. /\ Len(open) < MaxNesting /\ open' = Append(open, "obj") /\ todo' = "firstKey"
        /\ scan' = Json!Scanned(scan, <<"{">>, Json!NoValue)
    BY <1>1, <1>8 DEF Json!WriteValue, Json!Write
  <2>2. /\ open' \in Stacks /\ Len(open') = 1 /\ Last(open') = "obj" /\ open' # <<>> /\ open'[1] = "obj"
        /\ 1 <= MaxNesting
    <3> DEFINE o == Append(open, "obj")
    <3>1. /\ o \in Stacks /\ Len(o) = Len(open) + 1 /\ Len(open) \in Nat
          /\ Last(o) = "obj" /\ o # <<>> /\ o[1] = IF open = <<>> THEN "obj" ELSE open[1]
      BY <1>g, PushOpen
    <3>2. Len(open) = 0
      BY <1>2, EmptyIsSeq
    <3> HIDE DEF o
    <3>3. open' = o
      BY <2>1 DEF o
    <3>4. Len(o) = 1 /\ 1 <= MaxNesting
      <4>1. Len(open) < MaxNesting /\ Len(o) = Len(open) + 1
        BY <2>1, <3>1
      <4> QED BY <3>2, <4>1, NestingAssumption
    <3>5. o[1] = "obj"
      BY <1>2, <3>1
    <3> QED BY <3>1, <3>3, <3>4, <3>5
  <2>3. scan' = [scan EXCEPT !.first = FALSE, !.object = TRUE, !.depth = 1, !.expectKey = TRUE]
    BY <1>5, <1>6, <2>1 DEF Json!ScanFirst
  <2>4. scan' \in Scan
    <3>1. scan' = Json!ScanChar(scan, "{", Json!NoValue)
      BY <1>6, <1>g, <1>v, <2>1, OneCharacter
    <3> QED BY <1>6, <1>g, <1>v, <3>1, ScanType
  <2>5. /\ scan'.first = FALSE /\ scan'.object = TRUE /\ scan'.depth = 1 /\ scan'.expectKey = TRUE
        /\ scan'.has = scan.has /\ scan'.idNull = scan.idNull /\ scan'.method = scan.method
        /\ scan'.over = scan.over /\ scan'.inStr = scan.inStr /\ scan'.esc = scan.esc
        /\ scan'.reading = scan.reading /\ scan'.key = scan.key /\ scan'.pendingKey = scan.pendingKey
        /\ scan'.array = scan.array
    BY <1>g, <2>3 DEF Scan
  <2>6. Json!TypeOK'
    <3>1. todo' \in Todo /\ val' \in Value /\ scan'.depth \in 0 .. MaxNesting
      <4>1. 1 \in 0 .. MaxNesting
        BY <2>2, NestingAssumption
      <4> QED BY <1>0, <1>g, <2>1, <2>5, <4>1 DEF Todo
    <3> QED BY <1>4, <2>2, <2>4, <3>1, Typed
  <2>7. Collected'
    BY <1>2, <1>4, <2>4, <2>5, StillCollected
  <2>8. Grammar'
    BY <2>1, <2>2 DEF Grammar
  <2>9. InObject'
    BY <1>3, <1>7, <2>1, <2>2, <2>5 DEF InObject, Ready
  <2> QED BY <1>4, <2>1, <2>4, <2>5, <2>6, <2>7, <2>8, <2>9 DEF ScanInv, View
<1>9. CASE v.k # "obj"
  <2> DEFINE c == IF v.k = "arr" THEN "[" ELSE "number"
  <2>1. /\ scan' = Json!Scanned(scan, <<c>>, Json!NoValue)
        /\ IF v.k = "arr" THEN Len(open) < MaxNesting /\ open' = Append(open, "arr") /\ todo' = "firstItem"
                          ELSE open' = open /\ todo' = "end"
    <3>1. CASE v.k = "arr"
      BY <1>1, <3>1 DEF Json!WriteValue, Json!Write
    <3>2. CASE v.k = "number"
      BY <1>1, <1>2, <3>2 DEF Json!WriteValue, Json!Write, Json!AfterValue
    <3> QED BY <1>1, <1>9, <3>1, <3>2
  <2>2. c \in Alphabet /\ c # "{"
    BY <1>6
  <2> HIDE DEF c
  <2>3. /\ open' \in Stacks /\ Len(open') <= MaxNesting
        /\ open' # <<>> => Last(open') = "arr" /\ open'[1] = "arr"
        /\ open' = <<>> <=> todo' = "end"
        /\ todo' \in {"firstItem", "end"}
    <3>1. CASE v.k = "arr"
      <4> DEFINE o == Append(open, "arr")
      <4>1. /\ o \in Stacks /\ Len(o) = Len(open) + 1 /\ Len(open) \in Nat
            /\ Last(o) = "arr" /\ o # <<>> /\ o[1] = IF open = <<>> THEN "arr" ELSE open[1]
        BY <1>g, PushOpen
      <4>2. Len(open) = 0
        BY <1>2, EmptyIsSeq
      <4> HIDE DEF o
      <4>3. open' = o /\ Len(open) < MaxNesting /\ todo' = "firstItem"
        BY <2>1, <3>1 DEF o
      <4>4. Len(o) = 1 /\ Len(o) <= MaxNesting
        BY <4>1, <4>2, <4>3, NestingAssumption
      <4> QED BY <1>2, <4>1, <4>2, <4>3, <4>4
    <3>2. CASE v.k # "arr"
      BY <1>g, <1>2, <2>1, <3>2
    <3> QED BY <3>1, <3>2
  <2>4. scan' \in Scan
    <3>1. scan' = Json!ScanChar(scan, c, Json!NoValue)
      BY <1>g, <1>v, <2>1, <2>2, OneCharacter
    <3> QED BY <1>g, <1>v, <2>2, <3>1, ScanType
  <2>5. /\ scan'.over /\ scan'.depth = scan.depth /\ scan'.object = scan.object
        /\ scan'.has = scan.has /\ scan'.idNull = scan.idNull /\ scan'.method = scan.method
    <3>1. scan' = Json!ScanFirst(scan, c)
      BY <1>5, <2>1, <2>2
    <3>2. CASE c = "["
      <4>1. scan' = [scan EXCEPT !.first = FALSE, !.array = TRUE, !.over = TRUE]
        BY <3>1, <3>2 DEF Json!ScanFirst
      <4> QED BY <1>g, <4>1 DEF Scan
    <3>3. CASE c # "["
      <4>1. scan' = [scan EXCEPT !.first = FALSE, !.over = TRUE]
        BY <2>2, <3>1, <3>3 DEF Json!ScanFirst
      <4> QED BY <1>g, <4>1 DEF Scan
    <3> QED BY <3>2, <3>3
  <2>6. Json!TypeOK'
    <3>1. todo' \in Todo /\ val' \in Value /\ scan'.depth \in 0 .. MaxNesting
      BY <1>0, <1>g, <2>3, <2>5 DEF Todo
    <3> QED BY <1>4, <2>3, <2>4, <3>1, Typed
  <2>7. Collected'
    BY <1>2, <1>4, <2>4, <2>5, StillCollected
  <2>8. Grammar'
    BY <2>3 DEF Grammar
  <2>9. InOther'
    BY <1>4, <1>7, <2>3, <2>5 DEF InOther
  <2>10. ~scan'.object
    BY <1>7, <2>5
  <2> QED BY <1>4, <2>3, <2>4, <2>6, <2>7, <2>8, <2>9, <2>10 DEF ScanInv, View
<1> QED BY <1>8, <1>9

\* Nothing but the stack, the writer's place and what it is about to write
\* changes, and neither classifier looks.
LEMMA NobodyLooks ==
  ASSUME ScanInv, ~scan.object, todo # "start", scan' = scan, view' \in View, view'.last = view.last,
         todo' \in Todo, todo' # "start", open' \in Stacks, Len(open') <= MaxNesting, val' \in Value,
         open' # <<>> => open'[1] = "arr", Grammar'
  PROVE  ScanInv'
<1>g. scan \in Scan /\ scan.depth \in 0 .. MaxNesting
  BY Given
<1>1. Json!TypeOK'
  BY <1>g, Typed
<1>2. Collected'
  BY <1>g, StillCollected DEF ScanInv
<1>3. InOther'
  BY DEF ScanInv, InOther
<1> QED BY <1>g, <1>1, <1>2, <1>3 DEF ScanInv, View

\* Both go on in an object.
LEMMA BothGoOn ==
  ASSUME ScanInv, scan.object, todo # "start", scan' \in Scan, view' \in View,
         scan'.object = scan.object, scan'.array = scan.array, scan'.first = scan.first,
         scan'.depth = Len(open'), Collected',
         todo' \in Todo, todo' # "start", open' \in Stacks, Len(open') <= MaxNesting, val' \in Value,
         open' # <<>> => Ready(scan') /\ open'[1] = "obj", Grammar',
         Len(open') = 1 /\ todo' \in {"firstKey", "key"} => scan'.expectKey,
         Len(open') = 1 /\ todo' = "value" => ~scan'.expectKey
  PROVE  ScanInv'
<1>1. Len(open') \in 0 .. MaxNesting
  BY NestingAssumption DEF Stacks
<1>2. Json!TypeOK'
  BY <1>1, Typed
<1>3. InObject
  BY DEF ScanInv
<1>4. InObject'
  BY <1>3 DEF InObject
<1> QED BY <1>2, <1>4 DEF ScanInv, View

\* Writing a value inside something.
LEMMA ValueStep ==
  ASSUME ScanInv, open # <<>>, todo \in {"value", "firstItem", "item"},
         NEW v \in Json!Values, Json!WriteValue(v), val' \in Value, view' = view
  PROVE  ScanInv'
<1>g. /\ todo \in Todo /\ open \in Stacks /\ Len(open) <= MaxNesting /\ val \in Value
      /\ scan \in Scan /\ scan.depth \in 0 .. MaxNesting /\ view \in View
  BY Given
<1>v. /\ v \in Value /\ v # Json!NoValue /\ v.k \in {"null", "number", "obj", "arr", "string"}
      /\ v.k = "string" => v.s \in Strings
      /\ Json!NoValue \in Value
  BY ValueFacts
<1>s. /\ Len(open) \in Nat \ {0} /\ Last(open) = open[Len(open)] /\ open[1] \in {"obj", "arr"}
  BY <1>g, StackFacts
<1>i. Grammar /\ Collected
  BY DEF ScanInv
<1> DEFINE c == IF v.k = "obj" THEN "{" ELSE "["
           pieceOf == IF v.k \in {"obj", "arr"} THEN <<c>>
                      ELSE IF v.k = "string" THEN Json!Quoted(v.s) ELSE <<v.k>>
<1>1. scan' = Json!Scanned(scan, pieceOf, Json!NoValue)
  BY DEF Json!WriteValue, Json!Write
<1>2. pieceOf \in Seq(Alphabet)
  <2>1. c \in Alphabet
    BY DEF Alphabet
  <2>2. v.k \in {"null", "number"} => v.k \in Alphabet
    BY DEF Alphabet
  <2>3. v.k = "string" => v.s \in Seq(Alphabet)
    BY <1>v, Texts
  <2>4. v.k = "string" => Json!Quoted(v.s) \in Seq(Alphabet)
    BY <2>3, QuotedText
  <2> HIDE DEF c
  <2>5. <<c>> \in Seq(Alphabet)
    BY <2>1, One
  <2>6. v.k \in {"null", "number"} => <<v.k>> \in Seq(Alphabet)
    BY <2>2, One
  <2> QED BY <1>v, <2>4, <2>5, <2>6
\* What becomes of the stack.
<1>3. /\ open' \in Stacks /\ Len(open') <= MaxNesting /\ open' # <<>> /\ open'[1] = open[1]
      /\ todo' \in Todo /\ todo' # "start" /\ Grammar'
      /\ IF v.k \in {"obj", "arr"} THEN Len(open') = Len(open) + 1
                                   ELSE Len(open') = Len(open) /\ todo' = "after"
  <2>1. CASE v.k \in {"obj", "arr"}
    <3> DEFINE o == Append(open, v.k)
    <3>1. /\ Len(open) < MaxNesting /\ open' = o
          /\ todo' = IF v.k = "obj" THEN "firstKey" ELSE "firstItem"
      BY <2>1 DEF Json!WriteValue
    <3>2. /\ o \in Stacks /\ Len(o) = Len(open) + 1 /\ Last(o) = v.k /\ o # <<>> /\ o[1] = open[1]
      <4>1. /\ o \in Stacks /\ Len(o) = Len(open) + 1 /\ Last(o) = v.k /\ o # <<>>
            /\ o[1] = IF open = <<>> THEN v.k ELSE open[1]
        BY <1>g, <2>1, PushOpen
      <4> QED BY <4>1
    <3> HIDE DEF o
    <3>3. Len(o) <= MaxNesting
      BY <1>s, <3>1, <3>2, NestingAssumption
    <3>4. open' \in Stacks /\ Len(open') <= MaxNesting /\ open' # <<>> /\ open'[1] = open[1]
          /\ Last(open') = v.k /\ Len(open') = Len(open) + 1
      BY <3>1, <3>2, <3>3
    <3>5. todo' \in {"firstKey", "firstItem"} /\ (todo' = "firstKey" <=> v.k = "obj")
      BY <3>1
    <3>6. Grammar'
      BY <2>1, <3>4, <3>5 DEF Grammar
    <3> QED BY <2>1, <3>4, <3>5, <3>6 DEF Todo
  <2>2. CASE v.k \notin {"obj", "arr"}
    <3>1. open' = open /\ todo' = "after"
      BY <2>2 DEF Json!WriteValue, Json!AfterValue
    <3> QED BY <1>g, <2>2, <3>1 DEF Grammar, Todo
  <2> QED BY <2>1, <2>2
<1>4. CASE ~scan.object
  <2>1. scan.over /\ open[1] = "arr"
    BY <1>4, <1>i DEF ScanInv, InOther, Grammar
  <2>2. scan' = scan
    <3> HIDE DEF pieceOf
    <3> QED BY <1>1, <1>2, <1>g, <1>v, <2>1, NothingMore
  <2> QED BY <1>3, <1>4, <1>g, <2>1, <2>2, NobodyLooks
<1>5. CASE scan.object
  <2>1. Ready(scan) /\ scan.depth = Len(open) /\ open[1] = "obj"
        /\ (Len(open) = 1 /\ todo = "value" => ~scan.expectKey)
    BY <1>5 DEF ScanInv, InObject
  <2>2. ~Json!KeyMayStart(scan)
    <3>1. Len(open) = 1 => Last(open) = "obj"
      BY <1>s, <2>1
    <3>2. Len(open) = 1 => todo = "value"
      BY <1>i, <3>1 DEF Grammar
    <3> QED BY <2>1, <3>2 DEF Json!KeyMayStart
  <2>3. CASE v.k \in {"obj", "arr"}
    <3>1. c \in Alphabet /\ c \in {"{", "["}
      BY DEF Alphabet
    <3> HIDE DEF c
    <3>2. scan' = Json!ScanChar(scan, c, Json!NoValue)
      BY <1>1, <1>g, <1>v, <2>3, <3>1, OneCharacter
    <3>3. scan' = [scan EXCEPT !.depth = @ + 1]
      <4>1. \A x \in {"{", "["} : Json!ScanChar(scan, x, Json!NoValue) = [scan EXCEPT !.depth = @ + 1]
        BY <1>g, <2>1, Tokens
      <4>2. Json!ScanChar(scan, c, Json!NoValue) = [scan EXCEPT !.depth = @ + 1]
        BY <3>1, <4>1
      <4> QED BY <3>2, <4>2, SMTT(30)
    <3>4. scan' \in Scan
      BY <1>g, <1>v, <3>1, <3>2, ScanType
    <3>5. /\ scan'.object = scan.object /\ scan'.array = scan.array /\ scan'.first = scan.first
          /\ scan'.depth = scan.depth + 1 /\ scan'.over = scan.over /\ scan'.inStr = scan.inStr
          /\ scan'.esc = scan.esc /\ scan'.reading = scan.reading /\ scan'.key = scan.key
          /\ scan'.pendingKey = scan.pendingKey /\ scan'.has = scan.has
          /\ scan'.idNull = scan.idNull /\ scan'.method = scan.method
      BY <1>g, <3>3 DEF Scan
    <3>6. Ready(scan')
      BY <2>1, <3>5 DEF Ready
    <3>7. Collected'
      BY <1>i, <3>4, <3>5, StillCollected
    <3>8. scan'.depth = Len(open') /\ Len(open') # 1
      BY <1>3, <1>s, <2>1, <2>3, <3>5
    <3>9. todo # "start"
      OBVIOUS
    <3> QED BY <1>3, <1>5, <1>g, <2>1, <3>4, <3>5, <3>6, <3>7, <3>8, <3>9, BothGoOn
  <2>4. CASE v.k \notin {"obj", "arr"}
    <3>1. scan' = scan
      <4>1. CASE v.k = "string"
        <5>1. scan' = AfterString(scan, v.s)
          BY <1>1, <1>g, <1>v, <2>1, <4>1, StringScanned, SMTT(30)
        <5> QED BY <2>2, <5>1 DEF AfterString
      <4>2. CASE v.k \in {"null", "number"}
        <5>1. v.k \in Alphabet
          BY <4>2 DEF Alphabet
        <5>2. scan' = Json!ScanChar(scan, v.k, Json!NoValue)
          BY <1>1, <1>g, <1>v, <4>2, <5>1, OneCharacter
        <5> QED BY <1>g, <2>1, <4>2, <5>2, Tokens, ZenonT(40)
      <4> QED BY <1>v, <2>4, <4>1, <4>2
    <3>2. Collected'
      BY <1>g, <1>i, <3>1, StillCollected
    <3>3. scan'.depth = Len(open') /\ todo # "start" /\ todo' = "after"
      BY <1>3, <2>1, <2>4, <3>1
    <3> QED BY <1>3, <1>5, <1>g, <2>1, <3>1, <3>2, <3>3, BothGoOn
  <2> QED BY <2>3, <2>4
<1> QED BY <1>4, <1>5

\* A name of the top object becomes what it is to both.
LEMMA NameCollected ==
  ASSUME Collected, scan \in Scan, scan' \in Scan, view \in View, view' \in View,
         NEW v \in Json!Values, NEW name \in Json!Known \cup {Json!None},
         scan'.has = scan.has \cup ({name} \ {Json!None}),
         scan'.idNull = IF name = "id" THEN v.k = "null" ELSE scan.idNull,
         scan'.method = IF name = "method" THEN Json!MethodOf(scan, v) ELSE scan.method,
         view'.last = IF name = Json!None THEN view.last ELSE [view.last EXCEPT ![name] = v]
  PROVE  Collected'
<1>1. v # Json!NoValue /\ Json!None \notin Json!Known
  BY ValueFacts
<1>2. view.last \in [Json!Known -> Value] /\ view'.last \in [Json!Known -> Value]
  BY DEF View
<1>3. "id" \in Json!Known /\ "method" \in Json!Known
  BY DEF Json!Known
<1>4. CASE name = Json!None
  <2>1. scan'.has = scan.has /\ view'.last = view.last /\ name \notin {"id", "method"}
    BY <1>1, <1>3, <1>4
  <2> QED BY <2>1, StillCollected
<1>5. CASE name \in Json!Known
  <2>1. \A j \in Json!Known : view'.last[j] = IF j = name THEN v ELSE view.last[j]
    BY <1>1, <1>2, <1>5
  <2>2. scan'.has = {j \in Json!Known : view'.last[j] # Json!NoValue}
    <3>1. scan.has = {j \in Json!Known : view.last[j] # Json!NoValue}
      BY DEF Collected, Json!Defined
    <3>2. scan'.has = scan.has \cup {name}
      BY <1>1, <1>5
    <3> QED BY <1>1, <1>5, <2>1, <3>1, <3>2
  <2>3. scan'.idNull = (view'.last["id"].k = "null")
    <3>1. CASE name = "id"
      BY <1>3, <2>1, <3>1
    <3>2. CASE name # "id"
      <4>1. view'.last["id"] = view.last["id"]
        BY <1>3, <2>1, <3>2
      <4> QED BY <3>2, <4>1 DEF Collected
    <3> QED BY <3>1, <3>2
  <2>4. scan'.method = IF view'.last["method"].k = "string" THEN view'.last["method"] ELSE Json!NoValue
    <3>1. CASE name = "method"
      <4>1. view'.last["method"] = v /\ scan'.method = Json!MethodOf(scan, v)
        BY <1>3, <2>1, <3>1
      <4> QED BY <4>1 DEF Json!MethodOf
    <3>2. CASE name # "method"
      <4>1. view'.last["method"] = view.last["method"]
        BY <1>3, <2>1, <3>2
      <4> QED BY <3>2, <4>1 DEF Collected
    <3> QED BY <3>1, <3>2
  <2> QED BY <2>2, <2>3, <2>4 DEF Collected, Json!Defined
<1> QED BY <1>4, <1>5

\* The writer writes a name and its colon, and the scanner looks ahead at the value.
LEMMA MemberStep ==
  ASSUME ScanInv, Json!Member
  PROVE  ScanInv'
<1>g. /\ todo \in Todo /\ open \in Stacks /\ Len(open) <= MaxNesting /\ val \in Value
      /\ scan \in Scan /\ scan.depth \in 0 .. MaxNesting /\ view \in View
  BY Given
<1>0. todo \in {"firstKey", "key"} /\ todo' = "value" /\ open' = open
  BY DEF Json!Member
<1>1. PICK k \in Keys, v \in Json!Values :
        /\ Json!Write(Json!Quoted(k) \o <<":">>, v)
        /\ val' = v
        /\ view' = IF open = <<"obj">> /\ Len(k) = 1 /\ k[1] \in Json!Known
                   THEN [view EXCEPT !.last[k[1]] = v] ELSE view
  BY DEF Json!Member
<1>v. v \in Value /\ v # Json!NoValue /\ Json!None \notin Json!Known
  BY ValueFacts
<1>2. open # <<>> /\ Last(open) = "obj" /\ Collected
  BY <1>0 DEF ScanInv, Grammar
<1>s. /\ Len(open) \in Nat \ {0} /\ open[1] \in {"obj", "arr"}
      /\ open = <<"obj">> <=> Len(open) = 1 /\ open[1] = "obj"
  BY <1>g, <1>2, StackFacts
<1>3. scan' = Json!Scanned(scan, Json!Quoted(k) \o <<":">>, v)
  BY <1>1 DEF Json!Write
<1>p. Json!Quoted(k) \o <<":">> \in Seq(Alphabet)
  <2>1. k \in Seq(Alphabet)
    BY Texts
  <2>2. Json!Quoted(k) \in Seq(Alphabet)
    BY <2>1, QuotedText
  <2>3. ":" \in Alphabet
    BY DEF Alphabet
  <2>4. <<":">> \in Seq(Alphabet)
    BY <2>3, One
  <2> QED BY <2>2, <2>4, ConcatProperties
<1>4. Grammar'
  BY <1>0, <1>1, <1>2 DEF Grammar
<1>5. todo' \in Todo /\ todo' # "start" /\ todo # "start" /\ val' \in Value
  BY <1>0, <1>1, <1>v DEF Todo
<1>6. CASE ~scan.object
  <2>1. scan.over /\ open[1] = "arr"
    BY <1>2, <1>5, <1>6 DEF ScanInv, InOther
  <2>2. scan' = scan
    BY <1>3, <1>g, <1>p, <1>v, <2>1, NothingMore
  <2>3. view' = view
    BY <1>1, <1>s, <2>1
  <2> QED BY <1>0, <1>4, <1>5, <1>6, <1>g, <2>1, <2>2, <2>3, NobodyLooks
<1>7. CASE scan.object
  <2>1. Ready(scan) /\ scan.depth = Len(open) /\ open[1] = "obj"
        /\ (Len(open) = 1 => scan.expectKey)
    BY <1>0, <1>2, <1>5, <1>7 DEF ScanInv, InObject
  <2>2. scan' = Json!ScanChar(AfterString(scan, k), ":", v) /\ AfterString(scan, k) \in Scan
    BY <1>3, <1>g, <1>v, <2>1, NameScanned
  <2>3. scan' \in Scan
    <3>1. ":" \in Alphabet
      BY DEF Alphabet
    <3> QED BY <1>v, <2>2, <3>1, ScanType
  <2>4. CASE Len(open) # 1
    <3>1. scan' = scan
      BY <1>g, <2>1, <2>2, <2>4, InnerName
    <3>2. view' = view
      BY <1>1, <1>s, <2>4
    <3>3. Collected'
      BY <1>2, <1>g, <3>1, <3>2, StillCollected
    <3> QED BY <1>0, <1>4, <1>5, <1>7, <1>g, <2>1, <2>3, <2>4, <3>1, <3>2, <3>3, BothGoOn
  <2>5. CASE Len(open) = 1
    <3> DEFINE name == Json!Recognize(k)
    <3>1. Json!KeyMayStart(scan)
      BY <2>1, <2>5 DEF Json!KeyMayStart
    <3>2. scan' = [scan EXCEPT !.expectKey = FALSE, !.has = @ \cup ({name} \ {Json!None}),
                               !.idNull = IF name = "id" THEN v.k = "null" ELSE @,
                               !.method = IF name = "method" THEN Json!MethodOf(scan, v) ELSE @]
      BY <1>g, <2>1, <2>2, <3>1, TopName, ZenonT(40)
    <3>3. name \in Json!Known \cup {Json!None}
      BY DEF Json!Recognize
    <3>4. view' \in View /\ view'.last = IF name = Json!None THEN view.last ELSE [view.last EXCEPT ![name] = v]
      <4>1. CASE Len(k) = 1 /\ k[1] \in Json!Known
        <5>1. name = k[1] /\ name # Json!None
          BY <1>v, <4>1 DEF Json!Recognize
        <5>2. view' = [view EXCEPT !.last[name] = v]
          BY <1>1, <1>s, <2>1, <2>5, <4>1, <5>1
        <5> HIDE DEF name
        <5> QED BY <1>g, <1>v, <3>3, <5>1, <5>2 DEF View
      <4>2. CASE ~(Len(k) = 1 /\ k[1] \in Json!Known)
        <5>1. name = Json!None /\ view' = view
          BY <1>1, <4>2 DEF Json!Recognize
        <5> HIDE DEF name
        <5> QED BY <1>g, <5>1
      <4> QED BY <4>1, <4>2
    <3> HIDE DEF name
    <3>5. /\ scan'.object = scan.object /\ scan'.array = scan.array /\ scan'.first = scan.first
          /\ scan'.depth = scan.depth /\ scan'.over = scan.over /\ scan'.inStr = scan.inStr
          /\ scan'.esc = scan.esc /\ scan'.reading = scan.reading /\ scan'.key = scan.key
          /\ scan'.pendingKey = scan.pendingKey /\ ~scan'.expectKey
          /\ scan'.has = scan.has \cup ({name} \ {Json!None})
      BY <1>g, <3>2 DEF Scan
    <3>6. /\ scan'.idNull = IF name = "id" THEN v.k = "null" ELSE scan.idNull
          /\ scan'.method = IF name = "method" THEN Json!MethodOf(scan, v) ELSE scan.method
      BY <1>g, <3>2 DEF Scan
    <3>7. Collected'
      BY <1>2, <1>g, <2>3, <3>3, <3>4, <3>5, <3>6, NameCollected
    <3>8. Ready(scan')
      BY <2>1, <3>5 DEF Ready
    <3> QED BY <1>0, <1>4, <1>5, <1>7, <1>g, <2>1, <2>3, <3>4, <3>5, <3>7, <3>8, BothGoOn
  <2> QED BY <2>4, <2>5
<1> QED BY <1>6, <1>7

\* A comma: at the top object a name may begin.
LEMMA CommaStep ==
  ASSUME ScanInv, Json!Comma
  PROVE  ScanInv'
<1>g. /\ todo \in Todo /\ open \in Stacks /\ Len(open) <= MaxNesting /\ val \in Value
      /\ scan \in Scan /\ scan.depth \in 0 .. MaxNesting /\ view \in View
  BY Given
<1>0. /\ todo = "after" /\ todo' = IF Last(open) = "obj" THEN "key" ELSE "item"
      /\ scan' = Json!Scanned(scan, <<",">>, Json!NoValue) /\ UNCHANGED <<open, val, view>>
  BY DEF Json!Comma, Json!Write, Json!Last, Last
<1>1. open # <<>> /\ Collected
  BY <1>0 DEF ScanInv, Grammar
<1>s. Last(open) \in {"obj", "arr"}
  BY <1>1, <1>g, StackFacts
<1>2. "," \in Alphabet /\ Json!NoValue \in Value
  BY DEF Alphabet, Value
<1>3. scan' = Json!ScanChar(scan, ",", Json!NoValue) /\ scan' \in Scan
  BY <1>0, <1>2, <1>g, OneCharacter, ScanType
<1>4. Grammar'
  BY <1>0, <1>1, <1>s DEF Grammar
<1>5. todo' \in Todo /\ todo' # "start" /\ todo' # "value" /\ todo # "start"
  BY <1>0 DEF Todo
<1>6. CASE ~scan.object
  <2>1. scan.over /\ open[1] = "arr"
    BY <1>1, <1>5, <1>6 DEF ScanInv, InOther
  <2>2. scan' = scan
    BY <1>3, <2>1 DEF Json!ScanChar
  <2> QED BY <1>0, <1>4, <1>5, <1>6, <1>g, <2>1, <2>2, NobodyLooks
<1>7. CASE scan.object
  <2>1. Ready(scan) /\ scan.depth = Len(open) /\ open[1] = "obj"
    BY <1>1, <1>5, <1>7, SMTT(30) DEF ScanInv, InObject
  <2>2. scan' = IF scan.depth = 1 THEN [scan EXCEPT !.expectKey = TRUE, !.pendingKey = Json!None] ELSE scan
    BY <1>3, <1>g, <2>1, Tokens
  <2>3. /\ scan'.object = scan.object /\ scan'.array = scan.array /\ scan'.first = scan.first
        /\ scan'.depth = scan.depth /\ scan'.over = scan.over /\ scan'.inStr = scan.inStr
        /\ scan'.esc = scan.esc /\ scan'.reading = scan.reading /\ scan'.key = scan.key
        /\ scan'.pendingKey = Json!None /\ scan'.has = scan.has
        /\ scan'.idNull = scan.idNull /\ scan'.method = scan.method
        /\ scan.depth = 1 => scan'.expectKey
    BY <1>g, <2>1, <2>2 DEF Scan, Ready
  <2>4. Collected'
    BY <1>0, <1>1, <1>3, <2>3, StillCollected
  <2>5. Ready(scan')
    BY <2>1, <2>3 DEF Ready
  <2> QED BY <1>0, <1>3, <1>4, <1>5, <1>7, <1>g, <2>1, <2>3, <2>4, <2>5, BothGoOn
<1> QED BY <1>6, <1>7

\* A container ends, the top object maybe.
LEMMA CloseStep ==
  ASSUME ScanInv, Json!Close
  PROVE  ScanInv'
<1>g. /\ todo \in Todo /\ open \in Stacks /\ Len(open) <= MaxNesting /\ val \in Value
      /\ scan \in Scan /\ scan.depth \in 0 .. MaxNesting /\ view \in View
  BY Given
<1> DEFINE c == IF Last(open) = "obj" THEN "}" ELSE "]"
<1>0. /\ todo \in {"after", "firstKey", "firstItem"} /\ todo' = Json!AfterValue(open')
      /\ scan' = Json!Scanned(scan, <<c>>, Json!NoValue) /\ open' = Front(open) /\ UNCHANGED <<val, view>>
  BY DEF Json!Close, Json!Write, Json!Last, Last, Json!Front, Front
<1>1. open # <<>> /\ Collected
  BY <1>0 DEF ScanInv, Grammar
<1>s. /\ Len(open) \in Nat \ {0} /\ Last(open) = open[Len(open)]
      /\ open' \in Stacks /\ Len(open') = Len(open) - 1
      /\ open' = <<>> <=> Len(open) = 1
      /\ open' # <<>> => open'[1] = open[1]
  BY <1>0, <1>1, <1>g, StackFacts
<1>2. c \in Alphabet /\ Json!NoValue \in Value
  BY DEF Alphabet, Value
<1>h. c = IF Last(open) = "obj" THEN "}" ELSE "]"
  OBVIOUS
<1> HIDE DEF c
<1>3. scan' = Json!ScanChar(scan, c, Json!NoValue) /\ scan' \in Scan
  BY <1>0, <1>2, <1>g, OneCharacter, ScanType
<1>4. todo' = IF open' = <<>> THEN "end" ELSE "after"
  BY <1>0 DEF Json!AfterValue
<1>5. /\ todo' \in Todo /\ todo' \notin {"start", "value", "firstKey", "key"} /\ todo # "start"
      /\ Len(open') <= MaxNesting
  BY <1>0, <1>4, <1>g, <1>s, NestingAssumption DEF Todo
<1>6. Grammar'
  BY <1>4 DEF Grammar
<1>7. CASE ~scan.object
  <2>1. scan.over /\ open[1] = "arr"
    BY <1>1, <1>5, <1>7 DEF ScanInv, InOther
  <2>2. scan' = scan
    BY <1>3, <2>1 DEF Json!ScanChar
  <2> QED BY <1>0, <1>5, <1>6, <1>7, <1>g, <1>s, <2>1, <2>2, NobodyLooks
<1>8. CASE scan.object
  <2>1. Ready(scan) /\ scan.depth = Len(open) /\ open[1] = "obj"
    BY <1>1, <1>5, <1>8 DEF ScanInv, InObject
  <2>2. /\ scan'.object = scan.object /\ scan'.array = scan.array /\ scan'.first = scan.first
        /\ scan'.depth = scan.depth - 1 /\ (scan.depth # 1 => scan'.over = scan.over)
        /\ scan'.inStr = scan.inStr
        /\ scan'.esc = scan.esc /\ scan'.reading = scan.reading /\ scan'.key = scan.key
        /\ scan'.pendingKey = scan.pendingKey /\ scan'.has = scan.has
        /\ scan'.idNull = scan.idNull /\ scan'.method = scan.method
    <3>1. CASE c = "}"
      <4>1. scan' = [scan EXCEPT !.depth = @ - 1, !.over = (scan.depth = 1)]
        BY <1>3, <1>g, <2>1, <3>1, Tokens
      <4>2. scan.over = FALSE
        BY <1>g, <2>1 DEF Ready, Scan
      <4> QED BY <1>g, <4>1, <4>2, SMTT(30) DEF Scan
    <3>2. CASE c = "]"
      <4>1. scan' = [scan EXCEPT !.depth = @ - 1]
        BY <1>3, <1>g, <2>1, <3>2, Tokens
      <4> QED BY <1>g, <4>1, SMTT(30) DEF Scan
    <3> QED BY <1>h, <3>1, <3>2
  <2>3. Collected'
    BY <1>0, <1>1, <1>3, <2>2, StillCollected
  <2>4. open' # <<>> => Ready(scan')
    BY <1>s, <2>1, <2>2 DEF Ready
  <2>5. scan'.depth = Len(open')
    BY <1>s, <2>1, <2>2
  <2> QED BY <1>0, <1>3, <1>5, <1>6, <1>8, <1>g, <1>s, <2>1, <2>2, <2>3, <2>4, <2>5, BothGoOn
<1> QED BY <1>7, <1>8

\* ScanInv is inductive.
LEMMA NextScan == ScanInv /\ [Json!Next]_jsonVars => ScanInv'
<1> SUFFICES ASSUME ScanInv, [Json!Next]_jsonVars PROVE ScanInv'
  OBVIOUS
<1>n. Json!NoValue \in Value
  BY DEF Value
<1>1. CASE Json!Top
  BY <1>1, TopStep
<1>2. CASE Json!Member
  BY <1>2, MemberStep
<1>3. CASE Json!MemberValue
  <2>1. todo = "value" /\ Json!WriteValue(val) /\ val' = Json!NoValue /\ view' = view
    BY <1>3 DEF Json!MemberValue
  <2>2. val \in Json!Values /\ open # <<>>
    BY <2>1 DEF ScanInv, Grammar
  <2> QED BY <1>n, <2>1, <2>2, ValueStep
<1>4. CASE Json!Item
  <2>1. todo \in {"firstItem", "item"} /\ val' = val /\ view' = view
    BY <1>4 DEF Json!Item
  <2>2. PICK v \in Json!Values : Json!WriteValue(v)
    BY <1>4 DEF Json!Item
  <2>3. open # <<>> /\ val' \in Value
    BY <2>1, Given DEF ScanInv, Grammar
  <2> QED BY <2>1, <2>2, <2>3, ValueStep
<1>5. CASE Json!Comma
  BY <1>5, CommaStep
<1>6. CASE Json!Close
  BY <1>6, CloseStep
<1>7. CASE UNCHANGED jsonVars
  BY <1>7 DEF jsonVars, ScanInv, Json!TypeOK, Grammar, Collected, Json!Defined, AtStart, InObject, InOther, Ready
<1> QED BY <1>1, <1>2, <1>3, <1>4, <1>5, <1>6, <1>7 DEF Json!Next

\* The native scanner gives every message the kind and the method that JSON.parse
\* and the wiretap give it (main.rs and jsonrpc.ts).
THEOREM ProxiesAlwaysAgree == Json!Spec => []ProxiesAgree
<1>1. ASSUME ScanInv PROVE ProxiesAgree
  <2>1. Collected /\ Json!TypeOK /\ scan \in Scan
    BY <1>1 DEF ScanInv
  <2>2. Json!MethodsAgree
    BY <2>1 DEF Json!MethodsAgree, Collected
  <2>3. Json!KindsAgree
    <3> SUFFICES ASSUME todo = "end" PROVE Json!NativeKind = Json!NodeKind
      BY DEF Json!KindsAgree
    <3>k. {"method", "id", "result", "error"} \subseteq Json!Known
      BY DEF Json!Known
    <3>1. CASE scan.object
      <4>1. ~scan.array
        BY <1>1, <3>1 DEF ScanInv, InObject
      <4>2. \A k \in Json!Known : k \in scan.has <=> Json!Defined(k)
        BY <2>1 DEF Collected
      <4>3. ("method" \in scan.has) = Json!Defined("method")
        BY <3>k, <4>2 DEF Json!Defined
      <4>4. ("id" \in scan.has /\ ~scan.idNull) = (Json!Defined("id") /\ view.last["id"].k # "null")
        BY <2>1, <3>k, <4>2 DEF Collected, Json!Defined
      <4>5. ("result" \in scan.has) = Json!Defined("result")
        BY <3>k, <4>2 DEF Json!Defined
      <4>6. ("error" \in scan.has) = Json!Defined("error")
        BY <3>k, <4>2 DEF Json!Defined
      <4>7. Json!NativeKind = Json!KindFrom("method" \in scan.has, "id" \in scan.has /\ ~scan.idNull,
                                  "result" \in scan.has, "error" \in scan.has)
        BY <3>1, <4>1 DEF Json!NativeKind
      <4> QED BY Zenon, <4>3, <4>4, <4>5, <4>6, <4>7 DEF Json!NodeKind
    <3>2. CASE ~scan.object
      <4>1. \A k \in Json!Known : view.last[k] = Json!NoValue
        BY <1>1, <3>2 DEF ScanInv, InOther
      <4>2. ~Json!Defined("method") /\ ~Json!Defined("id") /\ ~Json!Defined("result") /\ ~Json!Defined("error")
        BY <3>k, <4>1 DEF Json!Defined
      <4>3. Json!NodeKind = "unknown"
        BY <4>2 DEF Json!NodeKind, Json!KindFrom
      <4> QED BY <3>2, <4>3 DEF Json!NativeKind
    <3> QED BY <3>1, <3>2
  <2> QED BY <2>1, <2>2, <2>3 DEF ProxiesAgree, Json!ProxiesAgree
<1>2. ScanInv /\ [Json!Next]_(Json!vars) => ScanInv'
  BY NextScan DEF Json!vars, jsonVars
<1> QED BY InitScan, <1>1, <1>2, PTL DEF Json!Spec

-----------------------------------------------------------------------------
(* SseParser.                                                              *)

\* The text ends where a line does.
Closed(s) == s # <<>> => Len(s) \in Sse!EndsIn(s)
EndsInCr(s) == s # <<>> /\ s[Len(s)] = "cr"

\* What was taken off the stream ends where a line does, and dataLines and events
\* are its data; an LF that belongs to its last line end is still to be swallowed.
SseInv ==
  /\ Sse!TypeOK
  /\ Len(sseBuf) <= Len(sseStream) /\ sseStream = Sse!Consumed \o sseBuf
  /\ Closed(Sse!Consumed)
  /\ sawCr => EndsInCr(Sse!Consumed) /\ sseBuf = <<>>
  /\ EndsInCr(Sse!Consumed) /\ ~sawCr => sseBuf # <<>> /\ Head(sseBuf) # "lf"
  /\ dataLines = Sse!DataBefore(Sse!Consumed, Len(Sse!Consumed) + 1)
  /\ sseEvents = Sse!EventsOf(Sse!Consumed)
  /\ ssePc = "idle" /\ sseThrows = 0 => Sse!EndsIn(sseBuf) = {}

\* The bounds of a run.
LEMMA SseBounds == MaxThrows \in Nat /\ MaxSseChunk \in Nat /\ MaxSseStream \in Nat
BY Bounds, SseAssumption

\* The library means the same here and there.
LEMMA SameMin ==
  ASSUME NEW S
  PROVE  Sse!Min(S) = Min(S)
BY DEF Sse!Min, Min

\* So does counting.
LEMMA SameCount ==
  ASSUME NEW S
  PROVE  Sse!Cardinality(S) = Cardinality(S)
BY DEF Sse!Cardinality, Cardinality

\* The n-th place of a set,
LEMMA NthIs ==
  ASSUME NEW S, NEW n
  PROVE  Sse!Nth(S, n) = Min({i \in S : Cardinality({j \in S : j <= i}) >= n})
<1>1. {i \in S : Sse!Cardinality({j \in S : j <= i}) >= n} = {i \in S : Cardinality({j \in S : j <= i}) >= n}
  BY SameCount
<1> QED BY <1>1, SameMin DEF Sse!Nth

\* and what is listed by the places.
LEMMA InOrderIs ==
  ASSUME NEW S, NEW f
  PROVE  Sse!InOrder(S, f) = [n \in 1 .. Cardinality(S) |-> f[Sse!Nth(S, n)]]
BY SameCount DEF Sse!InOrder

(* The members of a set of places, in their order.                         *)

\* A set of places is finite.
LEMMA PlacesFinite ==
  ASSUME NEW b \in Nat, NEW S \in SUBSET (1 .. b)
  PROVE  IsFiniteSet(S) /\ Cardinality(S) \in Nat
<1>1. IsFiniteSet(1 .. b)
  BY FS_Interval
<1>2. IsFiniteSet(S)
  BY <1>1, FS_Subset
<1> QED BY <1>2, FS_CardinalityType

\* The places up to the last are all of them.
LEMMA NthMember ==
  ASSUME NEW b \in Nat, NEW S \in SUBSET (1 .. b), NEW n \in 1 .. Cardinality(S)
  PROVE  /\ Sse!Nth(S, n) \in S
         /\ Cardinality({j \in S : j <= Sse!Nth(S, n)}) >= n
         /\ \A i \in S : Cardinality({j \in S : j <= i}) >= n => Sse!Nth(S, n) <= i
<1> DEFINE Late == {i \in S : Cardinality({j \in S : j <= i}) >= n}
<1>1. IsFiniteSet(S) /\ Cardinality(S) \in Nat
  BY PlacesFinite
<1>2. S # {}
  <2> SUFFICES ASSUME S = {} PROVE FALSE
    OBVIOUS
  <2>1. Cardinality(S) = 0
    BY FS_EmptySet
  <2> QED BY <2>1
<1>3. Max(S) \in S /\ \A i \in S : i <= Max(S)
  BY <1>2, HasLargest
<1>4. {j \in S : j <= Max(S)} = S
  BY <1>3
<1>5. Max(S) \in Late
  BY <1>1, <1>3, <1>4
<1>6. Late \in SUBSET Nat /\ Late # {}
  <2>1. S \in SUBSET Nat /\ Late \in SUBSET S
    OBVIOUS
  <2> QED BY <1>5, <2>1
<1>7. Sse!Nth(S, n) = Min(Late)
  BY NthIs
<1>8. Min(Late) \in Late /\ \A i \in Late : Min(Late) <= i
  <2> HIDE DEF Late
  <2> QED BY <1>6, HasSmallest
<1> QED BY <1>7, <1>8

\* A later place comes last.
LEMMA NthGrows ==
  ASSUME NEW b \in Nat, NEW S \in SUBSET (1 .. b), NEW k \in Nat, k > b
  PROVE  /\ Cardinality(S \cup {k}) = Cardinality(S) + 1
         /\ \A n \in 1 .. Cardinality(S) : Sse!Nth(S \cup {k}, n) = Sse!Nth(S, n)
         /\ Sse!Nth(S \cup {k}, Cardinality(S) + 1) = k
<1> DEFINE T == S \cup {k}
           c == Cardinality(S)
<1>1. IsFiniteSet(S) /\ c \in Nat
  BY PlacesFinite
<1>2. k \notin S /\ \A i \in S : i < k /\ i \in Nat
  OBVIOUS
<1>3. Cardinality(T) = c + 1
  BY <1>1, <1>2, FS_AddElement
<1>4. \A i \in S : {j \in T : j <= i} = {j \in S : j <= i}
  BY <1>2
<1>5. {j \in T : j <= k} = T
  <2>1. \A j \in T : j <= k
    BY <1>2
  <2> QED BY <2>1
<1>6. ASSUME NEW n \in 1 .. c PROVE Sse!Nth(T, n) = Sse!Nth(S, n)
  <2> DEFINE Late == {i \in T : Cardinality({j \in T : j <= i}) >= n}
             m == Sse!Nth(S, n)
  <2>1. /\ m \in S /\ Cardinality({j \in S : j <= m}) >= n
        /\ \A i \in S : Cardinality({j \in S : j <= i}) >= n => m <= i
    <3>1. n \in 1 .. Cardinality(S)
      OBVIOUS
    <3>2. /\ Sse!Nth(S, n) \in S /\ Cardinality({j \in S : j <= Sse!Nth(S, n)}) >= n
          /\ \A i \in S : Cardinality({j \in S : j <= i}) >= n => Sse!Nth(S, n) <= i
      <4>1. \A l \in 1 .. Cardinality(S) :
              /\ Sse!Nth(S, l) \in S /\ Cardinality({j \in S : j <= Sse!Nth(S, l)}) >= l
              /\ \A i \in S : Cardinality({j \in S : j <= i}) >= l => Sse!Nth(S, l) <= i
        BY NthMember
      <4> QED BY <3>1, <4>1
    <3> QED BY <3>2
  <2> HIDE DEF m
  <2>2. m \in Late
    BY <1>4, <2>1
  <2>3. \A i \in Late : m <= i
    BY <1>2, <1>4, <2>1
  <2>4. Late \in SUBSET Nat
    BY <1>2
  <2>5. Sse!Nth(T, n) = Min(Late)
    BY NthIs
  <2>6. Min(Late) = m
    <3> HIDE DEF Late
    <3> QED BY <2>2, <2>3, <2>4, SmallestIsMin
  <2> QED BY <2>5, <2>6 DEF m
<1>7. Sse!Nth(T, c + 1) = k
  <2> DEFINE Late == {i \in T : Cardinality({j \in T : j <= i}) >= c + 1}
  <2>1. k \in Late
    BY <1>1, <1>3, <1>5
  <2>2. ASSUME NEW i \in S PROVE i \notin Late
    <3> DEFINE A == {j \in S : j <= i}
    <3>1. A \in SUBSET S
      OBVIOUS
    <3>2. Cardinality(A) <= c /\ Cardinality(A) \in Nat
      <4>1. IsFiniteSet(A) /\ Cardinality(A) <= Cardinality(S)
        BY <1>1, <3>1, FS_Subset
      <4> QED BY <4>1, FS_CardinalityType
    <3>3. {j \in T : j <= i} = A
      BY <1>4
    <3>4. ~(Cardinality(A) >= c + 1)
      BY <1>1, <3>2
    <3> QED BY <3>3, <3>4
  <2>3. Late = {k}
    BY <2>1, <2>2
  <2>4. Sse!Nth(T, c + 1) = Min(Late)
    BY NthIs
  <2>5. Min({k}) = k
    <3>1. {k} \in SUBSET Nat /\ k \in {k} /\ \A i \in {k} : k <= i
      OBVIOUS
    <3> QED BY <3>1, SmallestIsMin
  <2> QED BY <2>3, <2>4, <2>5
<1> QED BY <1>3, <1>6, <1>7

\* T has one place more than S, after the others; f and g have values of V at them.
OneMore(b, S, f, k, T, g, V) ==
  /\ b \in Nat /\ S \in SUBSET (1 .. b) /\ k \in Nat /\ k > b /\ T = S \cup {k}
  /\ f \in [S -> V] /\ g \in [T -> V] /\ \A i \in S : g[i] = f[i]

\* What is listed stays where it is when a later place is added.
LEMMA ListGrows ==
  ASSUME NEW b, NEW S, NEW f, NEW k, NEW T, NEW g, NEW V, OneMore(b, S, f, k, T, g, V)
  PROVE  Sse!InOrder(S, f) \in Seq(V) /\ Sse!InOrder(T, g) = Append(Sse!InOrder(S, f), g[k])
<1>0. /\ b \in Nat /\ S \in SUBSET (1 .. b) /\ k \in Nat /\ k > b /\ T = S \cup {k}
      /\ f \in [S -> V] /\ g \in [T -> V] /\ \A i \in S : g[i] = f[i]
  BY DEF OneMore
<1> DEFINE c == Cardinality(S)
           old == Sse!InOrder(S, f)
           new == Sse!InOrder(T, g)
<1>1. c \in Nat
  BY <1>0, PlacesFinite
<1>2. /\ Cardinality(T) = c + 1
      /\ \A n \in 1 .. c : Sse!Nth(T, n) = Sse!Nth(S, n)
      /\ Sse!Nth(T, c + 1) = k
  <2>1. /\ Cardinality(S \cup {k}) = Cardinality(S) + 1
        /\ \A n \in 1 .. Cardinality(S) : Sse!Nth(S \cup {k}, n) = Sse!Nth(S, n)
        /\ Sse!Nth(S \cup {k}, Cardinality(S) + 1) = k
    BY <1>0, NthGrows, ZenonT(40)
  <2> QED BY <1>0, <2>1
<1>3. \A n \in 1 .. c : Sse!Nth(S, n) \in S
  BY <1>0, NthMember
<1>4. old = [n \in 1 .. c |-> f[Sse!Nth(S, n)]]
  BY <1>0, InOrderIs
<1>5. new = [n \in 1 .. c + 1 |-> g[Sse!Nth(T, n)]]
  BY <1>0, <1>2, InOrderIs
<1>6. \A n \in 1 .. c : f[Sse!Nth(S, n)] \in V
  BY <1>0, <1>3
<1> HIDE DEF c, old, new
<1>7. old \in Seq(V) /\ Len(old) = c /\ \A n \in 1 .. c : old[n] = f[Sse!Nth(S, n)]
  BY <1>0, <1>1, <1>4, <1>6
<1>8. k \in T /\ g[k] \in V
  BY <1>0
<1>9. \A n \in 1 .. c : new[n] = old[n]
  <2> SUFFICES ASSUME NEW n \in 1 .. c PROVE new[n] = old[n]
    BY <1>0
  <2>1. n \in 1 .. c + 1
    BY <1>0, <1>1
  <2>2. new[n] = g[Sse!Nth(S, n)]
    BY <1>0, <1>2, <1>5, <2>1
  <2>3. Sse!Nth(S, n) \in S
    BY <1>0, <1>3
  <2> QED BY <1>0, <1>7, <2>2, <2>3
<1>10. new[c + 1] = g[k]
  BY <1>0, <1>1, <1>2, <1>5
<1>11. new \in Seq(V) /\ Len(new) = c + 1
  <2>1. \A n \in 1 .. c + 1 : g[Sse!Nth(T, n)] \in V
    <3> SUFFICES ASSUME NEW n \in 1 .. c + 1 PROVE Sse!Nth(T, n) \in T
      BY <1>0
    <3>1. CASE n = c + 1
      BY <1>0, <1>2, <3>1
    <3>2. CASE n # c + 1
      <4>1. n \in 1 .. c
        BY <1>0, <1>1, <3>2
      <4> QED BY <1>0, <1>2, <1>3, <4>1
    <3> QED BY <1>0, <3>1, <3>2
  <2> DEFINE e == c + 1
             h(n) == g[Sse!Nth(T, n)]
  <2>2. e \in Nat /\ \A n \in 1 .. e : h(n) \in V
    BY <1>1, <2>1
  <2>3. new = [n \in 1 .. e |-> h(n)]
    BY <1>0, <1>5
  <2> HIDE DEF e, h
  <2>4. new \in Seq(V) /\ Len(new) = e
    BY <1>0, <2>2, <2>3
  <2> QED BY <1>0, <2>4 DEF e
<1>12. /\ Append(old, g[k]) \in Seq(V) /\ Len(Append(old, g[k])) = c + 1
       /\ Append(old, g[k])[c + 1] = g[k]
       /\ \A n \in 1 .. c : Append(old, g[k])[n] = old[n]
  BY <1>0, <1>7, <1>8, AppendProperties
<1>13. \A n \in 1 .. Len(new) : new[n] = Append(old, g[k])[n]
  <2> SUFFICES ASSUME NEW n \in 1 .. c + 1 PROVE new[n] = Append(old, g[k])[n]
    BY <1>0, <1>11
  <2>1. n = c + 1 \/ n \in 1 .. c
    BY <1>0, <1>1
  <2> QED BY <1>0, <1>9, <1>10, <1>12, <2>1
<1>14. new = Append(old, g[k])
  BY <1>0, <1>11, <1>12, <1>13, SeqEqual
<1> QED BY <1>0, <1>7, <1>14 DEF old, new

(* A text and its lines.                                                   *)

\* Everything that is looked for in a text is a place where a line ends.
LEMMA EndFacts ==
  ASSUME NEW S, NEW s \in Seq(S)
  PROVE  /\ Len(s) \in Nat /\ Sse!EndsIn(s) \in SUBSET (1 .. Len(s))
         /\ \A i \in 1 .. Len(s) : i \in Sse!EndsIn(s) <=> s[i] \in {"cr", "lf"}
         /\ Sse!LineEnds(s) \in SUBSET Sse!EndsIn(s) /\ Sse!EventEnds(s) \in SUBSET Sse!LineEnds(s)
         /\ Sse!Full(s) \in SUBSET Sse!EventEnds(s) /\ \A i : Sse!Fields(s, i) \in SUBSET Sse!LineEnds(s)
         /\ Sse!LineEnds(s) \in SUBSET (1 .. Len(s)) /\ Sse!EventEnds(s) \in SUBSET (1 .. Len(s))
<1>1. Len(s) \in Nat /\ Sse!EndsIn(s) \in SUBSET (1 .. Len(s))
      /\ \A i \in 1 .. Len(s) : i \in Sse!EndsIn(s) <=> s[i] \in {"cr", "lf"}
  BY DEF Sse!EndsIn
<1>2. Sse!LineEnds(s) \in SUBSET Sse!EndsIn(s)
  BY DEF Sse!LineEnds
<1>3. Sse!EventEnds(s) \in SUBSET Sse!LineEnds(s)
  BY DEF Sse!EventEnds
<1>4. Sse!Full(s) \in SUBSET Sse!EventEnds(s)
  BY DEF Sse!Full
<1>5. \A i : Sse!Fields(s, i) \in SUBSET Sse!LineEnds(s)
  BY DEF Sse!Fields
<1> QED BY <1>1, <1>2, <1>3, <1>4, <1>5

\* The last place of a set before i, or 0.
LEMMA BeforeFacts ==
  ASSUME NEW b \in Nat, NEW S \in SUBSET (1 .. b), NEW i \in Nat \ {0}
  PROVE  /\ Sse!Before(i, S) \in {0} \cup S /\ Sse!Before(i, S) \in Nat /\ Sse!Before(i, S) < i
         /\ \A j \in S : j < i => j <= Sse!Before(i, S)
<1> DEFINE B == {0} \cup {j \in S : j < i}
<1>0. S \in SUBSET Nat
  OBVIOUS
<1>1. B \in SUBSET Nat /\ B # {} /\ \A j \in B : j <= i
  <2>1. {j \in S : j < i} \in SUBSET Nat
    BY <1>0
  <2>2. B \in SUBSET Nat
    BY <2>1
  <2>3. \A j \in B : j = 0 \/ j < i
    OBVIOUS
  <2>4. \A j \in B : j <= i
    <3> SUFFICES ASSUME NEW j \in B PROVE j <= i
      OBVIOUS
    <3>1. j \in Nat
      BY <2>2
    <3> HIDE DEF B
    <3> QED BY <2>3, <3>1
  <2> QED BY <2>2, <2>4
<1>2. Sse!Before(i, S) = Max(B)
  BY DEF Sse!Before, Sse!Max, Max
<1>3. Max(B) \in B /\ \A j \in B : j <= Max(B)
  <2> HIDE DEF B
  <2> QED BY <1>1, HasLargest
<1> QED BY <1>1, <1>2, <1>3

\* There is one such place,
LEMMA BeforeIs ==
  ASSUME NEW b \in Nat, NEW S \in SUBSET (1 .. b), NEW i \in Nat \ {0},
         NEW m \in {0} \cup S, m < i, \A j \in S : j < i => j <= m
  PROVE  Sse!Before(i, S) = m
<1> DEFINE B == {0} \cup {j \in S : j < i}
<1>0. S \in SUBSET Nat
  OBVIOUS
<1>1. B \in SUBSET Nat /\ m \in B /\ m \in Nat
  <2>1. {j \in S : j < i} \in SUBSET Nat
    BY <1>0
  <2>2. B \in SUBSET Nat
    BY <2>1
  <2>3. m \in B
    OBVIOUS
  <2> QED BY <2>2, <2>3
<1>2. \A j \in B : j <= m
  BY <1>1
<1>3. Max(B) = m
  <2> HIDE DEF B
  <2> QED BY <1>1, <1>2, LargestIsMax
<1> QED BY <1>3 DEF Sse!Before, Sse!Max, Max

\* and only what lies before i decides which.
LEMMA BeforeSame ==
  ASSUME NEW i, NEW S, NEW T, {j \in S : j < i} = {j \in T : j < i}
  PROVE  Sse!Before(i, S) = Sse!Before(i, T)
BY DEF Sse!Before, Sse!Max, Max

\* The line before a place.
LEMMA LineAtFacts ==
  ASSUME NEW S, NEW s \in Seq(S), NEW i \in 1 .. Len(s) + 1
  PROVE  /\ Sse!LineAt(s, i) \in Seq(S)
         /\ Sse!Before(i, Sse!EndsIn(s)) \in 0 .. i - 1 /\ Len(Sse!LineAt(s, i)) = (i - 1) - Sse!Before(i, Sse!EndsIn(s))
<1> DEFINE m == Sse!Before(i, Sse!EndsIn(s))
<1>1. Len(s) \in Nat /\ Sse!EndsIn(s) \in SUBSET (1 .. Len(s))
  BY EndFacts
<1>2. i \in Nat \ {0} /\ i - 1 \in Nat /\ i - 1 <= Len(s)
  BY <1>1
<1>3. m \in Nat /\ m < i
  BY <1>1, <1>2, BeforeFacts
<1>4. Sse!LineAt(s, i) = SubSeq(s, m + 1, i - 1)
  BY DEF Sse!LineAt
<1> HIDE DEF m
<1> DEFINE h == i - 1
<1>5. h \in Nat /\ m <= h /\ h <= Len(s)
  BY <1>2, <1>3
<1> HIDE DEF h
<1>6. SubSeq(s, m + 1, h) \in Seq(S) /\ Len(SubSeq(s, m + 1, h)) = h - m
  BY <1>3, <1>5, PartFacts
<1>7. m \in 0 .. h
  BY <1>3, <1>5
<1> QED BY <1>4, <1>6, <1>7 DEF h, m

-----------------------------------------------------------------------------
\* More text changes nothing of the ends before it,
LEMMA EndsStay ==
  ASSUME NEW S, NEW s \in Seq(S), NEW t \in Seq(S), NEW i \in 1 .. Len(s)
  PROVE  /\ i \in Sse!EndsIn(s \o t) <=> i \in Sse!EndsIn(s)
         /\ i \in Sse!LineEnds(s \o t) <=> i \in Sse!LineEnds(s)
<1> DEFINE u == s \o t
<1>1. /\ u \in Seq(S) /\ Len(u) = Len(s) + Len(t) /\ Len(s) \in Nat /\ Len(t) \in Nat
      /\ \A j \in 1 .. Len(s) + Len(t) : u[j] = IF j <= Len(s) THEN s[j] ELSE t[j - Len(s)]
  BY ConcatProperties
<1>2. \A j \in 1 .. Len(s) : j \in 1 .. Len(u) /\ u[j] = s[j]
  BY <1>1
<1> HIDE DEF u
<1>3. i \in Sse!EndsIn(u) <=> i \in Sse!EndsIn(s)
  BY <1>1, <1>2 DEF Sse!EndsIn
<1>4. i > 1 => i - 1 \in 1 .. Len(s)
  BY <1>1
<1>5. i > 1 => u[i - 1] = s[i - 1]
  BY <1>2, <1>4
<1>6. i \in Sse!LineEnds(u) <=> i \in Sse!LineEnds(s)
  BY <1>2, <1>3, <1>5 DEF Sse!LineEnds
<1> QED BY <1>3, <1>6 DEF u

\* nor of the lines,
LEMMA LineStays ==
  ASSUME NEW S, NEW s \in Seq(S), NEW t \in Seq(S), NEW i \in 1 .. Len(s) + 1
  PROVE  Sse!LineAt(s \o t, i) = Sse!LineAt(s, i)
<1> DEFINE u == s \o t
           m == Sse!Before(i, Sse!EndsIn(s))
<1>1. /\ u \in Seq(S) /\ Len(u) = Len(s) + Len(t) /\ Len(s) \in Nat /\ Len(t) \in Nat
  BY ConcatProperties
<1>2. /\ Sse!EndsIn(s) \in SUBSET (1 .. Len(s)) /\ Sse!EndsIn(u) \in SUBSET (1 .. Len(u))
  BY <1>1, EndFacts
<1>3. {j \in Sse!EndsIn(u) : j < i} = {j \in Sse!EndsIn(s) : j < i}
  <2>1. ASSUME NEW j \in 1 .. Len(u), j < i PROVE j \in Sse!EndsIn(u) <=> j \in Sse!EndsIn(s)
    <3>1. j \in 1 .. Len(s)
      BY <1>1, <2>1
    <3> QED BY <3>1, EndsStay
  <2>2. Sse!EndsIn(s) \in SUBSET (1 .. Len(u))
    BY <1>1, <1>2
  <2> QED BY <1>2, <2>1, <2>2
<1>4. Sse!Before(i, Sse!EndsIn(u)) = m
  BY <1>3, BeforeSame
<1>5. m \in 0 .. i - 1
  BY LineAtFacts
<1>6. Sse!LineAt(u, i) = SubSeq(u, m + 1, i - 1) /\ Sse!LineAt(s, i) = SubSeq(s, m + 1, i - 1)
  BY <1>4 DEF Sse!LineAt
<1> HIDE DEF m
<1> DEFINE h == i - 1
<1>7. h \in Nat /\ m \in Nat /\ m <= h /\ h <= Len(s)
  BY <1>1, <1>5
<1> HIDE DEF h
<1>8. SubSeq(s \o t, m + 1, h) = SubSeq(s, m + 1, h)
  BY <1>7, PartOfConcat
<1> QED BY <1>6, <1>8 DEF h

\* nor of where events end.
LEMMA EventEndsStay ==
  ASSUME NEW S, NEW s \in Seq(S), NEW t \in Seq(S), NEW i \in 1 .. Len(s)
  PROVE  i \in Sse!EventEnds(s \o t) <=> i \in Sse!EventEnds(s)
<1>1. i \in Sse!LineEnds(s \o t) <=> i \in Sse!LineEnds(s)
  BY EndsStay
<1>2. i \in 1 .. Len(s) + 1
  OBVIOUS
<1>3. Sse!LineAt(s \o t, i) = Sse!LineAt(s, i)
  BY <1>2, LineStays
<1> QED BY <1>1, <1>3 DEF Sse!EventEnds

\* The data before a place are those of the lines before it.
LEMMA DataStays ==
  ASSUME NEW S, NEW s \in Seq(S), NEW t \in Seq(S), NEW i \in 1 .. Len(s) + 1
  PROVE  /\ Sse!Before(i, Sse!EventEnds(s \o t)) = Sse!Before(i, Sse!EventEnds(s))
         /\ Sse!Fields(s \o t, i) = Sse!Fields(s, i)
         /\ Sse!DataBefore(s \o t, i) = Sse!DataBefore(s, i)
         /\ Sse!DataAt(s \o t, i) = Sse!DataAt(s, i)
<1> DEFINE u == s \o t
           e == Sse!Before(i, Sse!EventEnds(s))
<1>1. /\ u \in Seq(S) /\ Len(u) = Len(s) + Len(t) /\ Len(s) \in Nat /\ Len(t) \in Nat
  BY ConcatProperties
<1>2. /\ Sse!EventEnds(s) \in SUBSET (1 .. Len(s)) /\ Sse!EventEnds(u) \in SUBSET (1 .. Len(u))
      /\ Sse!LineEnds(s) \in SUBSET (1 .. Len(s)) /\ Sse!LineEnds(u) \in SUBSET (1 .. Len(u))
  BY <1>1, EndFacts
<1>3. \A j \in 1 .. Len(u) : j < i => j \in 1 .. Len(s) /\ j \in 1 .. Len(s) + 1
  BY <1>1
<1>4. \A j \in 1 .. Len(s) : j \in 1 .. Len(u)
  BY <1>1
<1>5. {j \in Sse!EventEnds(u) : j < i} = {j \in Sse!EventEnds(s) : j < i}
  <2>1. \A j \in 1 .. Len(u) : j < i => (j \in Sse!EventEnds(u) <=> j \in Sse!EventEnds(s))
    BY <1>3, EventEndsStay
  <2> QED BY <1>2, <1>4, <2>1
<1>6. Sse!Before(i, Sse!EventEnds(u)) = e
  BY <1>5, BeforeSame
<1>7. Sse!Fields(u, i) = Sse!Fields(s, i)
  <2>1. \A j \in 1 .. Len(u) : j < i => /\ j \in Sse!LineEnds(u) <=> j \in Sse!LineEnds(s)
                                        /\ Sse!LineAt(u, j) = Sse!LineAt(s, j)
    BY <1>3, EndsStay, LineStays
  <2>2. Sse!Fields(u, i) = {j \in Sse!LineEnds(u) : e < j /\ j < i /\ Head(Sse!LineAt(u, j)) = "data"}
    BY <1>6 DEF Sse!Fields
  <2>3. Sse!Fields(s, i) = {j \in Sse!LineEnds(s) : e < j /\ j < i /\ Head(Sse!LineAt(s, j)) = "data"}
    BY DEF Sse!Fields
  <2> HIDE DEF u, e
  <2> QED BY <1>2, <1>4, <2>1, <2>2, <2>3
<1>8. \A j \in Sse!Fields(s, i) : Sse!Value(Sse!LineAt(u, j)) = Sse!Value(Sse!LineAt(s, j))
  <2>1. \A j \in Sse!Fields(s, i) : j \in 1 .. Len(s) + 1
    BY <1>2 DEF Sse!Fields
  <2> QED BY <2>1, LineStays
<1>9. Sse!DataBefore(u, i) = Sse!DataBefore(s, i)
  <2>1. [j \in Sse!Fields(u, i) |-> Sse!Value(Sse!LineAt(u, j))] = [j \in Sse!Fields(s, i) |-> Sse!Value(Sse!LineAt(s, j))]
    <3> HIDE DEF u
    <3> QED BY <1>7, <1>8
  <2> QED BY <1>7, <2>1 DEF Sse!DataBefore
<1> QED BY <1>6, <1>7, <1>9 DEF Sse!DataAt

\* The events before a place.
LEMMA FullStays ==
  ASSUME NEW S, NEW s \in Seq(S), NEW t \in Seq(S), NEW i \in 1 .. Len(s)
  PROVE  i \in Sse!Full(s \o t) <=> i \in Sse!Full(s)
<1>1. i \in 1 .. Len(s) + 1
  OBVIOUS
<1>2. Sse!DataAt(s \o t, i) = Sse!DataAt(s, i) /\ (i \in Sse!EventEnds(s \o t) <=> i \in Sse!EventEnds(s))
  BY <1>1, DataStays, EventEndsStay
<1> QED BY <1>2 DEF Sse!Full

\* t is what the loop takes off the stream after s: a line and its end, at i, of
\* which the LF of a CRLF is part.
TakesOff(s, t, i) ==
  /\ Closed(s) /\ ~(EndsInCr(s) /\ t[1] = "lf")
  /\ i \in Sse!EndsIn(t) /\ \A j \in Sse!EndsIn(t) : i <= j
  /\ Len(t) = i \/ (Len(t) = i + 1 /\ t[i] = "cr" /\ t[i + 1] = "lf")

\* What a taken line adds to the text.
LEMMA TakesEnd ==
  ASSUME NEW S, NEW s \in Seq(S), NEW t \in Seq(S), NEW i, TakesOff(s, t, i)
  PROVE  /\ Sse!LineEnds(s \o t) = Sse!LineEnds(s) \cup {Len(s) + i}
         /\ Sse!EndsIn(s \o t) \in SUBSET (1 .. Len(s \o t))
         /\ Closed(s \o t)
         /\ \A j \in Sse!EndsIn(s \o t) : j < Len(s) + i => j \in Sse!EndsIn(s)
<1> DEFINE u == s \o t
           c == Len(s)
           k == c + i
<1>1. /\ u \in Seq(S) /\ Len(u) = c + Len(t) /\ c \in Nat /\ Len(t) \in Nat
      /\ \A j \in 1 .. c + Len(t) : u[j] = IF j <= c THEN s[j] ELSE t[j - c]
  BY ConcatProperties
<1>2. /\ Closed(s) /\ ~(EndsInCr(s) /\ t[1] = "lf")
      /\ i \in Sse!EndsIn(t) /\ \A j \in Sse!EndsIn(t) : i <= j
      /\ Len(t) = i \/ (Len(t) = i + 1 /\ t[i] = "cr" /\ t[i + 1] = "lf")
  BY DEF TakesOff
<1>3. /\ Sse!EndsIn(t) \in SUBSET (1 .. Len(t)) /\ Sse!EndsIn(s) \in SUBSET (1 .. c)
      /\ \A j \in 1 .. Len(t) : j \in Sse!EndsIn(t) <=> t[j] \in {"cr", "lf"}
  BY EndFacts
<1>4. i \in 1 .. Len(t) /\ t[i] \in {"cr", "lf"}
  BY <1>2, <1>3
<1> HIDE DEF u, c
<1>5. /\ Sse!EndsIn(u) \in SUBSET (1 .. Len(u)) /\ Sse!LineEnds(u) \in SUBSET Sse!EndsIn(u)
      /\ Sse!LineEnds(s) \in SUBSET (1 .. c)
      /\ \A j \in 1 .. Len(u) : j \in Sse!EndsIn(u) <=> u[j] \in {"cr", "lf"}
  BY <1>1, EndFacts DEF c
<1>6. \A j \in 1 .. c : /\ j \in Sse!EndsIn(u) <=> j \in Sse!EndsIn(s)
                        /\ j \in Sse!LineEnds(u) <=> j \in Sse!LineEnds(s)
  BY EndsStay DEF u, c
<1>7. \A j \in 1 .. Len(t) : /\ u[c + j] = t[j] /\ c + j \in 1 .. Len(u)
                             /\ c + j \in Sse!EndsIn(u) <=> t[j] \in {"cr", "lf"}
  <2> SUFFICES ASSUME NEW j \in 1 .. Len(t)
               PROVE  u[c + j] = t[j] /\ c + j \in 1 .. Len(u)
    BY <1>5
  <2>1. c + j \in 1 .. c + Len(t) /\ ~(c + j <= c) /\ (c + j) - c = j
    BY <1>1
  <2> QED BY <1>1, <2>1
<1>8. k \in Sse!EndsIn(u) /\ u[k] = t[i]
  BY <1>4, <1>7
\* No LF of a CRLF is at k.
<1>9. ~(u[k] = "lf" /\ k > 1 /\ u[k - 1] = "cr")
  <2> SUFFICES ASSUME u[k] = "lf", k > 1, u[k - 1] = "cr" PROVE FALSE
    OBVIOUS
  <2>1. CASE i = 1
    <3>1. k - 1 = c /\ c \in 1 .. c + Len(t) /\ c <= c
      BY <1>1, <2>1
    <3>2. u[c] = s[c] /\ c # 0
      BY <1>1, <3>1
    <3>3. s # <<>>
      BY <3>2 DEF c
    <3>4. EndsInCr(s)
      BY <3>1, <3>2, <3>3 DEF EndsInCr, c
    <3>5. t[1] = "lf"
      BY <1>8, <2>1
    <3> QED BY <1>2, <3>4, <3>5
  <2>2. CASE i # 1
    <3> DEFINE j == i - 1
    <3>1. j \in 1 .. Len(t) /\ j < i /\ k - 1 = c + j
      BY <1>1, <1>4, <2>2
    <3> HIDE DEF j
    <3>2. t[j] = "cr"
      BY <1>7, <3>1
    <3>3. j \in Sse!EndsIn(t)
      BY <1>3, <3>1, <3>2
    <3>4. i <= j
      BY <1>2, <3>3
    <3> QED BY <1>4, <3>1, <3>4
  <2> QED BY <2>1, <2>2
<1>10. k \in Sse!LineEnds(u)
  BY <1>8, <1>9 DEF Sse!LineEnds
<1>11. ASSUME NEW j \in Sse!EndsIn(u), j > c, j # k
       PROVE  j = k + 1 /\ u[j] = "lf" /\ u[k] = "cr" /\ k \in Nat /\ k >= 1
  <2> DEFINE l == j - c
  <2>1. l \in 1 .. Len(t) /\ j = c + l /\ l # i
    BY <1>1, <1>5, <1>11
  <2> HIDE DEF l
  <2>2. l \in Sse!EndsIn(t)
    BY <1>3, <1>7, <2>1
  <2>3. i <= l /\ i < l
    BY <1>2, <1>4, <2>1, <2>2
  <2>4. l = i + 1 /\ t[i] = "cr" /\ t[i + 1] = "lf"
    BY <1>2, <1>4, <2>1, <2>3
  <2>5. j = k + 1 /\ k \in Nat /\ k >= 1
    BY <1>1, <1>4, <2>1, <2>4
  <2>6. u[j] = t[l]
    BY <1>7, <2>1
  <2> QED BY <1>8, <2>4, <2>5, <2>6
<1>12. ASSUME NEW j \in Sse!LineEnds(u), j > c PROVE j = k
  <2> SUFFICES ASSUME j # k PROVE FALSE
    OBVIOUS
  <2>1. j \in Sse!EndsIn(u)
    BY <1>5
  <2>2. j = k + 1 /\ u[j] = "lf" /\ u[k] = "cr" /\ k \in Nat /\ k >= 1
    BY <1>11, <1>12, <2>1
  <2>3. j > 1 /\ j - 1 = k
    BY <2>2
  <2>4. ~(u[j] = "lf" /\ j > 1 /\ u[j - 1] = "cr")
    BY DEF Sse!LineEnds
  <2> QED BY <2>2, <2>3, <2>4
<1>13. Sse!LineEnds(u) = Sse!LineEnds(s) \cup {k}
  <2>1. ASSUME NEW j \in Sse!LineEnds(u) PROVE j \in Sse!LineEnds(s) \cup {k}
    <3>1. j \in 1 .. Len(u)
      BY <1>5
    <3>2. CASE j > c
      BY <1>12, <3>2
    <3>3. CASE ~(j > c)
      <4>1. j \in 1 .. c
        BY <1>1, <3>1, <3>3
      <4> QED BY <1>6, <4>1
    <3> QED BY <3>2, <3>3
  <2>2. \A j \in Sse!LineEnds(s) : j \in Sse!LineEnds(u)
    BY <1>5, <1>6
  <2> QED BY <1>10, <2>1, <2>2
<1>14. Closed(u)
  <2>1. Len(u) \in Sse!EndsIn(u)
    <3>1. CASE Len(t) = i
      BY <1>1, <1>8, <3>1
    <3>2. CASE Len(t) = i + 1 /\ t[i + 1] = "lf"
      <4>1. i + 1 \in 1 .. Len(t) /\ c + (i + 1) = Len(u)
        BY <1>1, <1>4, <3>2
      <4>2. t[i + 1] \in {"cr", "lf"}
        BY <3>2
      <4> QED BY <1>7, <4>1, <4>2
    <3> QED BY <1>2, <3>1, <3>2
  <2> QED BY <2>1 DEF Closed
<1>15. ASSUME NEW j \in Sse!EndsIn(u), j < k PROVE j \in Sse!EndsIn(s)
  <2>1. j \in 1 .. Len(u) /\ k \in Int
    BY <1>1, <1>4, <1>5
  <2>2. ~(j > c)
    <3> SUFFICES ASSUME j > c PROVE FALSE
      OBVIOUS
    <3>1. j = k + 1
      BY <1>11, <1>15, <2>1
    <3> QED BY <1>15, <2>1, <3>1
  <2>3. j \in 1 .. c
    BY <1>1, <2>1, <2>2
  <2> QED BY <1>6, <2>3
<1> QED BY <1>5, <1>13, <1>14, <1>15 DEF u, c

\* The line that was taken.
LEMMA TakesLine ==
  ASSUME NEW S, NEW s \in Seq(S), NEW t \in Seq(S), NEW i, TakesOff(s, t, i)
  PROVE  Sse!LineAt(s \o t, Len(s) + i) = SubSeq(t, 1, i - 1)
<1> DEFINE u == s \o t
           c == Len(s)
           k == c + i
<1>1. /\ u \in Seq(S) /\ Len(u) = c + Len(t) /\ c \in Nat /\ Len(t) \in Nat
  BY ConcatProperties
<1>2. /\ i \in 1 .. Len(t) /\ Closed(s)
  BY EndFacts DEF TakesOff
<1>3. /\ Sse!EndsIn(u) \in SUBSET (1 .. Len(u))
      /\ \A j \in Sse!EndsIn(u) : j < k => j \in Sse!EndsIn(s)
  BY TakesEnd
<1>4. Sse!EndsIn(s) \in SUBSET (1 .. c) /\ \A j \in 1 .. c : j \in Sse!EndsIn(u) <=> j \in Sse!EndsIn(s)
  BY EndFacts, EndsStay
<1>5. c \in {0} \cup Sse!EndsIn(u)
  <2>1. CASE s = <<>>
    BY <2>1
  <2>2. CASE s # <<>>
    <3>1. c \in Sse!EndsIn(s)
      BY <1>2, <2>2 DEF Closed
    <3> QED BY <1>4, <3>1
  <2> QED BY <2>1, <2>2
<1> HIDE DEF u, c
<1>6. k \in Nat \ {0} /\ c < k /\ k - 1 = c + (i - 1) /\ k - 1 \in Nat /\ k - 1 <= Len(u) /\ i - 1 \in Nat
  BY <1>1, <1>2
<1>7. Sse!Before(k, Sse!EndsIn(u)) = c
  <2>1. \A j \in Sse!EndsIn(u) : j < k => j <= c
    BY <1>1, <1>3, <1>4
  <2>2. Len(u) \in Nat
    BY <1>1
  <2> HIDE DEF k
  <2> QED BY <1>3, <1>5, <1>6, <2>1, <2>2, BeforeIs
<1>8. Sse!LineAt(u, k) = SubSeq(u, c + 1, k - 1)
  BY <1>7 DEF Sse!LineAt
<1> DEFINE h == i - 1
<1>9. SubSeq(u, c + 1, c + h) = SubSeq(t, 1, h)
  <2>1. h \in Nat /\ h <= Len(t) /\ c <= c + h /\ c + h <= Len(u) /\ c + h \in Nat /\ (c + h) - c = h
    BY <1>1, <1>2, <1>6
  <2> HIDE DEF h
  <2> DEFINE x == SubSeq(u, c + 1, c + h)
             y == SubSeq(t, 0 + 1, h)
  <2>2. x \in Seq(S) /\ Len(x) = h /\ \A j \in 1 .. h : x[j] = u[c + j]
    <3> DEFINE q == c + h
    <3> HIDE DEF q
    <3>1. q \in Nat /\ c <= q /\ q <= Len(u) /\ q - c = h
      BY <2>1 DEF q
    <3>2. /\ SubSeq(u, c + 1, q) \in Seq(S) /\ Len(SubSeq(u, c + 1, q)) = q - c
          /\ \A j \in 1 .. q - c : SubSeq(u, c + 1, q)[j] = u[c + j]
      BY <1>1, <3>1, PartFacts
    <3> QED BY <3>1, <3>2 DEF q
  <2>3. y \in Seq(S) /\ Len(y) = h /\ \A j \in 1 .. h : y[j] = t[j]
    <3>1. 0 \in Nat /\ 0 <= h /\ h - 0 = h /\ \A j \in 1 .. h : 0 + j = j
      BY <2>1
    <3>2. /\ SubSeq(t, 0 + 1, h) \in Seq(S) /\ Len(SubSeq(t, 0 + 1, h)) = h - 0
          /\ \A j \in 1 .. h - 0 : SubSeq(t, 0 + 1, h)[j] = t[0 + j]
      BY <2>1, <3>1, PartFacts
    <3> QED BY <3>1, <3>2
  <2>4. \A j \in 1 .. h : u[c + j] = t[j]
    <3> SUFFICES ASSUME NEW j \in 1 .. h PROVE u[c + j] = t[j]
      OBVIOUS
    <3>1. c + j \in 1 .. c + Len(t) /\ ~(c + j <= c) /\ (c + j) - c = j
      BY <1>1, <2>1
    <3>2. \A n \in 1 .. Len(s) + Len(t) : (s \o t)[n] = IF n <= Len(s) THEN s[n] ELSE t[n - Len(s)]
      BY ConcatProperties
    <3> QED BY <3>1, <3>2 DEF u, c
  <2> HIDE DEF x, y
  <2>5. x = y
    <3>1. \A j \in 1 .. Len(x) : x[j] = y[j]
      BY <2>2, <2>3, <2>4
    <3> QED BY <2>2, <2>3, <3>1, SeqEqual
  <2>6. y = SubSeq(t, 1, h)
    <3>1. 0 + 1 = 1
      OBVIOUS
    <3> QED BY <3>1 DEF y
  <2> QED BY <2>5, <2>6 DEF x
<1> QED BY <1>6, <1>8, <1>9 DEF h, u, c

\* The LF that the next chunk begins with after a CR adds nothing.
LEMMA SwallowEnd ==
  ASSUME NEW S, NEW s \in Seq(S), NEW t \in Seq(S), t = <<"lf">>, EndsInCr(s)
  PROVE  Sse!LineEnds(s \o t) = Sse!LineEnds(s) /\ Closed(s \o t) /\ ~EndsInCr(s \o t)
<1> DEFINE u == s \o t
           c == Len(s)
<1>1. /\ u \in Seq(S) /\ Len(u) = c + Len(t) /\ c \in Nat /\ Len(t) = 1
      /\ \A j \in 1 .. c + Len(t) : u[j] = IF j <= c THEN s[j] ELSE t[j - c]
  BY ConcatProperties
<1>2. c >= 1 /\ s[c] = "cr" /\ t[1] = "lf"
  BY DEF EndsInCr
<1>3. \A j \in 1 .. c : j \in Sse!LineEnds(u) <=> j \in Sse!LineEnds(s)
  BY EndsStay
<1> HIDE DEF u, c
<1>4. u[c] = "cr" /\ u[c + 1] = "lf" /\ Len(u) = c + 1
  <2>1. c \in 1 .. c + Len(t) /\ c + 1 \in 1 .. c + Len(t) /\ ~(c + 1 <= c) /\ (c + 1) - c = 1
    BY <1>1, <1>2
  <2> QED BY <1>1, <1>2, <2>1
<1>5. /\ Sse!LineEnds(u) \in SUBSET (1 .. Len(u)) /\ Sse!LineEnds(s) \in SUBSET (1 .. c)
      /\ \A j \in 1 .. Len(u) : j \in Sse!EndsIn(u) <=> u[j] \in {"cr", "lf"}
  BY <1>1, EndFacts DEF c
<1>6. c + 1 \notin Sse!LineEnds(u)
  <2>1. c + 1 > 1 /\ (c + 1) - 1 = c
    BY <1>1, <1>2
  <2> QED BY <1>4, <2>1 DEF Sse!LineEnds
<1>7. Sse!LineEnds(u) = Sse!LineEnds(s)
  <2>1. \A j \in Sse!LineEnds(u) : j \in 1 .. c
    BY <1>1, <1>4, <1>5, <1>6
  <2> QED BY <1>3, <1>5, <2>1
<1>8. Closed(u)
  <2>1. Len(u) \in 1 .. Len(u)
    BY <1>1, <1>4
  <2>2. Len(u) \in Sse!EndsIn(u)
    BY <1>4, <1>5, <2>1
  <2> QED BY <2>2 DEF Closed
<1>9. ~EndsInCr(u)
  BY <1>4 DEF EndsInCr
<1> QED BY <1>7, <1>8, <1>9 DEF u

\* What dispatch joins is text.
LEMMA JoinType ==
  ASSUME NEW lines \in Seq(Seq(Sse!Chars))
  PROVE  Sse!Join(lines) \in Seq(Sse!Chars)
<1> DEFINE T == Seq(Sse!Chars)
           N == Len(lines)
           step == [i \in 1 .. N |->
                      [d \in T |-> IF i = 1 THEN lines[1] ELSE d \o <<"lf">> \o lines[i]]]
           body(f, n) == CASE n = 0 -> <<>>
                           [] n = 1 -> lines[1]
                           [] OTHER -> f[n - 1] \o <<"lf">> \o lines[n]
           IsJoined(f) == f = [n \in 0 .. N |-> body(f, n)]
           F == CHOOSE f : IsJoined(f)
<1>1. N \in Nat /\ \A i \in 1 .. N : lines[i] \in T
  OBVIOUS
<1>2. <<>> \in T /\ <<"lf">> \in T
  <2>1. "lf" \in Sse!Chars
    BY DEF Sse!Chars
  <2>2. <<"lf">> \in Seq(Sse!Chars)
    BY <2>1, One
  <2>3. <<>> \in Seq(Sse!Chars)
    OBVIOUS
  <2> QED BY <2>2, <2>3
<1>3. \A d \in T, e \in T : d \o e \in T
  BY ConcatProperties
<1> HIDE DEF T, N
<1>4. step \in [1 .. N -> [T -> T]]
  <2>1. ASSUME NEW i \in 1 .. N, NEW d \in T
        PROVE  (IF i = 1 THEN lines[1] ELSE d \o <<"lf">> \o lines[i]) \in T
    <3>1. lines[i] \in T
      BY <1>1
    <3>2. d \o <<"lf">> \o lines[i] \in T
      BY <1>2, <1>3, <3>1
    <3> QED BY <3>1, <3>2
  <2> QED BY <2>1
<1>5. PICK g : IsRun(g, T, <<>>, N, step)
  <2> HIDE DEF step
  <2> QED BY <1>1, <1>2, <1>4, LoopHasRun
<1>6. g \in [0 .. N -> T] /\ g[0] = <<>> /\ \A i \in 1 .. N : g[i] = step[i][g[i - 1]]
  BY <1>5 DEF IsRun
<1>7. ASSUME NEW n \in 0 .. N PROVE g[n] = body(g, n)
  <2>1. CASE n = 0
    BY <1>6, <2>1
  <2>2. CASE n # 0
    <3>1. n \in 1 .. N /\ n - 1 \in 0 .. N
      BY <1>1, <2>2
    <3>2. g[n - 1] \in T
      BY <1>6, <3>1
    <3>3. g[n] = IF n = 1 THEN lines[1] ELSE g[n - 1] \o <<"lf">> \o lines[n]
      BY <1>6, <3>1, <3>2
    <3>4. CASE n = 1
      BY <3>3, <3>4
    <3>5. CASE n # 1
      BY <2>2, <3>3, <3>5
    <3> QED BY <3>4, <3>5
  <2> QED BY <2>1, <2>2
<1> HIDE DEF body
<1>8. IsJoined(g)
  <2>1. g = [n \in 0 .. N |-> g[n]]
    BY <1>6
  <2>2. [n \in 0 .. N |-> g[n]] = [n \in 0 .. N |-> body(g, n)]
    BY <1>7
  <2> QED BY <2>1, <2>2
<1>9. IsJoined(F)
  BY <1>8
<1> HIDE DEF F
<1> DEFINE S == {n \in Nat : n <= N => F[n] \in T}
<1>10. 0 \in S
  <2>1. 0 \in 0 .. N
    BY <1>1
  <2>2. F[0] = body(F, 0)
    BY <1>9, <2>1
  <2>3. body(F, 0) = <<>>
    BY DEF body
  <2> QED BY <1>2, <2>2, <2>3
<1>11. ASSUME NEW n \in S PROVE n + 1 \in S
  <2> SUFFICES ASSUME n + 1 <= N PROVE F[n + 1] \in T
    OBVIOUS
  <2>1. n + 1 \in 0 .. N /\ n + 1 \in 1 .. N /\ n <= N /\ n + 1 # 0 /\ (n + 1) - 1 = n
    BY <1>1
  <2>2. F[n + 1] = body(F, n + 1)
    BY <1>9, <2>1
  <2>3. F[n] \in T
    BY <2>1
  <2>4. lines[n + 1] \in T /\ (n + 1 = 1 => lines[1] \in T)
    BY <1>1, <2>1
  <2> DEFINE m == n + 1
  <2>5. body(F, m) = IF m = 1 THEN lines[1] ELSE F[n] \o <<"lf">> \o lines[m]
    <3>1. m # 0 /\ m - 1 = n
      BY <2>1
    <3> HIDE DEF m
    <3>2. CASE m = 1
      BY <3>1, <3>2 DEF body
    <3>3. CASE m # 1
      BY <3>1, <3>3 DEF body
    <3> QED BY <3>2, <3>3
  <2>6. F[n] \o <<"lf">> \o lines[m] \in T
    BY <1>2, <1>3, <2>3, <2>4
  <2> QED BY <2>2, <2>4, <2>5, <2>6
<1>12. S = Nat
  <2>1. S \in SUBSET Nat
    OBVIOUS
  <2> HIDE DEF S
  <2> QED BY <1>10, <1>11, <2>1, SetInduction
<1>13. F[N] \in T
  <2>1. N \in S
    <3> HIDE DEF S
    <3> QED BY <1>1, <1>12
  <2>2. N <= N
    BY <1>1
  <2> QED BY <2>1, <2>2
<1>14. Sse!Join(lines) = F[N]
  BY DEF Sse!Join, body, N, F
<1> QED BY <1>13, <1>14 DEF T

\* The value of a field is part of its line.
LEMMA ValueType ==
  ASSUME NEW line \in Seq(Sse!Chars), line # <<>>
  PROVE  Sse!Value(line) \in Seq(Sse!Chars)
<1>1. Tail(line) \in Seq(Sse!Chars) /\ Len(line) \in Nat
  BY HeadTailProperties
<1>2. ASSUME Len(line) > 1 PROVE SubSeq(line, 3, Len(line)) \in Seq(Sse!Chars)
  <2>1. 2 \in Nat /\ 2 <= Len(line) /\ Len(line) <= Len(line) /\ 2 + 1 = 3
    BY <1>1, <1>2
  <2>2. SubSeq(line, 2 + 1, Len(line)) \in Seq(Sse!Chars)
    BY <1>1, <2>1, PartFacts
  <2> QED BY <2>1, <2>2
<1> QED BY <1>1, <1>2 DEF Sse!Value

\* A text of lines only: of one that ends a line more or none, the place after
\* the end comes after the same event ends.
LEMMA BeforeEnd ==
  ASSUME NEW b \in Nat, NEW S \in SUBSET (1 .. b), NEW i \in Nat, NEW j \in Nat, b < i, b < j
  PROVE  Sse!Before(i, S) = Sse!Before(j, S)
<1>1. \A n \in S : n < i /\ n < j
  OBVIOUS
<1>2. {n \in S : n < i} = {n \in S : n < j}
  BY <1>1
<1> QED BY <1>2 DEF Sse!Before, Sse!Max, Max

\* The data of places with the same fields in the same lines.
LEMMA SameData ==
  ASSUME NEW s, NEW u, NEW i, NEW k, Sse!Fields(u, k) = Sse!Fields(s, i),
         \A j \in Sse!Fields(s, i) : Sse!LineAt(u, j) = Sse!LineAt(s, j)
  PROVE  Sse!DataBefore(u, k) = Sse!DataBefore(s, i)
<1>1. [j \in Sse!Fields(u, k) |-> Sse!Value(Sse!LineAt(u, j))] = [j \in Sse!Fields(s, i) |-> Sse!Value(Sse!LineAt(s, j))]
  OBVIOUS
<1> QED BY <1>1 DEF Sse!DataBefore

\* The events of texts with the same full events.
LEMMA SameEvents ==
  ASSUME NEW s, NEW u, Sse!Full(u) = Sse!Full(s), \A j \in Sse!Full(s) : Sse!DataAt(u, j) = Sse!DataAt(s, j)
  PROVE  Sse!EventsOf(u) = Sse!EventsOf(s)
<1>1. [j \in Sse!Full(u) |-> Sse!DataAt(u, j)] = [j \in Sse!Full(s) |-> Sse!DataAt(s, j)]
  OBVIOUS
<1> QED BY <1>1 DEF Sse!EventsOf

\* Text without a line end adds neither data nor events.
LEMMA NothingNew ==
  ASSUME NEW S, NEW s \in Seq(S), NEW t \in Seq(S), Sse!LineEnds(s \o t) = Sse!LineEnds(s)
  PROVE  /\ Sse!EventsOf(s \o t) = Sse!EventsOf(s)
         /\ Sse!DataBefore(s \o t, Len(s \o t) + 1) = Sse!DataBefore(s, Len(s) + 1)
<1> DEFINE u == s \o t
           c == Len(s)
           i == c + 1
           k == Len(u) + 1
<1>1. u \in Seq(S) /\ Len(u) = c + Len(t) /\ c \in Nat /\ Len(t) \in Nat
  BY ConcatProperties
<1>2. /\ Sse!LineEnds(s) \in SUBSET (1 .. c) /\ Sse!EventEnds(s) \in SUBSET (1 .. c)
      /\ Sse!EventEnds(s) \in SUBSET Sse!LineEnds(s) /\ Sse!EventEnds(u) \in SUBSET Sse!LineEnds(u)
      /\ Sse!Full(s) \in SUBSET Sse!EventEnds(s) /\ Sse!Full(u) \in SUBSET Sse!EventEnds(u)
      /\ Sse!Fields(s, i) \in SUBSET Sse!LineEnds(s)
  BY <1>1, EndFacts
<1>3. \A j \in 1 .. c : /\ j \in 1 .. c + 1
                        /\ j \in Sse!EventEnds(u) <=> j \in Sse!EventEnds(s)
                        /\ j \in Sse!Full(u) <=> j \in Sse!Full(s)
                        /\ Sse!LineAt(u, j) = Sse!LineAt(s, j) /\ Sse!DataAt(u, j) = Sse!DataAt(s, j)
  <2> SUFFICES ASSUME NEW j \in 1 .. Len(s)
               PROVE  /\ j \in 1 .. Len(s) + 1
                      /\ j \in Sse!EventEnds(s \o t) <=> j \in Sse!EventEnds(s)
                      /\ j \in Sse!Full(s \o t) <=> j \in Sse!Full(s)
                      /\ Sse!LineAt(s \o t, j) = Sse!LineAt(s, j) /\ Sse!DataAt(s \o t, j) = Sse!DataAt(s, j)
    OBVIOUS
  <2>1. j \in 1 .. Len(s) + 1
    OBVIOUS
  <2>2. j \in Sse!EventEnds(s \o t) <=> j \in Sse!EventEnds(s)
    BY EventEndsStay
  <2>3. j \in Sse!Full(s \o t) <=> j \in Sse!Full(s)
    BY FullStays
  <2>4. Sse!LineAt(s \o t, j) = Sse!LineAt(s, j)
    BY <2>1, LineStays
  <2>5. Sse!DataAt(s \o t, j) = Sse!DataAt(s, j)
    BY <2>1, DataStays
  <2> QED BY <2>1, <2>2, <2>3, <2>4, <2>5
<1>4. Sse!LineEnds(u) = Sse!LineEnds(s)
  OBVIOUS
<1> HIDE DEF u, c
<1>5. Sse!EventEnds(u) = Sse!EventEnds(s)
  BY <1>2, <1>3, <1>4
<1>6. Sse!Full(u) = Sse!Full(s)
  BY <1>2, <1>3, <1>5
<1>7. Sse!EventsOf(u) = Sse!EventsOf(s)
  <2>1. \A j \in Sse!Full(s) : Sse!DataAt(u, j) = Sse!DataAt(s, j)
    BY <1>2, <1>3
  <2> QED BY <1>6, <2>1, SameEvents
<1>8. Sse!Before(k, Sse!EventEnds(u)) = Sse!Before(i, Sse!EventEnds(s))
  <2>1. c < i /\ c < k /\ i \in Nat /\ k \in Nat
    BY <1>1
  <2> HIDE DEF i, k
  <2> DEFINE A == Sse!EventEnds(s)
  <2>2. c \in Nat /\ A \in SUBSET (1 .. c)
    BY <1>1, <1>2
  <2> HIDE DEF A
  <2>3. Sse!Before(k, A) = Sse!Before(i, A)
    BY <2>1, <2>2, BeforeEnd
  <2> QED BY <1>5, <2>3 DEF A
<1>9. Sse!Fields(u, k) = Sse!Fields(s, i)
  <2>1. \A j \in Sse!LineEnds(s) : j < k /\ j < i /\ Sse!LineAt(u, j) = Sse!LineAt(s, j)
    BY <1>1, <1>2, <1>3
  <2> DEFINE e == Sse!Before(i, Sse!EventEnds(s))
  <2>2. Sse!Fields(u, k) = {j \in Sse!LineEnds(s) : e < j /\ j < k /\ Head(Sse!LineAt(u, j)) = "data"}
    BY <1>4, <1>8 DEF Sse!Fields
  <2>3. Sse!Fields(s, i) = {j \in Sse!LineEnds(s) : e < j /\ j < i /\ Head(Sse!LineAt(s, j)) = "data"}
    BY DEF Sse!Fields
  <2> HIDE DEF e, k, i
  <2> QED BY <2>1, <2>2, <2>3
<1>10. Sse!DataBefore(u, k) = Sse!DataBefore(s, i)
  <2>1. \A j \in Sse!Fields(s, i) : Sse!LineAt(u, j) = Sse!LineAt(s, j)
    BY <1>2, <1>3
  <2> QED BY <1>9, <2>1, SameData
<1> QED BY <1>7, <1>10 DEF u, c

\* A line end more: before it are the data before the end of the text.
LEMMA NewLineData ==
  ASSUME NEW S, NEW s \in Seq(S), NEW t \in Seq(S), NEW k \in Nat,
         Len(s) < k, k <= Len(s \o t), Sse!LineEnds(s \o t) = Sse!LineEnds(s) \cup {k}
  PROVE  /\ \A j \in Sse!EventEnds(s \o t) : j < k => j \in Sse!EventEnds(s)
         /\ Sse!EventEnds(s) \in SUBSET Sse!EventEnds(s \o t)
         /\ Sse!EventEnds(s) \in SUBSET (1 .. Len(s))
         /\ Sse!Fields(s \o t, k) = Sse!Fields(s, Len(s) + 1)
         /\ Sse!DataBefore(s \o t, k) = Sse!DataBefore(s, Len(s) + 1)
<1> DEFINE u == s \o t
           c == Len(s)
           i == c + 1
<1>1. u \in Seq(S) /\ Len(u) = c + Len(t) /\ c \in Nat /\ Len(t) \in Nat
  BY ConcatProperties
<1>2. /\ Sse!LineEnds(s) \in SUBSET (1 .. c) /\ Sse!EventEnds(s) \in SUBSET (1 .. c)
      /\ Sse!EventEnds(s) \in SUBSET Sse!LineEnds(s) /\ Sse!EventEnds(u) \in SUBSET Sse!LineEnds(u)
      /\ Sse!Fields(s, i) \in SUBSET Sse!LineEnds(s)
  BY <1>1, EndFacts
<1>3. \A j \in 1 .. c : /\ j \in Sse!EventEnds(u) <=> j \in Sse!EventEnds(s)
                        /\ Sse!LineAt(u, j) = Sse!LineAt(s, j)
  <2> SUFFICES ASSUME NEW j \in 1 .. Len(s)
               PROVE  /\ j \in Sse!EventEnds(s \o t) <=> j \in Sse!EventEnds(s)
                      /\ Sse!LineAt(s \o t, j) = Sse!LineAt(s, j)
    OBVIOUS
  <2>1. j \in 1 .. Len(s) + 1
    OBVIOUS
  <2>2. j \in Sse!EventEnds(s \o t) <=> j \in Sse!EventEnds(s)
    BY EventEndsStay
  <2>3. Sse!LineAt(s \o t, j) = Sse!LineAt(s, j)
    BY <2>1, LineStays
  <2> QED BY <2>2, <2>3
<1>4. Sse!LineEnds(u) = Sse!LineEnds(s) \cup {k} /\ c < k /\ k <= Len(u)
  OBVIOUS
<1> HIDE DEF u, c
<1>5. \A j \in Sse!LineEnds(u) : j < k <=> j \in Sse!LineEnds(s)
  BY <1>1, <1>2, <1>4
<1>6. \A j \in Sse!EventEnds(u) : j < k => j \in Sse!EventEnds(s)
  BY <1>2, <1>3, <1>5
<1>7. Sse!EventEnds(s) \in SUBSET Sse!EventEnds(u) /\ \A j \in Sse!EventEnds(s) : j < k /\ j < i
  BY <1>1, <1>2, <1>3, <1>4
<1>8. Sse!Before(k, Sse!EventEnds(u)) = Sse!Before(i, Sse!EventEnds(s))
  <2>1. {j \in Sse!EventEnds(u) : j < k} = {j \in Sse!EventEnds(s) : j < k}
    BY <1>6, <1>7
  <2>2. Sse!Before(k, Sse!EventEnds(u)) = Sse!Before(k, Sse!EventEnds(s))
    BY <2>1, BeforeSame
  <2>3. c < i /\ i \in Nat
    BY <1>1
  <2>4. Sse!Before(k, Sse!EventEnds(s)) = Sse!Before(i, Sse!EventEnds(s))
    <3> HIDE DEF i
    <3> QED BY <1>1, <1>2, <1>4, <2>3, BeforeEnd
  <2> QED BY <2>2, <2>4
<1>9. Sse!Fields(u, k) = Sse!Fields(s, i)
  <2>1. \A j \in Sse!LineEnds(s) : j < k /\ j < i /\ Sse!LineAt(u, j) = Sse!LineAt(s, j)
    BY <1>1, <1>2, <1>3, <1>4
  <2> DEFINE e == Sse!Before(i, Sse!EventEnds(s))
  <2>2. Sse!Fields(u, k) = {j \in Sse!LineEnds(u) : e < j /\ j < k /\ Head(Sse!LineAt(u, j)) = "data"}
    BY <1>8 DEF Sse!Fields
  <2>3. Sse!Fields(s, i) = {j \in Sse!LineEnds(s) : e < j /\ j < i /\ Head(Sse!LineAt(s, j)) = "data"}
    BY DEF Sse!Fields
  <2>4. ~(k < k)
    BY <1>1
  <2> HIDE DEF e, i
  <2> QED BY <1>4, <2>1, <2>2, <2>3, <2>4
<1>10. Sse!DataBefore(u, k) = Sse!DataBefore(s, i)
  <2>1. \A j \in Sse!Fields(s, i) : Sse!LineAt(u, j) = Sse!LineAt(s, j)
    BY <1>2, <1>3
  <2> QED BY <1>9, <2>1, SameData
<1> QED BY <1>2, <1>6, <1>7, <1>9, <1>10 DEF u, c

\* The data before a place are lines of text.
LEMMA DataType ==
  ASSUME NEW s \in Seq(Sse!Chars), NEW i \in Nat \ {0}
  PROVE  /\ \A j \in Sse!Fields(s, i) : Sse!Value(Sse!LineAt(s, j)) \in Seq(Sse!Chars)
         /\ Sse!DataBefore(s, i) \in Seq(Seq(Sse!Chars))
<1> DEFINE V == Seq(Sse!Chars)
           P == Sse!Fields(s, i)
           f == [j \in P |-> Sse!Value(Sse!LineAt(s, j))]
           b == Len(s)
           k == b + 1
           g == [j \in P \cup {k} |-> IF j = k THEN <<>> ELSE f[j]]
<1>1. P \in SUBSET (1 .. b) /\ b \in Nat /\ P \in SUBSET Sse!LineEnds(s)
      /\ Sse!EventEnds(s) \in SUBSET (1 .. b)
  BY EndFacts
<1>2. ASSUME NEW j \in P PROVE Sse!Value(Sse!LineAt(s, j)) \in V
  <2>1. j \in 1 .. Len(s) + 1
    BY <1>1
  <2>2. Sse!LineAt(s, j) \in Seq(Sse!Chars)
    BY <2>1, LineAtFacts
  <2>3. Sse!LineAt(s, j) # <<>>
    <3> SUFFICES ASSUME Sse!LineAt(s, j) = <<>> PROVE FALSE
      OBVIOUS
    <3>1. j \in Sse!EventEnds(s)
      BY <1>1 DEF Sse!EventEnds
    <3>2. Sse!Before(i, Sse!EventEnds(s)) < j /\ j < i
      BY DEF Sse!Fields
    <3>3. j <= Sse!Before(i, Sse!EventEnds(s)) /\ Sse!Before(i, Sse!EventEnds(s)) \in Nat
      BY <1>1, <3>1, <3>2, BeforeFacts
    <3> QED BY <2>1, <3>2, <3>3
  <2> QED BY <2>2, <2>3, ValueType
<1>3. f \in [P -> V]
  BY <1>2
<1>4. <<>> \in V
  OBVIOUS
<1> HIDE DEF f, P, V, b
<1>5. k \notin P /\ k \in Nat /\ k > b
  BY <1>1
<1>6. g \in [P \cup {k} -> V]
  BY <1>3, <1>4
<1>7. \A j \in P : g[j] = f[j]
  BY <1>5
<1>8. Sse!InOrder(P, f) \in Seq(V)
  <2> DEFINE T == P \cup {k}
  <2> HIDE DEF g, k
  <2>1. OneMore(b, P, f, k, T, g, V)
    BY <1>1, <1>3, <1>5, <1>6, <1>7 DEF OneMore
  <2> HIDE DEF T
  <2> QED BY <2>1, ListGrows
<1> QED BY <1>2, <1>8 DEF Sse!DataBefore, f, P, V, b

\* A blank line ends an event, of the data before it.
LEMMA NewEvent ==
  ASSUME NEW s \in Seq(Sse!Chars), NEW t \in Seq(Sse!Chars), NEW k \in Nat,
         Len(s) < k, k <= Len(s \o t), Sse!LineEnds(s \o t) = Sse!LineEnds(s) \cup {k},
         Sse!LineAt(s \o t, k) = <<>>
  PROVE  /\ Sse!DataBefore(s \o t, Len(s \o t) + 1) = <<>>
         /\ Sse!EventsOf(s \o t) =
              LET data == Sse!Join(Sse!DataBefore(s, Len(s) + 1))
              IN  IF Sse!IsBlank(data) THEN Sse!EventsOf(s) ELSE Append(Sse!EventsOf(s), data)
<1> DEFINE u == s \o t
           c == Len(s)
           i == Len(u) + 1
           data == Sse!Join(Sse!DataBefore(s, c + 1))
<1>1. u \in Seq(Sse!Chars) /\ Len(u) = c + Len(t) /\ c \in Nat /\ Len(t) \in Nat
  BY ConcatProperties
<1>2. /\ Sse!LineEnds(s) \in SUBSET (1 .. c) /\ Sse!EventEnds(u) \in SUBSET Sse!LineEnds(u)
      /\ Sse!Full(s) \in SUBSET Sse!EventEnds(s) /\ Sse!Full(u) \in SUBSET Sse!EventEnds(u)
      /\ Sse!Fields(u, i) \in SUBSET Sse!LineEnds(u) /\ Sse!EventEnds(u) \in SUBSET (1 .. Len(u))
  BY <1>1, EndFacts
<1>3. /\ \A j \in Sse!EventEnds(u) : j < k => j \in Sse!EventEnds(s)
      /\ Sse!EventEnds(s) \in SUBSET Sse!EventEnds(u) /\ Sse!EventEnds(s) \in SUBSET (1 .. c)
      /\ Sse!DataBefore(u, k) = Sse!DataBefore(s, c + 1)
  BY NewLineData
<1>4. /\ c < k /\ k <= Len(u) /\ Sse!LineEnds(u) = Sse!LineEnds(s) \cup {k} /\ Sse!LineAt(u, k) = <<>>
  OBVIOUS
<1>5. \A j \in 1 .. c : /\ j \in Sse!Full(u) <=> j \in Sse!Full(s)
                        /\ Sse!DataAt(u, j) = Sse!DataAt(s, j)
  <2> SUFFICES ASSUME NEW j \in 1 .. Len(s)
               PROVE  (j \in Sse!Full(s \o t) <=> j \in Sse!Full(s)) /\ Sse!DataAt(s \o t, j) = Sse!DataAt(s, j)
    OBVIOUS
  <2>1. j \in 1 .. Len(s) + 1
    OBVIOUS
  <2>2. j \in Sse!Full(s \o t) <=> j \in Sse!Full(s)
    BY FullStays
  <2>3. Sse!DataAt(s \o t, j) = Sse!DataAt(s, j)
    BY <2>1, DataStays
  <2> QED BY <2>2, <2>3
<1> HIDE DEF u, c
<1>6. k \in Sse!EventEnds(u)
  BY <1>4 DEF Sse!EventEnds
<1>7. Sse!EventEnds(u) = Sse!EventEnds(s) \cup {k}
  <2>1. \A j \in Sse!EventEnds(u) : j < k \/ j = k
    BY <1>1, <1>2, <1>4
  <2> QED BY <1>3, <1>6, <2>1
<1>8. Sse!DataBefore(u, i) = <<>>
  <2>1. i \in Nat \ {0} /\ k < i
    BY <1>1, <1>4
  <2>2. k <= Sse!Before(i, Sse!EventEnds(u)) /\ Sse!Before(i, Sse!EventEnds(u)) \in Nat
    <3> HIDE DEF i
    <3>1. Len(u) \in Nat
      BY <1>1
    <3> QED BY <1>2, <1>6, <2>1, <3>1, BeforeFacts
  <2>3. \A j \in Sse!LineEnds(u) : j \in Nat /\ j <= k
    BY <1>1, <1>2, <1>4
  <2>4. Sse!Fields(u, i) = {}
    <3> SUFFICES ASSUME NEW j \in Sse!Fields(u, i) PROVE FALSE
      OBVIOUS
    <3>1. j \in Sse!LineEnds(u) /\ Sse!Before(i, Sse!EventEnds(u)) < j
      BY <1>2 DEF Sse!Fields
    <3> QED BY <2>2, <2>3, <3>1
  <2>5. Cardinality(Sse!Fields(u, i)) = 0
    BY <2>4, FS_EmptySet
  <2> QED BY <2>5, InOrderIs DEF Sse!DataBefore
<1>9. Sse!DataAt(u, k) = data
  BY <1>3 DEF Sse!DataAt
<1>10. CASE Sse!IsBlank(data)
  <2>1. k \notin Sse!Full(u)
    BY <1>9, <1>10 DEF Sse!Full
  <2>2. Sse!Full(u) = Sse!Full(s)
    BY <1>2, <1>3, <1>5, <1>7, <2>1
  <2>3. \A j \in Sse!Full(s) : Sse!DataAt(u, j) = Sse!DataAt(s, j)
    BY <1>2, <1>3, <1>5
  <2>4. Sse!EventsOf(u) = Sse!EventsOf(s)
    BY <2>2, <2>3, SameEvents
  <2> QED BY <1>8, <1>10, <2>4 DEF u, c
<1>11. CASE ~Sse!IsBlank(data)
  <2> DEFINE V == Seq(Sse!Chars)
             f == [j \in Sse!Full(s) |-> Sse!DataAt(s, j)]
             g == [j \in Sse!Full(u) |-> Sse!DataAt(u, j)]
  <2>1. k \in Sse!Full(u)
    BY <1>6, <1>9, <1>11 DEF Sse!Full
  <2>2. Sse!Full(u) = Sse!Full(s) \cup {k}
    BY <1>2, <1>3, <1>5, <1>7, <2>1
  <2>3. \A j \in Sse!Full(s) : j \in 1 .. c /\ Sse!DataAt(u, j) = Sse!DataAt(s, j)
    BY <1>2, <1>3, <1>5
  <2>4. \A j \in Sse!Full(u) : Sse!DataAt(u, j) \in V
    <3> SUFFICES ASSUME NEW j \in Sse!Full(u) PROVE Sse!DataAt(u, j) \in V
      OBVIOUS
    <3>1. j \in Nat \ {0}
      BY <1>2
    <3>2. Sse!DataBefore(u, j) \in Seq(Seq(Sse!Chars))
      BY <1>1, <3>1, DataType
    <3> QED BY <3>2, JoinType DEF Sse!DataAt
  <2>5. g \in [Sse!Full(s) \cup {k} -> V] /\ f \in [Sse!Full(s) -> V] /\ \A j \in Sse!Full(s) : g[j] = f[j]
    <3>1. f \in [Sse!Full(s) -> V]
      BY <2>2, <2>3, <2>4
    <3>2. g \in [Sse!Full(s) \cup {k} -> V]
      BY <2>2, <2>4
    <3>3. \A j \in Sse!Full(s) : g[j] = f[j]
      BY <2>2, <2>3
    <3> QED BY <3>1, <3>2, <3>3
  <2>6. g[k] = data
    BY <1>9, <2>1
  <2>7. Sse!Full(s) \in SUBSET (1 .. c) /\ k > c
    BY <1>1, <1>4, <2>3
  <2>8. Sse!EventsOf(s) = Sse!InOrder(Sse!Full(s), f) /\ Sse!EventsOf(u) = Sse!InOrder(Sse!Full(u), g)
    BY <2>2 DEF Sse!EventsOf
  <2> HIDE DEF f, g, V
  <2>9. Sse!InOrder(Sse!Full(u), g) = Append(Sse!InOrder(Sse!Full(s), f), g[k])
    <3> DEFINE A == Sse!Full(s)
               B == Sse!Full(u)
    <3>1. c \in Nat /\ k \in Nat /\ k > c
      BY <1>1, <1>4
    <3>2. A \in SUBSET (1 .. c) /\ B = A \cup {k} /\ f \in [A -> V] /\ g \in [B -> V]
          /\ \A j \in A : g[j] = f[j]
      BY <2>2, <2>5, <2>7
    <3> HIDE DEF A, B
    <3>3. OneMore(c, A, f, k, B, g, V)
      BY <3>1, <3>2 DEF OneMore
    <3>4. Sse!InOrder(B, g) = Append(Sse!InOrder(A, f), g[k])
      BY <3>3, ListGrows
    <3> QED BY <3>4 DEF A, B
  <2>10. Sse!EventsOf(u) = Append(Sse!EventsOf(s), data)
    BY <2>6, <2>8, <2>9
  <2> QED BY <1>8, <1>11, <2>10 DEF u, c
<1> QED BY <1>10, <1>11

\* Any other line adds at most its own field.
LEMMA NewField ==
  ASSUME NEW s \in Seq(Sse!Chars), NEW t \in Seq(Sse!Chars), NEW k \in Nat,
         Len(s) < k, k <= Len(s \o t), Sse!LineEnds(s \o t) = Sse!LineEnds(s) \cup {k},
         Sse!LineAt(s \o t, k) # <<>>
  PROVE  /\ Sse!EventsOf(s \o t) = Sse!EventsOf(s)
         /\ Sse!DataBefore(s \o t, Len(s \o t) + 1) =
              IF Head(Sse!LineAt(s \o t, k)) = "data"
              THEN Append(Sse!DataBefore(s, Len(s) + 1), Sse!Value(Sse!LineAt(s \o t, k)))
              ELSE Sse!DataBefore(s, Len(s) + 1)
<1> DEFINE u == s \o t
           c == Len(s)
           i == Len(u) + 1
           h == c + 1
           P == Sse!Fields(s, h)
<1>1. u \in Seq(Sse!Chars) /\ Len(u) = c + Len(t) /\ c \in Nat /\ Len(t) \in Nat
  BY ConcatProperties
<1>2. /\ Sse!LineEnds(s) \in SUBSET (1 .. c) /\ Sse!EventEnds(u) \in SUBSET Sse!LineEnds(u)
      /\ Sse!Full(s) \in SUBSET Sse!EventEnds(s) /\ Sse!Full(u) \in SUBSET Sse!EventEnds(u)
      /\ P \in SUBSET Sse!LineEnds(s) /\ Sse!EventEnds(u) \in SUBSET (1 .. Len(u))
  BY <1>1, EndFacts
<1>3. /\ \A j \in Sse!EventEnds(u) : j < k => j \in Sse!EventEnds(s)
      /\ Sse!EventEnds(s) \in SUBSET Sse!EventEnds(u) /\ Sse!EventEnds(s) \in SUBSET (1 .. c)
  BY NewLineData
<1>4. /\ c < k /\ k <= Len(u) /\ Sse!LineEnds(u) = Sse!LineEnds(s) \cup {k} /\ Sse!LineAt(u, k) # <<>>
  OBVIOUS
<1>5. \A j \in 1 .. c : /\ j \in Sse!Full(u) <=> j \in Sse!Full(s)
                        /\ Sse!DataAt(u, j) = Sse!DataAt(s, j) /\ Sse!LineAt(u, j) = Sse!LineAt(s, j)
  <2> SUFFICES ASSUME NEW j \in 1 .. Len(s)
               PROVE  /\ j \in Sse!Full(s \o t) <=> j \in Sse!Full(s)
                      /\ Sse!DataAt(s \o t, j) = Sse!DataAt(s, j) /\ Sse!LineAt(s \o t, j) = Sse!LineAt(s, j)
    OBVIOUS
  <2>1. j \in 1 .. Len(s) + 1
    OBVIOUS
  <2>2. j \in Sse!Full(s \o t) <=> j \in Sse!Full(s)
    BY FullStays
  <2>3. Sse!DataAt(s \o t, j) = Sse!DataAt(s, j)
    BY <2>1, DataStays
  <2>4. Sse!LineAt(s \o t, j) = Sse!LineAt(s, j)
    BY <2>1, LineStays
  <2> QED BY <2>2, <2>3, <2>4
<1> HIDE DEF u, c
<1>6. Sse!EventEnds(u) = Sse!EventEnds(s)
  <2>1. k \notin Sse!EventEnds(u)
    BY <1>4 DEF Sse!EventEnds
  <2>2. \A j \in Sse!EventEnds(u) : j < k
    BY <1>1, <1>2, <1>4, <2>1
  <2> QED BY <1>3, <2>2
<1>7. Sse!EventsOf(u) = Sse!EventsOf(s)
  <2>1. Sse!Full(u) = Sse!Full(s)
    BY <1>2, <1>3, <1>5, <1>6
  <2>2. \A j \in Sse!Full(s) : Sse!DataAt(u, j) = Sse!DataAt(s, j)
    BY <1>2, <1>3, <1>5
  <2> QED BY <2>1, <2>2, SameEvents
<1>8. Sse!Before(i, Sse!EventEnds(u)) = Sse!Before(h, Sse!EventEnds(s)) /\ Sse!Before(h, Sse!EventEnds(s)) < k
  <2>1. c < i /\ c < h /\ i \in Nat /\ h \in Nat \ {0}
    BY <1>1
  <2> HIDE DEF i, h
  <2>2. Sse!Before(i, Sse!EventEnds(u)) = Sse!Before(h, Sse!EventEnds(s))
    BY <1>1, <1>3, <1>6, <2>1, BeforeEnd, SMTT(30)
  <2>3. Sse!Before(h, Sse!EventEnds(s)) \in {0} \cup Sse!EventEnds(s)
    BY <1>1, <1>3, <2>1, BeforeFacts
  <2>4. Sse!Before(h, Sse!EventEnds(s)) < k
    BY <1>1, <1>3, <1>4, <2>3
  <2> QED BY <2>2, <2>4
<1>9. Sse!Fields(u, i) = P \cup {j \in {k} : Head(Sse!LineAt(u, k)) = "data"}
  <2>1. \A j \in Sse!LineEnds(s) : j < i /\ j < h /\ Sse!LineAt(u, j) = Sse!LineAt(s, j)
    BY <1>1, <1>2, <1>4, <1>5
  <2> DEFINE e == Sse!Before(h, Sse!EventEnds(s))
  <2>2. Sse!Fields(u, i) = {j \in Sse!LineEnds(u) : e < j /\ j < i /\ Head(Sse!LineAt(u, j)) = "data"}
    BY <1>8 DEF Sse!Fields
  <2>3. P = {j \in Sse!LineEnds(s) : e < j /\ j < h /\ Head(Sse!LineAt(s, j)) = "data"}
    BY DEF Sse!Fields
  <2>4. k < i /\ e < k
    BY <1>1, <1>4, <1>8
  <2> HIDE DEF e, i, h, P
  <2> QED BY <1>4, <2>1, <2>2, <2>3, <2>4
<1>10. CASE Head(Sse!LineAt(u, k)) = "data"
  <2> DEFINE V == Seq(Sse!Chars)
             f == [j \in P |-> Sse!Value(Sse!LineAt(s, j))]
             g == [j \in Sse!Fields(u, i) |-> Sse!Value(Sse!LineAt(u, j))]
  <2>1. Sse!Fields(u, i) = P \cup {k}
    BY <1>9, <1>10
  <2>2. \A j \in P : j \in 1 .. c /\ Sse!LineAt(u, j) = Sse!LineAt(s, j)
    BY <1>2, <1>5
  <2>3. \A j \in Sse!Fields(u, i) : Sse!Value(Sse!LineAt(u, j)) \in V
    <3>1. i \in Nat \ {0}
      BY <1>1
    <3> HIDE DEF i
    <3> QED BY <1>1, <3>1, DataType
  <2>4. g \in [P \cup {k} -> V] /\ f \in [P -> V] /\ \A j \in P : g[j] = f[j]
    <3> HIDE DEF P, i
    <3>1. f \in [P -> V]
      BY <2>1, <2>2, <2>3
    <3>2. g \in [P \cup {k} -> V]
      BY <2>1, <2>3
    <3>3. \A j \in P : g[j] = f[j]
      BY <2>1, <2>2
    <3> QED BY <3>1, <3>2, <3>3
  <2>5. g[k] = Sse!Value(Sse!LineAt(u, k))
    BY <2>1
  <2>6. P \in SUBSET (1 .. c) /\ k > c
    BY <1>1, <1>4, <2>2
  <2>7. Sse!DataBefore(s, h) = Sse!InOrder(P, f) /\ Sse!DataBefore(u, i) = Sse!InOrder(Sse!Fields(u, i), g)
    BY <2>1 DEF Sse!DataBefore
  <2> HIDE DEF f, g, V, P
  <2>8. Sse!InOrder(Sse!Fields(u, i), g) = Append(Sse!InOrder(P, f), g[k])
    <3> DEFINE A == P
               B == Sse!Fields(u, i)
    <3>1. c \in Nat /\ k \in Nat /\ k > c
      BY <1>1, <1>4
    <3>2. A \in SUBSET (1 .. c) /\ B = A \cup {k} /\ f \in [A -> V] /\ g \in [B -> V]
          /\ \A j \in A : g[j] = f[j]
      BY <2>1, <2>4, <2>6
    <3> HIDE DEF A, B
    <3>3. OneMore(c, A, f, k, B, g, V)
      BY <3>1, <3>2 DEF OneMore
    <3>4. Sse!InOrder(B, g) = Append(Sse!InOrder(A, f), g[k])
      BY <3>3, ListGrows
    <3> QED BY <3>4 DEF A, B
  <2>9. Sse!DataBefore(u, i) = Append(Sse!DataBefore(s, h), Sse!Value(Sse!LineAt(u, k)))
    BY <2>5, <2>7, <2>8
  <2> QED BY <1>7, <1>10, <2>9 DEF u, c
<1>11. CASE Head(Sse!LineAt(u, k)) # "data"
  <2>1. Sse!Fields(u, i) = P
    BY <1>9, <1>11
  <2>2. \A j \in P : Sse!LineAt(u, j) = Sse!LineAt(s, j)
    BY <1>2, <1>5
  <2>3. Sse!DataBefore(u, i) = Sse!DataBefore(s, h)
    BY <2>1, <2>2, SameData
  <2> QED BY <1>7, <1>11, <2>3 DEF u, c
<1> QED BY <1>10, <1>11

\* What comes before a suffix of the stream.
LEMMA ConsumedIs ==
  ASSUME NEW C, NEW s \in Seq(C), NEW t \in Seq(C), NEW x, x = s \o t
  PROVE  SubSeq(x, 1, Len(x) - Len(t)) = s /\ Len(t) <= Len(x)
<1>1. x \in Seq(C) /\ Len(x) = Len(s) + Len(t) /\ Len(s) \in Nat /\ Len(t) \in Nat
  BY ConcatProperties
<1>2. Len(x) - Len(t) = Len(s) /\ 0 \in Nat /\ 0 <= Len(s) /\ Len(s) <= Len(s) /\ 0 + 1 = 1
  BY <1>1
<1>3. SubSeq(s \o t, 0 + 1, Len(s)) = SubSeq(s, 0 + 1, Len(s))
  BY <1>1, <1>2, PartOfConcat
<1>4. SubSeq(s, 1, Len(s)) = s
  BY SubSeqFull
<1> QED BY <1>1, <1>2, <1>3, <1>4

\* What SseInv says of a text s taken off the stream.
Taking(s) ==
  /\ s \in Seq(Sse!Chars) /\ sseStream = s \o sseBuf /\ Closed(s)
  /\ sawCr => EndsInCr(s) /\ sseBuf = <<>>
  /\ EndsInCr(s) /\ ~sawCr => sseBuf # <<>> /\ Head(sseBuf) # "lf"
  /\ dataLines = Sse!DataBefore(s, Len(s) + 1)
  /\ sseEvents = Sse!EventsOf(s)
  /\ ssePc = "idle" /\ sseThrows = 0 => Sse!EndsIn(sseBuf) = {}

\* SseInv says it of what was consumed.
LEMMA IsTaking ==
  ASSUME SseInv
  PROVE  Sse!TypeOK /\ Taking(Sse!Consumed)
<1>1. Sse!TypeOK /\ sseStream \in Seq(Sse!Chars) /\ sseBuf \in Seq(Sse!Chars) /\ Len(sseBuf) <= Len(sseStream)
  BY DEF SseInv, Sse!TypeOK
<1> DEFINE h == Len(sseStream) - Len(sseBuf)
<1>2. h \in Nat /\ 0 \in Nat /\ 0 <= h /\ h <= Len(sseStream) /\ 0 + 1 = 1
  BY <1>1
<1>3. Sse!Consumed = SubSeq(sseStream, 1, h)
  BY DEF Sse!Consumed
<1> HIDE DEF h
<1>4. SubSeq(sseStream, 0 + 1, h) \in Seq(Sse!Chars)
  BY <1>1, <1>2, PartFacts
<1>5. Sse!Consumed \in Seq(Sse!Chars)
  BY <1>2, <1>3, <1>4
<1> QED BY <1>1, <1>5 DEF SseInv, Taking

\* A chunk after s: the text taken is the same, or an LF longer.
LEMMA PushTaking ==
  ASSUME Sse!TypeOK, NEW s, Taking(s), Sse!Push
  PROVE  SseInv'
<1>1. /\ s \in Seq(Sse!Chars) /\ sseStream = s \o sseBuf /\ Closed(s)
      /\ sawCr => EndsInCr(s) /\ sseBuf = <<>>
      /\ EndsInCr(s) /\ ~sawCr => sseBuf # <<>> /\ Head(sseBuf) # "lf"
      /\ dataLines = Sse!DataBefore(s, Len(s) + 1) /\ sseEvents = Sse!EventsOf(s)
  BY DEF Taking
<1>2. PICK chunk \in Sse!Chunks :
        /\ Len(sseStream) + Len(chunk) <= MaxSseStream
        /\ sseStream' = sseStream \o chunk /\ sseBuf' = Sse!Swallow(sseBuf \o chunk)
  BY DEF Sse!Push
<1>3. chunk \in Seq(Sse!Chars) /\ chunk # <<>>
  <2>1. PICK n \in 1 .. MaxSseChunk : chunk \in [1 .. n -> Sse!Chars]
    BY DEF Sse!Chunks
  <2>2. n \in Nat \ {0}
    BY SseBounds, <2>1
  <2>3. chunk \in Seq(Sse!Chars) /\ Len(chunk) = n
    BY <2>1, <2>2
  <2> QED BY <2>2, <2>3
<1>4. /\ sawCr' = FALSE /\ ssePc' = "split" /\ dataLines' = dataLines /\ sseEvents' = sseEvents
      /\ sseThrows' = sseThrows
  BY DEF Sse!Push
<1>5. sseStream \in Seq(Sse!Chars) /\ sseBuf \in Seq(Sse!Chars)
  BY DEF Sse!TypeOK
<1> DEFINE text == sseBuf \o chunk
<1>6. text \in Seq(Sse!Chars) /\ sseStream' \in Seq(Sse!Chars) /\ Len(sseStream') = Len(sseStream) + Len(chunk)
      /\ sseStream' = s \o text
  <2>1. text \in Seq(Sse!Chars) /\ sseStream \o chunk \in Seq(Sse!Chars)
        /\ Len(sseStream \o chunk) = Len(sseStream) + Len(chunk)
    BY <1>3, <1>5, ConcatProperties
  <2>2. (s \o sseBuf) \o chunk = s \o (sseBuf \o chunk)
    BY SMTT(30), <1>1, <1>3, <1>5, ConcatAssociative
  <2> QED BY <1>1, <1>2, <2>1, <2>2
<1>7. Sse!TypeOK' <=> sseBuf' \in Seq(Sse!Chars)
  BY <1>2, <1>4, <1>6 DEF Sse!TypeOK
\* The rest follows from a text taken before the new buffer.
<1>8. ASSUME NEW r \in Seq(Sse!Chars), sseStream' = r \o sseBuf', sseBuf' \in Seq(Sse!Chars), Closed(r),
             EndsInCr(r) => sseBuf' # <<>> /\ Head(sseBuf') # "lf",
             Sse!DataBefore(r, Len(r) + 1) = Sse!DataBefore(s, Len(s) + 1), Sse!EventsOf(r) = Sse!EventsOf(s)
      PROVE  SseInv'
  <2>1. Sse!TypeOK'
    BY <1>7, <1>8
  <2>2. Sse!Consumed' = r /\ Len(sseBuf') <= Len(sseStream')
    BY <1>8, ConsumedIs DEF Sse!Consumed
  <2> QED BY <1>1, <1>4, <1>8, <2>1, <2>2 DEF SseInv
<1>9. CASE sawCr /\ Head(text) = "lf"
  <2>1. sseBuf = <<>> /\ EndsInCr(s)
    BY <1>1, <1>9
  <2>2. text = chunk
    BY <1>3, <2>1, ConcatProperties
  <2>3. Head(chunk) = "lf" /\ sseBuf' = Tail(chunk)
    BY <1>2, <1>9, <2>2 DEF Sse!Swallow
  <2> DEFINE t == <<"lf">>
             r == s \o t
  <2>4. t \in Seq(Sse!Chars)
    <3>1. "lf" \in Sse!Chars
      BY DEF Sse!Chars
    <3> QED BY <3>1, One
  <2>5. Tail(chunk) \in Seq(Sse!Chars) /\ r \in Seq(Sse!Chars)
    BY <1>1, <1>3, <2>4, HeadTailProperties, ConcatProperties
  <2>6. sseStream' = r \o Tail(chunk)
    <3>1. Append(s, Head(chunk)) \o Tail(chunk) = s \o chunk
      BY <1>1, <1>3, MoveHead
    <3>2. Append(s, "lf") = r
      <4>1. "lf" \in Sse!Chars
        BY DEF Sse!Chars
      <4> QED BY <1>1, <4>1, ConcatProperties
    <3> HIDE DEF r
    <3> QED BY <1>6, <2>2, <2>3, <3>1, <3>2
  <2>7. Sse!LineEnds(r) = Sse!LineEnds(s) /\ Closed(r) /\ ~EndsInCr(r)
    BY <1>1, <2>1, <2>4, SwallowEnd
  <2>8. Sse!EventsOf(r) = Sse!EventsOf(s) /\ Sse!DataBefore(r, Len(r) + 1) = Sse!DataBefore(s, Len(s) + 1)
    BY <1>1, <2>4, <2>7, NothingNew
  <2> HIDE DEF r
  <2> QED BY <1>8, <2>3, <2>5, <2>6, <2>7, <2>8
<1>10. CASE ~(sawCr /\ Head(text) = "lf")
  <2>1. sseBuf' = text
    BY <1>2, <1>10 DEF Sse!Swallow
  <2>2. EndsInCr(s) => text # <<>> /\ Head(text) # "lf"
    <3>0. text # <<>>
      BY <1>3, <1>5, ConcatProperties
    <3>1. CASE sawCr
      BY <1>10, <3>0, <3>1
    <3>2. CASE ~sawCr
      <4> SUFFICES ASSUME EndsInCr(s) PROVE Head(text) # "lf"
        BY <3>0
      <4>1. sseBuf # <<>> /\ Head(sseBuf) # "lf"
        BY <1>1, <3>2
      <4>2. Head(text) = Head(sseBuf)
        <5>1. Len(sseBuf) \in Nat \ {0} /\ Len(chunk) \in Nat /\ Head(sseBuf) = sseBuf[1]
          BY <1>3, <1>5, <4>1
        <5>2. text[1] = sseBuf[1]
          <6>1. 1 \in 1 .. Len(sseBuf) + Len(chunk) /\ 1 <= Len(sseBuf)
            BY <5>1
          <6> QED BY <1>3, <1>5, <6>1, ConcatProperties
        <5> QED BY <3>0, <5>1, <5>2, <1>6
      <4> QED BY <4>1, <4>2
    <3> QED BY <3>1, <3>2
  <2> HIDE DEF text
  <2> QED BY <1>1, <1>6, <1>8, <2>1, <2>2
<1> QED BY <1>9, <1>10

\* A turn of the loop takes a line after s.
LEMMA TakeLineTaking ==
  ASSUME Sse!TypeOK, NEW s, Taking(s), Sse!TakeLine
  PROVE  SseInv'
<1> DEFINE i == Sse!Min(Sse!EndsIn(sseBuf))
           n == Sse!Taken(sseBuf, i)
           t == SubSeq(sseBuf, 1, n)
           rest == SubSeq(sseBuf, n + 1, Len(sseBuf))
           line == SubSeq(sseBuf, 1, i - 1)
<1>1. /\ s \in Seq(Sse!Chars) /\ sseStream = s \o sseBuf /\ Closed(s)
      /\ sawCr => EndsInCr(s) /\ sseBuf = <<>>
      /\ EndsInCr(s) /\ ~sawCr => sseBuf # <<>> /\ Head(sseBuf) # "lf"
      /\ dataLines = Sse!DataBefore(s, Len(s) + 1) /\ sseEvents = Sse!EventsOf(s)
  BY DEF Taking
<1>2. /\ Sse!EndsIn(sseBuf) # {} /\ sseBuf' = rest /\ sawCr' = (sseBuf[i] = "cr" /\ i = Len(sseBuf))
      /\ Sse!HandleLine(line) /\ sseStream' = sseStream /\ ssePc = "split"
  BY DEF Sse!TakeLine
<1>3. sseStream \in Seq(Sse!Chars) /\ sseBuf \in Seq(Sse!Chars)
  BY DEF Sse!TypeOK
<1>s. sawCr' <=> (sseBuf[i] = "cr" /\ i = Len(sseBuf))
  <2> HIDE DEF i
  <2> QED BY <1>2, Zenon
<1>4. i \in Sse!EndsIn(sseBuf) /\ \A j \in Sse!EndsIn(sseBuf) : i <= j
  <2>1. Sse!EndsIn(sseBuf) \in SUBSET (1 .. Len(sseBuf)) /\ Len(sseBuf) \in Nat
    BY <1>3, EndFacts
  <2>2. Sse!EndsIn(sseBuf) \in SUBSET Nat
    BY <2>1
  <2> QED BY <1>2, <2>2, SameMin, HasSmallest
<1>5. i \in 1 .. Len(sseBuf) /\ sseBuf[i] \in {"cr", "lf"} /\ Len(sseBuf) \in Nat
      /\ \A j \in 1 .. Len(sseBuf) : j \in Sse!EndsIn(sseBuf) <=> sseBuf[j] \in {"cr", "lf"}
  BY <1>3, <1>4, EndFacts
<1> HIDE DEF i
<1>6. /\ n \in 1 .. Len(sseBuf)
      /\ n = i \/ (n = i + 1 /\ sseBuf[i] = "cr" /\ i < Len(sseBuf) /\ sseBuf[i + 1] = "lf")
      /\ n = i /\ sseBuf[i] = "cr" /\ i < Len(sseBuf) => sseBuf[i + 1] # "lf"
  <2>1. CASE sseBuf[i] = "cr" /\ i < Len(sseBuf) /\ sseBuf[i + 1] = "lf"
    <3>1. n = i + 1
      BY <2>1 DEF Sse!Taken
    <3> QED BY <1>5, <2>1, <3>1
  <2>2. CASE ~(sseBuf[i] = "cr" /\ i < Len(sseBuf) /\ sseBuf[i + 1] = "lf")
    <3>1. n = i
      BY <2>2 DEF Sse!Taken
    <3> QED BY <1>5, <2>2, <3>1
  <2> QED BY <2>1, <2>2
<1> HIDE DEF n
<1>7. /\ t \in Seq(Sse!Chars) /\ Len(t) = n /\ rest \in Seq(Sse!Chars) /\ t \o rest = sseBuf
      /\ \A j \in 1 .. n : t[j] = sseBuf[j]
  <2>1. /\ t \in Seq(Sse!Chars) /\ Len(t) = n /\ rest \in Seq(Sse!Chars) /\ t \o rest = sseBuf
    BY <1>3, <1>6, SplitAt
  <2>2. \A j \in 1 .. n : t[j] = sseBuf[j]
    <3>1. 0 \in Nat /\ n \in Nat /\ 0 <= n /\ n <= Len(sseBuf) /\ 0 + 1 = 1 /\ n - 0 = n
          /\ \A j \in 1 .. n : 0 + j = j
      BY <1>5, <1>6
    <3>2. \A j \in 1 .. n - 0 : SubSeq(sseBuf, 0 + 1, n)[j] = sseBuf[0 + j]
      BY <1>3, <3>1, PartFacts
    <3> QED BY <3>1, <3>2
  <2> QED BY <2>1, <2>2
<1> HIDE DEF t, rest
<1>8. TakesOff(s, t, i)
  <2>1. ~(EndsInCr(s) /\ t[1] = "lf")
    <3> SUFFICES ASSUME EndsInCr(s), t[1] = "lf" PROVE FALSE
      OBVIOUS
    <3>1. t[1] = sseBuf[1] /\ sseBuf # <<>>
      BY <1>5, <1>6, <1>7
    <3>2. Head(sseBuf) = sseBuf[1]
      BY <1>3, <3>1
    <3> QED BY <1>1, <3>1, <3>2
  <2>2. i \in 1 .. n /\ n \in Nat /\ \A j \in 1 .. n : j \in 1 .. Len(sseBuf)
    BY <1>5, <1>6
  <2>3. \A j \in 1 .. n : j \in Sse!EndsIn(t) <=> t[j] \in {"cr", "lf"}
    BY <1>7, EndFacts
  <2>4. Sse!EndsIn(t) \in SUBSET (1 .. n)
    BY <1>7, EndFacts
  <2>5. i \in Sse!EndsIn(t) /\ \A j \in Sse!EndsIn(t) : i <= j
    BY <1>4, <1>5, <1>7, <2>2, <2>3, <2>4
  <2>6. n = i \/ (n = i + 1 /\ t[i] = "cr" /\ t[i + 1] = "lf")
    <3>1. n = i + 1 => i \in 1 .. n /\ i + 1 \in 1 .. n
      BY <1>5
    <3> QED BY <1>6, <1>7, <3>1
  <2> QED BY <1>1, <1>7, <2>1, <2>5, <2>6 DEF TakesOff
<1> DEFINE u == s \o t
           k == Len(s) + i
<1>9. /\ u \in Seq(Sse!Chars) /\ Len(u) = Len(s) + n /\ sseStream' = u \o rest
      /\ k \in Nat /\ Len(s) < k /\ k <= Len(u)
      /\ \A j \in 1 .. n : u[Len(s) + j] = t[j]
  <2>0. s \in Seq(Sse!Chars) /\ t \in Seq(Sse!Chars) /\ rest \in Seq(Sse!Chars) /\ Len(t) = n
    BY <1>1, <1>7
  <2>1. /\ u \in Seq(Sse!Chars) /\ Len(u) = Len(s) + n /\ Len(s) \in Nat
        /\ \A j \in 1 .. Len(s) + n : u[j] = IF j <= Len(s) THEN s[j] ELSE t[j - Len(s)]
    <3>0. s \in Seq(Sse!Chars) /\ t \in Seq(Sse!Chars)
      BY <2>0
    <3>1. /\ u \in Seq(Sse!Chars) /\ Len(u) = Len(s) + Len(t) /\ Len(s) \in Nat
          /\ \A j \in 1 .. Len(s) + Len(t) : u[j] = IF j <= Len(s) THEN s[j] ELSE t[j - Len(s)]
      BY <3>0, ConcatProperties
    <3> HIDE DEF u
    <3> QED BY <2>0, <3>1
  <2>2. (s \o t) \o rest = s \o (t \o rest)
    BY SMTT(30), <2>0, ConcatAssociative
  <2>3. sseStream' = u \o rest
    BY <1>1, <1>2, <1>7, <2>2
  <2>4. i \in Nat \ {0} /\ n \in Nat /\ i <= n
    BY <1>5, <1>6
  <2>5. \A j \in 1 .. n : /\ Len(s) + j \in 1 .. Len(s) + n /\ ~(Len(s) + j <= Len(s))
                          /\ (Len(s) + j) - Len(s) = j
    BY <2>1, <2>4
  <2> HIDE DEF u
  <2>6. k \in Nat /\ Len(s) < k /\ k <= Len(u)
    BY <2>1, <2>4
  <2>7. \A j \in 1 .. n : u[Len(s) + j] = t[j]
    BY <2>1, <2>5
  <2> QED BY <2>1, <2>3, <2>6, <2>7
<1>10. /\ Sse!LineEnds(u) = Sse!LineEnds(s) \cup {k} /\ Closed(u)
       /\ Sse!LineAt(u, k) = line
  <2>1. Sse!LineAt(u, k) = SubSeq(t, 1, i - 1)
    BY <1>1, <1>7, <1>8, TakesLine
  <2>2. SubSeq(t, 1, i - 1) = line
    <3> DEFINE h == i - 1
    <3>1. 0 \in Nat /\ h \in Nat /\ 0 <= h /\ h <= Len(t) /\ 0 + 1 = 1
      BY <1>5, <1>6, <1>7
    <3> HIDE DEF h
    <3>2. SubSeq(t \o rest, 0 + 1, h) = SubSeq(t, 0 + 1, h)
      BY <1>7, <3>1, PartOfConcat
    <3> QED BY <1>7, <3>1, <3>2 DEF h
  <2>3. Sse!LineEnds(u) = Sse!LineEnds(s) \cup {k} /\ Closed(u)
    BY <1>1, <1>7, <1>8, TakesEnd
  <2> QED BY <2>1, <2>2, <2>3
<1>11. line \in Seq(Sse!Chars)
  <2> DEFINE h == i - 1
  <2>1. 0 \in Nat /\ h \in Nat /\ 0 <= h /\ h <= Len(sseBuf) /\ 0 + 1 = 1
    BY <1>5
  <2> HIDE DEF h
  <2>2. SubSeq(sseBuf, 0 + 1, h) \in Seq(Sse!Chars)
    BY <1>3, <2>1, PartFacts
  <2> QED BY <2>1, <2>2 DEF h
<1>12. Sse!TypeOK'
  <2>1. dataLines' \in Seq(Seq(Sse!Chars)) /\ sseEvents' \in Seq(Seq(Sse!Chars))
    <3>1. Sse!Join(dataLines) \in Seq(Sse!Chars)
      BY JoinType DEF Sse!TypeOK
    <3>2. line # <<>> => Sse!Value(line) \in Seq(Sse!Chars)
      BY <1>11, ValueType
    <3>3. dataLines \in Seq(Seq(Sse!Chars)) /\ sseEvents \in Seq(Seq(Sse!Chars)) /\ <<>> \in Seq(Seq(Sse!Chars))
      BY DEF Sse!TypeOK
    <3>4. Append(sseEvents, Sse!Join(dataLines)) \in Seq(Seq(Sse!Chars))
      BY <3>1, <3>3
    <3>5. line # <<>> => Append(dataLines, Sse!Value(line)) \in Seq(Seq(Sse!Chars))
      BY <3>2, <3>3
    <3> HIDE DEF line
    <3> QED BY <1>2, <3>3, <3>4, <3>5 DEF Sse!HandleLine
  <2>2. ssePc' \in {"idle", "split"} /\ sseThrows' \in 0 .. MaxThrows
    <3> HIDE DEF line
    <3> QED BY SseBounds, <1>2 DEF Sse!HandleLine, Sse!TypeOK
  <2>3. sseBuf' \in Seq(Sse!Chars) /\ sawCr' \in BOOLEAN
    BY <1>2, <1>7
  <2> QED BY <1>2, <2>1, <2>2, <2>3 DEF Sse!TypeOK
<1>13. dataLines' = Sse!DataBefore(u, Len(u) + 1) /\ sseEvents' = Sse!EventsOf(u)
  <2>1. CASE line = <<>>
    <3>1. /\ Sse!DataBefore(u, Len(u) + 1) = <<>>
          /\ Sse!EventsOf(u) = LET data == Sse!Join(Sse!DataBefore(s, Len(s) + 1))
                           IN  IF Sse!IsBlank(data) THEN Sse!EventsOf(s) ELSE Append(Sse!EventsOf(s), data)
      <4>1. Sse!LineAt(u, k) = <<>>
        BY <1>10, <2>1
      <4> QED BY <1>1, <1>7, <1>9, <1>10, <4>1, NewEvent
    <3> HIDE DEF line, u
    <3> QED BY <1>1, <1>2, <2>1, <3>1 DEF Sse!HandleLine
  <2>2. CASE line # <<>>
    <3>1. /\ Sse!EventsOf(u) = Sse!EventsOf(s)
          /\ Sse!DataBefore(u, Len(u) + 1) =
               IF Head(Sse!LineAt(u, k)) = "data"
               THEN Append(Sse!DataBefore(s, Len(s) + 1), Sse!Value(Sse!LineAt(u, k)))
               ELSE Sse!DataBefore(s, Len(s) + 1)
      <4>1. Sse!LineAt(u, k) # <<>>
        BY <1>10, <2>2
      <4> QED BY <1>1, <1>7, <1>9, <1>10, <4>1, NewField
    <3>2. sseEvents' = sseEvents
          /\ dataLines' = IF Head(line) = "data" THEN Append(dataLines, Sse!Value(line)) ELSE dataLines
      <4> HIDE DEF line
      <4> QED BY <1>2, <2>2 DEF Sse!HandleLine
    <3> HIDE DEF line, u
    <3> QED BY <1>1, <1>10, <3>1, <3>2
  <2> QED BY <2>1, <2>2
\* Where the text taken ends now.
<1>14. EndsInCr(u) => n = i /\ sseBuf[i] = "cr"
  <2> SUFFICES ASSUME EndsInCr(u) PROVE n = i /\ sseBuf[i] = "cr"
    OBVIOUS
  <2>1. u[Len(s) + n] = t[n] /\ t[n] = sseBuf[n]
    BY <1>6, <1>7, <1>9
  <2>2. sseBuf[n] = "cr"
    BY <1>9, <2>1 DEF EndsInCr
  <2> QED BY <1>6, <2>2
<1>15. sawCr' => EndsInCr(u) /\ rest = <<>>
  <2> SUFFICES ASSUME sawCr' PROVE EndsInCr(u) /\ rest = <<>>
    OBVIOUS
  <2>1. sseBuf[i] = "cr" /\ i = Len(sseBuf) /\ n = i
    BY <1>s, <1>5, <1>6
  <2>2. u[Len(s) + n] = "cr" /\ Len(u) = Len(s) + n /\ u # <<>>
    <3>1. n \in 1 .. n
      BY <1>5, <2>1
    <3>2. u[Len(s) + n] = "cr" /\ Len(u) = Len(s) + n
      BY <1>7, <1>9, <2>1, <3>1
    <3>3. Len(u) # 0
      BY <1>9
    <3> QED BY <3>2, <3>3
  <2>3. rest = <<>>
    <3>1. Len(sseBuf) = Len(t) + Len(rest) /\ Len(rest) \in Nat
      BY <1>7, ConcatProperties
    <3>2. Len(rest) = 0
      BY <1>5, <1>7, <2>1, <3>1
    <3> QED BY <1>7, <3>2
  <2> HIDE DEF u
  <2> QED BY <2>2, <2>3 DEF EndsInCr
<1>16. EndsInCr(u) /\ ~sawCr' => rest # <<>> /\ Head(rest) # "lf"
  <2> SUFFICES ASSUME EndsInCr(u), ~sawCr' PROVE rest # <<>> /\ Head(rest) # "lf"
    OBVIOUS
  <2>1. n = i /\ sseBuf[i] = "cr" /\ i < Len(sseBuf)
    BY <1>s, <1>5, <1>14
  <2>2. sseBuf[i + 1] # "lf"
    BY <1>6, <2>1
  <2>3. n \in Nat /\ n < Len(sseBuf)
    BY <1>5, <2>1
  <2>4. SubSeq(sseBuf, n + 1, Len(sseBuf)) # <<>> /\ Head(SubSeq(sseBuf, n + 1, Len(sseBuf))) = sseBuf[n + 1]
    BY <1>3, <2>3, RestAfter
  <2> QED BY <2>1, <2>2, <2>4 DEF rest
<1>17. ssePc' = "idle" => sseThrows' # 0
  <2> HIDE DEF line
  <2> QED BY <1>2 DEF Sse!HandleLine, Sse!TypeOK
<1>18. Sse!Consumed' = u /\ Len(sseBuf') <= Len(sseStream')
  <2> HIDE DEF u
  <2> QED BY <1>2, <1>7, <1>9, ConsumedIs DEF Sse!Consumed
<1> HIDE DEF u, k, line
<1> QED BY <1>2, <1>9, <1>10, <1>12, <1>13, <1>15, <1>16, <1>17, <1>18 DEF SseInv

\* At the start everything is of its type.
LEMMA SseTypes == Sse!Init => Sse!TypeOK
<1>1. <<>> \in Seq(Sse!Chars) /\ <<>> \in Seq(Seq(Sse!Chars)) /\ Len(<<>>) = 0
  OBVIOUS
<1>2. 0 <= MaxSseStream /\ 0 \in 0 .. MaxThrows
  BY SseBounds
<1> QED BY <1>1, <1>2 DEF Sse!Init, Sse!TypeOK

\* Of no text there is nothing.
LEMMA NoText ==
  Sse!DataBefore(<<>>, Len(<<>>) + 1) = <<>> /\ Sse!EventsOf(<<>>) = <<>> /\ Sse!EndsIn(<<>>) = {}
<1>1. Sse!EndsIn(<<>>) = {}
  BY DEF Sse!EndsIn
<1>2. Sse!LineEnds(<<>>) = {} /\ Sse!EventEnds(<<>>) = {} /\ Sse!Full(<<>>) = {}
      /\ Sse!Fields(<<>>, Len(<<>>) + 1) = {}
  BY <1>1 DEF Sse!LineEnds, Sse!EventEnds, Sse!Full, Sse!Fields
<1>3. ASSUME NEW f PROVE Sse!InOrder({}, f) = <<>>
  <2>1. Cardinality({}) = 0
    BY FS_EmptySet
  <2>2. Sse!InOrder({}, f) = [n \in 1 .. 0 |-> f[Sse!Nth({}, n)]]
    BY <2>1, InOrderIs
  <2>3. 1 .. 0 = {}
    OBVIOUS
  <2> QED BY <2>2, <2>3
<1>4. Sse!DataBefore(<<>>, Len(<<>>) + 1) = <<>>
  BY <1>2, <1>3 DEF Sse!DataBefore
<1>5. Sse!EventsOf(<<>>) = <<>>
  BY <1>2, <1>3 DEF Sse!EventsOf
<1> QED BY <1>1, <1>4, <1>5

\* SseInv holds at the start,
LEMMA SseInit == Sse!Init => SseInv
<1> SUFFICES ASSUME Sse!Init PROVE SseInv
  OBVIOUS
<1>1. Sse!TypeOK
  BY SseTypes
<1>2. /\ sseStream = <<>> /\ sseBuf = <<>> /\ dataLines = <<>> /\ sawCr = FALSE
      /\ sseEvents = <<>> /\ ssePc = "idle" /\ sseThrows = 0
  BY DEF Sse!Init
<1>3. Sse!Consumed = <<>> /\ sseStream = <<>> \o sseBuf /\ Len(sseBuf) <= Len(sseStream)
  <2>1. <<>> \in Seq(Sse!Chars) /\ <<>> = <<>> \o <<>>
    OBVIOUS
  <2>2. SubSeq(<<>>, 1, Len(<<>>) - Len(<<>>)) = <<>> /\ Len(<<>>) <= Len(<<>>)
    BY <2>1, ConsumedIs
  <2> QED BY <1>2, <2>1, <2>2 DEF Sse!Consumed
<1>4. Closed(<<>>) /\ ~EndsInCr(<<>>)
  BY DEF Closed, EndsInCr
<1> QED BY <1>1, <1>2, <1>3, <1>4, NoText DEF SseInv

\* and after every step.
LEMMA SseStep == SseInv /\ [Sse!Next]_(Sse!vars) => SseInv'
<1> SUFFICES ASSUME SseInv, [Sse!Next]_(Sse!vars) PROVE SseInv'
  OBVIOUS
<1>1. Sse!TypeOK /\ Taking(Sse!Consumed)
  BY IsTaking
<1>2. CASE Sse!Push
  BY <1>1, <1>2, PushTaking
<1>3. CASE Sse!TakeLine
  BY <1>1, <1>3, TakeLineTaking
<1>4. CASE Sse!EndPush
  <2>1. /\ Sse!EndsIn(sseBuf) = {} /\ ssePc' = "idle" /\ sseStream' = sseStream /\ sseBuf' = sseBuf
        /\ dataLines' = dataLines /\ sawCr' = sawCr /\ sseEvents' = sseEvents /\ sseThrows' = sseThrows
    BY <1>4 DEF Sse!EndPush
  <2>2. Sse!Consumed' = Sse!Consumed /\ Sse!TypeOK'
    BY <1>1, <2>1 DEF Sse!Consumed, Sse!TypeOK
  <2> QED BY <2>1, <2>2 DEF SseInv
<1>5. CASE UNCHANGED Sse!vars
  <2>1. /\ ssePc' = ssePc /\ sseStream' = sseStream /\ sseBuf' = sseBuf
        /\ dataLines' = dataLines /\ sawCr' = sawCr /\ sseEvents' = sseEvents /\ sseThrows' = sseThrows
    BY <1>5 DEF Sse!vars
  <2>2. Sse!Consumed' = Sse!Consumed /\ Sse!TypeOK'
    BY <1>1, <2>1 DEF Sse!Consumed, Sse!TypeOK
  <2> QED BY <2>1, <2>2 DEF SseInv
<1> QED BY <1>2, <1>3, <1>4, <1>5 DEF Sse!Next, Sse!Finished

\* However the stream is cut, whatever it says and whether the observer throws, the
\* events handed on are those of the text consumed (sse.ts, push).
THEOREM EventsAlwaysTheStreams == Sse!Spec => []EventsAreTheStreams
<1>1. SseInv => EventsAreTheStreams
  BY DEF SseInv, EventsAreTheStreams, Sse!EventsAreTheStreams
<1> QED BY <1>1, SseInit, SseStep, PTL DEF Sse!Spec

-----------------------------------------------------------------------------
\* What TLC runs is one of the parsers: the others stand still.
THEOREM ParsersRun == ParsersSpec => Spec /\ Sse!Spec /\ Json!Spec
<1>1. ParsersInit => Init /\ Sse!Init /\ Json!Init
  BY DEF ParsersInit
<1>2. [ParsersNext]_<<parser, vars, sseVars, jsonVars>>
        => [Next]_vars /\ [Sse!Next]_(Sse!vars) /\ [Json!Next]_(Json!vars)
  <2> SUFFICES ASSUME [ParsersNext]_<<parser, vars, sseVars, jsonVars>>
               PROVE  [Next]_vars /\ [Sse!Next]_(Sse!vars) /\ [Json!Next]_(Json!vars)
    OBVIOUS
  <2>1. /\ Json!vars = jsonVars /\ (Json!vars)' = jsonVars'
        /\ Sse!vars = sseVars /\ (Sse!vars)' = sseVars'
    BY DEF Json!vars, jsonVars, Sse!vars, sseVars
  <2>2. CASE Next /\ UNCHANGED sseVars /\ UNCHANGED jsonVars
    BY <2>1, <2>2
  <2>3. CASE Sse!Next /\ UNCHANGED vars /\ UNCHANGED jsonVars
    BY <2>1, <2>3
  <2>4. CASE Json!Next /\ UNCHANGED vars /\ UNCHANGED sseVars
    BY <2>1, <2>4
  <2>5. CASE UNCHANGED vars /\ UNCHANGED sseVars /\ UNCHANGED jsonVars
    BY <2>1, <2>5
  <2>6. \/ Next /\ UNCHANGED sseVars /\ UNCHANGED jsonVars
        \/ Sse!Next /\ UNCHANGED vars /\ UNCHANGED jsonVars
        \/ Json!Next /\ UNCHANGED vars /\ UNCHANGED sseVars
        \/ UNCHANGED vars /\ UNCHANGED sseVars /\ UNCHANGED jsonVars
    BY DEF ParsersNext
  <2> QED BY <2>2, <2>3, <2>4, <2>5, <2>6
<1> QED BY <1>1, <1>2, PTL DEF ParsersSpec, Spec, Sse!Spec, Json!Spec
=============================================================================
