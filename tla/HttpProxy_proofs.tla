-------------------------- MODULE HttpProxy_proofs --------------------------
(***************************************************************************)
(* What wrap-http promises, for any number of exchanges, keys, routes and   *)
(* messages.  Staged ties the response of an exchange to where handle() is *)
(* in it; RouteInv ties its upstream to its path; History says what log     *)
(* and pending are about, given AllKnown: that upstreams answer what they   *)
(* have been asked.  Sorted reduces a step of handle(), of a client or of   *)
(* an upstream to what the observer makes of it: nothing, a request, or an  *)
(* answer.                                                                  *)
(***************************************************************************)
EXTENDS HttpProxy, SequenceLemmas

(* Routing.                                                                *)

\* r is the route of a path among the first n.
IsRoute(r, p, n) ==
  IF r = 0 THEN \A i \in 1 .. n : ~Matches(Routes[i], p)
  ELSE /\ r \in 1 .. n /\ Matches(Routes[r], p)
       /\ \A i \in 1 .. n : Matches(Routes[i], p) /\ i # r =>
            Len(Routes[i]) < Len(Routes[r]) \/ (Len(Routes[i]) = Len(Routes[r]) /\ i > r)

\* The loop over the routes ends with the longest that matches.
LEMMA LoopFindsRoute ==
  ASSUME NEW p
  PROVE  IsRoute(ResolveRoute(p), p, Len(Routes))
<1> DEFINE N == Len(Routes)
           Keep(best, i) == IF Matches(Routes[i], p) /\ (best = 0 \/ Better(i, best)) THEN i
                            ELSE best
           IsBest(f) == f = [i \in 0 .. N |-> IF i = 0 THEN 0 ELSE Keep(f[i - 1], i)]
<1>1. N \in Nat /\ \A i \in 1 .. N : Len(Routes[i]) \in Nat
  BY RoutesAssumption
<1> HIDE DEF N
<1>2. \E f : IsBest(f)
  <2> DEFINE step == [i \in 1 .. N |-> [best \in 0 .. N |-> Keep(best, i)]]
  <2>1. \A i \in 1 .. N, best \in 0 .. N : Keep(best, i) \in 0 .. N
    BY <1>1
  <2> HIDE DEF Keep
  <2>2. step \in [1 .. N -> [0 .. N -> 0 .. N]]
    BY <2>1
  <2>3. 0 \in 0 .. N
    BY <1>1
  <2>4. PICK f \in [0 .. N -> 0 .. N] : f[0] = 0 /\ \A i \in 1 .. N : f[i] = step[i][f[i - 1]]
    <3> DEFINE T == 0 .. N
    <3>1. 0 \in T /\ step \in [1 .. N -> [T -> T]]
      BY <2>2, <2>3
    <3> HIDE DEF step, T
    <3>2. \E f : IsRun(f, T, 0, N, step)
      BY <1>1, <3>1, LoopHasRun
    <3> QED BY <3>2 DEF T, IsRun
  <2>5. ASSUME NEW i \in 0 .. N PROVE f[i] = IF i = 0 THEN 0 ELSE Keep(f[i - 1], i)
    <3>1. CASE i = 0
      BY <2>4, <3>1
    <3>2. CASE i # 0
      <4>1. i \in 1 .. N /\ i - 1 \in 0 .. N
        BY <1>1, <3>2
      <4> QED BY <2>4, <3>2, <4>1
    <3> QED BY <3>1, <3>2
  <2>6. IsBest(f)
    BY <2>4, <2>5
  <2> QED BY <2>6
<1> DEFINE best == CHOOSE f : IsBest(f)
<1>3. ResolveRoute(p) = best[N]
  BY DEF ResolveRoute, N
<1>4. IsBest(best)
  BY <1>2
<1> DEFINE S == {n \in Nat : n <= N => IsRoute(best[n], p, n)}
<1>5. best[0] = 0 /\ \A i \in 1 .. N : best[i] = Keep(best[i - 1], i)
  <2> HIDE DEF best, Keep
  <2> QED BY <1>1, <1>4
<1> HIDE DEF best, IsBest
<1>6. 0 \in S
  BY <1>5 DEF IsRoute
<1>7. ASSUME NEW n \in S PROVE n + 1 \in S
  <2> SUFFICES ASSUME n + 1 <= N PROVE IsRoute(best[n + 1], p, n + 1)
    OBVIOUS
  <2>1. n \in Nat /\ n + 1 \in 1 .. N /\ IsRoute(best[n], p, n)
    BY <1>1
  <2>2. best[n + 1] = Keep(best[n], n + 1)
    BY <1>5, <2>1
  <2>3. \A i \in 1 .. n + 1 : i \in 1 .. n \/ i = n + 1
    BY <2>1
  <2>4. CASE ~Matches(Routes[n + 1], p)
    BY <2>1, <2>2, <2>3, <2>4 DEF IsRoute
  <2>5. CASE Matches(Routes[n + 1], p) /\ best[n] = 0
    BY <1>1, <2>1, <2>2, <2>3, <2>5 DEF IsRoute
  <2>6. CASE Matches(Routes[n + 1], p) /\ best[n] # 0
    <3>1. best[n] \in 1 .. n /\ Len(Routes[best[n]]) \in Nat /\ Len(Routes[n + 1]) \in Nat
      BY <1>1, <2>1, <2>6 DEF IsRoute
    <3>2. CASE Better(n + 1, best[n])
      BY SMTT(30), <1>1, <2>1, <2>2, <2>3, <2>6, <3>1, <3>2 DEF IsRoute, Better
    <3>3. CASE ~Better(n + 1, best[n])
      BY <1>1, <2>1, <2>2, <2>3, <2>6, <3>1, <3>3 DEF IsRoute, Better
    <3> QED BY <3>2, <3>3
  <2> QED BY <2>4, <2>5, <2>6
<1>8. S = Nat
  <2>1. S \in SUBSET Nat /\ \A n \in S : n + 1 \in S
    BY <1>7
  <2> HIDE DEF S
  <2> QED BY <1>6, <2>1, SetInduction
<1>9. N \in S
  <2> HIDE DEF S
  <2> QED BY <1>1, <1>8
<1>10. N <= N => IsRoute(best[N], p, N)
  BY <1>9
<1> QED BY <1>1, <1>3, <1>10 DEF N

-----------------------------------------------------------------------------
(* Where an exchange is.                                                    *)

Silent == [headers |-> "none", body |-> <<>>, ended |-> FALSE]

\* What the client has and the upstream has said, at each stage of handle().
Stage(e) ==
  /\ phase[e] = "new" => body[e] = NoBody
  /\ phase[e] \in {"new", "body", "fetch"} =>
       upstream[e] = "idle" /\ upSent[e] = <<>> /\ net[e] = <<>> /\ res[e] = Silent
  /\ phase[e] = "stream" =>
       /\ upstream[e] # "idle" /\ res[e].headers = "upstream" /\ ~res[e].ended
       /\ upSent[e] = res[e].body \o net[e]
  /\ phase[e] = "plain" => upstream[e] # "idle" /\ res[e] = Silent /\ Len(upSent[e]) <= 1
  /\ phase[e] = "closed" =>
       /\ upstream[e] # "open" /\ res[e].ended /\ res[e].headers # "none"
       /\ IF res[e].headers = "upstream"
          THEN /\ upstream[e] # "idle" /\ IsPrefix(res[e].body, upSent[e])
               /\ upstream[e] = "done" => res[e].body = upSent[e]
          ELSE res[e].body = <<>>

Staged == TypeOK /\ \A e \in Exchanges : Stage(e)

\* What is concatenated to a sequence leaves it a prefix.
LEMMA PrefixOfConcat ==
  \A s, t \in Seq(Message) : IsPrefix(s, s \o t) /\ s \o <<>> = s /\ <<>> \o s = s
<1> TAKE s, t \in Seq(Message)
<1>1. Len(s) <= Len(s \o t)
  BY ConcatProperties
<1>2. SubSeq(s \o t, 1, Len(s)) = s /\ SubSeq(s, 1, Len(s)) = s
  BY SubSeqOfConcat1, SubSeqFull
<1>3. IsPrefix(s, s \o t)
  BY <1>1, <1>2 DEF IsPrefix
<1> QED BY <1>3, ConcatEmptySeq

Resp(h, b, x) == [headers |-> h, body |-> b, ended |-> x]

\* Responses, by their parts.
LEMMA RespType ==
  \A h \in {"none", "403", "404", "502", "upstream"}, b \in Seq(Message), x \in BOOLEAN :
    /\ Resp(h, b, x) \in Response
    /\ Resp(h, b, x).headers = h /\ Resp(h, b, x).body = b /\ Resp(h, b, x).ended = x
BY DEF Resp, Response

\* What a change of one field of the response leaves.
LEMMA HeadersPass ==
  ASSUME TypeOK, NEW e \in Exchanges, res' = [res EXCEPT ![e].headers = "upstream"]
  PROVE  res' = [res EXCEPT ![e] = Resp("upstream", res[e].body, res[e].ended)]
<1>1. res' = [res EXCEPT ![e] = [res[e] EXCEPT !.headers = "upstream"]]
  OBVIOUS
<1>2. res[e] \in Response
  BY DEF TypeOK
<1>3. [res[e] EXCEPT !.headers = "upstream"] = Resp("upstream", res[e].body, res[e].ended)
  BY <1>2 DEF Response, Resp
<1> QED BY <1>1, <1>3

\* The same of the body.
LEMMA BodyGrows ==
  ASSUME TypeOK, NEW e \in Exchanges, NEW b, res' = [res EXCEPT ![e].body = b]
  PROVE  res' = [res EXCEPT ![e] = Resp(res[e].headers, b, res[e].ended)]
<1>1. res' = [res EXCEPT ![e] = [res[e] EXCEPT !.body = b]]
  OBVIOUS
<1>2. res[e] \in Response
  BY DEF TypeOK
<1>3. [res[e] EXCEPT !.body = b] = Resp(res[e].headers, b, res[e].ended)
  BY <1>2 DEF Response, Resp
<1> QED BY <1>1, <1>3

\* And of its end.
LEMMA ResponseEnds ==
  ASSUME TypeOK, NEW e \in Exchanges, res' = [res EXCEPT ![e].ended = TRUE]
  PROVE  /\ res' \in [Exchanges -> Response]
         /\ res'[e].headers = res[e].headers /\ res'[e].body = res[e].body /\ res'[e].ended
         /\ \A f \in Exchanges : f # e => res'[f] = res[f]
<1>1. res \in [Exchanges -> Response]
  BY DEF TypeOK
<1>2. res' \in [Exchanges -> Response]
  BY <1>1 DEF Response
<1>3. res'[e].headers = res[e].headers /\ res'[e].body = res[e].body /\ res'[e].ended
  BY <1>1 DEF Response
<1> QED BY <1>1, <1>2, <1>3

\* What a stage says is what a client is promised.
LEMMA StagedGivesBody == Staged => BodyIsUpstreams
<1> SUFFICES ASSUME Staged, NEW e \in Exchanges
             PROVE  IF res[e].headers = "upstream"
                    THEN /\ IsPrefix(res[e].body, upSent[e])
                         /\ res[e].ended /\ upstream[e] = "done" => res[e].body = upSent[e]
                    ELSE res[e].body = <<>> /\ (res[e].ended <=> res[e].headers # "none")
  BY DEF BodyIsUpstreams
<1>1. res[e].body \in Seq(Message) /\ net[e] \in Seq(Message) /\ Stage(e)
  BY DEF Staged, TypeOK, Response
<1>2. phase[e] \in {"new", "body", "fetch", "stream", "plain", "closed"}
  BY DEF Staged, TypeOK
<1>3. CASE phase[e] = "stream"
  <2>1. IsPrefix(res[e].body, upSent[e])
    BY <1>1, <1>3, PrefixOfConcat DEF Stage
  <2> QED BY <1>1, <1>3, <2>1 DEF Stage
<1>4. CASE phase[e] = "closed"
  BY <1>1, <1>4 DEF Stage
<1>5. CASE phase[e] \notin {"stream", "closed"}
  BY <1>1, <1>2, <1>5 DEF Stage, Silent
<1> QED BY <1>3, <1>4, <1>5

\* Before the first request every exchange is new.
LEMMA InitStaged == Init => Staged
<1> SUFFICES ASSUME Init PROVE Staged
  OBVIOUS
<1>1. TypeOK
  BY DEF Init, TypeOK, Root, Response
<1> QED BY <1>1 DEF Init, Staged, Stage, Silent

\* Whoever a step does not touch stays as they are.
LEMMA Elsewhere ==
  ASSUME NEW f, Stage(f), UNCHANGED <<phase[f], body[f], upstream[f], upSent[f], net[f], res[f]>>
  PROVE  Stage(f)'
BY DEF Stage

\* Types of what the observer keeps.
LEMMA ObserveTypes ==
  ASSUME TypeOK
  PROVE  /\ \A e \in Exchanges : ObserveRequest(e) =>
              log' \in Seq(LogEvent) /\ pending' \in [Keys -> Exchanges \cup {NoOne}]
         /\ \A e \in Exchanges, m \in Message, n \in Nat : ObserveAnswer(e, m, n) =>
              log' \in Seq(LogEvent) /\ pending' \in [Keys -> Exchanges \cup {NoOne}]
<1>1. \A l \in LogEvent : log \o <<l>> \in Seq(LogEvent)
  BY ConcatProperties DEF TypeOK
<1>2. log \o <<>> = log
  BY ConcatEmptySeq DEF TypeOK
<1>3. ASSUME NEW e \in Exchanges, ObserveRequest(e)
      PROVE  log' \in Seq(LogEvent) /\ pending' \in [Keys -> Exchanges \cup {NoOne}]
  <2>1. [t |-> "c2s", e |-> e, n |-> 1, of |-> NoOne] \in LogEvent
    BY DEF LogEvent
  <2>2. log' \in Seq(LogEvent)
    BY <1>1, <1>3, <2>1 DEF ObserveRequest, Log, TypeOK
  <2>3. pending' \in [Keys -> Exchanges \cup {NoOne}]
    BY <1>3 DEF ObserveRequest, TypeOK
  <2> QED BY <2>2, <2>3
<1>4. ASSUME NEW e \in Exchanges, NEW m \in Message, NEW n \in Nat, ObserveAnswer(e, m, n)
      PROVE  log' \in Seq(LogEvent) /\ pending' \in [Keys -> Exchanges \cup {NoOne}]
  <2> DEFINE of == IF Matched(m) THEN MatchedWith(e, m) ELSE NoOne
  <2>1. [t |-> "s2c", e |-> e, n |-> n, of |-> of] \in LogEvent
    <3>1. of \in Exchanges \cup {NoOne}
      BY DEF Matched, MatchedWith, TypeOK
    <3> HIDE DEF of
    <3> QED BY <3>1 DEF LogEvent
  <2>2. log' \in Seq(LogEvent)
    BY <1>1, <1>2, <1>4, <2>1 DEF ObserveAnswer, AnswerLine, Log, TypeOK
  <2>3. pending' \in [Keys -> Exchanges \cup {NoOne}]
    BY <1>4 DEF ObserveAnswer, Forget, TypeOK
  <2> QED BY <2>2, <2>3
<1> QED BY <1>3, <1>4

-----------------------------------------------------------------------------
(* Each step keeps every exchange at its stage.                             *)

\* A request is refused or routed.
LEMMA ArriveStaged ==
  ASSUME Staged, NEW e \in Exchanges, Arrive(e)
  PROVE  Staged'
<1> USE DEF Staged
<1>1. PICK b \in Bodies, p \in Paths :
        /\ path' = [path EXCEPT ![e] = p]
        /\ LET r == ResolveRoute(p)
           IN  \/ Refused(e, "403")
               \/ r = 0 /\ Refused(e, "404")
               \/ r # 0 /\ Routed(e, r, b)
  BY DEF Arrive
<1> DEFINE r == ResolveRoute(p)
<1>2. r \in 0 .. Len(Routes)
  BY LoopFindsRoute, RoutesAssumption DEF IsRoute
<1> HIDE DEF r
<1>3. UNCHANGED <<upstream, upSent, net, connected, pending, log, shutdown>> /\ phase[e] = "new"
  BY DEF Arrive, upVars
<1>4. path' \in [Exchanges -> Paths \cup {Root}]
  BY <1>1 DEF TypeOK
<1>5. upstream[e] = "idle" /\ upSent[e] = <<>> /\ net[e] = <<>> /\ res[e] = Silent
  BY <1>3 DEF Stage
<1>6. ASSUME NEW code \in {"403", "404"}, Refused(e, code) PROVE Staged'
  <2>1. TypeOK'
    BY <1>3, <1>4, <1>6 DEF Refused, Own, TypeOK, Response
  <2>2. ASSUME NEW f \in Exchanges PROVE Stage(f)'
    <3>1. CASE f = e
      BY <1>3, <1>5, <1>6, <3>1 DEF Refused, Own, Stage, TypeOK, Response
    <3>2. CASE f # e
      BY <1>3, <1>6, <3>2, Elsewhere DEF Refused, Own, TypeOK
    <3> QED BY <3>1, <3>2
  <2> QED BY <2>1, <2>2
<1>7. ASSUME Routed(e, r, b) PROVE Staged'
  <2>1. TypeOK'
    BY <1>2, <1>3, <1>4, <1>7 DEF Routed, TypeOK
  <2>2. ASSUME NEW f \in Exchanges PROVE Stage(f)'
    <3>1. CASE f = e
      BY <1>3, <1>5, <1>7, <3>1 DEF Routed, Stage, TypeOK
    <3>2. CASE f # e
      BY <1>3, <1>7, <3>2, Elsewhere DEF Routed, TypeOK
    <3> QED BY <3>1, <3>2
  <2> QED BY <2>1, <2>2
<1> QED BY <1>1, <1>6, <1>7 DEF r

\* handle() rejects before headers have passed, the upstream silent or dead.
LEMMA RejectStaged ==
  ASSUME Staged, NEW e \in Exchanges, phase[e] \in {"body", "fetch", "plain"}, Reject(e),
         UNCHANGED <<body, path, asked, upSent, net, connected, shutdown>>,
         upstream' \in [Exchanges -> {"idle", "open", "done", "dead"}], upstream'[e] # "open",
         \A f \in Exchanges : f # e => upstream'[f] = upstream[f],
         log' \in Seq(LogEvent), pending' \in [Keys -> Exchanges \cup {NoOne}]
  PROVE  Staged'
<1> USE DEF Staged
<1>1. res[e] = Silent
  BY DEF Stage
<1>2. /\ phase' = [phase EXCEPT ![e] = "closed"]
      /\ res' = [res EXCEPT ![e] = [headers |-> "502", body |-> <<>>, ended |-> TRUE]]
  BY <1>1 DEF Reject, Own, Silent
<1>3. TypeOK'
  BY <1>2 DEF TypeOK, Response
<1>4. ASSUME NEW f \in Exchanges PROVE Stage(f)'
  <2>1. CASE f = e
    BY <1>2, <2>1 DEF Stage, TypeOK
  <2>2. CASE f # e
    BY <1>2, <2>2, Elsewhere DEF TypeOK
  <2> QED BY <2>1, <2>2
<1> QED BY <1>3, <1>4

\* The steps of handle() that end in a rejection, and those before the headers.
LEMMA BeforeHeadersStaged ==
  ASSUME Staged, NEW e \in Exchanges,
         BodyRead(e) \/ BodyFails(e) \/ FetchFails(e) \/ FetchResolves(e) \/ PlainFails(e)
  PROVE  Staged'
<1> USE DEF Staged
<1>1. CASE BodyRead(e)
  <2>1. log' \in Seq(LogEvent) /\ pending' \in [Keys -> Exchanges \cup {NoOne}]
    BY <1>1, ObserveTypes DEF BodyRead
  <2>2. /\ UNCHANGED <<body, path, asked, upstream, upSent, net, connected, shutdown>>
        /\ phase[e] = "body"
    BY <1>1 DEF BodyRead, upVars
  <2>3. upstream[e] = "idle" /\ upstream' \in [Exchanges -> {"idle", "open", "done", "dead"}]
    BY <2>2 DEF Stage, TypeOK
  <2>4. CASE Throws(body[e])
    <3>1. Reject(e)
      BY <1>1, <2>4 DEF BodyRead
    <3> QED BY <2>1, <2>2, <2>3, <3>1, RejectStaged
  <2>5. CASE ~Throws(body[e])
    <3>1. phase' = [phase EXCEPT ![e] = "fetch"] /\ res' = res
      BY <1>1, <2>5 DEF BodyRead
    <3>2. TypeOK'
      BY <2>1, <2>2, <3>1 DEF TypeOK
    <3>3. ASSUME NEW f \in Exchanges PROVE Stage(f)'
      <4>1. CASE f = e
        BY <2>2, <3>1, <4>1 DEF Stage, TypeOK
      <4>2. CASE f # e
        BY <2>2, <3>1, <4>2, Elsewhere DEF TypeOK
      <4> QED BY <4>1, <4>2
    <3> QED BY <3>2, <3>3
  <2> QED BY <2>4, <2>5
<1>2. CASE BodyFails(e)
  <2>1. upstream[e] = "idle" /\ upstream' = upstream
    BY <1>2 DEF BodyFails, Stage, upVars
  <2> QED BY <1>2, <2>1, RejectStaged DEF BodyFails, upVars, TypeOK
<1>3. CASE FetchFails(e)
  <2>1. /\ upstream' = [upstream EXCEPT ![e] = "dead"]
        /\ phase[e] = "fetch" /\ Reject(e)
        /\ UNCHANGED <<body, path, asked, upSent, net, connected, pending, log, shutdown>>
    BY <1>3 DEF FetchFails
  <2>2. /\ upstream' \in [Exchanges -> {"idle", "open", "done", "dead"}] /\ upstream'[e] # "open"
        /\ \A f \in Exchanges : f # e => upstream'[f] = upstream[f]
    BY <2>1 DEF TypeOK
  <2>3. log' \in Seq(LogEvent) /\ pending' \in [Keys -> Exchanges \cup {NoOne}]
    BY <2>1 DEF TypeOK
  <2> QED BY <2>1, <2>2, <2>3, RejectStaged
<1>4. CASE FetchResolves(e)
  <2>1. /\ upstream' = [upstream EXCEPT ![e] = "open"] /\ phase[e] = "fetch"
        /\ UNCHANGED <<body, path, asked, upSent, net, connected, pending, log, shutdown>>
        /\ \/ /\ phase' = [phase EXCEPT ![e] = "stream"]
              /\ res' = [res EXCEPT ![e].headers = "upstream"]
           \/ phase' = [phase EXCEPT ![e] = "plain"] /\ UNCHANGED res
    BY <1>4 DEF FetchResolves
  <2>2. upSent[e] = <<>> /\ net[e] = <<>> /\ res[e] = Silent
    BY <2>1 DEF Stage
  <2>3. Len(upSent[e]) <= 1 /\ <<>> \o <<>> = <<>>
    BY <2>2
  <2>4. CASE /\ phase' = [phase EXCEPT ![e] = "stream"]
             /\ res' = [res EXCEPT ![e].headers = "upstream"]
    <3>1. res' = [res EXCEPT ![e] = Resp("upstream", <<>>, FALSE)]
      <4>1. res[e].body = <<>> /\ res[e].ended = FALSE
        BY <2>2 DEF Silent
      <4> QED BY <2>4, <4>1, HeadersPass
    <3>r. /\ Resp("upstream", <<>>, FALSE) \in Response
          /\ Resp("upstream", <<>>, FALSE).headers = "upstream"
          /\ Resp("upstream", <<>>, FALSE).body = <<>> /\ ~Resp("upstream", <<>>, FALSE).ended
      BY DEF Resp, Response
    <3>2. TypeOK'
      BY ZenonT(40), <2>1, <2>4, <3>1, <3>r DEF TypeOK
    <3>3. ASSUME NEW f \in Exchanges PROVE Stage(f)'
      <4>1. CASE f = e
        <5>1. /\ res'[e].headers = "upstream" /\ ~res'[e].ended /\ res'[e].body = <<>>
              /\ phase'[e] = "stream" /\ upstream'[e] = "open"
          BY <2>1, <2>4, <3>1, <3>r DEF TypeOK
        <5>2. upSent'[e] = <<>> /\ net'[e] = <<>>
          BY <2>1, <2>2
        <5>3. upSent'[e] = res'[e].body \o net'[e]
          BY <2>3, <5>1, <5>2
        <5> QED BY <4>1, <5>1, <5>3 DEF Stage
      <4>2. CASE f # e
        BY <2>1, <2>4, <3>1, <4>2, Elsewhere DEF TypeOK
      <4> QED BY <4>1, <4>2
    <3> QED BY <3>2, <3>3
  <2>5. CASE phase' = [phase EXCEPT ![e] = "plain"] /\ res' = res
    <3>1. TypeOK'
      BY <2>1, <2>5 DEF TypeOK
    <3>2. ASSUME NEW f \in Exchanges PROVE Stage(f)'
      <4>1. CASE f = e
        BY <2>1, <2>2, <2>3, <2>5, <4>1 DEF Stage, TypeOK
      <4>2. CASE f # e
        BY <2>1, <2>5, <4>2, Elsewhere DEF TypeOK
      <4> QED BY <4>1, <4>2
    <3> QED BY <3>1, <3>2
  <2> QED BY <2>1, <2>4, <2>5
<1>5. CASE PlainFails(e)
  <2>1. upstream[e] = "dead" /\ upstream' = upstream
    BY <1>5 DEF PlainFails, upVars
  <2> QED BY <1>5, <2>1, RejectStaged DEF PlainFails, upVars, TypeOK
<1> QED BY <1>1, <1>2, <1>3, <1>4, <1>5

\* A stream: each event passes, in order; the end, in whatever way it comes.
LEMMA StreamStaged ==
  ASSUME Staged, NEW e \in Exchanges, ReadChunk(e) \/ StreamEnds(e)
  PROVE  Staged'
<1> USE DEF Staged
<1>1. /\ phase[e] = "stream" /\ res[e].headers = "upstream" /\ ~res[e].ended
      /\ upSent[e] = res[e].body \o net[e] /\ upstream[e] # "idle"
  BY DEF ReadChunk, StreamEnds, Stage
<1>2. res[e].body \in Seq(Message) /\ net[e] \in Seq(Message)
  BY DEF TypeOK, Response
<1>3. CASE ReadChunk(e)
  <2> DEFINE m == Head(net[e])
             b == Append(res[e].body, m)
  <2>1. net[e] # <<>> /\ m \in Message /\ Tail(net[e]) \in Seq(Message)
    BY <1>2, <1>3, HeadTailProperties DEF ReadChunk
  <2>2. b \in Seq(Message) /\ b \o Tail(net[e]) = res[e].body \o net[e]
    BY ZenonT(40), <1>2, <2>1, MoveHead, AppendProperties
  <2>3. Len(res[e].body) + 1 \in Nat
    BY <1>2
  <2>4. ObserveAnswer(e, m, Len(res[e].body) + 1)
    BY <1>3 DEF ReadChunk
  <2>5. log' \in Seq(LogEvent) /\ pending' \in [Keys -> Exchanges \cup {NoOne}]
    <3> HIDE DEF m
    <3> QED BY <2>1, <2>3, <2>4, ObserveTypes
  <2>6. /\ net' = [net EXCEPT ![e] = Tail(net[e])] /\ res' = [res EXCEPT ![e].body = b]
        /\ UNCHANGED <<phase, body, path, asked, upstream, upSent, connected, shutdown>>
    BY <1>3 DEF ReadChunk, ToClient
  <2> HIDE DEF b
  <2>7. res' = [res EXCEPT ![e] = Resp("upstream", b, res[e].ended)]
    BY <1>1, <2>6, BodyGrows
  <2>r. /\ res[e].ended = FALSE
        /\ Resp("upstream", b, res[e].ended) \in Response
        /\ Resp("upstream", b, res[e].ended).headers = "upstream"
        /\ Resp("upstream", b, res[e].ended).body = b /\ ~Resp("upstream", b, res[e].ended).ended
    <3>1. res[e].ended \in BOOLEAN
      BY DEF TypeOK, Response
    <3> QED BY <1>1, <2>2, <3>1, RespType
  <2>8. TypeOK'
    BY ZenonT(40), <2>1, <2>2, <2>5, <2>6, <2>7, <2>r DEF TypeOK
  <2>9. ASSUME NEW f \in Exchanges PROVE Stage(f)'
    <3>1. CASE f = e
      <4>1. res'[e].headers = "upstream" /\ ~res'[e].ended /\ res'[e].body = b
        BY <2>7, <2>r DEF TypeOK
      <4>2. phase'[e] = "stream" /\ upstream'[e] # "idle" /\ upSent'[e] = b \o net'[e]
        BY <1>1, <2>2, <2>6 DEF TypeOK
      <4> QED BY <3>1, <4>1, <4>2 DEF Stage
    <3>2. CASE f # e
      BY <2>6, <2>7, <3>2, Elsewhere DEF TypeOK
    <3> QED BY <3>1, <3>2
  <2> QED BY <2>8, <2>9
<1>4. CASE StreamEnds(e)
  <2>1. /\ phase' = [phase EXCEPT ![e] = "closed"] /\ net' = [net EXCEPT ![e] = <<>>]
        /\ res' = [res EXCEPT ![e].ended = TRUE]
        /\ UNCHANGED <<body, path, asked, upstream, upSent, connected, pending, log, shutdown>>
        /\ upstream[e] = "dead" \/ (upstream[e] = "done" /\ net[e] = <<>>)
    BY <1>4 DEF StreamEnds, StreamBroken
  <2>2. /\ res' \in [Exchanges -> Response]
        /\ res'[e].headers = "upstream" /\ res'[e].body = res[e].body /\ res'[e].ended
        /\ \A f \in Exchanges : f # e => res'[f] = res[f]
    BY <1>1, <2>1, ResponseEnds
  <2>3. IsPrefix(res[e].body, upSent[e]) /\ (net[e] = <<>> => upSent[e] = res[e].body)
    BY <1>1, <1>2, PrefixOfConcat
  <2>4. TypeOK'
    BY <2>1, <2>2 DEF TypeOK
  <2>5. ASSUME NEW f \in Exchanges PROVE Stage(f)'
    <3>1. CASE f = e
      BY ZenonT(40), <1>1, <2>1, <2>2, <2>3, <3>1 DEF Stage, TypeOK
    <3>2. CASE f # e
      BY <2>1, <2>2, <3>2, Elsewhere DEF TypeOK
    <3> QED BY <3>1, <3>2
  <2> QED BY <2>4, <2>5
<1> QED BY <1>3, <1>4

\* A plain answer passes whole.
LEMMA PlainStaged ==
  ASSUME Staged, NEW e \in Exchanges, PlainDone(e)
  PROVE  Staged'
<1> USE DEF Staged
<1>1. /\ phase[e] = "plain" /\ upstream[e] = "done"
      /\ phase' = [phase EXCEPT ![e] = "closed"] /\ net' = [net EXCEPT ![e] = <<>>]
      /\ res' = [res EXCEPT ![e] = [headers |-> "upstream", body |-> upSent[e], ended |-> TRUE]]
      /\ UNCHANGED <<body, path, asked, upstream, upSent, connected, shutdown>>
  BY DEF PlainDone
<1>2. upSent[e] \in Seq(Message)
  BY DEF TypeOK
<1>3. log' \in Seq(LogEvent) /\ pending' \in [Keys -> Exchanges \cup {NoOne}]
  <2>1. CASE upSent[e] = <<>>
    BY <2>1 DEF PlainDone, TypeOK
  <2>2. CASE upSent[e] # <<>>
    <3>1. Head(upSent[e]) \in Message
      BY <1>2, <2>2, HeadTailProperties
    <3>2. ObserveAnswer(e, Head(upSent[e]), 1)
      BY <2>2 DEF PlainDone
    <3> QED BY <3>1, <3>2, ObserveTypes
  <2> QED BY <2>1, <2>2
<1>4. IsPrefix(upSent[e], upSent[e])
  <2>1. <<>> \in Seq(Message)
    OBVIOUS
  <2>2. IsPrefix(upSent[e], upSent[e] \o <<>>) /\ upSent[e] \o <<>> = upSent[e]
    BY <1>2, <2>1, PrefixOfConcat
  <2> QED BY <2>2
<1>5. TypeOK'
  BY <1>1, <1>2, <1>3 DEF TypeOK, Response
<1>6. ASSUME NEW f \in Exchanges PROVE Stage(f)'
  <2>1. CASE f = e
    BY <1>1, <1>4, <2>1 DEF Stage, TypeOK
  <2>2. CASE f # e
    BY <1>1, <2>2, Elsewhere DEF TypeOK
  <2> QED BY <2>1, <2>2
<1> QED BY <1>5, <1>6

\* The upstreams, the clients and the signals.
LEMMA OutsideStaged ==
  ASSUME Staged,
         (\E e \in Exchanges : UpSends(e) \/ UpEnds(e) \/ ClientLeaves(e)) \/ Signal \/ Exit
  PROVE  Staged'
<1> USE DEF Staged
<1>1. ASSUME NEW e \in Exchanges, UpSends(e) PROVE Staged'
  <2>1. PICK m \in Message : /\ upSent' = [upSent EXCEPT ![e] = Append(upSent[e], m)]
                             /\ net' = [net EXCEPT ![e] = Append(net[e], m)]
    BY <1>1 DEF UpSends
  <2>2. /\ UNCHANGED <<phase, body, path, asked, res, upstream, connected, pending, log, shutdown>>
        /\ upstream[e] = "open" /\ (phase[e] = "plain" => upSent[e] = <<>>)
    BY <1>1 DEF UpSends, exchangeVars
  <2>3. upSent[e] \in Seq(Message) /\ net[e] \in Seq(Message) /\ res[e].body \in Seq(Message)
    BY DEF TypeOK, Response
  <2>4. Append(upSent[e], m) \in Seq(Message) /\ Append(net[e], m) \in Seq(Message)
    BY <2>3, AppendProperties
  <2>5. res[e].body \o Append(net[e], m) = Append(res[e].body \o net[e], m)
    <3> DEFINE s == res[e].body
               t == net[e]
    <3>1. m \in Message /\ s \in Seq(Message) /\ t \in Seq(Message)
      BY <2>3
    <3> HIDE DEF s, t
    <3>2. s \o Append(t, m) = Append(s \o t, m)
      BY <3>1, ConcatAppend
    <3> QED BY <3>2 DEF s, t
  <2>6. upSent[e] = <<>> => Len(Append(upSent[e], m)) <= 1
    OBVIOUS
  <2>7. TypeOK'
    BY <2>1, <2>2, <2>4 DEF TypeOK
  <2>8. ASSUME NEW f \in Exchanges PROVE Stage(f)'
    <3>1. CASE f = e
      BY <2>1, <2>2, <2>5, <2>6, <3>1 DEF Stage, TypeOK
    <3>2. CASE f # e
      BY <2>1, <2>2, <3>2, Elsewhere DEF TypeOK
    <3> QED BY <3>1, <3>2
  <2> QED BY <2>7, <2>8
<1>2. ASSUME NEW e \in Exchanges, UpEnds(e) PROVE Staged'
  <2>1. PICK how \in {"done", "dead"} : upstream' = [upstream EXCEPT ![e] = how]
    BY <1>2 DEF UpEnds
  <2>2. /\ UNCHANGED <<phase, body, path, asked, res, upSent, net, connected, pending, log, shutdown>>
        /\ upstream[e] = "open"
    BY <1>2 DEF UpEnds, exchangeVars
  <2>3. TypeOK'
    BY <2>1, <2>2 DEF TypeOK
  <2>4. ASSUME NEW f \in Exchanges PROVE Stage(f)'
    <3>1. CASE f = e
      BY <2>1, <2>2, <3>1 DEF Stage, TypeOK
    <3>2. CASE f # e
      BY <2>1, <2>2, <3>2, Elsewhere DEF TypeOK
    <3> QED BY <3>1, <3>2
  <2> QED BY <2>3, <2>4
<1>3. ASSUME \/ \E e \in Exchanges : ClientLeaves(e)
             \/ Signal \/ Exit
      PROVE  Staged'
  <2>1. TypeOK'
    BY <1>3 DEF ClientLeaves, Signal, Exit, exchangeVars, upVars, TypeOK
  <2>2. UNCHANGED <<phase, body, upstream, upSent, net, res>>
    BY <1>3 DEF ClientLeaves, Signal, Exit, exchangeVars, upVars
  <2> QED BY <2>1, <2>2, Elsewhere
<1> QED BY <1>1, <1>2, <1>3

\* Every step leaves every exchange at a stage, with the response that goes with it.
LEMMA NextStaged == Staged /\ [Next]_vars => Staged'
<1> SUFFICES ASSUME Staged, [Next]_vars PROVE Staged'
  OBVIOUS
<1>1. CASE UNCHANGED vars
  <2>1. TypeOK'
    BY <1>1 DEF vars, exchangeVars, upVars, Staged, TypeOK
  <2>2. UNCHANGED <<phase, body, upstream, upSent, net, res>>
    BY <1>1 DEF vars, exchangeVars, upVars
  <2> QED BY <2>1, <2>2, Elsewhere DEF Staged
<1>2. ASSUME NEW e \in Exchanges, Handle(e) PROVE Staged'
  BY <1>2, BeforeHeadersStaged, StreamStaged, PlainStaged DEF Handle
<1> QED BY <1>1, <1>2, ArriveStaged, OutsideStaged DEF Next

-----------------------------------------------------------------------------
(* What any step keeps, and the three kinds of step there are for the log.  *)

Frame ==
  /\ \A e \in Exchanges : phase[e] # "new" =>
       /\ phase'[e] # "new" /\ body'[e] = body[e] /\ path'[e] = path[e] /\ asked'[e] = asked[e]
       /\ res[e].headers = "403" => res'[e].headers = "403"
  /\ \A e \in Exchanges : phase[e] \notin {"new", "body"} => phase'[e] \notin {"new", "body"}
  /\ \A e \in Exchanges : upstream[e] # "idle" => upstream'[e] # "idle"
  /\ shutdown' = "no" => shutdown = "no"

SameBodies == \A e \in Exchanges : res'[e].body = res[e].body

\* Nothing is observed and no more reaches a client.
Quiet ==
  /\ UNCHANGED <<log, pending>> /\ SameBodies
  /\ \A e \in Exchanges : Asked(e)' /\ body'[e] # NoBody => Asked(e)

\* A request is observed.
Requests(e) ==
  /\ phase[e] = "body" /\ phase'[e] \notin {"new", "body"} /\ ObserveRequest(e) /\ SameBodies
  /\ \A f \in Exchanges : f # e => (Asked(f)' <=> Asked(f))
  /\ body' = body /\ shutdown' = shutdown

\* An answer is passed on and observed.
Answers(e) ==
  /\ upstream[e] # "idle" /\ body' = body /\ shutdown' = shutdown
  /\ \E m \in Message, i \in DOMAIN upSent[e] :
       /\ m = upSent[e][i] /\ res'[e].body = Append(res[e].body, m)
       /\ ObserveAnswer(e, m, Len(res[e].body) + 1)
  /\ \A f \in Exchanges : f # e => res'[f].body = res[f].body
  /\ \A f \in Exchanges : Asked(f)' <=> Asked(f)

Sorted == Frame /\ (Quiet \/ \E e \in Exchanges : Requests(e) \/ Answers(e))

\* A request that comes in is not observed yet.
LEMMA ArriveSorted ==
  ASSUME Staged, NEW e \in Exchanges, Arrive(e)
  PROVE  Sorted
<1> USE DEF Staged
<1>1. PICK b \in Bodies, p \in Paths :
        /\ path' = [path EXCEPT ![e] = p]
        /\ LET r == ResolveRoute(p)
           IN  \/ Refused(e, "403")
               \/ r = 0 /\ Refused(e, "404")
               \/ r # 0 /\ Routed(e, r, b)
  BY DEF Arrive
<1>2. UNCHANGED <<upstream, upSent, net, connected, pending, log, shutdown>> /\ phase[e] = "new"
  BY DEF Arrive, upVars
<1>3. upstream[e] = "idle" /\ res[e] = Silent /\ body[e] = NoBody
  BY <1>2 DEF Stage
<1>4. \A f \in Exchanges : f # e =>
        /\ phase'[f] = phase[f] /\ body'[f] = body[f] /\ path'[f] = path[f]
        /\ asked'[f] = asked[f] /\ res'[f] = res[f]
  BY <1>1 DEF Refused, Routed, Own, TypeOK
<1>5. res'[e].body = <<>> /\ (phase'[e] = "fetch" => body'[e] = NoBody)
  BY <1>1, <1>3 DEF Refused, Routed, Own, TypeOK, Silent
<1>6. res[e].body = <<>>
  BY <1>3 DEF Silent
<1>7. Frame
  BY <1>2, <1>4 DEF Frame
<1>8. Quiet
  BY <1>2, <1>3, <1>4, <1>5, <1>6 DEF Quiet, SameBodies, Asked
<1> QED BY <1>7, <1>8 DEF Sorted

\* handle() rejecting is not observed.
LEMMA RejectSorted ==
  ASSUME Staged, NEW e \in Exchanges, phase[e] \in {"body", "fetch", "plain"}, Reject(e),
         UNCHANGED <<body, path, asked, shutdown>>,
         upstream[e] # "idle" => upstream'[e] # "idle",
         upstream[e] = "idle" /\ phase[e] # "fetch" => upstream'[e] = "idle",
         \A f \in Exchanges : f # e => upstream'[f] = upstream[f]
  PROVE  Frame /\ SameBodies /\ phase'[e] = "closed" /\ (\A f \in Exchanges : f # e => (Asked(f)' <=> Asked(f)))
         /\ (Asked(e)' => Asked(e))
<1> USE DEF Staged
<1>1. res[e] = Silent
  BY DEF Stage
<1>2. /\ phase' = [phase EXCEPT ![e] = "closed"]
      /\ res' = [res EXCEPT ![e] = [headers |-> "502", body |-> <<>>, ended |-> TRUE]]
  BY <1>1 DEF Reject, Own, Silent
<1>3. res'[e].body = <<>> /\ res[e].body = <<>> /\ res[e].headers # "403" /\ phase'[e] = "closed"
  BY <1>1, <1>2 DEF Silent, TypeOK
<1>4. \A f \in Exchanges : f # e => phase'[f] = phase[f] /\ res'[f] = res[f]
  BY <1>2 DEF TypeOK
<1> QED BY <1>3, <1>4 DEF Frame, SameBodies, Asked

\* Before the headers, only a body that has been read is observed.
LEMMA BeforeHeadersSorted ==
  ASSUME Staged, NEW e \in Exchanges,
         BodyRead(e) \/ BodyFails(e) \/ FetchFails(e) \/ FetchResolves(e) \/ PlainFails(e)
  PROVE  Sorted
<1> USE DEF Staged
<1>1. CASE BodyRead(e)
  <2>1. /\ UNCHANGED <<body, path, asked, upstream, upSent, net, connected, shutdown>>
        /\ phase[e] = "body" /\ ObserveRequest(e)
    BY <1>1 DEF BodyRead, upVars
  <2>2. CASE Throws(body[e])
    <3>1. Reject(e)
      BY <1>1, <2>2 DEF BodyRead
    <3>2. Frame /\ SameBodies /\ phase'[e] = "closed" /\ (\A f \in Exchanges : f # e => (Asked(f)' <=> Asked(f)))
      BY <2>1, <3>1, RejectSorted
    <3> QED BY <2>1, <3>2 DEF Sorted, Requests
  <2>3. CASE ~Throws(body[e])
    <3>1. phase' = [phase EXCEPT ![e] = "fetch"] /\ res' = res
      BY <1>1, <2>3 DEF BodyRead
    <3>2. phase'[e] = "fetch" /\ \A f \in Exchanges : f # e => phase'[f] = phase[f]
      BY <3>1 DEF TypeOK
    <3> QED BY <2>1, <3>1, <3>2 DEF Sorted, Frame, Requests, SameBodies, Asked
  <2> QED BY <2>2, <2>3
<1>2. CASE BodyFails(e)
  <2>1. /\ UNCHANGED <<body, path, asked, upstream, pending, log, shutdown>>
        /\ phase[e] = "body" /\ Reject(e)
    BY <1>2 DEF BodyFails, upVars
  <2> QED BY <2>1, RejectSorted DEF Sorted, Quiet
<1>3. CASE FetchFails(e)
  <2>1. /\ upstream' = [upstream EXCEPT ![e] = "dead"]
        /\ phase[e] = "fetch" /\ Reject(e)
        /\ UNCHANGED <<body, path, asked, upSent, net, connected, pending, log, shutdown>>
    BY <1>3 DEF FetchFails
  <2>2. upstream'[e] # "idle" /\ upstream[e] = "idle" /\ \A f \in Exchanges : f # e => upstream'[f] = upstream[f]
    BY <2>1 DEF TypeOK, Stage
  <2>3. Frame /\ SameBodies /\ (\A f \in Exchanges : f # e => (Asked(f)' <=> Asked(f)))
    BY <2>1, <2>2, RejectSorted
  <2>4. Asked(e)
    BY <2>1 DEF Asked
  <2> QED BY <2>1, <2>3, <2>4 DEF Sorted, Quiet
<1>4. CASE FetchResolves(e)
  <2>1. /\ upstream' = [upstream EXCEPT ![e] = "open"] /\ phase[e] = "fetch"
        /\ UNCHANGED <<body, path, asked, upSent, net, connected, pending, log, shutdown>>
        /\ \/ /\ phase' = [phase EXCEPT ![e] = "stream"]
              /\ res' = [res EXCEPT ![e].headers = "upstream"]
           \/ phase' = [phase EXCEPT ![e] = "plain"] /\ UNCHANGED res
    BY <1>4 DEF FetchResolves
  <2>2. res[e].headers # "403"
    <3>1. res[e] = Silent
      BY <2>1 DEF Stage
    <3>2. Silent.headers = "none"
      BY DEF Silent
    <3> QED BY <3>1, <3>2
  <2>3. \A f \in Exchanges : f # e => res'[f] = res[f] /\ phase'[f] = phase[f] /\ upstream'[f] = upstream[f]
    BY <2>1 DEF TypeOK
  <2>4. res'[e].body = res[e].body
    BY <2>1 DEF TypeOK, Response
  <2>5. phase'[e] \in {"stream", "plain"} /\ upstream'[e] = "open" /\ Asked(e)
    BY <2>1 DEF TypeOK, Asked
  <2>6. Frame
    BY <2>1, <2>2, <2>3, <2>5 DEF Frame
  <2>7. Quiet
    BY <2>1, <2>3, <2>4, <2>5 DEF Quiet, SameBodies, Asked
  <2> QED BY <2>6, <2>7 DEF Sorted
<1>5. CASE PlainFails(e)
  <2>1. /\ UNCHANGED <<body, path, asked, upstream, pending, log, shutdown>>
        /\ phase[e] = "plain" /\ Reject(e)
    BY <1>5 DEF PlainFails, upVars
  <2> QED BY <2>1, RejectSorted DEF Sorted, Quiet
<1> QED BY <1>1, <1>2, <1>3, <1>4, <1>5

\* Of a stream every event is observed, its end is not.
LEMMA StreamSorted ==
  ASSUME Staged, NEW e \in Exchanges, ReadChunk(e) \/ StreamEnds(e)
  PROVE  Sorted
<1> USE DEF Staged
<1>1. /\ phase[e] = "stream" /\ res[e].headers = "upstream"
      /\ upSent[e] = res[e].body \o net[e] /\ upstream[e] # "idle"
  BY DEF ReadChunk, StreamEnds, Stage
<1>2. res[e].body \in Seq(Message) /\ net[e] \in Seq(Message)
  BY DEF TypeOK, Response
<1>3. CASE ReadChunk(e)
  <2> DEFINE m == Head(net[e])
             b == Append(res[e].body, m)
             i == Len(res[e].body) + 1
  <2>1. net[e] # <<>> /\ m \in Message
    BY <1>2, <1>3, HeadTailProperties DEF ReadChunk
  <2>2. i \in DOMAIN upSent[e] /\ m = upSent[e][i]
    <3>1. Len(res[e].body) < Len(upSent[e]) /\ upSent[e][i] = m
      BY <1>1, <1>2, <2>1, NextInTransit
    <3>2. upSent[e] \in Seq(Message) /\ Len(res[e].body) \in Nat
      BY <1>2 DEF TypeOK
    <3> QED BY <3>1, <3>2
  <2>3. /\ res' = [res EXCEPT ![e].body = b] /\ ObserveAnswer(e, m, i)
        /\ UNCHANGED <<phase, body, path, asked, upstream, upSent, connected, shutdown>>
    BY <1>3 DEF ReadChunk, ToClient
  <2> HIDE DEF b, m, i
  <2>4. /\ res'[e].body = b /\ res'[e].headers = res[e].headers
        /\ \A f \in Exchanges : f # e => res'[f] = res[f]
    BY <2>3 DEF TypeOK, Response
  <2>5. Frame
    BY SMTT(30), <1>1, <2>3, <2>4 DEF Frame
  <2>6. Answers(e)
    <3>1. res'[e].body = Append(res[e].body, m) /\ ObserveAnswer(e, m, Len(res[e].body) + 1)
      BY <2>3, <2>4 DEF b, i
    <3>2. \E x \in Message, j \in DOMAIN upSent[e] :
            /\ x = upSent[e][j] /\ res'[e].body = Append(res[e].body, x)
            /\ ObserveAnswer(e, x, Len(res[e].body) + 1)
      BY <2>1, <2>2, <3>1
    <3>3. \A f \in Exchanges : Asked(f)' <=> Asked(f)
      BY <2>3 DEF Asked
    <3> QED BY <1>1, <2>3, <2>4, <3>2, <3>3 DEF Answers
  <2> QED BY <2>5, <2>6 DEF Sorted
<1>4. CASE StreamEnds(e)
  <2>1. /\ phase' = [phase EXCEPT ![e] = "closed"]
        /\ res' = [res EXCEPT ![e].ended = TRUE]
        /\ UNCHANGED <<body, path, asked, upstream, upSent, connected, pending, log, shutdown>>
    BY <1>4 DEF StreamEnds, StreamBroken
  <2>2. /\ res'[e].headers = "upstream" /\ res'[e].body = res[e].body
        /\ \A f \in Exchanges : f # e => res'[f] = res[f]
    BY <1>1, <2>1, ResponseEnds
  <2>3. phase'[e] = "closed" /\ \A f \in Exchanges : f # e => phase'[f] = phase[f]
    BY <2>1 DEF TypeOK
  <2>4. Frame
    BY <1>1, <2>1, <2>2, <2>3 DEF Frame
  <2>5. Quiet
    BY <1>1, <2>1, <2>2, <2>3 DEF Quiet, SameBodies, Asked
  <2> QED BY <2>4, <2>5 DEF Sorted
<1> QED BY <1>3, <1>4

\* A plain answer is observed if it has a body.
LEMMA PlainSorted ==
  ASSUME Staged, NEW e \in Exchanges, PlainDone(e)
  PROVE  Sorted
<1> USE DEF Staged
<1>1. /\ phase[e] = "plain" /\ upstream[e] = "done"
      /\ phase' = [phase EXCEPT ![e] = "closed"]
      /\ res' = [res EXCEPT ![e] = [headers |-> "upstream", body |-> upSent[e], ended |-> TRUE]]
      /\ UNCHANGED <<body, path, asked, upstream, upSent, connected, shutdown>>
  BY DEF PlainDone
<1>2. upSent[e] \in Seq(Message) /\ res[e] = Silent /\ Len(upSent[e]) <= 1
  BY <1>1 DEF TypeOK, Stage
<1>3. res[e].body = <<>> /\ res[e].headers # "403"
  BY <1>2 DEF Silent
<1>4. /\ res'[e].body = upSent[e] /\ phase'[e] = "closed"
      /\ \A f \in Exchanges : f # e => res'[f] = res[f] /\ phase'[f] = phase[f]
  BY <1>1 DEF TypeOK
<1>5. Frame
  BY <1>1, <1>3, <1>4 DEF Frame
<1>6. \A f \in Exchanges : Asked(f)' <=> Asked(f)
  BY <1>1, <1>4 DEF Asked
<1>7. CASE upSent[e] = <<>>
  <2>1. UNCHANGED <<pending, log>>
    BY <1>7 DEF PlainDone
  <2> QED BY <1>1, <1>3, <1>4, <1>5, <1>6, <1>7, <2>1 DEF Sorted, Quiet, SameBodies
<1>8. CASE upSent[e] # <<>>
  <2> DEFINE m == Head(upSent[e])
  <2>1. ObserveAnswer(e, m, 1)
    BY <1>8 DEF PlainDone
  <2>2. Len(upSent[e]) = 1 /\ m = upSent[e][1] /\ m \in Message /\ 1 \in DOMAIN upSent[e]
    <3> DEFINE u == upSent[e]
    <3>1. u \in Seq(Message) /\ u # <<>> /\ Len(u) <= 1
      BY <1>2, <1>8
    <3> HIDE DEF u
    <3>2. Len(u) = 1
      <4>1. \A v \in Seq(Message) : v # <<>> => Len(v) \in Nat \ {0}
        BY EmptySeq
      <4>2. Len(u) \in Nat \ {0}
        BY <3>1, <4>1
      <4>3. \A k \in Nat \ {0} : k <= 1 => k = 1
        OBVIOUS
      <4>4. Len(u) <= 1
        BY <3>1
      <4> QED BY <4>2, <4>3, <4>4
    <3>3. Head(u) = u[1] /\ Head(u) \in Message /\ 1 \in DOMAIN u
      BY <3>1, <3>2
    <3> QED BY <3>2, <3>3 DEF u
  <2>3. upSent[e] = Append(<<>>, m) /\ Len(<<>>) + 1 = 1
    BY <1>2, <2>2
  <2>4. Answers(e)
    <3> HIDE DEF m
    <3>1. \E x \in Message, i \in DOMAIN upSent[e] :
            /\ x = upSent[e][i] /\ res'[e].body = Append(res[e].body, x)
            /\ ObserveAnswer(e, x, Len(res[e].body) + 1)
      BY <1>3, <1>4, <2>1, <2>2, <2>3
    <3> QED BY <1>1, <1>4, <1>6, <3>1 DEF Answers
  <2> QED BY <1>5, <2>4 DEF Sorted
<1> QED BY <1>7, <1>8

\* Every step leaves old exchanges alone and observes one message or none.
LEMMA NextSorted == Staged /\ [Next]_vars => Sorted
<1> SUFFICES ASSUME Staged, [Next]_vars PROVE Sorted
  OBVIOUS
<1>1. ASSUME NEW e \in Exchanges, Handle(e) PROVE Sorted
  BY <1>1, BeforeHeadersSorted, StreamSorted, PlainSorted DEF Handle
<1>2. ASSUME NEW e \in Exchanges, UpEnds(e) PROVE Sorted
  <2>1. PICK how \in {"done", "dead"} : upstream' = [upstream EXCEPT ![e] = how]
    BY <1>2 DEF UpEnds
  <2>2. /\ UNCHANGED <<phase, body, path, asked, res, upSent, net, connected, pending, log, shutdown>>
        /\ upstream[e] = "open"
    BY <1>2 DEF UpEnds, exchangeVars
  <2>3. \A f \in Exchanges : upstream[f] # "idle" <=> upstream'[f] # "idle"
    BY <2>1, <2>2 DEF Staged, TypeOK
  <2> QED BY <2>2, <2>3 DEF Sorted, Frame, Quiet, SameBodies, Asked
<1>3. ASSUME UNCHANGED <<phase, body, path, asked, res, upstream, log, pending>>,
             shutdown' = "no" => shutdown = "no"
      PROVE  Sorted
  BY <1>3 DEF Sorted, Frame, Quiet, SameBodies, Asked
<1>4. CASE \/ \E e \in Exchanges : UpSends(e) \/ ClientLeaves(e)
           \/ Signal \/ Exit \/ UNCHANGED vars
  BY <1>3, <1>4 DEF UpSends, ClientLeaves, Signal, Exit, vars, exchangeVars, upVars
<1> QED BY <1>1, <1>2, <1>4, ArriveSorted DEF Next

-----------------------------------------------------------------------------
(* Routes, and what upstreams say.                                          *)

\* A forwarded exchange, or one without a route, is where the loop put it.
RouteInv ==
  \A e \in Exchanges :
    /\ phase[e] = "new" => asked[e] = 0
    /\ phase[e] # "new" /\ res[e].headers # "403" => IsRoute(asked[e], path[e], Len(Routes))

\* Nothing has been routed at first.
LEMMA InitRoute == Init => RouteInv
  BY DEF Init, RouteInv

\* A route is chosen once, when the request arrives, and stays.
LEMMA NextRoute == Staged /\ RouteInv /\ [Next]_vars => RouteInv'
<1> SUFFICES ASSUME Staged, RouteInv, [Next]_vars PROVE RouteInv'
  OBVIOUS
<1>1. Frame
  BY NextSorted DEF Sorted
<1>2. ASSUME NEW e \in Exchanges, Arrive(e) PROVE RouteInv'
  <2>1. PICK b \in Bodies, p \in Paths :
          /\ path' = [path EXCEPT ![e] = p]
          /\ LET r == ResolveRoute(p)
             IN  \/ Refused(e, "403")
                 \/ r = 0 /\ Refused(e, "404")
                 \/ r # 0 /\ Routed(e, r, b)
    BY <1>2 DEF Arrive
  <2>2. phase[e] = "new" /\ asked[e] = 0 /\ path'[e] = p
    BY <1>2, <2>1 DEF Arrive, RouteInv, Staged, TypeOK
  <2>3. \A f \in Exchanges : f # e =>
          phase'[f] = phase[f] /\ path'[f] = path[f] /\ asked'[f] = asked[f] /\ res'[f] = res[f]
    BY <2>1 DEF Refused, Routed, Own, Staged, TypeOK
  <2>4. phase'[e] # "new"
    BY <2>1 DEF Refused, Routed, Staged, TypeOK
  <2>5. res'[e].headers # "403" => asked'[e] = ResolveRoute(p)
    <3>1. CASE Refused(e, "403")
      BY <3>1 DEF Refused, Own, Staged, TypeOK
    <3>2. CASE ResolveRoute(p) = 0 /\ Refused(e, "404")
      BY <2>2, <3>2 DEF Refused
    <3>3. CASE Routed(e, ResolveRoute(p), b)
      BY <3>3 DEF Routed, Staged, TypeOK
    <3> QED BY <2>1, <3>1, <3>2, <3>3
  <2> QED BY <2>2, <2>3, <2>4, <2>5, LoopFindsRoute DEF RouteInv
<1>3. ASSUME \A e \in Exchanges : ~Arrive(e) PROVE RouteInv'
  <2>1. \A e \in Exchanges : phase[e] = "new" => phase'[e] = "new" /\ asked'[e] = asked[e]
    <3>1. UNCHANGED <<phase, asked>> \/ \E e \in Exchanges :
            /\ phase[e] # "new" /\ UNCHANGED asked
            /\ \E x : phase' = [phase EXCEPT ![e] = x]
      BY <1>3 DEF Next, Handle, BodyRead, BodyFails, FetchFails, FetchResolves, ReadChunk, StreamEnds,
           PlainDone, PlainFails, UpSends, UpEnds, ClientLeaves, Signal, Exit, Reject,
           vars, exchangeVars
    <3> QED BY <3>1 DEF Staged, TypeOK
  <2> QED BY <1>1, <2>1 DEF Frame, RouteInv
<1> QED BY <1>2, <1>3

\* What the loop finds is the longest prefix, the first of equal ones.
LEMMA RouteInvGivesLongest == TypeOK /\ RouteInv => RouteIsLongest
<1> SUFFICES ASSUME TypeOK, RouteInv PROVE RouteIsLongest
  OBVIOUS
<1>1. DOMAIN Routes = 1 .. Len(Routes)
  BY RoutesAssumption
<1> QED BY <1>1 DEF RouteInv, IsRoute, RouteIsLongest

\* A message answers a request that the upstream has been asked.
Known(m) ==
  IF m.re = NoOne THEN m.key \notin Keys
  ELSE m.key \in Keys /\ m.key = body[m.re] /\ phase[m.re] \notin {"new", "body"}

AllKnown == \A e \in Exchanges : \A i \in DOMAIN upSent[e] : Known(upSent[e][i])

\* Upstreams have said nothing at first.
LEMMA InitKnown == Init => AllKnown
  BY DEF Init, AllKnown

\* What an upstream has said stays an answer to what it was asked.
LEMMA NextKnown == Staged /\ AllKnown /\ [Next]_vars => AllKnown'
<1> SUFFICES ASSUME Staged, AllKnown, [Next]_vars PROVE AllKnown'
  OBVIOUS
<1>1. Frame
  BY NextSorted DEF Sorted
<1>2. ASSUME NEW m \in Message, Known(m) PROVE Known(m)'
  <2>1. m.re \in Exchanges \cup {NoOne}
    BY DEF Message
  <2> QED BY <1>1, <1>2, <2>1 DEF Frame, Known
<1>3. \A e \in Exchanges : upSent[e] \in Seq(Message)
  BY DEF Staged, TypeOK
<1>4. CASE upSent' = upSent
  <2>1. \A e \in Exchanges : \A i \in DOMAIN upSent[e] : upSent[e][i] \in Message
    BY <1>3
  <2> QED BY <1>2, <1>4, <2>1 DEF AllKnown
<1>5. ASSUME NEW e \in Exchanges, UpSends(e) PROVE AllKnown'
  <2>1. PICK m \in Message :
          /\ IF m.re = NoOne THEN m.key \notin Keys
             ELSE m.key \in Keys /\ m.key = body[m.re] /\ Asked(m.re) /\ asked[m.re] = asked[e]
          /\ upSent' = [upSent EXCEPT ![e] = Append(upSent[e], m)]
    BY <1>5 DEF UpSends
  <2>2. Known(m)
    <3>1. m.re \in Exchanges \cup {NoOne}
      BY DEF Message
    <3>2. m.re # NoOne => Asked(m.re) /\ Stage(m.re)
      BY <2>1, <3>1 DEF Staged
    <3> QED BY <2>1, <3>2 DEF Known, Asked, Stage
  <2> SUFFICES ASSUME NEW f \in Exchanges, NEW i \in DOMAIN upSent'[f], NEW x, x = upSent'[f][i]
               PROVE  Known(x)'
    BY DEF AllKnown
  <2>3. CASE f = e
    <3> DEFINE u == upSent[e]
    <3>1. u \in Seq(Message) /\ upSent'[f] = Append(u, m)
      BY <1>3, <2>1, <2>3 DEF Staged, TypeOK
    <3> HIDE DEF u
    <3>2. x = m \/ (i \in DOMAIN u /\ x = u[i])
      BY <3>1
    <3>3. CASE x = m
      BY <1>2, <2>2, <3>3
    <3>4. CASE i \in DOMAIN u /\ x = u[i]
      <4>1. x \in Message /\ Known(x)
        BY <3>1, <3>4 DEF AllKnown, u
      <4> QED BY <1>2, <4>1
    <3> QED BY <3>2, <3>3, <3>4
  <2>4. CASE f # e
    <3>1. upSent'[f] = upSent[f]
      BY <2>1, <2>4 DEF Staged, TypeOK
    <3>2. x \in Message /\ Known(x)
      BY <1>3, <3>1 DEF AllKnown
    <3> QED BY <1>2, <3>2
  <2> QED BY <2>3, <2>4
<1>6. upSent' = upSent \/ \E e \in Exchanges : UpSends(e)
  BY DEF Next, Arrive, Handle, BodyRead, BodyFails, FetchFails, FetchResolves, ReadChunk, StreamEnds,
     PlainDone, PlainFails, UpEnds, ClientLeaves, Signal, Exit, vars, exchangeVars, upVars
<1> QED BY <1>4, <1>5, <1>6

-----------------------------------------------------------------------------
(* The log and the pending map.                                             *)

\* Lines come from exchanges under way; a request that was answered is no
\* longer pending, nor will it be again.
Lines ==
  \A i \in DOMAIN log :
    /\ phase[log[i].e] \notin {"new", "body"}
    /\ log[i].t = "s2c" => log[i].n \in DOMAIN res[log[i].e].body
    /\ log[i].of # NoOne => /\ log[i].t = "s2c" /\ phase[log[i].of] \notin {"new", "body"}
                           /\ \A k \in Keys : pending[k] # log[i].of

AnsweredOnce ==
  \A i, j \in DOMAIN log : log[i].of # NoOne /\ log[i].of = log[j].of => i = j

\* What is pending under a key is a request with that key.
Owners ==
  \A k \in Keys : pending[k] # NoOne =>
    body[pending[k]] = k /\ phase[pending[k]] \notin {"new", "body"}

Distinct == \A e, f \in Exchanges : body[e] \in Keys /\ body[e] = body[f] => e = f

AnswersOwn ==
  Distinct => \A i \in DOMAIN log : log[i].of # NoOne => MessageOf(log[i]).re = log[i].of

\* What ExchangeIsLogged says of one exchange, and PendingIsExact of one key.
Logged(e) ==
  /\ Asked(e) /\ body[e] # NoBody => \E i \in DOMAIN log : LinesOf("c2s", e) = {i}
  /\ {log[i].n : i \in LinesOf("s2c", e)}
       = {n \in DOMAIN res[e].body : ~Throws(res[e].body[n].key)}
  /\ \A i, j \in LinesOf("s2c", e) : i < j => log[i].n < log[j].n
  /\ \A i \in LinesOf("c2s", e), j \in LinesOf("s2c", e) : i < j

LastIs(k, e) ==
  \E i \in AskedAt(k) : log[i].e = e /\ \A j \in AskedAt(k) \cup AnsweredAt(k) : j <= i

History ==
  /\ Lines /\ AnsweredOnce /\ Owners /\ AnswersOwn
  /\ shutdown = "no" => /\ \A e \in Exchanges : Logged(e)
                        /\ \A k \in Keys, e \in Exchanges : pending[k] = e <=> LastIs(k, e)

\* The three properties of the log and of pending are parts of History.
LEMMA HistoryGives ==
  Staged /\ History => ExchangeIsLogged /\ PendingIsExact /\ LatencyIsOwn
<1> SUFFICES ASSUME Staged, History PROVE ExchangeIsLogged /\ PendingIsExact /\ LatencyIsOwn
  OBVIOUS
<1>1. ExchangeIsLogged
  BY DEF History, Logged, ExchangeIsLogged
<1>2. PendingIsExact
  BY DEF History, LastIs, PendingIsExact, Staged
<1>3. LatencyIsOwn
  BY DEF History, AnswersOwn, Distinct, AnsweredOnce, LatencyIsOwn
<1> QED BY <1>1, <1>2, <1>3

\* The log is empty and nothing is pending at first.
LEMMA InitHistory == Init => History
<1> SUFFICES ASSUME Init PROVE History
  OBVIOUS
<1>1. DOMAIN log = {} /\ \A k \in Keys : pending[k] = NoOne
  BY DEF Init
<1>2. \A e \in Exchanges : body[e] = NoBody /\ DOMAIN res[e].body = {} /\ ~Asked(e)
  BY DEF Init, Asked
<1>3. ASSUME NEW e \in Exchanges PROVE Logged(e)
  <2>1. LinesOf("s2c", e) = {} /\ LinesOf("c2s", e) = {}
    BY <1>1 DEF LinesOf
  <2> QED BY <1>2, <2>1 DEF Logged
<1>4. ASSUME NEW k \in Keys, NEW e \in Exchanges PROVE pending[k] = e <=> LastIs(k, e)
  BY <1>1, NoOneAssumption DEF LastIs, AskedAt
<1> QED BY <1>1, <1>3, <1>4 DEF History, Lines, AnsweredOnce, Owners, AnswersOwn

-----------------------------------------------------------------------------
(* What a step leaves of what the log is about.                             *)

\* No message that reached a client changes.
BodiesKept ==
  \A e \in Exchanges : \A n \in DOMAIN res[e].body :
    n \in DOMAIN res'[e].body /\ res'[e].body[n] = res[e].body[n]

\* The log holds one line more.
Adds(l) ==
  /\ DOMAIN log' = DOMAIN log \cup {Len(log) + 1} /\ Len(log) + 1 \notin DOMAIN log
  /\ \A i \in DOMAIN log : log'[i] = log[i] /\ i < Len(log) + 1
  /\ log'[Len(log) + 1] = l

\* What a line at the end changes.
LEMMA LogAdds ==
  ASSUME TypeOK, NEW l \in LogEvent, log' = log \o <<l>>
  PROVE  Adds(l)
<1>1. log \in Seq(LogEvent)
  BY DEF TypeOK
<1>2. log' = Append(log, l)
  <2>1. \A s \in Seq(LogEvent) : s \o <<l>> = Append(s, l)
    OBVIOUS
  <2> QED BY <1>1, <2>1
<1> QED BY <1>1, <1>2 DEF Adds

\* Lines of the log are about exchanges.
LEMMA LineTypes ==
  ASSUME TypeOK, NEW i \in DOMAIN log
  PROVE  /\ log[i].e \in Exchanges /\ log[i].of \in Exchanges \cup {NoOne} /\ log[i].n \in Nat
         /\ log[i].t \in {"c2s", "s2c"}
<1>1. log[i] \in LogEvent
  BY DEF TypeOK
<1> QED BY <1>1 DEF LogEvent

\* The message of an old line is what it was, and so is the key of a request.
LEMMA OldLine ==
  ASSUME Staged, Lines, Frame, BodiesKept, NEW i \in DOMAIN log, log'[i] = log[i]
  PROVE  /\ body'[log[i].e] = body[log[i].e] /\ phase'[log[i].e] \notin {"new", "body"}
         /\ log[i].t = "s2c" => /\ log[i].n \in DOMAIN res'[log[i].e].body
                                /\ res'[log[i].e].body[log[i].n] = MessageOf(log[i])
<1>1. log[i].e \in Exchanges
  BY LineTypes DEF Staged
<1>2. phase[log[i].e] \notin {"new", "body"}
  BY DEF Lines
<1>3. body'[log[i].e] = body[log[i].e] /\ phase'[log[i].e] \notin {"new", "body"}
  BY <1>1, <1>2 DEF Frame
<1>4. log[i].t = "s2c" => log[i].n \in DOMAIN res[log[i].e].body
  BY DEF Lines
<1> QED BY <1>1, <1>3, <1>4 DEF BodiesKept, MessageOf

\* If ids are distinct now, they were.
LEMMA DistinctBefore ==
  ASSUME Staged, Frame, Distinct'
  PROVE  Distinct
<1>1. \A e \in Exchanges : body[e] \in Keys => phase[e] # "new"
  BY KeysAssumption DEF Staged, Stage
<1>2. \A e \in Exchanges : body[e] \in Keys => body'[e] = body[e]
  BY <1>1 DEF Frame
<1> QED BY <1>2 DEF Distinct

-----------------------------------------------------------------------------
(* A step that is not observed.                                             *)

\* A step that is not observed leaves log and pending, and what they are about.
LEMMA QuietHistory ==
  ASSUME Staged, History, Frame, Quiet
  PROVE  History'
<1> USE DEF History
<1>1. BodiesKept /\ log' = log /\ pending' = pending
  BY DEF Quiet, SameBodies, BodiesKept
<1>2. TypeOK
  BY DEF Staged
<1>3. Lines'
  <2> SUFFICES ASSUME NEW i \in DOMAIN log
               PROVE  /\ phase'[log[i].e] \notin {"new", "body"}
                      /\ log[i].t = "s2c" => log[i].n \in DOMAIN res'[log[i].e].body
                      /\ log[i].of # NoOne => /\ log[i].t = "s2c"
                                              /\ phase'[log[i].of] \notin {"new", "body"}
                                              /\ \A k \in Keys : pending[k] # log[i].of
    BY <1>1 DEF Lines
  <2>1. phase'[log[i].e] \notin {"new", "body"} /\ (log[i].t = "s2c" => log[i].n \in DOMAIN res'[log[i].e].body)
    BY <1>1, OldLine
  <2>2. log[i].of \in Exchanges \cup {NoOne}
    BY <1>2, LineTypes
  <2> QED BY <2>1, <2>2 DEF Lines, Frame
<1>4. AnsweredOnce'
  BY <1>1 DEF AnsweredOnce
<1>5. Owners'
  <2>1. \A k \in Keys : pending[k] \in Exchanges \cup {NoOne}
    BY <1>2 DEF TypeOK
  <2> QED BY <1>1, <2>1 DEF Owners, Frame
<1>6. AnswersOwn'
  <2> SUFFICES ASSUME Distinct', NEW i \in DOMAIN log, log[i].of # NoOne
               PROVE  res'[log[i].e].body[log[i].n].re = log[i].of
    BY <1>1 DEF AnswersOwn, MessageOf
  <2>1. MessageOf(log[i]).re = log[i].of /\ log[i].t = "s2c"
    BY DistinctBefore DEF AnswersOwn, Lines
  <2> QED BY <1>1, <2>1, OldLine
<1>7. ASSUME shutdown' = "no", NEW e \in Exchanges PROVE Logged(e)'
  <2>1. Logged(e)
    BY <1>7 DEF Frame
  <2>2. LinesOf("c2s", e)' = LinesOf("c2s", e) /\ LinesOf("s2c", e)' = LinesOf("s2c", e)
    BY <1>1 DEF LinesOf
  <2>3. res'[e].body = res[e].body
    BY DEF Quiet, SameBodies
  <2>4. Asked(e)' /\ body'[e] # NoBody => Asked(e) /\ body[e] # NoBody
    <3> SUFFICES ASSUME Asked(e)', body'[e] # NoBody PROVE Asked(e) /\ body[e] # NoBody
      OBVIOUS
    <3>1. Asked(e)
      BY DEF Quiet
    <3>2. phase[e] # "new"
      BY <3>1 DEF Asked, Staged, Stage
    <3> QED BY <3>1, <3>2 DEF Frame
  <2> QED BY <1>1, <2>1, <2>2, <2>3, <2>4 DEF Logged
<1>8. ASSUME NEW k \in Keys PROVE AskedAt(k)' = AskedAt(k) /\ AnsweredAt(k)' = AnsweredAt(k)
  <2>1. \A i \in DOMAIN log : body'[log[i].e] = body[log[i].e]
    BY <1>1, OldLine
  <2>2. \A i \in DOMAIN log : log[i].t = "s2c" => res'[log[i].e].body[log[i].n] = MessageOf(log[i])
    BY <1>1, OldLine
  <2> QED BY <1>1, <2>1, <2>2 DEF AskedAt, AnsweredAt, MessageOf
<1>9. ASSUME shutdown' = "no", NEW k \in Keys, NEW e \in Exchanges
      PROVE  pending'[k] = e <=> LastIs(k, e)'
  BY <1>1, <1>8, <1>9 DEF LastIs, Frame
<1> QED BY <1>3, <1>4, <1>5, <1>6, <1>7, <1>9

-----------------------------------------------------------------------------
(* A request is observed.                                                   *)

RequestLine(e) == [t |-> "c2s", e |-> e, n |-> 1, of |-> NoOne]

\* What becomes of the log and the pending map.
LEMMA RequestLogged ==
  ASSUME Staged, NEW e \in Exchanges, Requests(e)
  PROVE  /\ log' = log \/ Adds(RequestLine(e))
         /\ shutdown = "no" /\ body[e] # NoBody => Adds(RequestLine(e))
         /\ body[e] = NoBody => log' = log
         /\ \A k \in Keys : pending'[k] = IF k = body[e] THEN e ELSE pending[k]
<1>1. TypeOK
  BY DEF Staged
<1>2. RequestLine(e) \in LogEvent
  BY DEF RequestLine, LogEvent
<1>3. /\ IF body[e] = NoBody THEN log' = log
         ELSE log' = IF shutdown = "no" THEN log \o <<RequestLine(e)>> ELSE log
      /\ pending' = IF body[e] \in Keys THEN [pending EXCEPT ![body[e]] = e] ELSE pending
  BY DEF Requests, ObserveRequest, Log, RequestLine
<1>4. log' = log \o <<RequestLine(e)>> => Adds(RequestLine(e))
  BY <1>1, <1>2, LogAdds
<1>5. \A k \in Keys : pending'[k] = IF k = body[e] THEN e ELSE pending[k]
  BY <1>1, <1>3 DEF TypeOK
<1> QED BY <1>3, <1>4, <1>5

\* A request adds its line, and is the last under its key.
LEMMA RequestHistory ==
  ASSUME Staged, History, Frame, NEW e \in Exchanges, Requests(e)
  PROVE  History'
<1> USE DEF History
<1> DEFINE l == RequestLine(e)
           new == Len(log) + 1
<1>0. TypeOK
  BY DEF Staged
<1>1. BodiesKept /\ body' = body
  BY DEF Requests, SameBodies, BodiesKept
<1>2. log' = log \/ Adds(l)
  BY RequestLogged
<1>3. \A k \in Keys : pending'[k] = IF k = body[e] THEN e ELSE pending[k]
  BY RequestLogged
<1>4. l.t = "c2s" /\ l.e = e /\ l.of = NoOne
  BY DEF RequestLine
<1>5. phase[e] = "body" /\ phase'[e] \notin {"new", "body"}
  BY DEF Requests
<1> HIDE DEF l, new
<1>6. \A i \in DOMAIN log' : (i \in DOMAIN log /\ log'[i] = log[i]) \/ log'[i] = l
  BY <1>2 DEF Adds
<1>7. \A i \in DOMAIN log : i \in DOMAIN log' /\ log'[i] = log[i]
  BY <1>2 DEF Adds
<1>8. Lines'
  <2> SUFFICES ASSUME NEW i \in DOMAIN log'
               PROVE  /\ phase'[log'[i].e] \notin {"new", "body"}
                      /\ log'[i].t = "s2c" => log'[i].n \in DOMAIN res'[log'[i].e].body
                      /\ log'[i].of # NoOne => /\ log'[i].t = "s2c"
                                               /\ phase'[log'[i].of] \notin {"new", "body"}
                                               /\ \A k \in Keys : pending'[k] # log'[i].of
    BY DEF Lines
  <2>1. CASE log'[i] = l
    BY <1>4, <1>5, <2>1
  <2>2. CASE i \in DOMAIN log /\ log'[i] = log[i]
    <3>1. /\ phase'[log[i].e] \notin {"new", "body"}
          /\ log[i].t = "s2c" => log[i].n \in DOMAIN res'[log[i].e].body
      BY <1>1, <2>2, OldLine
    <3>2. log[i].of \in Exchanges \cup {NoOne}
      BY <1>0, <2>2, LineTypes
    <3>3. log[i].of # NoOne => /\ log[i].t = "s2c" /\ phase[log[i].of] \notin {"new", "body"}
                              /\ \A k \in Keys : pending[k] # log[i].of
      BY <2>2 DEF Lines
    <3>4. log[i].of # NoOne => phase'[log[i].of] \notin {"new", "body"} /\ log[i].of # e
      BY <1>5, <3>2, <3>3 DEF Frame
    <3> QED BY <1>3, <2>2, <3>1, <3>3, <3>4
  <2> QED BY <1>6, <2>1, <2>2
<1>9. AnsweredOnce'
  BY <1>4, <1>6 DEF AnsweredOnce
<1>10. Owners'
  <2>1. \A k \in Keys : pending[k] \in Exchanges \cup {NoOne}
    BY <1>0 DEF TypeOK
  <2> QED BY <1>1, <1>3, <1>5, <2>1 DEF Owners, Frame
<1>11. AnswersOwn'
  <2> SUFFICES ASSUME Distinct', NEW i \in DOMAIN log', log'[i].of # NoOne
               PROVE  res'[log'[i].e].body[log'[i].n].re = log'[i].of
    BY DEF AnswersOwn, MessageOf
  <2>1. i \in DOMAIN log /\ log'[i] = log[i]
    BY <1>4, <1>6
  <2>2. MessageOf(log[i]).re = log[i].of /\ log[i].t = "s2c"
    BY <2>1, DistinctBefore DEF AnswersOwn, Lines
  <2> QED BY <1>1, <2>1, <2>2, OldLine
<1>12. ASSUME shutdown' = "no", NEW f \in Exchanges PROVE Logged(f)'
  <2>0. shutdown = "no"
    BY <1>12 DEF Frame
  <2>1. Logged(f)
    BY <2>0
  <2>2. res'[f].body = res[f].body
    BY DEF Requests, SameBodies
  <2>3. CASE f # e
    <3>1. LinesOf("c2s", f)' = LinesOf("c2s", f) /\ LinesOf("s2c", f)' = LinesOf("s2c", f)
      BY <1>4, <1>6, <1>7, <2>3 DEF LinesOf
    <3>2. Asked(f)' <=> Asked(f)
      BY <2>3 DEF Requests
    <3>3. LinesOf("c2s", f) \subseteq DOMAIN log /\ LinesOf("s2c", f) \subseteq DOMAIN log
      BY DEF LinesOf
    <3> QED BY <1>1, <1>7, <2>1, <2>2, <3>1, <3>2, <3>3 DEF Logged
  <2>4. CASE f = e
    <3>1. LinesOf("c2s", e) = {} /\ LinesOf("s2c", e) = {}
      BY <1>5 DEF Lines, LinesOf
    <3>2. LinesOf("s2c", e)' = {}
      BY <1>4, <1>6, <3>1 DEF LinesOf
    <3>3. {n \in DOMAIN res[e].body : ~Throws(res[e].body[n].key)} = {}
      BY <2>1, <2>4, <3>1 DEF Logged
    <3>4. body[e] # NoBody => LinesOf("c2s", e)' = {new} /\ new \in DOMAIN log'
      <4> SUFFICES ASSUME body[e] # NoBody PROVE LinesOf("c2s", e)' = {new} /\ new \in DOMAIN log'
        OBVIOUS
      <4>1. Adds(l)
        BY <2>0, RequestLogged DEF l
      <4>2. DOMAIN log' = DOMAIN log \cup {new} /\ log'[new] = l /\ \A i \in DOMAIN log : log'[i] = log[i]
        BY <4>1 DEF Adds, new
      <4> QED BY <1>4, <3>1, <4>2 DEF LinesOf
    <3> QED BY <1>1, <2>2, <2>4, <3>2, <3>3, <3>4 DEF Logged
  <2> QED BY <2>3, <2>4
<1>13. ASSUME shutdown' = "no", NEW k \in Keys, NEW f \in Exchanges
       PROVE  pending'[k] = f <=> LastIs(k, f)'
  <2>0. shutdown = "no"
    BY <1>13 DEF Frame
  <2>1. pending[k] = f <=> LastIs(k, f)
    BY <2>0
  <2>2. AnsweredAt(k)' = AnsweredAt(k)
    <3>1. \A i \in DOMAIN log : log[i].t = "s2c" => res'[log[i].e].body[log[i].n] = MessageOf(log[i])
      BY <1>1, <1>7, OldLine
    <3> QED BY <1>4, <1>6, <1>7, <3>1 DEF AnsweredAt, MessageOf
  <2>3. CASE k # body[e]
    <3>1. AskedAt(k)' = AskedAt(k)
      BY <1>1, <1>4, <1>6, <1>7, <2>3 DEF AskedAt
    <3>2. AskedAt(k) \subseteq DOMAIN log
      BY DEF AskedAt
    <3> QED BY <1>3, <1>7, <2>1, <2>2, <2>3, <3>1, <3>2 DEF LastIs
  <2>4. CASE k = body[e]
    <3>1. Adds(l)
      BY <2>0, <2>4, KeysAssumption, RequestLogged DEF l
    <3>2. /\ DOMAIN log' = DOMAIN log \cup {new} /\ log'[new] = l /\ new \notin DOMAIN log
          /\ \A i \in DOMAIN log : log'[i] = log[i] /\ i < new
      BY <3>1 DEF Adds, new
    <3>3. AskedAt(k)' = AskedAt(k) \cup {new}
      BY <1>1, <1>4, <2>4, <3>2 DEF AskedAt
    <3>4. AskedAt(k) \subseteq DOMAIN log /\ AnsweredAt(k) \subseteq DOMAIN log
      BY DEF AskedAt, AnsweredAt
    <3>5. new \in Nat /\ DOMAIN log \subseteq Nat
      BY <1>0 DEF TypeOK, new
    <3>6. LastIs(k, f)' <=> f = e
      <4>1. ASSUME LastIs(k, f)' PROVE f = e
        <5>1. PICK i \in AskedAt(k)' : log'[i].e = f /\ \A j \in (AskedAt(k) \cup AnsweredAt(k))' : j <= i
          BY <4>1 DEF LastIs
        <5>2. i = new
          BY <3>2, <3>3, <3>4, <3>5, <5>1
        <5> QED BY <1>4, <3>2, <5>1, <5>2
      <4>2. ASSUME f = e PROVE LastIs(k, f)'
        <5>1. new \in AskedAt(k)' /\ log'[new].e = f
          BY <1>4, <3>2, <3>3, <4>2
        <5>2. \A j \in (AskedAt(k) \cup AnsweredAt(k))' : j <= new
          BY <2>2, <3>2, <3>3, <3>4, <3>5
        <5> QED BY <5>1, <5>2 DEF LastIs
      <4> QED BY <4>1, <4>2
    <3> QED BY <1>3, <2>4, <3>6
  <2> QED BY <2>3, <2>4
<1> QED BY <1>8, <1>9, <1>10, <1>11, <1>12, <1>13

-----------------------------------------------------------------------------
(* An answer is passed on and observed.                                     *)

LineOf(e, m) ==
  [t |-> "s2c", e |-> e, n |-> Len(res[e].body) + 1,
   of |-> IF Matched(m) THEN pending[m.key] ELSE NoOne]

\* What becomes of the log and the pending map.
LEMMA AnswerLogged ==
  ASSUME Staged, NEW e \in Exchanges, NEW m \in Message, ObserveAnswer(e, m, Len(res[e].body) + 1)
  PROVE  /\ log' = log \/ (~Throws(m.key) /\ Adds(LineOf(e, m)))
         /\ shutdown = "no" /\ ~Throws(m.key) => Adds(LineOf(e, m))
         /\ \A k \in Keys : pending'[k] = IF k = m.key THEN NoOne ELSE pending[k]
<1>1. TypeOK /\ Len(res[e].body) + 1 \in Nat
  BY DEF Staged, TypeOK, Response
<1>2. LineOf(e, m) \in LogEvent
  <2> DEFINE of == IF Matched(m) THEN pending[m.key] ELSE NoOne
             n == Len(res[e].body) + 1
  <2>1. of \in Exchanges \cup {NoOne} /\ n \in Nat
    BY <1>1 DEF Matched, TypeOK
  <2>2. LineOf(e, m) = [t |-> "s2c", e |-> e, n |-> n, of |-> of]
    BY DEF LineOf
  <2> HIDE DEF of, n
  <2> QED BY <2>1, <2>2 DEF LogEvent
<1>3. /\ log' = IF shutdown = "no" THEN log \o (IF Throws(m.key) THEN <<>> ELSE <<LineOf(e, m)>>) ELSE log
      /\ pending' = IF Matched(m) THEN [pending EXCEPT ![m.key] = NoOne] ELSE pending
  BY DEF ObserveAnswer, Log, AnswerLine, LineOf, MatchedWith, Forget
<1>4. log \o <<>> = log
  BY <1>1, ConcatEmptySeq DEF TypeOK
<1>5. log' = log \o <<LineOf(e, m)>> => Adds(LineOf(e, m))
  BY <1>1, <1>2, LogAdds
<1>6. \A k \in Keys : pending'[k] = IF k = m.key THEN NoOne ELSE pending[k]
  BY <1>1, <1>3 DEF TypeOK, Matched
<1> QED BY <1>3, <1>4, <1>5, <1>6

\* What the client has is one message more.
LEMMA AnswerPassed ==
  ASSUME Staged, NEW e \in Exchanges, NEW m \in Message, res'[e].body = Append(res[e].body, m),
         \A f \in Exchanges : f # e => res'[f].body = res[f].body,
         NEW n, n = Len(res[e].body) + 1
  PROVE  /\ BodiesKept
         /\ DOMAIN res'[e].body = DOMAIN res[e].body \cup {n} /\ res'[e].body[n] = m
         /\ n \notin DOMAIN res[e].body /\ \A i \in DOMAIN res[e].body : i < n
<1>1. res[e].body \in Seq(Message)
  BY DEF Staged, TypeOK, Response
<1> DEFINE b == res[e].body
<1> HIDE DEF b
<1>2. b \in Seq(Message) /\ n = Len(b) + 1 /\ res'[e].body = Append(b, m)
  BY <1>1 DEF b
<1>3. /\ DOMAIN Append(b, m) = DOMAIN b \cup {n} /\ Append(b, m)[n] = m
      /\ n \notin DOMAIN b
      /\ \A i \in DOMAIN b : i < n /\ Append(b, m)[i] = b[i]
  BY <1>2
<1>4. BodiesKept
  BY <1>2, <1>3 DEF BodiesKept, b
<1> QED BY <1>2, <1>3, <1>4 DEF b

\* An answer adds its line, unless String(id) throws, and nothing is pending under its key.
LEMMA AnswerHistory ==
  ASSUME Staged, AllKnown, History, Frame, NEW e \in Exchanges, Answers(e)
  PROVE  History'
<1> USE DEF History
<1>0. TypeOK
  BY DEF Staged
<1>1. PICK m \in Message, x \in DOMAIN upSent[e] :
        /\ m = upSent[e][x] /\ res'[e].body = Append(res[e].body, m)
        /\ ObserveAnswer(e, m, Len(res[e].body) + 1)
  BY DEF Answers
<1> DEFINE l == LineOf(e, m)
           new == Len(log) + 1
           n == Len(res[e].body) + 1
<1>2. /\ BodiesKept
      /\ DOMAIN res'[e].body = DOMAIN res[e].body \cup {n} /\ res'[e].body[n] = m
      /\ n \notin DOMAIN res[e].body /\ \A i \in DOMAIN res[e].body : i < n
  BY <1>1, AnswerPassed DEF Answers
<1>3. /\ log' = log \/ (~Throws(m.key) /\ Adds(l))
      /\ shutdown = "no" /\ ~Throws(m.key) => Adds(l)
      /\ \A k \in Keys : pending'[k] = IF k = m.key THEN NoOne ELSE pending[k]
  BY <1>1, AnswerLogged
<1>4. /\ l.t = "s2c" /\ l.e = e /\ l.n = n
      /\ l.of = IF Matched(m) THEN pending[m.key] ELSE NoOne
  BY DEF LineOf
<1>5. phase[e] \notin {"new", "body"} /\ phase'[e] \notin {"new", "body"} /\ body' = body
  <2>1. Stage(e) /\ upstream[e] # "idle"
    BY DEF Staged, Answers
  <2> QED BY <2>1 DEF Stage, Frame, Answers
<1>6. /\ Known(m) /\ m.re \in Exchanges \cup {NoOne}
  BY <1>1 DEF AllKnown, Message
<1> HIDE DEF l, new, n
<1>7. \A i \in DOMAIN log' : (i \in DOMAIN log /\ log'[i] = log[i]) \/ (i = new /\ log'[i] = l)
  BY <1>3 DEF Adds, new
<1>8. \A i \in DOMAIN log : i \in DOMAIN log' /\ log'[i] = log[i] /\ i < new /\ i # new
  <2>1. \A i \in DOMAIN log : i < new /\ i # new
    BY <1>0 DEF TypeOK, new
  <2> QED BY <1>3, <2>1 DEF Adds
<1>9. l.of # NoOne =>
        /\ m.key \in Keys /\ l.of = pending[m.key] /\ l.of \in Exchanges
        /\ body[l.of] = m.key /\ phase[l.of] \notin {"new", "body"}
        /\ \A i \in DOMAIN log : log[i].of # l.of
        /\ \A k \in Keys : pending'[k] # l.of
  <2> SUFFICES ASSUME l.of # NoOne
               PROVE  /\ m.key \in Keys /\ l.of = pending[m.key] /\ l.of \in Exchanges
                      /\ body[l.of] = m.key /\ phase[l.of] \notin {"new", "body"}
                      /\ \A i \in DOMAIN log : log[i].of # l.of
                      /\ \A k \in Keys : pending'[k] # l.of
    OBVIOUS
  <2>1. m.key \in Keys /\ l.of = pending[m.key] /\ l.of \in Exchanges
    BY <1>0, <1>4 DEF Matched, TypeOK
  <2>2. body[l.of] = m.key /\ phase[l.of] \notin {"new", "body"}
    BY <2>1 DEF Owners
  <2>3. \A i \in DOMAIN log : log[i].of # l.of
    BY <2>1 DEF Lines
  <2>4. ASSUME NEW k \in Keys PROVE pending'[k] # l.of
    BY <1>3, <2>2 DEF Owners
  <2> QED BY <2>1, <2>2, <2>3, <2>4
<1>10. Lines'
  <2> SUFFICES ASSUME NEW i \in DOMAIN log'
               PROVE  /\ phase'[log'[i].e] \notin {"new", "body"}
                      /\ log'[i].t = "s2c" => log'[i].n \in DOMAIN res'[log'[i].e].body
                      /\ log'[i].of # NoOne => /\ log'[i].t = "s2c"
                                               /\ phase'[log'[i].of] \notin {"new", "body"}
                                               /\ \A k \in Keys : pending'[k] # log'[i].of
    BY DEF Lines
  <2>1. CASE log'[i] = l
    <3>1. l.of # NoOne => phase'[l.of] \notin {"new", "body"}
      BY <1>9 DEF Frame
    <3> QED BY <1>2, <1>4, <1>5, <1>9, <2>1, <3>1
  <2>2. CASE i \in DOMAIN log /\ log'[i] = log[i]
    <3>1. /\ phase'[log[i].e] \notin {"new", "body"}
          /\ log[i].t = "s2c" => log[i].n \in DOMAIN res'[log[i].e].body
      BY <1>2, <2>2, OldLine
    <3>2. log[i].of \in Exchanges \cup {NoOne}
      BY <1>0, <2>2, LineTypes
    <3>3. log[i].of # NoOne => /\ log[i].t = "s2c" /\ phase[log[i].of] \notin {"new", "body"}
                              /\ \A k \in Keys : pending[k] # log[i].of
      BY <2>2 DEF Lines
    <3>4. log[i].of # NoOne => phase'[log[i].of] \notin {"new", "body"}
      BY <3>2, <3>3 DEF Frame
    <3> QED BY <1>3, <2>2, <3>1, <3>3, <3>4
  <2> QED BY <1>7, <2>1, <2>2
<1>11. AnsweredOnce'
  BY <1>7, <1>9 DEF AnsweredOnce
<1>12. Owners'
  <2>1. \A k \in Keys : pending[k] \in Exchanges \cup {NoOne}
    BY <1>0 DEF TypeOK
  <2> QED BY <1>3, <1>5, <2>1 DEF Owners, Frame
<1>13. AnswersOwn'
  <2> SUFFICES ASSUME Distinct', NEW i \in DOMAIN log', log'[i].of # NoOne
               PROVE  res'[log'[i].e].body[log'[i].n].re = log'[i].of
    BY DEF AnswersOwn, MessageOf
  <2>0. Distinct
    BY DistinctBefore
  <2>1. CASE log'[i] = l
    <3>1. m.key \in Keys /\ l.of \in Exchanges /\ body[l.of] = m.key
      BY <1>9, <2>1
    <3>2. m.re \in Exchanges /\ m.key = body[m.re]
      BY <1>6, <3>1 DEF Known
    <3>3. m.re = l.of
      BY <2>0, <3>1, <3>2 DEF Distinct
    <3> QED BY <1>2, <1>4, <2>1, <3>3
  <2>2. CASE i \in DOMAIN log /\ log'[i] = log[i]
    <3>1. MessageOf(log[i]).re = log[i].of /\ log[i].t = "s2c"
      BY <2>0, <2>2 DEF AnswersOwn, Lines
    <3> QED BY <1>2, <2>2, <3>1, OldLine
  <2> QED BY <1>7, <2>1, <2>2
<1>14. ASSUME shutdown' = "no", NEW f \in Exchanges PROVE Logged(f)'
  <2>0. shutdown = "no"
    BY <1>14 DEF Frame
  <2>1. Logged(f)
    BY <2>0
  <2>2. Asked(f)' <=> Asked(f)
    BY DEF Answers
  <2>3. LinesOf("c2s", f)' = LinesOf("c2s", f)
    BY <1>4, <1>7, <1>8 DEF LinesOf
  <2>4. /\ LinesOf("c2s", f) \subseteq DOMAIN log /\ LinesOf("s2c", f) \subseteq DOMAIN log
        /\ \A i \in LinesOf("s2c", f) : log[i].n \in DOMAIN res[f].body
    BY DEF LinesOf, Lines
  <2>5. CASE f # e
    <3>1. LinesOf("s2c", f)' = LinesOf("s2c", f)
      BY <1>4, <1>7, <1>8, <2>5 DEF LinesOf
    <3>2. res'[f].body = res[f].body
      BY <2>5 DEF Answers
    <3> QED BY <1>5, <1>8, <2>1, <2>2, <2>3, <2>4, <3>1, <3>2 DEF Logged
  <2>6. CASE f = e /\ Throws(m.key)
    <3>1. log' = log
      BY <1>3, <2>6
    <3>2. LinesOf("s2c", f)' = LinesOf("s2c", f)
      BY <3>1 DEF LinesOf
    <3>3. {i \in DOMAIN res'[e].body : ~Throws(res'[e].body[i].key)}
            = {i \in DOMAIN res[e].body : ~Throws(res[e].body[i].key)}
      BY <1>2, <2>6 DEF BodiesKept
    <3> QED BY <1>5, <2>1, <2>2, <2>3, <2>6, <3>1, <3>2, <3>3 DEF Logged
  <2>7. CASE f = e /\ ~Throws(m.key)
    <3>1. new \in DOMAIN log' /\ log'[new] = l
      BY <1>3, <2>0, <2>7 DEF Adds, new
    <3>2. LinesOf("s2c", e)' = LinesOf("s2c", e) \cup {new}
      BY <1>4, <1>7, <1>8, <3>1 DEF LinesOf
    <3>3. {i \in DOMAIN res'[e].body : ~Throws(res'[e].body[i].key)}
            = {i \in DOMAIN res[e].body : ~Throws(res[e].body[i].key)} \cup {n}
      BY <1>2, <2>7 DEF BodiesKept
    <3>4. {log'[i].n : i \in LinesOf("s2c", e)'} = {log[i].n : i \in LinesOf("s2c", e)} \cup {n}
      BY <1>4, <1>8, <2>4, <2>7, <3>1, <3>2
    <3>5. {log'[i].n : i \in LinesOf("s2c", e)'}
            = {i \in DOMAIN res'[e].body : ~Throws(res'[e].body[i].key)}
      BY <2>1, <2>7, <3>3, <3>4 DEF Logged
    <3>6. \A i, j \in LinesOf("s2c", e)' : i < j => log'[i].n < log'[j].n
      <4> SUFFICES ASSUME NEW i \in LinesOf("s2c", e)', NEW j \in LinesOf("s2c", e)', i < j
                   PROVE  log'[i].n < log'[j].n
        OBVIOUS
      <4>1. \A a \in DOMAIN log : a \in Int /\ ~(new < a)
        BY <1>0 DEF TypeOK, new
      <4>2. ~(new < new)
        BY <1>0 DEF TypeOK, new
      <4>3. i # new /\ i \in LinesOf("s2c", e)
        BY <2>4, <2>7, <3>2, <4>1, <4>2
      <4>4. CASE j = new
        BY <1>2, <1>4, <1>8, <2>4, <2>7, <3>1, <4>3, <4>4
      <4>5. CASE j \in LinesOf("s2c", e)
        BY <1>8, <2>1, <2>4, <2>7, <4>3, <4>5 DEF Logged
      <4> QED BY <3>2, <4>4, <4>5
    <3>7. \A i \in LinesOf("c2s", e)', j \in LinesOf("s2c", e)' : i < j
      BY <1>8, <2>1, <2>3, <2>4, <2>7, <3>2 DEF Logged
    <3>8. Asked(e)' /\ body'[e] # NoBody => \E i \in DOMAIN log' : LinesOf("c2s", e)' = {i}
      BY <1>5, <1>8, <2>1, <2>2, <2>3, <2>7 DEF Logged
    <3> QED BY <2>7, <3>5, <3>6, <3>7, <3>8 DEF Logged
  <2> QED BY <2>5, <2>6, <2>7
<1>15. ASSUME shutdown' = "no", NEW k \in Keys, NEW f \in Exchanges
       PROVE  pending'[k] = f <=> LastIs(k, f)'
  <2>0. shutdown = "no"
    BY <1>15 DEF Frame
  <2>1. pending[k] = f <=> LastIs(k, f)
    BY <2>0
  <2>2. AskedAt(k)' = AskedAt(k) /\ AskedAt(k) \subseteq DOMAIN log
    BY <1>4, <1>5, <1>7, <1>8 DEF AskedAt
  <2>3. \A i \in DOMAIN log : log[i].t = "s2c" => res'[log[i].e].body[log[i].n] = MessageOf(log[i])
    BY <1>2, <1>8, OldLine
  <2>4. res'[l.e].body[l.n] = m
    BY <1>2, <1>4
  <2>5. CASE k # m.key
    <3>1. AnsweredAt(k)' = AnsweredAt(k)
      BY <1>4, <1>7, <1>8, <2>3, <2>4, <2>5 DEF AnsweredAt, MessageOf
    <3> QED BY <1>3, <1>8, <2>1, <2>2, <2>5, <3>1 DEF LastIs
  <2>6. CASE k = m.key
    <3>1. new \in DOMAIN log' /\ log'[new] = l
      BY <1>3, <2>0, <2>6, KeysAssumption DEF Adds, new, Throws
    <3>2. new \in AnsweredAt(k)'
      BY <1>4, <2>4, <2>6, <3>1 DEF AnsweredAt, MessageOf
    <3>3. \A i \in DOMAIN log : ~(new <= i)
      BY <1>0 DEF TypeOK, new
    <3>4. ~LastIs(k, f)'
      BY <2>2, <3>2, <3>3 DEF LastIs
    <3>5. pending'[k] # f
      BY <1>3, <2>6, NoOneAssumption
    <3> QED BY <3>4, <3>5
  <2> QED BY <2>5, <2>6
<1> QED BY <1>10, <1>11, <1>12, <1>13, <1>14, <1>15

\* Every step is one of the three.
LEMMA NextHistory == Staged /\ AllKnown /\ History /\ [Next]_vars => History'
<1> SUFFICES ASSUME Staged, AllKnown, History, [Next]_vars PROVE History'
  OBVIOUS
<1>1. Frame /\ (Quiet \/ \E e \in Exchanges : Requests(e) \/ Answers(e))
  BY NextSorted DEF Sorted
<1> QED BY <1>1, QuietHistory, RequestHistory, AnswerHistory

-----------------------------------------------------------------------------
(* The properties.                                                          *)

\* The types, and the stage of every exchange: at any time, whatever exchanges
\* run beside each other, a response is what handle() has made of it so far.
THEOREM AlwaysStaged == Spec => []Staged
BY InitStaged, NextStaged, PTL DEF Spec

\* The stages include the types.
LEMMA StagedTyped == Staged => TypeOK
BY DEF Staged

\* A client gets its upstream's body or a response of the proxy's own, whole
\* when the upstream finished, whatever the observer and other exchanges do.
THEOREM BodyAlwaysUpstreams == Spec => []BodyIsUpstreams
BY AlwaysStaged, StagedGivesBody, PTL

\* A request is forwarded on the longest prefix that matches its path, the
\* first of equal ones, for any list of routes.
THEOREM RouteAlwaysLongest == Spec => []RouteIsLongest
BY AlwaysStaged, StagedTyped, InitRoute, NextRoute, RouteInvGivesLongest, PTL DEF Spec

\* What the log and the pending map are about.
THEOREM AlwaysHistory == Spec => [](Staged /\ History)
<1>1. Staged /\ AllKnown /\ History /\ [Next]_vars => AllKnown' /\ History'
  BY NextKnown, NextHistory
<1> QED BY <1>1, AlwaysStaged, InitKnown, InitHistory, PTL DEF Spec

\* While the log is open it holds every forwarded request once and, behind it,
\* every message of its response that went to the client, in order.
THEOREM ExchangeAlwaysLogged == Spec => []ExchangeIsLogged
BY AlwaysHistory, HistoryGives, PTL

\* pending holds the last request logged under a key since the last answer with
\* that key, whichever exchanges they came on.
THEOREM PendingAlwaysExact == Spec => []PendingIsExact
BY AlwaysHistory, HistoryGives, PTL

\* With distinct ids, a latency is between a request and its own answer, on
\* whatever stream that comes, and there is one per request.
THEOREM LatencyAlwaysOwn == Spec => []LatencyIsOwn
BY AlwaysHistory, HistoryGives, PTL
=============================================================================
