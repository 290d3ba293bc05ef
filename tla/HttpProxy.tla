----------------------------- MODULE HttpProxy -----------------------------
(***************************************************************************)
(* wrap-http (src/http-proxy.ts, cmdWrapHttp in src/index.ts): an HTTP     *)
(* proxy in front of one or more upstreams that observes what passes.      *)
(* Exchanges (one client request and its response each) run concurrently;  *)
(* handle() is cut into actions at its awaits, so all exchanges interleave *)
(* over the one Correlator and the one log.                                *)
(*                                                                         *)
(* A body, or an SSE event, is one JSON-RPC message; sse.ts, which finds   *)
(* the events in the bytes, is not in this module.                         *)
(***************************************************************************)
EXTENDS Integers, SequencesExt

CONSTANTS
  Exchanges,      \* requests clients may make, each at most once (a bound)
  MayLeave,       \* of these, the ones whose client may go away (a bound)
  Keys,           \* String(id) of the ids in use
  NoKey,          \* a message with no id, or an id no request has
  Hard,           \* the key standing for an id on which String() throws
  NoBody,         \* a request without a body: the GET that opens a stream
  Bodies,         \* the bodies sent: keys of requests, NoKey, Hard, NoBody
  NoOne,          \* no exchange
  Routes,         \* the routes in the order given: prefixes, as segments
  Paths,          \* request paths, as segments
  MaxMessages     \* bound: messages the upstreams send, on all exchanges

Root == <<>>      \* the prefix "/"

ASSUME KeysAssumption == NoKey \notin Keys /\ Hard \notin Keys /\ NoBody \notin Keys
ASSUME NoOneAssumption == NoOne \notin Exchanges
ASSUME BodiesAssumption == Bodies \subseteq Keys \cup {NoKey, Hard, NoBody}
ASSUME RoutesAssumption == Routes \in Seq(Seq(STRING))
ASSUME BoundAssumption == MaxMessages \in Nat /\ MayLeave \subseteq Exchanges

\* A message from an upstream: its key, and the exchange whose request it
\* answers.  The code does not read re: the properties do.
Message == [key : Keys \cup {NoKey, Hard}, re : Exchanges \cup {NoOne}]

\* What the client is sent: whose headers ("none": not yet), which body so far.
Response == [headers : {"none", "403", "404", "502", "upstream"},
             body : Seq(Message), ended : BOOLEAN]

\* A message in the log: the request of exchange e, or message n of its
\* response; of is the exchange whose request latencyMs was measured from (NoOne:
\* null).  Notes (routes, sessions, errors) are left out, and the sets that keep
\* them from being repeated.
LogEvent == [t : {"c2s", "s2c"}, e : Exchanges, n : Nat, of : Exchanges \cup {NoOne}]

VARIABLES
  phase,          \* where handle() is, per exchange
  body,           \* what the client sends
  path,           \* and to which path
  asked,          \* the route the exchange was forwarded on (0: not forwarded)
  upstream,       \* the upstream's side: "idle", "open", "done", "dead"
  upSent,         \* messages the upstream has written
  net,            \* of these, the ones the proxy has not read
  res,            \* the response: its headers, its body, whether it is ended
  connected,      \* the client is still there
  pending,        \* Correlator.pending: key -> exchange, or NoOne
  log,            \* what has been handed to the logger while it was open
  shutdown        \* "no", "closing" (after a signal) or "exited"

exchangeVars == <<phase, body, path, asked, res>>
upVars  == <<upstream, upSent, net>>
vars == <<exchangeVars, upVars, connected, pending, log, shutdown>>

Init ==
  /\ phase = [e \in Exchanges |-> "new"]
  /\ body = [e \in Exchanges |-> NoBody] /\ path = [e \in Exchanges |-> Root]
  /\ asked = [e \in Exchanges |-> 0]
  /\ upstream = [e \in Exchanges |-> "idle"]
  /\ upSent = [e \in Exchanges |-> <<>>] /\ net = [e \in Exchanges |-> <<>>]
  /\ res = [e \in Exchanges |-> [headers |-> "none", body |-> <<>>, ended |-> FALSE]]
  /\ connected = [e \in Exchanges |-> TRUE]
  /\ pending = [k \in Keys |-> NoOne]
  /\ log = <<>> /\ shutdown = "no"

Up == shutdown # "exited"

-----------------------------------------------------------------------------
(* Routing.                                                                *)

\* matchRemainder: "/" takes every path, another prefix its own and those below.
Matches(prefix, p) == prefix = Root \/ IsPrefix(prefix, p)

Better_Later(i, best) == TRUE                                   \* mutant
Better(i, best) == Len(Routes[i]) > Len(Routes[best])

\* resolveRoute: the loop keeps the longest prefix, the first of equal ones.
ResolveRoute(p) ==
  LET Best[i \in 0 .. Len(Routes)] ==
        IF i = 0 THEN 0
        ELSE IF Matches(Routes[i], p) /\ (Best[i - 1] = 0 \/ Better(i, Best[i - 1])) THEN i
        ELSE Best[i - 1]
  IN  Best[Len(Routes)]

-----------------------------------------------------------------------------
(* The logger and the Correlator, shared by all exchanges.                 *)

\* After logger.close() events are lost: the stream has been ended.
Log(evs) == log' = IF shutdown = "no" THEN log \o evs ELSE log

Throws(k) == k = Hard

\* observe(body): onClientToServer logs, then remembers a request under its key,
\* which it cannot compute if String(id) throws.
ObserveRequest(e) ==
  /\ IF body[e] = NoBody THEN UNCHANGED log
     ELSE Log(<<[t |-> "c2s", e |-> e, n |-> 1, of |-> NoOne]>>)
  /\ pending' = IF body[e] \in Keys THEN [pending EXCEPT ![body[e]] = e] ELSE pending

Matched(m) == m.key \in Keys /\ pending[m.key] # NoOne

Forget_Never(m) == pending                                      \* mutant
Forget(m) == [pending EXCEPT ![m.key] = NoOne]

MatchedWith_Exchange(e, m) == e                                 \* mutant
\* The pending request that latencyMs is measured from.
MatchedWith(e, m) == pending[m.key]

AnswerLine_Matched(e, m, n) ==                                  \* mutant
  IF ~Matched(m) THEN <<>>
  ELSE <<[t |-> "s2c", e |-> e, n |-> n, of |-> MatchedWith(e, m)]>>
AnswerLine(e, m, n) ==
  <<[t |-> "s2c", e |-> e, n |-> n, of |-> IF Matched(m) THEN MatchedWith(e, m) ELSE NoOne]>>

\* observe(data): onServerToClient looks the answer's key up, then logs; if
\* String(id) throws there is no line.
ObserveAnswer(e, m, n) ==
  /\ pending' = IF Matched(m) THEN Forget(m) ELSE pending
  /\ Log(IF Throws(m.key) THEN <<>> ELSE AnswerLine(e, m, n))

-----------------------------------------------------------------------------
(* handle().                                                               *)

\* A response the proxy makes up.
Own(e, code) == res' = [res EXCEPT ![e] = [headers |-> code, body |-> <<>>, ended |-> TRUE]]

Refused(e, code) ==
  /\ Own(e, code)
  /\ phase' = [phase EXCEPT ![e] = "closed"]
  /\ UNCHANGED <<body, asked>>

\* A body is read first, a GET asks the upstream at once.
Routed(e, r, b) ==
  /\ body' = [body EXCEPT ![e] = b]
  /\ asked' = [asked EXCEPT ![e] = r]
  /\ phase' = [phase EXCEPT ![e] = IF b = NoBody THEN "fetch" ELSE "body"]
  /\ UNCHANGED res

\* A request comes in while the server listens: its origin and its route are
\* checked, all in one turn.
Arrive(e) ==
  /\ shutdown = "no" /\ phase[e] = "new"
  /\ \E b \in Bodies, p \in Paths :
       /\ path' = [path EXCEPT ![e] = p]
       /\ LET r == ResolveRoute(p)
          IN  \/ Refused(e, "403")
              \/ r = 0 /\ Refused(e, "404")
              \/ r # 0 /\ Routed(e, r, b)
  /\ UNCHANGED <<upVars, connected, pending, log, shutdown>>

\* handle() rejects: a 502 if no headers have been sent.
Reject(e) ==
  /\ phase' = [phase EXCEPT ![e] = "closed"]
  /\ IF res[e].ended THEN UNCHANGED res
     ELSE IF res[e].headers # "none" THEN res' = [res EXCEPT ![e].ended = TRUE]
     ELSE Own(e, "502")

\* readBody has resolved: observe, then ask the upstream.  The observer's
\* exception is handle()'s: the request goes no further.
BodyRead(e) ==
  /\ Up /\ phase[e] = "body"
  /\ ObserveRequest(e)
  /\ IF Throws(body[e]) THEN Reject(e)
     ELSE phase' = [phase EXCEPT ![e] = "fetch"] /\ UNCHANGED res
  /\ UNCHANGED <<body, path, asked, upVars, connected, shutdown>>

\* readBody rejects: the client went away.
BodyFails(e) ==
  /\ Up /\ phase[e] = "body" /\ ~connected[e]
  /\ Reject(e)
  /\ UNCHANGED <<body, path, asked, upVars, connected, pending, log, shutdown>>

\* fetch rejects: the upstream cannot be reached, or does not answer.
FetchFails(e) ==
  /\ Up /\ phase[e] = "fetch"
  /\ upstream' = [upstream EXCEPT ![e] = "dead"]
  /\ Reject(e)
  /\ UNCHANGED <<body, path, asked, upSent, net, connected, pending, log, shutdown>>

\* fetch resolves with the upstream's headers.  A stream's are passed on now, a
\* plain answer's when all of it has come.
FetchResolves(e) ==
  /\ Up /\ phase[e] = "fetch"
  /\ upstream' = [upstream EXCEPT ![e] = "open"]
  /\ \/ /\ phase' = [phase EXCEPT ![e] = "stream"]
        /\ res' = [res EXCEPT ![e].headers = "upstream"]
     \/ phase' = [phase EXCEPT ![e] = "plain"] /\ UNCHANGED res
  /\ UNCHANGED <<body, path, asked, upSent, net, connected, pending, log, shutdown>>

\* An event of the stream: forwarded first, then observed.
ToClient(e, m) == Append(res[e].body, m)

ReadChunk(e) ==
  /\ Up /\ phase[e] = "stream" /\ net[e] # <<>>
  /\ LET m == Head(net[e])
     IN  /\ net' = [net EXCEPT ![e] = Tail(@)]
         /\ res' = [res EXCEPT ![e].body = ToClient(e, m)]
         /\ ObserveAnswer(e, m, Len(res[e].body) + 1)
  /\ UNCHANGED <<phase, body, path, asked, upstream, upSent, connected, shutdown>>

StreamBroken_NoEnd(e) == UNCHANGED res                          \* mutant
StreamBroken_Body(e) ==                                         \* mutant
  res' = [res EXCEPT ![e].ended = TRUE, ![e].body = Append(@, [key |-> NoKey, re |-> NoOne])]
\* reader.read() rejects: no diagnostics in the stream, it just ends.
StreamBroken(e) == res' = [res EXCEPT ![e].ended = TRUE]

StreamEnds(e) ==
  /\ Up /\ phase[e] = "stream"
  /\ phase' = [phase EXCEPT ![e] = "closed"]
  /\ \/ upstream[e] = "dead" /\ StreamBroken(e)
     \/ /\ upstream[e] = "done" /\ net[e] = <<>>
        /\ res' = [res EXCEPT ![e].ended = TRUE]
  /\ net' = [net EXCEPT ![e] = <<>>]
  /\ UNCHANGED <<body, path, asked, upstream, upSent, connected, pending, log, shutdown>>

\* arrayBuffer() resolves: headers and body are sent, then it is observed.  If
\* the observer throws, the response has been ended already.
PlainDone(e) ==
  /\ Up /\ phase[e] = "plain" /\ upstream[e] = "done"
  /\ res' = [res EXCEPT ![e] = [headers |-> "upstream", body |-> upSent[e], ended |-> TRUE]]
  /\ net' = [net EXCEPT ![e] = <<>>]
  /\ phase' = [phase EXCEPT ![e] = "closed"]
  /\ IF upSent[e] = <<>> THEN UNCHANGED <<pending, log>>
     ELSE ObserveAnswer(e, Head(upSent[e]), 1)
  /\ UNCHANGED <<body, path, asked, upstream, upSent, connected, shutdown>>

PlainFails(e) ==
  /\ Up /\ phase[e] = "plain" /\ upstream[e] = "dead"
  /\ Reject(e)
  /\ UNCHANGED <<body, path, asked, upVars, connected, pending, log, shutdown>>

-----------------------------------------------------------------------------
(* Clients, upstreams and signals.                                         *)

SumOver(seqs) == FoldFunction(LAMBDA s, n : Len(s) + n, 0, seqs)

Asked(e) == phase[e] = "fetch" \/ upstream[e] # "idle"

\* An upstream answers requests it has been asked, on any exchange, or sends
\* anything else; a plain answer is one message.
UpSends(e) ==
  /\ Up /\ upstream[e] = "open"
  /\ SumOver(upSent) < MaxMessages
  /\ phase[e] = "plain" => upSent[e] = <<>>
  /\ \E m \in Message :
       /\ IF m.re = NoOne THEN m.key \notin Keys
          ELSE m.key \in Keys /\ m.key = body[m.re] /\ Asked(m.re) /\ asked[m.re] = asked[e]
       /\ upSent' = [upSent EXCEPT ![e] = Append(@, m)]
       /\ net' = [net EXCEPT ![e] = Append(@, m)]
  /\ UNCHANGED <<exchangeVars, upstream, connected, pending, log, shutdown>>

UpEnds(e) ==
  /\ Up /\ upstream[e] = "open"
  /\ \E how \in {"done", "dead"} : upstream' = [upstream EXCEPT ![e] = how]
  /\ UNCHANGED <<exchangeVars, upSent, net, connected, pending, log, shutdown>>

\* A client leaves; handle() goes on, its writes go nowhere.
ClientLeaves(e) ==
  /\ Up /\ e \in MayLeave /\ phase[e] # "new" /\ connected[e] /\ ~res[e].ended
  /\ connected' = [connected EXCEPT ![e] = FALSE]
  /\ UNCHANGED <<exchangeVars, upVars, pending, log, shutdown>>

\* SIGINT or SIGTERM: the log is closed and the server stops listening.
Signal ==
  /\ shutdown = "no" /\ shutdown' = "closing"
  /\ UNCHANGED <<exchangeVars, upVars, connected, pending, log>>

\* server.close() calls back when no connection is left; then process.exit(0).
Exit ==
  /\ shutdown = "closing"
  /\ \A e \in Exchanges : phase[e] = "new" \/ res[e].ended \/ ~connected[e]
  /\ shutdown' = "exited"
  /\ UNCHANGED <<exchangeVars, upVars, connected, pending, log>>

Handle(e) == \/ BodyRead(e) \/ BodyFails(e) \/ FetchFails(e) \/ FetchResolves(e)
             \/ ReadChunk(e) \/ StreamEnds(e) \/ PlainDone(e) \/ PlainFails(e)

Next == \/ \E e \in Exchanges : Arrive(e) \/ Handle(e) \/ UpSends(e) \/ UpEnds(e) \/ ClientLeaves(e)
        \/ Signal \/ Exit

\* Promises settle: Node ends a body that stalls (requestTimeout), fetch a
\* response that does (headersTimeout, bodyTimeout).
Fairness == /\ \A e \in Exchanges : WF_vars(Handle(e)) /\ WF_vars(UpEnds(e))
            /\ WF_vars(Exit)

Spec == Init /\ [][Next]_vars
FairSpec == Spec /\ Fairness

-----------------------------------------------------------------------------
(* Properties.                                                             *)

TypeOK ==
  /\ phase \in [Exchanges -> {"new", "body", "fetch", "stream", "plain", "closed"}]
  /\ body \in [Exchanges -> Bodies \cup {NoBody}] /\ path \in [Exchanges -> Paths \cup {Root}]
  /\ asked \in [Exchanges -> 0 .. Len(Routes)]
  /\ upstream \in [Exchanges -> {"idle", "open", "done", "dead"}]
  /\ upSent \in [Exchanges -> Seq(Message)] /\ net \in [Exchanges -> Seq(Message)]
  /\ res \in [Exchanges -> Response]
  /\ connected \in [Exchanges -> BOOLEAN]
  /\ pending \in [Keys -> Exchanges \cup {NoOne}]
  /\ log \in Seq(LogEvent) /\ shutdown \in {"no", "closing", "exited"}

\* A client gets the upstream's body: never anything else once headers have
\* passed (a diagnostic in a live stream), nothing left out of it, and all of it
\* when the upstream finished; or a response of the proxy's own and nothing of
\* the upstream's.  Whatever the observer and other exchanges do meanwhile.
BodyIsUpstreams ==
  \A e \in Exchanges : LET r == res[e] IN
    IF r.headers = "upstream"
    THEN IsPrefix(r.body, upSent[e]) /\ (r.ended /\ upstream[e] = "done" => r.body = upSent[e])
    ELSE r.body = <<>> /\ (r.ended <=> r.headers # "none")

\* A request goes to the longest prefix that matches its path, the first of
\* equal ones, and to no upstream exactly if none does.
RouteIsLongest ==
  \A e \in Exchanges : phase[e] # "new" /\ res[e].headers # "403" =>
    LET Fit == {i \in DOMAIN Routes : Matches(Routes[i], path[e])}
    IN  IF asked[e] = 0 THEN Fit = {}
        ELSE /\ asked[e] \in Fit
             /\ \A i \in Fit \ {asked[e]} :
                  Len(Routes[i]) < Len(Routes[asked[e]])
                    \/ (Len(Routes[i]) = Len(Routes[asked[e]]) /\ i > asked[e])

LinesOf(t, e) == {i \in DOMAIN log : log[i].t = t /\ log[i].e = e}

\* While the log is open, it holds the request of every exchange that has been
\* forwarded, once, and every message of its response that went to the client,
\* in order (but those on whose id String() throws), behind the request.
ExchangeIsLogged ==
  shutdown = "no" =>
    \A e \in Exchanges :
      /\ Asked(e) /\ body[e] # NoBody => \E i \in DOMAIN log : LinesOf("c2s", e) = {i}
      /\ {log[i].n : i \in LinesOf("s2c", e)}
           = {n \in DOMAIN res[e].body : ~Throws(res[e].body[n].key)}
      /\ \A i, j \in LinesOf("s2c", e) : i < j => log[i].n < log[j].n
      /\ \A i \in LinesOf("c2s", e), j \in LinesOf("s2c", e) : i < j

MessageOf(l) == res[l.e].body[l.n]

AskedAt(k) == {i \in DOMAIN log : log[i].t = "c2s" /\ body[log[i].e] = k}
AnsweredAt(k) == {i \in DOMAIN log : log[i].t = "s2c" /\ MessageOf(log[i]).key = k}

\* pending holds, for each key, the last request logged under it since the last
\* answer with that key, whichever exchanges they came on.
PendingIsExact ==
  TypeOK /\ (shutdown = "no" =>
    \A k \in Keys, e \in Exchanges :
      pending[k] = e <=> \E i \in AskedAt(k) :
                          log[i].e = e /\ \A j \in AskedAt(k) \cup AnsweredAt(k) : j <= i)

\* With distinct ids, latency is measured between a request and its own answer,
\* on whatever stream the answer comes, and once per request.
LatencyIsOwn ==
  (\A e, f \in Exchanges : body[e] \in Keys /\ body[e] = body[f] => e = f) =>
    \A i \in DOMAIN log : log[i].of # NoOne =>
      /\ MessageOf(log[i]).re = log[i].of
      /\ \A j \in DOMAIN log : log[j].of = log[i].of => i = j

\* Every exchange gets its response to the end, even when its upstream dies in
\* the middle of a stream, or the process ends first.
EveryExchangeEnds ==
  \A e \in Exchanges : phase[e] # "new" ~> res[e].ended \/ shutdown = "exited"

\* After a signal the proxy ends: no open stream holds it for ever.
ShutdownEnds == shutdown = "closing" ~> shutdown = "exited"

\* No exchange and no shutdown hangs.
EverythingEnds == EveryExchangeEnds /\ ShutdownEnds
=============================================================================
