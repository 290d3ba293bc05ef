--------------------------- MODULE McpConnection ----------------------------
(***************************************************************************)
(* McpConnection (src/mcp-connection.ts): the client connection behind     *)
(* conform, health and verify.  request() numbers a call, arms its timer   *)
(* and writes it to the server; an answer, the timer, the server's exit or *)
(* a failed spawn settles it.  The server, the pipes, the timers and the   *)
(* caller interleave freely; each callback of the connection is atomic.    *)
(***************************************************************************)
EXTENDS Integers, Sequences

CONSTANTS
  MaxCalls,     \* bound: requests accepted
  MaxNotify,    \* bound: notifications sent
  MaxReplies    \* bound: messages the server writes

ASSUME BoundsAssumption ==
  MaxCalls \in Nat /\ MaxNotify \in Nat /\ MaxReplies \in Nat

Call == 1 .. MaxCalls

\* What a line of the server's stdout may be.  kind tells a JSON integer from
\* an id that only looks like one ("1", true, none at all); re is the request the
\* server meant to answer (0: none), which the code cannot see.  A server that
\* answers with an integer id gives the id it was asked with; anything else of
\* its own making (notifications, its own requests, garbage, stray ids) is
\* covered by "other".
Reply == [kind : {"integer"}, id : Call, re : Call] \cup [kind : {"other"}, id : Call, re : {0}]

VARIABLES
  nextId,       \* McpConnection.nextId
  pending,      \* the ids in McpConnection.pending
  timers,       \* the ids whose setTimeout is armed
  closed,       \* McpConnection.closed
  outcome,      \* what each promise was settled with, if it was
  settles,      \* how often resolve or reject was called on it
  result,       \* re of the answer a promise was resolved with
  refused,      \* some request() was refused because the connection is closed
  notified,     \* notifications written
  toServer,     \* the pipe into the server: call ids, 0 for a notification
  serverGot,    \* the calls the server has read
  fromServer,   \* the pipe out of the server
  replies,      \* messages the server has written
  served,       \* the calls it has answered
  child         \* "running", "gone" (exit not yet seen), "unspawned", "over"

callVars   == <<outcome, settles, result>>
tableVars  == <<pending, timers>>
serverVars == <<serverGot, fromServer, replies, served>>
vars == <<nextId, tableVars, closed, callVars, refused, notified, toServer,
          serverVars, child>>

Outcomes == {"none", "result", "timeout", "server exited", "spawn error"}

Init ==
  /\ nextId = 1 /\ pending = {} /\ timers = {} /\ closed = FALSE
  /\ outcome = [c \in Call |-> "none"]
  /\ settles = [c \in Call |-> 0]
  /\ result = [c \in Call |-> 0]
  /\ refused = FALSE /\ notified = 0
  /\ toServer = <<>> /\ serverGot = {} /\ fromServer = <<>>
  /\ replies = 0 /\ served = {}
  /\ child \in {"running", "unspawned"}

-----------------------------------------------------------------------------
(* The methods the callers use.                                            *)

TimerId_AfterIncrement == nextId + 1                             \* mutant
TimerId == nextId

\* request(): a closed connection refuses at once; an open one takes the next
\* id, arms the timer, remembers the waiter and writes the line.
Request ==
  IF closed
  THEN /\ refused' = TRUE
       /\ UNCHANGED <<nextId, tableVars, closed, callVars, notified, toServer,
                      serverVars, child>>
  ELSE /\ nextId <= MaxCalls
       /\ nextId' = nextId + 1
       /\ timers' = timers \cup {TimerId}
       /\ pending' = pending \cup {nextId}
       /\ toServer' = Append(toServer, nextId)
       /\ UNCHANGED <<closed, callVars, refused, notified, serverVars, child>>

Notify ==
  /\ ~closed /\ notified < MaxNotify
  /\ notified' = notified + 1
  /\ toServer' = Append(toServer, 0)
  /\ UNCHANGED <<nextId, tableVars, closed, callVars, refused, serverVars, child>>

\* close() refuses further calls and kills the server; what is pending is left
\* to the exit event or to its timers.  (The server may exit at any time, so
\* the kill needs no state; it may also ignore the signal.)
Close ==
  /\ ~closed
  /\ closed' = TRUE
  /\ UNCHANGED <<nextId, tableVars, callVars, refused, notified, toServer,
                 serverVars, child>>

-----------------------------------------------------------------------------
(* The server and its pipes.                                               *)

ServerRead ==
  /\ child = "running" /\ toServer # <<>>
  /\ toServer' = Tail(toServer)
  /\ serverGot' = serverGot \cup ({Head(toServer)} \ {0})
  /\ UNCHANGED <<nextId, tableVars, closed, callVars, refused, notified,
                 fromServer, replies, served, child>>

\* The server answers a call it has read, in any order and perhaps twice, or
\* writes something that is no answer.
ServerWrite ==
  /\ child = "running" /\ replies < MaxReplies
  /\ \E m \in Reply :
       /\ m.kind = "integer" => m.re = m.id /\ m.id \in serverGot
       /\ fromServer' = Append(fromServer, m)
       /\ served' = served \cup ({m.re} \ {0})
  /\ replies' = replies + 1
  /\ UNCHANGED <<nextId, tableVars, closed, callVars, refused, notified,
                 toServer, serverGot, child>>

\* The server exits or crashes; what it wrote stays in the pipe.
ServerGone ==
  /\ child = "running"
  /\ child' = "gone"
  /\ UNCHANGED <<nextId, tableVars, closed, callVars, refused, notified,
                 toServer, serverVars>>

-----------------------------------------------------------------------------
(* The connection's callbacks.                                             *)

\* Calling a waiter's resolve or reject: the promise keeps its first outcome
\* and the timer is cleared.
Settle(C, how, re) ==
  /\ outcome' = [c \in Call |-> IF c \in C /\ outcome[c] = "none"
                                THEN how ELSE outcome[c]]
  /\ result' = [c \in Call |-> IF c \in C /\ outcome[c] = "none"
                               THEN re ELSE result[c]]
  /\ settles' = [c \in Call |-> IF c \in C THEN settles[c] + 1 ELSE settles[c]]

\* Strict integer match: an id that only coerces to a pending one is ignored.
Matches_Coerced(m) == m.id \in pending                           \* mutant
Matches(m) == m.kind = "integer" /\ m.id \in pending

\* stdout 'data': an answer to a pending call settles it, any other line is
\* dropped, a late answer and one after the exit included.
StdoutData ==
  /\ fromServer # <<>>
  /\ LET m == Head(fromServer)
     IN  IF Matches(m)
         THEN /\ pending' = pending \ {m.id}
              /\ timers' = timers \ {m.id}
              /\ Settle({m.id}, "result", m.re)
         ELSE UNCHANGED <<tableVars, callVars>>
  /\ fromServer' = Tail(fromServer)
  /\ UNCHANGED <<nextId, closed, refused, notified, toServer, serverGot,
                 replies, served, child>>

ForgetTimedOut_Keeps(c) == UNCHANGED pending                     \* mutant
ForgetTimedOut(c) == pending' = pending \ {c}

Timeout_Silent(c) ==                                             \* mutant
  /\ c \in timers
  /\ timers' = timers \ {c}
  /\ ForgetTimedOut(c)
  /\ UNCHANGED <<nextId, closed, callVars, refused, notified, toServer, serverVars, child>>

\* The timer of one call fires.
Timeout(c) ==
  /\ c \in timers
  /\ timers' = timers \ {c}
  /\ ForgetTimedOut(c)
  /\ Settle({c}, "timeout", 0)
  /\ UNCHANGED <<nextId, closed, refused, notified, toServer, serverVars, child>>

Cleared_NotTimers(C) == UNCHANGED timers                         \* mutant
Cleared(C) == timers' = timers \ C

\* child 'exit' and child 'error': every pending call is rejected.
FailAll(how) ==
  /\ closed' = TRUE
  /\ Settle(pending, how, 0)
  /\ Cleared(pending)
  /\ pending' = {}
  /\ child' = "over"
  /\ UNCHANGED <<nextId, refused, notified, toServer, serverVars>>

ExitEvent  == child = "gone" /\ FailAll("server exited")
ErrorEvent == child = "unspawned" /\ FailAll("spawn error")

\* Nothing is left to do: no call waits and no more can be made.
Done ==
  /\ child = "over" /\ fromServer = <<>> /\ refused
  /\ UNCHANGED vars

Next == \/ Request \/ Notify \/ Close
        \/ ServerRead \/ ServerWrite \/ ServerGone
        \/ StdoutData \/ ExitEvent \/ ErrorEvent
        \/ \E c \in Call : Timeout(c)
        \/ Done

Spec == Init /\ [][Next]_vars

\* Timers fire and exit events are delivered.  Nothing is assumed of the
\* server: it may never answer, and it may ignore the kill.
Fairness == /\ \A c \in Call : WF_vars(Timeout(c))
            /\ WF_vars(StdoutData) /\ WF_vars(ExitEvent) /\ WF_vars(ErrorEvent)

FairSpec == Spec /\ Fairness

-----------------------------------------------------------------------------
Issued == 1 .. nextId - 1
Waiting == {c \in Issued : outcome[c] = "none"}

TypeOK ==
  /\ nextId \in 1 .. MaxCalls + 1
  /\ pending \subseteq Issued /\ timers \subseteq Issued
  /\ closed \in BOOLEAN /\ refused \in BOOLEAN
  /\ outcome \in [Call -> Outcomes]
  /\ settles \in [Call -> Nat]
  /\ result \in [Call -> 0 .. MaxCalls]
  /\ notified \in Nat /\ replies \in Nat
  /\ toServer \in Seq(0 .. MaxCalls)
  /\ serverGot \subseteq Call
  /\ fromServer \in Seq(Reply)
  /\ served \subseteq Call
  /\ child \in {"running", "gone", "unspawned", "over"}

\* The table of waiters, the armed timers and the unsettled promises are one
\* and the same set of calls, whichever of answer, timeout, exit or failed
\* spawn came first: no waiter leaks, no timer outlives its call (and keeps the
\* process alive), no promise is left with nothing to settle it.
TablesAgree == pending = Waiting /\ timers = Waiting

\* No waiter is called twice: a timeout and a late answer, an answer and the
\* exit, never both reach the caller.
SettledOnce == \A c \in Call : settles[c] = IF outcome[c] = "none" THEN 0 ELSE 1

\* A call is resolved with the server's answer to that very call, never with a
\* line whose id only coerces to it (src/test/adv-mcp-connection-2.test.ts).
OwnAnswer == \A c \in Call : outcome[c] = "result" => result[c] = c /\ c \in served

\* What a caller can tell of each call.
CallState(c) == IF c >= nextId THEN "unissued"
                ELSE IF outcome[c] = "none" THEN "waiting"
                ELSE IF outcome[c] = "result" THEN "answered" ELSE "failed"

Abstract == INSTANCE Calls WITH
  Call <- Call, result <- result, served <- served,
  state <- [c \in Call |-> CallState(c)]

\* The connection is an implementation of Calls, its progress included: every
\* call is settled in the end, even if the server never answers or the
\* connection is closed under it.
ImplementsCalls == Abstract!FairSpec
=============================================================================
