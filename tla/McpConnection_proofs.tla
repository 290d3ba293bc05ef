------------------------ MODULE McpConnection_proofs ------------------------
(***************************************************************************)
(* McpConnection for any number of calls, notifications and replies: its   *)
(* invariants, and that it implements Calls.                               *)
(*                                                                         *)
(* None of the invariants is inductive by itself.  That a call is settled  *)
(* once needs the table to hold only unsettled calls (TablesAgree); that   *)
(* it is settled with its own answer needs what is true of the lines still *)
(* in the pipes (PipesHonest).  Inv is their conjunction.                  *)
(***************************************************************************)
EXTENDS McpConnection, SequenceTheorems, TLAPS

\* Only issued calls travel, and an integer id in the pipe out of the server
\* is the id of the call that line answers.
PipesHonest ==
  /\ \A i \in 1 .. Len(toServer) : toServer[i] < nextId
  /\ serverGot \subseteq Issued
  /\ served \subseteq Issued
  /\ \A i \in 1 .. Len(fromServer) :
       fromServer[i].kind = "integer"
         => fromServer[i].re = fromServer[i].id /\ fromServer[i].id \in served

\* A call that was not issued has no outcome.
FutureUntouched == \A c \in Call : c >= nextId => outcome[c] = "none"

\* A call with no answer has no result.
NoResultYet == \A c \in Call : outcome[c] # "result" => result[c] = 0

Inv == /\ TypeOK /\ TablesAgree /\ SettledOnce /\ OwnAnswer
       /\ PipesHonest /\ FutureUntouched /\ NoResultYet

-----------------------------------------------------------------------------
(* Init establishes the invariant.                                         *)
LEMMA InitInv == Init => Inv
<1> SUFFICES ASSUME Init PROVE Inv
  OBVIOUS
<1> USE BoundsAssumption DEF Init
<1>1. Issued = {} /\ Waiting = {}
  BY DEF Issued, Waiting
<1>2. TypeOK
  <2>1. nextId \in 1 .. MaxCalls + 1
    OBVIOUS
  <2>2. toServer \in Seq(0 .. MaxCalls) /\ fromServer \in Seq(Reply)
    OBVIOUS
  <2>3. /\ outcome \in [Call -> Outcomes]
        /\ settles \in [Call -> Nat]
        /\ result \in [Call -> 0 .. MaxCalls]
    BY DEF Outcomes
  <2> QED BY <1>1, <2>1, <2>2, <2>3 DEF TypeOK
<1>3. TablesAgree /\ SettledOnce /\ OwnAnswer /\ FutureUntouched /\ NoResultYet
  BY <1>1 DEF TablesAgree, SettledOnce, OwnAnswer, FutureUntouched, NoResultYet
<1>4. PipesHonest
  BY <1>1 DEF PipesHonest
<1> QED BY <1>2, <1>3, <1>4 DEF Inv

(* Settling waiting calls: each leaves Waiting, is counted once, and no     *)
(* other call changes.                                                      *)
LEMMA SettleWaiting ==
  ASSUME Inv, NEW C, C \subseteq Waiting, NEW how \in Outcomes \ {"none"},
         NEW re \in 0 .. MaxCalls, Settle(C, how, re), nextId' = nextId
  PROVE  /\ outcome' \in [Call -> Outcomes]
         /\ settles' \in [Call -> Nat]
         /\ result' \in [Call -> 0 .. MaxCalls]
         /\ Waiting' = Waiting \ C
         /\ SettledOnce' /\ FutureUntouched'
         /\ \A c \in Call : c \notin C => outcome'[c] = outcome[c] /\ result'[c] = result[c]
         /\ \A c \in C : outcome'[c] = how /\ result'[c] = re
<1> USE BoundsAssumption
<1>1. TypeOK /\ SettledOnce /\ FutureUntouched
  BY DEF Inv
<1>2. \A c \in C : c \in Call /\ c < nextId /\ outcome[c] = "none"
  BY <1>1 DEF Waiting, Issued, Call, TypeOK
<1>3. /\ outcome' = [c \in Call |-> IF c \in C THEN how ELSE outcome[c]]
      /\ result' = [c \in Call |-> IF c \in C THEN re ELSE result[c]]
      /\ settles' = [c \in Call |-> IF c \in C THEN settles[c] + 1 ELSE settles[c]]
  BY <1>2 DEF Settle
<1>4. /\ outcome' \in [Call -> Outcomes]
      /\ settles' \in [Call -> Nat]
      /\ result' \in [Call -> 0 .. MaxCalls]
  BY <1>1, <1>3 DEF TypeOK
<1>5. Waiting' = Waiting \ C
  <2>1. Issued' = Issued /\ Issued \subseteq Call
    BY <1>1 DEF Issued, TypeOK, Call
  <2> QED BY <2>1, <1>3 DEF Waiting
<1>6. SettledOnce'
  BY <1>1, <1>2, <1>3 DEF SettledOnce, TypeOK
<1>7. FutureUntouched'
  <2> SUFFICES ASSUME NEW c \in Call, c >= nextId PROVE outcome'[c] = "none"
    BY DEF FutureUntouched, NoResultYet
  <2>1. c \notin C
    BY <1>1, <1>2 DEF TypeOK, Call
  <2> QED BY <2>1, <1>1, <1>3 DEF FutureUntouched, NoResultYet
<1> QED BY <1>2, <1>3, <1>4, <1>5, <1>6, <1>7

(* Every action of the connection and of its environment preserves it.     *)
LEMMA NextInv == Inv /\ [Next]_vars => Inv'
<1> SUFFICES ASSUME Inv, [Next]_vars PROVE Inv'
  OBVIOUS
<1> USE BoundsAssumption
<1>0. TypeOK /\ TablesAgree /\ SettledOnce /\ OwnAnswer /\ PipesHonest /\ FutureUntouched
     /\ NoResultYet
  BY DEF Inv
<1>z. 0 \in 0 .. MaxCalls
  OBVIOUS
<1>1. CASE Request
  <2>1. CASE closed
    <3>1. /\ refused' = TRUE
          /\ UNCHANGED <<nextId, tableVars, closed, callVars, notified, toServer,
                         serverVars, child>>
      BY <1>1, <2>1 DEF Request
    <3>2. Issued' = Issued /\ Waiting' = Waiting
      BY <3>1 DEF Issued, Waiting, callVars
    <3>3. TypeOK'
      BY <1>0, <3>1, <3>2 DEF TypeOK, tableVars, callVars, serverVars
    <3>4. TablesAgree' /\ SettledOnce' /\ OwnAnswer' /\ FutureUntouched' /\ NoResultYet'
      BY <1>0, <3>1, <3>2 DEF TablesAgree, SettledOnce, OwnAnswer, FutureUntouched,
         NoResultYet, tableVars, callVars, serverVars
    <3>5. PipesHonest'
      BY <1>0, <3>1, <3>2 DEF PipesHonest, serverVars
    <3> QED BY <3>3, <3>4, <3>5 DEF Inv
  <2>2. CASE ~closed
    <3>1. /\ nextId <= MaxCalls /\ nextId' = nextId + 1 /\ nextId \in Call
          /\ pending' = pending \cup {nextId} /\ timers' = timers \cup {nextId}
          /\ toServer' = Append(toServer, nextId)
          /\ UNCHANGED <<closed, callVars, refused, notified, serverVars, child>>
      BY <1>0, <1>1, <2>2 DEF Request, TimerId, TypeOK, Call
    <3>2. Issued' = Issued \cup {nextId} /\ nextId \notin Issued
      BY <1>0, <3>1 DEF Issued, TypeOK
    <3>3. Waiting' = Waiting \cup {nextId}
      BY <1>0, <3>1, <3>2 DEF Waiting, FutureUntouched, NoResultYet, callVars, TypeOK
    <3>4. toServer' \in Seq(0 .. MaxCalls)
      BY <1>0, <3>1 DEF TypeOK
    <3>5. TypeOK'
      BY <1>0, <3>1, <3>2, <3>4 DEF TypeOK, callVars, serverVars
    <3>6. TablesAgree' /\ SettledOnce' /\ OwnAnswer' /\ FutureUntouched' /\ NoResultYet'
      BY <1>0, <3>1, <3>3 DEF TablesAgree, SettledOnce, OwnAnswer, FutureUntouched, NoResultYet,
         callVars, serverVars, TypeOK, Call
    <3>7. \A i \in 1 .. Len(toServer') : toServer'[i] < nextId'
      <4> SUFFICES ASSUME NEW i \in 1 .. Len(toServer') PROVE toServer'[i] < nextId'
        OBVIOUS
      <4>1. i = Len(toServer) + 1 \/ i \in 1 .. Len(toServer)
        BY <1>0, <3>1 DEF TypeOK
      <4>2. i \in 1 .. Len(toServer) => toServer'[i] = toServer[i] /\ toServer[i] \in Nat
        BY <1>0, <3>1 DEF TypeOK
      <4>3. i = Len(toServer) + 1 => toServer'[i] = nextId
        BY <1>0, <3>1 DEF TypeOK
      <4> QED BY <1>0, <3>1, <4>1, <4>2, <4>3 DEF TypeOK, PipesHonest
    <3>8. PipesHonest'
      BY <1>0, <3>1, <3>2, <3>7 DEF PipesHonest, serverVars
    <3> QED BY <3>5, <3>6, <3>8 DEF Inv
  <2> QED BY <2>1, <2>2
<1>2. CASE Notify
  <2>1. /\ toServer' = Append(toServer, 0) /\ notified' = notified + 1
        /\ UNCHANGED <<nextId, tableVars, closed, callVars, refused, serverVars, child>>
    BY <1>2 DEF Notify
  <2>2. Issued' = Issued /\ Waiting' = Waiting
    BY <2>1 DEF Issued, Waiting, callVars
  <2>3. toServer' \in Seq(0 .. MaxCalls) /\ notified' \in Nat
    BY <1>0, <2>1 DEF TypeOK
  <2>4. TypeOK' /\ TablesAgree' /\ SettledOnce' /\ OwnAnswer' /\ FutureUntouched' /\ NoResultYet'
    BY <1>0, <2>1, <2>2, <2>3 DEF TypeOK, TablesAgree, SettledOnce, OwnAnswer,
       FutureUntouched, NoResultYet, tableVars, callVars, serverVars
  <2>5. \A i \in 1 .. Len(toServer') : toServer'[i] < nextId'
    <3> SUFFICES ASSUME NEW i \in 1 .. Len(toServer') PROVE toServer'[i] < nextId'
      OBVIOUS
    <3>1. i = Len(toServer) + 1 \/ i \in 1 .. Len(toServer)
      BY <1>0, <2>1 DEF TypeOK
    <3>2. CASE i \in 1 .. Len(toServer)
      BY <1>0, <2>1, <3>2 DEF TypeOK, PipesHonest
    <3>3. CASE i = Len(toServer) + 1
      BY <1>0, <2>1, <3>3 DEF TypeOK
    <3> QED BY <3>1, <3>2, <3>3
  <2>6. PipesHonest'
    BY <1>0, <2>1, <2>2, <2>5 DEF PipesHonest, serverVars
  <2> QED BY <2>4, <2>6 DEF Inv
<1>3. CASE Close
  BY <1>0, <1>3 DEF Close, Inv, TypeOK, TablesAgree, SettledOnce, OwnAnswer, PipesHonest,
     FutureUntouched, NoResultYet, Waiting, Issued, tableVars, callVars, serverVars
<1>4. CASE ServerRead
  <2>1. /\ toServer # <<>> /\ toServer' = Tail(toServer)
        /\ serverGot' = serverGot \cup ({Head(toServer)} \ {0})
        /\ UNCHANGED <<nextId, tableVars, closed, callVars, refused, notified,
                       fromServer, replies, served, child>>
    BY <1>4 DEF ServerRead
  <2>2. Issued' = Issued /\ Waiting' = Waiting
    BY <2>1 DEF Issued, Waiting, callVars
  <2>3. /\ Len(toServer) \in Nat \ {0} /\ Head(toServer) = toServer[1]
        /\ toServer[1] \in 0 .. MaxCalls /\ toServer[1] < nextId
    <3>1. toServer \in Seq(0 .. MaxCalls)
      BY <1>0 DEF TypeOK
    <3>2. Len(toServer) \in Nat \ {0} /\ Head(toServer) = toServer[1]
      BY <2>1, <3>1
    <3>3. 1 \in 1 .. Len(toServer)
      BY <3>2
    <3>4. toServer[1] \in 0 .. MaxCalls
      BY <3>1, <3>3, ElementOfSeq
    <3> QED BY <1>0, <3>2, <3>3, <3>4 DEF PipesHonest
  <2>4. {Head(toServer)} \ {0} \subseteq Issued /\ {Head(toServer)} \ {0} \subseteq Call
    BY <1>0, <2>3 DEF Issued, Call, TypeOK
  <2>5. toServer' \in Seq(0 .. MaxCalls)
    BY <1>0, <2>1, HeadTailProperties DEF TypeOK
  <2>6. \A i \in 1 .. Len(toServer') : toServer'[i] < nextId'
    <3>1. /\ Len(toServer') = Len(toServer) - 1
          /\ \A i \in 1 .. Len(toServer') : toServer'[i] = toServer[i + 1]
      BY <1>0, <2>1, HeadTailProperties DEF TypeOK
    <3> QED BY <1>0, <2>1, <2>3, <3>1 DEF PipesHonest
  <2>7. TypeOK' /\ TablesAgree' /\ SettledOnce' /\ OwnAnswer' /\ FutureUntouched' /\ NoResultYet'
    BY <1>0, <2>1, <2>2, <2>4, <2>5 DEF TypeOK, TablesAgree, SettledOnce, OwnAnswer,
       FutureUntouched, NoResultYet, tableVars, callVars
  <2>8. PipesHonest'
    BY <1>0, <2>1, <2>2, <2>4, <2>6 DEF PipesHonest
  <2> QED BY <2>7, <2>8 DEF Inv
<1>5. CASE ServerWrite
  <2>1. PICK m \in Reply :
          /\ m.kind = "integer" => m.re = m.id /\ m.id \in serverGot
          /\ fromServer' = Append(fromServer, m)
          /\ served' = served \cup ({m.re} \ {0})
    BY <1>5 DEF ServerWrite
  <2>2. /\ replies' = replies + 1
        /\ UNCHANGED <<nextId, tableVars, closed, callVars, refused, notified,
                       toServer, serverGot, child>>
    BY <1>5 DEF ServerWrite
  <2>3. Issued' = Issued /\ Waiting' = Waiting
    BY <2>2 DEF Issued, Waiting, callVars
  <2>4. /\ m.kind # "integer" => m.re = 0
        /\ m.kind = "integer" => m.re \in Issued /\ m.id = m.re
        /\ m.id \in Call /\ 0 \notin Call
    <3>1. CASE m \in [kind : {"integer"}, id : Call, re : Call]
      BY <1>0, <2>1, <3>1 DEF PipesHonest, Call
    <3>2. CASE m \in [kind : {"other"}, id : Call, re : {0}]
      BY <3>2 DEF Call
    <3> QED BY <3>1, <3>2 DEF Reply
  <2>5. {m.re} \ {0} \subseteq Issued /\ Issued \subseteq Call
    <3>2. Issued \subseteq Call
      BY <1>0 DEF TypeOK, Issued, Call
    <3> QED BY <2>4, <3>2
  <2>6. fromServer' \in Seq(Reply)
    BY <1>0, <2>1 DEF TypeOK
  <2>7. \A i \in 1 .. Len(fromServer') :
          fromServer'[i].kind = "integer"
            => fromServer'[i].re = fromServer'[i].id /\ fromServer'[i].id \in served'
    <3> SUFFICES ASSUME NEW i \in 1 .. Len(fromServer'), fromServer'[i].kind = "integer"
                 PROVE  /\ fromServer'[i].re = fromServer'[i].id
                        /\ fromServer'[i].id \in served'
      OBVIOUS
    <3>1. i = Len(fromServer) + 1 \/ i \in 1 .. Len(fromServer)
      BY <1>0, <2>1 DEF TypeOK
    <3>2. CASE i \in 1 .. Len(fromServer)
      <4>1. fromServer'[i] = fromServer[i]
        BY <1>0, <2>1, <3>2 DEF TypeOK
      <4> QED BY <1>0, <2>1, <3>2, <4>1 DEF PipesHonest
    <3>3. CASE i = Len(fromServer) + 1
      <4>1. fromServer'[i] = m
        BY <1>0, <2>1, <3>3 DEF TypeOK
      <4> QED BY <2>1, <2>4, <4>1
    <3> QED BY <3>1, <3>2, <3>3
  <2>8. TypeOK' /\ TablesAgree' /\ SettledOnce' /\ OwnAnswer' /\ FutureUntouched' /\ NoResultYet'
    BY <1>0, <2>1, <2>2, <2>3, <2>5, <2>6 DEF TypeOK, TablesAgree, SettledOnce, OwnAnswer,
       FutureUntouched, NoResultYet, tableVars, callVars
  <2>9. PipesHonest'
    BY <1>0, <2>1, <2>2, <2>3, <2>5, <2>7 DEF PipesHonest
  <2> QED BY <2>8, <2>9 DEF Inv
<1>6. CASE ServerGone
  BY <1>0, <1>6 DEF ServerGone, Inv, TypeOK, TablesAgree, SettledOnce, OwnAnswer, PipesHonest,
     FutureUntouched, NoResultYet, Waiting, Issued, tableVars, callVars, serverVars
<1>7. CASE StdoutData
  <2> DEFINE m == Head(fromServer)
  <2>1. /\ fromServer # <<>> /\ fromServer' = Tail(fromServer)
        /\ UNCHANGED <<nextId, closed, refused, notified, toServer, serverGot,
                       replies, served, child>>
    BY <1>7 DEF StdoutData
  <2>2. /\ fromServer' \in Seq(Reply) /\ Len(fromServer) \in Nat \ {0}
        /\ m = fromServer[1] /\ m \in Reply
        /\ Len(fromServer') = Len(fromServer) - 1
        /\ \A i \in 1 .. Len(fromServer') : fromServer'[i] = fromServer[i + 1]
    BY <1>0, <2>1, HeadTailProperties DEF TypeOK
  <2>3. PipesHonest'
    <3>1. Issued' = Issued
      BY <2>1 DEF Issued
    <3> QED BY <1>0, <2>1, <2>2, <3>1 DEF PipesHonest
  <2>4. CASE ~Matches(m)
    <3>1. UNCHANGED <<tableVars, callVars>>
      BY <1>7, <2>4 DEF StdoutData
    <3>2. Issued' = Issued /\ Waiting' = Waiting
      BY <2>1, <3>1 DEF Issued, Waiting, callVars
    <3>3. TypeOK' /\ TablesAgree' /\ SettledOnce' /\ OwnAnswer' /\ FutureUntouched' /\ NoResultYet'
      BY <1>0, <2>1, <2>2, <3>1, <3>2 DEF TypeOK, TablesAgree, SettledOnce, OwnAnswer,
         FutureUntouched, NoResultYet, tableVars, callVars
    <3> QED BY <2>3, <3>3 DEF Inv
  <2>5. CASE Matches(m)
    <3>1. /\ pending' = pending \ {m.id} /\ timers' = timers \ {m.id}
          /\ Settle({m.id}, "result", m.re)
      BY <1>7, <2>5 DEF StdoutData
    <3>2. /\ m.id \in Waiting /\ m.id \in Call /\ m.re = m.id /\ m.id \in served
      <4>1. m.kind = "integer" /\ m.id \in Waiting
        BY <1>0, <2>5 DEF Matches, TablesAgree
      <4>2. m.id \in Call
        BY <2>2 DEF Reply
      <4>3. 1 \in 1 .. Len(fromServer)
        BY <2>2
      <4> QED BY <1>0, <2>2, <4>1, <4>2, <4>3 DEF PipesHonest
    <3>3. {m.id} \subseteq Waiting /\ m.re \in 0 .. MaxCalls
          /\ "result" \in Outcomes \ {"none"}
      BY <3>2 DEF Call, Outcomes
    <3>4. /\ outcome' \in [Call -> Outcomes] /\ settles' \in [Call -> Nat]
          /\ result' \in [Call -> 0 .. MaxCalls]
          /\ Waiting' = Waiting \ {m.id} /\ SettledOnce' /\ FutureUntouched'
          /\ \A c \in Call : c # m.id => outcome'[c] = outcome[c] /\ result'[c] = result[c]
          /\ outcome'[m.id] = "result" /\ result'[m.id] = m.re
      <4>1. /\ outcome' \in [Call -> Outcomes] /\ settles' \in [Call -> Nat]
            /\ result' \in [Call -> 0 .. MaxCalls]
            /\ Waiting' = Waiting \ {m.id} /\ SettledOnce' /\ FutureUntouched'
            /\ \A c \in Call : c \notin {m.id} =>
                                 outcome'[c] = outcome[c] /\ result'[c] = result[c]
            /\ \A c \in {m.id} : outcome'[c] = "result" /\ result'[c] = m.re
        BY ZenonT(40), <2>1, <3>1, <3>3, SettleWaiting
      <4> QED BY <4>1
    <3>5. TypeOK'
      BY <1>0, <2>1, <2>2, <3>1, <3>4 DEF TypeOK, Issued
    <3>6. TablesAgree'
      BY <1>0, <3>1, <3>4 DEF TablesAgree
    <3>7. OwnAnswer' /\ NoResultYet'
      BY <1>0, <2>1, <3>2, <3>4 DEF OwnAnswer, NoResultYet
    <3> QED BY <2>3, <3>4, <3>5, <3>6, <3>7 DEF Inv
  <2> QED BY <2>4, <2>5
<1>8. ASSUME NEW how \in {"server exited", "spawn error"}, FailAll(how) PROVE Inv'
  <2>1. /\ closed' = TRUE /\ Settle(pending, how, 0) /\ timers' = timers \ pending
        /\ pending' = {} /\ child' = "over"
        /\ UNCHANGED <<nextId, refused, notified, toServer, serverVars>>
    BY <1>8 DEF FailAll, Cleared
  <2>2. pending \subseteq Waiting /\ how \in Outcomes \ {"none"} /\ 0 \in 0 .. MaxCalls
    <3>1. pending \subseteq Waiting
      BY <1>0 DEF TablesAgree
    <3>2. how \in Outcomes \ {"none"}
      BY DEF Outcomes
    <3>3. 0 \in 0 .. MaxCalls
      BY <1>z
    <3> QED BY <3>1, <3>2, <3>3
  <2>3. /\ outcome' \in [Call -> Outcomes] /\ settles' \in [Call -> Nat]
        /\ result' \in [Call -> 0 .. MaxCalls]
        /\ Waiting' = Waiting \ pending /\ SettledOnce' /\ FutureUntouched'
        /\ \A c \in Call : c \notin pending =>
                             outcome'[c] = outcome[c] /\ result'[c] = result[c]
        /\ \A c \in pending : outcome'[c] = how /\ result'[c] = 0
    BY <2>1, <2>2, SettleWaiting
  <2>4. TypeOK'
    BY <1>0, <2>1, <2>3 DEF TypeOK, Issued, serverVars
  <2>5. TablesAgree'
    BY <1>0, <2>1, <2>3 DEF TablesAgree
  <2>6. OwnAnswer' /\ NoResultYet'
    BY <1>0, <2>1, <2>3 DEF OwnAnswer, NoResultYet, serverVars
  <2>7. PipesHonest'
    BY <1>0, <2>1 DEF PipesHonest, Issued, serverVars
  <2> QED BY <2>3, <2>4, <2>5, <2>6, <2>7 DEF Inv
<1>9. ASSUME NEW c \in Call, Timeout(c) PROVE Inv'
  <2>1. /\ c \in timers /\ timers' = timers \ {c} /\ pending' = pending \ {c}
        /\ Settle({c}, "timeout", 0)
        /\ UNCHANGED <<nextId, closed, refused, notified, toServer, serverVars, child>>
    BY <1>9 DEF Timeout, ForgetTimedOut
  <2>2. {c} \subseteq Waiting /\ "timeout" \in Outcomes \ {"none"} /\ 0 \in 0 .. MaxCalls
    BY <1>0, <1>z, <2>1 DEF TablesAgree, Outcomes
  <2>3. /\ outcome' \in [Call -> Outcomes] /\ settles' \in [Call -> Nat]
        /\ result' \in [Call -> 0 .. MaxCalls]
        /\ Waiting' = Waiting \ {c} /\ SettledOnce' /\ FutureUntouched'
        /\ \A d \in Call : d # c => outcome'[d] = outcome[d] /\ result'[d] = result[d]
        /\ outcome'[c] = "timeout" /\ result'[c] = 0
    <3>1. /\ outcome' \in [Call -> Outcomes] /\ settles' \in [Call -> Nat]
          /\ result' \in [Call -> 0 .. MaxCalls]
          /\ Waiting' = Waiting \ {c} /\ SettledOnce' /\ FutureUntouched'
          /\ \A d \in Call : d \notin {c} =>
                               outcome'[d] = outcome[d] /\ result'[d] = result[d]
          /\ \A d \in {c} : outcome'[d] = "timeout" /\ result'[d] = 0
      <4> DEFINE C == {c}
      <4>1. /\ C \subseteq Waiting /\ Settle(C, "timeout", 0) /\ nextId' = nextId
            /\ "timeout" \in Outcomes \ {"none"}
        BY <2>1, <2>2
      <4>2. Inv /\ 0 \in 0 .. MaxCalls
        BY <1>z
      <4> HIDE DEF C
      <4>3. /\ outcome' \in [Call -> Outcomes] /\ settles' \in [Call -> Nat]
            /\ result' \in [Call -> 0 .. MaxCalls]
            /\ Waiting' = Waiting \ C /\ SettledOnce' /\ FutureUntouched'
            /\ \A d \in Call : d \notin C =>
                                 outcome'[d] = outcome[d] /\ result'[d] = result[d]
            /\ \A d \in C : outcome'[d] = "timeout" /\ result'[d] = 0
        BY <4>1, <4>2, SettleWaiting
      <4> QED BY <4>3 DEF C
    <3> QED BY <3>1
  <2>4. TypeOK'
    BY <1>0, <2>1, <2>3 DEF TypeOK, Issued, serverVars
  <2>5. TablesAgree'
    BY <1>0, <2>1, <2>3 DEF TablesAgree
  <2>6. OwnAnswer' /\ NoResultYet'
    BY <1>0, <2>1, <2>3 DEF OwnAnswer, NoResultYet, serverVars
  <2>7. PipesHonest'
    BY <1>0, <2>1 DEF PipesHonest, Issued, serverVars
  <2> QED BY <2>3, <2>4, <2>5, <2>6, <2>7 DEF Inv
<1>10. CASE UNCHANGED vars
  BY <1>0, <1>10 DEF vars, Inv, TypeOK, TablesAgree, SettledOnce, OwnAnswer, PipesHonest,
     FutureUntouched, NoResultYet, Waiting, Issued, tableVars, callVars, serverVars
<1> QED
  BY <1>1, <1>2, <1>3, <1>4, <1>5, <1>6, <1>7, <1>8, <1>9, <1>10
  DEF Next, ExitEvent, ErrorEvent, Done

-----------------------------------------------------------------------------
(* Whatever the bounds, the invariant holds in every reachable state.       *)
THEOREM Invariance == Spec => []Inv
  BY InitInv, NextInv, PTL DEF Spec

(* Every variable keeps its type.                                           *)
THEOREM TypeCorrect == Spec => []TypeOK
  BY Invariance, PTL DEF Inv

(* The waiters, the timers and the unsettled promises stay the same set.    *)
THEOREM TablesAlwaysAgree == Spec => []TablesAgree
  BY Invariance, PTL DEF Inv

(* No promise is settled twice, whatever races with whatever.               *)
THEOREM NeverSettledTwice == Spec => []SettledOnce
  BY Invariance, PTL DEF Inv

(* No call is given another call's answer.                                  *)
THEOREM AnswersAreOwn == Spec => []OwnAnswer
  BY Invariance, PTL DEF Inv

-----------------------------------------------------------------------------
(* Refinement.  The state of a call, as Calls sees it, depends on nextId    *)
(* and on the call's outcome alone.                                         *)
States == [c \in Call |-> CallState(c)]

LEMMA InitRefines == Init => Abstract!Init
<1> SUFFICES ASSUME Init PROVE Abstract!Init
  OBVIOUS
<1>1. \A c \in Call : CallState(c) = "unissued"
  BY BoundsAssumption DEF Init, CallState, Call
<1> QED BY <1>1 DEF Init, Abstract!Init

LEMMA SameStates ==
  ASSUME UNCHANGED <<nextId, callVars, served>>
  PROVE  UNCHANGED Abstract!vars
<1>1. \A c \in Call : CallState(c)' = CallState(c)
  BY DEF CallState, callVars
<1>2. States' = States
  BY <1>1 DEF States
<1> QED BY <1>2 DEF Abstract!vars, States, callVars

(* One call changes state and no other does.                                *)
LEMMA OneChanges ==
  ASSUME NEW d \in Call, NEW v, CallState(d)' = v,
         \A c \in Call : c # d => CallState(c)' = CallState(c)
  PROVE  States' = [States EXCEPT ![d] = v]
<1>1. States' = [c \in Call |-> CallState(c)']
  BY DEF States
<1>2. \A c \in Call : CallState(c)' = IF c = d THEN v ELSE CallState(c)
  OBVIOUS
<1>3. States' = [c \in Call |-> IF c = d THEN v ELSE CallState(c)]
  BY <1>1, <1>2
<1>4. [States EXCEPT ![d] = v] = [c \in Call |-> IF c = d THEN v ELSE States[c]]
  BY DEF States
<1>5. \A c \in Call : States[c] = CallState(c)
  BY DEF States
<1> QED BY <1>3, <1>4, <1>5

(* What CallState says of the calls that wait.                              *)
LEMMA WaitingState ==
  ASSUME TypeOK
  PROVE  \A c \in Waiting : /\ c \in Call /\ c < nextId /\ c \in Int
                            /\ ~(c >= nextId) /\ outcome[c] = "none"
                            /\ CallState(c) = "waiting"
<1>1. nextId \in Int /\ nextId <= MaxCalls + 1 /\ MaxCalls \in Nat
  BY BoundsAssumption DEF TypeOK
<1> SUFFICES ASSUME NEW c \in Waiting
             PROVE  /\ c \in Call /\ c < nextId /\ c \in Int
                    /\ ~(c >= nextId) /\ outcome[c] = "none" /\ CallState(c) = "waiting"
  OBVIOUS
<1>2. c \in 1 .. nextId - 1 /\ outcome[c] = "none"
  BY DEF Waiting, Issued
<1>3. c \in Call /\ c < nextId /\ c \in Int /\ ~(c >= nextId)
  BY <1>1, <1>2 DEF Call
<1> QED BY <1>2, <1>3 DEF CallState

(* Failing a set of waiting calls is a Fail step.                           *)
LEMMA FailRefines ==
  ASSUME Inv, NEW C, C # {}, C \subseteq Waiting, NEW how, how # "none", how # "result",
         Settle(C, how, 0), nextId' = nextId, served' = served
  PROVE  Abstract!Next
<1>0. TypeOK /\ NoResultYet
  BY DEF Inv
<1>1. \A c \in C : /\ c \in Call /\ ~(c >= nextId) /\ outcome[c] = "none"
                   /\ CallState(c) = "waiting"
  BY <1>0, WaitingState
<1>2. \A c \in Call : outcome'[c] = IF c \in C THEN how ELSE outcome[c]
  BY <1>1 DEF Settle
<1>3. result' = result
  <2>1. result' = [c \in Call |-> IF c \in C /\ outcome[c] = "none" THEN 0 ELSE result[c]]
    BY DEF Settle
  <2>2. result = [c \in Call |-> result[c]]
    BY <1>0 DEF TypeOK
  <2>3. \A c \in C : result[c] = 0
    BY <1>0, <1>1 DEF NoResultYet
  <2> QED BY <2>1, <2>2, <2>3
<1>4. \A c \in Call : CallState(c)' = IF c \in C THEN "failed" ELSE CallState(c)
  <2> SUFFICES ASSUME NEW c \in Call
               PROVE  CallState(c)' = IF c \in C THEN "failed" ELSE CallState(c)
    OBVIOUS
  <2>1. CASE c \in C
    <3>1. ~(c >= nextId') /\ outcome'[c] = how
      BY <1>1, <1>2, <2>1
    <3> QED BY <2>1, <3>1 DEF CallState
  <2>2. CASE c \notin C
    <3>1. outcome'[c] = outcome[c]
      BY <1>2, <2>2
    <3> QED BY <2>2, <3>1 DEF CallState
  <2> QED BY <2>1, <2>2
<1>5. States' = [c \in Call |-> IF c \in C THEN "failed" ELSE States[c]]
  BY <1>4 DEF States
<1>6. \A c \in C : States[c] = "waiting"
  BY <1>1 DEF States
<1>7. Abstract!Fail(C)
  BY <1>3, <1>5, <1>6 DEF Abstract!Fail, States
<1> QED BY <1>1, <1>7 DEF Abstract!Next

(* Every step of the connection is a step of Calls or changes nothing there. *)
LEMMA NextRefines == Inv /\ [Next]_vars => [Abstract!Next]_(Abstract!vars)
<1> SUFFICES ASSUME Inv, [Next]_vars PROVE [Abstract!Next]_(Abstract!vars)
  OBVIOUS
<1> USE BoundsAssumption
<1>0. TypeOK /\ TablesAgree /\ PipesHonest /\ FutureUntouched
  BY DEF Inv
<1>n. nextId \in Int /\ nextId >= 1 /\ \A c \in Call : c \in Int
  BY <1>0 DEF TypeOK, Call
<1>1. CASE Request
  <2>1. CASE closed
    BY <1>1, <2>1, SameStates DEF Request, serverVars
  <2>2. CASE ~closed
    <3>1. /\ nextId \in Call /\ nextId' = nextId + 1
          /\ UNCHANGED <<callVars, serverVars>>
      BY <1>0, <1>1, <2>2 DEF Request, TypeOK, Call
    <3>2. PICK n \in Call : n = nextId
      BY <3>1
    <3>3. /\ outcome' = outcome /\ outcome[n] = "none"
          /\ n >= nextId /\ ~(n >= nextId')
      BY <1>0, <1>n, <3>1, <3>2 DEF FutureUntouched, callVars
    <3>4. CallState(n) = "unissued" /\ CallState(n)' = "waiting"
      BY <3>3 DEF CallState
    <3>5. \A c \in Call : c # n => CallState(c)' = CallState(c)
      BY <1>0, <3>1, <3>2 DEF CallState, TypeOK, callVars, Call
    <3>6. \A c \in Call : c < n => CallState(c) # "unissued"
      BY <1>n, <3>2 DEF CallState
    <3>7. States' = [States EXCEPT ![n] = "waiting"]
      BY <3>4, <3>5, OneChanges
    <3>8. Abstract!Issue(n)
      BY <3>1, <3>4, <3>6, <3>7 DEF Abstract!Issue, States, callVars, serverVars
    <3> QED BY <3>8 DEF Abstract!Next
  <2> QED BY <2>1, <2>2
<1>2. CASE Notify
  BY <1>2, SameStates DEF Notify, serverVars
<1>3. CASE Close
  BY <1>3, SameStates DEF Close, serverVars
<1>4. CASE ServerRead
  BY <1>4, SameStates DEF ServerRead
<1>5. CASE ServerWrite
  <2>1. PICK m \in Reply :
          /\ m.kind = "integer" => m.re = m.id /\ m.id \in serverGot
          /\ served' = served \cup ({m.re} \ {0})
    BY <1>5 DEF ServerWrite
  <2>2. UNCHANGED <<nextId, callVars>>
    BY <1>5 DEF ServerWrite
  <2>3. CASE m \in [kind : {"other"}, id : Call, re : {0}]
    BY <2>1, <2>2, <2>3, SameStates
  <2>4. CASE m \in [kind : {"integer"}, id : Call, re : Call]
    <3>1. /\ m.id \in Call /\ m.re = m.id /\ m.id < nextId
          /\ served' = served \cup {m.id}
      BY SMTT(30), <1>0, <2>1, <2>4 DEF PipesHonest, Issued, Call, TypeOK
    <3>2. CallState(m.id) # "unissued"
      BY <1>n, <3>1 DEF CallState
    <3>3. \A c \in Call : CallState(c)' = CallState(c)
      BY <2>2 DEF CallState, callVars
    <3>4. States' = States
      BY <3>3 DEF States
    <3>5. Abstract!Serve(m.id)
      BY <2>2, <3>1, <3>2, <3>4 DEF Abstract!Serve, States, callVars
    <3> QED BY <3>1, <3>5 DEF Abstract!Next
  <2> QED BY <2>3, <2>4 DEF Reply
<1>6. CASE ServerGone
  BY <1>6, SameStates DEF ServerGone, serverVars
<1>7. CASE StdoutData
  <2> DEFINE m == Head(fromServer)
  <2>1. CASE ~Matches(m)
    BY <1>7, <2>1, SameStates DEF StdoutData
  <2>2. CASE Matches(m)
    <3>1. /\ Settle({m.id}, "result", m.re) /\ nextId' = nextId /\ served' = served
      BY <1>7, <2>2 DEF StdoutData
    <3>2. m.kind = "integer" /\ m.id \in Waiting
      BY <1>0, <2>2 DEF Matches, TablesAgree
    <3>3. fromServer # <<>> /\ 1 \in 1 .. Len(fromServer) /\ m = fromServer[1]
      BY <1>0, <1>7 DEF StdoutData, TypeOK
    <3>4. m.re = m.id /\ m.id \in served
      BY <1>0, <3>2, <3>3 DEF PipesHonest
    <3>5. /\ m.id \in Call /\ ~(m.id >= nextId) /\ outcome[m.id] = "none"
          /\ CallState(m.id) = "waiting"
      BY <1>0, <3>2, WaitingState
    <3>6. /\ outcome'[m.id] = "result"
          /\ \A c \in Call : c # m.id => outcome'[c] = outcome[c]
          /\ result' = [result EXCEPT ![m.id] = m.id]
      BY <1>0, <3>1, <3>4, <3>5 DEF Settle, TypeOK
    <3>7. PICK d \in Call : d = m.id
      BY <3>5
    <3>8. CallState(d) = "waiting" /\ CallState(d)' = "answered"
      <4>1. outcome'[d] = "result" /\ ~(d >= nextId')
        BY <3>1, <3>5, <3>6, <3>7
      <4> QED BY <3>5, <3>7, <4>1 DEF CallState
    <3>9. \A c \in Call : c # d => CallState(c)' = CallState(c)
      BY <3>1, <3>6, <3>7 DEF CallState
    <3>10. States' = [States EXCEPT ![d] = "answered"]
      BY <3>8, <3>9, OneChanges
    <3>11. Abstract!Answer(d)
      BY <3>1, <3>4, <3>6, <3>7, <3>8, <3>10 DEF Abstract!Answer, States
    <3> QED BY <3>11 DEF Abstract!Next
  <2> QED BY <2>1, <2>2
<1>8. ASSUME NEW how, how # "none", how # "result", FailAll(how)
      PROVE  [Abstract!Next]_(Abstract!vars)
  <2>1. /\ Settle(pending, how, 0) /\ nextId' = nextId /\ served' = served
        /\ pending \subseteq Waiting
    BY <1>0, <1>8 DEF FailAll, serverVars, TablesAgree
  <2>2. CASE pending = {}
    <3>1. outcome' = outcome /\ result' = result
      BY <1>0, <2>1, <2>2 DEF Settle, TypeOK
    <3>2. \A c \in Call : CallState(c)' = CallState(c)
      BY <2>1, <3>1 DEF CallState
    <3>3. States' = States
      BY <3>2 DEF States
    <3> QED BY <2>1, <3>1, <3>3 DEF Abstract!vars, States
  <2>3. CASE pending # {}
    BY <1>8, <2>1, <2>3, FailRefines
  <2> QED BY <2>2, <2>3
<1>9. ASSUME NEW c \in Call, Timeout(c) PROVE Abstract!Next
  <2> DEFINE C == {c}
  <2>1. /\ Settle(C, "timeout", 0) /\ nextId' = nextId /\ served' = served
        /\ C # {} /\ C \subseteq Waiting
    BY <1>0, <1>9 DEF Timeout, serverVars, TablesAgree
  <2> HIDE DEF C
  <2> QED BY <2>1, FailRefines
<1>10. CASE UNCHANGED vars
  BY <1>10, SameStates DEF vars, serverVars
<1>11. CASE ExitEvent
  BY <1>8, <1>11 DEF ExitEvent
<1>12. CASE ErrorEvent
  BY <1>8, <1>12 DEF ErrorEvent
<1> QED
  BY <1>1, <1>2, <1>3, <1>4, <1>5, <1>6, <1>7, <1>9, <1>10, <1>11, <1>12 DEF Next, Done

(* For every number of calls the connection implements Calls: a call is     *)
(* settled at most once, with the server's answer to it or with a failure.  *)
THEOREM Refinement == Spec => Abstract!Spec
  BY Invariance, InitRefines, NextRefines, PTL DEF Spec, Abstract!Spec
=============================================================================
