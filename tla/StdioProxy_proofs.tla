------------------------- MODULE StdioProxy_proofs --------------------------
(***************************************************************************)
(* StdioProxy for any ids, codes, signals and bounds: its types, that the  *)
(* wire is intact in both directions, that each direction implements a     *)
(* plain pipe (Wire), and what the observer remembers of a session: the    *)
(* log file, the order of its lines, the correlator's map, the orphan      *)
(* notes and the cassette.                                                 *)
(*                                                                         *)
(* TypeOK is inductive by itself.  WireIntact is inductive given TypeOK:   *)
(* every handler either appends at one end of a direction or moves the     *)
(* head of one segment to the end of the segment before it (MoveHead).     *)
(* The refinement needs both: a message is delivered in its turn because   *)
(* the first one in transit is the first the receiver does not have.       *)
(*                                                                         *)
(* LogInv, HistoryInv and PendingInv hold of every session; SessionInv, on *)
(* which the orphan notes and the cassette rest, of those whose client     *)
(* does not reuse keys (String(id) tells its requests apart).              *)
(***************************************************************************)
EXTENDS StdioProxy, SequenceLemmas, FiniteSetTheorems

-----------------------------------------------------------------------------
(* Types of what the handlers compute.                                      *)

EventTypes == {"c2s", "s2c", "server_stderr", "orphan-request",
               "server-exit", "spawn-error", "c2s-error", "s2c-error"}

LEMMA EvType == \A t \in EventTypes, n \in Int : /\ Ev(t, n) \in LogEvent
                                                 /\ <<Ev(t, n)>> \in Seq(LogEvent)
<1> SUFFICES ASSUME NEW t \in EventTypes, NEW n \in Int PROVE Ev(t, n) \in LogEvent
  OBVIOUS
<1> QED BY DEF Ev, LogEvent, EventTypes

LEMMA LogWriteType ==
  ASSUME NEW evs \in Seq(LogEvent), LogWrite(evs),
         events \in Seq(LogEvent), inflight \in Seq(LogEvent), queue \in Seq(LogEvent)
  PROVE  events' \in Seq(LogEvent) /\ inflight' \in Seq(LogEvent) /\ queue' \in Seq(LogEvent)
<1>1. events' \in Seq(LogEvent)
  BY ConcatProperties DEF LogWrite
<1>2. CASE evs = <<>> \/ logState = "failed"
  BY <1>1, <1>2 DEF LogWrite
<1>3. CASE evs # <<>> /\ logState # "failed"
  <2>1. Head(evs) \in LogEvent /\ Tail(evs) \in Seq(LogEvent) /\ queue \o evs \in Seq(LogEvent)
    BY <1>3, HeadTailProperties, ConcatProperties
  <2>2. <<Head(evs)>> \in Seq(LogEvent)
    BY <2>1
  <2> QED BY <1>1, <1>3, <2>1, <2>2 DEF LogWrite
<1> QED BY <1>2, <1>3

(* The orphan notes are finitely many, whatever the keys.                    *)
LEMMA OrphanEventsType ==
  ASSUME pending \in [Keys -> 0 .. MaxClient], NEW orphans \in OrphanEvents
  PROVE  orphans \in Seq(LogEvent)
<1> DEFINE N == {pending[k] : k \in Keys} \ {0}
           E == {Ev("orphan-request", n) : n \in N}
           f == [n \in N |-> Ev("orphan-request", n)]
<1>1. IsFiniteSet(N)
  <2>1. IsFiniteSet(1 .. MaxClient)
    BY BoundsAssumption, FS_Interval
  <2>2. N \in SUBSET (1 .. MaxClient)
    BY BoundsAssumption
  <2> QED BY <2>1, <2>2, FS_Subset
<1>2. E \subseteq LogEvent
  <2>1. \A n \in N : n \in Int
    BY BoundsAssumption
  <2> QED BY <2>1, EvType DEF EventTypes
<1>3. f \in Surjection(N, E)
  BY DEF Surjection
<1> HIDE DEF N, E, f
<1>4. Cardinality(E) \in Nat
  BY <1>1, <1>3, FS_Surjection, FS_CardinalityType
<1>5. orphans \in [1 .. Cardinality(E) -> E]
  BY DEF OrphanEvents, SetToSeqs, E, N
<1>6. orphans \in Seq(E)
  BY <1>4, <1>5, SeqDef
<1> QED BY <1>2, <1>6, SeqMonotonic

(* What the messages carry is within the bounds.                            *)
LEMMA MsgTypes ==
  /\ \A m \in ClientMsg : /\ m.n \in Int /\ m.n \in 0 .. MaxClient
                          /\ m.type \in {"request", "response"} => m.id \in Ids
  /\ \A m \in ServerMsg : /\ m.n \in Int /\ m.n \in 1 .. MaxServer
                          /\ m.type \in {"request", "response"} => m.id \in Ids
  BY BoundsAssumption DEF ClientMsg, ServerMsg

-----------------------------------------------------------------------------
(* TypeOK.                                                                  *)
LEMMA InitType == Init => TypeOK
<1> SUFFICES ASSUME Init PROVE TypeOK
  OBVIOUS
<1>1. \A S : <<>> \in Seq(S)
  OBVIOUS
<1>2. pending \in [Keys -> 0 .. MaxClient]
  BY BoundsAssumption DEF Init
<1> QED BY <1>1, <1>2 DEF Init, TypeOK

LEMMA ChildExitType == TypeOK /\ ChildExit => TypeOK'
<1> SUFFICES ASSUME TypeOK, ChildExit PROVE TypeOK'
  OBVIOUS
<1>1. PICK orphans \in OrphanEvents : LogWrite(orphans \o <<Ev("server-exit", status)>>)
  BY DEF ChildExit
<1>2. status \in Int /\ status # Running
  BY CodesAssumption DEF TypeOK, Killed, Running, ChildExit, ChildGone
<1>3. <<Ev("server-exit", status)>> \in Seq(LogEvent)
  BY <1>2, EvType DEF EventTypes
<1>4. orphans \in Seq(LogEvent)
  BY OrphanEventsType DEF TypeOK
<1> DEFINE evs == orphans \o <<Ev("server-exit", status)>>
<1>5. evs \in Seq(LogEvent)
  BY <1>3, <1>4, ConcatProperties
<1> HIDE DEF evs
<1>6. events' \in Seq(LogEvent) /\ inflight' \in Seq(LogEvent) /\ queue' \in Seq(LogEvent)
  <2>1. LogWrite(evs)
    BY <1>1 DEF evs
  <2> QED BY <1>5, <2>1, LogWriteType DEF TypeOK
<1>7. proxy' = "exited" /\ exitCode' = ResolvedCode(status) /\ disk' \in Seq(LogEvent)
  <2>1. disk \o inflight' \in Seq(LogEvent)
    BY <1>6, ConcatProperties DEF TypeOK
  <2>2. ProcessExit(ResolvedCode(status), inflight')
    BY DEF ChildExit
  <2> QED BY <2>1, <2>2 DEF ProcessExit, TypeOK
<1>8. exitCode' \in ExitCodes \cup {Running, 0, 1, 127}
  BY <1>2, <1>7 DEF ResolvedCode, TypeOK
<1>9. cassetteFile' \in Seq(Pair) /\ written' \in BOOLEAN
  BY DEF ChildExit, SaveCassette, TypeOK
<1>10. UNCHANGED <<mode, spawned, clientVars, serverVars, wireVars, errPipe, obsVars,
                   logState, signalVars>>
  BY DEF ChildExit
<1> QED BY SMTT(30), <1>6, <1>7, <1>8, <1>9, <1>10
        DEF TypeOK, clientVars, serverVars, wireVars, obsVars, signalVars

LEMMA SpawnErrorType == TypeOK /\ SpawnError => TypeOK'
<1> SUFFICES ASSUME TypeOK, SpawnError PROVE TypeOK'
  OBVIOUS
<1>1. <<Ev("spawn-error", 0)>> \in Seq(LogEvent)
  BY EvType DEF EventTypes
<1>2. LogWrite(<<Ev("spawn-error", 0)>>)
  BY DEF SpawnError
<1>3. events' \in Seq(LogEvent) /\ inflight' \in Seq(LogEvent) /\ queue' \in Seq(LogEvent)
  BY <1>1, <1>2, LogWriteType DEF TypeOK
<1>4. proxy' = "exited" /\ exitCode' = 127 /\ disk' \in Seq(LogEvent)
  <2>1. disk \o inflight' \in Seq(LogEvent)
    BY <1>3, ConcatProperties DEF TypeOK
  <2>2. ProcessExit(127, inflight')
    BY DEF SpawnError
  <2> QED BY <2>1, <2>2 DEF ProcessExit, TypeOK
<1>5. cassetteFile' \in Seq(Pair) /\ written' \in BOOLEAN
  BY DEF SpawnError, SaveCassette, TypeOK
<1>6. UNCHANGED <<mode, spawned, clientVars, serverVars, wireVars, errPipe, obsVars,
                  logState, signalVars>>
  BY DEF SpawnError
<1> QED BY <1>3, <1>4, <1>5, <1>6
        DEF TypeOK, clientVars, serverVars, wireVars, obsVars, signalVars

LEMMA StdinDataType == TypeOK /\ StdinData => TypeOK'
<1> SUFFICES ASSUME TypeOK, StdinData PROVE TypeOK'
  OBVIOUS
<1> DEFINE m == Head(toProxy)
<1>1. m \in ClientMsg /\ toProxy' \in Seq(ClientMsg) /\ toServer' \in Seq(ClientMsg)
  BY HeadTailProperties DEF StdinData, TypeOK
<1>2. ObserveClient(m)
  BY DEF StdinData
<1>3. UNCHANGED <<mode, spawned, clientSent, clientEof, serverVars, stdinEnded,
                  fromServer, clientGot, errPipe, cassette, logState, disk,
                  endVars, signalVars>>
  BY DEF StdinData
<1> HIDE DEF m
<1>4. pending' \in [Keys -> 0 .. MaxClient]
  <2>1. m.n \in 0 .. MaxClient /\ (Keyed(m) => KeyOf[m.id] \in Keys)
    BY <1>1, MsgTypes, KeyAssumption DEF Keyed
  <2> QED BY <1>2, <2>1 DEF ObserveClient, TypeOK
<1>5. events' \in Seq(LogEvent) /\ inflight' \in Seq(LogEvent) /\ queue' \in Seq(LogEvent)
  <2> DEFINE note == IF Throws(m) THEN <<Ev("c2s-error", m.n)>> ELSE <<>>
  <2>1. ClientLine(m) \in Seq(LogEvent) /\ note \in Seq(LogEvent)
    BY <1>1, MsgTypes, EvType DEF ClientLine, EventTypes
  <2>2. LogWrite(ClientLine(m) \o note)
    BY <1>2 DEF ObserveClient
  <2> HIDE DEF note
  <2>3. ClientLine(m) \o note \in Seq(LogEvent)
    BY <2>1, ConcatProperties
  <2> QED BY <2>2, <2>3, LogWriteType DEF TypeOK
<1> QED BY SMTT(30), <1>1, <1>3, <1>4, <1>5 DEF TypeOK, serverVars, endVars, signalVars

LEMMA StdoutDataType == TypeOK /\ StdoutData => TypeOK'
<1> SUFFICES ASSUME TypeOK, StdoutData PROVE TypeOK'
  OBVIOUS
<1> DEFINE m == Head(fromServer)
<1>1. m \in ServerMsg /\ fromServer' \in Seq(ServerMsg) /\ clientGot' \in Seq(ServerMsg)
  BY HeadTailProperties DEF StdoutData, Readable, ToClient, TypeOK
<1>2. ObserveServer(m)
  BY DEF StdoutData
<1>3. UNCHANGED <<mode, spawned, clientVars, serverVars, toServer, stdinEnded,
                  errPipe, logState, disk, endVars, signalVars>>
  BY DEF StdoutData
<1> HIDE DEF m
<1>4. m.n \in Int /\ m.n \in 1 .. MaxServer
  BY <1>1, MsgTypes
<1>5. /\ <<Ev("s2c", m.n)>> \in Seq(LogEvent)
      /\ <<Ev("s2c-error", m.n)>> \in Seq(LogEvent)
  BY <1>4, EvType DEF EventTypes
<1>6. /\ pending' \in [Keys -> 0 .. MaxClient] /\ cassette' \in Seq(Pair)
      /\ events' \in Seq(LogEvent) /\ inflight' \in Seq(LogEvent) /\ queue' \in Seq(LogEvent)
  <2>1. CASE ~Matched(m)
    <3> DEFINE line == IF Throws(m) THEN <<Ev("s2c-error", m.n)>> ELSE <<Ev("s2c", m.n)>>
    <3>1. LogWrite(line) /\ UNCHANGED obsVars
      BY <1>2, <2>1 DEF ObserveServer, ServerLine
    <3>2. pending' = pending /\ cassette' = cassette
      BY <3>1 DEF obsVars
    <3>3. line \in Seq(LogEvent)
      BY <1>5
    <3> HIDE DEF line
    <3>4. events' \in Seq(LogEvent) /\ inflight' \in Seq(LogEvent) /\ queue' \in Seq(LogEvent)
      BY <3>1, <3>3, LogWriteType DEF TypeOK
    <3> QED BY <3>2, <3>4 DEF TypeOK
  <2>2. CASE Matched(m)
    <3>1. AddPair(m) /\ Forget(m) /\ LogWrite(<<Ev("s2c", m.n)>>)
      BY <1>2, <2>2 DEF ObserveServer
    <3>2. KeyOf[m.id] \in Keys /\ pending[KeyOf[m.id]] \in 1 .. MaxClient
      BY SMTT(30), <1>1, <2>2, MsgTypes, KeyAssumption, BoundsAssumption DEF Matched, Keyed, TypeOK
    <3>3. pending' \in [Keys -> 0 .. MaxClient]
      BY <3>1, <3>2, BoundsAssumption DEF Forget, TypeOK
    <3>4. cassette' \in Seq(Pair)
      <4>1. [req |-> PendingOf(m), res |-> m.n] \in Pair
        BY <1>4, <3>2 DEF PendingOf, Pair
      <4> QED BY <3>1, <4>1 DEF AddPair, TypeOK
    <3>5. events' \in Seq(LogEvent) /\ inflight' \in Seq(LogEvent) /\ queue' \in Seq(LogEvent)
      BY <1>5, <3>1, LogWriteType DEF TypeOK
    <3> QED BY <3>3, <3>4, <3>5
  <2> QED BY <2>1, <2>2
<1> QED BY SMTT(30), <1>1, <1>3, <1>6 DEF TypeOK, clientVars, serverVars, endVars, signalVars

LEMMA StderrDataType == TypeOK /\ StderrData => TypeOK'
<1> SUFFICES ASSUME TypeOK, StderrData PROVE TypeOK'
  OBVIOUS
<1>1. <<Ev("server_stderr", 0)>> \in Seq(LogEvent)
  BY EvType DEF EventTypes
<1>2. LogWrite(<<Ev("server_stderr", 0)>>)
  BY DEF StderrData
<1>3. events' \in Seq(LogEvent) /\ inflight' \in Seq(LogEvent) /\ queue' \in Seq(LogEvent)
  BY <1>1, <1>2, LogWriteType DEF TypeOK
<1> QED BY SMTT(30), <1>3 DEF StderrData, TypeOK, clientVars, serverVars, wireVars, obsVars,
                    endVars, signalVars

LEMMA LogStepType == TypeOK /\ LogStep => TypeOK'
<1> SUFFICES ASSUME TypeOK, LogStep PROVE TypeOK'
  OBVIOUS
<1>1. \A S : <<>> \in Seq(S)
  OBVIOUS
<1>2. /\ logState' \in {"opening", "open", "failed"}
      /\ inflight' \in Seq(LogEvent) /\ queue' \in Seq(LogEvent) /\ disk' \in Seq(LogEvent)
  <2>1. disk \o inflight \in Seq(LogEvent)
    BY ConcatProperties DEF TypeOK
  <2>2. CASE LogOpened
    BY <1>1, <2>2 DEF LogOpened, TakeBuffer, TypeOK
  <2>3. CASE LogFlushed
    BY <1>1, <2>1, <2>3 DEF LogFlushed, TakeBuffer, TypeOK
  <2>4. CASE LogFailed
    BY <1>1, <2>4 DEF LogFailed, TypeOK
  <2> QED BY <2>2, <2>3, <2>4 DEF LogStep
<1>3. UNCHANGED <<mode, spawned, clientVars, serverVars, wireVars, errPipe,
                  obsVars, events, endVars, signalVars>>
  BY DEF LogStep, LogOpened, LogFlushed, LogFailed
<1> QED BY SMTT(30), <1>2, <1>3 DEF TypeOK, clientVars, serverVars, wireVars, obsVars,
                          endVars, signalVars

(* The environment and the handlers that touch a variable or two.            *)
LEMMA OtherStepType ==
  TypeOK /\ (\/ ClientStep \/ ServerStep \/ StdinEnd \/ HandleSignal
             \/ SignalArrives \/ UNCHANGED vars) => TypeOK'
<1> USE DEF TypeOK, clientVars, serverVars, wireVars, obsVars, logVars, endVars, signalVars
<1>1. TypeOK /\ ClientSend => TypeOK'
  BY DEF ClientSend
<1>2. TypeOK /\ ClientClose => TypeOK'
  BY DEF ClientClose
<1>3. TypeOK /\ ServerRead => TypeOK'
  <2> SUFFICES ASSUME TypeOK, ServerRead PROVE TypeOK'
    OBVIOUS
  <2>1. Head(toServer) \in ClientMsg /\ Tail(toServer) \in Seq(ClientMsg)
    BY HeadTailProperties DEF ServerRead
  <2> QED BY SMTT(30), <2>1 DEF ServerRead
<1>4. TypeOK /\ ServerSend => TypeOK'
  BY SMTT(30) DEF ServerSend
<1>5. TypeOK /\ ServerStderr => TypeOK'
  BY DEF ServerStderr
<1>6. TypeOK /\ ServerExit => TypeOK'
  BY DEF ServerExit
<1>7. TypeOK /\ StdinEnd => TypeOK'
  BY DEF StdinEnd
<1>8. TypeOK /\ HandleSignal => TypeOK'
  <2> SUFFICES ASSUME TypeOK, HandleSignal PROVE TypeOK'
    OBVIOUS
  <2>1. disk \o inflight \in Seq(LogEvent)
    BY ConcatProperties
  <2>2. /\ proxy' \in {"running", "exited"} /\ exitCode' \in ExitCodes \cup {Running, 0, 1, 127}
        /\ disk' \in Seq(LogEvent) /\ signals' \subseteq Signals /\ childSignals' \subseteq Signals
    <3>1. PICK s \in signals :
            \/ ProcessExit(0, inflight) /\ UNCHANGED signalVars
            \/ /\ signals' = signals \ {s} /\ SendSignal(s)
               /\ UNCHANGED <<proxy, exitCode, disk>>
      BY DEF HandleSignal
    <3>2. CASE ProcessExit(0, inflight) /\ UNCHANGED signalVars
      BY <2>1, <3>2 DEF ProcessExit
    <3>3. CASE /\ signals' = signals \ {s} /\ SendSignal(s)
               /\ UNCHANGED <<proxy, exitCode, disk>>
      BY <3>1, <3>3 DEF SendSignal
    <3> QED BY <3>1, <3>2, <3>3
  <2> QED BY <2>2 DEF HandleSignal
<1>9. TypeOK /\ SignalArrives => TypeOK'
  BY DEF SignalArrives
<1>10. TypeOK /\ UNCHANGED vars => TypeOK'
  BY DEF vars
<1> QED BY <1>1, <1>2, <1>3, <1>4, <1>5, <1>6, <1>7, <1>8, <1>9, <1>10
        DEF ClientStep, ServerStep

LEMMA NextType == TypeOK /\ [Next]_vars => TypeOK'
  BY ChildExitType, SpawnErrorType, StdinDataType, StdoutDataType, StderrDataType,
     LogStepType, OtherStepType DEF Next, ProxyStep, Terminated

(* Every variable keeps its type, for any ids, codes, signals and bounds.    *)
THEOREM TypeCorrect == Spec => []TypeOK
  BY InitType, NextType, PTL DEF Spec

-----------------------------------------------------------------------------
(* The wire.  wireSeqs is what it depends on; most steps touch none of it.   *)
wireSeqs == <<clientSent, toProxy, toServer, serverGot, serverSent, fromServer, clientGot>>

LEMMA InitWire == Init => WireIntact
<1>1. <<>> \o <<>> \o <<>> = <<>> /\ <<>> \o <<>> = <<>>
  OBVIOUS
<1> QED BY <1>1 DEF Init, WireIntact

(* Only four actions move or add messages.                                   *)
LEMMA OffTheWire ==
  ASSUME [Next]_vars
  PROVE  ClientSend \/ ServerRead \/ ServerSend \/ StdinData \/ StdoutData
           \/ UNCHANGED wireSeqs
<1> USE DEF wireSeqs, clientVars, serverVars, wireVars
<1>1. (ClientClose \/ ServerStderr \/ ServerExit \/ SignalArrives) => UNCHANGED wireSeqs
  BY DEF ClientClose, ServerStderr, ServerExit, SignalArrives
<1>2. (StdinEnd \/ StderrData \/ HandleSignal \/ ChildExit \/ SpawnError) => UNCHANGED wireSeqs
  BY DEF StdinEnd, StderrData, HandleSignal, ChildExit, SpawnError
<1>3. LogStep => UNCHANGED wireSeqs
  BY DEF LogStep, LogOpened, LogFlushed, LogFailed
<1>4. (Terminated \/ UNCHANGED vars) => UNCHANGED wireSeqs
  BY DEF Terminated, vars
<1> QED BY <1>1, <1>2, <1>3, <1>4 DEF Next, ClientStep, ServerStep, ProxyStep

LEMMA NextWire == TypeOK /\ WireIntact /\ [Next]_vars => WireIntact'
<1> SUFFICES ASSUME TypeOK, WireIntact, [Next]_vars PROVE WireIntact'
  OBVIOUS
<1>0. /\ clientSent \in Seq(ClientMsg) /\ toProxy \in Seq(ClientMsg)
      /\ toServer \in Seq(ClientMsg) /\ serverGot \in Seq(ClientMsg)
      /\ serverSent \in Seq(ServerMsg) /\ fromServer \in Seq(ServerMsg)
      /\ clientGot \in Seq(ServerMsg)
      /\ serverGot \o toServer \in Seq(ClientMsg)
  <2>1. serverGot \in Seq(ClientMsg) /\ toServer \in Seq(ClientMsg)
    BY DEF TypeOK
  <2> QED BY <2>1, ConcatProperties DEF TypeOK
<1>w. clientSent = (serverGot \o toServer) \o toProxy /\ serverSent = clientGot \o fromServer
  BY DEF WireIntact
<1>1. CASE ClientSend
  <2>1. PICK m \in ClientMsg : clientSent' = Append(clientSent, m) /\ toProxy' = Append(toProxy, m)
    BY <1>1 DEF ClientSend
  <2>2. UNCHANGED <<toServer, serverGot, serverSent, fromServer, clientGot>>
    BY <1>1 DEF ClientSend, serverVars, wireVars
  <2>3. (serverGot \o toServer) \o Append(toProxy, m) = Append(clientSent, m)
    BY <1>0, <1>w, ConcatAppend
  <2> QED BY <1>w, <2>1, <2>2, <2>3 DEF WireIntact
<1>2. CASE ServerRead
  <2>1. /\ toServer # <<>> /\ serverGot' = Append(serverGot, Head(toServer))
        /\ toServer' = Tail(toServer)
        /\ UNCHANGED <<clientSent, toProxy, serverSent, fromServer, clientGot>>
    BY <1>2 DEF ServerRead, clientVars
  <2>2. serverGot' \o toServer' = serverGot \o toServer
    BY <1>0, <2>1, MoveHead
  <2> QED BY <1>w, <2>1, <2>2 DEF WireIntact
<1>3. CASE ServerSend
  <2>1. PICK m \in ServerMsg : serverSent' = Append(serverSent, m)
                               /\ fromServer' = Append(fromServer, m)
    BY <1>3 DEF ServerSend
  <2>2. UNCHANGED <<clientSent, toProxy, toServer, serverGot, clientGot>>
    BY <1>3 DEF ServerSend, clientVars
  <2>3. clientGot \o Append(fromServer, m) = Append(serverSent, m)
    BY <1>0, <1>w, ConcatAppend
  <2> QED BY <1>w, <2>1, <2>2, <2>3 DEF WireIntact
<1>4. CASE StdinData
  <2>1. /\ toProxy # <<>> /\ toServer' = Append(toServer, Head(toProxy))
        /\ toProxy' = Tail(toProxy)
        /\ UNCHANGED <<clientSent, serverGot, serverSent, fromServer, clientGot>>
    BY <1>4 DEF StdinData, serverVars
  <2>2. Head(toProxy) \in ClientMsg
    BY <1>0, <2>1, HeadTailProperties
  <2>3. serverGot \o Append(toServer, Head(toProxy)) = Append(serverGot \o toServer, Head(toProxy))
    BY <1>0, <2>2, ConcatAppend
  <2>4. Append(serverGot \o toServer, Head(toProxy)) \o Tail(toProxy) = clientSent
    BY <1>0, <1>w, <2>1, MoveHead
  <2>5. clientSent' = serverGot' \o toServer' \o toProxy'
    BY <2>1, <2>3, <2>4
  <2> QED BY <1>w, <2>1, <2>5 DEF WireIntact
<1>5. CASE StdoutData
  <2>1. /\ fromServer # <<>> /\ clientGot' = Append(clientGot, Head(fromServer))
        /\ fromServer' = Tail(fromServer)
        /\ UNCHANGED <<clientSent, toProxy, toServer, serverGot, serverSent>>
    BY <1>5 DEF StdoutData, Readable, ToClient, clientVars, serverVars
  <2>2. clientGot' \o fromServer' = serverSent
    BY <1>0, <1>w, <2>1, MoveHead
  <2> QED BY <1>w, <2>1, <2>2 DEF WireIntact
<1>6. CASE UNCHANGED wireSeqs
  BY <1>w, <1>6 DEF WireIntact, wireSeqs
<1> QED BY <1>1, <1>2, <1>3, <1>4, <1>5, <1>6, OffTheWire

(* Invariant (A) of docs/architecture.md: neither side ever receives anything *)
(* but what the other sent, in order; what is missing is on its way.          *)
THEOREM WireAlwaysIntact == Spec => []WireIntact
<1>1. Init => TypeOK /\ WireIntact
  BY InitType, InitWire
<1>2. (TypeOK /\ WireIntact) /\ [Next]_vars => (TypeOK /\ WireIntact)'
  BY NextType, NextWire
<1> QED BY <1>1, <1>2, PTL DEF Spec

-----------------------------------------------------------------------------
(* The refinement.                                                           *)

LEMMA InitPipes == Init => C2S!Init /\ S2C!Init
  BY DEF Init, C2S!Init, S2C!Init

(* The proxy never comes back, and the steps that end it move no message.    *)
LEMMA UpOrDown ==
  ASSUME [Next]_vars
  PROVE  /\ ClientSend \/ ServerRead \/ ServerSend \/ StdinData \/ StdoutData
              => proxy = "running" /\ proxy' = "running"
         /\ proxy' = proxy \/ (proxy = "running" /\ proxy' = "exited")
<1>1. ClientSend \/ ServerRead \/ ServerSend \/ StdinData \/ StdoutData
        => proxy = "running" /\ proxy' = "running"
  BY DEF ClientSend, ServerRead, ServerSend, StdinData, StdoutData, Up, endVars
<1>2. (ClientClose \/ ServerStderr \/ ServerExit \/ SignalArrives \/ StdinEnd
         \/ StderrData \/ LogStep \/ Terminated \/ UNCHANGED vars) => proxy' = proxy
  BY DEF ClientClose, ServerStderr, ServerExit, SignalArrives, StdinEnd, StderrData,
         LogStep, LogOpened, LogFlushed, LogFailed, Terminated, vars, endVars
<1>3. HandleSignal \/ ChildExit \/ SpawnError
        => proxy' = proxy \/ (proxy = "running" /\ proxy' = "exited")
  BY DEF HandleSignal, ChildExit, SpawnError, ProcessExit, Up
<1> QED BY <1>1, <1>2, <1>3 DEF Next, ClientStep, ServerStep, ProxyStep

LEMMA NextC2S ==
  TypeOK /\ WireIntact /\ [Next]_vars => [C2S!Next]_(C2S!vars)
<1> SUFFICES ASSUME TypeOK, WireIntact, [Next]_vars PROVE [C2S!Next]_(C2S!vars)
  OBVIOUS
<1>1. CASE ClientSend
  <2>1. PICK m \in ClientMsg : clientSent' = Append(clientSent, m)
    BY <1>1 DEF ClientSend
  <2>2. serverGot' = serverGot /\ proxy = "running" /\ proxy' = "running"
    BY <1>1, UpOrDown DEF ClientSend, serverVars
  <2> QED BY <2>1, <2>2 DEF C2S!Next, C2S!Send
<1>2. CASE ServerRead
  <2>1. /\ toServer # <<>> /\ serverGot' = Append(serverGot, Head(toServer))
        /\ clientSent' = clientSent /\ proxy = "running" /\ proxy' = "running"
    BY <1>2, UpOrDown DEF ServerRead, clientVars
  <2>2. /\ serverGot \in Seq(ClientMsg) /\ toServer \in Seq(ClientMsg)
        /\ toProxy \in Seq(ClientMsg) /\ toServer \o toProxy \in Seq(ClientMsg)
    <3>1. /\ serverGot \in Seq(ClientMsg) /\ toServer \in Seq(ClientMsg)
          /\ toProxy \in Seq(ClientMsg)
      BY DEF TypeOK
    <3> QED BY <3>1, ConcatProperties
  <2>3. clientSent = serverGot \o (toServer \o toProxy)
    BY <2>2, ConcatAssociative DEF WireIntact
  <2>4. toServer \o toProxy # <<>> /\ Head(toServer \o toProxy) = Head(toServer)
    <3>1. Len(toServer) \in Nat \ {0} /\ Len(toProxy) \in Nat /\ Head(toServer) = toServer[1]
      BY <2>1, <2>2
    <3>2. Len(toServer \o toProxy) = Len(toServer) + Len(toProxy)
          /\ (toServer \o toProxy)[1] = toServer[1]
      BY <2>2, <3>1, ConcatProperties
    <3> QED BY <2>2, <3>1, <3>2
  <2>5. Len(serverGot) < Len(clientSent) /\ clientSent[Len(serverGot) + 1] = Head(toServer)
    BY <2>2, <2>3, <2>4, NextInTransit
  <2> QED BY <2>1, <2>5 DEF C2S!Next, C2S!Deliver
<1>3. CASE ServerSend \/ StdinData \/ StdoutData
  <2>1. clientSent' = clientSent /\ serverGot' = serverGot /\ proxy' = proxy
    BY <1>3, UpOrDown DEF ServerSend, StdinData, StdoutData, clientVars, serverVars
  <2> QED BY <2>1 DEF C2S!vars
<1>4. CASE UNCHANGED wireSeqs
  <2>1. CASE proxy' = proxy
    BY <1>4, <2>1 DEF C2S!vars, wireSeqs
  <2>2. CASE proxy = "running" /\ proxy' = "exited"
    BY <1>4, <2>2 DEF C2S!Next, C2S!Break, wireSeqs
  <2> QED BY <2>1, <2>2, UpOrDown
<1> QED BY <1>1, <1>2, <1>3, <1>4, OffTheWire

LEMMA NextS2C ==
  TypeOK /\ WireIntact /\ [Next]_vars => [S2C!Next]_(S2C!vars)
<1> SUFFICES ASSUME TypeOK, WireIntact, [Next]_vars PROVE [S2C!Next]_(S2C!vars)
  OBVIOUS
<1>1. CASE ServerSend
  <2>1. PICK m \in ServerMsg : serverSent' = Append(serverSent, m)
    BY <1>1 DEF ServerSend
  <2>2. clientGot' = clientGot /\ proxy = "running" /\ proxy' = "running"
    BY <1>1, UpOrDown DEF ServerSend
  <2> QED BY <2>1, <2>2 DEF S2C!Next, S2C!Send
<1>2. CASE StdoutData
  <2>1. /\ fromServer # <<>> /\ clientGot' = Append(clientGot, Head(fromServer))
        /\ serverSent' = serverSent /\ proxy = "running" /\ proxy' = "running"
    BY <1>2, UpOrDown DEF StdoutData, Readable, ToClient, serverVars
  <2>2. clientGot \in Seq(ServerMsg) /\ fromServer \in Seq(ServerMsg)
    BY DEF TypeOK
  <2>3. Len(clientGot) < Len(serverSent) /\ serverSent[Len(clientGot) + 1] = Head(fromServer)
    BY <2>1, <2>2, NextInTransit DEF WireIntact
  <2> QED BY <2>1, <2>3 DEF S2C!Next, S2C!Deliver
<1>3. CASE ClientSend \/ StdinData \/ ServerRead
  <2>1. serverSent' = serverSent /\ clientGot' = clientGot /\ proxy' = proxy
    BY <1>3, UpOrDown DEF ClientSend, StdinData, ServerRead, serverVars, wireVars
  <2> QED BY <2>1 DEF S2C!vars
<1>4. CASE UNCHANGED wireSeqs
  <2>1. CASE proxy' = proxy
    BY <1>4, <2>1 DEF S2C!vars, wireSeqs
  <2>2. CASE proxy = "running" /\ proxy' = "exited"
    BY <1>4, <2>2 DEF S2C!Next, S2C!Break, wireSeqs
  <2> QED BY <2>1, <2>2, UpOrDown
<1> QED BY <1>1, <1>2, <1>3, <1>4, OffTheWire

(* The proxy cannot be told from the pipe it replaces, in either direction.  *)
THEOREM ProxyImplementsWire == Spec => ImplementsWire
<1>1. Spec => [](TypeOK /\ WireIntact)
  BY TypeCorrect, WireAlwaysIntact, PTL
<1>2. Spec => C2S!Spec
  BY <1>1, InitPipes, NextC2S, PTL DEF Spec, C2S!Spec
<1>3. Spec => S2C!Spec
  BY <1>1, InitPipes, NextS2C, PTL DEF Spec, S2C!Spec
<1> QED BY <1>2, <1>3 DEF ImplementsWire

-----------------------------------------------------------------------------
(* The log file.                                                            *)

(* While the proxy runs, what has been observed is on disk, being written or *)
(* buffered, and what the stream's state says of its buffer is what keeps    *)
(* later lines behind earlier ones; once it has exited or the stream has     *)
(* failed, only the prefix is left.                                          *)
Begins(s, t) == \E rest \in Seq(LogEvent) : t = s \o rest

LogInv ==
  /\ Begins(disk, events)
  /\ proxy = "running" =>
       /\ logState # "failed" => events = disk \o inflight \o queue
       /\ logState = "opening" => inflight = <<>>
       /\ logState = "open" /\ inflight = <<>> => queue = <<>>
       /\ logState = "failed" => inflight = <<>> /\ queue = <<>>

(* What is concatenated to a sequence leaves it a prefix. *)
LEMMA PrefixOfConcat ==
  \A S : \A s, t \in Seq(S) : IsPrefix(s, s \o t)
<1> SUFFICES ASSUME NEW S, NEW s \in Seq(S), NEW t \in Seq(S) PROVE IsPrefix(s, s \o t)
  OBVIOUS
<1>1. Len(s) <= Len(s \o t)
  BY ConcatProperties
<1>2. SubSeq(s \o t, 1, Len(s)) = s /\ SubSeq(s, 1, Len(s)) = s
  BY SubSeqOfConcat1, SubSeqFull
<1> QED BY <1>1, <1>2 DEF IsPrefix

(* The invariant gives the property. *)
LEMMA LogInvIsPrefix == TypeOK /\ LogInv => LogIsPrefix
  BY PrefixOfConcat DEF TypeOK, LogInv, LogIsPrefix, Begins

(* Concatenations of log segments, rearranged.                               *)
LEMMA Segments ==
  LET S == Seq(LogEvent)
  IN  /\ \A a, b \in S : a \o b \in S
      /\ \A a, b, c \in S : (a \o b) \o c = a \o (b \o c)
      /\ \A a \in S : a \o <<>> = a /\ <<>> \o a = a
      /\ \A a \in S : a # <<>> => /\ <<Head(a)>> \in S /\ Tail(a) \in S
                                  /\ <<Head(a)>> \o Tail(a) = a
<1>1. \A a, b \in Seq(LogEvent) : a \o b \in Seq(LogEvent)
  BY ConcatProperties
<1>2. \A a, b, c \in Seq(LogEvent) : (a \o b) \o c = a \o (b \o c)
  BY ConcatAssociative
<1>3. \A a \in Seq(LogEvent) : a \o <<>> = a /\ <<>> \o a = a
  BY ConcatEmptySeq
<1>4. ASSUME NEW a \in Seq(LogEvent), a # <<>>
      PROVE  /\ <<Head(a)>> \in Seq(LogEvent) /\ Tail(a) \in Seq(LogEvent)
             /\ <<Head(a)>> \o Tail(a) = a
  <2>1. Head(a) \in LogEvent /\ Tail(a) \in Seq(LogEvent)
    BY <1>4, HeadTailProperties
  <2>2. Append(<<>>, Head(a)) \o Tail(a) = <<>> \o a
    BY <1>4, MoveHead
  <2> QED BY <1>3, <2>1, <2>2
<1> QED BY <1>1, <1>2, <1>3, <1>4

(* Two concatenations regrouped behind a first one. *)
LEMMA Regroup ==
  \A a, b, c, d \in Seq(LogEvent) : ((a \o b) \o c) \o d = (a \o b) \o (c \o d)
<1> TAKE a, b, c, d \in Seq(LogEvent)
<1>1. a \o b \in Seq(LogEvent)
  BY ConcatProperties
<1> QED BY SMTT(30), <1>1, ConcatAssociative

(* What LogWrite does to the segments, the stream's state unchanged.         *)
LEMMA WriteKeepsLog ==
  ASSUME TypeOK, LogInv, proxy = "running", NEW evs \in Seq(LogEvent), LogWrite(evs)
  PROVE  /\ Begins(disk, events')
         /\ logState # "failed" => events' = disk \o inflight' \o queue'
         /\ logState = "opening" => inflight' = <<>>
         /\ logState = "open" /\ inflight' = <<>> => queue' = <<>>
         /\ logState = "failed" => inflight' = <<>> /\ queue' = <<>>
<1>0. /\ events \in Seq(LogEvent) /\ disk \in Seq(LogEvent)
      /\ inflight \in Seq(LogEvent) /\ queue \in Seq(LogEvent)
  BY DEF TypeOK
<1>1. PICK rest \in Seq(LogEvent) : events = disk \o rest
  BY DEF LogInv, Begins
<1>2. events' = disk \o (rest \o evs) /\ rest \o evs \in Seq(LogEvent)
  <2>1. events' = (disk \o rest) \o evs
    BY <1>1 DEF LogWrite
  <2>2. (disk \o rest) \o evs = disk \o (rest \o evs)
    BY SMTT(30), <1>0, ConcatAssociative
  <2>3. rest \o evs \in Seq(LogEvent)
    BY ConcatProperties
  <2> QED BY <2>1, <2>2, <2>3
<1>b. Begins(disk, events')
  BY <1>2 DEF Begins
<1>3. CASE logState = "failed"
  BY <1>b, <1>3 DEF LogWrite, LogInv
<1>4. CASE logState # "failed" /\ evs = <<>>
  BY <1>0, <1>b, <1>4, Segments DEF LogWrite, LogInv
<1>5. CASE logState # "failed" /\ evs # <<>> /\ logState = "open" /\ inflight = <<>>
  <2>1. events = disk /\ inflight' = <<Head(evs)>> /\ queue' = Tail(evs)
    BY <1>0, <1>5, Segments DEF LogWrite, LogInv
  <2>2. disk \o inflight' \o queue' = disk \o evs
    BY SMTT(30), <1>0, <1>5, <2>1, Segments
  <2>3. inflight' # <<>>
    BY <2>1
  <2> QED BY <1>b, <1>5, <2>1, <2>2, <2>3 DEF LogWrite
<1>6. CASE /\ logState # "failed" /\ evs # <<>>
           /\ ~(logState = "open" /\ inflight = <<>>)
  <2>1. inflight' = inflight /\ queue' = queue \o evs
    BY <1>6 DEF LogWrite
  <2>2. events' = (disk \o inflight \o queue) \o evs
    BY <1>6 DEF LogWrite, LogInv
  <2>3. disk \o inflight \in Seq(LogEvent)
    BY <1>0, Segments
  <2>4. ((disk \o inflight) \o queue) \o evs = (disk \o inflight) \o (queue \o evs)
    <3>1. evs \in Seq(LogEvent)
      OBVIOUS
    <3>2. \A c, d \in Seq(LogEvent) : ((disk \o inflight) \o c) \o d = (disk \o inflight) \o (c \o d)
      BY ZenonT(40), <1>0, Regroup
    <3> QED BY <1>0, <3>1, <3>2
  <2> QED BY <1>b, <1>6, <2>1, <2>2, <2>4 DEF LogInv
<1> QED BY <1>3, <1>4, <1>5, <1>6

(* The process ends: a prefix of what was observed stays on disk.            *)
LEMMA ExitKeepsPrefix ==
  \A d, w, q, e \in Seq(LogEvent) :
    Begins(d, e) /\ (e = d \o w \o q \/ w = <<>>) => Begins(d \o w, e)
<1> TAKE d, w, q, e \in Seq(LogEvent)
<1> HAVE Begins(d, e) /\ (e = d \o w \o q \/ w = <<>>)
<1>1. CASE e = d \o w \o q
  BY <1>1 DEF Begins
<1>2. CASE w = <<>>
  <2>1. d \o w = d
    BY <1>2, Segments
  <2> QED BY <2>1
<1> QED BY <1>1, <1>2

(* A command that notes its end and exits (ChildExit, SpawnError).            *)
LEMMA LastNotes ==
  ASSUME TypeOK, LogInv, proxy = "running", NEW evs \in Seq(LogEvent), LogWrite(evs),
         NEW code, ProcessExit(code, inflight')
  PROVE  LogInv'
<1>1. /\ Begins(disk, events')
      /\ events' = disk \o inflight' \o queue' \/ inflight' = <<>>
  BY WriteKeepsLog
<1>2. /\ disk \in Seq(LogEvent) /\ events' \in Seq(LogEvent)
      /\ inflight' \in Seq(LogEvent) /\ queue' \in Seq(LogEvent)
  BY LogWriteType DEF TypeOK
<1>3. proxy' = "exited" /\ (disk' = disk \/ disk' = disk \o inflight')
  BY DEF ProcessExit
<1>4. Begins(disk \o inflight', events')
  BY <1>1, <1>2, ExitKeepsPrefix
<1> QED BY <1>1, <1>3, <1>4 DEF LogInv

(* Nothing is logged at the start. *)
LEMMA InitLog == Init => LogInv
<1>1. <<>> \in Seq(LogEvent) /\ <<>> \o <<>> = <<>>
  BY ConcatEmptySeq
<1>2. Begins(<<>>, <<>>)
  BY <1>1 DEF Begins
<1> QED BY <1>1, <1>2 DEF Init, LogInv

(* The events each handler logs are events.                                  *)
LEMMA LoggedBy ==
  ASSUME TypeOK, StdinData \/ StdoutData \/ StderrData
  PROVE  \E evs \in Seq(LogEvent) : LogWrite(evs)
<1>1. CASE StdinData
  <2> DEFINE m == Head(toProxy)
             note == IF Throws(m) THEN <<Ev("c2s-error", m.n)>> ELSE <<>>
  <2>1. m \in ClientMsg
    BY <1>1, HeadTailProperties DEF StdinData, TypeOK
  <2>2. ClientLine(m) \in Seq(LogEvent) /\ note \in Seq(LogEvent)
    BY <2>1, MsgTypes, EvType DEF ClientLine, EventTypes
  <2>3. LogWrite(ClientLine(m) \o note)
    BY <1>1 DEF StdinData, ObserveClient
  <2> HIDE DEF note
  <2> QED BY <2>2, <2>3, ConcatProperties
<1>2. CASE StdoutData
  <2> DEFINE m == Head(fromServer)
  <2>1. m.n \in Int
    BY SMTT(30), <1>2, HeadTailProperties, MsgTypes DEF StdoutData, Readable, TypeOK
  <2>2. /\ <<Ev("s2c", m.n)>> \in Seq(LogEvent)
        /\ <<Ev("s2c-error", m.n)>> \in Seq(LogEvent)
    BY <2>1, EvType DEF EventTypes
  <2>3. LogWrite(<<Ev("s2c", m.n)>>) \/ LogWrite(<<Ev("s2c-error", m.n)>>)
    BY <1>2 DEF StdoutData, ObserveServer, ServerLine
  <2> QED BY <2>2, <2>3
<1>3. CASE StderrData
  <2>1. <<Ev("server_stderr", 0)>> \in Seq(LogEvent)
    BY EvType DEF EventTypes
  <2> QED BY <1>3, <2>1 DEF StderrData
<1> QED BY <1>1, <1>2, <1>3

(* Every step keeps the log a prefix: LogWrite alone, with the exit, or neither. *)
LEMMA NextLog == TypeOK /\ LogInv /\ [Next]_vars => LogInv'
<1> SUFFICES ASSUME TypeOK, LogInv, [Next]_vars PROVE LogInv'
  OBVIOUS
<1>0. /\ events \in Seq(LogEvent) /\ disk \in Seq(LogEvent)
      /\ inflight \in Seq(LogEvent) /\ queue \in Seq(LogEvent)
  BY DEF TypeOK
<1>1. CASE StdinData \/ StdoutData \/ StderrData
  <2>1. PICK evs \in Seq(LogEvent) : LogWrite(evs)
    BY <1>1, LoggedBy
  <2>2. proxy = "running" /\ UNCHANGED <<disk, logState, proxy>>
    BY <1>1 DEF StdinData, StdoutData, StderrData, Up, endVars
  <2> QED BY <2>1, <2>2, WriteKeepsLog DEF LogInv
<1>2. CASE LogOpened
  <2>1. /\ proxy = "running" /\ logState = "opening" /\ logState' = "open"
        /\ inflight' = queue /\ queue' = <<>>
        /\ UNCHANGED <<events, disk, proxy>>
    BY <1>2 DEF LogOpened, TakeBuffer, Up, endVars
  <2>2. events = disk \o queue /\ disk \o queue \in Seq(LogEvent)
    <3>1. events = disk \o <<>> \o queue
      BY <2>1 DEF LogInv
    <3> QED BY <1>0, <3>1, Segments
  <2>3. events = disk \o queue \o <<>>
    BY <2>2, Segments
  <2> QED BY <2>1, <2>3 DEF LogInv
<1>3. CASE LogFlushed
  <2>1. /\ proxy = "running" /\ logState = "open" /\ logState' = logState
        /\ disk' = disk \o inflight
        /\ inflight' = queue /\ queue' = <<>>
        /\ UNCHANGED <<events, proxy>>
    BY <1>3 DEF LogFlushed, TakeBuffer, Up, endVars
  <2>2. events' = disk' \o inflight' /\ events' = disk' \o inflight' \o queue'
    BY <1>0, <2>1, Segments DEF LogInv
  <2>3. Begins(disk', events')
    <3>1. events' = disk' \o queue /\ queue \in Seq(LogEvent)
      BY <1>0, <2>1, <2>2
    <3> QED BY <3>1 DEF Begins
  <2> QED BY <2>1, <2>2, <2>3 DEF LogInv
<1>4. CASE LogFailed
  <2>1. /\ logState' = "failed" /\ inflight' = <<>> /\ queue' = <<>>
        /\ UNCHANGED <<events, disk>>
    BY <1>4 DEF LogFailed
  <2> QED BY <2>1 DEF LogInv
<1>5. CASE HandleSignal
  <2>1. UNCHANGED <<events, logState, inflight, queue>> /\ proxy = "running"
    BY <1>5 DEF HandleSignal, Up
  <2>2. CASE ProcessExit(0, inflight)
    <3>1. proxy' = "exited" /\ (disk' = disk \/ disk' = disk \o inflight)
      BY <2>2 DEF ProcessExit
    <3>2. /\ Begins(disk, events)
          /\ events = disk \o inflight \o queue \/ inflight = <<>>
      BY <2>1 DEF LogInv
    <3>3. Begins(disk \o inflight, events)
      BY <1>0, <3>2, ExitKeepsPrefix
    <3> QED BY <2>1, <3>1, <3>2, <3>3 DEF LogInv
  <2>3. CASE UNCHANGED <<proxy, disk>>
    BY <2>1, <2>3 DEF LogInv
  <2> QED BY <1>5, <2>2, <2>3 DEF HandleSignal
<1>6. CASE ChildExit
  <2>1. PICK orphans \in OrphanEvents : LogWrite(orphans \o <<Ev("server-exit", status)>>)
    BY <1>6 DEF ChildExit
  <2>2. status \in Int
    BY CodesAssumption DEF TypeOK, Killed, Running
  <2>3. orphans \in Seq(LogEvent) /\ <<Ev("server-exit", status)>> \in Seq(LogEvent)
    BY <2>2, OrphanEventsType, EvType DEF TypeOK, EventTypes
  <2>4. orphans \o <<Ev("server-exit", status)>> \in Seq(LogEvent)
    BY <2>3, ConcatProperties
  <2>5. proxy = "running" /\ ProcessExit(ResolvedCode(status), inflight')
    BY <1>6 DEF ChildExit, Up
  <2> QED BY <2>1, <2>4, <2>5, LastNotes
<1>7. CASE SpawnError
  <2>1. <<Ev("spawn-error", 0)>> \in Seq(LogEvent)
    BY EvType DEF EventTypes
  <2>2. /\ proxy = "running" /\ LogWrite(<<Ev("spawn-error", 0)>>)
        /\ ProcessExit(127, inflight')
    BY <1>7 DEF SpawnError
  <2> QED BY <2>1, <2>2, LastNotes
<1>8. CASE \/ ClientStep \/ ServerStep \/ StdinEnd \/ SignalArrives
           \/ Terminated \/ UNCHANGED vars
  <2>1. UNCHANGED <<events, disk, logState, inflight, queue, proxy>>
    BY <1>8 DEF ClientStep, ClientSend, ClientClose, ServerStep, ServerRead, ServerSend,
                ServerStderr, ServerExit, StdinEnd, SignalArrives, Terminated, vars,
                logVars, endVars
  <2> QED BY <2>1 DEF LogInv
<1> QED BY <1>1, <1>2, <1>3, <1>4, <1>5, <1>6, <1>7, <1>8
        DEF Next, ProxyStep, LogStep

(* The log file is a gap-free prefix of what was observed at every moment,    *)
(* whenever the disk fails or the process ends.                               *)
THEOREM LogAlwaysPrefix == Spec => []LogIsPrefix
<1>1. Init => TypeOK /\ LogInv
  BY InitType, InitLog
<1>2. (TypeOK /\ LogInv) /\ [Next]_vars => (TypeOK /\ LogInv)'
  BY NextType, NextLog
<1>3. TypeOK /\ LogInv => LogIsPrefix
  BY LogInvIsPrefix
<1> QED BY <1>1, <1>2, <1>3, PTL DEF Spec

-----------------------------------------------------------------------------
(* What every step adds to the lines observed so far.                       *)

NoteTypes == {"server_stderr", "orphan-request", "server-exit", "spawn-error"}
Note == {e \in LogEvent : e.t \in NoteTypes}

(* The orphan notes, in whatever order they come, name the pending requests, *)
(* each once.                                                                *)
LEMMA OrphanSequence ==
  ASSUME pending \in [Keys -> 0 .. MaxClient], NEW orphans \in OrphanEvents
  PROVE  LET E == {Ev("orphan-request", n) : n \in {pending[k] : k \in Keys} \ {0}}
         IN  /\ orphans \in Seq(Note)
             /\ \A i \in 1 .. Len(orphans) : orphans[i] \in E
             /\ \A e \in E : \E i \in 1 .. Len(orphans) : orphans[i] = e
             /\ \A i, j \in 1 .. Len(orphans) : orphans[i] = orphans[j] => i = j
<1> DEFINE N == {pending[k] : k \in Keys} \ {0}
           E == {Ev("orphan-request", n) : n \in N}
           f == [n \in N |-> Ev("orphan-request", n)]
<1>1. IsFiniteSet(N) /\ \A n \in N : n \in Int
  <2>1. IsFiniteSet(1 .. MaxClient)
    BY BoundsAssumption, FS_Interval
  <2>2. N \in SUBSET (1 .. MaxClient)
    BY BoundsAssumption
  <2> QED BY <2>1, <2>2, FS_Subset, BoundsAssumption
<1>2. E \subseteq Note
  <2> SUFFICES ASSUME NEW n \in N PROVE Ev("orphan-request", n) \in Note
    OBVIOUS
  <2> QED BY <1>1, EvType DEF EventTypes, Note, NoteTypes, Ev
<1>3. f \in Surjection(N, E)
  BY DEF Surjection
<1> HIDE DEF N, E, f
<1>4. IsFiniteSet(E) /\ Cardinality(E) \in Nat
  BY <1>1, <1>3, FS_Surjection, FS_CardinalityType
<1>5. /\ orphans \in [1 .. Cardinality(E) -> E]
      /\ \A i, j \in 1 .. Cardinality(E) : i # j => orphans[i] # orphans[j]
  BY DEF OrphanEvents, SetToSeqs, E, N
<1>6. orphans \in Injection(1 .. Cardinality(E), E)
  BY <1>5 DEF Injection, IsInjective
<1>7. Cardinality(1 .. Cardinality(E)) = Cardinality(E)
  BY <1>4, FS_Interval
<1>8. orphans \in Surjection(1 .. Cardinality(E), E)
  BY <1>4, <1>6, <1>7, FS_Injection
<1>9. orphans \in Seq(E) /\ Len(orphans) = Cardinality(E)
  BY <1>4, <1>5, SeqDef, LenProperties
<1>10. orphans \in Seq(Note)
  BY <1>2, <1>9, SeqMonotonic
<1>11. \A e \in E : \E i \in 1 .. Len(orphans) : orphans[i] = e
  BY <1>8, <1>9 DEF Surjection
<1>12. \A i \in 1 .. Len(orphans) : orphans[i] \in E
  BY <1>5, <1>9
<1> QED BY <1>5, <1>9, <1>10, <1>11, <1>12 DEF E, N

(* The lines of one callback of the client's side.                           *)
LEMMA ClientLines ==
  ASSUME TypeOK, StdinData
  PROVE  \E evs \in Seq(LogEvent) :
           /\ events' = events \o evs
           /\ Len(evs) >= 1 /\ evs[1] = Ev("c2s", Head(toProxy).n)
           /\ \A j \in 2 .. Len(evs) : evs[j].t = "c2s-error"
<1> DEFINE m == Head(toProxy)
<1>1. m.n \in Int
  BY HeadTailProperties, MsgTypes DEF StdinData, TypeOK
<1>2. Ev("c2s", m.n) \in LogEvent /\ Ev("c2s-error", m.n) \in LogEvent
  BY <1>1, EvType DEF EventTypes
<1>3. events' = events \o (ClientLine(m) \o IF Throws(m) THEN <<Ev("c2s-error", m.n)>> ELSE <<>>)
  BY DEF StdinData, ObserveClient, LogWrite
<1> DEFINE line == <<Ev("c2s", m.n)>>
           note == IF Throws(m) THEN <<Ev("c2s-error", m.n)>> ELSE <<>>
<1>4. line \in Seq(LogEvent) /\ Len(line) = 1 /\ line[1] = Ev("c2s", m.n)
  BY <1>2
<1>5. note \in Seq(LogEvent) /\ \A j \in 1 .. Len(note) : note[j].t = "c2s-error"
  BY <1>2 DEF Ev
<1>6. events' = events \o (line \o note)
  BY <1>3 DEF ClientLine
<1> HIDE DEF m, line, note
<1>7. /\ line \o note \in Seq(LogEvent) /\ Len(line \o note) = 1 + Len(note)
      /\ \A j \in 1 .. 1 + Len(note) :
           (line \o note)[j] = IF j <= 1 THEN line[j] ELSE note[j - 1]
  <2>1. /\ line \o note \in Seq(LogEvent) /\ Len(line \o note) = Len(line) + Len(note)
        /\ \A j \in 1 .. Len(line) + Len(note) :
             (line \o note)[j] = IF j <= Len(line) THEN line[j] ELSE note[j - Len(line)]
    BY <1>4, <1>5, ConcatProperties
  <2> QED BY <1>4, <2>1
<1>8. /\ Len(line \o note) >= 1 /\ (line \o note)[1] = Ev("c2s", m.n)
      /\ \A j \in 2 .. Len(line \o note) : (line \o note)[j].t = "c2s-error"
  <2>1. Len(note) \in Nat
    BY <1>5
  <2>2. ASSUME NEW j \in 2 .. Len(line \o note) PROVE (line \o note)[j].t = "c2s-error"
    <3>1. j - 1 \in 1 .. Len(note) /\ (line \o note)[j] = note[j - 1]
      BY <1>7, <2>1
    <3> QED BY <1>5, <3>1
  <2> QED BY <1>4, <1>7, <2>1, <2>2
<1> QED BY <1>6, <1>7, <1>8 DEF m

(* The line of one callback of the server's side.                            *)
LEMMA ServerLines ==
  ASSUME TypeOK, StdoutData
  PROVE  LET m == Head(fromServer)
         IN  \E t \in {"s2c", "s2c-error"} :
               /\ Ev(t, m.n) \in LogEvent /\ events' = events \o <<Ev(t, m.n)>>
               /\ Keyed(m) => t = "s2c"
<1> DEFINE m == Head(fromServer)
<1>1. m.n \in Int
  BY SMTT(30), HeadTailProperties, MsgTypes DEF StdoutData, Readable, TypeOK
<1>2. Ev("s2c", m.n) \in LogEvent /\ Ev("s2c-error", m.n) \in LogEvent
  BY <1>1, EvType DEF EventTypes
<1>3. Keyed(m) => ~Throws(m)
  BY DEF Keyed, Throws
<1>4. \/ events' = events \o <<Ev("s2c", m.n)>>
      \/ ~Keyed(m) /\ events' = events \o <<Ev("s2c-error", m.n)>>
  BY <1>3 DEF StdoutData, ObserveServer, ServerLine, LogWrite
<1> QED BY <1>2, <1>4

(* Every other step adds notes, or nothing, and touches neither the          *)
(* correlator's map nor the pairs.                                           *)
LEMMA OtherLines ==
  ASSUME TypeOK, [Next]_vars, ~StdinData, ~StdoutData
  PROVE  /\ \E evs \in Seq(Note) : events' = events \o evs
         /\ pending' = pending /\ cassette' = cassette
<1>0. events \in Seq(LogEvent) /\ <<>> \in Seq(Note) /\ events \o <<>> = events
  BY ConcatEmptySeq DEF TypeOK
<1>1. CASE StderrData
  <2>1. Ev("server_stderr", 0) \in Note
    BY EvType DEF EventTypes, Note, NoteTypes, Ev
  <2>2. <<Ev("server_stderr", 0)>> \in Seq(Note)
    BY <2>1
  <2> QED BY <1>1, <2>2 DEF StderrData, LogWrite, obsVars
<1>2. CASE ChildExit
  <2>1. PICK orphans \in OrphanEvents : LogWrite(orphans \o <<Ev("server-exit", status)>>)
    BY <1>2 DEF ChildExit
  <2>2. orphans \in Seq(Note)
    BY OrphanSequence DEF TypeOK
  <2>3. status \in Int
    BY CodesAssumption DEF TypeOK, Killed, Running
  <2>4. Ev("server-exit", status) \in Note
    BY <2>3, EvType DEF EventTypes, Note, NoteTypes, Ev
  <2>5. <<Ev("server-exit", status)>> \in Seq(Note)
    BY <2>4
  <2>6. orphans \o <<Ev("server-exit", status)>> \in Seq(Note)
    BY <2>2, <2>5, ConcatProperties
  <2> QED BY <1>2, <2>1, <2>6 DEF ChildExit, LogWrite, obsVars
<1>3. CASE SpawnError
  <2>1. Ev("spawn-error", 0) \in Note
    BY EvType DEF EventTypes, Note, NoteTypes, Ev
  <2>2. <<Ev("spawn-error", 0)>> \in Seq(Note)
    BY <2>1
  <2> QED BY <1>3, <2>2 DEF SpawnError, LogWrite, obsVars
<1>4. CASE \/ ClientStep \/ ServerStep \/ LogStep \/ StdinEnd \/ HandleSignal
           \/ SignalArrives \/ Terminated \/ UNCHANGED vars
  <2>1. events' = events /\ UNCHANGED obsVars
    BY <1>4 DEF ClientStep, ClientSend, ClientClose, ServerStep, ServerRead, ServerSend,
                ServerStderr, ServerExit, LogStep, LogOpened, LogFlushed, LogFailed,
                StdinEnd, HandleSignal, SignalArrives, Terminated, vars, logVars, obsVars
  <2> QED BY <1>0, <2>1 DEF obsVars
<1> QED BY <1>1, <1>2, <1>3, <1>4 DEF Next, ProxyStep

-----------------------------------------------------------------------------
(* The lines of the types ts name the messages 1 .. n, each once, in order.  *)
LinesOf(ev, ts) == {i \in DOMAIN ev : ev[i].t \in ts}
Tells(ev, ts, n) == /\ {ev[i].n : i \in LinesOf(ev, ts)} = 1 .. n
                    /\ \A i, j \in LinesOf(ev, ts) : i < j => ev[i].n < ev[j].n

(* Where the lines of a longer log stand.                                    *)
LEMMA Longer ==
  \A ev, evs \in Seq(LogEvent) :
    /\ ev \o evs \in Seq(LogEvent) /\ DOMAIN ev = 1 .. Len(ev)
    /\ Len(ev) \in Nat /\ Len(evs) \in Nat
    /\ DOMAIN (ev \o evs) = 1 .. Len(ev) + Len(evs)
    /\ \A i \in 1 .. Len(ev) : (ev \o evs)[i] = ev[i]
    /\ \A i \in 1 .. Len(evs) : (ev \o evs)[Len(ev) + i] = evs[i]
    /\ \A i \in Len(ev) + 1 .. Len(ev) + Len(evs) :
         i - Len(ev) \in 1 .. Len(evs) /\ (ev \o evs)[i] = evs[i - Len(ev)]
<1> TAKE ev, evs \in Seq(LogEvent)
<1>1. /\ Len(ev) \in Nat /\ Len(evs) \in Nat /\ DOMAIN ev = 1 .. Len(ev)
  OBVIOUS
<1>2. /\ ev \o evs \in Seq(LogEvent) /\ Len(ev \o evs) = Len(ev) + Len(evs)
      /\ \A i \in 1 .. Len(ev) + Len(evs) :
           (ev \o evs)[i] = IF i <= Len(ev) THEN ev[i] ELSE evs[i - Len(ev)]
  BY ConcatProperties
<1>3. DOMAIN (ev \o evs) = 1 .. Len(ev) + Len(evs)
  BY <1>2
<1>4. \A i \in 1 .. Len(ev) : (ev \o evs)[i] = ev[i]
  BY <1>1, <1>2
<1>5. \A i \in Len(ev) + 1 .. Len(ev) + Len(evs) :
         i - Len(ev) \in 1 .. Len(evs) /\ (ev \o evs)[i] = evs[i - Len(ev)]
  BY <1>1, <1>2
<1>6. \A i \in 1 .. Len(evs) : (ev \o evs)[Len(ev) + i] = evs[i]
  <2> TAKE i \in 1 .. Len(evs)
  <2>1. Len(ev) + i \in Len(ev) + 1 .. Len(ev) + Len(evs) /\ (Len(ev) + i) - Len(ev) = i
    BY <1>1
  <2> QED BY <1>5, <2>1
<1> QED BY <1>1, <1>2, <1>3, <1>4, <1>5, <1>6

(* Lines of other types say nothing of these messages.                       *)
LEMMA TellsSame ==
  \A ev, evs \in Seq(LogEvent) : \A ts, n :
    Tells(ev, ts, n) /\ (\A j \in 1 .. Len(evs) : evs[j].t \notin ts) => Tells(ev \o evs, ts, n)
<1> TAKE ev, evs \in Seq(LogEvent)
<1> TAKE ts, n
<1> HAVE Tells(ev, ts, n) /\ (\A j \in 1 .. Len(evs) : evs[j].t \notin ts)
<1>1. LinesOf(ev \o evs, ts) = LinesOf(ev, ts)
  BY Longer DEF LinesOf
<1>2. \A i \in LinesOf(ev, ts) : (ev \o evs)[i] = ev[i]
  BY Longer DEF LinesOf
<1>3. {(ev \o evs)[i].n : i \in LinesOf(ev, ts)} = {ev[i].n : i \in LinesOf(ev, ts)}
  BY <1>2
<1>4. \A i, j \in LinesOf(ev, ts) : i < j => (ev \o evs)[i].n < (ev \o evs)[j].n
  BY <1>2 DEF Tells
<1> QED BY <1>1, <1>3, <1>4 DEF Tells

(* The next message's line comes after those of the messages before it.      *)
LEMMA TellsNext ==
  \A ev, evs \in Seq(LogEvent) : \A ts : \A n \in Nat :
    /\ Tells(ev, ts, n) /\ Len(evs) >= 1 /\ evs[1].t \in ts /\ evs[1].n = n + 1
    /\ \A j \in 2 .. Len(evs) : evs[j].t \notin ts
    => Tells(ev \o evs, ts, n + 1)
<1> TAKE ev, evs \in Seq(LogEvent)
<1> TAKE ts
<1> TAKE n \in Nat
<1> HAVE /\ Tells(ev, ts, n) /\ Len(evs) >= 1 /\ evs[1].t \in ts /\ evs[1].n = n + 1
         /\ \A j \in 2 .. Len(evs) : evs[j].t \notin ts
<1> DEFINE all == ev \o evs
           L == Len(ev)
<1>0. /\ L \in Nat /\ Len(evs) \in Nat /\ DOMAIN ev = 1 .. L
      /\ DOMAIN all = 1 .. L + Len(evs)
      /\ \A i \in 1 .. L : all[i] = ev[i]
      /\ \A i \in 1 .. Len(evs) : all[L + i] = evs[i]
      /\ \A i \in L + 1 .. L + Len(evs) : i - L \in 1 .. Len(evs) /\ all[i] = evs[i - L]
  BY Longer
<1> HIDE DEF all, L
<1>1. all[L + 1] = evs[1] /\ L + 1 \in DOMAIN all
  BY <1>0
<1>2. \A i \in L + 2 .. L + Len(evs) : all[i].t \notin ts
  <2> TAKE i \in L + 2 .. L + Len(evs)
  <2>1. i - L \in 2 .. Len(evs) /\ all[i] = evs[i - L]
    BY <1>0
  <2> QED BY <2>1
<1>3. LinesOf(all, ts) = LinesOf(ev, ts) \cup {L + 1}
  <2>1. ASSUME NEW i \in LinesOf(all, ts) PROVE i \in LinesOf(ev, ts) \cup {L + 1}
    <3>1. i \in 1 .. L \/ i = L + 1 \/ i \in L + 2 .. L + Len(evs)
      BY <1>0 DEF LinesOf
    <3> QED BY <1>0, <1>2, <3>1 DEF LinesOf
  <2>2. ASSUME NEW i \in LinesOf(ev, ts) PROVE i \in LinesOf(all, ts)
    BY <1>0 DEF LinesOf
  <2>3. L + 1 \in LinesOf(all, ts)
    BY <1>1 DEF LinesOf
  <2> QED BY <2>1, <2>2, <2>3
<1>4. \A i \in LinesOf(ev, ts) : all[i] = ev[i] /\ i \in 1 .. L /\ ev[i].n \in 1 .. n
  BY <1>0 DEF LinesOf, Tells
<1>5. {all[i].n : i \in LinesOf(all, ts)} = 1 .. n + 1
  <2>1. \A i \in LinesOf(all, ts) : all[i].n \in 1 .. n + 1
    BY <1>1, <1>3, <1>4
  <2>2. ASSUME NEW p \in 1 .. n + 1 PROVE \E i \in LinesOf(all, ts) : all[i].n = p
    <3>1. CASE p = n + 1
      BY <1>1, <1>3, <3>1
    <3>2. CASE p \in 1 .. n
      <4>1. PICK i \in LinesOf(ev, ts) : ev[i].n = p
        BY <3>2 DEF Tells
      <4> QED BY <1>3, <1>4, <4>1
    <3> QED BY <3>1, <3>2
  <2> QED BY <2>1, <2>2
<1>6. ASSUME NEW i \in LinesOf(all, ts), NEW j \in LinesOf(all, ts), i < j
      PROVE  all[i].n < all[j].n
  <2>1. i \in LinesOf(ev, ts)
    <3>1. i # L + 1
      BY <1>0, <1>3, <1>4, <1>6
    <3> QED BY <1>3, <3>1
  <2>2. CASE j \in LinesOf(ev, ts)
    BY <1>4, <1>6, <2>1, <2>2 DEF Tells
  <2>3. CASE j = L + 1
    <3>1. all[j].n = n + 1
      BY <1>1, <2>3
    <3>2. all[i].n \in 1 .. n
      BY <1>4, <2>1
    <3> QED BY <3>1, <3>2
  <2> QED BY <1>3, <2>2, <2>3
<1>7. Tells(all, ts, n + 1)
  BY <1>5, <1>6 DEF Tells
<1> QED BY <1>7 DEF all

-----------------------------------------------------------------------------
(* Where the messages stand on the wire, in terms of what was sent.          *)
LEMMA WireFacts ==
  ASSUME TypeOK, WireIntact
  PROVE  /\ Len(serverGot) \in Nat /\ Len(Forwarded) \in Nat /\ Len(clientSent) \in Nat
         /\ Len(clientGot) \in Nat /\ Len(serverSent) \in Nat
         /\ Len(serverGot) <= Len(Forwarded) /\ Len(Forwarded) <= Len(clientSent)
         /\ Len(clientGot) <= Len(serverSent)
         /\ DOMAIN serverGot = 1 .. Len(serverGot) /\ DOMAIN Forwarded = 1 .. Len(Forwarded)
         /\ DOMAIN clientSent = 1 .. Len(clientSent)
         /\ DOMAIN clientGot = 1 .. Len(clientGot) /\ DOMAIN serverSent = 1 .. Len(serverSent)
         /\ \A p \in 1 .. Len(Forwarded) : Forwarded[p] = clientSent[p]
         /\ \A p \in 1 .. Len(serverGot) : serverGot[p] = clientSent[p]
         /\ \A a \in 1 .. Len(clientGot) : clientGot[a] = serverSent[a]
         /\ toProxy # <<>> => /\ Len(Forwarded) + 1 \in 1 .. Len(clientSent)
                              /\ Head(toProxy) = clientSent[Len(Forwarded) + 1]
         /\ fromServer # <<>> => /\ Len(clientGot) + 1 \in 1 .. Len(serverSent)
                                 /\ Head(fromServer) = serverSent[Len(clientGot) + 1]
<1>0. /\ clientSent \in Seq(ClientMsg) /\ toProxy \in Seq(ClientMsg)
      /\ toServer \in Seq(ClientMsg) /\ serverGot \in Seq(ClientMsg)
      /\ serverSent \in Seq(ServerMsg) /\ fromServer \in Seq(ServerMsg)
      /\ clientGot \in Seq(ServerMsg)
  BY DEF TypeOK
<1>1. Forwarded \in Seq(ClientMsg)
  BY <1>0, ConcatProperties DEF Forwarded
<1>2. clientSent = Forwarded \o toProxy /\ serverSent = clientGot \o fromServer
  BY DEF WireIntact, Forwarded
<1>3. /\ Len(Forwarded) = Len(serverGot) + Len(toServer)
      /\ \A p \in 1 .. Len(serverGot) + Len(toServer) :
           Forwarded[p] = IF p <= Len(serverGot) THEN serverGot[p] ELSE toServer[p - Len(serverGot)]
  BY <1>0, ConcatProperties DEF Forwarded
<1>4. /\ Len(clientSent) = Len(Forwarded) + Len(toProxy)
      /\ \A p \in 1 .. Len(Forwarded) + Len(toProxy) :
           clientSent[p] = IF p <= Len(Forwarded) THEN Forwarded[p] ELSE toProxy[p - Len(Forwarded)]
  <2> HIDE DEF Forwarded
  <2> QED BY <1>0, <1>1, <1>2, ConcatProperties
<1>5. /\ Len(serverSent) = Len(clientGot) + Len(fromServer)
      /\ \A p \in 1 .. Len(clientGot) + Len(fromServer) :
           serverSent[p] = IF p <= Len(clientGot) THEN clientGot[p] ELSE fromServer[p - Len(clientGot)]
  BY <1>0, <1>2, ConcatProperties
<1>6. /\ Len(serverGot) \in Nat /\ Len(toServer) \in Nat /\ Len(Forwarded) \in Nat
      /\ Len(toProxy) \in Nat /\ Len(clientSent) \in Nat
      /\ Len(clientGot) \in Nat /\ Len(fromServer) \in Nat /\ Len(serverSent) \in Nat
  BY <1>0, <1>1
<1>7. /\ DOMAIN serverGot = 1 .. Len(serverGot) /\ DOMAIN Forwarded = 1 .. Len(Forwarded)
      /\ DOMAIN clientSent = 1 .. Len(clientSent)
      /\ DOMAIN clientGot = 1 .. Len(clientGot) /\ DOMAIN serverSent = 1 .. Len(serverSent)
  BY <1>0, <1>1
<1>8. /\ Len(serverGot) <= Len(Forwarded) /\ Len(Forwarded) <= Len(clientSent)
      /\ Len(clientGot) <= Len(serverSent)
  BY <1>3, <1>4, <1>5, <1>6
<1>9. \A p \in 1 .. Len(Forwarded) : Forwarded[p] = clientSent[p]
  BY <1>4, <1>6
<1>10. \A p \in 1 .. Len(serverGot) : serverGot[p] = clientSent[p]
  BY <1>3, <1>6, <1>8, <1>9
<1>11. \A a \in 1 .. Len(clientGot) : clientGot[a] = serverSent[a]
  BY <1>5, <1>6
<1>12. toProxy # <<>> => /\ Len(Forwarded) + 1 \in 1 .. Len(clientSent)
                         /\ Head(toProxy) = clientSent[Len(Forwarded) + 1]
  <2> HIDE DEF Forwarded
  <2> QED BY <1>0, <1>1, <1>2, <1>6, NextInTransit
<1>13. fromServer # <<>> => /\ Len(clientGot) + 1 \in 1 .. Len(serverSent)
                            /\ Head(fromServer) = serverSent[Len(clientGot) + 1]
  BY <1>0, <1>2, <1>6, NextInTransit
<1> QED BY <1>6, <1>7, <1>8, <1>9, <1>10, <1>11, <1>12, <1>13

-----------------------------------------------------------------------------
(* The observation.                                                         *)

(* A message knows its place in what its sender sent.                        *)
Placed == /\ \A k \in DOMAIN clientSent : clientSent[k].n = k
          /\ \A k \in DOMAIN serverSent : serverSent[k].n = k

(* An answer is to a request the server has read, and repeats its id.        *)
AnswersGiven ==
  \A k \in DOMAIN serverSent :
    LET p == serverSent[k].re
    IN  p # 0 => /\ p \in 1 .. Len(serverGot)
                 /\ clientSent[p].type = "request" /\ clientSent[p].id = serverSent[k].id

C2S_Lines == {"c2s"}
S2C_Lines == {"s2c", "s2c-error"}

ObservationInv ==
  /\ Placed
  /\ AnswersGiven
  /\ Tells(events, C2S_Lines, Len(Forwarded))
  /\ Tells(events, S2C_Lines, Len(clientGot))
  /\ CausalLog

(* What Tells says of the lines is what the property says of them. *)
LEMMA ObservationInvImplies ==
  TypeOK /\ WireIntact /\ ObservationInv => ObservationIsExact
<1> SUFFICES ASSUME TypeOK, WireIntact, ObservationInv PROVE ObservationIsExact
  OBVIOUS
<1>1. \A p \in 1 .. Len(Forwarded) : Forwarded[p].n = p
  BY WireFacts DEF ObservationInv, Placed
<1>2. \A a \in 1 .. Len(clientGot) : clientGot[a].n = a
  BY WireFacts DEF ObservationInv, Placed
<1>3. DOMAIN Forwarded = 1 .. Len(Forwarded) /\ DOMAIN clientGot = 1 .. Len(clientGot)
  BY WireFacts
<1> HIDE DEF Forwarded
<1> QED BY <1>1, <1>2, <1>3
        DEF ObservationInv, ObservationIsExact, LinesAre, Tells, LinesOf, C2S_Lines, S2C_Lines

(* What the steps that touch the wire do to it, in terms of lengths.         *)
LEMMA AppendFacts ==
  \A S : \A s \in Seq(S) : \A x \in S :
    /\ Append(s, x) \in Seq(S) /\ Len(Append(s, x)) = Len(s) + 1
    /\ DOMAIN Append(s, x) = 1 .. Len(s) + 1 /\ DOMAIN s = 1 .. Len(s) /\ Len(s) \in Nat
    /\ \A k \in 1 .. Len(s) : Append(s, x)[k] = s[k]
    /\ Append(s, x)[Len(s) + 1] = x
  OBVIOUS

(* ClientSend appends one message, which knows its place. *)
LEMMA ClientSendFacts ==
  ASSUME TypeOK, ClientSend
  PROVE  \E m \in ClientMsg :
           /\ m.n = Len(clientSent) + 1
           /\ Keyed(m) /\ ~ReuseKeys => KeyOf[m.id] \notin KeysUsed
           /\ clientSent' = Append(clientSent, m)
           /\ DOMAIN clientSent = 1 .. Len(clientSent) /\ Len(clientSent) \in Nat
           /\ DOMAIN clientSent' = 1 .. Len(clientSent) + 1
           /\ \A k \in 1 .. Len(clientSent) : clientSent'[k] = clientSent[k]
           /\ clientSent'[Len(clientSent) + 1] = m
           /\ UNCHANGED <<serverSent, serverGot, toServer, clientGot, events>>
<1>1. PICK m \in ClientMsg :
           /\ m.n = Len(clientSent) + 1
           /\ Keyed(m) /\ ~ReuseKeys => KeyOf[m.id] \notin KeysUsed
           /\ clientSent' = Append(clientSent, m)
  BY DEF ClientSend
<1>2. UNCHANGED <<serverSent, serverGot, toServer, clientGot, events>>
  BY DEF ClientSend, serverVars, wireVars, logVars
<1>3. clientSent \in Seq(ClientMsg)
  BY DEF TypeOK
<1> QED BY <1>1, <1>2, <1>3, AppendFacts

(* ServerSend appends one message; a response names a request the server read. *)
LEMMA ServerSendFacts ==
  ASSUME TypeOK, ServerSend
  PROVE  \E m \in ServerMsg :
           /\ m.n = Len(serverSent) + 1
           /\ m.type = "response" =>
                \E i \in DOMAIN serverGot : /\ serverGot[i].type = "request"
                                            /\ serverGot[i].id = m.id /\ serverGot[i].n = m.re
           /\ serverSent' = Append(serverSent, m)
           /\ DOMAIN serverSent = 1 .. Len(serverSent) /\ Len(serverSent) \in Nat
           /\ DOMAIN serverSent' = 1 .. Len(serverSent) + 1
           /\ \A k \in 1 .. Len(serverSent) : serverSent'[k] = serverSent[k]
           /\ serverSent'[Len(serverSent) + 1] = m
           /\ UNCHANGED <<clientSent, serverGot, toServer, clientGot, events>>
<1>1. PICK m \in ServerMsg :
           /\ m.n = Len(serverSent) + 1
           /\ m.type = "response" =>
                \E i \in DOMAIN serverGot : /\ serverGot[i].type = "request"
                                            /\ serverGot[i].id = m.id /\ serverGot[i].n = m.re
           /\ serverSent' = Append(serverSent, m)
  BY DEF ServerSend
<1>2. UNCHANGED <<clientSent, serverGot, toServer, clientGot, events>>
  BY DEF ServerSend, clientVars, logVars
<1>3. serverSent \in Seq(ServerMsg)
  BY DEF TypeOK
<1> QED BY <1>1, <1>2, <1>3, AppendFacts

(* ServerRead moves a message within what has been forwarded. *)
LEMMA ServerReadFacts ==
  ASSUME TypeOK, ServerRead
  PROVE  /\ Len(serverGot') = Len(serverGot) + 1 /\ Len(serverGot) \in Nat
         /\ Forwarded' = Forwarded
         /\ UNCHANGED <<clientSent, serverSent, clientGot, events>>
<1>1. /\ serverGot \in Seq(ClientMsg) /\ toServer \in Seq(ClientMsg) /\ toServer # <<>>
      /\ serverGot' = Append(serverGot, Head(toServer)) /\ toServer' = Tail(toServer)
      /\ UNCHANGED <<clientSent, serverSent, clientGot, events>>
  BY DEF TypeOK, ServerRead, clientVars, logVars
<1>2. Head(toServer) \in ClientMsg
  BY <1>1, HeadTailProperties
<1>3. Forwarded' = Forwarded
  BY <1>1, MoveHead DEF Forwarded
<1> QED BY <1>1, <1>2, <1>3, AppendFacts

(* StdinData forwards the message that is next in the client's order. *)
LEMMA StdinFacts ==
  ASSUME TypeOK, WireIntact, StdinData
  PROVE  /\ Len(Forwarded') = Len(Forwarded) + 1
         /\ Len(Forwarded) + 1 \in 1 .. Len(clientSent)
         /\ Head(toProxy) = clientSent[Len(Forwarded) + 1]
         /\ UNCHANGED <<clientSent, serverSent, serverGot, clientGot>>
<1>1. /\ toServer' = Append(toServer, Head(toProxy)) /\ toProxy # <<>>
      /\ UNCHANGED <<clientSent, serverSent, serverGot, clientGot>>
      /\ toServer \in Seq(ClientMsg) /\ toProxy \in Seq(ClientMsg) /\ serverGot \in Seq(ClientMsg)
  BY DEF TypeOK, StdinData, serverVars
<1>2. Head(toProxy) \in ClientMsg
  BY <1>1, HeadTailProperties
<1>3. toServer' \in Seq(ClientMsg) /\ Len(toServer') = Len(toServer) + 1 /\ Len(toServer) \in Nat
  BY <1>1, <1>2, AppendFacts
<1>4. Len(Forwarded) = Len(serverGot) + Len(toServer)
  BY <1>1, ConcatProperties DEF Forwarded
<1>5. Len(Forwarded') = Len(serverGot) + Len(toServer')
  <2>1. Forwarded' = serverGot \o toServer'
    BY <1>1 DEF Forwarded
  <2> QED BY <1>1, <1>3, <2>1, ConcatProperties
<1>6. Len(serverGot) \in Nat
  BY <1>1
<1> QED BY <1>1, <1>3, <1>4, <1>5, <1>6, WireFacts

(* StdoutData delivers the message that is next in the server's order. *)
LEMMA StdoutFacts ==
  ASSUME TypeOK, WireIntact, StdoutData
  PROVE  /\ Len(clientGot') = Len(clientGot) + 1
         /\ Len(clientGot) + 1 \in 1 .. Len(serverSent)
         /\ Head(fromServer) = serverSent[Len(clientGot) + 1]
         /\ UNCHANGED <<clientSent, serverSent, serverGot, toServer>>
<1>1. /\ clientGot' = Append(clientGot, Head(fromServer)) /\ fromServer # <<>>
      /\ UNCHANGED <<clientSent, serverSent, serverGot, toServer>>
      /\ clientGot \in Seq(ServerMsg) /\ fromServer \in Seq(ServerMsg)
  BY DEF TypeOK, StdoutData, Readable, ToClient, clientVars, serverVars
<1>2. Head(fromServer) \in ServerMsg
  BY <1>1, HeadTailProperties
<1> QED BY <1>1, <1>2, AppendFacts, WireFacts

(* The rest moves nothing and notes nothing about a message.                 *)
LEMMA QuietFacts ==
  ASSUME TypeOK, [Next]_vars,
         ~ClientSend, ~ServerRead, ~ServerSend, ~StdinData, ~StdoutData
  PROVE  /\ UNCHANGED <<clientSent, serverSent, serverGot, toServer, clientGot, pending, cassette>>
         /\ Forwarded' = Forwarded
         /\ \E evs \in Seq(Note) : events' = events \o evs
<1>1. UNCHANGED wireSeqs
  BY OffTheWire
<1> QED BY <1>1, OtherLines DEF wireSeqs, Forwarded

(* Nothing has been sent, forwarded or logged at the start. *)
LEMMA InitObservation == Init => ObservationInv
<1> SUFFICES ASSUME Init PROVE ObservationInv
  OBVIOUS
<1>1. /\ clientSent = <<>> /\ serverSent = <<>> /\ events = <<>> /\ clientGot = <<>>
      /\ serverGot = <<>> /\ toServer = <<>>
  BY DEF Init
<1>2. Forwarded = <<>>
  BY <1>1, ConcatEmptySeq DEF Forwarded
<1>3. Len(Forwarded) = 0 /\ Len(clientGot) = 0
  BY <1>1, <1>2
<1>4. \A ts : Tells(<<>>, ts, 0)
  BY DEF Tells, LinesOf
<1>5. Placed /\ AnswersGiven /\ CausalLog
  BY <1>1 DEF Placed, AnswersGiven, CausalLog
<1> HIDE DEF Forwarded
<1> QED BY <1>1, <1>3, <1>4, <1>5 DEF ObservationInv

(* Exactly the responses answer something. *)
LEMMA ReIsResponse ==
  \A m \in ServerMsg : /\ m.re # 0 <=> m.type = "response"
                       /\ m.re \in Nat /\ m.type \in {"response", "other"}
  BY BoundsAssumption DEF ServerMsg

(* What is sent is numbered in order, and answers what was read. *)
LEMMA NextAnswers ==
  TypeOK /\ WireIntact /\ ObservationInv /\ [Next]_vars => Placed' /\ AnswersGiven'
<1> SUFFICES ASSUME TypeOK, WireIntact, ObservationInv, [Next]_vars
             PROVE  Placed' /\ AnswersGiven'
  OBVIOUS
<1>0. Placed /\ AnswersGiven
  BY DEF ObservationInv
<1>1. CASE ClientSend
  <2>1. PICK m \in ClientMsg :
           /\ m.n = Len(clientSent) + 1
           /\ DOMAIN clientSent' = 1 .. Len(clientSent) + 1
           /\ \A k \in 1 .. Len(clientSent) : clientSent'[k] = clientSent[k]
           /\ clientSent'[Len(clientSent) + 1] = m
           /\ UNCHANGED <<serverSent, serverGot>>
    BY <1>1, ClientSendFacts
  <2>2. Placed'
    BY <1>0, <2>1, WireFacts DEF Placed
  <2>3. AnswersGiven'
    BY <1>0, <2>1, WireFacts DEF AnswersGiven
  <2> QED BY <2>2, <2>3
<1>2. CASE ServerRead
  BY <1>0, <1>2, ServerReadFacts DEF Placed, AnswersGiven
<1>3. CASE ServerSend
  <2>1. PICK m \in ServerMsg :
           /\ m.n = Len(serverSent) + 1
           /\ m.type = "response" =>
                \E i \in DOMAIN serverGot : /\ serverGot[i].type = "request"
                                            /\ serverGot[i].id = m.id /\ serverGot[i].n = m.re
           /\ DOMAIN serverSent' = 1 .. Len(serverSent) + 1
           /\ \A k \in 1 .. Len(serverSent) : serverSent'[k] = serverSent[k]
           /\ serverSent'[Len(serverSent) + 1] = m
           /\ UNCHANGED <<clientSent, serverGot>>
    BY <1>3, ServerSendFacts
  <2>2. Placed'
    BY <1>0, <2>1, WireFacts DEF Placed
  <2>3. m.re # 0 => /\ m.re \in 1 .. Len(serverGot)
                    /\ clientSent[m.re].type = "request" /\ clientSent[m.re].id = m.id
    <3> SUFFICES ASSUME m.re # 0
                 PROVE  /\ m.re \in 1 .. Len(serverGot)
                        /\ clientSent[m.re].type = "request" /\ clientSent[m.re].id = m.id
      OBVIOUS
    <3>1. PICK i \in DOMAIN serverGot : /\ serverGot[i].type = "request"
                                        /\ serverGot[i].id = m.id /\ serverGot[i].n = m.re
      BY <2>1, ReIsResponse
    <3>2. i \in 1 .. Len(serverGot) /\ serverGot[i] = clientSent[i] /\ i \in DOMAIN clientSent
      BY WireFacts
    <3>3. i = m.re
      BY <1>0, <3>1, <3>2 DEF Placed
    <3> QED BY <3>1, <3>2, <3>3
  <2>4. AnswersGiven'
    BY SMTT(30), <1>0, <2>1, <2>3, WireFacts DEF AnswersGiven
  <2> QED BY <2>2, <2>4
<1>4. CASE StdinData
  BY <1>0, <1>4, StdinFacts DEF Placed, AnswersGiven
<1>5. CASE StdoutData
  BY <1>0, <1>5, StdoutFacts DEF Placed, AnswersGiven
<1>6. CASE ~ClientSend /\ ~ServerRead /\ ~ServerSend /\ ~StdinData /\ ~StdoutData
  BY <1>0, <1>6, QuietFacts DEF Placed, AnswersGiven
<1> QED BY <1>1, <1>2, <1>3, <1>4, <1>5, <1>6

(* Notes are lines of neither direction. *)
LEMMA NoteFacts ==
  \A evs \in Seq(Note) :
    /\ evs \in Seq(LogEvent)
    /\ \A j \in 1 .. Len(evs) : evs[j].t \in NoteTypes
    /\ \A j \in 1 .. Len(evs) : evs[j].t \notin C2S_Lines /\ evs[j].t \notin S2C_Lines
<1> TAKE evs \in Seq(Note)
<1>1. Note \subseteq LogEvent
  BY DEF Note
<1>2. evs \in Seq(LogEvent)
  BY <1>1, SeqMonotonic
<1>3. \A j \in 1 .. Len(evs) : evs[j] \in Note
  OBVIOUS
<1> QED BY <1>2, <1>3 DEF Note, NoteTypes, C2S_Lines, S2C_Lines

(* Each forwarded message gets its line behind those before it. *)
LEMMA NextTells ==
  TypeOK /\ WireIntact /\ ObservationInv /\ [Next]_vars
    => /\ Tells(events', C2S_Lines, Len(Forwarded'))
       /\ Tells(events', S2C_Lines, Len(clientGot'))
<1> SUFFICES ASSUME TypeOK, WireIntact, ObservationInv, [Next]_vars
             PROVE  /\ Tells(events', C2S_Lines, Len(Forwarded'))
                    /\ Tells(events', S2C_Lines, Len(clientGot'))
  OBVIOUS
<1>0. /\ Tells(events, C2S_Lines, Len(Forwarded)) /\ Tells(events, S2C_Lines, Len(clientGot))
      /\ events \in Seq(LogEvent)
      /\ Len(Forwarded) \in Nat /\ Len(clientGot) \in Nat
  BY WireFacts DEF ObservationInv, TypeOK
<1>1. CASE ClientSend \/ ServerSend
  <2>1. UNCHANGED <<serverGot, toServer, clientGot, events>>
    BY <1>1, ClientSendFacts, ServerSendFacts
  <2>2. Forwarded' = Forwarded
    BY <2>1 DEF Forwarded
  <2> QED BY <1>0, <2>1, <2>2
<1>2. CASE ServerRead
  BY <1>0, <1>2, ServerReadFacts
<1>3. CASE StdinData
  <2>1. /\ Len(Forwarded') = Len(Forwarded) + 1 /\ clientGot' = clientGot
        /\ Head(toProxy).n = Len(Forwarded) + 1
    BY <1>3, StdinFacts, WireFacts DEF ObservationInv, Placed
  <2>2. PICK evs \in Seq(LogEvent) :
           /\ events' = events \o evs
           /\ Len(evs) >= 1 /\ evs[1] = Ev("c2s", Head(toProxy).n)
           /\ \A j \in 2 .. Len(evs) : evs[j].t = "c2s-error"
    BY <1>3, ClientLines
  <2>3. /\ evs[1].t \in C2S_Lines /\ evs[1].n = Len(Forwarded) + 1
        /\ evs[1].t \notin S2C_Lines
    BY <2>1, <2>2 DEF Ev, C2S_Lines, S2C_Lines
  <2>4. \A j \in 2 .. Len(evs) : evs[j].t \notin C2S_Lines /\ evs[j].t \notin S2C_Lines
    BY <2>2 DEF C2S_Lines, S2C_Lines
  <2>5. \A j \in 1 .. Len(evs) : evs[j].t \notin S2C_Lines
    <3>1. \A j \in 1 .. Len(evs) : j = 1 \/ j \in 2 .. Len(evs)
      OBVIOUS
    <3> QED BY <2>3, <2>4, <3>1
  <2>6. Tells(events \o evs, C2S_Lines, Len(Forwarded) + 1)
    BY <1>0, <2>2, <2>3, <2>4, TellsNext
  <2>7. Tells(events \o evs, S2C_Lines, Len(clientGot))
    BY <1>0, <2>5, TellsSame
  <2> QED BY <2>1, <2>2, <2>6, <2>7
<1>4. CASE StdoutData
  <2>1. /\ Len(clientGot') = Len(clientGot) + 1 /\ Forwarded' = Forwarded
        /\ Head(fromServer).n = Len(clientGot) + 1
    BY <1>4, StdoutFacts, WireFacts DEF ObservationInv, Placed, Forwarded
  <2>2. PICK t \in {"s2c", "s2c-error"} :
           /\ Ev(t, Head(fromServer).n) \in LogEvent
           /\ events' = events \o <<Ev(t, Head(fromServer).n)>>
    BY <1>4, ServerLines
  <2> DEFINE evs == <<Ev(t, Head(fromServer).n)>>
  <2>3. evs \in Seq(LogEvent) /\ Len(evs) = 1 /\ evs[1] = Ev(t, Head(fromServer).n)
    BY <2>2
  <2>4. events' = events \o evs
    BY <2>2
  <2> HIDE DEF evs
  <2>5. /\ evs[1].t \in S2C_Lines /\ evs[1].n = Len(clientGot) + 1
        /\ evs[1].t \notin C2S_Lines
    BY <2>1, <2>3 DEF Ev, C2S_Lines, S2C_Lines
  <2>6. /\ \A j \in 1 .. Len(evs) : evs[j].t \notin C2S_Lines
        /\ \A j \in 2 .. Len(evs) : evs[j].t \notin S2C_Lines
        /\ Len(evs) >= 1
    BY <2>3, <2>5
  <2>7. Tells(events \o evs, S2C_Lines, Len(clientGot) + 1)
    BY <1>0, <2>3, <2>5, <2>6, TellsNext
  <2>8. Tells(events \o evs, C2S_Lines, Len(Forwarded))
    BY <1>0, <2>3, <2>6, TellsSame
  <2> QED BY <2>1, <2>4, <2>7, <2>8
<1>5. CASE ~ClientSend /\ ~ServerRead /\ ~ServerSend /\ ~StdinData /\ ~StdoutData
  <2>1. PICK evs \in Seq(Note) : events' = events \o evs
    BY <1>5, QuietFacts
  <2>2. Forwarded' = Forwarded /\ clientGot' = clientGot
    BY <1>5, QuietFacts
  <2>3. /\ evs \in Seq(LogEvent)
        /\ \A j \in 1 .. Len(evs) : evs[j].t \notin C2S_Lines /\ evs[j].t \notin S2C_Lines
    BY NoteFacts
  <2>4. /\ Tells(events \o evs, C2S_Lines, Len(Forwarded))
        /\ Tells(events \o evs, S2C_Lines, Len(clientGot))
    BY <1>0, <2>3, TellsSame
  <2> QED BY <2>1, <2>2, <2>4
<1> QED BY <1>1, <1>2, <1>3, <1>4, <1>5

-----------------------------------------------------------------------------
(* Lines that are no answers leave the order of answers and requests alone.  *)
LEMMA CausalGrows ==
  ASSUME TypeOK, CausalLog, NEW evs \in Seq(LogEvent), events' = events \o evs,
         serverSent' = serverSent,
         \A j \in 1 .. Len(evs) : evs[j].t \in S2C_Lines /\ serverSent[evs[j].n].re # 0
           => \E i \in 1 .. Len(events) : events[i] = Ev("c2s", serverSent[evs[j].n].re)
  PROVE  CausalLog'
<1>1. events \in Seq(LogEvent)
  BY DEF TypeOK
<1>2. /\ Len(events) \in Nat /\ Len(evs) \in Nat /\ DOMAIN events = 1 .. Len(events)
      /\ DOMAIN events' = 1 .. Len(events) + Len(evs)
      /\ \A i \in 1 .. Len(events) : events'[i] = events[i]
      /\ \A i \in Len(events) + 1 .. Len(events) + Len(evs) :
           i - Len(events) \in 1 .. Len(evs) /\ events'[i] = evs[i - Len(events)]
  BY <1>1, Longer
<1> SUFFICES ASSUME NEW i \in DOMAIN events', events'[i].t \in S2C_Lines,
                    serverSent[events'[i].n].re # 0
             PROVE  \E j \in 1 .. i - 1 : events'[j] = Ev("c2s", serverSent[events'[i].n].re)
  BY DEF CausalLog, S2C_Lines
<1>3. CASE i \in 1 .. Len(events)
  <2>1. PICK j \in 1 .. i - 1 : events[j] = Ev("c2s", serverSent[events[i].n].re)
    BY <1>2, <1>3 DEF CausalLog, S2C_Lines
  <2>2. j \in 1 .. Len(events)
    BY <1>2, <1>3, <2>1
  <2> QED BY <1>2, <1>3, <2>1, <2>2
<1>4. CASE i \in Len(events) + 1 .. Len(events) + Len(evs)
  <2>1. i - Len(events) \in 1 .. Len(evs) /\ events'[i] = evs[i - Len(events)]
    BY <1>2, <1>4
  <2>2. PICK j \in 1 .. Len(events) : events[j] = Ev("c2s", serverSent[events'[i].n].re)
    BY <2>1
  <2>3. j \in 1 .. i - 1 /\ events'[j] = events[j]
    BY <1>2, <1>4, <2>2
  <2> QED BY <2>2, <2>3
<1> QED BY <1>2, <1>3, <1>4

(* An answer's line comes when its request has been forwarded, so logged. *)
LEMMA NextCausal ==
  TypeOK /\ WireIntact /\ ObservationInv /\ [Next]_vars => CausalLog'
<1> SUFFICES ASSUME TypeOK, WireIntact, ObservationInv, [Next]_vars PROVE CausalLog'
  OBVIOUS
<1>0. CausalLog /\ events \in Seq(LogEvent)
  BY DEF ObservationInv, TypeOK
<1>1. CASE ClientSend \/ ServerRead
  <2>1. UNCHANGED <<serverSent, events>>
    BY <1>1, ClientSendFacts, ServerReadFacts
  <2> QED BY <1>0, <2>1 DEF CausalLog
<1>2. CASE ServerSend
  <2>1. /\ \A k \in 1 .. Len(serverSent) : serverSent'[k] = serverSent[k]
        /\ events' = events
    BY <1>2, ServerSendFacts
  <2>2. \A i \in DOMAIN events : events[i].t \in S2C_Lines
           => events[i].n \in 1 .. Len(serverSent)
    <3>1. \A i \in DOMAIN events : events[i].t \in S2C_Lines
             => events[i].n \in 1 .. Len(clientGot)
      BY DEF ObservationInv, Tells, LinesOf
    <3> QED BY <3>1, WireFacts
  <2> QED BY <1>0, <2>1, <2>2 DEF CausalLog, S2C_Lines
<1>3. CASE StdinData
  <2>1. PICK evs \in Seq(LogEvent) :
           /\ events' = events \o evs
           /\ Len(evs) >= 1 /\ evs[1] = Ev("c2s", Head(toProxy).n)
           /\ \A j \in 2 .. Len(evs) : evs[j].t = "c2s-error"
    BY <1>3, ClientLines
  <2>2. \A j \in 1 .. Len(evs) : evs[j].t \notin S2C_Lines
    <3>1. \A j \in 1 .. Len(evs) : j = 1 \/ j \in 2 .. Len(evs)
      OBVIOUS
    <3> QED BY <2>1, <3>1 DEF S2C_Lines, Ev
  <2>3. serverSent' = serverSent
    BY <1>3, StdinFacts
  <2> QED BY <1>0, <2>1, <2>2, <2>3, CausalGrows
<1>4. CASE StdoutData
  <2> DEFINE m == Head(fromServer)
  <2>1. PICK t \in {"s2c", "s2c-error"} :
           Ev(t, m.n) \in LogEvent /\ events' = events \o <<Ev(t, m.n)>>
    BY <1>4, ServerLines
  <2> DEFINE evs == <<Ev(t, m.n)>>
  <2>2. /\ evs \in Seq(LogEvent) /\ Len(evs) = 1 /\ evs[1] = Ev(t, m.n)
        /\ events' = events \o evs
    BY <2>1
  <2> HIDE DEF evs
  <2>3. /\ Len(clientGot) + 1 \in 1 .. Len(serverSent) /\ m = serverSent[Len(clientGot) + 1]
        /\ serverSent' = serverSent
    BY <1>4, StdoutFacts
  <2>4. m.n = Len(clientGot) + 1
    BY <2>3, WireFacts DEF ObservationInv, Placed
  <2>5. ASSUME m.re # 0 PROVE \E i \in 1 .. Len(events) : events[i] = Ev("c2s", m.re)
    <3>1. m.re \in 1 .. Len(Forwarded)
      BY <2>3, <2>5, WireFacts DEF ObservationInv, AnswersGiven
    <3>2. PICK i \in LinesOf(events, C2S_Lines) : events[i].n = m.re
      BY <3>1 DEF ObservationInv, Tells
    <3>3. i \in 1 .. Len(events) /\ events[i] \in LogEvent /\ events[i].t = "c2s"
      BY <1>0, <3>2 DEF LinesOf, C2S_Lines
    <3>4. events[i] = Ev("c2s", m.re)
      BY <3>2, <3>3 DEF LogEvent, Ev
    <3> QED BY <3>3, <3>4
  <2>6. \A j \in 1 .. Len(evs) : j = 1 /\ evs[j].n = Len(clientGot) + 1
    BY <2>2, <2>4 DEF Ev
  <2>7. \A j \in 1 .. Len(evs) : evs[j].t \in S2C_Lines /\ serverSent[evs[j].n].re # 0
           => \E i \in 1 .. Len(events) : events[i] = Ev("c2s", serverSent[evs[j].n].re)
    BY <2>3, <2>5, <2>6
  <2> QED BY <1>0, <2>2, <2>3, <2>7, CausalGrows
<1>5. CASE ~ClientSend /\ ~ServerRead /\ ~ServerSend /\ ~StdinData /\ ~StdoutData
  <2>1. PICK evs \in Seq(Note) : events' = events \o evs
    BY <1>5, QuietFacts
  <2>2. serverSent' = serverSent
    BY <1>5, QuietFacts
  <2> QED BY <1>0, <2>1, <2>2, NoteFacts, CausalGrows
<1> QED BY <1>1, <1>2, <1>3, <1>4, <1>5

(* The three parts together. *)
LEMMA NextObservation ==
  TypeOK /\ WireIntact /\ ObservationInv /\ [Next]_vars => ObservationInv'
  BY NextAnswers, NextTells, NextCausal DEF ObservationInv

(* What the proofs below start from.                                         *)
HistoryInv == TypeOK /\ WireIntact /\ ObservationInv

(* The types, the wire and the observation, in every reachable state. *)
LEMMA HistoryInvariant == Spec => []HistoryInv
<1>1. Init => HistoryInv
  BY InitType, InitWire, InitObservation DEF HistoryInv
<1>2. HistoryInv /\ [Next]_vars => HistoryInv'
  BY NextType, NextWire, NextObservation DEF HistoryInv
<1> QED BY <1>1, <1>2, PTL DEF Spec

(* The log lists the messages of each direction as they were forwarded:      *)
(* every one once and in order.                                              *)
THEOREM ObservationAlwaysExact == Spec => []ObservationIsExact
<1>1. HistoryInv => ObservationIsExact
  BY ObservationInvImplies DEF HistoryInv
<1> QED BY <1>1, HistoryInvariant, PTL

(* No answer's line ever precedes its request's.                             *)
THEOREM LogAlwaysCausal == Spec => []CausalLog
<1>1. HistoryInv => CausalLog
  BY DEF HistoryInv, ObservationInv
<1> QED BY <1>1, HistoryInvariant, PTL

-----------------------------------------------------------------------------
(* The correlator's map.                                                     *)

(* What has been sent stays as it was sent.                                  *)
LEMMA SentGrows ==
  ASSUME HistoryInv, [Next]_vars
  PROVE  /\ \A k \in DOMAIN clientSent : k \in DOMAIN clientSent' /\ clientSent'[k] = clientSent[k]
         /\ \A k \in DOMAIN serverSent : k \in DOMAIN serverSent' /\ serverSent'[k] = serverSent[k]
<1> USE DEF HistoryInv
<1>1. CASE ClientSend
  <2>1. /\ DOMAIN clientSent = 1 .. Len(clientSent) /\ Len(clientSent) \in Nat
        /\ DOMAIN clientSent' = 1 .. Len(clientSent) + 1
        /\ \A k \in 1 .. Len(clientSent) : clientSent'[k] = clientSent[k]
        /\ serverSent' = serverSent
    BY <1>1, ClientSendFacts
  <2> QED BY <2>1
<1>2. CASE ServerSend
  <2>1. /\ DOMAIN serverSent = 1 .. Len(serverSent) /\ Len(serverSent) \in Nat
        /\ DOMAIN serverSent' = 1 .. Len(serverSent) + 1
        /\ \A k \in 1 .. Len(serverSent) : serverSent'[k] = serverSent[k]
        /\ clientSent' = clientSent
    BY <1>2, ServerSendFacts
  <2> QED BY <2>1
<1>3. CASE ~ClientSend /\ ~ServerSend
  <2>1. clientSent' = clientSent /\ serverSent' = serverSent
    BY <1>3, ServerReadFacts, StdinFacts, StdoutFacts, QuietFacts
  <2> QED BY <2>1
<1> QED BY <1>1, <1>2, <1>3

(* The lines already in the log keep their place and their meaning.          *)
LEMMA OldLines ==
  ASSUME HistoryInv, [Next]_vars, NEW evs \in Seq(LogEvent), events' = events \o evs
  PROVE  /\ \A i \in DOMAIN events : i \in DOMAIN events' /\ events'[i] = events[i]
         /\ \A k \in Keys : /\ AskedAt(k)' \cap DOMAIN events = AskedAt(k)
                            /\ AnsweredAt(k)' \cap DOMAIN events = AnsweredAt(k)
<1>1. events \in Seq(LogEvent)
  BY DEF HistoryInv, TypeOK
<1>2. \A i \in DOMAIN events : i \in DOMAIN events' /\ events'[i] = events[i]
  BY <1>1, Longer
<1>3. \A i \in DOMAIN events : events[i].t = "c2s"
         => events[i].n \in DOMAIN clientSent /\ clientSent'[events[i].n] = clientSent[events[i].n]
  <2>1. \A i \in DOMAIN events : events[i].t = "c2s" => events[i].n \in 1 .. Len(Forwarded)
    BY DEF HistoryInv, ObservationInv, Tells, LinesOf, C2S_Lines
  <2> QED BY <2>1, SentGrows, WireFacts DEF HistoryInv
<1>4. \A i \in DOMAIN events : events[i].t \in {"s2c", "s2c-error"}
         => events[i].n \in DOMAIN serverSent /\ serverSent'[events[i].n] = serverSent[events[i].n]
  <2>1. \A i \in DOMAIN events : events[i].t \in {"s2c", "s2c-error"}
           => events[i].n \in 1 .. Len(clientGot)
    BY DEF HistoryInv, ObservationInv, Tells, LinesOf, S2C_Lines
  <2> QED BY <2>1, SentGrows, WireFacts DEF HistoryInv
<1>5. ASSUME NEW k \in Keys
      PROVE  /\ AskedAt(k)' \cap DOMAIN events = AskedAt(k)
             /\ AnsweredAt(k)' \cap DOMAIN events = AnsweredAt(k)
  <2>1. AskedAt(k)' = {i \in DOMAIN events' :
                         /\ events'[i].t = "c2s"
                         /\ Keyed(clientSent'[events'[i].n])
                         /\ KeyOf[clientSent'[events'[i].n].id] = k}
    BY DEF AskedAt, Keyed
  <2>2. AnsweredAt(k)' = {i \in DOMAIN events' :
                            /\ events'[i].t \in {"s2c", "s2c-error"}
                            /\ Keyed(serverSent'[events'[i].n])
                            /\ KeyOf[serverSent'[events'[i].n].id] = k}
    BY DEF AnsweredAt, Keyed
  <2>3. AskedAt(k)' \cap DOMAIN events = AskedAt(k)
    BY <1>2, <1>3, <2>1 DEF AskedAt
  <2>4. AnsweredAt(k)' \cap DOMAIN events = AnsweredAt(k)
    BY <1>2, <1>4, <2>2 DEF AnsweredAt
  <2> QED BY <2>3, <2>4
<1> QED BY <1>2, <1>5

(* The line of a request from the client, of a response from the server.     *)
Asks(m, k) == Keyed(m) /\ KeyOf[m.id] = k

(* What a client's message changes in the two sets of lines. *)
LEMMA NewAsks ==
  ASSUME HistoryInv, StdinData, NEW k \in Keys
  PROVE  /\ AskedAt(k)' = AskedAt(k) \cup (IF Asks(Head(toProxy), k) THEN {Len(events) + 1} ELSE {})
         /\ AnsweredAt(k)' = AnsweredAt(k)
         /\ events'[Len(events) + 1].n = Head(toProxy).n
         /\ \A i \in DOMAIN events : events'[i] = events[i]
<1> DEFINE m == Head(toProxy)
           L == Len(events)
<1>0. events \in Seq(LogEvent) /\ [Next]_vars
  BY DEF HistoryInv, TypeOK, Next, ProxyStep
<1>1. PICK evs \in Seq(LogEvent) :
         /\ events' = events \o evs
         /\ Len(evs) >= 1 /\ evs[1] = Ev("c2s", m.n)
         /\ \A j \in 2 .. Len(evs) : evs[j].t = "c2s-error"
  BY ClientLines DEF HistoryInv
<1>2. /\ L \in Nat /\ Len(evs) \in Nat /\ DOMAIN events = 1 .. L
      /\ DOMAIN events' = 1 .. L + Len(evs)
      /\ events'[L + 1] = evs[1]
      /\ \A i \in L + 1 .. L + Len(evs) : i - L \in 1 .. Len(evs) /\ events'[i] = evs[i - L]
  BY <1>0, <1>1, Longer
<1>3. /\ AskedAt(k)' \cap DOMAIN events = AskedAt(k)
      /\ AnsweredAt(k)' \cap DOMAIN events = AnsweredAt(k)
      /\ \A i \in DOMAIN events : events'[i] = events[i]
  BY <1>0, <1>1, OldLines
<1>4. m = clientSent[m.n] /\ clientSent' = clientSent
  <2>1. /\ Len(Forwarded) + 1 \in 1 .. Len(clientSent)
        /\ m = clientSent[Len(Forwarded) + 1] /\ clientSent' = clientSent
    BY StdinFacts DEF HistoryInv
  <2>2. m.n = Len(Forwarded) + 1
    BY <2>1, WireFacts DEF HistoryInv, ObservationInv, Placed
  <2> QED BY <2>1, <2>2
<1>5. events'[L + 1].t = "c2s" /\ events'[L + 1].n = m.n
  BY <1>1, <1>2 DEF Ev
<1>6. \A i \in L + 2 .. L + Len(evs) : events'[i].t = "c2s-error"
  <2> TAKE i \in L + 2 .. L + Len(evs)
  <2>1. i - L \in 2 .. Len(evs) /\ events'[i] = evs[i - L]
    BY <1>2
  <2> QED BY <1>1, <2>1
<1> HIDE DEF m, L
<1>7. \A i \in DOMAIN events' : i \in DOMAIN events \/ i = L + 1 \/ i \in L + 2 .. L + Len(evs)
  BY <1>2
<1>8. L + 1 \in DOMAIN events' /\ L + 1 \notin DOMAIN events
  BY <1>1, <1>2
<1>9. AskedAt(k)' = {i \in DOMAIN events' :
                         /\ events'[i].t = "c2s"
                         /\ Keyed(clientSent'[events'[i].n])
                         /\ KeyOf[clientSent'[events'[i].n].id] = k}
  BY DEF AskedAt, Keyed
<1>10. \A i \in AnsweredAt(k)' : i \in DOMAIN events' /\ events'[i].t \in {"s2c", "s2c-error"}
  BY DEF AnsweredAt
<1>11. AnsweredAt(k)' = AnsweredAt(k)
  BY <1>3, <1>5, <1>6, <1>7, <1>10
<1>12. L + 1 \in AskedAt(k)' <=> Asks(m, k)
  BY <1>4, <1>5, <1>8, <1>9 DEF Asks
<1>13. \A i \in AskedAt(k)' : i \in AskedAt(k) \/ i = L + 1
  BY <1>3, <1>6, <1>7, <1>9
<1>14. AskedAt(k)' = AskedAt(k) \cup (IF Asks(m, k) THEN {L + 1} ELSE {})
  BY <1>3, <1>12, <1>13
<1> QED BY <1>3, <1>5, <1>11, <1>14 DEF m, L

(* What a server's message changes in them. *)
LEMMA NewAnswers ==
  ASSUME HistoryInv, StdoutData, NEW k \in Keys
  PROVE  /\ AskedAt(k)' = AskedAt(k)
         /\ AnsweredAt(k)' =
              AnsweredAt(k) \cup (IF Asks(Head(fromServer), k) THEN {Len(events) + 1} ELSE {})
         /\ \A i \in DOMAIN events : events'[i] = events[i]
<1> DEFINE m == Head(fromServer)
           L == Len(events)
<1>0. events \in Seq(LogEvent) /\ [Next]_vars
  BY DEF HistoryInv, TypeOK, Next, ProxyStep
<1>1. PICK t \in {"s2c", "s2c-error"} :
         Ev(t, m.n) \in LogEvent /\ events' = events \o <<Ev(t, m.n)>>
  BY ServerLines DEF HistoryInv
<1> DEFINE evs == <<Ev(t, m.n)>>
<1>2. evs \in Seq(LogEvent) /\ Len(evs) = 1 /\ evs[1] = Ev(t, m.n) /\ events' = events \o evs
  BY <1>1
<1> HIDE DEF evs
<1>3. /\ L \in Nat /\ DOMAIN events = 1 .. L /\ DOMAIN events' = 1 .. L + 1
      /\ events'[L + 1] = evs[1]
  BY <1>0, <1>2, Longer
<1>4. /\ AskedAt(k)' \cap DOMAIN events = AskedAt(k)
      /\ AnsweredAt(k)' \cap DOMAIN events = AnsweredAt(k)
      /\ \A i \in DOMAIN events : events'[i] = events[i]
  BY <1>0, <1>2, OldLines
<1>5. m = serverSent[m.n] /\ serverSent' = serverSent
  <2>1. /\ Len(clientGot) + 1 \in 1 .. Len(serverSent)
        /\ m = serverSent[Len(clientGot) + 1] /\ serverSent' = serverSent
    BY StdoutFacts DEF HistoryInv
  <2>2. m.n = Len(clientGot) + 1
    BY <2>1, WireFacts DEF HistoryInv, ObservationInv, Placed
  <2> QED BY <2>1, <2>2
<1>6. events'[L + 1].t \in {"s2c", "s2c-error"} /\ events'[L + 1].n = m.n
  BY <1>2, <1>3 DEF Ev
<1> HIDE DEF m, L
<1>7. \A i \in DOMAIN events' : i \in DOMAIN events \/ i = L + 1
  BY <1>3
<1>8. L + 1 \in DOMAIN events' /\ L + 1 \notin DOMAIN events
  BY <1>3
<1>9. AnsweredAt(k)' = {i \in DOMAIN events' :
                            /\ events'[i].t \in {"s2c", "s2c-error"}
                            /\ Keyed(serverSent'[events'[i].n])
                            /\ KeyOf[serverSent'[events'[i].n].id] = k}
  BY DEF AnsweredAt, Keyed
<1>10. \A i \in AskedAt(k)' : i \in DOMAIN events' /\ events'[i].t = "c2s"
  BY DEF AskedAt
<1>11. AskedAt(k)' = AskedAt(k)
  BY <1>4, <1>6, <1>7, <1>10
<1>12. L + 1 \in AnsweredAt(k)' <=> Asks(m, k)
  BY <1>5, <1>6, <1>8, <1>9 DEF Asks
<1>13. \A i \in AnsweredAt(k)' : i \in AnsweredAt(k) \/ i = L + 1
  BY <1>4, <1>7, <1>9
<1>14. AnsweredAt(k)' = AnsweredAt(k) \cup (IF Asks(m, k) THEN {L + 1} ELSE {})
  BY <1>4, <1>12, <1>13
<1> QED BY <1>4, <1>11, <1>14 DEF m, L

(* Every other step leaves both sets as they are. *)
LEMMA NoNewPairs ==
  ASSUME HistoryInv, [Next]_vars, ~StdinData, ~StdoutData, NEW k \in Keys
  PROVE  /\ AskedAt(k)' = AskedAt(k) /\ AnsweredAt(k)' = AnsweredAt(k)
         /\ \A i \in DOMAIN events : events'[i] = events[i]
<1>1. PICK evs \in Seq(Note) : events' = events \o evs
  BY OtherLines DEF HistoryInv
<1>2. /\ evs \in Seq(LogEvent) /\ events \in Seq(LogEvent)
      /\ \A j \in 1 .. Len(evs) : evs[j].t \in NoteTypes
  BY NoteFacts DEF HistoryInv, TypeOK
<1>3. \A i \in DOMAIN events' : i \in DOMAIN events \/ events'[i].t \in NoteTypes
  <2> TAKE i \in DOMAIN events'
  <2>1. i \in DOMAIN events \/ \E j \in 1 .. Len(evs) : events'[i] = evs[j]
    BY <1>1, <1>2, Longer
  <2> QED BY <1>2, <2>1
<1>4. /\ AskedAt(k)' \cap DOMAIN events = AskedAt(k)
      /\ AnsweredAt(k)' \cap DOMAIN events = AnsweredAt(k)
      /\ \A i \in DOMAIN events : events'[i] = events[i]
  BY <1>1, <1>2, OldLines
<1>5. \A i \in AskedAt(k)' : i \in DOMAIN events' /\ events'[i].t \notin NoteTypes
  BY DEF AskedAt, NoteTypes
<1>6. \A i \in AnsweredAt(k)' : i \in DOMAIN events' /\ events'[i].t \notin NoteTypes
  BY DEF AnsweredAt, NoteTypes
<1> QED BY <1>3, <1>4, <1>5, <1>6

-----------------------------------------------------------------------------
(* What is pending under a key that was asked at the lines A and answered at *)
(* the lines B of the log ev.                                                *)
Exact(A, B, p, ev) ==
  \/ A = {} /\ p = 0
  \/ \E l \in A : /\ \A i \in A : i <= l
                  /\ p = IF \E b \in B : b > l THEN 0 ELSE ev[l].n

PendingInv == \A k \in Keys : Exact(AskedAt(k), AnsweredAt(k), pending[k], events)

(* The greatest element, where there is one, is what Max chooses. *)
LEMMA MaxIs ==
  \A A \in SUBSET Nat : \A l \in A : (\A i \in A : i <= l) => Max(A) = l
<1> TAKE A \in SUBSET Nat
<1> TAKE l \in A
<1> HAVE \A i \in A : i <= l
<1>1. l \in A /\ \A y \in A : l >= y
  OBVIOUS
<1>2. Max(A) \in A /\ \A y \in A : Max(A) >= y
  BY <1>1 DEF Max
<1>3. l \in Nat /\ Max(A) \in Nat /\ Max(A) >= l /\ l >= Max(A)
  BY <1>1, <1>2
<1> QED BY <1>3

(* Both sets are sets of lines of the log. *)
LEMMA LinesAt ==
  ASSUME HistoryInv, NEW k \in Keys
  PROVE  /\ AskedAt(k) \subseteq 1 .. Len(events) /\ AnsweredAt(k) \subseteq 1 .. Len(events)
         /\ Len(events) \in Nat /\ DOMAIN events = 1 .. Len(events)
<1>1. events \in Seq(LogEvent)
  BY DEF HistoryInv, TypeOK
<1>2. Len(events) \in Nat /\ DOMAIN events = 1 .. Len(events)
  BY <1>1
<1> QED BY <1>2 DEF AskedAt, AnsweredAt

(* Exact says with a bound what the property says with Max. *)
LEMMA PendingInvImplies == HistoryInv /\ PendingInv => PendingIsExact
<1> SUFFICES ASSUME HistoryInv, PendingInv, NEW k \in Keys
             PROVE  IF AskedAt(k) = {} \/ \E a \in AnsweredAt(k) : a > Max(AskedAt(k))
                    THEN pending[k] = 0
                    ELSE pending[k] = events[Max(AskedAt(k))].n
  BY DEF PendingIsExact
<1>1. Exact(AskedAt(k), AnsweredAt(k), pending[k], events)
  BY DEF PendingInv
<1>2. AskedAt(k) \in SUBSET Nat
  BY LinesAt
<1> DEFINE A == AskedAt(k)
           B == AnsweredAt(k)
<1> HIDE DEF A, B
<1>3. CASE A = {} /\ pending[k] = 0
  BY <1>3 DEF A
<1>4. CASE \E l \in A : /\ \A i \in A : i <= l
                        /\ pending[k] = IF \E b \in B : b > l THEN 0 ELSE events[l].n
  <2>1. PICK l \in A : /\ \A i \in A : i <= l
                       /\ pending[k] = IF \E b \in B : b > l THEN 0 ELSE events[l].n
    BY <1>4
  <2>2. Max(A) = l
    BY <1>2, <2>1, MaxIs DEF A
  <2> QED BY <2>1, <2>2 DEF A, B
<1> QED BY <1>1, <1>3, <1>4 DEF Exact, A, B

(* Exact speaks only of the lines of A. *)
LEMMA ExactSame ==
  \A A, B, p, ev, ev2 :
    Exact(A, B, p, ev) /\ (\A i \in A : ev2[i] = ev[i]) => Exact(A, B, p, ev2)
  BY DEF Exact

(* A request logged last is what its key stands for. *)
LEMMA ExactAsked ==
  \A L \in Nat : \A A, B \in SUBSET (1 .. L) : \A ev :
    Exact(A \cup {L + 1}, B, ev[L + 1].n, ev)
<1> TAKE L \in Nat
<1> TAKE A, B \in SUBSET (1 .. L)
<1> TAKE ev
<1>1. \A i \in A \cup {L + 1} : i <= L + 1
  OBVIOUS
<1>2. ~ \E b \in B : b > L + 1
  OBVIOUS
<1> QED BY <1>1, <1>2 DEF Exact

(* A response logged last leaves its key free. *)
LEMMA ExactAnswered ==
  \A L \in Nat : \A A, B \in SUBSET (1 .. L) : \A p, ev, ev2 :
    Exact(A, B, p, ev) => Exact(A, B \cup {L + 1}, 0, ev2)
<1> TAKE L \in Nat
<1> TAKE A, B \in SUBSET (1 .. L)
<1> TAKE p, ev, ev2
<1> HAVE Exact(A, B, p, ev)
<1>1. \A l \in A : L + 1 > l
  OBVIOUS
<1> QED BY <1>1 DEF Exact

(* No key is asked for or pending at the start. *)
LEMMA InitPending == Init => PendingInv
<1> SUFFICES ASSUME Init PROVE PendingInv
  OBVIOUS
<1>1. events = <<>> /\ \A k \in Keys : pending[k] = 0
  BY DEF Init
<1>2. \A k \in Keys : AskedAt(k) = {}
  BY <1>1 DEF AskedAt
<1> QED BY <1>1, <1>2 DEF PendingInv, Exact

(* StdinData and StdoutData change the map as they change the log. *)
LEMMA NextPending == HistoryInv /\ PendingInv /\ [Next]_vars => PendingInv'
<1> SUFFICES ASSUME HistoryInv, PendingInv, [Next]_vars, NEW k \in Keys
             PROVE  Exact(AskedAt(k)', AnsweredAt(k)', pending'[k], events')
  BY DEF PendingInv
<1>0. /\ Exact(AskedAt(k), AnsweredAt(k), pending[k], events)
      /\ AskedAt(k) \in SUBSET (1 .. Len(events)) /\ AnsweredAt(k) \in SUBSET (1 .. Len(events))
      /\ Len(events) \in Nat /\ DOMAIN events = 1 .. Len(events)
      /\ pending \in [Keys -> 0 .. MaxClient]
  BY LinesAt DEF PendingInv, HistoryInv, TypeOK
<1>1. CASE StdinData
  <2> DEFINE m == Head(toProxy)
  <2>1. pending' = IF Keyed(m) THEN [pending EXCEPT ![KeyOf[m.id]] = m.n] ELSE pending
    BY <1>1 DEF StdinData, ObserveClient
  <2>2. /\ AskedAt(k)' = AskedAt(k) \cup (IF Asks(m, k) THEN {Len(events) + 1} ELSE {})
        /\ AnsweredAt(k)' = AnsweredAt(k)
        /\ events'[Len(events) + 1].n = m.n
        /\ \A i \in DOMAIN events : events'[i] = events[i]
    BY <1>1, NewAsks
  <2> HIDE DEF m
  <2>3. CASE Asks(m, k)
    <3>1. pending'[k] = events'[Len(events) + 1].n
      BY <1>0, <2>1, <2>2, <2>3 DEF Asks
    <3>2. AskedAt(k)' = AskedAt(k) \cup {Len(events) + 1}
      BY <2>2, <2>3
    <3> QED BY <1>0, <2>2, <3>1, <3>2, ExactAsked
  <2>4. CASE ~Asks(m, k)
    <3>1. pending'[k] = pending[k]
      BY <1>0, <2>1, <2>4 DEF Asks
    <3>2. AskedAt(k)' = AskedAt(k)
      BY <2>2, <2>4
    <3> QED BY <1>0, <2>2, <3>1, <3>2, ExactSame
  <2> QED BY <2>3, <2>4
<1>2. CASE StdoutData
  <2> DEFINE m == Head(fromServer)
  <2>1. pending' = IF Matched(m) THEN [pending EXCEPT ![KeyOf[m.id]] = 0] ELSE pending
    BY <1>2 DEF StdoutData, ObserveServer, Forget, obsVars
  <2>2. /\ AskedAt(k)' = AskedAt(k)
        /\ AnsweredAt(k)' = AnsweredAt(k) \cup (IF Asks(m, k) THEN {Len(events) + 1} ELSE {})
        /\ \A i \in DOMAIN events : events'[i] = events[i]
    BY <1>2, NewAnswers
  <2> HIDE DEF m
  <2>3. CASE Asks(m, k)
    <3>1. pending'[k] = 0
      BY <1>0, <2>1, <2>3 DEF Asks, Matched
    <3>2. AnsweredAt(k)' = AnsweredAt(k) \cup {Len(events) + 1}
      BY <2>2, <2>3
    <3> QED BY <1>0, <2>2, <3>1, <3>2, ExactAnswered
  <2>4. CASE ~Asks(m, k)
    <3>1. pending'[k] = pending[k]
      BY <1>0, <2>1, <2>4 DEF Asks, Matched
    <3>2. AnsweredAt(k)' = AnsweredAt(k)
      BY <2>2, <2>4
    <3> QED BY <1>0, <2>2, <3>1, <3>2, ExactSame
  <2> QED BY <2>3, <2>4
<1>3. CASE ~StdinData /\ ~StdoutData
  <2>1. /\ AskedAt(k)' = AskedAt(k) /\ AnsweredAt(k)' = AnsweredAt(k)
        /\ \A i \in DOMAIN events : events'[i] = events[i]
    BY <1>3, NoNewPairs
  <2>2. pending' = pending
    BY <1>3, OtherLines DEF HistoryInv
  <2> QED BY <1>0, <2>1, <2>2, ExactSame
<1> QED BY <1>1, <1>2, <1>3

(* The correlator's map is what the history says, whatever the client does   *)
(* with its keys: the last request under a key is pending exactly when no     *)
(* response has come under that key since.                                   *)
THEOREM PendingAlwaysExact == Spec => []PendingIsExact
<1>1. Init => PendingInv
  BY InitPending
<1>2. HistoryInv /\ PendingInv /\ [Next]_vars => PendingInv'
  BY NextPending
<1>3. HistoryInv /\ PendingInv => PendingIsExact
  BY PendingInvImplies
<1> QED BY <1>1, <1>2, <1>3, HistoryInvariant, PTL DEF Spec

-----------------------------------------------------------------------------
(* Sessions whose client does not reuse keys.                                *)

(* Requests in flight have a key each.                                       *)
KeysDiffer ==
  \A p, q \in DOMAIN clientSent : \A k \in Keys :
    Asks(clientSent[p], k) /\ Asks(clientSent[q], k) => p = q

Answered(p) == \E a \in 1 .. Len(clientGot) : serverSent[a].re = p

(* The request p has the key k, has been forwarded and awaits its answer.    *)
Awaits(k, p) == /\ p \in 1 .. Len(Forwarded) /\ Asks(clientSent[p], k)
                /\ ~Answered(p)

PendingAwaits == \A k \in Keys : \A p \in Nat \ {0} : pending[k] = p <=> Awaits(k, p)

(* The key of a message of the client.                                       *)
LEMMA KeyOfClient ==
  ASSUME TypeOK, NEW p \in DOMAIN clientSent, Keyed(clientSent[p])
  PROVE  /\ clientSent[p].type = "request"
         /\ \E k \in Keys : Asks(clientSent[p], k)
<1>1. clientSent[p] \in ClientMsg
  BY DEF TypeOK
<1>2. clientSent[p].type = "request" /\ clientSent[p].id \in Ids \ HardIds
  BY <1>1 DEF ClientMsg, Keyed
<1> QED BY <1>2, KeyAssumption DEF Asks

(* A response has the key of the request it answers.                         *)
LEMMA KeyOfAnswer ==
  ASSUME HistoryInv, NEW a \in 1 .. Len(serverSent), NEW k \in Keys
  PROVE  /\ Asks(serverSent[a], k) =>
              /\ serverSent[a].re \in 1 .. Len(Forwarded)
              /\ Asks(clientSent[serverSent[a].re], k)
         /\ serverSent[a].re # 0 =>
              /\ serverSent[a].re \in 1 .. Len(Forwarded)
              /\ (Asks(clientSent[serverSent[a].re], k) => Asks(serverSent[a], k))
<1>1. serverSent[a] \in ServerMsg /\ a \in DOMAIN serverSent
  BY WireFacts DEF HistoryInv, TypeOK
<1>2. /\ serverSent[a].re # 0 <=> serverSent[a].type = "response"
      /\ serverSent[a].type \in {"response", "other"}
  BY <1>1, ReIsResponse
<1>3. serverSent[a].re # 0 =>
        /\ serverSent[a].re \in 1 .. Len(serverGot)
        /\ clientSent[serverSent[a].re].type = "request"
        /\ clientSent[serverSent[a].re].id = serverSent[a].id
  BY <1>1 DEF HistoryInv, ObservationInv, AnswersGiven
<1>4. \A p \in 1 .. Len(serverGot) : p \in 1 .. Len(Forwarded)
  BY WireFacts DEF HistoryInv
<1>5. Keyed(serverSent[a]) => serverSent[a].re # 0
  BY <1>2 DEF Keyed
<1> HIDE DEF Forwarded
<1> QED BY <1>2, <1>3, <1>4, <1>5 DEF Asks, Keyed

(* The client sends no key twice. *)
LEMMA NextKeys ==
  ~ReuseKeys /\ HistoryInv /\ KeysDiffer /\ [Next]_vars => KeysDiffer'
<1> SUFFICES ASSUME ~ReuseKeys, HistoryInv, KeysDiffer, [Next]_vars PROVE KeysDiffer'
  OBVIOUS
<1>1. CASE ClientSend
  <2>1. PICK m \in ClientMsg :
           /\ Keyed(m) /\ ~ReuseKeys => KeyOf[m.id] \notin KeysUsed
           /\ DOMAIN clientSent = 1 .. Len(clientSent) /\ Len(clientSent) \in Nat
           /\ DOMAIN clientSent' = 1 .. Len(clientSent) + 1
           /\ \A k \in 1 .. Len(clientSent) : clientSent'[k] = clientSent[k]
           /\ clientSent'[Len(clientSent) + 1] = m
    BY <1>1, ClientSendFacts DEF HistoryInv
  <2>2. \A p \in DOMAIN clientSent : \A k \in Keys : Asks(clientSent[p], k) => k \in KeysUsed
    BY DEF KeysUsed, Asks
  <2>3. \A k \in Keys : Asks(m, k) => k \notin KeysUsed
    BY <2>1 DEF Asks
  <2> SUFFICES ASSUME NEW p \in DOMAIN clientSent', NEW q \in DOMAIN clientSent', NEW k \in Keys,
                      Asks(clientSent'[p], k), Asks(clientSent'[q], k)
               PROVE  p = q
    BY DEF KeysDiffer, Asks, Keyed
  <2>4. CASE p \in DOMAIN clientSent /\ q \in DOMAIN clientSent
    BY <2>1, <2>4 DEF KeysDiffer
  <2>5. CASE p = Len(clientSent) + 1 /\ q = Len(clientSent) + 1
    BY <2>5
  <2>6. CASE p \in DOMAIN clientSent /\ q = Len(clientSent) + 1
    BY <2>1, <2>2, <2>3, <2>6
  <2>7. CASE q \in DOMAIN clientSent /\ p = Len(clientSent) + 1
    BY <2>1, <2>2, <2>3, <2>7
  <2> QED BY <2>1, <2>4, <2>5, <2>6, <2>7
<1>2. CASE ~ClientSend
  <2>1. clientSent' = clientSent
    BY <1>2, ServerReadFacts, ServerSendFacts, StdinFacts, StdoutFacts, QuietFacts DEF HistoryInv
  <2> QED BY <2>1 DEF KeysDiffer, Asks, Keyed
<1> QED BY <1>1, <1>2

(* The messages forwarded, and those delivered, do not change any more.       *)
LEMMA AwaitsSame ==
  ASSUME HistoryInv, [Next]_vars, ~StdinData, ~StdoutData, NEW k \in Keys, NEW p
  PROVE  /\ Awaits(k, p)' <=> Awaits(k, p)
         /\ Answered(p)' <=> Answered(p)
         /\ Len(Forwarded') = Len(Forwarded) /\ Len(clientGot') = Len(clientGot)
<1>1. Forwarded' = Forwarded /\ clientGot' = clientGot
  <2>1. CASE ClientSend \/ ServerSend
    BY <2>1, ClientSendFacts, ServerSendFacts DEF Forwarded, HistoryInv
  <2>2. CASE ServerRead
    BY <2>2, ServerReadFacts DEF HistoryInv
  <2>3. CASE ~ClientSend /\ ~ServerSend /\ ~ServerRead
    BY <2>3, QuietFacts DEF HistoryInv
  <2> QED BY <2>1, <2>2, <2>3
<1>2. \A q \in 1 .. Len(Forwarded) : clientSent'[q] = clientSent[q]
  BY SentGrows, WireFacts DEF HistoryInv
<1>3. \A a \in 1 .. Len(clientGot) : serverSent'[a] = serverSent[a]
  BY SentGrows, WireFacts DEF HistoryInv
<1> HIDE DEF Forwarded
<1>4. Answered(p)' <=> Answered(p)
  BY <1>1, <1>3 DEF Answered
<1>5. Awaits(k, p)' <=> /\ p \in 1 .. Len(Forwarded) /\ Asks(clientSent'[p], k)
                        /\ ~Answered(p)'
  BY <1>1 DEF Awaits, Asks, Keyed
<1> QED BY <1>1, <1>2, <1>4, <1>5 DEF Awaits

(* A request is pending from its forwarding to its first answer, if its key is its own. *)
LEMMA NextAwaits ==
  ~ReuseKeys /\ HistoryInv /\ KeysDiffer /\ PendingAwaits /\ [Next]_vars => PendingAwaits'
<1> SUFFICES ASSUME ~ReuseKeys, HistoryInv, KeysDiffer, PendingAwaits, [Next]_vars,
                    NEW k \in Keys, NEW p \in Nat \ {0}
             PROVE  pending'[k] = p <=> Awaits(k, p)'
  BY DEF PendingAwaits
<1>0. pending[k] = p <=> Awaits(k, p)
  BY DEF PendingAwaits
<1>p. pending \in [Keys -> 0 .. MaxClient] /\ Len(Forwarded) \in Nat /\ Len(clientGot) \in Nat
  BY WireFacts DEF HistoryInv, TypeOK
<1>1. CASE StdinData
  <2> DEFINE m == Head(toProxy)
             F == Len(Forwarded)
  <2>1. pending' = IF Keyed(m) THEN [pending EXCEPT ![KeyOf[m.id]] = m.n] ELSE pending
    BY <1>1 DEF StdinData, ObserveClient
  <2>2. /\ Len(Forwarded') = F + 1 /\ F + 1 \in DOMAIN clientSent
        /\ m = clientSent[F + 1] /\ m.n = F + 1
        /\ clientSent' = clientSent /\ serverSent' = serverSent /\ clientGot' = clientGot
    BY <1>1, StdinFacts, WireFacts DEF HistoryInv, ObservationInv, Placed
  <2>3. ~Answered(F + 1)
    <3> SUFFICES ASSUME NEW a \in 1 .. Len(clientGot), serverSent[a].re = F + 1 PROVE FALSE
      BY DEF Answered
    <3>1. a \in 1 .. Len(serverSent)
      BY WireFacts DEF HistoryInv
    <3> QED BY <1>p, <3>1, KeyOfAnswer
  <2>4. Answered(p)' <=> Answered(p)
    BY <2>2 DEF Answered
  <2> HIDE DEF m, F, Forwarded
  <2>5. Awaits(k, p)' <=> p \in 1 .. F + 1 /\ Asks(clientSent[p], k) /\ ~Answered(p)
    BY <2>2, <2>4 DEF Awaits, Asks, Keyed
  <2>6. Awaits(k, p) <=> p \in 1 .. F /\ Asks(clientSent[p], k) /\ ~Answered(p)
    BY DEF Awaits, F
  <2>7. F \in Nat /\ \A q \in 1 .. F + 1 : q \in DOMAIN clientSent
    BY <1>p, <2>2, WireFacts DEF HistoryInv, F
  <2>8. CASE Asks(m, k)
    <3>1. pending'[k] = F + 1
      BY <1>p, <2>1, <2>2, <2>8 DEF Asks
    <3>2. \A q \in 1 .. F + 1 : Asks(clientSent[q], k) => q = F + 1
      BY <2>2, <2>7, <2>8 DEF KeysDiffer
    <3> QED BY <2>2, <2>3, <2>5, <2>7, <2>8, <3>1, <3>2
  <2>9. CASE ~Asks(m, k)
    <3>1. pending'[k] = pending[k]
      BY <1>p, <2>1, <2>9 DEF Asks
    <3>2. p \in 1 .. F + 1 <=> p \in 1 .. F \/ p = F + 1
      BY <2>7
    <3> QED BY <1>0, <2>2, <2>5, <2>6, <2>9, <3>1, <3>2
  <2> QED BY <2>8, <2>9
<1>2. CASE StdoutData
  <2> DEFINE m == Head(fromServer)
             G == Len(clientGot)
  <2>1. pending' = IF Matched(m) THEN [pending EXCEPT ![KeyOf[m.id]] = 0] ELSE pending
    BY <1>2 DEF StdoutData, ObserveServer, Forget, obsVars
  <2>2. /\ Len(clientGot') = G + 1 /\ G + 1 \in 1 .. Len(serverSent)
        /\ m = serverSent[G + 1] /\ Forwarded' = Forwarded
        /\ clientSent' = clientSent /\ serverSent' = serverSent
    BY <1>2, StdoutFacts DEF HistoryInv, Forwarded
  <2>3. /\ Asks(m, k) => m.re \in 1 .. Len(Forwarded) /\ Asks(clientSent[m.re], k)
        /\ m.re # 0 /\ Asks(clientSent[m.re], k) => Asks(m, k)
    BY <2>2, KeyOfAnswer
  <2>4. Answered(p)' <=> Answered(p) \/ m.re = p
    <3>1. Answered(p)' <=> \E a \in 1 .. G + 1 : serverSent[a].re = p
      BY <2>2 DEF Answered
    <3>2. \A a : a \in 1 .. G + 1 <=> a \in 1 .. G \/ a = G + 1
      BY <1>p
    <3> QED BY <2>2, <3>1, <3>2 DEF Answered
  <2> HIDE DEF m, G, Forwarded
  <2>5. Awaits(k, p)' <=> /\ p \in 1 .. Len(Forwarded) /\ Asks(clientSent[p], k)
                          /\ ~Answered(p) /\ m.re # p
    BY <2>2, <2>4 DEF Awaits, Asks, Keyed
  <2>6. CASE Asks(m, k)
    <3>1. pending'[k] = 0
      BY <1>p, <2>1, <2>6 DEF Asks, Matched
    <3>2. \A q \in 1 .. Len(Forwarded) : Asks(clientSent[q], k) => q = m.re
      BY <2>3, <2>6, WireFacts DEF KeysDiffer, HistoryInv
    <3> QED BY <2>5, <3>1, <3>2
  <2>7. CASE ~Asks(m, k)
    <3>1. pending'[k] = pending[k]
      BY <1>p, <2>1, <2>7 DEF Asks, Matched
    <3>2. Asks(clientSent[p], k) => m.re # p
      BY <2>3, <2>7
    <3> QED BY <1>0, <2>5, <3>1, <3>2 DEF Awaits
  <2> QED BY <2>6, <2>7
<1>3. CASE ~StdinData /\ ~StdoutData
  <2>1. pending' = pending
    BY <1>3, OtherLines DEF HistoryInv
  <2> QED BY <1>0, <1>3, <2>1, AwaitsSame
<1> QED BY <1>1, <1>2, <1>3

-----------------------------------------------------------------------------
(* The cassette.                                                             *)

(* The pair of the request p, made at the a-th message to the client: its     *)
(* first answer.                                                             *)
FirstAnswer(p, a) ==
  /\ p \in 1 .. Len(Forwarded) /\ \E k \in Keys : Asks(clientSent[p], k)
  /\ a \in 1 .. Len(clientGot) /\ serverSent[a].re = p
  /\ \A b \in 1 .. a - 1 : serverSent[b].re # p

PairsAreFirst ==
  mode = "record" =>
    /\ \A i \in DOMAIN cassette : \A p, a :
         p = cassette[i].req /\ a = cassette[i].res => FirstAnswer(p, a)
    /\ \A i, j \in DOMAIN cassette : cassette[i].req = cassette[j].req => i = j
    /\ \A p \in 1 .. Len(Forwarded) :
         (\E k \in Keys : Asks(clientSent[p], k)) /\ Answered(p)
           => \E i \in DOMAIN cassette : cassette[i].req = p

(* The command is the one the process was started with. *)
LEMMA ModeFixed == [Next]_vars => mode' = mode
  BY DEF Next, vars, ClientStep, ClientSend, ClientClose, ServerStep, ServerRead, ServerSend,
         ServerStderr, ServerExit, ProxyStep, StdinData, StdinEnd, StdoutData, StderrData,
         HandleSignal, ChildExit, SpawnError, LogStep, LogOpened, LogFlushed, LogFailed,
         SignalArrives, Terminated

(* What was a first answer stays one.                                         *)
LEMMA FirstAnswerStays ==
  ASSUME HistoryInv, [Next]_vars, NEW p, NEW a, FirstAnswer(p, a)
  PROVE  FirstAnswer(p, a)'
<1>1. /\ p \in 1 .. Len(Forwarded) /\ \E k \in Keys : Asks(clientSent[p], k)
      /\ a \in 1 .. Len(clientGot) /\ serverSent[a].re = p
      /\ \A b \in 1 .. a - 1 : serverSent[b].re # p
  BY DEF FirstAnswer
<1>2. /\ Len(Forwarded) \in Nat /\ Len(clientGot) \in Nat
      /\ 1 .. Len(Forwarded) \subseteq 1 .. Len(Forwarded')
      /\ 1 .. Len(clientGot) \subseteq 1 .. Len(clientGot')
  <2>1. CASE StdinData
    BY <2>1, StdinFacts, WireFacts DEF HistoryInv
  <2>2. CASE StdoutData
    <3>1. Forwarded' = Forwarded /\ Len(clientGot') = Len(clientGot) + 1
      BY <2>2, StdoutFacts DEF HistoryInv, Forwarded
    <3> QED BY <3>1, WireFacts DEF HistoryInv
  <2>3. CASE ~StdinData /\ ~StdoutData
    <3>1. PICK k \in Keys : TRUE
      BY <1>1
    <3>2. Len(Forwarded') = Len(Forwarded) /\ Len(clientGot') = Len(clientGot)
      BY <2>3, <3>1, AwaitsSame
    <3> QED BY <3>2, WireFacts DEF HistoryInv
  <2> QED BY <2>1, <2>2, <2>3
<1>3. clientSent'[p] = clientSent[p] /\ \A b \in 1 .. a : serverSent'[b] = serverSent[b]
  <2>1. p \in DOMAIN clientSent /\ \A b \in 1 .. a : b \in DOMAIN serverSent
    BY <1>1, WireFacts DEF HistoryInv
  <2> QED BY <2>1, SentGrows
<1>4. \A b \in 1 .. a - 1 : b \in 1 .. a
  BY <1>1, <1>2
<1> HIDE DEF Forwarded
<1>5. \E k \in Keys : Asks(clientSent'[p], k)
  BY <1>1, <1>3
<1>6. FirstAnswer(p, a)' <=>
        /\ p \in 1 .. Len(Forwarded') /\ \E k \in Keys : Asks(clientSent'[p], k)
        /\ a \in 1 .. Len(clientGot') /\ serverSent'[a].re = p
        /\ \A b \in 1 .. a - 1 : serverSent'[b].re # p
  BY DEF FirstAnswer, Asks, Keyed
<1>7. serverSent'[a].re = p
  <2>1. a \in 1 .. a
    BY <1>1, <1>2
  <2> QED BY <1>1, <1>3, <2>1
<1> QED BY <1>1, <1>2, <1>3, <1>4, <1>5, <1>6, <1>7

(* The first answer finds its request pending and makes the pair; a later one does not. *)
LEMMA NextPairs ==
  ~ReuseKeys /\ HistoryInv /\ KeysDiffer /\ PendingAwaits /\ PairsAreFirst /\ [Next]_vars
    => PairsAreFirst'
<1> SUFFICES ASSUME ~ReuseKeys, HistoryInv, KeysDiffer, PendingAwaits, PairsAreFirst,
                    [Next]_vars, mode = "record"
             PROVE  /\ \A i \in DOMAIN cassette' : \A p, a :
                         p = cassette'[i].req /\ a = cassette'[i].res => FirstAnswer(p, a)'
                    /\ \A i, j \in DOMAIN cassette' : cassette'[i].req = cassette'[j].req => i = j
                    /\ \A p \in 1 .. Len(Forwarded') :
                         (\E k \in Keys : Asks(clientSent'[p], k)) /\ Answered(p)'
                           => \E i \in DOMAIN cassette' : cassette'[i].req = p
  <2>1. [Next]_vars => mode' = mode
    BY ModeFixed
  <2> HIDE DEF Forwarded, FirstAnswer, Answered
  <2> QED BY <2>1 DEF PairsAreFirst, Asks, Keyed
<1>0. /\ \A i \in DOMAIN cassette : \A p, a :
           p = cassette[i].req /\ a = cassette[i].res => FirstAnswer(p, a)
      /\ \A i, j \in DOMAIN cassette : cassette[i].req = cassette[j].req => i = j
      /\ \A p \in 1 .. Len(Forwarded) :
           (\E k \in Keys : Asks(clientSent[p], k)) /\ Answered(p)
             => \E i \in DOMAIN cassette : cassette[i].req = p
  BY DEF PairsAreFirst
<1>s. \A i \in DOMAIN cassette : \A p, a :
           p = cassette[i].req /\ a = cassette[i].res => FirstAnswer(p, a)'
  BY <1>0, FirstAnswerStays
<1>n. /\ Len(Forwarded) \in Nat /\ Len(clientGot) \in Nat
      /\ \A p \in 1 .. Len(Forwarded) : p \in DOMAIN clientSent
  BY WireFacts DEF HistoryInv
<1>1. CASE StdinData
  <2>1. cassette' = cassette
    BY <1>1 DEF StdinData
  <2>2. /\ Len(Forwarded') = Len(Forwarded) + 1
        /\ clientSent' = clientSent /\ serverSent' = serverSent /\ clientGot' = clientGot
    BY <1>1, StdinFacts DEF HistoryInv
  <2>3. ASSUME NEW p \in 1 .. Len(Forwarded'), NEW k \in Keys, Asks(clientSent'[p], k), Answered(p)'
        PROVE  \E i \in DOMAIN cassette' : cassette'[i].req = p
    <3>1. PICK a \in 1 .. Len(clientGot) : serverSent[a].re = p
      BY <2>2, <2>3 DEF Answered
    <3>2. p \in 1 .. Len(Forwarded)
      <4>1. a \in 1 .. Len(serverSent) /\ p # 0
        BY <1>n, <2>2, <2>3, WireFacts DEF HistoryInv
      <4> QED BY <3>1, <4>1, KeyOfAnswer
    <3>3. Answered(p)
      BY <3>1 DEF Answered
    <3> HIDE DEF Forwarded, Answered
    <3> QED BY <1>0, <2>1, <2>2, <2>3, <3>2, <3>3
  <2> QED BY <1>0, <1>s, <2>1, <2>3
<1>2. CASE StdoutData
  <2> DEFINE m == Head(fromServer)
             G == Len(clientGot)
             F == Len(Forwarded)
  <2>1. /\ Len(clientGot') = G + 1 /\ G + 1 \in 1 .. Len(serverSent)
        /\ m = serverSent[G + 1] /\ Forwarded' = Forwarded
        /\ clientSent' = clientSent /\ serverSent' = serverSent
        /\ m.n = G + 1
    BY <1>2, StdoutFacts, WireFacts DEF HistoryInv, Forwarded, ObservationInv, Placed
  <2>2. cassette' = IF Matched(m)
                    THEN Append(cassette, [req |-> pending[KeyOf[m.id]], res |-> m.n])
                    ELSE cassette
    BY <1>2 DEF StdoutData, ObserveServer, AddPair, PendingOf, obsVars
  <2>3. \A p : Answered(p)' <=> Answered(p) \/ m.re = p
    <3>1. \A p : Answered(p)' <=> \E a \in 1 .. G + 1 : serverSent[a].re = p
      BY <2>1 DEF Answered
    <3>2. \A a : a \in 1 .. G + 1 <=> a \in 1 .. G \/ a = G + 1
      BY <1>n
    <3> QED BY <2>1, <3>1, <3>2 DEF Answered
  <2>4. \A k \in Keys : /\ Asks(m, k) => m.re \in 1 .. F /\ Asks(clientSent[m.re], k)
                        /\ m.re # 0 /\ Asks(clientSent[m.re], k) => Asks(m, k)
    BY <2>1, KeyOfAnswer
  <2>5. cassette \in Seq(Pair) /\ pending \in [Keys -> 0 .. MaxClient]
    BY DEF HistoryInv, TypeOK
  <2>6. m \in ServerMsg /\ m.re \in Nat
    <3>1. serverSent \in Seq(ServerMsg)
      BY DEF HistoryInv, TypeOK
    <3> HIDE DEF m, G
    <3>2. m \in ServerMsg
      BY <2>1, <3>1
    <3> QED BY <3>2, ReIsResponse
  <2> HIDE DEF m, G, F, Answered
  <2>7. CASE Matched(m)
    <3>k. PICK k, p, a : k = KeyOf[m.id] /\ p = pending[k] /\ a = G + 1
      OBVIOUS
    <3> DEFINE c == [req |-> p, res |-> a]
    <3>1. k \in Keys /\ Asks(m, k) /\ p \in Nat \ {0}
      <4>1. m.id \in Ids \ HardIds /\ Keyed(m) /\ p # 0
        BY <2>6, <2>7, <3>k, MsgTypes DEF Matched, Keyed
      <4>2. k \in Keys
        BY <3>k, <4>1, KeyAssumption
      <4> QED BY <2>5, <3>k, <4>1, <4>2, BoundsAssumption DEF Asks
    <3>2. Awaits(k, p)
      BY <3>k, <3>1 DEF PendingAwaits
    <3>3. p \in 1 .. F /\ Asks(clientSent[p], k) /\ ~Answered(p)
      BY <3>2 DEF Awaits, F
    <3>4. m.re = p
      BY <1>n, <2>4, <3>1, <3>3 DEF KeysDiffer, F
    <3>5. FirstAnswer(p, a)'
      <4>1. \A b \in 1 .. a - 1 : serverSent[b].re # p
        BY <1>n, <3>k, <3>3 DEF Answered, G
      <4>2. a \in 1 .. Len(clientGot') /\ serverSent'[a].re = p
        BY <1>n, <2>1, <3>k, <3>4 DEF G
      <4>3. p \in 1 .. Len(Forwarded') /\ Asks(clientSent'[p], k)
        BY <2>1, <3>3 DEF F
      <4> HIDE DEF Forwarded
      <4>4. FirstAnswer(p, a)' <=>
              /\ p \in 1 .. Len(Forwarded') /\ \E l \in Keys : Asks(clientSent'[p], l)
              /\ a \in 1 .. Len(clientGot') /\ serverSent'[a].re = p
              /\ \A b \in 1 .. a - 1 : serverSent'[b].re # p
        BY DEF FirstAnswer, Asks, Keyed
      <4> QED BY <2>1, <3>1, <4>1, <4>2, <4>3, <4>4
    <3>6. cassette' = Append(cassette, c) /\ c \in Pair
      <4>1. cassette' \in Seq(Pair)
        BY NextType DEF HistoryInv, TypeOK
      <4>2. cassette' = Append(cassette, c)
        BY <2>1, <2>2, <2>7, <3>k
      <4>3. p \in 1 .. MaxClient /\ a \in 1 .. MaxServer
        <5>1. m.n \in 1 .. MaxServer /\ p \in 0 .. MaxClient
          BY <2>5, <2>6, <3>k, <3>1, MsgTypes
        <5> QED BY <2>1, <3>k, <3>1, <5>1, BoundsAssumption
      <4> QED BY <4>2, <4>3 DEF Pair
    <3>7. /\ c.req = p /\ c.res = a
          /\ DOMAIN cassette' = 1 .. Len(cassette) + 1 /\ DOMAIN cassette = 1 .. Len(cassette)
          /\ Len(cassette) \in Nat
          /\ \A i \in 1 .. Len(cassette) : cassette'[i] = cassette[i]
          /\ cassette'[Len(cassette) + 1] = c
      BY <2>5, <3>6, AppendFacts
    <3> HIDE DEF c
    <3>8. \A i \in DOMAIN cassette : cassette[i].req # p
      <4> SUFFICES ASSUME NEW i \in DOMAIN cassette, cassette[i].req = p PROVE FALSE
        OBVIOUS
      <4>1. FirstAnswer(p, cassette[i].res)
        BY <1>0
      <4> QED BY <3>3, <4>1 DEF FirstAnswer, Answered
    <3>9. \A i \in DOMAIN cassette' : i \in DOMAIN cassette \/ i = Len(cassette) + 1
      BY <3>7
    <3>10. \A i \in DOMAIN cassette' : \A q, b :
             q = cassette'[i].req /\ b = cassette'[i].res => FirstAnswer(q, b)'
      BY <1>s, <3>5, <3>7, <3>9
    <3>11. \A i, j \in DOMAIN cassette' : cassette'[i].req = cassette'[j].req => i = j
      BY <1>0, <3>7, <3>8, <3>9
    <3>12. ASSUME NEW q \in 1 .. Len(Forwarded'), NEW l \in Keys, Asks(clientSent'[q], l), Answered(q)'
           PROVE  \E i \in DOMAIN cassette' : cassette'[i].req = q
      <4>1. CASE Answered(q)
        <5>1. \E i \in DOMAIN cassette : cassette[i].req = q
          BY <1>0, <2>1, <3>12, <4>1
        <5> QED BY <3>7, <5>1
      <4>2. CASE q = p
        BY <3>7, <4>2
      <4> QED BY <2>3, <3>4, <3>12, <4>1, <4>2
    <3> QED BY <3>10, <3>11, <3>12
  <2>8. CASE ~Matched(m)
    <3>1. cassette' = cassette
      BY <2>2, <2>8
    <3>2. ASSUME NEW p \in 1 .. Len(Forwarded'), NEW k \in Keys, Asks(clientSent'[p], k), Answered(p)'
          PROVE  Answered(p)
      <4> SUFFICES ASSUME m.re = p PROVE Answered(p)
        BY <2>3, <3>2
      <4>1. p \in 1 .. F /\ p \in Nat \ {0} /\ Asks(clientSent[p], k)
        BY <1>n, <2>1, <3>2 DEF F
      <4>2. Asks(m, k)
        BY <2>4, <4>1
      <4>3. pending[k] = 0
        BY <2>8, <4>2 DEF Asks, Matched
      <4>4. ~Awaits(k, p)
        BY <4>1, <4>3 DEF PendingAwaits
      <4> QED BY <4>1, <4>4 DEF Awaits, F
    <3>3. Len(Forwarded') = Len(Forwarded) /\ clientSent' = clientSent
      BY <2>1
    <3> HIDE DEF Forwarded
    <3> QED BY <1>0, <1>s, <3>1, <3>2, <3>3
  <2> QED BY <2>7, <2>8
<1>3. CASE ~StdinData /\ ~StdoutData
  <2>1. cassette' = cassette
    BY <1>3, OtherLines DEF HistoryInv
  <2>2. \A p : \A k \in Keys : /\ Awaits(k, p)' <=> Awaits(k, p)
                               /\ Answered(p)' <=> Answered(p)
                               /\ Len(Forwarded') = Len(Forwarded)
    BY <1>3, AwaitsSame
  <2>3. \A p \in 1 .. Len(Forwarded) : clientSent'[p] = clientSent[p]
    BY <1>n, SentGrows
  <2> HIDE DEF Forwarded, Answered, Awaits
  <2> QED BY <1>0, <1>s, <2>1, <2>2, <2>3
<1> QED BY <1>1, <1>2, <1>3

-----------------------------------------------------------------------------
(* The end of a session.                                                     *)

EndInv ==
  /\ proxy = "running" =>
       /\ ~written
       /\ \A i \in DOMAIN events : events[i].t \notin {"orphan-request", "server-exit"}
  /\ written => mode = "record" /\ cassetteFile = cassette
  /\ OrphansAreUnanswered

(* Nothing the proxy keeps changes once it has exited.                        *)
LEMMA Frozen ==
  ASSUME TypeOK, [Next]_vars, proxy # "running"
  PROVE  UNCHANGED <<proxy, mode, events, clientSent, serverGot, toServer, serverSent, clientGot,
                     cassette, cassetteFile, written>>
<1>1. CASE ServerExit
  BY <1>1 DEF ServerExit, clientVars, wireVars, obsVars, logVars, endVars
<1>1a. CASE Terminated \/ UNCHANGED vars
  BY <1>1a DEF Terminated, vars, clientVars, serverVars, wireVars, obsVars, logVars, endVars
<1>2. ServerExit \/ Terminated \/ UNCHANGED vars
  BY DEF Next, ClientStep, ClientSend, ClientClose, ServerStep, ServerRead, ServerSend,
              ServerStderr, ProxyStep, StdinData, StdinEnd, StdoutData, StderrData,
              HandleSignal, ChildExit, SpawnError, LogStep, LogOpened, LogFlushed, LogFailed,
              SignalArrives, Up
<1> QED BY <1>1, <1>1a, <1>2

(* Which requests have no answer, in the words of the property.               *)
LEMMA Unanswered ==
  ASSUME HistoryInv, PendingAwaits
  PROVE  {i \in Requests : Keyed(Forwarded[i]) /\ Answers(i) = {}}
           = {pending[k] : k \in Keys} \ {0}
<1>w. /\ Len(Forwarded) \in Nat /\ DOMAIN Forwarded = 1 .. Len(Forwarded)
      /\ \A p \in 1 .. Len(Forwarded) : Forwarded[p] = clientSent[p] /\ p \in DOMAIN clientSent
      /\ DOMAIN clientGot = 1 .. Len(clientGot)
      /\ \A a \in 1 .. Len(clientGot) : clientGot[a] = serverSent[a]
      /\ pending \in [Keys -> 0 .. MaxClient] /\ TypeOK
  <2>1. TypeOK /\ WireIntact
    BY DEF HistoryInv
  <2>2. pending \in [Keys -> 0 .. MaxClient]
    BY <2>1 DEF TypeOK
  <2>3. \A p \in 1 .. Len(Forwarded) : p \in DOMAIN clientSent
    BY <2>1, WireFacts
  <2> QED BY <2>1, <2>2, <2>3, WireFacts
<1>1. \A p : Answers(p) = {} <=> ~Answered(p)
  BY <1>w DEF Answers, Answered
<1> HIDE DEF Forwarded
<1>2. ASSUME NEW i \in Requests, Keyed(Forwarded[i]), Answers(i) = {}
      PROVE  \E k \in Keys : pending[k] = i /\ i # 0
  <2>1. i \in 1 .. Len(Forwarded) /\ i \in Nat \ {0}
    BY <1>w DEF Requests
  <2>2. PICK k \in Keys : Asks(clientSent[i], k)
    BY <1>w, <1>2, <2>1, KeyOfClient
  <2>3. Awaits(k, i)
    BY <1>1, <1>2, <2>1, <2>2 DEF Awaits
  <2> QED BY <2>1, <2>3 DEF PendingAwaits
<1>3. ASSUME NEW k \in Keys, pending[k] # 0
      PROVE  /\ pending[k] \in Requests /\ Keyed(Forwarded[pending[k]])
             /\ Answers(pending[k]) = {}
  <2>1. pending[k] \in Nat \ {0}
    BY <1>w, <1>3, BoundsAssumption
  <2>2. Awaits(k, pending[k])
    BY <2>1 DEF PendingAwaits
  <2>3. pending[k] \in 1 .. Len(Forwarded) /\ Asks(clientSent[pending[k]], k) /\ ~Answered(pending[k])
    BY <2>2 DEF Awaits
  <2>4. Keyed(clientSent[pending[k]]) /\ clientSent[pending[k]].type = "request"
    BY <1>w, <2>3, KeyOfClient DEF Asks
  <2> QED BY <1>1, <1>w, <2>3, <2>4 DEF Requests
<1> QED BY <1>2, <1>3

(* ChildExit names what is pending; nothing changes the notes after it. *)
LEMMA NextEnd ==
  HistoryInv /\ PendingAwaits /\ EndInv /\ [Next]_vars => EndInv'
<1> SUFFICES ASSUME HistoryInv, PendingAwaits, EndInv, [Next]_vars PROVE EndInv'
  OBVIOUS
<1>0. TypeOK /\ events \in Seq(LogEvent) /\ Len(events) \in Nat /\ DOMAIN events = 1 .. Len(events)
  <2>1. events \in Seq(LogEvent)
    BY DEF HistoryInv, TypeOK
  <2> QED BY <2>1 DEF HistoryInv
<1>1. CASE proxy # "running"
  <2>1. /\ UNCHANGED <<proxy, mode, events, clientGot, cassette, cassetteFile, written>>
        /\ Forwarded' = Forwarded
    BY <1>0, <1>1, Frozen DEF Forwarded
  <2>2. OrphansAreUnanswered'
    <3> HIDE DEF Forwarded
    <3>1. Requests' = Requests /\ \A n : Answers(n)' = Answers(n)
      BY <2>1 DEF Requests, Answers
    <3> QED BY <2>1, <3>1 DEF EndInv, OrphansAreUnanswered, Keyed
  <2> QED BY <2>1, <2>2 DEF EndInv
<1>2. CASE proxy = "running" /\ ChildExit
  <2>1. PICK orphans \in OrphanEvents : LogWrite(orphans \o <<Ev("server-exit", status)>>)
    BY <1>2 DEF ChildExit
  <2> DEFINE N == {pending[k] : k \in Keys} \ {0}
  <2>2. /\ orphans \in Seq(Note)
        /\ \A i \in 1 .. Len(orphans) : \E n \in N : orphans[i] = Ev("orphan-request", n)
        /\ \A n \in N : \E i \in 1 .. Len(orphans) : orphans[i] = Ev("orphan-request", n)
        /\ \A i, j \in 1 .. Len(orphans) : orphans[i] = orphans[j] => i = j
    <3>1. pending \in [Keys -> 0 .. MaxClient]
      BY <1>0 DEF TypeOK
    <3> DEFINE E == {Ev("orphan-request", n) : n \in {pending[k] : k \in Keys} \ {0}}
    <3>2. /\ orphans \in Seq(Note)
          /\ \A i \in 1 .. Len(orphans) : orphans[i] \in E
          /\ \A e \in E : \E i \in 1 .. Len(orphans) : orphans[i] = e
          /\ \A i, j \in 1 .. Len(orphans) : orphans[i] = orphans[j] => i = j
      BY <3>1, OrphanSequence
    <3>3. /\ \A e \in E : \E n \in N : e = Ev("orphan-request", n)
          /\ \A n \in N : Ev("orphan-request", n) \in E
      OBVIOUS
    <3> HIDE DEF E, N
    <3> QED BY <3>2, <3>3
  <2>3. orphans \in Seq(LogEvent) /\ <<Ev("server-exit", status)>> \in Seq(LogEvent)
    <3>1. status \in Int
      BY <1>0, CodesAssumption DEF TypeOK, Killed, Running
    <3> QED BY <2>2, <3>1, EvType, NoteFacts DEF EventTypes
  <2> DEFINE last == <<Ev("server-exit", status)>>
             evs == orphans \o last
             O == Len(orphans)
             L == Len(events)
  <2>4. /\ last \in Seq(LogEvent) /\ Len(last) = 1 /\ last[1] = Ev("server-exit", status)
    BY <2>3
  <2> HIDE DEF last
  <2>5. /\ O \in Nat /\ evs \in Seq(LogEvent) /\ Len(evs) = O + 1
        /\ \A i \in 1 .. O : evs[i] = orphans[i]
        /\ evs[O + 1] = Ev("server-exit", status)
    <3>1. /\ Len(orphans) \in Nat /\ orphans \o last \in Seq(LogEvent)
          /\ DOMAIN (orphans \o last) = 1 .. Len(orphans) + Len(last)
          /\ \A i \in 1 .. Len(orphans) : (orphans \o last)[i] = orphans[i]
          /\ \A i \in 1 .. Len(last) : (orphans \o last)[Len(orphans) + i] = last[i]
      BY <2>3, <2>4, Longer
    <3>2. 1 \in 1 .. Len(last)
      BY <2>4
    <3>3. evs \in Seq(LogEvent) => Len(evs) \in Nat /\ DOMAIN evs = 1 .. Len(evs)
      OBVIOUS
    <3> HIDE DEF evs
    <3>4. evs \in Seq(LogEvent) /\ DOMAIN evs = 1 .. O + 1 /\ O \in Nat
      BY <2>4, <3>1 DEF evs
    <3>5. Len(evs) = O + 1
      <4> HIDE DEF O
      <4> QED BY <3>3, <3>4
    <3>6. evs[O + 1] = last[1] /\ \A i \in 1 .. O : evs[i] = orphans[i]
      BY <3>1, <3>2 DEF evs
    <3> QED BY <2>4, <3>4, <3>5, <3>6
  <2>6. events' = events \o evs
    BY <2>1 DEF LogWrite, last
  <2> HIDE DEF evs, O, N
  <2>7. /\ DOMAIN events' = 1 .. L + O + 1
        /\ \A i \in 1 .. L : events'[i] = events[i]
        /\ \A i \in 1 .. O : events'[L + i] = orphans[i]
        /\ events'[L + O + 1] = Ev("server-exit", status)
    <3>1. /\ DOMAIN events' = 1 .. L + Len(evs)
          /\ \A i \in 1 .. L : events'[i] = events[i]
          /\ \A i \in 1 .. Len(evs) : events'[L + i] = evs[i]
      BY <1>0, <2>5, <2>6, Longer
    <3>2. L + (O + 1) = L + O + 1 /\ \A i \in 1 .. O : i \in 1 .. Len(evs)
      BY <1>0, <2>5
    <3>3. events'[L + (O + 1)] = evs[O + 1]
      BY <2>5, <3>1
    <3> QED BY <2>5, <3>1, <3>2, <3>3
  <2> HIDE DEF L
  <2>8. \A i \in DOMAIN events' : \/ i \in 1 .. L /\ events'[i].t # "orphan-request"
                                  \/ i = L + O + 1 /\ events'[i].t # "orphan-request"
                                  \/ \E j \in 1 .. O : i = L + j /\ events'[i] = orphans[j]
    <3> TAKE i \in DOMAIN events'
    <3>1. CASE i \in 1 .. L
      BY <1>0, <1>2, <2>7, <3>1 DEF EndInv, L
    <3>2. CASE i = L + O + 1
      BY <2>7, <3>2 DEF Ev
    <3>3. CASE i \in L + 1 .. L + O
      <4>1. i - L \in 1 .. O /\ i = L + (i - L)
        BY <1>0, <2>5, <3>3 DEF L
      <4> QED BY <2>7, <4>1
    <3> QED BY <1>0, <2>5, <2>7, <3>1, <3>2, <3>3 DEF L
  <2>9. \A i \in 1 .. O : /\ L + i \in DOMAIN events' /\ events'[L + i] = orphans[i]
                          /\ events'[L + i].t = "orphan-request"
    <3> TAKE i \in 1 .. O
    <3>1. PICK n \in N : orphans[i] = Ev("orphan-request", n)
      BY <2>2 DEF O
    <3>2. orphans[i].t = "orphan-request"
      BY <3>1 DEF Ev
    <3>3. L + i \in 1 .. L + O + 1
      BY <1>0, <2>5 DEF L
    <3> QED BY <2>7, <3>2, <3>3
  <2>10. {events'[i].n : i \in {j \in DOMAIN events' : events'[j].t = "orphan-request"}} = N
    <3>1. ASSUME NEW i \in DOMAIN events', events'[i].t = "orphan-request" PROVE events'[i].n \in N
      <4>1. PICK j \in 1 .. O : events'[i] = orphans[j]
        BY <2>8, <3>1
      <4>2. PICK n \in N : orphans[j] = Ev("orphan-request", n)
        BY <2>2 DEF O
      <4>3. Ev("orphan-request", n).n = n
        BY DEF Ev
      <4> QED BY <4>1, <4>2, <4>3
    <3>2. ASSUME NEW n \in N
          PROVE  \E i \in DOMAIN events' : events'[i].t = "orphan-request" /\ events'[i].n = n
      <4>1. PICK j \in 1 .. O : orphans[j] = Ev("orphan-request", n)
        BY <2>2 DEF O
      <4> QED BY <2>9, <4>1 DEF Ev
    <3> QED BY <3>1, <3>2
  <2>11. \A i, j \in DOMAIN events' :
            events'[i].t = "orphan-request" /\ events'[i] = events'[j] => i = j
    <3> TAKE i, j \in DOMAIN events'
    <3> HAVE events'[i].t = "orphan-request" /\ events'[i] = events'[j]
    <3>1. PICK a \in 1 .. O : i = L + a /\ events'[i] = orphans[a]
      BY <2>8
    <3>2. PICK b \in 1 .. O : j = L + b /\ events'[j] = orphans[b]
      BY <2>8
    <3>3. a = b
      BY <2>2, <3>1, <3>2 DEF O
    <3> QED BY <3>1, <3>2, <3>3
  <2>12. /\ UNCHANGED <<mode, clientGot, cassette>> /\ Forwarded' = Forwarded
         /\ proxy' = "exited" /\ SaveCassette
    BY <1>2 DEF ChildExit, ProcessExit, serverVars, wireVars, obsVars, Forwarded
  <2>13. OrphansAreUnanswered'
    <3>1. {i \in Requests : Keyed(Forwarded[i]) /\ Answers(i) = {}} = N
      BY Unanswered DEF N
    <3> HIDE DEF Forwarded
    <3>2. Requests' = Requests /\ \A n : Answers(n)' = Answers(n)
      BY <2>12 DEF Requests, Answers
    <3>3. {i \in Requests' : Keyed(Forwarded'[i]) /\ Answers(i)' = {}} = N
      BY <2>12, <3>1, <3>2
    <3> QED BY <2>10, <2>11, <2>12, <3>3 DEF OrphansAreUnanswered, Keyed
  <2>14. written' => mode' = "record" /\ cassetteFile' = cassette'
    BY <1>2, <2>12 DEF SaveCassette, EndInv
  <2> QED BY <2>12, <2>13, <2>14 DEF EndInv
<1>3. CASE proxy = "running" /\ ~ChildExit
  <2>1. PICK evs \in Seq(LogEvent) :
           /\ events' = events \o evs
           /\ \A j \in 1 .. Len(evs) : evs[j].t \notin {"orphan-request", "server-exit"}
    <3>1. CASE StdinData
      <4>1. PICK evs \in Seq(LogEvent) :
               /\ events' = events \o evs
               /\ Len(evs) >= 1 /\ evs[1] = Ev("c2s", Head(toProxy).n)
               /\ \A j \in 2 .. Len(evs) : evs[j].t = "c2s-error"
        BY <1>0, <3>1, ClientLines
      <4>2. \A j \in 1 .. Len(evs) : j = 1 \/ j \in 2 .. Len(evs)
        OBVIOUS
      <4>3. evs[1].t = "c2s"
        BY <4>1 DEF Ev
      <4>4. \A j \in 1 .. Len(evs) : evs[j].t \notin {"orphan-request", "server-exit"}
        BY <4>1, <4>2, <4>3
      <4> QED BY <4>1, <4>4
    <3>2. CASE StdoutData
      <4>1. PICK t \in {"s2c", "s2c-error"} :
               /\ Ev(t, Head(fromServer).n) \in LogEvent
               /\ events' = events \o <<Ev(t, Head(fromServer).n)>>
        BY <1>0, <3>2, ServerLines
      <4> DEFINE evs == <<Ev(t, Head(fromServer).n)>>
      <4>2. evs \in Seq(LogEvent) /\ Len(evs) = 1 /\ evs[1].t \notin {"orphan-request", "server-exit"}
        BY <4>1 DEF Ev
      <4>3. events' = events \o evs
        BY <4>1
      <4> HIDE DEF evs
      <4> QED BY SMTT(30), <4>2, <4>3
    <3>3. CASE StderrData \/ SpawnError
      <4>1. PICK t \in {"server_stderr", "spawn-error"} : events' = events \o <<Ev(t, 0)>>
        BY <3>3 DEF StderrData, SpawnError, LogWrite
      <4> DEFINE evs == <<Ev(t, 0)>>
      <4>2. Ev(t, 0) \in LogEvent
        BY EvType DEF EventTypes
      <4>3. evs \in Seq(LogEvent) /\ Len(evs) = 1 /\ evs[1].t \notin {"orphan-request", "server-exit"}
        BY <4>2 DEF Ev
      <4>4. events' = events \o evs
        BY <4>1
      <4> HIDE DEF evs
      <4> QED BY SMTT(30), <4>3, <4>4
    <3>4. CASE \/ ClientStep \/ ServerStep \/ LogStep \/ StdinEnd \/ HandleSignal
               \/ SignalArrives \/ Terminated \/ UNCHANGED vars
      <4>1. events' = events
        BY <3>4 DEF ClientStep, ClientSend, ClientClose, ServerStep, ServerRead, ServerSend,
                ServerStderr, ServerExit, LogStep, LogOpened, LogFlushed, LogFailed,
                StdinEnd, HandleSignal, SignalArrives, Terminated, vars, logVars
      <4> DEFINE none == <<>>
      <4>2. none \in Seq(LogEvent) /\ Len(none) = 0
        OBVIOUS
      <4>3. events \o none = events
        BY <1>0, ConcatEmptySeq
      <4>4. events' = events \o none
        BY <4>1, <4>3
      <4> HIDE DEF none
      <4>5. \A j \in 1 .. Len(none) : none[j].t \notin {"orphan-request", "server-exit"}
        BY <4>2
      <4> QED BY <4>2, <4>4, <4>5
    <3> QED BY <1>3, <3>1, <3>2, <3>3, <3>4 DEF Next, ProxyStep
  <2>2. \A i \in DOMAIN events' : events'[i].t \notin {"orphan-request", "server-exit"}
    <3>1. \A i \in DOMAIN events' : \/ i \in DOMAIN events /\ events'[i] = events[i]
                                    \/ \E j \in 1 .. Len(evs) : events'[i] = evs[j]
      BY SMTT(30), <1>0, <2>1, Longer
    <3> QED BY <1>3, <2>1, <3>1 DEF EndInv
  <2>3. OrphansAreUnanswered'
    BY <2>2 DEF OrphansAreUnanswered
  <2>4. /\ written' => mode' = "record" /\ cassetteFile' = cassette'
        /\ proxy' = "running" => ~written'
    <3>1. CASE SpawnError
      BY <1>3, <3>1 DEF SpawnError, SaveCassette, ProcessExit, obsVars, EndInv
    <3>2. CASE ~SpawnError
      <4>1. written' = written
        BY <1>3, <3>2 DEF Next, ClientStep, ClientSend, ClientClose, ServerStep, ServerRead,
             ServerSend, ServerStderr, ServerExit, ProxyStep, StdinData, StdinEnd, StdoutData,
             StderrData, HandleSignal, LogStep, LogOpened, LogFlushed, LogFailed,
             SignalArrives, Terminated, vars, endVars
      <4> QED BY <1>3, <4>1 DEF EndInv
    <3> QED BY <3>1, <3>2
  <2> QED BY <2>2, <2>3, <2>4 DEF EndInv
<1> QED BY <1>1, <1>2, <1>3

-----------------------------------------------------------------------------
(* The invariant of a session whose client reuses no key. *)
SessionInv == HistoryInv /\ KeysDiffer /\ PendingAwaits /\ PairsAreFirst /\ EndInv

(* All parts hold of an empty session. *)
LEMMA InitSession == Init => KeysDiffer /\ PendingAwaits /\ PairsAreFirst /\ EndInv
<1> SUFFICES ASSUME Init PROVE KeysDiffer /\ PendingAwaits /\ PairsAreFirst /\ EndInv
  OBVIOUS
<1> DEFINE none == <<>>
<1>1. /\ DOMAIN none = {} /\ Len(none) = 0 /\ none \o none = none
  OBVIOUS
<1>2. /\ clientSent = none /\ clientGot = none /\ cassette = none /\ events = none
      /\ serverGot = none /\ toServer = none
      /\ pending = [k \in Keys |-> 0] /\ ~written /\ proxy = "running"
  BY DEF Init
<1> HIDE DEF none
<1>3. Forwarded = none
  BY <1>1, <1>2 DEF Forwarded
<1>4. KeysDiffer
  BY <1>1, <1>2 DEF KeysDiffer
<1>5. PendingAwaits
  BY <1>1, <1>2, <1>3 DEF PendingAwaits, Awaits
<1>6. PairsAreFirst
  BY <1>1, <1>2, <1>3 DEF PairsAreFirst
<1>7. EndInv
  BY <1>1, <1>2 DEF EndInv, OrphansAreUnanswered
<1> QED BY <1>4, <1>5, <1>6, <1>7

(* They hold throughout, if the client reuses no key. *)
LEMMA SessionInvariant ==
  ASSUME ~ReuseKeys PROVE Spec => []SessionInv
<1>1. Init => KeysDiffer /\ PendingAwaits /\ PairsAreFirst /\ EndInv
  BY InitSession
<1>2. HistoryInv /\ SessionInv /\ [Next]_vars
        => (KeysDiffer /\ PendingAwaits /\ PairsAreFirst /\ EndInv)'
  <2>1. ~ReuseKeys
    OBVIOUS
  <2> QED BY <2>1, NextKeys, NextAwaits, NextPairs, NextEnd DEF SessionInv
<1>3. Spec => []HistoryInv
  BY HistoryInvariant
<1>4. SessionInv <=> HistoryInv /\ (KeysDiffer /\ PendingAwaits /\ PairsAreFirst /\ EndInv)
  BY DEF SessionInv
<1> QED BY <1>1, <1>2, <1>3, <1>4, PTL DEF Spec

(* A session that ended noted, once each, exactly the requests whose answer   *)
(* the client never received, if the client reused no key.                    *)
THEOREM OrphansAlwaysUnanswered ==
  ASSUME ~ReuseKeys PROVE Spec => []OrphansAreUnanswered
<1>1. Spec => []SessionInv
  BY SessionInvariant
<1>2. SessionInv => OrphansAreUnanswered
  BY DEF SessionInv, EndInv
<1> QED BY <1>1, <1>2, PTL

(* The least element, where there is one, is what Min chooses. *)
LEMMA MinIs ==
  \A A \in SUBSET Nat : \A l \in A : (\A i \in A : l <= i) => Min(A) = l
<1> SUFFICES ASSUME NEW A \in SUBSET Nat, NEW l \in A, \A i \in A : l <= i
             PROVE  Min(A) = l
  OBVIOUS
<1>1. l \in A /\ \A y \in A : l <= y
  OBVIOUS
<1>2. Min(A) \in A /\ \A y \in A : Min(A) <= y
  BY <1>1 DEF Min
<1>3. l \in Nat /\ Min(A) \in Nat /\ Min(A) <= l /\ l <= Min(A)
  BY <1>1, <1>2
<1> QED BY <1>3

(* A pair is its request's only one and holds the first answer (Min). *)
LEMMA SessionIsComplete == SessionInv => CassetteIsComplete
<1> SUFFICES ASSUME SessionInv, written, NEW n \in Requests
             PROVE  LET pairs == {i \in DOMAIN cassetteFile : cassetteFile[i].req = n}
                    IN  IF Answers(n) = {} \/ Forwarded[n].id \in HardIds
                        THEN pairs = {}
                        ELSE \E i \in pairs : /\ pairs = {i}
                                              /\ cassetteFile[i].res = clientGot[Min(Answers(n))].n
  BY DEF CassetteIsComplete
<1> USE DEF SessionInv
<1>0. TypeOK /\ WireIntact
  BY DEF HistoryInv
<1>w. /\ Len(Forwarded) \in Nat /\ DOMAIN Forwarded = 1 .. Len(Forwarded)
      /\ DOMAIN clientGot = 1 .. Len(clientGot) /\ Len(clientGot) \in Nat
      /\ Len(clientGot) <= Len(serverSent) /\ Len(serverSent) \in Nat
      /\ DOMAIN serverSent = 1 .. Len(serverSent)
      /\ DOMAIN clientSent = 1 .. Len(clientSent) /\ Len(clientSent) \in Nat
      /\ Len(Forwarded) <= Len(clientSent)
      /\ \A p \in 1 .. Len(Forwarded) : Forwarded[p] = clientSent[p]
      /\ \A a \in 1 .. Len(clientGot) : clientGot[a] = serverSent[a]
  BY <1>0, WireFacts
<1>c. mode = "record" /\ cassetteFile = cassette
  BY DEF EndInv
<1>n. /\ n \in 1 .. Len(Forwarded) /\ n \in DOMAIN clientSent
      /\ Forwarded[n] = clientSent[n] /\ clientSent[n].type = "request"
  BY <1>w DEF Requests
<1>a. Answers(n) = {a \in 1 .. Len(clientGot) : serverSent[a].re = n}
  BY <1>w DEF Answers
<1> HIDE DEF Forwarded
<1> DEFINE pairs == {i \in DOMAIN cassetteFile : cassetteFile[i].req = n}
<1>1. ASSUME NEW i \in pairs
      PROVE  /\ FirstAnswer(n, cassette[i].res)
             /\ pairs = {i}
             /\ Answers(n) # {} /\ Forwarded[n].id \notin HardIds
             /\ cassetteFile[i].res = clientGot[Min(Answers(n))].n
  <2>1. i \in DOMAIN cassette /\ cassette[i].req = n
    BY <1>c
  <2>2. PICK p, a : p = cassette[i].req /\ a = cassette[i].res
    OBVIOUS
  <2>3. FirstAnswer(n, a)
    BY <1>c, <2>1, <2>2 DEF PairsAreFirst
  <2>4. pairs = {i}
    BY <1>c, <2>1 DEF PairsAreFirst
  <2>5. /\ a \in 1 .. Len(clientGot) /\ serverSent[a].re = n
        /\ \A b \in 1 .. a - 1 : serverSent[b].re # n
        /\ \E k \in Keys : Asks(clientSent[n], k)
    BY <2>3 DEF FirstAnswer
  <2>6. a \in Answers(n) /\ Answers(n) \in SUBSET Nat /\ \A b \in Answers(n) : a <= b
    BY <1>a, <1>w, <2>5
  <2>7. Min(Answers(n)) = a
    BY <2>6, MinIs
  <2>8. clientGot[a].n = a
    BY <1>w, <2>5 DEF HistoryInv, ObservationInv, Placed
  <2>9. Forwarded[n].id \notin HardIds
    BY <1>n, <2>5 DEF Asks, Keyed
  <2> QED BY <1>c, <2>2, <2>3, <2>4, <2>6, <2>7, <2>8, <2>9
<1>2. ASSUME Answers(n) # {}, Forwarded[n].id \notin HardIds
      PROVE  \E i \in pairs : TRUE
  <2>1. Keyed(clientSent[n])
    BY <1>2, <1>n DEF Keyed
  <2>2. \E k \in Keys : Asks(clientSent[n], k)
    BY <1>0, <1>n, <2>1, KeyOfClient
  <2>3. Answered(n)
    BY <1>2, <1>a DEF Answered
  <2> QED BY <1>c, <1>n, <2>2, <2>3 DEF PairsAreFirst
<1> QED BY <1>1, <1>2

(* The cassette a recording wrote holds one pair for each request the client  *)
(* had an answer to, with its first answer, if the client reused no key.      *)
THEOREM CassetteAlwaysComplete ==
  ASSUME ~ReuseKeys PROVE Spec => []CassetteIsComplete
<1>1. Spec => []SessionInv
  BY SessionInvariant
<1> QED BY <1>1, SessionIsComplete, PTL
=============================================================================
