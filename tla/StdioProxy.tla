----------------------------- MODULE StdioProxy -----------------------------
(***************************************************************************)
(* runProxy (src/proxy.ts) with the Correlator, the Logger's file stream   *)
(* and the commands that end the process after it (wrap, wrap --tui and    *)
(* record in src/index.ts).  A client writes to the proxy's stdin, a child *)
(* server reads what the proxy forwards and writes back, and the proxy     *)
(* observes a copy of every message.                                       *)
(*                                                                         *)
(* A chunk is one whole message (the framing of bytes into lines is module *)
(* LineFramer).  Node runs one callback at a time, so every event handler  *)
(* of the proxy is one action; the client, the server, the kernel's pipes  *)
(* and the thread pool that writes the log interleave freely with it.      *)
(***************************************************************************)
EXTENDS Integers, SequencesExt

CONSTANTS
  Ids,            \* JSON-RPC ids a client may put on a request
  Keys,           \* what String(id) may return
  KeyOf,          \* String(id), where it has one: 1 and "1" share a key
  NoId,           \* a message without an id
  HardIds,        \* ids String() throws on: an object or array can be such an id
  Modes,          \* the commands checked: "wrap", "tui", "record"
  ReuseKeys,      \* may the client reuse a key within the session?
  ExitCodes,      \* exit codes a server may end with
  Signals,        \* signals the proxy may be sent, each at most once (a bound)
  MaxClient,      \* bound: messages the client sends
  MaxServer,      \* bound: messages the server sends
  MaxStderr,      \* bound: stderr chunks the server writes
  HighWater       \* bound: chunks child.stdin buffers before pipe() pauses

ASSUME IdsAssumption == NoId \notin Ids /\ HardIds \subseteq Ids
ASSUME KeyAssumption == KeyOf \in [Ids \ HardIds -> Keys]
ASSUME ModesAssumption == Modes \subseteq {"wrap", "tui", "record"}
ASSUME CodesAssumption == ExitCodes \subseteq Nat
ASSUME BoundsAssumption == /\ MaxClient \in Nat
                           /\ MaxServer \in Nat
                           /\ MaxStderr \in Nat
                           /\ HighWater \in Nat \ {0}
ASSUME SignalsAssumption == Signals \subseteq {"SIGINT", "SIGTERM", "SIGHUP"}
ASSUME ReuseAssumption == ReuseKeys \in BOOLEAN

Killed  == -1           \* exit event with code null: ended by a signal
Running == -2           \* no status yet

\* n is the message's place in what its sender sent and re the place of the
\* request it answers (0: none).  The code reads neither: they let the
\* properties tell messages apart.
ClientMsg ==
  [type : {"request"}, id : Ids, n : 1 .. MaxClient, re : {0}]
    \cup [type : {"other"}, id : {NoId}, n : 1 .. MaxClient, re : {0}]
ServerMsg ==
  [type : {"response"}, id : Ids, n : 1 .. MaxServer, re : 1 .. MaxClient]
    \cup [type : {"other"}, id : {NoId}, n : 1 .. MaxServer, re : {0}]

\* A line of the session log; n names the message, request or status.  The
\* last two are the observer-error notes, which name their direction.
LogEvent == [t : {"c2s", "s2c", "server_stderr", "orphan-request",
                  "server-exit", "spawn-error", "c2s-error", "s2c-error"}, n : Int]
Ev(t, n) == [t |-> t, n |-> n]

Pair == [req : 1 .. MaxClient, res : 1 .. MaxServer]

VARIABLES
  mode,           \* the command: fixed when the process starts
  clientSent,     \* every message the client has written
  clientEof,      \* the client has closed its end
  toProxy,        \* the pipe into the proxy's stdin
  toServer,       \* child.stdin: the stream's buffer and the pipe behind it
  stdinEnded,     \* child.stdin has been ended
  serverGot,      \* every message the server has read
  serverSent,     \* every message the server has written
  fromServer,     \* the pipe out of child.stdout
  errPipe,        \* stderr chunks in the pipe out of child.stderr
  errCount,       \* stderr chunks the server has written
  clientGot,      \* every message written to the proxy's stdout
  status,         \* the child's exit status, or Running
  spawned,        \* spawn() found the command
  childSignals,   \* signals the proxy has sent to the child
  signals,        \* signals the proxy has received and not yet handled
  proxy,          \* "running" or "exited"
  exitCode,       \* of the proxy
  pending,        \* Correlator.pending: key -> n of the request, 0 if absent
  cassette,       \* CassetteRecorder: the pairs added
  cassetteFile,   \* the pairs on disk, meaningful once written
  written,        \* the cassette file has been written
  events,         \* every event handed to Logger.write (and to onEvent)
  logState,       \* the file stream: "opening", "open" or "failed"
  inflight,       \* events in the write the thread pool is doing
  queue,          \* events buffered behind it
  disk            \* events in the log file

clientVars  == <<clientSent, clientEof, toProxy>>
serverVars  == <<serverGot, serverSent, errCount, status>>
wireVars    == <<toServer, stdinEnded, fromServer, clientGot>>
obsVars     == <<pending, cassette>>
logVars     == <<events, logState, inflight, queue, disk>>
endVars     == <<proxy, exitCode, cassetteFile, written>>
signalVars  == <<signals, childSignals>>
vars == <<mode, spawned, clientVars, serverVars, wireVars, errPipe,
          obsVars, logVars, endVars, signalVars>>

Init ==
  /\ mode \in Modes
  /\ spawned \in BOOLEAN
  /\ clientSent = <<>> /\ clientEof = FALSE /\ toProxy = <<>>
  /\ toServer = <<>> /\ stdinEnded = FALSE
  /\ serverGot = <<>> /\ serverSent = <<>> /\ fromServer = <<>>
  /\ errPipe = 0 /\ errCount = 0
  /\ clientGot = <<>>
  /\ status = Running
  /\ signals = {} /\ childSignals = {}
  /\ proxy = "running" /\ exitCode = Running
  /\ pending = [k \in Keys |-> 0]
  /\ cassette = <<>> /\ cassetteFile = <<>> /\ written = FALSE
  /\ events = <<>>
  /\ logState = "opening" /\ inflight = <<>> /\ queue = <<>> /\ disk = <<>>

Up == proxy = "running" /\ spawned

-----------------------------------------------------------------------------
(* The Logger's file stream.                                               *)

LogWrite_OnlyWhenOpen(evs) ==                                   \* mutant
  /\ events' = events \o evs
  /\ IF evs = <<>> \/ logState # "open"
     THEN UNCHANGED <<inflight, queue>>
     ELSE IF inflight = <<>>
          THEN inflight' = <<Head(evs)>> /\ queue' = Tail(evs)
          ELSE inflight' = inflight /\ queue' = queue \o evs

\* fs.WriteStream: a write starts at once when the file is open and no other
\* write is under way; otherwise the event waits in memory.  A stream that
\* failed drops everything, silently (its 'error' listener does nothing).
LogWrite(evs) ==
  /\ events' = events \o evs
  /\ IF evs = <<>> \/ logState = "failed"
     THEN UNCHANGED <<inflight, queue>>
     ELSE IF logState = "open" /\ inflight = <<>>
          THEN inflight' = <<Head(evs)>> /\ queue' = Tail(evs)
          ELSE inflight' = inflight /\ queue' = queue \o evs

\* One writev takes all that was buffered.
TakeBuffer == inflight' = queue /\ queue' = <<>>

\* The file is opened by the thread pool; what was buffered is then written.
LogOpened ==
  /\ Up
  /\ logState = "opening"
  /\ logState' = "open"
  /\ TakeBuffer
  /\ UNCHANGED <<mode, spawned, clientVars, serverVars, wireVars, errPipe,
                 obsVars, events, disk, endVars, signalVars>>

\* A write completes, and the next one starts.
LogFlushed ==
  /\ Up
  /\ logState = "open" /\ inflight # <<>>
  /\ disk' = disk \o inflight
  /\ TakeBuffer
  /\ UNCHANGED <<mode, spawned, clientVars, serverVars, wireVars, errPipe,
                 obsVars, events, logState, endVars, signalVars>>

\* The open or a write fails (a full disk, a directory in the way).
LogFailed ==
  /\ Up
  /\ logState = "opening" \/ inflight # <<>>
  /\ logState' = "failed"
  /\ inflight' = <<>> /\ queue' = <<>>
  /\ UNCHANGED <<mode, spawned, clientVars, serverVars, wireVars, errPipe,
                 obsVars, events, disk, endVars, signalVars>>

-----------------------------------------------------------------------------
(* The client and the server: the proxy's environment.                     *)

\* The messages the Correlator has a key for.
Keyed(m) == m.type \in {"request", "response"} /\ m.id \notin HardIds

KeysUsed == {KeyOf[clientSent[i].id] : i \in {j \in DOMAIN clientSent : Keyed(clientSent[j])}}

ClientSend ==
  /\ Up /\ ~clientEof /\ Len(clientSent) < MaxClient
  /\ \E m \in ClientMsg :
       /\ m.n = Len(clientSent) + 1
       /\ Keyed(m) /\ ~ReuseKeys => KeyOf[m.id] \notin KeysUsed
       /\ clientSent' = Append(clientSent, m)
       /\ toProxy' = Append(toProxy, m)
  /\ UNCHANGED <<mode, spawned, clientEof, serverVars, wireVars, errPipe,
                 obsVars, logVars, endVars, signalVars>>

ClientClose ==
  /\ Up /\ ~clientEof
  /\ clientEof' = TRUE
  /\ UNCHANGED <<mode, spawned, clientSent, toProxy, serverVars, wireVars, errPipe,
                 obsVars, logVars, endVars, signalVars>>

ServerRead ==
  /\ Up /\ status = Running /\ toServer # <<>>
  /\ serverGot' = Append(serverGot, Head(toServer))
  /\ toServer' = Tail(toServer)
  /\ UNCHANGED <<mode, spawned, clientVars, serverSent, errCount, status, stdinEnded,
                 fromServer, clientGot, errPipe, obsVars, logVars, endVars, signalVars>>

\* A server answers any request it has read, in any order, perhaps twice,
\* and may send anything else (a notification, its own request, garbage).
ServerSend ==
  /\ Up /\ status = Running /\ Len(serverSent) < MaxServer
  /\ \E m \in ServerMsg :
       /\ m.n = Len(serverSent) + 1
       /\ m.type = "response" =>
            \E i \in DOMAIN serverGot : /\ serverGot[i].type = "request"
                                        /\ serverGot[i].id = m.id /\ serverGot[i].n = m.re
       /\ serverSent' = Append(serverSent, m)
       /\ fromServer' = Append(fromServer, m)
  /\ UNCHANGED <<mode, spawned, clientVars, serverGot, errCount, status, toServer,
                 stdinEnded, clientGot, errPipe, obsVars, logVars, endVars, signalVars>>

ServerStderr ==
  /\ Up /\ status = Running /\ errCount < MaxStderr
  /\ errCount' = errCount + 1
  /\ errPipe' = errPipe + 1
  /\ UNCHANGED <<mode, spawned, clientVars, serverGot, serverSent, status, wireVars,
                 obsVars, logVars, endVars, signalVars>>

\* The server ends: by itself at any time, or killed by a signal, its own or
\* one it was sent.  What it has written stays in the pipes.
ServerExit ==
  /\ spawned /\ status = Running
  /\ status' \in ExitCodes \cup {Killed}
  /\ UNCHANGED <<mode, spawned, clientVars, serverGot, serverSent, errCount, wireVars,
                 errPipe, obsVars, logVars, endVars, signalVars>>

\* Someone (a terminal, a supervisor) signals the proxy.
SignalArrives ==
  /\ Up
  /\ \E s \in Signals \ (signals \cup childSignals) : signals' = signals \cup {s}
  /\ UNCHANGED <<mode, spawned, clientVars, serverVars, wireVars, errPipe,
                 obsVars, logVars, endVars, childSignals>>

-----------------------------------------------------------------------------
(* The proxy's event handlers.                                             *)

\* pipe() has paused stdin while child.stdin is over its high-water mark.
Flowing == Len(toServer) < HighWater

\* String(id) throws: the message is a request or a response to one.
Throws(m) == m.type \in {"request", "response"} /\ m.id \in HardIds

ClientLine_Late(m) == IF m.type = "request" THEN <<>> ELSE <<Ev("c2s", m.n)>>  \* mutant
ClientLine(m) == <<Ev("c2s", m.n)>>

\* Correlator.onClientToServer: log, then remember a request under String(id);
\* if that throws, the message is logged already and a note follows it.
ObserveClient(m) ==
  /\ LogWrite(ClientLine(m) \o IF Throws(m) THEN <<Ev("c2s-error", m.n)>> ELSE <<>>)
  /\ pending' = IF Keyed(m) THEN [pending EXCEPT ![KeyOf[m.id]] = m.n] ELSE pending

\* stdin 'data': pipe() forwards the chunk, then the observer takes its copy.
StdinData ==
  /\ Up /\ toProxy # <<>> /\ Flowing
  /\ LET m == Head(toProxy)
     IN  /\ toProxy' = Tail(toProxy)
         /\ toServer' = Append(toServer, m)
         /\ ObserveClient(m)
  /\ UNCHANGED <<mode, spawned, clientSent, clientEof, serverVars, stdinEnded,
                 fromServer, clientGot, errPipe, cassette, logState, disk,
                 endVars, signalVars>>

AtEnd == clientEof /\ toProxy = <<>>

\* stdin 'end': nothing is left to read, child.stdin is ended behind the data.
StdinEnd ==
  /\ Up /\ AtEnd /\ ~stdinEnded
  /\ stdinEnded' = TRUE
  /\ UNCHANGED <<mode, spawned, clientVars, serverVars, toServer, fromServer,
                 clientGot, errPipe, obsVars, logVars, endVars, signalVars>>

Matched(m) == Keyed(m) /\ pending[KeyOf[m.id]] # 0

PendingOf_Oldest(m) == Min({pending[k] : k \in Keys} \ {0})      \* mutant
PendingOf(m) == pending[KeyOf[m.id]]

Forget_Never(m) == UNCHANGED pending                             \* mutant
Forget(m) == pending' = [pending EXCEPT ![KeyOf[m.id]] = 0]

\* onPair, and CassetteRecorder.add behind it: the pair is kept.  (add() drops a
\* pair equal to an earlier one; messages are taken to differ in content here.)
AddPair(m) ==
  cassette' = IF mode = "record"
              THEN Append(cassette, [req |-> PendingOf(m), res |-> m.n])
              ELSE cassette

ServerLine_NotStray(m) == IF m.type = "response" THEN <<>> ELSE <<Ev("s2c", m.n)>>  \* mutant
ServerLine(m) == <<Ev("s2c", m.n)>>

\* Correlator.onServerToClient: a response takes its pending request away and
\* makes a pair; then any message is logged.  If String(id) throws, a note
\* stands in the place of the message's own line.
ObserveServer(m) ==
  IF Matched(m)
  THEN AddPair(m) /\ Forget(m) /\ LogWrite(<<Ev("s2c", m.n)>>)
  ELSE /\ LogWrite(IF Throws(m) THEN <<Ev("s2c-error", m.n)>> ELSE ServerLine(m))
       /\ UNCHANGED obsVars

ToClient_AfterObserver(m) ==                                    \* mutant
  clientGot' = IF Throws(m) THEN clientGot ELSE Append(clientGot, m)
ToClient(m) == clientGot' = Append(clientGot, m)

Readable_WhileStdinOpen == fromServer # <<>> /\ ~stdinEnded      \* mutant
Readable == fromServer # <<>>

\* child.stdout 'data': forward to our stdout, then observe.
StdoutData ==
  /\ Up /\ Readable
  /\ LET m == Head(fromServer)
     IN  /\ fromServer' = Tail(fromServer)
         /\ ToClient(m)
         /\ ObserveServer(m)
  /\ UNCHANGED <<mode, spawned, clientVars, serverVars, toServer, stdinEnded,
                 errPipe, logState, disk, endVars, signalVars>>

\* child.stderr 'data': mirrored (not modelled: stderr is not the wire), logged.
StderrData ==
  /\ Up /\ errPipe > 0
  /\ errPipe' = errPipe - 1
  /\ LogWrite(<<Ev("server_stderr", 0)>>)
  /\ UNCHANGED <<mode, spawned, clientVars, serverVars, wireVars, obsVars,
                 logState, disk, endVars, signalVars>>

\* process.exit: the write under way may or may not reach the file, what is
\* buffered in memory does not.
ProcessExit(code, lastWrite) ==
  /\ proxy' = "exited"
  /\ exitCode' = code
  /\ \/ disk' = disk
     \/ disk' = disk \o lastWrite

SendSignal_Swallows(s) == UNCHANGED childSignals                \* mutant
SendSignal(s) == childSignals' = childSignals \cup {s}

\* A signal reaches the proxy's handlers.  With the TUI its own SIGINT/SIGTERM
\* handler, registered first, ends the process; otherwise the child is sent it.
HandleSignal ==
  /\ Up
  /\ \E s \in signals :
       IF mode = "tui" /\ s \in {"SIGINT", "SIGTERM"}
       THEN /\ ProcessExit(0, inflight)
            /\ UNCHANGED signalVars
       ELSE /\ signals' = signals \ {s}
            /\ SendSignal(s)
            /\ UNCHANGED <<proxy, exitCode, disk>>
  /\ UNCHANGED <<mode, spawned, clientVars, serverVars, wireVars, errPipe, obsVars,
                 events, logState, inflight, queue, cassetteFile, written>>

\* reportOrphans goes through the map; its order is left open here.
OrphanEvents_None == {<<>>}                                     \* mutant
OrphanEvents ==
  SetToSeqs({Ev("orphan-request", n) : n \in {pending[k] : k \in Keys} \ {0}})

ResolvedCode_Raw(st) == st                                      \* mutant
ResolvedCode(st) == IF st = Killed THEN 1 ELSE st

ChildGone_AfterStdin == status # Running /\ toProxy = <<>>       \* mutant
ChildGone == status # Running

\* cmdRecord writes the cassette once runProxy has resolved.
SaveCassette == IF mode = "record"
                THEN cassetteFile' = cassette /\ written' = TRUE
                ELSE UNCHANGED <<cassetteFile, written>>

\* child 'exit': orphans and the exit are noted, the log's end is asked for,
\* the promise resolves; the command then writes the cassette, if it records,
\* and calls process.exit, all before any other callback runs.
ChildExit ==
  /\ Up /\ ChildGone
  /\ \E orphans \in OrphanEvents :
       LogWrite(orphans \o <<Ev("server-exit", status)>>)
  /\ ProcessExit(ResolvedCode(status), inflight')
  /\ SaveCassette
  /\ UNCHANGED <<mode, spawned, clientVars, serverVars, wireVars, errPipe, obsVars,
                 logState, signalVars>>

\* child 'error': the command could not be spawned.  The event comes before
\* any I/O callback, the opening of the log file included.
SpawnError ==
  /\ proxy = "running" /\ ~spawned
  /\ LogWrite(<<Ev("spawn-error", 0)>>)
  /\ ProcessExit(127, inflight')
  /\ SaveCassette
  /\ UNCHANGED <<mode, spawned, clientVars, serverVars, wireVars, errPipe, obsVars,
                 logState, signalVars>>

-----------------------------------------------------------------------------
ProxyStep == \/ StdinData \/ StdinEnd \/ StdoutData \/ StderrData
             \/ HandleSignal \/ ChildExit \/ SpawnError
LogStep   == LogOpened \/ LogFlushed \/ LogFailed
ClientStep == ClientSend \/ ClientClose
ServerStep == ServerRead \/ ServerSend \/ ServerStderr \/ ServerExit

\* Nothing happens once the process and the child are gone.
Terminated ==
  /\ proxy = "exited"
  /\ spawned => status # Running
  /\ UNCHANGED vars

Next == \/ ClientStep \/ ServerStep \/ ProxyStep \/ LogStep
        \/ SignalArrives \/ Terminated

Spec == Init /\ [][Next]_vars

\* The event loop serves every callback that stays ready, the thread pool
\* finishes what it started, and the server keeps reading its stdin.  Nothing
\* is assumed of what the client, the server or a signal's sender does else.
Fairness ==
  /\ WF_vars(StdinData) /\ WF_vars(StdinEnd)
  /\ WF_vars(StdoutData) /\ WF_vars(StderrData)
  /\ WF_vars(HandleSignal) /\ WF_vars(ChildExit) /\ WF_vars(SpawnError)
  /\ WF_vars(LogStep) /\ WF_vars(ServerRead)

FairSpec == Spec /\ Fairness

-----------------------------------------------------------------------------
(* Invariants.                                                             *)

\* Every variable holds what the code can put there; the log stream's buffer
\* is in use only while there is a stream that can drain it.
TypeOK ==
  /\ mode \in Modes /\ spawned \in BOOLEAN
  /\ clientSent \in Seq(ClientMsg) /\ clientEof \in BOOLEAN
  /\ toProxy \in Seq(ClientMsg) /\ toServer \in Seq(ClientMsg)
  /\ stdinEnded \in BOOLEAN
  /\ serverGot \in Seq(ClientMsg)
  /\ serverSent \in Seq(ServerMsg) /\ fromServer \in Seq(ServerMsg)
  /\ clientGot \in Seq(ServerMsg)
  /\ errPipe \in Nat /\ errCount \in Nat
  /\ status \in ExitCodes \cup {Killed, Running}
  /\ signals \subseteq Signals /\ childSignals \subseteq Signals
  /\ proxy \in {"running", "exited"}
  /\ exitCode \in ExitCodes \cup {Running, 0, 1, 127}
  /\ pending \in [Keys -> 0 .. MaxClient]
  /\ cassette \in Seq(Pair) /\ cassetteFile \in Seq(Pair) /\ written \in BOOLEAN
  /\ events \in Seq(LogEvent)
  /\ logState \in {"opening", "open", "failed"}
  /\ inflight \in Seq(LogEvent) /\ queue \in Seq(LogEvent) /\ disk \in Seq(LogEvent)

\* Invariant (A) of docs/architecture.md while nothing is lost: each side has
\* received, in order and unaltered, what the other sent but for what is still
\* on the way.
WireIntact ==
  /\ clientSent = serverGot \o toServer \o toProxy
  /\ serverSent = clientGot \o fromServer

Forwarded == serverGot \o toServer

\* The lines of these types are the messages ms: every one once, in order.
LinesAre(ts, ms) ==
  LET lines == {i \in DOMAIN events : events[i].t \in ts}
  IN  /\ \A k \in DOMAIN ms : ms[k].n = k
      /\ {events[i].n : i \in lines} = DOMAIN ms
      /\ \A i, j \in lines : i < j => events[i].n < events[j].n

\* The observer sees the wire as it is: what it has logged of each direction
\* is what has been forwarded, in that order, a message that made the observer
\* throw being there as the note about it (proxy.ts, forward-then-observe).
ObservationIsExact ==
  /\ LinesAre({"c2s"}, Forwarded)
  /\ LinesAre({"s2c", "s2c-error"}, clientGot)

\* A reader of the log never finds an answer before its request: forwarding
\* and observing are one callback, so no answer can overtake the request's line.
CausalLog ==
  \A i \in DOMAIN events :
    events[i].t \in {"s2c", "s2c-error"} /\ serverSent[events[i].n].re # 0
      => \E j \in 1 .. i - 1 : events[j] = Ev("c2s", serverSent[events[i].n].re)

AskedAt(k) == {i \in DOMAIN events :
                 /\ events[i].t = "c2s"
                 /\ Keyed(clientSent[events[i].n])
                 /\ KeyOf[clientSent[events[i].n].id] = k}
AnsweredAt(k) == {i \in DOMAIN events :
                    /\ events[i].t \in {"s2c", "s2c-error"}
                    /\ Keyed(serverSent[events[i].n])
                    /\ KeyOf[serverSent[events[i].n].id] = k}

\* Correlator.pending against the history: a key is pending exactly when the
\* last request with it has had no response with it since, and it stands for
\* that request (whether or not the client reuses keys).
PendingIsExact ==
  \A k \in Keys :
    IF AskedAt(k) = {} \/ \E a \in AnsweredAt(k) : a > Max(AskedAt(k))
    THEN pending[k] = 0
    ELSE pending[k] = events[Max(AskedAt(k))].n

Answers(n) == {i \in DOMAIN clientGot : clientGot[i].re = n}
Requests == {i \in DOMAIN Forwarded : Forwarded[i].type = "request"}

\* The orphan notes of a session that ended name, once each, exactly the
\* forwarded requests with a usable id whose answer the client never received
\* (keys not reused).
OrphansAreUnanswered ==
  proxy = "exited" /\ (\E i \in DOMAIN events : events[i].t = "server-exit")
    => /\ {i \in Requests : Keyed(Forwarded[i]) /\ Answers(i) = {}}
              = {events[i].n : i \in {j \in DOMAIN events : events[j].t = "orphan-request"}}
       /\ \A i, j \in DOMAIN events :
             events[i].t = "orphan-request" /\ events[i] = events[j] => i = j

\* The cassette on disk holds exactly one pair for each request the client had
\* an answer to (the first one), but for those with an id that has no string:
\* what the client saw is what replay will serve.  (With reused keys this
\* fails: a request is paired with another's answer.)
CassetteIsComplete ==
  written =>
    \A n \in Requests :
      LET pairs == {i \in DOMAIN cassetteFile : cassetteFile[i].req = n}
      IN  IF Answers(n) = {} \/ Forwarded[n].id \in HardIds
          THEN pairs = {}
          ELSE \E i \in pairs : pairs = {i} /\ cassetteFile[i].res = clientGot[Min(Answers(n))].n

\* The file is a gap-free prefix of what was observed, in order, at every
\* moment, a failure of the disk or the end of the process included; and while
\* the stream works everything is on disk, being written or buffered.
LogIsPrefix ==
  /\ IsPrefix(disk, events)
  /\ proxy = "running" /\ logState # "failed" => events = disk \o inflight \o queue

-----------------------------------------------------------------------------
(* Refinement: each direction is a plain pipe that the proxy's exit breaks. *)

C2S == INSTANCE Wire WITH Msg <- ClientMsg, sent <- clientSent, got <- serverGot,
                          up <- proxy = "running"
S2C == INSTANCE Wire WITH Msg <- ServerMsg, sent <- serverSent, got <- clientGot,
                          up <- proxy = "running"

\* The proxy between client and server is indistinguishable, in both
\* directions, from the pipe it replaces (docs/architecture.md, "The one
\* primitive").
ImplementsWire == C2S!Spec /\ S2C!Spec

-----------------------------------------------------------------------------
(* Liveness, under Fairness.                                               *)

\* What the client sends reaches a server that runs and reads.
RequestsArrive ==
  \A n \in 1 .. MaxClient :
    Len(clientSent) >= n ~> (Len(serverGot) >= n \/ status # Running \/ proxy = "exited")

\* What the server sends reaches the client, unless the proxy ends first.
RepliesArrive ==
  \A n \in 1 .. MaxServer :
    Len(serverSent) >= n ~> (Len(clientGot) >= n \/ proxy = "exited")

\* The client's end of file is passed on, behind all its data.
EofArrives ==
  clientEof ~> (\/ stdinEnded /\ clientSent = Forwarded
                \/ status # Running \/ proxy = "exited")

\* Traffic, the end of it included, gets through in both directions: neither
\* waits for the other, back-pressure is released, and end of file is not lost.
EverythingArrives == RequestsArrive /\ RepliesArrive /\ EofArrives

\* The proxy never outlives its server, nor a command it could not spawn.
ProxyEnds == (status # Running \/ ~spawned) ~> proxy = "exited"

\* A signal to the proxy becomes a signal to the server or ends the proxy.
SignalsArrive ==
  \A s \in Signals : s \in signals ~> (s \in childSignals \/ proxy = "exited")

-----------------------------------------------------------------------------
(* What the documentation says of the end of a session; runProxy does not   *)
(* wait for child.stdout or for the log, so these fail.                     *)

\* docs/architecture.md (A): what the server sent has reached the client when
\* a session ends with the server's own exit.
OutputDrainedAtExit ==
  proxy = "exited" /\ spawned /\ mode # "tui" => clientGot = serverSent

\* docs/commands.md "What's logged" and docs/session-log.md "spawn-error": once
\* the session is over its log holds every event, the last notes included.
LogCompleteAtExit ==
  proxy = "exited" /\ mode # "tui" /\ logState # "failed" => disk = events
=============================================================================
