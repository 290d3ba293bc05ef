---------------------------- MODULE NativeProxy ----------------------------
(***************************************************************************)
(* The native proxy (native/mcpgaze-proxy/src/main.rs) and wrap --native,  *)
(* which runs it.  Three threads pump: c2s from the client to the server,  *)
(* s2c back, and err for the server's stderr; the main thread waits for    *)
(* the server, joins s2c and err, and exits.  Unlike Node's callbacks, the *)
(* steps of a thread (read, forward, log) interleave with everyone's.      *)
(*                                                                         *)
(* A message is a line, named by its place in what its sender wrote; a     *)
(* read takes any number of them.                                          *)
(***************************************************************************)
EXTENDS Integers, SequencesExt

CONSTANTS
  ExitCodes,      \* exit codes a server may end with
  MaxClient,      \* bound: messages the client sends
  MaxServer,      \* bound: messages the server sends
  MaxStderr,      \* bound: stderr lines the server writes
  PipeSize        \* bound: messages a pipe holds before a write to it blocks

ASSUME CodesAssumption == ExitCodes \subseteq Nat
ASSUME BoundsAssumption == /\ MaxClient \in Nat /\ MaxServer \in Nat
                           /\ MaxStderr \in Nat /\ PipeSize \in Nat \ {0}

Killed  == -1           \* ended by a signal
Running == -2           \* no status yet

Pumps == {"c2s", "s2c"}
Threads == Pumps \cup {"err"}

\* A line of the log: a message of one direction, a chunk of stderr (n counts
\* its lines), or a note with its code.
Event == [t : Threads \cup {"server-exit", "spawn-error"}, n : Nat]
Ev(t, n) == [t |-> t, n |-> n]

VARIABLES
  sent,           \* per thread: every message written to its source
  pipe,           \* per thread: the pipe it reads
  pc,             \* per thread: "read", "write", "log" or "done"
  chunk,          \* per thread: what the last read returned
  at,             \* per thread: how much of it this phase has dealt with
  outPipe,        \* per pump: the pipe it writes
  got,            \* per pump: what the other end has read
  clientOpen,     \* the client has not closed its end of our stdin
  clientReads,    \* the client has not closed its end of our stdout
  serverReads,    \* the server has not closed its stdin
  helper,         \* a process the server started and that shares its pipes
  status,         \* the server's exit status, or Running
  main,           \* where the main thread is
  log,            \* the lines in the log file
  proxy,          \* exit status of the proxy process, or Running
  wrapper         \* exit status of the mcpgaze process that runs it

threadVars == <<pc, chunk, at>>
pipeVars   == <<pipe, outPipe>>
envVars    == <<clientOpen, clientReads, serverReads, helper>>
vars == <<sent, got, threadVars, pipeVars, envVars, status, main, log, proxy, wrapper>>

Init ==
  /\ sent = [t \in Threads |-> <<>>] /\ pipe = [t \in Threads |-> <<>>]
  /\ pc = [t \in Threads |-> "read"]
  /\ chunk = [t \in Threads |-> <<>>] /\ at = [t \in Threads |-> 0]
  /\ outPipe = [d \in Pumps |-> <<>>] /\ got = [d \in Pumps |-> <<>>]
  /\ clientOpen = TRUE /\ clientReads = TRUE /\ serverReads = TRUE
  /\ helper \in BOOLEAN
  /\ status = Running /\ main = "spawn" /\ log = <<>>
  /\ proxy = Running /\ wrapper = Running

Alive == proxy = Running
\* The threads run from the moment the server is spawned.
Up == Alive /\ main # "spawn"

\* Someone holds the server's end of the pipes.
ServerSide == status = Running \/ helper

-----------------------------------------------------------------------------
(* The client, the server and a process it may leave behind.               *)

MaxOf(t) == CASE t = "c2s" -> MaxClient [] t = "s2c" -> MaxServer [] OTHER -> MaxStderr

\* Who may write to the source of thread t.  A thread that ends drops the
\* server's stdout or stderr, but our own stdin stays open.
MayWrite(t) == /\ IF t = "c2s" THEN clientOpen ELSE status = Running /\ pc[t] # "done"
               /\ Len(pipe[t]) < PipeSize /\ Len(sent[t]) < MaxOf(t)

PeerWrites(t) ==
  /\ Up /\ MayWrite(t)
  /\ LET n == Len(sent[t]) + 1
     IN  /\ sent' = [sent EXCEPT ![t] = Append(@, n)]
         /\ pipe' = [pipe EXCEPT ![t] = Append(@, n)]
  /\ UNCHANGED <<got, threadVars, outPipe, envVars, status, main, log, proxy, wrapper>>

\* What is in a pipe can be read after the proxy has gone.
PeerReads(d) ==
  /\ outPipe[d] # <<>>
  /\ IF d = "s2c" THEN clientReads ELSE status = Running /\ serverReads
  /\ got' = [got EXCEPT ![d] = Append(@, Head(outPipe[d]))]
  /\ outPipe' = [outPipe EXCEPT ![d] = Tail(@)]
  /\ UNCHANGED <<sent, threadVars, pipe, envVars, status, main, log, proxy, wrapper>>

PeerCloses ==
  /\ Up
  /\ \/ clientOpen /\ clientOpen' = FALSE /\ UNCHANGED <<clientReads, serverReads, helper>>
     \/ clientReads /\ clientReads' = FALSE /\ UNCHANGED <<clientOpen, serverReads, helper>>
     \/ serverReads /\ serverReads' = FALSE /\ UNCHANGED <<clientOpen, clientReads, helper>>
     \/ helper /\ helper' = FALSE /\ UNCHANGED <<clientOpen, clientReads, serverReads>>
  /\ UNCHANGED <<sent, got, threadVars, pipeVars, status, main, log, proxy, wrapper>>

ServerExit ==
  /\ Up /\ status = Running
  /\ status' \in ExitCodes \cup {Killed}
  /\ UNCHANGED <<sent, got, threadVars, pipeVars, envVars, main, log, proxy, wrapper>>

\* A signal: the proxy installs no handler and ends at once.
ProxyKilled ==
  /\ Alive
  /\ proxy' = Killed
  /\ UNCHANGED <<sent, got, threadVars, pipeVars, envVars, status, main, log, wrapper>>

-----------------------------------------------------------------------------
(* The threads.                                                            *)

\* read() returned bytes.  For a pump they are to be written first; stderr is
\* mirrored (our stderr is not modelled) and goes to the log next.
Read(t) ==
  /\ Up /\ pc[t] = "read" /\ pipe[t] # <<>>
  /\ \E k \in 1 .. Len(pipe[t]) :
       /\ chunk' = [chunk EXCEPT ![t] = SubSeq(pipe[t], 1, k)]
       /\ pipe' = [pipe EXCEPT ![t] = SubSeq(@, k + 1, Len(@))]
  /\ pc' = [pc EXCEPT ![t] = IF t \in Pumps THEN "write" ELSE "log"]
  /\ UNCHANGED <<sent, got, at, outPipe, envVars, status, main, log, proxy, wrapper>>

AtEof_ServerGone(t) == pipe[t] = <<>> /\ ~ServerSide             \* mutant
\* Nothing is left and no one holds the other end.
AtEof(t) == pipe[t] = <<>> /\ IF t = "c2s" THEN ~clientOpen ELSE ~ServerSide

\* read() returned 0: the thread ends and drops its destination.
ReadEof(t) ==
  /\ Up /\ pc[t] = "read" /\ AtEof(t)
  /\ pc' = [pc EXCEPT ![t] = "done"]
  /\ UNCHANGED <<sent, got, chunk, at, pipeVars, envVars, status, main, log, proxy, wrapper>>

\* Someone may still read what pump d writes.
DstOpen(d) == IF d = "s2c" THEN clientReads ELSE ServerSide /\ serverReads

ToWrite_FirstOfChunk(d) == Head(chunk[d])                       \* mutant
ToWrite(d) == chunk[d][at[d] + 1]

\* write_all: message after message, waiting when the pipe is full.
Write(d) ==
  /\ Up /\ pc[d] = "write" /\ DstOpen(d) /\ Len(outPipe[d]) < PipeSize
  /\ outPipe' = [outPipe EXCEPT ![d] = Append(@, ToWrite(d))]
  /\ IF at[d] + 1 < Len(chunk[d])
     THEN at' = [at EXCEPT ![d] = @ + 1] /\ UNCHANGED pc
     ELSE at' = [at EXCEPT ![d] = 0] /\ pc' = [pc EXCEPT ![d] = "log"]
  /\ UNCHANGED <<sent, got, chunk, pipe, envVars, status, main, log, proxy, wrapper>>

\* write_all failed: the pump breaks out of its loop, what it holds is lost.
WriteFails(d) ==
  /\ Up /\ pc[d] = "write" /\ ~DstOpen(d)
  /\ pc' = [pc EXCEPT ![d] = "done"]
  /\ UNCHANGED <<sent, got, chunk, at, pipeVars, envVars, status, main, log, proxy, wrapper>>

LogLine_LastOfChunk(d) == Ev(d, Last(chunk[d]))                  \* mutant
LogLine(d) == Ev(d, chunk[d][at[d] + 1])

\* One line of the chunk is written to the log and flushed, under the lock.
LogMessage(d) ==
  /\ Up /\ pc[d] = "log"
  /\ log' = Append(log, LogLine(d))
  /\ IF at[d] + 1 < Len(chunk[d])
     THEN at' = [at EXCEPT ![d] = @ + 1] /\ UNCHANGED <<pc, chunk>>
     ELSE /\ at' = [at EXCEPT ![d] = 0]
          /\ pc' = [pc EXCEPT ![d] = "read"]
          /\ chunk' = [chunk EXCEPT ![d] = <<>>]
  /\ UNCHANGED <<sent, got, pipeVars, envVars, status, main, proxy, wrapper>>

\* A chunk of stderr is one event, wherever its lines end.
LogStderr ==
  /\ Up /\ pc["err"] = "log"
  /\ log' = Append(log, Ev("err", Len(chunk["err"])))
  /\ pc' = [pc EXCEPT !["err"] = "read"]
  /\ chunk' = [chunk EXCEPT !["err"] = <<>>]
  /\ UNCHANGED <<sent, got, at, pipeVars, envVars, status, main, proxy, wrapper>>

-----------------------------------------------------------------------------
(* The main thread.                                                        *)

\* The log cannot be opened (1); the server cannot be spawned (127, after a
\* note); or the threads start.
Start ==
  /\ Alive /\ main = "spawn"
  /\ \/ main' = "wait" /\ UNCHANGED <<log, proxy>>
     \/ proxy' = 1 /\ UNCHANGED <<log, main>>
     \/ proxy' = 127 /\ log' = Append(log, Ev("spawn-error", 0)) /\ UNCHANGED main
  /\ UNCHANGED <<sent, got, threadVars, pipeVars, envVars, status, wrapper>>

OutJoined_Detached == TRUE                                      \* mutant
OutJoined_BothPumps == \A d \in Pumps : pc[d] = "done"           \* mutant
OutJoined == pc["s2c"] = "done"

ErrJoined == pc["err"] = "done"

\* child.wait(), then join s2c, then join err: c2s is not waited for.
MainGoesOn ==
  /\ Up
  /\ \/ main = "wait" /\ status # Running /\ main' = "joinOut"
     \/ main = "joinOut" /\ OutJoined /\ main' = "joinErr"
     \/ main = "joinErr" /\ ErrJoined /\ main' = "note"
  /\ UNCHANGED <<sent, got, threadVars, pipeVars, envVars, status, log, proxy, wrapper>>

\* status.code().unwrap_or(0): a server killed by a signal counts as 0.
ExitStatus == IF status = Killed THEN 0 ELSE status

NoteExit ==
  /\ Up /\ main = "note"
  /\ log' = Append(log, Ev("server-exit", ExitStatus))
  /\ main' = "exit"
  /\ UNCHANGED <<sent, got, threadVars, pipeVars, envVars, status, proxy, wrapper>>

Exit ==
  /\ Up /\ main = "exit"
  /\ proxy' = ExitStatus
  /\ UNCHANGED <<sent, got, threadVars, pipeVars, envVars, status, main, log, wrapper>>

\* wrap --native: process.exit(code ?? 0).
WrapperCode == IF proxy = Killed THEN 0 ELSE proxy

WrapperExit ==
  /\ ~Alive /\ wrapper = Running
  /\ wrapper' = WrapperCode
  /\ UNCHANGED <<sent, got, threadVars, pipeVars, envVars, status, main, log, proxy>>

-----------------------------------------------------------------------------
\* At any time at most one step of a thread is possible.
ThreadStep(t) ==
  \/ Read(t) \/ ReadEof(t)
  \/ t \in Pumps /\ (Write(t) \/ WriteFails(t) \/ LogMessage(t))
  \/ t = "err" /\ LogStderr
MainStep == Start \/ MainGoesOn \/ NoteExit \/ Exit

Next == \/ \E t \in Threads : ThreadStep(t) \/ PeerWrites(t)
        \/ \E d \in Pumps : PeerReads(d)
        \/ MainStep \/ WrapperExit
        \/ PeerCloses \/ ServerExit \/ ProxyKilled

\* The scheduler runs every thread that can run; the peers keep reading what
\* they have not closed.
Fairness == /\ \A t \in Threads : WF_vars(ThreadStep(t))
            /\ \A d \in Pumps : WF_vars(PeerReads(d))
            /\ WF_vars(MainStep)

Spec == Init /\ [][Next]_vars
FairSpec == Spec /\ Fairness

-----------------------------------------------------------------------------
(* Properties.                                                             *)

TypeOK ==
  /\ sent \in [Threads -> Seq(Nat)] /\ pipe \in [Threads -> Seq(Nat)]
  /\ pc \in [Threads -> {"read", "write", "log", "done"}]
  /\ chunk \in [Threads -> Seq(Nat)] /\ at \in [Threads -> Nat]
  /\ outPipe \in [Pumps -> Seq(Nat)] /\ got \in [Pumps -> Seq(Nat)]
  /\ {clientOpen, clientReads, serverReads, helper} \subseteq BOOLEAN
  /\ status \in ExitCodes \cup {Killed, Running}
  /\ main \in {"spawn", "wait", "joinOut", "joinErr", "note", "exit"}
  /\ log \in Seq(Event)
  /\ proxy \in Nat \cup {Killed, Running} /\ wrapper \in Nat \cup {Running}

\* What pump d has forwarded, what of its chunk it has not, and what it has
\* forwarded and not logged.
Forwarded(d) == got[d] \o outPipe[d]
Rest(d) == SubSeq(chunk[d], at[d] + 1, Len(chunk[d]))
Unwritten(d) == IF pc[d] \in {"write", "done"} THEN Rest(d) ELSE <<>>
Unlogged(d) == CASE pc[d] \in {"write", "done"} -> SubSeq(chunk[d], 1, at[d])
                 [] OTHER -> Rest(d)
Logged(t) ==
  LET Of[i \in 0 .. Len(log)] ==
        IF i = 0 THEN <<>>
        ELSE IF log[i].t = t THEN Append(Of[i - 1], log[i].n) ELSE Of[i - 1]
  IN  Of[Len(log)]

\* Nothing is lost, doubled, reordered or invented in either direction: what
\* the sender wrote is what was forwarded, what the pump holds, and what it has
\* not read, in this order, whatever the sizes of the reads.
WireIntact == \A d \in Pumps : sent[d] = Forwarded(d) \o Unwritten(d) \o pipe[d]

\* The log mirrors the wire: of each direction it holds what was forwarded, in
\* order, short of at most the chunk in hand, and this is so even when the
\* proxy is killed (the Node proxy can lose all of its log).
LogTrails == \A d \in Pumps : Forwarded(d) = Logged(d) \o Unlogged(d)

SumOf(s) ==
  LET Sum[i \in 0 .. Len(s)] == IF i = 0 THEN 0 ELSE Sum[i - 1] + s[i] IN Sum[Len(s)]

\* No output of the server is given up when the proxy goes.
OutputForwarded == main \in {"note", "exit"} /\ clientReads => Forwarded("s2c") = sent["s2c"]

\* When the server's exit is noted, everything it wrote has been forwarded,
\* unless the client closed its end, and logged: the joins have drained both
\* pipes, and only the detached c2s pump may write after the note.  (Of the
\* Node proxy this is false: OutputDrainedAtExit.)
DrainedAtExit ==
  TypeOK /\ OutputForwarded /\ (main \in {"note", "exit"} =>
    /\ \A i, j \in DOMAIN log : i < j /\ log[i].t = "server-exit" => log[j].t = "c2s"
    /\ clientReads => Logged("s2c") = sent["s2c"]
    /\ SumOf(Logged("err")) = Len(sent["err"]))

\* Each direction is a pipe (Wire): an answer or a request that the other side
\* reads is the next one it lacks.
C2S == INSTANCE Wire WITH Msg <- 1 .. MaxClient, sent <- sent["c2s"], got <- got["c2s"], up <- TRUE
S2C == INSTANCE Wire WITH Msg <- 1 .. MaxServer, sent <- sent["s2c"], got <- got["s2c"], up <- TRUE
ImplementsWire == C2S!Spec /\ S2C!Spec

\* Once the server and all who share its pipes are gone, the proxy ends, even
\* while the client keeps its end open and c2s waits for it.
ProxyEnds == (status # Running /\ ~helper) ~> ~Alive

\* A client that closes its end makes the server see end of file, after all of
\* its messages (WireIntact), while there is a server.
EofArrives == (~clientOpen /\ main # "spawn") ~> pc["c2s"] = "done" \/ ~Alive \/ status # Running
=============================================================================
