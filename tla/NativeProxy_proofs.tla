------------------------- MODULE NativeProxy_proofs -------------------------
(***************************************************************************)
(* NativeProxy for any exit codes and bounds: its types, that the wire is  *)
(* intact whatever the sizes of the reads and wherever a thread stops,     *)
(* that each direction implements a plain pipe (Wire), that the log        *)
(* mirrors the wire, and what the log holds when the server's exit is      *)
(* noted.                                                                  *)
(*                                                                         *)
(* None is inductive.  A pump may only be caught between two messages of a *)
(* chunk (PumpsSane), so a step of write_all takes the first message of    *)
(* what is unwritten; only a server whose status is known has its exit     *)
(* noted (Waited); the threads that main has joined hold nothing (Joined,  *)
(* ErrTold); and behind the note only requests are logged (NoteIsLast).    *)
(* What is in the log is a recursion over it, so the lemmas about Logged   *)
(* and SumOf go by induction with SetInduction.                            *)
(***************************************************************************)
EXTENDS NativeProxy, SequenceLemmas

\* Where a pump can be in its chunk.
PumpsSane ==
  \A d \in Pumps :
    /\ pc[d] = "read" => chunk[d] = <<>> /\ at[d] = 0
    /\ pc[d] \in {"write", "log"} => at[d] < Len(chunk[d])

\* wait() has returned before the main thread goes on.
Waited == main \notin {"spawn", "wait"} => status # Running

Sane == TypeOK /\ PumpsSane /\ Waited

-----------------------------------------------------------------------------
(* Types, and where pumps and main can be.                                  *)

LEMMA InitSane == Init => Sane
  BY CodesAssumption DEF Init, Sane, TypeOK, PumpsSane, Waited, Pumps, Threads, Running, Killed

(* Each step of the client, the server and the signals.                     *)
LEMMA PeersSane ==
  ASSUME Sane,
         \/ \E t \in Threads : PeerWrites(t)
         \/ \E d \in Pumps : PeerReads(d)
         \/ PeerCloses \/ ServerExit \/ ProxyKilled
  PROVE  Sane'
<1> USE DEF Sane, TypeOK, PumpsSane, Waited, threadVars, pipeVars, envVars
<1>1. ASSUME NEW t \in Threads, PeerWrites(t) PROVE Sane'
  <2> DEFINE n == Len(sent[t]) + 1
  <2>1. n \in Nat /\ sent[t] \in Seq(Nat) /\ pipe[t] \in Seq(Nat)
    OBVIOUS
  <2>2. Append(sent[t], n) \in Seq(Nat) /\ Append(pipe[t], n) \in Seq(Nat)
    BY <2>1, AppendProperties
  <2>3. sent' = [sent EXCEPT ![t] = Append(@, n)] /\ pipe' = [pipe EXCEPT ![t] = Append(@, n)]
    BY <1>1 DEF PeerWrites
  <2> HIDE DEF n
  <2>4. sent' \in [Threads -> Seq(Nat)] /\ pipe' \in [Threads -> Seq(Nat)]
    BY <2>2, <2>3
  <2> QED BY <1>1, <2>4 DEF PeerWrites
<1>2. ASSUME NEW d \in Pumps, PeerReads(d) PROVE Sane'
  <2>1. outPipe[d] \in Seq(Nat) /\ got[d] \in Seq(Nat) /\ outPipe[d] # <<>>
    BY <1>2 DEF PeerReads
  <2>2. Head(outPipe[d]) \in Nat /\ Tail(outPipe[d]) \in Seq(Nat)
    BY <2>1, HeadTailProperties
  <2>3. got' \in [Pumps -> Seq(Nat)] /\ outPipe' \in [Pumps -> Seq(Nat)]
    BY <1>2, <2>1, <2>2 DEF PeerReads
  <2> QED BY <1>2, <2>3 DEF PeerReads
<1>3. PeerCloses => Sane'
  BY DEF PeerCloses
<1>4. ServerExit => Sane'
  BY CodesAssumption DEF ServerExit, Running, Killed
<1>5. ProxyKilled => Sane'
  BY DEF ProxyKilled
<1> QED BY <1>1, <1>2, <1>3, <1>4, <1>5

(* Each step of a thread.                                                   *)
LEMMA ThreadsSane ==
  ASSUME Sane, NEW t \in Threads, ThreadStep(t)
  PROVE  Sane'
<1> USE DEF Sane, TypeOK, PumpsSane, Waited, threadVars, pipeVars, envVars
<1>e. \A th \in Threads, n \in Nat : Ev(th, n) \in Event
  BY DEF Ev, Event
<1>0. /\ pipe[t] \in Seq(Nat) /\ chunk[t] \in Seq(Nat) /\ at[t] \in Nat
      /\ Pumps \subseteq Threads
  BY DEF Threads
<1>1. CASE Read(t)
  <2>1. PICK k \in 1 .. Len(pipe[t]) :
          /\ chunk' = [chunk EXCEPT ![t] = SubSeq(pipe[t], 1, k)]
          /\ pipe' = [pipe EXCEPT ![t] = SubSeq(@, k + 1, Len(@))]
    BY <1>1 DEF Read
  <2>2. /\ SubSeq(pipe[t], 1, k) \in Seq(Nat) /\ Len(SubSeq(pipe[t], 1, k)) = k
        /\ SubSeq(pipe[t], k + 1, Len(pipe[t])) \in Seq(Nat)
    BY <1>0, SplitAt
  <2>3. chunk' \in [Threads -> Seq(Nat)] /\ pipe' \in [Threads -> Seq(Nat)]
    BY <2>1, <2>2
  <2>4. /\ pc' = [pc EXCEPT ![t] = IF t \in Pumps THEN "write" ELSE "log"]
        /\ pc[t] = "read" /\ at' = at
    BY <1>1 DEF Read
  <2>5. PumpsSane'
    <3> SUFFICES ASSUME NEW d \in Pumps
                 PROVE  /\ pc'[d] = "read" => chunk'[d] = <<>> /\ at'[d] = 0
                        /\ pc'[d] \in {"write", "log"} => at'[d] < Len(chunk'[d])
      OBVIOUS
    <3>1. CASE d = t
      <4>1. pc'[d] = "write" /\ at'[d] = 0 /\ chunk'[d] = SubSeq(pipe[t], 1, k)
        BY <1>0, <2>1, <2>4, <3>1
      <4> QED BY <2>2, <4>1
    <3>2. CASE d # t
      BY <1>0, <2>1, <2>4, <3>2
    <3> QED BY <3>1, <3>2
  <2> QED BY <1>1, <2>3, <2>4, <2>5 DEF Read
<1>2. CASE ReadEof(t)
  BY <1>0, <1>2 DEF ReadEof
<1>3. CASE t \in Pumps /\ Write(t)
  <2>1. ToWrite(t) \in Nat
    BY <1>0, <1>3, RestAfter DEF Write, ToWrite
  <2>2. outPipe' \in [Pumps -> Seq(Nat)]
    <3>1. outPipe[t] \in Seq(Nat)
      BY <1>3
    <3>2. Append(outPipe[t], ToWrite(t)) \in Seq(Nat)
      BY <2>1, <3>1, AppendProperties
    <3> QED BY <1>3, <3>2 DEF Write
  <2>3. /\ at' \in [Threads -> Nat] /\ pc' \in [Threads -> {"read", "write", "log", "done"}]
        /\ PumpsSane'
    <3>1. /\ at[t] + 1 < Len(chunk[t])
             => at' = [at EXCEPT ![t] = @ + 1] /\ pc' = pc
          /\ ~(at[t] + 1 < Len(chunk[t]))
             => at' = [at EXCEPT ![t] = 0] /\ pc' = [pc EXCEPT ![t] = "log"]
          /\ chunk' = chunk /\ pc[t] = "write" /\ at[t] < Len(chunk[t])
      BY <1>3 DEF Write
    <3>2. /\ at' \in [Threads -> Nat] /\ pc' \in [Threads -> {"read", "write", "log", "done"}]
          /\ at'[t] < Len(chunk[t]) /\ pc'[t] \in {"write", "log"}
      <4>1. CASE at[t] + 1 < Len(chunk[t])
        <5>1. at[t] + 1 \in Nat
          BY <1>0
        <5> QED BY <1>0, <3>1, <4>1, <5>1
      <4>2. CASE ~(at[t] + 1 < Len(chunk[t]))
        <5>0. at' = [at EXCEPT ![t] = 0] /\ pc' = [pc EXCEPT ![t] = "log"]
          BY <3>1, <4>2
        <5>1. at' \in [Threads -> Nat] /\ at'[t] = 0 /\ pc'[t] = "log"
          BY <5>0
        <5>2. pc' \in [Threads -> {"read", "write", "log", "done"}]
          BY <5>0
        <5>3. 0 < Len(chunk[t])
          BY <1>0, <3>1
        <5> QED BY <5>1, <5>2, <5>3
      <4> QED BY <4>1, <4>2
    <3>3. \A d \in Pumps : d # t => at'[d] = at[d] /\ pc'[d] = pc[d]
      BY <1>0, <3>1
    <3>4. PumpsSane'
      BY <1>0, <3>1, <3>2, <3>3
    <3> QED BY <3>2, <3>4
  <2> QED BY <1>3, <2>2, <2>3 DEF Write
<1>4. CASE t \in Pumps /\ WriteFails(t)
  BY <1>0, <1>4 DEF WriteFails
<1>5. CASE t \in Pumps /\ LogMessage(t)
  <2>1. LogLine(t) \in Event
    BY <1>0, <1>5, <1>e, RestAfter DEF LogMessage, LogLine
  <2>2. log' \in Seq(Event)
    BY <1>5, <2>1, AppendProperties DEF LogMessage
  <2>3. /\ at' \in [Threads -> Nat] /\ pc' \in [Threads -> {"read", "write", "log", "done"}]
        /\ chunk' \in [Threads -> Seq(Nat)] /\ PumpsSane'
    <3>1. /\ at[t] + 1 < Len(chunk[t])
             => at' = [at EXCEPT ![t] = @ + 1] /\ pc' = pc /\ chunk' = chunk
          /\ ~(at[t] + 1 < Len(chunk[t]))
             => /\ at' = [at EXCEPT ![t] = 0] /\ pc' = [pc EXCEPT ![t] = "read"]
                /\ chunk' = [chunk EXCEPT ![t] = <<>>]
          /\ pc[t] = "log" /\ at[t] < Len(chunk[t])
      BY <1>5 DEF LogMessage
    <3>2. <<>> \in Seq(Nat)
      OBVIOUS
    <3>3. /\ at' \in [Threads -> Nat] /\ pc' \in [Threads -> {"read", "write", "log", "done"}]
          /\ chunk' \in [Threads -> Seq(Nat)]
      <4>1. CASE at[t] + 1 < Len(chunk[t])
        <5>1. at[t] + 1 \in Nat
          BY <1>0
        <5> QED BY <1>0, <3>1, <4>1, <5>1
      <4>2. CASE ~(at[t] + 1 < Len(chunk[t]))
        <5>1. /\ at' = [at EXCEPT ![t] = 0] /\ pc' = [pc EXCEPT ![t] = "read"]
              /\ chunk' = [chunk EXCEPT ![t] = <<>>]
          BY <3>1, <4>2
        <5>2. at' \in [Threads -> Nat] /\ chunk' \in [Threads -> Seq(Nat)]
          BY <3>2, <5>1
        <5>3. pc' \in [Threads -> {"read", "write", "log", "done"}]
          BY <5>1
        <5> QED BY <5>2, <5>3
      <4> QED BY <4>1, <4>2
    <3>4. \/ at'[t] < Len(chunk'[t]) /\ pc'[t] = "log"
          \/ at'[t] = 0 /\ chunk'[t] = <<>> /\ pc'[t] = "read"
      BY <1>0, <3>1
    <3>5. \A d \in Pumps : d # t => at'[d] = at[d] /\ pc'[d] = pc[d] /\ chunk'[d] = chunk[d]
      BY <1>0, <3>1
    <3>6. PumpsSane'
      BY <1>0, <3>4, <3>5
    <3> QED BY <3>3, <3>6
  <2> QED BY <1>5, <2>2, <2>3 DEF LogMessage
<1>6. CASE t = "err" /\ LogStderr
  <2>1. Ev("err", Len(chunk["err"])) \in Event
    BY <1>0, <1>6, <1>e
  <2>2. log' \in Seq(Event)
    BY <1>6, <2>1, AppendProperties DEF LogStderr
  <2>3. \A d \in Pumps : d # "err"
    BY DEF Pumps
  <2>4. <<>> \in Seq(Nat)
    OBVIOUS
  <2> QED BY <1>0, <1>6, <2>2, <2>3, <2>4 DEF LogStderr
<1> QED BY <1>1, <1>2, <1>3, <1>4, <1>5, <1>6 DEF ThreadStep

(* Each step of the main thread, and of the process that waits for us.      *)
LEMMA MainSane ==
  ASSUME Sane, MainStep \/ WrapperExit \/ UNCHANGED vars
  PROVE  Sane'
<1> USE DEF Sane, TypeOK, PumpsSane, Waited, threadVars, pipeVars, envVars, Running, Killed
<1>1. Start => Sane'
  <2> SUFFICES ASSUME Start PROVE Sane'
    OBVIOUS
  <2>1. Ev("spawn-error", 0) \in Event
    BY DEF Ev, Event
  <2>2. Append(log, Ev("spawn-error", 0)) \in Seq(Event)
    BY <2>1, AppendProperties
  <2>3. log' \in Seq(Event)
    BY <2>2 DEF Start
  <2> QED BY <2>3 DEF Start, Alive
<1>2. MainGoesOn => Sane'
  BY DEF MainGoesOn
<1>3. Up /\ main \in {"note", "exit"} => ExitStatus \in Nat
  BY CodesAssumption DEF ExitStatus
<1>4. NoteExit => Sane'
  <2> SUFFICES ASSUME NoteExit PROVE Sane'
    OBVIOUS
  <2>1. Ev("server-exit", ExitStatus) \in Event
    BY <1>3 DEF Ev, Event, NoteExit
  <2>2. log' \in Seq(Event)
    BY <2>1, AppendProperties DEF NoteExit
  <2> QED BY <2>2 DEF NoteExit
<1>5. Exit => Sane'
  BY <1>3 DEF Exit
<1>6. WrapperExit => Sane'
  BY DEF WrapperExit, WrapperCode, Alive
<1>7. UNCHANGED vars => Sane'
  BY DEF vars
<1> QED BY <1>1, <1>2, <1>4, <1>5, <1>6, <1>7 DEF MainStep

LEMMA NextSane == Sane /\ [Next]_vars => Sane'
  BY PeersSane, ThreadsSane, MainSane DEF Next

(* Every variable keeps its type, for any exit codes and bounds.            *)
THEOREM TypeCorrect == Spec => []TypeOK
<1>1. Sane => TypeOK
  BY DEF Sane
<1> QED BY <1>1, InitSane, NextSane, PTL DEF Spec

-----------------------------------------------------------------------------
(* Lines are named by numbers.                                              *)
LEMMA LinesAssociate == \A a, b, c \in Seq(Nat) : (a \o b) \o c = a \o (b \o c)
  BY SMTT(30), ConcatAssociative
LEMMA LineAppended == \A a, b \in Seq(Nat), n \in Nat : a \o Append(b, n) = Append(a \o b, n)
  BY ConcatAppend
LEMMA LineDelivered ==
  \A a, b \in Seq(Nat) :
    b # <<>> => Len(a) < Len(a \o b) /\ (a \o b)[Len(a) + 1] = Head(b)
  BY NextInTransit

-----------------------------------------------------------------------------
(* The wire.  Intact(d) is WireIntact of one direction; onWire(d) is what it *)
(* depends on.                                                              *)
Intact(d) == sent[d] = Forwarded(d) \o Unwritten(d) \o pipe[d]
onWire(d) == <<sent[d], got[d], outPipe[d], Unwritten(d), pipe[d]>>

LEMMA InitIntact == Init => \A d \in Pumps : Intact(d)
<1>1. <<>> \o <<>> = <<>>
  OBVIOUS
<1> SUFFICES ASSUME Init, NEW d \in Pumps PROVE Intact(d)
  OBVIOUS
<1>2. d \in Threads /\ d # "err"
  BY DEF Pumps, Threads
<1>3. /\ sent[d] = <<>> /\ got[d] = <<>> /\ outPipe[d] = <<>> /\ pipe[d] = <<>>
      /\ Unwritten(d) = <<>>
  BY <1>2 DEF Init, Unwritten
<1> QED BY <1>1, <1>3 DEF Intact, Forwarded

(* A pump holds something to be written only while it writes, or when it has *)
(* failed to.                                                               *)
LEMMA OffTheWire ==
  ASSUME Sane, [Next]_vars, NEW d \in Pumps
  PROVE  PeerWrites(d) \/ PeerReads(d) \/ Read(d) \/ Write(d) \/ UNCHANGED onWire(d)
<1> USE DEF onWire, threadVars, pipeVars, envVars
<1>0. d \in Threads /\ d # "err"
  BY DEF Pumps, Threads
<1>t. /\ sent \in [Threads -> Seq(Nat)] /\ pipe \in [Threads -> Seq(Nat)]
      /\ pc \in [Threads -> {"read", "write", "log", "done"}]
      /\ chunk \in [Threads -> Seq(Nat)] /\ at \in [Threads -> Nat]
      /\ outPipe \in [Pumps -> Seq(Nat)] /\ got \in [Pumps -> Seq(Nat)]
  BY DEF Sane, TypeOK
<1>1. ASSUME NEW t \in Threads, t # d, PeerWrites(t) \/ ThreadStep(t)
      PROVE  UNCHANGED onWire(d)
  <2>1. UNCHANGED <<sent[d], got[d], outPipe[d], pipe[d], pc[d], chunk[d], at[d]>>
    <3>1. CASE PeerWrites(t)
      BY <1>0, <1>t, <1>1, <3>1 DEF PeerWrites
    <3>2. CASE Read(t) \/ ReadEof(t)
      BY <1>0, <1>t, <1>1, <3>2 DEF Read, ReadEof
    <3>3. CASE t \in Pumps /\ (Write(t) \/ WriteFails(t) \/ LogMessage(t))
      BY SMTT(30), <1>0, <1>t, <1>1, <3>3 DEF Write, WriteFails, LogMessage
    <3>4. CASE t = "err" /\ LogStderr
      BY <1>0, <1>t, <1>1, <3>4 DEF LogStderr
    <3> QED BY <1>1, <3>1, <3>2, <3>3, <3>4 DEF ThreadStep
  <2> QED BY <2>1 DEF Unwritten, Rest
<1>2. ASSUME NEW e \in Pumps, e # d, PeerReads(e) PROVE UNCHANGED onWire(d)
  BY <1>0, <1>t, <1>2 DEF PeerReads, Unwritten, Rest
<1>3. ReadEof(d) => UNCHANGED onWire(d)
  <2> SUFFICES ASSUME ReadEof(d) PROVE UNCHANGED onWire(d)
    OBVIOUS
  <2>1. pc[d] = "read" /\ pc'[d] = "done" /\ chunk[d] = <<>> /\ at[d] = 0
    BY <1>0, <1>t DEF ReadEof, Sane, PumpsSane
  <2>2. UNCHANGED <<sent, got, outPipe, pipe, chunk, at>>
    BY DEF ReadEof
  <2>3. Unwritten(d) = <<>>
    BY <2>1 DEF Unwritten
  <2>4. Unwritten(d)' = <<>>
    <3>1. Unwritten(d)' = SubSeq(chunk[d], at[d] + 1, Len(chunk[d]))
      BY <2>1, <2>2 DEF Unwritten, Rest
    <3>2. Len(chunk[d]) = 0 /\ at[d] + 1 = 1
      BY <2>1
    <3> QED BY <3>1, <3>2, SubSeqEmpty
  <2> QED BY <2>2, <2>3, <2>4
<1>4. WriteFails(d) => UNCHANGED onWire(d)
  BY <1>0, <1>t DEF WriteFails, Unwritten, Rest
<1>5. LogMessage(d) => UNCHANGED onWire(d)
  <2> SUFFICES ASSUME LogMessage(d) PROVE UNCHANGED onWire(d)
    OBVIOUS
  <2>1. pc[d] = "log" /\ pc'[d] \in {"log", "read"}
    BY <1>0, <1>t DEF LogMessage
  <2>2. UNCHANGED <<sent, got, outPipe, pipe>>
    BY DEF LogMessage
  <2> QED BY <2>1, <2>2 DEF Unwritten
<1>6. (PeerCloses \/ ServerExit \/ ProxyKilled \/ MainStep \/ WrapperExit \/ UNCHANGED vars)
        => UNCHANGED onWire(d)
  BY DEF PeerCloses, ServerExit, ProxyKilled, MainStep, Start, MainGoesOn, NoteExit, Exit,
         WrapperExit, vars, Unwritten, Rest
<1>7. ThreadStep(d) => Read(d) \/ Write(d) \/ UNCHANGED onWire(d)
  BY <1>0, <1>3, <1>4, <1>5 DEF ThreadStep
<1> QED BY <1>1, <1>2, <1>6, <1>7 DEF Next

LEMMA NextIntact ==
  ASSUME Sane, [Next]_vars, NEW d \in Pumps, Intact(d)
  PROVE  Intact(d)'
<1> USE DEF threadVars, pipeVars, envVars
<1>0. d \in Threads /\ d # "err"
  BY DEF Pumps, Threads
<1>t. /\ sent[d] \in Seq(Nat) /\ pipe[d] \in Seq(Nat) /\ chunk[d] \in Seq(Nat)
      /\ at[d] \in Nat /\ outPipe[d] \in Seq(Nat) /\ got[d] \in Seq(Nat)
  BY <1>0 DEF Sane, TypeOK
<1>T. /\ sent \in [Threads -> Seq(Nat)] /\ pipe \in [Threads -> Seq(Nat)]
      /\ pc \in [Threads -> {"read", "write", "log", "done"}]
      /\ chunk \in [Threads -> Seq(Nat)] /\ at \in [Threads -> Nat]
      /\ outPipe \in [Pumps -> Seq(Nat)] /\ got \in [Pumps -> Seq(Nat)]
  BY <1>0 DEF Sane, TypeOK
<1>s. /\ pc[d] = "read" => chunk[d] = <<>> /\ at[d] = 0
      /\ pc[d] \in {"write", "log"} => at[d] < Len(chunk[d])
  BY DEF Sane, PumpsSane
<1> DEFINE F == Forwarded(d)  U == Unwritten(d)  P == pipe[d]
<1>u. U \in Seq(Nat)
  <2>1. <<>> \in Seq(Nat)
    OBVIOUS
  <2>2. Rest(d) \in Seq(Nat)
    <3>1. \A i \in at[d] + 1 .. Len(chunk[d]) : chunk[d][i] \in Nat
      BY SMTT(30), <1>t
    <3>2. at[d] + 1 \in Int /\ Len(chunk[d]) \in Int
      BY <1>t
    <3> QED BY <3>1, <3>2, SubSeqProperties DEF Rest
  <2> QED BY <2>1, <2>2 DEF Unwritten
<1>f. F \in Seq(Nat) /\ F \o U \in Seq(Nat)
  <2>1. F \in Seq(Nat)
    BY <1>t, ConcatProperties DEF Forwarded
  <2> QED BY <1>u, <2>1, ConcatProperties
<1>p. P \in Seq(Nat)
  BY <1>t
<1>w. sent[d] = (F \o U) \o P
  BY DEF Intact
<1>1. CASE PeerWrites(d)
  <2> DEFINE n == Len(sent[d]) + 1
  <2>1. n \in Nat /\ sent'[d] = Append(sent[d], n) /\ pipe'[d] = Append(P, n)
    BY <1>0, <1>T, <1>1 DEF PeerWrites
  <2> HIDE DEF n, F, U, P
  <2>2. (F \o U) \o Append(P, n) = Append(sent[d], n)
    BY SMTT(30), <1>f, <1>p, <1>w, <2>1, LineAppended
  <2>3. Forwarded(d)' = F /\ Unwritten(d)' = U
    BY <1>1 DEF PeerWrites, Forwarded, Unwritten, Rest, F, U
  <2> QED BY <2>1, <2>2, <2>3 DEF Intact, P
<1>2. CASE PeerReads(d)
  <2>1. /\ outPipe[d] # <<>> /\ got'[d] = Append(got[d], Head(outPipe[d]))
        /\ outPipe'[d] = Tail(outPipe[d])
    BY <1>T, <1>2 DEF PeerReads
  <2>2. Forwarded(d)' = F
    BY <1>t, <2>1, MoveHead DEF Forwarded
  <2>3. Unwritten(d)' = U /\ sent' = sent /\ pipe' = pipe
    BY <1>2 DEF PeerReads, Unwritten, Rest
  <2> QED BY <1>w, <2>2, <2>3 DEF Intact
<1>3. CASE Read(d)
  <2>1. PICK k \in 1 .. Len(P) :
          /\ chunk' = [chunk EXCEPT ![d] = SubSeq(P, 1, k)]
          /\ pipe' = [pipe EXCEPT ![d] = SubSeq(@, k + 1, Len(@))]
    BY <1>3 DEF Read
  <2>2. pc[d] = "read" /\ pc' = [pc EXCEPT ![d] = "write"] /\ UNCHANGED <<sent, got, outPipe, at>>
    BY <1>3 DEF Read
  <2>3. U = <<>> /\ F \o U = F
    BY <1>f, <1>u, <2>2, ConcatEmptySeq DEF Unwritten
  <2>4. /\ SubSeq(P, 1, k) \in Seq(Nat) /\ Len(SubSeq(P, 1, k)) = k
        /\ SubSeq(P, k + 1, Len(P)) \in Seq(Nat)
        /\ SubSeq(P, 1, k) \o SubSeq(P, k + 1, Len(P)) = P
    BY <1>t, SplitAt
  <2>5. Unwritten(d)' = SubSeq(P, 1, k)
    <3>1. chunk'[d] = SubSeq(P, 1, k) /\ at'[d] = 0 /\ pc'[d] = "write"
      BY <1>0, <1>T, <1>s, <2>1, <2>2
    <3>2. Unwritten(d)' = SubSeq(chunk'[d], 1, Len(chunk'[d]))
      BY <3>1 DEF Unwritten, Rest
    <3> QED BY <2>4, <3>1, <3>2, SubSeqFull
  <2>6. pipe'[d] = SubSeq(P, k + 1, Len(P)) /\ Forwarded(d)' = F /\ sent' = sent
    BY <1>0, <1>T, <2>1, <2>2 DEF Forwarded
  <2>7. sent[d] = F \o (SubSeq(P, 1, k) \o SubSeq(P, k + 1, Len(P)))
    BY <1>w, <2>3, <2>4
  <2>8. sent[d] = (F \o SubSeq(P, 1, k)) \o SubSeq(P, k + 1, Len(P))
    BY <1>f, <2>4, <2>7, LinesAssociate
  <2> QED BY <2>5, <2>6, <2>8 DEF Intact
<1>4. CASE Write(d)
  <2>1. /\ pc[d] = "write" /\ outPipe'[d] = Append(outPipe[d], ToWrite(d))
        /\ at[d] + 1 < Len(chunk[d]) => at' = [at EXCEPT ![d] = @ + 1] /\ pc' = pc
        /\ ~(at[d] + 1 < Len(chunk[d]))
             => at' = [at EXCEPT ![d] = 0] /\ pc' = [pc EXCEPT ![d] = "log"]
        /\ UNCHANGED <<sent, got, chunk, pipe>>
    BY <1>T, <1>4 DEF Write
  <2>2. /\ U # <<>> /\ Head(U) = ToWrite(d) /\ ToWrite(d) \in Nat
        /\ Tail(U) = SubSeq(chunk[d], at[d] + 2, Len(chunk[d]))
    <3>1. chunk[d] \in Seq(Nat) /\ at[d] \in Nat /\ at[d] < Len(chunk[d])
      BY <1>t, <1>s, <2>1
    <3>2. U = SubSeq(chunk[d], at[d] + 1, Len(chunk[d]))
      BY <2>1 DEF Unwritten, Rest
    <3> HIDE DEF U
    <3> QED BY <3>1, <3>2, RestAfter DEF ToWrite
  <2>3. Unwritten(d)' = Tail(U)
    <3>1. CASE at[d] + 1 < Len(chunk[d])
      <4>1. pc'[d] = "write" /\ at'[d] = at[d] + 1 /\ (at[d] + 1) + 1 = at[d] + 2
        BY <1>0, <1>T, <2>1, <3>1
      <4> QED BY <2>1, <2>2, <4>1 DEF Unwritten, Rest
    <3>2. CASE ~(at[d] + 1 < Len(chunk[d]))
      <4>0. pc' = [pc EXCEPT ![d] = "log"]
        BY <2>1, <3>2
      <4>1. pc'[d] = "log" /\ Len(chunk[d]) < at[d] + 2
        BY <1>0, <1>T, <3>2, <4>0
      <4>2. Tail(U) = <<>>
        <5>1. at[d] + 2 \in Int /\ Len(chunk[d]) \in Int
          BY <1>t
        <5> QED BY <2>2, <4>1, <5>1, SubSeqEmpty
      <4> QED BY <4>1, <4>2 DEF Unwritten
    <3> QED BY <3>1, <3>2
  <2>4. Forwarded(d)' = Append(F, Head(U))
    <3>1. Forwarded(d)' = got[d] \o Append(outPipe[d], ToWrite(d))
      BY <2>1 DEF Forwarded
    <3>2. got[d] \o Append(outPipe[d], ToWrite(d)) = Append(got[d] \o outPipe[d], ToWrite(d))
      BY <1>t, <2>2, LineAppended
    <3> QED BY <2>2, <3>1, <3>2 DEF Forwarded
  <2> HIDE DEF F, U
  <2>5. Append(F, Head(U)) \o Tail(U) = F \o U
    BY <1>f, <1>u, <2>2, MoveHead
  <2> QED BY <1>w, <2>1, <2>3, <2>4, <2>5 DEF Intact
<1>5. CASE UNCHANGED onWire(d)
  BY <1>5, <1>w DEF onWire, Intact, Forwarded
<1> QED BY <1>1, <1>2, <1>3, <1>4, <1>5, OffTheWire

LEMMA SaneAndIntact == Spec => [](Sane /\ WireIntact)
<1>1. WireIntact <=> \A d \in Pumps : Intact(d)
  BY DEF WireIntact, Intact
<1>2. Init => Sane /\ WireIntact
  BY <1>1, InitSane, InitIntact
<1>3. (Sane /\ WireIntact) /\ [Next]_vars => (Sane /\ WireIntact)'
  <2> SUFFICES ASSUME Sane, WireIntact, [Next]_vars PROVE Sane' /\ WireIntact'
    OBVIOUS
  <2>1. \A d \in Pumps : Intact(d)'
    BY <1>1, NextIntact
  <2> QED BY <2>1, NextSane DEF WireIntact, Intact
<1> QED BY <1>2, <1>3, PTL DEF Spec

(* Nothing is lost, doubled, reordered or invented in either direction, for   *)
(* chunks of any size and pipes of any capacity, up to the instant the proxy  *)
(* is killed or the write of a pump fails, and after.                         *)
THEOREM WireAlwaysIntact == Spec => []WireIntact
<1> QED BY SaneAndIntact, PTL

-----------------------------------------------------------------------------
(* The refinement.                                                           *)

(* What either end sees of a direction: a message is sent, the next one is   *)
(* delivered, or nothing happens.                                            *)
LEMMA PipeStep ==
  ASSUME Sane, WireIntact, [Next]_vars, NEW d \in Pumps
  PROVE  \/ /\ \E m \in 1 .. MaxOf(d) : sent'[d] = Append(sent[d], m)
            /\ got'[d] = got[d]
         \/ /\ Len(got[d]) < Len(sent[d])
            /\ got'[d] = Append(got[d], sent[d][Len(got[d]) + 1])
            /\ sent'[d] = sent[d]
         \/ sent'[d] = sent[d] /\ got'[d] = got[d]
<1>0. d \in Threads /\ MaxOf(d) \in Nat
  BY BoundsAssumption DEF Pumps, Threads, MaxOf
<1>t. /\ sent \in [Threads -> Seq(Nat)] /\ got \in [Pumps -> Seq(Nat)]
      /\ sent[d] \in Seq(Nat) /\ got[d] \in Seq(Nat) /\ outPipe[d] \in Seq(Nat)
      /\ outPipe \in [Pumps -> Seq(Nat)] /\ pipe[d] \in Seq(Nat)
  BY <1>0 DEF Sane, TypeOK
<1>1. CASE PeerWrites(d)
  <2>1. Len(sent[d]) + 1 \in 1 .. MaxOf(d)
    BY <1>0, <1>t, <1>1 DEF PeerWrites, MayWrite
  <2>2. sent'[d] = Append(sent[d], Len(sent[d]) + 1) /\ got' = got
    BY <1>0, <1>t, <1>1 DEF PeerWrites
  <2> QED BY <2>1, <2>2
<1>2. CASE PeerReads(d)
  <2>1. /\ outPipe[d] # <<>> /\ got'[d] = Append(got[d], Head(outPipe[d])) /\ sent' = sent
    BY <1>t, <1>2 DEF PeerReads
  <2> DEFINE rest == Unwritten(d) \o pipe[d]
             ahead == outPipe[d] \o rest
  <2>2. Unwritten(d) \in Seq(Nat)
    <3>1. <<>> \in Seq(Nat)
      OBVIOUS
    <3>2. chunk[d] \in Seq(Nat) /\ at[d] \in Nat
      BY <1>0 DEF Sane, TypeOK
    <3>3. Rest(d) \in Seq(Nat)
      <4>1. \A i \in at[d] + 1 .. Len(chunk[d]) : chunk[d][i] \in Nat
        BY <3>2
      <4>2. at[d] + 1 \in Int /\ Len(chunk[d]) \in Int
        BY <3>2
      <4> QED BY <4>1, <4>2, SubSeqProperties DEF Rest
    <3> QED BY <3>1, <3>3 DEF Unwritten
  <2>3. rest \in Seq(Nat) /\ ahead \in Seq(Nat) /\ got[d] \o outPipe[d] \in Seq(Nat)
    <3>1. rest \in Seq(Nat)
      BY <1>t, <2>2, ConcatProperties
    <3> QED BY <1>t, <3>1, ConcatProperties
  <2>4. sent[d] = got[d] \o ahead
    <3>1. sent[d] = ((got[d] \o outPipe[d]) \o Unwritten(d)) \o pipe[d]
      BY DEF WireIntact, Forwarded
    <3>2. (got[d] \o outPipe[d]) \o rest = ((got[d] \o outPipe[d]) \o Unwritten(d)) \o pipe[d]
      <4>1. pipe[d] \in Seq(Nat)
        BY <1>t
      <4> QED BY ZenonT(40), <2>2, <2>3, <4>1, LinesAssociate
    <3>3. (got[d] \o outPipe[d]) \o rest = got[d] \o ahead
      <4>1. got[d] \in Seq(Nat) /\ outPipe[d] \in Seq(Nat) /\ rest \in Seq(Nat)
        BY <1>t, <2>3
      <4> HIDE DEF rest
      <4> QED BY <4>1, LinesAssociate
    <3> HIDE DEF rest, ahead
    <3> QED BY <3>1, <3>2, <3>3
  <2> HIDE DEF rest
  <2>5. ahead # <<>> /\ Head(ahead) = Head(outPipe[d])
    <3>1. Len(outPipe[d]) \in Nat \ {0} /\ Len(rest) \in Nat /\ Head(outPipe[d]) = outPipe[d][1]
      BY <1>t, <2>1, <2>3
    <3>2. Len(ahead) = Len(outPipe[d]) + Len(rest) /\ ahead[1] = outPipe[d][1]
      BY <1>t, <2>3, <3>1, ConcatProperties
    <3> HIDE DEF ahead
    <3> QED BY <2>3, <3>1, <3>2
  <2> HIDE DEF ahead
  <2>6. Len(got[d]) < Len(sent[d]) /\ sent[d][Len(got[d]) + 1] = Head(outPipe[d])
    BY <1>t, <2>3, <2>4, <2>5, LineDelivered
  <2> QED BY <2>1, <2>6
<1>3. CASE Read(d) \/ Write(d)
  BY <1>3 DEF Read, Write
<1>4. CASE UNCHANGED onWire(d)
  BY <1>4 DEF onWire
<1> QED BY <1>1, <1>2, <1>3, <1>4, OffTheWire

(* Neither end can tell the native proxy from the pipe it replaces.          *)
THEOREM ProxyImplementsWire == Spec => ImplementsWire
<1>0. "c2s" \in Pumps /\ "s2c" \in Pumps /\ MaxOf("c2s") = MaxClient /\ MaxOf("s2c") = MaxServer
  BY DEF Pumps, MaxOf
<1>1. Init => C2S!Init /\ S2C!Init
  BY <1>0 DEF Init, C2S!Init, S2C!Init, Threads
<1>2. Sane /\ WireIntact /\ [Next]_vars => [C2S!Next]_(C2S!vars)
  <2> SUFFICES ASSUME Sane, WireIntact, [Next]_vars PROVE [C2S!Next]_(C2S!vars)
    OBVIOUS
  <2> QED BY <1>0, PipeStep DEF C2S!Next, C2S!Send, C2S!Deliver, C2S!vars
<1>3. Sane /\ WireIntact /\ [Next]_vars => [S2C!Next]_(S2C!vars)
  <2> SUFFICES ASSUME Sane, WireIntact, [Next]_vars PROVE [S2C!Next]_(S2C!vars)
    OBVIOUS
  <2> QED BY <1>0, PipeStep DEF S2C!Next, S2C!Send, S2C!Deliver, S2C!vars
<1>4. Spec => C2S!Spec /\ S2C!Spec
  BY <1>1, <1>2, <1>3, SaneAndIntact, PTL DEF Spec, C2S!Spec, S2C!Spec
<1> QED BY <1>4 DEF ImplementsWire

-----------------------------------------------------------------------------
(* The server's output at exit.                                              *)

\* Main goes past the join only when s2c has ended; and s2c ends at end of
\* file, with nothing in hand, or when the client has closed its end.
Joined ==
  /\ main \in {"joinErr", "note", "exit"} => pc["s2c"] = "done"
  /\ pc["s2c"] = "done" /\ clientReads
       => pipe["s2c"] = <<>> /\ chunk["s2c"] = <<>> /\ at["s2c"] = 0

LEMMA NextJoined == Sane /\ Joined /\ [Next]_vars => Joined'
<1> SUFFICES ASSUME Sane, Joined, [Next]_vars PROVE Joined'
  OBVIOUS
<1> USE DEF threadVars, pipeVars, envVars
<1>0. "s2c" \in Threads /\ "s2c" \in Pumps
  BY DEF Threads, Pumps
<1>t. /\ pipe \in [Threads -> Seq(Nat)] /\ pc \in [Threads -> {"read", "write", "log", "done"}]
      /\ chunk \in [Threads -> Seq(Nat)] /\ at \in [Threads -> Nat]
  BY DEF Sane, TypeOK
<1>1. ASSUME NEW t \in Threads, PeerWrites(t) PROVE Joined'
  <2>1. t = "s2c" => pc["s2c"] # "done"
    BY <1>1 DEF PeerWrites, MayWrite
  <2>2. t # "s2c" => pipe'["s2c"] = pipe["s2c"]
    BY <1>0, <1>t, <1>1 DEF PeerWrites
  <2>3. UNCHANGED <<main, pc, chunk, at, clientReads>>
    BY <1>1 DEF PeerWrites
  <2> QED BY <2>1, <2>2, <2>3 DEF Joined
<1>2. ASSUME NEW t \in Threads, ThreadStep(t), t # "s2c" PROVE Joined'
  <2>1. UNCHANGED <<pipe["s2c"], pc["s2c"], chunk["s2c"], at["s2c"], main, clientReads>>
    <3>1. CASE Read(t) \/ ReadEof(t)
      BY <1>0, <1>t, <1>2, <3>1 DEF Read, ReadEof
    <3>2. CASE t \in Pumps /\ (Write(t) \/ WriteFails(t) \/ LogMessage(t))
      BY <1>0, <1>t, <1>2, <3>2 DEF Write, WriteFails, LogMessage
    <3>3. CASE t = "err" /\ LogStderr
      BY <1>0, <1>t, <1>2, <3>3 DEF LogStderr
    <3> QED BY <1>2, <3>1, <3>2, <3>3 DEF ThreadStep
  <2> QED BY <2>1 DEF Joined
<1>3. CASE ThreadStep("s2c")
  <2>1. pc["s2c"] # "done" /\ main' = main /\ clientReads' = clientReads
        /\ (pc'["s2c"] = "done" => ReadEof("s2c") \/ WriteFails("s2c"))
    <3>1. CASE Read("s2c") \/ ReadEof("s2c")
      BY <1>0, <1>t, <3>1 DEF Read, ReadEof
    <3>2. CASE Write("s2c") \/ WriteFails("s2c") \/ LogMessage("s2c")
      BY <1>0, <1>t, <3>2 DEF Write, WriteFails, LogMessage
    <3> QED BY <1>3, <3>1, <3>2 DEF ThreadStep
  <2>2. main \notin {"joinErr", "note", "exit"}
    BY <2>1 DEF Joined
  <2>3. ReadEof("s2c") => pipe'["s2c"] = <<>> /\ chunk'["s2c"] = <<>> /\ at'["s2c"] = 0
    BY <1>0 DEF ReadEof, AtEof, Sane, PumpsSane
  <2>4. WriteFails("s2c") => ~clientReads
    BY DEF WriteFails, DstOpen
  <2> QED BY <2>1, <2>2, <2>3, <2>4 DEF Joined
<1>4. MainGoesOn => Joined'
  BY DEF MainGoesOn, OutJoined, Joined
<1>5. (Start \/ NoteExit \/ Exit) => Joined'
  BY DEF Start, NoteExit, Exit, Joined
<1>6. (WrapperExit \/ PeerCloses \/ ServerExit \/ ProxyKilled \/ UNCHANGED vars) => Joined'
  BY DEF WrapperExit, PeerCloses, ServerExit, ProxyKilled, vars, Joined
<1>7. ASSUME NEW d \in Pumps, PeerReads(d) PROVE Joined'
  BY <1>7 DEF PeerReads, Joined
<1> QED BY <1>1, <1>2, <1>3, <1>4, <1>5, <1>6, <1>7 DEF Next, MainStep

(* When the native proxy notes the server's exit and goes, everything the     *)
(* server wrote is in the client's pipe, however late the exit finds it.  Of  *)
(* the Node proxy this is false (OutputDrainedAtExit).                        *)
THEOREM OutputAlwaysForwarded == Spec => []OutputForwarded
<1>1. Init => Joined
  BY DEF Init, Joined, Threads, Pumps
<1>2. Spec => []Joined
  BY <1>1, NextJoined, SaneAndIntact, PTL DEF Spec
<1>3. Sane /\ WireIntact /\ Joined => OutputForwarded
  <2> SUFFICES ASSUME Sane, WireIntact, Joined, main \in {"note", "exit"}, clientReads
               PROVE  Forwarded("s2c") = sent["s2c"]
    BY DEF OutputForwarded
  <2>1. "s2c" \in Pumps /\ got["s2c"] \in Seq(Nat) /\ outPipe["s2c"] \in Seq(Nat)
    BY DEF Pumps, Sane, TypeOK
  <2>2. pc["s2c"] = "done" /\ pipe["s2c"] = <<>> /\ chunk["s2c"] = <<>> /\ at["s2c"] = 0
    BY DEF Joined
  <2>3. Unwritten("s2c") = <<>>
    <3>1. Unwritten("s2c") = SubSeq(chunk["s2c"], at["s2c"] + 1, Len(chunk["s2c"]))
      BY <2>2 DEF Unwritten, Rest
    <3>2. Len(chunk["s2c"]) = 0 /\ at["s2c"] + 1 = 1
      BY <2>2
    <3> QED BY <3>1, <3>2, SubSeqEmpty
  <2>4. Forwarded("s2c") \in Seq(Nat)
    BY <2>1, ConcatProperties DEF Forwarded
  <2>5. sent["s2c"] = Forwarded("s2c") \o <<>> \o <<>>
    BY <2>1, <2>2, <2>3 DEF WireIntact
  <2> QED BY <2>4, <2>5, ConcatEmptySeq
<1> QED BY <1>2, <1>3, SaneAndIntact, PTL

-----------------------------------------------------------------------------
(* What the log holds of a thread, and how many lines it stands for.        *)

\* Logged, of any log l.
LoggedOf(l, t) ==
  LET Of[i \in 0 .. Len(l)] ==
        IF i = 0 THEN <<>>
        ELSE IF l[i].t = t THEN Append(Of[i - 1], l[i].n) ELSE Of[i - 1]
  IN  Of[Len(l)]

\* f collects what l holds of t.
Collects(f, l, t) ==
  /\ f \in [0 .. Len(l) -> Seq(Nat)] /\ f[0] = <<>>
  /\ \A i \in 1 .. Len(l) : f[i] = IF l[i].t = t THEN Append(f[i - 1], l[i].n) ELSE f[i - 1]

\* The recursion is defined: LoggedOf has what it collects.
LEMMA LoggedLoop ==
  ASSUME NEW l \in Seq(Event), NEW t
  PROVE  \E f : Collects(f, l, t) /\ LoggedOf(l, t) = f[Len(l)]
<1> DEFINE N == Len(l)
           Keep(s, i) == IF l[i].t = t THEN Append(s, l[i].n) ELSE s
           IsOf(f) == f = [i \in 0 .. N |-> IF i = 0 THEN <<>> ELSE Keep(f[i - 1], i)]
<1>1. N \in Nat /\ \A i \in 1 .. N : l[i].n \in Nat
  <2>1. \A i \in 1 .. N : l[i] \in Event
    OBVIOUS
  <2> QED BY <2>1 DEF Event
<1> HIDE DEF N
<1>2. \E f : Collects(f, l, t)
  <2> DEFINE T == Seq(Nat)
             step == [i \in 1 .. N |-> [s \in T |-> Keep(s, i)]]
  <2>1. \A i \in 1 .. N : \A s \in T : Keep(s, i) \in T
    BY <1>1, AppendProperties
  <2>2. step \in [1 .. N -> [T -> T]] /\ <<>> \in T
    <3> HIDE DEF Keep, T
    <3>1. step \in [1 .. N -> [T -> T]]
      BY <2>1
    <3> QED BY <3>1 DEF T
  <2>3. PICK f : IsRun(f, T, <<>>, N, step)
    <3> HIDE DEF step, T
    <3> QED BY <1>1, <2>2, LoopHasRun
  <2>4. f \in [0 .. N -> T] /\ f[0] = <<>> /\ \A i \in 1 .. N : f[i] = step[i][f[i - 1]]
    BY <2>3 DEF IsRun
  <2>5. ASSUME NEW i \in 1 .. N PROVE f[i] = Keep(f[i - 1], i)
    <3>1. i - 1 \in 0 .. N
      BY <1>1
    <3>2. f[i - 1] \in T
      BY <2>4, <3>1
    <3> HIDE DEF Keep, T
    <3> QED BY <2>4, <3>2
  <2> QED BY <2>4, <2>5 DEF Collects, N
<1>3. PICK g : Collects(g, l, t)
  BY <1>2
<1>4. g \in [0 .. N -> Seq(Nat)] /\ g[0] = <<>> /\ \A i \in 1 .. N : g[i] = Keep(g[i - 1], i)
  BY <1>3 DEF Collects, N
<1>5. IsOf(g)
  <2>1. ASSUME NEW i \in 0 .. N PROVE g[i] = IF i = 0 THEN <<>> ELSE Keep(g[i - 1], i)
    <3> HIDE DEF Keep
    <3> QED BY SMTT(30), <1>1, <1>4
  <2> HIDE DEF Keep
  <2> QED BY <1>4, <2>1
<1> DEFINE of == CHOOSE f : IsOf(f)
<1>6. LoggedOf(l, t) = of[N]
  BY DEF LoggedOf, N
<1>7. IsOf(of)
  BY <1>5
<1>8. of[0] = <<>> /\ \A i \in 1 .. N : of[i] = Keep(of[i - 1], i)
  <2> HIDE DEF of, Keep
  <2> QED BY <1>1, <1>7
<1> HIDE DEF of, IsOf
<1> DEFINE S == {n \in Nat : n <= N => of[n] = g[n]}
<1>9. 0 \in S
  BY <1>4, <1>8
<1>10. ASSUME NEW n \in S PROVE n + 1 \in S
  <2>1. n + 1 <= N => of[n + 1] = g[n + 1]
    <3> SUFFICES ASSUME n + 1 <= N PROVE of[n + 1] = g[n + 1]
      OBVIOUS
    <3>1. n + 1 \in 1 .. N /\ of[n] = g[n] /\ (n + 1) - 1 = n
      BY <1>1
    <3>2. of[n + 1] = Keep(of[n], n + 1) /\ g[n + 1] = Keep(g[n], n + 1)
      BY <1>4, <1>8, <3>1
    <3> QED BY <3>1, <3>2
  <2> QED BY <2>1
<1>11. S = Nat
  <2>1. S \in SUBSET Nat /\ \A n \in S : n + 1 \in S
    BY <1>10
  <2> HIDE DEF S
  <2> QED BY <1>9, <2>1, SetInduction
<1>12. of[N] = g[N]
  <2>1. N \in S
    <3> HIDE DEF S
    <3> QED BY <1>1, <1>11
  <2> QED BY <1>1, <2>1
<1> QED BY <1>3, <1>6, <1>12 DEF N

\* What a line at the end of the log adds.
LEMMA LoggedAppend ==
  ASSUME NEW l \in Seq(Event), NEW e \in Event, NEW t
  PROVE  /\ LoggedOf(l, t) \in Seq(Nat)
         /\ LoggedOf(Append(l, e), t) = IF e.t = t THEN Append(LoggedOf(l, t), e.n) ELSE LoggedOf(l, t)
<1> DEFINE m == Append(l, e)
<1>1. /\ m \in Seq(Event) /\ Len(m) = Len(l) + 1 /\ Len(l) \in Nat /\ m[Len(l) + 1] = e
      /\ \A i \in 1 .. Len(l) : m[i] = l[i]
  OBVIOUS
<1> HIDE DEF m
<1>2. PICK f : Collects(f, l, t) /\ LoggedOf(l, t) = f[Len(l)]
  BY LoggedLoop
<1>3. PICK g : Collects(g, m, t) /\ LoggedOf(m, t) = g[Len(m)]
  BY <1>1, LoggedLoop
<1> DEFINE S == {n \in Nat : n <= Len(l) => f[n] = g[n]}
<1>4. 0 \in S
  BY <1>2, <1>3 DEF Collects
<1>5. ASSUME NEW n \in S PROVE n + 1 \in S
  <2>1. n + 1 <= Len(l) => f[n + 1] = g[n + 1]
    <3> SUFFICES ASSUME n + 1 <= Len(l) PROVE f[n + 1] = g[n + 1]
      OBVIOUS
    <3>1. n + 1 \in 1 .. Len(l) /\ n + 1 \in 1 .. Len(m) /\ f[n] = g[n] /\ (n + 1) - 1 = n
      BY <1>1
    <3> QED BY ZenonT(40), <1>1, <1>2, <1>3, <3>1 DEF Collects
  <2> QED BY <2>1
<1>6. S = Nat
  <2>1. S \in SUBSET Nat /\ \A n \in S : n + 1 \in S
    BY <1>5
  <2> HIDE DEF S
  <2> QED BY <1>4, <2>1, SetInduction
<1>7. f[Len(l)] = g[Len(l)]
  <2>1. Len(l) \in S
    <3> HIDE DEF S
    <3> QED BY <1>1, <1>6
  <2> QED BY <1>1, <2>1
<1>8. Len(l) + 1 \in 1 .. Len(m) /\ (Len(l) + 1) - 1 = Len(l) /\ Len(l) \in 0 .. Len(l)
  BY <1>1
<1>9. g[Len(l) + 1] = IF e.t = t THEN Append(g[Len(l)], e.n) ELSE g[Len(l)]
  BY <1>1, <1>3, <1>8 DEF Collects
<1>10. f[Len(l)] \in Seq(Nat)
  BY <1>2, <1>8 DEF Collects
<1> QED BY <1>1, <1>2, <1>3, <1>7, <1>9, <1>10 DEF m

\* Nothing is logged at first.
LEMMA LoggedNothing == \A t : LoggedOf(<<>>, t) = <<>>
<1> SUFFICES ASSUME NEW t PROVE LoggedOf(<<>>, t) = <<>>
  OBVIOUS
<1>1. <<>> \in Seq(Event) /\ Len(<<>>) = 0
  OBVIOUS
<1>2. PICK f : Collects(f, <<>>, t) /\ LoggedOf(<<>>, t) = f[Len(<<>>)]
  BY <1>1, LoggedLoop
<1> QED BY <1>1, <1>2 DEF Collects

\* f adds up s.
Adds(f, s) ==
  /\ f \in [0 .. Len(s) -> Nat] /\ f[0] = 0
  /\ \A i \in 1 .. Len(s) : f[i] = f[i - 1] + s[i]

\* The sum is what is added up.
LEMMA SumLoop ==
  ASSUME NEW s \in Seq(Nat)
  PROVE  \E f : Adds(f, s) /\ SumOf(s) = f[Len(s)]
<1> DEFINE N == Len(s)
           IsSum(f) == f = [i \in 0 .. N |-> IF i = 0 THEN 0 ELSE f[i - 1] + s[i]]
<1>1. N \in Nat /\ \A i \in 1 .. N : s[i] \in Nat
  OBVIOUS
<1> HIDE DEF N
<1>2. \E f : Adds(f, s)
  <2> DEFINE step == [i \in 1 .. N |-> [x \in Nat |-> x + s[i]]]
  <2>1. step \in [1 .. N -> [Nat -> Nat]] /\ 0 \in Nat
    BY <1>1
  <2>2. PICK f : IsRun(f, Nat, 0, N, step)
    <3> HIDE DEF step
    <3> QED BY <1>1, <2>1, LoopHasRun
  <2>3. f \in [0 .. N -> Nat] /\ f[0] = 0 /\ \A i \in 1 .. N : f[i] = step[i][f[i - 1]]
    BY <2>2 DEF IsRun
  <2>4. ASSUME NEW i \in 1 .. N PROVE f[i] = f[i - 1] + s[i]
    <3>1. i - 1 \in 0 .. N
      BY <1>1
    <3>2. f[i - 1] \in Nat
      BY <2>3, <3>1
    <3> QED BY <2>3, <3>2
  <2> QED BY <2>3, <2>4 DEF Adds, N
<1>3. PICK g : Adds(g, s)
  BY <1>2
<1>4. g \in [0 .. N -> Nat] /\ g[0] = 0 /\ \A i \in 1 .. N : g[i] = g[i - 1] + s[i]
  BY <1>3 DEF Adds, N
<1>5. IsSum(g)
  <2>1. ASSUME NEW i \in 0 .. N PROVE g[i] = IF i = 0 THEN 0 ELSE g[i - 1] + s[i]
    BY <1>1, <1>4
  <2> QED BY <1>4, <2>1
<1> DEFINE sum == CHOOSE f : IsSum(f)
<1>6. SumOf(s) = sum[N]
  BY DEF SumOf, N
<1>7. IsSum(sum)
  BY <1>5
<1>8. sum[0] = 0 /\ \A i \in 1 .. N : sum[i] = sum[i - 1] + s[i]
  <2> HIDE DEF sum
  <2> QED BY <1>1, <1>7
<1> HIDE DEF sum, IsSum
<1> DEFINE S == {n \in Nat : n <= N => sum[n] = g[n]}
<1>9. 0 \in S
  BY <1>4, <1>8
<1>10. ASSUME NEW n \in S PROVE n + 1 \in S
  <2>1. n + 1 <= N => sum[n + 1] = g[n + 1]
    <3> SUFFICES ASSUME n + 1 <= N PROVE sum[n + 1] = g[n + 1]
      OBVIOUS
    <3>1. n + 1 \in 1 .. N /\ sum[n] = g[n] /\ (n + 1) - 1 = n
      BY <1>1
    <3> QED BY <1>4, <1>8, <3>1
  <2> QED BY <2>1
<1>11. S = Nat
  <2>1. S \in SUBSET Nat /\ \A n \in S : n + 1 \in S
    BY <1>10
  <2> HIDE DEF S
  <2> QED BY <1>9, <2>1, SetInduction
<1>12. sum[N] = g[N]
  <2>1. N \in S
    <3> HIDE DEF S
    <3> QED BY <1>1, <1>11
  <2> QED BY <1>1, <2>1
<1> QED BY <1>3, <1>6, <1>12 DEF N

\* What a number at the end adds.
LEMMA SumAppend ==
  ASSUME NEW s \in Seq(Nat), NEW x \in Nat
  PROVE  SumOf(s) \in Nat /\ SumOf(Append(s, x)) = SumOf(s) + x
<1> DEFINE m == Append(s, x)
<1>1. /\ m \in Seq(Nat) /\ Len(m) = Len(s) + 1 /\ Len(s) \in Nat /\ m[Len(s) + 1] = x
      /\ \A i \in 1 .. Len(s) : m[i] = s[i]
  OBVIOUS
<1> HIDE DEF m
<1>2. PICK f : Adds(f, s) /\ SumOf(s) = f[Len(s)]
  BY SumLoop
<1>3. PICK g : Adds(g, m) /\ SumOf(m) = g[Len(m)]
  BY <1>1, SumLoop
<1> DEFINE S == {n \in Nat : n <= Len(s) => f[n] = g[n]}
<1>4. 0 \in S
  BY <1>2, <1>3 DEF Adds
<1>5. ASSUME NEW n \in S PROVE n + 1 \in S
  <2>1. n + 1 <= Len(s) => f[n + 1] = g[n + 1]
    <3> SUFFICES ASSUME n + 1 <= Len(s) PROVE f[n + 1] = g[n + 1]
      OBVIOUS
    <3>1. n + 1 \in 1 .. Len(s) /\ n + 1 \in 1 .. Len(m) /\ f[n] = g[n] /\ (n + 1) - 1 = n
      BY <1>1
    <3> QED BY <1>1, <1>2, <1>3, <3>1 DEF Adds
  <2> QED BY <2>1
<1>6. S = Nat
  <2>1. S \in SUBSET Nat /\ \A n \in S : n + 1 \in S
    BY <1>5
  <2> HIDE DEF S
  <2> QED BY <1>4, <2>1, SetInduction
<1>7. f[Len(s)] = g[Len(s)]
  <2>1. Len(s) \in S
    <3> HIDE DEF S
    <3> QED BY <1>1, <1>6
  <2> QED BY <1>1, <2>1
<1>8. Len(s) + 1 \in 1 .. Len(m) /\ (Len(s) + 1) - 1 = Len(s) /\ Len(s) \in 0 .. Len(s)
  BY <1>1
<1>9. g[Len(s) + 1] = g[Len(s)] + x
  BY <1>1, <1>3, <1>8 DEF Adds
<1>10. f[Len(s)] \in Nat
  BY <1>2, <1>8 DEF Adds
<1> QED BY <1>1, <1>2, <1>3, <1>7, <1>9, <1>10 DEF m

\* Nothing adds up to nothing.
LEMMA SumOfNothing == SumOf(<<>>) = 0
<1>1. <<>> \in Seq(Nat) /\ Len(<<>>) = 0
  OBVIOUS
<1>2. PICK f : Adds(f, <<>>) /\ SumOf(<<>>) = f[Len(<<>>)]
  BY <1>1, SumLoop
<1> QED BY <1>1, <1>2 DEF Adds

-----------------------------------------------------------------------------
(* The log.                                                                 *)

\* Who writes to the log in a step.
LEMMA WhoLogs ==
  ASSUME Sane, [Next]_vars
  PROVE  \/ log' = log
         \/ \E d \in Pumps : LogMessage(d)
         \/ LogStderr
         \/ main = "spawn" /\ main' = main /\ log' = Append(log, Ev("spawn-error", 0))
         \/ NoteExit
BY DEF Next, ThreadStep, PeerWrites, PeerReads, PeerCloses, ServerExit, ProxyKilled, Read, ReadEof,
       Write, WriteFails, MainStep, Start, MainGoesOn, Exit, WrapperExit, vars

\* What is written is an event of its writer.
LEMMA EventsLogged ==
  ASSUME Sane
  PROVE  /\ log \in Seq(Event)
         /\ \A d \in Pumps : LogMessage(d) =>
              \E e \in Event : e = LogLine(d) /\ e.t = d /\ e.n = chunk[d][at[d] + 1] /\ log' = Append(log, e)
         /\ LogStderr => \E e \in Event : e.t = "err" /\ e.n = Len(chunk["err"]) /\ log' = Append(log, e)
         /\ \E e \in Event : e = Ev("spawn-error", 0) /\ e.t = "spawn-error"
         /\ NoteExit => \E e \in Event : e.t = "server-exit" /\ log' = Append(log, e)
<1>1. log \in Seq(Event)
  BY DEF Sane, TypeOK
<1>2. \A t \in Threads \cup {"server-exit", "spawn-error"}, n \in Nat :
        Ev(t, n) \in Event /\ Ev(t, n).t = t /\ Ev(t, n).n = n
  BY DEF Ev, Event
<1>3. ASSUME NEW d \in Pumps, LogMessage(d)
      PROVE  \E e \in Event : e = LogLine(d) /\ e.t = d /\ e.n = chunk[d][at[d] + 1] /\ log' = Append(log, e)
  <2>0. d \in Threads
    BY DEF Threads
  <2>1. pc[d] = "log" /\ at[d] < Len(chunk[d]) /\ at[d] \in Nat /\ chunk[d] \in Seq(Nat)
    BY <1>3, <2>0 DEF LogMessage, Sane, PumpsSane, TypeOK
  <2>2. chunk[d][at[d] + 1] \in Nat
    <3>1. at[d] + 1 \in 1 .. Len(chunk[d])
      BY <2>1
    <3> QED BY <2>1, <3>1
  <2>3. LogLine(d) = Ev(d, chunk[d][at[d] + 1])
    BY DEF LogLine
  <2> QED BY <1>2, <1>3, <2>0, <2>2, <2>3 DEF LogMessage
<1>4. LogStderr => \E e \in Event : e.t = "err" /\ e.n = Len(chunk["err"]) /\ log' = Append(log, e)
  <2>1. "err" \in Threads /\ Len(chunk["err"]) \in Nat
    BY DEF Threads, Sane, TypeOK
  <2> QED BY <1>2, <2>1 DEF LogStderr
<1>5. NoteExit => \E e \in Event : e.t = "server-exit" /\ log' = Append(log, e)
  <2> SUFFICES ASSUME NoteExit
               PROVE  \E e \in Event : e.t = "server-exit" /\ log' = Append(log, e)
    OBVIOUS
  <2>1. status \in ExitCodes \cup {Killed}
    BY DEF NoteExit, Sane, TypeOK, Waited
  <2>2. ExitStatus \in Nat
    BY <2>1, CodesAssumption DEF ExitStatus
  <2> DEFINE e == Ev("server-exit", ExitStatus)
  <2>3. e \in Event /\ e.t = "server-exit"
    BY <1>2, <2>2
  <2>4. log' = Append(log, e)
    BY DEF NoteExit
  <2> QED BY <2>3, <2>4
<1>6. Ev("spawn-error", 0) \in Event /\ Ev("spawn-error", 0).t = "spawn-error"
  BY <1>2
<1> QED BY <1>1, <1>3, <1>4, <1>5, <1>6

\* Only its own pump, or thread, adds to what the log holds of a thread.
LEMMA OthersLines ==
  ASSUME Sane, [Next]_vars, NEW t \in Threads
  PROVE  \/ LoggedOf(log, t)' = LoggedOf(log, t)
         \/ t \in Pumps /\ LogMessage(t) /\ LoggedOf(log, t)' = Append(LoggedOf(log, t), chunk[t][at[t] + 1])
         \/ t = "err" /\ LogStderr /\ LoggedOf(log, t)' = Append(LoggedOf(log, t), Len(chunk["err"]))
<1>0. t \notin {"spawn-error", "server-exit"} /\ log \in Seq(Event)
  BY EventsLogged DEF Threads, Pumps
<1>1. \A e \in Event : log' = Append(log, e) =>
        LoggedOf(log, t)' = IF e.t = t THEN Append(LoggedOf(log, t), e.n) ELSE LoggedOf(log, t)
  <2> SUFFICES ASSUME NEW e \in Event, log' = Append(log, e)
               PROVE  LoggedOf(log', t) = IF e.t = t THEN Append(LoggedOf(log, t), e.n) ELSE LoggedOf(log, t)
    BY DEF LoggedOf
  <2> QED BY <1>0, LoggedAppend
<1>2. CASE log' = log
  BY <1>2 DEF LoggedOf
<1>3. ASSUME NEW d \in Pumps, LogMessage(d)
      PROVE  IF d = t THEN LoggedOf(log, t)' = Append(LoggedOf(log, t), chunk[t][at[t] + 1])
                      ELSE LoggedOf(log, t)' = LoggedOf(log, t)
  <2>1. PICK e \in Event : e.t = d /\ e.n = chunk[d][at[d] + 1] /\ log' = Append(log, e)
    BY <1>3, EventsLogged
  <2> QED BY <1>1, <2>1
<1>4. ASSUME LogStderr
      PROVE  IF t = "err" THEN LoggedOf(log, t)' = Append(LoggedOf(log, t), Len(chunk["err"]))
                          ELSE LoggedOf(log, t)' = LoggedOf(log, t)
  <2>1. PICK e \in Event : e.t = "err" /\ e.n = Len(chunk["err"]) /\ log' = Append(log, e)
    BY <1>4, EventsLogged
  <2> QED BY <1>1, <2>1
<1>5. CASE log' = Append(log, Ev("spawn-error", 0))
  <2>1. PICK e \in Event : e = Ev("spawn-error", 0) /\ e.t = "spawn-error"
    BY EventsLogged
  <2> QED BY <1>0, <1>1, <1>5, <2>1
<1>6. CASE NoteExit
  <2>1. PICK e \in Event : e.t = "server-exit" /\ log' = Append(log, e)
    BY <1>6, EventsLogged
  <2> QED BY <1>0, <1>1, <2>1
<1> QED BY <1>2, <1>3, <1>4, <1>5, <1>6, WhoLogs

\* LogTrails, of one direction.
Mirrored(d) == Forwarded(d) = LoggedOf(log, d) \o Unlogged(d)

\* The first messages of a chunk, one by one.
LEMMA FirstAndNext ==
  \A s \in Seq(Nat), i \in Nat :
    i < Len(s) => /\ SubSeq(s, 1, i) \in Seq(Nat) /\ s[i + 1] \in Nat
                  /\ SubSeq(s, 1, i + 1) = Append(SubSeq(s, 1, i), s[i + 1])
<1> SUFFICES ASSUME NEW s \in Seq(Nat), NEW i \in Nat, i < Len(s)
             PROVE  /\ SubSeq(s, 1, i) \in Seq(Nat) /\ s[i + 1] \in Nat
                    /\ SubSeq(s, 1, i + 1) = Append(SubSeq(s, 1, i), s[i + 1])
  OBVIOUS
<1> DEFINE a == SubSeq(s, 1, i)
           b == SubSeq(s, 1, i + 1)
<1>1. i + 1 \in 1 .. Len(s) /\ i \in 0 .. Len(s)
  OBVIOUS
<1>2. /\ a \in Seq(Nat) /\ Len(a) = i /\ \A j \in 1 .. i : a[j] = s[j]
      /\ b \in Seq(Nat) /\ Len(b) = i + 1 /\ \A j \in 1 .. i + 1 : b[j] = s[j]
  BY <1>1
<1>3. s[i + 1] \in Nat
  BY <1>1
<1> HIDE DEF a, b
<1>4. /\ Append(a, s[i + 1]) \in Seq(Nat) /\ Len(Append(a, s[i + 1])) = i + 1
      /\ \A j \in 1 .. i + 1 : Append(a, s[i + 1])[j] = s[j]
  BY <1>2, <1>3
<1>5. b = Append(a, s[i + 1])
  BY ZenonT(40), <1>2, <1>4, SeqEqual
<1> QED BY <1>2, <1>3, <1>5 DEF a, b

\* Types of the parts.
LEMMA PartTypes ==
  ASSUME Sane, NEW d \in Pumps
  PROVE  /\ Forwarded(d) \in Seq(Nat) /\ Rest(d) \in Seq(Nat) /\ LoggedOf(log, d) \in Seq(Nat)
         /\ chunk[d] \in Seq(Nat) /\ at[d] \in Nat /\ got[d] \in Seq(Nat) /\ outPipe[d] \in Seq(Nat)
         /\ pc[d] = "read" => Rest(d) = <<>> /\ SubSeq(chunk[d], 1, at[d]) = <<>>
         /\ pc[d] \in {"write", "log"} => at[d] < Len(chunk[d])
<1>1. /\ chunk[d] \in Seq(Nat) /\ at[d] \in Nat /\ got[d] \in Seq(Nat) /\ outPipe[d] \in Seq(Nat)
      /\ log \in Seq(Event)
  BY DEF Sane, TypeOK, Pumps, Threads
<1>2. Forwarded(d) \in Seq(Nat)
  BY <1>1, ConcatProperties DEF Forwarded
<1>3. \A s \in Seq(Nat), i \in Nat : SubSeq(s, i + 1, Len(s)) \in Seq(Nat)
  <2> TAKE s \in Seq(Nat), i \in Nat
  <2>1. \A j \in i + 1 .. Len(s) : s[j] \in Nat
    OBVIOUS
  <2> QED BY <2>1, SubSeqProperties
<1>4. Rest(d) \in Seq(Nat)
  BY <1>1, <1>3 DEF Rest
<1>5. \E e : e \in Event
  BY EventsLogged
<1>6. LoggedOf(log, d) \in Seq(Nat)
  BY <1>1, <1>5, LoggedAppend
<1>7. pc[d] = "read" => Rest(d) = <<>> /\ SubSeq(chunk[d], 1, at[d]) = <<>>
  <2> SUFFICES ASSUME pc[d] = "read" PROVE Rest(d) = <<>> /\ SubSeq(chunk[d], 1, at[d]) = <<>>
    OBVIOUS
  <2>1. chunk[d] = <<>> /\ at[d] = 0 /\ Len(chunk[d]) = 0
    BY DEF Sane, PumpsSane
  <2>2. SubSeq(<<>>, 1, 0) = <<>>
    BY SubSeqEmpty
  <2> QED BY <2>1, <2>2 DEF Rest
<1> QED BY <1>1, <1>2, <1>4, <1>6, <1>7 DEF Sane, PumpsSane

\* A step of others leaves what pump d has forwarded and has not logged.
LEMMA OffTheLog ==
  ASSUME Sane, [Next]_vars, NEW d \in Pumps
  PROVE  PeerReads(d) \/ ThreadStep(d) \/ UNCHANGED <<Forwarded(d), Unlogged(d)>>
<1> USE DEF threadVars, pipeVars, envVars
<1>0. d \in Threads /\ d # "err"
  BY DEF Pumps, Threads
<1>t. /\ pc \in [Threads -> {"read", "write", "log", "done"}]
      /\ chunk \in [Threads -> Seq(Nat)] /\ at \in [Threads -> Nat]
      /\ outPipe \in [Pumps -> Seq(Nat)] /\ got \in [Pumps -> Seq(Nat)]
  BY DEF Sane, TypeOK
<1>1. UNCHANGED <<got[d], outPipe[d], pc[d], chunk[d], at[d]>>
        => UNCHANGED <<Forwarded(d), Unlogged(d)>>
  BY DEF Forwarded, Unlogged, Rest
<1>2. ASSUME NEW t \in Threads, t # d, PeerWrites(t) \/ ThreadStep(t)
      PROVE  UNCHANGED <<got[d], outPipe[d], pc[d], chunk[d], at[d]>>
  <2>1. CASE PeerWrites(t)
    BY <2>1 DEF PeerWrites
  <2>2. CASE Read(t) \/ ReadEof(t)
    BY <1>0, <1>t, <1>2, <2>2 DEF Read, ReadEof
  <2>3. CASE t \in Pumps /\ (Write(t) \/ WriteFails(t) \/ LogMessage(t))
    BY <1>0, <1>t, <1>2, <2>3 DEF Write, WriteFails, LogMessage
  <2>4. CASE t = "err" /\ LogStderr
    BY <1>0, <1>t, <1>2, <2>4 DEF LogStderr
  <2> QED BY <1>2, <2>1, <2>2, <2>3, <2>4 DEF ThreadStep
<1>3. ASSUME NEW e \in Pumps, e # d, PeerReads(e)
      PROVE  UNCHANGED <<got[d], outPipe[d], pc[d], chunk[d], at[d]>>
  BY <1>t, <1>3 DEF PeerReads
<1>4. (PeerWrites(d) \/ PeerCloses \/ ServerExit \/ ProxyKilled \/ MainStep \/ WrapperExit \/ UNCHANGED vars)
        => UNCHANGED <<got[d], outPipe[d], pc[d], chunk[d], at[d]>>
  BY DEF PeerWrites, PeerCloses, ServerExit, ProxyKilled, MainStep, Start, MainGoesOn, NoteExit, Exit,
         WrapperExit, vars
<1> QED BY <1>1, <1>2, <1>3, <1>4 DEF Next

\* LogMessage moves a message from the chunk to the log; the write before it
\* moved the same message to the wire; nothing else touches either.
LEMMA NextMirrored ==
  ASSUME Sane, [Next]_vars, NEW d \in Pumps, Mirrored(d)
  PROVE  Mirrored(d)'
<1> USE DEF threadVars, pipeVars, envVars
<1>0. d \in Threads /\ d # "err"
  BY DEF Pumps, Threads
<1>t. /\ Forwarded(d) \in Seq(Nat) /\ Rest(d) \in Seq(Nat) /\ LoggedOf(log, d) \in Seq(Nat)
      /\ chunk[d] \in Seq(Nat) /\ at[d] \in Nat /\ got[d] \in Seq(Nat) /\ outPipe[d] \in Seq(Nat)
      /\ pc[d] = "read" => Rest(d) = <<>> /\ SubSeq(chunk[d], 1, at[d]) = <<>>
      /\ pc[d] \in {"write", "log"} => at[d] < Len(chunk[d])
  BY PartTypes
<1>T. /\ pc \in [Threads -> {"read", "write", "log", "done"}]
      /\ chunk \in [Threads -> Seq(Nat)] /\ at \in [Threads -> Nat]
      /\ outPipe \in [Pumps -> Seq(Nat)] /\ got \in [Pumps -> Seq(Nat)]
  BY DEF Sane, TypeOK
<1>m. Forwarded(d) = LoggedOf(log, d) \o Unlogged(d)
  BY DEF Mirrored
<1>1. CASE LogMessage(d)
  <2>1. /\ pc[d] = "log" /\ UNCHANGED <<got, outPipe>>
        /\ at[d] + 1 < Len(chunk[d]) => at' = [at EXCEPT ![d] = @ + 1] /\ pc' = pc /\ chunk' = chunk
        /\ ~(at[d] + 1 < Len(chunk[d]))
             => /\ at' = [at EXCEPT ![d] = 0] /\ pc' = [pc EXCEPT ![d] = "read"]
                /\ chunk' = [chunk EXCEPT ![d] = <<>>]
    BY <1>1 DEF LogMessage
  <2>2. LoggedOf(log, d)' = Append(LoggedOf(log, d), chunk[d][at[d] + 1])
    <3>1. PICK e \in Event : e.t = d /\ e.n = chunk[d][at[d] + 1] /\ log' = Append(log, e)
      BY <1>1, EventsLogged
    <3>2. LoggedOf(log', d) = Append(LoggedOf(log, d), e.n)
      BY <3>1, LoggedAppend, EventsLogged
    <3> QED BY <3>1, <3>2 DEF LoggedOf
  <2>3. /\ Rest(d) # <<>> /\ Head(Rest(d)) = chunk[d][at[d] + 1] /\ chunk[d][at[d] + 1] \in Nat
        /\ Tail(Rest(d)) = SubSeq(chunk[d], at[d] + 2, Len(chunk[d]))
    <3>1. at[d] < Len(chunk[d]) /\ Rest(d) = SubSeq(chunk[d], at[d] + 1, Len(chunk[d]))
      BY <1>t, <2>1 DEF Rest
    <3> QED BY ZenonT(40), <1>t, <3>1, RestAfter
  <2>4. Unlogged(d) = Rest(d)
    BY <2>1 DEF Unlogged
  <2>5. Unlogged(d)' = Tail(Rest(d))
    <3>1. CASE at[d] + 1 < Len(chunk[d])
      <4>1. pc'[d] = "log" /\ at'[d] = at[d] + 1 /\ (at[d] + 1) + 1 = at[d] + 2 /\ chunk' = chunk
        BY <1>0, <1>T, <2>1, <3>1
      <4> QED BY <2>3, <4>1 DEF Unlogged, Rest
    <3>2. CASE ~(at[d] + 1 < Len(chunk[d]))
      <4>1. at' = [at EXCEPT ![d] = 0] /\ pc' = [pc EXCEPT ![d] = "read"] /\ chunk' = [chunk EXCEPT ![d] = <<>>]
        BY <2>1, <3>2
      <4>2. pc'[d] = "read" /\ at'[d] = 0 /\ chunk'[d] = <<>>
        BY <1>0, <1>T, <4>1
      <4>3. SubSeq(<<>>, 0 + 1, 0) = <<>> /\ Len(<<>>) = 0
        BY SubSeqEmpty
      <4>4. Unlogged(d)' = <<>>
        BY <4>2, <4>3 DEF Unlogged, Rest
      <4>5. at[d] + 2 \in Int /\ Len(chunk[d]) \in Int /\ Len(chunk[d]) < at[d] + 2
        BY SMTT(30), <1>t, <3>2
      <4> QED BY <2>3, <4>4, <4>5, SubSeqEmpty
    <3> QED BY <3>1, <3>2
  <2>6. Append(LoggedOf(log, d), Head(Rest(d))) \o Tail(Rest(d)) = LoggedOf(log, d) \o Rest(d)
    BY <1>t, <2>3, MoveHead
  <2> QED BY <1>m, <2>1, <2>2, <2>3, <2>4, <2>5, <2>6 DEF Mirrored, Forwarded
<1>2. ASSUME ~LogMessage(d) PROVE LoggedOf(log, d)' = LoggedOf(log, d)
  BY <1>0, <1>2, OthersLines
<1>3. CASE Write(d)
  <2>1. /\ pc[d] = "write" /\ outPipe'[d] = Append(outPipe[d], ToWrite(d))
        /\ at[d] + 1 < Len(chunk[d]) => at' = [at EXCEPT ![d] = @ + 1] /\ pc' = pc
        /\ ~(at[d] + 1 < Len(chunk[d]))
             => at' = [at EXCEPT ![d] = 0] /\ pc' = [pc EXCEPT ![d] = "log"]
        /\ UNCHANGED <<got, chunk>>
    BY <1>T, <1>3 DEF Write
  <2>2. /\ SubSeq(chunk[d], 1, at[d]) \in Seq(Nat) /\ ToWrite(d) \in Nat
        /\ SubSeq(chunk[d], 1, at[d] + 1) = Append(SubSeq(chunk[d], 1, at[d]), ToWrite(d))
    BY <1>t, <2>1, FirstAndNext DEF ToWrite
  <2>3. Unlogged(d) = SubSeq(chunk[d], 1, at[d])
    BY <2>1 DEF Unlogged
  <2>4. Unlogged(d)' = SubSeq(chunk[d], 1, at[d] + 1)
    <3>1. CASE at[d] + 1 < Len(chunk[d])
      <4>1. pc'[d] = "write" /\ at'[d] = at[d] + 1
        BY <1>0, <1>T, <2>1, <3>1
      <4> QED BY <2>1, <4>1 DEF Unlogged
    <3>2. CASE ~(at[d] + 1 < Len(chunk[d]))
      <4>0. pc' = [pc EXCEPT ![d] = "log"] /\ at' = [at EXCEPT ![d] = 0]
        BY <2>1, <3>2
      <4>1. pc'[d] = "log" /\ at'[d] = 0
        BY <1>0, <1>T, <4>0
      <4>2. Len(chunk[d]) = at[d] + 1
        BY <1>t, <2>1, <3>2
      <4>3. Unlogged(d)' = SubSeq(chunk[d], 0 + 1, Len(chunk[d]))
        BY <2>1, <4>1 DEF Unlogged, Rest
      <4> QED BY <4>2, <4>3
    <3> QED BY <3>1, <3>2
  <2>5. Forwarded(d)' = Append(Forwarded(d), ToWrite(d))
    <3>1. Forwarded(d)' = got[d] \o Append(outPipe[d], ToWrite(d))
      BY <2>1 DEF Forwarded
    <3> QED BY <1>t, <2>2, <3>1, LineAppended DEF Forwarded
  <2>6. LoggedOf(log, d) \o Append(Unlogged(d), ToWrite(d)) = Append(LoggedOf(log, d) \o Unlogged(d), ToWrite(d))
    BY ZenonT(40), <1>t, <2>2, <2>3, LineAppended
  <2>7. ~LogMessage(d)
    BY <2>1 DEF LogMessage
  <2> QED BY <1>2, <1>m, <2>2, <2>3, <2>4, <2>5, <2>6, <2>7 DEF Mirrored
<1>4. CASE PeerReads(d)
  <2>1. /\ outPipe[d] # <<>> /\ got'[d] = Append(got[d], Head(outPipe[d])) /\ outPipe'[d] = Tail(outPipe[d])
        /\ UNCHANGED <<pc, chunk, at, log>>
    BY <1>T, <1>4 DEF PeerReads
  <2>2. Append(got[d], Head(outPipe[d])) \o Tail(outPipe[d]) = got[d] \o outPipe[d]
    BY <1>t, <2>1, MoveHead
  <2>3. LoggedOf(log, d)' = LoggedOf(log, d)
    BY <1>2, <2>1, <1>4 DEF LogMessage, PeerReads, LoggedOf
  <2> QED BY <1>m, <2>1, <2>2, <2>3 DEF Mirrored, Forwarded, Unlogged, Rest
<1>5. CASE Read(d)
  <2>1. PICK k \in 1 .. Len(pipe[d]) : chunk' = [chunk EXCEPT ![d] = SubSeq(pipe[d], 1, k)]
    BY <1>5 DEF Read
  <2>2. pc[d] = "read" /\ pc' = [pc EXCEPT ![d] = "write"] /\ UNCHANGED <<got, outPipe, at, log>>
    BY <1>5 DEF Read
  <2>3. at[d] = 0 /\ pc'[d] = "write"
    BY <1>0, <1>T, <2>2 DEF Sane, PumpsSane
  <2>4. Unlogged(d)' = SubSeq(chunk'[d], 1, 0)
    BY <2>2, <2>3 DEF Unlogged
  <2>5. Unlogged(d)' = <<>>
    BY <2>4, SubSeqEmpty
  <2>6. Unlogged(d) = <<>>
    BY <1>t, <2>2 DEF Unlogged
  <2>7. ~LogMessage(d)
    BY <2>2 DEF LogMessage
  <2>8. Forwarded(d)' = Forwarded(d)
    BY <2>2 DEF Forwarded
  <2> QED BY <1>2, <1>m, <2>5, <2>6, <2>7, <2>8 DEF Mirrored
<1>6. CASE ReadEof(d) \/ WriteFails(d)
  <2>1. /\ pc[d] \in {"read", "write"} /\ pc' = [pc EXCEPT ![d] = "done"]
        /\ UNCHANGED <<got, outPipe, at, chunk, log>>
    BY <1>6 DEF ReadEof, WriteFails
  <2>2. pc'[d] = "done"
    BY <1>0, <1>T, <2>1
  <2>3. Unlogged(d)' = SubSeq(chunk[d], 1, at[d])
    BY <2>1, <2>2 DEF Unlogged
  <2>4. Unlogged(d) = SubSeq(chunk[d], 1, at[d])
    BY <1>t, <2>1 DEF Unlogged
  <2>5. ~LogMessage(d)
    BY <2>1 DEF LogMessage
  <2>6. Forwarded(d)' = Forwarded(d)
    BY <2>1 DEF Forwarded
  <2> QED BY <1>2, <1>m, <2>3, <2>4, <2>5, <2>6 DEF Mirrored
<1>7. CASE UNCHANGED <<Forwarded(d), Unlogged(d)>>
  BY <1>1, <1>2, <1>7, <1>m DEF Mirrored
<1> QED BY <1>0, <1>1, <1>3, <1>4, <1>5, <1>6, <1>7, OffTheLog DEF ThreadStep

\* The log mirrors the wire, short of the chunk in hand, in any interleaving of
\* the threads and wherever one of them stops.
THEOREM LogAlwaysTrails == Spec => []LogTrails
<1>1. ASSUME Init, NEW d \in Pumps PROVE Mirrored(d)
  <2>1. d \in Threads
    BY DEF Threads
  <2>2. got[d] = <<>> /\ outPipe[d] = <<>> /\ log = <<>> /\ chunk[d] = <<>> /\ at[d] = 0 /\ pc[d] = "read"
    BY <1>1, <2>1 DEF Init
  <2>3. SubSeq(<<>>, 0 + 1, 0) = <<>> /\ Len(<<>>) = 0 /\ <<>> \o <<>> = <<>>
    BY SubSeqEmpty
  <2>4. Unlogged(d) = <<>>
    BY <2>2, <2>3 DEF Unlogged, Rest
  <2> QED BY <2>2, <2>3, <2>4, LoggedNothing DEF Mirrored, Forwarded
<1>2. LogTrails <=> \A d \in Pumps : Mirrored(d)
  BY DEF LogTrails, Mirrored, Logged, LoggedOf
<1>3. Init => LogTrails
  BY SMTT(30), <1>1, <1>2
<1>4. Sane /\ LogTrails /\ [Next]_vars => LogTrails'
  <2> SUFFICES ASSUME Sane, LogTrails, [Next]_vars PROVE LogTrails'
    OBVIOUS
  <2>1. \A d \in Pumps : Mirrored(d)'
    BY <1>2, NextMirrored
  <2> QED BY <2>1 DEF LogTrails, Mirrored, Logged, LoggedOf
<1> QED BY <1>3, <1>4, SaneAndIntact, PTL DEF Spec

-----------------------------------------------------------------------------
(* What is logged when the proxy goes.                                      *)

\* How many lines of stderr the log stands for.
Told == SumOf(LoggedOf(log, "err"))

\* Every line of stderr is logged, in hand or in the pipe.
Balance == Told + Len(chunk["err"]) + Len(pipe["err"]) = Len(sent["err"])

\* The thread ends with nothing in hand or in the pipe, and main waits for that.
ErrTold ==
  /\ pc["err"] # "write"
  /\ pc["err"] # "log" => chunk["err"] = <<>>
  /\ pc["err"] = "done" => pipe["err"] = <<>>
  /\ main \in {"note", "exit"} => pc["err"] = "done"
  /\ Balance

\* Behind the note of the exit there is nothing but requests.
NoteIsLast ==
  \A i \in DOMAIN log : log[i].t = "server-exit" =>
    main = "exit" /\ \A j \in DOMAIN log : i < j => log[j].t = "c2s"

\* At first nothing has been written to stderr and nothing is logged.
LEMMA InitErrTold == Init => ErrTold /\ NoteIsLast
<1> SUFFICES ASSUME Init PROVE ErrTold /\ NoteIsLast
  OBVIOUS
<1>1. "err" \in Threads
  BY DEF Threads
<1>2. /\ sent["err"] = <<>> /\ pipe["err"] = <<>> /\ chunk["err"] = <<>> /\ pc["err"] = "read"
      /\ main = "spawn" /\ log = <<>>
  BY <1>1 DEF Init
<1>3. Len(<<>>) = 0 /\ DOMAIN log = {}
  BY <1>2
<1>4. Told = 0
  BY <1>2, LoggedNothing, SumOfNothing DEF Told
<1> QED BY <1>2, <1>3, <1>4 DEF ErrTold, Balance, NoteIsLast

\* LogStderr moves lines into the log, a read out of the pipe, and the thread
\* ends only at end of file: each step keeps every line accounted for.
LEMMA NextErrTold ==
  ASSUME Sane, ErrTold, [Next]_vars
  PROVE  ErrTold'
<1> USE DEF ErrTold, threadVars, pipeVars, envVars
<1>0. "err" \in Threads /\ "err" \notin Pumps
  BY DEF Threads, Pumps
<1>t. /\ sent \in [Threads -> Seq(Nat)] /\ pipe \in [Threads -> Seq(Nat)] /\ log \in Seq(Event)
      /\ pc \in [Threads -> {"read", "write", "log", "done"}] /\ chunk \in [Threads -> Seq(Nat)]
  BY DEF Sane, TypeOK
<1>T. sent["err"] \in Seq(Nat) /\ pipe["err"] \in Seq(Nat) /\ chunk["err"] \in Seq(Nat)
  BY <1>0, <1>t
<1>l. LoggedOf(log, "err") \in Seq(Nat)
  BY <1>t, EventsLogged, LoggedAppend
<1>1. CASE LogStderr
  <2>1. /\ pc["err"] = "log" /\ pc'["err"] = "read" /\ chunk'["err"] = <<>>
        /\ UNCHANGED <<sent, pipe, main>>
    BY <1>0, <1>t, <1>1 DEF LogStderr
  <2>2. LoggedOf(log, "err")' = Append(LoggedOf(log, "err"), Len(chunk["err"]))
    <3>1. PICK e \in Event : e.t = "err" /\ e.n = Len(chunk["err"]) /\ log' = Append(log, e)
      BY <1>1, EventsLogged
    <3>2. LoggedOf(log', "err") = Append(LoggedOf(log, "err"), e.n)
      BY <1>t, <3>1, LoggedAppend
    <3> QED BY <3>1, <3>2 DEF LoggedOf
  <2>3. /\ SumOf(LoggedOf(log, "err")) \in Nat
        /\ SumOf(Append(LoggedOf(log, "err"), Len(chunk["err"])))
             = SumOf(LoggedOf(log, "err")) + Len(chunk["err"])
    <3>1. Len(chunk["err"]) \in Nat
      BY <1>T
    <3> QED BY <1>l, <3>1, SumAppend
  <2>4. Told' = Told + Len(chunk["err"]) /\ Told \in Nat
    BY ZenonT(40), <2>2, <2>3 DEF SumOf, Told
  <2>5. Len(chunk'["err"]) = 0 /\ Len(chunk["err"]) \in Nat /\ Len(pipe["err"]) \in Nat
    BY <1>T, <2>1
  <2>6. Len(chunk["err"]) \in Nat /\ Len(pipe["err"]) \in Nat /\ Len(sent["err"]) \in Nat
    BY <1>T
  <2>7. Balance'
    <3>1. Told + Len(chunk["err"]) + Len(pipe["err"]) = Len(sent["err"])
      BY DEF Balance
    <3>2. Len(pipe'["err"]) = Len(pipe["err"]) /\ Len(sent'["err"]) = Len(sent["err"])
      BY <2>1
    <3>3. \A x, y, z \in Nat : x + y + z = (x + y) + 0 + z
      OBVIOUS
    <3>4. Told + Len(chunk["err"]) + Len(pipe["err"]) = (Told + Len(chunk["err"])) + 0 + Len(pipe["err"])
      BY <2>4, <2>6, <3>3
    <3>5. Told' + Len(chunk'["err"]) + Len(pipe'["err"]) = Len(sent'["err"])
      BY <2>4, <2>5, <3>1, <3>2, <3>4
    <3> QED BY <3>5 DEF Balance
  <2> QED BY <2>1, <2>7
<1>2. ASSUME ~LogStderr
      PROVE  Told' = Told
  <2>1. LoggedOf(log, "err")' = LoggedOf(log, "err")
    BY <1>0, <1>2, OthersLines
  <2> QED BY <2>1 DEF SumOf, Told
<1>s. Told \in Nat
  <2>1. 0 \in Nat
    OBVIOUS
  <2> QED BY <1>l, <2>1, SumAppend DEF Told
<1>3. CASE PeerWrites("err")
  <2>1. /\ pc["err"] # "done" /\ UNCHANGED <<pc, chunk, main>>
        /\ sent'["err"] = Append(sent["err"], Len(sent["err"]) + 1)
        /\ pipe'["err"] = Append(pipe["err"], Len(sent["err"]) + 1)
    BY <1>0, <1>t, <1>3 DEF PeerWrites, MayWrite
  <2>2. Len(sent'["err"]) = Len(sent["err"]) + 1 /\ Len(pipe'["err"]) = Len(pipe["err"]) + 1
    BY <1>T, <2>1
  <2>3. Len(chunk["err"]) \in Nat /\ Len(pipe["err"]) \in Nat /\ Len(sent["err"]) \in Nat
    BY <1>T
  <2>4. ~LogStderr
    <3>1. LogStderr => pc["err"] = "log" /\ pc'["err"] = "read"
      BY <1>0, <1>t DEF LogStderr
    <3> QED BY <2>1, <3>1
  <2>5. Balance'
    <3>1. Len(chunk'["err"]) = Len(chunk["err"]) /\ Told' = Told
      BY <1>2, <2>1, <2>4
    <3>2. Told + Len(chunk["err"]) + Len(pipe["err"]) = Len(sent["err"])
      BY DEF Balance
    <3>3. \A x, y, z \in Nat : x + y + (z + 1) = (x + y + z) + 1
      OBVIOUS
    <3>4. Told + Len(chunk["err"]) + (Len(pipe["err"]) + 1) = (Told + Len(chunk["err"]) + Len(pipe["err"])) + 1
      BY <1>s, <2>3, <3>3
    <3>5. Told' + Len(chunk'["err"]) + Len(pipe'["err"]) = Len(sent'["err"])
      BY <2>2, <3>1, <3>2, <3>4
    <3> QED BY <3>5 DEF Balance
  <2> QED BY <2>1, <2>5
<1>4. CASE Read("err")
  <2>1. PICK k \in 1 .. Len(pipe["err"]) :
          /\ chunk' = [chunk EXCEPT !["err"] = SubSeq(pipe["err"], 1, k)]
          /\ pipe' = [pipe EXCEPT !["err"] = SubSeq(@, k + 1, Len(@))]
    BY <1>4 DEF Read
  <2>2. /\ pc["err"] = "read" /\ pc'["err"] = "log" /\ UNCHANGED <<sent, main, log>>
    BY <1>0, <1>t, <1>4 DEF Read
  <2>3. /\ chunk'["err"] = SubSeq(pipe["err"], 1, k)
        /\ pipe'["err"] = SubSeq(pipe["err"], k + 1, Len(pipe["err"]))
    BY <1>0, <1>t, <2>1
  <2>4. Len(chunk'["err"]) + Len(pipe'["err"]) = Len(pipe["err"]) /\ Len(chunk["err"]) = 0
    <3>1. \A s \in Seq(Nat) : \A n \in 1 .. Len(s) :
            Len(SubSeq(s, 1, n)) = n /\ Len(SubSeq(s, n + 1, Len(s))) = Len(s) - n
      OBVIOUS
    <3>2. /\ Len(chunk'["err"]) = k /\ Len(pipe'["err"]) = Len(pipe["err"]) - k
      BY <1>T, <2>3, <3>1
    <3>3. chunk["err"] = <<>>
      BY <2>2
    <3>4. Len(pipe["err"]) \in Nat /\ k \in Nat
      BY <1>T
    <3> QED BY <3>2, <3>3, <3>4
  <2>5. ~LogStderr
    BY <2>2 DEF LogStderr
  <2>6. Len(chunk'["err"]) \in Nat /\ Len(pipe'["err"]) \in Nat
    BY <1>T, <2>3
  <2>7. Len(chunk["err"]) \in Nat /\ Len(pipe["err"]) \in Nat /\ Len(sent["err"]) \in Nat
    BY <1>T
  <2>8. Balance'
    <3>1. Told' = Told /\ Len(sent'["err"]) = Len(sent["err"])
      BY <1>2, <2>2, <2>5
    <3>2. Told + 0 + Len(pipe["err"]) = Len(sent["err"])
      BY <2>4 DEF Balance
    <3>3. \A w, x, y \in Nat : w + x + y = w + 0 + (x + y)
      OBVIOUS
    <3>4. Told + Len(chunk'["err"]) + Len(pipe'["err"]) = Told + 0 + (Len(chunk'["err"]) + Len(pipe'["err"]))
      BY <1>s, <2>6, <3>3
    <3>5. Told' + Len(chunk'["err"]) + Len(pipe'["err"]) = Len(sent'["err"])
      BY <2>4, <3>1, <3>2, <3>4
    <3> QED BY <3>5 DEF Balance
  <2>9. main \notin {"note", "exit"}
    BY <2>2
  <2> QED BY <2>2, <2>8, <2>9
<1>5. CASE ReadEof("err")
  <2>1. /\ pc["err"] = "read" /\ pc'["err"] = "done" /\ pipe["err"] = <<>>
        /\ UNCHANGED <<sent, pipe, chunk, main, log>>
    BY <1>0, <1>t, <1>5 DEF ReadEof, AtEof
  <2>2. ~LogStderr
    BY <2>1 DEF LogStderr
  <2>3. Balance'
    BY <1>2, <2>1, <2>2 DEF Balance
  <2> QED BY <2>1, <2>3
<1>6. ASSUME UNCHANGED <<sent["err"], pipe["err"], pc["err"], chunk["err"]>>, ~LogStderr,
             main' \in {"note", "exit"} => main \in {"note", "exit"} \/ pc["err"] = "done"
      PROVE  ErrTold'
  <2>1. Balance'
    BY <1>2, <1>6 DEF Balance
  <2> QED BY <1>6, <2>1
<1>7. ASSUME NEW t \in Threads, t # "err", PeerWrites(t) \/ ThreadStep(t)
      PROVE  ErrTold'
  <2>1. UNCHANGED <<sent["err"], pipe["err"], pc["err"], chunk["err"], main>>
    <3>1. CASE PeerWrites(t)
      BY <1>0, <1>t, <1>7, <3>1 DEF PeerWrites
    <3>2. CASE Read(t) \/ ReadEof(t)
      BY <1>0, <1>t, <1>7, <3>2 DEF Read, ReadEof
    <3>3. CASE t \in Pumps /\ (Write(t) \/ WriteFails(t) \/ LogMessage(t))
      BY <1>0, <1>t, <1>7, <3>3 DEF Write, WriteFails, LogMessage
    <3> QED BY <1>7, <3>1, <3>2, <3>3 DEF ThreadStep
  <2>2. ~LogStderr
    <3>1. LogStderr => pc["err"] = "log" /\ pc'["err"] = "read"
      BY <1>0, <1>t DEF LogStderr
    <3> QED BY <2>1, <3>1
  <2> QED BY <1>6, <2>1, <2>2
<1>8. CASE \/ \E d \in Pumps : PeerReads(d)
           \/ MainStep \/ WrapperExit \/ PeerCloses \/ ServerExit \/ ProxyKilled \/ UNCHANGED vars
  <2>1. UNCHANGED <<sent["err"], pipe["err"], pc["err"], chunk["err"]>>
    BY <1>8 DEF PeerReads, MainStep, Start, MainGoesOn, NoteExit, Exit, WrapperExit, PeerCloses,
                ServerExit, ProxyKilled, vars
  <2>2. ~LogStderr
    <3>1. LogStderr => pc["err"] = "log" /\ pc'["err"] = "read"
      BY <1>0, <1>t DEF LogStderr
    <3> QED BY <2>1, <3>1
  <2>3. main' \in {"note", "exit"} => main \in {"note", "exit"} \/ pc["err"] = "done"
    BY <1>8 DEF PeerReads, MainStep, Start, MainGoesOn, ErrJoined, NoteExit, Exit, WrapperExit,
                PeerCloses, ServerExit, ProxyKilled, vars
  <2> QED BY <1>6, <2>1, <2>2, <2>3
<1>9. ThreadStep("err") => Read("err") \/ ReadEof("err") \/ LogStderr
  BY <1>0 DEF ThreadStep
<1> QED BY <1>0, <1>1, <1>3, <1>4, <1>5, <1>7, <1>8, <1>9 DEF Next

\* Once main has joined s2c and err only c2s is left to log.
LEMMA NextNoteIsLast ==
  ASSUME Sane, Joined, ErrTold, NoteIsLast, [Next]_vars
  PROVE  NoteIsLast'
<1>0. log \in Seq(Event)
  BY EventsLogged
<1>1. main = "exit" => main' = "exit"
  BY DEF Next, ThreadStep, PeerWrites, PeerReads, PeerCloses, ServerExit, ProxyKilled, Read, ReadEof, Write,
         WriteFails, LogMessage, LogStderr, MainStep, Start, MainGoesOn, NoteExit, Exit, WrapperExit, vars
<1>2. CASE log' = log
  BY <1>1, <1>2 DEF NoteIsLast
<1>3. ASSUME NEW e \in Event, log' = Append(log, e),
             e.t = "server-exit" => main # "exit" /\ main' = "exit",
             main = "exit" => e.t = "c2s"
      PROVE  NoteIsLast'
  <2>1. /\ DOMAIN log' = DOMAIN log \cup {Len(log) + 1} /\ log'[Len(log) + 1] = e
        /\ \A i \in DOMAIN log : log'[i] = log[i] /\ i < Len(log) + 1 /\ ~(Len(log) + 1 < i)
        /\ ~(Len(log) + 1 < Len(log) + 1)
    BY <1>0, <1>3
  <2>2. ASSUME NEW i \in DOMAIN log', log'[i].t = "server-exit"
        PROVE  main' = "exit" /\ \A j \in DOMAIN log' : i < j => log'[j].t = "c2s"
    <3>1. CASE i \in DOMAIN log
      <4>1. main = "exit" /\ \A j \in DOMAIN log : i < j => log[j].t = "c2s"
        BY <2>1, <2>2, <3>1 DEF NoteIsLast
      <4> QED BY <1>1, <1>3, <2>1, <4>1
    <3>2. CASE i = Len(log) + 1
      BY <1>3, <2>1, <2>2, <3>2
    <3> QED BY <2>1, <3>1, <3>2
  <2> QED BY <2>2 DEF NoteIsLast
<1>4. ASSUME NEW d \in Pumps, LogMessage(d) PROVE NoteIsLast'
  <2>1. PICK e \in Event : e.t = d /\ log' = Append(log, e)
    BY <1>4, EventsLogged
  <2>2. d = "s2c" => main # "exit"
    BY <1>4 DEF LogMessage, Joined
  <2>3. d = "c2s" \/ d = "s2c"
    BY DEF Pumps
  <2> QED BY <1>3, <2>1, <2>2, <2>3
<1>5. CASE LogStderr
  <2>1. PICK e \in Event : e.t = "err" /\ log' = Append(log, e)
    BY <1>5, EventsLogged
  <2>2. main # "exit"
    BY <1>5 DEF LogStderr, ErrTold
  <2> QED BY <1>3, <2>1, <2>2
<1>6. CASE main = "spawn" /\ main' = main /\ log' = Append(log, Ev("spawn-error", 0))
  <2>1. PICK e \in Event : e = Ev("spawn-error", 0) /\ e.t = "spawn-error"
    BY EventsLogged
  <2> QED BY <1>3, <1>6, <2>1
<1>7. CASE NoteExit
  <2>1. PICK e \in Event : e.t = "server-exit" /\ log' = Append(log, e)
    BY <1>7, EventsLogged
  <2>2. main = "note" /\ main' = "exit"
    BY <1>7 DEF NoteExit
  <2> QED BY <1>3, <2>1, <2>2
<1> QED BY <1>2, <1>4, <1>5, <1>6, <1>7, WhoLogs

\* OutputAlwaysForwarded's invariant, by itself.
LEMMA JoinedAlways == Spec => []Joined
<1>1. Init => Joined
  BY DEF Init, Joined, Threads, Pumps
<1> QED BY <1>1, NextJoined, SaneAndIntact, PTL DEF Spec

\* When the server's exit is noted all it wrote has been forwarded and logged,
\* stderr to the last line, and only requests are logged behind the note.
THEOREM AlwaysDrainedAtExit == Spec => []DrainedAtExit
<1>1. Spec => [](ErrTold /\ NoteIsLast)
  <2>1. Sane /\ Joined /\ ErrTold /\ NoteIsLast /\ [Next]_vars => ErrTold' /\ NoteIsLast'
    BY NextErrTold, NextNoteIsLast
  <2> QED BY <2>1, InitErrTold, SaneAndIntact, JoinedAlways, PTL DEF Spec
<1>2. Sane /\ Joined /\ ErrTold /\ NoteIsLast /\ OutputForwarded /\ LogTrails => DrainedAtExit
  <2> SUFFICES ASSUME Sane, Joined, ErrTold, NoteIsLast, OutputForwarded, LogTrails, main \in {"note", "exit"}
               PROVE  /\ \A i, j \in DOMAIN log : i < j /\ log[i].t = "server-exit" => log[j].t = "c2s"
                      /\ clientReads => Logged("s2c") = sent["s2c"]
                      /\ SumOf(Logged("err")) = Len(sent["err"])
    BY DEF DrainedAtExit, Sane
  <2>1. \A t : Logged(t) = LoggedOf(log, t)
    BY DEF Logged, LoggedOf
  <2>2. clientReads => Logged("s2c") = sent["s2c"]
    <3> SUFFICES ASSUME clientReads PROVE Logged("s2c") = sent["s2c"]
      OBVIOUS
    <3>1. "s2c" \in Pumps /\ pc["s2c"] = "done" /\ chunk["s2c"] = <<>> /\ at["s2c"] = 0
      BY DEF Joined, Pumps
    <3>2. Unlogged("s2c") = SubSeq(chunk["s2c"], 1, at["s2c"])
      BY <3>1 DEF Unlogged
    <3>3. Unlogged("s2c") = <<>>
      BY <3>1, <3>2, SubSeqEmpty
    <3>4. Logged("s2c") \in Seq(Nat)
      BY <2>1, <3>1, PartTypes
    <3>5. Forwarded("s2c") = Logged("s2c") \o <<>>
      BY <3>1, <3>3 DEF LogTrails
    <3>6. Forwarded("s2c") = sent["s2c"]
      BY DEF OutputForwarded
    <3> QED BY <3>4, <3>5, <3>6, ConcatEmptySeq
  <2>3. SumOf(Logged("err")) = Len(sent["err"])
    <3>1. pc["err"] = "done" /\ Len(chunk["err"]) = 0 /\ Len(pipe["err"]) = 0
      BY DEF ErrTold
    <3>2. SumOf(LoggedOf(log, "err")) + 0 + 0 = Len(sent["err"])
      BY <3>1 DEF ErrTold, Balance, Told
    <3>3. SumOf(LoggedOf(log, "err")) \in Nat
      <4>1. 0 \in Nat /\ log \in Seq(Event) /\ \E e : e \in Event
        BY EventsLogged
      <4>2. LoggedOf(log, "err") \in Seq(Nat)
        BY <4>1, LoggedAppend
      <4> QED BY <4>1, <4>2, SumAppend
    <3>4. SumOf(LoggedOf(log, "err")) = Len(sent["err"])
      BY <3>2, <3>3
    <3>5. Logged("err") = LoggedOf(log, "err")
      BY <2>1
    <3> HIDE DEF SumOf
    <3> QED BY <3>4, <3>5
  <2> QED BY <2>2, <2>3 DEF NoteIsLast
<1> QED BY <1>1, <1>2, SaneAndIntact, JoinedAlways, OutputAlwaysForwarded, LogAlwaysTrails, PTL
=============================================================================
