---------------------------- MODULE HealthDaemon ----------------------------
(***************************************************************************)
(* mcpgaze health (src/health.ts): a probe, then sleep, for ever; alerts   *)
(* on stderr when the server goes down, recovers or changes its tools, and *)
(* a status file.  Every probe starts the server anew.  The server fails,  *)
(* recovers and changes its tools at any time, also between the two calls  *)
(* of a probe; a write of the file may fail; the daemon may be killed and  *)
(* started again.                                                          *)
(*                                                                         *)
(* Someone watches stderr: they see whether the first check was UP, and    *)
(* from then on read the alerts only; now and then they look at the tools  *)
(* the last check found.  Times other than latencies are left out.         *)
(***************************************************************************)
EXTENDS Integers, FiniteSets, Sequences

CONSTANTS
  Surfaces,     \* what the server may offer
  Hash,         \* toolsHash of each: names and input schemas of the first
                \* page, in its order; not descriptions, not further pages
  Latencies,    \* ms a probe may take
  MaxHistory    \* maxHistory

ASSUME HistoryAssumption == MaxHistory \in Nat \ {0}
ASSUME LatencyAssumption == Latencies \subseteq Nat

VARIABLES
  up, surface,  \* the server: whether it starts and answers, what it offers
  phase,        \* the call awaited, "sleep", or "off": no daemon runs
  once,         \* --once
  history,
  prevOk,       \* {prevOk}, {} for null
  prevHash,     \* {prevHash}, {} for undefined
  file,         \* health.json
  fresh,        \* it is of the last check
  believes,     \* {the server is up}, as far as the watcher knows, or {}
  saw, warned,  \* {the tools they looked at}, and whether drift was announced since
  moved,        \* whether the tools have changed since
  lastGood,     \* {hash of the last check that was ok}, or {}
  streak        \* checks failed in a row, up to MaxHistory

serverVars  == <<up, surface>>
daemonVars  == <<phase, once, history, prevOk, prevHash, file>>
watcherVars == <<fresh, believes, saw, warned, moved, lastGood, streak>>
vars == <<serverVars, daemonVars, watcherVars>>

Nothing == [is |-> "nothing"]        \* no file
Torn    == [is |-> "torn"]           \* a file cut off by a failed write

Up(hash, latency) == [ok |-> TRUE, hash |-> hash, latency |-> latency]
Down == [ok |-> FALSE]

Init ==
  /\ up \in BOOLEAN /\ surface \in Surfaces
  /\ phase = "off" /\ once = FALSE /\ file = Nothing
  /\ history = <<>> /\ prevOk = {} /\ prevHash = {}
  /\ believes = {} /\ saw = {} /\ warned = FALSE /\ moved = FALSE
  /\ lastGood = {} /\ streak = 0 /\ fresh = FALSE

-----------------------------------------------------------------------------
(* summarize.                                                              *)

UpIn(h) == {i \in DOMAIN h : h[i].ok}

\* The checks after the last one that was ok.
Failures_All(h) == Len(h) - Cardinality(UpIn(h))                 \* mutant
Failures(h) == Len(h) - CHOOSE n \in UpIn(h) \cup {0} : \A i \in UpIn(h) : i <= n

\* lats[floor(n / 2)] of the sorted latencies, counted from 0; {} if none.
P50(h) == {x \in {h[i].latency : i \in UpIn(h)} :
             LET below == Cardinality({i \in UpIn(h) : h[i].latency < x})
                 upTo  == Cardinality({i \in UpIn(h) : h[i].latency <= x})
                 at    == Cardinality(UpIn(h)) \div 2
             IN  below <= at /\ at < upTo}

\* Tenths of a percent, rounded.
UptimePct(h) ==
  IF h = <<>> THEN 0 ELSE (2000 * Cardinality(UpIn(h)) + Len(h)) \div (2 * Len(h))

Summarize(h) == [checks |-> Len(h), upCount |-> Cardinality(UpIn(h)),
                 uptimePct |-> UptimePct(h), consecutiveFailures |-> Failures(h),
                 p50LatencyMs |-> P50(h)]

-----------------------------------------------------------------------------
(* The daemon.                                                             *)

Start ==
  /\ phase = "off"
  /\ phase' = "initialize" /\ once' \in BOOLEAN
  /\ history' = <<>> /\ prevOk' = {} /\ prevHash' = {}
  /\ believes' = {} /\ saw' = {} /\ warned' = FALSE /\ moved' = FALSE
  /\ lastGood' = {} /\ streak' = 0 /\ fresh' = FALSE
  /\ UNCHANGED <<serverVars, file>>

Last == history[Len(history)]

Remember(c) == history' = IF Len(history) < MaxHistory THEN Append(history, c)
                          ELSE Append(Tail(history), c)

\* onTransition, as the watcher understands it.
Transition(c) == prevOk # {} /\ prevOk # {c.ok}
Drift(c)      == c.ok /\ prevHash # {} /\ {c.hash} # prevHash

PrevHashAfter_Reset(c) == IF c.ok THEN {c.hash} ELSE {}          \* mutant
PrevHashAfter(c) == IF c.ok THEN {c.hash} ELSE prevHash

\* persist: best effort; the file is overwritten in place.
Persist ==
  \/ /\ file' = [is |-> "status", current |-> history'[Len(history')],
                 summary |-> Summarize(history'), history |-> history']
     /\ fresh' = TRUE
  \/ file' \in {file, Torn} /\ fresh' = FALSE

Watch(c) ==
  /\ believes' = IF believes = {} \/ Transition(c) THEN {c.ok} ELSE believes
  /\ warned' = (warned \/ Drift(c))
  /\ lastGood' = IF c.ok THEN {c.hash} ELSE lastGood
  /\ streak' = IF c.ok THEN 0 ELSE IF streak < MaxHistory THEN streak + 1 ELSE streak
  /\ UNCHANGED <<saw, moved>>

\* The loop's body once a probe is over.
Checked(c) ==
  /\ Remember(c)
  /\ prevOk' = {c.ok} /\ prevHash' = PrevHashAfter(c)
  /\ Persist
  /\ Watch(c)
  /\ phase' = IF once THEN "off" ELSE "sleep"
  /\ UNCHANGED <<serverVars, once>>

Initialized ==
  /\ phase = "initialize" /\ up
  /\ phase' = "tools/list"
  /\ UNCHANGED <<serverVars, once, history, prevOk, prevHash, file, watcherVars>>

Listed ==
  /\ phase = "tools/list" /\ up
  /\ \E latency \in Latencies : Checked(Up(Hash[surface], latency))

Awaited_First == {"initialize"}                                  \* mutant
\* The calls a probe awaits, each with a timeout.
Awaited == {"initialize", "tools/list"}

\* An error, a timeout, the server's end, a failed spawn.
CallFails == phase \in Awaited /\ ~up /\ Checked(Down)

Wake ==
  /\ phase = "sleep"
  /\ phase' = "initialize"
  /\ UNCHANGED <<serverVars, once, history, prevOk, prevHash, file, watcherVars>>

\* Ctrl-C or a crash.
Killed ==
  /\ phase # "off"
  /\ phase' = "off"
  /\ UNCHANGED <<serverVars, once, history, prevOk, prevHash, file, watcherVars>>

-----------------------------------------------------------------------------
Look ==
  /\ history # <<>> /\ Last.ok
  /\ saw' = {Last.hash} /\ warned' = FALSE /\ moved' = (Hash[surface] # Last.hash)
  /\ UNCHANGED <<serverVars, daemonVars, fresh, believes, lastGood, streak>>

UpOrDown ==
  /\ up' = ~up
  /\ UNCHANGED <<surface, daemonVars, watcherVars>>

ToolsChange ==
  /\ \E s \in Surfaces : surface' = s /\ moved' = (moved \/ Hash[s] # Hash[surface])
  /\ UNCHANGED <<up, daemonVars, fresh, believes, saw, warned, lastGood, streak>>

Daemon == Initialized \/ Listed \/ CallFails \/ Wake

Next == Daemon \/ Start \/ Killed \/ Look \/ UpOrDown \/ ToolsChange

\* Timers fire and every call is answered or times out.
Spec == Init /\ [][Next]_vars /\ WF_vars(Daemon)

-----------------------------------------------------------------------------
Hashes == {Hash[s] : s \in Surfaces}
Check == {Down} \cup [ok : {TRUE}, hash : Hashes, latency : Latencies]

TypeOK ==
  /\ up \in BOOLEAN /\ surface \in Surfaces
  /\ phase \in {"off", "initialize", "tools/list", "sleep"} /\ once \in BOOLEAN
  /\ history \in Seq(Check) /\ Len(history) <= MaxHistory
  /\ prevOk \in SUBSET BOOLEAN /\ believes \in SUBSET BOOLEAN
  /\ {prevHash, saw, lastGood} \subseteq SUBSET Hashes
  /\ warned \in BOOLEAN /\ moved \in BOOLEAN /\ fresh \in BOOLEAN
  /\ streak \in 0 .. MaxHistory

\* The watcher who knows the first check and the alerts knows the last check.
StateIsTold == history # <<>> => believes = {Last.ok}

\* If no drift was announced since the watcher looked, the last check that was
\* ok found the tools they saw; drift is announced only if the tools changed.
DriftIsTold ==
  /\ saw # {} /\ ~warned => lastGood = saw
  /\ warned => moved

\* The alerts suffice: no outage, no recovery and no change of the hashed tools
\* between two checks goes without its alert, over any outage between them,
\* and there are no others.  (But those of the first check: a server that is
\* down when the daemon starts is not announced.)
AlertsSuffice == StateIsTold /\ DriftIsTold

\* Half of the probes kept each of these latencies, half did not beat it.
HalfKept(h, latencies) ==
  LET times == UpIn(h)
  IN  \A p50 \in latencies :
        /\ 2 * Cardinality({i \in times : h[i].latency <= p50}) >= Cardinality(times)
        /\ 2 * Cardinality({i \in times : h[i].latency >= p50}) >= Cardinality(times)

\* A file of the last check tells the server's state: the length of the
\* outage as far as the history goes, full uptime only without a failure, and
\* a latency that half of the probes kept and half did not beat.
StatusIsHonest ==
  fresh =>
    LET s == file.summary
    IN  /\ s.consecutiveFailures = streak
        /\ s.uptimePct = 1000 <=> Down \notin {file.history[i] : i \in DOMAIN file.history}
        /\ file.current.ok <=> streak = 0
        /\ s.p50LatencyMs = {} <=> UpIn(file.history) = {}
        /\ HalfKept(file.history, s.p50LatencyMs)

Running == phase # "off" /\ ~once

\* While the daemon runs, the watcher comes to know what lasts: that the
\* server is down, that it is up, and what tools it has.
WhatLastsIsKnown ==
  /\ <>[](Running /\ ~up) => <>[](believes = {FALSE})
  /\ <>[](Running /\ up) => <>[](believes = {TRUE})
  /\ \A s \in Surfaces : <>[](Running /\ up /\ surface = s) => <>[](lastGood = {Hash[s]})
=============================================================================
