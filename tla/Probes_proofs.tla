---------------------------- MODULE Probes_proofs ----------------------------
(***************************************************************************)
(* HealthDaemon for any surfaces, hashes and length of the history, and    *)
(* any number of checks, kills and restarts: the alerts suffice, and the   *)
(* status file is honest (HonestInv, below).  Conform for any number of    *)
(* versions and tools: its exit code is the truth.  ToolDrift for any      *)
(* tools, properties, types and enums, and any number of probes, pages and *)
(* changes of the server: snapshot and diff.                               *)
(*                                                                         *)
(* AlertsSuffice speaks of what the watcher knows; what keeps it true is   *)
(* what the daemon remembers.  Inv adds that its memory (prevOk, prevHash) *)
(* is that of the checks, over outages too, and that the tools are those   *)
(* of the last good check as long as the server has not changed them.      *)
(***************************************************************************)
EXTENDS MCProbes, MCToolDrift, FiniteSetTheorems, TLAPS

\* What the daemon remembers is what it found.
Memory ==
  /\ prevOk = believes /\ prevHash = lastGood
  /\ history = <<>> => believes = {} /\ lastGood = {}
  /\ history # <<>> /\ Last.ok => lastGood = {Last.hash}

\* Unless the server moved, the last good check found what it offers now.
Unmoved == ~moved => lastGood \subseteq {Hash[surface]}

Inv == AlertsSuffice /\ TypeOK /\ Memory /\ Unmoved

-----------------------------------------------------------------------------
(* The check is the last of the history, which stays within its cap.       *)
LEMMA Remembered ==
  ASSUME history \in Seq(Check), Len(history) <= MaxHistory, NEW c \in Check, Remember(c)
  PROVE  /\ history' \in Seq(Check) /\ Len(history') <= MaxHistory
         /\ history' # <<>> /\ Last' = c
<1> USE HistoryAssumption DEF Remember
<1>1. CASE Len(history) < MaxHistory
  <2>1. history' = Append(history, c)
    BY <1>1
  <2> QED BY <2>1 DEF Last
<1>2. CASE ~(Len(history) < MaxHistory)
  <2>1. history' = Append(Tail(history), c) /\ history # <<>>
    BY <1>2
  <2> DEFINE t == Tail(history)
  <2>2. t \in Seq(Check) /\ Len(t) + 1 = Len(history)
    BY <2>1
  <2> HIDE DEF t
  <2>3. history' = Append(t, c)
    BY <2>1 DEF t
  <2> QED BY <2>2, <2>3 DEF Last
<1> QED BY <1>1, <1>2

\* The daemon has checked nothing.
LEMMA InitInv == Init => Inv
<1> SUFFICES ASSUME Init PROVE Inv
  OBVIOUS
<1>1. TypeOK
  <2>1. history \in Seq(Check) /\ Len(history) <= MaxHistory /\ streak \in 0 .. MaxHistory
    BY HistoryAssumption DEF Init
  <2>2. {prevHash, saw, lastGood} \subseteq SUBSET Hashes
    BY DEF Init
  <2> QED BY <2>1, <2>2 DEF Init, TypeOK
<1>2. AlertsSuffice /\ Memory /\ Unmoved
  BY DEF Init, AlertsSuffice, StateIsTold, DriftIsTold, Memory, Unmoved
<1> QED BY <1>1, <1>2 DEF Inv

-----------------------------------------------------------------------------
(* A check that is over, of the surface there is or a failed one.          *)
LEMMA CheckedInv ==
  ASSUME Inv, NEW c \in Check, Checked(c), c.ok => c.hash = Hash[surface]
  PROVE  Inv'
<1> USE DEF Inv, Checked, Watch
<1>1. /\ history' \in Seq(Check) /\ Len(history') <= MaxHistory
      /\ history' # <<>> /\ Last' = c
  BY Remembered DEF TypeOK
<1>2. c.ok \in BOOLEAN /\ (c.ok => c.hash \in Hashes)
  <2>1. CASE c = Down
    BY <2>1 DEF Down
  <2>2. CASE c \in [ok : {TRUE}, hash : Hashes, latency : Latencies]
    BY <2>2
  <2> QED BY <2>1, <2>2 DEF Check
<1>3. TypeOK'
  <2>1. /\ up' \in BOOLEAN /\ surface' \in Surfaces /\ once' \in BOOLEAN
        /\ phase' \in {"off", "initialize", "tools/list", "sleep"}
        /\ saw' = saw /\ moved' = moved /\ warned' \in BOOLEAN
    BY DEF TypeOK, serverVars
  <2>0. fresh' \in BOOLEAN
    BY DEF Persist
  <2>2. prevOk' \in SUBSET BOOLEAN /\ believes' \in SUBSET BOOLEAN
    BY <1>2 DEF TypeOK
  <2>3. {prevHash', saw', lastGood'} \subseteq SUBSET Hashes
    BY <1>2, <2>1 DEF TypeOK, PrevHashAfter
  <2>4. streak' \in 0 .. MaxHistory
    BY HistoryAssumption DEF TypeOK
  <2> QED BY <1>1, <2>0, <2>1, <2>2, <2>3, <2>4 DEF TypeOK
<1>4. believes' = {c.ok}
  BY DEF Memory, Transition
<1>5. Memory'
  <2>1. prevHash' = lastGood'
    BY DEF Memory, PrevHashAfter
  <2> QED BY <1>1, <1>4, <2>1 DEF Memory
<1>6. DriftIsTold'
  <2>1. (saw # {} /\ ~warned => lastGood = saw)'
    BY DEF AlertsSuffice, DriftIsTold, Memory, Drift
  <2>2. (warned => moved)'
    BY DEF AlertsSuffice, DriftIsTold, Memory, Drift, Unmoved
  <2> QED BY <2>1, <2>2 DEF DriftIsTold
<1>7. Unmoved'
  BY DEF Unmoved, serverVars
<1> QED BY <1>1, <1>3, <1>4, <1>5, <1>6, <1>7 DEF AlertsSuffice, StateIsTold

\* Inv is inductive.
LEMMA NextInv == Inv /\ [Next]_vars => Inv'
<1> SUFFICES ASSUME Inv, [Next]_vars PROVE Inv'
  OBVIOUS
<1> USE DEF Inv, AlertsSuffice, StateIsTold, DriftIsTold, Memory, Unmoved, Last
<1>1. CASE UNCHANGED vars
  BY <1>1 DEF vars, serverVars, daemonVars, watcherVars, TypeOK
<1>2. CASE Initialized \/ Wake \/ Killed
  BY <1>2 DEF Initialized, Wake, Killed, serverVars, watcherVars, TypeOK
<1>3. CASE Listed
  <2>1. PICK latency \in Latencies : Checked(Up(Hash[surface], latency))
    BY <1>3 DEF Listed
  <2> DEFINE c == Up(Hash[surface], latency)
  <2>2. c \in Check
    BY DEF TypeOK, Check, Up, Hashes
  <2>3. c.hash = Hash[surface]
    BY DEF Up
  <2> HIDE DEF c
  <2>4. Checked(c)
    BY <2>1 DEF c
  <2> QED BY <2>2, <2>3, <2>4, CheckedInv
<1>4. CASE CallFails
  <2>1. Down \in Check /\ ~Down.ok /\ Checked(Down)
    BY <1>4 DEF CallFails, Check, Down
  <2> QED BY <2>1, CheckedInv
<1>5. CASE Start
  <2>1. /\ history' \in Seq(Check) /\ Len(history') <= MaxHistory
        /\ streak' \in 0 .. MaxHistory
    BY <1>5, HistoryAssumption DEF Start
  <2>2. {prevHash', saw', lastGood'} \subseteq SUBSET Hashes
    BY <1>5 DEF Start
  <2>3. TypeOK'
    BY <1>5, <2>1, <2>2 DEF Start, serverVars, TypeOK
  <2> QED BY <1>5, <2>3 DEF Start
<1>6. CASE Look
  <2>1. saw' = lastGood /\ saw' = {Last.hash}
    BY <1>6 DEF Look
  <2>2. TypeOK'
    BY <1>6, <2>1 DEF Look, serverVars, daemonVars, TypeOK
  <2>3. (Memory /\ StateIsTold)'
    BY <1>6 DEF Look, serverVars, daemonVars
  <2>4. (DriftIsTold /\ Unmoved)'
    BY <1>6, <2>1 DEF Look, serverVars, daemonVars
  <2> QED BY <2>2, <2>3, <2>4
<1>7. CASE UpOrDown
  BY <1>7 DEF UpOrDown, daemonVars, watcherVars, TypeOK
<1>8. CASE ToolsChange
  <2>1. TypeOK'
    BY <1>8 DEF ToolsChange, daemonVars, TypeOK
  <2>2. (Memory /\ StateIsTold /\ DriftIsTold /\ Unmoved)'
    BY <1>8 DEF ToolsChange, daemonVars, TypeOK
  <2> QED BY <2>1, <2>2
<1> QED BY <1>1, <1>2, <1>3, <1>4, <1>5, <1>6, <1>7, <1>8 DEF Next, Daemon

-----------------------------------------------------------------------------
\* Every variable keeps its type; in particular the history its cap.
THEOREM TypeCorrect == Spec => []TypeOK
<1>1. Inv => TypeOK
  BY DEF Inv
<1> QED BY InitInv, NextInv, <1>1, PTL DEF Spec

\* Whoever knows the first check and hears the alerts knows whether the last
\* check was ok, and whether the tools are those they saw, over any outages,
\* for any number of checks (runHealthDaemon's prevOk and prevHash).
THEOREM AlertsAlwaysSuffice == Spec => []AlertsSuffice
<1>1. Inv => AlertsSuffice
  BY DEF Inv
<1> QED BY InitInv, NextInv, <1>1, PTL DEF Spec

-----------------------------------------------------------------------------
(* The status file.                                                        *)

\* Of any checks that were ok, one was the fastest and one the slowest.
Ordered(h) ==
  \A T \in SUBSET UpIn(h) : T # {} =>
    /\ \E i \in T : \A j \in T : h[i].latency <= h[j].latency
    /\ \E i \in T : \A j \in T : h[j].latency <= h[i].latency

\* The outage is what follows the last check that was ok.
FailedSince(h, n) ==
  \E u \in UpIn(h) \cup {0} : (\A i \in UpIn(h) : i <= u) /\ n = Len(h) - u

FileIsFresh ==
  fresh => /\ history # <<>>
           /\ file = [is |-> "status", current |-> Last,
                      summary |-> Summarize(history), history |-> history]

HonestInv == Ordered(history) /\ FailedSince(history, streak) /\ FileIsFresh

\* The checks that were ok have a latency.
LEMMA UpHaveLatency ==
  \A h \in Seq(Check) :
    /\ DOMAIN h = 1 .. Len(h) /\ Len(h) \in Nat
    /\ UpIn(h) \subseteq 1 .. Len(h)
    /\ \A i \in UpIn(h) : h[i].latency \in Nat
    /\ \A i \in 1 .. Len(h) : i \notin UpIn(h) <=> h[i] = Down
<1> SUFFICES ASSUME NEW h \in Seq(Check)
             PROVE  /\ DOMAIN h = 1 .. Len(h) /\ Len(h) \in Nat
                    /\ UpIn(h) \subseteq 1 .. Len(h)
                    /\ \A i \in UpIn(h) : h[i].latency \in Nat
                    /\ \A i \in 1 .. Len(h) : i \notin UpIn(h) <=> h[i] = Down
  OBVIOUS
<1>1. DOMAIN h = 1 .. Len(h) /\ Len(h) \in Nat
  OBVIOUS
<1>2. UpIn(h) \subseteq 1 .. Len(h)
  BY <1>1 DEF UpIn
<1>3. \A i \in 1 .. Len(h) : h[i] \in Check
  OBVIOUS
<1>4. ASSUME NEW c \in Check PROVE (c.ok => c.latency \in Nat) /\ (~c.ok <=> c = Down)
  <2>1. CASE c = Down
    BY <2>1 DEF Down
  <2>2. CASE c \in [ok : {TRUE}, hash : Hashes, latency : Latencies]
    <3>1. c.ok = TRUE /\ c.latency \in Nat
      BY <2>2, LatencyAssumption
    <3>2. Down.ok = FALSE
      BY DEF Down
    <3> QED BY <3>1, <3>2
  <2> QED BY <2>1, <2>2 DEF Check
<1> HIDE DEF Check
<1> QED BY <1>1, <1>2, <1>3, <1>4 DEF UpIn

\* The checks g are those of h, but for the first d, and then c.
Shifted(h, g, c, d) ==
  /\ Len(g) = Len(h) + 1 - d /\ Len(g) >= 1 /\ g[Len(g)] = c
  /\ \A i \in 1 .. Len(g) - 1 : g[i] = h[i + d]

\* The check is remembered behind the others, the oldest of which makes room.
LEMMA RememberedAs ==
  ASSUME history \in Seq(Check), Len(history) <= MaxHistory, NEW c \in Check, Remember(c)
  PROVE  \E d \in {0, 1} :
           /\ history' \in Seq(Check) /\ Shifted(history, history', c, d)
           /\ d = 0 => Len(history) < MaxHistory
           /\ d = 1 => Len(history) = MaxHistory
<1> USE HistoryAssumption DEF Remember, Shifted
<1>1. CASE Len(history) < MaxHistory
  <2>1. history' = Append(history, c)
    BY <1>1
  <2>2. /\ history' \in Seq(Check) /\ Len(history') = Len(history) + 1 /\ Len(history) \in Nat
        /\ history'[Len(history')] = c
        /\ \A i \in 1 .. Len(history) : history'[i] = history[i]
    BY <2>1
  <2> WITNESS 0 \in {0, 1}
  <2> QED BY <1>1, <2>2
<1>2. CASE ~(Len(history) < MaxHistory)
  <2>1. history' = Append(Tail(history), c) /\ history # <<>> /\ Len(history) = MaxHistory
    BY <1>2
  <2> DEFINE t == Tail(history)
  <2>2. /\ t \in Seq(Check) /\ Len(t) + 1 = Len(history) /\ Len(t) \in Nat
        /\ \A i \in 1 .. Len(t) : t[i] = history[i + 1]
    BY <2>1
  <2> HIDE DEF t
  <2>3. history' = Append(t, c)
    BY <2>1 DEF t
  <2>4. /\ history' \in Seq(Check) /\ Len(history') = Len(t) + 1
        /\ history'[Len(history')] = c
        /\ \A i \in 1 .. Len(t) : history'[i] = t[i]
    BY <2>2, <2>3
  <2> WITNESS 1 \in {0, 1}
  <2> QED BY <2>1, <2>2, <2>4
<1> QED BY <1>1, <1>2

\* Which checks are ok then.
LEMMA UpAfter ==
  ASSUME NEW h \in Seq(Check), NEW g \in Seq(Check), NEW c \in Check, NEW d \in {0, 1},
         Shifted(h, g, c, d)
  PROVE  /\ \A i \in 1 .. Len(g) - 1 : i \in UpIn(g) <=> i + d \in UpIn(h)
         /\ Len(g) \in UpIn(g) <=> c.ok
<1>1. DOMAIN h = 1 .. Len(h) /\ DOMAIN g = 1 .. Len(g) /\ Len(h) \in Nat /\ Len(g) \in Nat
  OBVIOUS
<1>2. \A i \in 1 .. Len(g) - 1 : i + d \in 1 .. Len(h) /\ i \in 1 .. Len(g)
  BY <1>1 DEF Shifted
<1> QED BY <1>1, <1>2 DEF UpIn, Shifted

\* The latencies that remain are in order, and the new one is somewhere.
LEMMA OrderedAfter ==
  ASSUME NEW h \in Seq(Check), NEW g \in Seq(Check), NEW c \in Check, NEW d \in {0, 1},
         Shifted(h, g, c, d), Ordered(h)
  PROVE  Ordered(g)
<1> SUFFICES ASSUME NEW T \in SUBSET UpIn(g), T # {}
             PROVE  /\ \E i \in T : \A j \in T : g[i].latency <= g[j].latency
                    /\ \E i \in T : \A j \in T : g[j].latency <= g[i].latency
  BY DEF Ordered
<1> DEFINE L == Len(g)
           O == {i \in UpIn(h) : i - d \in T /\ i - d # L}
<1>0. /\ UpIn(h) \subseteq 1 .. Len(h) /\ UpIn(g) \subseteq 1 .. L
      /\ \A i \in UpIn(g) : g[i].latency \in Nat
      /\ L \in Nat /\ Len(h) \in Nat
  BY UpHaveLatency
<1>1. \A i \in T : i \in 1 .. L /\ g[i].latency \in Nat
  BY <1>0
<1>u. /\ \A i \in 1 .. L - 1 : i \in UpIn(g) <=> i + d \in UpIn(h)
      /\ L = Len(h) + 1 - d /\ \A i \in 1 .. L - 1 : g[i] = h[i + d]
  BY UpAfter DEF Shifted
<1>2. /\ \A i \in T : i = L \/ (i + d \in O /\ g[i] = h[i + d])
      /\ \A i \in O : i - d \in T /\ g[i - d] = h[i]
  <2>1. ASSUME NEW i \in T, i # L PROVE i + d \in O /\ g[i] = h[i + d]
    <3>1. i \in 1 .. L - 1 /\ (i + d) - d = i
      BY <1>0, <1>1, <2>1
    <3> QED BY <1>u, <2>1, <3>1
  <2>2. ASSUME NEW i \in O PROVE g[i - d] = h[i]
    <3>1. i - d \in 1 .. L - 1 /\ (i - d) + d = i
      BY <1>0, <1>1
    <3> QED BY <1>u, <3>1
  <2> QED BY <2>1, <2>2
<1>3. O \in SUBSET UpIn(h)
  OBVIOUS
<1> DEFINE lat(i) == g[i].latency
<1>l. \A i \in T : lat(i) \in Nat
  BY <1>1
<1> HIDE DEF O, L
<1>4. \E i \in T : \A j \in T : lat(i) <= lat(j)
  <2>1. CASE O = {}
    BY <1>1, <1>2, <2>1
  <2>2. CASE O # {}
    <3>1. PICK i \in O : \A j \in O : h[i].latency <= h[j].latency
      BY <1>3, <2>2 DEF Ordered
    <3>2. i - d \in T /\ \A j \in T : j = L \/ lat(i - d) <= lat(j)
      BY <1>2, <3>1
    <3> HIDE DEF lat
    <3>3. CASE L \in T /\ lat(L) <= lat(i - d)
      <4>1. \A j \in T : lat(L) <= lat(j)
        BY <1>l, <3>2, <3>3
      <4> QED BY <3>3, <4>1
    <3>4. CASE ~(L \in T /\ lat(L) <= lat(i - d))
      <4>1. \A j \in T : lat(i - d) <= lat(j)
        BY <1>l, <3>2, <3>4
      <4> QED BY <3>2, <4>1
    <3> QED BY <3>3, <3>4
  <2> QED BY <2>1, <2>2
<1>5. \E i \in T : \A j \in T : lat(j) <= lat(i)
  <2>1. CASE O = {}
    BY <1>1, <1>2, <2>1
  <2>2. CASE O # {}
    <3>1. PICK i \in O : \A j \in O : h[j].latency <= h[i].latency
      BY <1>3, <2>2 DEF Ordered
    <3>2. i - d \in T /\ \A j \in T : j = L \/ lat(j) <= lat(i - d)
      BY <1>2, <3>1
    <3> HIDE DEF lat
    <3>3. CASE L \in T /\ lat(i - d) <= lat(L)
      <4>1. \A j \in T : lat(j) <= lat(L)
        BY <1>l, <3>2, <3>3
      <4> QED BY <3>3, <4>1
    <3>4. CASE ~(L \in T /\ lat(i - d) <= lat(L))
      <4>1. \A j \in T : lat(j) <= lat(i - d)
        BY <1>l, <3>2, <3>4
      <4> QED BY <3>2, <4>1
    <3> QED BY <3>3, <3>4
  <2> QED BY <2>1, <2>2
<1> QED BY <1>4, <1>5

\* A failed check prolongs the outage, up to the cap; any other ends it.
LEMMA FailedAfter ==
  ASSUME NEW h \in Seq(Check), NEW g \in Seq(Check), NEW c \in Check, NEW d \in {0, 1},
         Shifted(h, g, c, d),
         d = 0 => Len(h) < MaxHistory, d = 1 => Len(h) = MaxHistory,
         NEW n \in 0 .. MaxHistory, FailedSince(h, n)
  PROVE  FailedSince(g, IF c.ok THEN 0 ELSE IF n < MaxHistory THEN n + 1 ELSE n)
<1>0. /\ UpIn(h) \subseteq 1 .. Len(h) /\ UpIn(g) \subseteq 1 .. Len(g)
      /\ Len(g) \in Nat /\ Len(h) \in Nat
  BY UpHaveLatency
<1>a. /\ \A i \in 1 .. Len(g) - 1 : i \in UpIn(g) <=> i + d \in UpIn(h)
      /\ Len(g) \in UpIn(g) <=> c.ok
  BY UpAfter
<1>b. Len(g) = Len(h) + 1 - d /\ Len(g) >= 1
  BY DEF Shifted
<1>1. CASE c.ok
  BY <1>0, <1>a, <1>b, <1>1 DEF FailedSince
<1>2. CASE ~c.ok
  <2>1. PICK u \in UpIn(h) \cup {0} : (\A i \in UpIn(h) : i <= u) /\ n = Len(h) - u
    BY DEF FailedSince
  <2>2. \A i \in UpIn(g) : i \in 1 .. Len(g) - 1 /\ i + d \in UpIn(h) /\ i + d <= u
    <3> TAKE i \in UpIn(g)
    <3>1. i \in 1 .. Len(g) - 1
      BY SMTT(30), <1>0, <1>2, <1>a, <1>b
    <3>2. i + d \in UpIn(h)
      BY <1>a, <3>1
    <3> QED BY <2>1, <3>1, <3>2
  <2>3. CASE u > d
    <3>1. u - d \in 1 .. Len(g) - 1 /\ (u - d) + d = u /\ u \in UpIn(h)
      BY <1>0, <1>b, <2>1, <2>3
    <3>2. u - d \in UpIn(g)
      BY <1>a, <1>b, <3>1
    <3>3. \A i \in UpIn(g) : i <= u - d
      BY <1>0, <1>b, <2>1, <2>2
    <3>4. n < MaxHistory /\ n + 1 = Len(g) - (u - d)
      BY <1>0, <1>b, <2>1, <2>3, HistoryAssumption
    <3> QED BY <1>2, <3>2, <3>3, <3>4 DEF FailedSince
  <2>4. CASE ~(u > d)
    <3>1. u \in {0, 1} /\ (u = 1 => d = 1)
      BY <1>0, <1>b, <2>1, <2>4
    <3>2. UpIn(g) = {}
      BY SMTT(30), <1>0, <1>b, <2>1, <2>2, <2>4
    <3>3. Len(g) - 0 = IF n < MaxHistory THEN n + 1 ELSE n
      BY <1>0, <1>b, <2>1, <3>1, HistoryAssumption
    <3> QED BY <1>2, <3>2, <3>3 DEF FailedSince
  <2> QED BY <2>3, <2>4
<1> QED BY <1>1, <1>2

-----------------------------------------------------------------------------
\* There is a median.
LEMMA Median ==
  ASSUME NEW h \in Seq(Check), Ordered(h)
  PROVE  /\ P50(h) = {} <=> UpIn(h) = {}
         /\ \A x \in P50(h) :
              /\ 2 * Cardinality({i \in UpIn(h) : h[i].latency <= x}) >= Cardinality(UpIn(h))
              /\ 2 * Cardinality({i \in UpIn(h) : h[i].latency >= x}) >= Cardinality(UpIn(h))
<1> DEFINE U == UpIn(h)
           lat(i) == h[i].latency
           n == Cardinality(U)
           at == n \div 2
           Below(x) == {i \in U : lat(i) < x}
           UpTo(x) == {i \in U : lat(i) <= x}
           From(x) == {i \in U : lat(i) >= x}
<1>1. U \subseteq 1 .. Len(h) /\ Len(h) \in Nat /\ \A i \in U : lat(i) \in Nat
  BY UpHaveLatency
<1>2. IsFiniteSet(U) /\ n \in Nat
  <2>1. IsFiniteSet(1 .. Len(h))
    BY <1>1, FS_Interval
  <2> QED BY <1>1, <2>1, FS_Subset, FS_CardinalityType
<1>3. at \in Nat /\ 2 * at <= n /\ n <= 2 * at + 1
  <2> HIDE DEF n
  <2> QED BY <1>2
<1>4. \A T \in SUBSET U : IsFiniteSet(T) /\ Cardinality(T) \in Nat /\ Cardinality(T) <= n
  <2> TAKE T \in SUBSET U
  <2> QED BY <1>2, FS_Subset, FS_CardinalityType
<1>5. P50(h) = {x \in {lat(i) : i \in U} : Cardinality(Below(x)) <= at /\ at < Cardinality(UpTo(x))}
  BY DEF P50
<1>o. \A T \in SUBSET U : T # {} =>
         /\ \E i \in T : \A j \in T : lat(i) <= lat(j)
         /\ \E i \in T : \A j \in T : lat(j) <= lat(i)
  BY DEF Ordered
<1> HIDE DEF U, lat, n, at
<1>6. ASSUME U # {} PROVE P50(h) # {}
  <2> DEFINE T == {i \in U : at < Cardinality(UpTo(lat(i)))}
  <2>1. n # 0
    BY <1>2, <1>6, FS_EmptySet DEF n
  <2>2. PICK m \in U : \A j \in U : lat(j) <= lat(m)
    BY <1>6, <1>o
  <2>3. UpTo(lat(m)) = U
    BY <2>2
  <2>4. m \in T
    <3>1. at < n
      BY <1>2, <1>3, <2>1
    <3> QED BY <2>3, <3>1 DEF n
  <2>5. PICK i \in T : \A j \in T : lat(i) <= lat(j)
    BY <1>o, <2>4
  <2> DEFINE x == lat(i)
             B == Below(x)
  <2>6. Cardinality(B) <= at
    <3> SUFFICES ASSUME Cardinality(B) > at PROVE FALSE
      BY <1>3, <1>4
    <3>0. B \in SUBSET U
      OBVIOUS
    <3>1. B \in SUBSET U /\ B # {}
      <4>1. B = {} => Cardinality(B) = 0
        BY FS_EmptySet
      <4> HIDE DEF B
      <4> QED BY <1>3, <3>0, <4>1
    <3>2. PICK j \in B : \A k \in B : lat(k) <= lat(j)
      BY <1>o, <3>1
    <3>3. B \in SUBSET UpTo(lat(j)) /\ UpTo(lat(j)) \in SUBSET U
      BY <3>2
    <3>4. Cardinality(B) <= Cardinality(UpTo(lat(j)))
      <4>1. IsFiniteSet(UpTo(lat(j)))
        BY <1>4, <3>3
      <4> HIDE DEF B, UpTo
      <4> QED BY <3>3, <4>1, FS_Subset
    <3>5. j \in T
      BY <1>3, <1>4, <3>1, <3>3, <3>4
    <3>6. lat(i) <= lat(j) /\ lat(j) < lat(i) /\ lat(i) \in Nat /\ lat(j) \in Nat
      BY <1>1, <2>5, <3>2, <3>5
    <3> QED BY <3>6
  <2> QED BY <1>5, <2>5, <2>6
<1>7. ASSUME NEW x \in P50(h)
      PROVE  2 * Cardinality(UpTo(x)) >= n /\ 2 * Cardinality(From(x)) >= n /\ U # {}
  <2>1. /\ x \in {lat(i) : i \in U} /\ x \in Nat
        /\ Cardinality(Below(x)) <= at /\ at < Cardinality(UpTo(x))
    BY <1>1, <1>5, <1>7
  <2>s. Below(x) \in SUBSET U /\ From(x) \in SUBSET U /\ UpTo(x) \in SUBSET U
    OBVIOUS
  <2>2. \A i \in U : (i \in From(x) <=> i \notin Below(x))
    BY <1>1, <2>1
  <2>3. /\ Cardinality(Below(x)) \in Nat /\ Cardinality(From(x)) \in Nat
        /\ Cardinality(UpTo(x)) \in Nat /\ IsFiniteSet(From(x)) /\ IsFiniteSet(Below(x))
    BY <1>4, <2>s
  <2>4. n = Cardinality(From(x)) + Cardinality(Below(x))
    <3> HIDE DEF From, Below
    <3>1. Cardinality(From(x) \cup Below(x))
            = Cardinality(From(x)) + Cardinality(Below(x)) - Cardinality(From(x) \cap Below(x))
      BY <2>3, FS_Union
    <3>2. From(x) \cup Below(x) = U /\ From(x) \cap Below(x) = {}
      BY <2>s, <2>2
    <3>3. Cardinality(From(x) \cap Below(x)) = 0
      BY <3>2, FS_EmptySet
    <3>4. n = Cardinality(From(x) \cup Below(x))
      BY <3>2 DEF n
    <3> QED BY <2>3, <3>1, <3>3, <3>4
  <2> HIDE DEF From, Below, UpTo
  <2> QED BY <1>2, <1>3, <2>1, <2>3, <2>4
<1>8. P50(h) = {} <=> U = {}
  BY <1>6, <1>7
<1> QED BY <1>7, <1>8 DEF U, lat, n

\* Rounded to tenths of a percent, one failure in less than 2000 checks shows.
LEMMA FullUptime ==
  \A c, l \in Nat : l # 0 /\ l < 2000 /\ c <= l =>
    ((2000 * c + l) \div (2 * l) = 1000 <=> c = l)
<1> SUFFICES ASSUME NEW c \in Nat, NEW l \in Nat, l # 0, l < 2000, c <= l
             PROVE  (2000 * c + l) \div (2 * l) = 1000 <=> c = l
  OBVIOUS
<1> DEFINE a == 2000 * c + l
           b == 2 * l
           q == a \div b
<1>1. a \in Nat /\ b \in Nat /\ b > 0
  OBVIOUS
<1>2. q \in Nat /\ q * b <= a /\ a < (q + 1) * b
  <2> HIDE DEF a, b
  <2> QED BY <1>1
<1>3. CASE c = l
  <2>1. a = 1000 * b + l /\ l < b
    BY <1>3
  <2> HIDE DEF a, b, q
  <2>2. q = 1000
    BY <1>1, <1>2, <2>1, Z3
  <2> QED BY <1>3, <2>2 DEF a, b, q
<1>4. CASE c # l
  <2>1. a < 1000 * b
    BY <1>4
  <2> HIDE DEF a, b, q
  <2>2. q # 1000
    BY <1>1, <1>2, <2>1
  <2> QED BY <1>4, <2>2 DEF a, b, q
<1> QED BY <1>3, <1>4

-----------------------------------------------------------------------------
\* There is no history at the start.
LEMMA InitHonest == Init => HonestInv
<1> SUFFICES ASSUME Init PROVE HonestInv
  OBVIOUS
<1>1. UpIn(history) = {} /\ Len(history) = 0 /\ streak = 0 /\ ~fresh
  BY DEF Init, UpIn
<1> QED BY <1>1 DEF HonestInv, Ordered, FailedSince, FileIsFresh

\* Only a check that is over, or a new start, touches the history or the file.
LEMMA NextHonest == TypeOK /\ HonestInv /\ [Next]_vars => HonestInv'
<1> SUFFICES ASSUME TypeOK, HonestInv, [Next]_vars PROVE HonestInv'
  OBVIOUS
<1>0. history \in Seq(Check) /\ Len(history) <= MaxHistory /\ streak \in 0 .. MaxHistory
  BY DEF TypeOK
<1>1. ASSUME NEW c \in Check, Checked(c) PROVE HonestInv'
  <2>1. /\ Remember(c) /\ Persist
        /\ streak' = IF c.ok THEN 0 ELSE IF streak < MaxHistory THEN streak + 1 ELSE streak
    BY <1>1 DEF Checked, Watch
  <2>2. PICK d \in {0, 1} :
           /\ history' \in Seq(Check) /\ Shifted(history, history', c, d)
           /\ d = 0 => Len(history) < MaxHistory
           /\ d = 1 => Len(history) = MaxHistory
    BY <1>0, <2>1, RememberedAs
  <2>3. Ordered(history')
    BY <1>0, <2>2, OrderedAfter DEF HonestInv
  <2>4. FailedSince(history', streak')
    <3>1. FailedSince(history, streak)
      BY DEF HonestInv
    <3> QED BY <1>0, <2>1, <2>2, <3>1, FailedAfter
  <2>5. FileIsFresh'
    <3>1. history' # <<>> /\ Last' = history'[Len(history')]
      BY <2>2 DEF Shifted, Last
    <3> QED BY <2>1, <3>1 DEF Persist, FileIsFresh
  <2> QED BY <2>3, <2>4, <2>5 DEF HonestInv
<1>2. CASE Listed
  <2>1. PICK latency \in Latencies : Checked(Up(Hash[surface], latency))
    BY <1>2 DEF Listed
  <2>2. Up(Hash[surface], latency) \in Check
    BY DEF TypeOK, Check, Up, Hashes
  <2> QED BY <1>1, <2>1, <2>2
<1>3. CASE CallFails
  <2>1. Down \in Check /\ Checked(Down)
    BY <1>3 DEF CallFails, Check
  <2> QED BY <1>1, <2>1
<1>4. CASE Start
  <2>1. UpIn(history') = {} /\ Len(history') = 0 /\ streak' = 0 /\ ~fresh'
    BY <1>4 DEF Start, UpIn
  <2> QED BY <2>1 DEF HonestInv, Ordered, FailedSince, FileIsFresh
<1>5. CASE Initialized \/ Wake \/ Killed \/ Look \/ UpOrDown \/ ToolsChange \/ UNCHANGED vars
  <2>1. UNCHANGED <<history, streak, fresh, file>>
    BY <1>5 DEF Initialized, Wake, Killed, Look, UpOrDown, ToolsChange, vars, serverVars,
                daemonVars, watcherVars
  <2> QED BY <2>1 DEF HonestInv, FileIsFresh, Last
<1> QED BY <1>2, <1>3, <1>4, <1>5 DEF Next, Daemon

\* What the invariant says of history and file is what the summary tells.
LEMMA HonestImplies ==
  ASSUME MaxHistory < 2000, TypeOK, HonestInv
  PROVE  StatusIsHonest
<1> SUFFICES ASSUME fresh PROVE StatusIsHonest
  BY DEF StatusIsHonest
<1> DEFINE U == UpIn(history)
           L == Len(history)
<1>0. /\ history \in Seq(Check) /\ L <= MaxHistory /\ MaxHistory \in Nat
      /\ history # <<>> /\ L \in Nat /\ L # 0 /\ DOMAIN history = 1 .. L
  BY HistoryAssumption DEF TypeOK, HonestInv, FileIsFresh
<1>1. /\ file.history = history /\ file.current = history[L]
      /\ file.summary.consecutiveFailures = Failures(history)
      /\ file.summary.uptimePct = UptimePct(history)
      /\ file.summary.p50LatencyMs = P50(history)
  BY DEF HonestInv, FileIsFresh, Summarize, Last
<1>2. /\ U \subseteq 1 .. L
      /\ \A i \in 1 .. L : i \notin U <=> history[i] = Down
  BY <1>0, UpHaveLatency
<1>3. PICK u \in U \cup {0} : (\A i \in U : i <= u) /\ streak = L - u
  BY DEF HonestInv, FailedSince
<1>4. Failures(history) = streak
  <2> DEFINE w == CHOOSE n \in U \cup {0} : \A i \in U : i <= n
  <2>1. w \in U \cup {0} /\ \A i \in U : i <= w
    BY <1>3
  <2>2. Failures(history) = L - w
    BY DEF Failures
  <2> HIDE DEF w, U, L
  <2>3. w = u
    BY <1>0, <1>2, <1>3, <2>1
  <2> QED BY <1>3, <2>2, <2>3
<1>5. history[L].ok <=> streak = 0
  <2>1. history[L].ok <=> L \in U
    BY <1>0 DEF UpIn
  <2>2. L \in U <=> u = L
    <3> HIDE DEF U, L
    <3> QED BY <1>0, <1>2, <1>3
  <2>3. u \in Nat
    BY <1>0, <1>2
  <2> HIDE DEF U, L
  <2> QED BY <1>0, <1>3, <2>1, <2>2, <2>3
<1>6. UptimePct(history) = 1000 <=> Down \notin {history[i] : i \in 1 .. L}
  <2>1. IsFiniteSet(1 .. L) /\ Cardinality(1 .. L) = L
    <3> HIDE DEF L
    <3> QED BY <1>0, FS_Interval
  <2>2. /\ Cardinality(U) \in Nat /\ Cardinality(U) <= L
        /\ Cardinality(U) = L <=> U = 1 .. L
    <3> HIDE DEF U, L
    <3> DEFINE S == 1 .. L
    <3>0. U \in SUBSET S /\ IsFiniteSet(S) /\ Cardinality(S) = L
      BY <1>2, <2>1
    <3> HIDE DEF S
    <3>1. IsFiniteSet(U) /\ Cardinality(U) <= Cardinality(S)
          /\ (Cardinality(S) = Cardinality(U) => S = U)
      BY <3>0, FS_Subset
    <3>2. Cardinality(U) \in Nat
      BY <3>1, FS_CardinalityType
    <3>3. Cardinality(U) = L <=> U = S
      BY <3>0, <3>1
    <3> QED BY <3>0, <3>1, <3>2, <3>3 DEF S
  <2>3. UptimePct(history) = (2000 * Cardinality(U) + L) \div (2 * L)
    BY <1>0 DEF UptimePct
  <2>4. U = 1 .. L <=> Down \notin {history[i] : i \in 1 .. L}
    <3> HIDE DEF U, L
    <3>1. ASSUME U = 1 .. L PROVE Down \notin {history[i] : i \in 1 .. L}
      BY <1>2, <3>1
    <3>2. ASSUME Down \notin {history[i] : i \in 1 .. L} PROVE U = 1 .. L
      <4>1. \A i \in 1 .. L : i \in U
        BY <1>2, <3>2
      <4> DEFINE S == 1 .. L
      <4>2. U \subseteq S /\ \A i \in S : i \in U
        BY <1>2, <4>1
      <4> HIDE DEF S
      <4>3. U = S
        BY <4>2
      <4> QED BY <4>3 DEF S
    <3> QED BY <3>1, <3>2
  <2> DEFINE c == Cardinality(U)
  <2> HIDE DEF U, L
  <2>5. c \in Nat /\ c <= L /\ L \in Nat /\ L # 0 /\ L < 2000
    BY <1>0, <2>2
  <2>6. c = L <=> U = 1 .. L
    BY <2>2
  <2>7. UptimePct(history) = (2000 * c + L) \div (2 * L)
    BY <2>3
  <2> HIDE DEF c
  <2>8. UptimePct(history) = 1000 <=> c = L
    BY <2>5, <2>7, FullUptime
  <2> QED BY <2>4, <2>6, <2>8
<1>7. Ordered(history)
  BY DEF HonestInv
<1>8. /\ P50(history) = {} <=> UpIn(history) = {}
      /\ HalfKept(history, P50(history))
  <2>1. history \in Seq(Check)
    BY <1>0
  <2>2. P50(history) = {} <=> UpIn(history) = {}
    BY <1>7, <2>1, Median
  <2>3. HalfKept(history, P50(history))
    BY <1>7, <2>1, Median DEF HalfKept
  <2> QED BY <2>2, <2>3
<1>9. DOMAIN file.history = 1 .. L
  BY <1>0, <1>1
<1>10. /\ file.summary.consecutiveFailures = streak
       /\ file.summary.uptimePct = 1000
            <=> Down \notin {file.history[i] : i \in DOMAIN file.history}
       /\ file.current.ok <=> streak = 0
       /\ file.summary.p50LatencyMs = {} <=> UpIn(file.history) = {}
  BY <1>1, <1>4, <1>5, <1>6, <1>8, <1>9
<1>11. HalfKept(file.history, file.summary.p50LatencyMs)
  BY <1>1, <1>8
<1> QED BY <1>10, <1>11 DEF StatusIsHonest

\* A status file of the last check is honest, if the history is shorter than
\* 2000 checks (runHealthDaemon keeps 500): rounding hides less than 1 in 2000.
THEOREM StatusAlwaysHonest ==
  ASSUME MaxHistory < 2000 PROVE Spec => []StatusIsHonest
<1>1. Inv => TypeOK
  BY DEF Inv
<1>2. TypeOK /\ HonestInv => StatusIsHonest
  BY HonestImplies
<1> QED BY InitInv, NextInv, InitHonest, NextHonest, <1>1, <1>2, PTL DEF Spec

-----------------------------------------------------------------------------
(* conform.                                                                *)

\* What a version's server has answered so far.
Answered ==
  /\ call \in {"initialize", "tools/list", "unknown", "over"}
  /\ call \in {"tools/list", "unknown"} => init \in Conf!InitAnswers \ {Conf!Failed}
  /\ call = "tools/list" => init.is = "result"
  /\ call = "unknown" /\ init.is = "result" =>
       listed \in Conf!ListAnswers /\ tools = Conf!ToolsOf(listed)

\* One report for every version done, and a true one; a code at the end only.
Reported ==
  /\ reports \in Seq(BOOLEAN) /\ truth = reports
  /\ call # "over" => exitCode = {} /\ Len(reports) < Specs

\* The answers to tools/list are told apart by what their results hold.
LEMMA AnswersDiffer ==
  \A S : LET a == Conf!ArrayOf(S)
         IN  /\ a.tools = "array" /\ a.set = S
             /\ a \notin {Conf!Failed, Conf!Error, Conf!NoTools, Conf!NoArray}
<1> SUFFICES ASSUME NEW S
             PROVE  LET a == Conf!ArrayOf(S)
                    IN  /\ a.tools = "array" /\ a.set = S
                        /\ a \notin {Conf!Failed, Conf!Error, Conf!NoTools, Conf!NoArray}
  OBVIOUS
<1>1. Conf!ArrayOf(S).is = "result" /\ Conf!ArrayOf(S).tools = "array" /\ Conf!ArrayOf(S).set = S
  BY DEF Conf!ArrayOf
<1>2. Conf!Failed.is = "failed" /\ Conf!Error.is = "error"
  BY DEF Conf!Failed, Conf!Error
<1>3. Conf!NoTools.tools = "absent" /\ Conf!NoArray.tools = "other"
  BY DEF Conf!NoTools, Conf!NoArray
<1> QED BY <1>1, <1>2, <1>3

\* What the required checks say of what was answered, together, is what is true.
LEMMA ReportIsTrue ==
  ASSUME Answered, call = "unknown", NEW unknown \in Conf!UnknownAnswers
  PROVE  /\ Conf!Passed(Conf!Report(unknown)) <=> Conf!Conforms(unknown)
         /\ Conf!Passed(Conf!Report(unknown)) \in BOOLEAN
         /\ Conf!Conforms(unknown) \in BOOLEAN
<1>b. Conf!Passed(Conf!Report(unknown)) \in BOOLEAN /\ Conf!Conforms(unknown) \in BOOLEAN
  BY DEF Conf!Passed, Conf!Conforms
<1> SUFFICES Conf!Passed(Conf!Report(unknown)) <=> Conf!Conforms(unknown)
  BY <1>b
<1> DEFINE S(check) == Conf!Status(check, unknown)
<1>1. Conf!Passed(Conf!Report(unknown))
        <=> /\ S("init.result") # "fail" /\ S("init.protocolVersion") # "fail"
            /\ S("init.serverInfo") # "fail" /\ S("tools.list") # "fail"
            /\ S("tools.names") # "fail" /\ S("error.unknownMethod") # "fail"
  <2> HIDE DEF S
  <2>1. \A check \in Conf!Required : Conf!Report(unknown)[check] = S(check)
    BY DEF S, Conf!Report, Conf!Catalog
  <2> QED BY <2>1 DEF Conf!Passed, Conf!Required
<1>2. /\ S("init.result") # "fail" <=> init.is = "result"
      /\ S("init.protocolVersion") # "fail" <=> init.is = "result" /\ init.version
      /\ S("init.serverInfo") # "fail" <=> init.is = "result" /\ init.name
      /\ S("tools.list") # "fail" <=> tools.tools = "array"
      /\ S("tools.names") # "fail" <=> \A t \in Conf!Listed : t # NullTool /\ t.named
      /\ S("error.unknownMethod") # "fail" <=> unknown.is = "error"
  BY DEF Conf!Status, Conf!Verdict
<1> HIDE DEF S
<1>3. CASE init.is # "result"
  BY <1>1, <1>2, <1>3 DEF Conf!Conforms
<1>4. CASE init.is = "result"
  <2>1. listed \in Conf!ListAnswers /\ tools = Conf!ToolsOf(listed)
    BY <1>4 DEF Answered
  <2>2. ASSUME listed \in {Conf!Failed, Conf!Error, Conf!NoTools}
        PROVE  /\ tools.tools = "array" /\ Conf!Listed = {}
               /\ listed # Conf!NoArray /\ ~Conf!IsArray(listed)
    <3>1. tools = Conf!ArrayOf({})
      BY <2>1, <2>2 DEF Conf!ToolsOf
    <3>2. tools.tools = "array" /\ tools.set = {}
      BY <3>1, AnswersDiffer
    <3>3. Conf!Listed = {}
      BY <3>2 DEF Conf!Listed
    <3>4. ~Conf!IsArray(listed)
      BY <2>2, AnswersDiffer DEF Conf!IsArray
    <3>5. listed # Conf!NoArray
      <4>1. Conf!Failed.is = "failed" /\ Conf!Error.is = "error" /\ Conf!NoArray.is = "result"
        BY DEF Conf!Failed, Conf!Error, Conf!NoArray
      <4>2. Conf!NoTools.tools = "absent" /\ Conf!NoArray.tools = "other"
        BY DEF Conf!NoTools, Conf!NoArray
      <4> QED BY <2>2, <4>1, <4>2
    <3> QED BY <3>2, <3>3, <3>4, <3>5
  <2>3. ASSUME listed = Conf!NoArray PROVE tools.tools # "array"
    <3>1. listed.tools = "other" /\ listed.is = "result"
      BY <2>3 DEF Conf!NoArray
    <3>2. Conf!Failed.is = "failed" /\ Conf!Error.is = "error" /\ Conf!NoTools.tools = "absent"
      BY DEF Conf!Failed, Conf!Error, Conf!NoTools
    <3>3. tools = listed
      BY <2>1, <3>1, <3>2 DEF Conf!ToolsOf
    <3> QED BY <3>1, <3>3
  <2>4. ASSUME NEW T \in SUBSET MCTools, listed = Conf!ArrayOf(T)
        PROVE  /\ tools.tools = "array" /\ Conf!Listed = T
               /\ listed # Conf!NoArray /\ Conf!IsArray(listed) /\ listed.set = T
    <3>1. tools = listed
      BY <2>1, <2>4, AnswersDiffer DEF Conf!ToolsOf
    <3>2. tools.tools = "array" /\ tools.set = T /\ listed # Conf!NoArray
      BY <2>4, <3>1, AnswersDiffer
    <3>3. Conf!Listed = T
      BY <3>2 DEF Conf!Listed
    <3>4. Conf!IsArray(listed)
      BY <2>4 DEF Conf!IsArray, MCTools
    <3> QED BY <3>1, <3>2, <3>3, <3>4
  <2>5. \/ listed \in {Conf!Failed, Conf!Error, Conf!NoTools} \/ listed = Conf!NoArray
        \/ \E T \in SUBSET MCTools : listed = Conf!ArrayOf(T)
    BY <2>1 DEF Conf!ListAnswers, MCTools
  <2>6. CASE listed \in {Conf!Failed, Conf!Error, Conf!NoTools}
    BY <1>1, <1>2, <1>4, <2>2, <2>6 DEF Conf!Conforms
  <2>7. CASE listed = Conf!NoArray
    BY <1>1, <1>2, <2>3, <2>7 DEF Conf!Conforms
  <2>8. CASE \E T \in SUBSET MCTools : listed = Conf!ArrayOf(T)
    BY <1>1, <1>2, <1>4, <2>4, <2>8 DEF Conf!Conforms
  <2> QED BY <2>5, <2>6, <2>7, <2>8
<1> QED BY <1>3, <1>4

\* A version is asked in order, and its report is added to those before.
LEMMA NextReported ==
  ASSUME Specs \in Nat \ {0}, Answered, Reported, PassedMeansConforming, [Conf!Next]_conformVars
  PROVE  (Answered /\ Reported /\ PassedMeansConforming)'
<1> USE DEF Answered, Reported
<1>1. CASE Conf!NoInitialize
  <2>1. /\ call = "initialize" /\ call' = "over" /\ exitCode' = {1}
        /\ UNCHANGED <<tools, listed, reports, truth>>
    BY <1>1 DEF Conf!NoInitialize, Conf!Over
  <2>2. Len(truth) # Specs
    BY <2>1
  <2>3. PassedMeansConforming'
    BY <2>1, <2>2 DEF PassedMeansConforming, Conf!PassedMeansConforming
  <2> QED BY <2>1, <2>3
<1>2. CASE Conf!Initialized
  <2>1. /\ call = "initialize" /\ init' \in Conf!InitAnswers \ {Conf!Failed}
        /\ call' = IF init' = Conf!Error THEN "unknown" ELSE "tools/list"
        /\ UNCHANGED <<tools, listed, reports, truth, exitCode>>
    BY <1>2 DEF Conf!Initialized
  <2>2. init' = Conf!Error \/ init'.is = "result"
    BY <2>1 DEF Conf!InitAnswers
  <2>3. Conf!Error.is = "error"
    BY DEF Conf!Error
  <2>4. Answered'
    BY <2>1, <2>2, <2>3 DEF Conf!InitAnswers
  <2> QED BY <2>1, <2>4 DEF PassedMeansConforming, Conf!PassedMeansConforming
<1>3. CASE Conf!ListAnswered
  <2>1. /\ call = "tools/list" /\ call' = "unknown" /\ listed' \in Conf!ListAnswers
        /\ tools' = Conf!ToolsOf(listed') /\ UNCHANGED <<init, reports, truth, exitCode>>
    BY <1>3 DEF Conf!ListAnswered
  <2>2. Conf!ToolsOf(listed)' = Conf!ToolsOf(listed')
    BY DEF Conf!ToolsOf
  <2>3. Answered'
    BY <2>1, <2>2
  <2> QED BY <2>1, <2>3 DEF PassedMeansConforming, Conf!PassedMeansConforming
<1>4. CASE Conf!UnknownAnswered
  <2>1. PICK unknown \in Conf!UnknownAnswers :
          /\ reports' = Append(reports, Conf!Passed(Conf!Report(unknown)))
          /\ truth' = Append(truth, Conf!Conforms(unknown))
    BY <1>4 DEF Conf!UnknownAnswered
  <2>2. call = "unknown"
    BY <1>4 DEF Conf!UnknownAnswered
  <2> DEFINE b == Conf!Passed(Conf!Report(unknown))
             c == Conf!Conforms(unknown)
  <2>3. b \in BOOLEAN /\ c \in BOOLEAN /\ b = c
    BY <2>2, ReportIsTrue
  <2> HIDE DEF b, c
  <2>4. reports' = Append(reports, b) /\ truth' = Append(truth, c)
    BY <2>1 DEF b, c
  <2>5. reports' \in Seq(BOOLEAN) /\ truth' = reports' /\ Len(reports') = Len(reports) + 1
    BY <2>3, <2>4
  <2>6. CASE Len(reports') = Specs
    <3>1. call' = "over" /\ exitCode' = {Conf!ExitOf(reports')}
      BY <1>4, <2>6 DEF Conf!UnknownAnswered, Conf!Over
    <3>2. Conf!ExitOf(reports') = 0 <=> \A i \in DOMAIN reports' : reports'[i]
      BY DEF Conf!ExitOf
    <3>3. PassedMeansConforming'
      BY <2>5, <2>6, <3>1, <3>2 DEF PassedMeansConforming, Conf!PassedMeansConforming
    <3> QED BY <2>5, <3>1, <3>3
  <2>7. CASE Len(reports') # Specs
    <3>1. call' = "initialize" /\ UNCHANGED exitCode
      BY <1>4, <2>7 DEF Conf!UnknownAnswered
    <3>2. exitCode' = {} /\ Len(reports') < Specs
      BY <2>2, <2>5, <2>7, <3>1
    <3> QED BY <2>5, <3>1, <3>2 DEF PassedMeansConforming, Conf!PassedMeansConforming
  <2> QED BY <2>6, <2>7
<1>5. CASE UNCHANGED conformVars
  BY <1>5 DEF conformVars, PassedMeansConforming, Conf!PassedMeansConforming, Conf!ToolsOf
<1> QED BY <1>1, <1>2, <1>3, <1>4, <1>5 DEF Conf!Next

\* An exit code of 0 means that the server did what is required of it under
\* every version tested, for any number of tools: PassedMeansConforming.
THEOREM ExitAlwaysTrue ==
  ASSUME Specs \in Nat \ {0}
  PROVE  Conf!Spec => []PassedMeansConforming
<1>1. Conf!Init => Answered /\ Reported /\ PassedMeansConforming
  BY DEF Conf!Init, Answered, Reported, PassedMeansConforming, Conf!PassedMeansConforming
<1>2. Answered /\ Reported /\ PassedMeansConforming /\ [Conf!Next]_conformVars
        => (Answered /\ Reported /\ PassedMeansConforming)'
  BY NextReported
<1>3. Answered /\ Reported /\ PassedMeansConforming /\ [Conf!Next]_(Conf!vars)
        => (Answered /\ Reported /\ PassedMeansConforming)'
  BY <1>2 DEF Conf!vars, conformVars
<1> QED BY <1>1, <1>3, PTL DEF Conf!Spec
-----------------------------------------------------------------------------
(* snapshot and diff.                                                      *)

(***************************************************************************)
(* The properties of ToolDrift speak of the verdict, the baseline and the  *)
(* server; what keeps them true is that a probe of a server that does not  *)
(* change has found the tools as they are, but for those still to be       *)
(* listed (ProbeIsTrue), and that a verdict on such a server is about the  *)
(* baseline and the tools there are (VerdictIsCurrent).  The rest is what  *)
(* the differ says of two schemas.                                         *)
(***************************************************************************)
driftVars == <<toolSurface, baseline, task, failOn, left, found, edits, steady, verdict>>

\* A probe under way of a server that did not change since it began.
ProbeIsTrue ==
  task # "idle" /\ steady =>
    /\ \A t \in left : found[t] = None
    /\ \A t \in Tools \ left : found[t] = toolSurface[t]

\* The last verdict, while neither the baseline nor the server changed.
VerdictIsCurrent ==
  verdict # "none" =>
    /\ task = "idle"
    /\ steady => verdict = Diff!Verdict(Diff!Changes(baseline, toolSurface), failOn)

DriftInv == Diff!TypeOK /\ ProbeIsTrue /\ VerdictIsCurrent

-----------------------------------------------------------------------------
(* The differ.                                                             *)

\* A change of one property is a change of the schema.
LEMMA ChangesOfProperty ==
  ASSUME NEW old, NEW new, NEW p \in Diff!Declared(old) \cap Diff!Declared(new)
  PROVE  /\ Diff!TypeChanges(p, old[p], new[p]) \subseteq Diff!DiffInputSchema(old, new)
         /\ Diff!EnumChanges(p, old[p], new[p]) \subseteq Diff!DiffInputSchema(old, new)
         /\ Diff!RequiredChanges(p, old[p], new[p]) \subseteq Diff!DiffInputSchema(old, new)
BY DEF Diff!DiffInputSchema

\* A property that differs is reported.
LEMMA PropertyDiffers ==
  ASSUME NEW p, NEW o \in Diff!Prop, NEW n \in Diff!Prop,
         Diff!TypeChanges(p, o, n) = {}, Diff!EnumChanges(p, o, n) = {},
         Diff!RequiredChanges(p, o, n) = {}
  PROVE  o = n
<1>1. o.type = n.type
  BY DEF Diff!TypeChanges
<1>2. Diff!EnumValues(o) = Diff!EnumValues(n)
  BY DEF Diff!EnumChanges
<1>3. o.enum = n.enum
  BY <1>2, EnumsAssumption DEF Diff!EnumValues, Diff!Prop
<1>4. o.required = n.required
  BY DEF Diff!RequiredChanges, Diff!Prop
<1> QED BY <1>1, <1>3, <1>4 DEF Diff!Prop

\* The differ is silent exactly on equal schemas.
LEMMA SilentMeansEqual ==
  ASSUME NEW old \in Diff!Schema, NEW new \in Diff!Schema
  PROVE  Diff!DiffInputSchema(old, new) = {} <=> old = new
<1>1. ASSUME Diff!DiffInputSchema(old, new) = {} PROVE old = new
  <2>1. Diff!Declared(old) = Diff!Declared(new)
    <3>1. Diff!Removed(old, new) = {} /\ Diff!Added(old, new) = {}
      BY <1>1 DEF Diff!DiffInputSchema
    <3> QED BY <3>1 DEF Diff!Removed, Diff!Added, Diff!Declared
  <2>2. ASSUME NEW p \in Props PROVE old[p] = new[p]
    <3>1. CASE old[p] = None
      BY <2>1, <3>1 DEF Diff!Declared
    <3>2. CASE old[p] # None
      <4>1. p \in Diff!Declared(old) \cap Diff!Declared(new)
        BY <2>1, <3>2 DEF Diff!Declared
      <4>2. old[p] \in Diff!Prop /\ new[p] \in Diff!Prop
        BY <4>1 DEF Diff!Declared, Diff!Schema
      <4>3. /\ Diff!TypeChanges(p, old[p], new[p]) = {} /\ Diff!EnumChanges(p, old[p], new[p]) = {}
            /\ Diff!RequiredChanges(p, old[p], new[p]) = {}
        BY <1>1, <4>1, ChangesOfProperty
      <4> QED BY <4>2, <4>3, PropertyDiffers
    <3> QED BY <3>1, <3>2
  <2> QED BY <2>2 DEF Diff!Schema
<1>2. ASSUME NEW p \in Diff!Declared(old), old = new
      PROVE  Diff!TypeChanges(p, old[p], new[p]) \cup Diff!EnumChanges(p, old[p], new[p])
               \cup Diff!RequiredChanges(p, old[p], new[p]) = {}
  <2>1. old[p].required \in BOOLEAN
    BY DEF Diff!Declared, Diff!Schema, Diff!Prop
  <2> QED BY <1>2, <2>1 DEF Diff!TypeChanges, Diff!EnumChanges, Diff!RequiredChanges
<1>3. ASSUME old = new PROVE Diff!DiffInputSchema(old, new) = {}
  <2>1. Diff!Declared(old) \ Diff!Declared(new) = {} /\ Diff!Declared(new) \ Diff!Declared(old) = {}
    BY <1>3
  <2>2. Diff!Removed(old, new) = {} /\ Diff!Added(old, new) = {}
    BY <2>1 DEF Diff!Removed, Diff!Added
  <2>3. \A p \in Diff!Declared(old) \cap Diff!Declared(new) :
          Diff!TypeChanges(p, old[p], new[p]) \cup Diff!EnumChanges(p, old[p], new[p])
            \cup Diff!RequiredChanges(p, old[p], new[p]) = {}
    BY <1>2, <1>3
  <2> QED BY <2>2, <2>3 DEF Diff!DiffInputSchema
<1> QED BY <1>1, <1>3

\* "No drift" means no difference, between any two surfaces.
LEMMA NoChangeMeansSame ==
  ASSUME NEW old \in Diff!Surface, NEW new \in Diff!Surface
  PROVE  Diff!Changes(old, new) = {} <=> old = new
<1>1. ASSUME NEW t \in Tools PROVE Diff!ToolChanges(old[t], new[t]) = {} <=> old[t] = new[t]
  <2>1. CASE old[t] = None \/ new[t] = None
    BY <2>1 DEF Diff!ToolChanges
  <2>2. CASE old[t] # None /\ new[t] # None
    <3>1. old[t] \in Diff!Schema /\ new[t] \in Diff!Schema
      BY <2>2 DEF Diff!Surface
    <3>2. Diff!ToolChanges(old[t], new[t]) = Diff!DiffInputSchema(old[t], new[t])
      BY <2>2 DEF Diff!ToolChanges
    <3> QED BY <3>1, <3>2, SilentMeansEqual
  <2> QED BY <2>1, <2>2
<1>2. Diff!Changes(old, new) = {} <=> \A t \in Tools : Diff!ToolChanges(old[t], new[t]) = {}
  BY DEF Diff!Changes
<1>3. old = new <=> \A t \in Tools : old[t] = new[t]
  BY DEF Diff!Surface
<1> QED BY <1>1, <1>2, <1>3

\* What a schema that changed without a breaking change still understands.
LEMMA NothingBroken ==
  ASSUME NEW old \in Diff!Schema, NEW new \in Diff!Schema, ~Diff!NewEnum(old, new),
         \A c \in Diff!DiffInputSchema(old, new) : c.severity # "breaking",
         old # None, new # None, NEW request \in Diff!Calls, Diff!Understands(old, request)
  PROVE  Diff!Understands(new, request)
<1> SUFFICES ASSUME NEW p \in Props
             PROVE  IF request[p] = None THEN new[p] = None \/ ~new[p].required
                    ELSE new[p] # None /\ Diff!Accepts(new[p], request[p])
  BY DEF Diff!Understands
<1>0. IF request[p] = None THEN old[p] = None \/ ~old[p].required
      ELSE old[p] # None /\ Diff!Accepts(old[p], request[p])
  BY DEF Diff!Understands
<1>1. \A m : Diff!Change("breaking", p, m) \notin Diff!DiffInputSchema(old, new)
  BY DEF Diff!Change
<1>2. CASE old[p] = None
  <2>1. request[p] = None
    BY <1>0, <1>2
  <2>2. new[p] = None \/ ~new[p].required
    <3> SUFFICES ASSUME new[p] # None, new[p].required PROVE FALSE
      OBVIOUS
    <3>1. Diff!Change("breaking", p, "new required property added") \in Diff!Added(old, new)
      BY <1>2 DEF Diff!Added, Diff!Declared
    <3> QED BY <1>1, <3>1 DEF Diff!DiffInputSchema
  <2> QED BY <2>1, <2>2
<1>3. CASE old[p] # None /\ new[p] = None
  <2>1. Diff!Change("breaking", p, "property removed") \in Diff!Removed(old, new)
    BY <1>3 DEF Diff!Removed, Diff!Declared
  <2> QED BY <1>1, <2>1 DEF Diff!DiffInputSchema
<1>4. CASE old[p] # None /\ new[p] # None
  <2>1. p \in Diff!Declared(old) \cap Diff!Declared(new)
    BY <1>4 DEF Diff!Declared
  <2>2. old[p] \in Diff!Prop /\ new[p] \in Diff!Prop
    BY <1>4 DEF Diff!Schema
  <2>3. /\ Diff!Change("breaking", p, "type changed") \notin Diff!TypeChanges(p, old[p], new[p])
        /\ Diff!Change("breaking", p, "enum value removed") \notin Diff!EnumChanges(p, old[p], new[p])
        /\ Diff!Change("breaking", p, "became required") \notin Diff!RequiredChanges(p, old[p], new[p])
    BY <1>1, <2>1, ChangesOfProperty
  <2>4. old[p].type = new[p].type
    BY <2>3 DEF Diff!TypeChanges
  <2>5. Diff!EnumValues(old[p]) \subseteq Diff!EnumValues(new[p])
    BY <2>3 DEF Diff!EnumChanges
  <2>6. ~old[p].required => ~new[p].required
    BY <2>2, <2>3 DEF Diff!RequiredChanges, Diff!Prop
  <2>7. new[p].enum # None => old[p].enum # None
    BY <2>1 DEF Diff!NewEnum
  <2>8. \A v : Diff!Accepts(old[p], v) => Diff!Accepts(new[p], v)
    BY <2>4, <2>5, <2>7 DEF Diff!Accepts, Diff!EnumValues
  <2> QED BY <1>0, <1>4, <2>6, <2>8
<1> QED BY <1>2, <1>3, <1>4

\* A gate with any threshold that lets changes pass let no breaking one pass.
LEMMA PassedMeansUnbroken ==
  ASSUME NEW changes, NEW threshold, threshold # "none",
         Diff!Verdict(changes, threshold) \in {"clean", "pass"}
  PROVE  \A c \in changes : c.severity # "breaking"
<1> SUFFICES ASSUME NEW c \in changes, c.severity = "breaking" PROVE FALSE
  OBVIOUS
<1>1. Diff!Rank(c.severity) = 2
  BY DEF Diff!Rank
<1>2. Diff!Want(threshold) \in {0, 1, 2}
  BY DEF Diff!Want
<1>3. Diff!ThresholdMet(changes, threshold)
  BY <1>1, <1>2 DEF Diff!ThresholdMet
<1> QED BY <1>3 DEF Diff!Verdict

-----------------------------------------------------------------------------
(* The commands.                                                           *)

\* Every command starts from an honest baseline.
LEMMA InitDrift ==
  ASSUME Diff!Init
  PROVE  DriftInv
<1>1. Diff!Nothing \in Diff!Surface
  BY DEF Diff!Nothing, Diff!Surface
<1> QED BY <1>1, EditsAssumption DEF Diff!Init, DriftInv, Diff!TypeOK, ProbeIsTrue, VerdictIsCurrent

\* A page that is the last one has told the rest; another leaves a rest.
LEMMA PageDrift ==
  ASSUME DriftInv, Diff!Page
  PROVE  DriftInv'
<1> USE DEF DriftInv
<1>1. PICK page \in SUBSET left :
        LET told == [t \in Tools |-> IF t \in page THEN toolSurface[t] ELSE found[t]]
        IN  IF Diff!LastPage(page) THEN Diff!Finish(told)
            ELSE left' = left \ page /\ found' = told /\ UNCHANGED <<task, baseline, verdict>>
  BY DEF Diff!Page
<1> DEFINE told == [t \in Tools |-> IF t \in page THEN toolSurface[t] ELSE found[t]]
<1>2. UNCHANGED <<toolSurface, failOn, edits, steady>> /\ task # "idle"
  BY DEF Diff!Page
<1>3. told \in Diff!Surface
  BY DEF Diff!TypeOK, Diff!Surface
<1>4. verdict = "none"
  BY <1>2 DEF VerdictIsCurrent
<1>5. CASE Diff!LastPage(page)
  <2>1. /\ task' = "idle" /\ left' = {} /\ found' = Diff!Nothing
        /\ IF task = "update"
           THEN baseline' = told /\ UNCHANGED verdict
           ELSE verdict' = Diff!Verdict(Diff!Changes(baseline, told), failOn) /\ UNCHANGED baseline
    BY <1>1, <1>5 DEF Diff!Finish, Diff!Done
  <2>2. Diff!Nothing \in Diff!Surface
    BY DEF Diff!Nothing, Diff!Surface
  <2>3. steady => told = toolSurface
    <3>1. page = left
      BY <1>5 DEF Diff!LastPage
    <3>2. ASSUME steady PROVE \A t \in Tools : told[t] = toolSurface[t]
      BY <1>2, <3>1, <3>2 DEF ProbeIsTrue
    <3> QED BY <1>3, <3>2 DEF Diff!TypeOK, Diff!Surface
  <2>4. Diff!Verdict(Diff!Changes(baseline, told), failOn) \in {"clean", "pass", "fail"}
    BY DEF Diff!Verdict
  <2>5. Diff!TypeOK'
    <3>1. toolSurface' \in Diff!Surface /\ found' \in Diff!Surface /\ baseline' \in Diff!Surface
      BY <1>2, <1>3, <2>1, <2>2 DEF Diff!TypeOK
    <3>2. verdict' \in {"none", "clean", "pass", "fail"}
      BY <1>4, <2>1, <2>4
    <3>3. /\ task' \in {"idle", "diff", "update"} /\ failOn' \in Thresholds \cup {"none"}
          /\ left' \subseteq Tools /\ edits' \in 0 .. MaxEdits /\ steady' \in BOOLEAN
      BY <1>2, <2>1 DEF Diff!TypeOK
    <3> QED BY <3>1, <3>2, <3>3 DEF Diff!TypeOK
  <2>6. ProbeIsTrue'
    BY <2>1 DEF ProbeIsTrue
  <2>7. VerdictIsCurrent'
    <3> HIDE DEF told
    <3>1. CASE task = "update"
      BY <1>4, <2>1, <3>1 DEF VerdictIsCurrent
    <3>2. CASE task # "update"
      <4>1. verdict' = Diff!Verdict(Diff!Changes(baseline, told), failOn) /\ baseline' = baseline
        BY <2>1, <3>2
      <4>2. CASE steady
        BY <1>2, <2>1, <2>3, <4>1, <4>2 DEF VerdictIsCurrent
      <4>3. CASE ~steady
        BY <1>2, <2>1, <4>3 DEF VerdictIsCurrent
      <4> QED BY <4>2, <4>3
    <3> QED BY <3>1, <3>2
  <2> QED BY <2>5, <2>6, <2>7
<1>6. CASE ~Diff!LastPage(page)
  <2>1. left' = left \ page /\ found' = told /\ UNCHANGED <<task, baseline, verdict>>
    BY <1>1, <1>6
  <2>2. Diff!TypeOK'
    BY <1>2, <1>3, <2>1 DEF Diff!TypeOK
  <2>3. ProbeIsTrue'
    <3> SUFFICES ASSUME steady, NEW t \in Tools
                 PROVE  IF t \in left \ page THEN found'[t] = None ELSE found'[t] = toolSurface[t]
      BY <1>2, <2>1 DEF ProbeIsTrue, Diff!TypeOK
    <3>1. found'[t] = IF t \in page THEN toolSurface[t] ELSE found[t]
      BY <2>1
    <3>2. IF t \in left THEN found[t] = None ELSE found[t] = toolSurface[t]
      BY <1>2 DEF ProbeIsTrue
    <3> QED BY <3>1, <3>2
  <2> QED BY <1>2, <1>4, <2>1, <2>2, <2>3 DEF VerdictIsCurrent
<1> QED BY <1>5, <1>6

\* What the watcher of a probe relies on is kept by every step.
LEMMA NextDrift ==
  ASSUME DriftInv, [Diff!Next]_driftVars
  PROVE  DriftInv'
<1> USE DEF DriftInv
<1>n. Diff!Nothing \in Diff!Surface /\ \A t \in Tools : Diff!Nothing[t] = None
  BY DEF Diff!Nothing, Diff!Surface
<1>1. CASE Diff!Start
  <2>1. Diff!TypeOK'
    BY <1>1, <1>n DEF Diff!Start, Diff!TypeOK
  <2>2. ProbeIsTrue'
    BY <1>1, <1>n DEF Diff!Start, ProbeIsTrue
  <2> QED BY <1>1, <2>1, <2>2 DEF Diff!Start, VerdictIsCurrent
<1>2. CASE Diff!Page
  BY <1>2, PageDrift
<1>3. CASE Diff!ProbeFails
  BY <1>3, <1>n DEF Diff!ProbeFails, Diff!Done, Diff!TypeOK, ProbeIsTrue, VerdictIsCurrent
<1>4. CASE Diff!ServerChanges
  <2>1. toolSurface' \in Diff!Surface
    BY <1>4 DEF Diff!ServerChanges, Diff!TypeOK, Diff!Surface
  <2>2. edits' \in 0 .. MaxEdits
    BY <1>4, EditsAssumption DEF Diff!ServerChanges, Diff!TypeOK
  <2>3. Diff!TypeOK'
    BY <1>4, <2>1, <2>2 DEF Diff!ServerChanges, Diff!TypeOK
  <2> QED BY <1>4, <2>3 DEF Diff!ServerChanges, ProbeIsTrue, VerdictIsCurrent
<1>5. CASE UNCHANGED driftVars
  BY <1>5 DEF driftVars, Diff!TypeOK, ProbeIsTrue, VerdictIsCurrent
<1> QED BY <1>1, <1>2, <1>3, <1>4, <1>5 DEF Diff!Next

-----------------------------------------------------------------------------
\* The differ's "no drift" is exact: a verdict is "clean" exactly if the server
\* offers what the baseline holds, on all its pages.
THEOREM CleanAlwaysMeansSame == DiffSpec => []CleanMeansSame
<1>1. ASSUME DriftInv PROVE CleanMeansSame
  <2>1. Diff!Changes(baseline, toolSurface) = {} <=> baseline = toolSurface
    BY <1>1, NoChangeMeansSame DEF DriftInv, Diff!TypeOK
  <2> QED BY <1>1, <2>1 DEF DriftInv, VerdictIsCurrent, CleanMeansSame, Diff!CleanMeansSame, Diff!Verdict
<1>2. Diff!Init => DriftInv
  BY InitDrift
<1>3. DriftInv /\ [Diff!Next]_(Diff!vars) => DriftInv'
  BY NextDrift DEF Diff!vars, driftVars
<1> QED BY <1>1, <1>2, <1>3, PTL DEF DiffSpec, Diff!Spec

\* When the gate passes, with any threshold, calls made from the baseline still
\* work, unless an enum was put on a property that had none.
THEOREM GateAlwaysSound == DiffSpec => []GateIsSound
<1>1. ASSUME DriftInv, steady, Diff!Passed, NEW t \in Tools,
             baseline[t] = None \/ toolSurface[t] = None \/ ~Diff!NewEnum(baseline[t], toolSurface[t])
      PROVE  Diff!CallsSurvive(t)
  <2>1. \A c \in Diff!Changes(baseline, toolSurface) : c.severity # "breaking"
    BY <1>1, PassedMeansUnbroken DEF DriftInv, VerdictIsCurrent, Diff!Passed
  <2>2. \A c \in Diff!ToolChanges(baseline[t], toolSurface[t]) : c.severity # "breaking"
    BY <2>1 DEF Diff!Changes
  <2> SUFFICES ASSUME NEW request \in Diff!Calls, Diff!Understands(baseline[t], request)
               PROVE  Diff!Understands(toolSurface[t], request)
    BY DEF Diff!CallsSurvive
  <2>3. baseline[t] # None
    BY DEF Diff!Understands
  <2>4. toolSurface[t] # None
    <3> SUFFICES ASSUME toolSurface[t] = None PROVE FALSE
      OBVIOUS
    <3>1. Diff!Change("breaking", None, "tool removed") \in Diff!ToolChanges(baseline[t], toolSurface[t])
      BY <2>3 DEF Diff!ToolChanges
    <3> QED BY <2>2, <3>1 DEF Diff!Change
  <2>5. Diff!ToolChanges(baseline[t], toolSurface[t]) = Diff!DiffInputSchema(baseline[t], toolSurface[t])
    BY <2>3, <2>4 DEF Diff!ToolChanges
  <2>6. baseline[t] \in Diff!Schema /\ toolSurface[t] \in Diff!Schema
    BY <1>1, <2>3, <2>4 DEF DriftInv, Diff!TypeOK, Diff!Surface
  <2> QED BY <1>1, <2>2, <2>3, <2>4, <2>5, <2>6, NothingBroken
<1>2. DriftInv => GateIsSound
  BY <1>1 DEF GateIsSound, Diff!GateIsSound
<1>3. Diff!Init => DriftInv
  BY InitDrift
<1>4. DriftInv /\ [Diff!Next]_(Diff!vars) => DriftInv'
  BY NextDrift DEF Diff!vars, driftVars
<1> QED BY <1>2, <1>3, <1>4, PTL DEF DiffSpec, Diff!Spec
=============================================================================
