------------------------------ MODULE Cassette ------------------------------
(***************************************************************************)
(* The life of a cassette (src/cassette.ts, src/verify.ts): record writes  *)
(* it from a session, replay serves it to clients, verify compares it with *)
(* the live server and verify --update takes the server's answers over.    *)
(* The server may change at any time; calls to it may fail, and a command  *)
(* may be killed.                                                          *)
(*                                                                         *)
(* The recorder is given pairs of a request and its own answer             *)
(* (StdioProxy!CassetteIsComplete).  Results hold no credentials, requests *)
(* may.  Every entry of the file has a response: parseCassette does not    *)
(* ask for one, and replay would drop the requests an entry without one    *)
(* matches.                                                                *)
(***************************************************************************)
EXTENDS Integers, FiniteSets, SequencesExt

CONSTANTS
  Requests,     \* records with a method and params (absent and null are one)
  ReadOnly,     \* READ_ONLY_METHODS
  Masked,       \* what redactValue makes of a request
  Servers,      \* the servers there may be: functions from requests to answers
  Changes(_, _), \* the severities diffShape finds between the shapes of two results
  Reading(_),   \* what a consumer can read from a result (Shapes!Reads)
  MaxSession,   \* bound: pairs recorded
  MaxEdits      \* bound: times the server changes

Unverifiable == {"initialize", "notifications"}

Failure   == [error |-> TRUE]
Result(v) == [error |-> FALSE, result |-> v]
NotRecorded == [error |-> TRUE, code |-> -32601]
NoFile == <<>>

\* What record is given: a client does not write the mask itself.
Asked == {r \in Requests : Masked[r] = r => \A q \in Requests : Masked[q] = r => q = r}

ASSUME MaskAssumption ==
  /\ Masked \in [Requests -> Requests]
  /\ \A r \in Requests : Masked[Masked[r]] = Masked[r] /\ Masked[r].method = r.method
\* The server's answers.  diffShape reports something exactly if a consumer can
\* read something else (Shapes!LossesAreReported).
LiveAnswers == UNION {{s[r] : r \in Requests} : s \in Servers}
ASSUME AnswersAssumption ==
  \A a, b \in LiveAnswers :
    /\ a = Failure \/ a = Result(a.result)
    /\ ~a.error /\ ~b.error
         => (Changes(a.result, b.result) = {} <=> Reading(a.result) = Reading(b.result))
ASSUME BoundsAssumption == MaxSession \in Nat /\ MaxEdits \in Nat

VARIABLES
  server,       \* what the live server answers
  redact,       \* record runs without --no-redact
  session,      \* the pairs the recorder was given
  interactions, \* CassetteRecorder.interactions
  file,         \* the interactions in the cassette file
  recorded,     \* the file is as record wrote it
  task,         \* the command under way, "idle" between two
  allow,        \* its --allow-tool-calls
  draft,        \* the cassette in its memory
  at,           \* the entry it is at
  found,        \* VerifyResult: severities of changes, and whether a call failed
  verdict,      \* {what the last verify found}, {} once something changed
  reply,        \* {replay's last answer, with its request}, or {}
  edits,        \* how often the server has changed
  steady        \* it has not since the command began

serverVars == <<server, edits>>
recordVars == <<redact, session, interactions>>
vars == <<serverVars, recordVars, file, recorded, task, allow, draft, at, found,
          verdict, reply, steady>>

NothingFound == [severities |-> {}, failed |-> FALSE]

Init ==
  /\ server \in Servers /\ edits = 0
  /\ redact \in BOOLEAN /\ session = <<>> /\ interactions = <<>>
  /\ file = NoFile /\ recorded = FALSE
  /\ task = "record" /\ allow = FALSE /\ draft = <<>> /\ at = 0 /\ found = NothingFound
  /\ verdict = {} /\ reply = {}
  /\ steady = TRUE

-----------------------------------------------------------------------------
(* record.                                                                 *)

Interaction(r, answer) == [request |-> IF redact THEN Masked[r] ELSE r, response |-> answer]

\* CassetteRecorder.add: an interaction equal to an earlier one is dropped.
Add(it) == IF it \in Range(interactions) THEN UNCHANGED interactions
           ELSE interactions' = Append(interactions, it)

Pair ==
  /\ task = "record" /\ Len(session) < MaxSession
  /\ \E r \in Asked :
       /\ session' = Append(session, [request |-> r, response |-> server[r]])
       /\ Add(Interaction(r, server[r]))
  /\ UNCHANGED <<serverVars, redact, file, recorded, task, allow, draft, at, found,
                 verdict, reply, steady>>

\* The wrapped server has ended: the cassette is written.
RecordEnds ==
  /\ task = "record"
  /\ task' = "idle"
  /\ file' = interactions /\ recorded' = TRUE
  /\ UNCHANGED <<serverVars, recordVars, allow, draft, at, found, verdict, reply,
                 steady>>

\* record is killed before: nothing is left of the session, and it is run anew.
RecordKilled ==
  /\ task = "record"
  /\ session' = <<>> /\ interactions' = <<>>
  /\ UNCHANGED <<serverVars, redact, file, recorded, task, allow, draft, at, found,
                 verdict, reply, steady>>

-----------------------------------------------------------------------------
(* replay.                                                                 *)

SameKey_Method(it, r) == it.request.method = r.method            \* mutant
SameKey(it, r) == it.request = r
\* byKey.set: of two entries with one key the later stays.
ByKey(cassette, r) == {i \in DOMAIN cassette :
                         /\ SameKey(cassette[i], r)
                         /\ \A j \in DOMAIN cassette : SameKey(cassette[j], r) => j <= i}
ByMethod(cassette, method) == {i \in DOMAIN cassette : cassette[i].request.method = method}

PickMethodOnly(cassette, method) ==
  LET list == ByMethod(cassette, method) IN IF Cardinality(list) = 1 THEN list ELSE {}

MatchRequest(cassette, r) ==
  LET chosen == IF ByKey(cassette, r) # {} THEN ByKey(cassette, r)
                ELSE PickMethodOnly(cassette, r.method)
  IN  IF chosen = {} THEN NotRecorded ELSE cassette[CHOOSE i \in chosen : TRUE].response

\* The replay server answers a request; its index is of the file it was
\* started with, which other commands leave alone meanwhile.
Replay(r) ==
  /\ task = "replay"
  /\ reply' = {[request |-> r, response |-> MatchRequest(draft, r)]}
  /\ UNCHANGED <<serverVars, recordVars, file, recorded, task, allow, draft, at,
                 found, verdict, steady>>

-----------------------------------------------------------------------------
(* verify and verify --update.                                             *)

\* A command reads the file; verify and update also start a server and
\* initialize it.
Start ==
  /\ task = "idle"
  /\ task' \in {"replay", "verify", "update"}
  /\ allow' \in (IF task' = "replay" THEN {FALSE} ELSE BOOLEAN)
  /\ draft' = file /\ at' = 1 /\ found' = NothingFound
  /\ verdict' = {} /\ reply' = {} /\ steady' = TRUE
  /\ UNCHANGED <<serverVars, recordVars, file, recorded>>

IsVerifiable(method) == method \notin Unverifiable
ShouldReissue(method) == IsVerifiable(method) /\ (allow \/ method \in ReadOnly)

Entry == draft[at]
More  == at <= Len(draft)

\* Entries that are not re-issued are passed over (and listed as skipped).
Skip ==
  /\ task \in {"verify", "update"} /\ More /\ ~ShouldReissue(Entry.request.method)
  /\ at' = at + 1
  /\ UNCHANGED <<serverVars, recordVars, file, recorded, task, allow, draft, found,
                 verdict, reply, steady>>

Compare_ResultsOnly(old, live) ==                                \* mutant
  IF old.error \/ live.error THEN {} ELSE Changes(old.result, live.result)
\* An error for a result, or a result for an error, is breaking; two errors
\* are not compared.
Compare(old, live) ==
  IF old.error # live.error THEN {"breaking"}
  ELSE IF old.error THEN {} ELSE Changes(old.result, live.result)

\* A re-issued request is answered, or fails (timeout, the server's end).
VerifyCall ==
  /\ task = "verify" /\ More /\ ShouldReissue(Entry.request.method)
  /\ at' = at + 1
  /\ \/ found' = [found EXCEPT !.severities =
                    @ \cup Compare(Entry.response, server[Entry.request])]
     \/ found' = [found EXCEPT !.failed = TRUE]
  /\ UNCHANGED <<serverVars, recordVars, file, recorded, task, allow, draft, verdict,
                 reply, steady>>

Over == task' = "idle" /\ draft' = <<>> /\ at' = 0 /\ found' = NothingFound

VerifyEnds ==
  /\ task = "verify" /\ ~More
  /\ verdict' = {found}
  /\ Over
  /\ UNCHANGED <<serverVars, recordVars, file, recorded, allow, reply, steady>>

Accept_ResultsOnly(old, live) == IF live.error THEN old ELSE live  \* mutant
\* What an entry holds once the server has answered it again.
Accept(old, live) == live

UpdateCall ==
  /\ task = "update" /\ More /\ ShouldReissue(Entry.request.method)
  /\ at' = at + 1
  /\ draft' = [draft EXCEPT ![at].response = Accept(@, server[Entry.request])]
  /\ UNCHANGED <<serverVars, recordVars, file, recorded, task, allow, found, verdict,
                 reply, steady>>

UpdateEnds ==
  /\ task = "update" /\ ~More
  /\ file' = draft /\ recorded' = FALSE
  /\ Over /\ allow' = FALSE
  /\ UNCHANGED <<serverVars, recordVars, verdict, reply, steady>>

\* A call of update fails, initialize does, the replay server's client leaves,
\* or a command is killed: the file stays as it is.
Stop ==
  /\ task \in {"replay", "verify", "update"}
  /\ Over /\ allow' = FALSE
  /\ UNCHANGED <<serverVars, recordVars, file, recorded, verdict, reply, steady>>

-----------------------------------------------------------------------------
ServerChanges ==
  /\ edits < MaxEdits /\ edits' = edits + 1
  /\ \E s \in Servers, r \in Requests :
       /\ server # s /\ s = [server EXCEPT ![r] = s[r]]
       /\ server' = s
  /\ steady' = FALSE /\ verdict' = {}
  /\ UNCHANGED <<recordVars, file, recorded, task, allow, draft, at, found, reply>>

Next == \/ Pair \/ RecordEnds \/ RecordKilled
        \/ Start \/ Skip \/ VerifyCall \/ VerifyEnds \/ UpdateCall \/ UpdateEnds \/ Stop
        \/ \E r \in Asked : Replay(r)
        \/ ServerChanges

Spec == Init /\ [][Next]_vars

-----------------------------------------------------------------------------
Answers(r) == {p.response : p \in {q \in Range(session) : q.request = r}}

\* What was recorded is replayed: a request of the session gets an answer it
\* got there, never another request's; and it always does, if it was
\* written as the client asked it.  Redaction may make it "not recorded", or
\* one with another request's key.
ReplayRepeatsSession ==
  recorded => \A p \in reply :
    \/ Answers(p.request) = {}
    \/ p.response \in Answers(p.request)
    \/ redact /\ Masked[p.request] # p.request /\ p.response = NotRecorded

Reissued == {i \in DOMAIN file : ShouldReissue(file[i].request.method)}

\* What a client would notice between two answers.
Alike(old, live) ==
  /\ old.error = live.error
  /\ old.error \/ Reading(old.result) = Reading(live.result)

\* A verdict on a server that did not change meanwhile is the truth about the
\* entries re-issued: no drift is found exactly where there is none, wherever in
\* the cassette, and a call that failed is never taken for one that agreed.
VerdictIsTrue ==
  steady => \A v \in verdict :
    LET drifted == {i \in Reissued : ~Alike(file[i].response, server[file[i].request])}
    IN  /\ v.severities # {} => drifted # {}
        /\ drifted # {} => v.severities # {} \/ v.failed

\* The file changes only as a whole: the requests stay, every entry that is
\* re-issued has the server's answer of this update, the others their own.
UpdateIsWhole ==
  [][file # NoFile /\ file' # file =>
       /\ task = "update" /\ DOMAIN file' = DOMAIN file
       /\ \A i \in DOMAIN file :
            /\ file'[i].request = file[i].request
            /\ i \notin Reissued => file'[i] = file[i]
            /\ i \in Reissued /\ steady => file'[i].response = server[file[i].request]]_vars
=============================================================================
