--------------------------- MODULE Cassette_proofs ---------------------------
(***************************************************************************)
(* Cassette for any requests, masks, servers and bounds: an update is      *)
(* whole, a verdict is true, and replay repeats the session.               *)
(*                                                                         *)
(* The three speak of the end of a command.  What leads there is an        *)
(* invariant of its loop over the entries: what verify has found is the    *)
(* drift of those it has passed (Judged); the draft of an update has new   *)
(* answers up to where it is and the file's behind (Updated); what is      *)
(* recorded is the session, masked (Recorder).  How two results compare is *)
(* a parameter; all that is used of it is AnswersAssumption.               *)
(***************************************************************************)
EXTENDS Cassette, SequenceLemmas

-----------------------------------------------------------------------------
(* Types, and what the command under way implies.                           *)

Entries == [request : Requests, response : LiveAnswers]
Pairs == [request : Asked, response : LiveAnswers]
Severity == {"breaking"} \cup UNION {Changes(a.result, b.result) : a \in LiveAnswers, b \in LiveAnswers}

Types ==
  /\ server \in Servers /\ redact \in BOOLEAN
  /\ session \in Seq(Pairs) /\ interactions \in Seq(Entries)
  /\ file \in Seq(Entries) /\ draft \in Seq(Entries) /\ at \in Nat
  /\ task \in {"record", "idle", "replay", "verify", "update"}
  /\ found \in [severities : SUBSET Severity, failed : BOOLEAN]
  /\ recorded \in BOOLEAN /\ steady \in BOOLEAN /\ allow \in BOOLEAN

\* record comes first; a verdict is of the last command; a replay server has
\* the file; what was recorded is not changed.
Tasks ==
  /\ task = "record" => file = NoFile /\ ~recorded /\ reply = {} /\ verdict = {}
  /\ task # "idle" => verdict = {}
  /\ task = "replay" => draft = file
  /\ task \in {"verify", "update"} => at # 0
  /\ recorded => file = interactions

Inv == Types /\ Tasks

\* A server's answer is one of the live ones; a masked request is a request.
LEMMA AnswerTypes ==
  /\ \A s \in Servers, r \in Requests : s[r] \in LiveAnswers
  /\ \A r \in Requests : Masked[r] \in Requests
  /\ \A r \in Asked : r \in Requests
  BY MaskAssumption DEF LiveAnswers, Asked

\* What the recorder adds is an entry of a cassette.
LEMMA InteractionTypes ==
  ASSUME NEW r \in Requests, NEW a \in LiveAnswers
  PROVE  Interaction(r, a) \in Entries
  BY AnswerTypes DEF Interaction, Entries

\* What a comparison finds is severities.
LEMMA CompareTypes ==
  \A a, b \in LiveAnswers : Compare(a, b) \subseteq Severity
  BY DEF Compare, Severity

\* When record begins there is no file yet.
LEMMA InitInv == Init => Inv
<1> SUFFICES ASSUME Init PROVE Inv
  OBVIOUS
<1>1. NothingFound \in [severities : SUBSET Severity, failed : BOOLEAN]
  BY DEF NothingFound
<1>2. <<>> \in Seq(Pairs) /\ <<>> \in Seq(Entries)
  OBVIOUS
<1>3. Types
  BY <1>1, <1>2 DEF Init, Types, NoFile
<1>4. Tasks
  BY DEF Init, Tasks
<1> QED BY <1>3, <1>4 DEF Inv

\* Each step of the commands and the server.
LEMMA NextInv ==
  ASSUME Inv, [Next]_vars
  PROVE  Inv'
<1> USE DEF Inv, Types, Tasks, serverVars, recordVars
<1>n. NothingFound \in [severities : SUBSET Severity, failed : BOOLEAN]
  BY DEF NothingFound
<1>e. <<>> \in Seq(Entries)
  OBVIOUS
<1>1. CASE Pair
  <2>1. PICK r \in Asked :
          /\ session' = Append(session, [request |-> r, response |-> server[r]])
          /\ Add(Interaction(r, server[r]))
    BY <1>1 DEF Pair
  <2>2. r \in Requests /\ server[r] \in LiveAnswers
    BY AnswerTypes
  <2>3. Interaction(r, server[r]) \in Entries /\ [request |-> r, response |-> server[r]] \in Pairs
    BY <2>2, InteractionTypes DEF Pairs
  <2>4. session' \in Seq(Pairs)
    BY <2>1, <2>3, AppendProperties
  <2>5. interactions' \in Seq(Entries)
    <3>1. interactions' = interactions \/ interactions' = Append(interactions, Interaction(r, server[r]))
      BY <2>1 DEF Add
    <3>2. interactions \in Seq(Entries)
      OBVIOUS
    <3>3. Append(interactions, Interaction(r, server[r])) \in Seq(Entries)
      BY <2>3, <3>2, AppendProperties
    <3> QED BY <3>1, <3>2, <3>3
  <2> QED BY <1>1, <2>4, <2>5 DEF Pair
<1>2. CASE RecordEnds
  BY <1>2 DEF RecordEnds
<1>3. CASE RecordKilled
  BY <1>3 DEF RecordKilled
<1>4. CASE Start
  <2>1. /\ task = "idle" /\ task' \in {"replay", "verify", "update"} /\ allow' \in BOOLEAN
        /\ draft' = file /\ at' = 1 /\ found' = NothingFound /\ verdict' = {} /\ steady' = TRUE
        /\ UNCHANGED <<serverVars, recordVars, file, recorded>>
    BY <1>4 DEF Start
  <2>2. Types'
    BY <1>n, <2>1
  <2>3. Tasks'
    BY <2>1
  <2> QED BY <2>2, <2>3
<1>5. CASE Skip
  BY <1>5 DEF Skip
<1>6. CASE VerifyCall
  <2>1. Entry \in Entries /\ at \in DOMAIN draft
    BY <1>6 DEF VerifyCall, Entry, More
  <2>2. Entry.response \in LiveAnswers /\ server[Entry.request] \in LiveAnswers
    BY <2>1, AnswerTypes DEF Entries
  <2>3. Compare(Entry.response, server[Entry.request]) \subseteq Severity
    BY <2>2, CompareTypes
  <2>4. found' \in [severities : SUBSET Severity, failed : BOOLEAN]
    BY ZenonT(40), <1>6, <2>3 DEF VerifyCall
  <2> QED BY <1>6, <2>4 DEF VerifyCall
<1>7. CASE VerifyEnds
  BY <1>7, <1>n DEF VerifyEnds, Over
<1>8. CASE UpdateCall
  <2>1. Entry \in Entries /\ at \in DOMAIN draft
    BY <1>8 DEF UpdateCall, Entry, More
  <2>2. draft' = [draft EXCEPT ![at] = [draft[at] EXCEPT !.response = server[Entry.request]]]
    BY <1>8 DEF UpdateCall, Accept
  <2>3. [draft[at] EXCEPT !.response = server[Entry.request]] \in Entries
    BY <2>1, AnswerTypes DEF Entries, Entry
  <2>4. draft' \in Seq(Entries)
    BY <2>1, <2>2, <2>3
  <2> QED BY <1>8, <2>4 DEF UpdateCall
<1>9. CASE UpdateEnds
  <2>1. Types'
    BY <1>n, <1>e, <1>9 DEF UpdateEnds, Over
  <2>2. Tasks'
    BY <1>9 DEF UpdateEnds, Over
  <2> QED BY <2>1, <2>2
<1>10. CASE Stop
  <2>1. Types'
    BY <1>n, <1>e, <1>10 DEF Stop, Over
  <2>2. Tasks'
    BY <1>10 DEF Stop, Over
  <2> QED BY <2>1, <2>2
<1>11. ASSUME NEW r \in Asked, Replay(r) PROVE Inv'
  BY <1>11 DEF Replay
<1>12. CASE ServerChanges
  BY <1>12 DEF ServerChanges
<1>13. CASE UNCHANGED vars
  BY <1>13 DEF vars
<1> QED BY <1>1, <1>2, <1>3, <1>4, <1>5, <1>6, <1>7, <1>8, <1>9, <1>10, <1>11, <1>12, <1>13 DEF Next

\* The types and the tasks hold throughout.
LEMMA InvAlways == Spec => []Inv
  BY InitInv, NextInv, PTL DEF Spec

-----------------------------------------------------------------------------
(* verify and verify --update.                                              *)

\* What of entry i a client would notice has changed.
Drifts(i) == ~Alike(file[i].response, server[file[i].request])

\* What verify has found is the drift of the entries it has passed.
Judged ==
  task = "verify" =>
    /\ draft = file
    /\ steady =>
         /\ found.severities # {} => \E i \in Reissued : i < at /\ Drifts(i)
         /\ \A i \in Reissued : i < at /\ Drifts(i) => found.severities # {} \/ found.failed

\* The draft of an update is the file with the new answers so far.
Updated ==
  task = "update" =>
    /\ DOMAIN draft = DOMAIN file
    /\ \A i \in DOMAIN file :
         /\ draft[i].request = file[i].request
         /\ i \notin Reissued \/ i >= at => draft[i] = file[i]
         /\ i \in Reissued /\ i < at /\ steady => draft[i].response = server[file[i].request]

\* Two answers compare as different exactly if a client would notice.
LEMMA CompareIsExact ==
  \A a, b \in LiveAnswers : Compare(a, b) = {} <=> Alike(a, b)
<1> SUFFICES ASSUME NEW a \in LiveAnswers, NEW b \in LiveAnswers
             PROVE  Compare(a, b) = {} <=> Alike(a, b)
  OBVIOUS
<1>1. /\ a = Failure \/ a = Result(a.result)
      /\ b = Failure \/ b = Result(b.result)
      /\ ~a.error /\ ~b.error
           => (Changes(a.result, b.result) = {} <=> Reading(a.result) = Reading(b.result))
  BY AnswersAssumption
<1>2. a.error \in BOOLEAN /\ b.error \in BOOLEAN
  <2>1. Failure.error = TRUE /\ \A v : Result(v).error = FALSE
    BY DEF Failure, Result
  <2> QED BY <1>1, <2>1
<1>3. CASE a.error # b.error
  BY <1>3 DEF Compare, Alike
<1>4. CASE a.error = b.error /\ a.error
  BY <1>4 DEF Compare, Alike
<1>5. CASE a.error = b.error /\ ~a.error
  BY <1>1, <1>2, <1>5 DEF Compare, Alike
<1> QED BY <1>2, <1>3, <1>4, <1>5

\* The entry that verify, or update, is at.
LEMMA EntryTypes ==
  ASSUME Inv, More, at # 0
  PROVE  /\ at \in DOMAIN draft /\ Entry = draft[at] /\ at \in Nat
         /\ Entry.request \in Requests /\ Entry.response \in LiveAnswers
         /\ server[Entry.request] \in LiveAnswers
<1>1. draft \in Seq(Entries) /\ at \in Nat /\ server \in Servers
  BY DEF Inv, Types
<1>2. at \in DOMAIN draft
  BY <1>1 DEF More
<1>3. Entry = draft[at] /\ Entry \in Entries
  BY <1>1, <1>2 DEF Entry
<1>4. Entry.request \in Requests /\ Entry.response \in LiveAnswers
  BY <1>3 DEF Entries
<1> QED BY <1>1, <1>2, <1>3, <1>4, AnswerTypes

\* Whatever verify re-issues, and however its calls fail, it judges what it has passed.
LEMMA NextJudged ==
  ASSUME Inv, Judged, [Next]_vars
  PROVE  Judged'
<1> USE DEF serverVars, recordVars
<1>0. at \in Nat /\ draft \in Seq(Entries) /\ file \in Seq(Entries)
  BY DEF Inv, Types
<1>1. CASE Start
  <2>1. draft' = file /\ file' = file /\ at' = 1 /\ found'.severities = {}
    BY <1>1 DEF Start, NothingFound
  <2>2. \A i \in Reissued' : ~(i < 1)
    BY <1>0, <2>1 DEF Reissued
  <2> QED BY <2>1, <2>2 DEF Judged
<1>2. ASSUME task = "verify", More, at' = at + 1,
             UNCHANGED <<serverVars, recordVars, file, task, allow, draft, steady>>,
             /\ \/ ~ShouldReissue(Entry.request.method) /\ found' = found
                \/ found' = [found EXCEPT !.severities =
                                @ \cup Compare(Entry.response, server[Entry.request])]
                   /\ ShouldReissue(Entry.request.method)
                \/ found' = [found EXCEPT !.failed = TRUE]
      PROVE  Judged'
  <2> SUFFICES ASSUME steady
               PROVE  /\ found'.severities # {} => \E i \in Reissued : i < at + 1 /\ Drifts(i)
                      /\ \A i \in Reissued : i < at + 1 /\ Drifts(i)
                           => found'.severities # {} \/ found'.failed
    BY <1>2 DEF Judged, Reissued, Drifts, ShouldReissue, Alike
  <2>1. /\ draft = file /\ task = "verify"
        /\ found.severities # {} => \E i \in Reissued : i < at /\ Drifts(i)
        /\ \A i \in Reissued : i < at /\ Drifts(i) => found.severities # {} \/ found.failed
    BY <1>2 DEF Judged
  <2>2. /\ at \in DOMAIN file /\ Entry = file[at]
        /\ Entry.response \in LiveAnswers /\ server[Entry.request] \in LiveAnswers
    BY <1>2, <2>1, EntryTypes DEF Inv, Tasks
  <2>3. \A i \in Reissued : i \in Nat /\ (i < at => i < at + 1) /\ (i < at + 1 => i < at \/ i = at)
    BY <1>0 DEF Reissued
  <2>4. found \in [severities : SUBSET Severity, failed : BOOLEAN]
    BY DEF Inv, Types
  <2>5. at < at + 1
    BY <1>0
  <2>6. CASE ~ShouldReissue(Entry.request.method) /\ found' = found
    <3>1. at \notin Reissued
      BY <2>2, <2>6 DEF Reissued
    <3> QED BY <2>1, <2>3, <2>6, <3>1
  <2>7. CASE /\ found' = [found EXCEPT !.severities =
                             @ \cup Compare(Entry.response, server[Entry.request])]
             /\ ShouldReissue(Entry.request.method)
    <3>1. /\ found'.severities = found.severities \cup Compare(Entry.response, server[Entry.request])
          /\ found'.failed = found.failed
      BY <2>4, <2>7
    <3>2. at \in Reissued
      BY <2>2, <2>7 DEF Reissued
    <3>3. Compare(Entry.response, server[Entry.request]) = {} <=> ~Drifts(at)
      BY <2>2, CompareIsExact DEF Drifts
    <3>4. ASSUME found'.severities # {} PROVE \E i \in Reissued : i < at + 1 /\ Drifts(i)
      <4>1. CASE found.severities # {}
        BY <2>1, <2>3, <4>1
      <4>2. CASE found.severities = {}
        BY <2>5, <3>1, <3>2, <3>3, <3>4, <4>2
      <4> QED BY <4>1, <4>2
    <3>5. ASSUME NEW i \in Reissued, i < at + 1, Drifts(i)
          PROVE  found'.severities # {} \/ found'.failed
      <4>1. CASE i < at
        BY <2>1, <3>1, <3>5, <4>1
      <4>2. CASE i = at
        BY <3>1, <3>3, <3>5, <4>2
      <4> QED BY <2>3, <3>5, <4>1, <4>2
    <3> QED BY <3>4, <3>5
  <2>8. CASE found' = [found EXCEPT !.failed = TRUE]
    <3>1. found'.severities = found.severities /\ found'.failed
      BY <2>4, <2>8
    <3> QED BY <2>1, <2>3, <3>1
  <2> QED BY <1>2, <2>6, <2>7, <2>8
<1>3. CASE Skip \/ VerifyCall
  <2>1. CASE task = "verify"
    BY <1>2, <1>3, <2>1 DEF Skip, VerifyCall
  <2>2. CASE task # "verify"
    BY <1>3, <2>2 DEF Skip, VerifyCall, Judged
  <2> QED BY <2>1, <2>2
<1>4. CASE ServerChanges
  BY <1>4 DEF ServerChanges, Judged
<1>5. ASSUME task' # "verify" PROVE Judged'
  BY <1>5 DEF Judged
<1>6. CASE RecordEnds \/ VerifyEnds \/ UpdateEnds \/ Stop
  <2>1. task' = "idle"
    BY <1>6 DEF RecordEnds, VerifyEnds, UpdateEnds, Stop, Over
  <2> QED BY <1>5, <2>1
<1>7. CASE Pair \/ RecordKilled \/ UpdateCall \/ \E r \in Asked : Replay(r)
  <2>1. task' \in {"record", "update", "replay"}
    BY <1>7 DEF Pair, RecordKilled, UpdateCall, Replay
  <2> QED BY <1>5, <2>1
<1>8. CASE UNCHANGED vars
  BY <1>8 DEF vars, Judged, Reissued, Drifts, ShouldReissue, Alike
<1> QED BY <1>1, <1>3, <1>4, <1>6, <1>7, <1>8 DEF Next

\* The verdict of verify is the truth about the entries it re-issued, of a server
\* that did not change meanwhile: VerdictIsTrue, for any cassette.
THEOREM VerdictAlwaysTrue == Spec => []VerdictIsTrue
<1>1. Init => Judged /\ VerdictIsTrue
  BY DEF Init, Judged, VerdictIsTrue
<1>2. Inv /\ Judged /\ VerdictIsTrue /\ [Next]_vars => VerdictIsTrue'
  <2> USE DEF serverVars, recordVars
  <2> SUFFICES ASSUME Inv, Judged, VerdictIsTrue, [Next]_vars PROVE VerdictIsTrue'
    OBVIOUS
  <2>1. CASE VerifyEnds
    <3>1. /\ task = "verify" /\ ~More /\ verdict' = {found}
          /\ UNCHANGED <<serverVars, file, allow, steady>>
      BY <2>1 DEF VerifyEnds
    <3>2. draft = file /\ \A i \in Reissued : i < at
      <4>1. draft = file /\ file \in Seq(Entries) /\ at \in Nat
        BY <3>1 DEF Judged, Inv, Types
      <4>2. \A i \in DOMAIN file : i < at
        BY <3>1, <4>1 DEF More
      <4> QED BY <4>1, <4>2 DEF Reissued
    <3>3. steady => /\ found.severities # {} => \E i \in Reissued : Drifts(i)
                    /\ \A i \in Reissued : Drifts(i) => found.severities # {} \/ found.failed
      BY <3>1, <3>2 DEF Judged
    <3> QED BY <3>1, <3>3 DEF VerdictIsTrue, Reissued, ShouldReissue, Drifts, Alike
  <2>2. CASE verdict' = {}
    BY <2>2 DEF VerdictIsTrue
  <2>3. CASE UNCHANGED <<verdict, server, file, allow, steady>>
    BY <2>3 DEF VerdictIsTrue, Reissued, ShouldReissue, Alike
  <2>4. CASE task # "idle" /\ verdict' = verdict
    BY <2>2, <2>4 DEF Inv, Tasks
  <2> QED BY <2>1, <2>2, <2>3, <2>4
      DEF Next, Pair, RecordEnds, RecordKilled, Start, Skip, VerifyCall, UpdateCall, UpdateEnds,
          Stop, Replay, ServerChanges, vars
<1> QED BY <1>1, <1>2, NextJudged, InvAlways, PTL DEF Spec

\* An update replaces the answers it has got and keeps the rest.
LEMMA NextUpdated ==
  ASSUME Inv, Updated, [Next]_vars
  PROVE  Updated'
<1> USE DEF serverVars, recordVars
<1>0. at \in Nat /\ draft \in Seq(Entries) /\ file \in Seq(Entries)
  BY DEF Inv, Types
<1>1. CASE Start
  <2>1. draft' = file /\ file' = file /\ at' = 1
    BY <1>1 DEF Start
  <2>2. \A i \in DOMAIN file : ~(i < 1)
    BY <1>0
  <2> QED BY <2>1, <2>2 DEF Updated
<1>2. CASE Skip
  <2>1. /\ ~ShouldReissue(Entry.request.method) /\ at' = at + 1 /\ More
        /\ UNCHANGED <<server, file, task, allow, draft, steady>>
    BY <1>2 DEF Skip
  <2> SUFFICES ASSUME task = "update" PROVE Updated'
    BY <2>1 DEF Updated
  <2>2. /\ at \in DOMAIN draft /\ Entry = draft[at]
    BY <2>1, EntryTypes DEF Inv, Tasks
  <2>3. at \notin Reissued
    BY <2>1, <2>2 DEF Updated, Reissued
  <2>4. \A i \in DOMAIN file : (i >= at + 1 => i >= at) /\ (i < at + 1 => i < at \/ i = at)
    BY <1>0
  <2> QED BY <2>1, <2>3, <2>4 DEF Updated, Reissued, ShouldReissue
<1>3. CASE UpdateCall
  <2>1. /\ More /\ at' = at + 1 /\ task = "update" /\ ShouldReissue(Entry.request.method)
        /\ draft' = [draft EXCEPT ![at].response = server[Entry.request]]
        /\ UNCHANGED <<server, file, task, allow, steady>>
    BY <1>3 DEF UpdateCall, Accept
  <2>2. /\ at \in DOMAIN draft /\ Entry = draft[at] /\ Entry.request \in Requests
    BY <2>1, EntryTypes DEF Inv, Tasks
  <2>3. /\ DOMAIN draft' = DOMAIN draft
        /\ \A i \in DOMAIN draft : i # at => draft'[i] = draft[i]
        /\ draft'[at] = [draft[at] EXCEPT !.response = server[Entry.request]]
    BY <1>0, <2>1, <2>2
  <2>4. draft'[at].request = draft[at].request /\ draft'[at].response = server[Entry.request]
    <3>1. draft[at] \in Entries
      BY <1>0, <2>2
    <3> QED BY <2>3, <3>1 DEF Entries
  <2>5. at \in Reissued
    BY <2>1, <2>2 DEF Updated, Reissued
  <2>6. \A i \in DOMAIN file : /\ i >= at + 1 => i >= at /\ i # at
                               /\ i < at + 1 => i < at \/ i = at
    BY <1>0
  <2>7. Reissued' = Reissued
    BY <2>1 DEF Reissued, ShouldReissue
  <2>8. ASSUME NEW i \in DOMAIN file
        PROVE  /\ draft'[i].request = file[i].request
               /\ i \notin Reissued \/ i >= at + 1 => draft'[i] = file[i]
               /\ i \in Reissued /\ i < at + 1 /\ steady => draft'[i].response = server[file[i].request]
    <3>1. CASE i = at
      <4>1. file[i].request = draft[at].request
        BY <2>1, <3>1 DEF Updated
      <4> QED BY <2>2, <2>4, <2>5, <2>6, <3>1, <4>1
    <3>2. CASE i # at
      BY <2>1, <2>3, <2>6, <3>2 DEF Updated
    <3> QED BY <3>1, <3>2
  <2> QED BY <2>1, <2>3, <2>7, <2>8 DEF Updated
<1>4. CASE ServerChanges
  BY <1>4 DEF ServerChanges, Updated, Reissued, ShouldReissue
<1>5. ASSUME task' # "update" PROVE Updated'
  BY <1>5 DEF Updated
<1>6. CASE RecordEnds \/ VerifyEnds \/ UpdateEnds \/ Stop
  <2>1. task' = "idle"
    BY <1>6 DEF RecordEnds, VerifyEnds, UpdateEnds, Stop, Over
  <2> QED BY <1>5, <2>1
<1>7. CASE Pair \/ RecordKilled \/ VerifyCall \/ \E r \in Asked : Replay(r)
  <2>1. task' \in {"record", "verify", "replay"}
    BY <1>7 DEF Pair, RecordKilled, VerifyCall, Replay
  <2> QED BY <1>5, <2>1
<1>8. CASE UNCHANGED vars
  BY <1>8 DEF vars, Updated, Reissued, ShouldReissue
<1> QED BY <1>1, <1>2, <1>3, <1>4, <1>6, <1>7, <1>8 DEF Next

\* verify --update changes the file as a whole or not at all, and only in the
\* answers it has asked for: UpdateIsWhole, for any cassette.
THEOREM UpdateAlwaysWhole == Spec => UpdateIsWhole
<1> DEFINE Whole ==
      file # NoFile /\ file' # file =>
        /\ task = "update" /\ DOMAIN file' = DOMAIN file
        /\ \A i \in DOMAIN file :
             /\ file'[i].request = file[i].request
             /\ i \notin Reissued => file'[i] = file[i]
             /\ i \in Reissued /\ steady => file'[i].response = server[file[i].request]
<1>1. Init => Updated
  BY DEF Init, Updated
<1>2. Inv /\ Updated /\ [Next]_vars => Whole
  <2> USE DEF serverVars, recordVars
  <2> SUFFICES ASSUME Inv, Updated, [Next]_vars, file # NoFile, file' # file
               PROVE  /\ task = "update" /\ DOMAIN file' = DOMAIN file
                      /\ \A i \in DOMAIN file :
                           /\ file'[i].request = file[i].request
                           /\ i \notin Reissued => file'[i] = file[i]
                           /\ i \in Reissued /\ steady => file'[i].response = server[file[i].request]
    OBVIOUS
  <2>1. RecordEnds \/ UpdateEnds
    BY DEF Next, Pair, RecordKilled, Start, Skip, VerifyCall, VerifyEnds, UpdateCall, Stop, Replay,
           ServerChanges, vars
  <2>2. ~RecordEnds
    BY DEF RecordEnds, Inv, Tasks
  <2>3. task = "update" /\ ~More /\ file' = draft
    BY <2>1, <2>2 DEF UpdateEnds
  <2>4. /\ DOMAIN draft = DOMAIN file /\ \A i \in DOMAIN file : i < at
    <3>1. DOMAIN draft = DOMAIN file
      BY <2>3 DEF Updated
    <3>2. draft \in Seq(Entries) /\ at \in Nat
      BY DEF Inv, Types
    <3>3. \A i \in DOMAIN draft : i < at
      BY <2>3, <3>2 DEF More
    <3> QED BY <3>1, <3>3
  <2> QED BY <2>3, <2>4 DEF Updated
<1>3. Spec => [][Whole]_vars
  <2> HIDE DEF Whole
  <2> QED BY <1>1, <1>2, NextUpdated, InvAlways, PTL DEF Spec
<1> QED BY <1>3 DEF UpdateIsWhole

-----------------------------------------------------------------------------
(* replay.                                                                  *)

\* The interactions are those of the session.
Recorder ==
  /\ \A p \in Range(session) : Interaction(p.request, p.response) \in Range(interactions)
  /\ \A it \in Range(interactions) :
       \E p \in Range(session) : it = Interaction(p.request, p.response)

\* What is appended is added to what a sequence has.
LEMMA RangeAppend ==
  ASSUME NEW S, NEW s \in Seq(S), NEW x \in S
  PROVE  Range(Append(s, x)) = Range(s) \cup {x}
<1> DEFINE t == Append(s, x)
<1>1. /\ DOMAIN t = DOMAIN s \cup {Len(s) + 1} /\ t[Len(s) + 1] = x
      /\ \A i \in DOMAIN s : t[i] = s[i]
  OBVIOUS
<1> HIDE DEF t
<1>2. Range(t) = Range(s) \cup {x}
  BY <1>1 DEF Range
<1> QED BY <1>2 DEF t

\* A pair is added unless it is there; a record that is killed forgets both.
LEMMA NextRecorder ==
  ASSUME Inv, Recorder, [Next]_vars
  PROVE  Recorder'
<1> USE DEF serverVars, recordVars
<1>1. CASE Pair
  <2>1. PICK r \in Asked :
          /\ session' = Append(session, [request |-> r, response |-> server[r]])
          /\ Add(Interaction(r, server[r]))
    BY <1>1 DEF Pair
  <2> DEFINE q == [request |-> r, response |-> server[r]]
             it == Interaction(r, server[r])
  <2>2. q \in Pairs /\ it \in Entries /\ session \in Seq(Pairs) /\ interactions \in Seq(Entries)
        /\ redact' = redact
    BY <1>1, AnswerTypes, InteractionTypes DEF Inv, Types, Pairs, Pair
  <2>3. q.request = r /\ q.response = server[r]
    OBVIOUS
  <2> HIDE DEF q
  <2>4. Range(session') = Range(session) \cup {q}
    BY <2>1, <2>2, RangeAppend DEF q
  <2>5. Range(interactions') = Range(interactions) \cup {it}
    <3>1. CASE it \in Range(interactions)
      BY <2>1, <3>1 DEF Add
    <3>2. CASE it \notin Range(interactions)
      BY ZenonT(40), <2>1, <2>2, <3>2, RangeAppend DEF Add
    <3> QED BY <3>1, <3>2
  <2>6. it = Interaction(q.request, q.response)
    BY <2>3
  <2> HIDE DEF it
  <2>7. \A p : Interaction(p.request, p.response)' = Interaction(p.request, p.response)
    BY <2>2 DEF Interaction
  <2> QED BY <2>4, <2>5, <2>6, <2>7 DEF Recorder
<1>2. CASE RecordKilled
  <2>1. Range(session') = {} /\ Range(interactions') = {}
    BY <1>2 DEF RecordKilled, Range
  <2> QED BY <2>1 DEF Recorder
<1>3. CASE UNCHANGED <<session, interactions, redact>>
  BY <1>3 DEF Recorder, Interaction
<1> QED BY <1>1, <1>2, <1>3
    DEF Next, RecordEnds, Start, Skip, VerifyCall, VerifyEnds, UpdateCall, UpdateEnds, Stop, Replay,
        ServerChanges, vars

\* Of some entries there is a last one.
LEMMA LastOne ==
  ASSUME NEW n \in Nat, NEW K \in SUBSET (1 .. n), K # {}
  PROVE  \E m \in K : \A k \in K : k <= m
<1> DEFINE HasLast(N) == \A J \in SUBSET (1 .. N) : J # {} => \E m \in J : \A k \in J : k <= m
           S == {N \in Nat : HasLast(N)}
<1>1. 0 \in S
  <2>1. 1 .. 0 = {}
    OBVIOUS
  <2> QED BY <2>1
<1>2. ASSUME NEW N \in S PROVE N + 1 \in S
  <2>1. ASSUME NEW J \in SUBSET (1 .. N + 1), J # {}
        PROVE  \E m \in J : \A k \in J : k <= m
    <3>1. CASE N + 1 \in J
      BY <3>1
    <3>2. CASE N + 1 \notin J
      <4>1. J \in SUBSET (1 .. N)
        BY <3>2
      <4> QED BY <2>1, <4>1
    <3> QED BY <3>1, <3>2
  <2> QED BY <2>1
<1>3. S = Nat
  <2>1. S \in SUBSET Nat /\ \A N \in S : N + 1 \in S
    BY <1>2
  <2> HIDE DEF S
  <2> QED BY <1>1, <2>1, SetInduction
<1> QED BY <1>3

\* The key index finds an entry if there is one with the request, and only such.
LEMMA ByKeyFinds ==
  ASSUME NEW c \in Seq(Entries), NEW r
  PROVE  /\ (\E i \in DOMAIN c : c[i].request = r) => ByKey(c, r) # {}
         /\ \A i \in ByKey(c, r) : i \in DOMAIN c /\ c[i].request = r
<1>1. ASSUME \E i \in DOMAIN c : c[i].request = r PROVE ByKey(c, r) # {}
  <2> DEFINE K == {i \in DOMAIN c : c[i].request = r}
  <2>1. K \in SUBSET (1 .. Len(c)) /\ K # {} /\ Len(c) \in Nat
    BY <1>1
  <2>2. PICK m \in K : \A k \in K : k <= m
    <3> HIDE DEF K
    <3> QED BY <2>1, LastOne
  <2>3. m \in ByKey(c, r)
    BY <2>2 DEF ByKey, SameKey
  <2> QED BY <2>3
<1> QED BY <1>1 DEF ByKey, SameKey

\* The method index finds an entry if it is the only one with its method.
LEMMA MethodFinds ==
  ASSUME NEW c \in Seq(Entries), NEW m, NEW i \in PickMethodOnly(c, m)
  PROVE  i \in DOMAIN c /\ \A j \in DOMAIN c : c[j].request.method = m => j = i
<1> DEFINE L == ByMethod(c, m)
<1>1. L \subseteq DOMAIN c /\ \A j \in DOMAIN c : c[j].request.method = m => j \in L
  BY DEF ByMethod
<1>2. IsFiniteSet(L)
  <2>1. IsFiniteSet(1 .. Len(c)) /\ L \in SUBSET (1 .. Len(c))
    BY <1>1, FS_Interval
  <2> QED BY <2>1, FS_Subset
<1>3. i \in L /\ Cardinality(L) = 1
  BY DEF PickMethodOnly
<1> HIDE DEF L
<1>4. \E x : L = {x}
  BY <1>2, <1>3, FS_Singleton
<1> QED BY <1>1, <1>3, <1>4

\* What replay answers from the cassette as it was recorded.
LEMMA AnswerIsOwn ==
  ASSUME Inv, Recorder, NEW r \in Asked, Answers(r) # {}
  PROVE  \/ MatchRequest(interactions, r) \in Answers(r)
         \/ redact /\ Masked[r] # r /\ MatchRequest(interactions, r) = NotRecorded
<1> DEFINE c == interactions
<1>t. /\ c \in Seq(Entries) /\ session \in Seq(Pairs) /\ redact \in BOOLEAN
      /\ Range(c) = {c[i] : i \in DOMAIN c} /\ r \in Requests
  BY AnswerTypes DEF Inv, Types, Range
<1>1. PICK p \in Range(session) : p.request = r
  BY DEF Answers
<1>2. PICK k \in DOMAIN c : c[k] = Interaction(r, p.response)
  BY <1>1, <1>t DEF Recorder
<1>3. ASSUME NEW i \in DOMAIN c
      PROVE  \E q \in Range(session) : c[i] = Interaction(q.request, q.response) /\ q.request \in Requests
  <2>1. PICK q \in Range(session) : c[i] = Interaction(q.request, q.response)
    BY <1>t DEF Recorder
  <2>2. q \in Pairs
    BY <1>t DEF Range
  <2> QED BY <2>1, <2>2, AnswerTypes DEF Pairs
<1>4. \A x, a : /\ Interaction(x, a).request = IF redact THEN Masked[x] ELSE x
                /\ Interaction(x, a).response = a
  BY DEF Interaction
<1>5. \A q \in Range(session) : q.request = r => q.response \in Answers(r)
  BY DEF Answers
<1>6. CASE ~redact \/ Masked[r] = r
  <2>1. c[k].request = r
    BY <1>2, <1>4, <1>6
  <2>2. ByKey(c, r) # {}
    BY <1>t, <2>1, ByKeyFinds
  <2> DEFINE i == CHOOSE j \in ByKey(c, r) : TRUE
  <2>3. i \in ByKey(c, r)
    BY <2>2
  <2>4. MatchRequest(c, r) = c[i].response
    BY <2>2 DEF MatchRequest
  <2> HIDE DEF i
  <2>5. i \in DOMAIN c /\ c[i].request = r
    BY <1>t, <2>3, ByKeyFinds
  <2>6. PICK q \in Range(session) : c[i] = Interaction(q.request, q.response) /\ q.request \in Requests
    BY <1>3, <2>5
  <2>7. q.request = r
    <3>1. CASE ~redact
      BY <1>4, <2>5, <2>6, <3>1
    <3>2. CASE redact
      <4>1. Masked[q.request] = r
        BY <1>4, <2>5, <2>6, <3>2
      <4> QED BY <1>6, <2>6, <3>2, <4>1 DEF Asked
    <3> QED BY <1>t, <3>1, <3>2
  <2>8. c[i].response = q.response
    BY <1>4, <2>6
  <2> QED BY <1>5, <2>4, <2>7, <2>8
<1>7. CASE redact /\ Masked[r] # r
  <2>1. ByKey(c, r) = {}
    <3> SUFFICES ASSUME NEW i \in ByKey(c, r) PROVE FALSE
      OBVIOUS
    <3>1. i \in DOMAIN c /\ c[i].request = r
      BY <1>t, ByKeyFinds
    <3>2. PICK q \in Range(session) : c[i] = Interaction(q.request, q.response) /\ q.request \in Requests
      BY <1>3, <3>1
    <3>3. Masked[q.request] = r
      BY <1>4, <1>7, <3>1, <3>2
    <3> QED BY <1>7, <3>2, <3>3, MaskAssumption
  <2> DEFINE P == PickMethodOnly(c, r.method)
  <2>2. MatchRequest(c, r) = IF P = {} THEN NotRecorded ELSE c[CHOOSE j \in P : TRUE].response
    BY <2>1 DEF MatchRequest
  <2>3. CASE P = {}
    BY <1>7, <2>2, <2>3
  <2>4. CASE P # {}
    <3> DEFINE i == CHOOSE j \in P : TRUE
    <3>1. i \in P /\ MatchRequest(c, r) = c[i].response
      BY <2>2, <2>4
    <3> HIDE DEF i
    <3>2. c[k].request.method = r.method
      BY <1>t, <1>2, <1>4, <1>7, MaskAssumption
    <3>3. k = i
      BY <1>t, <3>1, <3>2, MethodFinds
    <3> QED BY <1>1, <1>2, <1>4, <1>5, <3>1, <3>3
  <2> QED BY <2>3, <2>4
<1> QED BY <1>t, <1>6, <1>7

\* What was recorded is replayed, masked credentials apart: ReplayRepeatsSession,
\* for any session and any mask that masks what is masked no further.
THEOREM ReplayAlwaysRepeats == Spec => []ReplayRepeatsSession
<1>1. Init => Recorder /\ ReplayRepeatsSession
  BY DEF Init, Recorder, ReplayRepeatsSession, Range
<1>2. Inv /\ Recorder /\ ReplayRepeatsSession /\ [Next]_vars => ReplayRepeatsSession'
  <2> USE DEF serverVars, recordVars
  <2> SUFFICES ASSUME Inv, Recorder, ReplayRepeatsSession, [Next]_vars, recorded'
               PROVE  ReplayRepeatsSession'
    BY DEF ReplayRepeatsSession
  <2>1. ASSUME NEW r \in Asked, Replay(r) PROVE ReplayRepeatsSession'
    <3>1. /\ recorded /\ task = "replay" /\ UNCHANGED <<session, redact>>
          /\ reply' = {[request |-> r, response |-> MatchRequest(draft, r)]}
      BY <2>1 DEF Replay
    <3>2. draft = interactions
      BY <3>1 DEF Inv, Tasks
    <3>3. \/ Answers(r) = {} \/ MatchRequest(draft, r) \in Answers(r)
          \/ redact /\ Masked[r] # r /\ MatchRequest(draft, r) = NotRecorded
      BY <3>2, AnswerIsOwn
    <3>4. Answers(r)' = Answers(r)
      BY <3>1 DEF Answers
    <3> QED BY <3>1, <3>3, <3>4 DEF ReplayRepeatsSession
  <2>2. CASE reply' = {}
    BY <2>2 DEF ReplayRepeatsSession
  <2>3. CASE UNCHANGED <<reply, recorded, session, redact>>
    BY <2>3 DEF ReplayRepeatsSession, Answers
  <2>4. CASE task = "record" /\ UNCHANGED reply
    BY <2>2, <2>4 DEF Inv, Tasks
  <2>5. ~UpdateEnds
    BY DEF UpdateEnds
  <2> QED BY <2>1, <2>2, <2>3, <2>4, <2>5
      DEF Next, Pair, RecordEnds, RecordKilled, Start, Skip, VerifyCall, VerifyEnds, UpdateCall,
          Stop, ServerChanges, vars
<1> QED BY <1>1, <1>2, NextRecorder, InvAlways, PTL DEF Spec
=============================================================================
