----------------------------- MODULE MCCassette -----------------------------
(***************************************************************************)
(* Cassette and Shapes for TLC: a behaviour is the life of a cassette with *)
(* a few answers, or one comparison of any two small values.               *)
(***************************************************************************)
EXTENDS Cassette, Shapes

\* The handshake, a list, a call without and one with a credential, and that
\* call with its credential masked.
Req(method, params) == [method |-> method, params |-> params]
Hello  == Req("initialize", "none")
List   == Req("tools/list", "none")
Plain  == Req("tools/call", "plain")
Secret == Req("tools/call", "secret")
Masque == Req("tools/call", "***REDACTED***")
MCRequests == {Hello, List, Plain, Secret, Masque}
MCMasked == [r \in MCRequests |-> IF r = Secret THEN Masque ELSE r]

\* Answers: an object, the same with a field less, an error.
Full == Result(Object([f \in {"a", "b"} |-> Leaf("string")]))
Less == Result(Object([f \in {"a"} |-> Leaf("string")]))
MCServers ==
  {s \in [MCRequests -> {Full, Less, Failure}] :
     s[Hello] = Full /\ s[List] # Failure /\ s[Masque] # Less}

MCChanges(a, b) == Severities(ResultChanges(a, b))
MCReading(v) == Reads(<<>>, v, 0)

\* Values of two levels, by which MAX_DEPTH is reached too.
Leaves == {Leaf(t) : t \in {"null", "string", "number"}}
Low == Leaves \cup {Array(s) : s \in UNION {[1 .. n -> Leaves] : n \in 0 .. 2}}
              \cup {Object(f) : f \in UNION {[F -> Leaves] : F \in SUBSET {"a", "b"}}}
Values == Low \cup {Array(<<v>>) : v \in Low}
              \cup {Object([f \in {"a"} |-> v]) : v \in Low}
              \cup {Object([f \in {"a", "b"} |-> IF f = "a" THEN v ELSE Null]) : v \in Low}

VARIABLES what, old, new     \* which of the two; the values compared

LifeInit == what = "life" /\ old = Null /\ new = Null /\ Init
PairInit == /\ what = "shapes" /\ old \in Values /\ new = Null
            /\ Init /\ redact = FALSE /\ server = CHOOSE s \in Servers : TRUE

Observe == new = Null /\ new' \in Values /\ UNCHANGED <<what, old, vars>>

MCSpec ==
  /\ LifeInit \/ PairInit
  /\ [][\/ what = "life" /\ Next /\ UNCHANGED <<what, old, new>>
        \/ what = "shapes" /\ Observe]_<<what, old, new, vars>>

LossIsReported == what = "shapes" => LossesAreReported(old, new)
=============================================================================
