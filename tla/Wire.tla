-------------------------------- MODULE Wire --------------------------------
(***************************************************************************)
(* What mcpgaze promises of one direction of the protocol: a plain pipe.   *)
(* Messages arrive in the order they were sent, none invented, none twice, *)
(* none altered.  The pipe may break, and what is in flight then is lost.  *)
(* A client wired straight to a server through an OS pipe has exactly this *)
(* behaviour; the proxies are shown to implement it in both directions.    *)
(***************************************************************************)
EXTENDS Naturals, Sequences

CONSTANT Msg            \* whatever may be written to the pipe

VARIABLES sent,         \* every message written to the pipe, in order
          got,          \* every message the other end has read, in order
          up            \* the pipe is intact

vars == <<sent, got, up>>

Init == /\ sent = <<>>
        /\ got = <<>>
        /\ up = TRUE

Send == /\ up
        /\ \E m \in Msg : sent' = Append(sent, m)
        /\ UNCHANGED <<got, up>>

Deliver == /\ up
           /\ Len(got) < Len(sent)
           /\ got' = Append(got, sent[Len(got) + 1])
           /\ UNCHANGED <<sent, up>>

Break == /\ up
         /\ up' = FALSE
         /\ UNCHANGED <<sent, got>>

Next == Send \/ Deliver \/ Break

Spec == Init /\ [][Next]_vars
=============================================================================
