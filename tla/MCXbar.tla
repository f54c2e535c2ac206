------------------------------- MODULE MCXbar -------------------------------
(* Two sources and two destinations under two kinds of traffic, one of them in *)
(* a behaviour: both sources send to the last destination only, or the last   *)
(* source alone sends to both at once, as the response multiplexer does.      *)
EXTENDS Xbar

VARIABLE traffic
all_vars == <<traffic, vars>>

LastSource == {NumSrc - 1}
LastDest == {NumDest - 1}

Merge == {valid \in [Sources -> SUBSET Dests] : \A s \in Sources : valid[s] \subseteq LastDest}
Cast  == {valid \in [Sources -> SUBSET Dests] : \A s \in Sources \ LastSource : valid[s] = {}}

\* Who is valid for whom, and who is ready: nothing reaches the first destination
\* of a merge, so nobody looks at its ready.
Inputs == IF traffic = "merge" THEN Merge \X SUBSET LastDest ELSE Cast \X SUBSET Dests

MCInit == Init /\ traffic \in {"merge", "cast"}

MCNext == \E i \in Inputs : Edge(i[1], i[2]) /\ UNCHANGED traffic

MCDeliver(d) == \E i \in Inputs :
                    handedOut(d, i[2]) # {} /\ Edge(i[1], i[2]) /\ UNCHANGED traffic

\* The fairness that Xbar states.
MCSpec == /\ MCInit /\ [][MCNext]_all_vars
          /\ WF_all_vars(MCNext)
          /\ \A d \in Dests : WF_all_vars(MCDeliver(d))
=============================================================================
