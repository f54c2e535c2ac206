--------------------------- MODULE PairwiseQueues ---------------------------
(***************************************************************************)
(* What a crossbar promises: between every source and every destination    *)
(* there is a queue.  A step accepts some values, each from a source for a *)
(* destination, and delivers some, each the oldest of its queue.           *)
(***************************************************************************)
EXTENDS Naturals, Sequences

CONSTANTS Sources, Dests, Flits

VARIABLES owed,      \* what was accepted and not yet delivered
          accepted,  \* what the last step accepted and delivered:
          delivered  \* sets of <<source, destination, flit>>

vars == <<owed, accepted, delivered>>

Transfers == Sources \X Dests \X Flits

Init == /\ owed = [s \in Sources |-> [d \in Dests |-> <<>>]]
        /\ accepted = {}
        /\ delivered = {}

Next ==
    /\ accepted' \subseteq Transfers
    /\ delivered' \subseteq Transfers
    /\ owed' \in [Sources -> [Dests -> Seq(Flits)]]
    /\ \A s \in Sources, d \in Dests :
          LET in == {f \in Flits : <<s, d, f>> \in accepted'}
              out == {f \in Flits : <<s, d, f>> \in delivered'}
              q == owed[s][d]
          IN  /\ out # {} => q # <<>> /\ out = {Head(q)}
              /\ LET rest == IF out = {} THEN q ELSE Tail(q)
                 IN  \/ in = {} /\ owed'[s][d] = rest
                     \/ \E f \in in : in = {f} /\ owed'[s][d] = Append(rest, f)

Spec == Init /\ [][Next]_vars
=============================================================================
