------------------------------ MODULE Election ------------------------------
(***************************************************************************)
(* What the polling system promises, without menus, statements or crashes: *)
(* an electorate and a slate that only grow by approval and never overlap, *)
(* and a ballot box that takes at most one ballot from each member of the  *)
(* electorate, for a member of the slate, and never gives one back.        *)
(***************************************************************************)
CONSTANT Person

VARIABLES
    electorate,  \* people whose Voter ID application has been approved
    slate,       \* people whose candidacy has been approved
    box          \* the ballots cast

vars == <<electorate, slate, box>>

Ballot == [voter : Person, candidate : Person]

Init ==
    /\ electorate = {}
    /\ slate = {}
    /\ box = {}

AdmitVoter(v) ==
    /\ v \notin slate
    /\ electorate' = electorate \cup {v}
    /\ UNCHANGED <<slate, box>>

AdmitCandidate(c) ==
    /\ c \notin electorate
    /\ slate' = slate \cup {c}
    /\ UNCHANGED <<electorate, box>>

Cast(v, c) ==
    /\ v \in electorate
    /\ c \in slate
    /\ \A b \in box : b.voter # v
    /\ box' = box \cup {[voter |-> v, candidate |-> c]}
    /\ UNCHANGED <<electorate, slate>>

Next ==
    \/ \E v \in Person : AdmitVoter(v)
    \/ \E c \in Person : AdmitCandidate(c)
    \/ \E v, c \in Person : Cast(v, c)

Spec == Init /\ [][Next]_vars

-----------------------------------------------------------------------------

\* What voters and candidates may rely on: nobody is on both sides, so that
\* nobody can vote for himself; every ballot is of a member of the electorate for
\* a member of the slate; and nobody has two.
Promises ==
    /\ electorate \cap slate = {}
    /\ \A b \in box : b.voter \in electorate /\ b.candidate \in slate
    /\ \A a, b \in box : a.voter = b.voter => a = b
=============================================================================
