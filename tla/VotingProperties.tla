-------------------------- MODULE VotingProperties --------------------------
(***************************************************************************)
(* What must hold of the terminals of OnlineVotingApp and of the database  *)
(* they share, however their steps interleave, whichever of them crash and *)
(* whenever their connections die.                                         *)
(***************************************************************************)
EXTENDS OnlineVotingApp

HasRole(id, role) == \E u \in users : u.id = id /\ u.role = role

\* The role whose menu code is running at l.
RoleAt(l) ==
    IF l \in VotePcs \cup {"apply_voter"} THEN "VOTER"
    ELSE IF l = "apply_candidate" THEN "CANDIDATE"
    ELSE l

VoterApproved(user) ==
    \E a \in approvals : a.table = "voter_profiles" /\ a.user = user

ApprovedByAdmin(user) ==
    \E a \in approvals :
        a.table = "candidate_profiles" /\ a.user = user /\ a.by = "ADMIN"

-----------------------------------------------------------------------------

\* No voter has two votes, although the check for an earlier vote and the
\* INSERT are separate statements and one account may be in castVote() at
\* several terminals at once.  (Project documentation, One-Vote Enforcement.)
OneVotePerVoter ==
    \A v, w \in votes : v.voter_id = w.voter_id => v = w

\* Every vote stored is from a voter account whose application was approved
\* and for a candidate account that an administrator approved, no matter how
\* old the answers castVote() relied on were when it stored the vote.  In
\* particular nobody votes for himself.
BallotIntegrity ==
    \A v \in votes :
        /\ HasRole(v.voter_id, "VOTER") /\ VoterApproved(v.voter_id)
        /\ HasRole(v.candidate_id, "CANDIDATE") /\ ApprovedByAdmin(v.candidate_id)

\* "Vote cast successfully!" is never printed in vain: the vote is stored, for
\* the candidate validated, and stays so after crashes and later attempts.
ReceiptsHonoured ==
    \A r \in receipts :
        \E v \in votes : v.voter_id = r.voter /\ v.candidate_id = r.candidate

\* The role menu a terminal is in is the role its account has in the database
\* now: login() reads it once and nothing may change it under the session.
SessionMatchesAccount ==
    \A t \in Terminals :
        IF pc[t] \in {"off", "main"} THEN uid[t] = 0
        ELSE HasRole(uid[t], RoleAt(pc[t]))

\* A username and password never match two accounts, so the row login() takes
\* first is the only one, although the column compares without regard to case.
LoginUnambiguous ==
    \A username \in Usernames, password \in Passwords :
        \A u, v \in LoginMatches(username, password) : u = v

\* An account has at most one application, in the table of its own role, even
\* when it applies at two terminals that both passed the guard; and the id that
\* approveReject() asks for names one application.
OneEach(profiles) ==
    \A p, q \in profiles : p.user_id = q.user_id \/ p.id = q.id => p = q

ApplicationsWellFormed ==
    /\ OneEach(voter_profiles)
    /\ OneEach(candidate_profiles)
    /\ \A p \in voter_profiles : HasRole(p.user_id, "VOTER")
    /\ \A p \in candidate_profiles : HasRole(p.user_id, "CANDIDATE")

\* Whoever viewApprovedCandidates() lists was approved by an administrator:
\* officers "cannot touch candidates".
BallotListApprovedByAdmin ==
    \A p \in candidate_profiles : p.status = "APPROVED" => ApprovedByAdmin(p.user_id)

-----------------------------------------------------------------------------
(***************************************************************************)
(* The inductive invariant behind these: what makes them true step by      *)
(* step.  Accounts are told apart by id and by name; an approval in the    *)
(* history is of an account with the right role, and a candidate's by an   *)
(* administrator; an application now approved has such an approval; and a  *)
(* terminal inside castVote() has seen one for the voter and, once it is   *)
(* about to store the vote, for the candidate.                             *)
(***************************************************************************)
AccountsDistinct ==
    \A u, v \in users :
        u.id = v.id \/ Collate[u.username] = Collate[v.username] => u = v

ApprovalsSound ==
    \A a \in approvals :
        \/ a.table = "voter_profiles" /\ HasRole(a.user, "VOTER")
        \/ /\ a.table = "candidate_profiles" /\ a.by = "ADMIN"
           /\ HasRole(a.user, "CANDIDATE")

ApprovedVotersRecorded ==
    \A p \in voter_profiles : p.status = "APPROVED" => VoterApproved(p.user_id)

CastVoteSaw ==
    \A t \in Terminals :
        /\ pc[t] \in VotePcs => VoterApproved(uid[t])
        /\ pc[t] = "vote_insert" => ApprovedByAdmin(cand[t])

DataInv ==
    /\ AccountsDistinct
    /\ ApplicationsWellFormed
    /\ ApprovalsSound
    /\ ApprovedVotersRecorded
    /\ BallotListApprovedByAdmin
    /\ BallotIntegrity
    /\ OneVotePerVoter
    /\ ReceiptsHonoured

IInv == TypeOK /\ DataInv /\ SessionMatchesAccount /\ CastVoteSaw

-----------------------------------------------------------------------------

\* A vote stored is never changed or removed.
VotesFinal == [][votes \subseteq votes']_vars

\* An application keeps its id and owner for good, and once decided it is never
\* pending again: an applicant who was refused cannot start over.
Kept(profiles, profilesNext) ==
    \A p \in profiles : \E q \in profilesNext :
        /\ q.id = p.id /\ q.user_id = p.user_id
        /\ p.status # "PENDING" => q.status # "PENDING"

ApplicationsKept ==
    [][/\ Kept(voter_profiles, voter_profiles')
       /\ Kept(candidate_profiles, candidate_profiles')]_vars

\* Rule 1 of castVote(): when a vote is stored, the Voter ID is approved.
VoterApprovedAtInsert ==
    [][\A v \in votes' \ votes : IsApproved(voter_profiles, v.voter_id)]_vars

\* Rule 3 of castVote(): when a vote is stored, its candidate is approved.
CandidateApprovedAtInsert ==
    [][\A v \in votes' \ votes : IsApproved(candidate_profiles, v.candidate_id)]_vars

(***************************************************************************)
(* Two terminals may break these two rules.  A poll that is held so that   *)
(* nobody loses an approval while somebody is in castVote() keeps them.    *)
(***************************************************************************)
StaysApproved(profiles, profilesNext) ==
    \A id \in Ids("users") : IsApproved(profiles, id) => IsApproved(profilesNext, id)

WithdrawalsPause ==
    (\E t \in Terminals : pc[t] \in VotePcs)
        => /\ StaysApproved(voter_profiles, voter_profiles')
           /\ StaysApproved(candidate_profiles, candidate_profiles')

PausedSpec == Init /\ [][Next /\ WithdrawalsPause]_vars

\* The loser of a race for a vote, or a voter whose connection died, is not left
\* hanging in castVote(): its statements come back to the menu or the prompt.
CastVoteReturns ==
    \A t \in Terminals :
        pc[t] \in {"vote_check", "vote_insert"}
            ~> pc[t] \in {"VOTER", "vote_prompt", "off"}

-----------------------------------------------------------------------------
(***************************************************************************)
(* The terminals together implement the abstract election.                 *)
(***************************************************************************)
Electorate == {id \in Ids("users") : VoterApproved(id)}
Slate == {id \in Ids("users") :
            \E a \in approvals : a.table = "candidate_profiles" /\ a.user = id}
Box == {[voter |-> v.voter_id, candidate |-> v.candidate_id] : v \in votes}

Abstract == INSTANCE Election WITH
    Person <- Ids("users"), electorate <- Electorate, slate <- Slate, box <- Box

\* Every step of every terminal is a step of the election or changes nothing of
\* it: approvals only admit, storing a vote is the moment of casting it.
ImplementsElection == Abstract!Spec

\* So its promises are the program's: in particular nobody gets approved both as
\* a voter and as a candidate, by registering a name again or otherwise.
ElectionPromises == Abstract!Promises
=============================================================================
