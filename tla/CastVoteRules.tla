---------------------------- MODULE CastVoteRules ---------------------------
(***************************************************************************)
(* When the rules of castVote() hold as its comment states them.  Between  *)
(* the statement that reads an approval and the INSERT that relies on it   *)
(* the approval can only be lost by a decision at another terminal, so the *)
(* rules hold while such decisions pause, and with one terminal always.    *)
(***************************************************************************)
EXTENDS VotingRefinement

\* What castVote() read is still so.
StillApproved(t) ==
    /\ pc[t] \in VotePcs => IsApproved(voter_profiles, uid[t])
    /\ pc[t] = "vote_insert" => IsApproved(candidate_profiles, cand[t])

\* Only accounts are approved.
LEMMA ApprovedIds ==
    ASSUME TypeOK, NEW id,
           IsApproved(voter_profiles, id) \/ IsApproved(candidate_profiles, id)
    PROVE  id \in Ids("users")
BY DEF TypeOK, IsApproved, ProfileRow

\* A terminal that does not move keeps what it read.
LEMMA StillApprovedThere ==
    ASSUME TypeOK, WithdrawalsPause, NEW s \in Terminals, StillApproved(s),
           pc'[s] = pc[s], uid'[s] = uid[s], cand'[s] = cand[s]
    PROVE  StillApproved(s)'
<1>1. CASE pc[s] \notin VotePcs
  BY <1>1 DEF StillApproved, VotePcs
<1>2. CASE pc[s] \in VotePcs
  <2>1. /\ StaysApproved(voter_profiles, voter_profiles')
        /\ StaysApproved(candidate_profiles, candidate_profiles')
    BY <1>2 DEF WithdrawalsPause
  <2>2. IsApproved(voter_profiles, uid[s]) => IsApproved(voter_profiles', uid[s])
    BY <2>1, ApprovedIds DEF StaysApproved
  <2>3. IsApproved(candidate_profiles, cand[s]) => IsApproved(candidate_profiles', cand[s])
    BY <2>1, ApprovedIds DEF StaysApproved
  <2>4. QED
    BY <2>2, <2>3 DEF StillApproved, IsApproved
<1>3. QED
  BY <1>1, <1>2

\* The terminal that moves reads anew, goes on with what it read, or is not in
\* castVote() afterwards.  While it is in there it decides nothing.
LEMMA StillApprovedHere ==
    ASSUME TypeOK, NEW t \in Terminals, StillApproved(t), main(t) \/ Session(t)
    PROVE  StillApproved(t)'
<1> USE DEF StillApproved, IsApproved, Goto, tables, terminal, history
<1>0. /\ pc \in [Terminals -> Pcs] /\ uid \in [Terminals -> Ids("users") \cup {0}]
      /\ cand \in [Terminals -> Ids("users") \cup {0}]
  BY DEF TypeOK
<1>1. CASE main(t) \/ Exit(t) \/ Crash(t) \/ Logout(t) \/ register(t)
  BY <1>0, <1>1 DEF main, Exit, Crash, Halt, Logout, register, VotePcs
<1>2. CASE Disconnect(t)
  BY <1>2 DEF Disconnect
<1>3. CASE login(t)
  <2>1. PICK u \in users : pc' = [pc EXCEPT ![t] = u.role]
    BY <1>3 DEF login, LoginMatches
  <2>2. u.role \in Roles
    BY <2>1 DEF TypeOK, UserRow
  <2>3. QED
    BY <1>0, <2>1, <2>2 DEF VotePcs, Roles
<1>4. CASE applyVoterID(t) \/ applyCandidate(t) \/ applyVoterID_insert(t) \/ applyCandidate_insert(t)
  BY <1>0, <1>4 DEF applyVoterID, applyCandidate, applyVoterID_insert,
                    applyCandidate_insert, VotePcs
<1>5. CASE approveReject(t)
  BY <1>5 DEF approveReject, DecidesOn, VotePcs
<1>6. CASE castVote(t) \/ castVote_voted(t)
  BY <1>0, <1>6 DEF castVote, castVote_voted, VotePcs
<1>7. CASE castVote_validate(t)
  BY <1>0, <1>7 DEF castVote_validate, VotePcs
<1>8. CASE castVote_insert(t)
  BY <1>0, <1>8 DEF castVote_insert, VotePcs
<1>9. QED
  BY <1>1, <1>2, <1>3, <1>4, <1>5, <1>6, <1>7, <1>8 DEF Session

LEMMA StillApprovedStep ==
    ASSUME TypeOK, \A t \in Terminals : StillApproved(t), [Next /\ WithdrawalsPause]_vars
    PROVE  \A t \in Terminals : StillApproved(t)'
<1>1. CASE UNCHANGED vars
  BY <1>1 DEF StillApproved, IsApproved, vars, tables, terminal
<1>2. CASE Next /\ WithdrawalsPause
  <2>1. PICK t \in Terminals : main(t) \/ Session(t)
    BY <1>2 DEF Next
  <2>2. StillApproved(t)'
    BY <2>1, StillApprovedHere
  <2>3. ASSUME NEW s \in Terminals, s # t PROVE StillApproved(s)'
    <3>1. pc'[s] = pc[s] /\ uid'[s] = uid[s] /\ cand'[s] = cand[s]
      BY <2>1, <2>3, OthersStay
    <3>2. QED
      BY <1>2, <3>1, StillApprovedThere
  <2>4. QED
    BY <2>2, <2>3
<1>3. QED
  BY <1>1, <1>2

\* A vote is only stored by castVote(), for the account and the candidate it has.
LEMMA VoteStoredBy ==
    ASSUME TypeOK, [Next]_vars, NEW v \in votes' \ votes
    PROVE  \E t \in Terminals :
              pc[t] = "vote_insert" /\ v.voter_id = uid[t] /\ v.candidate_id = cand[t]
<1>1. PICK t \in Terminals : pc[t] = "vote_insert" /\ StoresVote(t)
  BY StepKinds
<1>2. QED
  BY <1>1 DEF StoresVote

LEMMA RulesHoldPaused == PausedSpec => VoterApprovedAtInsert /\ CandidateApprovedAtInsert
<1> DEFINE Still == \A t \in Terminals : StillApproved(t)
           PausedNext == Next /\ WithdrawalsPause
           Voter == \A v \in votes' \ votes : IsApproved(voter_profiles, v.voter_id)
           Candidate == \A v \in votes' \ votes : IsApproved(candidate_profiles, v.candidate_id)
<1>1. Init => TypeOK /\ Still
  BY DEF Init, TypeOK, Pcs, StillApproved, VotePcs
<1>2. TypeOK /\ Still /\ [PausedNext]_vars => TypeOK' /\ Still'
  BY TypeOKStep, StillApprovedStep
<1>3. TypeOK /\ Still /\ [PausedNext]_vars => [Voter]_vars /\ [Candidate]_vars
  BY VoteStoredBy DEF StillApproved, VotePcs
<1>4. QED
  BY <1>1, <1>2, <1>3, PTL
     DEF PausedSpec, VoterApprovedAtInsert, CandidateApprovedAtInsert

\* Rule 1 of castVote() holds when the vote is stored, at any number of terminals,
\* if nobody loses an approval while somebody votes.
THEOREM VoterRulePaused == PausedSpec => VoterApprovedAtInsert
BY RulesHoldPaused, PTL

\* Rule 3 of castVote() holds when the vote is stored, at any number of terminals,
\* if nobody loses an approval while somebody votes.
THEOREM CandidateRulePaused == PausedSpec => CandidateApprovedAtInsert
BY RulesHoldPaused, PTL

-----------------------------------------------------------------------------

\* With one terminal decisions pause by themselves: whoever is in castVote() is at
\* no menu that decides.
LEMMA AloneIsPaused ==
    ASSUME NEW t, Terminals = {t}
    PROVE  Spec => PausedSpec
<1>1. TypeOK /\ [Next]_vars => [Next /\ WithdrawalsPause]_vars
  <2> SUFFICES ASSUME TypeOK, Next, pc[t] \in VotePcs
               PROVE  UNCHANGED <<voter_profiles, candidate_profiles>>
    BY DEF WithdrawalsPause, StaysApproved
  <2> QED
    BY DEF Next, Session, main, Exit, Crash, Halt, Disconnect, register, login, Logout,
           applyVoterID, applyVoterID_insert, applyCandidate, applyCandidate_insert,
           approveReject, DecidesOn, castVote, castVote_voted, castVote_validate,
           castVote_insert, VotePcs, tables
<1>2. QED
  BY <1>1, TypeCorrect, PTL DEF Spec, PausedSpec

\* At a single terminal both rules hold as the comment of castVote() has them.
THEOREM RulesHoldAlone ==
    ASSUME NEW t, Terminals = {t}
    PROVE  Spec => VoterApprovedAtInsert /\ CandidateApprovedAtInsert
BY AloneIsPaused, RulesHoldPaused, PTL
=============================================================================
