-------------------------- MODULE VotingRefinement --------------------------
(***************************************************************************)
(* What a step of OnlineVotingApp may never do, and the proof that the     *)
(* terminals together implement Election.                                  *)
(***************************************************************************)
EXTENDS VotingProofs

-----------------------------------------------------------------------------
(***************************************************************************)
(* What a step does to the votes and to the approvals: nothing, or it      *)
(* stores castVote()'s vote, or it records what approveReject() approved.  *)
(***************************************************************************)
StoresVote(t) ==
    \E row \in VoteRow :
        /\ votes' = votes \cup {row}
        /\ row.voter_id = uid[t] /\ row.candidate_id = cand[t]
        /\ \A v \in votes : v.voter_id # uid[t]

Decides(t) ==
    \E id, status :
        \/ approvals' = approvals \cup
              Approved(t, "voter_profiles", voter_profiles, id, status)
        \/ approvals' = approvals \cup
              Approved(t, "candidate_profiles", candidate_profiles, id, status)

\* Every step is one of the three.
LEMMA StepKinds ==
    ASSUME TypeOK, [Next]_vars
    PROVE  \/ UNCHANGED <<votes, approvals>>
           \/ \E t \in Terminals :
                 pc[t] = "vote_insert" /\ StoresVote(t) /\ UNCHANGED approvals
           \/ \E t \in Terminals : Decides(t) /\ UNCHANGED votes
<1> DEFINE Quiet == UNCHANGED <<votes, approvals>>
<1> USE DEF tables, terminal, history
<1>1. ASSUME NEW t \in Terminals,
             \/ main(t) \/ Exit(t) \/ Crash(t) \/ Disconnect(t)
             \/ register(t) \/ login(t) \/ Logout(t)
             \/ applyVoterID(t) \/ applyVoterID_insert(t)
             \/ applyCandidate(t) \/ applyCandidate_insert(t)
             \/ castVote(t) \/ castVote_voted(t) \/ castVote_validate(t)
      PROVE  Quiet
  BY <1>1 DEF main, Exit, Crash, Halt, Disconnect, register, login, Logout,
              applyVoterID, applyVoterID_insert, applyCandidate,
              applyCandidate_insert, castVote, castVote_voted, castVote_validate
<1>2. ASSUME NEW t \in Terminals, approveReject(t)
      PROVE  Decides(t) /\ UNCHANGED votes
  BY <1>2 DEF approveReject, Decides
<1>3. ASSUME NEW t \in Terminals, castVote_insert(t)
      PROVE  \/ Quiet
             \/ pc[t] = "vote_insert" /\ StoresVote(t) /\ UNCHANGED approvals
  <2>1. users \in SUBSET UserRow /\ votes \in SUBSET VoteRow
    BY DEF TypeOK
  <2>2. CASE votes' \in InsertVote(users, votes, uid[t], cand[t])
    <3>1. StoresVote(t)
      BY <2>1, <2>2, InsertVoteAddsOne DEF StoresVote
    <3>2. QED
      BY <1>3, <3>1 DEF castVote_insert
  <2>3. QED
    BY <1>3, <2>2 DEF castVote_insert
<1>4. CASE UNCHANGED vars
  BY <1>4 DEF vars
<1>5. QED
  BY <1>1, <1>2, <1>3, <1>4 DEF Next, Session

\* A vote stored is there for good.
THEOREM VotesStand == Spec => VotesFinal
<1>1. TypeOK /\ [Next]_vars => [votes \subseteq votes']_vars
  BY StepKinds DEF StoresVote
<1>2. QED
  BY <1>1, TypeCorrect, PTL DEF Spec, VotesFinal

\* The UPDATE of approveReject() keeps every application, and leaves none pending
\* that was decided.
LEMMA SetStatusKeeps ==
    ASSUME NEW table, NEW ps \in SUBSET ProfileRow(table),
           NEW id, NEW action \in {"APPROVE", "REJECT"}
    PROVE  Kept(ps, SetStatus(ps, id, StatusFor(action)))
<1>1. StatusFor(action) \in Statuses /\ StatusFor(action) # "PENDING"
  BY DEF StatusFor, Statuses
<1> SUFFICES ASSUME NEW p \in ps
             PROVE  \E q \in SetStatus(ps, id, StatusFor(action)) :
                       /\ q.id = p.id /\ q.user_id = p.user_id
                       /\ p.status # "PENDING" => q.status # "PENDING"
  BY DEF Kept
<1>2. PICK q \in SetStatus(ps, id, StatusFor(action)) :
         /\ q.id = p.id /\ q.user_id = p.user_id
         /\ q.status = IF p.id = id THEN StatusFor(action) ELSE p.status
  BY <1>1, SetStatusTo
<1>3. QED
  BY <1>1, <1>2

\* What every step does to the applications there are.
LEMMA ApplicationsStep ==
    ASSUME TypeOK, Next
    PROVE  Kept(voter_profiles, voter_profiles') /\ Kept(candidate_profiles, candidate_profiles')
<1> DEFINE AllKept == /\ Kept(voter_profiles, voter_profiles')
                      /\ Kept(candidate_profiles, candidate_profiles')
<1> USE DEF tables, terminal, history
<1>1. /\ voter_profiles \in SUBSET ProfileRow("voter_profiles")
      /\ candidate_profiles \in SUBSET ProfileRow("candidate_profiles")
      /\ users \in SUBSET UserRow
  BY DEF TypeOK
<1>2. \A ps, qs : ps \subseteq qs => Kept(ps, qs)
  BY DEF Kept
<1>3. ASSUME NEW s \in Terminals,
             \/ main(s) \/ Exit(s) \/ Crash(s) \/ Disconnect(s)
             \/ register(s) \/ login(s) \/ Logout(s)
             \/ applyVoterID(s) \/ applyCandidate(s)
             \/ castVote(s) \/ castVote_voted(s)
             \/ castVote_validate(s) \/ castVote_insert(s)
      PROVE  AllKept
  <2>1. UNCHANGED <<voter_profiles, candidate_profiles>>
    BY <1>3 DEF main, Exit, Crash, Halt, Disconnect, register, login, Logout,
                applyVoterID, applyCandidate, castVote, castVote_voted,
                castVote_validate, castVote_insert
  <2>2. QED
    BY <1>2, <2>1
<1>4. ASSUME NEW s \in Terminals, applyVoterID_insert(s) PROVE AllKept
  <2>1. voter_profiles \subseteq voter_profiles' /\ UNCHANGED candidate_profiles
    BY <1>1, <1>4, InsertProfileAddsOne DEF applyVoterID_insert, Tables
  <2>2. QED
    BY <1>2, <2>1
<1>5. ASSUME NEW s \in Terminals, applyCandidate_insert(s) PROVE AllKept
  <2>1. candidate_profiles \subseteq candidate_profiles' /\ UNCHANGED voter_profiles
    BY <1>1, <1>5, InsertProfileAddsOne DEF applyCandidate_insert, Tables
  <2>2. QED
    BY <1>2, <2>1
<1>6. ASSUME NEW s \in Terminals, approveReject(s) PROVE AllKept
  <2>1. \A id : \A action \in {"APPROVE", "REJECT"} :
           /\ Kept(voter_profiles,
                   SetStatus(voter_profiles, id, StatusFor(action)))
           /\ Kept(candidate_profiles,
                   SetStatus(candidate_profiles, id, StatusFor(action)))
    BY <1>1, SetStatusKeeps
  <2>2. QED
    BY <1>2, <1>6, <2>1 DEF approveReject
<1>7. QED
  BY <1>3, <1>4, <1>5, <1>6 DEF Next, Session

\* No application disappears, changes hands or becomes pending again: applying a
\* second time, or deciding a second time, never starts one over.
THEOREM ApplicationsStand == Spec => ApplicationsKept
<1>1. TypeOK /\ [Next]_vars => [/\ Kept(voter_profiles, voter_profiles')
                                /\ Kept(candidate_profiles, candidate_profiles')]_vars
  BY ApplicationsStep
<1>2. QED
  BY <1>1, TypeCorrect, PTL DEF Spec, ApplicationsKept

-----------------------------------------------------------------------------

\* The electorate holds those with an approved Voter ID application, all of them
\* voters; the slate those an administrator approved, all of them candidates;
\* nobody is in both.
LEMMA ElectorateAndSlate ==
    ASSUME IInv
    PROVE  /\ \A id : id \in Electorate <=> VoterApproved(id)
           /\ \A id : id \in Slate <=> ApprovedByAdmin(id)
           /\ \A id : ~(HasRole(id, "VOTER") /\ HasRole(id, "CANDIDATE"))
           /\ \A id \in Electorate : HasRole(id, "VOTER")
           /\ \A id \in Slate : HasRole(id, "CANDIDATE")
<1>1. \A id : id \in Electorate <=> VoterApproved(id)
  BY DEF Electorate, VoterApproved, IInv, TypeOK, Approval
<1>2. ApprovalsSound /\ AccountsDistinct
  BY DEF IInv, DataInv
<1>3. \A id : id \in Slate <=> ApprovedByAdmin(id)
  BY <1>2 DEF Slate, ApprovedByAdmin, ApprovalsSound, IInv, TypeOK, Approval
<1>4. \A id : ~(HasRole(id, "VOTER") /\ HasRole(id, "CANDIDATE"))
  BY <1>2 DEF HasRole, AccountsDistinct
<1>5. \A id \in Electorate : HasRole(id, "VOTER")
  BY <1>2 DEF Electorate, VoterApproved, ApprovalsSound
<1>6. \A id \in Slate : HasRole(id, "CANDIDATE")
  BY <1>2 DEF Slate, ApprovalsSound
<1>7. QED
  BY <1>1, <1>3, <1>4, <1>5, <1>6

\* What approveReject() adds to the history is nothing, or one person: the owner
\* of the application with the id.
LEMMA ApprovedOne ==
    ASSUME NEW t, NEW table, NEW ps, OneEach(ps), NEW id, NEW status
    PROVE  \/ Approved(t, table, ps, id, status) = {}
           \/ \E p \in ps : Approved(t, table, ps, id, status) =
                 {[table |-> table, user |-> p.user_id, by |-> pc[t]]}
<1>1. CASE \E p \in ps : p.id = id /\ status = "APPROVED"
  <2>1. PICK p \in ps : p.id = id /\ status = "APPROVED"
    BY <1>1
  <2>2. {q \in ps : q.id = id /\ status = "APPROVED"} = {p}
    BY <2>1 DEF OneEach
  <2>3. QED
    BY <2>2 DEF Approved
<1>2. CASE ~\E p \in ps : p.id = id /\ status = "APPROVED"
  BY <1>2 DEF Approved
<1>3. QED
  BY <1>1, <1>2

\* Storing a vote is casting a ballot.
LEMMA StoringCasts ==
    ASSUME IInv, NEW t \in Terminals, pc[t] = "vote_insert",
           StoresVote(t), UNCHANGED approvals
    PROVE  Abstract!Next
<1>1. PICK row \in VoteRow :
         /\ votes' = votes \cup {row}
         /\ row.voter_id = uid[t] /\ row.candidate_id = cand[t]
         /\ \A v \in votes : v.voter_id # uid[t]
  BY DEF StoresVote
<1>2. uid[t] \in Ids("users") /\ cand[t] \in Ids("users")
  BY <1>1 DEF VoteRow
<1>3. uid[t] \in Electorate /\ cand[t] \in Slate
  BY ElectorateAndSlate DEF IInv, CastVoteSaw, VotePcs
<1>4. \A b \in Box : b.voter # uid[t]
  BY <1>1 DEF Box
<1>5. Box' = Box \cup {[voter |-> uid[t], candidate |-> cand[t]]}
  BY <1>1 DEF Box
<1>6. UNCHANGED <<Electorate, Slate>>
  BY DEF Electorate, Slate, VoterApproved
<1>7. Abstract!Cast(uid[t], cand[t])
  BY <1>3, <1>4, <1>5, <1>6 DEF Abstract!Cast
<1>8. QED
  BY <1>2, <1>7 DEF Abstract!Next

\* Deciding admits a voter, or a candidate, or nobody.
LEMMA DecidingAdmits ==
    ASSUME IInv, NEW t \in Terminals, Decides(t), UNCHANGED votes
    PROVE  Abstract!Next \/ UNCHANGED Abstract!vars
<1>1. UNCHANGED Box
  BY DEF Box
<1>2. OneEach(voter_profiles) /\ OneEach(candidate_profiles)
  BY DEF IInv, DataInv, ApplicationsWellFormed
<1>3. CASE approvals' = approvals
  BY <1>1, <1>3 DEF Abstract!vars, Electorate, Slate, VoterApproved
<1>4. CASE \E p \in voter_profiles :
              approvals' = approvals \cup
                 {[table |-> "voter_profiles", user |-> p.user_id, by |-> pc[t]]}
  <2>1. PICK p \in voter_profiles :
           approvals' = approvals \cup
              {[table |-> "voter_profiles", user |-> p.user_id, by |-> pc[t]]}
    BY <1>4
  <2>2. p.user_id \in Ids("users") /\ HasRole(p.user_id, "VOTER")
    BY DEF IInv, TypeOK, ProfileRow, DataInv, ApplicationsWellFormed
  <2>3. p.user_id \notin Slate
    BY <2>2, ElectorateAndSlate
  <2>4. Electorate' = Electorate \cup {p.user_id} /\ UNCHANGED Slate
    <3> DEFINE new == [table |-> "voter_profiles", user |-> p.user_id, by |-> pc[t]]
    <3>1. new.table = "voter_profiles" /\ new.user = p.user_id
      OBVIOUS
    <3>2. approvals' = approvals \cup {new}
      BY <2>1
    <3> HIDE DEF new
    <3>3. \A id : /\ id \in Electorate' <=> id \in Electorate \/ id = p.user_id
                  /\ id \in Slate' <=> id \in Slate
      BY <2>2, <3>1, <3>2 DEF Electorate, Slate, VoterApproved
    <3>4. QED
      BY <3>3
  <2>5. Abstract!AdmitVoter(p.user_id)
    BY <1>1, <2>3, <2>4 DEF Abstract!AdmitVoter
  <2>6. QED
    BY <2>2, <2>5 DEF Abstract!Next
<1>5. CASE \E p \in candidate_profiles :
              approvals' = approvals \cup
                 {[table |-> "candidate_profiles", user |-> p.user_id, by |-> pc[t]]}
  <2>1. PICK p \in candidate_profiles :
           approvals' = approvals \cup
              {[table |-> "candidate_profiles", user |-> p.user_id, by |-> pc[t]]}
    BY <1>5
  <2>2. p.user_id \in Ids("users") /\ HasRole(p.user_id, "CANDIDATE")
    BY DEF IInv, TypeOK, ProfileRow, DataInv, ApplicationsWellFormed
  <2>3. p.user_id \notin Electorate
    BY <2>2, ElectorateAndSlate
  <2>4. Slate' = Slate \cup {p.user_id} /\ UNCHANGED Electorate
    <3> DEFINE new == [table |-> "candidate_profiles", user |-> p.user_id, by |-> pc[t]]
    <3>1. new.table = "candidate_profiles" /\ new.user = p.user_id
      OBVIOUS
    <3>2. approvals' = approvals \cup {new}
      BY <2>1
    <3> HIDE DEF new
    <3>3. \A id : /\ id \in Slate' <=> id \in Slate \/ id = p.user_id
                  /\ id \in Electorate' <=> id \in Electorate
      BY <2>2, <3>1, <3>2 DEF Electorate, Slate, VoterApproved
    <3>4. QED
      BY <3>3
  <2>5. Abstract!AdmitCandidate(p.user_id)
    BY <1>1, <2>3, <2>4 DEF Abstract!AdmitCandidate
  <2>6. QED
    BY <2>2, <2>5 DEF Abstract!Next
<1>6. \/ approvals' = approvals
      \/ \E p \in voter_profiles :
            approvals' = approvals \cup
               {[table |-> "voter_profiles", user |-> p.user_id, by |-> pc[t]]}
      \/ \E p \in candidate_profiles :
            approvals' = approvals \cup
               {[table |-> "candidate_profiles", user |-> p.user_id, by |-> pc[t]]}
  <2>1. PICK id, status :
           \/ approvals' = approvals \cup
                 Approved(t, "voter_profiles", voter_profiles, id, status)
           \/ approvals' = approvals \cup
                 Approved(t, "candidate_profiles", candidate_profiles, id, status)
    BY DEF Decides
  <2>2. \/ Approved(t, "voter_profiles", voter_profiles, id, status) = {}
        \/ \E p \in voter_profiles :
              Approved(t, "voter_profiles", voter_profiles, id, status) =
                 {[table |-> "voter_profiles", user |-> p.user_id, by |-> pc[t]]}
    BY <1>2, ApprovedOne
  <2>3. \/ Approved(t, "candidate_profiles", candidate_profiles, id, status) = {}
        \/ \E p \in candidate_profiles :
              Approved(t, "candidate_profiles", candidate_profiles, id, status) =
                 {[table |-> "candidate_profiles", user |-> p.user_id, by |-> pc[t]]}
    BY <1>2, ApprovedOne
  <2>4. QED
    BY <2>1, <2>2, <2>3
<1>7. QED
  BY <1>3, <1>4, <1>5, <1>6

\* Whatever the terminals do, crashes, races and lost answers included, is an
\* election: approvals admit, storing a vote casts it, nothing else shows.
THEOREM Refinement == Spec => ImplementsElection
<1>1. Init => Abstract!Init
  BY DEF Init, Abstract!Init, Electorate, Slate, Box, VoterApproved
<1>2. IInv /\ [Next]_vars => [Abstract!Next]_(Abstract!vars)
  <2> SUFFICES ASSUME IInv, [Next]_vars PROVE [Abstract!Next]_(Abstract!vars)
    OBVIOUS
  <2>1. TypeOK
    BY DEF IInv
  <2>2. CASE UNCHANGED <<votes, approvals>>
    BY <2>2 DEF Abstract!vars, Electorate, Slate, VoterApproved, Box
  <2>3. QED
    BY <2>1, <2>2, StepKinds, StoringCasts, DecidingAdmits
<1>3. QED
  BY <1>1, <1>2, InductiveInvariant, PTL DEF Spec, ImplementsElection, Abstract!Spec

\* What was proved of Election, for the election the terminals hold.
Held == INSTANCE ElectionProofs WITH
    Person <- Ids("users"), electorate <- Electorate, slate <- Slate, box <- Box

\* The program inherits the promises of Election by implementing it.
THEOREM PromisesInherited == Spec => []ElectionPromises
<1>1. Held!Spec => []Held!Promises
  BY Held!PromisesKept
<1>2. Abstract!Init => Held!Init
  BY DEF Abstract!Init, Held!Init
<1>3. [Abstract!Next]_(Abstract!vars) => [Held!Next]_(Held!vars)
  BY DEF Abstract!Next, Held!Next, Abstract!vars, Held!vars,
         Abstract!AdmitVoter, Held!AdmitVoter, Abstract!AdmitCandidate,
         Held!AdmitCandidate, Abstract!Cast, Held!Cast
<1>4. Held!Promises => ElectionPromises
  BY DEF ElectionPromises, Abstract!Promises, Held!Promises
<1>5. QED
  BY <1>1, <1>2, <1>3, <1>4, Refinement, PTL DEF ImplementsElection, Abstract!Spec, Held!Spec
=============================================================================
