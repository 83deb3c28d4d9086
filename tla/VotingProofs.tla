---------------------------- MODULE VotingProofs ----------------------------
(***************************************************************************)
(* Proofs about OnlineVotingApp, for any set of terminals, any names,      *)
(* passwords and registrations and any range of ids.                       *)
(***************************************************************************)
EXTENDS VotingProperties, TLAPS

-----------------------------------------------------------------------------
(***************************************************************************)
(* What the statements leave behind.                                       *)
(***************************************************************************)

\* An INSERT INTO users that succeeds adds one row, of the account asked for,
\* whose id and name no other row has.
LEMMA InsertUserAddsOne ==
    ASSUME NEW us \in SUBSET UserRow,
           NEW username \in Usernames, NEW password \in Passwords, NEW role \in Roles,
           NEW next \in InsertUser(us, username, sha256(password), role)
    PROVE  \E row \in UserRow :
              /\ next = us \cup {row}
              /\ row.role = role
              /\ \A u \in us : /\ u.id # row.id
                               /\ Collate[u.username] # Collate[row.username]
<1>1. PICK id \in FreshIds("users", us) :
         /\ ~UsernameTaken(us, username)
         /\ next = us \cup {[id |-> id, username |-> username,
                             password_hash |-> sha256(password), role |-> role]}
  BY DEF InsertUser
<1> DEFINE row == [id |-> id, username |-> username,
                   password_hash |-> sha256(password), role |-> role]
<1>2. id \in Ids("users") /\ \A u \in us : u.id < id
  BY <1>1 DEF FreshIds
<1>3. MaxId["users"] \in Nat
  BY SchemaAssumption DEF Tables
<1>4. row \in UserRow
  BY <1>2 DEF UserRow
<1>5. \A u \in us : u.id # row.id
  BY <1>2, <1>3 DEF UserRow, Ids
<1>6. \A u \in us : Collate[u.username] # Collate[row.username]
  BY <1>1 DEF UsernameTaken
<1>7. QED
  BY <1>1, <1>4, <1>5, <1>6

\* An INSERT into a profile table that succeeds adds one pending application,
\* of the applicant, who had none.
LEMMA InsertProfileAddsOne ==
    ASSUME NEW table \in Tables, NEW us \in SUBSET UserRow, NEW user,
           NEW ps \in SUBSET ProfileRow(table),
           NEW next \in InsertProfile(table, us, ps, user)
    PROVE  \E row \in ProfileRow(table) :
              /\ next = ps \cup {row}
              /\ row.user_id = user /\ row.status = "PENDING"
              /\ \A p \in ps : p.user_id # user /\ p.id # row.id
<1>1. PICK id \in FreshIds(table, ps) :
         /\ ~HasProfile(ps, user) /\ References(us, user)
         /\ next = ps \cup {[id |-> id, user_id |-> user, status |-> "PENDING"]}
  BY DEF InsertProfile
<1>2. [id |-> id, user_id |-> user, status |-> "PENDING"] \in ProfileRow(table)
  BY <1>1 DEF FreshIds, ProfileRow, Statuses, References, UserRow
<1>3. \A p \in ps : p.id # id
  BY <1>1, SchemaAssumption DEF FreshIds, ProfileRow, Ids
<1>4. QED
  BY <1>1, <1>2, <1>3 DEF HasProfile

\* An INSERT INTO votes that succeeds adds one row, of a voter who had none.
LEMMA InsertVoteAddsOne ==
    ASSUME NEW us \in SUBSET UserRow, NEW vs \in SUBSET VoteRow,
           NEW voter, NEW candidate,
           NEW next \in InsertVote(us, vs, voter, candidate)
    PROVE  \E row \in VoteRow :
              /\ next = vs \cup {row}
              /\ row.voter_id = voter /\ row.candidate_id = candidate
              /\ \A v \in vs : v.voter_id # voter
<1>1. PICK id \in FreshIds("votes", vs) :
         /\ ~HasVoted(vs, voter)
         /\ References(us, voter) /\ References(us, candidate)
         /\ next = vs \cup {[id |-> id, voter_id |-> voter, candidate_id |-> candidate]}
  BY DEF InsertVote
<1>2. [id |-> id, voter_id |-> voter, candidate_id |-> candidate] \in VoteRow
  BY <1>1 DEF FreshIds, VoteRow, References, UserRow
<1>3. QED
  BY <1>1, <1>2 DEF HasVoted

\* The UPDATE of approveReject() changes the status of the application with the
\* id and nothing else of it.
LEMMA SetStatusImage ==
    ASSUME NEW table, NEW ps \in SUBSET ProfileRow(table),
           NEW id, NEW status \in Statuses, NEW p \in ps
    PROVE  LET q == IF p.id = id THEN [p EXCEPT !.status = status] ELSE p
           IN  /\ q \in ProfileRow(table)
               /\ q.id = p.id /\ q.user_id = p.user_id
               /\ q.status = IF p.id = id THEN status ELSE p.status
BY DEF ProfileRow

\* It stores no status the column does not admit ...
LEMMA SetStatusTyped ==
    ASSUME NEW table, NEW ps \in SUBSET ProfileRow(table),
           NEW id, NEW status \in Statuses
    PROVE  SetStatus(ps, id, status) \subseteq ProfileRow(table)
BY SetStatusImage DEF SetStatus

\* ... makes no application up ...
LEMMA SetStatusFrom ==
    ASSUME NEW table, NEW ps \in SUBSET ProfileRow(table),
           NEW id, NEW status \in Statuses, NEW q \in SetStatus(ps, id, status)
    PROVE  \E p \in ps : /\ q.id = p.id /\ q.user_id = p.user_id
                         /\ q = IF p.id = id THEN [p EXCEPT !.status = status] ELSE p
                         /\ q.status = IF p.id = id THEN status ELSE p.status
<1>1. PICK p \in ps : q = IF p.id = id THEN [p EXCEPT !.status = status] ELSE p
  BY DEF SetStatus
<1>2. /\ q.id = p.id /\ q.user_id = p.user_id
      /\ q.status = IF p.id = id THEN status ELSE p.status
  BY <1>1, SetStatusImage
<1>3. QED
  BY <1>1, <1>2

\* ... and loses none.
LEMMA SetStatusTo ==
    ASSUME NEW table, NEW ps \in SUBSET ProfileRow(table),
           NEW id, NEW status \in Statuses, NEW p \in ps
    PROVE  \E q \in SetStatus(ps, id, status) :
              /\ q.id = p.id /\ q.user_id = p.user_id
              /\ q.status = IF p.id = id THEN status ELSE p.status
<1> DEFINE q == IF p.id = id THEN [p EXCEPT !.status = status] ELSE p
<1>1. q \in SetStatus(ps, id, status)
  BY DEF SetStatus
<1>2. /\ q.id = p.id /\ q.user_id = p.user_id
      /\ q.status = IF p.id = id THEN status ELSE p.status
  BY SetStatusImage
<1> HIDE DEF q
<1>3. QED
  BY <1>1, <1>2

-----------------------------------------------------------------------------
(***************************************************************************)
(* Type correctness.                                                       *)
(***************************************************************************)

\* 0 is no id, and the ids of users are numbers.
LEMMA UserIds == 0 \notin Ids("users") /\ Ids("users") \subseteq Nat
BY SchemaAssumption DEF Ids, Tables

\* The administrator setupDatabase() seeds is an account like any other.
LEMMA SeedAdminAddsOne ==
    ASSUME NEW next \in SeedAdmin(users), users \in SUBSET UserRow
    PROVE  \/ next = users
           \/ \E row \in UserRow :
                 /\ next = users \cup {row}
                 /\ \A u \in users : /\ u.id # row.id
                                     /\ Collate[u.username] # Collate[row.username]
<1>1. "admin" \in Usernames /\ "admin123" \in Passwords /\ "ADMIN" \in Roles
  BY SchemaAssumption DEF Roles
<1>2. CASE UsernameTaken(users, "admin")
  BY <1>2 DEF SeedAdmin
<1>3. CASE ~UsernameTaken(users, "admin")
  <2>1. next \in InsertUser(users, "admin", sha256("admin123"), "ADMIN")
    BY <1>3 DEF SeedAdmin
  <2>2. QED
    BY <1>1, <2>1, InsertUserAddsOne
<1>4. QED
  BY <1>2, <1>3

\* Every variable keeps its type: no statement stores a row the columns do not
\* admit, and no terminal leaves the program's control points.
LEMMA TypeOKStep == TypeOK /\ [Next]_vars => TypeOK'
<1> SUFFICES ASSUME TypeOK, [Next]_vars PROVE TypeOK'
  OBVIOUS
<1> USE DEF TypeOK, Goto, tables, terminal, history
<1>1. ASSUME NEW t \in Terminals, main(t) PROVE TypeOK'
  BY <1>1, SeedAdminAddsOne DEF main, Pcs
<1>2. ASSUME NEW t \in Terminals, Halt(t) PROVE TypeOK'
  BY <1>2 DEF Halt, Pcs
<1>3. ASSUME NEW t \in Terminals, Disconnect(t) PROVE TypeOK'
  BY <1>3 DEF Disconnect
<1>4. ASSUME NEW t \in Terminals, register(t) PROVE TypeOK'
  BY <1>4, InsertUserAddsOne, AppAssumption DEF register
<1>5. ASSUME NEW t \in Terminals, login(t) PROVE TypeOK'
  BY <1>5 DEF login, LoginMatches, UserRow, Pcs
<1>6. ASSUME NEW t \in Terminals, Logout(t) PROVE TypeOK'
  BY <1>6 DEF Logout, Pcs
<1>7. ASSUME NEW t \in Terminals, applyVoterID(t) PROVE TypeOK'
  BY <1>7 DEF applyVoterID, Pcs
<1>8. ASSUME NEW t \in Terminals, applyCandidate(t) PROVE TypeOK'
  BY <1>8 DEF applyCandidate, Pcs
<1>9. ASSUME NEW t \in Terminals, castVote(t) PROVE TypeOK'
  BY <1>9 DEF castVote, Pcs, VotePcs
<1>10. ASSUME NEW t \in Terminals, castVote_voted(t) PROVE TypeOK'
  BY <1>10 DEF castVote_voted, Pcs, VotePcs, Roles
<1>11. ASSUME NEW t \in Terminals, castVote_validate(t) PROVE TypeOK'
  BY <1>11 DEF castVote_validate, Pcs, VotePcs, Roles, ProfileRow
<1>12. ASSUME NEW t \in Terminals, applyVoterID_insert(t) PROVE TypeOK'
  BY <1>12, InsertProfileAddsOne DEF applyVoterID_insert, Pcs, Roles, Tables
<1>13. ASSUME NEW t \in Terminals, applyCandidate_insert(t) PROVE TypeOK'
  BY <1>13, InsertProfileAddsOne DEF applyCandidate_insert, Pcs, Roles, Tables
<1>14. ASSUME NEW t \in Terminals, approveReject(t) PROVE TypeOK'
  <2>1. \A action \in {"APPROVE", "REJECT"} : StatusFor(action) \in Statuses
    BY DEF StatusFor, Statuses
  <2>2. DecidesOn(pc[t]) # {} => pc[t] \in {"ADMIN", "FIELD_OFFICER"}
    BY DEF DecidesOn
  <2>3. voter_profiles' \subseteq ProfileRow("voter_profiles")
    <3>1. \A id : \A action \in {"APPROVE", "REJECT"} :
             SetStatus(voter_profiles, id, StatusFor(action))
                \subseteq ProfileRow("voter_profiles")
      BY <2>1, SetStatusTyped
    <3>2. QED
      BY <1>14, <3>1 DEF approveReject
  <2>4. candidate_profiles' \subseteq ProfileRow("candidate_profiles")
    <3>1. \A id : \A action \in {"APPROVE", "REJECT"} :
             SetStatus(candidate_profiles, id, StatusFor(action))
                \subseteq ProfileRow("candidate_profiles")
      BY <2>1, SetStatusTyped
    <3>2. QED
      BY <1>14, <3>1 DEF approveReject
  <2>5. approvals' \subseteq Approval
    <3>1. ASSUME NEW table \in {"voter_profiles", "candidate_profiles"},
                 NEW profiles \in SUBSET ProfileRow(table), NEW id, NEW status,
                 pc[t] \in {"ADMIN", "FIELD_OFFICER"}
          PROVE  Approved(t, table, profiles, id, status) \subseteq Approval
      BY <3>1 DEF Approved, Approval, ProfileRow
    <3>2. QED
      BY <1>14, <2>2, <3>1 DEF approveReject
  <2>6. QED
    BY <1>14, <2>3, <2>4, <2>5 DEF approveReject
<1>15. ASSUME NEW t \in Terminals, castVote_insert(t) PROVE TypeOK'
  <2>1. ASSUME votes' \in InsertVote(users, votes, uid[t], cand[t])
        PROVE  /\ votes' \subseteq VoteRow
               /\ uid[t] \in Ids("users") /\ cand[t] \in Ids("users")
    <3>1. PICK row \in VoteRow : /\ votes' = votes \cup {row}
                                /\ row.voter_id = uid[t] /\ row.candidate_id = cand[t]
      BY <2>1, InsertVoteAddsOne
    <3>2. QED
      BY <3>1 DEF VoteRow
  <2>2. votes' \subseteq VoteRow
    BY <1>15, <2>1 DEF castVote_insert
  <2>3. conn' \in [Terminals -> BOOLEAN]
    BY <1>15 DEF castVote_insert
  <2>4. receipts' \subseteq [voter : Ids("users"), candidate : Ids("users")]
    BY <1>15, <2>1 DEF castVote_insert, Receipt
  <2>5. QED
    BY <1>15, <2>2, <2>3, <2>4 DEF castVote_insert, Pcs, Roles
<1>16. CASE UNCHANGED vars
  BY <1>16 DEF vars
<1>17. QED
  BY <1>1, <1>2, <1>3, <1>4, <1>5, <1>6, <1>7, <1>8, <1>9, <1>10, <1>11, <1>12,
     <1>13, <1>14, <1>15, <1>16 DEF Next, Session, Exit, Crash

\* The tables hold what their columns admit and the terminals stay within the
\* program, in every state of every behaviour.
THEOREM TypeCorrect == Spec => []TypeOK
<1>1. Init => TypeOK
  BY DEF Init, TypeOK, Pcs
<1>2. QED
  BY <1>1, TypeOKStep, PTL DEF Spec

\* A terminal moves no other one.
LEMMA OthersStay ==
    ASSUME TypeOK, NEW t \in Terminals, main(t) \/ Session(t), NEW s \in Terminals \ {t}
    PROVE  pc'[s] = pc[s] /\ uid'[s] = uid[s] /\ cand'[s] = cand[s]
<1> USE DEF Goto, tables, terminal
<1>0. /\ pc \in [Terminals -> Pcs] /\ uid \in [Terminals -> Ids("users") \cup {0}]
      /\ cand \in [Terminals -> Ids("users") \cup {0}]
  BY DEF TypeOK
<1>1. CASE main(t) \/ Exit(t) \/ Crash(t) \/ Disconnect(t)
  BY <1>0, <1>1 DEF main, Exit, Crash, Halt, Disconnect
<1>2. CASE register(t) \/ login(t) \/ Logout(t)
  BY <1>0, <1>2 DEF register, login, Logout
<1>3. CASE applyVoterID(t) \/ applyVoterID_insert(t)
             \/ applyCandidate(t) \/ applyCandidate_insert(t) \/ approveReject(t)
  BY <1>0, <1>3 DEF applyVoterID, applyVoterID_insert, applyCandidate,
                    applyCandidate_insert, approveReject
<1>4. CASE castVote(t) \/ castVote_voted(t)
  BY <1>0, <1>4 DEF castVote, castVote_voted
<1>5. CASE castVote_validate(t) \/ castVote_insert(t)
  BY <1>0, <1>5 DEF castVote_validate, castVote_insert
<1>6. QED
  BY <1>1, <1>2, <1>3, <1>4, <1>5 DEF Session

-----------------------------------------------------------------------------
(***************************************************************************)
(* The inductive invariant.  Its parts about the tables and its parts about *)
(* the terminals meet in three predicates (HasRole, VoterApproved and      *)
(* ApprovedByAdmin) that no step ever makes false: accounts are never      *)
(* deleted nor given another role, and the history only grows.             *)
(***************************************************************************)

\* Roles and approvals are there for good.
LEMMA Lasting ==
    ASSUME users \subseteq users', approvals \subseteq approvals'
    PROVE  /\ \A id, role : HasRole(id, role) => HasRole(id, role)'
           /\ \A id : VoterApproved(id) => VoterApproved(id)'
           /\ \A id : ApprovedByAdmin(id) => ApprovedByAdmin(id)'
BY DEF HasRole, VoterApproved, ApprovedByAdmin

\* What SessionMatchesAccount and CastVoteSaw say of one terminal.
SessionOf(t) ==
    /\ IF pc[t] \in {"off", "main"} THEN uid[t] = 0
       ELSE HasRole(uid[t], RoleAt(pc[t]))
    /\ pc[t] \in VotePcs => VoterApproved(uid[t])
    /\ pc[t] = "vote_insert" => ApprovedByAdmin(cand[t])

\* A step moves one terminal: the sessions of the others stay sound.
LEMMA OtherSessions ==
    ASSUME SessionMatchesAccount, CastVoteSaw,
           users \subseteq users', approvals \subseteq approvals',
           NEW t \in Terminals, SessionOf(t)',
           \A s \in Terminals \ {t} :
              pc'[s] = pc[s] /\ uid'[s] = uid[s] /\ cand'[s] = cand[s]
    PROVE  SessionMatchesAccount' /\ CastVoteSaw'
<1>1. \A s \in Terminals : SessionOf(s)'
  <2> SUFFICES ASSUME NEW s \in Terminals, s # t PROVE SessionOf(s)'
    OBVIOUS
  <2>1. SessionOf(s)
    BY DEF SessionMatchesAccount, CastVoteSaw, SessionOf
  <2>2. pc'[s] = pc[s] /\ uid'[s] = uid[s] /\ cand'[s] = cand[s]
    OBVIOUS
  <2>3. QED
    BY <2>1, <2>2, Lasting DEF SessionOf
<1>2. QED
  BY <1>1 DEF SessionMatchesAccount, CastVoteSaw, SessionOf

\* A step that leaves the tables and the history alone keeps what is said of
\* them.
LEMMA DataUndisturbed == DataInv /\ UNCHANGED <<tables, history>> => DataInv'
BY DEF DataInv, AccountsDistinct, ApplicationsWellFormed, ApprovalsSound,
       ApprovedVotersRecorded, BallotListApprovedByAdmin, BallotIntegrity,
       OneVotePerVoter, ReceiptsHonoured, HasRole, VoterApproved, ApprovedByAdmin,
       tables, history

\* A step that leaves the terminals alone, and takes no role or approval back,
\* keeps every session sound.
LEMMA SessionsUndisturbed ==
    ASSUME SessionMatchesAccount, CastVoteSaw, UNCHANGED <<pc, uid, cand>>,
           users \subseteq users', approvals \subseteq approvals'
    PROVE  SessionMatchesAccount' /\ CastVoteSaw'
BY Lasting DEF SessionMatchesAccount, CastVoteSaw

\* A new account disturbs nothing.
LEMMA DataAfterNewUser ==
    ASSUME DataInv, NEW row,
           users' = users \cup {row},
           \A u \in users : u.id # row.id /\ Collate[u.username] # Collate[row.username],
           UNCHANGED <<voter_profiles, candidate_profiles, votes, history>>
    PROVE  DataInv'
<1> USE DEF history
<1>1. AccountsDistinct'
  BY DEF DataInv, AccountsDistinct
<1>2. users \subseteq users' /\ approvals \subseteq approvals'
  OBVIOUS
<1>3. ApplicationsWellFormed' /\ ApprovalsSound' /\ BallotIntegrity'
  BY <1>2, Lasting DEF DataInv, ApplicationsWellFormed, ApprovalsSound, BallotIntegrity
<1>4. ApprovedVotersRecorded' /\ BallotListApprovedByAdmin'
  BY <1>2, Lasting DEF DataInv, ApprovedVotersRecorded, BallotListApprovedByAdmin
<1>5. OneVotePerVoter' /\ ReceiptsHonoured'
  BY DEF DataInv, OneVotePerVoter, ReceiptsHonoured
<1>6. QED
  BY <1>1, <1>3, <1>4, <1>5 DEF DataInv

\* A new pending application disturbs nothing, when the applicant has the role
\* of the table and no application in it.
LEMMA DataAfterApplication ==
    ASSUME DataInv, NEW row, row.status = "PENDING",
           UNCHANGED <<users, votes, history>>,
           \/ /\ voter_profiles' = voter_profiles \cup {row}
              /\ HasRole(row.user_id, "VOTER")
              /\ \A p \in voter_profiles : p.user_id # row.user_id /\ p.id # row.id
              /\ UNCHANGED candidate_profiles
           \/ /\ candidate_profiles' = candidate_profiles \cup {row}
              /\ HasRole(row.user_id, "CANDIDATE")
              /\ \A p \in candidate_profiles : p.user_id # row.user_id /\ p.id # row.id
              /\ UNCHANGED voter_profiles
    PROVE  DataInv'
<1> USE DEF history
<1>1. ApplicationsWellFormed'
  BY DEF DataInv, ApplicationsWellFormed, OneEach, HasRole
<1>2. ApprovedVotersRecorded' /\ BallotListApprovedByAdmin'
  BY DEF DataInv, ApprovedVotersRecorded, BallotListApprovedByAdmin,
         VoterApproved, ApprovedByAdmin
<1>3. AccountsDistinct' /\ ApprovalsSound' /\ BallotIntegrity'
  BY DEF DataInv, AccountsDistinct, ApprovalsSound, BallotIntegrity,
         HasRole, VoterApproved, ApprovedByAdmin
<1>4. OneVotePerVoter' /\ ReceiptsHonoured'
  BY DEF DataInv, OneVotePerVoter, ReceiptsHonoured
<1>5. QED
  BY <1>1, <1>2, <1>3, <1>4 DEF DataInv

\* Storing the vote of castVote() keeps the tables sound: the voter and the
\* candidate were approved when the program looked, and the voter has no vote.
LEMMA DataAfterVote ==
    ASSUME DataInv, NEW row,
           votes' = votes \cup {row},
           \A v \in votes : v.voter_id # row.voter_id,
           VoterApproved(row.voter_id), ApprovedByAdmin(row.candidate_id),
           \/ UNCHANGED receipts
           \/ receipts' = receipts \cup
                 {[voter |-> row.voter_id, candidate |-> row.candidate_id]},
           UNCHANGED <<users, voter_profiles, candidate_profiles, approvals>>
    PROVE  DataInv'
<1>1. HasRole(row.voter_id, "VOTER") /\ HasRole(row.candidate_id, "CANDIDATE")
  BY DEF DataInv, ApprovalsSound, VoterApproved, ApprovedByAdmin
<1>2. BallotIntegrity'
  BY <1>1 DEF DataInv, BallotIntegrity, HasRole, VoterApproved, ApprovedByAdmin
<1>3. OneVotePerVoter'
  BY DEF DataInv, OneVotePerVoter
<1>4. ReceiptsHonoured'
  BY DEF DataInv, ReceiptsHonoured
<1>5. AccountsDistinct' /\ ApplicationsWellFormed' /\ ApprovalsSound'
  BY DEF DataInv, AccountsDistinct, ApplicationsWellFormed, ApprovalsSound, HasRole
<1>6. ApprovedVotersRecorded' /\ BallotListApprovedByAdmin'
  BY DEF DataInv, ApprovedVotersRecorded, BallotListApprovedByAdmin,
         VoterApproved, ApprovedByAdmin
<1>7. QED
  BY <1>2, <1>3, <1>4, <1>5, <1>6 DEF DataInv

\* The owners keep their role.
LEMMA SetStatusKeepsRole ==
    ASSUME NEW table, NEW ps \in SUBSET ProfileRow(table),
           NEW id, NEW status \in Statuses, NEW role,
           \A p \in ps : HasRole(p.user_id, role)
    PROVE  \A q \in SetStatus(ps, id, status) : HasRole(q.user_id, role)
<1> SUFFICES ASSUME NEW q \in SetStatus(ps, id, status)
             PROVE  HasRole(q.user_id, role)
  OBVIOUS
<1>1. PICK p \in ps : q.user_id = p.user_id
  BY SetStatusFrom
<1>2. QED
  BY <1>1

\* One application per applicant and per id survives the UPDATE.
LEMMA SetStatusKeepsOwners ==
    ASSUME NEW table, NEW ps \in SUBSET ProfileRow(table),
           NEW id, NEW status \in Statuses,
           OneEach(ps)
    PROVE  OneEach(SetStatus(ps, id, status))
<1> SUFFICES ASSUME NEW p \in SetStatus(ps, id, status),
                    NEW q \in SetStatus(ps, id, status),
                    p.user_id = q.user_id \/ p.id = q.id
             PROVE  p = q
  BY DEF OneEach
<1>1. PICK p0 \in ps : /\ p.id = p0.id /\ p.user_id = p0.user_id
                       /\ p = IF p0.id = id THEN [p0 EXCEPT !.status = status] ELSE p0
  BY SetStatusFrom
<1>2. PICK q0 \in ps : /\ q.id = q0.id /\ q.user_id = q0.user_id
                       /\ q = IF q0.id = id THEN [q0 EXCEPT !.status = status] ELSE q0
  BY SetStatusFrom
<1>3. QED
  BY <1>1, <1>2 DEF OneEach

\* An application approved after the UPDATE was approved before it, or its
\* approval is now in the history.
LEMMA ApprovalRecorded ==
    ASSUME NEW t, NEW table, NEW ps \in SUBSET ProfileRow(table),
           NEW id, NEW status \in Statuses,
           NEW q \in SetStatus(ps, id, status), q.status = "APPROVED"
    PROVE  \/ \E p \in ps : p.user_id = q.user_id /\ p.status = "APPROVED"
           \/ \E a \in Approved(t, table, ps, id, status) :
                 a.table = table /\ a.user = q.user_id /\ a.by = pc[t]
<1>1. PICK p \in ps : /\ q.id = p.id /\ q.user_id = p.user_id
                      /\ q = IF p.id = id THEN [p EXCEPT !.status = status] ELSE p
  BY SetStatusFrom
<1>2. CASE p.id = id
  <2>1. status = "APPROVED"
    BY <1>1, <1>2 DEF ProfileRow
  <2>2. [table |-> table, user |-> p.user_id, by |-> pc[t]]
           \in Approved(t, table, ps, id, status)
    BY <1>2, <2>1 DEF Approved
  <2>3. QED
    BY <1>1, <2>2
<1>3. CASE p.id # id
  BY <1>1, <1>3
<1>4. QED
  BY <1>2, <1>3

\* Deciding on a Voter ID application keeps the tables sound.
LEMMA DataAfterVoterDecision ==
    ASSUME TypeOK, DataInv, NEW t, NEW id, NEW status \in Statuses,
           voter_profiles' = SetStatus(voter_profiles, id, status),
           approvals' = approvals \cup
              Approved(t, "voter_profiles", voter_profiles, id, status),
           UNCHANGED <<users, candidate_profiles, votes, receipts>>
    PROVE  DataInv'
<1>1. voter_profiles \in SUBSET ProfileRow("voter_profiles")
  BY DEF TypeOK
<1>2. users \subseteq users' /\ approvals \subseteq approvals'
  OBVIOUS
<1>3. ApplicationsWellFormed'
  <2>1. OneEach(voter_profiles')
    BY <1>1, SetStatusKeepsOwners DEF DataInv, ApplicationsWellFormed
  <2>2. \A q \in SetStatus(voter_profiles, id, status) : HasRole(q.user_id, "VOTER")
    BY <1>1, SetStatusKeepsRole DEF DataInv, ApplicationsWellFormed
  <2>3. \A q \in voter_profiles' : HasRole(q.user_id, "VOTER")'
    BY <1>2, <2>2, Lasting
  <2>4. QED
    BY <1>2, <2>1, <2>3, Lasting DEF DataInv, ApplicationsWellFormed
<1>4. ApprovalsSound'
  <2>1. \A a \in Approved(t, "voter_profiles", voter_profiles, id, status) :
           a.table = "voter_profiles" /\ HasRole(a.user, "VOTER")
    BY DEF Approved, DataInv, ApplicationsWellFormed
  <2>2. QED
    BY <1>2, <2>1, Lasting DEF DataInv, ApprovalsSound
<1>5. ApprovedVotersRecorded'
  <2> SUFFICES ASSUME NEW q \in voter_profiles', q.status = "APPROVED"
               PROVE  VoterApproved(q.user_id)'
    BY DEF ApprovedVotersRecorded
  <2>1. CASE \E p \in voter_profiles : p.user_id = q.user_id /\ p.status = "APPROVED"
    BY <1>2, <2>1, Lasting DEF DataInv, ApprovedVotersRecorded
  <2>2. CASE \E a \in Approved(t, "voter_profiles", voter_profiles, id, status) :
                a.table = "voter_profiles" /\ a.user = q.user_id
    BY <2>2 DEF VoterApproved
  <2>3. QED
    BY <1>1, <2>1, <2>2, ApprovalRecorded
<1>6. BallotListApprovedByAdmin' /\ BallotIntegrity'
  BY <1>2, Lasting DEF DataInv, BallotListApprovedByAdmin, BallotIntegrity
<1>7. AccountsDistinct' /\ OneVotePerVoter' /\ ReceiptsHonoured'
  BY DEF DataInv, AccountsDistinct, OneVotePerVoter, ReceiptsHonoured
<1>8. QED
  BY <1>3, <1>4, <1>5, <1>6, <1>7 DEF DataInv

\* Deciding on a candidate keeps the tables sound, when an administrator does it.
LEMMA DataAfterCandidateDecision ==
    ASSUME TypeOK, DataInv, NEW t, NEW id, NEW status \in Statuses, pc[t] = "ADMIN",
           candidate_profiles' = SetStatus(candidate_profiles, id, status),
           approvals' = approvals \cup
              Approved(t, "candidate_profiles", candidate_profiles, id, status),
           UNCHANGED <<users, voter_profiles, votes, receipts>>
    PROVE  DataInv'
<1>1. candidate_profiles \in SUBSET ProfileRow("candidate_profiles")
  BY DEF TypeOK
<1>2. users \subseteq users' /\ approvals \subseteq approvals'
  OBVIOUS
<1>3. ApplicationsWellFormed'
  <2>1. OneEach(candidate_profiles')
    BY <1>1, SetStatusKeepsOwners DEF DataInv, ApplicationsWellFormed
  <2>2. \A q \in SetStatus(candidate_profiles, id, status) : HasRole(q.user_id, "CANDIDATE")
    BY <1>1, SetStatusKeepsRole DEF DataInv, ApplicationsWellFormed
  <2>3. \A q \in candidate_profiles' : HasRole(q.user_id, "CANDIDATE")'
    BY <1>2, <2>2, Lasting
  <2>4. QED
    BY <1>2, <2>1, <2>3, Lasting DEF DataInv, ApplicationsWellFormed
<1>4. ApprovalsSound'
  <2>1. \A a \in Approved(t, "candidate_profiles", candidate_profiles, id, status) :
           /\ a.table = "candidate_profiles" /\ a.by = "ADMIN"
           /\ HasRole(a.user, "CANDIDATE")
    BY DEF Approved, DataInv, ApplicationsWellFormed
  <2>2. QED
    BY <1>2, <2>1, Lasting DEF DataInv, ApprovalsSound
<1>5. BallotListApprovedByAdmin'
  <2> SUFFICES ASSUME NEW q \in candidate_profiles', q.status = "APPROVED"
               PROVE  ApprovedByAdmin(q.user_id)'
    BY DEF BallotListApprovedByAdmin
  <2>1. CASE \E p \in candidate_profiles :
                p.user_id = q.user_id /\ p.status = "APPROVED"
    BY <1>2, <2>1, Lasting DEF DataInv, BallotListApprovedByAdmin
  <2>2. CASE \E a \in Approved(t, "candidate_profiles", candidate_profiles, id, status) :
                a.table = "candidate_profiles" /\ a.user = q.user_id /\ a.by = "ADMIN"
    BY <2>2 DEF ApprovedByAdmin
  <2>3. QED
    BY <1>1, <2>1, <2>2, ApprovalRecorded
<1>6. ApprovedVotersRecorded' /\ BallotIntegrity'
  BY <1>2, Lasting DEF DataInv, ApprovedVotersRecorded, BallotIntegrity
<1>7. AccountsDistinct' /\ OneVotePerVoter' /\ ReceiptsHonoured'
  BY DEF DataInv, AccountsDistinct, OneVotePerVoter, ReceiptsHonoured
<1>8. QED
  BY <1>3, <1>4, <1>5, <1>6, <1>7 DEF DataInv

\* One step per action: what it does to the tables, then to the terminal.
LEMMA IInvStep == IInv /\ [Next]_vars => IInv'
<1> SUFFICES ASSUME IInv, [Next]_vars PROVE IInv'
  OBVIOUS
<1> USE DEF Goto, tables, terminal, history
<1>0. /\ TypeOK /\ TypeOK' /\ DataInv /\ SessionMatchesAccount /\ CastVoteSaw
      /\ \A t \in Terminals : SessionOf(t)
  BY TypeOKStep DEF IInv, SessionOf, SessionMatchesAccount, CastVoteSaw
<1>1. ASSUME NEW t \in Terminals, main(t) PROVE IInv'
  <2>1. DataInv' /\ users \subseteq users'
    <3>1. CASE users' = users
      BY <1>0, <1>1, <3>1, DataUndisturbed DEF main
    <3>2. CASE users' # users
      <4>1. PICK row \in UserRow :
               /\ users' = users \cup {row}
               /\ \A u \in users : /\ u.id # row.id
                                   /\ Collate[u.username] # Collate[row.username]
        BY <1>0, <1>1, <3>2, SeedAdminAddsOne DEF main, TypeOK
      <4>2. QED
        BY <1>0, <1>1, <4>1, DataAfterNewUser DEF main
    <3>3. QED
      BY <3>1, <3>2
  <2>2. SessionOf(t)'
    BY <1>0, <1>1 DEF main, SessionOf, TypeOK, VotePcs
  <2>3. SessionMatchesAccount' /\ CastVoteSaw'
    BY <1>0, <1>1, <2>1, <2>2, OtherSessions DEF main, TypeOK
  <2>4. QED
    BY <1>0, <2>1, <2>3 DEF IInv
<1>2. ASSUME NEW t \in Terminals, Halt(t) PROVE IInv'
  <2>1. SessionOf(t)'
    BY <1>0, <1>2 DEF Halt, SessionOf, TypeOK, VotePcs
  <2>2. SessionMatchesAccount' /\ CastVoteSaw'
    BY <1>0, <1>2, <2>1, OtherSessions DEF Halt, TypeOK
  <2>3. QED
    BY <1>0, <1>2, <2>2, DataUndisturbed DEF Halt, IInv
<1>3. ASSUME NEW t \in Terminals, Disconnect(t) PROVE IInv'
  BY <1>0, <1>3, DataUndisturbed, SessionsUndisturbed DEF Disconnect, IInv
<1>4. ASSUME NEW t \in Terminals, register(t) PROVE IInv'
  <2>1. PICK row \in UserRow :
           /\ users' = users \cup {row}
           /\ \A u \in users : /\ u.id # row.id
                               /\ Collate[u.username] # Collate[row.username]
    BY <1>0, <1>4, InsertUserAddsOne, AppAssumption DEF register, TypeOK
  <2>2. DataInv'
    BY <1>0, <1>4, <2>1, DataAfterNewUser DEF register
  <2>3. SessionMatchesAccount' /\ CastVoteSaw'
    BY <1>0, <1>4, <2>1, SessionsUndisturbed DEF register
  <2>4. QED
    BY <1>0, <2>2, <2>3 DEF IInv
<1>5. ASSUME NEW t \in Terminals, login(t) PROVE IInv'
  <2>1. PICK u \in users : /\ uid' = [uid EXCEPT ![t] = u.id]
                           /\ pc' = [pc EXCEPT ![t] = u.role]
    BY <1>5 DEF login, LoginMatches
  <2>2. u.role \in Roles
    BY <1>0 DEF TypeOK, UserRow
  <2>3. SessionOf(t)'
    BY <1>0, <1>5, <2>1, <2>2
       DEF login, SessionOf, TypeOK, Roles, RoleAt, VotePcs, HasRole
  <2>4. SessionMatchesAccount' /\ CastVoteSaw'
    BY <1>0, <1>5, <2>1, <2>3, OtherSessions DEF login, TypeOK
  <2>5. QED
    BY <1>0, <1>5, <2>4, DataUndisturbed DEF login, IInv
<1>6. ASSUME NEW t \in Terminals, Logout(t) PROVE IInv'
  <2>1. SessionOf(t)'
    BY <1>0, <1>6 DEF Logout, SessionOf, TypeOK, VotePcs
  <2>2. SessionMatchesAccount' /\ CastVoteSaw'
    BY <1>0, <1>6, <2>1, OtherSessions DEF Logout, TypeOK
  <2>3. QED
    BY <1>0, <1>6, <2>2, DataUndisturbed DEF Logout, IInv
<1>7. ASSUME NEW t \in Terminals, applyVoterID(t) PROVE IInv'
  <2>1. SessionOf(t)'
    BY <1>0, <1>7 DEF applyVoterID, SessionOf, TypeOK, VotePcs, RoleAt, HasRole
  <2>2. SessionMatchesAccount' /\ CastVoteSaw'
    BY <1>0, <1>7, <2>1, OtherSessions DEF applyVoterID, TypeOK
  <2>3. QED
    BY <1>0, <1>7, <2>2, DataUndisturbed DEF applyVoterID, IInv
<1>8. ASSUME NEW t \in Terminals, applyCandidate(t) PROVE IInv'
  <2>1. SessionOf(t)'
    BY <1>0, <1>8 DEF applyCandidate, SessionOf, TypeOK, VotePcs, RoleAt, HasRole
  <2>2. SessionMatchesAccount' /\ CastVoteSaw'
    BY <1>0, <1>8, <2>1, OtherSessions DEF applyCandidate, TypeOK
  <2>3. QED
    BY <1>0, <1>8, <2>2, DataUndisturbed DEF applyCandidate, IInv
<1>9. ASSUME NEW t \in Terminals, castVote(t) PROVE IInv'
  <2>1. VoterApproved(uid[t])
    BY <1>0, <1>9 DEF castVote, IsApproved, DataInv, ApprovedVotersRecorded
  <2>2. SessionOf(t)'
    BY <1>0, <1>9, <2>1
       DEF castVote, SessionOf, TypeOK, VotePcs, RoleAt, HasRole, VoterApproved
  <2>3. SessionMatchesAccount' /\ CastVoteSaw'
    BY <1>0, <1>9, <2>2, OtherSessions DEF castVote, TypeOK
  <2>4. QED
    BY <1>0, <1>9, <2>3, DataUndisturbed DEF castVote, IInv
<1>10. ASSUME NEW t \in Terminals, castVote_voted(t) PROVE IInv'
  <2>1. SessionOf(t)'
    BY <1>0, <1>10
       DEF castVote_voted, SessionOf, TypeOK, VotePcs, RoleAt, HasRole, VoterApproved
  <2>2. SessionMatchesAccount' /\ CastVoteSaw'
    BY <1>0, <1>10, <2>1, OtherSessions DEF castVote_voted, TypeOK
  <2>3. QED
    BY <1>0, <1>10, <2>2, DataUndisturbed DEF castVote_voted, IInv
<1>11. ASSUME NEW t \in Terminals, castVote_validate(t) PROVE IInv'
  <2>1. \A p \in candidate_profiles : p.status = "APPROVED" => ApprovedByAdmin(p.user_id)
    BY <1>0 DEF DataInv, BallotListApprovedByAdmin
  <2>2. HasRole(uid[t], "VOTER") /\ VoterApproved(uid[t])
    BY <1>0, <1>11 DEF castVote_validate, SessionOf, RoleAt, VotePcs
  <2>3. SessionOf(t)'
    BY <1>0, <1>11, <2>1, <2>2
       DEF castVote_validate, SessionOf, TypeOK, VotePcs, RoleAt, HasRole,
           VoterApproved, ApprovedByAdmin
  <2>4. SessionMatchesAccount' /\ CastVoteSaw'
    BY <1>0, <1>11, <2>3, OtherSessions DEF castVote_validate, TypeOK
  <2>5. QED
    BY <1>0, <1>11, <2>4, DataUndisturbed DEF castVote_validate, IInv
<1>12. ASSUME NEW t \in Terminals, applyVoterID_insert(t) PROVE IInv'
  <2>1. HasRole(uid[t], "VOTER")
    BY <1>0, <1>12 DEF applyVoterID_insert, SessionOf, RoleAt
  <2>2. DataInv'
    <3>1. CASE UNCHANGED voter_profiles
      BY <1>0, <1>12, <3>1, DataUndisturbed DEF applyVoterID_insert
    <3>2. CASE voter_profiles' \in
                  InsertProfile("voter_profiles", users, voter_profiles, uid[t])
      <4>1. PICK row \in ProfileRow("voter_profiles") :
               /\ voter_profiles' = voter_profiles \cup {row}
               /\ row.user_id = uid[t] /\ row.status = "PENDING"
               /\ \A p \in voter_profiles : p.user_id # uid[t] /\ p.id # row.id
        BY <1>0, <3>2, InsertProfileAddsOne DEF TypeOK, Tables
      <4>2. QED
        BY <1>0, <1>12, <2>1, <4>1, DataAfterApplication DEF applyVoterID_insert
    <3>3. QED
      BY <1>12, <3>1, <3>2 DEF applyVoterID_insert
  <2>3. SessionOf(t)'
    BY <1>0, <1>12, <2>1
       DEF applyVoterID_insert, SessionOf, TypeOK, VotePcs, RoleAt, HasRole
  <2>4. SessionMatchesAccount' /\ CastVoteSaw'
    BY <1>0, <1>12, <2>3, OtherSessions DEF applyVoterID_insert, TypeOK
  <2>5. QED
    BY <1>0, <2>2, <2>4 DEF IInv
<1>13. ASSUME NEW t \in Terminals, applyCandidate_insert(t) PROVE IInv'
  <2>1. HasRole(uid[t], "CANDIDATE")
    BY <1>0, <1>13 DEF applyCandidate_insert, SessionOf, RoleAt, VotePcs
  <2>2. DataInv'
    <3>1. CASE UNCHANGED candidate_profiles
      BY <1>0, <1>13, <3>1, DataUndisturbed DEF applyCandidate_insert
    <3>2. CASE candidate_profiles' \in
                  InsertProfile("candidate_profiles", users, candidate_profiles, uid[t])
      <4>1. PICK row \in ProfileRow("candidate_profiles") :
               /\ candidate_profiles' = candidate_profiles \cup {row}
               /\ row.user_id = uid[t] /\ row.status = "PENDING"
               /\ \A p \in candidate_profiles : p.user_id # uid[t] /\ p.id # row.id
        BY <1>0, <3>2, InsertProfileAddsOne DEF TypeOK, Tables
      <4>2. QED
        BY <1>0, <1>13, <2>1, <4>1, DataAfterApplication DEF applyCandidate_insert
    <3>3. QED
      BY <1>13, <3>1, <3>2 DEF applyCandidate_insert
  <2>3. SessionOf(t)'
    BY <1>0, <1>13, <2>1
       DEF applyCandidate_insert, SessionOf, TypeOK, VotePcs, RoleAt, HasRole
  <2>4. SessionMatchesAccount' /\ CastVoteSaw'
    BY <1>0, <1>13, <2>3, OtherSessions DEF applyCandidate_insert, TypeOK
  <2>5. QED
    BY <1>0, <2>2, <2>4 DEF IInv
<1>14. ASSUME NEW t \in Terminals, approveReject(t) PROVE IInv'
  <2>1. PICK action \in {"APPROVE", "REJECT"} :
           \/ /\ "voter_profiles" \in DecidesOn(pc[t])
              /\ \E id \in {p.id : p \in voter_profiles} :
                    /\ voter_profiles' =
                          SetStatus(voter_profiles, id, StatusFor(action))
                    /\ approvals' = approvals \cup
                          Approved(t, "voter_profiles", voter_profiles, id,
                                   StatusFor(action))
              /\ UNCHANGED candidate_profiles
           \/ /\ "candidate_profiles" \in DecidesOn(pc[t])
              /\ \E id \in {p.id : p \in candidate_profiles} :
                    /\ candidate_profiles' =
                          SetStatus(candidate_profiles, id, StatusFor(action))
                    /\ approvals' = approvals \cup
                          Approved(t, "candidate_profiles", candidate_profiles, id,
                                   StatusFor(action))
              /\ UNCHANGED voter_profiles
    BY <1>14 DEF approveReject
  <2>2. StatusFor(action) \in Statuses
    BY DEF StatusFor, Statuses
  <2>3. UNCHANGED <<users, votes, receipts, pc, uid, cand>>
    BY <1>14 DEF approveReject
  <2>4. "candidate_profiles" \in DecidesOn(pc[t]) => pc[t] = "ADMIN"
    BY DEF DecidesOn
  <2>5. DataInv'
    BY <1>0, <2>1, <2>2, <2>3, <2>4, DataAfterVoterDecision, DataAfterCandidateDecision
  <2>6. approvals \subseteq approvals'
    BY <2>1
  <2>7. SessionMatchesAccount' /\ CastVoteSaw'
    BY <1>0, <2>3, <2>6, SessionsUndisturbed
  <2>8. QED
    BY <1>0, <2>5, <2>7 DEF IInv
<1>15. ASSUME NEW t \in Terminals, castVote_insert(t) PROVE IInv'
  <2>1. /\ HasRole(uid[t], "VOTER") /\ VoterApproved(uid[t])
        /\ ApprovedByAdmin(cand[t])
    BY <1>0, <1>15 DEF castVote_insert, SessionOf, RoleAt, VotePcs
  <2>2. DataInv'
    <3>1. CASE UNCHANGED <<votes, receipts>>
      BY <1>0, <1>15, <3>1, DataUndisturbed DEF castVote_insert
    <3>2. CASE /\ votes' \in InsertVote(users, votes, uid[t], cand[t])
               /\ receipts' = receipts \cup {Receipt(t)} \/ UNCHANGED receipts
      <4>1. PICK row \in VoteRow :
               /\ votes' = votes \cup {row}
               /\ row.voter_id = uid[t] /\ row.candidate_id = cand[t]
               /\ \A v \in votes : v.voter_id # uid[t]
        <5>1. users \in SUBSET UserRow /\ votes \in SUBSET VoteRow
          BY <1>0 DEF TypeOK
        <5>2. votes' \in InsertVote(users, votes, uid[t], cand[t])
          BY <3>2
        <5>3. QED
          BY <5>1, <5>2, InsertVoteAddsOne
      <4>2. UNCHANGED <<users, voter_profiles, candidate_profiles, approvals>>
        BY <1>15 DEF castVote_insert
      <4>3. \/ UNCHANGED receipts
            \/ receipts' = receipts \cup
                  {[voter |-> row.voter_id, candidate |-> row.candidate_id]}
        BY <3>2, <4>1 DEF Receipt
      <4>4. /\ VoterApproved(row.voter_id) /\ ApprovedByAdmin(row.candidate_id)
            /\ \A v \in votes : v.voter_id # row.voter_id
        BY <2>1, <4>1
      <4>5. QED
        BY <1>0, <4>1, <4>2, <4>3, <4>4, DataAfterVote
    <3>3. QED
      BY <1>15, <3>1, <3>2 DEF castVote_insert
  <2>3. SessionOf(t)'
    BY <1>0, <1>15, <2>1
       DEF castVote_insert, SessionOf, TypeOK, VotePcs, RoleAt, HasRole
  <2>4. SessionMatchesAccount' /\ CastVoteSaw'
    BY <1>0, <1>15, <2>3, OtherSessions DEF castVote_insert, TypeOK
  <2>5. QED
    BY <1>0, <2>2, <2>4 DEF IInv
<1>16. CASE UNCHANGED vars
  BY <1>0, <1>16, DataUndisturbed, SessionsUndisturbed DEF vars, IInv
<1>17. QED
  BY <1>1, <1>2, <1>3, <1>4, <1>5, <1>6, <1>7, <1>8, <1>9, <1>10, <1>11, <1>12,
     <1>13, <1>14, <1>15, <1>16 DEF Next, Session, Exit, Crash

\* The inductive invariant holds throughout.
LEMMA InductiveInvariant == Spec => []IInv
<1>1. Init => IInv
  <2> SUFFICES ASSUME Init PROVE IInv
    OBVIOUS
  <2>1. TypeOK
    BY DEF Init, TypeOK, Pcs
  <2>2. DataInv
    BY DEF Init, DataInv, AccountsDistinct, ApplicationsWellFormed, ApprovalsSound,
           ApprovedVotersRecorded, BallotListApprovedByAdmin, BallotIntegrity,
           OneVotePerVoter, ReceiptsHonoured, OneEach
  <2>3. SessionMatchesAccount /\ CastVoteSaw
    BY DEF Init, SessionMatchesAccount, CastVoteSaw, VotePcs
  <2>4. QED
    BY <2>1, <2>2, <2>3 DEF IInv
<1>2. QED
  BY <1>1, IInvStep, PTL DEF Spec

-----------------------------------------------------------------------------
(***************************************************************************)
(* The results.                                                            *)
(***************************************************************************)

\* No voter ever has two votes, however many terminals the account is logged in
\* at and however their castVote() steps interleave.
THEOREM OneVote == Spec => []OneVotePerVoter
<1>1. IInv => OneVotePerVoter
  BY DEF IInv, DataInv
<1>2. QED
  BY <1>1, InductiveInvariant, PTL

\* Every vote stored is of a voter account approved at some time and for a
\* candidate account approved at some time by an administrator.
THEOREM BallotsSound == Spec => []BallotIntegrity
<1>1. IInv => BallotIntegrity
  BY DEF IInv, DataInv
<1>2. QED
  BY <1>1, InductiveInvariant, PTL

\* Every "Vote cast successfully!" stands for a stored vote, for good.
THEOREM ReceiptsStand == Spec => []ReceiptsHonoured
<1>1. IInv => ReceiptsHonoured
  BY DEF IInv, DataInv
<1>2. QED
  BY <1>1, InductiveInvariant, PTL

\* The menu a terminal shows is the one for its account's role.
THEOREM SessionsSound == Spec => []SessionMatchesAccount
<1>1. IInv => SessionMatchesAccount
  BY DEF IInv
<1>2. QED
  BY <1>1, InductiveInvariant, PTL

\* One application per account, in the table of its role.
THEOREM ApplicationsSound == Spec => []ApplicationsWellFormed
<1>1. IInv => ApplicationsWellFormed
  BY DEF IInv, DataInv
<1>2. QED
  BY <1>1, InductiveInvariant, PTL

\* No candidate gets on the ballot list without an administrator.
THEOREM BallotListSound == Spec => []BallotListApprovedByAdmin
<1>1. IInv => BallotListApprovedByAdmin
  BY DEF IInv, DataInv
<1>2. QED
  BY <1>1, InductiveInvariant, PTL

\* A login never has two accounts to choose from.
THEOREM LoginsUnambiguous == Spec => []LoginUnambiguous
<1>1. IInv => LoginUnambiguous
  BY DEF IInv, DataInv, AccountsDistinct, LoginUnambiguous, LoginMatches
<1>2. QED
  BY <1>1, InductiveInvariant, PTL
=============================================================================
