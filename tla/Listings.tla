------------------------------ MODULE Listings ------------------------------
(***************************************************************************)
(* The lists and status views: viewPendingVoters(), viewPendingCandidates()*)
(* viewApprovedCandidates(), viewMyVoterStatus(), viewMyCandidateStatus(). *)
(* They change no table, but people act on them: the id typed into         *)
(* approveReject() or castVote() was read on a list that may be old by     *)
(* then.  screen[t] is the list that was last printed at terminal t; it    *)
(* stays in the mind of whoever read it when the window is closed.         *)
(***************************************************************************)
EXTENDS Tally

VARIABLE screen

listVars == <<vars, screen>>

\* Mutated: JOIN users u ON u.id = vp.id.
ListedById(table, profiles, status) ==
    {[table |-> table, id |-> p.id, user |-> p.id, status |-> status] :
        p \in {q \in profiles : q.status = status /\ References(users, q.id)}}

\* FROM profiles JOIN users u ON u.id = user_id WHERE status = ...: a row for
\* each application of this status whose owner the JOIN finds.
Listed(table, profiles, status) ==
    {[table |-> table, id |-> p.id, user |-> p.user_id, status |-> status] :
        p \in {q \in profiles : q.status = status /\ References(users, q.user_id)}}

viewPendingVoters == Listed("voter_profiles", voter_profiles, "PENDING")

viewPendingCandidates == Listed("candidate_profiles", candidate_profiles, "PENDING")

viewApprovedCandidates == Listed("candidate_profiles", candidate_profiles, "APPROVED")

\* SELECT ... WHERE user_id = ?, of which the first row's status is printed;
\* no row means no application.
MyStatus(profiles, user) == {p.status : p \in {q \in profiles : q.user_id = user}}

viewMyVoterStatus(user) == MyStatus(voter_profiles, user)

viewMyCandidateStatus(user) == MyStatus(candidate_profiles, user)

-----------------------------------------------------------------------------

\* The lists on offer where terminal t is; castVote() prints one itself before
\* it asks for the candidate.
Offered(t) ==
    {list \in {viewPendingVoters, viewPendingCandidates, viewApprovedCandidates} :
        \/ pc[t] = "ADMIN" /\ list \in {viewPendingVoters, viewPendingCandidates}
        \/ pc[t] = "FIELD_OFFICER" /\ list = viewPendingVoters
        \/ pc[t] \in {"VOTER", "vote_prompt"} /\ list = viewApprovedCandidates}

Look(t) ==
    /\ conn[t]
    /\ \E list \in Offered(t) : screen' = [screen EXCEPT ![t] = list]
    /\ UNCHANGED vars

ListInit == Init /\ screen = [t \in Terminals |-> {}]

ListNext == (Next /\ UNCHANGED screen) \/ \E t \in Terminals : Look(t)

ListSpec == ListInit /\ [][ListNext]_listVars

-----------------------------------------------------------------------------

Profiles(table) == IF table = "voter_profiles" THEN voter_profiles ELSE candidate_profiles

\* An id read on a list, however long ago and whatever was decided since, still
\* names the application of the same person when it is typed, and one that was
\* decided has not become undecided.
ListedMeansSame ==
    \A t \in Terminals : \A r \in screen[t] :
        \E p \in Profiles(r.table) :
            /\ p.id = r.id /\ p.user_id = r.user
            /\ r.status # "PENDING" => p.status # "PENDING"

Once(list) == \A r, s \in list : r.id = s.id \/ r.user = s.user => r = s

\* The lists and the applicants' own views tell one story.  A pending application
\* is on its list, once, with its owner, exactly while the owner reads PENDING;
\* the candidates voters may choose from are those who read APPROVED, those whose
\* id castVote() accepts and those on the leaderboard.
ListsAgree ==
    /\ Once(viewPendingVoters) /\ Once(viewPendingCandidates) /\ Once(viewApprovedCandidates)
    /\ \A u \in users :
          /\ (\E r \in viewPendingVoters : r.user = u.id)
                <=> viewMyVoterStatus(u.id) = {"PENDING"}
          /\ (\E r \in viewPendingCandidates : r.user = u.id)
                <=> viewMyCandidateStatus(u.id) = {"PENDING"}
          /\ (\E r \in viewApprovedCandidates : r.user = u.id)
                <=> viewMyCandidateStatus(u.id) = {"APPROVED"}
    /\ {<<r.id, r.user>> : r \in viewApprovedCandidates}
          = {<<p.id, p.user_id>> : p \in {q \in candidate_profiles : q.status = "APPROVED"}}
    /\ {<<r.id, r.user>> : r \in viewApprovedCandidates}
          = {<<r.id, r.user>> : r \in ResultRows}

Pending == viewPendingVoters \cup viewPendingCandidates

\* This step is approveReject() at terminal t, whose menu decides on applications
\* like r, and r is still there, still of the same person, with a decision.
Decided(r, t) ==
    /\ pc[t] = "ADMIN" \/ (pc[t] = "FIELD_OFFICER" /\ r.table = "voter_profiles")
    /\ approveReject(t)
    /\ \E p \in Profiles(r.table)' :
          p.id = r.id /\ p.user_id = r.user /\ p.status \in {"APPROVED", "REJECTED"}

\* An application leaves the list of pending ones by a decision on it and not
\* otherwise: none drops out by a race, a crash, a second try or the decision on
\* another one.
PendingUntilDecided ==
    [][\A r \in Pending \ Pending' :
          /\ \E t \in Terminals : Decided(r, t)
          /\ \A s \in Pending \ Pending' : s = r]_listVars
=============================================================================
