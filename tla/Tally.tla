-------------------------------- MODULE Tally -------------------------------
(***************************************************************************)
(* viewResults(): the leaderboard the administrator sees, as its SELECT    *)
(* returns it over the tables of OnlineVotingApp.  The statement reads one *)
(* consistent state, so it is an operator on that state.  A row's rank is  *)
(* its place in the order the rows come in.                                *)
(***************************************************************************)
EXTENDS VotingProperties, FiniteSets, Functions

\* Mutated: the vote's candidate is compared with the application's own id.
VotesForById(p) == {v \in votes : v.candidate_id = p.id}

\* Mutated: a vote counts only while its voter's application stays approved.
VotesForOfApproved(p) ==
    {v \in votes : v.candidate_id = p.user_id /\ IsApproved(voter_profiles, v.voter_id)}

\* LEFT JOIN votes v ON v.candidate_id = cp.user_id: the votes that fall to one
\* application, which are none for a candidate nobody chose.
VotesFor(p) == {v \in votes : v.candidate_id = p.user_id}

\* The rows: one for each approved application (GROUP BY cp.id) whose owner the
\* JOIN finds.
ResultRows ==
    {[id |-> p.id, user |-> p.user_id, count |-> Cardinality(VotesFor(p))] :
        p \in {q \in candidate_profiles :
                  q.status = "APPROVED" /\ References(users, q.user_id)}}

\* Mutated: ORDER BY votes, which is ascending.
viewResultsAscending ==
    {board \in Bijection(1 .. Cardinality(ResultRows), ResultRows) :
        \A i, j \in DOMAIN board : i < j => board[i].count <= board[j].count}

\* What may be printed: the rows by ORDER BY votes DESC, where the server is free
\* to order rows with equal counts.  board[rank] is the row printed as #rank, as
\* rank++ gives one number to each row, ties included.
viewResults ==
    {board \in Bijection(1 .. Cardinality(ResultRows), ResultRows) :
        \A i, j \in DOMAIN board : i < j => board[i].count >= board[j].count}

\* The sum of the counts, as the number of strokes a tally by hand would have:
\* one for each row and each vote the row counts.
Strokes == UNION {{r} \X (1 .. r.count) : r \in ResultRows}
Shown == Cardinality(Strokes)

-----------------------------------------------------------------------------

\* The leaderboard counts every vote for a candidate now approved once, and no
\* other vote: not twice through the joins, not under another candidate's row.
EveryVoteCountedOnce ==
    Shown = Cardinality({v \in votes : IsApproved(candidate_profiles, v.candidate_id)})

\* The board never shows more votes than voters were approved, whatever a voter
\* tries and however the approvals of voters and candidates come and go.
TurnoutBounded == Shown <= Cardinality(Electorate)

OnBallot == {c \in Ids("users") : IsApproved(candidate_profiles, c)}

ChosenBy(c) == {v.voter_id : v \in {w \in votes : w.candidate_id = c}}

\* "ORDER BY votes DESC puts the winner at the top": every candidate now approved
\* has exactly one rank, and of two the one whom more voters chose has the better
\* one, in whatever order ties come.
RanksFollowVoters ==
    \A board \in viewResults :
        /\ {board[rank].user : rank \in DOMAIN board} = OnBallot
        /\ \A i, j \in DOMAIN board :
              /\ board[i].user = board[j].user => i = j
              /\ Cardinality(ChosenBy(board[i].user)) > Cardinality(ChosenBy(board[j].user))
                    => i < j

\* While a candidate stays on the leaderboard its count does not fall, whatever
\* becomes of its voters' applications.
CountsNeverFall ==
    [][\A r \in ResultRows, s \in ResultRows' :
          r.user = s.user => s.count >= r.count]_vars
=============================================================================
