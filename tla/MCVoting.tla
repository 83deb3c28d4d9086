------------------------------ MODULE MCVoting ------------------------------
(* Instances of OnlineVotingApp for TLC.                                    *)
EXTENDS VotingProperties, TLC

\* "Ann" is "ann" to the database.
MCCollate == [u \in Usernames |-> IF u = "Ann" THEN "ann" ELSE u]

Acct(username, role) == [username |-> username, password |-> "pw", role |-> role]

\* One voter and one candidate; the seeded administrator decides.
PairRegistrations == {Acct("ann", "VOTER"), Acct("bob", "CANDIDATE")}

\* ... and a field officer.
PollRegistrations == PairRegistrations \cup {Acct("oli", "FIELD_OFFICER")}

\* The same name with other roles, another spelling, and a role that is none.
NameRegistrations ==
    {Acct("ann", "VOTER"), Acct("Ann", "ADMIN"), Acct("ann", "CANDIDATE"),
     Acct("admin", "VOTER"), Acct("bob", "MAYOR"), Acct("bob", "CANDIDATE")}

PairMaxId == [users |-> 3, voter_profiles |-> 1, candidate_profiles |-> 1, votes |-> 2]
PollMaxId == [users |-> 4, voter_profiles |-> 2, candidate_profiles |-> 2, votes |-> 2]
NameMaxId == [users |-> 4, voter_profiles |-> 1, candidate_profiles |-> 1, votes |-> 2]

Sym == Permutations(Terminals)
=============================================================================
