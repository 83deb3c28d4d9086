------------------------------ MODULE MCLaunch ------------------------------
(* Instances of Launch for TLC.                                             *)
EXTENDS Launch

\* "Admin" is "admin" to the database.
MCCollate == [u \in Usernames |-> IF u = "Admin" THEN "admin" ELSE u]

\* Someone who would be the administrator, and somebody else.
MCRegistrations ==
    {[username |-> "Admin", password |-> "pw", role |-> "VOTER"],
     [username |-> "bob", password |-> "pw", role |-> "CANDIDATE"]}

MCMaxId == [users |-> 3, voter_profiles |-> 0, candidate_profiles |-> 1, votes |-> 0]
=============================================================================
