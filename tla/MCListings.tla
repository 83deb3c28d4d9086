----------------------------- MODULE MCListings -----------------------------
(* An instance of Listings for TLC: one voter and one candidate, with room   *)
(* for a second application of the voter.                                    *)
EXTENDS Listings, TLC

MCCollate == [u \in Usernames |-> u]

MCRegistrations ==
    {[username |-> "ann", password |-> "pw", role |-> "VOTER"],
     [username |-> "bob", password |-> "pw", role |-> "CANDIDATE"]}

MCMaxId == [users |-> 3, voter_profiles |-> 2, candidate_profiles |-> 1, votes |-> 1]

Sym == Permutations(Terminals)
=============================================================================
