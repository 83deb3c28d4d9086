------------------------------ MODULE MCTally -------------------------------
(* An instance of Tally for TLC: as many voters and candidates as the        *)
(* configuration names, alike but for their names.                           *)
EXTENDS Tally, TLC

CONSTANTS VoterNames, CandidateNames

MCUsernames == {"admin"} \cup VoterNames \cup CandidateNames

MCCollate == [u \in MCUsernames |-> u]

MCRegistrations ==
    [username : VoterNames, password : {"pw"}, role : {"VOTER"}]
        \cup [username : CandidateNames, password : {"pw"}, role : {"CANDIDATE"}]

MCMaxId ==
    [users              |-> Cardinality(MCUsernames),
     voter_profiles     |-> Cardinality(VoterNames),
     candidate_profiles |-> Cardinality(CandidateNames),
     votes              |-> Cardinality(VoterNames)]

Sym == Permutations(VoterNames) \cup Permutations(CandidateNames)
=============================================================================
