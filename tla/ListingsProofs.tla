--------------------------- MODULE ListingsProofs ---------------------------
(***************************************************************************)
(* Proofs about what the program shows: the leaderboard of Tally and the   *)
(* lists of Listings.                                                      *)
(***************************************************************************)
EXTENDS Listings, VotingRefinement, FiniteSetTheorems, FunctionTheorems

-----------------------------------------------------------------------------
(***************************************************************************)
(* The leaderboard.                                                        *)
(***************************************************************************)

\* There are finitely many votes at any time, so that counting them means
\* something.
LEMMA FinitelyManyVotes == Spec => []IsFiniteSet(votes)
<1>1. Init => IsFiniteSet(votes)
  BY FS_EmptySet DEF Init
<1>2. TypeOK /\ IsFiniteSet(votes) /\ [Next]_vars => IsFiniteSet(votes)'
  <2> SUFFICES ASSUME TypeOK, IsFiniteSet(votes), [Next]_vars PROVE IsFiniteSet(votes')
    OBVIOUS
  <2>1. votes' = votes \/ \E row : votes' = votes \cup {row}
    BY StepKinds DEF StoresVote
  <2>2. QED
    BY <2>1, FS_AddElement
<1>3. QED
  BY <1>1, <1>2, TypeCorrect, PTL DEF Spec

\* The count of a candidate who is on the leaderboard before and after a step
\* does not fall.
THEOREM CountsStand == Spec => CountsNeverFall
<1> DEFINE Step == \A r \in ResultRows, s \in ResultRows' :
                      r.user = s.user => s.count >= r.count
<1>1. TypeOK /\ IsFiniteSet(votes) /\ IsFiniteSet(votes)' /\ [Next]_vars => [Step]_vars
  <2> SUFFICES ASSUME TypeOK, IsFiniteSet(votes), IsFiniteSet(votes'), Next,
                      NEW r \in ResultRows, NEW s \in ResultRows', r.user = s.user
               PROVE  s.count >= r.count
    OBVIOUS
  <2>1. votes \subseteq votes'
    BY StepKinds DEF StoresVote
  <2> DEFINE Before(user) == {v \in votes : v.candidate_id = user}
             Later(user) == {v \in votes' : v.candidate_id = user}
  <2>2. r.count = Cardinality(Before(r.user))
    <3>1. PICK p \in candidate_profiles :
             r = [id |-> p.id, user |-> p.user_id, count |-> Cardinality(Before(p.user_id))]
      BY DEF ResultRows, VotesFor
    <3>2. QED
      BY <3>1
  <2>3. s.count = Cardinality(Later(s.user))
    <3>1. PICK p \in candidate_profiles' :
             s = [id |-> p.id, user |-> p.user_id, count |-> Cardinality(Later(p.user_id))]
      BY DEF ResultRows, VotesFor
    <3>2. QED
      BY <3>1
  <2>4. Before(r.user) \subseteq Later(r.user) /\ Later(r.user) \subseteq votes'
    BY <2>1
  <2> HIDE DEF Before, Later
  <2>5. IsFiniteSet(Later(r.user))
    BY <2>4, FS_Subset
  <2>6. Cardinality(Before(r.user)) <= Cardinality(Later(r.user))
    BY <2>4, <2>5, FS_Subset
  <2>7. Cardinality(Before(r.user)) \in Nat /\ Cardinality(Later(r.user)) \in Nat
    BY <2>4, <2>5, FS_Subset, FS_CardinalityType
  <2>8. QED
    BY <2>2, <2>3, <2>6, <2>7
<1>2. QED
  BY <1>1, TypeCorrect, FinitelyManyVotes, PTL DEF Spec, CountsNeverFall

\* The applications that have a row, and how the votes fall to them.
Ranked == {p \in candidate_profiles :
             p.status = "APPROVED" /\ References(users, p.user_id)}

RowsPartitionVotes ==
    \A v \in votes :
        /\ IsApproved(candidate_profiles, v.candidate_id) <=> \E p \in Ranked : v \in VotesFor(p)
        /\ \A p, q \in Ranked : v \in VotesFor(p) /\ v \in VotesFor(q) => p = q

\* A vote for a candidate now approved falls to exactly one row of the board and
\* any other vote to none: the counts add up to the votes counted.
THEOREM RowsPartition == Spec => []RowsPartitionVotes
<1>1. IInv => RowsPartitionVotes
  <2> SUFFICES ASSUME IInv, NEW v \in votes
               PROVE  /\ IsApproved(candidate_profiles, v.candidate_id)
                            <=> \E p \in Ranked : v \in VotesFor(p)
                      /\ \A p, q \in Ranked : v \in VotesFor(p) /\ v \in VotesFor(q) => p = q
    BY DEF RowsPartitionVotes
  <2>1. /\ OneEach(candidate_profiles)
        /\ \A p \in candidate_profiles : References(users, p.user_id)
    BY DEF IInv, DataInv, ApplicationsWellFormed, HasRole, References
  <2>2. IsApproved(candidate_profiles, v.candidate_id) <=> \E p \in Ranked : v \in VotesFor(p)
    BY <2>1 DEF IsApproved, Ranked, VotesFor
  <2>3. \A p, q \in Ranked : v \in VotesFor(p) /\ v \in VotesFor(q) => p = q
    BY <2>1 DEF Ranked, VotesFor, OneEach
  <2>4. QED
    BY <2>2, <2>3
<1>2. QED
  BY <1>1, InductiveInvariant, PTL

\* Counting the parts of a set one by one counts the set, if no element is in two
\* parts: number the elements of each part, and the pairs of a part and a number
\* stand for the elements.
LEMMA PartsAddUp ==
    ASSUME NEW whole, IsFiniteSet(whole), NEW R, NEW part \in [R -> SUBSET whole],
           \A r, s \in R : \A v \in part[r] : v \in part[s] => r = s
    PROVE  Cardinality(UNION {{r} \X (1 .. Cardinality(part[r])) : r \in R})
              = Cardinality(UNION {part[r] : r \in R})
<1> DEFINE pairs == UNION {{r} \X (1 .. Cardinality(part[r])) : r \in R}
           union == UNION {part[r] : r \in R}
           number == [r \in R |-> CHOOSE f : f \in Bijection(1 .. Cardinality(part[r]), part[r])]
           g == [x \in pairs |-> number[x[1]][x[2]]]
<1>1. ASSUME NEW r \in R
      PROVE  number[r] \in Bijection(1 .. Cardinality(part[r]), part[r])
  <2>1. IsFiniteSet(part[r])
    BY FS_Subset
  <2>2. \E f : f \in Bijection(1 .. Cardinality(part[r]), part[r])
    BY <2>1, FS_CardinalityType, Fun_ExistsBij
  <2>3. QED
    BY <2>2
<1>2. ASSUME NEW x \in pairs
      PROVE  x[1] \in R /\ x[2] \in 1 .. Cardinality(part[x[1]]) /\ x = <<x[1], x[2]>>
  OBVIOUS
<1>3. ASSUME NEW r \in R, NEW k \in 1 .. Cardinality(part[r])
      PROVE  <<r, k>> \in pairs
  OBVIOUS
<1> HIDE DEF pairs, number
<1>4. ASSUME NEW r \in R
      PROVE  /\ number[r] \in [1 .. Cardinality(part[r]) -> part[r]]
             /\ \A i, j \in 1 .. Cardinality(part[r]) : number[r][i] = number[r][j] => i = j
             /\ \A v \in part[r] : \E k \in 1 .. Cardinality(part[r]) : number[r][k] = v
  <2> DEFINE f == number[r]
             numbers == 1 .. Cardinality(part[r])
  <2>1. f \in Bijection(numbers, part[r])
    BY <1>1
  <2> HIDE DEF f, numbers
  <2>2. /\ f \in [numbers -> part[r]]
        /\ \A i, j \in numbers : f[i] = f[j] => i = j
        /\ \A v \in part[r] : \E k \in numbers : f[k] = v
    BY <2>1, Fun_BijectionProperties
  <2>3. QED
    BY <2>2 DEF f, numbers
<1>a. ASSUME NEW x \in pairs PROVE number[x[1]][x[2]] \in part[x[1]]
  <2>1. x[1] \in R /\ x[2] \in 1 .. Cardinality(part[x[1]])
    BY <1>2
  <2>2. number[x[1]] \in [1 .. Cardinality(part[x[1]]) -> part[x[1]]]
    BY <1>4, <2>1
  <2>3. QED
    BY <2>1, <2>2
<1>5. g \in [pairs -> union]
  BY <1>2, <1>a
<1>6. \A x, y \in pairs : g[x] = g[y] => x = y
  <2> SUFFICES ASSUME NEW x \in pairs, NEW y \in pairs, g[x] = g[y] PROVE x = y
    OBVIOUS
  <2>1. number[x[1]][x[2]] = number[y[1]][y[2]]
    OBVIOUS
  <2>2. x[1] = y[1]
    BY <1>2, <1>a, <2>1
  <2>3. x[2] = y[2]
    BY <1>2, <1>4, <2>1, <2>2
  <2>4. QED
    BY <1>2, <2>2, <2>3
<1>7. \A v \in union : \E x \in pairs : g[x] = v
  <2> SUFFICES ASSUME NEW v \in union PROVE \E x \in pairs : g[x] = v
    OBVIOUS
  <2>1. PICK r \in R : v \in part[r]
    OBVIOUS
  <2>2. PICK k \in 1 .. Cardinality(part[r]) : number[r][k] = v
    BY <1>4, <2>1
  <2>3. <<r, k>> \in pairs /\ g[<<r, k>>] = v
    BY <1>3, <2>2
  <2>4. QED
    BY <2>3
<1> HIDE DEF g
<1>8. g \in Bijection(pairs, union)
  BY <1>5, <1>6, <1>7, Fun_IsBij
<1>9. ExistsBijection(union, pairs)
  BY <1>8, Fun_ExistsBij, Fun_ExistsBijSymmetric
<1>10. IsFiniteSet(union)
  <2>1. union \in SUBSET whole
    OBVIOUS
  <2>2. QED
    BY <2>1, FS_Subset
<1>11. Cardinality(pairs) = Cardinality(union)
  BY <1>9, <1>10, FS_Bijection
<1>12. QED
  BY <1>11 DEF pairs

\* Each candidate now approved has one row, which counts the votes for it, and
\* there are no other rows.
LEMMA RowsOfBoard ==
    ASSUME IInv
    PROVE  /\ \A r \in ResultRows :
                 /\ r.user \in OnBallot
                 /\ r.count = Cardinality({v \in votes : v.candidate_id = r.user})
           /\ \A c \in OnBallot : \E r \in ResultRows : r.user = c
           /\ \A r, s \in ResultRows : r.user = s.user => r = s
<1>1. /\ OneEach(candidate_profiles)
      /\ \A p \in candidate_profiles : References(users, p.user_id)
      /\ \A p \in candidate_profiles : p.user_id \in Ids("users")
  BY DEF IInv, DataInv, TypeOK, ProfileRow, ApplicationsWellFormed, HasRole, References
<1>2. ASSUME NEW r \in ResultRows
      PROVE  \E p \in candidate_profiles :
                /\ p.status = "APPROVED" /\ r.user = p.user_id
                /\ r.count = Cardinality(VotesFor(p))
                /\ r = [id |-> p.id, user |-> p.user_id, count |-> Cardinality(VotesFor(p))]
  BY DEF ResultRows
<1>3. ASSUME NEW c \in OnBallot PROVE \E r \in ResultRows : r.user = c
  <2>1. PICK p \in candidate_profiles : p.status = "APPROVED" /\ p.user_id = c
    BY DEF OnBallot, IsApproved
  <2> DEFINE r == [id |-> p.id, user |-> p.user_id, count |-> Cardinality(VotesFor(p))]
  <2>2. r \in ResultRows
    BY <1>1, <2>1 DEF ResultRows
  <2>3. r.user = c
    BY <2>1
  <2>4. QED
    BY <2>2, <2>3
<1>4. \A r, s \in ResultRows : r.user = s.user => r = s
  BY <1>1, <1>2 DEF OneEach
<1>5. ASSUME NEW r \in ResultRows
      PROVE  /\ r.user \in OnBallot
             /\ r.count = Cardinality({v \in votes : v.candidate_id = r.user})
  <2>1. PICK p \in candidate_profiles :
           /\ p.status = "APPROVED" /\ r.user = p.user_id
           /\ r.count = Cardinality(VotesFor(p))
    BY <1>2
  <2>2. r.user \in OnBallot
    BY <1>1, <2>1 DEF OnBallot, IsApproved
  <2>3. VotesFor(p) = {v \in votes : v.candidate_id = r.user}
    BY <2>1 DEF VotesFor
  <2>4. QED
    BY <2>1, <2>2, <2>3
<1>6. QED
  BY <1>3, <1>4, <1>5

\* The sum of the counts on the board is the number of votes for candidates now
\* approved, however many rows there are.
THEOREM BoardAddsUp == Spec => []EveryVoteCountedOnce
<1>1. IInv /\ IsFiniteSet(votes) => EveryVoteCountedOnce
  <2> SUFFICES ASSUME IInv, IsFiniteSet(votes) PROVE EveryVoteCountedOnce
    OBVIOUS
  <2> DEFINE part == [r \in ResultRows |-> {v \in votes : v.candidate_id = r.user}]
             counted == {v \in votes : IsApproved(candidate_profiles, v.candidate_id)}
  <2>1. \A v \in votes : v.candidate_id \in Ids("users")
    BY DEF IInv, DataInv, TypeOK, VoteRow
  <2>2. \A r \in ResultRows : r.user \in OnBallot /\ r.count = Cardinality(part[r])
    BY RowsOfBoard
  <2>3. \A c \in OnBallot : \E r \in ResultRows : r.user = c
    BY RowsOfBoard
  <2>4. \A r, s \in ResultRows : r.user = s.user => r = s
    BY RowsOfBoard
  <2>5. \A r \in ResultRows : r.count = Cardinality(part[r])
    BY <2>2
  <2>6. part \in [ResultRows -> SUBSET votes]
    OBVIOUS
  <2>7. \A r, s \in ResultRows : \A v \in part[r] : v \in part[s] => r = s
    BY <2>4
  <2>8. UNION {part[r] : r \in ResultRows} = counted
    <3>1. ASSUME NEW v \in votes
          PROVE  v \in counted <=> \E r \in ResultRows : v \in part[r]
      BY <2>1, <2>2, <2>3 DEF OnBallot
    <3>2. \A r \in ResultRows : part[r] \subseteq votes
      OBVIOUS
    <3> HIDE DEF part
    <3>3. QED
      BY <3>1, <3>2
  <2>9. Strokes = UNION {{r} \X (1 .. Cardinality(part[r])) : r \in ResultRows}
    <3> HIDE DEF part
    <3> QED
      BY <2>5 DEF Strokes
  <2> HIDE DEF part
  <2>10. Cardinality(Strokes) = Cardinality(counted)
    BY <2>6, <2>7, <2>8, <2>9, PartsAddUp
  <2>11. QED
    BY <2>10 DEF EveryVoteCountedOnce, Shown
<1>2. QED
  BY <1>1, InductiveInvariant, FinitelyManyVotes, PTL

\* Every vote shown is of a voter of its own, who was approved.
THEOREM TurnoutWithinElectorate == Spec => []TurnoutBounded
<1>1. IInv /\ IsFiniteSet(votes) /\ EveryVoteCountedOnce => TurnoutBounded
  <2> SUFFICES ASSUME IInv, IsFiniteSet(votes), EveryVoteCountedOnce PROVE TurnoutBounded
    OBVIOUS
  <2> DEFINE counted == {v \in votes : IsApproved(candidate_profiles, v.candidate_id)}
             voter == [v \in counted |-> v.voter_id]
  <2>1. OneVotePerVoter /\ BallotIntegrity /\ votes \subseteq VoteRow
    BY DEF IInv, DataInv, TypeOK
  <2>2. voter \in [counted -> Electorate]
    BY <2>1 DEF BallotIntegrity, Electorate, VoteRow
  <2>3. \A v, w \in counted : voter[v] = voter[w] => v = w
    BY <2>1 DEF OneVotePerVoter
  <2> HIDE DEF counted, voter
  <2>4. voter \in Injection(counted, Electorate)
    BY <2>2, <2>3, Fun_IsInj
  <2>5. IsFiniteSet(Electorate)
    <3>1. IsFiniteSet(Ids("users"))
      BY SchemaAssumption, FS_Interval DEF Ids, Tables
    <3>2. Electorate \in SUBSET Ids("users")
      BY DEF Electorate
    <3>3. QED
      BY <3>1, <3>2, FS_Subset
  <2>6. Cardinality(counted) <= Cardinality(Electorate)
    BY <2>4, <2>5, FS_Injection
  <2>7. QED
    BY <2>6 DEF TurnoutBounded, EveryVoteCountedOnce, counted
<1>2. QED
  BY <1>1, InductiveInvariant, FinitelyManyVotes, BoardAddsUp, PTL

\* As nobody has two votes, the count of a row is the number of people who chose
\* the candidate.
LEMMA VotesAreVoters ==
    ASSUME IInv, IsFiniteSet(votes), NEW c
    PROVE  /\ Cardinality({v \in votes : v.candidate_id = c}) = Cardinality(ChosenBy(c))
           /\ Cardinality(ChosenBy(c)) \in Nat
<1> DEFINE ballots == {v \in votes : v.candidate_id = c}
           voter == [v \in ballots |-> v.voter_id]
<1>1. \A v, w \in ballots : v.voter_id = w.voter_id => v = w
  BY DEF IInv, DataInv, OneVotePerVoter
<1>2. ChosenBy(c) = {v.voter_id : v \in ballots}
  BY DEF ChosenBy
<1>3. IsFiniteSet(ballots)
  BY FS_Subset
<1>4. voter \in [ballots -> ChosenBy(c)]
  BY <1>2
<1>5. \A v, w \in ballots : voter[v] = voter[w] => v = w
  BY <1>1
<1>6. \A x \in ChosenBy(c) : \E v \in ballots : voter[v] = x
  BY <1>2
<1> HIDE DEF ballots, voter
<1>7. voter \in Bijection(ballots, ChosenBy(c))
  BY <1>4, <1>5, <1>6, Fun_IsBij
<1>8. ExistsBijection(ballots, ChosenBy(c))
  BY <1>7, Fun_ExistsBij
<1>9. IsFiniteSet(ChosenBy(c)) /\ Cardinality(ChosenBy(c)) = Cardinality(ballots)
  BY <1>3, <1>8, FS_Bijection
<1>10. QED
  BY <1>9, FS_CardinalityType DEF ballots

\* There are finitely many rows, since each has an account of its own.
LEMMA FinitelyManyRows ==
    ASSUME IInv
    PROVE  IsFiniteSet(ResultRows) /\ Cardinality(ResultRows) \in Nat
<1> DEFINE owner == [r \in ResultRows |-> r.user]
<1>1. owner \in [ResultRows -> Ids("users")]
  BY RowsOfBoard DEF OnBallot
<1>2. \A r, s \in ResultRows : owner[r] = owner[s] => r = s
  BY RowsOfBoard
<1> HIDE DEF owner
<1>3. owner \in Injection(ResultRows, Ids("users"))
  BY <1>1, <1>2, Fun_IsInj
<1>4. IsFiniteSet(Ids("users"))
  BY SchemaAssumption, FS_Interval DEF Ids, Tables
<1>5. IsFiniteSet(ResultRows)
  BY <1>3, <1>4, FS_Injection
<1>6. QED
  BY <1>5, FS_CardinalityType

\* Whatever the order of ties, the board ranks each approved candidate once, and
\* above everyone whom fewer voters chose.
THEOREM RanksAreFair == Spec => []RanksFollowVoters
<1>1. IInv /\ IsFiniteSet(votes) => RanksFollowVoters
  <2> SUFFICES ASSUME IInv, IsFiniteSet(votes), NEW board \in viewResults
               PROVE  /\ {board[rank].user : rank \in DOMAIN board} = OnBallot
                      /\ \A i, j \in DOMAIN board :
                            /\ board[i].user = board[j].user => i = j
                            /\ Cardinality(ChosenBy(board[i].user))
                                  > Cardinality(ChosenBy(board[j].user)) => i < j
    BY DEF RanksFollowVoters
  <2> DEFINE ranks == 1 .. Cardinality(ResultRows)
  <2>1. board \in Bijection(ranks, ResultRows)
    BY DEF viewResults
  <2>2. \A i, j \in DOMAIN board : i < j => board[i].count >= board[j].count
    BY DEF viewResults
  <2>3. ranks \subseteq Nat
    BY FinitelyManyRows
  <2> HIDE DEF ranks
  <2>4. /\ board \in [ranks -> ResultRows]
        /\ \A i, j \in ranks : board[i] = board[j] => i = j
        /\ \A r \in ResultRows : \E i \in ranks : board[i] = r
    BY <2>1, Fun_BijectionProperties
  <2>5. \A r \in ResultRows :
           /\ r.user \in OnBallot
           /\ r.count = Cardinality(ChosenBy(r.user)) /\ r.count \in Nat
    <3> SUFFICES ASSUME NEW r \in ResultRows
                 PROVE  /\ r.user \in OnBallot
                        /\ r.count = Cardinality(ChosenBy(r.user)) /\ r.count \in Nat
      OBVIOUS
    <3>1. /\ r.user \in OnBallot
          /\ r.count = Cardinality({v \in votes : v.candidate_id = r.user})
      BY RowsOfBoard
    <3>2. /\ Cardinality({v \in votes : v.candidate_id = r.user})
                = Cardinality(ChosenBy(r.user))
          /\ Cardinality(ChosenBy(r.user)) \in Nat
      BY VotesAreVoters
    <3>3. QED
      BY <3>1, <3>2
  <2>6. {board[rank].user : rank \in DOMAIN board} = OnBallot
    <3>1. \A rank \in ranks : board[rank].user \in OnBallot
      BY <2>4, <2>5
    <3>2. \A c \in OnBallot : \E rank \in ranks : board[rank].user = c
      BY <2>4, RowsOfBoard
    <3>3. DOMAIN board = ranks
      BY <2>4
    <3>4. QED
      BY <3>1, <3>2, <3>3
  <2>7. ASSUME NEW i \in DOMAIN board, NEW j \in DOMAIN board,
               board[i].user = board[j].user
        PROVE  i = j
    BY <2>4, <2>7, RowsOfBoard
  <2>8. ASSUME NEW i \in DOMAIN board, NEW j \in DOMAIN board,
               Cardinality(ChosenBy(board[i].user)) > Cardinality(ChosenBy(board[j].user))
        PROVE  i < j
    <3>1. i \in Nat /\ j \in Nat /\ board[i] \in ResultRows /\ board[j] \in ResultRows
      BY <2>3, <2>4
    <3>2. board[i].count > board[j].count /\ board[i].count \in Nat /\ board[j].count \in Nat
      BY <2>5, <2>8, <3>1
    <3>3. ~(j < i) /\ i # j
      BY <2>2, <3>2
    <3>4. QED
      BY <3>1, <3>3
  <2>9. QED
    BY <2>6, <2>7, <2>8
<1>2. QED
  BY <1>1, InductiveInvariant, FinitelyManyVotes, PTL

-----------------------------------------------------------------------------
(***************************************************************************)
(* The lists.                                                              *)
(***************************************************************************)

\* Looking at lists disturbs nothing.
LEMMA ListSpecIsSpec == ListSpec => Spec
<1>1. ListInit => Init
  BY DEF ListInit
<1>2. [ListNext]_listVars => [Next]_vars
  BY DEF ListNext, listVars, Look
<1>3. QED
  BY <1>1, <1>2, PTL DEF ListSpec, Spec

\* What is on a list ...
LEMMA ListedRows ==
    ASSUME NEW table, NEW profiles, NEW status, NEW r \in Listed(table, profiles, status)
    PROVE  /\ r.table = table /\ r.status = status
           /\ \E p \in profiles : p.id = r.id /\ p.user_id = r.user /\ p.status = status
<1>1. PICK p \in profiles :
         /\ r = [table |-> table, id |-> p.id, user |-> p.user_id, status |-> status]
         /\ p.status = status
  BY DEF Listed
<1>2. QED
  BY <1>1

\* ... and that it names every application of its status.
LEMMA ListedAll ==
    ASSUME NEW table, NEW profiles, NEW status, NEW p \in profiles,
           p.status = status, References(users, p.user_id)
    PROVE  \E r \in Listed(table, profiles, status) : r.id = p.id /\ r.user = p.user_id
<1> DEFINE r == [table |-> table, id |-> p.id, user |-> p.user_id, status |-> status]
<1>1. r \in Listed(table, profiles, status)
  BY DEF Listed
<1>2. QED
  BY <1>1

LEMMA ListedOnce ==
    ASSUME NEW table, NEW profiles, NEW status, OneEach(profiles)
    PROVE  Once(Listed(table, profiles, status))
<1> SUFFICES ASSUME NEW r \in Listed(table, profiles, status),
                    NEW s \in Listed(table, profiles, status),
                    r.id = s.id \/ r.user = s.user
             PROVE  r = s
  BY DEF Once
<1>1. PICK p \in profiles :
         r = [table |-> table, id |-> p.id, user |-> p.user_id, status |-> status]
  BY DEF Listed
<1>2. PICK q \in profiles :
         s = [table |-> table, id |-> q.id, user |-> q.user_id, status |-> status]
  BY DEF Listed
<1>3. p = q
  BY <1>1, <1>2 DEF OneEach
<1>4. QED
  BY <1>1, <1>2, <1>3

\* An owner reads the status of the one application there is.
LEMMA OwnerReads ==
    ASSUME NEW table, NEW profiles, NEW status, NEW user, OneEach(profiles),
           \A p \in profiles : References(users, p.user_id)
    PROVE  (\E r \in Listed(table, profiles, status) : r.user = user)
              <=> MyStatus(profiles, user) = {status}
<1>1. ASSUME NEW r \in Listed(table, profiles, status), r.user = user
      PROVE  MyStatus(profiles, user) = {status}
  <2>1. PICK p \in profiles : p.user_id = user /\ p.status = status
    BY <1>1 DEF Listed
  <2>2. \A q \in profiles : q.user_id = user => q = p
    BY <2>1 DEF OneEach
  <2>3. QED
    BY <2>1, <2>2 DEF MyStatus
<1>2. ASSUME MyStatus(profiles, user) = {status}
      PROVE  \E r \in Listed(table, profiles, status) : r.user = user
  <2>1. PICK p \in profiles : p.user_id = user /\ p.status = status
    BY <1>2 DEF MyStatus
  <2>2. QED
    BY <2>1, ListedAll
<1>3. QED
  BY <1>1, <1>2

\* The lists and the owners' views agree in every reachable state.
THEOREM ListsTellOneStory == ListSpec => []ListsAgree
<1>1. IInv => ListsAgree
  <2> SUFFICES ASSUME IInv PROVE ListsAgree
    OBVIOUS
  <2>1. /\ OneEach(voter_profiles) /\ OneEach(candidate_profiles)
        /\ \A p \in voter_profiles : References(users, p.user_id)
        /\ \A p \in candidate_profiles : References(users, p.user_id)
    BY DEF IInv, DataInv, ApplicationsWellFormed, HasRole, References
  <2>2. Once(viewPendingVoters) /\ Once(viewPendingCandidates) /\ Once(viewApprovedCandidates)
    BY <2>1, ListedOnce DEF viewPendingVoters, viewPendingCandidates, viewApprovedCandidates
  <2>3. ASSUME NEW u \in users
        PROVE  /\ (\E r \in viewPendingVoters : r.user = u.id)
                     <=> viewMyVoterStatus(u.id) = {"PENDING"}
               /\ (\E r \in viewPendingCandidates : r.user = u.id)
                     <=> viewMyCandidateStatus(u.id) = {"PENDING"}
               /\ (\E r \in viewApprovedCandidates : r.user = u.id)
                     <=> viewMyCandidateStatus(u.id) = {"APPROVED"}
    BY <2>1, OwnerReads DEF viewPendingVoters, viewPendingCandidates,
       viewApprovedCandidates, viewMyVoterStatus, viewMyCandidateStatus
  <2> DEFINE Named == {<<p.id, p.user_id>> : p \in {q \in candidate_profiles : q.status = "APPROVED"}}
  <2>4. {<<r.id, r.user>> : r \in viewApprovedCandidates} = Named
    <3>1. \A r \in viewApprovedCandidates : <<r.id, r.user>> \in Named
      BY ListedRows DEF viewApprovedCandidates
    <3>2. \A p \in candidate_profiles : p.status = "APPROVED" =>
             <<p.id, p.user_id>> \in {<<r.id, r.user>> : r \in viewApprovedCandidates}
      BY <2>1, ListedAll DEF viewApprovedCandidates
    <3>3. QED
      BY <3>1, <3>2
  <2>5. {<<r.id, r.user>> : r \in ResultRows} = Named
    <3>1. ASSUME NEW r \in ResultRows PROVE <<r.id, r.user>> \in Named
      <4>1. PICK p \in candidate_profiles :
               /\ p.status = "APPROVED"
               /\ r = [id |-> p.id, user |-> p.user_id, count |-> Cardinality(VotesFor(p))]
        BY DEF ResultRows
      <4>2. QED
        BY <4>1
    <3>2. ASSUME NEW p \in candidate_profiles, p.status = "APPROVED"
          PROVE  <<p.id, p.user_id>> \in {<<r.id, r.user>> : r \in ResultRows}
      <4> DEFINE row == [id |-> p.id, user |-> p.user_id, count |-> Cardinality(VotesFor(p))]
      <4>1. row \in ResultRows
        BY <2>1, <3>2 DEF ResultRows
      <4>2. row.id = p.id /\ row.user = p.user_id
        OBVIOUS
      <4> HIDE DEF row
      <4>3. QED
        BY <4>1, <4>2
    <3>3. QED
      BY <3>1, <3>2
  <2>6. QED
    BY <2>2, <2>3, <2>4, <2>5 DEF ListsAgree
<1>2. QED
  BY <1>1, InductiveInvariant, ListSpecIsSpec, PTL

-----------------------------------------------------------------------------
(***************************************************************************)
(* Old lists.  A row on some screen has an application behind it; steps    *)
(* keep applications (Kept), and a new list is made of those there are.    *)
(***************************************************************************)
Behind(r, profiles) ==
    \E p \in profiles :
        /\ p.id = r.id /\ p.user_id = r.user
        /\ r.status # "PENDING" => p.status # "PENDING"

ScreenInv == DOMAIN screen = Terminals /\ ListedMeansSame

LEMMA KeptBehind ==
    ASSUME NEW ps, NEW qs, NEW r, Kept(ps, qs), Behind(r, ps)
    PROVE  Behind(r, qs)
<1>1. PICK p \in ps : /\ p.id = r.id /\ p.user_id = r.user
                      /\ r.status # "PENDING" => p.status # "PENDING"
  BY DEF Behind
<1>2. PICK q \in qs : /\ q.id = p.id /\ q.user_id = p.user_id
                      /\ p.status # "PENDING" => q.status # "PENDING"
  BY DEF Kept
<1>3. QED
  BY <1>1, <1>2 DEF Behind

LEMMA FreshListBehind ==
    ASSUME NEW list \in {viewPendingVoters, viewPendingCandidates, viewApprovedCandidates},
           NEW r \in list
    PROVE  Behind(r, Profiles(r.table))
<1>1. CASE list = viewPendingVoters
  <2>1. r.table = "voter_profiles"
        /\ \E p \in voter_profiles : p.id = r.id /\ p.user_id = r.user /\ p.status = r.status
    BY <1>1, ListedRows DEF viewPendingVoters
  <2>2. QED
    BY <2>1 DEF Behind, Profiles
<1>2. CASE list \in {viewPendingCandidates, viewApprovedCandidates}
  <2>1. r.table = "candidate_profiles"
        /\ \E p \in candidate_profiles : p.id = r.id /\ p.user_id = r.user /\ p.status = r.status
    BY <1>2, ListedRows DEF viewPendingCandidates, viewApprovedCandidates
  <2>2. QED
    BY <2>1 DEF Behind, Profiles
<1>3. QED
  BY <1>1, <1>2

LEMMA ScreenInvStep ==
    ASSUME TypeOK, ScreenInv, [ListNext]_listVars
    PROVE  ScreenInv'
<1>0. DOMAIN screen = Terminals
      /\ \A t \in Terminals : \A r \in screen[t] : Behind(r, Profiles(r.table))
  BY DEF ScreenInv, ListedMeansSame, Behind
<1>1. SUFFICES DOMAIN screen' = Terminals
         /\ \A t \in Terminals : \A r \in screen'[t] : Behind(r, Profiles(r.table)')
  BY <1>1 DEF ScreenInv, ListedMeansSame, Behind, Profiles
<1>2. CASE UNCHANGED listVars
  BY <1>0, <1>2 DEF listVars, vars, tables, Profiles
<1>3. CASE Next /\ UNCHANGED screen
  <2>1. Kept(voter_profiles, voter_profiles') /\ Kept(candidate_profiles, candidate_profiles')
    BY <1>3, ApplicationsStep
  <2>2. ASSUME NEW r, Behind(r, Profiles(r.table)) PROVE Behind(r, Profiles(r.table)')
    BY <2>1, <2>2, KeptBehind DEF Profiles
  <2>3. QED
    BY <1>0, <1>3, <2>2
<1>4. ASSUME NEW t \in Terminals, Look(t)
      PROVE  DOMAIN screen' = Terminals
         /\ \A s \in Terminals : \A r \in screen'[s] : Behind(r, Profiles(r.table)')
  <2>1. PICK list \in Offered(t) : screen' = [screen EXCEPT ![t] = list]
    BY <1>4 DEF Look
  <2>2. list \in {viewPendingVoters, viewPendingCandidates, viewApprovedCandidates}
    BY DEF Offered
  <2>3. \A r \in list : Behind(r, Profiles(r.table))
    BY <2>2, FreshListBehind
  <2>4. \A table : Profiles(table)' = Profiles(table)
    BY <1>4 DEF Look, vars, tables, Profiles
  <2>5. QED
    BY <1>0, <2>1, <2>3, <2>4
<1>5. QED
  BY <1>2, <1>3, <1>4 DEF ListNext

\* An id read on a list names the same person's application whenever it is typed.
THEOREM OldListsStand == ListSpec => []ListedMeansSame
<1>1. ListInit => ScreenInv
  BY DEF ListInit, ScreenInv, ListedMeansSame
<1>2. TypeOK /\ ScreenInv /\ [ListNext]_listVars => ScreenInv'
  BY ScreenInvStep
<1>3. ScreenInv => ListedMeansSame
  BY DEF ScreenInv
<1>4. QED
  BY <1>1, <1>2, <1>3, ListSpecIsSpec, TypeCorrect, PTL DEF ListSpec

-----------------------------------------------------------------------------
(***************************************************************************)
(* Leaving the pending list.                                               *)
(***************************************************************************)
LEMMA ListedGrows ==
    ASSUME NEW table, NEW ps, NEW qs, NEW r,
           ps \subseteq qs, users \subseteq users',
           r \in Listed(table, ps, "PENDING")
    PROVE  r \in {[table |-> table, id |-> p.id, user |-> p.user_id, status |-> "PENDING"] :
                    p \in {q \in qs : q.status = "PENDING" /\ References(users', q.user_id)}}
BY DEF Listed, References

\* Only approveReject() takes a row away or changes one.
LEMMA OthersOnlyAdd ==
    ASSUME TypeOK, NEW t \in Terminals, main(t) \/ Session(t), ~approveReject(t)
    PROVE  /\ users \subseteq users'
           /\ voter_profiles \subseteq voter_profiles'
           /\ candidate_profiles \subseteq candidate_profiles'
<1> USE DEF tables, terminal, history
<1>0. /\ voter_profiles \in SUBSET ProfileRow("voter_profiles")
      /\ candidate_profiles \in SUBSET ProfileRow("candidate_profiles")
      /\ users \in SUBSET UserRow
  BY DEF TypeOK
<1>1. CASE main(t)
  BY <1>0, <1>1, SeedAdminAddsOne DEF main
<1>2. CASE register(t)
  <2>1. PICK a \in Registrations :
           users' \in InsertUser(users, a.username, sha256(a.password), a.role)
    BY <1>2 DEF register
  <2>2. users \subseteq users'
    BY <2>1 DEF InsertUser
  <2>3. QED
    BY <1>2, <2>2 DEF register
<1>3. CASE applyVoterID_insert(t)
  BY <1>0, <1>3, InsertProfileAddsOne DEF applyVoterID_insert, Tables
<1>4. CASE applyCandidate_insert(t)
  BY <1>0, <1>4, InsertProfileAddsOne DEF applyCandidate_insert, Tables
<1>5. CASE \/ Exit(t) \/ Crash(t) \/ Disconnect(t) \/ login(t) \/ Logout(t)
           \/ applyVoterID(t) \/ applyCandidate(t) \/ castVote(t)
           \/ castVote_voted(t) \/ castVote_validate(t) \/ castVote_insert(t)
  BY <1>5 DEF Exit, Crash, Halt, Disconnect, login, Logout, applyVoterID,
              applyCandidate, castVote, castVote_voted, castVote_validate, castVote_insert
<1>6. QED
  BY <1>1, <1>2, <1>3, <1>4, <1>5 DEF Session

\* The pending rows of one table that an UPDATE takes off the list are those of
\* the application it names, which is decided then.
LEMMA UpdateTakesOff ==
    ASSUME NEW table, NEW ps \in SUBSET ProfileRow(table),
           NEW id, NEW status \in {"APPROVED", "REJECTED"},
           NEW r \in Listed(table, ps, "PENDING"),
           r \notin Listed(table, SetStatus(ps, id, status), "PENDING")
    PROVE  /\ r.id = id
           /\ \E q \in SetStatus(ps, id, status) :
                 q.id = r.id /\ q.user_id = r.user /\ q.status = status
<1>1. PICK p \in ps : /\ r = [table |-> table, id |-> p.id, user |-> p.user_id,
                             status |-> "PENDING"]
                     /\ p.status = "PENDING" /\ References(users, p.user_id)
  BY DEF Listed
<1>2. r.id = p.id /\ r.user = p.user_id
  BY <1>1
<1>3. p.id = id
  <2>1. p.id # id => p \in SetStatus(ps, id, status)
    BY DEF SetStatus
  <2>2. QED
    BY <1>1, <2>1 DEF Listed
<1>4. status \in Statuses
  BY DEF Statuses
<1>5. \E q \in SetStatus(ps, id, status) :
         q.id = p.id /\ q.user_id = p.user_id /\ q.status = status
  BY <1>3, <1>4, SetStatusTo
<1>6. QED
  BY <1>2, <1>3, <1>5

\* An application leaves the pending list by a decision on it and not otherwise.
THEOREM PendingStays == ListSpec => PendingUntilDecided
<1> DEFINE Left == Pending \ Pending'
           Step == \A r \in Pending \ Pending' :
                      /\ \E t \in Terminals : Decided(r, t)
                      /\ \A s \in Pending \ Pending' : s = r
<1>1. IInv /\ [ListNext]_listVars => [Step]_listVars
  <2> SUFFICES ASSUME IInv, ListNext, NEW r \in Left
               PROVE  /\ \E t \in Terminals : Decided(r, t)
                      /\ \A s \in Left : s = r
    OBVIOUS
  <2>0. /\ TypeOK /\ voter_profiles \in SUBSET ProfileRow("voter_profiles")
        /\ candidate_profiles \in SUBSET ProfileRow("candidate_profiles")
        /\ OneEach(voter_profiles) /\ OneEach(candidate_profiles)
    BY DEF IInv, DataInv, TypeOK, ApplicationsWellFormed
  <2>1. CASE \E t \in Terminals : Look(t)
    BY <2>1 DEF Look, vars, tables, Pending, viewPendingVoters, viewPendingCandidates,
                Listed, References
  <2>2. ASSUME NEW t \in Terminals, main(t) \/ Session(t), ~approveReject(t) PROVE FALSE
    <3>1. /\ users \subseteq users' /\ voter_profiles \subseteq voter_profiles'
          /\ candidate_profiles \subseteq candidate_profiles'
      BY <2>0, <2>2, OthersOnlyAdd
    <3>2. r \in viewPendingVoters => r \in viewPendingVoters'
      BY <3>1, ListedGrows DEF viewPendingVoters, Listed
    <3>3. r \in viewPendingCandidates => r \in viewPendingCandidates'
      BY <3>1, ListedGrows DEF viewPendingCandidates, Listed
    <3>4. QED
      BY <3>2, <3>3 DEF Pending
  <2>3. ASSUME NEW t \in Terminals, approveReject(t)
        PROVE  Decided(r, t) /\ \A s \in Left : s = r
    <3>1. users' = users
      BY <2>3 DEF approveReject
    <3>2. PICK status \in {"APPROVED", "REJECTED"} :
             \/ /\ pc[t] = "ADMIN" \/ pc[t] = "FIELD_OFFICER"
                /\ \E id : voter_profiles' = SetStatus(voter_profiles, id, status)
                /\ candidate_profiles' = candidate_profiles
             \/ /\ pc[t] = "ADMIN"
                /\ \E id : candidate_profiles' = SetStatus(candidate_profiles, id, status)
                /\ voter_profiles' = voter_profiles
      BY <2>3 DEF approveReject, DecidesOn, StatusFor
    <3>3. CASE /\ pc[t] = "ADMIN" \/ pc[t] = "FIELD_OFFICER"
               /\ \E id : voter_profiles' = SetStatus(voter_profiles, id, status)
               /\ candidate_profiles' = candidate_profiles
      <4>1. PICK id : voter_profiles' = SetStatus(voter_profiles, id, status)
        BY <3>3
      <4>2. viewPendingCandidates' = viewPendingCandidates
        BY <3>1, <3>3 DEF viewPendingCandidates, Listed, References
      <4>3. viewPendingVoters'
               = Listed("voter_profiles", SetStatus(voter_profiles, id, status), "PENDING")
        BY <3>1, <4>1 DEF viewPendingVoters, Listed, References
      <4>4. ASSUME NEW s \in Left
            PROVE  /\ s \in viewPendingVoters /\ s.table = "voter_profiles" /\ s.id = id
                   /\ \E q \in voter_profiles' :
                         q.id = s.id /\ q.user_id = s.user /\ q.status = status
        <5>1. /\ s \in Listed("voter_profiles", voter_profiles, "PENDING")
              /\ s \notin Listed("voter_profiles", SetStatus(voter_profiles, id, status), "PENDING")
          BY <4>2, <4>3 DEF Pending, viewPendingVoters
        <5>2. QED
          BY <2>0, <3>1, <4>1, <5>1, UpdateTakesOff, ListedRows DEF viewPendingVoters
      <4>5. \A s \in Left : s = r
        BY <2>0, <4>4, ListedOnce DEF viewPendingVoters, Once
      <4>6. Decided(r, t)
        BY <2>3, <3>3, <4>4 DEF Decided, Profiles
      <4>7. QED
        BY <4>5, <4>6
    <3>4. CASE /\ pc[t] = "ADMIN"
               /\ \E id : candidate_profiles' = SetStatus(candidate_profiles, id, status)
               /\ voter_profiles' = voter_profiles
      <4>1. PICK id : candidate_profiles' = SetStatus(candidate_profiles, id, status)
        BY <3>4
      <4>2. viewPendingVoters' = viewPendingVoters
        BY <3>1, <3>4 DEF viewPendingVoters, Listed, References
      <4>3. viewPendingCandidates'
               = Listed("candidate_profiles", SetStatus(candidate_profiles, id, status), "PENDING")
        BY <3>1, <4>1 DEF viewPendingCandidates, Listed, References
      <4>4. ASSUME NEW s \in Left
            PROVE  /\ s \in viewPendingCandidates /\ s.table = "candidate_profiles" /\ s.id = id
                   /\ \E q \in candidate_profiles' :
                         q.id = s.id /\ q.user_id = s.user /\ q.status = status
        <5>1. /\ s \in Listed("candidate_profiles", candidate_profiles, "PENDING")
              /\ s \notin Listed("candidate_profiles",
                                 SetStatus(candidate_profiles, id, status), "PENDING")
          BY <4>2, <4>3 DEF Pending, viewPendingCandidates
        <5>2. QED
          BY <2>0, <3>1, <4>1, <5>1, UpdateTakesOff, ListedRows DEF viewPendingCandidates
      <4>5. \A s \in Left : s = r
        BY <2>0, <4>4, ListedOnce DEF viewPendingCandidates, Once
      <4>6. Decided(r, t)
        BY <2>3, <3>4, <4>4 DEF Decided, Profiles
      <4>7. QED
        BY <4>5, <4>6
    <3>5. QED
      BY <3>2, <3>3, <3>4
  <2>4. QED
    BY <2>1, <2>2, <2>3 DEF ListNext, Next
<1>2. QED
  BY <1>1, ListSpecIsSpec, InductiveInvariant, PTL DEF ListSpec, PendingUntilDecided
=============================================================================
