---------------------------- MODULE LaunchProofs ----------------------------
(***************************************************************************)
(* Proofs about Launch: start-up, statement by statement, at any number of *)
(* terminals that start, die and are used at the same time.                *)
(***************************************************************************)
EXTENDS Launch, VotingRefinement

\* The seed leaves the accounts there are, and at most adds an administrator.
LEMMA SeedKeepsSeat ==
    ASSUME NEW us \in SUBSET UserRow, NEW next \in SeedAdmin(us),
           \A u \in us : Collate[u.username] = Collate["admin"] => IsAdmin(u)
    PROVE  /\ us \subseteq next
           /\ UsernameTaken(next, "admin")
           /\ \A u \in next : Collate[u.username] = Collate["admin"] => IsAdmin(u)
<1>1. CASE UsernameTaken(us, "admin")
  BY <1>1 DEF SeedAdmin
<1>2. CASE ~UsernameTaken(us, "admin")
  <2>1. PICK id \in FreshIds("users", us) :
           next = us \cup {[id |-> id, username |-> "admin",
                            password_hash |-> sha256("admin123"), role |-> "ADMIN"]}
    BY <1>2 DEF SeedAdmin, InsertUser
  <2> DEFINE row == [id |-> id, username |-> "admin",
                     password_hash |-> sha256("admin123"), role |-> "ADMIN"]
  <2>2. next = us \cup {row} /\ row.username = "admin" /\ IsAdmin(row)
    BY <2>1 DEF IsAdmin
  <2> HIDE DEF row
  <2>3. QED
    BY <2>2 DEF UsernameTaken
<1>3. QED
  BY <1>1, <1>2

\* What a terminal in use does to the accounts: it keeps them, and does not add
\* one under a name that is taken.
LEMMA SessionAccounts ==
    ASSUME TypeOK, NEW t \in Terminals, Session(t)
    PROVE  /\ users \subseteq users'
           /\ \A u \in users' \ users : ~UsernameTaken(users, u.username)
<1>1. CASE register(t)
  <2>1. PICK a \in Registrations :
           users' \in InsertUser(users, a.username, sha256(a.password), a.role)
    BY <1>1 DEF register
  <2>2. PICK id \in FreshIds("users", users) :
           /\ ~UsernameTaken(users, a.username)
           /\ users' = users \cup
                {[id |-> id, username |-> a.username,
                  password_hash |-> sha256(a.password), role |-> a.role]}
    BY <2>1 DEF InsertUser
  <2>3. QED
    BY <2>2
<1>2. CASE Exit(t) \/ Crash(t) \/ Disconnect(t) \/ login(t) \/ Logout(t)
  BY <1>2 DEF Exit, Crash, Halt, Disconnect, login, Logout, tables
<1>3. CASE applyVoterID(t) \/ applyVoterID_insert(t)
             \/ applyCandidate(t) \/ applyCandidate_insert(t) \/ approveReject(t)
  BY <1>3 DEF applyVoterID, applyVoterID_insert, applyCandidate,
              applyCandidate_insert, approveReject, tables
<1>4. CASE castVote(t) \/ castVote_voted(t) \/ castVote_validate(t) \/ castVote_insert(t)
  BY <1>4 DEF castVote, castVote_voted, castVote_validate, castVote_insert, tables
<1>5. QED
  BY <1>1, <1>2, <1>3, <1>4 DEF Session

-----------------------------------------------------------------------------

\* The statements run in order, so each finds what the earlier ones created, and
\* leaves the next one what it needs.
LEMMA MadeGrows ==
    ASSUME NEW s \in StartUp \ {"ready"}
    PROVE  /\ After[s] \in StartUp
           /\ s = "create_database" => Made(After[s]) = Made(s) \cup {Database}
           /\ s \in SetupTables => Made(After[s]) = Made(s) \cup {s}
           /\ s \in {"connect", "seed"} => Made(After[s]) = Made(s)
           /\ After[s] \in {"ready", "up"} => s = "seed"
<1>1. CASE s \in {"create_database", "connect", "seed"}
  BY <1>1 DEF After, Made, StartUp, SetupTables, Database
<1>2. CASE s \in SetupTables
  <2>1. CASE s = "users"
    BY <2>1 DEF After, Made, StartUp, SetupTables, Database
  <2>2. CASE s = "voter_profiles"
    BY <2>2 DEF After, Made, StartUp, SetupTables, Database
  <2>3. CASE s = "candidate_profiles"
    BY <2>3 DEF After, Made, StartUp, SetupTables, Database
  <2>4. CASE s = "votes"
    BY <2>4 DEF After, Made, StartUp, SetupTables, Database
  <2>5. CASE s = "forum_posts"
    BY <2>5 DEF After, Made, StartUp, SetupTables, Database
  <2>6. QED
    BY <1>2, <2>1, <2>2, <2>3, <2>4, <2>5 DEF SetupTables
<1>3. QED
  BY <1>1, <1>2 DEF StartUp

\* What LaunchInv says of one terminal.
LaunchOf(t) ==
    /\ stage[t] = "up" <=> pc[t] # "off"
    /\ Made(stage[t]) \subseteq schema
    /\ stage[t] \in {"ready", "up"} => UsernameTaken(users, "admin")

SeatKept == \A u \in users : Collate[u.username] = Collate["admin"] => IsAdmin(u)

\* A step that keeps accounts and schema leaves the terminals it does not move
\* as they were.
LEMMA OtherLaunches ==
    ASSUME NEW s \in Terminals, LaunchOf(s),
           pc'[s] = pc[s], stage'[s] = stage[s],
           users \subseteq users', schema \subseteq schema'
    PROVE  LaunchOf(s)'
BY DEF LaunchOf, UsernameTaken, Made

\* In LaunchSpec every step is a step of OnlineVotingApp or leaves its variables
\* alone, because the terminal that seeds shows no menu, and the one about to
\* show it finds the administrator there.
LEMMA LaunchStepIsAppStep ==
    ASSUME LaunchInv, LaunchNext
    PROVE  Next \/ UNCHANGED vars
<1>1. ASSUME NEW t \in Terminals, Seed(t) PROVE main(t)
  BY <1>1 DEF Seed, main, LaunchInv, terminal, StartUp
<1>2. ASSUME NEW t \in Terminals, ShowMenu(t) PROVE main(t)
  <2>1. pc[t] = "off" /\ UsernameTaken(users, "admin")
    BY <1>2 DEF ShowMenu, LaunchInv
  <2>2. users' \in SeedAdmin(users)
    BY <1>2, <2>1 DEF ShowMenu, SeedAdmin, tables
  <2>3. QED
    BY <1>2, <2>1, <2>2 DEF ShowMenu, main, tables
<1>3. ASSUME NEW t \in Terminals,
             \/ Start(t) \/ CreateDatabase(t) \/ Connect(t) \/ CreateTable(t) \/ Abort(t)
      PROVE  UNCHANGED vars
  BY <1>3 DEF Start, CreateDatabase, Connect, CreateTable, Abort
<1>4. ASSUME NEW t \in Terminals, Use(t) PROVE Session(t)
  BY <1>4 DEF Use
<1>5. QED
  BY <1>1, <1>2, <1>3, <1>4 DEF LaunchNext, Next

\* Whoever can register sits at a menu, and the name was taken before it appeared.
LEMMA FirstIsAdmin ==
    ASSUME LaunchInv, [LaunchNext]_launchVars
    PROVE  users' = {} \/ UsernameTaken(users, "admin")'
<1> USE DEF launchVars
<1>0. TypeOK /\ (users = {} \/ UsernameTaken(users, "admin"))
  BY DEF LaunchInv, LaunchTypeOK
<1>1. CASE users' = users
  BY <1>0, <1>1 DEF UsernameTaken
<1>2. ASSUME NEW t \in Terminals, Seed(t) PROVE UsernameTaken(users', "admin")
  <2>1. users' \in SeedAdmin(users) /\ users \in SUBSET UserRow
    BY <1>0, <1>2 DEF Seed, TypeOK
  <2>2. QED
    BY <2>1, SeedKeepsSeat DEF LaunchInv
<1>3. ASSUME NEW t \in Terminals, Use(t) PROVE UsernameTaken(users', "admin")
  <2>1. users \subseteq users'
    BY <1>0, <1>3, SessionAccounts DEF Use
  <2>2. UsernameTaken(users, "admin")
    BY <1>3 DEF Use, LaunchInv
  <2>3. QED
    BY <2>1, <2>2 DEF UsernameTaken
<1>4. ASSUME NEW t \in Terminals,
             \/ Start(t) \/ CreateDatabase(t) \/ Connect(t) \/ CreateTable(t)
             \/ ShowMenu(t) \/ Abort(t)
      PROVE  users' = users
  BY <1>4 DEF Start, CreateDatabase, Connect, CreateTable, ShowMenu, Abort, vars, tables
<1>5. UNCHANGED launchVars => users' = users
  BY DEF vars, tables
<1>6. UsernameTaken(users', "admin") = UsernameTaken(users, "admin")'
  BY DEF UsernameTaken
<1>7. QED
  BY <1>1, <1>2, <1>3, <1>4, <1>5, <1>6 DEF LaunchNext

LEMMA LaunchInvStep ==
    ASSUME LaunchInv, [LaunchNext]_launchVars
    PROVE  LaunchInv'
<1> USE DEF launchVars
<1>0. /\ TypeOK /\ SeatKept /\ \A t \in Terminals : LaunchOf(t)
      /\ users = {} \/ UsernameTaken(users, "admin")
      /\ schema \subseteq {Database} \cup SetupTables
      /\ stage \in [Terminals -> Stages]
      /\ users \in SUBSET UserRow
  BY DEF LaunchInv, LaunchTypeOK, SeatKept, LaunchOf, TypeOK
<1>1. TypeOK'
  BY <1>0, LaunchStepIsAppStep, TypeOKStep
<1>2. SUFFICES /\ SeatKept' /\ \A t \in Terminals : LaunchOf(t)'
               /\ schema' \subseteq {Database} \cup SetupTables
               /\ stage' \in [Terminals -> Stages]
  <2>1. users' = {} \/ UsernameTaken(users, "admin")'
    BY <1>0, FirstIsAdmin
  <2>2. QED
    BY <1>1, <1>2, <2>1 DEF LaunchInv, LaunchTypeOK, SeatKept, LaunchOf
<1>3. CASE UNCHANGED launchVars
  BY <1>0, <1>3 DEF SeatKept, LaunchOf, UsernameTaken, Made, vars, tables, terminal, IsAdmin
<1>4. ASSUME NEW t \in Terminals,
             \/ CreateDatabase(t) \/ Connect(t) \/ CreateTable(t) \/ Seed(t)
      PROVE  /\ SeatKept' /\ \A s \in Terminals : LaunchOf(s)'
             /\ schema' \subseteq {Database} \cup SetupTables
             /\ stage' \in [Terminals -> Stages]
  <2>1. /\ stage[t] \in StartUp \ {"ready"}
        /\ stage' = [stage EXCEPT ![t] = After[stage[t]]]
        /\ pc' = pc
    BY <1>4 DEF CreateDatabase, Connect, CreateTable, Seed, Advance, StartUp,
                SetupTables, vars, terminal
  <2>2. schema \subseteq schema' /\ Made(After[stage[t]]) \subseteq schema'
    <3>1. schema \subseteq schema'
      BY <1>4 DEF CreateDatabase, Connect, CreateTable, Seed
    <3>2. Made(stage[t]) \subseteq schema'
      BY <1>0, <3>1 DEF LaunchOf
    <3>3. CASE CreateDatabase(t)
      BY <3>2, <3>3, <2>1, MadeGrows DEF CreateDatabase
    <3>4. CASE CreateTable(t)
      BY <3>2, <3>4, <2>1, MadeGrows DEF CreateTable
    <3>5. CASE Connect(t) \/ Seed(t)
      BY <3>2, <3>5, <2>1, MadeGrows DEF Connect, Seed
    <3>6. QED
      BY <1>4, <3>1, <3>3, <3>4, <3>5
  <2>3. /\ users \subseteq users' /\ SeatKept'
        /\ stage[t] = "seed" => UsernameTaken(users', "admin")
    <3>1. CASE Seed(t)
      <4>1. users' \in SeedAdmin(users)
        BY <3>1 DEF Seed
      <4>2. QED
        BY <1>0, <4>1, SeedKeepsSeat DEF SeatKept, IsAdmin
    <3>2. CASE users' = users /\ stage[t] # "seed"
      BY <1>0, <3>2 DEF SeatKept, IsAdmin
    <3>3. QED
      BY <1>4, <3>1, <3>2 DEF CreateDatabase, Connect, CreateTable, SetupTables, vars, tables
  <2>4. LaunchOf(t)'
    <3>1. stage'[t] = After[stage[t]] /\ stage'[t] # "up" /\ stage[t] # "up" /\ stage'[t] \in StartUp
      BY <1>0, <2>1, MadeGrows DEF StartUp, SetupTables
    <3>2. pc'[t] = "off"
      BY <1>0, <2>1, <3>1 DEF LaunchOf
    <3>3. stage'[t] = "ready" => UsernameTaken(users', "admin")
      BY <2>1, <2>3, <3>1, MadeGrows
    <3>4. Made(stage'[t]) \subseteq schema'
      BY <2>2, <3>1
    <3>5. Made(stage'[t]) = Made(stage[t])'
      BY DEF Made
    <3>6. UsernameTaken(users', "admin") = UsernameTaken(users, "admin")'
      BY DEF UsernameTaken
    <3>7. QED
      BY <3>1, <3>2, <3>3, <3>4, <3>5, <3>6 DEF LaunchOf
  <2>5. \A s \in Terminals \ {t} : LaunchOf(s)'
    BY <1>0, <2>1, <2>2, <2>3, OtherLaunches
  <2>6. schema' \subseteq {Database} \cup SetupTables
    BY <1>0, <1>4 DEF CreateDatabase, Connect, CreateTable, Seed
  <2>7. stage' \in [Terminals -> Stages]
    BY <1>0, <2>1, MadeGrows DEF Stages
  <2>8. QED
    BY <2>3, <2>4, <2>5, <2>6, <2>7
<1>5. ASSUME NEW t \in Terminals, Start(t) \/ Abort(t) \/ ShowMenu(t)
      PROVE  /\ SeatKept' /\ \A s \in Terminals : LaunchOf(s)'
             /\ schema' \subseteq {Database} \cup SetupTables
             /\ stage' \in [Terminals -> Stages]
  <2>1. /\ users' = users /\ schema' = schema
        /\ stage' \in [Terminals -> Stages]
        /\ \A s \in Terminals \ {t} : stage'[s] = stage[s] /\ pc'[s] = pc[s]
    BY <1>0, <1>5 DEF Start, Abort, ShowMenu, Stages, StartUp, Goto, TypeOK, vars, tables, terminal
  <2>2. LaunchOf(t)'
    <3>1. CASE Start(t) \/ Abort(t)
      <4>1. stage[t] # "up" /\ stage'[t] \in {"create_database", "dead"} /\ pc'[t] = pc[t]
        BY <1>0, <3>1 DEF Start, Abort, StartUp, SetupTables, vars, terminal
      <4>2. QED
        BY <1>0, <4>1 DEF LaunchOf, Made
    <3>2. CASE ShowMenu(t)
      <4>1. stage[t] = "ready" /\ stage'[t] = "up" /\ pc'[t] = "main"
        BY <1>0, <3>2 DEF ShowMenu, Goto, TypeOK
      <4>2. Made("up") = Made("ready")
        BY DEF Made
      <4>3. QED
        BY <1>0, <2>1, <4>1, <4>2 DEF LaunchOf, Made, UsernameTaken
    <3>3. QED
      BY <1>5, <3>1, <3>2
  <2>3. \A s \in Terminals \ {t} : LaunchOf(s)'
    BY <1>0, <2>1, OtherLaunches
  <2>4. QED
    BY <1>0, <2>1, <2>2, <2>3 DEF SeatKept, IsAdmin
<1>6. ASSUME NEW t \in Terminals, Use(t)
      PROVE  /\ SeatKept' /\ \A s \in Terminals : LaunchOf(s)'
             /\ schema' \subseteq {Database} \cup SetupTables
             /\ stage' \in [Terminals -> Stages]
  <2>1. Session(t) /\ stage[t] = "up" /\ schema' = schema
        /\ stage' = [stage EXCEPT ![t] = IF pc'[t] = "off" THEN "off" ELSE "up"]
    BY <1>6 DEF Use
  <2>2. UsernameTaken(users, "admin")
    BY <1>0, <2>1 DEF LaunchOf
  <2>3. users \subseteq users' /\ \A u \in users' \ users : ~UsernameTaken(users, u.username)
    BY <1>0, <2>1, SessionAccounts
  <2>4. SeatKept'
    BY <1>0, <2>2, <2>3 DEF SeatKept, IsAdmin, UsernameTaken
  <2>5. stage' \in [Terminals -> Stages]
    BY <1>0, <2>1 DEF Stages
  <2>6. LaunchOf(t)'
    BY <1>0, <2>1, <2>2, <2>3 DEF LaunchOf, UsernameTaken, Made
  <2>7. \A s \in Terminals \ {t} : stage'[s] = stage[s] /\ pc'[s] = pc[s]
    BY <1>0, <2>1, OthersStay
  <2>8. \A s \in Terminals \ {t} : LaunchOf(s)'
    BY <1>0, <2>1, <2>3, <2>7, OtherLaunches
  <2>9. QED
    BY <1>0, <2>1, <2>4, <2>5, <2>6, <2>8
<1>7. QED
  BY <1>3, <1>4, <1>5, <1>6 DEF LaunchNext

LEMMA LaunchInductive == LaunchSpec => []LaunchInv
<1>1. LaunchInit => LaunchInv
  BY DEF LaunchInit, Init, LaunchInv, LaunchTypeOK, TypeOK, Made, Stages, Pcs,
         UsernameTaken
<1>2. LaunchInv /\ [LaunchNext]_launchVars => LaunchInv'
  BY LaunchInvStep
<1>3. QED
  BY <1>1, <1>2, PTL DEF LaunchSpec

-----------------------------------------------------------------------------

\* Nobody shows a menu over a schema that is not complete.
THEOREM SchemasReady == LaunchSpec => []SchemaReady
<1>1. LaunchInv => SchemaReady
  BY DEF LaunchInv, SchemaReady, Made
<1>2. QED
  BY <1>1, LaunchInductive, PTL

\* The name "admin" is the seeded administrator's, and its owner can log in at
\* every terminal that shows a menu.
THEOREM AdminSeated == LaunchSpec => []AdminSeat
<1>1. LaunchInv => AdminSeat
  <2> SUFFICES ASSUME LaunchInv PROVE AdminSeat
    OBVIOUS
  <2>1. SeatKept
    BY DEF LaunchInv, SeatKept
  <2>2. ASSUME NEW t \in Terminals, pc[t] # "off"
        PROVE  \E u \in LoginMatches("admin", "admin123") : IsAdmin(u)
    <3>1. PICK u \in users : Collate[u.username] = Collate["admin"]
      BY <2>2 DEF LaunchInv, UsernameTaken
    <3>2. IsAdmin(u)
      BY <2>1, <3>1 DEF SeatKept
    <3>3. QED
      BY <3>1, <3>2 DEF LoginMatches, IsAdmin
  <2>3. QED
    BY <2>1, <2>2 DEF AdminSeat, SeatKept
<1>2. QED
  BY <1>1, LaunchInductive, PTL

\* Start-up never gets stuck on what others left behind: this is what
\* StartUpSucceeds asks of the states, besides the server answering.
THEOREM StartUpFindsAll == LaunchSpec => []NothingMissing
<1>1. LaunchInv => NothingMissing
  <2> SUFFICES ASSUME LaunchInv, NEW t \in Terminals
               PROVE  /\ stage[t] = "connect" => Database \in schema
                      /\ stage[t] \in SetupTables => Needed(stage[t]) \subseteq schema
                      /\ stage[t] = "seed" => SeedAdmin(users) # {}
    BY DEF NothingMissing
  <2>1. Made(stage[t]) \subseteq schema
    BY DEF LaunchInv
  <2>2. stage[t] = "connect" => Database \in schema
    BY <2>1 DEF Made
  <2>3. stage[t] \in SetupTables => Needed(stage[t]) \subseteq schema
    BY <2>1 DEF Made, Needed, SetupTables
  <2>4. SeedAdmin(users) # {}
    <3>1. CASE UsernameTaken(users, "admin")
      BY <3>1 DEF SeedAdmin
    <3>2. CASE users = {}
      <4>1. 1 \in FreshIds("users", users) /\ ~UsernameTaken(users, "admin")
        BY <3>2, SchemaAssumption, LaunchAssumption
           DEF FreshIds, Ids, UsernameTaken, Tables
      <4>2. InsertUser(users, "admin", sha256("admin123"), "ADMIN") # {}
        BY <4>1 DEF InsertUser
      <4>3. QED
        BY <4>1, <4>2 DEF SeedAdmin
    <3>3. QED
      BY <3>1, <3>2 DEF LaunchInv
  <2>5. QED
    BY <2>2, <2>3, <2>4
<1>2. QED
  BY <1>1, LaunchInductive, PTL

\* Start-up in single statements implements main() as one step.
THEOREM LaunchImplementsApp == LaunchSpec => ImplementsApp
<1>1. LaunchInit => Init
  BY DEF LaunchInit
<1>2. LaunchInv /\ [LaunchNext]_launchVars => [Next]_vars
  BY LaunchStepIsAppStep DEF launchVars
<1>3. QED
  BY <1>1, <1>2, LaunchInductive, PTL DEF LaunchSpec, ImplementsApp, Spec

\* So what holds of the terminals with main() as one step holds when they start
\* in single statements and die in between: one vote per voter, every vote an
\* approved voter's for an approved candidate, and every receipt honoured.
THEOREM VotesSoundFromLaunch ==
    LaunchSpec => [](OneVotePerVoter /\ BallotIntegrity /\ ReceiptsHonoured)
<1>1. Spec => [](OneVotePerVoter /\ BallotIntegrity /\ ReceiptsHonoured)
  BY OneVote, BallotsSound, ReceiptsStand, PTL
<1>2. QED
  BY <1>1, LaunchImplementsApp, PTL DEF ImplementsApp

\* The whole program, from the first statement of start-up on an empty server to
\* the votes, implements the election, and takes back neither a vote nor an
\* application.
THEOREM ElectionFromLaunch ==
    LaunchSpec => ImplementsElection /\ VotesFinal /\ ApplicationsKept
<1>1. Spec => ImplementsElection /\ VotesFinal /\ ApplicationsKept
  BY Refinement, VotesStand, ApplicationsStand, PTL
<1>2. QED
  BY <1>1, LaunchImplementsApp, PTL DEF ImplementsApp
=============================================================================
