-------------------------------- MODULE Launch ------------------------------
(***************************************************************************)
(* main() up to its menu, statement by statement: CREATE DATABASE over the *)
(* bootstrap connection, the connection to the database, the five CREATE   *)
(* TABLE IF NOT EXISTS of setupDatabase(), and the INSERT IGNORE of the    *)
(* administrator.  Terminals start at the same time, on an empty server or *)
(* on one that an earlier start left half built, next to terminals already *)
(* in use, and may die between any two statements.                         *)
(*                                                                         *)
(* Everything after the menu appears is Session of OnlineVotingApp, whose  *)
(* variables this module shares: a terminal that is starting is "off"      *)
(* there.                                                                  *)
(***************************************************************************)
EXTENDS VotingProperties

VARIABLES
    schema,   \* what CREATE has made: the database and its tables
    stage     \* the statement each terminal is about to run, or see below

launchVars == <<vars, schema, stage>>

\* users has room for the administrator.
ASSUME LaunchAssumption == MaxId["users"] > 0

Database == "online_voting"

\* The stages in between are those of a terminal that is starting:
\*   create_database, connect, a table's name, seed   the statement to come
\*   ready                                            setupDatabase() returned
\* "up" shows a menu, "off" does not run, "dead" was ended while it was starting.
SetupTables == {"users", "voter_profiles", "candidate_profiles", "votes", "forum_posts"}

StartUp == {"create_database", "connect", "seed", "ready"} \cup SetupTables

Stages == StartUp \cup {"off", "dead", "up"}

\* Mutated: votes is created first, before the table its keys refer to.
AfterVotesFirst ==
    [create_database |-> "connect", connect |-> "votes", votes |-> "users",
     users |-> "voter_profiles", voter_profiles |-> "candidate_profiles",
     candidate_profiles |-> "forum_posts", forum_posts |-> "seed", seed |-> "ready"]

\* Mutated: a users table that is there already means there is nothing to set up.
AfterEarlyReturn ==
    [create_database |-> "connect", connect |-> "users",
     users |-> IF "users" \in schema THEN "ready" ELSE "voter_profiles",
     voter_profiles |-> "candidate_profiles", candidate_profiles |-> "votes",
     votes |-> "forum_posts", forum_posts |-> "seed", seed |-> "ready"]

\* The order of the statements.
After ==
    [create_database |-> "connect", connect |-> "users",
     users |-> "voter_profiles", voter_profiles |-> "candidate_profiles",
     candidate_profiles |-> "votes", votes |-> "forum_posts",
     forum_posts |-> "seed", seed |-> "ready"]

\* What has to exist for CREATE TABLE: the database, and users for a table with
\* a foreign key into it.
Needed(table) == {Database} \cup (IF table = "users" THEN {} ELSE {"users"})

LaunchInit == Init /\ schema = {} /\ stage = [t \in Terminals |-> "off"]

Advance(t) == stage' = [stage EXCEPT ![t] = After[stage[t]]]

-----------------------------------------------------------------------------

\* The program is started, perhaps again, and connects without a database.
Start(t) ==
    /\ stage[t] \in {"off", "dead"}
    /\ stage' = [stage EXCEPT ![t] = "create_database"]
    /\ UNCHANGED <<vars, schema>>

CreateDatabase(t) ==
    /\ stage[t] = "create_database"
    /\ schema' = schema \cup {Database}
    /\ Advance(t)
    /\ UNCHANGED vars

Connect(t) ==
    /\ stage[t] = "connect"
    /\ Database \in schema
    /\ Advance(t)
    /\ UNCHANGED <<vars, schema>>

\* Mutated: CREATE OR REPLACE TABLE.
CreateTableReplace(t) ==
    /\ stage[t] \in SetupTables
    /\ Needed(stage[t]) \subseteq schema
    /\ schema' = schema \cup {stage[t]}
    /\ users' = IF stage[t] = "users" THEN {} ELSE users
    /\ Advance(t)
    /\ UNCHANGED <<voter_profiles, candidate_profiles, votes, terminal, history>>

\* IF NOT EXISTS: a table that is there stays as it is, rows and all.
CreateTable(t) ==
    /\ stage[t] \in SetupTables
    /\ Needed(stage[t]) \subseteq schema
    /\ schema' = schema \cup {stage[t]}
    /\ Advance(t)
    /\ UNCHANGED vars

\* Mutated: a failed INSERT of the administrator is printed and passed over.
SeedOrSkip(t) ==
    /\ stage[t] = "seed"
    /\ users' \in SeedAdmin(users) \cup {users}
    /\ Advance(t)
    /\ UNCHANGED <<schema, voter_profiles, candidate_profiles, votes, terminal, history>>

Seed(t) ==
    /\ stage[t] = "seed"
    /\ users' \in SeedAdmin(users)
    /\ Advance(t)
    /\ UNCHANGED <<schema, voter_profiles, candidate_profiles, votes, terminal, history>>

\* "[OK] Connected to MySQL.", and the main menu.
ShowMenu(t) ==
    /\ stage[t] = "ready"
    /\ stage' = [stage EXCEPT ![t] = "up"]
    /\ Goto(t, "main")
    /\ conn' = [conn EXCEPT ![t] = TRUE]
    /\ UNCHANGED <<schema, tables, uid, cand, history>>

\* The server cannot be reached, a statement fails or its answer is lost: the
\* catch prints the reason and main() returns.  Or the process is killed.
Abort(t) ==
    /\ stage[t] \in StartUp
    /\ stage' = [stage EXCEPT ![t] = "dead"]
    /\ UNCHANGED <<vars, schema>>

\* The terminals in use.  The tables their statements name exist (SchemaReady).
Use(t) ==
    /\ stage[t] = "up"
    /\ Session(t)
    /\ stage' = [stage EXCEPT ![t] = IF pc'[t] = "off" THEN "off" ELSE "up"]
    /\ UNCHANGED schema

LaunchNext ==
    \E t \in Terminals :
        \/ Start(t) \/ CreateDatabase(t) \/ Connect(t) \/ CreateTable(t)
        \/ Seed(t) \/ ShowMenu(t) \/ Abort(t) \/ Use(t)

LaunchSpec == LaunchInit /\ [][LaunchNext]_launchVars

\* start-up waits for the server, never for a person: a statement is answered
\* or fails.
LaunchFairness ==
    \A t \in Terminals :
        WF_launchVars(CreateDatabase(t) \/ Connect(t) \/ CreateTable(t)
                        \/ Seed(t) \/ ShowMenu(t))

LaunchFairSpec == LaunchSpec /\ LaunchFairness

-----------------------------------------------------------------------------

LaunchTypeOK ==
    /\ TypeOK
    /\ schema \subseteq {Database} \cup SetupTables
    /\ stage \in [Terminals -> Stages]

\* What exists once a terminal has come this far.
Made(s) ==
    IF s \in {"off", "dead", "create_database"} THEN {}
    ELSE {Database} \cup {x \in SetupTables :
             \/ s \in {"seed", "ready", "up"}
             \/ x = "users" /\ s \notin {"connect", "users"}
             \/ x = "voter_profiles" /\ s \in {"candidate_profiles", "votes", "forum_posts"}
             \/ x = "candidate_profiles" /\ s \in {"votes", "forum_posts"}
             \/ x = "votes" /\ s = "forum_posts"}

\* Whoever shows a menu has the whole schema under it, although others may have
\* died while they were building it: no handler meets a missing table.
SchemaReady ==
    \A t \in Terminals :
        pc[t] # "off" => {Database} \cup SetupTables \subseteq schema

IsAdmin(u) == u.password_hash = sha256("admin123") /\ u.role = "ADMIN"

\* The name "admin", however it is spelled, is the seeded administrator's from
\* the first menu on: nobody registers it first, with another role or password,
\* in the gap between CREATE TABLE and the INSERT of a terminal that died there.
AdminSeat ==
    /\ \A u \in users : Collate[u.username] = Collate["admin"] => IsAdmin(u)
    /\ \A t \in Terminals : pc[t] # "off" => \E u \in LoginMatches("admin", "admin123") : IsAdmin(u)

\* No statement of start-up can fail for what another terminal did or left undone:
\* the database to connect to and the tables a foreign key refers to are there,
\* and the INSERT IGNORE finds the administrator or a free id for it.
NothingMissing ==
    \A t \in Terminals :
        /\ stage[t] = "connect" => Database \in schema
        /\ stage[t] \in SetupTables => Needed(stage[t]) \subseteq schema
        /\ stage[t] = "seed" => SeedAdmin(users) # {}

\* The inductive invariant behind these: a terminal has a menu exactly when it
\* is up, what it created is still there, and once it has run the seed the name
\* is taken, so that register() cannot take it.  The first account of all is the
\* administrator's.
LaunchInv ==
    /\ LaunchTypeOK
    /\ \A u \in users : Collate[u.username] = Collate["admin"] => IsAdmin(u)
    /\ \A t \in Terminals :
          /\ stage[t] = "up" <=> pc[t] # "off"
          /\ Made(stage[t]) \subseteq schema
          /\ stage[t] \in {"ready", "up"} => UsernameTaken(users, "admin")
    /\ users = {} \/ UsernameTaken(users, "admin")

\* Start-up one statement at a time is main() as one step: a start adds the
\* administrator or nothing, and disturbs no account, application, vote or
\* session of the terminals in use.
ImplementsApp == Spec

\* "Auto-Healing Database": a terminal that no failure ends gets from the first
\* statement to the menu, whatever the others have left behind.
StartUpSucceeds ==
    \A t \in Terminals :
        \/ <>(stage[t] = "dead")
        \/ (stage[t] = "create_database" ~> stage[t] = "up")
=============================================================================
