------------------------------ MODULE VotingDB ------------------------------
(***************************************************************************)
(* The online_voting schema as setupDatabase() declares it, and what each  *)
(* SQL statement of OnlineVotingApp.java does to it.                       *)
(*                                                                         *)
(* A table is a set of rows and a statement is an operator on tables, so   *)
(* the modules that share the schema declare the tables they need as       *)
(* variables of their own.  An INSERT is the set of tables it may leave    *)
(* behind: empty when a constraint rejects the row, which the application  *)
(* sees as an SQLException.  The connection runs in autocommit mode, so a  *)
(* statement is atomic and nothing larger is.                              *)
(*                                                                         *)
(* Free text no statement compares (names, parties, constituencies,        *)
(* addresses, manifestos) is left out of the rows.                         *)
(***************************************************************************)
EXTENDS Naturals

CONSTANTS
    Usernames,  \* the texts people type at a Username prompt
    Collate,    \* the sort key of a username: the columns' collation ignores
                \* case, so different texts may be equal to the database
    Passwords,  \* the texts people type at a Password prompt
    MaxId       \* per table, the largest AUTO_INCREMENT id (2^31 - 1 for INT)

Roles == {"VOTER", "CANDIDATE", "FIELD_OFFICER", "ADMIN"}

Statuses == {"PENDING", "APPROVED", "REJECTED"}

Tables == {"users", "voter_profiles", "candidate_profiles", "votes"}

ASSUME SchemaAssumption ==
    /\ "admin" \in Usernames
    /\ "admin123" \in Passwords
    /\ Usernames \subseteq DOMAIN Collate
    /\ MaxId \in [Tables -> Nat]

Ids(table) == 1 .. MaxId[table]

(***************************************************************************)
(* The digest keeps passwords apart (SHA-256 has no known collision, and   *)
(* the hexadecimal text of a digest determines it) and is not the text.    *)
(***************************************************************************)
sha256(input) == [digest |-> input]

UserRow ==
    [id : Ids("users"), username : Usernames,
     password_hash : {sha256(p) : p \in Passwords}, role : Roles]

ProfileRow(table) ==
    [id : Ids(table), user_id : Ids("users"), status : Statuses]

VoteRow ==
    [id : Ids("votes"), voter_id : Ids("users"), candidate_id : Ids("users")]

-----------------------------------------------------------------------------

(***************************************************************************)
(* AUTO_INCREMENT: ids grow, and a statement that fails after drawing one  *)
(* leaves a gap.  No id is left when the column's range is used up.        *)
(***************************************************************************)
FreshIds(table, rows) == {id \in Ids(table) : \A r \in rows : r.id < id}

\* FOREIGN KEY (...) REFERENCES users(id)
References(users, id) == \E u \in users : u.id = id

\* Mutated: the same text is refused, a different spelling of it is not.
UsernameTakenExact(users, username) ==
    \E u \in users : u.username = username

\* username UNIQUE, under the column's collation
UsernameTaken(users, username) ==
    \E u \in users : Collate[u.username] = Collate[username]

InsertUser(users, username, hash, role) ==
    {users \cup {[id |-> id, username |-> username,
                  password_hash |-> hash, role |-> role]} :
        id \in {i \in FreshIds("users", users) : ~UsernameTaken(users, username)}}

\* INSERT IGNORE of the default administrator
SeedAdmin(users) ==
    IF UsernameTaken(users, "admin") THEN {users}
    ELSE InsertUser(users, "admin", sha256("admin123"), "ADMIN")

\* user_id UNIQUE, in both profile tables
HasProfile(profiles, user) == \E p \in profiles : p.user_id = user

\* Mutated: user_id without UNIQUE.
InsertProfileNotUnique(table, users, profiles, user) ==
    {profiles \cup {[id |-> id, user_id |-> user, status |-> "PENDING"]} :
        id \in FreshIds(table, profiles)}

InsertProfile(table, users, profiles, user) ==
    {profiles \cup {[id |-> id, user_id |-> user, status |-> "PENDING"]} :
        id \in {i \in FreshIds(table, profiles) :
                   ~HasProfile(profiles, user) /\ References(users, user)}}

\* Mutated: rejecting deletes the application.
SetStatusDelete(profiles, id, status) ==
    {IF p.id = id THEN [p EXCEPT !.status = status] ELSE p :
        p \in {q \in profiles : q.id # id \/ status # "REJECTED"}}

\* UPDATE ... SET status = ? WHERE id = ?
SetStatus(profiles, id, status) ==
    {IF p.id = id THEN [p EXCEPT !.status = status] ELSE p : p \in profiles}

\* SELECT ... WHERE user_id = ? and status = 'APPROVED'
IsApproved(profiles, user) ==
    \E p \in profiles : p.user_id = user /\ p.status = "APPROVED"

HasVoted(votes, voter) == \E v \in votes : v.voter_id = voter

\* Mutated: voter_id without UNIQUE.
InsertVoteNotUnique(users, votes, voter, candidate) ==
    {votes \cup {[id |-> id, voter_id |-> voter, candidate_id |-> candidate]} :
        id \in FreshIds("votes", votes)}

\* Mutated: REPLACE INTO votes, a second vote overwrites the first.
ReplaceVote(users, votes, voter, candidate) ==
    {{v \in votes : v.voter_id # voter} \cup
        {[id |-> id, voter_id |-> voter, candidate_id |-> candidate]} :
        id \in FreshIds("votes", votes)}

\* voter_id UNIQUE, voter_id and candidate_id REFERENCES users(id)
InsertVote(users, votes, voter, candidate) ==
    {votes \cup {[id |-> id, voter_id |-> voter, candidate_id |-> candidate]} :
        id \in {i \in FreshIds("votes", votes) :
                   /\ ~HasVoted(votes, voter)
                   /\ References(users, voter)
                   /\ References(users, candidate)}}
=============================================================================
