-------------------------- MODULE OnlineVotingApp ---------------------------
(***************************************************************************)
(* Any number of terminals, each running OnlineVotingApp.java, on one      *)
(* database.  A terminal is single-threaded; a step of the model is one    *)
(* SQL statement together with the code up to the next statement or        *)
(* prompt, so the steps of different terminals interleave exactly where    *)
(* the program gives way to the server or to a person typing.              *)
(*                                                                         *)
(* pc[t] is where terminal t is: "off", the main menu "main", a role's     *)
(* menu (named by the role, as login() routes on it), or inside a handler  *)
(* that needs more than one statement:                                     *)
(*   apply_voter      applyVoterID() passed its guard and prompts          *)
(*   apply_candidate  applyCandidate() passed its guard and prompts        *)
(*   vote_check       castVote() saw an approved Voter ID                  *)
(*   vote_prompt      castVote() saw no earlier vote and prompts           *)
(*   vote_insert      castVote() validated the candidate                   *)
(*                                                                         *)
(* A listing, an invalid choice, a failed login, an SQLException on a      *)
(* SELECT at a menu: each prints a line and comes back to the same menu    *)
(* with nothing changed, a stuttering step that Next leaves implicit.      *)
(***************************************************************************)
EXTENDS VotingDB

CONSTANTS
    Terminals,
    Registrations   \* what people type into register(): username, password, role

VARIABLES
    users, voter_profiles, candidate_profiles, votes,   \* the tables
    pc,          \* where each terminal is
    conn,        \* whether its one Connection still works
    uid,         \* the id of the account logged in, 0 for none
    cand,        \* castVote()'s candidateUserId, 0 outside vote_insert
    approvals,   \* history: applications approved, and by which role
    receipts     \* history: "Vote cast successfully!" lines, per voter

tables == <<users, voter_profiles, candidate_profiles, votes>>
terminal == <<pc, conn, uid, cand>>
history == <<approvals, receipts>>
vars == <<tables, terminal, history>>

ASSUME AppAssumption ==
    \A a \in Registrations : a.username \in Usernames /\ a.password \in Passwords

VotePcs == {"vote_check", "vote_prompt", "vote_insert"}

Pcs == {"off", "main", "apply_voter", "apply_candidate"} \cup Roles \cup VotePcs

Approval == [table : {"voter_profiles", "candidate_profiles"},
             user : Ids("users"), by : {"ADMIN", "FIELD_OFFICER"}]

TypeOK ==
    /\ users \subseteq UserRow
    /\ voter_profiles \subseteq ProfileRow("voter_profiles")
    /\ candidate_profiles \subseteq ProfileRow("candidate_profiles")
    /\ votes \subseteq VoteRow
    /\ pc \in [Terminals -> Pcs]
    /\ conn \in [Terminals -> BOOLEAN]
    /\ uid \in [Terminals -> Ids("users") \cup {0}]
    /\ cand \in [Terminals -> Ids("users") \cup {0}]
    /\ approvals \subseteq Approval
    /\ receipts \subseteq [voter : Ids("users"), candidate : Ids("users")]

Init ==
    /\ users = {} /\ voter_profiles = {} /\ candidate_profiles = {} /\ votes = {}
    /\ pc = [t \in Terminals |-> "off"]
    /\ conn = [t \in Terminals |-> FALSE]
    /\ uid = [t \in Terminals |-> 0]
    /\ cand = [t \in Terminals |-> 0]
    /\ approvals = {} /\ receipts = {}

Goto(t, l) == pc' = [pc EXCEPT ![t] = l]

-----------------------------------------------------------------------------
(***************************************************************************)
(* Starting and stopping.                                                  *)
(***************************************************************************)

\* main() up to its menu, as one step: connect and setupDatabase().  When a part
\* of it fails the program prints the reason and ends; it may have stored the
\* administrator before.  Launch has the statements one by one.
main(t) ==
    /\ pc[t] = "off"
    /\ users' \in SeedAdmin(users)
    /\ \/ Goto(t, "main") /\ conn' = [conn EXCEPT ![t] = TRUE]
       \/ UNCHANGED <<pc, conn>>
    /\ UNCHANGED <<voter_profiles, candidate_profiles, votes, uid, cand, history>>

\* The process ends, with whatever its variables held.
Halt(t) ==
    /\ Goto(t, "off")
    /\ conn' = [conn EXCEPT ![t] = FALSE]
    /\ uid' = [uid EXCEPT ![t] = 0]
    /\ cand' = [cand EXCEPT ![t] = 0]
    /\ UNCHANGED <<tables, history>>

\* Choice 3 of the main menu.
Exit(t) == pc[t] = "main" /\ Halt(t)

\* A closed window, or the end of standard input at any prompt, which nextLine()
\* reports with an exception nobody catches.
Crash(t) == pc[t] # "off" /\ Halt(t)

\* The server stops, or drops an idle connection.  Nothing assigns conn again.
Disconnect(t) ==
    /\ conn[t]
    /\ conn' = [conn EXCEPT ![t] = FALSE]
    /\ UNCHANGED <<tables, pc, uid, cand, history>>

-----------------------------------------------------------------------------
(***************************************************************************)
(* Accounts.                                                               *)
(***************************************************************************)

\* Mutated: ON DUPLICATE KEY UPDATE role, which turns the account around.
registerUpsert(t) ==
    /\ pc[t] = "main"
    /\ conn[t]
    /\ \E a \in Registrations :
          /\ a.role \in Roles
          /\ IF UsernameTaken(users, a.username)
             THEN users' = {IF Collate[u.username] = Collate[a.username]
                            THEN [u EXCEPT !.role = a.role] ELSE u : u \in users}
             ELSE users' \in InsertUser(users, a.username, sha256(a.password), a.role)
    /\ UNCHANGED <<voter_profiles, candidate_profiles, votes, terminal, history>>

register(t) ==
    /\ pc[t] = "main"
    /\ conn[t]
    /\ \E a \in Registrations :
          /\ a.role \in Roles
          /\ users' \in InsertUser(users, a.username, sha256(a.password), a.role)
    /\ UNCHANGED <<voter_profiles, candidate_profiles, votes, terminal, history>>

\* The rows of login()'s SELECT.
LoginMatches(username, password) ==
    {u \in users : /\ Collate[u.username] = Collate[username]
                   /\ u.password_hash = sha256(password)}

login(t) ==
    /\ pc[t] = "main"
    /\ conn[t]
    /\ \E username \in Usernames, password \in Passwords :
          \E u \in LoginMatches(username, password) :
             /\ uid' = [uid EXCEPT ![t] = u.id]
             /\ Goto(t, u.role)
    /\ UNCHANGED <<tables, conn, cand, history>>

Logout(t) ==
    /\ pc[t] \in Roles
    /\ Goto(t, "main")
    /\ uid' = [uid EXCEPT ![t] = 0]
    /\ UNCHANGED <<tables, conn, cand, history>>

-----------------------------------------------------------------------------
(***************************************************************************)
(* Applications.  The guard is one statement and the INSERT another, with  *)
(* the prompts in between.  The INSERT may fail whatever the guard saw: on *)
(* the UNIQUE key, on a text the column refuses, on a dead connection.     *)
(***************************************************************************)

applyVoterID(t) ==
    /\ pc[t] = "VOTER"
    /\ conn[t]
    /\ ~HasProfile(voter_profiles, uid[t])
    /\ Goto(t, "apply_voter")
    /\ UNCHANGED <<tables, conn, uid, cand, history>>

\* Mutated: REPLACE INTO voter_profiles.
applyVoterID_replace(t) ==
    /\ pc[t] = "apply_voter"
    /\ \E id \in FreshIds("voter_profiles", voter_profiles) :
          voter_profiles' = {p \in voter_profiles : p.user_id # uid[t]}
             \cup {[id |-> id, user_id |-> uid[t], status |-> "PENDING"]}
    /\ Goto(t, "VOTER")
    /\ UNCHANGED <<users, candidate_profiles, votes, conn, uid, cand, history>>

applyVoterID_insert(t) ==
    /\ pc[t] = "apply_voter"
    /\ \/ /\ conn[t]
          /\ voter_profiles' \in
                InsertProfile("voter_profiles", users, voter_profiles, uid[t])
       \/ UNCHANGED voter_profiles
    /\ Goto(t, "VOTER")
    /\ UNCHANGED <<users, candidate_profiles, votes, conn, uid, cand, history>>

applyCandidate(t) ==
    /\ pc[t] = "CANDIDATE"
    /\ conn[t]
    /\ ~HasProfile(candidate_profiles, uid[t])
    /\ Goto(t, "apply_candidate")
    /\ UNCHANGED <<tables, conn, uid, cand, history>>

applyCandidate_insert(t) ==
    /\ pc[t] = "apply_candidate"
    /\ \/ /\ conn[t]
          /\ candidate_profiles' \in
                InsertProfile("candidate_profiles", users, candidate_profiles, uid[t])
       \/ UNCHANGED candidate_profiles
    /\ Goto(t, "CANDIDATE")
    /\ UNCHANGED <<users, voter_profiles, votes, conn, uid, cand, history>>

-----------------------------------------------------------------------------
(***************************************************************************)
(* Decisions.                                                              *)
(***************************************************************************)

\* Mutated: the officer's menu offers candidates too.
DecidesOnBoth(menu) ==
    IF menu \in {"ADMIN", "FIELD_OFFICER"}
    THEN {"voter_profiles", "candidate_profiles"} ELSE {}

\* The tables a menu passes to approveReject().
DecidesOn(menu) ==
    {table \in {"voter_profiles", "candidate_profiles"} :
        \/ menu = "ADMIN"
        \/ menu = "FIELD_OFFICER" /\ table = "voter_profiles"}

\* Mutated: the typed action is stored as it is.
StatusForTyped(action) == action

\* The ternary of approveReject(); any other text is refused before the UPDATE.
StatusFor(action) == IF action = "APPROVE" THEN "APPROVED" ELSE "REJECTED"

\* What approving the application with this id adds to the history.
Approved(t, table, profiles, id, status) ==
    {[table |-> table, user |-> p.user_id, by |-> pc[t]] :
        p \in {q \in profiles : q.id = id /\ status = "APPROVED"}}

\* The UPDATE names the id alone: an application already decided is decided
\* again.  An id that is not there, or not a number, changes nothing.
approveReject(t) ==
    /\ conn[t]
    /\ \E action \in {"APPROVE", "REJECT"} :
          LET status == StatusFor(action) IN
          \/ /\ "voter_profiles" \in DecidesOn(pc[t])
             /\ \E id \in {p.id : p \in voter_profiles} :
                   /\ voter_profiles' = SetStatus(voter_profiles, id, status)
                   /\ approvals' = approvals \cup
                         Approved(t, "voter_profiles", voter_profiles, id, status)
             /\ UNCHANGED candidate_profiles
          \/ /\ "candidate_profiles" \in DecidesOn(pc[t])
             /\ \E id \in {p.id : p \in candidate_profiles} :
                   /\ candidate_profiles' = SetStatus(candidate_profiles, id, status)
                   /\ approvals' = approvals \cup
                         Approved(t, "candidate_profiles", candidate_profiles, id, status)
             /\ UNCHANGED voter_profiles
    /\ UNCHANGED <<users, votes, terminal, receipts>>

-----------------------------------------------------------------------------
(***************************************************************************)
(* castVote(), four statements apart from the listing, which prints and    *)
(* decides nothing.  Every refusal and every exception returns to the      *)
(* voter's menu.                                                           *)
(***************************************************************************)

\* Mutated: any application will do, the status is not looked at.
castVoteAnyStatus(t) ==
    /\ pc[t] = "VOTER"
    /\ conn[t]
    /\ HasProfile(voter_profiles, uid[t])
    /\ Goto(t, "vote_check")
    /\ UNCHANGED <<tables, conn, uid, cand, history>>

castVote(t) ==
    /\ pc[t] = "VOTER"
    /\ conn[t]
    /\ IsApproved(voter_profiles, uid[t])
    /\ Goto(t, "vote_check")
    /\ UNCHANGED <<tables, conn, uid, cand, history>>

castVote_voted(t) ==
    /\ pc[t] = "vote_check"
    /\ \/ /\ conn[t] /\ ~HasVoted(votes, uid[t])
          /\ Goto(t, "vote_prompt")
       \/ /\ ~conn[t] \/ HasVoted(votes, uid[t])
          /\ Goto(t, "VOTER")
    /\ UNCHANGED <<tables, conn, uid, cand, history>>

\* Mutated: the typed id is taken for the user id.
castVote_validateTyped(t) ==
    /\ pc[t] = "vote_prompt"
    /\ conn[t]
    /\ \E p \in candidate_profiles :
          /\ p.status = "APPROVED"
          /\ cand' = [cand EXCEPT ![t] = p.id]
    /\ Goto(t, "vote_insert")
    /\ UNCHANGED <<tables, conn, uid, history>>

\* Mutated: AND status = 'APPROVED' is left out of the SELECT.
castVote_validateAny(t) ==
    /\ pc[t] = "vote_prompt"
    /\ conn[t]
    /\ \E p \in candidate_profiles : cand' = [cand EXCEPT ![t] = p.user_id]
    /\ Goto(t, "vote_insert")
    /\ UNCHANGED <<tables, conn, uid, history>>

\* The id typed belongs to an approved candidate, or it does not (or is not a
\* number, or the statement fails).
castVote_validate(t) ==
    /\ pc[t] = "vote_prompt"
    /\ \/ /\ conn[t]
          /\ \E p \in candidate_profiles :
                /\ p.status = "APPROVED"
                /\ cand' = [cand EXCEPT ![t] = p.user_id]
          /\ Goto(t, "vote_insert")
       \/ /\ Goto(t, "VOTER")
          /\ UNCHANGED cand
    /\ UNCHANGED <<tables, conn, uid, history>>

Receipt(t) == [voter |-> uid[t], candidate |-> cand[t]]

\* Mutated: success is printed whether or not the INSERT threw.
castVote_insertCareless(t) ==
    /\ pc[t] = "vote_insert"
    /\ \/ conn[t] /\ votes' \in InsertVote(users, votes, uid[t], cand[t])
       \/ UNCHANGED votes
    /\ receipts' = receipts \cup {Receipt(t)}
    /\ Goto(t, "VOTER")
    /\ cand' = [cand EXCEPT ![t] = 0]
    /\ UNCHANGED <<users, voter_profiles, candidate_profiles, conn, uid, approvals>>

\* Mutated: a rejected INSERT is tried again instead of returning to the menu.
castVote_insertRetry(t) ==
    /\ pc[t] = "vote_insert"
    /\ conn[t]
    /\ votes' \in InsertVote(users, votes, uid[t], cand[t])
    /\ receipts' = receipts \cup {Receipt(t)}
    /\ Goto(t, "VOTER")
    /\ cand' = [cand EXCEPT ![t] = 0]
    /\ UNCHANGED <<users, voter_profiles, candidate_profiles, conn, uid, approvals>>

\* The row is stored and acknowledged; or it is stored and the connection dies
\* before the answer arrives, which the program cannot tell from a failure; or
\* a constraint, the server or a dead connection rejects it.
castVote_insert(t) ==
    /\ pc[t] = "vote_insert"
    /\ \/ /\ conn[t]
          /\ votes' \in InsertVote(users, votes, uid[t], cand[t])
          /\ \/ receipts' = receipts \cup {Receipt(t)} /\ UNCHANGED conn
             \/ conn' = [conn EXCEPT ![t] = FALSE] /\ UNCHANGED receipts
       \/ UNCHANGED <<votes, receipts, conn>>
    /\ Goto(t, "VOTER")
    /\ cand' = [cand EXCEPT ![t] = 0]
    /\ UNCHANGED <<users, voter_profiles, candidate_profiles, uid, approvals>>

-----------------------------------------------------------------------------

\* What a terminal does once it shows a menu.
Session(t) ==
    \/ Exit(t) \/ Crash(t) \/ Disconnect(t)
    \/ register(t) \/ login(t) \/ Logout(t)
    \/ applyVoterID(t) \/ applyVoterID_insert(t)
    \/ applyCandidate(t) \/ applyCandidate_insert(t)
    \/ approveReject(t)
    \/ castVote(t) \/ castVote_voted(t)
    \/ castVote_validate(t) \/ castVote_insert(t)

Next == \E t \in Terminals : main(t) \/ Session(t)

Spec == Init /\ [][Next]_vars

\* A statement the program has issued is answered or fails: these two steps
\* wait for no one.  Every other step waits for a person.
Fairness ==
    \A t \in Terminals :
        /\ WF_vars(castVote_voted(t))
        /\ WF_vars(castVote_insert(t))

FairSpec == Spec /\ Fairness
=============================================================================
