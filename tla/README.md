# A TLA+ verification of the Online National Polling System

The program is `src/src/com/dsu/onlinevoting/OnlineVotingApp.java` (called *the
application* below; line numbers are of this file): a command-line voting system
on a MySQL/MariaDB database. Each terminal runs its own copy of the program; the
copies share nothing but the database. Everything hard about it comes from there:
a handler is several autocommitted statements with prompts in between, other
terminals run theirs in the meantime, connections die, and processes end at any
prompt.

## Inventory

| Component | State | Operations | Correct when |
|---|---|---|---|
| Schema (608-666) | tables `users`, `voter_profiles`, `candidate_profiles`, `votes`, `forum_posts`; UNIQUE, FOREIGN KEY, AUTO_INCREMENT | the SQL statements of the handlers | keys hold under every interleaving; no row is lost |
| Accounts (95-180) | `users`; per terminal the menu and the account id | `register`, `login`, logout | a login means one account; a session's menu fits its account |
| Role menus (186-288) | the loop a terminal is in | routing to the handlers | officers decide on voters only, candidates are decided on by administrators |
| Applications (295-391) | `voter_profiles`, `candidate_profiles` | `applyVoterID`, `applyCandidate`, status views | one application per account, in the table of its role, never lost or reset |
| Decisions (395-463) | `status` of an application | `approveReject`, pending lists | an id names one application; only administrators put candidates on the ballot |
| Voting (466-537) | `votes`; `candidateUserId` in the handler | `castVote`, candidate list | one vote per voter, by an approved voter for an approved candidate, final once stored; a success line is true |
| Results (542-566) | none | `viewResults` | every vote counted once; the candidate more voters chose ranks higher |
| Forum (569-602) | `forum_posts` | `postForum`, `viewForum` | the latest posts, newest first |
| Start-up (44-71, 608-666) | `conn` | `main`, `setupDatabase` | the administrator exists before anyone can register |
| Password digest (672-685) | none | `sha256` | different digests give different texts, of one length |
| MariaDB, JDBC driver, batch scripts | third party | | external |

Components interact through the tables only. `login` hands the account id to a
menu loop, the loop hands it to the handlers, and every handler runs its
statements on the one static `conn` of its process. There are no callbacks,
threads or transactions.

Hard behaviours: check-then-insert across statements (297/312, 345/362, 505/528);
answers relied on after a prompt or a statement (492, 519, both until 528); an
UPDATE with no condition on the present status (450); an INSERT that
commits while its answer is lost (531); a connection that is never reopened (60); crashes at prompts and between the statements of
start-up (611-664); ids of two kinds that look alike (525), typed from lists that
may be old (439, 515); a collation that ignores case (614); a sort key of whole
seconds from a clock that may be set back (590, 656); a leaderboard that leaves the
order of ties open (551); signed bytes (680). `PROJECT.json` lists them as hazards
with the properties that watch each of them.

## Modules

* **VotingDB** - the schema and the statements. No variables: a table is a set of
  rows, an INSERT is the set of tables it may leave behind (empty when a
  constraint rejects the row), an UPDATE is a function of the table. Free text
  that no statement compares is left out of the rows. `Collate` is the sort key of
  a username, `MaxId` the largest id of each table (2^31 - 1 in MySQL), `sha256`
  an injective function that is not the identity.
* **OnlineVotingApp** (extends VotingDB) - the terminals. `pc[t]` is where
  terminal `t` is, `conn[t]` whether its connection works, `uid[t]` the account
  logged in, `cand[t]` the variable `candidateUserId`. A step is one statement
  with the code around it. Two variables are history and influence nothing:
  `approvals` (who was approved in which table by which role) and `receipts` (the
  lines "Vote cast successfully!").
* **VotingProperties** (extends OnlineVotingApp) - the properties, the inductive
  invariant `IInv`, and the refinement mapping to Election.
* **Election** - what the system promises, without menus, statements or crashes:
  an electorate and a slate that grow by approval and stay disjoint, and a box
  that takes one ballot of each member of the electorate and gives none back.
* **Tally** (extends VotingProperties) - `viewResults`: the rows of its SELECT, and
  every order it may print them in, by count with ties as the server likes.
* **Launch** (extends VotingProperties) - start-up statement by statement. `schema`
  is what CREATE has made, `stage[t]` the statement terminal `t` is about to run.
  The other variables are OnlineVotingApp's, and once its menu is up a terminal
  takes the `Session` steps of that module: the composition is the whole program,
  and `ImplementsApp` says that it is OnlineVotingApp with `main` as one step.
* **Listings** (extends Tally) - the lists and status views as operators, composed
  with the terminals: `screen[t]` is the list last printed at `t`.
* **Forum** - posts, the server's clock, and what each reader saw. It shares only
  the existence of accounts with the rest and has variables of its own.
* **HexDigest** - the loop of `sha256` over signed bytes, for several calls whose
  texts are compared. It justifies `sha256` of VotingDB.
* **MCVoting**, **MCTally**, **MCLaunch**, **MCListings**, **MCHexDigest** - the
  instances for TLC.
* **VotingProofs**, **VotingRefinement**, **CastVoteRules**, **ElectionProofs**,
  **LaunchProofs**, **ListingsProofs**, **ForumProofs**, **HexDigestProofs** - the
  theorems.

| Code | Model |
|---|---|
| `main` to its menu, `setupDatabase`, 44-76, 608-666 | `main`, `SeedAdmin` as one step; in Launch `Start`, `CreateDatabase` 53-56, `Connect` 60, `CreateTable` 611-658, `Seed` 661-664, `ShowMenu`, and `Abort` for the catch at 66-71 and a killed process |
| choice 3 (87); a closed window or end of input at a prompt | `Exit`; `Crash` |
| the server or the network drops the connection | `Disconnect` |
| `register` 140-180, `login` 95-136, logout choices | `register`, `login`, `Logout` |
| `applyVoterID` guard 297-304, INSERT 306-323 | `applyVoterID`, `applyVoterID_insert` |
| `applyCandidate` guard 345-352, INSERT 354-374 | `applyCandidate`, `applyCandidate_insert` |
| `approveReject` 438-463 from the menus 203, 205, 228 | `approveReject`, `DecidesOn`, `StatusFor` |
| `castVote` status check 492-502 | `castVote` |
| earlier vote 505-511 | `castVote_voted` |
| prompt and validation 513-525 | `castVote_validate` |
| INSERT 527-536 | `castVote_insert` |
| `viewResults` 542-566 | `viewResults` (ORDER BY, rank), `ResultRows`, `VotesFor` |
| `viewPendingVoters`, `viewPendingCandidates`, `viewApprovedCandidates` 395-433, 466-484 | the operators of the same names, `Listed`; printed by `Look` |
| `viewMyVoterStatus`, `viewMyCandidateStatus` 327-339, 378-391 | the operators of the same names |
| `postForum` 569-581, `viewForum` 584-602 | `postForum`, `viewForum` with `Pages` (ORDER BY, LIMIT) and `Listings` (order on the page) |
| the conversion loop of `sha256` 678-681 | `Append02x`, `Format02x` |

An answer at a menu that changes nothing (a listing, an invalid choice, a wrong
password, a SELECT that fails there) is a stuttering step. A failed INSERT inside
a handler is not: it brings the terminal back to its menu and is part of the
action. Definitions marked *Mutated* are plausible bugs; replacing the real
definition by one of them makes TLC report the property named in
`PROJECT.json`.

## Runs

| Run | Instance | Shows |
|---|---|---|
| `poll` | 2 terminals; voter, candidate, officer, administrator | `TypeOK`; `BallotIntegrity`: each stored vote is by a voter account that was approved, for a candidate account an administrator approved, however stale the answers `castVote` relied on; `BallotListApprovedByAdmin`; `ApplicationsWellFormed`; `ApplicationsKept` |
| `vote_race` | 3 terminals; voter, candidate, administrator | `OneVotePerVoter`, `ReceiptsHonoured`, `VotesFinal` when one account votes at several terminals and answers get lost; `ImplementsElection`: every step is a step of Election or a stutter |
| `sessions` | 2 terminals; names that collide, also by case, with different roles, and room for applications and votes; fairness | `LoginUnambiguous`, `SessionMatchesAccount`; `ElectionPromises`: nobody is approved as voter and as candidate; `CastVoteReturns` |
| `tally` | 1 terminal; 2 voters, 2 candidates, administrator | `EveryVoteCountedOnce`; `TurnoutBounded`: never more votes on the board than voters were approved; `RanksFollowVoters`: each approved candidate has one rank, above everyone whom fewer voters chose, in whatever order ties come ("ORDER BY votes DESC puts the winner at the top", 541); `CountsNeverFall`, also when a voter is rejected after voting |
| `stale_voter`, `stale_candidate` | 2 terminals | `VoterApprovedAtInsert`, `CandidateApprovedAtInsert` are **violated** (see *Findings*) |
| `paused` | 3 terminals; nobody loses an approval while somebody votes (`PausedSpec`) | `VoterApprovedAtInsert` and `CandidateApprovedAtInsert` hold then |
| `launch` | 3 terminals starting, dying, in use; a registration of `Admin`; fairness | `SchemaReady`, `AdminSeat`, `NothingMissing`, `ImplementsApp`; `StartUpSucceeds`: a terminal that no failure ends reaches its menu, whatever another left half built (the "Auto-Healing Database" of the project's README) |
| `listings` | 2 terminals; voter, candidate, administrator | `ListedMeansSame`, `ListsAgree`; `PendingUntilDecided`: an application leaves the pending list only by `approveReject` of it, which leaves it with its owner and takes no other off |
| `forum` | 5 posts, pages of 2, 3 seconds, clock may be set back | `ReaderMissesNothing`; `NewestFirstBySecond` until the clock is set back |
| `forum_newest` | the same, smaller | `NewestFirst` is **violated** (see *Findings*) |
| `digest` | 2 digests of 2 bytes from the edges of sign and length | `ReadsBack`, `TextsCompareDigests` |

**Bounds.** `MaxId` bounds the ids of each table, and with them the rows. There is
room for every account of the run, and in `poll`, `vote_race` and `sessions` for one row more
in the table the race is about, so that a second application or vote would fit if
nothing but the table's size stopped it. When the ids run out the INSERT fails,
which is what MySQL does. Two terminals are enough for a check at one and a change
at the other; three let two copies of a voter race while an administrator works.
The history variables only grow and are bounded by the accounts. Terminals are
alike and names in `tally` are alike, so the runs without liveness use symmetry
under permutations of them.
Nothing deadlocks: a terminal that is off may start, one that is on may stop, and a
reader may always look. Only the conversion loop of `digest` comes to an
end, and its configuration says so. In the forum a page of 2 stands
for the program's 20: with 5 posts and 3 seconds a page overflows, splits a second
and holds posts of different seconds; one reader is enough because readers do not
affect each other. A digest of 2 bytes is the shortest in which a missing digit
moves the next byte's; the bytes between the edges are left to the proof. In `listings` there is room for a second application of the
voter, and `launch` has three terminals so that two may start while one is used.

**Fairness.** `FairSpec` asks weak fairness of `castVote_voted` and
`castVote_insert` only: the two steps of the handler that wait for the server and
not for a person. A statement is answered or throws, given that the server answers
or the connection breaks (the driver sets no socket timeout, so a server that
accepts and never answers is outside the assumption). Nobody is assumed to type,
to log in, or to decide on anything. `CastVoteReturns` says that the loser of the
race and the owner of a dead connection come back to the menu. `LaunchFairSpec`
asks the same of the statements of start-up, between which `main` waits for nobody;
starting, failing and everything after the menu are not assumed to happen.

**Findings.** The comment at 486-489 says `castVote` "enforces three rules before
saving a vote". Rule 2 (one vote) is backed by the UNIQUE key and holds. Rules 1
and 3 are checked and then not protected: `stale_voter` rejects the voter while the
candidate prompt is open, `stale_candidate` rejects the candidate between the
validating SELECT and the INSERT, and the vote is stored in both. What still holds
in every case is `BallotIntegrity`: both *were* approved at some time. And the gap is
no wider than that: if no approval is withdrawn while somebody is in `castVote`, both
rules hold at any number of terminals (`paused`). `PausedSpec` is not something the
code enforces; it is a condition those who hold a poll can keep, and with one terminal
it keeps itself.

The comment at 583 says `viewForum` "fetches the latest 20 forum posts, newest
first". The only sort key is a stamp of whole seconds: `forum_newest` lists the older
of two posts of one second first. `NewestFirstBySecond` and `ReaderMissesNothing`
are what does hold; the first needs a clock that is not set back, which a database
that travels between computers (README of the repository, line 5) does not promise.

## Proofs

The theorems are checked by TLAPS for any set of terminals, any usernames,
passwords and registrations, any collation and any id ranges; for pages of any
length and any clock; and for digests of any length. They rest on assumptions TLC
evaluates in the runs: `SchemaAssumption` (the administrator's name and password
are among the texts, `Collate` is defined on all names, `MaxId` gives naturals),
`AppAssumption` (registrations are made of such texts), `LaunchAssumption` (the users
table has room for the administrator), `ForumAssumption` (bounds
are naturals) and `DigestAssumption` (bytes are between -128 and 127).

**Voting.** Lemmas state what each statement leaves behind: an INSERT that succeeds adds one
row with a fresh id whose owner had none, the UPDATE loses, invents and reassigns
no application. `TypeCorrect` follows. The safety properties are not inductive:
`castVote_insert` stores a vote on answers that may be out of date, so what
`BallotIntegrity` needs is that some approval *was* given, and that has to be
carried from the table (`ApprovedVotersRecorded`, `BallotListApprovedByAdmin`)
through the session (`CastVoteSaw`) to the vote. `IInv` adds this, and
`AccountsDistinct`, `ApprovalsSound` and `SessionMatchesAccount`, which say that
ids and names tell accounts apart and that approvals fit roles. The link between
the parts about tables and those about terminals is lemma `Lasting`: no step takes
back a role or an approval. `IInvStep` goes through the actions one by one;
`DataAfter...` lemmas settle the tables, `OtherSessions` the terminals that do not
move.

**Start-up.** `SchemaReady` and `AdminSeat` become inductive as `LaunchInv` once it
is added that a terminal has a menu exactly when its stage is `up`, that what a
terminal created is still there (`Made`), and that after its seed the name is taken.
Then `register` at any terminal finds the name taken, because a terminal at a menu
has run its seed. The same invariant gives the refinement: a `Seed` is a `main` that
stores the administrator and ends, `ShowMenu` is a `main` that finds it, everything
before them stutters. What is proved of OnlineVotingApp carries over
(`VotesSoundFromLaunch`, `ElectionFromLaunch`). `NothingMissing` is the safety half of
`StartUpSucceeds`: no statement of start-up is refused by what is in the database. For
the seed it needs that `users` is empty until the administrator is in it
(`FirstIsAdmin`), so that the ids cannot run out before it is stored.

**Lists and results.** `ListsAgree` follows from `IInv`. `ListedMeansSame` is
inductive by the step lemma of `ApplicationsKept`; `PendingUntilDecided` because
every step but `approveReject` only adds rows (`OthersOnlyAdd`), and the UPDATE takes
off what it names (`UpdateTakesOff`), which is one application because `IInv` tells
applications apart by id. `CountsNeverFall` needs that the votes
are finitely many, which is an invariant of its own. The total on the board is a sum
over rows; it is written as the cardinality of a set (`Strokes`: one pair for each row
and each vote it counts), so that no induction over the rows is needed. Lemma
`PartsAddUp` numbers the votes of each row and gets a bijection between strokes and
votes, as each approved candidate has one row (`RowsOfBoard`), which gives `BoardAddsUp`. `TurnoutWithinElectorate`
follows because a vote's voter is an injection from votes into the electorate
(`OneVotePerVoter`, `BallotIntegrity`). For `RanksAreFair` the count of a row is the
number of people who chose the candidate (`VotesAreVoters`, again by
`OneVotePerVoter`); that a sorted order of the rows exists is not part of it.

**The rules of `castVote`.** `StillApproved` (what `castVote` read is still so) is the
part of the two findings that fails. It is inductive under `PausedSpec`, at any number
of terminals, and with a single terminal `Spec` implies `PausedSpec`
(`AloneIsPaused`), because whoever is in `castVote` is at no menu that decides.

**The election.** `Refinement` maps approvals to admissions and storing a vote to
casting it. `PromisesKept` is proved of Election alone, in three short steps, and
reaches the program as an instance under the same mapping (`PromisesInherited`).

**Forum.** A page that left out a new post would hold a full page of other new ones,
more than there are (`PageHoldsNewer`). For the order, ids and stamps agree as long
as the clock has not been set back (`StampsOrdered`).

**Digest.** `ReadsBack` is the loop invariant; two texts of full length then determine
their digests.

| Theorem | States |
|---|---|
| `TypeCorrect` | `[]TypeOK` |
| `OneVote`, `BallotsSound`, `ReceiptsStand` | `[]OneVotePerVoter`, `[]BallotIntegrity`, `[]ReceiptsHonoured` |
| `SessionsSound`, `LoginsUnambiguous` | `[]SessionMatchesAccount`, `[]LoginUnambiguous` |
| `ApplicationsSound`, `BallotListSound` | `[]ApplicationsWellFormed`, `[]BallotListApprovedByAdmin` |
| `VotesStand`, `ApplicationsStand` | the action properties `VotesFinal`, `ApplicationsKept` |
| `Refinement` | `Spec => ImplementsElection`: approvals map to admissions, storing a vote to casting it |
| `PromisesKept`, `PromisesInherited` | Election's `Spec => []Promises`; `[]ElectionPromises` |
| `VoterRulePaused`, `CandidateRulePaused` | `PausedSpec => VoterApprovedAtInsert`, `CandidateApprovedAtInsert` |
| `RulesHoldAlone` | with one terminal both follow from `Spec` |
| `SchemasReady`, `AdminSeated`, `StartUpFindsAll` | `LaunchSpec => []SchemaReady`, `[]AdminSeat`, `[]NothingMissing` |
| `LaunchImplementsApp`, `VotesSoundFromLaunch` | `LaunchSpec => ImplementsApp`, and with it one vote per voter, sound ballots, true success lines |
| `ElectionFromLaunch` | `LaunchSpec => ImplementsElection`, `VotesFinal`, `ApplicationsKept` |
| `CountsStand`, `RowsPartition` | `CountsNeverFall`; each vote for an approved candidate falls to exactly one row |
| `BoardAddsUp`, `TurnoutWithinElectorate`, `RanksAreFair` | `[]EveryVoteCountedOnce`, `[]TurnoutBounded`, `[]RanksFollowVoters` |
| `ListsTellOneStory`, `OldListsStand`, `PendingStays` | `[]ListsAgree`, `[]ListedMeansSame`, `PendingUntilDecided` |
| `MissesNothing`, `OrderedBySecond` | `ReaderMissesNothing`; `[]NewestFirstBySecond` |
| `DigestReadsBack`, `TextsTellDigests` | `[]ReadsBack`, `[]TextsCompareDigests` |

Every invariant and every action property of a passing run is proved. Only
model-checked are `CastVoteReturns` and `StartUpSucceeds`: liveness under fairness is
outside the prover. `NothingMissing` is what of the second can be proved.

## Not modelled

Every handler of the application is modelled. Left out:

* **The bundled MariaDB server and JDBC driver.** The repository holds Windows
  binaries and the vendor's public headers under `src/mariadb/`, by far most of its
  lines; nothing in the repository compiles or includes them, and the server's own
  source is not there. A model of a header's class declarations would say nothing
  about this system. What the application relies on is modelled from how it uses it
  and marked external: statements that are atomic under autocommit, constraint
  errors, AUTO_INCREMENT, the clock behind CURRENT_TIMESTAMP, connections that die.
* **The digest algorithm** of the Java library: `HexDigest` takes any bytes, and
  VotingDB relies on SHA-256 having no collisions.
* **The batch scripts**, which start processes and keep no state, and the wording and
  layout of what is printed.
* **Free text** (names, parties, addresses, manifestos, posts): stored and printed,
  never compared. A text the column refuses is a failed INSERT.
