-------------------------------- MODULE Forum -------------------------------
(***************************************************************************)
(* The discussion forum: postForum() and viewForum(), which voters and     *)
(* candidates reach from their menus.  A post is stamped by the server's   *)
(* clock in whole seconds, and that stamp is all the listing sorts by.     *)
(*                                                                         *)
(* Content and author are left out of the rows: no statement compares the  *)
(* content, and the JOIN on users finds the one account the foreign key    *)
(* asked for (an account is never deleted).                                *)
(***************************************************************************)
EXTENDS Naturals, FiniteSets, Functions

CONSTANTS
    Readers,        \* sessions at a voter's or a candidate's menu
    Limit,          \* posts a listing shows, 20 in the program
    MaxPosts,       \* the largest AUTO_INCREMENT id
    MaxTime         \* the last second the run looks at

ASSUME ForumAssumption ==
    Limit \in Nat /\ MaxPosts \in Nat /\ MaxTime \in Nat

VARIABLES
    forum_posts,
    now,       \* CURRENT_TIMESTAMP
    screen,    \* the listing each reader saw last, top line first
    seen,      \* history: the posts there were when it did
    rewound    \* history: whether the clock has been set back

vars == <<forum_posts, now, screen, seen, rewound>>

Times == 0 .. MaxTime

PostRow == [id : 1 .. MaxPosts, posted_at : Times]

Init ==
    /\ forum_posts = {}
    /\ now \in Times
    /\ screen = [r \in Readers |-> <<>>]
    /\ seen = [r \in Readers |-> {}]
    /\ rewound = FALSE

-----------------------------------------------------------------------------

\* posted_at DEFAULT CURRENT_TIMESTAMP.  An empty content, or a failed INSERT,
\* stores nothing.
postForum ==
    /\ \E id \in {i \in 1 .. MaxPosts : \A p \in forum_posts : p.id < i} :
          forum_posts' = forum_posts \cup {[id |-> id, posted_at |-> now]}
    /\ UNCHANGED <<now, screen, seen, rewound>>

\* Mutated: LIMIT without ORDER BY.
PagesUnsorted(limit) ==
    {page \in SUBSET forum_posts : IF Cardinality(forum_posts) <= limit THEN page = forum_posts
                                   ELSE Cardinality(page) = limit}

\* ORDER BY posted_at DESC LIMIT: the rows that make it onto the page.  Among
\* rows with the same stamp the server takes any.
Pages(limit) ==
    {page \in SUBSET forum_posts :
        /\ IF Cardinality(forum_posts) <= limit THEN page = forum_posts
           ELSE Cardinality(page) = limit
        /\ \A p \in page, q \in forum_posts \ page : p.posted_at >= q.posted_at}

\* Mutated: ORDER BY posted_at, oldest first.
ListingsOldestFirst(page) ==
    {s \in [1 .. Cardinality(page) -> page] :
        /\ Range(s) = page
        /\ \A i, j \in DOMAIN s : i < j => s[i].posted_at <= s[j].posted_at}

\* ... and the order they come in.
Listings(page) ==
    {s \in [1 .. Cardinality(page) -> page] :
        /\ Range(s) = page
        /\ \A i, j \in DOMAIN s : i < j => s[i].posted_at >= s[j].posted_at}

viewForum(r) ==
    /\ \E page \in Pages(Limit) : \E s \in Listings(page) : screen' = [screen EXCEPT ![r] = s]
    /\ seen' = [seen EXCEPT ![r] = forum_posts]
    /\ UNCHANGED <<forum_posts, now, rewound>>

\* The server's clock.
Tick ==
    /\ now < MaxTime
    /\ now' = now + 1
    /\ UNCHANGED <<forum_posts, screen, seen, rewound>>

\* Set by hand, or the database moves to a computer whose clock is behind.
SetBack ==
    /\ \E time \in Times : time < now /\ now' = time
    /\ rewound' = TRUE
    /\ UNCHANGED <<forum_posts, screen, seen>>

Next == postForum \/ Tick \/ SetBack \/ \E r \in Readers : viewForum(r)

Spec == Init /\ [][Next]_vars

-----------------------------------------------------------------------------

TypeOK ==
    /\ forum_posts \subseteq PostRow
    /\ now \in Times
    /\ DOMAIN screen = Readers
    /\ \A r \in Readers : screen[r] \in [1 .. Cardinality(Range(screen[r])) -> forum_posts]
    /\ seen \in [Readers -> SUBSET forum_posts]
    /\ rewound \in BOOLEAN

New(r) == forum_posts \ seen[r]

\* A reader who comes back before more posts arrived than the page holds, and
\* finds the new ones stamped later than all it knew, sees every one of them.
\* It takes a clock set back, or a post in the second of the last look, for a
\* post to be passed over.
ReaderMissesNothing ==
    [][\A r \in Readers :
          /\ viewForum(r)
          /\ Cardinality(New(r)) <= Limit
          /\ \A p \in seen[r], q \in New(r) : p.posted_at < q.posted_at
          => New(r) \subseteq Range(screen'[r])]_vars

\* Until the clock is set back a page is in the order of posting, last first,
\* but for posts of the same second.
NewestFirstBySecond ==
    ~rewound => \A r \in Readers : \A i, j \in DOMAIN screen[r] :
        i < j => \/ screen[r][i].id > screen[r][j].id
                 \/ screen[r][i].posted_at = screen[r][j].posted_at

\* "Fetches the latest 20 forum posts, newest first."
NewestFirst ==
    \A r \in Readers : \A i, j \in DOMAIN screen[r] :
        i < j => screen[r][i].id > screen[r][j].id
=============================================================================
