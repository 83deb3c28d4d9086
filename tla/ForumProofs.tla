----------------------------- MODULE ForumProofs ----------------------------
(***************************************************************************)
(* Proofs about Forum, for any page length, clock and number of posts.     *)
(***************************************************************************)
EXTENDS Forum, FiniteSetTheorems, TLAPS

\* TypeOK, and that a set of posts has a cardinality at all.
ForumInv == TypeOK /\ IsFiniteSet(forum_posts)

LEMMA PostAddsOne ==
    ASSUME ForumInv, postForum
    PROVE  \E id \in 1 .. MaxPosts :
              /\ \A p \in forum_posts : p.id < id
              /\ forum_posts' = forum_posts \cup {[id |-> id, posted_at |-> now]}
BY DEF postForum

\* What a listing puts on the screen is a sorted arrangement of a page.
LEMMA ViewShowsPage ==
    ASSUME ForumInv, NEW r \in Readers, viewForum(r)
    PROVE  \E page \in Pages(Limit) :
              /\ page \subseteq forum_posts
              /\ Range(screen'[r]) = page
              /\ screen'[r] \in [1 .. Cardinality(page) -> page]
              /\ \A i, j \in DOMAIN screen'[r] :
                    i < j => screen'[r][i].posted_at >= screen'[r][j].posted_at
<1>1. PICK page \in Pages(Limit) :
         \E s \in Listings(page) : screen' = [screen EXCEPT ![r] = s]
  BY DEF viewForum
<1>2. PICK s \in Listings(page) : screen' = [screen EXCEPT ![r] = s]
  BY <1>1
<1>3. screen'[r] = s
  BY <1>2 DEF ForumInv, TypeOK
<1>4. page \subseteq forum_posts
  BY DEF Pages
<1>5. QED
  BY <1>3, <1>4 DEF Listings

LEMMA ForumInvStep ==
    ASSUME ForumInv, [Next]_vars
    PROVE  ForumInv'
<1>0. /\ forum_posts \subseteq PostRow /\ now \in Times /\ DOMAIN screen = Readers
      /\ \A r \in Readers : screen[r] \in [1 .. Cardinality(Range(screen[r])) -> forum_posts]
      /\ seen \in [Readers -> SUBSET forum_posts] /\ rewound \in BOOLEAN
      /\ IsFiniteSet(forum_posts)
  BY DEF ForumInv, TypeOK
<1>1. CASE UNCHANGED vars
  BY <1>1 DEF ForumInv, TypeOK, vars
<1>2. CASE postForum
  <2>1. PICK id \in 1 .. MaxPosts :
           forum_posts' = forum_posts \cup {[id |-> id, posted_at |-> now]}
    BY <1>2, PostAddsOne
  <2>2. IsFiniteSet(forum_posts')
    BY <1>0, <2>1, FS_AddElement
  <2>3. forum_posts' \subseteq PostRow
    BY <1>0, <2>1 DEF PostRow
  <2>4. forum_posts \subseteq forum_posts' /\ now' = now /\ screen' = screen /\ seen' = seen /\ rewound' = rewound
    BY <1>2, <2>1 DEF postForum
  <2>5. \A r \in Readers : screen'[r] \in [1 .. Cardinality(Range(screen'[r])) -> forum_posts']
    BY <1>0, <2>4
  <2>6. seen' \in [Readers -> SUBSET (forum_posts')]
    BY <1>0, <2>4
  <2>7. QED
    BY <1>0, <2>2, <2>3, <2>4, <2>5, <2>6 DEF ForumInv, TypeOK, Range
<1>3. CASE Tick \/ SetBack
  <2>1. now' \in Times
    BY <1>0, <1>3, ForumAssumption DEF Tick, SetBack, Times
  <2>2. QED
    BY <1>0, <1>3, <2>1 DEF ForumInv, TypeOK, Tick, SetBack, Range
<1>4. ASSUME NEW r \in Readers, viewForum(r) PROVE ForumInv'
  <2>1. PICK page \in Pages(Limit) :
           /\ page \subseteq forum_posts /\ Range(screen'[r]) = page
           /\ screen'[r] \in [1 .. Cardinality(page) -> page]
    BY <1>4, ViewShowsPage
  <2>2. /\ forum_posts' = forum_posts /\ now' = now /\ rewound' = rewound
        /\ DOMAIN screen' = Readers
        /\ \A q \in Readers \ {r} : screen'[q] = screen[q]
        /\ seen' \in [Readers -> SUBSET forum_posts]
    BY <1>0, <1>4 DEF viewForum
  <2>3. screen'[r] \in [1 .. Cardinality(Range(screen'[r])) -> forum_posts]
    BY <2>1
  <2>4. \A q \in Readers : screen'[q] \in [1 .. Cardinality(Range(screen'[q])) -> forum_posts]
    BY <1>0, <2>2, <2>3
  <2>5. QED
    BY <1>0, <2>2, <2>4 DEF ForumInv, TypeOK, Range
<1>5. QED
  BY <1>1, <1>2, <1>3, <1>4 DEF Next

LEMMA ForumInit == Init => ForumInv
<1> SUFFICES ASSUME Init PROVE ForumInv
  OBVIOUS
<1>1. IsFiniteSet({}) /\ Cardinality({}) = 0
  BY FS_EmptySet
<1>2. \A r \in Readers : Range(screen[r]) = {} /\ screen[r] = <<>>
  BY DEF Init, Range
<1>3. \A S : <<>> \in [1 .. 0 -> S]
  OBVIOUS
<1>4. \A r \in Readers : screen[r] \in [1 .. Cardinality(Range(screen[r])) -> forum_posts]
  BY <1>1, <1>2, <1>3
<1>5. QED
  BY <1>1, <1>4 DEF Init, ForumInv, TypeOK

LEMMA ForumInductive == Spec => []ForumInv
<1>1. ForumInv /\ [Next]_vars => ForumInv'
  BY ForumInvStep
<1>2. QED
  BY <1>1, ForumInit, PTL DEF Spec

-----------------------------------------------------------------------------

\* If the new posts fit on a page and are stamped later than all older ones, a
\* page without one of them would have to hold a full page of other new ones.
LEMMA PageHoldsNewer ==
    ASSUME NEW posts, IsFiniteSet(posts), NEW limit \in Nat,
           NEW page \in SUBSET posts, NEW new \in SUBSET posts,
           IF Cardinality(posts) <= limit THEN page = posts ELSE Cardinality(page) = limit,
           Cardinality(new) <= limit,
           \A p \in posts \ new, q \in new : ~(p.posted_at >= q.posted_at),
           \A p \in page, q \in posts \ page : p.posted_at >= q.posted_at
    PROVE  new \subseteq page
<1>1. SUFFICES ASSUME NEW q \in new, q \notin page PROVE FALSE
  OBVIOUS
<1>2. Cardinality(page) = limit
  BY <1>1
<1>3. page \subseteq new \ {q}
  BY <1>1
<1>4. IsFiniteSet(new) /\ Cardinality(new) \in Nat
  BY FS_Subset, FS_CardinalityType
<1>5. IsFiniteSet(new \ {q}) /\ Cardinality(new \ {q}) = Cardinality(new) - 1
  BY <1>1, <1>4, FS_RemoveElement
<1>6. Cardinality(page) <= Cardinality(new \ {q})
  BY <1>3, <1>5, FS_Subset
<1>7. QED
  BY <1>2, <1>4, <1>5, <1>6

\* A reader who comes back in time, to posts stamped later than those it knew,
\* misses none of them, however long a page is.
THEOREM MissesNothing == Spec => ReaderMissesNothing
<1> DEFINE Step ==
      \A r \in Readers :
          /\ viewForum(r)
          /\ Cardinality(New(r)) <= Limit
          /\ \A p \in seen[r], q \in New(r) : p.posted_at < q.posted_at
          => New(r) \subseteq Range(screen'[r])
<1>1. ForumInv => Step
  <2> SUFFICES ASSUME ForumInv, NEW r \in Readers, viewForum(r),
                      Cardinality(New(r)) <= Limit,
                      \A p \in seen[r], q \in New(r) : p.posted_at < q.posted_at
               PROVE  New(r) \subseteq Range(screen'[r])
    OBVIOUS
  <2>1. PICK page \in Pages(Limit) :
           page \subseteq forum_posts /\ Range(screen'[r]) = page
    BY ViewShowsPage
  <2>2. /\ IF Cardinality(forum_posts) <= Limit THEN page = forum_posts
           ELSE Cardinality(page) = Limit
        /\ \A p \in page, q \in forum_posts \ page : p.posted_at >= q.posted_at
    BY <2>1 DEF Pages
  <2>3. \A p \in forum_posts \ New(r), q \in New(r) : ~(p.posted_at >= q.posted_at)
    BY DEF New, ForumInv, TypeOK, PostRow, Times
  <2>4. New(r) \subseteq forum_posts /\ IsFiniteSet(forum_posts)
    BY DEF New, ForumInv
  <2>5. New(r) \subseteq page
    BY <2>1, <2>2, <2>3, <2>4, PageHoldsNewer, ForumAssumption
  <2>6. QED
    BY <2>1, <2>5
<1>2. ForumInv /\ [Next]_vars => [Step]_vars
  BY <1>1
<1>3. QED
  BY <1>2, ForumInductive, PTL DEF Spec, ReaderMissesNothing

-----------------------------------------------------------------------------
(***************************************************************************)
(* Order.  Until the clock is set back, ids and stamps agree: a post is    *)
(* stamped no earlier than any post before it, and pages are sorted.       *)
(***************************************************************************)
StampsOrdered ==
    /\ \A p \in forum_posts : p.posted_at <= now
    /\ \A p, q \in forum_posts :
          /\ p.id < q.id => p.posted_at <= q.posted_at
          /\ p.id = q.id => p = q

Sorted(s) == \A i, j \in DOMAIN s : i < j => s[i].posted_at >= s[j].posted_at

OrderInv ==
    ForumInv /\ (~rewound => StampsOrdered) /\ \A r \in Readers : Sorted(screen[r])

LEMMA OrderInvStep ==
    ASSUME OrderInv, [Next]_vars
    PROVE  OrderInv'
<1>0. ForumInv /\ ForumInv' /\ (~rewound => StampsOrdered) /\ \A r \in Readers : Sorted(screen[r])
  BY ForumInvStep DEF OrderInv
<1>a. /\ \A p \in forum_posts : p.id \in Nat /\ p.posted_at \in Nat
      /\ now \in Nat
  BY <1>0 DEF ForumInv, TypeOK, PostRow, Times
<1>1. CASE UNCHANGED vars
  BY <1>0, <1>1 DEF OrderInv, StampsOrdered, Sorted, vars
<1>2. CASE postForum
  <2>1. PICK id \in 1 .. MaxPosts :
           /\ \A p \in forum_posts : p.id < id
           /\ forum_posts' = forum_posts \cup {[id |-> id, posted_at |-> now]}
    BY <1>0, <1>2, PostAddsOne
  <2> DEFINE row == [id |-> id, posted_at |-> now]
  <2>2. row.id = id /\ row.posted_at = now /\ id \in Nat
    OBVIOUS
  <2>3. now' = now /\ screen' = screen /\ rewound' = rewound /\ forum_posts' = forum_posts \cup {row}
    BY <1>2, <2>1 DEF postForum
  <2> HIDE DEF row
  <2>4. ~rewound => StampsOrdered'
    BY <1>0, <1>a, <2>1, <2>2, <2>3 DEF StampsOrdered
  <2>5. QED
    BY <1>0, <2>3, <2>4 DEF OrderInv, Sorted
<1>3. CASE Tick \/ SetBack
  BY <1>0, <1>a, <1>3 DEF OrderInv, StampsOrdered, Sorted, Tick, SetBack
<1>4. ASSUME NEW r \in Readers, viewForum(r) PROVE OrderInv'
  <2>1. Sorted(screen'[r])
    BY <1>0, <1>4, ViewShowsPage DEF Sorted
  <2>2. /\ forum_posts' = forum_posts /\ now' = now /\ rewound' = rewound
        /\ \A q \in Readers \ {r} : screen'[q] = screen[q]
    BY <1>0, <1>4 DEF viewForum, ForumInv, TypeOK
  <2>3. \A q \in Readers : Sorted(screen'[q])
    BY <1>0, <2>1, <2>2
  <2>4. QED
    BY <1>0, <2>2, <2>3 DEF OrderInv, StampsOrdered, Sorted
<1>5. QED
  BY <1>1, <1>2, <1>3, <1>4 DEF Next

\* Until the server's clock is set back a listing is newest first, but
\* for posts of the same second.
THEOREM OrderedBySecond == Spec => []NewestFirstBySecond
<1>1. Init => OrderInv
  <2>1. Init => StampsOrdered /\ \A r \in Readers : Sorted(screen[r])
    BY DEF Init, StampsOrdered, Sorted
  <2>2. QED
    BY <2>1, ForumInit DEF OrderInv
<1>2. OrderInv /\ [Next]_vars => OrderInv'
  BY OrderInvStep
<1>3. OrderInv => NewestFirstBySecond
  <2> SUFFICES ASSUME OrderInv, ~rewound, NEW r \in Readers,
                      NEW i \in DOMAIN screen[r], NEW j \in DOMAIN screen[r], i < j,
                      screen[r][i].posted_at # screen[r][j].posted_at
               PROVE  screen[r][i].id > screen[r][j].id
    BY DEF NewestFirstBySecond
  <2> DEFINE p == screen[r][i]
             q == screen[r][j]
  <2>1. p \in forum_posts /\ q \in forum_posts
    BY DEF OrderInv, ForumInv, TypeOK
  <2>2. p.posted_at \in Nat /\ q.posted_at \in Nat /\ p.id \in Nat /\ q.id \in Nat
    BY <2>1 DEF OrderInv, ForumInv, TypeOK, PostRow, Times
  <2>3. p.posted_at >= q.posted_at
    BY DEF OrderInv, Sorted
  <2>4. ~(p.id < q.id) /\ p.id # q.id
    BY <2>1, <2>2, <2>3 DEF OrderInv, StampsOrdered
  <2>5. QED
    BY <2>2, <2>4
<1>4. QED
  BY <1>1, <1>2, <1>3, PTL DEF Spec
=============================================================================
