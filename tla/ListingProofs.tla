---------------------------- MODULE ListingProofs ----------------------------
(***************************************************************************)
(* What a scan of the job list can miss, for any table, page size and       *)
(* number of writes, and how far the middleware decides as documented.  The *)
(* invariant follows the rows that have slipped under the client's offset   *)
(* unseen: a page never adds one, a write adds at most one, and only when a *)
(* row ceases to match.                                                     *)
(***************************************************************************)
EXTENDS Listing, FiniteSetTheorems, TLAPS

\* Rank over any set of rows.
RankIn(M, j) == Cardinality({k \in M : CreatedAt[k] >= CreatedAt[j]})

\* Rows that matched throughout, that the client has not received, and that its
\* next pages will not show.
Lost == {j \in steady \ received : Rank(j) <= offset}

\* What is known of a request past the router.
Dispatched ==
    stage \in {"middleware", "handler"} => request.method \in Mounted(request.path)

LInv ==
    /\ LTypeOK
    /\ Dispatched
    /\ DecidedAsDocumented
    /\ Cardinality(Lost) <= departures
    /\ step = "done" => steady \ received \subseteq Lost

-----------------------------------------------------------------------------
(* Ranks *)

LEMMA RankIsNat ==
    ASSUME NEW M \in SUBSET Jobs, NEW j \in Jobs
    PROVE  /\ IsFiniteSet(M)
           /\ IsFiniteSet({k \in M : CreatedAt[k] >= CreatedAt[j]})
           /\ RankIn(M, j) \in Nat
<1>1. IsFiniteSet(M)
  BY ListingAssumption, FS_Subset
<1>2. {k \in M : CreatedAt[k] >= CreatedAt[j]} \in SUBSET M
  OBVIOUS
<1>3. IsFiniteSet({k \in M : CreatedAt[k] >= CreatedAt[j]})
  BY <1>1, <1>2, FS_Subset
<1> QED  BY <1>1, <1>3, FS_CardinalityType DEF RankIn

\* More rows, higher ranks.
LEMMA RankGrows ==
    ASSUME NEW N \in SUBSET Jobs, NEW M \in SUBSET N, NEW j \in Jobs
    PROVE  RankIn(M, j) <= RankIn(N, j)
<1> DEFINE R(S) == {k \in S : CreatedAt[k] >= CreatedAt[j]}
<1>1. IsFiniteSet(R(N))
  BY RankIsNat
<1>2. R(M) \in SUBSET R(N)
  OBVIOUS
<1>3. Cardinality(R(M)) <= Cardinality(R(N))
  BY <1>1, <1>2, FS_Subset
<1> QED  BY <1>3 DEF RankIn

\* A row less, ranks lower by at most one.
LEMMA RankDrops ==
    ASSUME NEW M \in SUBSET Jobs, NEW x \in Jobs, NEW j \in Jobs
    PROVE  RankIn(M \ {x}, j) >= RankIn(M, j) - 1
<1> DEFINE R(S) == {k \in S : CreatedAt[k] >= CreatedAt[j]}
<1>1. IsFiniteSet(R(M)) /\ Cardinality(R(M)) \in Nat
  BY RankIsNat, FS_CardinalityType
<1>2. Cardinality(R(M) \ {x}) >= Cardinality(R(M)) - 1
  BY <1>1, FS_RemoveElement
<1>3. R(M) \ {x} = R(M \ {x})
  OBVIOUS
<1>4. Cardinality(R(M \ {x})) >= Cardinality(R(M)) - 1
  BY <1>2, <1>3
<1> QED  BY <1>4 DEF RankIn

\* The newer of two rows has the lower rank.
LEMMA NewerIsLower ==
    ASSUME NEW M \in SUBSET Jobs, NEW a \in M, NEW b \in M, CreatedAt[a] > CreatedAt[b]
    PROVE  RankIn(M, a) < RankIn(M, b)
<1> DEFINE R(i) == {l \in M : CreatedAt[l] >= CreatedAt[i]}
<1>1. \A i \in M : IsFiniteSet(R(i)) /\ Cardinality(R(i)) \in Nat
  BY RankIsNat, FS_CardinalityType
<1>2. \A i \in M : CreatedAt[i] \in Nat
  BY ListingAssumption
<1>3. b \in R(b) /\ b \notin R(a) /\ R(a) \subseteq R(b)
  BY <1>2
<1>4. Cardinality(R(b) \ {b}) = Cardinality(R(b)) - 1 /\ IsFiniteSet(R(b) \ {b})
  BY <1>1, <1>3, FS_RemoveElement
<1>5. R(a) \in SUBSET (R(b) \ {b})
  BY <1>3
<1>6. Cardinality(R(a)) <= Cardinality(R(b) \ {b})
  BY <1>4, <1>5, FS_Subset
<1>7. Cardinality(R(a)) < Cardinality(R(b))
  <2> HIDE DEF R
  <2> QED  BY <1>1, <1>4, <1>6
<1> QED  BY <1>7 DEF RankIn

\* No two rows share a rank: created_at tells them apart.
LEMMA RankIsInjective ==
    ASSUME NEW M \in SUBSET Jobs, NEW j \in M, NEW k \in M,
           RankIn(M, j) = RankIn(M, k)
    PROVE  j = k
<1>1. RankIn(M, j) \in Nat /\ CreatedAt[j] \in Nat /\ CreatedAt[k] \in Nat
  BY RankIsNat, ListingAssumption
<1>2. ~(CreatedAt[j] > CreatedAt[k]) /\ ~(CreatedAt[k] > CreatedAt[j])
  BY <1>1, NewerIsLower
<1>3. CreatedAt[j] = CreatedAt[k]
  BY <1>1, <1>2
<1> QED  BY <1>3, ListingAssumption

\* The ranks of n rows are 1..n, without gaps.
LEMMA RanksAreGapless ==
    ASSUME NEW M \in SUBSET Jobs
    PROVE  /\ \A i \in M : RankIn(M, i) \in 1..Cardinality(M)
           /\ \A r \in 1..Cardinality(M) : \E i \in M : RankIn(M, i) = r
<1> DEFINE R(i) == {k \in M : CreatedAt[k] >= CreatedAt[i]}
           f == [i \in M |-> RankIn(M, i)]
           Ranks == 1..Cardinality(M)
<1>1. IsFiniteSet(M) /\ Cardinality(M) \in Nat
  BY ListingAssumption, FS_Subset, FS_CardinalityType
<1>2. \A i \in M : RankIn(M, i) \in Ranks
  <2> TAKE i \in M
  <2>1. IsFiniteSet(R(i)) /\ RankIn(M, i) = Cardinality(R(i)) /\ RankIn(M, i) \in Nat
    BY RankIsNat DEF RankIn
  <2>2. i \in R(i)
    BY ListingAssumption
  <2>3. Cardinality(R(i)) # 0
    BY <2>1, <2>2, FS_EmptySet
  <2>4. R(i) \in SUBSET M
    OBVIOUS
  <2>5. Cardinality(R(i)) <= Cardinality(M)
    BY <1>1, <2>4, FS_Subset
  <2> QED  BY <1>1, <2>1, <2>3, <2>5
<1>3. \A a, b \in M : f[a] = f[b] => a = b
  <2> TAKE a, b \in M
  <2>1. f[a] = RankIn(M, a) /\ f[b] = RankIn(M, b)
    OBVIOUS
  <2> QED  BY <2>1, RankIsInjective
<1>4. f \in [M -> Ranks]
  BY <1>2
<1>5. f \in Injection(M, Ranks)
  <2> HIDE DEF f
  <2> QED  BY <1>3, <1>4 DEF Injection, IsInjective
<1>6. IsFiniteSet(Ranks) /\ Cardinality(Ranks) = Cardinality(M)
  <2>1. ASSUME NEW n \in Nat PROVE IsFiniteSet(1..n) /\ Cardinality(1..n) = n
    <3>1. IsFiniteSet(1..n) /\ Cardinality(1..n) = IF 1 > n THEN 0 ELSE n - 1 + 1
      BY FS_Interval
    <3> QED  BY <3>1
  <2> QED  BY <1>1, <2>1
<1>7. f \in Surjection(M, Ranks)
  BY <1>5, <1>6, FS_Injection
<1>8. \A r \in Ranks : \E i \in M : f[i] = r
  <2> HIDE DEF f, Ranks
  <2> QED  BY <1>7 DEF Surjection
<1> QED  BY <1>2, <1>8

\* A page is as long as limit and the rows beyond the offset allow, and its
\* rows are the next ones: their ranks run on from the offset.
LEMMA PageSize ==
    ASSUME NEW M \in SUBSET Jobs, NEW o \in Nat, NEW limit \in Nat,
           NEW P, P = {j \in M : RankIn(M, j) \in (o + 1)..(o + limit)}
    PROVE  /\ IsFiniteSet(P) /\ Cardinality(P) \in 0..limit
           /\ Cardinality(P) = limit \/ o + Cardinality(P) >= Cardinality(M)
           /\ Cardinality(P) = 0 \/ o + Cardinality(P) <= Cardinality(M)
           /\ \A j \in P : RankIn(M, j) \in (o + 1)..(o + Cardinality(P))
<1> DEFINE f == [j \in P |-> RankIn(M, j)]
<1>0. IsFiniteSet(M) /\ Cardinality(M) \in Nat
  BY ListingAssumption, FS_Subset, FS_CardinalityType
<1>1. PICK top \in Nat : /\ \A r \in Nat : r <= top <=> r <= o + limit /\ r <= Cardinality(M)
  <2>1. CASE o + limit <= Cardinality(M)
    BY <1>0, <2>1
  <2>2. CASE ~(o + limit <= Cardinality(M))
    BY <1>0, <2>2
  <2> QED  BY <2>1, <2>2
<1>2. top <= o + limit /\ top <= Cardinality(M) /\ (top = o + limit \/ top = Cardinality(M))
  BY <1>0, <1>1
<1>3. \A i \in M : RankIn(M, i) \in Nat /\ RankIn(M, i) <= Cardinality(M)
  BY <1>0, RanksAreGapless
<1>4. \A j \in P : j \in M /\ RankIn(M, j) \in (o + 1)..top
  BY <1>1, <1>3
<1>5. \A r \in (o + 1)..top : \E j \in P : RankIn(M, j) = r
  <2> TAKE r \in (o + 1)..top
  <2>1. r \in 1..Cardinality(M) /\ r \in (o + 1)..(o + limit)
    BY <1>0, <1>2
  <2> QED  BY <2>1, RanksAreGapless
<1>6. IsFiniteSet((o + 1)..top)
      /\ Cardinality((o + 1)..top) = IF o + 1 > top THEN 0 ELSE top - o
  <2>1. IsFiniteSet((o + 1)..top)
        /\ Cardinality((o + 1)..top) = IF o + 1 > top THEN 0 ELSE top - (o + 1) + 1
    BY FS_Interval
  <2> QED  BY <2>1
<1>7. f \in Injection(P, (o + 1)..top) /\ f \in Surjection(P, (o + 1)..top)
  <2>1. f \in [P -> (o + 1)..top] /\ \A j \in P : f[j] = RankIn(M, j)
    BY <1>4
  <2>2. \A a, b \in P : f[a] = f[b] => a = b
    BY <1>4, <2>1, RankIsInjective
  <2>3. \A r \in (o + 1)..top : \E j \in P : f[j] = r
    BY <1>5, <2>1
  <2> HIDE DEF f
  <2> QED  BY <2>1, <2>2, <2>3 DEF Injection, IsInjective, Surjection
<1>8. IsFiniteSet(P) /\ Cardinality(P) = Cardinality((o + 1)..top)
  <2> HIDE DEF f
  <2> QED  BY <1>6, <1>7, FS_Injection
<1>9. Cardinality(P) = IF o + 1 > top THEN 0 ELSE top - o
  BY <1>6, <1>8
<1>10. \A j \in P : RankIn(M, j) \in (o + 1)..(o + Cardinality(P))
  BY <1>4, <1>9
<1> QED  BY <1>0, <1>2, <1>8, <1>9, <1>10

\* A page is empty only if no row lies beyond the offset.
LEMMA EmptyPageIsLast ==
    ASSUME NEW M \in SUBSET Jobs, NEW o \in Nat, NEW limit \in Nat \ {0},
           {k \in M : RankIn(M, k) \in (o + 1)..(o + limit)} = {},
           NEW j \in M
    PROVE  RankIn(M, j) <= o
<1>1. Cardinality({}) = 0
  BY FS_EmptySet
<1>2. o >= Cardinality(M)
  BY <1>1, PageSize
<1>3. Cardinality(M) \in Nat /\ RankIn(M, j) \in 1..Cardinality(M)
  BY RankIsNat, FS_CardinalityType, RanksAreGapless
<1> QED  BY <1>2, <1>3

-----------------------------------------------------------------------------
(* The requests' way to a handler *)

\* The middleware lets through and refuses what the table of tokens says, but for
\* requests that it judges by another namespace than they act on.
LEMMA PolicyAsDocumented ==
    ASSUME NEW r \in Requests, resolveAction(r) # "", ~JudgedElsewhere(r)
    PROVE  allow(resolveRole(r), resolveAction(r), AuthorizedNamespace(r)) <=> Permitted(r)
<1>1. r.token \in Tokens /\ r.target \subseteq Namespaces /\ r.namespace \subseteq Namespaces
  BY DEF Requests
<1>2. resolveAction(r) \in {"create_job", "list_jobs", "view_job"}
  BY DEF resolveAction
<1>3. ActsOn(r) \subseteq Namespaces
  BY <1>1 DEF ActsOn
<1>4. CASE r.token = "admin-token"
  BY <1>2, <1>3, <1>4 DEF resolveRole, allow, roles, namespace_allowed, Permitted,
     DocumentedActions, DocumentedNamespaces
<1>5. CASE r.token = "dev-token"
  <2>1. ActsOn(r) = {AuthorizedNamespace(r)}
    BY <1>5 DEF JudgedElsewhere
  <2>2. Permitted(r) <=> AuthorizedNamespace(r) \in {"sandbox", "staging"}
    BY <1>2, <1>5, <2>1 DEF Permitted, DocumentedActions, DocumentedNamespaces
  <2> QED
    BY <1>2, <1>5, <2>2 DEF resolveRole, allow, roles, namespace_allowed
<1>6. CASE r.token = "view-token"
  BY <1>2, <1>3, <1>6 DEF resolveRole, allow, roles, namespace_allowed, Permitted,
     DocumentedActions, DocumentedNamespaces
<1>7. CASE r.token \in {"unknown-token", "none"}
  BY <1>7 DEF resolveRole, allow, roles, Permitted, DocumentedActions
<1> QED  BY <1>1, <1>4, <1>5, <1>6, <1>7 DEF Tokens

LEMMA MountedHasAction ==
    ASSUME NEW r \in Requests, r.method \in Mounted(r.path)
    PROVE  resolveAction(r) # ""
BY DEF Requests, Patterns, Methods, Mounted, resolveAction

\* The routing and authorization steps keep the requests' part of the invariant.
LEMMA RequestSteps ==
    ASSUME request \in Requests, stage \in RequestStages, Dispatched, DecidedAsDocumented,
           Route \/ authMiddleware
    PROVE  /\ request' = request /\ stage' \in RequestStages
           /\ code' \in {code, 401, 403, 404, 405, 500}
           /\ Dispatched' /\ DecidedAsDocumented'
<1> USE DEF RequestStages
<1>1. CASE Route
  BY <1>1 DEF Route, Reply, Dispatched, DecidedAsDocumented
<1>2. CASE authMiddleware
  <2>1. resolveAction(request) # ""
    BY <1>2, MountedHasAction DEF authMiddleware, Dispatched
  <2>2. CASE resolveRole(request) = ""
    <3>1. Reply(401)
      BY <1>2, <2>1, <2>2 DEF authMiddleware
    <3>2. request.token \in {"none", "unknown-token"}
      BY <2>2 DEF resolveRole, Requests, Tokens
    <3> QED  BY <3>1, <3>2 DEF Reply, Dispatched, DecidedAsDocumented
  <2>3. CASE resolveRole(request) # ""
    <3>1. request.token \notin {"none", "unknown-token"}
      BY <2>3 DEF resolveRole, Requests, Tokens
    <3>2. CASE Reply(500)
      BY <3>2 DEF Reply, Dispatched, DecidedAsDocumented
    <3>3. CASE ~Reply(500)
      <4>1. IF allow(resolveRole(request), resolveAction(request), AuthorizedNamespace(request))
            THEN stage' = "handler" /\ UNCHANGED <<request, code>>
            ELSE Reply(403)
        BY <1>2, <2>1, <2>3, <3>3 DEF authMiddleware
      <4>2. \/ JudgedElsewhere(request)
            \/ allow(resolveRole(request), resolveAction(request), AuthorizedNamespace(request))
                  <=> Permitted(request)
        BY <2>1, PolicyAsDocumented
      <4>3. CASE allow(resolveRole(request), resolveAction(request), AuthorizedNamespace(request))
        <5>1. stage = "middleware" /\ stage' = "handler" /\ request' = request /\ code' = code
          BY <1>2, <4>1, <4>3 DEF authMiddleware
        <5>2. Permitted(request) \/ JudgedElsewhere(request)
          BY <4>2, <4>3
        <5>3. Dispatched'
          BY <5>1 DEF Dispatched
        <5>4. DecidedAsDocumented'
          BY <5>1, <5>2 DEF DecidedAsDocumented
        <5> QED  BY <5>1, <5>3, <5>4
      <4>4. CASE ~allow(resolveRole(request), resolveAction(request), AuthorizedNamespace(request))
        BY <3>1, <4>1, <4>2, <4>4 DEF Reply, Dispatched, DecidedAsDocumented
      <4> QED  BY <4>3, <4>4
    <3> QED  BY <3>2, <3>3
  <2> QED  BY <2>2, <2>3
<1> QED  BY <1>1, <1>2

-----------------------------------------------------------------------------
(* The scan *)

\* Matching rows are committed jobs.
LEMMA MatchingAreJobs ==
    ASSUME LTypeOK
    PROVE  /\ Matching \in SUBSET Jobs /\ IsFiniteSet(Matching)
           /\ steady \in SUBSET Jobs /\ IsFiniteSet(steady \ received)
           /\ IsFiniteSet(Lost) /\ Cardinality(Lost) \in Nat
           /\ \A j \in Jobs : Rank(j) = RankIn(Matching, j) /\ Rank(j) \in Nat
<1>1. Matching \in SUBSET Jobs /\ steady \in SUBSET Jobs
  BY DEF LTypeOK, Matching
<1>2. IsFiniteSet(Matching) /\ IsFiniteSet(steady \ received)
  BY <1>1, ListingAssumption, FS_Subset
<1>3. Lost \in SUBSET (steady \ received)
  BY DEF Lost
<1>4. IsFiniteSet(Lost) /\ Cardinality(Lost) \in Nat
  BY <1>2, <1>3, FS_Subset, FS_CardinalityType
<1>5. \A j \in Jobs : Rank(j) = RankIn(Matching, j) /\ Rank(j) \in Nat
  BY <1>1, RankIsNat DEF Rank, RankIn
<1> QED  BY <1>1, <1>2, <1>4, <1>5

\* A page loses nothing: what it skips had been skipped before.
LEMMA PageLosesNothing ==
    ASSUME LInv, FetchPage
    PROVE  /\ offset' \in Nat /\ Cardinality(Page) \in Nat
           /\ Lost' \subseteq Lost
           /\ step' = "done" => steady' \ received' \subseteq Lost'
<1> USE DEF LInv
<1>1. query.limit \in Nat /\ offset \in Nat
  <2>1. query.limit \in Limits /\ offset \in Nat
    BY DEF LTypeOK
  <2> QED  BY <2>1, ListingAssumption
<1>2. Matching \in SUBSET Jobs /\ steady \subseteq Matching
      /\ \A j \in Matching : Rank(j) = RankIn(Matching, j) /\ Rank(j) \in Nat
  BY MatchingAreJobs DEF LTypeOK
<1>3. Page = {j \in Matching : RankIn(Matching, j) \in (offset + 1)..(offset + query.limit)}
  BY <1>2 DEF Page
<1>4. IsFiniteSet(Page) /\ Cardinality(Page) \in 0..query.limit
  BY <1>1, <1>2, <1>3, PageSize
<1>5. Matching' = Matching /\ \A j : Rank(j)' = Rank(j)
  BY DEF FetchPage, Reply, tableVars, Matching, Rank
<1>6. /\ received' = received \cup Page /\ offset' = offset + Cardinality(Page)
      /\ steady' = steady
      /\ step' = IF Page = {} THEN "done" ELSE "answered"
  BY DEF FetchPage, scanVars
<1>7. \A j \in Lost' : j \in steady \ received /\ j \notin Page /\ Rank(j) <= offset + Cardinality(Page)
  BY <1>5, <1>6 DEF Lost
<1>8. \A j \in Lost' : Rank(j) <= offset
  <2> SUFFICES ASSUME NEW j \in Lost' PROVE Rank(j) <= offset
    OBVIOUS
  <2>1. j \in Matching /\ Rank(j) \in Nat /\ Rank(j) <= offset + query.limit
    BY <1>1, <1>2, <1>4, <1>7
  <2>2. ~(Rank(j) \in (offset + 1)..(offset + query.limit))
    BY <1>7, <2>1 DEF Page
  <2> QED  BY <1>1, <2>1, <2>2
<1>9. Lost' \subseteq Lost
  BY <1>7, <1>8 DEF Lost
<1>10. ASSUME step' = "done" PROVE steady' \ received' \subseteq Lost'
  <2>1. Page = {}
    BY <1>6, <1>10
  <2>2. Cardinality(Page) = 0
    BY <2>1, FS_EmptySet
  <2>3. offset' = offset /\ received' = received
    BY <1>1, <1>6, <2>1, <2>2
  <2>4. query.limit \in Nat \ {0}
    BY ListingAssumption DEF LTypeOK
  <2>5. \A j \in Matching : RankIn(Matching, j) <= offset
    BY <1>1, <1>2, <1>3, <2>1, <2>4, EmptyPageIsLast
  <2> QED  BY <1>2, <1>5, <1>6, <2>3, <2>5 DEF Lost
<1> QED  BY <1>1, <1>4, <1>6, <1>9, <1>10

\* A write that takes at most the row x out of the query.
LEMMA WriteLosesOne ==
    ASSUME LInv, LTypeOK', UNCHANGED <<request, query, offset, received>>, Track,
           NEW x \in Jobs, Matching \ {x} \subseteq Matching'
    PROVE  departures' \in Nat /\ arrivals' \in Nat /\ departures <= departures'
           /\ arrivals <= arrivals' /\ Cardinality(Lost') <= departures'
<1> USE DEF LInv
<1>1. /\ Matching \in SUBSET Jobs /\ IsFiniteSet(Matching) /\ steady \subseteq Matching
      /\ IsFiniteSet(Lost) /\ Cardinality(Lost) \in Nat /\ departures \in Nat /\ arrivals \in Nat
      /\ offset \in Nat
      /\ \A j \in Jobs : Rank(j) = RankIn(Matching, j) /\ Rank(j) \in Nat
  BY MatchingAreJobs DEF LTypeOK
<1>2. /\ Matching' \in SUBSET Jobs /\ IsFiniteSet(Matching')
      /\ \A j \in Jobs : Rank(j)' = RankIn(Matching', j)
  <2>1. Matching' \in SUBSET Jobs
    BY DEF LTypeOK, Matching
  <2> QED  BY <2>1, ListingAssumption, FS_Subset DEF Rank, RankIn
<1>3. IsFiniteSet(Matching \ Matching') /\ IsFiniteSet(Matching' \ Matching)
      /\ Cardinality(Matching \ Matching') \in Nat /\ Cardinality(Matching' \ Matching) \in Nat
  BY <1>1, <1>2, FS_Difference, FS_CardinalityType
<1>4. /\ steady' = steady \cap Matching'
      /\ departures' = departures + Cardinality(Matching \ Matching')
      /\ arrivals' = arrivals + Cardinality(Matching' \ Matching)
  BY DEF Track
<1>5. offset' = offset /\ received' = received
  OBVIOUS
<1>6. CASE Matching \subseteq Matching'
  <2>1. Lost' \subseteq Lost
    <3> SUFFICES ASSUME NEW j \in Lost' PROVE j \in Lost
      OBVIOUS
    <3>1. j \in steady \ received /\ j \in Jobs /\ Rank(j)' <= offset
      BY <1>1, <1>4, <1>5 DEF Lost
    <3>2. RankIn(Matching, j) <= RankIn(Matching', j) /\ RankIn(Matching', j) \in Nat
      BY <1>2, <1>6, <3>1, RankGrows, RankIsNat
    <3>3. Rank(j) <= offset
      BY <1>1, <1>2, <3>1, <3>2
    <3> QED  BY <3>1, <3>3 DEF Lost
  <2>2. Cardinality(Lost') <= Cardinality(Lost) /\ Cardinality(Lost') \in Nat
    BY <1>1, <2>1, FS_Subset, FS_CardinalityType
  <2> QED  BY <1>1, <1>3, <1>4, <2>2
<1>7. CASE ~(Matching \subseteq Matching')
  <2>1. Cardinality(Matching \ Matching') = 1
    <3>1. Matching \ Matching' = {x}
      BY <1>7
    <3> QED  BY <3>1, FS_Singleton
  <2>2. \A j \in Jobs : Rank(j) <= Rank(j)' + 1
    <3> TAKE j \in Jobs
    <3>1. RankIn(Matching \ {x}, j) >= RankIn(Matching, j) - 1
      BY <1>1, RankDrops
    <3>2. RankIn(Matching \ {x}, j) <= RankIn(Matching', j)
      BY <1>2, RankGrows
    <3>3. RankIn(Matching \ {x}, j) \in Nat /\ RankIn(Matching', j) \in Nat
      BY <1>1, <1>2, RankIsNat
    <3> QED  BY <1>1, <1>2, <3>1, <3>2, <3>3
  <2>3. ASSUME NEW j \in Lost'
        PROVE  j \in steady \ received /\ j \in Matching
               /\ Rank(j) \in Nat /\ (Rank(j) <= offset \/ Rank(j) = offset + 1)
    <3>1. j \in steady \ received /\ j \in Jobs /\ Rank(j)' <= offset
      BY <1>1, <1>4, <1>5, <2>3 DEF Lost
    <3>2. Rank(j)' \in Nat
      BY <1>2, <3>1, RankIsNat
    <3> QED  BY <1>1, <2>2, <3>1, <3>2
  <2>4. \E y : Lost' \subseteq Lost \cup {y}
    <3>1. CASE Lost' \subseteq Lost
      BY <3>1
    <3>2. CASE ~(Lost' \subseteq Lost)
      <4>1. PICK y \in Lost' : y \notin Lost
        BY <3>2
      <4>2. Rank(y) = offset + 1
        BY <2>3, <4>1 DEF Lost
      <4>3. \A j \in Lost' : j \notin Lost => j = y
        <5> SUFFICES ASSUME NEW j \in Lost', j \notin Lost PROVE j = y
          OBVIOUS
        <5>1. Rank(j) = offset + 1
          BY <2>3 DEF Lost
        <5>2. j \in Matching /\ y \in Matching /\ RankIn(Matching, j) = RankIn(Matching, y)
          BY <1>1, <2>3, <4>1, <4>2, <5>1
        <5> QED  BY <1>1, <5>2, RankIsInjective
      <4> QED  BY <4>3
    <3> QED  BY <3>1, <3>2
  <2>5. Cardinality(Lost') <= Cardinality(Lost) + 1 /\ Cardinality(Lost') \in Nat
    <3>1. PICK y : Lost' \subseteq Lost \cup {y}
      BY <2>4
    <3>2. IsFiniteSet(Lost \cup {y}) /\ Cardinality(Lost \cup {y}) <= Cardinality(Lost) + 1
          /\ Cardinality(Lost \cup {y}) \in Nat
      <4>1. IsFiniteSet(Lost \cup {y})
            /\ Cardinality(Lost \cup {y}) = IF y \in Lost THEN Cardinality(Lost)
                                             ELSE Cardinality(Lost) + 1
        BY <1>1, FS_AddElement
      <4> QED  BY <1>1, <4>1
    <3>3. IsFiniteSet(Lost') /\ Cardinality(Lost') <= Cardinality(Lost \cup {y})
      BY <3>1, <3>2, FS_Subset
    <3> QED  BY <1>1, <3>2, <3>3, FS_CardinalityType
  <2> QED  BY <1>1, <1>3, <1>4, <2>1, <2>5
<1> QED  BY <1>6, <1>7

-----------------------------------------------------------------------------
(* The specification *)

LEMMA LInitInv == LInit => LInv
<1> SUFFICES ASSUME LInit PROVE LInv
  OBVIOUS
<1>1. LTypeOK
  <2>1. request \in Requests /\ stage \in RequestStages /\ code = 0
    BY DEF LInit, AuthInit, RequestStages
  <2>2. /\ committed \in SUBSET Jobs /\ status \in [Jobs -> JobStatuses]
        /\ query \in [status : {{}} \cup {{s} : s \in StatusFilters}, limit : Limits]
        /\ steady = Matching
    BY DEF LInit
  <2>3. /\ step = "idle" /\ offset = 0 /\ received = {} /\ writes = 0
        /\ answer = [total |-> 0, rows |-> 0] /\ departures = 0 /\ arrivals = 0
        /\ counted = [departures |-> 0, arrivals |-> 0]
    BY DEF LInit
  <2>4. writes \in 0..MaxWrites /\ counted \in [departures : 0..departures, arrivals : 0..arrivals]
    BY <2>3, ListingAssumption
  <2>5. answer \in [total : Nat, rows : Nat]
    BY <2>3
  <2> QED  BY <2>1, <2>2, <2>3, <2>4, <2>5 DEF LTypeOK
<1>2. Dispatched /\ DecidedAsDocumented
  BY DEF LInit, AuthInit, Dispatched, DecidedAsDocumented
<1>3. Lost = {}
  <2>1. \A j \in Matching : Rank(j) \in Nat /\ Rank(j) # 0
    <3> TAKE j \in Matching
    <3>1. j \in {k \in Matching : CreatedAt[k] >= CreatedAt[j]}
          /\ Matching \in SUBSET Jobs /\ j \in Jobs
      BY <1>1, MatchingAreJobs, ListingAssumption
    <3>2. IsFiniteSet({k \in Matching : CreatedAt[k] >= CreatedAt[j]}) /\ Rank(j) \in Nat
      BY <3>1, RankIsNat DEF Rank, RankIn
    <3> QED  BY <3>1, <3>2, FS_EmptySet DEF Rank
  <2>2. steady = Matching /\ offset = 0
    BY DEF LInit
  <2> QED  BY <2>1, <2>2 DEF Lost
<1>4. Cardinality(Lost) <= departures
  BY <1>3, FS_EmptySet DEF LInit
<1> QED  BY <1>1, <1>2, <1>4 DEF LInv, LInit

\* A step that leaves the table, the query and the client's progress alone.
LEMMA ScanUntouched ==
    ASSUME LInv, LTypeOK', Dispatched', DecidedAsDocumented',
           UNCHANGED <<request, committed, status, query, offset, received, steady, departures>>,
           step' = "done" => step = "done"
    PROVE  LInv'
<1>1. Matching' = Matching /\ \A j : Rank(j)' = Rank(j)
  BY DEF Matching, Rank
<1>2. Lost' = Lost
  BY <1>1 DEF Lost
<1> QED  BY <1>2 DEF LInv

LEMMA LStepInv == LInv /\ [LNext]_lvars => LInv'
<1> SUFFICES ASSUME LInv, [LNext]_lvars PROVE LInv'
  OBVIOUS
<1> USE DEF LInv
<1> DEFINE Quiet == UNCHANGED <<committed, status, writes, steady, departures, arrivals, counted>>
<1>0. request \in Requests /\ stage \in RequestStages
  BY DEF LTypeOK
<1>a. IsFiniteSet(Matching) /\ Cardinality(Matching) \in Nat
  BY MatchingAreJobs, FS_CardinalityType
<1>b. request' = request /\ query' = query /\ Quiet => Matching' = Matching
  BY DEF Matching
<1>1. CASE (Route \/ authMiddleware) /\ UNCHANGED <<listVars, tableVars, scanVars>>
  <2>1. /\ request' = request /\ stage' \in RequestStages
        /\ code' \in {code, 401, 403, 404, 405, 500}
        /\ Dispatched' /\ DecidedAsDocumented'
    BY <1>0, <1>1, RequestSteps
  <2>2. UNCHANGED <<listVars, tableVars, scanVars>>
    BY <1>1
  <2>3. LTypeOK'
    BY <1>b, <2>1, <2>2 DEF LTypeOK, listVars, tableVars, scanVars
  <2> QED  BY <2>1, <2>2, <2>3, ScanUntouched DEF listVars, tableVars, scanVars
<1>2. CASE handleListJobs
  <2>1. LTypeOK' /\ Dispatched' /\ DecidedAsDocumented'
    BY <1>2, <1>b DEF handleListJobs, authVars, tableVars, scanVars, LTypeOK, Dispatched, DecidedAsDocumented
  <2> QED  BY <1>2, <2>1, ScanUntouched DEF handleListJobs, authVars, tableVars, scanVars
<1>3. CASE CountJobs
  <2>1. LTypeOK'
    <3>1. Matching' = Matching
      BY <1>3 DEF CountJobs, authVars, tableVars, Matching
    <3> QED  BY <1>3, <1>a, <3>1 DEF CountJobs, authVars, tableVars, LTypeOK
  <2>2. Dispatched' /\ DecidedAsDocumented'
    BY <1>3 DEF CountJobs, authVars, Dispatched, DecidedAsDocumented
  <2> QED  BY <1>3, <2>1, <2>2, ScanUntouched DEF CountJobs, authVars, tableVars
<1>4. CASE FetchPage
  <2>1. /\ offset' \in Nat /\ Cardinality(Page) \in Nat
        /\ Lost' \subseteq Lost
        /\ step' = "done" => steady' \ received' \subseteq Lost'
    BY <1>4, PageLosesNothing
  <2>2. LTypeOK'
    <3>1. Page \subseteq committed
      BY DEF Page, Matching
    <3> QED  BY <1>4, <1>b, <2>1, <3>1
             DEF FetchPage, Reply, tableVars, scanVars, LTypeOK, RequestStages
  <2>3. Dispatched' /\ DecidedAsDocumented'
    BY <1>4 DEF FetchPage, Reply, Dispatched, DecidedAsDocumented
  <2>4. Cardinality(Lost') <= departures'
    <3>1. IsFiniteSet(Lost) /\ Cardinality(Lost) \in Nat /\ departures \in Nat
      BY MatchingAreJobs DEF LTypeOK
    <3>2. Cardinality(Lost') <= Cardinality(Lost) /\ Cardinality(Lost') \in Nat
      BY <2>1, <3>1, FS_Subset, FS_CardinalityType
    <3>3. departures' = departures
      BY <1>4 DEF FetchPage, scanVars
    <3> QED  BY <3>1, <3>2, <3>3
  <2> QED  BY <2>1, <2>2, <2>3, <2>4
<1>5. CASE ListFails
  <2>1. LTypeOK' /\ Dispatched' /\ DecidedAsDocumented'
    BY <1>5, <1>b
    DEF ListFails, Reply, tableVars, scanVars, LTypeOK, RequestStages, Dispatched, DecidedAsDocumented
  <2> QED  BY <1>5, <2>1, ScanUntouched DEF ListFails, Reply, tableVars, scanVars
<1>6. CASE handleGetJob
  <2>1. PICK c \in {200, 404, 500} : Reply(c) /\ UNCHANGED <<listVars, tableVars, scanVars>>
    <3>1. \A id : (IF id \in committed THEN 200 ELSE 404) \in {200, 404, 500}
      OBVIOUS
    <3> QED  BY <1>6, <3>1 DEF handleGetJob
  <2>2. LTypeOK' /\ Dispatched' /\ DecidedAsDocumented'
    BY <2>1, <1>b DEF Reply, listVars, tableVars, scanVars, LTypeOK, RequestStages, Dispatched, DecidedAsDocumented
  <2> QED  BY <2>1, <2>2, ScanUntouched DEF Reply, listVars, tableVars, scanVars
<1>7. CASE AskAgain
  <2>1. LTypeOK' /\ Dispatched' /\ DecidedAsDocumented'
    BY <1>7, <1>b
    DEF AskAgain, tableVars, scanVars, LTypeOK, RequestStages, Dispatched, DecidedAsDocumented
  <2> QED  BY <1>7, <2>1, ScanUntouched DEF AskAgain, tableVars, scanVars
<1>8. ASSUME NEW x \in Jobs, CommitJob(x) \/ UpdateJobStatus(x)
      PROVE  LInv'
  <2>1. Write
    BY <1>8 DEF CommitJob, UpdateJobStatus
  <2>2. /\ UNCHANGED <<request, stage, code, query, step, offset, received, answer, counted>>
        /\ Track /\ step # "done" /\ writes' \in 0..MaxWrites
    BY <2>1, ListingAssumption DEF Write, authVars, listVars, LTypeOK
  <2>3. /\ committed' \in SUBSET Jobs /\ committed \subseteq committed'
        /\ status' \in [Jobs -> JobStatuses]
        /\ \A j \in committed : j # x => status'[j] = status[j]
    BY <1>8 DEF CommitJob, UpdateJobStatus, LTypeOK, JobStatuses
  <2>4. Matching \ {x} \subseteq Matching'
    BY <2>2, <2>3 DEF Matching
  <2>5. /\ departures' \in Nat /\ arrivals' \in Nat
        /\ departures <= departures' /\ arrivals <= arrivals' /\ steady' \subseteq Matching'
    <3>1. Matching \in SUBSET Jobs /\ Matching' \in SUBSET Jobs
      BY <2>3 DEF Matching, LTypeOK
    <3>2. IsFiniteSet(Matching \ Matching') /\ IsFiniteSet(Matching' \ Matching)
      BY <3>1, ListingAssumption, FS_Subset
    <3>3. Cardinality(Matching \ Matching') \in Nat /\ Cardinality(Matching' \ Matching) \in Nat
      BY <3>2, FS_CardinalityType
    <3> QED  BY <2>2, <3>3 DEF Track, LTypeOK
  <2>6. LTypeOK'
    BY <2>2, <2>3, <2>5 DEF LTypeOK
  <2>7. Cardinality(Lost') <= departures'
    BY <2>2, <2>4, <2>6, WriteLosesOne
  <2>8. Dispatched' /\ DecidedAsDocumented'
    BY <2>2 DEF Dispatched, DecidedAsDocumented
  <2> QED  BY <2>2, <2>6, <2>7, <2>8
<1>9. CASE UNCHANGED lvars
  <2>1. LTypeOK' /\ Dispatched' /\ DecidedAsDocumented'
    BY <1>9, <1>b DEF lvars, authVars, listVars, tableVars, scanVars, LTypeOK, Dispatched, DecidedAsDocumented
  <2> QED  BY <1>9, <2>1, ScanUntouched DEF lvars, authVars, listVars, tableVars, scanVars
<1> QED  BY <1>1, <1>2, <1>3, <1>4, <1>5, <1>6, <1>7, <1>8, <1>9 DEF LNext

\* Every reachable state satisfies the inductive invariant of the scan.
THEOREM ListingInvariant == LSpec => []LInv
BY LInitInv, LStepInv, PTL DEF LSpec

\* Readers and writers keep to the declared ranges.
THEOREM ListingTypeCorrect == LSpec => []LTypeOK
BY ListingInvariant, PTL DEF LInv

\* While ListJobs runs, the request it serves has passed the middleware.
Serving ==
    step \in {"count", "fetch"} => stage = "handler" /\ resolveAction(request) = "list_jobs"

RowsInv ==
    /\ Serving
    /\ \A j \in received :
          \/ TargetNamespace[j] \in DocumentedNamespaces(request.token)
          \/ JudgedElsewhere(request)

\* A page shows only namespaces that the request was judged to act on.
LEMMA PageIsPermitted ==
    ASSUME LInv, RowsInv, step = "fetch", NEW j \in Page
    PROVE  TargetNamespace[j] \in DocumentedNamespaces(request.token) \/ JudgedElsewhere(request)
<1>1. j \in Jobs /\ (request.namespace = {} \/ TargetNamespace[j] \in request.namespace)
  BY DEF Page, Matching, LInv, LTypeOK
<1>2. stage = "handler" /\ resolveAction(request) = "list_jobs"
  BY DEF RowsInv, Serving
<1>3. TargetNamespace[j] \in ActsOn(request)
  BY <1>1, <1>2, ListingAssumption DEF ActsOn
<1> QED  BY <1>2, <1>3 DEF LInv, DecidedAsDocumented, Permitted

LEMMA RowsStep == LInv /\ RowsInv /\ [LNext]_lvars => RowsInv'
<1> SUFFICES ASSUME LInv, RowsInv, [LNext]_lvars PROVE RowsInv'
  OBVIOUS
<1> USE DEF RowsInv, Serving
<1>1. CASE (Route \/ authMiddleware) /\ UNCHANGED <<listVars, tableVars, scanVars>>
  <2>1. request' = request /\ stage # "handler"
    BY <1>1 DEF Route, authMiddleware, Reply
  <2> QED  BY <1>1, <2>1 DEF listVars
<1>2. CASE handleListJobs
  BY <1>2 DEF handleListJobs, authVars
<1>3. CASE CountJobs
  BY <1>3 DEF CountJobs, authVars
<1>4. CASE FetchPage
  <2>1. /\ received' = received \cup Page /\ request' = request /\ step = "fetch"
        /\ step' \notin {"count", "fetch"}
    BY <1>4 DEF FetchPage, Reply
  <2> QED  BY <2>1, PageIsPermitted
<1>5. CASE ListFails
  BY <1>5 DEF ListFails, Reply
<1>6. CASE handleGetJob
  <2>1. /\ request' = request /\ UNCHANGED <<step, received>>
        /\ resolveAction(request) = "view_job"
    BY <1>6 DEF handleGetJob, Reply, listVars
  <2> QED  BY <2>1
<1>7. CASE AskAgain
  BY <1>7 DEF AskAgain
<1>8. CASE \E j \in Jobs : CommitJob(j) \/ UpdateJobStatus(j)
  BY <1>8 DEF CommitJob, UpdateJobStatus, Write, authVars, listVars
<1>9. CASE UNCHANGED lvars
  BY <1>9 DEF lvars, authVars, listVars
<1> QED  BY <1>1, <1>2, <1>3, <1>4, <1>5, <1>6, <1>7, <1>8, <1>9 DEF LNext

\* Every request that acts on the namespace it is judged by, and every request of
\* a token that is not restricted, is decided and answered as the documented
\* table says, for any set of namespaces, any table and any writes.
THEOREM RequestsDecidedAsDocumented == LSpec => []AnsweredAsDocumented
<1>1. LInit => RowsInv
  BY DEF LInit, RowsInv, Serving
<1>2. LInv /\ RowsInv => AnsweredAsDocumented
  BY DEF LInv, RowsInv, AnsweredAsDocumented
<1> QED  BY <1>1, <1>2, RowsStep, ListingInvariant, PTL DEF LSpec

\* A finished scan has missed no more rows than ceased to match during it, for
\* every page size, number of jobs and interleaving with writes.
THEOREM ScanComplete == LSpec => []ScanMissesOnlyDepartures
<1>1. LInv => ScanMissesOnlyDepartures
  <2> SUFFICES ASSUME LInv, step = "done" PROVE Cardinality(steady \ received) <= departures
    BY DEF ScanMissesOnlyDepartures
  <2>1. IsFiniteSet(Lost) /\ Cardinality(Lost) \in Nat /\ departures \in Nat
    BY MatchingAreJobs DEF LInv, LTypeOK
  <2>2. IsFiniteSet(steady \ received) /\ Cardinality(steady \ received) <= Cardinality(Lost)
    BY <2>1, FS_Subset DEF LInv
  <2> QED  BY <2>1, <2>2, FS_CardinalityType DEF LInv
<1> QED  BY <1>1, ListingInvariant, PTL

-----------------------------------------------------------------------------
(* Repeated rows, and a total that does not fit its page *)

\* Rows that the client has received and that its next pages will show again.
Again == {j \in received \cap Matching : Rank(j) > offset}

RepeatInv == offset + Cardinality(Again) <= arrivals + Cardinality(received)

\* The client looks at an answer only when there is one.
Waiting == step \in {"answered", "done"} => stage = "answered"

\* The rows that matched when they were counted, less those gone, with those come.
CountInv ==
    step = "fetch" => Cardinality(Matching) + (departures - counted.departures)
                        = answer.total + (arrivals - counted.arrivals)

PageInv == Waiting /\ CountInv /\ RepeatInv /\ TotalAgreesWithRows

\* The table, the query and the client's progress do not change, and no page
\* has just been answered.
Aside ==
    /\ UNCHANGED <<request, committed, status, query, offset, received>>
    /\ UNCHANGED <<departures, arrivals, answer, counted>>
    /\ step' = "fetch" => step = "fetch"
    /\ code' = 200 /\ step' \in {"answered", "done"} => code = 200 /\ step' = step

\* A write that changes no more than whether the row x matches.
WriteOf(x) ==
    /\ Track /\ Matching \ {x} \subseteq Matching' /\ Matching' \ {x} \subseteq Matching
    /\ UNCHANGED <<request, stage, code, query, step, offset, received, answer, counted>>

\* Every step is a count, a page, a write of one row, or none of them.
LEMMA ScanSteps ==
    ASSUME LInv, Waiting, [LNext]_lvars
    PROVE  /\ Waiting'
           /\ CountJobs \/ FetchPage \/ Aside \/ \E x \in Jobs : WriteOf(x)
<1>1. CASE (Route \/ authMiddleware) /\ UNCHANGED <<listVars, tableVars, scanVars>>
  <2>1. request \in Requests /\ stage \in RequestStages /\ Dispatched /\ DecidedAsDocumented
    BY DEF LInv, LTypeOK
  <2>2. request' = request /\ code' \in {code, 401, 403, 404, 405, 500}
    BY <1>1, <2>1, RequestSteps
  <2>3. stage # "answered"
    BY <1>1 DEF Route, authMiddleware
  <2>4. UNCHANGED <<listVars, tableVars, scanVars>>
    BY <1>1
  <2> QED  BY <2>2, <2>3, <2>4 DEF Waiting, Aside, listVars, tableVars, scanVars
<1>2. CASE handleListJobs
  BY <1>2 DEF handleListJobs, authVars, tableVars, scanVars, Waiting, Aside
<1>3. CASE CountJobs
  BY <1>3 DEF CountJobs, Waiting
<1>4. CASE FetchPage
  BY <1>4 DEF FetchPage, Reply, Waiting
<1>5. CASE ListFails
  BY <1>5 DEF ListFails, Reply, tableVars, scanVars, Waiting, Aside
<1>6. CASE handleGetJob
  BY <1>6 DEF handleGetJob, Reply, listVars, tableVars, scanVars, Waiting, Aside
<1>7. CASE AskAgain
  BY <1>7 DEF AskAgain, tableVars, scanVars, Waiting, Aside
<1>8. ASSUME NEW x \in Jobs, CommitJob(x) \/ UpdateJobStatus(x)
      PROVE  WriteOf(x) /\ Waiting'
  <2>1. /\ UNCHANGED <<request, stage, code, query, step, offset, received, answer, counted>>
        /\ Track
    BY <1>8 DEF CommitJob, UpdateJobStatus, Write, authVars, listVars
  <2>2. /\ \A j : j # x => (j \in committed' <=> j \in committed)
        /\ \A j \in committed : j # x => status'[j] = status[j]
    <3>1. status \in [Jobs -> JobStatuses] /\ committed \subseteq Jobs
      BY DEF LInv, LTypeOK
    <3>2. CASE CommitJob(x)
      BY <3>1, <3>2 DEF CommitJob
    <3>3. CASE UpdateJobStatus(x)
      BY <3>1, <3>3 DEF UpdateJobStatus
    <3> QED  BY <1>8, <3>2, <3>3
  <2>3. Matching \ {x} \subseteq Matching' /\ Matching' \ {x} \subseteq Matching
    BY <2>1, <2>2 DEF Matching
  <2> QED  BY <2>1, <2>3 DEF WriteOf, Waiting
<1>9. CASE UNCHANGED lvars
  BY <1>9 DEF lvars, authVars, listVars, tableVars, scanVars, Waiting, Aside
<1> QED  BY <1>1, <1>2, <1>3, <1>4, <1>5, <1>6, <1>7, <1>8, <1>9 DEF LNext

\* What the sets of the scan are made of.
LEMMA ScanSets ==
    ASSUME LTypeOK
    PROVE  /\ Matching \in SUBSET Jobs /\ received \in SUBSET Jobs
           /\ IsFiniteSet(Matching) /\ Cardinality(Matching) \in Nat
           /\ IsFiniteSet(received) /\ Cardinality(received) \in Nat
           /\ Again \subseteq Matching /\ IsFiniteSet(Again) /\ Cardinality(Again) \in Nat
           /\ offset \in Nat /\ query.limit \in Nat \ {0}
           /\ departures \in Nat /\ arrivals \in Nat
           /\ counted.departures \in Nat /\ counted.arrivals \in Nat
           /\ answer.total \in Nat /\ answer.rows \in Nat
           /\ \A j \in Jobs : Rank(j) = RankIn(Matching, j) /\ Rank(j) \in Nat
<1>1. Matching \in SUBSET Jobs /\ received \in SUBSET Jobs /\ Again \in SUBSET Matching
  BY DEF LTypeOK, Matching, Again
<1>2. IsFiniteSet(Matching) /\ IsFiniteSet(received)
  BY <1>1, ListingAssumption, FS_Subset
<1>3. IsFiniteSet(Again)
  BY <1>1, <1>2, FS_Subset
<1>4. /\ offset \in Nat /\ query.limit \in Limits /\ departures \in Nat /\ arrivals \in Nat
      /\ counted.departures \in Nat /\ counted.arrivals \in Nat
      /\ answer.total \in Nat /\ answer.rows \in Nat
  BY DEF LTypeOK
<1> QED  BY <1>1, <1>2, <1>3, <1>4, ListingAssumption, FS_CardinalityType, MatchingAreJobs

\* What a page shows for the second time was due to be shown again.
LEMMA PageRepeats ==
    ASSUME LInv, LTypeOK', PageInv, FetchPage
    PROVE  RepeatInv' /\ TotalAgreesWithRows'
<1>1. LTypeOK /\ step = "fetch" /\ RepeatInv
  BY DEF LInv, FetchPage, PageInv
<1>2. /\ Matching' = Matching /\ (\A j : Rank(j)' = Rank(j))
      /\ received' = received \cup Page /\ offset' = offset + Cardinality(Page)
      /\ answer' = [answer EXCEPT !.rows = Cardinality(Page)]
      /\ UNCHANGED <<query, departures, arrivals, counted>>
  BY DEF FetchPage, Reply, tableVars, scanVars, Matching, Rank
<1> DEFINE P == Page  n == Cardinality(P)
<1>3. P = {j \in Matching : RankIn(Matching, j) \in (offset + 1)..(offset + query.limit)}
  BY <1>1, ScanSets DEF Page
<1>4. /\ IsFiniteSet(P) /\ n \in 0..query.limit
      /\ n = query.limit \/ offset + n >= Cardinality(Matching)
      /\ n = 0 \/ offset + n <= Cardinality(Matching)
      /\ \A j \in P : RankIn(Matching, j) \in (offset + 1)..(offset + n)
  <2>1. Matching \in SUBSET Jobs /\ offset \in Nat /\ query.limit \in Nat
    BY <1>1, ScanSets
  <2> HIDE DEF P
  <2> QED  BY <1>3, <2>1, PageSize
<1>5. \A j \in P : Rank(j) \in (offset + 1)..(offset + n)
  BY <1>1, <1>3, <1>4, ScanSets
<1>6. received \cap P \in SUBSET Again
  BY <1>1, <1>3, <1>5, ScanSets DEF Again
<1>7. Again' \in SUBSET (Again \ (received \cap P))
  <2> SUFFICES ASSUME NEW j \in Again' PROVE j \in Again \ (received \cap P)
    OBVIOUS
  <2>1. j \in (received \cup P) \cap Matching /\ Rank(j) > offset + n
    BY <1>2 DEF Again
  <2>2. Rank(j) \in Nat /\ offset \in Nat /\ n \in Nat
    BY <1>1, <1>4, <2>1, ScanSets
  <2>3. j \notin P
    BY <1>5, <2>1, <2>2
  <2> QED  BY <2>1, <2>2, <2>3 DEF Again
<1>8. RepeatInv'
  <2> DEFINE both == Cardinality(received \cap P)
  <2>1. /\ Cardinality(received \cup P) = Cardinality(received) + n - both
        /\ IsFiniteSet(received \cap P) /\ both \in Nat
    BY <1>1, <1>4, ScanSets, FS_Union, FS_Intersection, FS_CardinalityType
  <2>2. IsFiniteSet(Again \ (received \cap P))
        /\ Cardinality(Again \ (received \cap P)) = Cardinality(Again) - both
    <3>1. Again \cap (received \cap P) = received \cap P
      BY <1>6
    <3>2. IsFiniteSet(Again)
      BY <1>1, ScanSets
    <3>3. ASSUME NEW S PROVE IsFiniteSet(Again \ S)
            /\ Cardinality(Again \ S) = Cardinality(Again) - Cardinality(Again \cap S)
      BY <3>2, FS_Difference
    <3> QED  BY <3>1, <3>3
  <2>3. Cardinality(Again') <= Cardinality(Again) - both /\ Cardinality(Again') \in Nat
    BY <1>7, <2>2, FS_Subset, FS_CardinalityType
  <2>4. /\ Cardinality(received') = Cardinality(received) + n - both
        /\ offset' = offset + n /\ arrivals' = arrivals
    BY <1>2, <2>1
  <2>5. n \in Nat /\ offset \in Nat /\ arrivals \in Nat
        /\ Cardinality(received) \in Nat /\ Cardinality(Again) \in Nat
    BY <1>1, <1>4, ScanSets
  <2>6. offset + Cardinality(Again) <= arrivals + Cardinality(received)
    BY <1>1 DEF RepeatInv
  <2> HIDE DEF both, n
  <2> QED  BY <2>1, <2>3, <2>4, <2>5, <2>6 DEF RepeatInv
<1>9. TotalAgreesWithRows'
  <2>1. Cardinality(Matching) + (departures - counted.departures)
          = answer.total + (arrivals - counted.arrivals)
    BY <1>1 DEF PageInv, CountInv
  <2>2. /\ counted.departures <= departures /\ counted.arrivals <= arrivals
        /\ n \in Nat
    BY <1>1, <1>4, ScanSets DEF LTypeOK
  <2>3. /\ answer'.rows = n /\ answer'.total = answer.total /\ offset' - answer'.rows = offset
        /\ query' = query /\ departures' = departures /\ arrivals' = arrivals /\ counted' = counted
    BY <1>1, <1>2, <1>4, ScanSets DEF LTypeOK
  <2> HIDE DEF n
  <2> QED  BY <1>1, <1>4, <2>1, <2>2, <2>3, ScanSets DEF TotalAgreesWithRows
<1> QED  BY <1>8, <1>9

\* A write moves at most one received row past the offset, and only by an arrival.
LEMMA WriteRepeatsOne ==
    ASSUME LInv, LTypeOK', PageInv, NEW x \in Jobs, WriteOf(x)
    PROVE  CountInv' /\ RepeatInv' /\ TotalAgreesWithRows'
<1>1. LTypeOK /\ RepeatInv
  BY DEF LInv, PageInv
<1>2. /\ departures' = departures + Cardinality(Matching \ Matching')
      /\ arrivals' = arrivals + Cardinality(Matching' \ Matching)
      /\ UNCHANGED <<code, query, step, offset, received, answer, counted>>
      /\ Matching \ {x} \subseteq Matching' /\ Matching' \ {x} \subseteq Matching
  BY DEF WriteOf, Track
<1>3. /\ Matching' \in SUBSET Jobs /\ IsFiniteSet(Matching') /\ Cardinality(Matching') \in Nat
      /\ Again' \subseteq Matching' /\ IsFiniteSet(Again') /\ Cardinality(Again') \in Nat
      /\ \A j \in Jobs : Rank(j)' = RankIn(Matching', j) /\ Rank(j)' \in Nat
  <2>1. Matching' \in SUBSET Jobs /\ Again' \in SUBSET Matching'
    BY DEF LTypeOK, Matching, Again
  <2>2. IsFiniteSet(Matching') /\ IsFiniteSet(Again')
    BY <2>1, ListingAssumption, FS_Subset
  <2>3. \A j \in Jobs : Rank(j)' = RankIn(Matching', j) /\ Rank(j)' \in Nat
    <3>1. \A j \in Jobs : Rank(j)' = RankIn(Matching', j)
      BY DEF Rank, RankIn
    <3> QED  BY <2>1, <3>1, RankIsNat
  <2> QED  BY <2>1, <2>2, <2>3, FS_CardinalityType
<1>4. /\ Cardinality(Matching \ Matching') = Cardinality(Matching) - Cardinality(Matching \cap Matching')
      /\ Cardinality(Matching' \ Matching) = Cardinality(Matching') - Cardinality(Matching \cap Matching')
      /\ Cardinality(Matching \cap Matching') \in Nat
      /\ Cardinality(Matching \ Matching') \in Nat /\ Cardinality(Matching' \ Matching) \in Nat
  <2>1. Matching' \cap Matching = Matching \cap Matching'
    OBVIOUS
  <2>2. IsFiniteSet(Matching) /\ IsFiniteSet(Matching')
    BY <1>1, <1>3, ScanSets
  <2>3. IsFiniteSet(Matching \cap Matching')
    BY <2>2, FS_Intersection
  <2>4. IsFiniteSet(Matching \ Matching') /\ IsFiniteSet(Matching' \ Matching)
        /\ Cardinality(Matching \ Matching') = Cardinality(Matching) - Cardinality(Matching \cap Matching')
        /\ Cardinality(Matching' \ Matching) = Cardinality(Matching') - Cardinality(Matching' \cap Matching)
    BY <2>2, FS_Difference
  <2> QED  BY <2>1, <2>3, <2>4, FS_CardinalityType
<1>5. CountInv'
  <2>1. CASE step = "fetch"
    <3>1. Cardinality(Matching) + (departures - counted.departures)
            = answer.total + (arrivals - counted.arrivals)
      BY <2>1 DEF PageInv, CountInv
    <3> QED  BY <1>1, <1>2, <1>3, <1>4, <3>1, ScanSets DEF CountInv
  <2> QED  BY <1>2, <2>1 DEF CountInv
<1>6. TotalAgreesWithRows'
  BY <1>1, <1>2, <1>4, ScanSets DEF PageInv, TotalAgreesWithRows
<1>7. CASE Matching' \subseteq Matching
  <2>1. Again' \subseteq Again
    <3> SUFFICES ASSUME NEW j \in Again' PROVE j \in Again
      OBVIOUS
    <3>1. j \in received /\ j \in Matching' /\ j \in Jobs /\ Rank(j)' > offset
      BY <1>2, <1>3 DEF Again
    <3>2. RankIn(Matching', j) <= RankIn(Matching, j) /\ RankIn(Matching, j) \in Nat
      BY <1>1, <1>7, <3>1, ScanSets, RankGrows, RankIsNat
    <3>3. Rank(j) > offset
      BY <1>1, <1>3, <3>1, <3>2, ScanSets
    <3> QED  BY <1>7, <3>1, <3>3 DEF Again
  <2>2. Cardinality(Again') <= Cardinality(Again)
    BY <1>1, <2>1, ScanSets, FS_Subset
  <2>3. RepeatInv'
    BY <1>1, <1>2, <1>3, <1>4, <2>2, ScanSets DEF RepeatInv
  <2> QED  BY <1>5, <1>6, <2>3
<1>8. CASE ~(Matching' \subseteq Matching)
  <2>1. Matching' = Matching \cup {x} /\ x \notin Matching /\ Matching' \ {x} = Matching
    BY <1>2, <1>8
  <2>2. Cardinality(Matching' \ Matching) = 1
    <3>1. Matching' \ Matching = {x}
      BY <2>1
    <3> QED  BY <3>1, FS_Singleton
  <2>3. \A j \in Jobs : Rank(j)' <= Rank(j) + 1
    <3> TAKE j \in Jobs
    <3>1. RankIn(Matching' \ {x}, j) >= RankIn(Matching', j) - 1
      BY <1>3, RankDrops
    <3> QED  BY <1>1, <1>3, <2>1, <3>1, ScanSets
  <2>4. ASSUME NEW j \in Matching, Rank(j)' # Rank(j)
        PROVE  CreatedAt[x] > CreatedAt[j]
    <3>1. CreatedAt[x] \in Nat /\ CreatedAt[j] \in Nat /\ j \in Jobs
      BY <1>1, ScanSets, ListingAssumption
    <3>2. SUFFICES ASSUME ~(CreatedAt[x] >= CreatedAt[j]) PROVE FALSE
      BY <2>1, <3>1, ListingAssumption
    <3>3. {k \in Matching' : CreatedAt[k] >= CreatedAt[j]}
            = {k \in Matching : CreatedAt[k] >= CreatedAt[j]}
      BY <2>1, <3>2
    <3> QED  BY <1>1, <1>3, <2>4, <3>1, <3>3, ScanSets DEF RankIn
  <2>5. ASSUME NEW j \in Again', j \notin Again
        PROVE  /\ j \in Matching' /\ Rank(j)' \in Nat /\ Rank(j)' > offset
               /\ j = x \/ (Rank(j)' = offset + 1 /\ CreatedAt[x] > CreatedAt[j])
    <3>1. j \in received /\ j \in Matching' /\ j \in Jobs /\ Rank(j)' > offset
      BY <1>2, <1>3, <2>5 DEF Again
    <3>2. CASE j # x
      <4>1. j \in Matching /\ ~(Rank(j) > offset)
        BY <2>1, <2>5, <3>1, <3>2 DEF Again
      <4>2. Rank(j) \in Nat /\ Rank(j)' \in Nat /\ offset \in Nat
        BY <1>1, <1>3, <3>1, ScanSets
      <4>3. Rank(j)' = offset + 1 /\ Rank(j)' # Rank(j)
        BY <2>3, <3>1, <4>1, <4>2
      <4> QED  BY <2>4, <3>1, <4>1, <4>2, <4>3
    <3> QED  BY <1>3, <3>1, <3>2
  <2>6. \A a, b \in Again' : a \notin Again /\ b \notin Again => a = b
    <3> SUFFICES ASSUME NEW a \in Again', NEW b \in Again', a \notin Again, b \notin Again,
                        a # b, a # x
                 PROVE  FALSE
      OBVIOUS
    <3>1. /\ a \in Matching' /\ b \in Matching' /\ Rank(b)' \in Nat /\ Rank(b)' > offset
          /\ Rank(a)' = offset + 1 /\ CreatedAt[x] > CreatedAt[a]
          /\ b = x \/ Rank(b)' = offset + 1
      BY <2>5
    <3>2. Rank(a)' = RankIn(Matching', a) /\ Rank(b)' = RankIn(Matching', b)
      BY <1>3, <3>1
    <3>3. Rank(a)' # Rank(b)'
      BY <1>3, <3>1, <3>2, RankIsInjective
    <3>4. b = x
      BY <3>1, <3>3
    <3>5. RankIn(Matching', x) < RankIn(Matching', a)
      BY <1>3, <3>1, <3>4, NewerIsLower
    <3>6. offset \in Nat
      BY <1>1, ScanSets
    <3> QED  BY <3>1, <3>2, <3>4, <3>5, <3>6
  <2>7. \E y : Again' \subseteq Again \cup {y}
    BY <2>6
  <2>8. Cardinality(Again') <= Cardinality(Again) + 1
    <3>1. PICK y : Again' \subseteq Again \cup {y}
      BY <2>7
    <3>2. IsFiniteSet(Again \cup {y}) /\ Cardinality(Again \cup {y}) <= Cardinality(Again) + 1
      <4>1. IsFiniteSet(Again \cup {y})
            /\ Cardinality(Again \cup {y}) = IF y \in Again THEN Cardinality(Again)
                                              ELSE Cardinality(Again) + 1
        BY <1>1, ScanSets, FS_AddElement
      <4> QED  BY <1>1, <4>1, ScanSets
    <3>3. Cardinality(Again') <= Cardinality(Again \cup {y}) /\ Cardinality(Again \cup {y}) \in Nat
      BY <3>1, <3>2, FS_Subset, FS_CardinalityType
    <3> QED  BY <1>1, <1>3, <3>2, <3>3, ScanSets
  <2>9. RepeatInv'
    BY <1>1, <1>2, <1>3, <2>2, <2>8, ScanSets DEF RepeatInv
  <2> QED  BY <1>5, <1>6, <2>9
<1> QED  BY <1>7, <1>8

LEMMA PageInvInit == LInit => PageInv
<1> SUFFICES ASSUME LInit PROVE PageInv
  OBVIOUS
<1>1. /\ step = "idle" /\ offset = 0 /\ received = {} /\ arrivals = 0
  BY DEF LInit
<1>2. Again = {}
  BY <1>1 DEF Again
<1>3. Cardinality(Again) = 0 /\ Cardinality(received) = 0
  BY <1>1, <1>2, FS_EmptySet
<1> QED  BY <1>1, <1>3 DEF PageInv, Waiting, CountInv, RepeatInv, TotalAgreesWithRows

LEMMA PageInvNext == LInv /\ LInv' /\ PageInv /\ [LNext]_lvars => PageInv'
<1> SUFFICES ASSUME LInv, LInv', PageInv, [LNext]_lvars PROVE PageInv'
  OBVIOUS
<1>1. Waiting' /\ (CountJobs \/ FetchPage \/ Aside \/ \E x \in Jobs : WriteOf(x))
  BY ScanSteps DEF PageInv
<1>2. LTypeOK /\ LTypeOK'
  BY DEF LInv
<1>3. CASE CountJobs
  <2>1. Matching' = Matching /\ (\A j : Rank(j)' = Rank(j))
    BY <1>3 DEF CountJobs, authVars, tableVars, Matching, Rank
  <2>2. Again' = Again
    BY <1>3, <2>1 DEF CountJobs, Again
  <2>3. RepeatInv'
    BY <1>3, <2>2 DEF CountJobs, PageInv, RepeatInv
  <2>4. CountInv'
    BY <1>2, <1>3, <2>1, ScanSets DEF CountJobs, CountInv
  <2>5. TotalAgreesWithRows'
    BY <1>3 DEF CountJobs, TotalAgreesWithRows
  <2> QED  BY <1>1, <2>3, <2>4, <2>5 DEF PageInv
<1>4. CASE FetchPage
  <2>1. step' # "fetch"
    BY <1>4 DEF FetchPage
  <2> QED  BY <1>1, <1>2, <1>4, <2>1, PageRepeats DEF PageInv, CountInv
<1>5. CASE Aside
  <2>1. Matching' = Matching /\ (\A j : Rank(j)' = Rank(j))
    BY <1>5 DEF Aside, Matching, Rank
  <2>2. Again' = Again
    BY <1>5, <2>1 DEF Aside, Again
  <2>3. RepeatInv'
    BY <1>5, <2>2 DEF Aside, PageInv, RepeatInv
  <2>4. CountInv'
    BY <1>5, <2>1 DEF Aside, PageInv, CountInv
  <2>5. TotalAgreesWithRows'
    BY <1>5 DEF Aside, PageInv, TotalAgreesWithRows
  <2> QED  BY <1>1, <2>3, <2>4, <2>5 DEF PageInv
<1>6. CASE \E x \in Jobs : WriteOf(x)
  BY <1>1, <1>2, <1>6, WriteRepeatsOne DEF PageInv
<1> QED  BY <1>1, <1>3, <1>4, <1>5, <1>6

THEOREM PagingInvariant == LSpec => []PageInv
BY PageInvInit, PageInvNext, ListingInvariant, PTL DEF LSpec

\* A scan repeats no more rows than began to match during it, for every page
\* size, number of jobs and interleaving with writes.
THEOREM ScanRepeats == LSpec => []RepeatsOnlyArrivals
<1>1. LInv /\ PageInv => RepeatsOnlyArrivals
  BY ScanSets DEF LInv, PageInv, RepeatInv, RepeatsOnlyArrivals
<1> QED  BY <1>1, ListingInvariant, PagingInvariant, PTL

\* The total of an answer and its number of rows differ by no more than the
\* writes between the two statements account for.
THEOREM TotalsAgree == LSpec => []TotalAgreesWithRows
<1>1. PageInv => TotalAgreesWithRows
  BY DEF PageInv
<1> QED  BY <1>1, PagingInvariant, PTL
=============================================================================
