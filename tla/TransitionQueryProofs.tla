------------------------- MODULE TransitionQueryProofs -------------------------
(***************************************************************************)
(* Proofs about TransitionQuery, for any evidence, transition, page size,  *)
(* grouping and number of failing queries.  Readers hold no lock and no    *)
(* snapshot; what makes their answers fit together is that rows are only   *)
(* ever added (StoreGrows) and that one query reads one state.             *)
(***************************************************************************)
EXTENDS TransitionQuery, TLAPS, FiniteSetTheorems

-----------------------------------------------------------------------------
(* Sets *)

(* A non-empty set of naturals has a least element. *)
LEMMA LeastExists ==
  ASSUME NEW S \in SUBSET Nat, S # {}
  PROVE  \E m \in S : \A x \in S : m <= x
<1>1. PICK m \in S : \A y \in S : ~(<<y, m>> \in OpToRel(<, Nat))
  BY NatLessThanWellFounded, WFMin
<1>2. \A y \in S : ~(y < m)
  BY <1>1 DEF OpToRel
<1> QED
  BY <1>2

(* A finite one has a greatest, which is what Max returns. *)
LEMMA MaxIsGreatest ==
  ASSUME NEW S \in SUBSET Nat, IsFiniteSet(S), S # {}
  PROVE  Max(S) \in S /\ \A x \in S : x <= Max(S)
<1> DEFINE Below(m) == {x \in S : x <= m}
           counts == {Cardinality(S) - Cardinality(Below(m)) : m \in S}
<1>1. \A m \in S : /\ IsFiniteSet(Below(m)) /\ Below(m) \in SUBSET S
                   /\ Cardinality(Below(m)) \in Nat /\ Cardinality(Below(m)) <= Cardinality(S)
  BY FS_Subset, FS_CardinalityType
<1>2. Cardinality(S) \in Nat
  BY FS_CardinalityType
<1>3. counts \in SUBSET Nat /\ counts # {}
  <2>1. \A m \in S : Cardinality(S) - Cardinality(Below(m)) \in Nat
    <3> HIDE DEF Below
    <3> QED
      BY <1>1, <1>2
  <2> HIDE DEF Below
  <2> QED
    BY <2>1
<1>4. PICK n \in counts : \A k \in counts : n <= k
  BY <1>3, LeastExists
<1>5. PICK m \in S : n = Cardinality(S) - Cardinality(Below(m))
  OBVIOUS
<1>6. ASSUME NEW x \in S, m < x PROVE FALSE
  <2>1. Below(m) \cup {x} \in SUBSET Below(x) /\ x \notin Below(m)
    <3>1. \A y \in S : y <= m => y <= x
      BY <1>6
    <3>2. m \in Nat /\ x \in Nat /\ ~(x <= m)
      BY <1>6
    <3>3. x \notin Below(m) /\ x \in Below(x)
      BY <3>2
    <3>4. Below(m) \subseteq Below(x)
      BY <3>1
    <3> HIDE DEF Below
    <3> QED
      BY <3>3, <3>4
  <2>2. Cardinality(Below(m)) + 1 <= Cardinality(Below(x))
    <3>1. Cardinality(Below(m) \cup {x}) = Cardinality(Below(m)) + 1
      BY <1>1, <2>1, FS_AddElement
    <3>2. Cardinality(Below(m) \cup {x}) <= Cardinality(Below(x))
      BY <1>1, <2>1, FS_Subset
    <3> QED
      BY <3>1, <3>2
  <2>3. Cardinality(S) - Cardinality(Below(x)) \in counts
    OBVIOUS
  <2> HIDE DEF Below, counts
  <2> QED
    BY <1>1, <1>2, <1>4, <1>5, <2>2, <2>3
<1>7. \A x \in S : x <= m
  BY <1>6
<1> QED
  BY <1>7 DEF Max

(* The rows of LIMIT k are an initial part of the ordered rows, and all of them
   when there are fewer than k. *)
LEMMA FirstRowsOf ==
  ASSUME NEW S \in SUBSET Nat, IsFiniteSet(S), NEW k \in Nat
  PROVE  /\ FirstRows(S, k) \in SUBSET S
         /\ \A x \in FirstRows(S, k), y \in S : y <= x => y \in FirstRows(S, k)
         /\ Cardinality(FirstRows(S, k)) < k => FirstRows(S, k) = S
<1> DEFINE Below(x) == {y \in S : y <= x}
<1>1. \A x \in S : /\ IsFiniteSet(Below(x)) /\ Cardinality(Below(x)) \in Nat
  BY FS_Subset, FS_CardinalityType
<1>2. ASSUME NEW x \in FirstRows(S, k), NEW y \in S, y <= x PROVE y \in FirstRows(S, k)
  <2>1. x \in S /\ Cardinality(Below(x)) <= k
    BY <1>2 DEF FirstRows
  <2>2. Below(y) \in SUBSET Below(x)
    <3>1. \A z \in S : z <= y => z <= x
      BY <1>2, <2>1
    <3> QED
      BY <3>1
  <2>3. Cardinality(Below(y)) <= Cardinality(Below(x))
    BY <1>1, <2>1, <2>2, FS_Subset
  <2>4. Cardinality(Below(y)) <= k
    BY <1>1, <2>1, <2>3
  <2> QED
    BY <2>4 DEF FirstRows
<1>3. ASSUME Cardinality(FirstRows(S, k)) < k, FirstRows(S, k) # S PROVE FALSE
  <2> DEFINE R == FirstRows(S, k)
  <2>1. S \ R \in SUBSET Nat /\ S \ R # {} /\ R \in SUBSET S
    BY <1>3 DEF FirstRows
  <2>2. PICK m \in S \ R : \A x \in S \ R : m <= x
    BY <2>1, LeastExists
  <2>3. IsFiniteSet(R) /\ Cardinality(R) \in Nat
    BY <2>1, FS_Subset, FS_CardinalityType
  <2>4. Below(m) \in SUBSET (R \cup {m})
    <3>1. m \in Nat /\ \A z \in S : z \in Nat
      BY <2>2
    <3>2. \A z \in S \ R : z <= m => z = m
      BY <2>2, <3>1
    <3> HIDE DEF R
    <3> QED
      BY <2>2, <3>2
  <2>5. IsFiniteSet(R \cup {m}) /\ Cardinality(R \cup {m}) = Cardinality(R) + 1
    BY <2>2, <2>3, FS_AddElement
  <2>6. Cardinality(Below(m)) <= Cardinality(R) + 1
    BY <2>4, <2>5, FS_Subset
  <2>7. Cardinality(Below(m)) <= k
    BY <1>1, <1>3, <2>2, <2>3, <2>6
  <2>8. m \in R
    BY <2>2, <2>7 DEF FirstRows
  <2> QED
    BY <2>2, <2>8
<1> QED
  BY <1>2, <1>3 DEF FirstRows

(* The image of a finite set is not larger. *)
LEMMA ImageBound ==
  ASSUME NEW S, IsFiniteSet(S), NEW f, DOMAIN f = S
  PROVE  /\ IsFiniteSet({f[x] : x \in S})
         /\ Cardinality({f[x] : x \in S}) \in Nat
         /\ Cardinality({f[x] : x \in S}) <= Cardinality(S)
<1> DEFINE T == {f[x] : x \in S}
           g == [x \in S |-> f[x]]
<1>1. g \in Surjection(S, T)
  BY DEF Surjection
<1> QED
  BY <1>1, FS_Surjection, FS_CardinalityType

(* Disjoint finite sets. *)
LEMMA DisjointUnion ==
  ASSUME NEW S, NEW T, IsFiniteSet(S), IsFiniteSet(T), S \cap T = {}
  PROVE  /\ Cardinality(S \cup T) = Cardinality(S) + Cardinality(T)
         /\ Cardinality(S) \in Nat /\ Cardinality(T) \in Nat
<1>1. /\ Cardinality(S \cup T) = Cardinality(S) + Cardinality(T) - Cardinality(S \cap T)
      /\ Cardinality(S) \in Nat /\ Cardinality(T) \in Nat
  BY FS_Union, FS_CardinalityType
<1>2. Cardinality(S \cap T) = 0
  BY FS_EmptySet
<1> QED
  BY <1>1, <1>2

(* What SumFunction returns for a function on a finite set: any function on
   subsets that adds one argument at a time computes it. *)
Adds(c, g, D) ==
  g = [s \in SUBSET D |-> IF s = {} THEN 0
       ELSE c[CHOOSE x \in s : TRUE] + g[s \ {CHOOSE x \in s : TRUE}]]

LEMMA SumIs ==
  ASSUME NEW c, NEW D, D = DOMAIN c, IsFiniteSet(D), NEW h, Adds(c, h, D)
  PROVE  SumFunction(c) = h[D]
<1>1. SumFunction(c) = (CHOOSE g : Adds(c, g, D))[D]
  BY DEF SumFunction, SumFunctionOnSet, FoldFunctionOnSet, MapThenFoldSet, Adds
<1>2. PICK g : g = (CHOOSE f : Adds(c, f, D))
  OBVIOUS
<1>3. Adds(c, g, D)
  BY <1>2
<1> DEFINE Bad == {s \in SUBSET D : g[s] # h[s]}
<1>4. CASE Bad # {}
  <2>1. FiniteSubsetsOf(D) = SUBSET D
    BY FS_FiniteSubsetsOfFinite
  <2>2. IsWellFoundedOn(StrictSubsetOrdering(D), SUBSET D)
    BY <2>1, FS_StrictSubsetOrderingWellFounded
  <2>3. PICK s \in Bad : \A t \in Bad : ~(<<t, s>> \in StrictSubsetOrdering(D))
    BY <1>4, <2>2, WFMin
  <2>4. CASE s = {}
    BY <1>3, <2>3, <2>4 DEF Adds
  <2>5. CASE s # {}
    <3> DEFINE x == CHOOSE x \in s : TRUE
               t == s \ {x}
    <3>1. x \in s
      BY <2>5
    <3>2. t \in SUBSET D /\ <<t, s>> \in StrictSubsetOrdering(D)
      BY <2>3, <3>1 DEF StrictSubsetOrdering
    <3>3. g[t] = h[t]
      BY <2>3, <3>2
    <3>4. g[s] = c[x] + g[t] /\ h[s] = c[x] + h[t]
      BY <1>3, <2>3, <2>5 DEF Adds
    <3> QED
      BY <2>3, <3>3, <3>4
  <2> QED
    BY <2>4, <2>5
<1>5. CASE Bad = {}
  BY <1>1, <1>2, <1>5
<1> QED
  BY <1>4, <1>5

(* The counts of GROUP BY add up to the rows. *)
LEMMA CountsAddUp ==
  ASSUME NEW f, NEW S, IsFiniteSet(S), S \subseteq DOMAIN f
  PROVE  SumFunction(CountBy(f, S)) = Cardinality(S)
<1> DEFINE c == CountBy(f, S)
           D == {f[e] : e \in S}
           Of(s) == {e \in S : f[e] \in s}
           h == [s \in SUBSET D |-> Cardinality(Of(s))]
<1>1. DOMAIN c = D /\ \A v \in D : c[v] = Cardinality({e \in S : f[e] = v})
  BY DEF CountBy
<1>2. IsFiniteSet(D)
  <2> DEFINE p == [e \in S |-> f[e]]
  <2>1. {p[e] : e \in S} = D /\ DOMAIN p = S
    OBVIOUS
  <2> HIDE DEF p, D
  <2> QED
    BY <2>1, ImageBound
<1>3. ASSUME NEW s \in SUBSET D
      PROVE  h[s] = IF s = {} THEN 0 ELSE c[CHOOSE x \in s : TRUE] + h[s \ {CHOOSE x \in s : TRUE}]
  <2>1. CASE s = {}
    <3>1. Of(s) = {}
      BY <2>1
    <3> QED
      BY <2>1, <3>1, FS_EmptySet
  <2>2. ASSUME s # {}, NEW x, x = CHOOSE y \in s : TRUE PROVE h[s] = c[x] + h[s \ {x}]
    <3>1. x \in s
      BY <2>2
    <3>2. /\ Of(s) = Of({x}) \cup Of(s \ {x}) /\ Of({x}) \cap Of(s \ {x}) = {}
      BY <3>1
    <3>3. IsFiniteSet(Of({x})) /\ IsFiniteSet(Of(s \ {x}))
      BY FS_Subset
    <3>4. Cardinality(Of(s)) = Cardinality(Of({x})) + Cardinality(Of(s \ {x}))
      <4> HIDE DEF Of
      <4> QED
        BY <3>2, <3>3, DisjointUnion
    <3>5. c[x] = Cardinality(Of({x}))
      <4>1. Of({x}) = {e \in S : f[e] = x}
        OBVIOUS
      <4> QED
        BY <1>1, <3>1, <4>1
    <3>6. h[s] = Cardinality(Of(s)) /\ h[s \ {x}] = Cardinality(Of(s \ {x}))
      <4>1. s \ {x} \in SUBSET D
        OBVIOUS
      <4> QED
        BY <4>1
    <3> QED
      BY <3>4, <3>5, <3>6
  <2> HIDE DEF c, h, D
  <2> QED
    BY <2>1, <2>2
<1>4. Adds(c, h, D)
  <2>1. h = [s \in SUBSET D |-> h[s]]
    OBVIOUS
  <2> HIDE DEF c, h, D
  <2> QED
    BY <1>3, <2>1 DEF Adds
<1>5. SumFunction(c) = h[D]
  <2> HIDE DEF c, h, D
  <2> QED
    BY <1>1, <1>2, <1>4, SumIs
<1>6. Of(D) = S
  OBVIOUS
<1>7. h[D] = Cardinality(S)
  BY <1>6
<1> QED
  BY <1>5, <1>7

-----------------------------------------------------------------------------
(* The store as readers see it *)

LEMMA OursFinite ==
  ASSUME runs \subseteq Ids
  PROVE  /\ IsFiniteSet(runs) /\ Cardinality(runs) \in Nat
         /\ Ours \subseteq Ids /\ IsFiniteSet(Ours) /\ Cardinality(Ours) \in Nat
         /\ IsFiniteSet(Ours \cap certified) /\ Cardinality(Ours \cap certified) \in Nat
<1>1. Ours \subseteq runs
  BY DEF Ours, OfTransition
<1> QED
  BY <1>1, IdsAssumption, FS_Subset, FS_CardinalityType

(* The finding rows of finitely many runs. *)
LEMMA RowsFinite ==
  ASSUME NEW T, T \subseteq Ids
  PROVE  IsFiniteSet(UNION {{e} \X DOMAIN FindingsOf[e] : e \in T})
<1> DEFINE f == [e \in T |-> {e} \X DOMAIN FindingsOf[e]]
<1>1. ASSUME NEW e \in T PROVE IsFiniteSet({e} \X DOMAIN FindingsOf[e])
  <2>1. FindingsOf[e] \in Seq(Kinds)
    BY AttributesAssumption
  <2>2. DOMAIN FindingsOf[e] = 1 .. Len(FindingsOf[e]) /\ Len(FindingsOf[e]) \in Nat
    BY <2>1
  <2>3. IsFiniteSet(DOMAIN FindingsOf[e])
    BY <2>2, FS_Interval
  <2> QED
    BY <2>3, FS_Singleton, FS_Product
<1>2. IsFiniteSet(T)
  BY IdsAssumption, FS_Subset
<1>3. IsFiniteSet({f[e] : e \in T})
  <2>1. DOMAIN f = T
    OBVIOUS
  <2> HIDE DEF f
  <2> QED
    BY <1>2, <2>1, ImageBound
<1>4. {f[e] : e \in T} = {{e} \X DOMAIN FindingsOf[e] : e \in T}
  OBVIOUS
<1> QED
  BY <1>1, <1>3, <1>4, FS_UNION

LEMMA FindingsFinite ==
  ASSUME runs \subseteq Ids
  PROVE  IsFiniteSet(Findings) /\ Cardinality(Findings) \in Nat
BY OursFinite, RowsFinite, FS_CardinalityType DEF Findings

(* Rows are only ever added. *)
LEMMA StoreGrows ==
  ASSUME runs \subseteq Ids, runs' \subseteq Ids, [Next]_vars
  PROVE  /\ runs \subseteq runs' /\ certified \subseteq certified'
         /\ Ours \subseteq Ours' /\ Ours \cap certified \subseteq Ours' \cap certified'
         /\ Cardinality(runs) <= Cardinality(runs')
         /\ Cardinality(Ours) <= Cardinality(Ours')
         /\ Cardinality(Ours \cap certified) <= Cardinality(Ours' \cap certified')
         /\ Cardinality(Findings') \in Nat /\ Cardinality(Findings) <= Cardinality(Findings')
<1>1. runs \subseteq runs' /\ certified \subseteq certified'
  BY DEF Next, Ingestion, Publish, BindIdentity, Walk, StartWalk, FetchPage, Lookup, ReadTotals, ReadGroup, Reply,
         Follow, Failure, PageFails, TotalsFail, GroupFails, FollowFails, vars, storeVars
<1>2. Ours \subseteq Ours'
  BY <1>1 DEF Ours, OfTransition
<1>3. IsFiniteSet(runs') /\ IsFiniteSet(Ours') /\ IsFiniteSet(Ours' \cap certified')
  <2>1. Ours' \subseteq runs'
    BY DEF Ours, OfTransition
  <2> QED
    BY <2>1, IdsAssumption, FS_Subset
<1>4. /\ Findings \subseteq Findings' /\ IsFiniteSet(Findings')
      /\ Cardinality(Findings') \in Nat /\ Cardinality(Findings) <= Cardinality(Findings')
  <2>1. Ours' \subseteq Ids
    BY DEF Ours, OfTransition
  <2>2. IsFiniteSet(Findings')
    BY <2>1, RowsFinite DEF Findings
  <2>3. Findings \subseteq Findings'
    BY <1>2 DEF Findings
  <2> QED
    BY <2>2, <2>3, FS_Subset, FS_CardinalityType
<1> QED
  BY <1>1, <1>2, <1>3, <1>4, FS_Subset

(* A page is what follows the cursor, up to the cursor of the next page. *)
LEMMA PageIs ==
  ASSUME runs \subseteq Ids, NEW c \in Nat, NEW n \in Nat \ {0}
  PROVE  /\ Page(c, n).rows \subseteq After(c)
         /\ Page(c, n).next = NoCursor => Page(c, n).rows = After(c)
         /\ Page(c, n).next # NoCursor =>
              /\ Page(c, n).next \in Page(c, n).rows
              /\ Page(c, n).rows = {x \in After(c) : x <= Page(c, n).next}
<1> DEFINE A == After(c)
           rows == FirstRows(A, n + 1)
           more == Cardinality(rows) > n
           page == IF more THEN rows \ {Max(rows)} ELSE rows
<1>1. A \in SUBSET Nat /\ IsFiniteSet(A) /\ A \subseteq Ids
  <2>1. A \in SUBSET Ours
    BY DEF After
  <2> QED
    BY <2>1, OursFinite, IdsAssumption, FS_Subset
<1>2. /\ rows \in SUBSET A
      /\ \A x \in rows, y \in A : y <= x => y \in rows
      /\ Cardinality(rows) < n + 1 => rows = A
  <2> HIDE DEF A
  <2> QED
    BY <1>1, FirstRowsOf
<1>3. IsFiniteSet(rows) /\ Cardinality(rows) \in Nat /\ rows \in SUBSET Nat
  <2> HIDE DEF A, rows
  <2> QED
    BY <1>1, <1>2, FS_Subset, FS_CardinalityType
<1>4. /\ Page(c, n).rows = page
      /\ Page(c, n).next = IF more /\ page # {} THEN Max(page) ELSE NoCursor
  BY DEF Page
<1> HIDE DEF A, rows
<1>5. CASE ~more
  BY <1>2, <1>3, <1>4, <1>5 DEF A
<1>6. CASE more
  <2>1. rows # {}
    BY <1>3, <1>6, FS_EmptySet
  <2>2. Max(rows) \in rows /\ \A x \in rows : x <= Max(rows)
    BY <1>3, <2>1, MaxIsGreatest
  <2>3. page = rows \ {Max(rows)} /\ IsFiniteSet(page) /\ Cardinality(page) = Cardinality(rows) - 1
    BY <1>3, <1>6, <2>2, FS_RemoveElement
  <2> HIDE DEF page
  <2>4. page # {} /\ page \in SUBSET Nat
    <3>1. page \in SUBSET Nat
      BY <1>3, <2>3
    <3>2. Cardinality(page) # 0
      <4>1. Cardinality(rows) > n
        BY <1>6
      <4> HIDE DEF more
      <4> QED
        BY <1>3, <2>3, <4>1
    <3>3. page # {}
      BY <3>2, FS_EmptySet
    <3> QED
      BY <3>1, <3>3
  <2>5. Max(page) \in page /\ \A x \in page : x <= Max(page)
    BY <2>3, <2>4, MaxIsGreatest
  <2>6. Page(c, n).next = Max(page) /\ Max(page) # NoCursor
    <3>1. Max(page) \in Ids
      BY <1>1, <1>2, <2>3, <2>5
    <3> QED
      BY <1>4, <1>6, <2>4, <3>1, IdsAssumption
  <2>7. ASSUME NEW x \in A, x <= Max(page) PROVE x \in page
    <3>1. x \in rows
      BY <1>2, <2>3, <2>5, <2>7
    <3>2. Max(page) \in Nat /\ Max(rows) \in Nat /\ Max(page) # Max(rows) /\ Max(page) <= Max(rows)
      BY <1>3, <2>2, <2>3, <2>5
    <3>3. x # Max(rows)
      BY <2>7, <3>2
    <3> QED
      BY <2>3, <3>1, <3>3
  <2>8. page \subseteq A
    BY <1>2, <2>3
  <2> QED
    BY <1>4, <2>5, <2>6, <2>7, <2>8 DEF A
<1> QED
  BY <1>5, <1>6

LEMMA LimitPositive ==
  ASSUME NEW l \in Limits \cup {NoLimit}
  PROVE  BoundedLimit(l) \in Nat \ {0}
BY LimitsAssumption DEF BoundedLimit

-----------------------------------------------------------------------------
(* Types *)

Types ==
  /\ certified \subseteq runs /\ runs \subseteq Ids
  /\ walk \in [phase : {"absent", "idle", "walking", "done"}, limit : Limits \cup {NoLimit},
               cursor : Ids \cup {NoCursor}, seen : SUBSET Ids, repeated : BOOLEAN]
  /\ initial \subseteq Ids
  /\ lookup = [phase |-> lookup.phase, runs |-> lookup.runs, evidence |-> lookup.evidence,
               signers |-> lookup.signers, groups |-> lookup.groups]
  /\ lookup.phase \in {"absent", "idle", "grouping", "replied", "error"}
  /\ lookup.runs \in Nat
  /\ \E R : lookup.groups \in Seq(R)
  /\ asked \in [certified : Nat, findings : Nat]
  /\ visit = [links |-> visit.links, broken |-> visit.broken]
  /\ visit.broken \in BOOLEAN
  /\ failures \in 0 .. MaxFailures

LEMMA InitTypes == Init => Types
<1> SUFFICES ASSUME Init PROVE Types
  OBVIOUS
<1>1. << >> \in Seq({})
  OBVIOUS
<1>2. PICK client \in Clients :
        /\ walk \in [phase : {IF client = "walker" THEN "idle" ELSE "absent"},
                     limit : IF client = "walker" THEN Limits ELSE {NoLimit},
                     cursor : {NoCursor}, seen : {{}}, repeated : {FALSE}]
        /\ lookup = [phase |-> IF client = "reader" THEN "idle" ELSE "absent",
                     runs |-> 0, evidence |-> 0, signers |-> 0, groups |-> << >>]
        /\ visit = [links |-> IF client = "navigator" THEN {Package} ELSE {}, broken |-> FALSE]
  BY DEF Init
<1>3. walk \in [phase : {"absent", "idle", "walking", "done"}, limit : Limits \cup {NoLimit},
               cursor : Ids \cup {NoCursor}, seen : SUBSET Ids, repeated : BOOLEAN]
  BY <1>2
<1>4. /\ lookup = [phase |-> lookup.phase, runs |-> lookup.runs, evidence |-> lookup.evidence,
                   signers |-> lookup.signers, groups |-> lookup.groups]
      /\ lookup.phase \in {"absent", "idle", "grouping", "replied", "error"}
      /\ lookup.runs \in Nat
      /\ lookup.groups \in Seq({})
  BY <1>1, <1>2
<1>5. visit = [links |-> visit.links, broken |-> visit.broken] /\ visit.broken \in BOOLEAN
  BY <1>2
<1> QED
  BY <1>3, <1>4, <1>5, LimitsAssumption DEF Init, Types

LEMMA StepTypes == Types /\ [Next]_vars => Types'
<1> SUFFICES ASSUME Types, [Next]_vars PROVE Types'
  OBVIOUS
<1> USE DEF Types
<1>1. CASE Ingestion
  BY <1>1 DEF Ingestion, Publish, BindIdentity, walkVars, lookupVars
<1>2. CASE StartWalk
  <2>1. initial' \subseteq Ids
    BY <1>2, OursFinite DEF StartWalk
  <2> QED
    BY <1>2, <2>1 DEF StartWalk, storeVars, lookupVars
<1>3. CASE FetchPage
  <2> DEFINE p == Page(walk.cursor, BoundedLimit(walk.limit))
  <2>1. p.rows \subseteq Ids /\ (p.next = NoCursor \/ p.next \in p.rows)
    <3>0. walk.cursor \in Ids \cup {NoCursor} /\ walk.limit \in Limits \cup {NoLimit}
      OBVIOUS
    <3>1. walk.cursor \in Nat /\ BoundedLimit(walk.limit) \in Nat \ {0}
      BY <3>0, IdsAssumption, LimitPositive DEF NoCursor
    <3>2. After(walk.cursor) \subseteq Ids
      BY OursFinite DEF After
    <3> QED
      BY <3>1, <3>2, PageIs
  <2>2. /\ walk' = [walk EXCEPT !.seen = @ \cup p.rows,
                          !.repeated = @ \/ p.rows \cap walk.seen # {},
                          !.cursor = IF p.next = NoCursor THEN @ ELSE p.next,
                          !.phase = IF p.next = NoCursor THEN "done" ELSE "walking"]
        /\ UNCHANGED <<storeVars, initial, lookupVars, visit, failures>>
    BY <1>3 DEF FetchPage
  <2> HIDE DEF p
  <2> QED
    BY <2>1, <2>2 DEF storeVars, lookupVars
<1>4. CASE ReadTotals
  <2>1. << >> \in Seq({})
    OBVIOUS
  <2> QED
    BY <1>4, <2>1, OursFinite, FindingsFinite DEF ReadTotals, storeVars, walkVars
<1>5. CASE ReadGroup
  <2> DEFINE x == GroupBy(Groups[NextGroup])
  <2>1. PICK R : lookup.groups \in Seq(R)
    OBVIOUS
  <2>2. Append(lookup.groups, x) \in Seq(R \cup {x})
    BY <2>1
  <2>3. lookup' = [lookup EXCEPT !.groups = Append(@, x)]
    BY <1>5 DEF ReadGroup
  <2> HIDE DEF x
  <2> QED
    BY <1>5, <2>2, <2>3 DEF ReadGroup, storeVars, walkVars
<1>6. CASE GroupFails
  <2>1. PICK R : lookup.groups \in Seq(R)
    OBVIOUS
  <2>2. Append(lookup.groups, Null) \in Seq(R \cup {Null})
    BY <2>1
  <2>3. lookup' = [lookup EXCEPT !.groups = Append(@, Null)]
    BY <1>6 DEF GroupFails
  <2>4. /\ lookup' = [phase |-> lookup'.phase, runs |-> lookup'.runs, evidence |-> lookup'.evidence,
                      signers |-> lookup'.signers, groups |-> lookup'.groups]
        /\ lookup'.phase = lookup.phase /\ lookup'.runs = lookup.runs
        /\ lookup'.groups = Append(lookup.groups, Null)
    BY <2>3
  <2>5. failures' \in 0 .. MaxFailures
    BY <1>6, LimitsAssumption DEF GroupFails, QueryFails
  <2> QED
    BY <1>6, <2>2, <2>4, <2>5 DEF GroupFails, storeVars, walkVars
<1>7. CASE Reply
  BY <1>7 DEF Reply, storeVars, walkVars
<1>8. CASE PageFails \/ TotalsFail \/ FollowFails
  BY <1>8, LimitsAssumption DEF PageFails, TotalsFail, FollowFails, QueryFails, storeVars, walkVars, lookupVars
<1>9. CASE Follow
  BY <1>9 DEF Follow, storeVars, walkVars, lookupVars
<1>10. CASE UNCHANGED vars
  BY <1>10 DEF vars, storeVars, walkVars, lookupVars
<1> QED
  BY <1>1, <1>2, <1>3, <1>4, <1>5, <1>6, <1>7, <1>8, <1>9, <1>10 DEF Next, Walk, Lookup, Failure

-----------------------------------------------------------------------------
(* The walk: what was received is all there was up to the cursor, whatever is
   committed behind or ahead of it. *)

WalkInv ==
  /\ walk.seen \subseteq Ours /\ initial \subseteq Ours
  /\ walk.cursor \in walk.seen \cup {NoCursor}
  /\ ~walk.repeated
  /\ walk.phase \in {"absent", "idle"} => walk.seen = {} /\ walk.cursor = NoCursor
  /\ walk.phase = "walking" =>
       /\ \A x \in walk.seen : x <= walk.cursor
       /\ \A x \in initial : x <= walk.cursor => x \in walk.seen
  /\ walk.phase = "done" => initial \subseteq walk.seen

LEMMA InitWalk == Init => WalkInv
<1> SUFFICES ASSUME Init PROVE WalkInv
  OBVIOUS
<1>1. PICK client \in Clients :
        walk \in [phase : {IF client = "walker" THEN "idle" ELSE "absent"},
                  limit : IF client = "walker" THEN Limits ELSE {NoLimit},
                  cursor : {NoCursor}, seen : {{}}, repeated : {FALSE}]
  BY DEF Init
<1>2. walk.seen = {} /\ walk.cursor = NoCursor /\ walk.repeated = FALSE /\ walk.phase \in {"idle", "absent"}
  BY <1>1
<1> QED
  BY <1>2 DEF Init, WalkInv

LEMMA FetchKeepsWalk == ASSUME Types, WalkInv, FetchPage PROVE WalkInv'
<1> DEFINE p == Page(walk.cursor, BoundedLimit(walk.limit))
<1>1. walk.cursor \in Nat /\ BoundedLimit(walk.limit) \in Nat \ {0} /\ runs \subseteq Ids
  <2>1. walk.cursor \in Ids \cup {NoCursor} /\ walk.limit \in Limits \cup {NoLimit} /\ runs \subseteq Ids
    BY DEF Types
  <2>2. walk.cursor \in Nat
    <3>1. Ids \subseteq Nat /\ NoCursor \in Nat
      BY IdsAssumption DEF NoCursor
    <3> QED
      BY <2>1, <3>1
  <2>3. BoundedLimit(walk.limit) \in Nat \ {0}
    BY <2>1, LimitPositive
  <2> QED
    BY <2>1, <2>2, <2>3
<1>2. /\ p.rows \subseteq After(walk.cursor)
      /\ p.next = NoCursor => p.rows = After(walk.cursor)
      /\ p.next # NoCursor => p.next \in p.rows /\ p.rows = {x \in After(walk.cursor) : x <= p.next}
  BY <1>1, PageIs
<1>3. /\ walk.phase = "walking" /\ initial' = initial /\ runs' = runs
      /\ walk' = [walk EXCEPT !.seen = @ \cup p.rows,
                              !.repeated = @ \/ p.rows \cap walk.seen # {},
                              !.cursor = IF p.next = NoCursor THEN @ ELSE p.next,
                              !.phase = IF p.next = NoCursor THEN "done" ELSE "walking"]
  BY DEF FetchPage, storeVars
<1> HIDE DEF p
<1>4. /\ walk'.seen = walk.seen \cup p.rows
      /\ walk'.repeated = (walk.repeated \/ p.rows \cap walk.seen # {})
      /\ walk'.cursor = IF p.next = NoCursor THEN walk.cursor ELSE p.next
      /\ walk'.phase = IF p.next = NoCursor THEN "done" ELSE "walking"
  BY <1>3 DEF Types
<1>5. Ours' = Ours /\ Ours \subseteq Nat
  BY <1>1, <1>3, IdsAssumption DEF Ours, OfTransition
<1>6. p.rows \subseteq Ours /\ \A x \in p.rows : walk.cursor < x
  BY <1>1, <1>2, <1>5 DEF After
<1>7. /\ walk.seen \subseteq Ours /\ initial \subseteq Ours /\ ~walk.repeated
      /\ walk.cursor \in walk.seen \cup {NoCursor}
      /\ \A x \in walk.seen : x <= walk.cursor
      /\ \A x \in initial : x <= walk.cursor => x \in walk.seen
  BY <1>3 DEF WalkInv
<1>8. p.rows \cap walk.seen = {}
  <2>1. \A x \in Nat : ~(walk.cursor < x /\ x <= walk.cursor)
    BY <1>1
  <2> QED
    BY <1>5, <1>6, <1>7, <2>1
<1>9. CASE p.next = NoCursor
  <2>1. initial \subseteq walk.seen \cup p.rows
    BY <1>1, <1>2, <1>5, <1>7, <1>9 DEF After
  <2>2. /\ walk'.seen = walk.seen \cup p.rows /\ walk'.repeated = FALSE
        /\ walk'.cursor = walk.cursor /\ walk'.phase = "done"
    BY <1>4, <1>7, <1>8, <1>9
  <2> QED
    BY <1>3, <1>5, <1>6, <1>7, <2>1, <2>2 DEF WalkInv
<1>10. CASE p.next # NoCursor
  <2>1. p.next \in Nat /\ walk.cursor < p.next
    BY <1>2, <1>5, <1>6, <1>10
  <2>2. \A x \in walk.seen \cup p.rows : x <= p.next
    <3>1. \A x \in Nat : x <= walk.cursor => x <= p.next
      BY <1>1, <2>1
    <3>2. \A x \in walk.seen : x <= p.next
      BY <1>5, <1>7, <3>1
    <3>3. \A x \in p.rows : x <= p.next
      BY <1>2, <1>10
    <3> QED
      BY <3>2, <3>3
  <2>3. \A x \in initial : x <= p.next => x \in walk.seen \cup p.rows
    BY <1>1, <1>2, <1>5, <1>7, <1>10 DEF After
  <2> QED
    BY <1>2, <1>3, <1>4, <1>5, <1>6, <1>7, <1>8, <1>10, <2>2, <2>3 DEF WalkInv
<1> QED
  BY <1>9, <1>10

LEMMA StepWalk == ASSUME Types, Types', WalkInv, [Next]_vars PROVE WalkInv'
<1>1. Ours \subseteq Ours' /\ Ours' \subseteq Ids
  BY StoreGrows DEF Types, Ours, OfTransition
<1>2. CASE UNCHANGED walkVars
  BY <1>1, <1>2 DEF walkVars, WalkInv
<1>3. CASE StartWalk
  <2>1. walk.phase = "idle" /\ walk' = [walk EXCEPT !.phase = "walking"] /\ initial' = Ours /\ runs' = runs
    BY <1>3 DEF StartWalk, storeVars
  <2>2. /\ walk'.phase = "walking" /\ walk'.seen = {} /\ walk'.cursor = NoCursor
        /\ walk'.repeated = walk.repeated
    BY <2>1 DEF Types, WalkInv
  <2>3. \A x \in Ours : ~(x <= NoCursor)
    BY <1>1, IdsAssumption DEF NoCursor
  <2> QED
    BY <1>1, <2>1, <2>2, <2>3 DEF WalkInv
<1> QED
  BY <1>2, <1>3, FetchKeepsWalk
     DEF Next, Ingestion, Publish, BindIdentity, Walk, Lookup, ReadTotals, ReadGroup, Reply,
         Follow, Failure, PageFails, TotalsFail, GroupFails, FollowFails, vars, walkVars

-----------------------------------------------------------------------------
(* The aggregate reply *)

Ci == "SIGSTORE_KEYLESS_CI"
CiOf(counts) == IF Ci \in DOMAIN counts THEN counts[Ci] ELSE 0

LookupInv ==
  /\ lookup.runs <= Cardinality(Ours)
  /\ Len(lookup.groups) <= Len(Groups)
  /\ asked.certified <= Cardinality(Ours \cap certified)
  /\ asked.findings <= Cardinality(Findings)
  /\ GroupsCoverTotals
  /\ Answered(Len(Groups)) =>
       CiOf(lookup.groups[Len(Groups)]) \in asked.certified .. Cardinality(Ours \cap certified)

LEMMA GroupsAre ==
  /\ Len(Groups) = 8 /\ DOMAIN Groups = 1 .. 8
  /\ Groups[8] = "assurance"
  /\ \A i \in 1 .. 8 : Groups[i] \in Columns \cup {"behavior", "assurance"}
  /\ \A i \in 1 .. 8 : Groups[i] = "assurance" => i = 8
BY DEF Groups, Columns

(* A group of runs counts all the evidence there is when it is read, and under
   CI the evidence with an identity; the other counts all finding rows. *)
LEMMA GroupCounts ==
  ASSUME Types, NEW i \in DOMAIN Groups
  PROVE  /\ Groups[i] # "behavior" => SumFunction(GroupBy(Groups[i])) = Cardinality(Ours)
         /\ Groups[i] = "behavior" => SumFunction(GroupBy(Groups[i])) = Cardinality(Findings)
         /\ i = Len(Groups) => CiOf(GroupBy(Groups[i])) = Cardinality(Ours \cap certified)
<1>1. IsFiniteSet(Ours) /\ Ours \subseteq Ids /\ IsFiniteSet(Findings)
  BY OursFinite, FindingsFinite DEF Types
<1> DEFINE a == [e \in Ours |-> Assurance(e)]
           k == [b \in Findings |-> FindingsOf[b[1]][b[2]]]
<1>2. /\ \A g \in Columns : SumFunction(CountBy(ColumnOf[g], Ours)) = Cardinality(Ours)
      /\ SumFunction(CountBy(k, Findings)) = Cardinality(Findings)
      /\ SumFunction(CountBy(a, Ours)) = Cardinality(Ours)
  <2>1. Ours \subseteq DOMAIN a /\ Findings \subseteq DOMAIN k
    OBVIOUS
  <2> HIDE DEF a, k
  <2>2. \A g \in Columns : Ours \subseteq DOMAIN ColumnOf[g]
    BY <1>1, AttributesAssumption
  <2> QED
    BY <1>1, <2>1, <2>2, CountsAddUp
<1>3. CiOf(CountBy(a, Ours)) = Cardinality(Ours \cap certified)
  <2> DEFINE c == CountBy(a, Ours)
  <2>1. {e \in Ours : a[e] = Ci} = Ours \cap certified
    BY DEF Assurance, Ci
  <2>2. DOMAIN c = {a[e] : e \in Ours}
    BY DEF CountBy
  <2>3. CASE Ci \in DOMAIN c
    <3>1. c[Ci] = Cardinality({e \in Ours : a[e] = Ci})
      <4> HIDE DEF a
      <4> QED
        BY <2>2, <2>3 DEF CountBy
    <3> QED
      BY <2>1, <2>3, <3>1 DEF CiOf
  <2>4. CASE Ci \notin DOMAIN c
    <3>1. {e \in Ours : a[e] = Ci} = {}
      BY <2>2, <2>4
    <3>2. Cardinality(Ours \cap certified) = 0
      BY <2>1, <3>1, FS_EmptySet
    <3> QED
      BY <2>4, <3>2 DEF CiOf
  <2> QED
    BY <2>3, <2>4
<1>4. /\ \A g \in Columns : GroupBy(g) = CountBy(ColumnOf[g], Ours)
      /\ GroupBy("behavior") = CountBy(k, Findings)
      /\ GroupBy("assurance") = CountBy(a, Ours)
      /\ "behavior" \notin Columns
  BY DEF GroupBy, Columns
<1> HIDE DEF a, k
<1>5. Groups[i] \in Columns \cup {"behavior", "assurance"} /\ (i = Len(Groups) => Groups[i] = "assurance")
  BY GroupsAre
<1> QED
  BY <1>2, <1>3, <1>4, <1>5

LEMMA InitLookup == Init => LookupInv
<1> SUFFICES ASSUME Init PROVE LookupInv
  OBVIOUS
<1>1. lookup.runs = 0 /\ lookup.groups = << >> /\ asked = [certified |-> 0, findings |-> 0]
  BY DEF Init
<1>2. /\ Cardinality(Ours) \in Nat /\ Cardinality(Ours \cap certified) \in Nat
      /\ Cardinality(Findings) \in Nat
  BY OursFinite, FindingsFinite DEF Init
<1>3. Len(lookup.groups) = 0 /\ DOMAIN lookup.groups = {} /\ Len(Groups) = 8
  BY <1>1, GroupsAre
<1>4. GroupsCoverTotals
  BY <1>3 DEF GroupsCoverTotals
<1>5. ~Answered(Len(Groups))
  BY <1>3 DEF Answered
<1> QED
  BY <1>1, <1>2, <1>3, <1>4, <1>5 DEF LookupInv

(* What later commits leave true of the groups that were read. *)
LEMMA LookupStays ==
  ASSUME Types, Types', LookupInv, [Next]_vars,
         lookup'.runs = lookup.runs, lookup'.groups = lookup.groups, asked' = asked
  PROVE  LookupInv'
<1>1. /\ Cardinality(Ours) \in Nat /\ Cardinality(Ours') \in Nat
      /\ Cardinality(Ours) <= Cardinality(Ours')
      /\ Cardinality(Ours \cap certified) \in Nat /\ Cardinality(Ours' \cap certified') \in Nat
      /\ Cardinality(Ours \cap certified) <= Cardinality(Ours' \cap certified')
      /\ Cardinality(Findings) \in Nat /\ Cardinality(Findings') \in Nat
      /\ Cardinality(Findings) <= Cardinality(Findings')
  <2>1. runs' \subseteq Ids /\ runs \subseteq Ids
    BY DEF Types
  <2>2. Ours' \subseteq runs'
    BY DEF Ours, OfTransition
  <2>3. IsFiniteSet(Ours') /\ IsFiniteSet(Ours' \cap certified')
    BY <2>1, <2>2, IdsAssumption, FS_Subset
  <2> QED
    BY <2>1, <2>3, OursFinite, FindingsFinite, StoreGrows, FS_CardinalityType
<1>2. lookup.runs \in Nat /\ asked \in [certified : Nat, findings : Nat]
  BY DEF Types
<1>3. GroupsCoverTotals'
  <2> SUFFICES ASSUME NEW i \in 1 .. Len(lookup.groups), Answered(i)
               PROVE  IF Groups[i] = "behavior" THEN Total(i) \in asked.findings .. Cardinality(Findings')
                      ELSE /\ Total(i) \in lookup.runs .. Cardinality(Ours')
                           /\ \A j \in 1 .. i : Answered(j) /\ Groups[j] # "behavior" => Total(j) <= Total(i)
    BY DEF GroupsCoverTotals, Answered, Total, Groups
  <2>1. CASE Groups[i] = "behavior"
    <3>1. Total(i) \in asked.findings .. Cardinality(Findings)
      BY <2>1 DEF LookupInv, GroupsCoverTotals
    <3> QED
      BY <1>1, <1>2, <2>1, <3>1
  <2>2. CASE Groups[i] # "behavior"
    <3>1. /\ Total(i) \in lookup.runs .. Cardinality(Ours)
          /\ \A j \in 1 .. i : Answered(j) /\ Groups[j] # "behavior" => Total(j) <= Total(i)
      BY <2>2 DEF LookupInv, GroupsCoverTotals
    <3> QED
      BY <1>1, <1>2, <2>2, <3>1
  <2> QED
    BY <2>1, <2>2
<1>4. Answered(Len(Groups))' => Answered(Len(Groups))
  BY DEF Answered, Groups
<1>5. Answered(Len(Groups))' =>
        CiOf(lookup.groups[Len(Groups)]) \in asked.certified .. Cardinality(Ours' \cap certified')
  BY <1>1, <1>2, <1>4 DEF LookupInv
<1>6. Len(lookup'.groups) <= Len(Groups)
  BY DEF LookupInv
<1>7. /\ lookup'.runs <= Cardinality(Ours') /\ asked'.certified <= Cardinality(Ours' \cap certified')
      /\ asked'.findings <= Cardinality(Findings')
  BY <1>1, <1>2 DEF LookupInv
<1> QED
  BY <1>3, <1>5, <1>6, <1>7 DEF LookupInv, Groups, CiOf

(* A query of the reply appends its counts, or Null. *)
LEMMA LookupAppends ==
  ASSUME Types, LookupInv, UNCHANGED <<runs, certified, asked>>, NextGroup <= Len(Groups),
         NEW x, lookup' = [lookup EXCEPT !.groups = Append(@, x)],
         x = Null \/ x = GroupBy(Groups[NextGroup])
  PROVE  LookupInv'
<1> DEFINE n == NextGroup
           g == lookup'.groups
<1>1. PICK R : lookup.groups \in Seq(R)
  BY DEF Types
<1>2. /\ lookup'.runs = lookup.runs /\ g = Append(lookup.groups, x)
  BY DEF Types
<1>3. /\ Len(lookup.groups) \in Nat /\ n = Len(lookup.groups) + 1 /\ Len(g) = n
      /\ DOMAIN g = 1 .. n /\ DOMAIN lookup.groups = 1 .. Len(lookup.groups)
      /\ g[n] = x /\ \A i \in 1 .. Len(lookup.groups) : g[i] = lookup.groups[i]
  BY <1>1, <1>2 DEF NextGroup
<1>4. n \in DOMAIN Groups /\ Len(Groups) = 8
  BY <1>3, GroupsAre
<1>5. x # Null => /\ Groups[n] # "behavior" => SumFunction(x) = Cardinality(Ours)
                  /\ Groups[n] = "behavior" => SumFunction(x) = Cardinality(Findings)
                  /\ n = Len(Groups) => CiOf(x) = Cardinality(Ours \cap certified)
  BY <1>4, GroupCounts
<1>6. /\ Ours' = Ours /\ Cardinality(Ours) \in Nat /\ Cardinality(Ours \cap certified) \in Nat
      /\ Findings' = Findings /\ Cardinality(Findings) \in Nat
  BY OursFinite, FindingsFinite DEF Types, Ours, OfTransition, Findings
<1>7. lookup.runs \in Nat /\ asked \in [certified : Nat, findings : Nat]
  BY DEF Types
<1>8. \A i \in 1 .. Len(lookup.groups) : Answered(i)' => Answered(i)
  BY <1>3 DEF Answered
<1> HIDE DEF n, g
<1>9. GroupsCoverTotals'
  <2> DEFINE Fits(i) ==
        IF Groups[i] = "behavior" THEN SumFunction(g[i]) \in asked.findings .. Cardinality(Findings)
        ELSE /\ SumFunction(g[i]) \in lookup.runs .. Cardinality(Ours)
             /\ \A j \in 1 .. i : Answered(j)' /\ Groups[j] # "behavior" => SumFunction(g[j]) <= SumFunction(g[i])
  <2> SUFFICES ASSUME NEW i \in 1 .. n, Answered(i)' PROVE Fits(i)
    BY <1>2, <1>3, <1>6 DEF GroupsCoverTotals, Total, g, Groups
  <2>1. \A j \in 1 .. Len(lookup.groups) : Answered(j)' => Fits(j)
    <3> SUFFICES ASSUME NEW j \in 1 .. Len(lookup.groups), Answered(j)' PROVE Fits(j)
      OBVIOUS
    <3>1. Answered(j) /\ g[j] = lookup.groups[j]
      BY <1>3, <1>8
    <3>2. \A k \in 1 .. j : Answered(k)' => Answered(k) /\ g[k] = lookup.groups[k]
      BY <1>3, <1>8
    <3> QED
      BY <3>1, <3>2 DEF LookupInv, GroupsCoverTotals, Total
  <2>2. CASE i # n
    BY <1>3, <2>1, <2>2
  <2>3. CASE i = n
    <3>1. x # Null
      BY <1>3, <2>3 DEF Answered, g
    <3>2. CASE Groups[n] = "behavior"
      <4>1. SumFunction(g[n]) = Cardinality(Findings) /\ asked.findings <= Cardinality(Findings)
        BY <1>3, <1>5, <3>1, <3>2 DEF LookupInv
      <4> QED
        BY <1>6, <1>7, <2>3, <3>2, <4>1
    <3>3. CASE Groups[n] # "behavior"
      <4>1. SumFunction(g[n]) = Cardinality(Ours) /\ lookup.runs <= Cardinality(Ours)
        BY <1>3, <1>5, <3>1, <3>3 DEF LookupInv
      <4>2. \A j \in 1 .. n : Answered(j)' /\ Groups[j] # "behavior" => SumFunction(g[j]) <= SumFunction(g[n])
        BY <1>3, <1>6, <1>7, <2>1, <4>1
      <4> QED
        BY <1>6, <1>7, <2>3, <3>3, <4>1, <4>2
    <3> QED
      BY <3>2, <3>3
  <2> QED
    BY <2>2, <2>3
<1>10. Answered(Len(Groups))' => CiOf(g[Len(Groups)]) \in asked.certified .. Cardinality(Ours \cap certified)
  <2> SUFFICES ASSUME Answered(Len(Groups))'
               PROVE  CiOf(g[Len(Groups)]) \in asked.certified .. Cardinality(Ours \cap certified)
    OBVIOUS
  <2>1. Len(Groups) \in 1 .. n /\ g[Len(Groups)] # Null
    BY <1>3 DEF Answered, g, Groups
  <2>2. Len(Groups) = n
    BY <1>3, <1>4, <2>1 DEF n
  <2> QED
    BY <1>3, <1>5, <1>6, <1>7, <2>1, <2>2 DEF LookupInv
<1> QED
  BY <1>2, <1>3, <1>4, <1>6, <1>9, <1>10 DEF LookupInv, g, n, CiOf, Groups

LEMMA StepLookup == ASSUME Types, Types', LookupInv, [Next]_vars PROVE LookupInv'
<1>1. CASE UNCHANGED lookupVars
  BY <1>1, LookupStays DEF lookupVars
<1>2. CASE ReadTotals
  <2>1. /\ lookup'.runs = Cardinality(Ours) /\ lookup'.groups = << >>
        /\ asked' = [certified |-> Cardinality(Ours \cap certified), findings |-> Cardinality(Findings)]
        /\ UNCHANGED <<runs, certified>>
    BY <1>2 DEF ReadTotals, storeVars
  <2>2. /\ Ours' = Ours /\ Cardinality(Ours) \in Nat /\ Cardinality(Ours \cap certified) \in Nat
        /\ Findings' = Findings /\ Cardinality(Findings) \in Nat
    BY <2>1, OursFinite, FindingsFinite DEF Types, Ours, OfTransition, Findings
  <2>3. Len(lookup'.groups) = 0 /\ DOMAIN lookup'.groups = {} /\ Len(Groups) = 8
    BY <2>1, GroupsAre
  <2>4. GroupsCoverTotals'
    BY <2>3 DEF GroupsCoverTotals
  <2>5. ~Answered(Len(Groups))'
    BY <2>3 DEF Answered
  <2> QED
    BY <2>1, <2>2, <2>3, <2>4, <2>5 DEF LookupInv, Groups
<1>3. CASE ReadGroup
  BY <1>3, LookupAppends DEF ReadGroup, storeVars
<1>4. CASE GroupFails
  BY <1>4, LookupAppends DEF GroupFails, storeVars
<1>5. CASE Reply \/ TotalsFail
  BY <1>5, LookupStays DEF Reply, TotalsFail, Types
<1> QED
  BY <1>1, <1>2, <1>3, <1>4, <1>5
     DEF Next, Ingestion, Publish, BindIdentity, Walk, StartWalk, FetchPage, Lookup,
         Follow, Failure, PageFails, FollowFails, vars, lookupVars

-----------------------------------------------------------------------------
(* The links *)

Named(link) ==
  \/ link = Package
  \/ \E e \in runs : link \in {Version(FromOf[e]), Version(ToOf[e]), Transition(e), Evidence(e)}

VisitInv ==
  /\ ~visit.broken
  /\ \A link \in visit.links : Named(link)
  /\ IsFiniteSet(visit.links) /\ Cardinality(visit.links) \in Nat
  /\ Cardinality(visit.links) <= 2 * Cardinality(runs) + 1

(* A page made from the name of committed evidence has rows, and names evidence
   that is committed. *)
LEMMA RowsOfNamed ==
  ASSUME NEW link, Named(link)
  PROVE  /\ link # Package => Rows(link) # {}
         /\ \A l \in LinksOf(link) : Named(l)
<1>1. CASE link = Package
  <2>1. LinksOf(link) = {Version(v) : v \in Range(Restrict(FromOf, runs)) \cup Range(Restrict(ToOf, runs))}
    BY <1>1 DEF LinksOf, Package
  <2>2. Range(Restrict(FromOf, runs)) = {FromOf[e] : e \in runs}
    BY DEF Range, Restrict
  <2>3. Range(Restrict(ToOf, runs)) = {ToOf[e] : e \in runs}
    BY DEF Range, Restrict
  <2>4. ASSUME NEW l \in LinksOf(link) PROVE \E e \in runs : l \in {Version(FromOf[e]), Version(ToOf[e])}
    BY <2>1, <2>2, <2>3
  <2> QED
    BY <1>1, <2>4 DEF Named
<1>2. ASSUME NEW e \in runs, NEW v \in {FromOf[e], ToOf[e]}, link = Version(v)
      PROVE  Rows(link) # {} /\ \A l \in LinksOf(link) : Named(l)
  <2>1. link.page = "version" /\ link.version = v
    BY <1>2 DEF Version
  <2>2. Rows(link) = OfVersion(v) /\ LinksOf(link) = {Transition(d) : d \in Rows(link)}
    BY <2>1 DEF Rows, LinksOf
  <2>3. OfVersion(v) \subseteq runs /\ e \in OfVersion(v)
    BY DEF OfVersion
  <2> QED
    BY <2>2, <2>3 DEF Named
<1>3. ASSUME NEW e \in runs, link = Transition(e)
      PROVE  Rows(link) # {} /\ \A l \in LinksOf(link) : Named(l)
  <2>1. link.page = "transition" /\ link.from = FromOf[e] /\ link.to = ToOf[e]
    BY <1>3 DEF Transition
  <2>2. /\ Rows(link) = OfTransition(link.from, link.to)
        /\ LinksOf(link) = {Evidence(d) : d \in FirstRows(Rows(link), DefaultLimit)}
    BY <2>1 DEF Rows, LinksOf
  <2>3. Rows(link) \subseteq runs /\ e \in Rows(link)
    BY <2>1, <2>2 DEF OfTransition
  <2>4. FirstRows(Rows(link), DefaultLimit) \subseteq runs
    BY <2>3 DEF FirstRows
  <2> QED
    BY <2>2, <2>3, <2>4 DEF Named
<1>4. ASSUME NEW e \in runs, link = Evidence(e)
      PROVE  Rows(link) # {} /\ \A l \in LinksOf(link) : Named(l)
  <2>1. link.page = "evidence" /\ link.id = e
    BY <1>4 DEF Evidence
  <2>2. Rows(link) = runs \cap {e} /\ LinksOf(link) = {}
    BY <2>1 DEF Rows, LinksOf
  <2> QED
    BY <2>2
<1> QED
  BY <1>1, <1>2, <1>3, <1>4 DEF Named

(* It has at most two links for each piece of evidence. *)
LEMMA LinksCounted ==
  ASSUME runs \subseteq Ids, NEW link, Named(link)
  PROVE  /\ IsFiniteSet(LinksOf(link)) /\ Cardinality(LinksOf(link)) \in Nat
         /\ Cardinality(LinksOf(link)) <= 2 * Cardinality(runs) + 1
<1> DEFINE Few(S) == /\ IsFiniteSet(S) /\ Cardinality(S) \in Nat
                     /\ Cardinality(S) <= Cardinality(runs)
<1>0. IsFiniteSet(runs) /\ Cardinality(runs) \in Nat
  BY OursFinite
<1>1. ASSUME NEW T, T \subseteq runs, NEW f, DOMAIN f = T
      PROVE  Few({f[e] : e \in T})
  <2>1. IsFiniteSet(T) /\ Cardinality(T) <= Cardinality(runs) /\ Cardinality(T) \in Nat
    BY <1>0, <1>1, FS_Subset, FS_CardinalityType
  <2>2. /\ IsFiniteSet({f[e] : e \in T}) /\ Cardinality({f[e] : e \in T}) \in Nat
        /\ Cardinality({f[e] : e \in T}) <= Cardinality(T)
    BY <1>1, <2>1, ImageBound
  <2> QED
    BY <1>0, <2>1, <2>2
<1>2. CASE link = Package
  <2> DEFINE f == [e \in runs |-> Version(FromOf[e])]
             t == [e \in runs |-> Version(ToOf[e])]
             A == {f[e] : e \in runs}
             B == {t[e] : e \in runs}
  <2>1. LinksOf(link) = {Version(v) : v \in Range(Restrict(FromOf, runs)) \cup Range(Restrict(ToOf, runs))}
    BY <1>2 DEF LinksOf, Package
  <2>2. Range(Restrict(FromOf, runs)) = {FromOf[e] : e \in runs}
    BY DEF Range, Restrict
  <2>3. Range(Restrict(ToOf, runs)) = {ToOf[e] : e \in runs}
    BY DEF Range, Restrict
  <2>4. LinksOf(link) = A \cup B
    <3>1. A = {Version(v) : v \in {FromOf[e] : e \in runs}}
      OBVIOUS
    <3>2. B = {Version(v) : v \in {ToOf[e] : e \in runs}}
      OBVIOUS
    <3> HIDE DEF A, B
    <3> QED
      BY <2>1, <2>2, <2>3, <3>1, <3>2
  <2>5. DOMAIN f = runs /\ DOMAIN t = runs
    OBVIOUS
  <2>6. Few(A) /\ Few(B)
    <3> HIDE DEF f, t, Few
    <3> QED
      BY <1>1, <2>5
  <2> HIDE DEF A, B
  <2>7. /\ Cardinality(A \cup B) = Cardinality(A) + Cardinality(B) - Cardinality(A \cap B)
        /\ Cardinality(A \cap B) \in Nat
        /\ IsFiniteSet(A \cup B)
    BY <2>6, FS_Union, FS_CardinalityType, FS_Intersection
  <2>8. Cardinality(A \cup B) \in Nat /\ Cardinality(A \cup B) <= 2 * Cardinality(runs)
    <3>1. Cardinality(A \cup B) \in Nat
      BY <2>7, FS_CardinalityType
    <3> QED
      BY <1>0, <2>6, <2>7, <3>1
  <2> QED
    BY <1>0, <2>4, <2>7, <2>8
<1>3. ASSUME NEW e \in runs, NEW v \in {FromOf[e], ToOf[e]}, link = Version(v)
      PROVE  Few(LinksOf(link))
  <2>1. link.page = "version" /\ link.version = v
    BY <1>3 DEF Version
  <2>2. LinksOf(link) = {Transition(d) : d \in OfVersion(v)} /\ OfVersion(v) \subseteq runs
    BY <2>1 DEF Rows, LinksOf, OfVersion
  <2> DEFINE f == [d \in OfVersion(v) |-> Transition(d)]
  <2>3. LinksOf(link) = {f[d] : d \in OfVersion(v)} /\ DOMAIN f = OfVersion(v)
    BY <2>2
  <2> HIDE DEF f
  <2> QED
    BY <1>1, <2>2, <2>3
<1>4. ASSUME NEW e \in runs, link = Transition(e)
      PROVE  Few(LinksOf(link))
  <2> DEFINE T == FirstRows(Rows(link), DefaultLimit)
             f == [d \in T |-> Evidence(d)]
  <2>1. link.page = "transition"
    BY <1>4 DEF Transition
  <2>2. LinksOf(link) = {Evidence(d) : d \in T} /\ Rows(link) \subseteq runs
    BY <2>1 DEF Rows, LinksOf, OfTransition
  <2>3. LinksOf(link) = {f[d] : d \in T} /\ DOMAIN f = T
    BY <2>2
  <2>4. T \subseteq runs
    BY <2>2 DEF FirstRows
  <2> HIDE DEF f, T
  <2> QED
    BY <1>1, <2>3, <2>4
<1>5. ASSUME NEW e \in runs, link = Evidence(e)
      PROVE  Few(LinksOf(link))
  <2>1. LinksOf(link) = {}
    BY <1>5 DEF Evidence, LinksOf
  <2> QED
    BY <1>0, <2>1, FS_EmptySet
<1>6. CASE \E e \in runs : link \in {Version(FromOf[e]), Version(ToOf[e]), Transition(e), Evidence(e)}
  <2>1. Few(LinksOf(link))
    <3> HIDE DEF Few
    <3> QED
      BY <1>3, <1>4, <1>5, <1>6
  <2> QED
    BY <1>0, <2>1
<1> QED
  BY <1>2, <1>6 DEF Named

LEMMA InitVisit == Init => VisitInv
<1> SUFFICES ASSUME Init PROVE VisitInv
  OBVIOUS
<1>1. visit.broken = FALSE /\ visit.links \in {{}, {Package}} /\ runs = {}
  BY DEF Init
<1>2. Cardinality(runs) = 0
  BY <1>1, FS_EmptySet
<1>3. IsFiniteSet(visit.links) /\ Cardinality(visit.links) \in {0, 1}
  <2>1. IsFiniteSet({}) /\ Cardinality({}) = 0
    BY FS_EmptySet
  <2>2. IsFiniteSet({Package}) /\ Cardinality({Package}) = 1
    BY FS_Singleton
  <2>3. CASE visit.links = {}
    BY <2>1, <2>3
  <2>4. CASE visit.links = {Package}
    BY <2>2, <2>4
  <2> QED
    BY <1>1, <2>3, <2>4
<1>4. Cardinality(visit.links) \in Nat /\ Cardinality(visit.links) <= 2 * Cardinality(runs) + 1
  BY <1>2, <1>3
<1>5. \A link \in visit.links : Named(link)
  BY <1>1 DEF Named
<1> QED
  BY <1>1, <1>3, <1>4, <1>5 DEF VisitInv

LEMMA StepVisit == ASSUME Types, Types', VisitInv, [Next]_vars PROVE VisitInv'
<1>1. runs \subseteq runs' /\ Cardinality(runs) <= Cardinality(runs')
  BY StoreGrows DEF Types
<1>2. CASE visit' = visit
  <2>1. \A link \in visit.links : Named(link)'
    BY <1>1 DEF VisitInv, Named, Version, Transition, Evidence, Package
  <2>2. Cardinality(runs) \in Nat /\ Cardinality(runs') \in Nat
    <3>1. IsFiniteSet(runs')
      BY IdsAssumption, FS_Subset DEF Types
    <3> QED
      BY <3>1, OursFinite, FS_CardinalityType DEF Types
  <2>3. Cardinality(visit.links) <= 2 * Cardinality(runs') + 1
    BY <1>1, <2>2 DEF VisitInv
  <2> QED
    BY <1>2, <2>1, <2>3 DEF VisitInv
<1>3. CASE Follow
  <2>1. PICK link \in visit.links :
          /\ link = Package => runs # {}
          /\ visit' = [links |-> LinksOf(link), broken |-> Rows(link) = {}]
    BY <1>3 DEF Follow
  <2>2. Named(link) /\ runs' = runs /\ runs \subseteq Ids
    BY <1>3, <2>1 DEF Follow, storeVars, VisitInv, Types
  <2>3. Rows(link) # {}
    <3>1. Rows(Package) = runs
      BY DEF Rows, Package
    <3> QED
      BY <2>1, <2>2, <3>1, RowsOfNamed
  <2>4. \A l \in LinksOf(link) : Named(l)
    BY <2>2, RowsOfNamed
  <2>5. \A l \in LinksOf(link) : Named(l)'
    BY <2>2, <2>4 DEF Named, Version, Transition, Evidence, Package
  <2>6. /\ IsFiniteSet(LinksOf(link)) /\ Cardinality(LinksOf(link)) \in Nat
        /\ Cardinality(LinksOf(link)) <= 2 * Cardinality(runs) + 1
    BY <2>2, LinksCounted
  <2>7. visit'.links = LinksOf(link) /\ visit'.broken = FALSE
    BY <2>1, <2>3
  <2> QED
    BY <2>2, <2>5, <2>6, <2>7 DEF VisitInv
<1> QED
  BY <1>2, <1>3
     DEF Next, Ingestion, Publish, BindIdentity, Walk, StartWalk, FetchPage, Lookup, ReadTotals, ReadGroup,
         Reply, Failure, PageFails, TotalsFail, GroupFails, FollowFails, vars

-----------------------------------------------------------------------------
(* Theorems *)

IInv == Types /\ WalkInv /\ LookupInv /\ VisitInv

LEMMA Inductive == Spec => []IInv
<1>1. Init => IInv
  BY InitTypes, InitWalk, InitLookup, InitVisit DEF IInv
<1>2. IInv /\ [Next]_vars => IInv'
  BY StepTypes, StepWalk, StepLookup, StepVisit DEF IInv
<1> QED
  BY <1>1, <1>2, PTL DEF Spec

(* A walk's cursor is a row it received, what it received is evidence of its
   transition, an aggregate is never asked of more groups than there are, and a
   page has at most two links for each piece of evidence. *)
THEOREM TypeCorrect == Spec => []TypeOK
<1>1. ASSUME IInv PROVE TypeOK
  <2>1. /\ Cardinality(Ours \cap certified) \in Nat /\ Cardinality(Findings) \in Nat
        /\ asked \in [certified : Nat, findings : Nat]
    BY <1>1, OursFinite, FindingsFinite DEF IInv, Types
  <2>2. asked \in [certified : 0 .. Cardinality(Ours \cap certified), findings : 0 .. Cardinality(Findings)]
    BY <1>1, <2>1 DEF IInv, LookupInv
  <2>3. /\ walk.phase \in {"absent", "idle", "walking", "done"}
        /\ walk.limit \in Limits \cup {NoLimit} /\ walk.repeated \in BOOLEAN
    BY <1>1 DEF IInv, Types
  <2> QED
    BY <1>1, <2>2, <2>3 DEF IInv, Types, WalkInv, LookupInv, VisitInv, TypeOK
<1> QED
  BY <1>1, Inductive, PTL

(* However many rows are committed between two pages and whatever page size is
   asked for, a walk returns no row twice and, at its end, every row that was
   there when it began. *)
THEOREM WalksComplete == Spec => []WalkComplete
<1>1. IInv => WalkComplete
  BY DEF IInv, WalkInv, WalkComplete
<1> QED
  BY <1>1, Inductive, PTL

(* The seven groups of runs of one reply account for at least the runs of the
   totals and of the groups of runs before them, and for committed runs only;
   behaviorFindings, which counts findings, for at least those of the runs of
   the totals, and for findings of committed runs only. *)
THEOREM GroupsCovered == Spec => []GroupsCoverTotals
<1>1. IInv => GroupsCoverTotals
  BY DEF IInv, LookupInv
<1> QED
  BY <1>1, Inductive, PTL

(* The assurance group counts as CI identities those bound when it was read:
   all that were when the request began, and none that are not. *)
THEOREM AssuranceProved == Spec => []AssuranceIsVerified
<1>1. IInv => AssuranceIsVerified
  BY DEF IInv, LookupInv, AssuranceIsVerified, CiOf, Ci
<1> QED
  BY <1>1, Inductive, PTL

(* A link that a page gave never breaks: what it was made from stays. *)
THEOREM LinksProved == Spec => []LinksResolve
<1>1. IInv => LinksResolve
  BY DEF IInv, VisitInv, LinksResolve
<1> QED
  BY <1>1, Inductive, PTL
=============================================================================
