-------------------------- MODULE TeamworkMailProofs --------------------------
(***************************************************************************)
(* The inboxes and mailboxes of Teamwork, its locks and its types, over    *)
(* the invariants of TeamworkProofs.                                       *)
(*                                                                         *)
(*   Boxed     an inbox lists each alert once, with no more claimed than   *)
(*             there is                                                    *)
(*   Claiming  of what is claimed a discussion has the claim               *)
(*   Keyed     active_wakeups are the wakeups of the discussions there are *)
(*   Posted    the types of the delivery states                            *)
(*   DraftLocks  a draft has one holder                                    *)
(*   Informing  whoever is invited has been told, and will have been after *)
(*             every rollback that may come                                *)
(*   Mailing   what an operation writes in mailboxes, and copies, with a   *)
(*             lemma for each operation                                    *)
(***************************************************************************)
EXTENDS TeamworkProofs

-----------------------------------------------------------------------------
(* Inboxes. *)

Rank(S, j) == Cardinality({i \in S : i <= j})

LEMMA RankType ==
    ASSUME NEW N \in Nat, NEW S \in SUBSET (1..N), NEW j \in S
    PROVE  Rank(S, j) \in 1..Cardinality(S)
<1>1. IsFiniteSet(1..N)
  BY FS_Interval
<1>2. IsFiniteSet(S)
  BY <1>1, FS_Subset
<1>3. {i \in S : i <= j} \in SUBSET S /\ j \in {i \in S : i <= j}
  OBVIOUS
<1>4. /\ IsFiniteSet({i \in S : i <= j})
      /\ Cardinality({i \in S : i <= j}) <= Cardinality(S)
  BY <1>2, <1>3, FS_Subset
<1>5. Cardinality({i \in S : i <= j}) \in Nat /\ Cardinality({i \in S : i <= j}) # 0
  BY <1>3, <1>4, FS_CardinalityType, FS_EmptySet
<1>6. Cardinality(S) \in Nat
  BY <1>2, FS_CardinalityType
<1> QED
  BY <1>4, <1>5, <1>6 DEF Rank

LEMMA RankGrows ==
    ASSUME NEW N \in Nat, NEW S \in SUBSET (1..N), NEW j \in S, NEW k \in S, j < k
    PROVE  Rank(S, j) < Rank(S, k)
<1>1. IsFiniteSet(1..N)
  BY FS_Interval
<1>2. IsFiniteSet(S)
  BY <1>1, FS_Subset
<1> DEFINE J == {i \in S : i <= j}
           K == {i \in S : i <= k}
<1>3. J \in SUBSET K /\ k \in K /\ k \notin J /\ K \in SUBSET S
  <2>1. k \in Int /\ j \in Int
    OBVIOUS
  <2>2. J \in SUBSET K /\ K \in SUBSET S
    <3>1. \A i \in S : i \in Int /\ (i <= j => i <= k)
      BY <2>1
    <3>2. \A i \in J : i \in K
      BY <3>1
    <3> QED
      BY <3>2
  <2>3. k \in K /\ k \notin J
    BY <2>1
  <2> QED
    BY <2>2, <2>3
<1> HIDE DEF J, K
<1>4. IsFiniteSet(K)
  BY <1>2, <1>3, FS_Subset
<1>5. IsFiniteSet(J) /\ Cardinality(J) <= Cardinality(K) /\ Cardinality(J) # Cardinality(K)
  BY <1>3, <1>4, FS_Subset
<1>6. Cardinality(J) \in Nat /\ Cardinality(K) \in Nat
  BY <1>4, <1>5, FS_CardinalityType
<1>7. Cardinality(J) < Cardinality(K)
  BY <1>5, <1>6
<1> QED
  BY <1>7 DEF J, K, Rank

\* Every number up to their count is the rank of some place.
LEMMA RankOnto ==
    ASSUME NEW N \in Nat, NEW S \in SUBSET (1..N), NEW n \in 1..Cardinality(S)
    PROVE  \E j \in S : Rank(S, j) = n
<1> DEFINE f == [j \in S |-> Rank(S, j)]
           T == 1..Cardinality(S)
<1>0. IsFiniteSet(S) /\ Cardinality(S) \in Nat
  <2>1. IsFiniteSet(1..N)
    BY FS_Interval
  <2>2. IsFiniteSet(S)
    BY <2>1, FS_Subset
  <2> QED
    BY <2>2, FS_CardinalityType
<1>1. IsFiniteSet(T) /\ Cardinality(T) = Cardinality(S)
  BY <1>0, FS_Interval
<1>2. \A j \in S : Rank(S, j) \in T
  BY RankType
<1>3. \A j, k \in S : Rank(S, j) = Rank(S, k) => j = k
  <2> SUFFICES ASSUME NEW j \in S, NEW k \in S, j # k PROVE Rank(S, j) # Rank(S, k)
    OBVIOUS
  <2>1. Rank(S, j) \in Int /\ Rank(S, k) \in Int
    BY <1>2
  <2>2. CASE j < k
    <3>1. Rank(S, j) < Rank(S, k)
      BY <2>2, RankGrows
    <3> QED
      BY <2>1, <3>1
  <2>3. CASE k < j
    <3>1. Rank(S, k) < Rank(S, j)
      BY <2>3, RankGrows
    <3> QED
      BY <2>1, <3>1
  <2> QED
    BY <2>2, <2>3
<1>4. f \in Injection(S, T)
  <2>1. f \in [S -> T]
    BY <1>2
  <2>2. IsInjective(f)
    BY <1>3 DEF IsInjective
  <2> QED
    BY <2>1, <2>2 DEF Injection
<1>5. f \in Surjection(S, T)
  <2> HIDE DEF f, T
  <2> QED
    BY <1>1, <1>4, FS_Injection
<1>6. \E j \in S : f[j] = n
  BY <1>5 DEF Surjection
<1> QED
  BY <1>6

LEMMA NthFacts ==
    ASSUME NEW N \in Nat, NEW S \in SUBSET (1..N)
    PROVE  /\ \A n \in 1..Cardinality(S) : Nth(S, n) \in S /\ Rank(S, Nth(S, n)) = n
           /\ \A j \in S : \E n \in 1..Cardinality(S) : Nth(S, n) = j
<1>1. ASSUME NEW n \in 1..Cardinality(S)
      PROVE  Nth(S, n) \in S /\ Rank(S, Nth(S, n)) = n
  <2>1. \E j \in S : Cardinality({i \in S : i <= j}) = n
    BY RankOnto DEF Rank
  <2> QED
    BY <2>1 DEF Nth, Rank
<1>2. ASSUME NEW j \in S
      PROVE  \E n \in 1..Cardinality(S) : Nth(S, n) = j
  <2>1. PICK n \in 1..Cardinality(S) : n = Rank(S, j)
    BY RankType
  <2>2. PICK k : k = Nth(S, n)
    OBVIOUS
  <2>3. k \in S /\ Rank(S, k) = Rank(S, j)
    BY <1>1, <2>1, <2>2
  <2>4. ~(k < j) /\ ~(j < k)
    <3>1. Rank(S, j) \in Int
      BY <2>1
    <3>2. ASSUME k < j PROVE FALSE
      <4>1. Rank(S, k) < Rank(S, j)
        BY <2>3, <3>2, RankGrows
      <4> QED
        BY <2>3, <3>1, <4>1
    <3>3. ASSUME j < k PROVE FALSE
      <4>1. Rank(S, j) < Rank(S, k)
        BY <2>3, <3>3, RankGrows
      <4> QED
        BY <2>3, <3>1, <4>1
    <3> QED
      BY <3>2, <3>3
  <2>5. k = j
    BY <2>3, <2>4
  <2> QED
    BY <2>2, <2>5
<1> QED
  BY <1>1, <1>2

\* What an inbox keeps it keeps in its order.
LEMMA KeptFacts ==
    ASSUME NEW E, NEW box \in Seq(E), NEW S \in SUBSET (DOMAIN box), NEW r, r = Kept(box, S)
    PROVE  /\ r \in Seq(E)
           /\ \A n \in DOMAIN r : \E j \in S : r[n] = box[j]
           /\ \A j \in S : \E n \in DOMAIN r : r[n] = box[j]
           /\ \A n, m \in DOMAIN r : n # m =>
                \E i, j \in S : i # j /\ r[n] = box[i] /\ r[m] = box[j]
<1>1. Len(box) \in Nat /\ S \in SUBSET (1..Len(box)) /\ DOMAIN box = 1..Len(box)
  OBVIOUS
<1>2. IsFiniteSet(S)
  <2>1. IsFiniteSet(1..Len(box))
    BY <1>1, FS_Interval
  <2> QED
    BY <1>1, <2>1, FS_Subset
<1>3. Cardinality(S) \in Nat
  BY <1>2, FS_CardinalityType
<1>4. r = [n \in 1..Cardinality(S) |-> box[Nth(S, n)]]
  BY DEF Kept
<1>5. DOMAIN r = 1..Cardinality(S)
  BY <1>4
<1>6. \A n \in DOMAIN r : r[n] = box[Nth(S, n)] /\ Nth(S, n) \in S /\ Rank(S, Nth(S, n)) = n
  BY <1>1, <1>4, NthFacts
<1>7. \A j \in S : \E n \in DOMAIN r : r[n] = box[j]
  <2> TAKE j \in S
  <2>1. PICK n \in 1..Cardinality(S) : Nth(S, n) = j
    BY <1>1, NthFacts
  <2> QED
    BY <1>4, <2>1
<1>8. r \in Seq(E)
  <2>1. \A n \in 1..Cardinality(S) : r[n] \in E
    BY <1>1, <1>5, <1>6
  <2>2. r \in [1..Cardinality(S) -> E]
    BY <1>4, <2>1
  <2> QED
    BY <1>3, <2>2
<1>9. ASSUME NEW n \in DOMAIN r, NEW m \in DOMAIN r, n # m
      PROVE  Nth(S, n) # Nth(S, m)
  BY <1>6, <1>9
<1> QED
  BY <1>6, <1>7, <1>8, <1>9

\* An inbox lists each alert once; only alerts of lasting kinds are claimed.
Entries == {x \in [id : Alert, count : Nat, claimed : Nat] :
              /\ x.count > 0 /\ x.claimed <= x.count
              /\ x.id[1] \notin Durable => x.claimed = 0}

Box(b) ==
    /\ b \in Seq(Entries)
    /\ \A i, j \in DOMAIN b : i # j /\ b[i].id = b[j].id => b[i].id[1] \notin Durable

LEMMA ClaimField ==
    ASSUME NEW x \in Entries, NEW v \in Nat, v <= x.count, x.id[1] \in Durable \/ v = 0
    PROVE  LET y == [x EXCEPT !.claimed = v] IN
             y \in Entries /\ y.id = x.id /\ y.count = x.count /\ y.claimed = v
BY DEF Entries

LEMMA CountField ==
    ASSUME NEW x \in Entries
    PROVE  LET y == [x EXCEPT !.count = @ + 1] IN
             y \in Entries /\ y.id = x.id /\ y.count = x.count + 1 /\ y.claimed = x.claimed
BY DEF Entries

LEMMA KeptBox ==
    ASSUME NEW b, Box(b), NEW g \in Seq(Entries), DOMAIN g = DOMAIN b,
           \A j \in DOMAIN b : g[j].id = b[j].id,
           NEW S \in SUBSET (DOMAIN b), NEW c, c = Kept(g, S)
    PROVE  /\ Box(c)
           /\ \A n \in DOMAIN c : \E j \in S : c[n] = g[j]
           /\ \A j \in S : \E n \in DOMAIN c : c[n] = g[j]
<1>1. S \in SUBSET (DOMAIN g)
  OBVIOUS
<1>2. /\ c \in Seq(Entries)
      /\ \A n \in DOMAIN c : \E j \in S : c[n] = g[j]
      /\ \A j \in S : \E n \in DOMAIN c : c[n] = g[j]
      /\ \A n, m \in DOMAIN c : n # m => \E i, j \in S : i # j /\ c[n] = g[i] /\ c[m] = g[j]
  BY <1>1, KeptFacts
<1>3. ASSUME NEW n \in DOMAIN c, NEW m \in DOMAIN c, n # m, c[n].id = c[m].id
      PROVE  c[n].id[1] \notin Durable
  <2>1. PICK i \in S : \E j \in S : i # j /\ c[n] = g[i] /\ c[m] = g[j]
    BY <1>2, <1>3
  <2>2. PICK j \in S : i # j /\ c[n] = g[i] /\ c[m] = g[j]
    BY <2>1
  <2>3. b[i].id = c[n].id /\ b[j].id = c[m].id /\ i \in DOMAIN b /\ j \in DOMAIN b
    BY <2>2
  <2> QED
    BY <1>3, <2>2, <2>3 DEF Box
<1> QED
  BY <1>2, <1>3 DEF Box

\* prepare_inbox_context claims what is pending, and drops what is not durable.
LEMMA ClaimedFacts ==
    ASSUME NEW b, Box(b), NEW c, c = Claimed(b)
    PROVE  /\ Box(c)
           /\ \A n \in DOMAIN c : \E j \in DOMAIN b :
                /\ b[j].id = c[n].id /\ b[j].count = c[n].count
                /\ c[n].claimed = IF b[j].claimed = 0 THEN b[j].count ELSE b[j].claimed
                /\ b[j].id[1] \in Durable
           /\ \A j \in DOMAIN b : b[j].id[1] \in Durable => \E n \in DOMAIN c :
                /\ b[j].id = c[n].id /\ b[j].count = c[n].count /\ c[n].claimed > 0
<1> DEFINE claimed(x) == IF x.claimed = 0 THEN [x EXCEPT !.claimed = x.count] ELSE x
           g == [j \in DOMAIN b |-> IF b[j].id[1] \in Durable THEN claimed(b[j]) ELSE b[j]]
           h == [j \in DOMAIN b |-> claimed(b[j])]
           S == {j \in DOMAIN b : b[j].id[1] \in Durable}
<1>1. c = Kept(h, S)
  BY DEF Claimed
<1>2. ASSUME NEW x \in Entries, x.id[1] \in Durable
      PROVE  /\ claimed(x) \in Entries /\ claimed(x).id = x.id /\ claimed(x).count = x.count
             /\ claimed(x).claimed = IF x.claimed = 0 THEN x.count ELSE x.claimed
  <2>1. x.count \in Nat /\ x.count <= x.count
    BY DEF Entries
  <2>2. LET y == [x EXCEPT !.claimed = x.count] IN
          y \in Entries /\ y.id = x.id /\ y.count = x.count /\ y.claimed = x.count
    BY <1>2, <2>1, ClaimField
  <2> QED
    BY <2>2
<1>3. \A j \in DOMAIN b : b[j] \in Entries
  BY DEF Box
<1> DEFINE e(j) == IF b[j].id[1] \in Durable THEN claimed(b[j]) ELSE b[j]
<1>4. \A j \in DOMAIN b : e(j) \in Entries /\ e(j).id = b[j].id
  BY <1>2, <1>3
<1>5. g \in Seq(Entries) /\ DOMAIN g = DOMAIN b /\ \A j \in DOMAIN b : g[j].id = b[j].id
  <2>1. DOMAIN b = 1..Len(b) /\ Len(b) \in Nat
    BY DEF Box
  <2>2. g = [j \in 1..Len(b) |-> e(j)]
    BY <2>1
  <2> HIDE DEF e, g
  <2> QED
    BY <1>4, <2>1, <2>2
<1>6. Kept(h, S) = Kept(g, S)
  <2>1. \A n \in 1..Cardinality(S) : h[Nth(S, n)] = g[Nth(S, n)]
    <3> TAKE n \in 1..Cardinality(S)
    <3>1. Len(b) \in Nat /\ S \in SUBSET (1..Len(b))
      BY DEF Box
    <3>2. Nth(S, n) \in S
      <4> HIDE DEF S
      <4> QED
        BY <3>1, NthFacts
    <3> QED
      BY <3>2
  <2> HIDE DEF g, h, S
  <2> QED
    BY <2>1 DEF Kept
<1>7. S \in SUBSET (DOMAIN b)
  OBVIOUS
<1>8. /\ Box(c)
      /\ \A n \in DOMAIN c : \E j \in S : c[n] = g[j]
      /\ \A j \in S : \E n \in DOMAIN c : c[n] = g[j]
  <2> HIDE DEF g, h, S
  <2> QED
    BY <1>1, <1>5, <1>6, <1>7, KeptBox
<1>9. \A j \in S : /\ g[j].id = b[j].id /\ g[j].count = b[j].count /\ b[j].id[1] \in Durable
                   /\ g[j].claimed = IF b[j].claimed = 0 THEN b[j].count ELSE b[j].claimed
  <2> TAKE j \in S
  <2>1. j \in DOMAIN b /\ b[j].id[1] \in Durable /\ g[j] = claimed(b[j]) /\ b[j] \in Entries
    BY <1>3
  <2> HIDE DEF g, claimed
  <2> QED
    BY <1>2, <2>1
<1>10. \A n \in DOMAIN c : \E j \in DOMAIN b :
                /\ b[j].id = c[n].id /\ b[j].count = c[n].count
                /\ c[n].claimed = IF b[j].claimed = 0 THEN b[j].count ELSE b[j].claimed
                /\ b[j].id[1] \in Durable
  <2> HIDE DEF g
  <2> QED
    BY <1>8, <1>9
<1>11. ASSUME NEW j \in DOMAIN b, b[j].id[1] \in Durable
       PROVE  \E n \in DOMAIN c : b[j].id = c[n].id /\ b[j].count = c[n].count /\ c[n].claimed > 0
  <2>1. j \in S
    BY <1>11
  <2>2. PICK n \in DOMAIN c : c[n] = g[j]
    BY <1>8, <2>1
  <2>3. b[j].count > 0 /\ b[j].claimed \in Nat
    BY <1>3 DEF Entries
  <2> HIDE DEF g, S
  <2> QED
    BY <1>9, <2>1, <2>2, <2>3
<1> QED
  BY <1>8, <1>10, <1>11

\* finish_processing: what has been handled goes, the rest is pending.
LEMMA ReleasedFacts ==
    ASSUME NEW b, Box(b), NEW ids, NEW ok \in BOOLEAN, NEW c, c = Released(b, ids, ok)
    PROVE  /\ Box(c)
           /\ \A n \in DOMAIN c : \E j \in DOMAIN b :
                /\ b[j].id = c[n].id /\ b[j].count = c[n].count
                /\ c[n].claimed = IF b[j].id \in ids THEN 0 ELSE b[j].claimed
           /\ \A j \in DOMAIN b :
                b[j].id \notin ids \/ ~ok \/ (b[j].claimed > 0 /\ b[j].count > b[j].claimed) =>
                  \E n \in DOMAIN c :
                    /\ b[j].id = c[n].id /\ b[j].count = c[n].count
                    /\ c[n].claimed = IF b[j].id \in ids THEN 0 ELSE b[j].claimed
<1> DEFINE released(x) == IF x.id \in ids THEN [x EXCEPT !.claimed = 0] ELSE x
           again(x) == x.claimed > 0 /\ x.count > x.claimed
           g == [j \in DOMAIN b |-> released(b[j])]
           S == {j \in DOMAIN b : b[j].id \notin ids \/ ~ok \/ again(b[j])}
<1>1. c = Kept(g, S)
  BY DEF Released
<1>2. ASSUME NEW x \in Entries
      PROVE  /\ released(x) \in Entries /\ released(x).id = x.id /\ released(x).count = x.count
             /\ released(x).claimed = IF x.id \in ids THEN 0 ELSE x.claimed
  <2>1. 0 <= x.count
    BY DEF Entries
  <2>2. LET y == [x EXCEPT !.claimed = 0] IN
          y \in Entries /\ y.id = x.id /\ y.count = x.count /\ y.claimed = 0
    BY <2>1, ClaimField
  <2> QED
    BY <2>2
<1>3. \A j \in DOMAIN b : b[j] \in Entries
  BY DEF Box
<1>5. g \in Seq(Entries) /\ DOMAIN g = DOMAIN b
  <2>1. DOMAIN b = 1..Len(b) /\ Len(b) \in Nat
    BY DEF Box
  <2>2. \A j \in DOMAIN b : released(b[j]) \in Entries
    BY <1>2, <1>3
  <2> HIDE DEF released
  <2> QED
    BY <2>1, <2>2
<1>7. S \in SUBSET (DOMAIN b)
  OBVIOUS
<1>9. \A j \in DOMAIN b : /\ g[j].id = b[j].id /\ g[j].count = b[j].count
                          /\ g[j].claimed = IF b[j].id \in ids THEN 0 ELSE b[j].claimed
  <2> TAKE j \in DOMAIN b
  <2>1. g[j] = released(b[j]) /\ b[j] \in Entries
    BY <1>3
  <2> HIDE DEF g, released
  <2> QED
    BY <1>2, <2>1
<1>8. /\ Box(c)
      /\ \A n \in DOMAIN c : \E j \in S : c[n] = g[j]
      /\ \A j \in S : \E n \in DOMAIN c : c[n] = g[j]
  <2> HIDE DEF g, S
  <2> QED
    BY <1>1, <1>5, <1>7, <1>9, KeptBox
<1>10. \A j \in DOMAIN b : b[j].id \notin ids \/ ~ok \/ (b[j].claimed > 0 /\ b[j].count > b[j].claimed) => j \in S
  OBVIOUS
<1> HIDE DEF g, S
<1> QED
  BY <1>7, <1>8, <1>9, <1>10

LEMMA KeptSelf ==
    ASSUME NEW b, Box(b), NEW S \in SUBSET (DOMAIN b), NEW c, c = Kept(b, S)
    PROVE  /\ Box(c)
           /\ \A n \in DOMAIN c : \E j \in S : c[n] = b[j]
           /\ \A j \in S : \E n \in DOMAIN c : c[n] = b[j]
<1>2. b \in Seq(Entries)
  BY DEF Box
<1>x. /\ c \in Seq(Entries)
      /\ \A n \in DOMAIN c : \E j \in S : c[n] = b[j]
      /\ \A j \in S : \E n \in DOMAIN c : c[n] = b[j]
      /\ \A n, m \in DOMAIN c : n # m => \E i, j \in S : i # j /\ c[n] = b[i] /\ c[m] = b[j]
  BY <1>2, KeptFacts
<1>y. ASSUME NEW n \in DOMAIN c, NEW m \in DOMAIN c, n # m, c[n].id = c[m].id
      PROVE  c[n].id[1] \notin Durable
  <2>1. PICK i \in S : \E j \in S : i # j /\ c[n] = b[i] /\ c[m] = b[j]
    BY <1>x, <1>y
  <2>2. PICK j \in S : i # j /\ c[n] = b[i] /\ c[m] = b[j]
    BY <2>1
  <2>3. i \in DOMAIN b /\ j \in DOMAIN b
    OBVIOUS
  <2> QED
    BY <1>y, <2>2, <2>3 DEF Box
<1> QED
  BY <1>x, <1>y DEF Box

\* A box after alerts have come: none is lost, and no claim.
Grown(b, c) ==
    /\ \A n \in DOMAIN c : c[n].claimed = 0 \/ \E j \in DOMAIN b :
         b[j].id = c[n].id /\ b[j].claimed = c[n].claimed
    /\ \A j \in DOMAIN b : \E n \in DOMAIN c :
         c[n].id = b[j].id /\ c[n].claimed = b[j].claimed /\ c[n].count >= b[j].count

LEMMA GrownSelf == ASSUME NEW b, Box(b) PROVE Grown(b, b)
<1>1. \A j \in DOMAIN b : b[j].count >= b[j].count
  BY DEF Box, Entries
<1> QED
  BY <1>1 DEF Grown

LEMMA ReceivedFacts ==
    ASSUME NEW a, Box(a), NEW b, Box(b), Grown(a, b), NEW id \in Alert, NEW c, c = Received(b, id)
    PROVE  Box(c) /\ Grown(a, c)
<1>0. DOMAIN b = 1..Len(b) /\ Len(b) \in Nat /\ \A j \in DOMAIN b : b[j] \in Entries
  BY DEF Box
<1>x. \A x \in Entries : x.count \in Nat
  BY DEF Entries
<1>1. CASE id[1] \in Durable /\ \E x \in ToSet(b) : x.id = id
  <2> DEFINE e(j) == IF b[j].id = id THEN [b[j] EXCEPT !.count = @ + 1] ELSE b[j]
  <2>1. c = [j \in 1..Len(b) |-> e(j)]
    BY <1>0, <1>1 DEF Received
  <2>2. \A j \in DOMAIN b : /\ e(j) \in Entries /\ e(j).id = b[j].id /\ e(j).claimed = b[j].claimed
                            /\ e(j).count >= b[j].count
    <3> TAKE j \in DOMAIN b
    <3>1. LET y == [b[j] EXCEPT !.count = @ + 1] IN
            y \in Entries /\ y.id = b[j].id /\ y.count = b[j].count + 1 /\ y.claimed = b[j].claimed
      BY <1>0, CountField
    <3> QED
      BY <1>0, <1>x, <3>1
  <2> HIDE DEF e
  <2>3. DOMAIN c = DOMAIN b /\ c \in Seq(Entries) /\ \A j \in DOMAIN b : c[j] = e(j)
    BY <1>0, <2>1, <2>2
  <2>4. Box(c)
    BY <2>2, <2>3, SMTT(20) DEF Box
  <2>5. Grown(a, c)
    <3>1. \A i \in DOMAIN a : \A j \in DOMAIN b : a[i].count \in Nat /\ e(j).count \in Nat /\ b[j].count \in Nat
      BY <1>0, <1>x, <2>2 DEF Box
    <3>2. \A i \in DOMAIN a : \A j \in DOMAIN b : b[j].count >= a[i].count => e(j).count >= a[i].count
      BY <2>2, <3>1
    <3> QED
      BY <2>2, <2>3, <3>2 DEF Grown
  <2> QED
    BY <2>4, <2>5, SMTT(30)
<1>2. CASE ~(id[1] \in Durable /\ \E x \in ToSet(b) : x.id = id)
  <2> DEFINE x == [id |-> id, count |-> 1, claimed |-> 0]
  <2>1. c = Append(b, x)
    BY <1>2 DEF Received
  <2>2. x \in Entries /\ x.id = id /\ x.claimed = 0
    BY DEF Entries
  <2> HIDE DEF x
  <2>3. /\ c \in Seq(Entries) /\ DOMAIN c = 1..(Len(b) + 1)
        /\ \A j \in DOMAIN b : c[j] = b[j] /\ j \in DOMAIN c
        /\ c[Len(b) + 1] = x /\ \A n \in DOMAIN c : n \in DOMAIN b \/ n = Len(b) + 1
    BY <1>0, <2>1, <2>2 DEF Box
  <2>4. id[1] \in Durable => \A j \in DOMAIN b : b[j].id # id
    BY <1>2 DEF ToSet
  <2>5. Box(c)
    <3> SUFFICES ASSUME NEW i \in DOMAIN c, NEW j \in DOMAIN c, i # j, c[i].id = c[j].id
                 PROVE  c[i].id[1] \notin Durable
      BY <2>3 DEF Box
    <3>1. CASE i \in DOMAIN b /\ j \in DOMAIN b
      BY <2>3, <3>1 DEF Box
    <3>2. CASE i = Len(b) + 1 \/ j = Len(b) + 1
      BY <2>2, <2>3, <2>4, <3>2
    <3> QED
      BY <2>3, <3>1, <3>2
  <2>6. Grown(a, c)
    <3>1. \A n \in DOMAIN c : c[n].claimed = 0 \/ \E j \in DOMAIN a :
            a[j].id = c[n].id /\ a[j].claimed = c[n].claimed
      BY <2>2, <2>3 DEF Grown
    <3>2. \A j \in DOMAIN a : \E n \in DOMAIN c :
            c[n].id = a[j].id /\ c[n].claimed = a[j].claimed /\ c[n].count >= a[j].count
      BY <2>3 DEF Grown
    <3> QED
      BY <3>1, <3>2 DEF Grown
  <2> QED
    BY <2>5, <2>6
<1> QED
  BY <1>1, <1>2

LEMMA KindsFinite == ASSUME NEW A \in SUBSET Kinds PROVE IsFiniteSet(A)
<1>1. IsFiniteSet({}) /\ IsFiniteSet({} \cup {"unknown"})
  BY FS_EmptySet, FS_AddElement
<1>2. IsFiniteSet({} \cup {"unknown"} \cup {"degraded"})
  BY <1>1, FS_AddElement
<1>3. IsFiniteSet({} \cup {"unknown"} \cup {"degraded"} \cup {"failure"})
  BY <1>2, FS_AddElement
<1>4. Kinds = {} \cup {"unknown"} \cup {"degraded"} \cup {"failure"}
  BY DEF Kinds, Durable
<1>5. IsFiniteSet(Kinds)
  BY <1>3, <1>4, Zenon
<1> QED
  BY <1>5, FS_Subset

\* A report brings alerts of several kinds.
Reported(a, t, A) == FoldSet(LAMBDA k, box : Received(box, <<k, t>>), a, A)

LEMMA ToldFacts ==
    ASSUME NEW a, Box(a), NEW t \in Scopes, NEW A \in SUBSET Kinds
    PROVE  Box(Reported(a, t, A)) /\ Grown(a, Reported(a, t, A))
<1> DEFINE D == {c \in Seq(Entries) : Box(c) /\ Grown(a, c)}
           op(k, box) == Received(box, <<k, t>>)
           step == [z \in A \X D |-> op(z[1], z[2])]
           done == FoldSet(op, a, A)
<1>1. IsFiniteSet(A)
  BY KindsFinite
<1>2. a \in D
  BY GrownSelf DEF Box
<1>3. step \in [A \X D -> D]
  <2>1. ASSUME NEW k \in A, NEW b \in D PROVE op(k, b) \in D
    <3>1. <<k, t>> \in Alert
      BY DEF Alert
    <3>2. PICK c : c = Received(b, <<k, t>>)
      OBVIOUS
    <3>3. Box(b) /\ Grown(a, b)
      OBVIOUS
    <3>4. Box(c) /\ Grown(a, c)
      BY <3>1, <3>2, <3>3, ReceivedFacts
    <3> QED
      BY <3>2, <3>4 DEF Box
  <2> HIDE DEF op, D
  <2> QED
    BY <2>1
<1>4. done = Reported(a, t, A)
  BY DEF Reported
<1>6. PICK g : Folds(step, a, A, g) /\ \A s \in SUBSET A : g[s] \in D
  <2> HIDE DEF step, D
  <2> QED
    BY <1>1, <1>2, <1>3, FoldsType
<1>7. \A s \in SUBSET A : s # {} => step[<<One(s), g[Rest(s)]>>] = op(One(s), g[Rest(s)])
  <2> TAKE s \in SUBSET A
  <2> HAVE s # {}
  <2>1. One(s) \in A /\ Rest(s) \in SUBSET A
    BY RestIsLess
  <2>2. <<One(s), g[Rest(s)]>> \in A \X D
    BY <1>6, <2>1
  <2> HIDE DEF op, D
  <2> QED
    BY <2>2
<1> DEFINE I(h) == h = [s \in SUBSET A |-> IF s = {} THEN a ELSE op(One(s), h[Rest(s)])]
<1>8. done = (CHOOSE h : I(h))[A]
  BY DEF FoldSet, MapThenFoldSet, One, Rest
<1>9. I(g)
  <2>1. g = [s \in SUBSET A |-> IF s = {} THEN a ELSE step[<<One(s), g[Rest(s)]>>]]
    BY <1>6, Zenon DEF Folds
  <2> HIDE DEF op, step
  <2> QED
    BY <1>7, <2>1
<1>10. PICK h : I(h) /\ done = h[A]
  <2> HIDE DEF I, done
  <2> QED
    BY <1>8, <1>9
<1>11. \A s \in SUBSET A : h[s] = g[s]
  <2> DEFINE F == {s \in SUBSET A : h[s] # g[s]}
  <2> SUFFICES ASSUME F # {} PROVE FALSE
    OBVIOUS
  <2>1. F \subseteq SUBSET A
    OBVIOUS
  <2>2. PICK s \in F : \A B \in F : B \subseteq s => B = s
    <3> HIDE DEF F
    <3> QED
      BY <1>1, <2>1, LeastSubset
  <2> HIDE DEF op
  <2>3. s \in SUBSET A /\ h[s] # g[s]
    OBVIOUS
  <2>4. h[s] = IF s = {} THEN a ELSE op(One(s), h[Rest(s)])
    BY <1>10, <2>3
  <2>5. g[s] = IF s = {} THEN a ELSE op(One(s), g[Rest(s)])
    BY <1>9, <2>3
  <2>6. s # {}
    BY <2>3, <2>4, <2>5
  <2>7. Rest(s) \subseteq s /\ Rest(s) # s
    BY <2>6, RestIsLess
  <2>8. Rest(s) \in SUBSET A /\ Rest(s) \notin F
    BY <2>2, <2>3, <2>7
  <2>9. h[Rest(s)] = g[Rest(s)]
    BY <2>8
  <2> QED
    BY <2>3, <2>4, <2>5, <2>6, <2>9
<1>12. done \in D
  <2> HIDE DEF done, D
  <2> QED
    BY <1>6, <1>10, <1>11
<1>13. Box(done) /\ Grown(a, done)
  <2> HIDE DEF done
  <2> QED
    BY <1>12
<1> HIDE DEF done
<1> QED
  BY <1>4, <1>13

LEMMA PreparedClaims ==
    ASSUME NEW s, IsSession(s)
    PROVE  Prepared(s).claims = s.claims \cup Pending(alerts[s.team])
<1>1. PICK p, d, S :
        /\ Prepared(s) = [s EXCEPT !.round = s.round + 1, !.claims = s.claims \cup p, !.shown = S, !.dirty = d]
        /\ p = Pending(alerts[s.team])
  BY Zenon DEF Prepared
<1>2. s = [team |-> s.team, wake |-> s.wake, audited |-> s.audited, lost |-> s.lost,
           round |-> s.round, errors |-> s.errors, dirty |-> s.dirty, claims |-> s.claims,
           shown |-> s.shown]
  BY DEF IsSession
<1>3. Prepared(s) = [team |-> s.team, wake |-> s.wake, audited |-> s.audited, lost |-> s.lost,
           round |-> s.round + 1, errors |-> s.errors, dirty |-> d, claims |-> s.claims \cup p,
           shown |-> S]
  BY <1>1, <1>2
<1> QED
  BY <1>1, <1>3

LEMMA ErrorsField ==
    ASSUME NEW s, IsSession(s), NEW v, NEW x, x = [s EXCEPT !.errors = v]
    PROVE  IsSession(x) /\ x.team = s.team /\ x.wake = s.wake /\ x.round = s.round /\ x.claims = s.claims
<1>1. x = [team |-> s.team, wake |-> s.wake, audited |-> s.audited, lost |-> s.lost,
           round |-> s.round, errors |-> v, dirty |-> s.dirty, claims |-> s.claims,
           shown |-> s.shown]
  BY DEF IsSession
<1> QED
  BY <1>1 DEF IsSession

LEMMA NextRound ==
    ASSUME NEW s, IsSession(s), NEW x, x = [s EXCEPT !.round = @ + 1]
    PROVE  IsSession(x) /\ x.team = s.team /\ x.wake = s.wake /\ x.round = s.round + 1 /\ x.claims = s.claims
<1>1. x = [team |-> s.team, wake |-> s.wake, audited |-> s.audited, lost |-> s.lost,
           round |-> s.round + 1, errors |-> s.errors, dirty |-> s.dirty, claims |-> s.claims,
           shown |-> s.shown]
  BY DEF IsSession
<1>2. s.round + 1 \in Nat
  BY DEF IsSession
<1> QED
  BY <1>1, <1>2 DEF IsSession

\* What a step of a discussion may be: it reads the inbox, goes on or ends.
Becomes(s, y, claims) ==
    /\ IsSession(y) /\ y.team = s.team /\ y.wake = s.wake /\ y.round = s.round + 1
    /\ y.claims = claims
    /\ sessions' = (sessions \ {s}) \cup {y}
    /\ UNCHANGED <<wakeups, peer, disk, spent>>

Reads(s) ==
    /\ \E y : Becomes(s, y, s.claims \cup Pending(alerts[s.team]))
    /\ Running(s) \/ Idle(s.team)
    /\ alerts' = [alerts EXCEPT ![s.team] = Claimed(@)]

Goes(s) == (\E y : Becomes(s, y, s.claims)) /\ Running(s) /\ UNCHANGED alerts

Closes(s) ==
    \E kinds \in SUBSET Kinds, ok \in BOOLEAN :
        Close(s, kinds, ok) /\ Running(s) /\ (ok => s.round >= limit.rounds)

LEMMA DegradedKinds == ASSUME NEW e PROVE Degraded(e) \in SUBSET Kinds /\ Kinds \cap {e} \in SUBSET Kinds
BY DEF Degraded, Kinds, Durable

LEMMA ProceedCases ==
    ASSUME Shaped, NEW s \in sessions, Proceed(s)
    PROVE  Reads(s) \/ Goes(s) \/ Closes(s)
<1>0. IsSession(s) /\ s.round \in Nat /\ limit.rounds \in Nat \ {0}
  BY DEF Shaped, IsSession
<1>1. CASE Enter(s)
  <2>1. PICK y : y = Prepared(s)
    OBVIOUS
  <2>2. Becomes(s, y, s.claims \cup Pending(alerts[s.team]))
    BY <1>0, <1>1, <2>1, PreparedShaped, PreparedClaims DEF Enter, Prepare, Becomes
  <2> QED
    BY <1>1, <2>2 DEF Enter, Prepare, Reads
<1>2. ASSUME NEW errors \in BOOLEAN, EndRound(s, errors) PROVE Reads(s) \/ Goes(s) \/ Closes(s)
  <2>1. PICK v, x : x = [s EXCEPT !.errors = @ \/ errors] /\ x = [s EXCEPT !.errors = v]
    BY Zenon
  <2>2. IsSession(x) /\ x.team = s.team /\ x.wake = s.wake /\ x.round = s.round /\ x.claims = s.claims
    BY <1>0, <2>1, ErrorsField
  <2>3. PICK y, z : y = Prepared(x) /\ z = [x EXCEPT !.round = @ + 1]
    OBVIOUS
  <2>4. IsSession(z) /\ z.team = s.team /\ z.wake = s.wake /\ z.round = s.round + 1 /\ z.claims = s.claims
    BY <2>2, <2>3, NextRound
  <2>5. /\ IsSession(y) /\ y.team = s.team /\ y.wake = s.wake /\ y.round = s.round + 1
        /\ y.claims = s.claims \cup Pending(alerts[s.team])
    BY <2>2, <2>3, PreparedShaped, PreparedClaims
  <2>6. Running(s)
    <3>1. s.round \in 1..limit.rounds
      BY <1>2 DEF EndRound
    <3> QED
      BY <1>0, <3>1 DEF Running
  <2>7. \/ /\ alerts' = [alerts EXCEPT ![s.team] = Claimed(@)]
           /\ sessions' = (sessions \ {s}) \cup {y}
           /\ UNCHANGED <<letters, peer, sending, wakeups, disk, spent>>
        \/ /\ sessions' = (sessions \ {s}) \cup {z}
           /\ UNCHANGED <<alerts, letters, peer, sending, wakeups, disk, spent>>
        \/ ~(s.round < limit.rounds) /\ Close(s, {}, TRUE)
    BY <1>2, <2>1, <2>3, Zenon DEF EndRound
  <2>8. ~(s.round < limit.rounds) => s.round >= limit.rounds
    BY <1>0
  <2>9. ASSUME Close(s, {}, TRUE), s.round >= limit.rounds PROVE Closes(s)
    <3>1. {} \in SUBSET Kinds /\ TRUE \in BOOLEAN
      OBVIOUS
    <3> QED
      BY <2>6, <2>9, <3>1, Zenon DEF Closes
  <2>10. ASSUME alerts' = [alerts EXCEPT ![s.team] = Claimed(@)], sessions' = (sessions \ {s}) \cup {y},
                UNCHANGED <<letters, peer, sending, wakeups, disk, spent>>
         PROVE  Reads(s)
    BY <2>5, <2>6, <2>10 DEF Reads, Becomes
  <2>11. ASSUME sessions' = (sessions \ {s}) \cup {z},
                UNCHANGED <<alerts, letters, peer, sending, wakeups, disk, spent>>
         PROVE  Goes(s)
    BY <2>4, <2>6, <2>11 DEF Goes, Becomes
  <2> QED
    BY <2>7, <2>8, <2>9, <2>10, <2>11, Zenon
<1>3. ASSUME NEW kind, Audited(s, kind) PROVE Closes(s)
  <2>1. PICK kinds : kinds = (Kinds \cap {kind}) \cup Degraded(s.errors)
    OBVIOUS
  <2>2. kinds \in SUBSET Kinds
    BY <2>1, DegradedKinds
  <2>3. s.round > limit.rounds /\ Close(s, kinds, TRUE)
    BY <1>3, <2>1 DEF Audited
  <2>4. Running(s) /\ s.round >= limit.rounds
    BY <1>0, <2>3 DEF Running
  <2>5. TRUE \in BOOLEAN
    OBVIOUS
  <2> QED
    BY <2>2, <2>3, <2>4, <2>5, Zenon DEF Closes
<1>4. ASSUME Abort(s) \/ Break(s) PROVE Closes(s)
  <2>1. (s.round \in 1..limit.rounds \/ Running(s)) /\ \E kinds \in {Degraded(TRUE), {}} : Close(s, kinds, FALSE)
    BY <1>4, Zenon DEF Abort, Break
  <2>2. PICK kinds \in SUBSET Kinds : Close(s, kinds, FALSE)
    <3>1. Degraded(TRUE) \in SUBSET Kinds /\ {} \in SUBSET Kinds
      BY DegradedKinds
    <3> QED
      BY <2>1, <3>1, Zenon
  <2>3. Running(s)
    BY <1>0, <2>1 DEF Running
  <2>4. FALSE \in BOOLEAN
    OBVIOUS
  <2> QED
    BY <2>2, <2>3, <2>4, Zenon DEF Closes
<1> QED
  BY <1>1, <1>2, <1>3, <1>4, Zenon DEF Proceed

-----------------------------------------------------------------------------
(* The types of inboxes. *)

Boxed ==
    /\ alerts = [t \in Scopes |-> alerts[t]]
    /\ disk.alerts = [t \in Scopes |-> disk.alerts[t]]
    /\ \A t \in Scopes : Box(alerts[t]) /\ Box(disk.alerts[t])

LEMMA CloseAlerts ==
    ASSUME Shaped, Boxed, NEW s \in sessions, NEW kinds \in SUBSET Kinds, NEW ok \in BOOLEAN,
           Close(s, kinds, ok)
    PROVE  /\ alerts' = [t \in Scopes |-> alerts'[t]]
           /\ alerts'[s.team] = Released(alerts[s.team], s.claims, ok)
           /\ \A x \in Scopes : x # s.team => Box(alerts'[x]) /\ Grown(alerts[x], alerts'[x])
           /\ UNCHANGED spent
<1>0. s.team \in Scopes
  BY DEF Shaped, IsSession
<1> DEFINE told == IF Parent[s.team] = NoTeam THEN {} ELSE kinds
<1>1. told \in SUBSET Kinds
  OBVIOUS
<1>2. /\ alerts' = [x \in Scopes |->
           IF x = s.team THEN Released(alerts[s.team], s.claims, ok)
           ELSE IF x = Parent[s.team] THEN Reported(alerts[x], s.team, told)
           ELSE alerts[x]]
      /\ UNCHANGED spent
  BY Zenon DEF Close, Reported
<1> HIDE DEF told
<1>3. \A x \in Scopes : Box(Reported(alerts[x], s.team, told)) /\ Grown(alerts[x], Reported(alerts[x], s.team, told))
  BY <1>0, <1>1, ToldFacts DEF Boxed
<1>4. \A x \in Scopes : Box(alerts[x]) /\ Grown(alerts[x], alerts[x])
  BY GrownSelf DEF Boxed
<1>5. alerts'[s.team] = Released(alerts[s.team], s.claims, ok) /\ alerts' = [x \in Scopes |-> alerts'[x]]
  BY <1>0, <1>2
<1>6. ASSUME NEW x \in Scopes, x # s.team PROVE Box(alerts'[x]) /\ Grown(alerts[x], alerts'[x])
  <2>1. alerts'[x] = Reported(alerts[x], s.team, told) \/ alerts'[x] = alerts[x]
    BY <1>2, <1>6
  <2> QED
    BY <1>3, <1>4, <2>1
<1> QED
  BY <1>2, <1>5, <1>6

LEMMA BoxedBySave ==
    ASSUME Boxed, alerts' = [t \in Scopes |-> alerts'[t]], \A t \in Scopes : Box(alerts'[t]),
           UNCHANGED disk \/ (\E ts, ms : Save(ts, ms))
    PROVE  Boxed'
<1>1. CASE UNCHANGED disk
  BY <1>1 DEF Boxed
<1>2. ASSUME NEW ts, NEW ms, Save(ts, ms) PROVE Boxed'
  <2>1. disk'.alerts = [t \in Scopes |-> IF t \in ts THEN alerts'[t] ELSE disk.alerts[t]]
    BY <1>2 DEF Save
  <2> QED
    BY <2>1 DEF Boxed
<1> QED
  BY <1>1, <1>2

LEMMA ClaimedBox == ASSUME NEW b, Box(b) PROVE Box(Claimed(b))
BY ClaimedFacts
LEMMA ReleasedBox == ASSUME NEW b, Box(b), NEW ids, NEW ok \in BOOLEAN PROVE Box(Released(b, ids, ok))
BY ReleasedFacts

LEMMA HydratedFacts ==
    ASSUME NEW b, Box(b), NEW c, c = Hydrated(b)
    PROVE  /\ Box(c)
           /\ \A n \in DOMAIN c : c[n].claimed > 0 => c[n].id[1] = "degraded"
<1>1. DOMAIN b = 1..Len(b) /\ Len(b) \in Nat /\ \A j \in DOMAIN b : b[j] \in Entries
  BY DEF Box
<1> DEFINE e(j) == IF b[j].id[1] = "unknown" THEN [b[j] EXCEPT !.claimed = 0] ELSE b[j]
<1>2. ASSUME NEW j \in DOMAIN b
      PROVE  e(j) \in Entries /\ e(j).id = b[j].id /\ (e(j).claimed > 0 => e(j).id[1] = "degraded")
  <2>1. b[j] \in Entries /\ 0 <= b[j].count
    BY <1>1 DEF Entries
  <2>2. LET y == [b[j] EXCEPT !.claimed = 0] IN
          y \in Entries /\ y.id = b[j].id /\ y.count = b[j].count /\ y.claimed = 0
    BY <2>1, ClaimField
  <2>3. b[j].claimed > 0 => b[j].id[1] \in Durable
    BY <2>1 DEF Entries
  <2> QED
    BY <2>1, <2>2, <2>3 DEF Durable
<1>3. c = [j \in 1..Len(b) |-> e(j)]
  BY <1>1 DEF Hydrated
<1> HIDE DEF e
<1>4. c \in Seq(Entries) /\ DOMAIN c = DOMAIN b /\ \A j \in DOMAIN b : c[j] = e(j)
  BY <1>1, <1>2, <1>3
<1> QED
  BY <1>2, <1>4 DEF Box

-----------------------------------------------------------------------------
(* Claims. *)

\* Somebody will give the claim on an alert back, or hydration has left it.
Given(t, id) ==
    \/ \E s \in sessions : s.team = t /\ id \in s.claims
    \/ id[1] = "degraded" /\ spent.restarts > 0

Holds(t, id) == \E j \in DOMAIN alerts[t] : alerts[t][j].id = id /\ alerts[t][j].claimed > 0

Claiming ==
    /\ \A t \in Scopes : \A id : Holds(t, id) => Given(t, id)
    /\ \A s \in sessions : ~Running(s) => s.claims = {}
    /\ \A s \in sessions : \A id \in s.claims : Holds(s.team, id) \/ spent.acks > 0

LEMMA SpentGrows ==
    ASSUME Counted, [Next]_vars
    PROVE  /\ spent'.restarts >= spent.restarts /\ spent'.acks >= spent.acks
           /\ (\E x : Restart(x)) \/ spent'.restarts = spent.restarts
BY Counting DEF Counted, Adds

LEMMA CloseFresh ==
    ASSUME Shaped, NEW s \in sessions, NEW kinds, NEW ok, Close(s, kinds, ok)
    PROVE  /\ \A r \in sessions' : r \in sessions \ {s} \/ (~Running(r) /\ r.claims = {})
           /\ \A r \in sessions \ {s} : r \in sessions'
<1> DEFINE up == Parent[s.team]
           told == IF up = NoTeam THEN {} ELSE kinds
           mine == Released(alerts[s.team], s.claims, ok)
           woken == {NewSession(up, <<k, s.team>>, TRUE) :
                       k \in {k \in told : Idle(up) /\ Wakes(up, <<k, s.team>>)}}
           next == {NewSession(s.team, id, s.lost) : id \in Followup(s.team, mine)}
<1>1. sessions' = (sessions \ {s}) \cup woken \cup next
  BY Zenon DEF Close
<1>2. \A t, id, lost : NewSession(t, id, lost).claims = {} /\ ~Running(NewSession(t, id, lost))
  BY DEF NewSession, Running
<1>3. \A r \in woken : ~Running(r) /\ r.claims = {}
  BY <1>2
<1>4. \A r \in next : ~Running(r) /\ r.claims = {}
  BY <1>2
<1> HIDE DEF woken, next
<1> QED
  BY <1>1, <1>3, <1>4

LEMMA ClaimedIsPositive ==
    ASSUME NEW b, Box(b), NEW j \in DOMAIN b
    PROVE  /\ b[j].count \in Nat /\ b[j].claimed \in Nat /\ b[j].count > 0
           /\ b[j].claimed > 0 => b[j].id[1] \in Durable
BY DEF Box, Entries

LEMMA BoxedStep ==
    ASSUME Shaped, Counted, Boxed, [Next]_vars
    PROVE  Boxed'
<1>1. ASSUME UNCHANGED alerts, UNCHANGED disk \/ (\E ts, ms : Save(ts, ms)) PROVE Boxed'
  BY <1>1, BoxedBySave DEF Boxed
<1>2. ASSUME NEW s \in sessions, Proceed(s) PROVE Boxed'
  <2>0. s.team \in Scopes
    BY DEF Shaped, IsSession
  <2>1. CASE Reads(s)
    <3>1. alerts' = [alerts EXCEPT ![s.team] = Claimed(@)] /\ UNCHANGED disk
      BY <2>1 DEF Reads, Becomes
    <3>2. Box(Claimed(alerts[s.team]))
      BY <2>0, ClaimedBox DEF Boxed
    <3> QED
      BY <2>0, <3>1, <3>2 DEF Boxed
  <2>2. CASE Goes(s)
    BY <1>1, <2>2 DEF Goes, Becomes
  <2>3. CASE Closes(s)
    <3>1. PICK kinds \in SUBSET Kinds, ok \in BOOLEAN : Close(s, kinds, ok)
      BY <2>3 DEF Closes
    <3>2. /\ alerts' = [t \in Scopes |-> alerts'[t]]
          /\ alerts'[s.team] = Released(alerts[s.team], s.claims, ok)
          /\ \A x \in Scopes : x # s.team => Box(alerts'[x])
      BY <3>1, CloseAlerts
    <3>3. Box(alerts'[s.team])
      BY <2>0, <3>2, ReleasedBox DEF Boxed
    <3>4. UNCHANGED disk \/ (\E ts, ms : Save(ts, ms))
      BY <3>1, Zenon DEF Close
    <3>5. \A x \in Scopes : Box(alerts'[x])
      BY <3>2, <3>3
    <3> QED
      BY <3>2, <3>4, <3>5, BoxedBySave
  <2> QED
    BY <1>2, <2>1, <2>2, <2>3, ProceedCases
<1>3. ASSUME NEW t \in Scopes, NEW id, Acknowledge(t, id) PROVE Boxed'
  <2>1. PICK S : S = {j \in DOMAIN alerts[t] : alerts[t][j].id # id}
    OBVIOUS
  <2>2. alerts' = [alerts EXCEPT ![t] = Kept(alerts[t], S)] /\ \E ts, ms : Save(ts, ms)
    BY <1>3, <2>1, Zenon DEF Acknowledge
  <2>3. S \in SUBSET (DOMAIN alerts[t]) /\ Box(alerts[t])
    BY <2>1 DEF Boxed
  <2>4. PICK c : c = Kept(alerts[t], S)
    OBVIOUS
  <2>5. Box(c)
    BY <2>3, <2>4, KeptSelf
  <2>6. /\ alerts' = [x \in Scopes |-> alerts'[x]]
        /\ \A x \in Scopes : Box(alerts'[x])
    BY <2>2, <2>4, <2>5 DEF Boxed
  <2> QED
    BY <2>2, <2>6, BoxedBySave
<1>4. CASE TalkStep
  <2>1. ASSUME NEW t, Call(t) PROVE Boxed'
    BY <1>1, <2>1, Zenon DEF Call
  <2>2. ASSUME NEW m, Send(m) \/ SendReturns(m) PROVE Boxed'
    <3>1. UNCHANGED alerts /\ (UNCHANGED disk \/ (\E ts, ms : Save(ts, ms)))
      BY <2>2, Zenon DEF Send, SendReturns
    <3> QED
      BY <1>1, <3>1
  <2>3. ASSUME NEW p, Vote(p) PROVE Boxed'
    <3>1. UNCHANGED <<alerts, disk>>
      BY <2>3, Zenon DEF Vote, Initiate, Retract, CastVote
    <3> QED
      BY <1>1, <3>1
  <2> QED
    BY <1>2, <1>3, <1>4, <2>1, <2>2, <2>3, Zenon DEF TalkStep
<1>5. ASSUME NEW frozen, Restart(frozen) PROVE Boxed'
  <2>1. alerts' = [t \in Scopes |-> Hydrated(disk.alerts[t])] /\ UNCHANGED disk
    BY <1>5, Zenon DEF Restart, Recover
  <2>2. \A t \in Scopes : Box(Hydrated(disk.alerts[t]))
    BY HydratedFacts DEF Boxed
  <2> QED
    BY <2>1, <2>2 DEF Boxed
<1>6. CASE FormationStep \/ UNCHANGED vars
  <2>1. UNCHANGED <<alerts, disk>>
    BY <1>6 DEF FormationStep, vars, talkVars
  <2> QED
    BY <1>1, <2>1
<1> QED
  BY <1>4, <1>5, <1>6, Zenon DEF Next

LEMMA BoxedInit == Init => Boxed
<1> SUFFICES ASSUME Init PROVE Boxed
  OBVIOUS
<1>1. /\ alerts = [t \in Scopes |-> <<>>]
      /\ disk = [alerts |-> alerts, letters |-> letters, peer |-> peer]
  BY DEF Init
<1>2. Box(<<>>)
  BY DEF Box
<1> QED
  BY <1>1, <1>2 DEF Boxed

LEMMA BoxedInvariant == Spec => []Boxed
BY BoxedInit, BoxedStep, ShapedInvariant, CountedInvariant, PTL DEF Spec

\* A discussion reads its inbox, or goes on.
LEMMA ClaimingByReads ==
    ASSUME Shaped, Boxed, Claiming, NEW s \in sessions, Reads(s)
    PROVE  Claiming'
<1>0. s.team \in Scopes /\ Box(alerts[s.team]) /\ s.round \in Nat /\ IsSession(s)
  BY DEF Shaped, IsSession, Boxed
<1>1. PICK y : Becomes(s, y, s.claims \cup Pending(alerts[s.team]))
  BY DEF Reads
<1>2. PICK b, c : b = alerts[s.team] /\ c = Claimed(b)
  OBVIOUS
<1>3. /\ Box(c)
      /\ \A n \in DOMAIN c : \E j \in DOMAIN b :
           /\ b[j].id = c[n].id /\ b[j].count = c[n].count
           /\ c[n].claimed = IF b[j].claimed = 0 THEN b[j].count ELSE b[j].claimed
           /\ b[j].id[1] \in Durable
      /\ \A j \in DOMAIN b : b[j].id[1] \in Durable => \E n \in DOMAIN c :
           /\ b[j].id = c[n].id /\ b[j].count = c[n].count /\ c[n].claimed > 0
  BY <1>0, <1>2, ClaimedFacts
<1>4. /\ alerts'[s.team] = c /\ \A t \in Scopes : t # s.team => alerts'[t] = alerts[t]
      /\ UNCHANGED spent
  BY <1>0, <1>1, <1>2 DEF Reads, Becomes, Boxed
<1>5. /\ y.team = s.team /\ y.claims = s.claims \cup Pending(b) /\ Running(y) /\ IsSession(y)
      /\ sessions' = (sessions \ {s}) \cup {y}
  BY <1>0, <1>1, <1>2 DEF Becomes, Running
<1>6. \A j \in DOMAIN b : b[j].id[1] \in Durable /\ b[j].claimed = 0 => b[j].id \in Pending(b)
  BY <1>0, <1>2 DEF Pending, ToSet, Box
<1>7. \A id \in Pending(b) : id[1] \in Durable /\ \E j \in DOMAIN b : b[j].id = id
  BY <1>0, <1>2 DEF Pending, ToSet, Box
<1>8. \A j \in DOMAIN b : /\ b[j].claimed \in Nat
                          /\ b[j].claimed > 0 => b[j].id[1] \in Durable
  BY <1>0, <1>2, ClaimedIsPositive
<1>9. ASSUME NEW t \in Scopes, NEW id, Given(t, id) PROVE Given(t, id)'
  <2>1. CASE id[1] = "degraded" /\ spent.restarts > 0
    BY <1>4, <2>1 DEF Given
  <2>2. ASSUME NEW r \in sessions, r.team = t, id \in r.claims PROVE Given(t, id)'
    <3>1. CASE r = s
      BY <1>5, <2>2, <3>1 DEF Given
    <3>2. CASE r # s
      BY <1>5, <2>2, <3>2 DEF Given
    <3> QED
      BY <3>1, <3>2
  <2> QED
    BY <1>9, <2>1, <2>2 DEF Given
<1>10. ASSUME NEW t \in Scopes, NEW id, Holds(t, id)' PROVE Given(t, id)'
  <2>1. CASE t = s.team
    <3>1. PICK n \in DOMAIN c : c[n].id = id /\ c[n].claimed > 0
      BY <1>4, <1>10, <2>1 DEF Holds
    <3>2. PICK j \in DOMAIN b : b[j].id = id /\ b[j].id[1] \in Durable
      BY <1>3, <3>1
    <3>3. CASE b[j].claimed = 0
      <4>1. id \in y.claims /\ y \in sessions' /\ y.team = t
        BY <1>5, <1>6, <2>1, <3>2, <3>3
      <4> QED
        BY <4>1 DEF Given
    <3>4. CASE b[j].claimed # 0
      <4>1. b[j].claimed > 0
        BY <1>8, <3>4
      <4>2. Holds(t, id)
        BY <1>2, <2>1, <3>2, <4>1 DEF Holds
      <4> QED
        BY <1>9, <4>2 DEF Claiming
    <3> QED
      BY <3>3, <3>4
  <2>2. CASE t # s.team
    <3>1. Holds(t, id)
      BY <1>4, <1>10, <2>2 DEF Holds
    <3> QED
      BY <1>9, <3>1 DEF Claiming
  <2> QED
    BY <2>1, <2>2
<1>11. ASSUME NEW t \in Scopes, NEW id, Holds(t, id) PROVE Holds(t, id)'
  <2>1. CASE t = s.team
    <3>1. PICK j \in DOMAIN b : b[j].id = id /\ b[j].claimed > 0
      BY <1>2, <1>11, <2>1 DEF Holds
    <3>2. PICK n \in DOMAIN c : c[n].id = id /\ c[n].claimed > 0
      BY <1>3, <1>8, <3>1
    <3> QED
      BY <1>4, <2>1, <3>2 DEF Holds
  <2>2. CASE t # s.team
    BY <1>4, <1>11, <2>2 DEF Holds
  <2> QED
    BY <2>1, <2>2
<1>12. ASSUME NEW id \in y.claims PROVE Holds(y.team, id)' \/ spent'.acks > 0
  <2>1. CASE id \in s.claims
    <3>1. Holds(s.team, id) \/ spent.acks > 0
      BY <2>1 DEF Claiming
    <3> QED
      BY <1>0, <1>4, <1>5, <1>11, <3>1
  <2>2. CASE id \in Pending(b)
    <3>1. PICK n \in DOMAIN c : c[n].id = id /\ c[n].claimed > 0
      BY <1>3, <1>7, <2>2
    <3> QED
      BY <1>4, <1>5, <3>1 DEF Holds
  <2> QED
    BY <1>5, <1>12, <2>1, <2>2
<1>13. ASSUME NEW r \in sessions \ {s}, NEW id \in r.claims PROVE Holds(r.team, id)' \/ spent'.acks > 0
  <2>1. r.team \in Scopes
    BY DEF Shaped, IsSession
  <2>2. Holds(r.team, id) \/ spent.acks > 0
    BY <1>13 DEF Claiming
  <2> QED
    BY <1>4, <1>11, <2>1, <2>2
<1>14. \A r \in sessions' : r \in sessions \ {s} \/ r = y
  BY <1>5
<1>15. \A r \in sessions' : ~Running(r) => r.claims = {}
  BY <1>5, <1>14 DEF Claiming
<1>16. \A r \in sessions' : \A id \in r.claims : Holds(r.team, id)' \/ spent'.acks > 0
  BY <1>12, <1>13, <1>14
<1> QED
  BY <1>10, <1>15, <1>16 DEF Claiming, Running, Holds

LEMMA ClaimingByGoes ==
    ASSUME Shaped, Claiming, NEW s \in sessions, Goes(s)
    PROVE  Claiming'
<1>1. PICK y : Becomes(s, y, s.claims)
  BY DEF Goes
<1>2. /\ y.team = s.team /\ y.claims = s.claims /\ Running(y)
      /\ sessions' = (sessions \ {s}) \cup {y}
      /\ UNCHANGED <<alerts, spent>>
  BY <1>1 DEF Becomes, Running, Goes, IsSession, Shaped
<1>3. ASSUME NEW t \in Scopes, NEW id, Holds(t, id)' PROVE Given(t, id)'
  <2>1. Holds(t, id)
    BY <1>2, <1>3 DEF Holds
  <2>2. Given(t, id)
    BY <2>1 DEF Claiming
  <2> QED
    BY <1>2, <2>2 DEF Given
<1>4. \A r \in sessions' : r \in sessions \ {s} \/ r = y
  BY <1>2
<1>5. \A r \in sessions' : ~Running(r) => r.claims = {}
  BY <1>2, <1>4 DEF Claiming
<1>6. ASSUME NEW r \in sessions', NEW id \in r.claims PROVE Holds(r.team, id)' \/ spent'.acks > 0
  <2>1. PICK q \in sessions : q.team = r.team /\ q.claims = r.claims
    BY <1>2, <1>4
  <2>2. Holds(r.team, id) \/ spent.acks > 0
    BY <1>6, <2>1 DEF Claiming
  <2> QED
    BY <1>2, <2>2 DEF Holds
<1> QED
  BY <1>3, <1>5, <1>6 DEF Claiming, Running, Holds

LEMMA ClaimingByCloses ==
    ASSUME Shaped, Boxed, Solo, Claiming, NEW s \in sessions, Closes(s)
    PROVE  Claiming'
<1>0. s.team \in Scopes /\ Box(alerts[s.team])
  BY DEF Shaped, IsSession, Boxed
<1>1. PICK kinds \in SUBSET Kinds, ok \in BOOLEAN : Close(s, kinds, ok) /\ Running(s)
  BY DEF Closes
<1>2. /\ alerts'[s.team] = Released(alerts[s.team], s.claims, ok)
      /\ \A x \in Scopes : x # s.team => Box(alerts'[x]) /\ Grown(alerts[x], alerts'[x])
      /\ UNCHANGED spent
  BY <1>1, CloseAlerts
<1>3. /\ \A r \in sessions' : r \in sessions \ {s} \/ (~Running(r) /\ r.claims = {})
      /\ \A r \in sessions \ {s} : r \in sessions'
  BY <1>1, CloseFresh
<1>4. PICK b, c : b = alerts[s.team] /\ c = Released(b, s.claims, ok)
  OBVIOUS
<1>5. /\ Box(c)
      /\ \A n \in DOMAIN c : \E j \in DOMAIN b :
           /\ b[j].id = c[n].id /\ b[j].count = c[n].count
           /\ c[n].claimed = IF b[j].id \in s.claims THEN 0 ELSE b[j].claimed
  <2>1. Box(b) /\ ok \in BOOLEAN
    BY <1>0, <1>4
  <2> QED
    BY <1>4, <2>1, ReleasedFacts
<1>6. \A r \in sessions \ {s} : r.team = s.team => r.claims = {}
  BY <1>1 DEF Solo, Claiming
<1>7. ASSUME NEW t \in Scopes, NEW id, Given(t, id), t = s.team => id \notin s.claims PROVE Given(t, id)'
  <2>1. CASE id[1] = "degraded" /\ spent.restarts > 0
    BY <1>2, <2>1 DEF Given
  <2>2. ASSUME NEW r \in sessions, r.team = t, id \in r.claims PROVE Given(t, id)'
    <3>1. r # s
      BY <1>7, <2>2
    <3> QED
      BY <1>3, <2>2, <3>1 DEF Given
  <2> QED
    BY <1>7, <2>1, <2>2 DEF Given
<1>8. ASSUME NEW t \in Scopes, NEW id, Holds(t, id)' PROVE Given(t, id)'
  <2>1. CASE t = s.team
    <3>1. PICK n \in DOMAIN c : c[n].id = id /\ c[n].claimed > 0
      BY <1>2, <1>4, <1>8, <2>1 DEF Holds
    <3>2. PICK j \in DOMAIN b : /\ b[j].id = id
                                /\ c[n].claimed = IF b[j].id \in s.claims THEN 0 ELSE b[j].claimed
      BY <1>5, <3>1
    <3>3. id \notin s.claims /\ b[j].claimed > 0
      BY <3>1, <3>2
    <3>4. Holds(t, id)
      BY <1>4, <2>1, <3>2, <3>3 DEF Holds
    <3> QED
      BY <1>7, <3>3, <3>4 DEF Claiming
  <2>2. CASE t # s.team
    <3>1. PICK n \in DOMAIN alerts'[t] : alerts'[t][n].id = id /\ alerts'[t][n].claimed > 0
      BY <1>8 DEF Holds
    <3>2. \E j \in DOMAIN alerts[t] : alerts[t][j].id = id /\ alerts[t][j].claimed = alerts'[t][n].claimed
      BY <1>2, <2>2, <3>1 DEF Grown
    <3>3. Holds(t, id)
      BY <3>1, <3>2 DEF Holds
    <3> QED
      BY <1>7, <2>2, <3>3 DEF Claiming
  <2> QED
    BY <2>1, <2>2
<1>9. \A r \in sessions' : ~Running(r) => r.claims = {}
  BY <1>3 DEF Claiming
<1>10. ASSUME NEW r \in sessions', NEW id \in r.claims PROVE Holds(r.team, id)' \/ spent'.acks > 0
  <2>1. r \in sessions \ {s} /\ r.team # s.team /\ r.team \in Scopes
    BY <1>3, <1>6, <1>10 DEF Shaped, IsSession
  <2>2. CASE Holds(r.team, id)
    <3>1. PICK j \in DOMAIN alerts[r.team] : alerts[r.team][j].id = id /\ alerts[r.team][j].claimed > 0
      BY <2>2 DEF Holds
    <3>2. PICK n \in DOMAIN alerts'[r.team] : /\ alerts'[r.team][n].id = id
                                              /\ alerts'[r.team][n].claimed = alerts[r.team][j].claimed
      BY <1>2, <2>1, <3>1 DEF Grown
    <3> QED
      BY <3>1, <3>2 DEF Holds
  <2> QED
    BY <1>2, <1>10, <2>1, <2>2 DEF Claiming
<1> QED
  BY <1>8, <1>9, <1>10 DEF Claiming, Running, Holds

LEMMA ClaimingQuiet ==
    ASSUME Claiming, Counted, [Next]_vars, UNCHANGED <<alerts, sessions>>
    PROVE  Claiming'
<1>1. spent'.restarts >= spent.restarts /\ spent'.acks >= spent.acks
      /\ spent.restarts \in Nat /\ spent.acks \in Nat
      /\ spent'.restarts \in Int /\ spent'.acks \in Int
  BY SpentGrows, Counting DEF Counted, Adds
<1>2. \A t \in Scopes : \A id : Given(t, id) => Given(t, id)'
  BY <1>1 DEF Given
<1> QED
  BY <1>1, <1>2 DEF Claiming, Holds, Running

LEMMA ClaimingStep ==
    ASSUME Shaped, Counted, Boxed, Solo, Claiming, [Next]_vars
    PROVE  Claiming'
<1>1. ASSUME NEW s \in sessions, Proceed(s) PROVE Claiming'
  BY <1>1, ProceedCases, ClaimingByReads, ClaimingByGoes, ClaimingByCloses
<1>2. ASSUME NEW t \in Scopes, NEW id, Acknowledge(t, id) PROVE Claiming'
  <2>1. PICK S : S = {j \in DOMAIN alerts[t] : alerts[t][j].id # id}
    OBVIOUS
  <2>2. alerts' = [alerts EXCEPT ![t] = Kept(alerts[t], S)] /\ UNCHANGED sessions
    BY <1>2, <2>1, Zenon DEF Acknowledge
  <2>3. S \in SUBSET (DOMAIN alerts[t]) /\ Box(alerts[t])
    BY <2>1 DEF Boxed
  <2>4. PICK c : c = Kept(alerts[t], S)
    OBVIOUS
  <2>5. \A n \in DOMAIN c : \E j \in DOMAIN alerts[t] : c[n] = alerts[t][j]
    BY <2>3, <2>4, KeptSelf
  <2>6. alerts'[t] = c /\ \A x \in Scopes : x # t => alerts'[x] = alerts[x]
    BY <2>2, <2>4 DEF Boxed
  <2>7. spent' = [spent EXCEPT !.acks = @ + 1]
    BY <1>2, Zenon DEF Acknowledge
  <2>8. spent'.acks > 0 /\ spent'.restarts = spent.restarts
    BY <2>7 DEF Counted
  <2>9. ASSUME NEW x \in Scopes, NEW k, Holds(x, k)' PROVE Given(x, k)'
    <3>1. Holds(x, k)
      BY <2>5, <2>6, <2>9 DEF Holds
    <3>2. Given(x, k)
      BY <3>1 DEF Claiming
    <3> QED
      BY <2>2, <2>8, <3>2 DEF Given
  <2> QED
    BY <2>2, <2>8, <2>9 DEF Claiming, Running, Holds
<1>3. ASSUME NEW t \in Scopes, Call(t) PROVE Claiming'
  <2>1. PICK n : n = NewSession(t, Called, FALSE)
    OBVIOUS
  <2>2. ~Running(n) /\ n.claims = {}
    BY <2>1 DEF NewSession, Running
  <2>3. UNCHANGED alerts /\ sessions' = sessions \cup {n}
    BY <1>3, <2>1, Zenon DEF Call
  <2>4. spent'.restarts = spent.restarts /\ spent'.acks = spent.acks
    <3>1. spent' = [spent EXCEPT !.calls = @ + 1]
      BY <1>3, Zenon DEF Call
    <3> QED
      BY <3>1 DEF Counted
  <2>5. ASSUME NEW x \in Scopes, NEW k, Holds(x, k)' PROVE Given(x, k)'
    <3>1. Given(x, k)
      BY <2>3, <2>5 DEF Claiming, Holds
    <3> QED
      BY <2>3, <2>4, <3>1 DEF Given
  <2> QED
    BY <2>2, <2>3, <2>4, <2>5 DEF Claiming, Running, Holds
<1>4. CASE TalkStep
  <2>2. ASSUME NEW m, Send(m) \/ SendReturns(m) PROVE UNCHANGED <<alerts, sessions>>
    BY <2>2, Zenon DEF Send, SendReturns
  <2>3. ASSUME NEW p, Vote(p) PROVE UNCHANGED <<alerts, sessions>>
    BY <2>3, Zenon DEF Vote, Initiate, Retract, CastVote
  <2> QED
    BY <1>1, <1>2, <1>3, <1>4, <2>2, <2>3, ClaimingQuiet, Zenon DEF TalkStep
<1>5. ASSUME NEW frozen, Restart(frozen) PROVE Claiming'
  <2>1. /\ alerts' = [t \in Scopes |-> Hydrated(disk.alerts[t])] /\ sessions' = {}
        /\ spent' = [spent EXCEPT !.restarts = @ + 1]
    BY <1>5, Zenon DEF Restart, Recover
  <2>2. spent'.restarts > 0
    BY <2>1 DEF Counted
  <2>3. ASSUME NEW t \in Scopes, NEW id, Holds(t, id)' PROVE Given(t, id)'
    <3>1. PICK c : c = Hydrated(disk.alerts[t])
      OBVIOUS
    <3>2. \A n \in DOMAIN c : c[n].claimed > 0 => c[n].id[1] = "degraded"
      BY <3>1, HydratedFacts DEF Boxed
    <3>3. alerts'[t] = c
      BY <2>1, <3>1
    <3>4. id[1] = "degraded"
      BY <2>3, <3>2, <3>3 DEF Holds
    <3> QED
      BY <2>2, <3>4 DEF Given
  <2> QED
    BY <2>1, <2>3 DEF Claiming
<1>6. CASE FormationStep \/ UNCHANGED vars
  <2>1. UNCHANGED <<alerts, sessions>>
    BY <1>6 DEF FormationStep, vars, talkVars
  <2> QED
    BY <2>1, ClaimingQuiet
<1> QED
  BY <1>4, <1>5, <1>6, Zenon DEF Next

LEMMA ClaimingInit == Init => Claiming
<1> SUFFICES ASSUME Init PROVE Claiming
  OBVIOUS
<1>1. alerts = [t \in Scopes |-> <<>>] /\ sessions = {}
  BY DEF Init
<1>2. \A t \in Scopes : DOMAIN alerts[t] = {}
  BY <1>1, EmptyDomain
<1> QED
  BY <1>1, <1>2 DEF Claiming, Holds

LEMMA ClaimingInvariant == Spec => []Claiming
BY ClaimingInit, ClaimingStep, ShapedInvariant, CountedInvariant, BoxedInvariant, SoloInvariant, PTL DEF Spec

\* What an inbox counts as claimed, a discussion of its AgentTeam has claimed and will
\* give back: prepare_inbox_context claims what it shows, finish_processing and the
\* failure of a discussion release it, a follow-up is opened for what has come again,
\* and hydration resets the alerts of unknown audits.  Claims excepts what hydration
\* leaves: an alert of degraded operation that was being handled at a crash.
THEOREM ClaimsAreGivenBack == Spec => []Claims
<1>1. ASSUME Boxed, Claiming PROVE Claims
  <2> SUFFICES ASSUME NEW t \in Scopes, NEW x \in ToSet(alerts[t]), x.claimed > 0
               PROVE  Given(t, x.id)
    BY DEF Claims, Given
  <2>1. PICK j \in DOMAIN alerts[t] : alerts[t][j] = x
    BY <1>1 DEF ToSet, Boxed, Box
  <2>2. Holds(t, x.id)
    BY <2>1 DEF Holds
  <2> QED
    BY <1>1, <2>2 DEF Claiming
<1> QED
  BY <1>1, BoxedInvariant, ClaimingInvariant, PTL

-----------------------------------------------------------------------------
(* What an inbox counts of an alert. *)

LEMMA CountIs ==
    ASSUME NEW b, Box(b), NEW id, id[1] \in Durable
    PROVE  /\ \A j \in DOMAIN b : b[j].id = id => Count(b, id) = b[j].count
           /\ (\A j \in DOMAIN b : b[j].id # id) => Count(b, id) = 0
<1>1. \A x : x \in ToSet(b) <=> \E j \in DOMAIN b : b[j] = x
  BY DEF ToSet, Box
<1> DEFINE S == {x \in ToSet(b) : x.id = id}
<1>2. Count(b, id) = IF S = {} THEN 0 ELSE (CHOOSE x \in S : TRUE).count
  BY DEF Count
<1>3. ASSUME NEW j \in DOMAIN b, b[j].id = id PROVE Count(b, id) = b[j].count
  <2>1. b[j] \in S
    BY <1>1, <1>3
  <2>2. PICK x \in S : x = CHOOSE y \in S : TRUE
    BY <2>1
  <2>3. x.id = id /\ \E i \in DOMAIN b : b[i] = x
    BY <1>1
  <2>4. PICK i \in DOMAIN b : b[i] = x
    BY <2>3
  <2>5. i = j
    BY <1>3, <2>3, <2>4 DEF Box
  <2> HIDE DEF S
  <2> QED
    BY <1>2, <2>1, <2>2, <2>4, <2>5
<1>4. ASSUME \A j \in DOMAIN b : b[j].id # id PROVE Count(b, id) = 0
  <2>1. S = {}
    BY <1>1, <1>4
  <2> QED
    BY <1>2, <2>1
<1> QED
  BY <1>3, <1>4

LEMMA CountKept ==
    ASSUME NEW b, Box(b), NEW c, Box(c), NEW id, id[1] \in Durable,
           \A j \in DOMAIN b : b[j].id = id => \E n \in DOMAIN c : c[n].id = id /\ c[n].count >= b[j].count
    PROVE  ~(Count(c, id) < Count(b, id))
<1>1. CASE \A j \in DOMAIN b : b[j].id # id
  <2>1. Count(b, id) = 0
    BY <1>1, CountIs
  <2>2. Count(c, id) \in Nat
    <3>1. CASE \A n \in DOMAIN c : c[n].id # id
      BY <3>1, CountIs
    <3>2. ASSUME NEW n \in DOMAIN c, c[n].id = id PROVE Count(c, id) \in Nat
      <4>1. Count(c, id) = c[n].count
        BY <3>2, CountIs
      <4> QED
        BY <4>1, ClaimedIsPositive
    <3> QED
      BY <3>1, <3>2
  <2> QED
    BY <2>1, <2>2
<1>2. ASSUME NEW j \in DOMAIN b, b[j].id = id PROVE ~(Count(c, id) < Count(b, id))
  <2>1. PICK n \in DOMAIN c : c[n].id = id /\ c[n].count >= b[j].count
    BY <1>2
  <2>2. Count(c, id) = c[n].count /\ Count(b, id) = b[j].count
    BY <1>2, <2>1, CountIs
  <2>3. c[n].count \in Nat /\ b[j].count \in Nat
    BY ClaimedIsPositive
  <2> QED
    BY <2>1, <2>2, <2>3
<1> QED
  BY <1>1, <1>2

\* Occurrences of an alert leave an inbox.
Loses(t, id) == Count(alerts'[t], id) < Count(alerts[t], id)

KeptStep ==
    \A t \in Scopes : \A id \in Durable \X Scopes :
        Loses(t, id) => spent'.acks > spent.acks \/ spent'.restarts > spent.restarts \/ Handled(t, id)

LEMMA KeptSame ==
    ASSUME Boxed, NEW t \in Scopes, alerts'[t] = alerts[t], NEW id, id[1] \in Durable
    PROVE  ~Loses(t, id)
<1>1. \A j \in DOMAIN alerts[t] : alerts[t][j].count >= alerts[t][j].count
  BY ClaimedIsPositive DEF Boxed
<1>2. Box(alerts[t])
  BY DEF Boxed
<1>3. ~(Count(alerts[t], id) < Count(alerts[t], id))
  BY <1>1, <1>2, CountKept
<1> QED
  BY <1>3 DEF Loses

LEMMA KeptByReads ==
    ASSUME Shaped, Boxed, NEW s \in sessions, Reads(s), NEW t \in Scopes, NEW id, id[1] \in Durable
    PROVE  ~Loses(t, id)
<1>0. s.team \in Scopes /\ Box(alerts[s.team])
  BY DEF Shaped, IsSession, Boxed
<1>1. CASE t = s.team
  <2>1. PICK b, c : b = alerts[t] /\ c = Claimed(b)
    OBVIOUS
  <2>2. Box(b)
    BY <1>0, <1>1, <2>1
  <2>3. /\ Box(c)
        /\ \A j \in DOMAIN b : b[j].id[1] \in Durable => \E n \in DOMAIN c :
             b[j].id = c[n].id /\ b[j].count = c[n].count
    BY <2>1, <2>2, ClaimedFacts
  <2>4. alerts'[t] = c
    BY <1>0, <1>1, <2>1 DEF Reads, Boxed
  <2>5. \A j \in DOMAIN b : b[j].id = id => \E n \in DOMAIN c : c[n].id = id /\ c[n].count >= b[j].count
    BY <2>2, <2>3, ClaimedIsPositive
  <2>6. ~(Count(c, id) < Count(b, id))
    BY <2>2, <2>3, <2>5, CountKept
  <2> QED
    BY <2>1, <2>4, <2>6 DEF Loses
<1>2. CASE t # s.team
  <2>1. alerts'[t] = alerts[t]
    BY <1>0, <1>2 DEF Reads, Boxed
  <2> QED
    BY <2>1, KeptSame
<1> QED
  BY <1>1, <1>2

LEMMA KeptByCloses ==
    ASSUME Shaped, Boxed, Claiming, spent.acks = 0, NEW s \in sessions, Closes(s),
           NEW t \in Scopes, NEW id, id[1] \in Durable, Loses(t, id)
    PROVE  Handled(t, id)
<1>0. s.team \in Scopes /\ Box(alerts[s.team])
  BY DEF Shaped, IsSession, Boxed
<1>1. PICK kinds \in SUBSET Kinds, ok \in BOOLEAN :
        Close(s, kinds, ok) /\ Running(s) /\ (ok => s.round >= limit.rounds)
  BY DEF Closes
<1>2. /\ alerts'[s.team] = Released(alerts[s.team], s.claims, ok)
      /\ \A x \in Scopes : x # s.team => Box(alerts'[x]) /\ Grown(alerts[x], alerts'[x])
  BY <1>1, CloseAlerts
<1>3. t = s.team
  <2> SUFFICES ASSUME t # s.team PROVE FALSE
    OBVIOUS
  <2>1. Box(alerts[t]) /\ Box(alerts'[t])
    BY <1>2 DEF Boxed
  <2>2. \A j \in DOMAIN alerts[t] : alerts[t][j].id = id =>
          \E n \in DOMAIN alerts'[t] : alerts'[t][n].id = id /\ alerts'[t][n].count >= alerts[t][j].count
    BY <1>2 DEF Grown
  <2>3. ~(Count(alerts'[t], id) < Count(alerts[t], id))
    BY <2>1, <2>2, CountKept
  <2> QED
    BY <2>3 DEF Loses
<1>4. PICK b, c : b = alerts[t] /\ c = Released(b, s.claims, ok)
  OBVIOUS
<1>5. Box(b) /\ ok \in BOOLEAN /\ alerts'[t] = c
  BY <1>0, <1>2, <1>3, <1>4
<1>6. /\ Box(c)
      /\ \A j \in DOMAIN b :
           b[j].id \notin s.claims \/ ~ok \/ (b[j].claimed > 0 /\ b[j].count > b[j].claimed) =>
             \E n \in DOMAIN c : b[j].id = c[n].id /\ b[j].count = c[n].count
  BY <1>4, <1>5, ReleasedFacts
<1>7. PICK j \in DOMAIN b : b[j].id = id /\ ~(\E n \in DOMAIN c : c[n].id = id /\ c[n].count >= b[j].count)
  <2>1. Count(c, id) < Count(b, id)
    BY <1>4, <1>5 DEF Loses
  <2> QED
    BY <1>5, <1>6, <2>1, CountKept
<1>8. b[j].count \in Nat /\ b[j].claimed \in Nat /\ b[j].claimed <= b[j].count
  BY <1>5 DEF Box, Entries
<1>9. id \in s.claims /\ ok /\ ~(b[j].claimed > 0 /\ b[j].count > b[j].claimed)
  BY <1>6, <1>7, <1>8
<1>10. \E i \in DOMAIN b : b[i].id = id /\ b[i].claimed > 0
  BY <1>3, <1>4, <1>9 DEF Claiming, Holds
<1>11. PICK i \in DOMAIN b : b[i].id = id /\ b[i].claimed > 0
  BY <1>10
<1>12. i = j
  BY <1>5, <1>7, <1>11 DEF Box
<1>13. b[j].claimed = b[j].count
  BY <1>8, <1>9, <1>11, <1>12
<1>14. ASSUME NEW x \in ToSet(alerts[t]), x.id = id PROVE x.claimed = x.count
  <2>1. PICK k \in DOMAIN b : b[k] = x
    BY <1>4, <1>5 DEF ToSet, Box
  <2>2. k = j
    BY <1>5, <1>7, <1>14, <2>1 DEF Box
  <2> QED
    BY <1>13, <2>1, <2>2
<1>15. s \notin sessions'
  BY <1>1, CloseFresh
<1> QED
  BY <1>1, <1>3, <1>9, <1>14, <1>15 DEF Handled

LEMMA AlertsStep ==
    ASSUME Shaped, Counted, Boxed, Claiming, spent.acks = 0, [Next]_vars
    PROVE  KeptStep
<1> SUFFICES ASSUME NEW t \in Scopes, NEW id \in Durable \X Scopes, Loses(t, id)
             PROVE spent'.acks > spent.acks \/ spent'.restarts > spent.restarts \/ Handled(t, id)
  BY DEF KeptStep
<1>0. id[1] \in Durable
  OBVIOUS
<1>1. ASSUME NEW s \in sessions, Proceed(s) PROVE Handled(t, id)
  <2>1. Goes(s) => alerts'[t] = alerts[t]
    BY DEF Goes
  <2> QED
    BY <1>0, <1>1, <2>1, ProceedCases, KeptByReads, KeptSame, KeptByCloses
<1>2. ASSUME UNCHANGED alerts PROVE FALSE
  <2>1. alerts'[t] = alerts[t]
    BY <1>2
  <2> QED
    BY <1>0, <2>1, KeptSame
<1>3. ASSUME NEW x, NEW k, Acknowledge(x, k) PROVE spent'.acks > spent.acks
  <2>1. spent' = [spent EXCEPT !.acks = @ + 1]
    BY <1>3, Zenon DEF Acknowledge
  <2> QED
    BY <2>1 DEF Counted
<1>4. CASE TalkStep
  <2>1. ASSUME NEW x, Call(x) PROVE UNCHANGED alerts
    BY <2>1, Zenon DEF Call
  <2>2. ASSUME NEW m, Send(m) \/ SendReturns(m) PROVE UNCHANGED alerts
    BY <2>2, Zenon DEF Send, SendReturns
  <2>3. ASSUME NEW p, Vote(p) PROVE UNCHANGED alerts
    BY <2>3, Zenon DEF Vote, Initiate, Retract, CastVote
  <2> QED
    BY <1>1, <1>2, <1>3, <1>4, <2>1, <2>2, <2>3, Zenon DEF TalkStep
<1>5. ASSUME NEW frozen, Restart(frozen) PROVE spent'.restarts > spent.restarts
  <2>1. spent' = [spent EXCEPT !.restarts = @ + 1]
    BY <1>5, Zenon DEF Restart
  <2> QED
    BY <2>1 DEF Counted
<1>6. CASE FormationStep \/ UNCHANGED vars
  <2>1. UNCHANGED alerts
    BY <1>6 DEF FormationStep, vars, talkVars
  <2> QED
    BY <1>2, <2>1
<1> QED
  BY <1>4, <1>5, <1>6, Zenon DEF Next

Unacknowledged == spent.acks = 0

\* Occurrences of a lasting alert leave an inbox only by the success of a discussion
\* that has claimed all of them: what comes after its claim stays (_merge_alert_locked
\* counts it apart), and so does everything when the discussion fails.  This is for hosts
\* that acknowledge no alert: acknowledge removes one under a discussion that has claimed
\* it, and the success of that discussion takes what has come again meanwhile, unseen.
THEOREM NoAlertIsLost == Spec /\ []Unacknowledged => AlertsKept
<1>1. Shaped /\ Counted /\ Boxed /\ Claiming /\ Unacknowledged /\ [Next]_vars => [KeptStep]_vars
  BY AlertsStep DEF Unacknowledged
<1>2. [][KeptStep]_vars => AlertsKept
  BY PTL DEF AlertsKept, KeptStep, Loses
<1> QED
  BY <1>1, <1>2, ShapedInvariant, CountedInvariant, BoxedInvariant, ClaimingInvariant, PTL DEF Spec

-----------------------------------------------------------------------------
(* Wakeups. *)

\* The wakeups that are active are those of the discussions there are, and of two
\* discussions of an AgentTeam no alert has woken both.
Keyed ==
    /\ wakeups = Keys(sessions)
    /\ \A r, q \in sessions :
         r.team = q.team /\ r.wake = q.wake /\ r.wake[1] \in Durable => r = q

LEMMA KeysAre ==
    ASSUME NEW S
    PROVE  \A k : k \in Keys(S) <=> \E r \in S : r.wake[1] \in Durable /\ k = <<r.team, r.wake>>
BY DEF Keys

\* The discussions that the end of one schedules have wakeups of their own.
Opens(s, N) ==
    /\ sessions' = (sessions \ {s}) \cup N
    /\ wakeups' = (wakeups \cup Keys(N)) \ Keys({s})
    /\ \A n \in N : n.wake[1] \in Durable => <<n.team, n.wake>> \notin wakeups
    /\ \A m, n \in N : m.team = n.team /\ m.wake = n.wake => m = n

LEMMA CloseWakeups ==
    ASSUME Shaped, Boxed, NEW s \in sessions, Running(s), NEW kinds, NEW ok \in BOOLEAN, Close(s, kinds, ok)
    PROVE  \E N : Opens(s, N)
<1> DEFINE up == Parent[s.team]
           told == IF up = NoTeam THEN {} ELSE kinds
           mine == Released(alerts[s.team], s.claims, ok)
           woken == {NewSession(up, <<k, s.team>>, TRUE) :
                       k \in {k \in told : Idle(up) /\ Wakes(up, <<k, s.team>>)}}
           next == {NewSession(s.team, id, s.lost) : id \in Followup(s.team, mine)}
<1>1. /\ sessions' = (sessions \ {s}) \cup woken \cup next
      /\ wakeups' = (wakeups \cup Keys(woken \cup next)) \ Keys({s})
  BY Zenon DEF Close, Ends
<1>2. \A t, id, lost : NewSession(t, id, lost).team = t /\ NewSession(t, id, lost).wake = id
  BY DEF NewSession
<1>3. Box(mine)
  BY ReleasedBox DEF Shaped, IsSession, Boxed
<1>4. \A n \in woken : \E id : n = NewSession(up, id, TRUE) /\ Idle(up) /\ Wakes(up, id)
  OBVIOUS
<1>5. \A n \in next : \E id \in Followup(s.team, mine) : n = NewSession(s.team, id, s.lost)
  OBVIOUS
<1> HIDE DEF mine, woken, next
<1>6. ASSUME NEW id \in Followup(s.team, mine) PROVE Wakes(s.team, id)
  BY <1>6 DEF Followup
<1>7. ASSUME NEW id \in Followup(s.team, mine), NEW oth \in Followup(s.team, mine) PROVE id = oth
  <2> DEFINE waking == {j \in DOMAIN mine : mine[j].id[1] \in limit.wakes}
  <2>1. PICK j \in waking : id = mine[j].id /\ \A i \in waking : j <= i
    BY <1>7 DEF Followup
  <2>2. PICK k \in waking : oth = mine[k].id /\ \A i \in waking : k <= i
    BY <1>7 DEF Followup
  <2>3. j \in Nat /\ k \in Nat /\ j <= k /\ k <= j
    BY <1>3, <2>1, <2>2 DEF Box
  <2>4. j = k
    BY <2>3
  <2> QED
    BY <2>1, <2>2, <2>4
<1>8. ~Idle(s.team)
  BY DEF Idle
<1>9. ASSUME NEW n \in woken \cup next, n.wake[1] \in Durable PROVE <<n.team, n.wake>> \notin wakeups
  <2>1. PICK t, id, lost : n = NewSession(t, id, lost) /\ Wakes(t, id)
    BY <1>4, <1>5, <1>6
  <2>2. n.team = t /\ n.wake = id
    BY <1>2, <2>1
  <2> QED
    BY <1>9, <2>1, <2>2 DEF Wakes
<1>10. ASSUME NEW m \in woken \cup next, NEW n \in woken \cup next, m.team = n.team, m.wake = n.wake
       PROVE  m = n
  <2>1. CASE m \in woken /\ n \in woken
    <3>1. PICK k : m = NewSession(up, k, TRUE)
      BY <1>4, <2>1
    <3>2. PICK l : n = NewSession(up, l, TRUE)
      BY <1>4, <2>1
    <3>3. m.wake = k /\ n.wake = l
      <4> HIDE DEF up
      <4>1. m.wake = k
        BY <1>2, <3>1
      <4>2. n.wake = l
        BY <1>2, <3>2
      <4> QED
        BY <4>1, <4>2
    <3> QED
      BY <1>10, <3>1, <3>2, <3>3
  <2>2. CASE m \in next /\ n \in next
    <3>1. PICK k \in Followup(s.team, mine) : m = NewSession(s.team, k, s.lost)
      BY <1>5, <2>2
    <3>2. PICK l \in Followup(s.team, mine) : n = NewSession(s.team, l, s.lost)
      BY <1>5, <2>2
    <3> QED
      BY <1>7, <3>1, <3>2
  <2>3. ASSUME NEW w \in woken, NEW x \in next, w.team = x.team PROVE FALSE
    <3>1. PICK k : w = NewSession(up, k, TRUE) /\ Idle(up)
      BY <1>4
    <3>2. PICK l : x = NewSession(s.team, l, s.lost)
      BY <1>5
    <3>3. w.team = up /\ x.team = s.team
      <4> HIDE DEF up
      <4>1. w.team = up
        BY <1>2, <3>1
      <4>2. x.team = s.team
        BY <1>2, <3>2
      <4> QED
        BY <4>1, <4>2
    <3>4. up = s.team
      BY <2>3, <3>3
    <3> HIDE DEF up
    <3> QED
      BY <1>8, <3>1, <3>4
  <2> QED
    BY <1>10, <2>1, <2>2, <2>3
<1>11. PICK N : N = woken \cup next
  OBVIOUS
<1> QED
  BY <1>1, <1>9, <1>10, <1>11 DEF Opens

LEMMA KeyedByBecomes ==
    ASSUME Keyed, NEW s \in sessions, NEW y, NEW c, Becomes(s, y, c)
    PROVE  Keyed'
<1>1. y.team = s.team /\ y.wake = s.wake /\ sessions' = (sessions \ {s}) \cup {y} /\ wakeups' = wakeups
  BY DEF Becomes
<1>2. ASSUME NEW k PROVE k \in Keys(sessions) <=> k \in Keys(sessions')
  <2>1. k \in Keys(sessions) <=> \E r \in sessions : r.wake[1] \in Durable /\ k = <<r.team, r.wake>>
    BY KeysAre
  <2>2. k \in Keys(sessions') <=> \E r \in sessions' : r.wake[1] \in Durable /\ k = <<r.team, r.wake>>
    BY KeysAre
  <2> QED
    BY <1>1, <2>1, <2>2
<1>3. wakeups' = Keys(sessions')
  <2>1. \A k : k \in wakeups <=> k \in Keys(sessions')
    BY <1>2 DEF Keyed
  <2>2. PICK K : K = Keys(sessions')
    OBVIOUS
  <2>3. K = {<<r.team, r.wake>> : r \in {x \in sessions' : x.wake[1] \in Durable}}
    BY <2>2 DEF Keys
  <2>4. wakeups = {<<r.team, r.wake>> : r \in {x \in sessions : x.wake[1] \in Durable}}
    BY DEF Keyed, Keys
  <2> QED
    BY <1>1, <2>1, <2>2, <2>3, <2>4
<1>4. ASSUME NEW r \in sessions', NEW q \in sessions', r.team = q.team, r.wake = q.wake, r.wake[1] \in Durable
      PROVE  r = q
  BY <1>1, <1>4 DEF Keyed
<1>5. Keys(sessions)' = Keys(sessions')
  BY DEF Keys
<1> QED
  BY <1>3, <1>4, <1>5 DEF Keyed

LEMMA KeyedByCloses ==
    ASSUME Shaped, Boxed, Keyed, NEW s \in sessions, Closes(s)
    PROVE  Keyed'
<1>1. PICK kinds \in SUBSET Kinds, ok \in BOOLEAN : Close(s, kinds, ok) /\ Running(s)
  BY Zenon DEF Closes
<1>2. PICK N : /\ sessions' = (sessions \ {s}) \cup N
               /\ wakeups' = (wakeups \cup Keys(N)) \ Keys({s})
               /\ \A n \in N : n.wake[1] \in Durable => <<n.team, n.wake>> \notin wakeups
               /\ \A m, n \in N : m.team = n.team /\ m.wake = n.wake => m = n
  <2>1. \E N : Opens(s, N)
    BY <1>1, CloseWakeups
  <2> QED
    BY <2>1 DEF Opens
<1>3. \A r \in sessions : r.wake[1] \in Durable => <<r.team, r.wake>> \in wakeups
  BY KeysAre DEF Keyed
<1>4. ASSUME NEW r \in sessions', NEW q \in sessions', r.team = q.team, r.wake = q.wake, r.wake[1] \in Durable
      PROVE  r = q
  BY <1>2, <1>3, <1>4 DEF Keyed
<1>5. ASSUME NEW k PROVE k \in wakeups' <=> k \in Keys(sessions')
  <2>1. k \in wakeups <=> \E r \in sessions : r.wake[1] \in Durable /\ k = <<r.team, r.wake>>
    BY KeysAre DEF Keyed
  <2>2. k \in Keys(sessions') <=> \E r \in sessions' : r.wake[1] \in Durable /\ k = <<r.team, r.wake>>
    BY KeysAre
  <2>3. k \in Keys(N) <=> \E r \in N : r.wake[1] \in Durable /\ k = <<r.team, r.wake>>
    BY KeysAre
  <2>4. k \in Keys({s}) <=> s.wake[1] \in Durable /\ k = <<s.team, s.wake>>
    BY KeysAre
  <2>5. k \in wakeups' <=> (k \in wakeups \/ k \in Keys(N)) /\ k \notin Keys({s})
    BY <1>2
  <2>6. \A r \in sessions \ {s} : ~(r.wake[1] \in Durable /\ r.team = s.team /\ r.wake = s.wake)
    BY DEF Keyed
  <2>7. \A n \in N : ~(n.wake[1] \in Durable /\ n.team = s.team /\ n.wake = s.wake)
    BY <1>2, <1>3
  <2>8. \A r \in sessions' : r \in sessions \ {s} \/ r \in N
    BY <1>2
  <2>9. (sessions \ {s}) \subseteq sessions' /\ N \subseteq sessions'
    BY <1>2
  <2>10. ASSUME k \in wakeups' PROVE k \in Keys(sessions')
    <3>1. k \notin Keys({s})
      BY <2>5, <2>10
    <3>2. CASE k \in wakeups
      <4>1. PICK r \in sessions : r.wake[1] \in Durable /\ k = <<r.team, r.wake>>
        BY <2>1, <3>2
      <4>2. r # s
        BY <2>4, <3>1, <4>1
      <4> QED
        BY <2>2, <2>9, <4>1, <4>2
    <3>3. CASE k \in Keys(N)
      BY <2>2, <2>3, <2>9, <3>3
    <3> QED
      BY <2>5, <2>10, <3>2, <3>3
  <2>11. ASSUME k \in Keys(sessions') PROVE k \in wakeups'
    <3>1. PICK r \in sessions' : r.wake[1] \in Durable /\ k = <<r.team, r.wake>>
      BY <2>2, <2>11
    <3>2. k \notin Keys({s})
      BY <2>4, <2>6, <2>7, <2>8, <3>1
    <3>3. k \in wakeups \/ k \in Keys(N)
      BY <2>1, <2>3, <2>8, <3>1
    <3> QED
      BY <2>5, <3>2, <3>3
  <2> QED
    BY <2>10, <2>11
<1>6. wakeups' = Keys(sessions')
  <2>1. PICK K : K = Keys(sessions')
    OBVIOUS
  <2>2. K = {<<r.team, r.wake>> : r \in {x \in sessions' : x.wake[1] \in Durable}}
    BY <2>1 DEF Keys
  <2>3. PICK A : A = wakeups' /\ \E X, Y : A = X \ Y
    BY <1>2
  <2> QED
    BY <1>5, <2>1, <2>2, <2>3
<1> QED
  BY <1>4, <1>6 DEF Keyed, Keys

LEMMA KeyedQuiet == ASSUME Keyed, UNCHANGED <<sessions, wakeups>> PROVE Keyed'
BY DEF Keyed, Keys

LEMMA KeyedStep ==
    ASSUME Shaped, Boxed, Keyed, [Next]_vars
    PROVE  Keyed'
<1>1. ASSUME NEW s \in sessions, Proceed(s) PROVE Keyed'
  <2>1. CASE Reads(s) \/ Goes(s)
    <3>1. PICK y, c : Becomes(s, y, c)
      BY <2>1 DEF Reads, Goes
    <3> QED
      BY <3>1, KeyedByBecomes
  <2> QED
    BY <1>1, <2>1, ProceedCases, KeyedByCloses
<1>2. ASSUME NEW t, Call(t) PROVE Keyed'
  <2>1. PICK n : n = NewSession(t, Called, FALSE)
    OBVIOUS
  <2>2. n.wake[1] \notin Durable
    <3>1. n.wake = Called
      BY <2>1 DEF NewSession
    <3>2. Called[1] = "call"
      BY DEF Called
    <3> QED
      BY <3>1, <3>2 DEF Durable
  <2>3. sessions' = sessions \cup {n} /\ wakeups' = wakeups
    BY <1>2, <2>1, Zenon DEF Call
  <2>4. \A r \in sessions' : r.wake[1] \in Durable => r \in sessions
    BY <2>2, <2>3
  <2>5. sessions \subseteq sessions'
    BY <2>3
  <2>6. \A r, q \in sessions' :
          r.team = q.team /\ r.wake = q.wake /\ r.wake[1] \in Durable => r = q
    BY <2>4 DEF Keyed
  <2>7. {x \in sessions' : x.wake[1] \in Durable} = {x \in sessions : x.wake[1] \in Durable}
    BY <2>4, <2>5
  <2>8. Keys(sessions)' = Keys(sessions)
    BY <2>7, Zenon DEF Keys
  <2> QED
    BY <2>3, <2>6, <2>8 DEF Keyed
<1>3. CASE TalkStep
  <2>1. ASSUME NEW m, Send(m) \/ SendReturns(m) PROVE UNCHANGED <<sessions, wakeups>>
    BY <2>1, Zenon DEF Send, SendReturns
  <2>2. ASSUME NEW p, Vote(p) PROVE UNCHANGED <<sessions, wakeups>>
    BY <2>2, Zenon DEF Vote, Initiate, Retract, CastVote
  <2>3. ASSUME NEW t, NEW id, Acknowledge(t, id) PROVE UNCHANGED <<sessions, wakeups>>
    BY <2>3, Zenon DEF Acknowledge
  <2> QED
    BY <1>1, <1>2, <1>3, <2>1, <2>2, <2>3, KeyedQuiet, Zenon DEF TalkStep
<1>4. ASSUME NEW frozen, Restart(frozen) PROVE Keyed'
  <2>1. sessions' = {} /\ wakeups' = {}
    BY <1>4, Zenon DEF Restart, Recover
  <2>2. Keys(sessions)' = {}
    BY <2>1 DEF Keys
  <2> QED
    BY <2>1, <2>2 DEF Keyed
<1>5. CASE FormationStep \/ UNCHANGED vars
  <2>1. UNCHANGED <<sessions, wakeups>>
    BY <1>5 DEF FormationStep, vars, talkVars
  <2> QED
    BY <2>1, KeyedQuiet
<1> QED
  BY <1>3, <1>4, <1>5, Zenon DEF Next

LEMMA KeyedInit == Init => Keyed
BY DEF Init, Keyed, Keys

LEMMA KeyedInvariant == Spec => []Keyed
BY KeyedInit, KeyedStep, ShapedInvariant, BoxedInvariant, PTL DEF Spec

-----------------------------------------------------------------------------
(* The delivery states. *)

PeerStates == {"none", "pending", "consumed"}
Posted == \A m \in Messages : peer[m] \in PeerStates /\ disk.peer[m] \in PeerStates

LEMMA PostedBySave ==
    ASSUME Posted, \A m \in Messages : peer'[m] \in PeerStates,
           disk' = disk \/ \E ts, ms : Save(ts, ms)
    PROVE  Posted'
<1>1. ASSUME NEW ts, NEW ms, Save(ts, ms), NEW m \in Messages PROVE disk'.peer[m] \in PeerStates
  <2>1. disk'.peer = [x \in Messages |-> IF x \in ms THEN peer'[x] ELSE disk.peer[x]]
    BY <1>1 DEF Save
  <2> QED
    BY <2>1 DEF Posted
<1> QED
  BY <1>1 DEF Posted

LEMMA PostedStep ==
    ASSUME Shaped, Posted, [Next]_vars
    PROVE  Posted'
<1>1. ASSUME NEW s \in sessions, Proceed(s) PROVE Posted'
  <2>1. CASE Reads(s) \/ Goes(s)
    BY <2>1 DEF Reads, Goes, Becomes, Posted
  <2>2. CASE Closes(s)
    <3>1. PICK kinds \in SUBSET Kinds, ok \in BOOLEAN : Close(s, kinds, ok)
      BY <2>2, Zenon DEF Closes
    <3>2. PICK C : peer' = [m \in Messages |-> IF m \in C /\ peer[m] # "none" THEN "consumed" ELSE peer[m]]
      BY <3>1, Zenon DEF Close
    <3>3. \A m \in Messages : peer'[m] \in PeerStates
      BY <3>2 DEF Posted, PeerStates
    <3>4. disk' = disk \/ \E ts, ms : Save(ts, ms)
      BY <3>1, Zenon DEF Close
    <3> QED
      BY <3>3, <3>4, PostedBySave
  <2> QED
    BY <1>1, <2>1, <2>2, ProceedCases
<1>2. ASSUME NEW m, Send(m) \/ SendReturns(m) PROVE Posted'
  <2>1. \E x : \E k \in PeerStates : peer' = [peer EXCEPT ![x] = k] \/ peer' = peer
    BY <1>2, Zenon DEF Send, SendReturns, PeerStates
  <2>2. \A y \in Messages : peer'[y] \in PeerStates
    BY <2>1 DEF Shaped, Posted
  <2>3. disk' = disk \/ \E ts, ms : Save(ts, ms)
    BY <1>2, Zenon DEF Send, SendReturns
  <2> QED
    BY <2>2, <2>3, PostedBySave
<1>3. ASSUME NEW t, NEW id, Acknowledge(t, id) PROVE Posted'
  <2>1. UNCHANGED peer /\ \E ts, ms : Save(ts, ms)
    BY <1>3, Zenon DEF Acknowledge
  <2> QED
    BY <2>1, PostedBySave DEF Posted
<1>4. CASE TalkStep
  <2>1. ASSUME NEW t, Call(t) PROVE Posted'
    BY <2>1 DEF Call, Posted
  <2>2. ASSUME NEW p, Vote(p) PROVE Posted'
    <3>1. UNCHANGED <<peer, disk>>
      BY <2>2, Zenon DEF Vote, Initiate, Retract, CastVote
    <3> QED
      BY <3>1 DEF Posted
  <2> QED
    BY <1>1, <1>2, <1>3, <1>4, <2>1, <2>2, Zenon DEF TalkStep
<1>5. ASSUME NEW frozen, Restart(frozen) PROVE Posted'
  <2>1. peer' = disk.peer /\ disk' = disk
    BY <1>5, Zenon DEF Restart, Recover
  <2> QED
    BY <2>1 DEF Posted
<1>6. CASE FormationStep \/ UNCHANGED vars
  <2>1. UNCHANGED <<peer, disk>>
    BY <1>6 DEF FormationStep, vars, talkVars
  <2> QED
    BY <2>1 DEF Posted
<1> QED
  BY <1>4, <1>5, <1>6, Zenon DEF Next

LEMMA PostedInit == Init => Posted
BY DEF Init, Posted, PeerStates

LEMMA PostedInvariant == Spec => []Posted
BY PostedInit, PostedStep, ShapedInvariant, PTL DEF Spec

-----------------------------------------------------------------------------
(* The locks of drafts. *)

\* A draft has one holder, a commit or a publication that waits.  One that is
\* unknown has none: nothing it could be rolled back to is unknown but by the
\* commit that holds it.
DraftLocks ==
    /\ \A f, g \in flight : f # g => f.drafts \cap g.drafts = {}
    /\ \A w \in waiting, f \in flight : w.draft \notin f.drafts
    /\ \A v, w \in waiting : v.draft = w.draft => v = w
    /\ \A d \in Drafts : drafts[d].status = "none" => DraftFree(d)
    /\ \A f \in flight :
         /\ f.kind = "auto" => f.drafts = {}
         /\ \A d \in DOMAIN f.undo.drafts : d \in f.drafts \/ f.undo.drafts[d].status # "none"

\* What an operation that commits holds.
Freed(d) == DraftFree(d) \/ \E w \in waiting : w.draft = d /\ waiting' = waiting \ {w}

Fresh(c) ==
    /\ \A d \in c.drafts : drafts'[d].status # "none" /\ Freed(d)
    /\ c.kind = "auto" => c.drafts = {}
    /\ \A d \in DOMAIN c.undo.drafts : d \in c.drafts \/ c.undo.drafts[d].status # "none"

Waits(w) == DraftFree(w.draft) /\ drafts'[w.draft].status # "none" /\ flight' = flight

Holding ==
    /\ \A d \in Drafts : drafts'[d].status = "none" => drafts[d].status = "none"
    /\ waiting' \subseteq waiting \/ \E w : waiting' = waiting \cup {w} /\ Waits(w)
    /\ flight' = flight \/ \E c : flight' = flight \cup {c} /\ Fresh(c)

LEMMA DraftLocksByHolding ==
    ASSUME Formed, DraftLocks, Holding
    PROVE  DraftLocks'
<1>1. CASE flight' = flight
  <2>1. \A v, w \in waiting' : v.draft = w.draft => v = w
    BY <1>1 DEF DraftLocks, Holding, Waits, DraftFree
  <2>2. \A w \in waiting', f \in flight' : w.draft \notin f.drafts
    BY <1>1 DEF DraftLocks, Holding, Waits, DraftFree
  <2>3. \A d \in Drafts : drafts'[d].status = "none" => DraftFree(d)'
    BY <1>1 DEF DraftLocks, Holding, Waits, DraftFree
  <2> QED
    BY <1>1, <2>1, <2>2, <2>3 DEF DraftLocks
<1>2. ASSUME NEW c, flight' = flight \cup {c}, Fresh(c), waiting' \subseteq waiting PROVE DraftLocks'
  <2>1. \A d \in c.drafts, f \in flight : d \notin f.drafts
    BY <1>2 DEF Fresh, Freed, DraftFree, DraftLocks
  <2>2. \A d \in c.drafts, w \in waiting' : w.draft # d
    BY <1>2 DEF Fresh, Freed, DraftFree, DraftLocks
  <2>3. \A f, g \in flight' : f # g => f.drafts \cap g.drafts = {}
    BY <1>2, <2>1 DEF DraftLocks
  <2>4. \A w \in waiting', f \in flight' : w.draft \notin f.drafts
    BY <1>2, <2>2 DEF DraftLocks
  <2>5. ASSUME NEW d \in Drafts, drafts'[d].status = "none" PROVE DraftFree(d)'
    <3>1. DraftFree(d)
      BY <2>5 DEF Holding, DraftLocks
    <3>2. d \notin c.drafts
      BY <1>2, <2>5 DEF Fresh
    <3> QED
      BY <1>2, <3>1, <3>2 DEF DraftFree
  <2>6. \A f \in flight' :
         /\ f.kind = "auto" => f.drafts = {}
         /\ \A d \in DOMAIN f.undo.drafts : d \in f.drafts \/ f.undo.drafts[d].status # "none"
    BY <1>2 DEF DraftLocks, Fresh
  <2>7. \A v, w \in waiting' : v.draft = w.draft => v = w
    BY <1>2 DEF DraftLocks
  <2> QED
    BY <2>3, <2>4, <2>5, <2>6, <2>7 DEF DraftLocks
<1> QED
  BY <1>1, <1>2 DEF Holding, Waits

LEMMA DraftLocksByEnd ==
    ASSUME Formed, DraftLocks, flight' \subseteq flight, UNCHANGED waiting,
           \A d \in Drafts : drafts'[d].status = "none" => drafts[d].status = "none"
    PROVE  DraftLocks'
<1>1. \A d : DraftFree(d) => DraftFree(d)'
  BY DEF DraftFree
<1> QED
  BY <1>1 DEF DraftLocks

Owned(v, f) ==
    IF v.draft \in DOMAIN f.undo.drafts /\ v.own = {} THEN [v EXCEPT !.own = {drafts[v.draft]}] ELSE v

LEMMA DraftLocksByFail ==
    ASSUME Formed, DraftLocks, NEW f \in flight, Fail(f)
    PROVE  DraftLocks'
<1>1. /\ flight' = (flight \ {f}) \cup (IF f.kind = "auto" THEN {Reason(f)} ELSE {})
      /\ drafts' = Override(drafts, f.undo.drafts)
  BY FailSteps
<1>2. PICK r : r = Reason(f)
  OBVIOUS
<1>3. r.drafts = f.drafts /\ r.kind = "reason" /\ r.undo.drafts = <<>>
  <2>1. r = [requests |-> f.requests, drafts |-> f.drafts, undo |-> ReasonUndo(f), after |-> f.after, kind |-> "reason"]
    BY <1>2, ReasonFacts
  <2>2. ReasonUndo(f).drafts = <<>>
    BY ReasonFacts
  <2> QED
    BY <2>1, <2>2
<1>4. \A g \in flight' : (g \in flight /\ g # f) \/ (g = r /\ f.drafts = {})
  BY <1>1, <1>2 DEF DraftLocks
<1>5. \A w \in waiting' : \E v \in waiting : w = Owned(v, f)
  BY Zenon DEF Fail, Owned
<1>6. \A w \in waiting' : \E v \in waiting : w.draft = v.draft /\ w = Owned(v, f)
  <2>1. \A v \in waiting : v = [draft |-> v.draft, own |-> v.own]
    BY DEF Formed, IsWait
  <2>2. ASSUME NEW v \in waiting PROVE Owned(v, f).draft = v.draft
    BY <2>1 DEF Owned
  <2> QED
    BY <1>5, <2>2
<1>7. \A v, w \in waiting' : v.draft = w.draft => v = w
  BY <1>6 DEF DraftLocks
<1>8. \A g, h \in flight' : g # h => g.drafts \cap h.drafts = {}
  BY <1>3, <1>4 DEF DraftLocks
<1>9. \A w \in waiting', g \in flight' : w.draft \notin g.drafts
  BY <1>3, <1>4, <1>6 DEF DraftLocks
<1>10. \A g \in flight' :
         /\ g.kind = "auto" => g.drafts = {}
         /\ \A d \in DOMAIN g.undo.drafts : d \in g.drafts \/ g.undo.drafts[d].status # "none"
  BY <1>3, <1>4, EmptyDomain DEF DraftLocks
<1>11. ASSUME NEW d \in Drafts, drafts'[d].status = "none" PROVE DraftFree(d)'
  <2>1. drafts'[d] = At(f.undo.drafts, drafts, d)
    BY <1>1, Registries DEF Formed, Override, At
  <2>2. CASE d \in DOMAIN f.undo.drafts
    <3>1. f.undo.drafts[d].status = "none"
      BY <1>11, <2>1, <2>2 DEF At
    <3>2. d \in f.drafts
      BY <2>2, <3>1 DEF DraftLocks
    <3>3. \A g \in flight' : d \notin g.drafts
      BY <1>3, <1>4, <3>2 DEF DraftLocks
    <3>4. \A w \in waiting' : w.draft # d
      BY <1>6, <3>2 DEF DraftLocks
    <3> QED
      BY <3>3, <3>4 DEF DraftFree
  <2>3. CASE d \notin DOMAIN f.undo.drafts
    <3>1. DraftFree(d)
      BY <1>11, <2>1, <2>3 DEF At, DraftLocks
    <3> QED
      BY <1>3, <1>4, <1>6, <3>1 DEF DraftFree
  <2> QED
    BY <2>2, <2>3
<1> QED
  BY <1>7, <1>8, <1>9, <1>10, <1>11 DEF DraftLocks

LEMMA HoldingQuiet ==
    ASSUME UNCHANGED <<drafts, flight>>, waiting' \subseteq waiting
    PROVE  Holding
BY DEF Holding

LEMMA HoldingCommit ==
    ASSUME \A d \in Drafts : drafts'[d].status = "none" => drafts[d].status = "none",
           waiting' \subseteq waiting,
           NEW rs, NEW ds, NEW u, NEW after, NEW kind, Commit(rs, ds, u, after, kind),
           \A d \in ds : drafts'[d].status # "none" /\ Freed(d),
           kind = "auto" => ds = {},
           NEW R, u.drafts = R, \A d \in DOMAIN R : d \in ds \/ R[d].status # "none"
    PROVE  Holding
<1>1. PICK c : c = [requests |-> rs, drafts |-> ds, undo |-> u, after |-> after, kind |-> kind]
  OBVIOUS
<1>2. flight' = flight \cup {c}
  BY <1>1 DEF Commit
<1>3. Fresh(c)
  BY <1>1 DEF Fresh
<1> QED
  BY <1>2, <1>3 DEF Holding

\* The drafts that are put back.
LEMMA UndoDrafts ==
    ASSUME NEW F, NEW D, NEW R, NEW M, NEW L, NEW T
    PROVE  /\ DraftUndo(R).drafts = R /\ NoteUndo(R, L).drafts = R
           /\ FormUndo(F, L).drafts = <<>> /\ DraftsUndo(F, R, L).drafts = R
           /\ AnswerUndo(F, D, L).drafts = <<>> /\ JoinUndo(F, D, M, L).drafts = <<>>
           /\ CreationUndo(F, D, R, L, T).drafts = R
<1>1. \A F1, D1, R1, M1, L1, T1 : UndoIs(F1, D1, R1, M1, L1, T1).drafts = R1
  BY DEF UndoIs
<1> QED
  BY <1>1, DraftUndoIs, NoteUndoIs, FormUndoIs, DraftsUndoIs, AnswerUndoIs, JoinUndoIs, CreationUndoIs

\* No draft is involved.
LEMMA HoldingPlain ==
    ASSUME UNCHANGED <<drafts, waiting>>,
           NEW rs, NEW u, NEW after, Commit(rs, {}, u, after, "call"), u.drafts = <<>>
    PROVE  Holding
<1>1. PICK ds, R, kind : ds = {} /\ R = <<>> /\ kind = "call"
  OBVIOUS
<1>2. /\ Commit(rs, ds, u, after, kind) /\ u.drafts = R /\ waiting' \subseteq waiting
      /\ \A d \in ds : drafts'[d].status # "none" /\ Freed(d)
      /\ kind = "auto" => ds = {}
      /\ \A d \in DOMAIN R : d \in ds \/ R[d].status # "none"
      /\ \A d \in Drafts : drafts'[d].status = "none" => drafts[d].status = "none"
  BY <1>1, EmptyDomain
<1> QED
  BY <1>2, HoldingCommit

\* Completed drafts become stale.
LEMMA StaledStatus ==
    ASSUME Formed, Balloted, NEW S \in SUBSET Drafts
    PROVE  \A d \in Drafts : Staled(S)[d].status = "none" => drafts[d].status = "none"
<1>1. \A d \in Drafts : drafts[d] \in Drafty
  BY Registries
<1>2. \A d \in Drafts : [drafts[d] EXCEPT !.status = "STALE"].status = "STALE"
  BY <1>1 DEF Drafty, DraftTypes
<1> QED
  BY <1>2 DEF Staled

LEMMA HoldingStaled ==
    ASSUME Formed, Balloted, UNCHANGED waiting,
           NEW stale \in SUBSET Drafts, \A d \in stale : drafts[d].status = "READY",
           drafts' = Staled(stale),
           NEW rs, NEW u, NEW kind, Commit(rs, {}, u, {}, kind), u.drafts = Only(drafts, stale)
    PROVE  Holding
<1>1. \A d \in Drafts : drafts'[d].status = "none" => drafts[d].status = "none"
  BY StaledStatus
<1>2. PICK ds, R, after : ds = {} /\ R = Only(drafts, stale) /\ after = {}
  OBVIOUS
<1>3. /\ Commit(rs, ds, u, after, kind) /\ u.drafts = R /\ waiting' \subseteq waiting
      /\ \A d \in ds : drafts'[d].status # "none" /\ Freed(d)
      /\ kind = "auto" => ds = {}
  BY <1>2
<1>4. \A d \in DOMAIN R : d \in ds \/ R[d].status # "none"
  BY <1>2, OnlyFacts
<1> QED
  BY <1>1, <1>3, <1>4, HoldingCommit

LEMMA FinalizeHolding ==
    ASSUME Formed, Balloted, UNCHANGED waiting, NEW q, NEW f, NEW before, NEW kind, Finalize(q, f, before, kind)
    PROVE  Holding
<1>1. PICK stale, told : stale = Stale(q, {}) /\ told = Invited(f) \cup {Initiator[q]}
  OBVIOUS
<1>2. PICK u : u = CreationUndo([x \in {q} |-> before], Only(decided, {q}), Only(drafts, stale), Only(mail, told), {teams})
  OBVIOUS
<1>3. Commit({q}, {}, u, {}, kind) /\ drafts' = Staled(stale)
  BY <1>1, <1>2 DEF Finalize, CreationUndo
<1>4. u.drafts = Only(drafts, stale)
  BY <1>2, UndoDrafts
<1>5. stale \in SUBSET Drafts /\ \A d \in stale : drafts[d].status = "READY"
  BY <1>1, StaleFacts
<1> QED
  BY <1>3, <1>4, <1>5, HoldingStaled

LEMMA AbandonHolding ==
    ASSUME Formed, Balloted, NEW q, Abandon(q)
    PROVE  Holding
<1>1. PICK stale, told : stale = Stale(q, {}) /\ told = Invited(forms[q]) \cup {Initiator[q]}
  OBVIOUS
<1>2. PICK u : u = DraftsUndo(Only(forms, {q}), Only(drafts, stale), Only(mail, told))
  OBVIOUS
<1>3. Commit({q}, {}, u, {}, "call") /\ drafts' = Staled(stale) /\ UNCHANGED waiting
  BY <1>1, <1>2 DEF Abandon, DraftsUndo
<1>4. u.drafts = Only(drafts, stale)
  BY <1>2, UndoDrafts
<1>5. stale \in SUBSET Drafts /\ \A d \in stale : drafts[d].status = "READY"
  BY <1>1, StaleFacts
<1> QED
  BY <1>3, <1>4, <1>5, HoldingStaled

LEMMA JoinHolding ==
    ASSUME NEW q, NEW a, NEW before, NEW undone, Join(q, a, before, undone)
    PROVE  Holding
<1>1. PICK u : u = JoinUndo([x \in {q} |-> before], Only(decided, {q}), Only(members, {q}), Only(mail, undone))
  OBVIOUS
<1>2. Commit({q}, {}, u, {}, "call") /\ UNCHANGED <<drafts, waiting>>
  BY <1>1 DEF Join, JoinUndo
<1>3. u.drafts = <<>>
  BY <1>1, UndoDrafts
<1> QED
  BY <1>2, <1>3, HoldingPlain

\* Every operation on a request but a revision.
LEMMA RequestHolding ==
    ASSUME Formed, Balloted, NEW q, NEW a, NEW n, NEW answer, NEW approved, NEW c,
           \/ Propose(q, c) \/ Respond(q, a, n, answer) \/ RespondLate(q, a, n, answer)
           \/ Create(q) \/ AutoCreate(q, n) \/ Abandon(q) \/ DecideLate(q, a, approved)
    PROVE  Holding
<1>1. ASSUME NEW S, Commit({q}, {}, [NoUndo EXCEPT !.forms = Only(forms, {q}), !.decided = Only(decided, {q}),
                                                   !.mail = Only(mail, S)], {}, "call"),
             UNCHANGED <<drafts, waiting>>
      PROVE  Holding
  <2>1. PICK u : u = AnswerUndo(Only(forms, {q}), Only(decided, {q}), Only(mail, S))
    OBVIOUS
  <2>2. Commit({q}, {}, u, {}, "call") /\ u.drafts = <<>>
    BY <1>1, <2>1, UndoDrafts DEF AnswerUndo
  <2> QED
    BY <1>1, <2>2, HoldingPlain
<1>2. CASE Propose(q, c)
  BY <1>2, HoldingQuiet DEF Propose
<1>3. CASE Respond(q, a, n, answer)
  <2>1. UNCHANGED waiting
    BY <1>3 DEF Respond
  <2>2. CASE \E f : Finalize(q, f, forms[q], "call")
    BY <2>1, <2>2, FinalizeHolding
  <2>3. CASE /\ Commit({q}, {}, [NoUndo EXCEPT !.forms = Only(forms, {q}), !.decided = Only(decided, {q}),
                                               !.mail = Only(mail, {Initiator[q], a})], {}, "call")
             /\ UNCHANGED drafts
    BY <1>1, <2>1, <2>3
  <2> QED
    BY <1>3, <2>2, <2>3, Zenon DEF Respond
<1>4. CASE RespondLate(q, a, n, answer)
  <2>1. CASE Join(q, a, forms[q], {Initiator[q], a})
    BY <2>1, JoinHolding
  <2>2. CASE /\ Commit({q}, {}, [NoUndo EXCEPT !.forms = Only(forms, {q}), !.decided = Only(decided, {q}),
                                               !.mail = Only(mail, {Initiator[q], a})], {}, "call")
             /\ UNCHANGED <<drafts, waiting>>
    BY <1>1, <2>2
  <2> QED
    BY <1>4, <2>1, <2>2 DEF RespondLate
<1>5. CASE Create(q)
  BY <1>5, FinalizeHolding DEF Create
<1>6. CASE AutoCreate(q, n)
  BY <1>6, FinalizeHolding, HoldingQuiet DEF AutoCreate
<1>7. CASE DecideLate(q, a, approved)
  <2>1. CASE Join(q, a, forms[q], {a})
    BY <2>1, JoinHolding
  <2>2. CASE /\ Commit({q}, {}, FormUndo(Only(forms, {q}), Only(mail, {a})), {}, "call")
             /\ UNCHANGED <<drafts, waiting>>
    <3>1. PICK u : u = FormUndo(Only(forms, {q}), Only(mail, {a}))
      OBVIOUS
    <3>2. u.drafts = <<>> /\ Commit({q}, {}, u, {}, "call")
      BY <2>2, <3>1, UndoDrafts
    <3> QED
      BY <2>2, <3>2, HoldingPlain
  <2> QED
    BY <1>7, <2>1, <2>2 DEF DecideLate, FormUndo
<1> QED
  BY <1>2, <1>3, <1>4, <1>5, <1>6, <1>7, AbandonHolding

\* One draft changes, which its commit holds.
LEMMA HoldingOne ==
    ASSUME Formed, Balloted, UNCHANGED waiting, NEW d \in Drafts, DraftFree(d),
           NEW x, x.status # "none", drafts' = [drafts EXCEPT ![d] = x],
           NEW rs, NEW u, NEW after, NEW kind, kind # "auto", Commit(rs, {d}, u, after, kind),
           u.drafts = Only(drafts, {d})
    PROVE  Holding
<1>1. \A e \in Drafts : drafts'[e] = IF e = d THEN x ELSE drafts[e]
  BY Registries
<1>2. \A e \in Drafts : drafts'[e].status = "none" => drafts[e].status = "none"
  BY <1>1
<1>3. PICK ds, R : ds = {d} /\ R = Only(drafts, {d})
  OBVIOUS
<1>4. /\ Commit(rs, ds, u, after, kind) /\ u.drafts = R /\ waiting' \subseteq waiting
      /\ \A e \in ds : drafts'[e].status # "none" /\ Freed(e)
      /\ kind = "auto" => ds = {}
  BY <1>1, <1>3 DEF Freed
<1>5. \A e \in DOMAIN R : e \in ds \/ R[e].status # "none"
  BY <1>3, OnlyFacts
<1> QED
  BY <1>2, <1>4, <1>5, HoldingCommit

LEMMA SetDraftHolding ==
    ASSUME Formed, Balloted, NEW d \in Drafts, DraftFree(d), NEW x, x.status # "none",
           NEW after, NEW kind, kind # "auto", SetDraft(d, x, after, kind)
    PROVE  Holding
<1>1. PICK u : u = DraftUndo(Only(drafts, {d}))
  OBVIOUS
<1>2. /\ Commit({}, {d}, u, after, kind) /\ drafts' = [drafts EXCEPT ![d] = x] /\ UNCHANGED waiting
      /\ u.drafts = Only(drafts, {d})
  BY <1>1, UndoDrafts DEF SetDraft, DraftUndo
<1> QED
  BY <1>2, HoldingOne

LEMMA ConcludeHolding ==
    ASSUME Formed, Balloted, NEW d \in Drafts, NEW x, x.status # "none", Conclude(d, x)
    PROVE  Holding
<1>1. CASE drafts[d].status = "RUNNING"
  <2>1. PICK u : u = NoteUndo(Only(drafts, {d}), Only(mail, {Initiator[d]}))
    OBVIOUS
  <2>2. /\ Commit({}, {d}, u, {}, "task") /\ drafts' = [drafts EXCEPT ![d] = x] /\ UNCHANGED waiting
        /\ u.drafts = Only(drafts, {d}) /\ DraftFree(d)
    BY <1>1, <2>1, UndoDrafts DEF Conclude, NoteUndo
  <2>3. "task" # "auto"
    OBVIOUS
  <2> QED
    BY <2>2, <2>3, HoldingOne
<1>2. CASE UNCHANGED <<drafts, flight>>
  BY <1>2, HoldingQuiet DEF Conclude
<1> QED
  BY <1>1, <1>2 DEF Conclude

LEMMA StatusOf == ASSUME NEW x \in Drafty, NEW k PROVE [x EXCEPT !.status = k].status = k
BY DEF Drafty, DraftTypes

LEMMA DraftHolding ==
    ASSUME Formed, Balloted, DraftLocks, NEW d \in Drafts, NEW q, NEW v, NEW c,
           \/ NewDraft(d, q) \/ RetryDraft(d) \/ RunDraft(d) \/ Deliberate(d) \/ BaseGone(d)
           \/ (v.draft \in Drafts /\ (Deliver(v, c) \/ GiveUp(v)))
    PROVE  Holding
<1>0. \A e \in Drafts : drafts[e] \in Drafty
  BY Registries
<1>1. CASE NewDraft(d, q)
  <2>1. PICK x : x = [NoDraft EXCEPT !.status = "PENDING", !.request = q,
                                     !.base = IF q = Initial THEN 0 ELSE Revision(forms[q])]
    OBVIOUS
  <2>2. x.status = "PENDING"
    BY <2>1 DEF NoDraft
  <2>3. PICK u : u = DraftUndo(Only(drafts, {d}))
    OBVIOUS
  <2>4. /\ drafts' = [drafts EXCEPT ![d] = x] /\ Commit({q} \ {Initial}, {d}, u, {<<"draft", d, 0>>}, "call")
        /\ UNCHANGED waiting /\ drafts[d].status = "none" /\ u.drafts = Only(drafts, {d})
    BY <1>1, <2>1, <2>3, UndoDrafts DEF NewDraft, DraftUndo
  <2>5. DraftFree(d)
    BY <2>4 DEF DraftLocks
  <2>6. "call" # "auto" /\ x.status # "none"
    BY <2>2
  <2> QED
    BY <2>4, <2>5, <2>6, HoldingOne
<1>2. CASE RetryDraft(d)
  <2>1. PICK x : x = [drafts[d] EXCEPT !.status = "PENDING"]
    OBVIOUS
  <2>2. x.status # "none" /\ "call" # "auto"
    BY <1>0, <2>1, StatusOf
  <2>3. SetDraft(d, x, {<<"draft", d, 0>>}, "call") /\ DraftFree(d)
    BY <1>2, <2>1 DEF RetryDraft
  <2> QED
    BY <2>2, <2>3, SetDraftHolding
<1>3. CASE RunDraft(d)
  <2>1. PICK x : x = [drafts[d] EXCEPT !.status = "RUNNING"]
    OBVIOUS
  <2>2. x.status # "none" /\ "task" # "auto"
    BY <1>0, <2>1, StatusOf
  <2>3. CASE SetDraft(d, x, {<<"think", d, 0>>}, "task") /\ DraftFree(d)
    BY <2>2, <2>3, SetDraftHolding
  <2>4. CASE UNCHANGED <<drafts, flight, waiting>>
    BY <2>4, HoldingQuiet
  <2> QED
    BY <1>3, <2>1, <2>3, <2>4 DEF RunDraft
<1>4. CASE Deliberate(d)
  BY <1>4, HoldingQuiet DEF Deliberate
<1>5. CASE BaseGone(d)
  <2>1. PICK x : x = [drafts[d] EXCEPT !.status = "STALE"]
    OBVIOUS
  <2>2. x.status # "none" /\ Conclude(d, x)
    BY <1>0, <1>5, <2>1, StatusOf DEF BaseGone
  <2> QED
    BY <2>2, ConcludeHolding
<1>6. CASE v.draft \in Drafts /\ Deliver(v, c)
  <2>1. PICK y, k : y = drafts[v.draft] /\ k = IF BaseCurrent(y) THEN "READY" ELSE "STALE"
    OBVIOUS
  <2>2. PICK x : x = [y EXCEPT !.status = k, !.candidate = c]
    OBVIOUS
  <2>3. x.status = k
    <3>1. y \in Drafty
      BY <1>0, <1>6, <2>1
    <3> QED
      BY <2>2, <3>1 DEF Drafty, DraftTypes
  <2>4. x.status # "none" /\ Conclude(v.draft, x)
    BY <1>6, <2>1, <2>2, <2>3 DEF Deliver
  <2> QED
    BY <1>6, <2>4, ConcludeHolding
<1>7. CASE v.draft \in Drafts /\ GiveUp(v)
  <2>1. PICK x : x = [drafts[v.draft] EXCEPT !.status = "FAILED"]
    OBVIOUS
  <2>2. x.status # "none" /\ Conclude(v.draft, x)
    BY <1>0, <1>7, <2>1, StatusOf DEF GiveUp
  <2> QED
    BY <1>7, <2>2, ConcludeHolding
<1> QED
  BY <1>1, <1>2, <1>3, <1>4, <1>5, <1>6, <1>7

LEMMA PublishInitialHolding ==
    ASSUME Formed, Balloted, NEW d \in Drafts, NEW q, PublishInitial(d, q)
    PROVE  Holding
<1>1. PICK f : f = Revised(Unused, drafts[d].candidate, d)
  OBVIOUS
<1>2. PICK u : u = DraftsUndo(Only(forms, {q}), Only(drafts, {d}), Only(mail, Invited(f) \cup {Initiator[d]}))
  OBVIOUS
<1>3. PICK x : x = [drafts[d] EXCEPT !.status = "PUBLISHED"]
  OBVIOUS
<1>4. /\ Commit({}, {d}, u, Autos(q, f), "call") /\ drafts' = [drafts EXCEPT ![d] = x] /\ UNCHANGED waiting
      /\ u.drafts = Only(drafts, {d}) /\ DraftFree(d)
  BY <1>1, <1>2, <1>3, UndoDrafts DEF PublishInitial, DraftsUndo
<1>5. x.status # "none" /\ "call" # "auto"
  BY <1>3, Registries, StatusOf
<1> QED
  BY <1>4, <1>5, HoldingOne

-----------------------------------------------------------------------------
(* Revisions and publications. *)

LEMMA MarkedStatus ==
    ASSUME Formed, Balloted, NEW S \in SUBSET Drafts, NEW w, w.draft \in Drafts, NEW k \in {"STALE", "PUBLISHED"},
           NEW f, f = drafts \/ f = Staled(S), NEW g, g = Override(f, Registered(w, k))
    PROVE  \A d \in Drafts : g[d].status = "none" => drafts[d].status = "none"
<1>1. DOMAIN f = Drafts /\ \A d \in Drafts : f[d].status = "none" => drafts[d].status = "none"
  BY StaledStatus, Registries DEF Staled
<1>2. PICK r : r = Registered(w, k)
  OBVIOUS
<1>3. \A d \in DOMAIN r : d = w.draft /\ r[d].status = k
  <2>1. CASE w.own = {}
    <3>1. r = [d \in {w.draft} |-> [drafts[d] EXCEPT !.status = k]]
      BY <1>2, <2>1 DEF Registered
    <3>2. [drafts[w.draft] EXCEPT !.status = k].status = k
      BY StatusOf, Registries
    <3> QED
      BY <3>1, <3>2
  <2>2. CASE w.own # {}
    BY <1>2, <2>2, EmptyDomain DEF Registered
  <2> QED
    BY <2>1, <2>2
<1>4. g = [d \in Drafts |-> IF d \in DOMAIN r THEN r[d] ELSE f[d]]
  BY <1>1, <1>2 DEF Override
<1> QED
  BY <1>1, <1>3, <1>4

LEMMA MarkHolding ==
    ASSUME Formed, Balloted, NEW w, w.draft \in Drafts, waiting' \subseteq waiting, Freed(w.draft),
           drafts[w.draft].status # "none", NEW k \in {"STALE", "PUBLISHED"}, Mark(w, k)
    PROVE  Holding
<1>1. PICK R, ds : R = [d \in {w.draft} |-> Held(w)] /\ ds = {w.draft}
  OBVIOUS
<1>2. PICK u : u = DraftUndo(R)
  OBVIOUS
<1>3. Commit({Held(w).request}, ds, u, {}, "call") /\ drafts' = Override(drafts, Registered(w, k)) /\ u.drafts = R
  BY <1>1, <1>2, UndoDrafts DEF Mark, DraftUndo
<1>4. PICK g : g = Override(drafts, Registered(w, k))
  OBVIOUS
<1>5. \A d \in Drafts : drafts'[d].status = "none" => drafts[d].status = "none"
  <2>1. PICK S \in SUBSET Drafts : S = {}
    OBVIOUS
  <2>2. \A d \in Drafts : g[d].status = "none" => drafts[d].status = "none"
    BY <1>4, <2>1, MarkedStatus
  <2> QED
    BY <1>3, <1>4, <2>2
<1>6. \A d \in ds : drafts'[d].status # "none" /\ Freed(d)
  BY <1>1, <1>5
<1>7. "call" = "auto" => ds = {}
  OBVIOUS
<1>8. \A d \in DOMAIN R : d \in ds \/ R[d].status # "none"
  BY <1>1
<1> QED
  BY <1>3, <1>5, <1>6, <1>7, <1>8, HoldingCommit

LEMMA ReviseHolding ==
    ASSUME Formed, Balloted, waiting' \subseteq waiting, NEW q, NEW c, NEW source,
           NEW published, NEW copies, NEW held, Revise(q, c, source, published, copies, held),
           \A d \in Drafts : drafts'[d].status = "none" => drafts[d].status = "none",
           held \subseteq Drafts, DOMAIN copies \subseteq held,
           \A d \in held : Freed(d) /\ drafts[d].status # "none"
    PROVE  Holding
<1>1. PICK f : f = Revised(forms[q], c, source)
  OBVIOUS
<1>2. PICK stale : stale = Stale(q, {source})
  OBVIOUS
<1>3. PICK R : R = [d \in stale \cup DOMAIN copies |-> IF d \in DOMAIN copies THEN copies[d] ELSE drafts[d]]
  OBVIOUS
<1>4. PICK u : u = DraftsUndo(Only(forms, {q}), R, Only(mail, Invited(forms[q]) \cup Invited(f) \cup {Initiator[q]}))
  OBVIOUS
<1>5. Commit({q}, held, u, Autos(q, f), "call") /\ u.drafts = R
  BY <1>1, <1>2, <1>3, <1>4, UndoDrafts DEF Revise, DraftsUndo
<1>6. \A d \in DOMAIN R : d \in held \/ R[d].status # "none"
  <2>1. \A d \in stale : drafts[d].status = "READY"
    BY <1>2, StaleFacts
  <2> QED
    BY <1>3, <2>1
<1>7. \A d \in held : drafts'[d].status # "none" /\ Freed(d)
  OBVIOUS
<1>8. "call" = "auto" => held = {}
  OBVIOUS
<1> QED
  BY <1>5, <1>6, <1>7, <1>8, HoldingCommit

LEMMA ReviseFormationHolding ==
    ASSUME Formed, Balloted, NEW q, NEW c, ReviseFormation(q, c)
    PROVE  Holding
<1>1. Revise(q, c, Nothing, <<>>, <<>>, {}) /\ UNCHANGED waiting
  BY DEF ReviseFormation
<1>2. PICK stale : stale = Stale(q, {Nothing})
  OBVIOUS
<1>3. PICK none, held : none = <<>> /\ held = {}
  OBVIOUS
<1>4. drafts' = Override(Staled(stale), none)
  BY <1>1, <1>2, <1>3 DEF Revise
<1>5. stale \in SUBSET Drafts
  BY <1>2, StaleFacts
<1>6. \A d \in Drafts : drafts'[d].status = "none" => drafts[d].status = "none"
  <2>1. DOMAIN Staled(stale) = Drafts
    BY DEF Staled
  <2>2. \A d \in Drafts : drafts'[d] = Staled(stale)[d]
    BY <1>3, <1>4, <2>1, EmptyDomain DEF Override
  <2> QED
    BY <1>5, <2>2, StaledStatus
<1>7. held \subseteq Drafts /\ DOMAIN none \subseteq held
  BY <1>3, EmptyDomain
<1>8. Revise(q, c, Nothing, none, none, held) /\ waiting' \subseteq waiting
  BY <1>1, <1>3
<1>9. \A d \in held : Freed(d) /\ drafts[d].status # "none"
  BY <1>3
<1> QED
  BY <1>6, <1>7, <1>8, <1>9, ReviseHolding

LEMMA PublishHeldHolding ==
    ASSUME Formed, Balloted, NEW w, w.draft \in Drafts, waiting' \subseteq waiting, Freed(w.draft),
           drafts[w.draft].status # "none", PublishHeld(w)
    PROVE  Holding
<1>1. PICK x, q : x = Held(w) /\ q = x.request
  OBVIOUS
<1>2. CASE \E k \in {"STALE", "PUBLISHED"} : Mark(w, k)
  BY <1>2, MarkHolding
<1>3. CASE UNCHANGED <<drafts, flight>>
  BY <1>3, HoldingQuiet
<1>4. CASE Revise(q, x.candidate, w.draft, Registered(w, "PUBLISHED"), [d \in {w.draft} |-> x], {w.draft})
  <2>1. PICK copies, published, held : copies = [d \in {w.draft} |-> x] /\ published = Registered(w, "PUBLISHED") /\ held = {w.draft}
    OBVIOUS
  <2>2. Revise(q, x.candidate, w.draft, published, copies, held)
    BY <1>4, <2>1
  <2>3. PICK stale : stale = Stale(q, {w.draft})
    OBVIOUS
  <2>4. stale \in SUBSET Drafts
    BY <2>3, StaleFacts
  <2>5. PICK f, g : f = Staled(stale) /\ g = Override(f, published)
    OBVIOUS
  <2>6. drafts' = g
    BY <2>2, <2>3, <2>5 DEF Revise
  <2>7. \A d \in Drafts : g[d].status = "none" => drafts[d].status = "none"
    BY <2>1, <2>4, <2>5, MarkedStatus
  <2>8. \A d \in Drafts : drafts'[d].status = "none" => drafts[d].status = "none"
    BY <2>6, <2>7
  <2>9. held \subseteq Drafts /\ DOMAIN copies \subseteq held /\ \A d \in held : Freed(d) /\ drafts[d].status # "none"
    BY <2>1
  <2> QED
    BY <2>2, <2>8, <2>9, ReviseHolding
<1> QED
  BY <1>1, <1>2, <1>3, <1>4 DEF PublishHeld

LEMMA PublicationHolding ==
    ASSUME Formed, Balloted, DraftLocks, NEW d \in Drafts, NEW v, PublishRevision(d) \/ PublishWaiting(v)
    PROVE  Holding
<1>1. CASE PublishRevision(d)
  <2>1. PICK w : w = [draft |-> d, own |-> {}]
    OBVIOUS
  <2>2. w.draft = d
    BY <2>1
  <2>3. DraftFree(d) /\ drafts[d].status = "READY"
    BY <1>1 DEF PublishRevision
  <2>4. CASE PublishHeld(w) /\ UNCHANGED waiting
    BY <2>2, <2>3, <2>4, PublishHeldHolding DEF Freed
  <2>5. CASE waiting' = waiting \cup {w} /\ UNCHANGED <<drafts, flight>>
    BY <2>2, <2>3, <2>5 DEF Holding, Waits
  <2> QED
    BY <1>1, <2>1, <2>4, <2>5 DEF PublishRevision
<1>2. CASE PublishWaiting(v)
  <2>1. v \in waiting /\ PublishHeld(v) /\ waiting' = waiting \ {v}
    BY <1>2 DEF PublishWaiting
  <2>2. v.draft \in Drafts
    BY <2>1 DEF Formed, IsWait
  <2>3. drafts[v.draft].status # "none"
    BY <2>1, <2>2 DEF DraftLocks, DraftFree
  <2>4. waiting' \subseteq waiting /\ Freed(v.draft)
    BY <2>1 DEF Freed
  <2> QED
    BY <2>1, <2>2, <2>3, <2>4, PublishHeldHolding
<1> QED
  BY <1>1, <1>2

LEMMA OperationHolding ==
    ASSUME Formed, Balloted, DraftLocks, Operation
    PROVE  Holding
<1>1. ASSUME NEW q \in Requests, Request(q) \/ AutoStep(q) PROVE Holding
  <2>1. ASSUME NEW a, NEW n, NEW answer, NEW approved, NEW c,
               \/ Propose(q, c) \/ Respond(q, a, n, answer) \/ RespondLate(q, a, n, answer)
               \/ Create(q) \/ AutoCreate(q, n) \/ Abandon(q) \/ DecideLate(q, a, approved)
        PROVE  Holding
    BY <2>1, RequestHolding
  <2>2. ASSUME NEW c, ReviseFormation(q, c) PROVE Holding
    BY <2>2, ReviseFormationHolding
  <2> QED
    BY <1>1, <2>1, <2>2, Zenon DEF Request, Answer, AutoStep
<1>2. ASSUME NEW d \in Drafts, Draft(d) PROVE Holding
  <2>1. ASSUME NEW q, NewDraft(d, q) \/ RetryDraft(d) PROVE Holding
    BY <2>1, DraftHolding
  <2>2. ASSUME PublishRevision(d) PROVE Holding
    BY <2>2, PublicationHolding
  <2>3. ASSUME NEW q, PublishInitial(d, q) PROVE Holding
    BY <2>3, PublishInitialHolding
  <2> QED
    BY <1>2, <2>1, <2>2, <2>3, Zenon DEF Draft
<1>3. ASSUME NEW d \in Drafts, DraftStep(d) PROVE Holding
  <2>1. ASSUME RunDraft(d) \/ Deliberate(d) \/ BaseGone(d) PROVE Holding
    BY <2>1, DraftHolding
  <2>2. ASSUME NEW v, NEW c, v.draft = d, Deliver(v, c) \/ GiveUp(v) PROVE Holding
    BY <2>2, DraftHolding
  <2>3. ASSUME NEW w, PublishWaiting(w) PROVE Holding
    BY <2>3, PublicationHolding
  <2> QED
    BY <1>3, <2>1, <2>2, <2>3, Zenon DEF DraftStep
<1>4. ASSUME NEW a, NEW t, Leave(a, t) PROVE Holding
  BY <1>4, HoldingQuiet DEF Leave
<1> QED
  BY <1>1, <1>2, <1>3, <1>4, Zenon DEF Operation

LEMMA DraftLocksStep ==
    ASSUME Formed, Balloted, DraftLocks, [Next]_vars
    PROVE  DraftLocks'
<1>1. CASE UNCHANGED vars \/ TalkStep
  <2>1. UNCHANGED <<drafts, flight, waiting>>
    BY <1>1 DEF vars, formVars, TalkStep, formOnly
  <2> QED
    BY <2>1, DraftLocksByEnd
<1>2. ASSUME NEW frozen \in {"PENDING", "CANCELLED"}, Restart(frozen) PROVE DraftLocks'
  <2>1. UNCHANGED <<flight, waiting>> /\ drafts' = Interrupted(frozen)
    BY <1>2, Zenon DEF Restart
  <2>2. \A d \in Drafts : drafts'[d].status = "none" => drafts[d].status = "none"
    <3>1. \A d \in Drafts : [drafts[d] EXCEPT !.status = frozen].status = frozen
      BY StatusOf, Registries
    <3> QED
      BY <2>1, <3>1 DEF Interrupted
  <2> QED
    BY <2>1, <2>2, DraftLocksByEnd
<1>3. ASSUME NEW f \in flight, Finish(f) \/ Cancel(f) PROVE DraftLocks'
  <2>1. flight' \subseteq flight /\ UNCHANGED <<drafts, waiting>>
    BY <1>3 DEF Finish, Cancel
  <2> QED
    BY <2>1, DraftLocksByEnd
<1>4. CASE FormationStep
  <2>1. Operation \/ \E f \in flight : Finish(f) \/ Cancel(f) \/ Fail(f)
    BY <1>4, Zenon DEF FormationStep, Operation
  <2> QED
    BY <1>3, <2>1, OperationHolding, DraftLocksByHolding, DraftLocksByFail
<1> QED
  BY <1>1, <1>2, <1>4, Zenon DEF Next

LEMMA DraftLocksInit == Init => DraftLocks
BY DEF Init, DraftLocks, DraftFree

LEMMA DraftLocksInvariant == Spec => []DraftLocks
BY DraftLocksInit, DraftLocksStep, FormedInvariant, PTL DEF Spec

\* Every variable has its type, a request and a draft have at most one holder
\* (their locks in core/manager/formations), an AgentTeam one discussion in a round
\* (discussion_lock), and active_wakeups are the wakeups of the discussions there are:
\* an operation, a rollback, a cancellation or a restart neither leaves one behind,
\* which would keep the AgentTeam from being woken, nor takes one from another.
THEOREM TeamworkTypes == Spec => []TypeOK
<1>1. ASSUME Shaped, Boxed, Posted, Keyed, Solo, Formed, Balloted, Locks, DraftLocks PROVE TypeOK
  <2>1. forms \in [Requests -> FormTypes] /\ mail \in [Agents -> SUBSET (Requests \X Nat)]
        /\ Scopes \subseteq teams /\ teams \subseteq Scopes \cup Requests
        /\ members \in [Scopes \cup Requests -> SUBSET Agents]
    BY <1>1, Registries
  <2>2. \A q \in Requests : decided[q] \subseteq (Nat \X Agents \X Answers)
    BY <1>1 DEF Formed, Judged
  <2>3. drafts \in [Drafts -> [status : {"none", "PENDING", "RUNNING", "READY", "STALE",
                                        "PUBLISHED", "FAILED", "CANCELLED"},
                              request : Requests \cup {Initial}, base : Nat,
                              candidate : Contents \cup {Nothing}]]
    BY <1>1 DEF Formed, Drafty, DraftTypes
  <2>4. \A f, g \in flight : f # g => f.requests \cap g.requests = {} /\ f.drafts \cap g.drafts = {}
    BY <1>1 DEF Locks, DraftLocks
  <2>5. \A w \in waiting, f \in flight : w.draft \notin f.drafts
    BY <1>1 DEF DraftLocks
  <2>6. \A t \in Scopes : alerts[t] \in Seq([id : Alert, count : Nat, claimed : Nat])
    <3>1. Entries \subseteq [id : Alert, count : Nat, claimed : Nat]
      BY DEF Entries
    <3>2. PICK E, A : E = Entries /\ A = [id : Alert, count : Nat, claimed : Nat]
      OBVIOUS
    <3>3. \A b : b \in Seq(E) => b \in Seq(A)
      BY <3>1, <3>2, SeqMonotonic
    <3> QED
      BY <1>1, <3>2, <3>3 DEF Boxed, Box
  <2>7. letters \in [Scopes -> SUBSET Messages]
    <3>1. \A t \in Scopes : letters[t] \in SUBSET Messages
      BY <1>1 DEF Shaped, Delivered
    <3> QED
      BY <1>1, <3>1 DEF Shaped
  <2>8. peer \in [Messages -> {"none", "pending", "consumed"}]
    BY <1>1 DEF Shaped, Posted, PeerStates
  <2>9. \A r, s \in sessions : r # s /\ r.team = s.team => ~Running(r) \/ ~Running(s)
    BY <1>1 DEF Solo
  <2>10. wakeups = Keys(sessions)
    BY <1>1 DEF Keyed
  <2>11. proposals \in [Proposals -> ProposalTypes]
    BY <1>1 DEF Balloted
  <2> QED
    BY <2>1, <2>2, <2>3, <2>4, <2>5, <2>6, <2>7, <2>8, <2>9, <2>10, <2>11, Zenon DEF TypeOK, ProposalTypes
<1>2. Spec => [](Locks /\ DraftLocks /\ Solo /\ Keyed)
  BY ConsentingInvariant, DraftLocksInvariant, SoloInvariant, KeyedInvariant, PTL
<1> QED
  BY <1>1, <1>2, ShapedInvariant, BoxedInvariant, PostedInvariant, FormedInvariant, PTL

-----------------------------------------------------------------------------
(* Notices. *)

\* One formation at a time, which no draft has proposed; or no commit has failed.
Alone == ~limit.initial /\ \A q, r \in Requests \cap limit.agenda : q = r
Peaceful == spent.faults = 0 \/ Alone

\* A draft of a formation has its initiator.
Fine(d, x) ==
    x.status # "none" /\ x.request \in Requests =>
        x.request \in limit.agenda /\ Initiator[d] = Initiator[x.request]

Drawn ==
    /\ \A d \in Drafts : Fine(d, drafts[d])
    /\ \A f \in flight : \A d \in DOMAIN f.undo.drafts : Fine(d, f.undo.drafts[d])
    /\ \A w \in waiting : \A x \in w.own : Fine(w.draft, x)

\* The mailboxes L have what the invited of a formation F should know.
Aware(q, F, L) ==
    /\ Initiator[q] \notin Invited(F)
    /\ F.status \in {"collecting", "ready", "created"} => \A a \in Invited(F) : <<q, Revision(F)>> \in L[a]
    /\ F.status = "created" => \A a \in Invited(F) : <<q, 0>> \in L[a]

\* What the failure of a commit may take out of mailboxes: that of its own
\* formation, or of the initiator, who is not invited.
Recalls(f) ==
    \/ DOMAIN f.undo.mail = {} /\ DOMAIN f.undo.forms = {}
    \/ \E q \in Requests \cap limit.agenda :
         \/ DOMAIN f.undo.forms = {q}
         \/ DOMAIN f.undo.forms = {} /\ DOMAIN f.undo.mail \subseteq {Initiator[q]}

\* A formation F has the revision n, which invites nobody.
Autoed(q, n, F) ==
    /\ F.status # "none" /\ n \in 1..Revision(F)
    /\ Content[F.revisions[n].content].invitees = {}

Selfmade ==
    /\ \A q \in Requests, n \in Nat : <<"auto", q, n>> \in jobs =>
         Autoed(q, n, forms[q]) /\ \A f \in flight : Autoed(q, n, At(f.undo.forms, forms, q))
    /\ \A f \in flight :
         /\ \A q \in Requests, n \in Nat : <<"auto", q, n>> \in f.after =>
              q \in f.requests /\ Autoed(q, n, forms[q])
         /\ f.kind = "auto" => f.after = {} /\ \A q \in f.requests : Invited(forms[q]) = {}

Noted(q) == Aware(q, forms[q], mail) /\ (q \notin limit.agenda => Invited(forms[q]) = {})

Recalling ==
    \A f \in flight :
        /\ Recalls(f)
        /\ \A q \in Requests : Aware(q, At(f.undo.forms, forms, q), Override(mail, f.undo.mail))

Informing ==
    /\ Drawn
    /\ Peaceful => \A q \in Requests : Noted(q)
    /\ Alone => Recalling /\ Selfmade

\* What an operation makes of a formation, and whom it tells.
Tells(q, F, G) ==
    \/ /\ G.revisions = F.revisions /\ F.status # "none"
       /\ G.status = "created" /\ F.status # "created" => \A a \in Invited(G) : <<q, 0>> \in mail'[a]
    \/ /\ G.status # "created" /\ Initiator[q] \notin Invited(G)
       /\ \A a \in Invited(G) : <<q, Revision(G)>> \in mail'[a]
       /\ F.status = "none" \/ \E x : G.revisions = Append(F.revisions, x)

\* What a task creates has been waiting for it, and stays the same.
Itself(q, G, after, kind) ==
    kind = "auto" =>
        /\ after = {} /\ G.revisions = forms[q].revisions
        /\ \E n \in Nat : <<"auto", q, n>> \in jobs /\ n = Revision(forms[q])

\* The copies and the tasks of an operation.
Remembers(c) ==
    /\ \A a \in DOMAIN c.undo.mail : c.undo.mail[a] = mail[a]
    /\ \A q \in Requests : At(c.undo.forms, forms', q) = forms[q]
    /\ Recalls(c)
    /\ \A q \in Requests, n \in Nat : <<"auto", q, n>> \in c.after =>
         q \in c.requests /\ n = Revision(forms'[q]) /\ Invited(forms'[q]) = {} /\ forms'[q].status # "none"
    /\ \A q \in c.requests : Itself(q, forms'[q], c.after, c.kind)
    /\ c.kind = "auto" => c.after = {}

Draws(c) == \A d \in DOMAIN c.undo.drafts : Fine(d, c.undo.drafts[d])

Mailing ==
    /\ \A a \in Agents : mail[a] \subseteq mail'[a]
    /\ \A q \in Requests : forms'[q] # forms[q] => q \in limit.agenda /\ Tells(q, forms[q], forms'[q])
    /\ \A d \in Drafts : Fine(d, drafts'[d])
    /\ \A w \in waiting' : w \in waiting \/ w.own = {}
    /\ flight' = flight \/ \E c : flight' = flight \cup {c} /\ Draws(c) /\ (limit.initial \/ Remembers(c))
    /\ \A q \in Requests, n \in Nat : <<"auto", q, n>> \in jobs' =>
         \/ <<"auto", q, n>> \in jobs
         \/ /\ forms[q].status = "none" /\ forms'[q].status # "none" /\ flight' = flight
            /\ n = Revision(forms'[q]) /\ Invited(forms'[q]) = {}

LEMMA UndoParts ==
    ASSUME NEW F, NEW D, NEW R, NEW M, NEW L, NEW T
    PROVE  /\ DraftUndo(R).forms = <<>> /\ DraftUndo(R).mail = <<>>
           /\ NoteUndo(R, L).forms = <<>> /\ NoteUndo(R, L).mail = L
           /\ FormUndo(F, L).forms = F /\ FormUndo(F, L).mail = L
           /\ DraftsUndo(F, R, L).forms = F /\ DraftsUndo(F, R, L).mail = L
           /\ AnswerUndo(F, D, L).forms = F /\ AnswerUndo(F, D, L).mail = L
           /\ JoinUndo(F, D, M, L).forms = F /\ JoinUndo(F, D, M, L).mail = L
           /\ CreationUndo(F, D, R, L, T).forms = F /\ CreationUndo(F, D, R, L, T).mail = L
BY DraftUndoIs, NoteUndoIs, FormUndoIs, DraftsUndoIs, AnswerUndoIs, JoinUndoIs, CreationUndoIs DEF UndoIs

LEMMA FineStyled ==
    ASSUME NEW d, NEW x \in Drafty, Fine(d, x), x.status # "none", NEW k
    PROVE  Fine(d, [x EXCEPT !.status = k])
<1>1. [x EXCEPT !.status = k].request = x.request
  BY DEF Drafty, DraftTypes
<1> QED
  BY <1>1 DEF Fine

LEMMA FineStaled ==
    ASSUME Formed, Balloted, Drawn, NEW S \in SUBSET Drafts, \A d \in S : drafts[d].status = "READY"
    PROVE  /\ \A d \in Drafts : Fine(d, Staled(S)[d])
           /\ \A d \in DOMAIN Only(drafts, S) : Fine(d, Only(drafts, S)[d])
<1>1. \A d \in Drafts : drafts[d] \in Drafty /\ Fine(d, drafts[d])
  BY Registries DEF Drawn
<1>2. \A d \in S : Fine(d, [drafts[d] EXCEPT !.status = "STALE"])
  BY <1>1, FineStyled
<1>3. \A d \in Drafts : Staled(S)[d] = IF d \in S THEN [drafts[d] EXCEPT !.status = "STALE"] ELSE drafts[d]
  BY DEF Staled
<1>4. \A d \in Drafts : Fine(d, Staled(S)[d])
  BY <1>1, <1>2, <1>3
<1>5. DOMAIN Only(drafts, S) = S /\ \A d \in S : Only(drafts, S)[d] = drafts[d]
  BY OnlyFacts
<1> QED
  BY <1>1, <1>4, <1>5

LEMMA ToldGrows ==
    ASSUME NEW S, NEW notice, mail' = Told(S, notice)
    PROVE  /\ \A a \in Agents : mail[a] \subseteq mail'[a]
           /\ \A a \in Agents : a \in S => notice \in mail'[a]
BY DEF Told

Records == \E c : flight' = flight \cup {c} /\ Draws(c) /\ (limit.initial \/ Remembers(c))

Backed(rs, u, after, kind) ==
    /\ \A a \in DOMAIN u.mail : u.mail[a] = mail[a]
    /\ \A q \in Requests : At(u.forms, forms', q) = forms[q]
    /\ \/ DOMAIN u.mail = {} /\ DOMAIN u.forms = {}
       \/ \E q \in Requests \cap limit.agenda :
            \/ DOMAIN u.forms = {q}
            \/ DOMAIN u.forms = {} /\ DOMAIN u.mail \subseteq {Initiator[q]}
    /\ \A q \in Requests, n \in Nat : <<"auto", q, n>> \in after =>
         q \in rs /\ n = Revision(forms'[q]) /\ Invited(forms'[q]) = {} /\ forms'[q].status # "none"
    /\ \A q \in rs : Itself(q, forms'[q], after, kind)
    /\ kind = "auto" => after = {}

LEMMA CommitRecords ==
    ASSUME NEW rs, NEW ds, NEW u, NEW after, NEW kind, Commit(rs, ds, u, after, kind),
           NEW R, u.drafts = R, \A d \in DOMAIN R : Fine(d, R[d]),
           limit.initial \/ Backed(rs, u, after, kind)
    PROVE  Records
<1>1. PICK c : c = [requests |-> rs, drafts |-> ds, undo |-> u, after |-> after, kind |-> kind]
  OBVIOUS
<1>2. /\ c.requests = rs /\ c.undo = u /\ c.after = after /\ c.kind = kind /\ flight' = flight \cup {c}
  BY <1>1 DEF Commit
<1>3. Draws(c)
  BY <1>2 DEF Draws
<1>4. limit.initial \/ Remembers(c)
  BY <1>2 DEF Remembers, Recalls, Backed
<1> QED
  BY <1>2, <1>3, <1>4 DEF Records

LEMMA QuietMailing ==
    ASSUME Drawn, UNCHANGED <<forms, mail, drafts, flight>>,
           \A w \in waiting' : w \in waiting \/ w.own = {}, jobs' \subseteq jobs
    PROVE  Mailing
<1>1. \A d \in Drafts : Fine(d, drafts'[d])
  BY DEF Drawn
<1> QED
  BY <1>1 DEF Mailing

LEMMA DraftMailing ==
    ASSUME UNCHANGED <<forms, mail>>, \A d \in Drafts : Fine(d, drafts'[d]),
           \A w \in waiting' : w \in waiting \/ w.own = {}, jobs' \subseteq jobs,
           NEW rs, NEW ds, NEW u, NEW after, NEW kind, Commit(rs, ds, u, after, kind),
           NEW R, u.drafts = R, \A d \in DOMAIN R : Fine(d, R[d]),
           u.forms = <<>>,
           \/ u.mail = <<>>
           \/ limit.initial
           \/ \E q \in Requests \cap limit.agenda : u.mail = Only(mail, {Initiator[q]}),
           kind # "auto", \A q, n : <<"auto", q, n>> \notin after
    PROVE  Mailing
<1>1. DOMAIN u.forms = {} /\ \A q \in Requests : At(u.forms, forms', q) = forms[q]
  BY EmptyDomain DEF At
<1>2. \/ limit.initial
      \/ /\ \A a \in DOMAIN u.mail : u.mail[a] = mail[a]
         /\ \/ DOMAIN u.mail = {}
            \/ \E q \in Requests \cap limit.agenda : DOMAIN u.mail \subseteq {Initiator[q]}
  <2>1. CASE u.mail = <<>>
    BY <2>1, EmptyDomain
  <2>2. ASSUME NEW q \in Requests \cap limit.agenda, u.mail = Only(mail, {Initiator[q]})
        PROVE  DOMAIN u.mail \subseteq {Initiator[q]} /\ \A a \in DOMAIN u.mail : u.mail[a] = mail[a]
    <3>1. PICK S : S = {Initiator[q]}
      OBVIOUS
    <3>2. u.mail = Only(mail, S)
      BY <2>2, <3>1
    <3> QED
      BY <3>1, <3>2, OnlyFacts
  <2> QED
    BY <2>1, <2>2
<1>3. limit.initial \/ Backed(rs, u, after, kind)
  BY <1>1, <1>2 DEF Backed, Itself
<1>4. Records
  BY <1>3, CommitRecords
<1> QED
  BY <1>4 DEF Mailing, Records

LEMMA RequestMailing ==
    ASSUME Formed, Balloted, NEW q \in Requests \cap limit.agenda,
           NEW G, forms' = [forms EXCEPT ![q] = G], Tells(q, forms[q], G),
           \A a \in Agents : mail[a] \subseteq mail'[a],
           \A d \in Drafts : Fine(d, drafts'[d]),
           \A w \in waiting' : w \in waiting \/ w.own = {}, jobs' \subseteq jobs,
           NEW ds, NEW u, NEW after, NEW kind, Commit({q}, ds, u, after, kind),
           u.forms = Only(forms, {q}), NEW S, u.mail = Only(mail, S),
           NEW R, u.drafts = R, \A d \in DOMAIN R : Fine(d, R[d]),
           \A p, n : <<"auto", p, n>> \in after => p = q /\ n = Revision(G) /\ Invited(G) = {} /\ G.status # "none",
           Itself(q, G, after, kind)
    PROVE  Mailing
<1>1. forms'[q] = G /\ \A p \in Requests : p # q => forms'[p] = forms[p]
  BY Registries
<1>2. DOMAIN u.forms = {q} /\ \A p \in Requests : At(u.forms, forms', p) = forms[p]
  BY <1>1, OnlyFacts DEF At
<1>3. \A a \in DOMAIN u.mail : u.mail[a] = mail[a]
  BY OnlyFacts
<1>4. \A p \in Requests, n \in Nat : <<"auto", p, n>> \in after =>
        p \in {q} /\ n = Revision(forms'[p]) /\ Invited(forms'[p]) = {} /\ forms'[p].status # "none"
  BY <1>1
<1>5. PICK rs : rs = {q}
  OBVIOUS
<1>6. Commit(rs, ds, u, after, kind)
  BY <1>5
<1>7. \A p \in rs : Itself(p, forms'[p], after, kind)
  BY <1>1, <1>5
<1>8. Backed(rs, u, after, kind)
  <2>1. kind = "auto" => after = {}
    BY DEF Itself
  <2> QED
    BY <1>2, <1>3, <1>4, <1>5, <1>7, <2>1 DEF Backed
<1>9. Records
  BY <1>6, <1>8, CommitRecords
<1>10. \A p \in Requests : forms'[p] # forms[p] => p \in limit.agenda /\ Tells(p, forms[p], forms'[p])
  <2> SUFFICES ASSUME NEW p \in Requests, forms'[p] # forms[p]
               PROVE  p \in limit.agenda /\ Tells(p, forms[p], forms'[p])
    OBVIOUS
  <2>1. p = q
    BY <1>1
  <2>2. forms'[p] = G
    BY <1>1, <2>1
  <2> QED
    BY <2>1, <2>2
<1>11. \A p \in Requests, n \in Nat : <<"auto", p, n>> \in jobs' => <<"auto", p, n>> \in jobs
  OBVIOUS
<1> QED
  BY <1>9, <1>10, <1>11, Zenon DEF Mailing, Records

LEMMA AutosFacts ==
    ASSUME NEW q, NEW G, NEW p, NEW n, <<"auto", p, n>> \in Autos(q, G)
    PROVE  p = q /\ n = Revision(G) /\ Invited(G) = {}
BY DEF Autos

\* A new revision, of which its invited are told.
LEMMA RevisedTells ==
    ASSUME NEW q, NEW F, F \in FormTypes, NEW c \in Contents, NEW s \in Drafts \cup {Nothing},
           NEW G, G = Revised(F, c, s), Initiator[q] \notin Content[c].invitees,
           mail' = Told(Invited(G), <<q, Revision(G)>>),
           NEW H, H.status = "none" \/ H = F
    PROVE  Tells(q, H, G) /\ \A a \in Agents : mail[a] \subseteq mail'[a]
<1>1. /\ G.status # "created" /\ G.status # "none"
      /\ G.revisions = Append(F.revisions, [content |-> c, source |-> s])
      /\ G.attitude = [a \in Agents |-> IF a \in Content[c].invitees THEN "silent" ELSE "none"]
  BY RevisedFields
<1>2. Initiator[q] \notin Invited(G)
  BY <1>1 DEF Invited
<1>3. \A a \in Invited(G) : <<q, Revision(G)>> \in mail'[a]
  BY ToldGrows DEF Invited
<1>4. H.status = "none" \/ \E x : G.revisions = Append(H.revisions, x)
  BY <1>1
<1> QED
  BY <1>1, <1>2, <1>3, <1>4, ToldGrows DEF Tells

LEMMA FirstRevised ==
    ASSUME NEW c \in Contents, NEW s \in Drafts \cup {Nothing}, NEW G, G = Revised(Unused, c, s)
    PROVE  /\ Unused \in FormTypes /\ Unused.status = "none" /\ Revision(G) = 1
           /\ G.status \notin {"none", "created"} /\ G.revisions = <<[content |-> c, source |-> s]>>
           /\ G.attitude = [a \in Agents |-> IF a \in Content[c].invitees THEN "silent" ELSE "none"]
<1>1. Unused \in FormTypes /\ Unused.revisions = <<>> /\ Unused.status = "none"
  BY DEF Unused, FormTypes
<1>2. /\ G.revisions = Append(<<>>, [content |-> c, source |-> s])
      /\ G.status = IF Content[c].invitees = {} /\ ~Content[c].auto THEN "ready" ELSE "collecting"
      /\ G.attitude = [a \in Agents |-> IF a \in Content[c].invitees THEN "silent" ELSE "none"]
  BY <1>1, RevisedFields
<1>3. G.revisions = <<[content |-> c, source |-> s]>>
  BY <1>2
<1>4. Revision(G) = 1
  BY <1>3 DEF Revision
<1> QED
  BY <1>1, <1>2, <1>3, <1>4

\* A first revision, of which its invited are told.
LEMMA FirstTells ==
    ASSUME NEW q, NEW c \in Contents, NEW s \in Drafts \cup {Nothing},
           NEW G, G = Revised(Unused, c, s), Initiator[q] \notin Content[c].invitees,
           mail' = Told(Invited(G), <<q, 1>>), NEW H, H.status = "none"
    PROVE  Tells(q, H, G) /\ \A a \in Agents : mail[a] \subseteq mail'[a]
<1>1. /\ Revision(G) = 1 /\ G.status # "created"
      /\ G.attitude = [a \in Agents |-> IF a \in Content[c].invitees THEN "silent" ELSE "none"]
  BY FirstRevised
<1>2. Initiator[q] \notin Invited(G)
  BY <1>1 DEF Invited
<1>3. \A a \in Invited(G) : <<q, Revision(G)>> \in mail'[a]
  BY <1>1, ToldGrows DEF Invited
<1> QED
  BY <1>1, <1>2, <1>3, ToldGrows DEF Tells

LEMMA ProposeMailing ==
    ASSUME Formed, Balloted, Drawn, NEW q \in Requests \cap limit.agenda, NEW c \in Contents, Propose(q, c)
    PROVE  Mailing
<1>1. PICK G : G = Revised(Unused, c, Nothing)
  OBVIOUS
<1>2. PICK s : s = Nothing
  OBVIOUS
<1>5. s \in Drafts \cup {Nothing} /\ G = Revised(Unused, c, s)
  BY <1>1, <1>2
<1>6. /\ forms[q].status = "none" /\ Initiator[q] \notin Content[c].invitees
      /\ forms' = [forms EXCEPT ![q] = G] /\ mail' = Told(Invited(G), <<q, 1>>)
      /\ jobs' = jobs \cup Autos(q, G)
      /\ UNCHANGED <<drafts, flight, waiting>>
  BY <1>1 DEF Propose, Proposable
<1>7. G.status # "none"
  BY <1>5, FirstRevised
<1>10. PICK H : H = forms[q]
  OBVIOUS
<1>11. Tells(q, H, G) /\ \A a \in Agents : mail[a] \subseteq mail'[a]
  BY <1>5, <1>6, <1>10, FirstTells
<1>12. forms'[q] = G /\ \A p \in Requests : p # q => forms'[p] = forms[p]
  BY <1>6, Registries
<1>13. \A p \in Requests : forms'[p] # forms[p] => p \in limit.agenda /\ Tells(p, forms[p], forms'[p])
  BY <1>10, <1>11, <1>12
<1>14. \A d \in Drafts : Fine(d, drafts'[d])
  BY <1>6 DEF Drawn
<1>15. \A p \in Requests, n \in Nat : <<"auto", p, n>> \in jobs' =>
         \/ <<"auto", p, n>> \in jobs
         \/ /\ forms[p].status = "none" /\ forms'[p].status # "none" /\ flight' = flight
            /\ n = Revision(forms'[p]) /\ Invited(forms'[p]) = {}
  BY <1>6, <1>7, <1>12, AutosFacts
<1>16. \A w \in waiting' : w \in waiting \/ w.own = {}
  BY <1>6
<1>17. flight' = flight
  BY <1>6
<1> QED
  BY <1>11, <1>13, <1>14, <1>15, <1>16, <1>17 DEF Mailing

LEMMA FinalizeMailing ==
    ASSUME Formed, Balloted, Drawn, NEW q \in Requests \cap limit.agenda, forms[q].status # "none",
           NEW f \in FormTypes, f.revisions = forms[q].revisions,
           NEW kind, Finalize(q, f, forms[q], kind), waiting' = waiting, jobs' \subseteq jobs,
           kind = "auto" => \E n \in Nat : <<"auto", q, n>> \in jobs /\ n = Revision(forms[q])
    PROVE  Mailing
<1>1. PICK stale, S, G : /\ stale = Stale(q, {}) /\ S = Invited(f) \cup {Initiator[q]}
                         /\ G = [f EXCEPT !.status = "created", !.joined = Accepted(f)]
  OBVIOUS
<1>2. PICK before : before = [x \in {q} |-> forms[q]]
  OBVIOUS
<1>3. before = Only(forms, {q})
  BY <1>2 DEF Only
<1>4. PICK u : u = CreationUndo(before, Only(decided, {q}), Only(drafts, stale), Only(mail, S), {teams})
  OBVIOUS
<1>5. PICK R, ds, after : R = Only(drafts, stale) /\ ds = {} /\ after = {}
  OBVIOUS
<1>6. Commit({q}, {}, u, {}, kind) /\ drafts' = Staled(stale) /\ forms' = [forms EXCEPT ![q] = G]
      /\ mail' = Told(S, <<q, 0>>)
  BY <1>1, <1>2, <1>4 DEF Finalize, CreationUndo
<1>7. Commit({q}, ds, u, after, kind)
  BY <1>5, <1>6
<1>8. u.forms = Only(forms, {q}) /\ u.mail = Only(mail, S) /\ u.drafts = R
  BY <1>3, <1>4, <1>5, UndoParts, UndoDrafts
<1>9. stale \in SUBSET Drafts /\ \A d \in stale : drafts[d].status = "READY"
  BY <1>1, StaleFacts
<1>10. (\A d \in Drafts : Fine(d, drafts'[d])) /\ \A d \in DOMAIN R : Fine(d, R[d])
  BY <1>5, <1>6, <1>9, FineStaled
<1>11. G.revisions = f.revisions /\ G.attitude = f.attitude
  BY <1>1 DEF FormTypes
<1>12. (\A a \in Agents : mail[a] \subseteq mail'[a]) /\ \A a \in Agents : a \in S => <<q, 0>> \in mail'[a]
  BY <1>6, ToldGrows
<1>13. Tells(q, forms[q], G)
  <2>1. \A a \in Invited(G) : <<q, 0>> \in mail'[a]
    BY <1>1, <1>11, <1>12 DEF Invited
  <2>2. PICK H : H = forms[q]
    OBVIOUS
  <2>3. G.revisions = H.revisions /\ H.status # "none"
    BY <1>11, <2>2
  <2>4. Tells(q, H, G)
    BY <2>1, <2>3 DEF Tells
  <2> QED
    BY <2>2, <2>4
<1>14. \A p, n : <<"auto", p, n>> \in after =>
         p = q /\ n = Revision(G) /\ Invited(G) = {} /\ G.status # "none"
  BY <1>5
<1>15. \A w \in waiting' : w \in waiting \/ w.own = {}
  OBVIOUS
<1>16. Itself(q, G, after, kind)
  BY <1>5, <1>11 DEF Itself
<1> QED
  BY <1>6, <1>7, <1>8, <1>10, <1>12, <1>13, <1>14, <1>15, <1>16, RequestMailing

Bare(after, kind) == after = {} /\ kind # "auto"

Silent == UNCHANGED <<mail, waiting, jobs>>

\* A form that keeps its revisions, and is not created.
Keeps(F, G) ==
    G.revisions = F.revisions /\ F.status # "none" /\ (G.status = "created" => F.status = "created")

\* An operation that keeps revisions and tells nobody.
LEMMA PlainMailing ==
    ASSUME Formed, Balloted, NEW q \in Requests \cap limit.agenda,
           NEW G, forms' = [forms EXCEPT ![q] = G], Keeps(forms[q], G),
           Silent,
           \A d \in Drafts : Fine(d, drafts'[d]),
           NEW ds, NEW after, NEW kind, Bare(after, kind),
           NEW u, Commit({q}, ds, u, after, kind), u.forms = Only(forms, {q}), NEW S, u.mail = Only(mail, S),
           NEW R, u.drafts = R, \A d \in DOMAIN R : Fine(d, R[d])
    PROVE  Mailing
<1>1. Tells(q, forms[q], G)
  <2>1. PICK H : H = forms[q]
    OBVIOUS
  <2>2. Keeps(H, G)
    BY <2>1
  <2>3. Tells(q, H, G)
    BY <2>2 DEF Tells, Keeps
  <2> QED
    BY <2>1, <2>3
<1>2. \A p, n : <<"auto", p, n>> \in after =>
        p = q /\ n = Revision(G) /\ Invited(G) = {} /\ G.status # "none"
  BY DEF Bare
<1>3. Itself(q, G, after, kind)
  BY DEF Bare, Itself
<1>4. (\A w \in waiting' : w \in waiting \/ w.own = {}) /\ jobs' \subseteq jobs
      /\ \A a \in Agents : mail[a] \subseteq mail'[a]
  BY DEF Silent
<1> QED
  BY <1>1, <1>2, <1>3, <1>4, RequestMailing

LEMMA ExceptKeeps ==
    ASSUME NEW F \in FormTypes
    PROVE  /\ \A a, k : /\ [F EXCEPT !.attitude[a] = k].revisions = F.revisions
                        /\ [F EXCEPT !.attitude[a] = k].status = F.status
           /\ \A a, k : /\ [F EXCEPT !.late[a] = k].revisions = F.revisions
                        /\ [F EXCEPT !.late[a] = k].status = F.status
           /\ \A k : [F EXCEPT !.status = k].revisions = F.revisions /\ [F EXCEPT !.status = k].status = k
           /\ \A a, k, l : LET G == [F EXCEPT !.attitude[a] = k, !.late[a] = l] IN
                G.revisions = F.revisions /\ G.status = F.status
           /\ \A a, k, l, J : LET G == [F EXCEPT !.attitude[a] = k, !.joined = J, !.late[a] = l] IN
                G.revisions = F.revisions /\ G.status = F.status
BY DEF FormTypes

LEMMA FormMailing ==
    ASSUME Formed, Balloted, Drawn, NEW q \in Requests \cap limit.agenda,
           NEW G, forms' = [forms EXCEPT ![q] = G], Keeps(forms[q], G),
           Silent, UNCHANGED drafts,
           NEW u, Commit({q}, {}, u, {}, "call"), u.forms = Only(forms, {q}), NEW S, u.mail = Only(mail, S),
           u.drafts = <<>>
    PROVE  Mailing
<1>1. PICK R, ds, after, kind : R = <<>> /\ ds = {} /\ after = {} /\ kind = "call"
  OBVIOUS
<1>2. Commit({q}, ds, u, after, kind) /\ u.drafts = R /\ Bare(after, kind)
  BY <1>1 DEF Bare
<1>3. (\A d \in Drafts : Fine(d, drafts'[d])) /\ \A d \in DOMAIN R : Fine(d, R[d])
  BY <1>1, EmptyDomain DEF Drawn
<1> QED
  BY <1>2, <1>3, PlainMailing

LEMMA AbandonMailing ==
    ASSUME Formed, Balloted, Drawn, NEW q \in Requests \cap limit.agenda, Abandon(q)
    PROVE  Mailing
<1>1. PICK stale, told : stale = Stale(q, {}) /\ told = Invited(forms[q]) \cup {Initiator[q]}
  OBVIOUS
<1>2. PICK u : u = DraftsUndo(Only(forms, {q}), Only(drafts, stale), Only(mail, told))
  OBVIOUS
<1>3. PICK G, ds, after, kind : /\ G = [forms[q] EXCEPT !.status = "abandoned"]
                                /\ ds = {} /\ after = {} /\ kind = "call"
  OBVIOUS
<1>4. /\ Commit({q}, ds, u, after, kind) /\ drafts' = Staled(stale) /\ Silent
      /\ forms' = [forms EXCEPT ![q] = G] /\ forms[q].status # "none" /\ Bare(after, kind)
  BY <1>1, <1>2, <1>3 DEF Abandon, DraftsUndo, Silent, Open, Bare
<1>5. Keeps(forms[q], G)
  <2>1. forms[q] \in FormTypes
    BY Registries
  <2>2. G.revisions = forms[q].revisions /\ G.status = "abandoned"
    BY <1>3, <2>1, ExceptKeeps
  <2> QED
    BY <1>4, <2>2 DEF Keeps
<1>6. PICK R : R = Only(drafts, stale)
  OBVIOUS
<1>7. u.forms = Only(forms, {q}) /\ u.mail = Only(mail, told) /\ u.drafts = R
  BY <1>2, <1>6, UndoParts, UndoDrafts
<1>8. stale \in SUBSET Drafts /\ \A d \in stale : drafts[d].status = "READY"
  BY <1>1, StaleFacts
<1>9. (\A d \in Drafts : Fine(d, drafts'[d])) /\ \A d \in DOMAIN R : Fine(d, R[d])
  BY <1>4, <1>6, <1>8, FineStaled
<1> QED
  BY <1>4, <1>5, <1>7, <1>9, PlainMailing

LEMMA JoinMailing ==
    ASSUME Formed, Balloted, Drawn, NEW q \in Requests \cap limit.agenda, forms[q].status = "created",
           NEW a, NEW S, Join(q, a, forms[q], S)
    PROVE  Mailing
<1>1. PICK before : before = [x \in {q} |-> forms[q]]
  OBVIOUS
<1>2. before = Only(forms, {q})
  BY <1>1 DEF Only
<1>3. PICK u : u = JoinUndo(before, Only(decided, {q}), Only(members, {q}), Only(mail, S))
  OBVIOUS
<1>4. PICK G : G = [forms[q] EXCEPT !.attitude[a] = "accepted", !.joined = @ \cup {a}, !.late[a] = "approved"]
  OBVIOUS
<1>5. Commit({q}, {}, u, {}, "call") /\ UNCHANGED drafts /\ Silent
  BY <1>1, <1>3 DEF Join, JoinUndo, Silent
<1>6. forms' = [forms EXCEPT ![q] = G]
  <2>1. forms[q] \in FormTypes
    BY Registries
  <2>2. G = [forms[q] EXCEPT !.attitude[a] = "accepted", !.joined = forms[q].joined \cup {a}, !.late[a] = "approved"]
    BY <1>4
  <2>3. forms' = [forms EXCEPT ![q].attitude[a] = "accepted", ![q].joined = @ \cup {a}, ![q].late[a] = "approved"]
    BY DEF Join
  <2> QED
    BY <2>1, <2>2, <2>3, Registries DEF FormTypes
<1>7. Keeps(forms[q], G)
  <2>1. PICK F, J : F = forms[q] /\ J = F.joined \cup {a}
    OBVIOUS
  <2>2. F \in FormTypes
    BY <2>1, Registries
  <2>3. G = [F EXCEPT !.attitude[a] = "accepted", !.joined = J, !.late[a] = "approved"]
    BY <1>4, <2>1
  <2>4. G.revisions = F.revisions /\ G.status = F.status
    BY <2>2, <2>3, ExceptKeeps
  <2> QED
    BY <2>1, <2>4 DEF Keeps
<1>8. u.forms = Only(forms, {q}) /\ u.mail = Only(mail, S) /\ u.drafts = <<>>
  BY <1>2, <1>3, UndoParts, UndoDrafts
<1> QED
  BY <1>5, <1>6, <1>7, <1>8, FormMailing

LEMMA AnswerMailing ==
    ASSUME Formed, Balloted, Drawn, NEW q \in Requests \cap limit.agenda,
           NEW G, forms' = [forms EXCEPT ![q] = G], Keeps(forms[q], G), Silent, UNCHANGED drafts, NEW S,
           Commit({q}, {}, [NoUndo EXCEPT !.forms = Only(forms, {q}), !.decided = Only(decided, {q}),
                                          !.mail = Only(mail, S)], {}, "call")
    PROVE  Mailing
<1>1. PICK u : u = AnswerUndo(Only(forms, {q}), Only(decided, {q}), Only(mail, S))
  OBVIOUS
<1>2. Commit({q}, {}, u, {}, "call")
  BY <1>1 DEF AnswerUndo
<1>3. u.forms = Only(forms, {q}) /\ u.mail = Only(mail, S) /\ u.drafts = <<>>
  BY <1>1, UndoParts, UndoDrafts
<1> QED
  BY <1>2, <1>3, FormMailing

LEMMA RespondMailing ==
    ASSUME Formed, Balloted, Drawn, NEW q \in Requests \cap limit.agenda,
           NEW a \in Agents, NEW n, NEW answer \in Answers, Respond(q, a, n, answer)
    PROVE  Mailing
<1>1. PICK g : g = [forms[q] EXCEPT !.attitude[a] = answer]
  OBVIOUS
<1>2. PICK k \in {"ready", "collecting"} :
        k = IF Accepted(g) = Invited(g) /\ ~Proposal(g).auto THEN "ready" ELSE "collecting"
  OBVIOUS
<1>3. PICK f : f = [g EXCEPT !.status = k]
  OBVIOUS
<1>4. forms[q].status \in {"collecting", "ready"} /\ waiting' = waiting /\ jobs' = jobs
  BY DEF Respond, Open
<1>5. f \in FormTypes /\ f.revisions = forms[q].revisions /\ f.status # "created"
  <2>1. PICK F : F = forms[q]
    OBVIOUS
  <2>2. F \in FormTypes
    BY <2>1, Registries
  <2>3. g \in FormTypes
    BY <1>1, <2>1, <2>2, FormFields
  <2>4. g.revisions = F.revisions
    BY <1>1, <2>1, <2>2, ExceptKeeps
  <2>5. f \in FormTypes
    BY <1>2, <1>3, <2>3, FormFields
  <2>6. f.revisions = g.revisions /\ f.status = k
    BY <1>3, <2>3, ExceptKeeps
  <2> QED
    BY <1>2, <2>1, <2>4, <2>5, <2>6
<1>6. \/ Finalize(q, f, forms[q], "call")
      \/ /\ forms' = [forms EXCEPT ![q] = f]
         /\ Commit({q}, {}, [NoUndo EXCEPT !.forms = Only(forms, {q}), !.decided = Only(decided, {q}),
                                           !.mail = Only(mail, {Initiator[q], a})], {}, "call")
         /\ UNCHANGED <<drafts, mail>>
  BY <1>1, <1>2, <1>3, Zenon DEF Respond
<1>7. CASE Finalize(q, f, forms[q], "call")
  <2>1. PICK kind : kind = "call"
    OBVIOUS
  <2>2. /\ Finalize(q, f, forms[q], kind)
        /\ (kind = "auto" => \E m \in Nat : <<"auto", q, m>> \in jobs /\ m = Revision(forms[q]))
    BY <1>7, <2>1
  <2>3. forms[q].status # "none" /\ waiting' = waiting /\ jobs' \subseteq jobs
    BY <1>4
  <2> QED
    BY <1>5, <2>2, <2>3, FinalizeMailing
<1>8. CASE /\ forms' = [forms EXCEPT ![q] = f]
           /\ Commit({q}, {}, [NoUndo EXCEPT !.forms = Only(forms, {q}), !.decided = Only(decided, {q}),
                                             !.mail = Only(mail, {Initiator[q], a})], {}, "call")
           /\ UNCHANGED <<drafts, mail>>
  <2>1. Silent /\ Keeps(forms[q], f)
    BY <1>4, <1>5, <1>8 DEF Silent, Keeps
  <2> QED
    BY <1>8, <2>1, AnswerMailing
<1> QED
  BY <1>6, <1>7, <1>8

LEMMA CreateMailing ==
    ASSUME Formed, Balloted, Drawn, NEW q \in Requests \cap limit.agenda, NEW n \in Nat,
           Create(q) \/ AutoCreate(q, n)
    PROVE  Mailing
<1>1. PICK f : f = forms[q]
  OBVIOUS
<1>2. f \in FormTypes /\ f.revisions = forms[q].revisions
  BY <1>1, Registries
<1>3. ASSUME NEW kind, Finalize(q, forms[q], forms[q], kind), forms[q].status # "none",
             waiting' = waiting, jobs' \subseteq jobs,
             kind = "auto" => \E m \in Nat : <<"auto", q, m>> \in jobs /\ m = Revision(forms[q])
      PROVE  Mailing
  <2>1. Finalize(q, f, forms[q], kind)
    BY <1>1, <1>3
  <2> QED
    BY <1>2, <1>3, <2>1, FinalizeMailing
<1>4. CASE Create(q)
  <2>1. /\ Finalize(q, forms[q], forms[q], "call") /\ forms[q].status # "none"
        /\ waiting' = waiting /\ jobs' \subseteq jobs
    BY <1>4 DEF Create, Creatable, Open
  <2>2. "call" # "auto"
    OBVIOUS
  <2> QED
    BY <1>3, <2>1, <2>2
<1>5. CASE AutoCreate(q, n)
  <2>1. <<"auto", q, n>> \in jobs /\ waiting' = waiting /\ jobs' \subseteq jobs
    BY <1>5 DEF AutoCreate
  <2>2. CASE n = Revision(forms[q]) /\ Creatable(q, forms[q])
    <3>1. Finalize(q, forms[q], forms[q], "auto") /\ forms[q].status # "none"
      BY <1>5, <2>2 DEF AutoCreate, Creatable, Open
    <3> QED
      BY <1>3, <2>1, <2>2, <3>1
  <2>3. CASE UNCHANGED <<forms, drafts, teams, members, mail, flight>>
    BY <2>1, <2>3, QuietMailing
  <2> QED
    BY <1>5, <2>2, <2>3 DEF AutoCreate
<1> QED
  BY <1>4, <1>5

LEMMA LateMailing ==
    ASSUME Formed, Balloted, Drawn, NEW q \in Requests \cap limit.agenda,
           NEW a \in Agents, NEW n, NEW answer \in Answers, NEW approved,
           RespondLate(q, a, n, answer) \/ DecideLate(q, a, approved)
    PROVE  Mailing
<1>1. forms[q] \in FormTypes
  BY Registries
<1>2. CASE RespondLate(q, a, n, answer)
  <2>1. forms[q].status = "created"
    BY <1>2 DEF RespondLate
  <2>2. CASE Join(q, a, forms[q], {Initiator[q], a})
    BY <2>1, <2>2, JoinMailing
  <2>3. PICK l : l = IF answer = "accepted" THEN "pending" ELSE "no"
    OBVIOUS
  <2>4. PICK G : G = [forms[q] EXCEPT !.attitude[a] = answer, !.late[a] = l]
    OBVIOUS
  <2>5. CASE /\ forms' = [forms EXCEPT ![q].attitude[a] = answer,
                                       ![q].late[a] = IF answer = "accepted" THEN "pending" ELSE "no"]
             /\ Commit({q}, {}, [NoUndo EXCEPT !.forms = Only(forms, {q}), !.decided = Only(decided, {q}),
                                               !.mail = Only(mail, {Initiator[q], a})], {}, "call")
             /\ UNCHANGED <<drafts, teams, members, mail, waiting, jobs, thinking, spent>>
    <3>1. forms' = [forms EXCEPT ![q] = G]
      BY <1>1, <2>3, <2>4, <2>5, Registries DEF FormTypes
    <3>2. PICK F : F = forms[q]
      OBVIOUS
    <3>3. G.revisions = F.revisions /\ G.status = F.status
      BY <1>1, <2>4, <3>2, ExceptKeeps
    <3>4. Keeps(forms[q], G) /\ Silent
      BY <2>1, <2>5, <3>2, <3>3 DEF Keeps, Silent
    <3> QED
      BY <2>5, <3>1, <3>4, AnswerMailing
  <2> QED
    BY <1>2, <2>2, <2>5, Zenon DEF RespondLate
<1>3. CASE DecideLate(q, a, approved)
  <2>1. forms[q].status = "created"
    BY <1>3 DEF DecideLate
  <2>2. CASE Join(q, a, forms[q], {a})
    BY <2>1, <2>2, JoinMailing
  <2>3. CASE /\ forms' = [forms EXCEPT ![q].late[a] = "denied"]
             /\ Commit({q}, {}, FormUndo(Only(forms, {q}), Only(mail, {a})), {}, "call")
             /\ UNCHANGED <<drafts, mail, waiting, jobs>>
    <3>1. PICK u : u = FormUndo(Only(forms, {q}), Only(mail, {a}))
      OBVIOUS
    <3>2. PICK G : G = [forms[q] EXCEPT !.late[a] = "denied"]
      OBVIOUS
    <3>3. u.forms = Only(forms, {q}) /\ u.mail = Only(mail, {a}) /\ u.drafts = <<>>
      BY <3>1, UndoParts, UndoDrafts
    <3>4. Commit({q}, {}, u, {}, "call") /\ Silent /\ UNCHANGED drafts /\ forms' = [forms EXCEPT ![q] = G]
      BY <2>3, <3>1, <3>2 DEF Silent
    <3>5. PICK F : F = forms[q]
      OBVIOUS
    <3>6. G.revisions = F.revisions /\ G.status = F.status
      BY <1>1, <3>2, <3>5, ExceptKeeps
    <3>7. Keeps(forms[q], G)
      BY <2>1, <3>5, <3>6 DEF Keeps
    <3> QED
      BY <3>3, <3>4, <3>7, FormMailing
  <2> QED
    BY <1>3, <2>2, <2>3 DEF DecideLate, FormUndo
<1> QED
  BY <1>2, <1>3

\* Whose mail an operation on drafts may put back.
Noting(u) ==
    \/ u.mail = <<>>
    \/ limit.initial
    \/ \E q \in Requests \cap limit.agenda : u.mail = Only(mail, {Initiator[q]})

NoAutos(after, kind) == kind # "auto" /\ \A q, n : <<"auto", q, n>> \notin after

\* One draft changes, which its commit holds.
LEMMA OneMailing ==
    ASSUME Formed, Balloted, Drawn, UNCHANGED <<forms, mail, waiting>>, jobs' \subseteq jobs,
           NEW d \in Drafts, NEW x, Fine(d, x), drafts' = [drafts EXCEPT ![d] = x],
           NEW rs, NEW u, NEW after, NEW kind, NoAutos(after, kind), Commit(rs, {d}, u, after, kind),
           u.drafts = Only(drafts, {d}), u.forms = <<>>, Noting(u)
    PROVE  Mailing
<1>1. PICK ds, R : ds = {d} /\ R = Only(drafts, {d})
  OBVIOUS
<1>2. Commit(rs, ds, u, after, kind) /\ u.drafts = R
  BY <1>1
<1>3. \A e \in Drafts : Fine(e, drafts[e])
  BY DEF Drawn
<1>4. \A e \in Drafts : drafts'[e] = IF e = d THEN x ELSE drafts[e]
  BY Registries
<1>5. \A e \in Drafts : Fine(e, drafts'[e])
  <2> SUFFICES ASSUME NEW e \in Drafts PROVE Fine(e, drafts'[e])
    OBVIOUS
  <2>1. CASE e = d
    <3>1. drafts'[e] = x
      BY <1>4, <2>1
    <3> QED
      BY <2>1, <3>1
  <2>2. CASE e # d
    <3>1. drafts'[e] = drafts[e]
      BY <1>4, <2>2
    <3> QED
      BY <1>3, <3>1
  <2> QED
    BY <2>1, <2>2
<1>6. \A e \in DOMAIN R : Fine(e, R[e])
  BY <1>1, <1>3, OnlyFacts
<1>7. \A w \in waiting' : w \in waiting \/ w.own = {}
  OBVIOUS
<1>8. kind # "auto" /\ \A q, n : <<"auto", q, n>> \notin after
  BY DEF NoAutos
<1>9. \/ u.mail = <<>>
      \/ limit.initial
      \/ \E q \in Requests \cap limit.agenda : u.mail = Only(mail, {Initiator[q]})
  BY DEF Noting
<1>10. UNCHANGED <<forms, mail>>
  OBVIOUS
<1> QED
  BY <1>2, <1>5, <1>6, <1>7, <1>8, <1>9, <1>10, DraftMailing

LEMMA SetDraftMailing ==
    ASSUME Formed, Balloted, Drawn, jobs' \subseteq jobs,
           NEW d \in Drafts, NEW x, Fine(d, x), NEW after, NEW kind, NoAutos(after, kind),
           SetDraft(d, x, after, kind)
    PROVE  Mailing
<1>1. PICK u : u = DraftUndo(Only(drafts, {d}))
  OBVIOUS
<1>2. /\ Commit({}, {d}, u, after, kind) /\ drafts' = [drafts EXCEPT ![d] = x]
      /\ UNCHANGED <<forms, mail, waiting>>
  BY <1>1 DEF SetDraft, DraftUndo
<1>3. u.drafts = Only(drafts, {d}) /\ u.forms = <<>> /\ Noting(u)
  BY <1>1, UndoDrafts, UndoParts DEF Noting
<1> QED
  BY <1>2, <1>3, OneMailing

\* The initiator of a draft is that of the formation it belongs to.
LEMMA DraftInitiator ==
    ASSUME Formed, Balloted, Drawn, NEW d \in Drafts, drafts[d].status # "none"
    PROVE  limit.initial \/ \E q \in Requests \cap limit.agenda : Initiator[q] = Initiator[d]
<1>1. drafts[d] \in Drafty /\ Fine(d, drafts[d])
  BY Registries DEF Drawn
<1>2. CASE drafts[d].request = Initial
  BY <1>1, <1>2 DEF Drafty
<1>3. CASE drafts[d].request \in Requests
  BY <1>1, <1>3 DEF Fine
<1> QED
  BY <1>1, <1>2, <1>3 DEF Drafty, DraftTypes

LEMMA ConcludeMailing ==
    ASSUME Formed, Balloted, Drawn, jobs' \subseteq jobs,
           NEW d \in Drafts, NEW x, drafts[d].status # "none" => Fine(d, x), Conclude(d, x)
    PROVE  Mailing
<1>1. CASE drafts[d].status = "RUNNING"
  <2>1. PICK u : u = NoteUndo(Only(drafts, {d}), Only(mail, {Initiator[d]}))
    OBVIOUS
  <2>2. PICK after, kind : after = {} /\ kind = "task"
    OBVIOUS
  <2>3. /\ Commit({}, {d}, u, after, kind) /\ drafts' = [drafts EXCEPT ![d] = x]
        /\ UNCHANGED <<forms, mail, waiting>>
    BY <1>1, <2>1, <2>2 DEF Conclude, NoteUndo
  <2>4. u.drafts = Only(drafts, {d}) /\ u.forms = <<>> /\ u.mail = Only(mail, {Initiator[d]})
    BY <2>1, UndoDrafts, UndoParts
  <2>5. Noting(u)
    <3>1. limit.initial \/ \E q \in Requests \cap limit.agenda : Initiator[q] = Initiator[d]
      BY <1>1, DraftInitiator
    <3>2. ASSUME NEW q \in Requests \cap limit.agenda, Initiator[q] = Initiator[d] PROVE Noting(u)
      <4>1. u.mail = Only(mail, {Initiator[q]})
        BY <2>4, <3>2
      <4> QED
        BY <4>1 DEF Noting
    <3>3. CASE limit.initial
      BY <3>3 DEF Noting
    <3> QED
      BY <3>1, <3>2, <3>3
  <2>6. NoAutos(after, kind)
    BY <2>2 DEF NoAutos
  <2>7. Fine(d, x)
    BY <1>1
  <2> QED
    BY <2>3, <2>4, <2>5, <2>6, <2>7, OneMailing
<1>2. CASE UNCHANGED <<drafts, flight>>
  <2>1. UNCHANGED <<forms, mail, drafts, flight>> /\ \A w \in waiting' : w \in waiting \/ w.own = {}
    BY <1>2 DEF Conclude
  <2> QED
    BY <2>1, QuietMailing
<1> QED
  BY <1>1, <1>2 DEF Conclude

\* A draft whose formation stays the same.
LEMMA FineOf ==
    ASSUME Formed, Balloted, Drawn, NEW d \in Drafts, drafts[d].status # "none", NEW x,
           x.request = drafts[d].request
    PROVE  Fine(d, x)
BY DEF Drawn, Fine

LEMMA NewDraftMailing ==
    ASSUME Formed, Balloted, Drawn, NEW d \in Drafts, NEW q \in (Requests \cap limit.agenda) \cup {Initial},
           NewDraft(d, q)
    PROVE  Mailing
<1>1. PICK x : x = [NoDraft EXCEPT !.status = "PENDING", !.request = q,
                                   !.base = IF q = Initial THEN 0 ELSE Revision(forms[q])]
  OBVIOUS
<1>2. x.request = q
  BY <1>1 DEF NoDraft
<1>3. PICK u : u = DraftUndo(Only(drafts, {d}))
  OBVIOUS
<1>4. PICK rs, after, kind : rs = {q} \ {Initial} /\ after = {<<"draft", d, 0>>} /\ kind = "call"
  OBVIOUS
<1>5. /\ drafts' = [drafts EXCEPT ![d] = x] /\ Commit(rs, {d}, u, after, kind)
      /\ UNCHANGED <<forms, mail, waiting>> /\ jobs' \subseteq jobs
      /\ q # Initial => Initiator[d] = Initiator[q]
  BY <1>1, <1>3, <1>4 DEF NewDraft, DraftUndo
<1>6. Fine(d, x)
  <2>1. q \in Requests => q \in limit.agenda /\ q # Initial
    BY FormationAssumption
  <2> QED
    BY <1>2, <1>5, <2>1 DEF Fine
<1>7. NoAutos(after, kind)
  BY <1>4 DEF NoAutos
<1>8. u.drafts = Only(drafts, {d}) /\ u.forms = <<>> /\ Noting(u)
  BY <1>3, UndoDrafts, UndoParts DEF Noting
<1> QED
  BY <1>5, <1>6, <1>7, <1>8, OneMailing

LEMMA DraftStyled ==
    ASSUME Formed, Balloted, Drawn, NEW d \in Drafts, drafts[d].status # "none", NEW k
    PROVE  Fine(d, [drafts[d] EXCEPT !.status = k])
<1>1. PICK x : x = [drafts[d] EXCEPT !.status = k]
  OBVIOUS
<1>2. x.request = drafts[d].request
  BY <1>1, Registries DEF Drafty, DraftTypes
<1> QED
  BY <1>1, <1>2, FineOf

LEMMA TaskMailing ==
    ASSUME Formed, Balloted, Drawn, NEW d \in Drafts,
           RetryDraft(d) \/ RunDraft(d) \/ Deliberate(d) \/ BaseGone(d)
    PROVE  Mailing
<1>1. CASE RetryDraft(d)
  <2>1. PICK x, after, kind : /\ x = [drafts[d] EXCEPT !.status = "PENDING"]
                              /\ after = {<<"draft", d, 0>>} /\ kind = "call"
    OBVIOUS
  <2>2. SetDraft(d, x, after, kind) /\ drafts[d].status # "none" /\ jobs' \subseteq jobs
    BY <1>1, <2>1 DEF RetryDraft
  <2>3. Fine(d, x)
    BY <2>1, <2>2, DraftStyled
  <2>4. NoAutos(after, kind)
    BY <2>1 DEF NoAutos
  <2> QED
    BY <2>2, <2>3, <2>4, SetDraftMailing
<1>2. CASE RunDraft(d)
  <2>1. PICK x, after, kind : /\ x = [drafts[d] EXCEPT !.status = "RUNNING"]
                              /\ after = {<<"think", d, 0>>} /\ kind = "task"
    OBVIOUS
  <2>2. jobs' \subseteq jobs
    BY <1>2 DEF RunDraft
  <2>3. CASE drafts[d].status = "PENDING"
    <3>1. SetDraft(d, x, after, kind)
      BY <1>2, <2>1, <2>3 DEF RunDraft
    <3>2. Fine(d, x)
      BY <2>1, <2>3, DraftStyled
    <3>3. NoAutos(after, kind)
      BY <2>1 DEF NoAutos
    <3> QED
      BY <2>2, <3>1, <3>2, <3>3, SetDraftMailing
  <2>4. CASE UNCHANGED <<forms, decided, drafts, teams, members, mail, flight, waiting, spent>>
    <3>1. \A w \in waiting' : w \in waiting \/ w.own = {}
      BY <2>4
    <3> QED
      BY <2>2, <2>4, <3>1, QuietMailing
  <2> QED
    BY <1>2, <2>3, <2>4 DEF RunDraft
<1>3. CASE Deliberate(d)
  <2>1. /\ UNCHANGED <<forms, mail, drafts, flight>> /\ jobs' \subseteq jobs
        /\ \A w \in waiting' : w \in waiting \/ w.own = {}
    BY <1>3 DEF Deliberate
  <2> QED
    BY <2>1, QuietMailing
<1>4. CASE BaseGone(d)
  <2>1. PICK x : x = [drafts[d] EXCEPT !.status = "STALE"]
    OBVIOUS
  <2>2. Conclude(d, x) /\ jobs' \subseteq jobs
    BY <1>4, <2>1 DEF BaseGone
  <2>3. drafts[d].status # "none" => Fine(d, x)
    BY <2>1, DraftStyled
  <2> QED
    BY <2>2, <2>3, ConcludeMailing
<1> QED
  BY <1>1, <1>2, <1>3, <1>4

LEMMA OutcomeMailing ==
    ASSUME Formed, Balloted, Drawn, NEW v, v.draft \in Drafts, NEW c, Deliver(v, c) \/ GiveUp(v)
    PROVE  Mailing
<1>1. PICK d \in Drafts : d = v.draft
  OBVIOUS
<1>2. CASE Deliver(v, c)
  <2>1. PICK y, k : y = drafts[d] /\ k = IF BaseCurrent(y) THEN "READY" ELSE "STALE"
    OBVIOUS
  <2>2. PICK x : x = [y EXCEPT !.status = k, !.candidate = c]
    OBVIOUS
  <2>3. Conclude(d, x) /\ jobs' \subseteq jobs
    BY <1>1, <1>2, <2>1, <2>2 DEF Deliver
  <2>4. x.request = drafts[d].request
    <3>1. y \in Drafty
      BY <1>1, <2>1, Registries
    <3> QED
      BY <2>1, <2>2, <3>1 DEF Drafty, DraftTypes
  <2>5. drafts[d].status # "none" => Fine(d, x)
    BY <1>1, <2>4, FineOf
  <2> QED
    BY <1>1, <2>3, <2>5, ConcludeMailing
<1>3. CASE GiveUp(v)
  <2>1. PICK x : x = [drafts[d] EXCEPT !.status = "FAILED"]
    OBVIOUS
  <2>2. Conclude(d, x) /\ jobs' \subseteq jobs
    BY <1>1, <1>3, <2>1 DEF GiveUp
  <2>3. drafts[d].status # "none" => Fine(d, x)
    BY <1>1, <2>1, DraftStyled
  <2> QED
    BY <1>1, <2>2, <2>3, ConcludeMailing
<1> QED
  BY <1>2, <1>3

\* The draft that a publication holds.
LEMMA HeldFine ==
    ASSUME Formed, Balloted, Drawn, NEW w, IsWait(w), \A x \in w.own : Fine(w.draft, x)
    PROVE  Fine(w.draft, Held(w)) /\ Held(w).request \in Requests \cap limit.agenda
<1>1. Held(w) \in Publishable /\ w.draft \in Drafts
  BY HeldFacts DEF IsWait
<1>2. ASSUME w.own = {} PROVE Fine(w.draft, Held(w))
  BY <1>1, <1>2 DEF Held, Drawn
<1>3. ASSUME w.own # {} PROVE Fine(w.draft, Held(w))
  <2>1. (CHOOSE x \in w.own : TRUE) \in w.own
    BY <1>3
  <2> QED
    BY <1>3, <2>1 DEF Held
<1>4. Fine(w.draft, Held(w))
  BY <1>2, <1>3
<1>5. Held(w).status # "none" /\ Held(w).request \in Requests
  BY <1>1 DEF Publishable
<1> QED
  BY <1>4, <1>5 DEF Fine

LEMMA PublishInitialMailing ==
    ASSUME Formed, Balloted, Drawn, NEW d \in Drafts, NEW q \in Requests \cap limit.agenda, PublishInitial(d, q)
    PROVE  Mailing
<1>1. PICK c : c = drafts[d].candidate
  OBVIOUS
<1>2. drafts[d].status = "READY" /\ drafts[d].request = Initial /\ drafts[d] \in Drafty
  BY Registries DEF PublishInitial
<1>3. c \in Contents /\ limit.initial
  BY <1>1, <1>2 DEF Drafty
<1>4. PICK f : f = Revised(Unused, c, d)
  OBVIOUS
<1>5. PICK R, S : R = Only(drafts, {d}) /\ S = Invited(f) \cup {Initiator[d]}
  OBVIOUS
<1>6. PICK u : u = DraftsUndo(Only(forms, {q}), R, Only(mail, S))
  OBVIOUS
<1>7. PICK rs, ds, after, kind : rs = {} /\ ds = {d} /\ after = Autos(q, f) /\ kind = "call"
  OBVIOUS
<1>8. /\ Commit(rs, ds, u, after, kind) /\ forms[q].status = "none"
      /\ forms' = [forms EXCEPT ![q] = f] /\ mail' = Told(Invited(f), <<q, 1>>)
      /\ Initiator[q] \notin Content[c].invitees
      /\ drafts' = [drafts EXCEPT ![d].status = "PUBLISHED"] /\ UNCHANGED <<waiting, jobs>>
  BY <1>1, <1>4, <1>5, <1>6, <1>7 DEF PublishInitial, DraftsUndo, Proposable
<1>9. u.drafts = R
  BY <1>6, UndoDrafts
<1>10. PICK s \in Drafts \cup {Nothing} : s = d
  OBVIOUS
<1>11. f = Revised(Unused, c, s)
  BY <1>4, <1>10
<1>12. PICK H : H = forms[q]
  OBVIOUS
<1>13. Tells(q, H, f) /\ \A a \in Agents : mail[a] \subseteq mail'[a]
  BY <1>3, <1>8, <1>10, <1>11, <1>12, FirstTells
<1>14. \A p \in Requests : forms'[p] # forms[p] => p \in limit.agenda /\ Tells(p, forms[p], forms'[p])
  <2> SUFFICES ASSUME NEW p \in Requests, forms'[p] # forms[p]
               PROVE  p \in limit.agenda /\ Tells(p, forms[p], forms'[p])
    OBVIOUS
  <2>1. p = q /\ forms'[p] = f
    BY <1>8, Registries
  <2> QED
    BY <1>12, <1>13, <2>1
<1>15. \A e \in Drafts : Fine(e, drafts'[e])
  <2> SUFFICES ASSUME NEW e \in Drafts PROVE Fine(e, drafts'[e])
    OBVIOUS
  <2>1. CASE e = d
    <3>1. drafts'[e] = [drafts[d] EXCEPT !.status = "PUBLISHED"]
      BY <1>8, <2>1, Registries
    <3> QED
      BY <1>2, <2>1, <3>1, DraftStyled
  <2>2. CASE e # d
    <3>1. drafts'[e] = drafts[e]
      BY <1>8, <2>2, Registries
    <3> QED
      BY <3>1 DEF Drawn
  <2> QED
    BY <2>1, <2>2
<1>16. \A e \in DOMAIN R : Fine(e, R[e])
  BY <1>5, OnlyFacts DEF Drawn
<1>17. Records
  BY <1>3, <1>8, <1>9, <1>16, CommitRecords
<1>18. \A p \in Requests, n \in Nat : <<"auto", p, n>> \in jobs' => <<"auto", p, n>> \in jobs
  BY <1>8
<1>19. \A w \in waiting' : w \in waiting \/ w.own = {}
  BY <1>8
<1> QED
  BY <1>13, <1>14, <1>15, <1>17, <1>18, <1>19, Zenon DEF Mailing, Records

LEMMA MarkMailing ==
    ASSUME Formed, Balloted, Drawn, NEW w, IsWait(w), \A x \in w.own : Fine(w.draft, x),
           waiting' \subseteq waiting, UNCHANGED jobs, NEW k, Mark(w, k),
           \A d \in Drafts : Fine(d, drafts'[d])
    PROVE  Mailing
<1>1. PICK R : R = [d \in {w.draft} |-> Held(w)]
  OBVIOUS
<1>2. PICK u : u = DraftUndo(R)
  OBVIOUS
<1>3. PICK rs, ds, after, kind : rs = {Held(w).request} /\ ds = {w.draft} /\ after = {} /\ kind = "call"
  OBVIOUS
<1>4. Commit(rs, ds, u, after, kind) /\ UNCHANGED <<forms, mail>>
  BY <1>1, <1>2, <1>3 DEF Mark, DraftUndo
<1>5. u.drafts = R /\ u.forms = <<>> /\ u.mail = <<>>
  BY <1>2, UndoDrafts, UndoParts
<1>6. \A d \in DOMAIN R : Fine(d, R[d])
  BY <1>1, HeldFine
<1>7. (\A v \in waiting' : v \in waiting \/ v.own = {}) /\ jobs' \subseteq jobs
  OBVIOUS
<1>8. kind # "auto" /\ \A q, n : <<"auto", q, n>> \notin after
  BY <1>3
<1>9. u.mail = <<>> \/ limit.initial \/ \E q \in Requests \cap limit.agenda : u.mail = Only(mail, {Initiator[q]})
  BY <1>5
<1> QED
  BY <1>4, <1>5, <1>6, <1>7, <1>8, <1>9, DraftMailing

LEMMA MarkedFine ==
    ASSUME Formed, Balloted, Drawn, NEW S \in SUBSET Drafts, \A d \in S : drafts[d].status = "READY",
           NEW w, IsWait(w), NEW k, NEW f, f = drafts \/ f = Staled(S), NEW g, g = Override(f, Registered(w, k))
    PROVE  \A d \in Drafts : Fine(d, g[d])
<1>1. DOMAIN f = Drafts /\ \A d \in Drafts : Fine(d, f[d])
  <2>1. CASE f = drafts
    BY <2>1, Registries DEF Drawn
  <2>2. CASE f = Staled(S)
    <3>1. \A d \in Drafts : Fine(d, Staled(S)[d])
      BY FineStaled
    <3>2. DOMAIN f = Drafts
      BY <2>2 DEF Staled
    <3> QED
      BY <2>2, <3>1, <3>2
  <2> QED
    BY <2>1, <2>2
<1>2. PICK r : r = Registered(w, k)
  OBVIOUS
<1>3. \A d \in DOMAIN r : Fine(d, r[d])
  <2>1. CASE w.own = {}
    <3>1. r = [d \in {w.draft} |-> [drafts[d] EXCEPT !.status = k]]
      BY <1>2, <2>1 DEF Registered
    <3>2. PICK d : d = w.draft
      OBVIOUS
    <3>3. d \in Drafts /\ drafts[d].status # "none"
      BY <2>1, <3>2 DEF IsWait, Publishable
    <3>4. Fine(d, [drafts[d] EXCEPT !.status = k])
      BY <3>3, DraftStyled
    <3> QED
      BY <3>1, <3>2, <3>4
  <2>2. CASE w.own # {}
    BY <1>2, <2>2, EmptyDomain DEF Registered
  <2> QED
    BY <2>1, <2>2
<1>4. g = [d \in Drafts |-> IF d \in DOMAIN r THEN r[d] ELSE f[d]]
  BY <1>1, <1>2 DEF Override
<1> QED
  BY <1>1, <1>3, <1>4

\* What an operation on a formation commits.
Booked(q, G, ds, u, after, kind, S, R) ==
    /\ Commit({q}, ds, u, after, kind)
    /\ u.forms = Only(forms, {q}) /\ u.mail = Only(mail, S) /\ u.drafts = R
    /\ \A d \in DOMAIN R : Fine(d, R[d])
    /\ \A p, n : <<"auto", p, n>> \in after =>
         p = q /\ n = Revision(G) /\ Invited(G) = {} /\ G.status # "none"
    /\ kind # "auto"

LEMMA BookedMailing ==
    ASSUME Formed, Balloted, NEW q \in Requests \cap limit.agenda,
           NEW G, forms' = [forms EXCEPT ![q] = G], Tells(q, forms[q], G),
           \A a \in Agents : mail[a] \subseteq mail'[a],
           \A d \in Drafts : Fine(d, drafts'[d]),
           \A w \in waiting' : w \in waiting \/ w.own = {}, jobs' \subseteq jobs,
           NEW ds, NEW u, NEW after, NEW kind, NEW S, NEW R, Booked(q, G, ds, u, after, kind, S, R)
    PROVE  Mailing
<1>1. /\ Commit({q}, ds, u, after, kind)
      /\ u.forms = Only(forms, {q}) /\ u.mail = Only(mail, S) /\ u.drafts = R
      /\ \A d \in DOMAIN R : Fine(d, R[d])
      /\ \A p, n : <<"auto", p, n>> \in after =>
         p = q /\ n = Revision(G) /\ Invited(G) = {} /\ G.status # "none"
      /\ Itself(q, G, after, kind)
  BY DEF Booked, Itself
<1> QED
  BY <1>1, RequestMailing

LEMMA ReviseMailing ==
    ASSUME Formed, Balloted, Drawn, \A w \in waiting' : w \in waiting \/ w.own = {}, jobs' \subseteq jobs,
           NEW q \in Requests \cap limit.agenda, NEW c \in Contents, NEW s \in Drafts \cup {Nothing},
           Revisable(q, c),
           NEW published, NEW copies, NEW held, Revise(q, c, s, published, copies, held),
           \A d \in Drafts : Fine(d, drafts'[d]), \A d \in DOMAIN copies : Fine(d, copies[d])
    PROVE  Mailing
<1>1. PICK G : G = Revised(forms[q], c, s)
  OBVIOUS
<1>2. PICK stale : stale = Stale(q, {s})
  OBVIOUS
<1>3. PICK R : R = [d \in stale \cup DOMAIN copies |-> IF d \in DOMAIN copies THEN copies[d] ELSE drafts[d]]
  OBVIOUS
<1>4. PICK S : S = Invited(forms[q]) \cup Invited(G) \cup {Initiator[q]}
  OBVIOUS
<1>5. PICK u : u = DraftsUndo(Only(forms, {q}), R, Only(mail, S))
  OBVIOUS
<1>6. PICK after, kind : after = Autos(q, G) /\ kind = "call"
  OBVIOUS
<1>7. /\ Commit({q}, held, u, after, kind) /\ forms' = [forms EXCEPT ![q] = G]
      /\ mail' = Told(Invited(G), <<q, Revision(G)>>)
  BY <1>1, <1>2, <1>3, <1>4, <1>5, <1>6 DEF Revise, DraftsUndo
<1>8. u.forms = Only(forms, {q}) /\ u.mail = Only(mail, S) /\ u.drafts = R
  BY <1>5, UndoDrafts, UndoParts
<1>9. PICK F : F = forms[q]
  OBVIOUS
<1>10. Initiator[q] \notin Content[c].invitees /\ F \in FormTypes /\ G = Revised(F, c, s) /\ F = F
  BY <1>1, <1>9, Registries DEF Revisable, Proposable
<1>11. Tells(q, F, G) /\ \A a \in Agents : mail[a] \subseteq mail'[a]
  BY <1>7, <1>10, RevisedTells
<1>12. Tells(q, forms[q], G)
  BY <1>9, <1>11
<1>13. \A d \in DOMAIN R : Fine(d, R[d])
  <2>1. stale \in SUBSET Drafts
    BY <1>2, StaleFacts
  <2> QED
    BY <1>3, <2>1 DEF Drawn
<1>14. \A p, n : <<"auto", p, n>> \in after =>
         p = q /\ n = Revision(G) /\ Invited(G) = {} /\ G.status # "none"
  <2>1. G.status # "none"
    BY <1>10, RevisedFields
  <2> QED
    BY <1>6, <2>1, AutosFacts
<1>15. Booked(q, G, held, u, after, kind, S, R)
  BY <1>6, <1>7, <1>8, <1>13, <1>14 DEF Booked
<1>16. forms' = [forms EXCEPT ![q] = G]
  BY <1>7
<1>17. \A a \in Agents : mail[a] \subseteq mail'[a]
  BY <1>11
<1> QED
  BY <1>12, <1>15, <1>16, <1>17, BookedMailing

LEMMA ReviseFormationMailing ==
    ASSUME Formed, Balloted, Drawn, NEW q \in Requests \cap limit.agenda, NEW c \in Contents,
           ReviseFormation(q, c)
    PROVE  Mailing
<1>1. PICK s \in Drafts \cup {Nothing} : s = Nothing
  OBVIOUS
<1>2. PICK stale : stale = Stale(q, {Nothing})
  OBVIOUS
<1>3. PICK none, held : none = <<>> /\ held = {}
  OBVIOUS
<1>4. Revise(q, c, Nothing, <<>>, <<>>, {}) /\ Revisable(q, c) /\ UNCHANGED <<waiting, jobs>>
  BY DEF ReviseFormation
<1>5. Revise(q, c, s, none, none, held)
  BY <1>1, <1>3, <1>4
<1>6. drafts' = Override(Staled(stale), none)
  BY <1>2, <1>3, <1>4 DEF Revise
<1>7. stale \in SUBSET Drafts /\ \A d \in stale : drafts[d].status = "READY"
  BY <1>2, StaleFacts
<1>8. \A d \in Drafts : Fine(d, drafts'[d])
  <2>1. DOMAIN Staled(stale) = Drafts
    BY DEF Staled
  <2>2. \A d \in Drafts : drafts'[d] = Staled(stale)[d]
    BY <1>3, <1>6, <2>1, EmptyDomain DEF Override
  <2>3. \A d \in Drafts : Fine(d, Staled(stale)[d])
    BY <1>7, FineStaled
  <2> QED
    BY <2>2, <2>3
<1>9. \A d \in DOMAIN none : Fine(d, none[d])
  BY <1>3, EmptyDomain
<1>10. (\A w \in waiting' : w \in waiting \/ w.own = {}) /\ jobs' \subseteq jobs
  BY <1>4
<1> QED
  BY <1>1, <1>4, <1>5, <1>8, <1>9, <1>10, ReviseMailing

LEMMA PublishHeldMailing ==
    ASSUME Formed, Balloted, Drawn, NEW w, IsWait(w), \A x \in w.own : Fine(w.draft, x),
           waiting' \subseteq waiting, PublishHeld(w)
    PROVE  Mailing
<1>1. PICK x, q : x = Held(w) /\ q = x.request
  OBVIOUS
<1>2. x \in Publishable /\ Fine(w.draft, x) /\ q \in Requests \cap limit.agenda
  BY <1>1, HeldFacts, HeldFine
<1>3. UNCHANGED jobs
  BY DEF PublishHeld
<1>4. ASSUME NEW k, Mark(w, k) PROVE Mailing
  <2>1. PICK S \in SUBSET Drafts : S = {}
    OBVIOUS
  <2>2. PICK f, g : f = drafts /\ g = Override(f, Registered(w, k))
    OBVIOUS
  <2>3. drafts' = g
    BY <1>4, <2>2 DEF Mark
  <2>4. \A d \in Drafts : Fine(d, g[d])
    BY <2>1, <2>2, MarkedFine
  <2>5. \A d \in Drafts : Fine(d, drafts'[d])
    BY <2>3, <2>4
  <2> QED
    BY <1>3, <1>4, <2>5, MarkMailing
<1>5. CASE UNCHANGED <<forms, drafts, mail, flight>>
  <2>1. /\ UNCHANGED <<forms, mail, drafts, flight>>
        /\ (\A v \in waiting' : v \in waiting \/ v.own = {}) /\ jobs' \subseteq jobs
    BY <1>3, <1>5
  <2> QED
    BY <2>1, QuietMailing
<1>6. CASE /\ Revisable(q, x.candidate)
           /\ Revise(q, x.candidate, w.draft, Registered(w, "PUBLISHED"), [d \in {w.draft} |-> x], {w.draft})
  <2>1. PICK copies, published, held : /\ copies = [d \in {w.draft} |-> x]
                                       /\ published = Registered(w, "PUBLISHED") /\ held = {w.draft}
    OBVIOUS
  <2>2. PICK s, c : s = w.draft /\ c = x.candidate
    OBVIOUS
  <2>3. s \in Drafts \cup {Nothing} /\ c \in Contents
    BY <1>2, <2>2 DEF IsWait, Publishable
  <2>4. Revise(q, c, s, published, copies, held) /\ Revisable(q, c)
    BY <1>6, <2>1, <2>2
  <2>5. PICK stale : stale = Stale(q, {s})
    OBVIOUS
  <2>6. stale \in SUBSET Drafts /\ \A d \in stale : drafts[d].status = "READY"
    BY <2>5, StaleFacts
  <2>7. PICK k, f : k = "PUBLISHED" /\ f = Staled(stale)
    OBVIOUS
  <2>8. PICK g : g = Override(f, Registered(w, k))
    OBVIOUS
  <2>9. drafts' = g
    BY <2>1, <2>4, <2>5, <2>7, <2>8 DEF Revise
  <2>10. \A d \in Drafts : Fine(d, g[d])
    BY <2>6, <2>7, <2>8, MarkedFine
  <2>11. \A d \in Drafts : Fine(d, drafts'[d])
    BY <2>9, <2>10
  <2>12. \A d \in DOMAIN copies : Fine(d, copies[d])
    BY <1>2, <2>1
  <2>13. (\A v \in waiting' : v \in waiting \/ v.own = {}) /\ jobs' \subseteq jobs
    BY <1>3
  <2> QED
    BY <1>2, <2>3, <2>4, <2>11, <2>12, <2>13, ReviseMailing
<1> QED
  BY <1>1, <1>4, <1>5, <1>6, Zenon DEF PublishHeld

LEMMA PublicationMailing ==
    ASSUME Formed, Balloted, Drawn, NEW d \in Drafts, NEW v, PublishRevision(d) \/ PublishWaiting(v)
    PROVE  Mailing
<1>1. CASE PublishRevision(d)
  <2>1. PICK w : w = [draft |-> d, own |-> {}]
    OBVIOUS
  <2>2. w.draft = d /\ w.own = {}
    BY <2>1
  <2>3. IsWait(w)
    <3>1. drafts[d].status = "READY" /\ drafts[d].request # Initial /\ drafts[d] \in Drafty
      BY <1>1, Registries DEF PublishRevision
    <3>2. drafts[d] \in Publishable
      BY <3>1 DEF Publishable, Drafty, DraftTypes
    <3> QED
      BY <2>1, <3>2 DEF IsWait
  <2>4. \A x \in w.own : Fine(w.draft, x)
    BY <2>2
  <2>5. CASE PublishHeld(w) /\ UNCHANGED waiting
    BY <2>3, <2>4, <2>5, PublishHeldMailing
  <2>6. CASE waiting' = waiting \cup {w} /\ UNCHANGED <<forms, drafts, mail, flight, jobs>>
    <3>1. UNCHANGED <<forms, mail, drafts, flight>> /\ jobs' \subseteq jobs
      BY <2>6
    <3>2. \A x \in waiting' : x \in waiting \/ x.own = {}
      BY <2>2, <2>6
    <3> QED
      BY <3>1, <3>2, QuietMailing
  <2> QED
    BY <1>1, <2>1, <2>5, <2>6 DEF PublishRevision
<1>2. CASE PublishWaiting(v)
  <2>1. v \in waiting /\ PublishHeld(v) /\ waiting' \subseteq waiting
    BY <1>2 DEF PublishWaiting
  <2>2. IsWait(v) /\ \A x \in v.own : Fine(v.draft, x)
    BY <2>1 DEF Formed, Drawn
  <2> QED
    BY <2>1, <2>2, PublishHeldMailing
<1> QED
  BY <1>1, <1>2

LEMMA OperationMailing ==
    ASSUME Formed, Balloted, Drawn, Operation
    PROVE  Mailing
<1>0. limit.contents \subseteq Contents
  BY DEF Formed
<1>1. ASSUME NEW q \in Requests \cap limit.agenda, Request(q) \/ AutoStep(q) PROVE Mailing
  <2>1. ASSUME NEW c \in limit.contents, Propose(q, c) \/ ReviseFormation(q, c) PROVE Mailing
    <3>1. c \in Contents
      BY <1>0
    <3> QED
      BY <2>1, <3>1, ProposeMailing, ReviseFormationMailing
  <2>2. ASSUME NEW a \in Agents, NEW n \in 1..limit.revisions, NEW answer \in Answers,
               Respond(q, a, n, answer) \/ RespondLate(q, a, n, answer)
        PROVE  Mailing
    BY <2>2, RespondMailing, LateMailing
  <2>3. CASE Create(q)
    BY <2>3, CreateMailing
  <2>4. CASE Abandon(q)
    BY <2>4, AbandonMailing
  <2>5. ASSUME NEW a \in Agents, NEW approved \in BOOLEAN, DecideLate(q, a, approved) PROVE Mailing
    <3>1. PICK n, answer : answer = "silent" /\ n = 0
      OBVIOUS
    <3>2. answer \in Answers
      BY <3>1 DEF Answers
    <3> QED
      BY <2>5, <3>2, LateMailing
  <2>6. ASSUME NEW n \in 1..limit.revisions, AutoCreate(q, n) PROVE Mailing
    <3>1. n \in Nat
      OBVIOUS
    <3> QED
      BY <2>6, <3>1, CreateMailing
  <2> QED
    BY <1>1, <2>1, <2>2, <2>3, <2>4, <2>5, <2>6, Zenon DEF Request, Answer, AutoStep
<1>2. ASSUME NEW d \in Drafts, Draft(d) PROVE Mailing
  <2>1. ASSUME NEW q \in (Requests \cap limit.agenda) \cup {Initial}, NewDraft(d, q) PROVE Mailing
    BY <2>1, NewDraftMailing
  <2>2. CASE RetryDraft(d)
    BY <2>2, TaskMailing
  <2>3. CASE PublishRevision(d)
    BY <2>3, PublicationMailing
  <2>4. ASSUME NEW q \in Requests \cap limit.agenda, PublishInitial(d, q) PROVE Mailing
    BY <2>4, PublishInitialMailing
  <2> QED
    BY <1>2, <2>1, <2>2, <2>3, <2>4, Zenon DEF Draft
<1>3. ASSUME NEW d \in Drafts, DraftStep(d) PROVE Mailing
  <2>1. CASE RunDraft(d) \/ Deliberate(d) \/ BaseGone(d)
    BY <2>1, TaskMailing
  <2>2. ASSUME NEW v, NEW c, v.draft = d, Deliver(v, c) \/ GiveUp(v) PROVE Mailing
    BY <2>2, OutcomeMailing
  <2>3. ASSUME NEW w, PublishWaiting(w) PROVE Mailing
    BY <2>3, PublicationMailing
  <2> QED
    BY <1>3, <2>1, <2>2, <2>3, Zenon DEF DraftStep
<1>4. ASSUME NEW a, NEW t, Leave(a, t) PROVE Mailing
  <2>1. /\ UNCHANGED <<forms, mail, drafts, flight>>
        /\ (\A w \in waiting' : w \in waiting \/ w.own = {}) /\ jobs' \subseteq jobs
    BY <1>4 DEF Leave
  <2> QED
    BY <2>1, QuietMailing
<1> QED
  BY <1>1, <1>2, <1>3, <1>4, Zenon DEF Operation

LEMMA AwareMore ==
    ASSUME NEW q, NEW F, NEW L, NEW K, Aware(q, F, L), \A a \in Agents : a # Initiator[q] => L[a] \subseteq K[a]
    PROVE  Aware(q, F, K)
BY DEF Aware, Invited

LEMMA UninvitedAware == ASSUME NEW q, NEW F, NEW L, Invited(F) = {} PROVE Aware(q, F, L)
BY DEF Aware

LEMMA SameInvited ==
    ASSUME NEW q, NEW F, NEW G, NEW D, NEW E, Coherent(q, F, D), Coherent(q, G, E),
           F.status # "none", G.status # "none", F.revisions = G.revisions
    PROVE  Invited(F) = Invited(G) /\ Revision(F) = Revision(G)
<1>1. Invited(F) = Proposal(F).invitees /\ Invited(G) = Proposal(G).invitees
  BY DEF Coherent, Recorded
<1> QED
  BY <1>1 DEF Proposal, Revision

\* What the invited know after a move.
LEMMA AwareByMove ==
    ASSUME NEW q \in Requests, NEW F \in FormTypes, NEW D \in SUBSET Judged, NEW M \in SUBSET Agents,
           NEW G, NEW E, NEW N, Moved(q, F, D, M, G, E, N),
           Coherent(q, F, D), Coherent(q, G, E), Aware(q, F, mail), G # F => Tells(q, F, G),
           \A a \in Agents : mail[a] \subseteq mail'[a]
    PROVE  Aware(q, G, mail')
<1>1. PICK K : K = mail'
  OBVIOUS
<1>2. Aware(q, F, K)
  BY <1>1, AwareMore
<1>3. CASE G = F
  BY <1>1, <1>2, <1>3
<1>4. CASE G # F
  <2>1. F.status # "abandoned"
    BY <1>4, Zenon DEF Moved, Begun, Rewritten, Answered, Realized, Closing, Joining, Reconsidered, Refused, Open
  <2>2. CASE /\ G.revisions = F.revisions /\ F.status # "none"
             /\ G.status = "created" /\ F.status # "created" => \A a \in Invited(G) : <<q, 0>> \in mail'[a]
    <3>1. G.status # "none"
      BY <2>2, MovedStatus
    <3>2. Invited(F) = Invited(G) /\ Revision(F) = Revision(G)
      BY <2>2, <3>1, SameInvited
    <3>3. F.status \in {"collecting", "ready", "created"}
      BY <2>1, <2>2 DEF FormTypes
    <3> QED
      BY <1>1, <1>2, <2>2, <3>2, <3>3 DEF Aware
  <2>3. CASE /\ G.status # "created" /\ Initiator[q] \notin Invited(G)
             /\ \A a \in Invited(G) : <<q, Revision(G)>> \in mail'[a]
    BY <2>3 DEF Aware
  <2> QED
    BY <1>4, <2>2, <2>3, SMTT(30) DEF Tells
<1> QED
  BY <1>3, <1>4

LEMMA NewAuto ==
    ASSUME NEW q, NEW G \in FormTypes, NEW E, Coherent(q, G, E), G.status # "none", Invited(G) = {}
    PROVE  Autoed(q, Revision(G), G)
<1>1. Revision(G) > 0 /\ Proposal(G).invitees = {}
  BY DEF Coherent, Recorded
<1>2. Revision(G) \in Nat /\ Content[G.revisions[Revision(G)].content].invitees = {}
  BY <1>1, LastRevision
<1> QED
  BY <1>1, <1>2 DEF Autoed

LEMMA AutoUninvited ==
    ASSUME NEW q, NEW F \in FormTypes, NEW D, Coherent(q, F, D), NEW n, Autoed(q, n, F), n = Revision(F)
    PROVE  Invited(F) = {}
<1>1. F.status # "none" /\ Content[F.revisions[Revision(F)].content].invitees = {}
  BY DEF Autoed
<1>2. Revision(F) > 0 /\ Invited(F) = Proposal(F).invitees
  BY <1>1 DEF Coherent, Recorded
<1> QED
  BY <1>1, <1>2, LastRevision

LEMMA AutoedByMove ==
    ASSUME NEW q \in Requests, NEW F \in FormTypes, NEW D \in SUBSET Judged, NEW M \in SUBSET Agents,
           NEW G \in FormTypes, NEW E, NEW N, Moved(q, F, D, M, G, E, N),
           G # F => Tells(q, F, G), NEW n, Autoed(q, n, F)
    PROVE  Autoed(q, n, G)
<1>1. F.status # "none" /\ n \in 1..Revision(F) /\ Content[F.revisions[n].content].invitees = {}
  BY DEF Autoed
<1>2. G.status # "none"
  BY <1>1, MovedStatus
<1>3. CASE G.revisions = F.revisions
  BY <1>1, <1>2, <1>3 DEF Autoed, Revision
<1>4. ASSUME NEW x, G.revisions = Append(F.revisions, x) PROVE Autoed(q, n, G)
  <2>1. PICK S : S = [content : Contents, source : Drafts \cup {Nothing}]
    OBVIOUS
  <2>2. PICK T : T = S \cup {x}
    OBVIOUS
  <2>3. F.revisions \in Seq(S)
    BY <2>1 DEF FormTypes
  <2>4. F.revisions \in Seq(T) /\ x \in T
    BY <2>2, <2>3, SeqMonotonic
  <2>5. Len(G.revisions) = Len(F.revisions) + 1 /\ Len(F.revisions) \in Nat
        /\ \A i \in 1..Len(F.revisions) : G.revisions[i] = F.revisions[i]
    BY <1>4, <2>4, AppendProperties
  <2>6. n \in 1..Revision(G) /\ G.revisions[n] = F.revisions[n]
    BY <1>1, <2>5 DEF Revision
  <2> QED
    BY <1>1, <1>2, <2>6 DEF Autoed
<1>5. CASE G = F
  BY <1>5
<1> QED
  BY <1>1, <1>3, <1>4, <1>5 DEF Tells

LEMMA Movement ==
    ASSUME Formed, Balloted, Consents, Advance, NEW q \in Requests
    PROVE  /\ forms[q] \in FormTypes /\ decided[q] \in SUBSET Judged /\ members[q] \in SUBSET Agents
           /\ Moved(q, forms[q], decided[q], members[q], forms'[q], decided'[q], members'[q])
           /\ Coherent(q, forms[q], decided[q])
           /\ forms'[q] \in FormTypes /\ Coherent(q, forms'[q], decided'[q])
<1>1. forms[q] \in FormTypes /\ decided[q] \in SUBSET Judged /\ members[q] \in SUBSET Agents
  BY Registries
<1>2. Moved(q, forms[q], decided[q], members[q], forms'[q], decided'[q], members'[q])
  BY DEF Advance, Shifted
<1>3. Coherent(q, forms[q], decided[q])
  BY DEF Consents, Fit
<1>4. PICK F, D, M, G, E, N : /\ F = forms[q] /\ D = decided[q] /\ M = members[q]
                              /\ G = forms'[q] /\ E = decided'[q] /\ N = members'[q]
  OBVIOUS
<1>5. /\ F \in FormTypes /\ D \in SUBSET Judged /\ M \in SUBSET Agents
      /\ Coherent(q, F, D) /\ Moved(q, F, D, M, G, E, N)
  BY <1>1, <1>2, <1>3, <1>4
<1>6. G \in FormTypes /\ Coherent(q, G, E)
  BY <1>5, MovedCoherent
<1> QED
  BY <1>1, <1>2, <1>3, <1>4, <1>6

LEMMA NotedByOperation ==
    ASSUME Formed, Balloted, Consents, Advance, Mailing, \A q \in Requests : Noted(q)
    PROVE  \A q \in Requests : Aware(q, forms'[q], mail') /\ (q \notin limit.agenda => Invited(forms'[q]) = {})
<1> SUFFICES ASSUME NEW q \in Requests
             PROVE  Aware(q, forms'[q], mail') /\ (q \notin limit.agenda => Invited(forms'[q]) = {})
  OBVIOUS
<1>1. PICK F, D, M, G, E, N : /\ F = forms[q] /\ D = decided[q] /\ M = members[q]
                              /\ G = forms'[q] /\ E = decided'[q] /\ N = members'[q]
  OBVIOUS
<1>2. /\ F \in FormTypes /\ D \in SUBSET Judged /\ M \in SUBSET Agents
      /\ Moved(q, F, D, M, G, E, N) /\ Coherent(q, F, D) /\ Coherent(q, G, E)
  BY <1>1, Movement
<1>3. Aware(q, F, mail) /\ (q \notin limit.agenda => Invited(F) = {})
  BY <1>1 DEF Noted
<1>4. (G # F => q \in limit.agenda /\ Tells(q, F, G)) /\ \A a \in Agents : mail[a] \subseteq mail'[a]
  BY <1>1 DEF Mailing
<1>5. Aware(q, G, mail')
  BY <1>2, <1>3, <1>4, AwareByMove
<1> QED
  BY <1>1, <1>3, <1>4, <1>5

LEMMA OverrideMail ==
    ASSUME NEW L, DOMAIN L = Agents, NEW U
    PROVE  \A a \in Agents : Override(L, U)[a] = IF a \in DOMAIN U THEN U[a] ELSE L[a]
BY DEF Override

LEMMA RecallingByOperation ==
    ASSUME Formed, Balloted, Consents, Advance, Mailing, Alone, Recalling, \A q \in Requests : Noted(q),
           NEW f \in flight'
    PROVE  Recalls(f) /\ \A q \in Requests : Aware(q, At(f.undo.forms, forms', q), Override(mail', f.undo.mail))
<1>1. DOMAIN mail = Agents /\ DOMAIN mail' = Agents
  BY DEF Formed, Advance
<1>2. PICK L, K, uf, um : L = mail /\ K = mail' /\ uf = f.undo.forms /\ um = f.undo.mail
  OBVIOUS
<1>3. /\ \A a \in Agents : Override(L, um)[a] = IF a \in DOMAIN um THEN um[a] ELSE L[a]
      /\ \A a \in Agents : Override(K, um)[a] = IF a \in DOMAIN um THEN um[a] ELSE K[a]
  BY <1>1, <1>2, OverrideMail
<1>4. \A a \in Agents : L[a] \subseteq K[a]
  BY <1>2 DEF Mailing
<1>5. CASE f \in flight
  <2>1. Recalls(f) /\ \A q \in Requests : Aware(q, At(uf, forms, q), Override(L, um))
    BY <1>2, <1>5 DEF Recalling
  <2> SUFFICES ASSUME NEW q \in Requests PROVE Aware(q, At(uf, forms', q), Override(K, um))
    BY <1>2, <2>1
  <2>2. CASE At(uf, forms', q) = At(uf, forms, q)
    <3>1. PICK F : F = At(uf, forms, q)
      OBVIOUS
    <3>2. \A a \in Agents : Override(L, um)[a] \subseteq Override(K, um)[a]
      BY <1>3, <1>4
    <3>3. Aware(q, F, Override(L, um))
      BY <2>1, <3>1
    <3>4. Aware(q, F, Override(K, um))
      BY <3>2, <3>3, AwareMore
    <3> QED
      BY <2>2, <3>1, <3>4
  <2>3. CASE At(uf, forms', q) # At(uf, forms, q)
    <3>1. q \notin DOMAIN uf /\ forms'[q] # forms[q] /\ At(uf, forms', q) = forms'[q]
      BY <2>3 DEF At
    <3>2. q \in limit.agenda
      BY <3>1 DEF Mailing
    <3>3. PICK G : G = forms'[q]
      OBVIOUS
    <3>4. Aware(q, G, K)
      BY <1>2, <3>3, NotedByOperation
    <3>5. DOMAIN um \subseteq {Initiator[q]}
      BY <1>2, <2>1, <3>1, <3>2 DEF Recalls, Alone
    <3>6. \A a \in Agents : a # Initiator[q] => K[a] \subseteq Override(K, um)[a]
      BY <1>3, <3>5
    <3>7. Aware(q, G, Override(K, um))
      BY <3>4, <3>6, AwareMore
    <3> QED
      BY <3>1, <3>3, <3>7
  <2> QED
    BY <2>2, <2>3
<1>6. CASE f \notin flight
  <2>1. Remembers(f)
    BY <1>6 DEF Mailing, Alone
  <2>2. Recalls(f) /\ (\A a \in DOMAIN um : um[a] = L[a]) /\ \A q \in Requests : At(uf, forms', q) = forms[q]
    BY <1>2, <2>1 DEF Remembers
  <2> SUFFICES ASSUME NEW q \in Requests PROVE Aware(q, At(uf, forms', q), Override(K, um))
    BY <1>2, <2>2
  <2>3. PICK F : F = forms[q]
    OBVIOUS
  <2>4. Aware(q, F, L)
    BY <1>2, <2>3 DEF Noted
  <2>5. \A a \in Agents : L[a] \subseteq Override(K, um)[a]
    BY <1>3, <1>4, <2>2
  <2>6. Aware(q, F, Override(K, um))
    BY <2>4, <2>5, AwareMore
  <2> QED
    BY <2>2, <2>3, <2>6
<1> QED
  BY <1>5, <1>6

\* The revision of an automatic creation, in the registry and in a copy.
LEMMA AutoedByOperation ==
    ASSUME Formed, Balloted, Consents, Advance, Mailing, NEW q \in Requests, NEW n, Autoed(q, n, forms[q])
    PROVE  Autoed(q, n, forms'[q])
<1>1. PICK F, D, M, G, E, N : /\ F = forms[q] /\ D = decided[q] /\ M = members[q]
                              /\ G = forms'[q] /\ E = decided'[q] /\ N = members'[q]
  OBVIOUS
<1>2. /\ F \in FormTypes /\ D \in SUBSET Judged /\ M \in SUBSET Agents /\ G \in FormTypes
      /\ Moved(q, F, D, M, G, E, N)
  BY <1>1, Movement
<1>3. G # F => Tells(q, F, G)
  BY <1>1 DEF Mailing
<1>4. Autoed(q, n, G)
  BY <1>1, <1>2, <1>3, AutoedByMove
<1> QED
  BY <1>1, <1>4

LEMMA LockedStays ==
    ASSUME Advance, NEW f \in flight, NEW q \in Requests, q \in f.requests, forms[q].status # "none"
    PROVE  forms'[q] = forms[q]
BY DEF Advance, Shifted, LockFree

LEMMA JobsByOperation ==
    ASSUME Formed, Balloted, Consents, Advance, Mailing, Alone, Selfmade,
           NEW q \in Requests, NEW n \in Nat, <<"auto", q, n>> \in jobs'
    PROVE  Autoed(q, n, forms'[q]) /\ \A f \in flight' : Autoed(q, n, At(f.undo.forms, forms', q))
<1>1. CASE <<"auto", q, n>> \in jobs
  <2>1. Autoed(q, n, forms[q]) /\ \A f \in flight : Autoed(q, n, At(f.undo.forms, forms, q))
    BY <1>1 DEF Selfmade
  <2>2. Autoed(q, n, forms'[q])
    BY <2>1, AutoedByOperation
  <2>3. ASSUME NEW f \in flight' PROVE Autoed(q, n, At(f.undo.forms, forms', q))
    <3>1. CASE f \in flight
      <4>1. At(f.undo.forms, forms', q) = At(f.undo.forms, forms, q) \/ At(f.undo.forms, forms', q) = forms'[q]
        BY DEF At
      <4> QED
        BY <2>1, <2>2, <3>1, <4>1
    <3>2. CASE f \notin flight
      <4>1. Remembers(f)
        BY <2>3, <3>2 DEF Mailing, Alone
      <4>2. At(f.undo.forms, forms', q) = forms[q]
        BY <4>1 DEF Remembers
      <4> QED
        BY <2>1, <4>2
    <3> QED
      BY <3>1, <3>2
  <2> QED
    BY <2>2, <2>3
<1>2. CASE <<"auto", q, n>> \notin jobs
  <2>1. /\ forms[q].status = "none" /\ forms'[q].status # "none" /\ flight' = flight
        /\ n = Revision(forms'[q]) /\ Invited(forms'[q]) = {}
    BY <1>2 DEF Mailing
  <2>2. PICK G, E : G = forms'[q] /\ E = decided'[q]
    OBVIOUS
  <2>3. G \in FormTypes /\ Coherent(q, G, E) /\ G.status # "none" /\ Invited(G) = {} /\ n = Revision(G)
    BY <2>1, <2>2, Movement
  <2>4. Autoed(q, n, G)
    BY <2>3, NewAuto
  <2>5. ASSUME NEW f \in flight PROVE At(f.undo.forms, forms', q) = forms'[q]
    <3>1. Undoable(f)
      BY DEF Consents, Alone
    <3>2. q \notin DOMAIN f.undo.forms
      BY <2>1, <3>1 DEF Undoable
    <3> QED
      BY <3>2 DEF At
  <2>6. ASSUME NEW f \in flight PROVE Autoed(q, n, At(f.undo.forms, forms', q))
    BY <2>2, <2>4, <2>5
  <2> QED
    BY <2>1, <2>2, <2>4, <2>6
<1> QED
  BY <1>1, <1>2

LEMMA FlightByOperation ==
    ASSUME Formed, Balloted, Consents, Advance, Mailing, Alone, Selfmade, NEW f \in flight'
    PROVE  /\ \A q \in Requests, n \in Nat : <<"auto", q, n>> \in f.after =>
                q \in f.requests /\ Autoed(q, n, forms'[q])
           /\ f.kind = "auto" => f.after = {} /\ \A q \in f.requests : Invited(forms'[q]) = {}
<1>1. f.requests \subseteq Requests
  BY DEF Advance, Formed, IsCommit
<1>2. CASE f \in flight
  <2>1. ASSUME NEW q \in Requests, NEW n \in Nat, <<"auto", q, n>> \in f.after
        PROVE  q \in f.requests /\ Autoed(q, n, forms'[q])
    <3>1. q \in f.requests /\ Autoed(q, n, forms[q])
      BY <1>2, <2>1 DEF Selfmade
    <3> QED
      BY <3>1, AutoedByOperation
  <2>2. ASSUME f.kind = "auto" PROVE f.after = {} /\ \A q \in f.requests : Invited(forms'[q]) = {}
    <3>1. f.after = {} /\ \A q \in f.requests : Invited(forms[q]) = {}
      BY <1>2, <2>2 DEF Selfmade
    <3>2. Undoable(f)
      BY <1>2 DEF Consents, Alone
    <3>3. \A q \in f.requests : forms[q].status # "none"
      BY <2>2, <3>2 DEF Undoable
    <3>4. \A q \in f.requests : forms'[q] = forms[q]
      BY <1>1, <1>2, <3>3, LockedStays
    <3> QED
      BY <3>1, <3>4
  <2> QED
    BY <2>1, <2>2
<1>3. CASE f \notin flight
  <2>1. Remembers(f)
    BY <1>3 DEF Mailing, Alone
  <2>2. ASSUME NEW q \in Requests, NEW n \in Nat, <<"auto", q, n>> \in f.after
        PROVE  q \in f.requests /\ Autoed(q, n, forms'[q])
    <3>1. q \in f.requests /\ n = Revision(forms'[q]) /\ Invited(forms'[q]) = {} /\ forms'[q].status # "none"
      BY <2>1, <2>2 DEF Remembers
    <3>2. PICK G, E : G = forms'[q] /\ E = decided'[q]
      OBVIOUS
    <3>3. G \in FormTypes /\ Coherent(q, G, E) /\ G.status # "none" /\ Invited(G) = {} /\ n = Revision(G)
      BY <3>1, <3>2, Movement
    <3>4. Autoed(q, n, G)
      BY <3>3, NewAuto
    <3> QED
      BY <3>1, <3>2, <3>4
  <2>3. ASSUME f.kind = "auto", NEW q \in f.requests PROVE f.after = {} /\ Invited(forms'[q]) = {}
    <3>1. Itself(q, forms'[q], f.after, f.kind)
      BY <2>1, <2>3 DEF Remembers
    <3>2. PICK F, D, M, G, E, N : /\ F = forms[q] /\ D = decided[q] /\ M = members[q]
                                  /\ G = forms'[q] /\ E = decided'[q] /\ N = members'[q]
      OBVIOUS
    <3>3. PICK n \in Nat : /\ f.after = {} /\ G.revisions = F.revisions
                           /\ <<"auto", q, n>> \in jobs /\ n = Revision(F)
      BY <2>3, <3>1, <3>2 DEF Itself
    <3>4. q \in Requests
      BY <1>1
    <3>5. Autoed(q, n, F)
      BY <3>2, <3>3, <3>4 DEF Selfmade
    <3>6. /\ F \in FormTypes /\ D \in SUBSET Judged /\ M \in SUBSET Agents
          /\ Moved(q, F, D, M, G, E, N) /\ Coherent(q, F, D) /\ Coherent(q, G, E)
      BY <3>2, <3>4, Movement
    <3>7. Invited(F) = {} /\ F.status # "none"
      BY <3>3, <3>5, <3>6, AutoUninvited DEF Autoed
    <3>8. G.status # "none"
      BY <3>4, <3>6, <3>7, MovedStatus
    <3>9. Invited(G) = {}
      BY <3>3, <3>6, <3>7, <3>8, SameInvited
    <3> QED
      BY <3>2, <3>3, <3>9
  <2> QED
    <3>1. f.kind = "auto" => f.after = {}
      BY <2>1 DEF Remembers
    <3> QED
      BY <2>2, <2>3, <3>1
<1> QED
  BY <1>2, <1>3

LEMMA DrawnByOperation ==
    ASSUME UNCHANGED limit, Drawn, Mailing
    PROVE  Drawn'
<1>1. \A d \in Drafts : Fine(d, drafts'[d])
  BY DEF Mailing
<1>2. ASSUME NEW f \in flight', NEW d \in DOMAIN f.undo.drafts PROVE Fine(d, f.undo.drafts[d])
  <2>1. flight' = flight \/ \E c : flight' = flight \cup {c} /\ Draws(c)
    BY DEF Mailing
  <2>2. f \in flight \/ Draws(f)
    BY <1>2, <2>1
  <2> QED
    BY <1>2, <2>2 DEF Drawn, Draws
<1>3. ASSUME NEW w \in waiting', NEW x \in w.own PROVE Fine(w.draft, x)
  <2>1. w \in waiting \/ w.own = {}
    BY <1>3 DEF Mailing
  <2> QED
    BY <1>3, <2>1 DEF Drawn
<1>4. \A d, x : Fine(d, x)' <=> Fine(d, x)
  BY DEF Fine
<1> QED
  BY <1>1, <1>2, <1>3, <1>4 DEF Drawn

\* What may be taken away from commits and from those who wait for them.
LEMMA DrawnLess ==
    ASSUME UNCHANGED limit, Drawn, flight' \subseteq flight, \A d \in Drafts : Fine(d, drafts'[d]),
           waiting' \subseteq waiting
    PROVE  Drawn'
<1>4. \A d, x : Fine(d, x)' <=> Fine(d, x)
  BY DEF Fine
<1> QED
  BY <1>4 DEF Drawn

LEMMA DrawnByFail ==
    ASSUME Formed, UNCHANGED limit, Drawn, NEW f \in flight, Fail(f)
    PROVE  Drawn'
<1>1. /\ drafts' = Override(drafts, f.undo.drafts)
      /\ waiting' = {IF w.draft \in DOMAIN f.undo.drafts /\ w.own = {}
                     THEN [w EXCEPT !.own = {drafts[w.draft]}] ELSE w : w \in waiting}
  BY DEF Fail
<1>2. /\ drafts \in [Drafts -> Drafty] /\ \A w \in waiting : IsWait(w)
      /\ \A d \in Drafts : Fine(d, drafts[d])
      /\ \A d \in DOMAIN f.undo.drafts : Fine(d, f.undo.drafts[d])
      /\ \A w \in waiting : \A x \in w.own : Fine(w.draft, x)
  BY DEF Formed, Drawn
<1>3. ASSUME NEW d \in Drafts PROVE Fine(d, drafts'[d])
  <2>1. drafts'[d] = IF d \in DOMAIN f.undo.drafts THEN f.undo.drafts[d] ELSE drafts[d]
    BY <1>1, <1>2 DEF Override
  <2> QED
    BY <1>2, <2>1
<1>4. ASSUME NEW v \in waiting', NEW x \in v.own PROVE Fine(v.draft, x)
  <2>1. PICK w \in waiting : v = IF w.draft \in DOMAIN f.undo.drafts /\ w.own = {}
                                 THEN [w EXCEPT !.own = {drafts[w.draft]}] ELSE w
    BY <1>1
  <2>2. w = [draft |-> w.draft, own |-> w.own] /\ w.draft \in Drafts
    BY <1>2, <2>1 DEF IsWait
  <2>3. CASE v = w
    BY <1>2, <1>4, <2>1, <2>3
  <2>4. CASE v = [w EXCEPT !.own = {drafts[w.draft]}]
    <3>1. v.draft = w.draft /\ v.own = {drafts[w.draft]}
      BY <2>2, <2>4
    <3> QED
      BY <1>2, <1>4, <2>2, <3>1
  <2> QED
    BY <2>1, <2>3, <2>4
<1>5. ASSUME NEW g \in flight', NEW d \in DOMAIN g.undo.drafts PROVE Fine(d, g.undo.drafts[d])
  <2>1. (g \in flight /\ g # f) \/ g = Reason(f)
    BY FailSteps
  <2>2. ASSUME g = Reason(f) PROVE FALSE
    <3>1. PICK u : u = ReasonUndo(f)
      OBVIOUS
    <3>2. g = [requests |-> f.requests, drafts |-> f.drafts, undo |-> u, after |-> f.after, kind |-> "reason"]
          /\ u.drafts = <<>>
      BY <2>2, <3>1, ReasonFacts
    <3> QED
      BY <1>5, <3>2, EmptyDomain
  <2> QED
    BY <1>5, <2>1, <2>2 DEF Drawn
<1>6. \A d, x : Fine(d, x)' <=> Fine(d, x)
  BY DEF Fine
<1> QED
  BY <1>3, <1>4, <1>5, <1>6 DEF Drawn

LEMMA DrawnByRestart ==
    ASSUME Formed, Balloted, UNCHANGED limit, Drawn, NEW frozen, Restart(frozen)
    PROVE  Drawn'
<1>1. drafts' = Interrupted(frozen) /\ flight' = flight /\ waiting' = waiting
  BY DEF Restart
<1>2. ASSUME NEW d \in Drafts PROVE Fine(d, drafts'[d])
  <2>1. drafts'[d] = IF drafts[d].status = "RUNNING" THEN [drafts[d] EXCEPT !.status = frozen] ELSE drafts[d]
    BY <1>1 DEF Interrupted
  <2>2. Fine(d, drafts[d])
    BY DEF Drawn
  <2>3. CASE drafts[d].status = "RUNNING"
    <3>1. drafts[d].status # "none"
      BY <2>3
    <3>2. Fine(d, [drafts[d] EXCEPT !.status = frozen])
      BY <3>1, DraftStyled
    <3> QED
      BY <2>1, <2>3, <3>2
  <2> QED
    BY <2>1, <2>2, <2>3
<1> QED
  BY <1>1, <1>2, DrawnLess

\* Who is told about a formation, when a failure does not put it back.
LEMMA RecallsMail ==
    ASSUME Alone, NEW f, Recalls(f), NEW q \in Requests \cap limit.agenda, q \notin DOMAIN f.undo.forms
    PROVE  DOMAIN f.undo.forms \cap Requests = {} /\ DOMAIN f.undo.mail \subseteq {Initiator[q]}
BY DEF Recalls, Alone

LEMMA UninvitedByFail ==
    ASSUME Formed, Balloted, Alone, NEW f \in flight, Undoable(f), Recalls(f), Fail(f),
           NEW q \in Requests, q \notin limit.agenda, Invited(forms[q]) = {}
    PROVE  Invited(forms'[q]) = {}
<1>1. q \notin DOMAIN f.undo.forms
  BY DEF Recalls
<1>2. forms'[q] = forms[q]
  BY <1>1, FailAt
<1> QED
  BY <1>2

LEMMA NotedByFail ==
    ASSUME Formed, Balloted, Alone, Recalling, \A q \in Requests : Noted(q),
           NEW f \in flight, Undoable(f), Fail(f)
    PROVE  \A q \in Requests : Aware(q, forms'[q], mail') /\ (q \notin limit.agenda => Invited(forms'[q]) = {})
<1> SUFFICES ASSUME NEW q \in Requests
             PROVE  Aware(q, forms'[q], mail') /\ (q \notin limit.agenda => Invited(forms'[q]) = {})
  OBVIOUS
<1>1. Recalls(f) /\ Aware(q, At(f.undo.forms, forms, q), Override(mail, f.undo.mail))
  BY DEF Recalling
<1>2. forms'[q] = At(f.undo.forms, forms, q)
  BY FailAt
<1>3. mail' = Override(mail, f.undo.mail)
  BY FailSteps
<1>4. Aware(q, forms'[q], mail')
  BY <1>1, <1>2, <1>3
<1>5. ASSUME q \notin limit.agenda PROVE Invited(forms'[q]) = {}
  BY <1>1, <1>5, UninvitedByFail DEF Noted
<1> QED
  BY <1>4, <1>5

\* The failure of f leaves what another commit g may take out of mailboxes.
LEMMA RecallingByFail ==
    ASSUME Formed, Balloted, Alone, Locks, Recalling, \A q \in Requests : Noted(q),
           NEW f \in flight, Undoable(f), Fail(f), NEW g \in flight, g # f, Undoable(g)
    PROVE  Recalls(g) /\ \A q \in Requests : Aware(q, At(g.undo.forms, forms', q), Override(mail', g.undo.mail))
<1>1. Recalls(f) /\ Recalls(g)
  BY DEF Recalling
<1> SUFFICES ASSUME NEW q \in Requests
             PROVE  Aware(q, At(g.undo.forms, forms', q), Override(mail', g.undo.mail))
  BY <1>1
<1>2. PICK K, L, U, V : K = mail /\ L = mail' /\ U = f.undo.mail /\ V = g.undo.mail
  OBVIOUS
<1>3. L = Override(K, U) /\ DOMAIN K = Agents /\ DOMAIN L = Agents
  <2>1. L = Override(K, U)
    BY <1>2, FailSteps
  <2>2. DOMAIN K = Agents
    BY <1>2 DEF Formed
  <2>3. DOMAIN Override(K, U) = DOMAIN K
    BY DEF Override
  <2> QED
    BY <2>1, <2>2, <2>3
<1>4. /\ \A a \in Agents : L[a] = IF a \in DOMAIN U THEN U[a] ELSE K[a]
      /\ \A a \in Agents : Override(L, V)[a] = IF a \in DOMAIN V THEN V[a] ELSE L[a]
      /\ \A a \in Agents : Override(K, V)[a] = IF a \in DOMAIN V THEN V[a] ELSE K[a]
  BY <1>3, OverrideMail
<1>5. /\ forms'[q] = At(f.undo.forms, forms, q)
      /\ q \notin DOMAIN f.undo.forms => forms'[q] = forms[q]
  BY FailAt
<1>6. /\ Aware(q, At(f.undo.forms, forms, q), Override(K, U))
      /\ Aware(q, At(g.undo.forms, forms, q), Override(K, V))
  BY <1>2 DEF Recalling
<1>7. q \notin limit.agenda => Invited(forms[q]) = {}
  BY DEF Noted
<1>8. CASE q \notin limit.agenda
  <2>1. q \notin DOMAIN f.undo.forms /\ q \notin DOMAIN g.undo.forms
    BY <1>1, <1>8 DEF Recalls
  <2>2. At(g.undo.forms, forms', q) = forms[q]
    BY <1>5, <2>1 DEF At
  <2> QED
    BY <1>7, <1>8, <2>2, UninvitedAware
<1>9. CASE q \in limit.agenda /\ q \in DOMAIN f.undo.forms
  <2>1. q \notin g.requests /\ q \notin DOMAIN g.undo.forms
    BY <1>9 DEF Undoable, Locks
  <2>2. DOMAIN V \subseteq {Initiator[q]}
    BY <1>1, <1>2, <1>9, <2>1, RecallsMail
  <2>3. At(g.undo.forms, forms', q) = At(f.undo.forms, forms, q)
    BY <1>5, <2>1 DEF At
  <2>4. \A a \in Agents : a # Initiator[q] => L[a] \subseteq Override(L, V)[a]
    BY <1>4, <2>2
  <2>5. Aware(q, At(f.undo.forms, forms, q), L)
    BY <1>3, <1>6
  <2>6. Aware(q, At(f.undo.forms, forms, q), Override(L, V))
    BY <2>4, <2>5, AwareMore
  <2> QED
    BY <1>2, <2>3, <2>6
<1>10. CASE q \in limit.agenda /\ q \notin DOMAIN f.undo.forms
  <2>1. DOMAIN U \subseteq {Initiator[q]}
    BY <1>1, <1>2, <1>10, RecallsMail
  <2>2. At(g.undo.forms, forms', q) = At(g.undo.forms, forms, q)
    BY <1>5, <1>10 DEF At
  <2>3. \A a \in Agents : a # Initiator[q] => Override(K, V)[a] \subseteq Override(L, V)[a]
    BY <1>4, <2>1
  <2>4. Aware(q, At(g.undo.forms, forms, q), Override(L, V))
    BY <1>6, <2>3, AwareMore
  <2> QED
    BY <1>2, <2>2, <2>4
<1> QED
  BY <1>8, <1>9, <1>10

\* The task of a failed automatic creation would not take anything out of the
\* mailboxes of the invited: it has none.
LEMMA RecallingReason ==
    ASSUME Formed, Balloted, Alone, Recalling, Selfmade, \A q \in Requests : Noted(q),
           NEW f \in flight, Undoable(f), Fail(f), f.kind = "auto", NEW g, g = Reason(f)
    PROVE  Recalls(g) /\ \A q \in Requests : Aware(q, At(g.undo.forms, forms', q), Override(mail', g.undo.mail))
<1>1. Recalls(f)
  BY DEF Recalling
<1>2. PICK u : u = ReasonUndo(f)
  OBVIOUS
<1>3. PICK S : S = {Initiator[q] : q \in f.requests}
  OBVIOUS
<1>4. /\ g = [requests |-> f.requests, drafts |-> f.drafts, undo |-> u, after |-> f.after, kind |-> "reason"]
      /\ u.forms = Only(forms, f.requests)
  BY <1>2, ReasonFacts
<1>5. PICK F, L : F = Only(forms, f.requests) /\ L = Only(Override(mail, f.undo.mail), S)
  OBVIOUS
<1>6. u.mail = L
  BY <1>2, <1>3, <1>5, FormUndoIs DEF ReasonUndo, UndoIs
<1>7. DOMAIN u.mail = S /\ DOMAIN u.forms = f.requests /\ \A q \in f.requests : u.forms[q] = forms[q]
  BY <1>4, <1>5, <1>6, OnlyFacts
<1>8. f.requests \subseteq Requests /\ DOMAIN f.undo.forms = f.requests
  BY DEF Undoable, Formed, IsCommit
<1>9. g.undo = u
  BY <1>4
<1>10. Recalls(g)
  <2>1. CASE f.requests = {}
    <3>1. S = {}
      BY <1>3, <2>1
    <3> QED
      BY <1>7, <1>9, <2>1, <3>1 DEF Recalls
  <2>2. ASSUME NEW r \in Requests, r \in f.requests PROVE Recalls(g)
    <3>1. \E q \in Requests \cap limit.agenda : DOMAIN f.undo.forms = {q}
      BY <1>1, <1>8, <2>2 DEF Recalls
    <3> QED
      BY <1>7, <1>8, <1>9, <3>1 DEF Recalls
  <2> QED
    BY <1>8, <2>1, <2>2
<1>11. ASSUME NEW q \in Requests
       PROVE  Aware(q, At(g.undo.forms, forms', q), Override(mail', g.undo.mail))
  <2>1. CASE q \in f.requests
    <3>1. At(g.undo.forms, forms', q) = forms[q]
      BY <1>7, <1>9, <2>1 DEF At
    <3>2. Invited(forms[q]) = {}
      BY <2>1 DEF Selfmade
    <3> QED
      BY <3>1, <3>2, UninvitedAware
  <2>2. CASE q \notin f.requests
    <3>1. forms'[q] = forms[q] /\ At(g.undo.forms, forms', q) = forms[q]
      BY <1>7, <1>8, <1>9, <2>2, FailAt DEF At
    <3>2. CASE q \notin limit.agenda
      BY <3>1, <3>2, UninvitedAware DEF Noted
    <3>3. CASE q \in limit.agenda
      <4>1. f.requests = {}
        BY <1>1, <1>8, <2>2, <3>3, RecallsMail
      <4>2. DOMAIN u.mail = {}
        BY <1>3, <1>7, <4>1
      <4>3. PICK K, M : K = mail /\ M = mail'
        OBVIOUS
      <4>4. M = Override(K, f.undo.mail) /\ DOMAIN K = Agents
        BY <4>3, FailSteps DEF Formed
      <4>5. DOMAIN M = Agents
        BY <4>4 DEF Override
      <4>6. \A a \in Agents : Override(M, u.mail)[a] = M[a]
        BY <4>2, <4>5, OverrideMail
      <4>7. Aware(q, At(f.undo.forms, forms, q), M)
        BY <4>3, <4>4 DEF Recalling
      <4>8. At(f.undo.forms, forms, q) = forms[q]
        BY <1>8, <2>2 DEF At
      <4>9. Aware(q, forms[q], Override(M, u.mail))
        BY <4>6, <4>7, <4>8, AwareMore
      <4> QED
        BY <1>9, <3>1, <4>3, <4>9
    <3> QED
      BY <3>2, <3>3
  <2> QED
    BY <2>1, <2>2
<1> QED
  BY <1>10, <1>11

\* A commit f that ends leaves its tasks in jobs.
LEMMA SelfmadeByEnd ==
    ASSUME Formed, Alone, Consents, Locks, Selfmade, UNCHANGED forms, flight' \subseteq flight,
           NEW f \in flight, f \notin flight', jobs' \subseteq jobs \cup f.after
    PROVE  Selfmade'
<1>1. ASSUME NEW q \in Requests, NEW n \in Nat, <<"auto", q, n>> \in jobs'
      PROVE  Autoed(q, n, forms[q]) /\ \A g \in flight' : Autoed(q, n, At(g.undo.forms, forms, q))
  <2>1. CASE <<"auto", q, n>> \in jobs
    BY <2>1 DEF Selfmade
  <2>2. CASE <<"auto", q, n>> \in f.after
    <3>1. q \in f.requests /\ Autoed(q, n, forms[q])
      BY <2>2 DEF Selfmade
    <3>2. ASSUME NEW g \in flight' PROVE Autoed(q, n, At(g.undo.forms, forms, q))
      <4>1. q \notin g.requests
        BY <3>1 DEF Locks
      <4>2. Undoable(g)
        BY DEF Consents, Alone
      <4>3. q \notin DOMAIN g.undo.forms
        BY <4>1, <4>2 DEF Undoable
      <4> QED
        BY <3>1, <4>3 DEF At
    <3> QED
      BY <3>1, <3>2
  <2> QED
    BY <1>1, <2>1, <2>2
<1>2. ASSUME NEW g \in flight'
      PROVE  /\ \A q \in Requests, n \in Nat : <<"auto", q, n>> \in g.after =>
                  q \in g.requests /\ Autoed(q, n, forms[q])
             /\ g.kind = "auto" => g.after = {} /\ \A q \in g.requests : Invited(forms[q]) = {}
  BY DEF Selfmade
<1> QED
  BY <1>1, <1>2 DEF Selfmade

LEMMA SelfmadeLess ==
    ASSUME Selfmade, UNCHANGED forms, flight' \subseteq flight, jobs' \subseteq jobs
    PROVE  Selfmade'
BY DEF Selfmade

LEMMA SelfmadeByFail ==
    ASSUME Formed, Balloted, Alone, Consents, Locks, Selfmade, NEW f \in flight, Fail(f)
    PROVE  Selfmade'
<1>1. \A g \in flight : Undoable(g)
  BY DEF Consents, Alone
<1>2. flight' = (flight \ {f}) \cup (IF f.kind = "auto" THEN {Reason(f)} ELSE {}) /\ jobs' = jobs
  BY FailSteps
<1>3. ASSUME NEW q \in Requests
      PROVE  /\ forms'[q] = At(f.undo.forms, forms, q)
             /\ q \notin DOMAIN f.undo.forms => forms'[q] = forms[q]
  BY <1>1, FailAt
<1>4. ASSUME NEW g \in flight', g \notin flight
      PROVE  /\ f.kind = "auto" /\ g.kind = "reason" /\ g.after = {}
             /\ \A q \in f.requests : At(g.undo.forms, forms', q) = forms[q]
             /\ \A q : q \notin f.requests => At(g.undo.forms, forms', q) = forms'[q]
  <2>1. f.kind = "auto" /\ g = Reason(f)
    BY <1>2, <1>4
  <2>2. PICK u : u = ReasonUndo(f)
    OBVIOUS
  <2>3. /\ g = [requests |-> f.requests, drafts |-> f.drafts, undo |-> u, after |-> f.after, kind |-> "reason"]
        /\ u.forms = Only(forms, f.requests)
    BY <2>1, <2>2, ReasonFacts
  <2>4. g.kind = "reason" /\ g.after = f.after /\ g.undo = u
    BY <2>3
  <2>5. DOMAIN u.forms = f.requests /\ \A q \in f.requests : u.forms[q] = forms[q]
    BY <2>3, OnlyFacts
  <2>6. f.after = {}
    BY <2>1 DEF Selfmade
  <2> QED
    BY <2>1, <2>4, <2>5, <2>6 DEF At
<1>5. ASSUME NEW g \in flight', g \in flight, NEW q \in Requests
      PROVE  q \in g.requests => forms'[q] = forms[q]
  <2>1. CASE g = f
    <3>1. g = Reason(f) /\ f.kind = "auto"
      BY <1>2, <2>1
    <3>2. PICK u : u = ReasonUndo(f)
      OBVIOUS
    <3>3. g = [requests |-> f.requests, drafts |-> f.drafts, undo |-> u, after |-> f.after, kind |-> "reason"]
      BY <3>1, <3>2, ReasonFacts
    <3>4. g.kind = "reason"
      BY <3>3
    <3> QED
      BY <2>1, <3>1, <3>4
  <2>2. CASE g # f
    BY <1>1, <1>3, <1>5, <2>2 DEF Locks, Undoable
  <2> QED
    BY <2>1, <2>2, SMTT(30)
<1>6. ASSUME NEW q \in Requests, NEW n \in Nat, <<"auto", q, n>> \in jobs'
      PROVE  Autoed(q, n, forms'[q]) /\ \A g \in flight' : Autoed(q, n, At(g.undo.forms, forms', q))
  <2>1. Autoed(q, n, forms[q]) /\ \A g \in flight : Autoed(q, n, At(g.undo.forms, forms, q))
    BY <1>2, <1>6 DEF Selfmade
  <2>2. Autoed(q, n, forms'[q])
    BY <1>3, <2>1
  <2>3. ASSUME NEW g \in flight' PROVE Autoed(q, n, At(g.undo.forms, forms', q))
    <3>1. CASE g \in flight
      <4>1. At(g.undo.forms, forms', q) = At(g.undo.forms, forms, q)
            \/ At(g.undo.forms, forms', q) = forms'[q]
        BY DEF At
      <4> QED
        BY <2>1, <2>2, <3>1, <4>1
    <3>2. CASE g \notin flight
      <4>1. At(g.undo.forms, forms', q) = forms[q] \/ At(g.undo.forms, forms', q) = forms'[q]
        BY <1>4, <3>2
      <4> QED
        BY <2>1, <2>2, <4>1
    <3> QED
      BY <3>1, <3>2
  <2> QED
    BY <2>2, <2>3
<1>7. ASSUME NEW g \in flight'
      PROVE  /\ \A q \in Requests, n \in Nat : <<"auto", q, n>> \in g.after =>
                  q \in g.requests /\ Autoed(q, n, forms'[q])
             /\ g.kind = "auto" => g.after = {} /\ \A q \in g.requests : Invited(forms'[q]) = {}
  <2>1. CASE g \in flight
    <3>1. g.requests \subseteq Requests
      BY <2>1 DEF Formed, IsCommit
    <3>2. /\ \A q \in Requests, n \in Nat : <<"auto", q, n>> \in g.after =>
               q \in g.requests /\ Autoed(q, n, forms[q])
          /\ g.kind = "auto" => g.after = {} /\ \A q \in g.requests : Invited(forms[q]) = {}
      BY <2>1 DEF Selfmade
    <3>3. \A q \in g.requests : forms'[q] = forms[q]
      BY <1>5, <2>1, <3>1
    <3> QED
      BY <3>2, <3>3
  <2>2. CASE g \notin flight
    <3>1. g.kind = "reason" /\ g.after = {}
      BY <1>4, <2>2
    <3> QED
      BY <3>1
  <2> QED
    BY <2>1, <2>2
<1> QED
  BY <1>6, <1>7 DEF Selfmade

LEMMA NotedAfter ==
    ASSUME UNCHANGED limit,
           \A q \in Requests : Aware(q, forms'[q], mail') /\ (q \notin limit.agenda => Invited(forms'[q]) = {})
    PROVE  (\A q \in Requests : Noted(q))'
BY DEF Noted

LEMMA RecallingAfter ==
    ASSUME UNCHANGED limit,
           \A f \in flight' : /\ Recalls(f)
                              /\ \A q \in Requests : Aware(q, At(f.undo.forms, forms', q), Override(mail', f.undo.mail))
    PROVE  Recalling'
<1>1. \A f : Recalls(f)' <=> Recalls(f)
  BY DEF Recalls
<1> QED
  BY <1>1 DEF Recalling

LEMMA AloneStays == UNCHANGED limit => (Alone' <=> Alone)
BY DEF Alone

LEMMA PeacefulConsents ==
    ASSUME Consenting, Peaceful
    PROVE  Consents
BY DEF Peaceful, Alone, Consenting, Orderly

\* Nothing is written in mailboxes and no commit begins.
LEMMA InformingByEnd ==
    ASSUME Informing, Drawn', UNCHANGED <<limit, forms, mail>>, flight' \subseteq flight,
           Alone => Selfmade', Peaceful' => Peaceful
    PROVE  Informing'
<1>1. Alone' <=> Alone
  BY AloneStays
<1>2. ASSUME Peaceful' PROVE (\A q \in Requests : Noted(q))'
  BY <1>2 DEF Informing, Noted
<1>3. ASSUME Alone PROVE Recalling'
  <2>1. ASSUME NEW f \in flight'
        PROVE  /\ Recalls(f)
               /\ \A q \in Requests : Aware(q, At(f.undo.forms, forms', q), Override(mail', f.undo.mail))
    BY <1>3 DEF Informing, Recalling
  <2> QED
    BY <2>1, RecallingAfter
<1> QED
  BY <1>1, <1>2, <1>3 DEF Informing

LEMMA InformingByOperation ==
    ASSUME Formed, Balloted, Consenting, Informing, UNCHANGED limit, Operation, Peaceful' => Peaceful
    PROVE  Informing'
<1>1. Drawn /\ (Peaceful => \A q \in Requests : Noted(q)) /\ (Alone => Recalling /\ Selfmade /\ Peaceful)
  BY DEF Informing, Peaceful
<1>2. Advance
  BY OperationAdvance
<1>3. Mailing
  BY <1>1, OperationMailing
<1>4. Drawn'
  BY <1>1, <1>3, DrawnByOperation
<1>5. ASSUME Peaceful PROVE (\A q \in Requests : Noted(q))'
  <2>1. Consents
    BY <1>5, PeacefulConsents
  <2>2. \A q \in Requests : Aware(q, forms'[q], mail') /\ (q \notin limit.agenda => Invited(forms'[q]) = {})
    BY <1>1, <1>2, <1>3, <1>5, <2>1, NotedByOperation
  <2> QED
    BY <2>2, NotedAfter
<1>6. ASSUME Alone PROVE Recalling'
  <2>1. Consents /\ \A q \in Requests : Noted(q)
    BY <1>1, <1>6, PeacefulConsents
  <2>2. ASSUME NEW f \in flight'
        PROVE  /\ Recalls(f)
               /\ \A q \in Requests : Aware(q, At(f.undo.forms, forms', q), Override(mail', f.undo.mail))
    BY <1>1, <1>2, <1>3, <1>6, <2>1, RecallingByOperation
  <2> QED
    BY <2>2, RecallingAfter
<1>7. ASSUME Alone PROVE Selfmade'
  <2>1. Consents
    BY <1>1, <1>7, PeacefulConsents
  <2>2. ASSUME NEW q \in Requests, NEW n \in Nat, <<"auto", q, n>> \in jobs'
        PROVE  Autoed(q, n, forms'[q]) /\ \A f \in flight' : Autoed(q, n, At(f.undo.forms, forms', q))
    BY <1>1, <1>2, <1>3, <1>7, <2>1, <2>2, JobsByOperation
  <2>3. ASSUME NEW f \in flight'
        PROVE  /\ \A q \in Requests, n \in Nat : <<"auto", q, n>> \in f.after =>
                    q \in f.requests /\ Autoed(q, n, forms'[q])
               /\ f.kind = "auto" => f.after = {} /\ \A q \in f.requests : Invited(forms'[q]) = {}
    BY <1>1, <1>2, <1>3, <1>7, <2>1, FlightByOperation
  <2> QED
    BY <2>2, <2>3 DEF Selfmade
<1>8. Alone' <=> Alone
  BY AloneStays
<1> QED
  BY <1>4, <1>5, <1>6, <1>7, <1>8 DEF Informing

LEMMA InformingByFail ==
    ASSUME Counted, Formed, Balloted, Locks, Consenting, Informing, UNCHANGED limit,
           NEW f \in flight, Fail(f)
    PROVE  Informing'
<1>1. Drawn /\ (Alone => Recalling /\ Selfmade /\ Peaceful /\ \A q \in Requests : Noted(q))
  BY DEF Informing, Peaceful
<1>2. Drawn'
  BY <1>1, DrawnByFail
<1>3. Alone' <=> Alone
  BY AloneStays
<1>4. Peaceful' => Alone
  <2>1. spent' = [spent EXCEPT !["faults"] = @ + 1]
    BY FailSteps DEF Adds
  <2>2. spent'.faults # 0
    BY <2>1 DEF Counted
  <2> QED
    BY <1>3, <2>2 DEF Peaceful
<1>5. ASSUME Alone PROVE (\A q \in Requests : Noted(q))' /\ Recalling' /\ Selfmade'
  <2>1. Consents /\ Recalling /\ Selfmade /\ \A q \in Requests : Noted(q)
    BY <1>1, <1>5, PeacefulConsents
  <2>2. \A g \in flight : Undoable(g)
    BY <1>5, <2>1 DEF Consents, Alone
  <2>3. \A q \in Requests : Aware(q, forms'[q], mail') /\ (q \notin limit.agenda => Invited(forms'[q]) = {})
    BY <1>5, <2>1, <2>2, NotedByFail
  <2>4. (\A q \in Requests : Noted(q))'
    BY <2>3, NotedAfter
  <2>5. ASSUME NEW g \in flight'
        PROVE  /\ Recalls(g)
               /\ \A q \in Requests : Aware(q, At(g.undo.forms, forms', q), Override(mail', g.undo.mail))
    <3>1. (g \in flight /\ g # f) \/ (f.kind = "auto" /\ g = Reason(f))
      BY FailSteps
    <3>2. CASE g \in flight /\ g # f
      BY <1>5, <2>1, <2>2, <3>2, RecallingByFail
    <3>3. CASE f.kind = "auto" /\ g = Reason(f)
      BY <1>5, <2>1, <2>2, <3>3, RecallingReason
    <3> QED
      BY <3>1, <3>2, <3>3
  <2>6. Recalling'
    BY <2>5, RecallingAfter
  <2>7. Selfmade'
    BY <1>5, <2>1, SelfmadeByFail
  <2> QED
    BY <2>4, <2>6, <2>7
<1> QED
  BY <1>2, <1>3, <1>4, <1>5 DEF Informing

LEMMA PeacefulBefore ==
    ASSUME Counted, [Next]_vars, Peaceful'
    PROVE  Peaceful
<1>1. UNCHANGED limit
  BY DEF Next, vars
<1>2. \/ spent'.faults = spent.faults
      \/ spent'.faults = spent.faults + 1
  BY Counting DEF Counted, Adds
<1>3. Alone' <=> Alone
  BY <1>1, AloneStays
<1> QED
  BY <1>2, <1>3 DEF Peaceful, Counted

LEMMA InformingStep ==
    ASSUME Counted, Formed, Balloted, Locks, Consenting, Informing, [Next]_vars
    PROVE  Informing'
<1>0. Peaceful' => Peaceful
  BY PeacefulBefore
<1>1. Drawn /\ (Alone => Selfmade /\ Consents) /\ \A d \in Drafts : Fine(d, drafts[d])
  <2>1. Drawn /\ (Alone => Selfmade) /\ (Alone => Peaceful)
    BY DEF Informing, Peaceful
  <2> QED
    BY <2>1, PeacefulConsents DEF Drawn
<1>2. CASE UNCHANGED <<formOnly, limit>>
  <2>1. UNCHANGED <<forms, mail, drafts, waiting, flight, jobs>> /\ UNCHANGED limit
    BY <1>2 DEF formOnly
  <2>2. flight' \subseteq flight /\ jobs' \subseteq jobs /\ waiting' \subseteq waiting
    BY <2>1
  <2>3. Drawn'
    BY <1>1, <2>1, <2>2, DrawnLess
  <2>4. Alone => Selfmade'
    BY <1>1, <2>1, <2>2, SelfmadeLess
  <2> QED
    BY <1>0, <2>1, <2>2, <2>3, <2>4, InformingByEnd
<1>3. ASSUME NEW frozen \in {"PENDING", "CANCELLED"}, Restart(frozen), UNCHANGED limit PROVE Informing'
  <2>1. UNCHANGED <<forms, mail>> /\ flight' \subseteq flight /\ jobs' \subseteq jobs
    BY <1>3 DEF Restart
  <2>2. Drawn'
    BY <1>1, <1>3, DrawnByRestart
  <2>3. Alone => Selfmade'
    BY <1>1, <2>1, SelfmadeLess
  <2> QED
    BY <1>0, <1>3, <2>1, <2>2, <2>3, InformingByEnd
<1>4. CASE Operation /\ UNCHANGED limit
  BY <1>0, <1>4, InformingByOperation
<1>5. ASSUME NEW f \in flight, Finish(f) \/ Cancel(f), UNCHANGED limit PROVE Informing'
  <2>1. /\ UNCHANGED <<forms, mail, drafts, waiting>> /\ flight' = flight \ {f}
        /\ jobs' = jobs \cup f.after \/ jobs' = jobs
    BY <1>5 DEF Finish, Cancel
  <2>2. flight' \subseteq flight /\ f \notin flight' /\ jobs' \subseteq jobs \cup f.after /\ waiting' \subseteq waiting
    BY <2>1
  <2>3. Drawn'
    BY <1>1, <1>5, <2>1, <2>2, DrawnLess
  <2>4. Alone => Selfmade'
    BY <1>1, <2>1, <2>2, SelfmadeByEnd
  <2> QED
    BY <1>0, <1>5, <2>1, <2>2, <2>3, <2>4, InformingByEnd
<1>6. ASSUME NEW f \in flight, Fail(f), UNCHANGED limit PROVE Informing'
  BY <1>6, InformingByFail
<1>7. CASE FormationStep /\ UNCHANGED limit
  <2>1. Operation \/ \E f \in flight : Finish(f) \/ Cancel(f) \/ Fail(f)
    BY <1>7, Zenon DEF FormationStep, Operation
  <2> QED
    BY <1>4, <1>5, <1>6, <1>7, <2>1
<1>8. CASE UNCHANGED vars
  BY <1>2, <1>8 DEF vars, formVars, formOnly
<1>9. CASE TalkStep /\ UNCHANGED limit
  BY <1>2, <1>9 DEF TalkStep
<1> QED
  BY <1>3, <1>7, <1>8, <1>9, Zenon DEF Next

LEMMA InformingInit == Init => Informing
<1> SUFFICES ASSUME Init PROVE Informing
  OBVIOUS
<1>1. /\ forms = [q \in Requests |-> Unused] /\ flight = {} /\ waiting = {} /\ jobs = {}
      /\ drafts = [d \in Drafts |-> NoDraft]
  BY DEF Init
<1>2. Drawn
  <2>1. \A d \in Drafts : drafts[d].status = "none"
    BY <1>1 DEF NoDraft
  <2> QED
    BY <1>1, <2>1 DEF Drawn, Fine
<1>3. ASSUME NEW q \in Requests PROVE Noted(q)
  <2>1. Invited(forms[q]) = {}
    BY <1>1 DEF Unused, Invited
  <2> QED
    BY <2>1, UninvitedAware DEF Noted
<1> QED
  BY <1>1, <1>2, <1>3 DEF Informing, Recalling, Selfmade

LEMMA InformingInvariant == Spec => []Informing
<1>1. Counted /\ Formed /\ Balloted /\ Locks /\ Consenting /\ Informing /\ [Next]_vars => Informing'
  BY InformingStep
<1> QED
  BY <1>1, InformingInit, CountedInvariant, FormedInvariant, ConsentingInvariant, PTL DEF Spec

\* Whoever a revision invites has been told of it, and of the team that is made of it
\* (_revise_locked, _finalize_locked and the copies of mailboxes that their rollbacks
\* put back): as long as no commit has failed, or with any number of failures when
\* one formation at a time is negotiated, which no draft has proposed.
THEOREM InvitedAreTold == Spec => [](Peaceful => Informed)
<1>1. Informing => (Peaceful => Informed)
  <2> SUFFICES ASSUME Informing, Peaceful, NEW q \in Requests, forms[q].status \in {"collecting", "ready", "created"},
                      NEW a \in Invited(forms[q])
               PROVE  /\ <<q, Revision(forms[q])>> \in mail[a]
                      /\ forms[q].status = "created" => <<q, 0>> \in mail[a]
    BY DEF Informed
  <2>1. Aware(q, forms[q], mail)
    BY DEF Informing, Noted
  <2> QED
    BY <2>1 DEF Aware
<1> QED
  BY <1>1, InformingInvariant, PTL
=============================================================================
