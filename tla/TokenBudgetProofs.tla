------------------------- MODULE TokenBudgetProofs -------------------------
(***************************************************************************)
(* The hard quota and the accounting of TokenBudget for every finite set   *)
(* of turns, every limit and every size of request and report.             *)
(*                                                                         *)
(* Four layers: Typed (with the two loop bounds it needs), Claimed (only   *)
(* a request that is out holds tokens), Balanced, the conjunction of       *)
(* HardQuota and EveryRequestAccounted, and Exact (what is reserved of an  *)
(* alias is the sum over the requests that are out).  The ledger moves in  *)
(* three ways only, and each has a lemma: a dispatch, a settlement and a   *)
(* release; an action outside these leaves the ledger and the requests     *)
(* alone.                                                                  *)
(***************************************************************************)
EXTENDS TokenBudget, FiniteSetTheorems, FiniteSetsExt, TLAPS

-----------------------------------------------------------------------------
(* Induction over finite sets, as the existence of least ones, and sums. *)

\* Some subset is least among any subsets of a finite set.
LEMMA LeastSubset ==
  ASSUME NEW S, IsFiniteSet(S), NEW F, F \subseteq SUBSET S, F # {}
  PROVE  \E A \in F : \A B \in F : B \subseteq A => B = A
<1>1. IsWellFoundedOn(StrictSubsetOrdering(S), SUBSET S)
  BY FS_StrictSubsetOrderingWellFounded, FS_FiniteSubsetsOfFinite
<1>2. PICK A \in F : \A B \in F : ~ (<<B, A>> \in StrictSubsetOrdering(S))
  BY <1>1, WFMin
<1>3. QED
  BY <1>2 DEF StrictSubsetOrdering

\* MapThenSumSet over a function, and the recursion it is defined by.
Total(l, S) == MapThenSumSet(LAMBDA t : l[t], S)

One(s) == CHOOSE x \in s : TRUE
Rest(s) == s \ {One(s)}

Sums(l, S, g) == g = [s \in SUBSET S |-> IF s = {} THEN 0 ELSE l[One(s)] + g[Rest(s)]]
Summed(l, S) == CHOOSE g : Sums(l, S, g)

LEMMA TotalIsSummed == \A l, S : Total(l, S) = Summed(l, S)[S]
BY DEF Total, MapThenSumSet, MapThenFoldSet, Summed, Sums, One, Rest

LEMMA RestIsLess ==
  ASSUME NEW s, s # {}
  PROVE  One(s) \in s /\ Rest(s) \subseteq s /\ Rest(s) # s
BY DEF One, Rest

LEMMA SumsStep ==
  ASSUME NEW l, NEW S, NEW g, Sums(l, S, g), NEW s, s \subseteq S
  PROVE  g[s] = IF s = {} THEN 0 ELSE l[One(s)] + g[Rest(s)]
<1>1. s \in SUBSET S
  OBVIOUS
<1>q. QED
  BY <1>1 DEF Sums

LEMMA SumsUnique ==
  ASSUME NEW l, NEW S, IsFiniteSet(S), NEW g, NEW h, NEW R, R \subseteq S, Sums(l, R, g), Sums(l, S, h)
  PROVE  \A s \in SUBSET R : g[s] = h[s]
<1>1. DEFINE F == {s \in SUBSET R : g[s] # h[s]}
<1>2. SUFFICES ASSUME F # {} PROVE FALSE
  OBVIOUS
<1>3. F \subseteq SUBSET S
  OBVIOUS
<1>4. PICK s \in F : \A B \in F : B \subseteq s => B = s
  <2> HIDE DEF F
  <2> QED
    BY <1>2, <1>3, LeastSubset
<1>5. s \subseteq R /\ s \subseteq S /\ g[s] # h[s]
  OBVIOUS
<1>6. g[s] = IF s = {} THEN 0 ELSE l[One(s)] + g[Rest(s)]
  BY <1>5, SumsStep
<1>7. h[s] = IF s = {} THEN 0 ELSE l[One(s)] + h[Rest(s)]
  BY <1>5, SumsStep
<1>8. s # {} /\ g[Rest(s)] # h[Rest(s)]
  BY <1>5, <1>6, <1>7
<1>9. Rest(s) \subseteq s /\ Rest(s) # s
  BY <1>8, RestIsLess
<1>10. Rest(s) \in F
  BY <1>5, <1>8, <1>9
<1>q. QED
  BY <1>4, <1>9, <1>10

LEMMA SumsExist ==
  ASSUME NEW l, NEW S, IsFiniteSet(S)
  PROVE  \E g : Sums(l, S, g)
<1>1. DEFINE F == {A \in SUBSET S : ~ \E g : Sums(l, A, g)}
<1>2. SUFFICES ASSUME F # {} PROVE FALSE
  OBVIOUS
<1>3. F \subseteq SUBSET S
  OBVIOUS
<1>4. PICK A \in F : \A B \in F : B \subseteq A => B = A
  <2> HIDE DEF F
  <2> QED
    BY <1>2, <1>3, LeastSubset
<1>5. IsFiniteSet(A)
  BY FS_Subset
<1>6. ASSUME NEW r, r \subseteq A, r # A PROVE Sums(l, r, Summed(l, r))
  <2>1. r \in SUBSET S /\ r \notin F
    BY <1>4, <1>6
  <2>2. PICK g : Sums(l, r, g)
    BY <2>1
  <2>q. QED
    BY <2>2 DEF Summed
<1>7. DEFINE V(r) == Summed(l, r)[r]
<1>8. DEFINE h == [s \in SUBSET A |-> IF s = {} THEN 0 ELSE l[One(s)] + V(Rest(s))]
<1>9. ASSUME NEW r, r \subseteq A, r # A PROVE h[r] = V(r)
  <2>1. Sums(l, r, Summed(l, r))
    BY <1>6, <1>9
  <2>2. V(r) = IF r = {} THEN 0 ELSE l[One(r)] + Summed(l, r)[Rest(r)]
    BY <2>1, SumsStep
  <2>3. h[r] = IF r = {} THEN 0 ELSE l[One(r)] + V(Rest(r))
    BY <1>9
  <2>4. CASE r = {}
    BY <2>2, <2>3, <2>4
  <2>5. CASE r # {}
    <3>1. Rest(r) \subseteq r /\ Rest(r) # r
      BY <2>5, RestIsLess
    <3>2. Rest(r) \subseteq A /\ Rest(r) # A
      BY <3>1, <1>9
    <3>3. Sums(l, Rest(r), Summed(l, Rest(r)))
      BY <1>6, <3>2
    <3>4. IsFiniteSet(r)
      BY <1>5, <1>9, FS_Subset
    <3>5. \A s \in SUBSET Rest(r) : Summed(l, Rest(r))[s] = Summed(l, r)[s]
      BY <2>1, <3>1, <3>3, <3>4, SumsUnique
    <3>6. V(Rest(r)) = Summed(l, r)[Rest(r)]
      BY <3>5
    <3>q. QED
      BY <2>2, <2>3, <2>5, <3>6
  <2>q. QED
    BY <2>4, <2>5
<1>10. Sums(l, A, h)
  <2>1. ASSUME NEW s \in SUBSET A, s # {} PROVE V(Rest(s)) = h[Rest(s)]
    <3>1. Rest(s) \subseteq A /\ Rest(s) # A
      BY <2>1, RestIsLess
    <3>q. QED
      BY <1>9, <3>1
  <2>2. \A s \in SUBSET A : h[s] = IF s = {} THEN 0 ELSE l[One(s)] + V(Rest(s))
    OBVIOUS
  <2>3. h = [s \in SUBSET A |-> h[s]]
    OBVIOUS
  <2> HIDE DEF h, V
  <2>4. \A s \in SUBSET A : h[s] = IF s = {} THEN 0 ELSE l[One(s)] + h[Rest(s)]
    BY <2>1, <2>2
  <2>q. QED
    BY <2>3, <2>4 DEF Sums
<1>q. QED
  BY <1>4, <1>10

LEMMA SummedSums ==
  ASSUME NEW l, NEW S, IsFiniteSet(S)
  PROVE  Sums(l, S, Summed(l, S))
BY SumsExist DEF Summed

\* The sum over no elements, and over some with one taken out.
LEMMA TotalNone == \A l : Total(l, {}) = 0
<1> SUFFICES ASSUME NEW l PROVE Total(l, {}) = 0
  OBVIOUS
<1>1. Sums(l, {}, Summed(l, {}))
  BY SummedSums, FS_EmptySet
<1>q. QED
  BY <1>1, SumsStep, TotalIsSummed

LEMMA TotalOne ==
  ASSUME NEW l, NEW S, IsFiniteSet(S), S # {}
  PROVE  Total(l, S) = l[One(S)] + Total(l, Rest(S))
<1>1. Rest(S) \subseteq S /\ IsFiniteSet(Rest(S))
  BY RestIsLess, FS_Subset
<1>2. Sums(l, S, Summed(l, S)) /\ Sums(l, Rest(S), Summed(l, Rest(S)))
  BY <1>1, SummedSums
<1>3. \A s \in SUBSET Rest(S) : Summed(l, Rest(S))[s] = Summed(l, S)[s]
  <2>1. PICK g : g = Summed(l, Rest(S))
    OBVIOUS
  <2>2. PICK h : h = Summed(l, S)
    OBVIOUS
  <2>3. Sums(l, Rest(S), g) /\ Sums(l, S, h) /\ Rest(S) \subseteq S
    BY <1>1, <1>2, <2>1, <2>2
  <2>4. \A s \in SUBSET Rest(S) : g[s] = h[s]
    BY <2>3, SumsUnique
  <2> QED
    BY <2>1, <2>2, <2>4
<1>4. Summed(l, S)[S] = l[One(S)] + Summed(l, S)[Rest(S)]
  BY <1>2, SumsStep
<1>5. Summed(l, Rest(S))[Rest(S)] = Summed(l, S)[Rest(S)]
  BY <1>3
<1>q. QED
  BY <1>4, <1>5, TotalIsSummed

\* A sum of numbers is a number.
LEMMA TotalType ==
  ASSUME NEW S, IsFiniteSet(S), NEW l, \A x \in S : l[x] \in Nat
  PROVE  Total(l, S) \in Nat
<1>1. DEFINE F == {A \in SUBSET S : Total(l, A) \notin Nat}
<1>2. SUFFICES ASSUME F # {} PROVE FALSE
  OBVIOUS
<1>3. F \subseteq SUBSET S
  OBVIOUS
<1>4. PICK A \in F : \A B \in F : B \subseteq A => B = A
  <2> HIDE DEF F
  <2> QED
    BY <1>2, <1>3, LeastSubset
<1>5. A # {}
  BY TotalNone
<1>6. One(A) \in A /\ Rest(A) \subseteq A /\ Rest(A) # A
  BY <1>5, RestIsLess
<1>7. Total(l, Rest(A)) \in Nat
  BY <1>4, <1>6
<1>8. Total(l, A) = l[One(A)] + Total(l, Rest(A))
  <2>1. IsFiniteSet(A)
    BY FS_Subset
  <2>q. QED
    BY <1>5, <2>1, TotalOne
<1>9. l[One(A)] \in Nat
  BY <1>6
<1>q. QED
  BY <1>7, <1>8, <1>9

\* A sum depends on the values that are summed only.
LEMMA TotalSame ==
  ASSUME NEW S, IsFiniteSet(S), NEW l, NEW k, \A x \in S : l[x] = k[x]
  PROVE  Total(l, S) = Total(k, S)
<1>1. DEFINE F == {A \in SUBSET S : Total(l, A) # Total(k, A)}
<1>2. SUFFICES ASSUME F # {} PROVE FALSE
  OBVIOUS
<1>3. F \subseteq SUBSET S
  OBVIOUS
<1>4. PICK A \in F : \A B \in F : B \subseteq A => B = A
  <2> HIDE DEF F
  <2> QED
    BY <1>2, <1>3, LeastSubset
<1>5. A # {}
  BY TotalNone
<1>6. One(A) \in A /\ Rest(A) \subseteq A /\ Rest(A) # A
  BY <1>5, RestIsLess
<1>7. Total(l, Rest(A)) = Total(k, Rest(A))
  BY <1>4, <1>6
<1>8. IsFiniteSet(A)
  BY FS_Subset
<1>9. Total(l, A) = l[One(A)] + Total(l, Rest(A)) /\ Total(k, A) = k[One(A)] + Total(k, Rest(A))
  BY <1>5, <1>8, TotalOne
<1>10. l[One(A)] = k[One(A)]
  BY <1>6
<1>q. QED
  BY <1>7, <1>9, <1>10

\* Any element may be taken out first.
LEMMA TotalRemove ==
  ASSUME NEW S, IsFiniteSet(S), NEW l, \A y \in S : l[y] \in Nat, NEW x \in S
  PROVE  Total(l, S) = l[x] + Total(l, S \ {x})
<1>1. DEFINE F == {A \in SUBSET S : \E z \in A : Total(l, A) # l[z] + Total(l, A \ {z})}
<1>2. SUFFICES ASSUME F # {} PROVE FALSE
  OBVIOUS
<1>3. F \subseteq SUBSET S
  OBVIOUS
<1>4. PICK A \in F : \A B \in F : B \subseteq A => B = A
  <2> HIDE DEF F
  <2> QED
    BY <1>2, <1>3, LeastSubset
<1>5. PICK z \in A : Total(l, A) # l[z] + Total(l, A \ {z})
  OBVIOUS
<1>6. IsFiniteSet(A) /\ A # {} /\ A \subseteq S
  BY FS_Subset
<1>7. PICK y : y = One(A)
  OBVIOUS
<1>8. y \in A /\ Total(l, A) = l[y] + Total(l, A \ {y})
  BY <1>6, <1>7, RestIsLess, TotalOne DEF Rest
<1>9. y # z
  BY <1>5, <1>8
<1>10. Total(l, A \ {y}) = l[z] + Total(l, (A \ {y}) \ {z})
  <2>1. A \ {y} \subseteq A /\ A \ {y} # A /\ A \ {y} \in SUBSET S
    BY <1>6, <1>8
  <2>q. QED
    BY <1>4, <1>9, <2>1
<1>11. Total(l, A \ {z}) = l[y] + Total(l, (A \ {z}) \ {y})
  <2>1. A \ {z} \subseteq A /\ A \ {z} # A /\ A \ {z} \in SUBSET S
    BY <1>6
  <2>q. QED
    BY <1>4, <1>8, <1>9, <2>1
<1>12. (A \ {y}) \ {z} = (A \ {z}) \ {y}
  OBVIOUS
<1>13. Total(l, (A \ {z}) \ {y}) \in Nat
  <2>1. IsFiniteSet((A \ {z}) \ {y}) /\ \A u \in (A \ {z}) \ {y} : l[u] \in Nat
    BY <1>6, FS_Subset
  <2>q. QED
    BY <2>1, TotalType
<1>14. l[y] \in Nat /\ l[z] \in Nat
  BY <1>6, <1>8
<1>15. PICK s : s = Total(l, (A \ {z}) \ {y})
  OBVIOUS
<1>16. s \in Nat /\ Total(l, A) = l[y] + (l[z] + s) /\ Total(l, A \ {z}) = l[y] + s
  BY <1>8, <1>10, <1>11, <1>12, <1>13, <1>15
<1>q. QED
  <2> HIDE DEF F
  <2> QED
    BY <1>5, <1>14, <1>16

\* One more element.
LEMMA TotalAdd ==
  ASSUME NEW S, IsFiniteSet(S), NEW l, NEW x, x \notin S, \A y \in S \cup {x} : l[y] \in Nat
  PROVE  Total(l, S \cup {x}) = l[x] + Total(l, S)
<1>1. IsFiniteSet(S \cup {x}) /\ (S \cup {x}) \ {x} = S
  BY FS_AddElement
<1>q. QED
  BY <1>1, TotalRemove

-----------------------------------------------------------------------------
(* Types and loop bounds. *)

\* TypeOK, with nothing yet said about the sign of reservedBy.
Typed ==
    /\ policy \in {"auto", "parent", "none"}
    /\ pc \in [Turns -> PCs]
    /\ model \in [Turns -> Models]
    /\ prompt \in [Turns -> Nat]
    /\ attempt \in [Turns -> 1..(MaxRetries + 1)]
    /\ round \in [Turns -> 0..MaxRounds]
    /\ swaps \in [Turns -> 0..Cardinality(Limited)]
    /\ choices \in [Turns -> SUBSET Models]
    /\ ledger \in [Turns -> Nat]
    /\ reservedBy \in [Limited -> Int]
    /\ usage \in [Limited -> Nat]
    /\ overrun \in [Limited -> Nat]
    /\ sent \in [Limited -> Nat]
    /\ settled \in [Limited -> Nat]
    /\ unsent \in [Limited -> Nat]
    /\ stage \in {"open", "closing", "closed"}

LoopBounds ==
    \A t \in Turns :
        /\ pc[t] = "idle" => round[t] < MaxRounds
        /\ pc[t] = "backoff" => attempt[t] <= MaxRetries
        /\ pc[t] = "asking" => MaySwap(t)

Shaped == Typed /\ LoopBounds

LEMMA LimitedCount == Cardinality(Limited) \in Nat
BY BudgetAssumption, FS_CardinalityType

LEMMA ShapedInit == Init => Shaped
<1> SUFFICES ASSUME Init PROVE Shaped
  OBVIOUS
<1>1. Typed
  BY BudgetAssumption, LimitedCount DEF Init, Typed, PCs, Models
<1>2. LoopBounds
  BY BudgetAssumption DEF Init, LoopBounds
<1> QED
  BY <1>1, <1>2 DEF Shaped

\* The part of the types that belongs to the ledger.
LedgerTyped ==
    /\ ledger \in [Turns -> Nat]
    /\ reservedBy \in [Limited -> Int]
    /\ usage \in [Limited -> Nat]
    /\ overrun \in [Limited -> Nat]
    /\ settled \in [Limited -> Nat]
    /\ unsent \in [Limited -> Nat]

LEMMA LedgerTypedSettle ==
    ASSUME Typed, NEW t \in Turns, NEW actual \in Nat, SettleIfLimited(t, actual)
    PROVE  LedgerTyped'
<1>1. CASE model[t] \in Limited
  BY <1>1 DEF Typed, LedgerTyped, SettleIfLimited, Settle, Drop
<1>2. CASE model[t] \notin Limited
  BY <1>2 DEF Typed, LedgerTyped, SettleIfLimited, ledgerVars
<1> QED
  BY <1>1, <1>2

LEMMA LedgerTypedRelease ==
    ASSUME Typed, NEW t \in Turns, ReleaseIfLimited(t)
    PROVE  LedgerTyped'
<1>1. CASE model[t] \in Limited
  BY <1>1 DEF Typed, LedgerTyped, ReleaseIfLimited, Release, Drop
<1>2. CASE model[t] \notin Limited
  BY <1>2 DEF Typed, LedgerTyped, ReleaseIfLimited, ledgerVars
<1> QED
  BY <1>1, <1>2

\* A step that moves one turn to a label and keeps the counters of the loops.
LEMMA ShapedMove ==
    ASSUME Shaped, NEW t \in Turns, NEW label \in PCs, Goto(t, label),
           label = "idle" => round[t] < MaxRounds,
           label = "backoff" => attempt[t] <= MaxRetries,
           label = "asking" => MaySwap(t),
           UNCHANGED <<policy, model, prompt, attempt, round, swaps, stage>>,
           choices' \in [Turns -> SUBSET Models],
           LedgerTyped', sent' \in [Limited -> Nat]
    PROVE  Shaped'
<1>1. pc' \in [Turns -> PCs] /\ Typed'
  BY DEF Shaped, Typed, Goto, LedgerTyped
<1>2. LoopBounds'
  BY DEF Shaped, Typed, Goto, LoopBounds, MaySwap
<1> QED
  BY <1>1, <1>2 DEF Shaped

LEMMA LedgerTypedSame ==
    ASSUME Typed, UNCHANGED ledgerVars
    PROVE  LedgerTyped'
BY DEF Typed, LedgerTyped, ledgerVars

LEMMA ShapedSwap ==
    ASSUME Shaped, NEW t \in Turns, NEW m \in Models, SwapTo(t, m), MaySwap(t),
           choices' \in [Turns -> SUBSET Models],
           UNCHANGED <<policy, prompt, attempt, ledgerVars, sent, stage>>
    PROVE  Shaped'
<1>1. swaps' \in [Turns -> 0..Cardinality(Limited)]
  BY LimitedCount DEF Shaped, Typed, SwapTo, MaySwap
<1>2. /\ model' \in [Turns -> Models]
      /\ round' \in [Turns -> 0..MaxRounds]
      /\ pc' \in [Turns -> PCs]
  BY BudgetAssumption DEF Shaped, Typed, SwapTo, Goto, PCs
<1>3. Typed'
  BY <1>1, <1>2 DEF Shaped, Typed, ledgerVars
<1>4. LoopBounds'
  BY BudgetAssumption DEF Shaped, Typed, LoopBounds, SwapTo, Goto, MaySwap
<1> QED
  BY <1>3, <1>4 DEF Shaped

LEMMA ShapedNext == Shaped /\ [Next]_vars => Shaped'
<1> SUFFICES ASSUME Shaped, [Next]_vars PROVE Shaped'
  OBVIOUS
<1> USE DEF PCs, EndedPCs
<1>a. /\ sent \in [Limited -> Nat]
      /\ choices \in [Turns -> SUBSET Models]
      /\ Typed
  BY DEF Shaped, Typed
<1>1. ASSUME NEW t \in Turns, NEW p \in Prompts, Call(t, p) PROVE Shaped'
  <2>1. round[t] < MaxRounds
    BY <1>1 DEF Call, Shaped, LoopBounds
  <2>2. /\ round' \in [Turns -> 0..MaxRounds]
        /\ prompt' \in [Turns -> Nat]
        /\ attempt' \in [Turns -> 1..(MaxRetries + 1)]
    BY <1>1, <2>1, BudgetAssumption DEF Call, Shaped, Typed
  <2>3. Typed'
    BY <1>1, <2>2 DEF Call, Shaped, Typed, Goto, ledgerVars
  <2>4. LoopBounds'
    BY <1>1 DEF Call, Shaped, Typed, LoopBounds, Goto, MaySwap
  <2> QED
    BY <2>3, <2>4 DEF Shaped
<1>2. ASSUME NEW t \in Turns, Dispatch(t) PROVE Shaped'
  <2>1. Required(t) \in Nat
    BY BudgetAssumption DEF Required, Shaped, Typed
  <2>2. LedgerTyped' /\ sent' \in [Limited -> Nat]
    <3>1. CASE model[t] \in Limited
      BY <1>2, <2>1, <3>1 DEF Dispatch, ReserveTokens, Shaped, Typed, LedgerTyped
    <3>2. CASE model[t] \notin Limited
      BY <1>2, <3>2 DEF Dispatch, Shaped, Typed, LedgerTyped, ledgerVars
    <3> QED
      BY <3>1, <3>2
  <2> QED
    BY <1>2, <1>a, <2>2, ShapedMove DEF Dispatch
<1>3. ASSUME NEW t \in Turns,
             Exceed(t) \/ RejectUnbounded(t) \/ RefuseClosing(t)
                 \/ CancelIdle(t) \/ GiveUp(t)
      PROVE  Shaped'
  <2>1. LedgerTyped' /\ sent' \in [Limited -> Nat] /\ choices' \in [Turns -> SUBSET Models]
    BY <1>3, <1>a, LedgerTypedSame DEF Exceed, RejectUnbounded, RefuseClosing, CancelIdle, GiveUp
  <2>2. PICK label \in {"exhausted", "incomplete", "cancelled"} : Goto(t, label)
    BY <1>3 DEF Exceed, RejectUnbounded, RefuseClosing, CancelIdle, GiveUp
  <2>3. UNCHANGED <<policy, model, prompt, attempt, round, swaps, stage>>
    BY <1>3 DEF Exceed, RejectUnbounded, RefuseClosing, CancelIdle, GiveUp
  <2> QED
    BY <2>1, <2>2, <2>3, ShapedMove
<1>4. ASSUME NEW t \in Turns, NEW actual \in Nat, SettleIfLimited(t, actual),
             NEW next \in {"idle", "completed", "incomplete", "cancelled", "backoff"},
             Goto(t, AfterSettlement(t, next)),
             next = "idle" => round[t] < MaxRounds,
             next = "backoff" => attempt[t] <= MaxRetries,
             UNCHANGED <<policy, model, prompt, attempt, round, swaps, choices, sent, stage>>
      PROVE  Shaped'
  <2>1. LedgerTyped' /\ sent' \in [Limited -> Nat] /\ choices' \in [Turns -> SUBSET Models]
    BY <1>4, <1>a, LedgerTypedSettle
  <2>2. PICK label \in {next, "crashed"} : Goto(t, label)
    BY <1>4 DEF AfterSettlement
  <2> QED
    BY <1>4, <2>1, <2>2, ShapedMove
<1>5. ASSUME NEW t \in Turns, NEW actual \in Reports, Answer(t, actual) PROVE Shaped'
  <2>1. PICK next \in {"idle", "completed", "incomplete"} :
            (next = "idle" => round[t] < MaxRounds) /\ Goto(t, AfterSettlement(t, next))
    BY <1>5 DEF Answer
  <2> QED
    BY <1>4, <1>5, <2>1, BudgetAssumption DEF Answer
<1>6. ASSUME NEW t \in Turns, NEW actual \in Reports \cup {prompt[t]},
             NEW transient \in BOOLEAN, Fail(t, actual, transient)
      PROVE  Shaped'
  <2>1. actual \in Nat
    BY <1>a, BudgetAssumption DEF Typed
  <2>2. /\ AfterFailure(t, transient) \in {"backoff", "incomplete"}
        /\ AfterFailure(t, transient) = "backoff" => attempt[t] <= MaxRetries
    BY DEF AfterFailure
  <2> QED
    BY <1>4, <1>6, <2>1, <2>2 DEF Fail
<1>7. ASSUME NEW t \in Turns, NEW transient \in BOOLEAN, FailUnsent(t, transient) PROVE Shaped'
  <2>1. /\ AfterFailure(t, transient) \in {"backoff", "incomplete"}
        /\ AfterFailure(t, transient) = "backoff" => attempt[t] <= MaxRetries
    BY DEF AfterFailure
  <2>2. LedgerTyped' /\ sent' \in [Limited -> Nat] /\ choices' \in [Turns -> SUBSET Models]
    BY <1>7, <1>a, LedgerTypedRelease DEF FailUnsent
  <2> QED
    BY <1>7, <2>1, <2>2, ShapedMove DEF FailUnsent
<1>8. ASSUME NEW t \in Turns, NEW actual \in Reports \cup {prompt[t]}, CancelInFlight(t, actual)
      PROVE  Shaped'
  <2>1. actual \in Nat
    BY <1>a, BudgetAssumption DEF Typed
  <2> QED
    BY <1>4, <1>8, <2>1 DEF CancelInFlight
<1>9. ASSUME NEW t \in Turns, Retry(t) PROVE Shaped'
  <2>1. attempt' \in [Turns -> 1..(MaxRetries + 1)]
    BY <1>9, BudgetAssumption DEF Retry, Shaped, Typed, LoopBounds
  <2>2. Typed'
    BY <1>9, <2>1 DEF Retry, Shaped, Typed, Goto, ledgerVars
  <2>3. LoopBounds'
    BY <1>9 DEF Retry, Shaped, Typed, LoopBounds, Goto, MaySwap
  <2> QED
    BY <2>2, <2>3 DEF Shaped
<1>b. ASSUME NEW t \in Turns PROVE Candidates(t) \in SUBSET Models
  BY DEF Candidates, Models
<1>10. ASSUME NEW t \in Turns, NEW m \in Models, FailoverAuto(t, m) PROVE Shaped'
  BY <1>10, <1>a, ShapedSwap DEF FailoverAuto
<1>11. ASSUME NEW t \in Turns, AskParent(t) PROVE Shaped'
  <2>1. LedgerTyped' /\ sent' \in [Limited -> Nat]
    BY <1>11, <1>a, LedgerTypedSame DEF AskParent
  <2>2. choices' \in [Turns -> SUBSET Models]
    BY <1>11, <1>a, <1>b DEF AskParent
  <2> QED
    BY <1>11, <2>1, <2>2, ShapedMove DEF AskParent
<1>12. ASSUME NEW t \in Turns, NEW m \in Models, ParentChooses(t, m) PROVE Shaped'
  <2>1. MaySwap(t)
    BY <1>12 DEF ParentChooses, Shaped, LoopBounds
  <2>2. choices' \in [Turns -> SUBSET Models]
    BY <1>12, <1>a DEF ParentChooses
  <2> QED
    BY <1>12, <2>1, <2>2, ShapedSwap DEF ParentChooses
<1>13. ASSUME NEW t \in Turns, ParentDeclines(t) PROVE Shaped'
  <2>1. LedgerTyped' /\ sent' \in [Limited -> Nat]
    BY <1>13, <1>a, LedgerTypedSame DEF ParentDeclines
  <2>2. choices' \in [Turns -> SUBSET Models]
    BY <1>13, <1>a DEF ParentDeclines
  <2> QED
    BY <1>13, <2>1, <2>2, ShapedMove DEF ParentDeclines
<1>14. CASE Shutdown
  BY <1>14 DEF Shutdown, Shaped, Typed, LoopBounds, MaySwap, turnVars, ledgerVars
<1>15. CASE UNCHANGED vars
  BY <1>15 DEF vars, Shaped, Typed, LoopBounds, MaySwap, turnVars, ledgerVars
<1> QED
  BY <1>1, <1>2, <1>3, <1>5, <1>6, <1>7, <1>8, <1>9, <1>10, <1>11, <1>12, <1>13, <1>14, <1>15
     DEF Next, Step, Disturb

-----------------------------------------------------------------------------
(* Only a request that is out holds tokens. *)

Claimed ==
    \A t \in Turns : ledger[t] > 0 <=> (pc[t] = "inFlight" /\ model[t] \in Limited)

Balanced == HardQuota /\ EveryRequestAccounted

\* The tokens reserved of an alias are those of the requests that are out on it.
Exact == \A m \in Limited : reservedBy[m] = Total(ledger, InFlightOn(m))

Accounted == Shaped /\ Claimed /\ Balanced /\ Exact

LEMMA InFlightCount ==
    ASSUME NEW m
    PROVE  IsFiniteSet(InFlightOn(m)) /\ Cardinality(InFlightOn(m)) \in Nat
<1>1. InFlightOn(m) \in SUBSET Turns
  BY DEF InFlightOn
<1>2. IsFiniteSet(InFlightOn(m))
  BY <1>1, FS_Subset, BudgetAssumption
<1> QED
  BY <1>2, FS_CardinalityType

LEMMA AccountedInit == Init => Accounted
<1> SUFFICES ASSUME Init PROVE Accounted
  OBVIOUS
<1>1. Shaped
  BY ShapedInit
<1>2. Claimed
  BY DEF Init, Claimed
<1>3. HardQuota
  BY BudgetAssumption DEF Init, HardQuota
<1>4. \A m \in Limited : InFlightOn(m) = {}
  BY DEF Init, InFlightOn
<1>5. EveryRequestAccounted
  BY <1>4, FS_EmptySet DEF Init, EveryRequestAccounted
<1>6. Exact
  BY <1>4, TotalNone DEF Init, Exact
<1> QED
  BY <1>1, <1>2, <1>3, <1>5, <1>6 DEF Accounted, Balanced

\* The requests on an alias whose reservations stay, but for one that begins or ends.
LEMMA TotalStays ==
    ASSUME NEW m, NEW t, t \notin InFlightOn(m), Typed, NEW l,
           \A u \in Turns \ {t} : l[u] = ledger[u]
    PROVE  Total(l, InFlightOn(m)) = Total(ledger, InFlightOn(m))
<1>1. \A u \in InFlightOn(m) : l[u] = ledger[u]
  BY DEF InFlightOn
<1> QED
  BY <1>1, InFlightCount, TotalSame

LEMMA ExactQuiet ==
    ASSUME Exact, UNCHANGED <<ledger, reservedBy>>, \A m : InFlightOn(m)' = InFlightOn(m)
    PROVE  Exact'
BY DEF Exact

LEMMA ExactDispatch ==
    ASSUME Exact, Typed, Typed', NEW t \in Turns, model[t] \in Limited, ReserveTokens(t),
           pc[t] # "inFlight",
           \A m : m = model[t] => InFlightOn(m)' = InFlightOn(m) \cup {t},
           \A m : m # model[t] => InFlightOn(m)' = InFlightOn(m), Required(t) \in Nat
    PROVE  Exact'
<1> SUFFICES ASSUME NEW m \in Limited PROVE reservedBy'[m] = Total(ledger', InFlightOn(m)')
  BY DEF Exact
<1>1. reservedBy[m] = Total(ledger, InFlightOn(m))
  BY DEF Exact
<1>2. ledger'[t] = Required(t) /\ \A u \in Turns \ {t} : ledger'[u] = ledger[u]
  BY DEF ReserveTokens, Typed
<1>3. t \notin InFlightOn(m)
  BY DEF InFlightOn
<1>4. Total(ledger', InFlightOn(m)) = Total(ledger, InFlightOn(m))
  BY <1>2, <1>3, TotalStays
<1>5. CASE m = model[t]
  <2>1. reservedBy'[m] = reservedBy[m] + Required(t)
    BY <1>5 DEF ReserveTokens, Typed
  <2>2. PICK S, l : S = InFlightOn(m) /\ l = ledger'
    OBVIOUS
  <2>3. t \notin S /\ IsFiniteSet(S) /\ \A u \in S \cup {t} : l[u] \in Nat
    <3>1. IsFiniteSet(S) /\ t \notin S
      BY <1>3, <2>2, InFlightCount
    <3>2. \A u \in S \cup {t} : u \in Turns
      BY <2>2 DEF InFlightOn
    <3> QED
      BY <2>2, <3>1, <3>2 DEF Typed
  <2>4. Total(l, S \cup {t}) = l[t] + Total(l, S)
    BY <2>3, TotalAdd
  <2>5. Total(l, S) \in Nat
    BY <2>3, TotalType
  <2>6. PICK s : s = Total(l, S)
    OBVIOUS
  <2>7. reservedBy[m] = s /\ s \in Nat
    BY <1>1, <1>4, <2>2, <2>5, <2>6
  <2>8. InFlightOn(m)' = S \cup {t} /\ ledger' = l /\ l[t] = Required(t)
    BY <1>2, <1>5, <2>2
  <2>9. Total(ledger', InFlightOn(m)') = Required(t) + s
    BY <2>4, <2>6, <2>8
  <2> QED
    BY <2>1, <2>7, <2>9
<1>6. CASE m # model[t]
  <2>1. reservedBy'[m] = reservedBy[m]
    BY <1>6 DEF ReserveTokens, Typed
  <2> QED
    BY <1>1, <1>4, <1>6, <2>1
<1> QED
  BY <1>5, <1>6

LEMMA ExactEnd ==
    ASSUME Exact, Typed, NEW t \in Turns, model[t] \in Limited,
           ledger' = [ledger EXCEPT ![t] = 0],
           reservedBy' = [reservedBy EXCEPT ![model[t]] = @ - ledger[t]],
           pc[t] = "inFlight",
           \A m : m = model[t] => InFlightOn(m)' = InFlightOn(m) \ {t},
           \A m : m # model[t] => InFlightOn(m)' = InFlightOn(m)
    PROVE  Exact'
<1> SUFFICES ASSUME NEW m \in Limited PROVE reservedBy'[m] = Total(ledger', InFlightOn(m)')
  BY DEF Exact
<1>1. reservedBy[m] = Total(ledger, InFlightOn(m))
  BY DEF Exact
<1>2. \A u \in Turns \ {t} : ledger'[u] = ledger[u]
  BY DEF Typed
<1>3. CASE m = model[t]
  <2>1. reservedBy'[m] = reservedBy[m] - ledger[t]
    BY <1>3 DEF Typed
  <2>2. PICK S, l, k : S = InFlightOn(m) /\ l = ledger /\ k = ledger'
    OBVIOUS
  <2>3. t \in S /\ IsFiniteSet(S) /\ \A u \in S : l[u] \in Nat
    <3>1. IsFiniteSet(S)
      BY <2>2, InFlightCount
    <3>2. t \in S /\ \A u \in S : u \in Turns
      BY <1>3, <2>2 DEF InFlightOn
    <3> QED
      BY <2>2, <3>1, <3>2 DEF Typed
  <2>4. Total(l, S) = l[t] + Total(l, S \ {t})
    BY <2>3, TotalRemove
  <2>5. IsFiniteSet(S \ {t}) /\ \A u \in S \ {t} : l[u] \in Nat /\ l[u] = k[u]
    <3>1. \A u \in S \ {t} : l[u] = k[u]
      BY <1>2, <2>2 DEF InFlightOn
    <3>2. IsFiniteSet(S \ {t})
      BY <2>3, FS_Subset
    <3> QED
      BY <2>3, <3>1, <3>2
  <2>6. Total(l, S \ {t}) \in Nat
    BY <2>5, TotalType
  <2>7. Total(l, S \ {t}) = Total(k, S \ {t})
    BY <2>5, TotalSame
  <2>8. PICK s : s = Total(k, S \ {t})
    OBVIOUS
  <2>9. reservedBy[m] = ledger[t] + s /\ s \in Nat /\ ledger[t] \in Nat
    BY <1>1, <2>2, <2>3, <2>4, <2>6, <2>7, <2>8
  <2>10. InFlightOn(m)' = S \ {t} /\ ledger' = k
    BY <1>3, <2>2
  <2>11. Total(ledger', InFlightOn(m)') = s
    BY <2>8, <2>10
  <2> QED
    BY <2>1, <2>9, <2>11
<1>4. CASE m # model[t]
  <2>1. reservedBy'[m] = reservedBy[m]
    BY <1>4 DEF Typed
  <2>2. Total(ledger', InFlightOn(m)) = Total(ledger, InFlightOn(m))
    <3>1. t \notin InFlightOn(m)
      BY <1>4 DEF InFlightOn
    <3> QED
      BY <1>2, <3>1, TotalStays
  <2> QED
    BY <1>1, <1>4, <2>1, <2>2
<1> QED
  BY <1>3, <1>4

\* A step of one turn that leaves the ledger alone and no request behind.
LEMMA QuietStep ==
    ASSUME Accounted, Shaped', NEW t \in Turns,
           pc[t] # "inFlight", pc'[t] # "inFlight",
           \A u \in Turns \ {t} : pc'[u] = pc[u] /\ model'[u] = model[u],
           UNCHANGED <<ledgerVars, sent>>
    PROVE  Accounted'
<1>1. Claimed'
  BY DEF Accounted, Claimed, ledgerVars
<1>2. HardQuota'
  BY DEF Accounted, Balanced, HardQuota, ledgerVars
<1>3. \A m : InFlightOn(m)' = InFlightOn(m)
  BY DEF InFlightOn
<1>4. EveryRequestAccounted'
  BY <1>3 DEF Accounted, Balanced, EveryRequestAccounted, ledgerVars
<1>5. Exact'
  BY <1>3, ExactQuiet DEF Accounted, ledgerVars
<1> QED
  BY <1>1, <1>2, <1>4, <1>5 DEF Accounted, Balanced

LEMMA RequiredPositive ==
    ASSUME Typed, NEW t \in Turns
    PROVE  Required(t) \in Nat /\ Required(t) > 0
BY BudgetAssumption DEF Typed, Required

\* A dispatch claims what it needs out of what is left.
LEMMA DispatchStep ==
    ASSUME Accounted, Shaped', NEW t \in Turns, Dispatch(t)
    PROVE  Accounted'
<1> USE DEF Accounted, Shaped
<1>1. pc[t] = "request" /\ pc' = [pc EXCEPT ![t] = "inFlight"] /\ UNCHANGED model
  BY DEF Dispatch, Goto
<1>2. pc'[t] = "inFlight" /\ \A u \in Turns \ {t} : pc'[u] = pc[u]
  BY <1>1 DEF Typed
<1>3. \A m : m # model[t] => InFlightOn(m)' = InFlightOn(m)
  BY <1>1, <1>2 DEF InFlightOn
<1>4. CASE model[t] \in Limited
  <2> DEFINE m0 == model[t]
  <2>1. Fits(t) /\ ReserveTokens(t) /\ sent' = [sent EXCEPT ![m0] = @ + 1]
    BY <1>4 DEF Dispatch
  <2>2. Claimed'
    BY <1>1, <1>2, <1>4, <2>1, RequiredPositive DEF Claimed, ReserveTokens, Typed
  <2>3. HardQuota'
    <3> SUFFICES ASSUME NEW m \in Limited
                 PROVE  usage'[m] + reservedBy'[m] <= Limit[m] + overrun'[m]
      BY DEF HardQuota
    <3>1. UNCHANGED <<usage, overrun>>
      BY <2>1 DEF ReserveTokens
    <3>2. usage[m] + reservedBy[m] <= Limit[m] + overrun[m]
      BY DEF Balanced, HardQuota
    <3>3. CASE m = m0
      <4>1. reservedBy'[m] = reservedBy[m] + Required(t)
        BY <2>1, <3>3 DEF ReserveTokens, Typed
      <4>2. Required(t) <= Limit[m] - usage[m] - reservedBy[m]
        BY <2>1, <3>3 DEF Fits, Room
      <4> QED
        BY <3>1, <4>1, <4>2, RequiredPositive, BudgetAssumption DEF Typed
    <3>4. CASE m # m0
      BY <2>1, <3>1, <3>2, <3>4 DEF ReserveTokens, Typed
    <3> QED
      BY <3>3, <3>4
  <2>4. EveryRequestAccounted'
    <3> SUFFICES ASSUME NEW m \in Limited
                 PROVE  sent'[m] = settled'[m] + unsent'[m] + Cardinality(InFlightOn(m)')
      BY DEF EveryRequestAccounted
    <3>1. UNCHANGED <<settled, unsent>>
      BY <2>1 DEF ReserveTokens
    <3>2. sent[m] = settled[m] + unsent[m] + Cardinality(InFlightOn(m))
      BY DEF Balanced, EveryRequestAccounted
    <3>3. CASE m = m0
      <4>1. InFlightOn(m)' = InFlightOn(m) \cup {t} /\ t \notin InFlightOn(m)
        BY <1>1, <1>2, <3>3 DEF InFlightOn
      <4>2. Cardinality(InFlightOn(m)') = Cardinality(InFlightOn(m)) + 1
        BY <4>1, InFlightCount, FS_AddElement
      <4>3. sent'[m] = sent[m] + 1
        BY <2>1, <3>3 DEF Typed
      <4> QED
        BY <3>1, <3>2, <4>2, <4>3, InFlightCount DEF Typed
    <3>4. CASE m # m0
      BY <1>3, <2>1, <3>1, <3>2, <3>4 DEF Typed
    <3> QED
      BY <3>3, <3>4
  <2>5. Exact'
    <3>1. \A m : m = m0 => InFlightOn(m)' = InFlightOn(m) \cup {t}
      BY <1>1, <1>2 DEF InFlightOn
    <3>2. Required(t) \in Nat
      BY RequiredPositive
    <3> QED
      BY <1>1, <1>3, <1>4, <2>1, <3>1, <3>2, ExactDispatch
  <2> QED
    BY <2>2, <2>3, <2>4, <2>5 DEF Balanced
<1>5. CASE model[t] \notin Limited
  <2>1. UNCHANGED <<ledgerVars, sent>>
    BY <1>5 DEF Dispatch
  <2>2. Claimed'
    BY <1>1, <1>2, <1>5, <2>1 DEF Claimed, ledgerVars
  <2>3. HardQuota'
    BY <2>1 DEF Balanced, HardQuota, ledgerVars
  <2>4. EveryRequestAccounted'
    BY <1>3, <1>5, <2>1 DEF Balanced, EveryRequestAccounted, ledgerVars
  <2>5. Exact'
    BY <1>3, <1>5, <2>1 DEF Exact, ledgerVars
  <2> QED
    BY <2>2, <2>3, <2>4, <2>5 DEF Balanced
<1> QED
  BY <1>4, <1>5

\* A request that comes back is charged or released, and gives up its claim.
LEMMA EndStep ==
    ASSUME Accounted, Shaped', NEW t \in Turns, NEW actual \in Nat,
           SettleIfLimited(t, actual) \/ ReleaseIfLimited(t),
           pc[t] = "inFlight", pc'[t] # "inFlight",
           \A u \in Turns \ {t} : pc'[u] = pc[u],
           UNCHANGED <<model, sent>>
    PROVE  Accounted'
<1> USE DEF Accounted, Shaped
<1>1. \A m : m # model[t] => InFlightOn(m)' = InFlightOn(m)
  BY DEF InFlightOn
<1>2. CASE model[t] \in Limited
  <2> DEFINE m0 == model[t]
  <2>1. /\ ledger' = [ledger EXCEPT ![t] = 0]
        /\ reservedBy' = [reservedBy EXCEPT ![m0] = @ - ledger[t]]
    BY <1>2 DEF SettleIfLimited, ReleaseIfLimited, Settle, Release, Drop
  <2>2. Claimed'
    BY <1>2, <2>1 DEF Claimed, Typed
  <2>3. HardQuota'
    <3> SUFFICES ASSUME NEW m \in Limited
                 PROVE  usage'[m] + reservedBy'[m] <= Limit[m] + overrun'[m]
      BY DEF HardQuota
    <3>1. usage[m] + reservedBy[m] <= Limit[m] + overrun[m]
      BY DEF Balanced, HardQuota
    <3>2. CASE m = m0
      <4>1. reservedBy'[m] = reservedBy[m] - ledger[t]
        BY <2>1, <3>2 DEF Typed
      <4>2. CASE Settle(t, actual)
        <5>1. usage'[m] = usage[m] + actual
          BY <3>2, <4>2 DEF Settle, Typed
        <5>2. overrun'[m] = overrun[m] + (IF actual > ledger[t] THEN actual - ledger[t] ELSE 0)
          BY <3>2, <4>2 DEF Settle, Typed
        <5> QED
          BY <3>1, <4>1, <5>1, <5>2, BudgetAssumption DEF Typed
      <4>3. CASE Release(t)
        <5>1. UNCHANGED <<usage, overrun>>
          BY <4>3 DEF Release
        <5> QED
          BY <3>1, <4>1, <5>1, BudgetAssumption DEF Typed
      <4> QED
        BY <1>2, <4>2, <4>3 DEF SettleIfLimited, ReleaseIfLimited
    <3>3. CASE m # m0
      <4>1. usage'[m] = usage[m] /\ overrun'[m] = overrun[m] /\ reservedBy'[m] = reservedBy[m]
        BY <1>2, <2>1, <3>3 DEF SettleIfLimited, ReleaseIfLimited, Settle, Release, Typed
      <4> QED
        BY <3>1, <4>1
    <3> QED
      BY <3>2, <3>3
  <2>4. EveryRequestAccounted'
    <3> SUFFICES ASSUME NEW m \in Limited
                 PROVE  sent'[m] = settled'[m] + unsent'[m] + Cardinality(InFlightOn(m)')
      BY DEF EveryRequestAccounted
    <3>1. sent[m] = settled[m] + unsent[m] + Cardinality(InFlightOn(m))
      BY DEF Balanced, EveryRequestAccounted
    <3>2. CASE m = m0
      <4>1. InFlightOn(m)' = InFlightOn(m) \ {t} /\ t \in InFlightOn(m)
        BY <3>2 DEF InFlightOn
      <4>2. Cardinality(InFlightOn(m)') = Cardinality(InFlightOn(m)) - 1
        BY <4>1, InFlightCount, FS_RemoveElement
      <4>3. settled'[m] + unsent'[m] = settled[m] + unsent[m] + 1
        BY <1>2, <3>2, SMTT(60) DEF SettleIfLimited, ReleaseIfLimited, Settle, Release, Typed
      <4> QED
        BY <3>1, <4>2, <4>3, InFlightCount DEF Typed
    <3>3. CASE m # m0
      <4>1. settled'[m] = settled[m] /\ unsent'[m] = unsent[m]
        BY <1>2, <3>3 DEF SettleIfLimited, ReleaseIfLimited, Settle, Release, Typed
      <4> QED
        BY <1>1, <3>1, <3>3, <4>1
    <3> QED
      BY <3>2, <3>3
  <2>5. Exact'
    <3>1. \A m : m = m0 => InFlightOn(m)' = InFlightOn(m) \ {t}
      BY DEF InFlightOn
    <3> QED
      BY <1>1, <1>2, <2>1, <3>1, ExactEnd
  <2> QED
    BY <2>2, <2>3, <2>4, <2>5 DEF Balanced
<1>3. CASE model[t] \notin Limited
  <2>1. UNCHANGED <<ledgerVars, sent>>
    BY <1>3 DEF SettleIfLimited, ReleaseIfLimited
  <2>2. Claimed'
    BY <1>3, <2>1 DEF Claimed, ledgerVars
  <2>3. HardQuota'
    BY <2>1 DEF Balanced, HardQuota, ledgerVars
  <2>4. EveryRequestAccounted'
    BY <1>1, <1>3, <2>1 DEF Balanced, EveryRequestAccounted, ledgerVars
  <2>5. Exact'
    BY <1>1, <1>3, <2>1 DEF Exact, ledgerVars
  <2> QED
    BY <2>2, <2>3, <2>4, <2>5 DEF Balanced
<1> QED
  BY <1>2, <1>3

LEMMA AccountedNext == Accounted /\ [Next]_vars => Accounted'
<1> SUFFICES ASSUME Accounted, [Next]_vars PROVE Accounted'
  OBVIOUS
<1>1. Shaped'
  BY ShapedNext DEF Accounted
<1>2. pc \in [Turns -> PCs] /\ model \in [Turns -> Models] /\ \A t \in Turns : prompt[t] \in Nat
  BY DEF Accounted, Shaped, Typed
<1>3. ASSUME NEW t \in Turns,
             \/ \E p \in Prompts : Call(t, p)
             \/ Exceed(t) \/ RejectUnbounded(t) \/ RefuseClosing(t) \/ Retry(t)
             \/ AskParent(t) \/ GiveUp(t) \/ CancelIdle(t) \/ ParentDeclines(t)
             \/ \E m \in Models : FailoverAuto(t, m) \/ ParentChooses(t, m)
      PROVE  Accounted'
  <2>1. pc[t] # "inFlight" /\ pc'[t] # "inFlight"
    BY <1>2, <1>3 DEF Call, Exceed, RejectUnbounded, RefuseClosing, Retry, AskParent, GiveUp,
          CancelIdle, ParentDeclines, FailoverAuto, ParentChooses, SwapTo, Goto
  <2>2. \A u \in Turns \ {t} : pc'[u] = pc[u] /\ model'[u] = model[u]
    BY <1>2, <1>3 DEF Call, Exceed, RejectUnbounded, RefuseClosing, Retry, AskParent, GiveUp,
          CancelIdle, ParentDeclines, FailoverAuto, ParentChooses, SwapTo, Goto
  <2>3. UNCHANGED <<ledgerVars, sent>>
    BY <1>3 DEF Call, Exceed, RejectUnbounded, RefuseClosing, Retry, AskParent, GiveUp,
          CancelIdle, ParentDeclines, FailoverAuto, ParentChooses
  <2> QED
    BY <1>1, <2>1, <2>2, <2>3, QuietStep
<1>4. ASSUME NEW t \in Turns, NEW actual \in Nat,
             SettleIfLimited(t, actual) \/ ReleaseIfLimited(t),
             pc[t] = "inFlight",
             NEW label \in {"idle", "completed", "incomplete", "cancelled", "backoff", "crashed"},
             Goto(t, label), UNCHANGED <<model, sent>>
      PROVE  Accounted'
  <2>1. pc'[t] # "inFlight" /\ \A u \in Turns \ {t} : pc'[u] = pc[u]
    BY <1>2, <1>4 DEF Goto
  <2> QED
    BY <1>1, <1>4, <2>1, EndStep
<1>5. ASSUME NEW t \in Turns, NEW actual \in Reports, Answer(t, actual) PROVE Accounted'
  <2>1. PICK label \in {"idle", "completed", "incomplete", "crashed"} : Goto(t, label)
    BY <1>5 DEF Answer, AfterSettlement
  <2> QED
    BY <1>4, <1>5, <2>1, BudgetAssumption DEF Answer
<1>6. ASSUME NEW t \in Turns, NEW actual \in Reports \cup {prompt[t]},
             \/ \E transient \in BOOLEAN : Fail(t, actual, transient)
             \/ CancelInFlight(t, actual)
      PROVE  Accounted'
  <2>1. PICK label \in {"backoff", "incomplete", "cancelled", "crashed"} : Goto(t, label)
    BY <1>6 DEF Fail, CancelInFlight, AfterSettlement, AfterFailure
  <2>2. actual \in Nat
    BY <1>2, BudgetAssumption
  <2> QED
    BY <1>4, <1>6, <2>1, <2>2 DEF Fail, CancelInFlight
<1>7. ASSUME NEW t \in Turns, NEW transient \in BOOLEAN, FailUnsent(t, transient) PROVE Accounted'
  <2>1. PICK label \in {"backoff", "incomplete"} : Goto(t, label)
    BY <1>7 DEF FailUnsent, AfterFailure
  <2> QED
    BY <1>4, <1>7, <2>1 DEF FailUnsent
<1>8. ASSUME UNCHANGED <<pc, model, ledgerVars, sent>> PROVE Accounted'
  <2>1. \A m : InFlightOn(m)' = InFlightOn(m)
    BY <1>8 DEF InFlightOn
  <2>2. Balanced'
    BY <1>8, <2>1 DEF Accounted, Balanced, HardQuota, EveryRequestAccounted, ledgerVars
  <2>3. Claimed'
    BY <1>8 DEF Accounted, Claimed, ledgerVars
  <2>4. Exact'
    BY <1>8, <2>1, ExactQuiet DEF Accounted, ledgerVars
  <2> QED
    BY <1>1, <2>2, <2>3, <2>4 DEF Accounted
<1>9. CASE Shutdown
  BY <1>8, <1>9 DEF Shutdown, turnVars
<1>10. CASE UNCHANGED vars
  BY <1>8, <1>10 DEF vars, turnVars
<1>11. ASSUME NEW t \in Turns, Dispatch(t) PROVE Accounted'
  BY <1>1, <1>11, DispatchStep
<1> QED
  BY <1>3, <1>5, <1>6, <1>7, <1>9, <1>10, <1>11 DEF Next, Step, Disturb

-----------------------------------------------------------------------------
(* Theorems. *)

\* The invariant of the whole argument.
THEOREM AccountedInvariant == Spec => []Accounted
<1>1. Init => Accounted
  BY AccountedInit
<1>2. Accounted /\ [Next]_vars => Accounted'
  BY AccountedNext
<1> QED
  BY <1>1, <1>2, PTL DEF Spec

\* TokenBudgetLedger.reserve keeps every quota hard, for any number of
\* concurrent turns and any limits: what is charged and reserved exceeds the
\* limit only by what providers report beyond their reservation.
THEOREM QuotaIsHard == Spec => []HardQuota
<1>1. Accounted => HardQuota
  BY DEF Accounted, Balanced
<1> QED
  BY <1>1, AccountedInvariant, PTL

\* generate_with_retry charges every dispatched request once, or releases it
\* once when the provider says that it was not sent.
THEOREM RequestsAreAccounted == Spec => []EveryRequestAccounted
<1>1. Accounted => EveryRequestAccounted
  BY DEF Accounted, Balanced
<1> QED
  BY <1>1, AccountedInvariant, PTL

\* The variables keep their types; the loops of retries, of rounds and of failovers keep
\* their bounds, and no alias has fewer than no tokens reserved: what
\* TokenBudgetLedger._release_locked gives back had been reserved.
THEOREM TypesAreKept == Spec => []TypeOK
<1>1. Accounted => TypeOK
  <2> SUFFICES ASSUME Accounted PROVE TypeOK
    OBVIOUS
  <2>1. Typed
    BY DEF Accounted, Shaped
  <2>2. ASSUME NEW m \in Limited PROVE reservedBy[m] \in Nat
    <3>1. \A t \in InFlightOn(m) : ledger[t] \in Nat
      BY <2>1 DEF Typed, InFlightOn
    <3>2. Total(ledger, InFlightOn(m)) \in Nat
      BY <3>1, InFlightCount, TotalType
    <3> QED
      BY <3>2 DEF Accounted, Exact
  <2>3. reservedBy \in [Limited -> Nat]
    BY <2>1, <2>2 DEF Typed
  <2> QED
    BY <2>1, <2>3 DEF Typed, TypeOK
<1> QED
  BY <1>1, AccountedInvariant, PTL

\* The ledger is exact for any number of concurrent turns: what is reserved of an alias is
\* the sum of what the requests that are out on it have reserved, and only such a request
\* holds tokens, so no retry, cancellation, failover or shutdown strands a part of a quota.
THEOREM LedgerStaysExact == Spec => []LedgerExact
<1>1. Accounted => LedgerExact
  BY DEF Accounted, Exact, Claimed, LedgerExact, Total
<1> QED
  BY <1>1, AccountedInvariant, PTL

=============================================================================
