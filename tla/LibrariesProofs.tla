-------------------------- MODULE LibrariesProofs --------------------------
(***************************************************************************)
(* Reads of library files, for any AgentTeams, libraries, links and calls. *)
(* A read that is about to return has been allowed since its content was   *)
(* read, because each later part began with a look at the path as it then  *)
(* was: the invariant says at which steps a read is known to have content, *)
(* and at which it is known to have been due since.                        *)
(*                                                                         *)
(* Then the types.  For these the chain of links from a node has to end at *)
(* a node, which is an induction along the chain: that the recursion of    *)
(* Chain has a solution, and that all its hops are nodes, each by looking  *)
(* at the least hop for which it would not be so.                          *)
(***************************************************************************)
EXTENDS Libraries, FiniteSetTheorems, TLAPS

-----------------------------------------------------------------------------
(* Induction over finite sets and numbers, as the existence of least ones. *)

\* Some subset is least among any subsets of a finite set.
LEMMA LeastSubset ==
  ASSUME NEW S, IsFiniteSet(S), NEW F, F \subseteq SUBSET S, F # {}
  PROVE  \E A \in F : \A B \in F : B \subseteq A => B = A
<1>1. IsWellFoundedOn(StrictSubsetOrdering(S), SUBSET S)
  BY FS_StrictSubsetOrderingWellFounded, FS_FiniteSubsetsOfFinite
<1>2. PICK A \in F : \A B \in F : ~ (<<B, A>> \in StrictSubsetOrdering(S))
  BY <1>1, WFMin
<1>3. QED
  BY <1>2 DEF StrictSubsetOrdering

\* Some number is least among any numbers.
LEMMA LeastNat ==
  ASSUME NEW T, T \subseteq Nat, T # {}
  PROVE  \E n \in T : \A m \in T : n <= m
<1>1. PICK t \in T : TRUE
  OBVIOUS
<1>2. DEFINE F == {0..k : k \in {j \in T : j <= t}}
<1>3. PICK S : S = 0..t
  OBVIOUS
<1>4. IsFiniteSet(S) /\ F \subseteq SUBSET S /\ F # {}
  <2>1. IsFiniteSet(0..t)
    BY FS_Interval
  <2>2. F \subseteq SUBSET (0..t) /\ F # {}
    OBVIOUS
  <2> QED
    BY <1>3, <2>1, <2>2
<1>5. PICK A \in F : \A B \in F : B \subseteq A => B = A
  <2> HIDE DEF F
  <2> QED
    BY <1>4, LeastSubset
<1>6. PICK n \in T : n <= t /\ A = 0..n
  OBVIOUS
<1>7. ASSUME NEW m \in T, ~(n <= m) PROVE FALSE
  <2>1. 0..m \in F /\ 0..m \subseteq A /\ 0..m # A
    BY <1>6, <1>7
  <2>q. QED
    BY <1>5, <2>1
<1>8. QED
  BY <1>7

-----------------------------------------------------------------------------
(* Calls. *)

\* The fields of a call.
Shape(r) ==
    r = [kind |-> r.kind, step |-> r.step, by |-> r.by, node |-> r.node,
         to |-> r.to, aim |-> r.aim, ver |-> r.ver, over |-> r.over]

Certain(c) ==
    op[c].kind = "read" =>
        /\ op[c].step \in {"recheck", "rechecking", "final", "settling"} => op[c].ver # 0
        /\ op[c].step \in {"rechecking", "settling"} => c \in seen

Reads ==
    /\ op = [c \in Calls |-> op[c]]
    /\ result = [c \in Calls |-> result[c]]
    /\ \A c \in Calls : Shape(op[c]) /\ Certain(c)

\* What an action of c does to the calls: it gives c a record that is sound.
Sound(c, r) ==
    /\ Shape(r)
    /\ r.kind = "read" =>
        /\ r.step \in {"recheck", "rechecking", "final", "settling"} => r.ver # 0
        /\ r.step \in {"rechecking", "settling"} => InHand(c) /\ (c \in seen \/ MayRead(c))

Kept == op' = op /\ result' = result

Moved(c) ==
    /\ \E r : op' = [op EXCEPT ![c] = r] /\ Sound(c, r)
    /\ result' = result \/ \E v : result' = [result EXCEPT ![c] = v]

\* The start: no call is under way.
LEMMA InitReads == Init => Reads
<1> SUFFICES ASSUME Init PROVE Reads
  OBVIOUS
<1>1. op = [c \in Calls |-> Idle] /\ result = [c \in Calls |-> 0]
  BY DEF Init
<1>2. Shape(Idle) /\ Idle.kind = "idle"
  BY DEF Shape, Idle
<1>q. QED
  BY <1>1, <1>2 DEF Reads, Certain

LEMMA IdleSound == \A c : Sound(c, Idle)
  BY DEF Sound, Shape, Idle

\* What setting one field of a call changes.
LEMMA KindSet ==
  \A r, x, t : Shape(r) /\ t = [r EXCEPT !.kind = x] =>
    Shape(t) /\ t.kind = x /\ t.step = r.step /\ t.ver = r.ver
  BY DEF Shape

LEMMA StepSet ==
  \A r, x, t : Shape(r) /\ t = [r EXCEPT !.step = x] =>
    Shape(t) /\ t.kind = r.kind /\ t.step = x /\ t.ver = r.ver
  BY DEF Shape

LEMMA BySet ==
  \A r, x, t : Shape(r) /\ t = [r EXCEPT !.by = x] =>
    Shape(t) /\ t.kind = r.kind /\ t.step = r.step /\ t.ver = r.ver
  BY DEF Shape

LEMMA NodeSet ==
  \A r, x, t : Shape(r) /\ t = [r EXCEPT !.node = x] =>
    Shape(t) /\ t.kind = r.kind /\ t.step = r.step /\ t.ver = r.ver
  BY DEF Shape

LEMMA ToSet ==
  \A r, x, t : Shape(r) /\ t = [r EXCEPT !.to = x] =>
    Shape(t) /\ t.kind = r.kind /\ t.step = r.step /\ t.ver = r.ver
  BY DEF Shape

LEMMA AimSet ==
  \A r, x, t : Shape(r) /\ t = [r EXCEPT !.aim = x] =>
    Shape(t) /\ t.kind = r.kind /\ t.step = r.step /\ t.ver = r.ver
  BY DEF Shape

LEMMA VerSet ==
  \A r, x, t : Shape(r) /\ t = [r EXCEPT !.ver = x] =>
    Shape(t) /\ t.kind = r.kind /\ t.step = r.step /\ t.ver = x
  BY DEF Shape

LEMMA OverSet ==
  \A r, x, t : Shape(r) /\ t = [r EXCEPT !.over = x] =>
    Shape(t) /\ t.kind = r.kind /\ t.step = r.step /\ t.ver = r.ver
  BY DEF Shape

\* A call that begins is not yet a read with content.
LEMMA BegunSound ==
  ASSUME NEW c, NEW kind, NEW step, NEW by, NEW n, kind # "read" \/ step = "source"
  PROVE  /\ Sound(c, Begun(kind, step, by, n))
         /\ \A x : /\ Sound(c, [Begun(kind, step, by, n) EXCEPT !.aim = x])
                   /\ Sound(c, [Begun(kind, step, by, n) EXCEPT !.to = x])
         /\ \A x, y : Sound(c, [Begun(kind, step, by, n) EXCEPT !.to = x, !.over = y])
<1>1. PICK r1 : r1 = [Idle EXCEPT !.kind = kind]
  OBVIOUS
<1>2. PICK r2 : r2 = [r1 EXCEPT !.step = step]
  OBVIOUS
<1>3. PICK r3 : r3 = [r2 EXCEPT !.by = by]
  OBVIOUS
<1>4. PICK r : r = [r3 EXCEPT !.node = n]
  OBVIOUS
<1>5. Begun(kind, step, by, n) = r
  BY <1>1, <1>2, <1>3, <1>4, Zenon DEF Begun
<1>6. Shape(Idle)
  BY DEF Idle, Shape
<1>7. Shape(r) /\ r.kind = kind /\ r.step = step
  <2>1. Shape(r1) /\ r1.kind = kind
    BY <1>1, <1>6, KindSet, SMTT(60)
  <2>2. Shape(r2) /\ r2.kind = kind /\ r2.step = step
    BY <1>2, <2>1, StepSet
  <2>3. Shape(r3) /\ r3.kind = kind /\ r3.step = step
    BY <1>3, <2>2, BySet
  <2>q. QED
    BY <1>4, <2>3, NodeSet
<1>8. ASSUME NEW t, Shape(t), t.kind = kind, t.step = step PROVE Sound(c, t)
  BY <1>8 DEF Sound
<1>9. ASSUME NEW x
      PROVE  Sound(c, [r EXCEPT !.aim = x]) /\ Sound(c, [r EXCEPT !.to = x])
  <2>1. PICK t, u : t = [r EXCEPT !.aim = x] /\ u = [r EXCEPT !.to = x]
    OBVIOUS
  <2>2. Shape(t) /\ t.kind = kind /\ t.step = step
    BY <1>7, <2>1, AimSet
  <2>3. Shape(u) /\ u.kind = kind /\ u.step = step
    BY <1>7, <2>1, ToSet
  <2>q. QED
    BY <1>8, <2>1, <2>2, <2>3
<1>10. ASSUME NEW x, NEW y PROVE Sound(c, [r EXCEPT !.to = x, !.over = y])
  <2>1. PICK t : t = [r EXCEPT !.to = x]
    OBVIOUS
  <2>2. PICK u : u = [t EXCEPT !.over = y]
    OBVIOUS
  <2>3. Shape(t) /\ t.kind = kind /\ t.step = step
    BY <1>7, <2>1, ToSet
  <2>4. Shape(u) /\ u.kind = kind /\ u.step = step
    BY <2>2, <2>3, OverSet
  <2>5. u = [r EXCEPT !.to = x, !.over = y]
    BY <2>1, <2>2, Zenon
  <2>q. QED
    BY <1>8, <2>4, <2>5
<1>q. QED
  BY <1>5, <1>7, <1>8, <1>9, <1>10, Zenon

\* Beginning a call gives it a record that is sound.
LEMMA BeginSound ==
  ASSUME Reads, NEW c \in Calls, NEW by \in Callers, Start(c, by)
  PROVE  Moved(c)
<1>1. ASSUME NEW n \in Nodes, ReadBegin(c, by, n) PROVE Moved(c)
  <2>1. Sound(c, [Begun("read", "source", by, n) EXCEPT !.aim = Reached(by, n, "READ")])
    BY BegunSound
  <2>q. QED
    BY <1>1, <2>1 DEF ReadBegin, Become, Moved
<1>2. ASSUME NEW n \in Nodes, WriteBegin(c, by, n) PROVE Moved(c)
  <2>1. Sound(c, [Begun("write", "first", by, n) EXCEPT !.to = Reached(by, n, "WRITE")])
    BY BegunSound
  <2>q. QED
    BY <1>2, <2>1 DEF WriteBegin, Become, Moved
<1>3. ASSUME NEW n \in Nodes, DeleteBegin(c, by, n) PROVE Moved(c)
  <2>1. Sound(c, Begun("delete", "first", by, n))
    BY BegunSound
  <2>q. QED
    BY <1>3, <2>1 DEF DeleteBegin, Become, Moved
<1>4. ASSUME NEW n \in Nodes, NEW t \in Nodes, LinkBegin(c, by, n, t) PROVE Moved(c)
  <2>1. Sound(c, [Begun("link", "first", by, n) EXCEPT !.to = t])
    BY BegunSound
  <2>q. QED
    BY <1>4, <2>1 DEF LinkBegin, Become, Moved
<1>5. ASSUME NEW n \in Nodes, NEW t \in Nodes, NEW over \in BOOLEAN, MoveBegin(c, by, n, t, over)
      PROVE  Moved(c)
  <2>1. Sound(c, [Begun("move", "first", by, n) EXCEPT !.to = t, !.over = over])
    BY BegunSound
  <2>q. QED
    BY <1>5, <2>1 DEF MoveBegin, Become, Moved
<1>6. ASSUME NEW n \in Nodes, NEW t \in Nodes, NEW over \in BOOLEAN, PublishBegin(c, by, n, t, over)
      PROVE  Moved(c)
  <2>1. Sound(c, [Begun("publish", "first", by, n) EXCEPT !.to = t, !.over = over])
    BY BegunSound
  <2>q. QED
    BY <1>6, <2>1 DEF PublishBegin, Become, Moved
<1>q. QED
  BY <1>1, <1>2, <1>3, <1>4, <1>5, <1>6 DEF Start

\* A call that writes, links, deletes, moves or publishes never becomes a read.
LEMMA OtherSound ==
  ASSUME Reads, NEW c \in Calls,
         \/ LinkProbe(c) \/ LinkResolve(c) \/ LinkCheck(c) \/ LinkPublish(c)
         \/ WriteDo(c) \/ DeleteDo(c) \/ MoveDo(c) \/ PublishDo(c)
  PROVE  Moved(c)
<1>1. Shape(op[c])
  BY DEF Reads
<1> USE IdleSound DEF Become, At, Continue, Return, OnlyIf, Moved
<1>2. ASSUME NEW step, op[c].kind = "link" PROVE Sound(c, [op[c] EXCEPT !.step = step])
  BY <1>1, <1>2 DEF Sound, Shape
<1>3. CASE LinkProbe(c)
  BY <1>2, <1>3 DEF LinkProbe
<1>4. CASE LinkResolve(c)
  <2>1. ASSUME NEW aim, op[c].kind = "link"
        PROVE  Sound(c, [op[c] EXCEPT !.aim = aim, !.step = "check"])
    <3>1. PICK t : t = [op[c] EXCEPT !.aim = aim]
      OBVIOUS
    <3>2. PICK u : u = [t EXCEPT !.step = "check"]
      OBVIOUS
    <3>3. Shape(t) /\ t.kind = "link"
      BY <1>1, <2>1, <3>1, AimSet
    <3>4. Shape(u) /\ u.kind = "link"
      BY <3>2, <3>3, StepSet
    <3>5. u = [op[c] EXCEPT !.aim = aim, !.step = "check"]
      BY <3>1, <3>2, Zenon
    <3>q. QED
      BY <3>4, <3>5 DEF Sound
  <2>q. QED
    BY <1>4, <2>1 DEF LinkResolve
<1>5. CASE LinkCheck(c)
  BY <1>2, <1>5 DEF LinkCheck
<1>6. CASE LinkPublish(c)
  BY <1>6 DEF LinkPublish
<1>7. CASE WriteDo(c)
  BY <1>7 DEF WriteDo, Store, Raise, state
<1>8. CASE DeleteDo(c)
  BY <1>8 DEF DeleteDo, Store, Raise, state
<1>9. CASE MoveDo(c)
  BY <1>9 DEF MoveDo, Store, Raise, state
<1>10. CASE PublishDo(c)
  BY <1>10 DEF PublishDo, Store, Raise, state
<1>q. QED
  BY <1>3, <1>4, <1>5, <1>6, <1>7, <1>8, <1>9, <1>10

\* A part of a read: the path is looked at before the thread is, and a thread
\* that finds content has a version.
LEMMA ReadSound ==
  ASSUME Reads, NEW c \in Calls,
         ReadReach(c) \/ ReadSource(c) \/ ReadRecheck(c) \/ ReadReturn(c)
  PROVE  Moved(c)
<1>1. Shape(op[c]) /\ Certain(c)
  BY DEF Reads
<1> USE IdleSound DEF Become, At, Continue, Return, Refuse, Moved
<1>2. CASE ReadReach(c)
  <2>1. ASSUME MayRead(c) PROVE Sound(c, [op[c] EXCEPT !.step = OnThread[op[c].step]])
    BY <1>1, <1>2, <2>1, SMTT(60) DEF ReadReach, OnThread, Sound, Shape, Certain, InHand
  <2>q. QED
    BY <1>2, <2>1 DEF ReadReach
<1>3. CASE ReadSource(c)
  <2>1. ASSUME NEW f, f # 0, NEW step \in {"source", "recheck"}
        PROVE  Sound(c, [op[c] EXCEPT !.ver = f, !.step = step])
    <3>1. PICK t : t = [op[c] EXCEPT !.ver = f]
      OBVIOUS
    <3>2. PICK u : u = [t EXCEPT !.step = step]
      OBVIOUS
    <3>3. Shape(t) /\ t.ver = f
      BY <1>1, <3>1, VerSet
    <3>4. Shape(u) /\ u.ver = f /\ u.step = step
      BY <3>2, <3>3, StepSet
    <3>5. u = [op[c] EXCEPT !.ver = f, !.step = step]
      BY <3>1, <3>2, Zenon
    <3>q. QED
      BY <2>1, <3>4, <3>5 DEF Sound
  <2>q. QED
    BY <1>3, <2>1 DEF ReadSource
<1>4. CASE ReadRecheck(c)
  <2>1. Sound(c, [op[c] EXCEPT !.step = "final"])
    BY <1>1, <1>4 DEF ReadRecheck, Sound, Shape, Certain
  <2>q. QED
    BY <1>4, <2>1 DEF ReadRecheck
<1>5. CASE ReadReturn(c)
  BY <1>5 DEF ReadReturn
<1>q. QED
  BY <1>2, <1>3, <1>4, <1>5

\* Every step keeps the calls, or moves one of them.
LEMMA StepMoves ==
  ASSUME Reads, Next
  PROVE  Kept \/ \E c \in Calls : Moved(c)
<1>1. ASSUME NEW c \in Calls, Call(c) PROVE Moved(c)
  BY <1>1, OtherSound, ReadSound DEF Call
<1>2. ASSUME NEW c \in Calls, NEW by \in Callers, Start(c, by) PROVE Moved(c)
  BY <1>2, BeginSound
<1>3. ASSUME NEW by \in Callers, AtOnce(by) PROVE Kept
  BY <1>3 DEF AtOnce, Leave, DeleteLink, Grant, Revoke, Kept
<1>4. Dissolve \/ DissolveFails \/ DissolveCommitted => Kept
  BY DEF Dissolve, DissolveFails, DissolveCommitted, Kept
<1>q. QED
  BY <1>1, <1>2, <1>3, <1>4 DEF Next

\* A call that does not move stays due: it has content as before.
LEMMA StaysCertain ==
  ASSUME Reads, Watch, NEW c \in Calls, op'[c] = op[c]
  PROVE  Shape(op[c])' /\ Certain(c)'
<1>1. Shape(op[c]) /\ Certain(c)
  BY DEF Reads
<1>2. InHand(c) /\ c \in seen => c \in seen'
  BY DEF Watch, InHand
<1>q. QED
  BY <1>1, <1>2 DEF Shape, Certain, InHand

\* The invariant is kept by every step.
LEMMA NextReads == Reads /\ [Next]_vars => Reads'
<1>1. CASE UNCHANGED vars
  BY <1>1 DEF vars, state, Reads, Shape, Certain
<1>2. ASSUME Reads, Next PROVE Reads'
  <2>1. Watch
    BY <1>2 DEF Next
  <2>2. CASE Kept
    BY <1>2, <2>1, <2>2, StaysCertain DEF Reads, Kept
  <2>3. ASSUME NEW c \in Calls, Moved(c) PROVE Reads'
    <3>1. PICK r : op' = [op EXCEPT ![c] = r] /\ Sound(c, r)
      BY <2>3 DEF Moved
    <3>2. op'[c] = r /\ \A d \in Calls \ {c} : op'[d] = op[d]
      BY <1>2, <3>1 DEF Reads
    <3>3. op' = [d \in Calls |-> op'[d]]
      BY <1>2, <3>1 DEF Reads
    <3>4. result' = [d \in Calls |-> result'[d]]
      BY <1>2, <2>3 DEF Reads, Moved
    <3>5. Shape(op[c])'
      BY <3>1, <3>2 DEF Sound, Shape
    <3>6. Certain(c)'
      BY <2>1, <3>1, <3>2 DEF Sound, Certain, Watch, InHand
    <3>7. ASSUME NEW d \in Calls \ {c} PROVE Shape(op[d])' /\ Certain(d)'
      BY <1>2, <2>1, <3>2, StaysCertain
    <3>q. QED
      BY <3>3, <3>4, <3>5, <3>6, <3>7 DEF Reads
  <2>q. QED
    BY <1>2, <2>2, <2>3, StepMoves
<1>q. QED
  BY <1>1, <1>2

\* Only ReadReturn returns content.
LEMMA OnlyReadReturn ==
  ASSUME Reads, Next, NEW c \in Calls, Returns(c)
  PROVE  ReadReturn(c) /\ op[c].step = "settling" /\ result'[c] = op[c].ver
<1>1. op[c] # Idle /\ op'[c] # op[c]
  BY DEF Returns, Idle
<1>2. ASSUME NEW d \in Calls, d # c, Moved(d) PROVE FALSE
  BY <1>1, <1>2 DEF Moved, Reads
<1>3. ~Kept
  BY <1>1 DEF Kept
<1>4. Call(c)
  <2>1. ASSUME NEW d \in Calls, Call(d) PROVE d = c
    BY <2>1, <1>2, OtherSound, ReadSound DEF Call
  <2>2. ASSUME NEW d \in Calls, NEW by \in Callers, Start(d, by) PROVE FALSE
    <3>1. d = c
      BY <2>2, <1>2, BeginSound, SMTT(60)
    <3>2. op[d] = Idle
      BY <2>2, ZenonT(60) DEF Start, ReadBegin, WriteBegin, DeleteBegin, LinkBegin, MoveBegin, PublishBegin, Free
    <3>q. QED
      BY <3>1, <3>2, <1>1
  <2>3. ASSUME NEW by \in Callers, AtOnce(by) PROVE FALSE
    BY <2>3, <1>3 DEF AtOnce, Leave, DeleteLink, Grant, Revoke, Kept
  <2>4. ~(Dissolve \/ DissolveFails \/ DissolveCommitted)
    BY <1>3 DEF Dissolve, DissolveFails, DissolveCommitted, Kept
  <2>q. QED
    BY <2>1, <2>2, <2>3, <2>4 DEF Next
<1>5. op[c].kind = "read" /\ op'[c] = Idle /\ result'[c] # 0
  BY DEF Returns
<1>6. ~(LinkProbe(c) \/ LinkResolve(c) \/ LinkCheck(c) \/ LinkPublish(c)
        \/ WriteDo(c) \/ DeleteDo(c) \/ MoveDo(c) \/ PublishDo(c))
  BY <1>5 DEF LinkProbe, LinkResolve, LinkCheck, LinkPublish, WriteDo, DeleteDo, MoveDo, PublishDo, At
<1>7. ~Refuse(c)
  BY <1>5 DEF Refuse, Reads
<1>8. Shape(op[c])
  BY DEF Reads
<1>9. \A r : op' = [op EXCEPT ![c] = r] => r.kind = "idle"
  BY <1>5 DEF Reads, Idle
<1>10. ~ReadReach(c)
  <2>1. [op[c] EXCEPT !.step = OnThread[op[c].step]].kind = "read"
    BY <1>5, <1>8 DEF Shape
  <2>q. QED
    BY <1>7, <1>9, <2>1 DEF ReadReach, Continue, Become
<1>11. ~ReadSource(c)
  <2>1. ASSUME NEW f, NEW step PROVE [op[c] EXCEPT !.ver = f, !.step = step].kind = "read"
    <3>1. PICK t : t = [op[c] EXCEPT !.ver = f]
      OBVIOUS
    <3>2. PICK u : u = [t EXCEPT !.step = step]
      OBVIOUS
    <3>3. Shape(t) /\ t.kind = "read"
      BY <1>5, <1>8, <3>1, VerSet
    <3>4. u.kind = "read"
      BY <3>2, <3>3, StepSet
    <3>q. QED
      BY <3>1, <3>2, <3>4, Zenon
  <2>q. QED
    <3> SUFFICES ASSUME ReadSource(c) PROVE FALSE
      OBVIOUS
    <3>1. PICK f, step : op' = [op EXCEPT ![c] = [op[c] EXCEPT !.ver = f, !.step = step]]
      BY <1>7, Zenon DEF ReadSource, Become
    <3>2. PICK u : u = [op[c] EXCEPT !.ver = f, !.step = step]
      OBVIOUS
    <3>3. u.kind = "read"
      BY <2>1, <3>2, Zenon
    <3>4. op' = [op EXCEPT ![c] = u]
      BY <3>1, <3>2, Zenon
    <3>q. QED
      BY <1>9, <3>3, <3>4
<1>12. ~ReadRecheck(c)
  <2>1. [op[c] EXCEPT !.step = "final"].kind = "read"
    BY <1>5, <1>8 DEF Shape
  <2>q. QED
    BY <1>7, <1>9, <2>1 DEF ReadRecheck, Continue, Become
<1>13. ReadReturn(c)
  BY <1>4, <1>6, <1>10, <1>11, <1>12 DEF Call
<1>q. QED
  BY <1>7, <1>13 DEF ReadReturn, At, Reads

\* A read that returns content has been due since its content was read, and
\* the file still is what it returns: read_library_file and read_private_file,
\* whatever else happens to links, permissions, members and files.
THEOREM ReadsAreDue == Spec => ReadsStillDue
<1>1. Spec => []Reads
  BY InitReads, NextReads, PTL DEF Spec
<1>2. Reads /\ [Next]_vars =>
        [\A c \in Calls : Returns(c) => c \in seen /\ Found(op[c].aim) = result'[c]]_vars
  <2> SUFFICES ASSUME Reads, Next, NEW c \in Calls, Returns(c)
               PROVE  c \in seen /\ Found(op[c].aim) = result'[c]
    OBVIOUS
  <2>2. ReadReturn(c) /\ op[c].step = "settling" /\ result'[c] = op[c].ver
    BY OnlyReadReturn
  <2>3. op[c].kind = "read"
    BY DEF Returns
  <2>4. c \in seen
    BY <2>2, <2>3 DEF Reads, Certain
  <2>5. Found(op[c].aim) = op[c].ver
    BY <2>2 DEF ReadReturn, Refuse, Returns, Reads
  <2>q. QED
    BY <2>2, <2>4, <2>5
<1>q. QED
  BY <1>1, <1>2, PTL DEF Spec, ReadsStillDue

-----------------------------------------------------------------------------
(* Chains of links. *)

\* h follows the links of k from n for j hops.
Follows(k, n, j, h) ==
    h = [i \in 0..j |-> IF i = 0 THEN n
                        ELSE IF k[h[i - 1]] = NoNode THEN h[i - 1] ELSE k[h[i - 1]]]

\* A chain of any length exists.
LEMMA FollowsExists ==
  ASSUME NEW k, NEW n, NEW j \in Nat
  PROVE  \E h : Follows(k, n, j, h)
<1>1. DEFINE T == {i \in Nat : ~ \E h : Follows(k, n, i, h)}
<1>2. SUFFICES ASSUME T # {} PROVE FALSE
  OBVIOUS
<1>3. PICK i \in T : \A m \in T : i <= m
  <2>1. T \subseteq Nat
    OBVIOUS
  <2> HIDE DEF T
  <2> QED
    BY <1>2, <2>1, LeastNat
<1>4. i \in Nat /\ ~ \E h : Follows(k, n, i, h)
  OBVIOUS
<1>5. CASE i = 0
  <2>1. Follows(k, n, 0, [x \in 0..0 |-> n])
    BY DEF Follows
  <2> QED
    BY <1>4, <1>5, <2>1
<1>6. CASE i # 0
  <2>1. i - 1 \in Nat /\ i - 1 \notin T
    BY <1>3, <1>4, <1>6
  <2>2. PICK h : Follows(k, n, i - 1, h)
    BY <2>1
  <2>3. PICK x : x = IF k[h[i - 1]] = NoNode THEN h[i - 1] ELSE k[h[i - 1]]
    OBVIOUS
  <2>4. PICK g : g = [y \in 0..i |-> IF y = i THEN x ELSE h[y]]
    OBVIOUS
  <2>5. \A y \in 0..i : g[y] = IF y = 0 THEN n
                               ELSE IF k[g[y - 1]] = NoNode THEN g[y - 1] ELSE k[g[y - 1]]
    <3> TAKE y \in 0..i
    <3>1. CASE y = i
      <4>1. g[y] = x /\ g[y - 1] = h[i - 1]
        BY <1>4, <1>6, <2>4, <3>1
      <4> QED
        BY <1>6, <2>3, <3>1, <4>1
    <3>2. CASE y # i /\ y # 0
      <4>1. y \in 0..(i - 1) /\ y - 1 \in 0..(i - 1) /\ y \in 0..i /\ y - 1 \in 0..i /\ y - 1 # i
        BY <1>4, <3>2
      <4>2. h[y] = IF k[h[y - 1]] = NoNode THEN h[y - 1] ELSE k[h[y - 1]]
        BY <2>2, <3>2, <4>1 DEF Follows
      <4>3. g[y] = h[y] /\ g[y - 1] = h[y - 1]
        BY <2>4, <3>2, <4>1
      <4> QED
        BY <3>2, <4>2, <4>3
    <3>3. CASE y # i /\ y = 0
      <4>1. 0 \in 0..(i - 1) /\ 0 \in 0..i
        BY <1>4, <1>6
      <4>2. h[0] = n
        BY <2>2, <4>1 DEF Follows
      <4> QED
        BY <2>4, <3>3, <4>1, <4>2
    <3> QED
      BY <3>1, <3>2, <3>3
  <2>6. g = [y \in 0..i |-> g[y]]
    BY <2>4
  <2>7. Follows(k, n, i, g)
    BY <2>5, <2>6 DEF Follows
  <2> QED
    BY <1>4, <2>7
<1> QED
  BY <1>5, <1>6

\* Links between nodes lead to nodes.
LEMMA HopsTyped ==
  ASSUME NEW k \in [Nodes -> Nodes \cup {NoNode}], NEW n \in Nodes, NEW j \in Nat,
         NEW h, Follows(k, n, j, h)
  PROVE  \A i \in 0..j : h[i] \in Nodes
<1>h. /\ h[0] = n
      /\ \A x \in 1..j : h[x] = IF k[h[x - 1]] = NoNode THEN h[x - 1] ELSE k[h[x - 1]]
  <2>1. 0 \in 0..j /\ \A i \in 1..j : i \in 0..j /\ i # 0
    OBVIOUS
  <2> QED
    BY <2>1 DEF Follows
<1>1. DEFINE T == {i \in 0..j : h[i] \notin Nodes}
<1>2. SUFFICES ASSUME T # {} PROVE FALSE
  OBVIOUS
<1>3. PICK i \in T : \A m \in T : i <= m
  <2>1. T \subseteq Nat
    OBVIOUS
  <2> HIDE DEF T
  <2> QED
    BY <1>2, <2>1, LeastNat
<1>4. i \in 0..j /\ h[i] \notin Nodes
  OBVIOUS
<1>5. i # 0
  <2> HIDE DEF T
  <2> QED
    BY <1>4, <1>h
<1>6. i - 1 \in 0..j /\ h[i - 1] \in Nodes
  BY <1>3, <1>4, <1>5
<1>7. h[i] = IF k[h[i - 1]] = NoNode THEN h[i - 1] ELSE k[h[i - 1]]
  <2> HIDE DEF T
  <2> QED
    BY <1>4, <1>5, <1>h
<1> QED
  BY <1>4, <1>6, <1>7

LEMMA NodeCount == Cardinality(Nodes) \in Nat
BY LibrariesAssumption, FS_CardinalityType

LEMMA ChainFollows == \A n : Follows(links, n, Cardinality(Nodes), Chain(n))
<1> SUFFICES ASSUME NEW n PROVE Follows(links, n, Cardinality(Nodes), Chain(n))
  OBVIOUS
<1>1. Chain(n) = CHOOSE h : Follows(links, n, Cardinality(Nodes), h)
  BY DEF Chain, Followed, Follows
<1>2. \E h : Follows(links, n, Cardinality(Nodes), h)
  BY NodeCount, FollowsExists
<1> QED
  BY <1>1, <1>2

LEMMA EndTyped ==
  ASSUME links \in [Nodes -> Nodes \cup {NoNode}], NEW n \in Nodes
  PROVE  End(n) \in Nodes /\ Passed(n) \subseteq Nodes
<1>1. \A i \in 0..Cardinality(Nodes) : Chain(n)[i] \in Nodes
  BY ChainFollows, NodeCount, HopsTyped
<1>2. Cardinality(Nodes) \in 0..Cardinality(Nodes)
  BY NodeCount
<1> QED
  BY <1>1, <1>2 DEF End, Passed

LEMMA ReachedTyped ==
  ASSUME links \in [Nodes -> Nodes \cup {NoNode}], NEW n \in Nodes, NEW by, NEW need
  PROVE  /\ Resolve(by.team, n, need) \in Nodes \cup {NoNode}
         /\ Reached(by, n, need) \in Nodes \cup {NoNode}
BY EndTyped DEF Resolve, Reached

-----------------------------------------------------------------------------
(* The types. *)

Steps == {"none", "first", "resolve", "check", "publish", "source", "reading", "recheck",
          "rechecking", "final", "settling"}

\* A read knows the file that its path leads to, and a link where it shall lead.
Aimed(r) == (r.kind = "read" => r.aim \in Nodes) /\ (r.kind = "link" => r.to \in Nodes)

Calling(r) == r \in CallRecords /\ Aimed(r)

Typed == TypeOK /\ \A c \in Calls : Aimed(op[c])

LEMMA CallFields ==
  ASSUME NEW r \in CallRecords
  PROVE  /\ r.kind \in Kinds /\ r.step \in Steps /\ r.by \in Callers
         /\ r.node \in Nodes \cup {NoNode} /\ r.to \in Nodes \cup {NoNode}
         /\ r.aim \in Nodes \cup {NoNode} /\ r.ver \in Nat /\ r.over \in BOOLEAN
BY DEF CallRecords, Steps

\* Setting one field.
LEMMA StepTyped ==
  ASSUME NEW r, Calling(r), NEW x \in Steps
  PROVE  Calling([r EXCEPT !.step = x])
BY DEF Calling, Aimed, CallRecords, Steps

LEMMA ToTyped ==
  ASSUME NEW r, Calling(r), NEW x \in Nodes
  PROVE  Calling([r EXCEPT !.to = x])
BY DEF Calling, Aimed, CallRecords

LEMMA AimTyped ==
  ASSUME NEW r, Calling(r), NEW x \in Nodes
  PROVE  Calling([r EXCEPT !.aim = x])
BY DEF Calling, Aimed, CallRecords

LEMMA VerTyped ==
  ASSUME NEW r, Calling(r), NEW x \in Nat
  PROVE  Calling([r EXCEPT !.ver = x])
BY DEF Calling, Aimed, CallRecords

LEMMA OverTyped ==
  ASSUME NEW r, Calling(r), NEW x \in BOOLEAN
  PROVE  Calling([r EXCEPT !.over = x])
BY DEF Calling, Aimed, CallRecords

LEMMA IdleTyped == Calling(Idle)
BY LibrariesAssumption DEF Calling, Aimed, Idle, CallRecords, Kinds

LEMMA BegunTyped ==
  ASSUME NEW kind \in Kinds, NEW step \in Steps, NEW by \in Callers, NEW n \in Nodes
  PROVE  /\ Begun(kind, step, by, n) \in CallRecords
         /\ Begun(kind, step, by, n).kind = kind
BY LibrariesAssumption DEF Begun, Idle, CallRecords, Kinds, Steps

\* What an action of a call does: the call gets a record that is one.
Became(c) == \E r : Calling(r) /\ op' = [op EXCEPT ![c] = r]

\* The types of what is not a call nor the history of one.
Grantable == [team : Teams, scope : Scopes, permission : Permissions]
Single(given) == \A g, h \in given : g.team = h.team /\ g.scope = h.scope => g = h

WorldTyped ==
    /\ teams \subseteq Teams /\ libs \subseteq Libs
    /\ file \in [Nodes -> Nat]
    /\ links \in [Nodes -> Nodes \cup {NoNode}]
    /\ grants \subseteq Grantable /\ Single(grants)
    /\ away \in BOOLEAN /\ outside \subseteq Callers
    /\ result \in [Calls -> Nat] /\ clock \in Nat

LEMMA TypedParts ==
  ASSUME Typed
  PROVE  /\ WorldTyped /\ op \in [Calls -> CallRecords]
         /\ \A c \in Calls : Calling(op[c])
         /\ limit \in {s.bounds : s \in Starts} /\ limit.grantable \subseteq Grantable
<1>1. WorldTyped /\ op \in [Calls -> CallRecords] /\ limit \in {s.bounds : s \in Starts}
  BY DEF Typed, TypeOK, WorldTyped, Grantable, Single
<1>2. \A c \in Calls : Calling(op[c])
  BY <1>1 DEF Typed, Calling
<1>3. limit.grantable \subseteq Grantable
  BY <1>1, LibrariesAssumption DEF Grantable
<1> QED
  BY <1>1, <1>2, <1>3

LEMMA TypedInit == Init => Typed
<1> SUFFICES ASSUME Init PROVE Typed
  OBVIOUS
<1>1. PICK s \in Starts : file = s.file /\ links = s.links /\ grants = s.grants /\ limit = s.bounds
  BY DEF Init
<1>2. op \in [Calls -> CallRecords] /\ \A c \in Calls : Aimed(op[c])
  BY IdleTyped DEF Init, Calling
<1>3. /\ file \in [Nodes -> Nat] /\ links \in [Nodes -> Nodes \cup {NoNode}]
      /\ grants \subseteq [team : Teams, scope : Scopes, permission : Permissions]
      /\ \A g, h \in grants : g.team = h.team /\ g.scope = h.scope => g = h
  BY <1>1, LibrariesAssumption
<1>4. /\ teams \subseteq Teams /\ libs \subseteq Libs /\ away \in BOOLEAN /\ outside \subseteq Callers
      /\ result \in [Calls -> Nat] /\ clock \in Nat /\ seen \subseteq Calls /\ raced \subseteq Calls
  BY DEF Init
<1> QED
  BY <1>1, <1>2, <1>3, <1>4 DEF Typed, TypeOK

LEMMA TypedMoves ==
  ASSUME Typed, Watch, WorldTyped', op' = op \/ \E c \in Calls : Became(c)
  PROVE  Typed'
<1>1. op' \in [Calls -> CallRecords] /\ \A c \in Calls : Aimed(op'[c])
  <2>1. CASE op' = op
    BY <2>1, TypedParts DEF Calling
  <2>2. ASSUME NEW c \in Calls, NEW r, Calling(r), op' = [op EXCEPT ![c] = r]
        PROVE  op' \in [Calls -> CallRecords] /\ \A d \in Calls : Aimed(op'[d])
    BY <2>2, TypedParts DEF Calling
  <2> QED
    BY <2>1, <2>2 DEF Became
<1>2. seen' \subseteq Calls /\ raced' \subseteq Calls /\ limit' \in {s.bounds : s \in Starts}
  BY TypedParts DEF Watch
<1> QED
  BY <1>1, <1>2 DEF Typed, TypeOK, WorldTyped, Grantable, Single, Aimed

\* A call begins.
LEMMA BeginTyped ==
  ASSUME Typed, NEW c \in Calls, NEW by \in Callers, Start(c, by)
  PROVE  Became(c) /\ WorldTyped'
<1>0. WorldTyped /\ links \in [Nodes -> Nodes \cup {NoNode}]
  BY TypedParts DEF WorldTyped
<1>a. ASSUME UNCHANGED <<state, outside, result, clock>> PROVE WorldTyped'
  BY <1>0, <1>a DEF WorldTyped, Single, state
<1>1. ASSUME NEW n \in Nodes, ReadBegin(c, by, n) PROVE Became(c) /\ WorldTyped'
  <2>1. Reached(by, n, "READ") \in Nodes
    BY <1>0, <1>1, ReachedTyped DEF ReadBegin
  <2>2. PICK q : q = Begun("read", "source", by, n)
    OBVIOUS
  <2>3. q \in CallRecords /\ q.kind = "read"
    BY <2>2, BegunTyped DEF Kinds, Steps
  <2>4. Calling([q EXCEPT !.aim = Reached(by, n, "READ")])
    BY <2>1, <2>3 DEF Calling, Aimed, CallRecords
  <2>5. op' = [op EXCEPT ![c] = [q EXCEPT !.aim = Reached(by, n, "READ")]]
    BY <1>1, <2>2 DEF ReadBegin, Become
  <2>6. WorldTyped'
    BY <1>0, <1>1 DEF ReadBegin, WorldTyped, Single, state
  <2> QED
    BY <2>4, <2>5, <2>6 DEF Became
<1>2. ASSUME NEW kind \in Kinds \ {"read", "link"}, NEW step \in Steps, NEW n \in Nodes
      PROVE  Calling(Begun(kind, step, by, n))
  BY <1>2, BegunTyped DEF Calling, Aimed
<1>3. {"write", "delete", "move", "publish"} \subseteq Kinds \ {"read", "link"} /\ "first" \in Steps
  BY DEF Kinds, Steps
<1>4. ASSUME NEW n \in Nodes, WriteBegin(c, by, n) PROVE Became(c) /\ WorldTyped'
  <2>1. Reached(by, n, "WRITE") \in Nodes
    BY <1>0, <1>4, ReachedTyped DEF WriteBegin
  <2>2. PICK q : q = Begun("write", "first", by, n)
    OBVIOUS
  <2>3. Calling([q EXCEPT !.to = Reached(by, n, "WRITE")])
    BY <1>2, <1>3, <2>1, <2>2, ToTyped
  <2>4. op' = [op EXCEPT ![c] = [q EXCEPT !.to = Reached(by, n, "WRITE")]]
    BY <1>4, <2>2 DEF WriteBegin, Become
  <2> QED
    BY <1>4, <1>a, <2>3, <2>4 DEF Became, WriteBegin
<1>5. ASSUME NEW n \in Nodes, DeleteBegin(c, by, n) PROVE Became(c) /\ WorldTyped'
  <2>1. Calling(Begun("delete", "first", by, n))
    BY <1>2, <1>3
  <2> QED
    BY <1>5, <1>a, <2>1 DEF DeleteBegin, Become, Became
<1>6. ASSUME NEW n \in Nodes, NEW m \in Nodes, LinkBegin(c, by, n, m) PROVE Became(c) /\ WorldTyped'
  <2>1. PICK q : q = Begun("link", "first", by, n)
    OBVIOUS
  <2>4. q \in CallRecords /\ q.kind = "link"
    BY <2>1, BegunTyped DEF Kinds, Steps
  <2>2. Calling([q EXCEPT !.to = m])
    BY <2>4 DEF Calling, Aimed, CallRecords
  <2>3. op' = [op EXCEPT ![c] = [q EXCEPT !.to = m]]
    BY <1>6, <2>1 DEF LinkBegin, Become
  <2> QED
    BY <1>6, <1>a, <2>2, <2>3 DEF Became, LinkBegin
<1>7. ASSUME NEW n \in Nodes, NEW m \in Nodes, NEW over \in BOOLEAN,
             MoveBegin(c, by, n, m, over) \/ PublishBegin(c, by, n, m, over)
      PROVE  Became(c) /\ WorldTyped'
  <2>1. PICK kind \in {"move", "publish"} :
            op' = [op EXCEPT ![c] = [Begun(kind, "first", by, n) EXCEPT !.to = m, !.over = over]]
    BY <1>7, Zenon DEF MoveBegin, PublishBegin, Become
  <2>2. PICK q : q = Begun(kind, "first", by, n)
    OBVIOUS
  <2>3. PICK u : u = [q EXCEPT !.to = m]
    OBVIOUS
  <2>4. PICK v : v = [u EXCEPT !.over = over]
    OBVIOUS
  <2>5. Calling(q)
    BY <1>2, <1>3, <2>2
  <2>6. Calling(u)
    BY <2>3, <2>5, ToTyped
  <2>7. Calling(v)
    BY <2>4, <2>6, OverTyped
  <2>8. v = [q EXCEPT !.to = m, !.over = over]
    BY <2>3, <2>4, Zenon
  <2>9. op' = [op EXCEPT ![c] = v]
    BY <2>1, <2>2, <2>8, Zenon
  <2> QED
    BY <1>7, <1>a, <2>7, <2>9 DEF Became, MoveBegin, PublishBegin
<1> QED
  BY <1>1, <1>4, <1>5, <1>6, <1>7 DEF Start

\* A call goes on, or ends.
LEMMA CallTyped ==
  ASSUME Typed, NEW c \in Calls, Call(c)
  PROVE  Became(c) /\ WorldTyped'
<1>0. WorldTyped /\ Calling(op[c])
  BY TypedParts
<1>a. ASSUME UNCHANGED <<state, outside, result, clock>> PROVE WorldTyped'
  BY <1>0, <1>a DEF WorldTyped, Single, state
<1>b. ASSUME Return(c) PROVE Became(c)
  BY <1>b, IdleTyped DEF Return, Become, Became
<1>c. ASSUME NEW step \in Steps, Continue(c, step) PROVE Became(c)
  BY <1>0, <1>c, StepTyped DEF Continue, Become, Became
<1>d. {"resolve", "check", "publish", "source", "reading", "recheck", "rechecking", "final",
       "settling"} \subseteq Steps
  BY DEF Steps
<1>1. ASSUME LinkProbe(c) \/ LinkCheck(c) PROVE Became(c) /\ WorldTyped'
  BY <1>1, <1>a, <1>b, <1>c, <1>d DEF LinkProbe, LinkCheck, OnlyIf
<1>2. ASSUME LinkResolve(c) PROVE Became(c) /\ WorldTyped'
  <2>1. op[c].kind = "link" /\ op[c].by \in Callers
    BY <1>0, <1>2, CallFields DEF LinkResolve, At, Calling
  <2>2. PICK aim : aim = Resolve(op[c].by.team, op[c].to, "READ")
    OBVIOUS
  <2>3. CASE Become(c, [op[c] EXCEPT !.aim = aim, !.step = "check"]) /\ aim # NoNode
    <3>1. PICK u : u = [op[c] EXCEPT !.aim = aim]
      OBVIOUS
    <3>2. PICK v : v = [u EXCEPT !.step = "check"]
      OBVIOUS
    <3>3. op[c].to \in Nodes
      BY <1>0, <2>1 DEF Calling, Aimed
    <3>4. aim \in Nodes
      BY <1>0, <2>2, <2>3, <3>3, ReachedTyped DEF WorldTyped
    <3>5. Calling(u)
      BY <1>0, <3>1, <3>4, AimTyped
    <3>6. Calling(v)
      BY <1>d, <3>2, <3>5, StepTyped
    <3>7. v = [op[c] EXCEPT !.aim = aim, !.step = "check"]
      BY <3>1, <3>2, Zenon
    <3> QED
      BY <1>2, <1>a, <2>3, <3>6, <3>7 DEF Become, Became, LinkResolve
  <2>4. CASE Return(c)
    BY <1>2, <1>a, <1>b, <2>4 DEF LinkResolve
  <2> QED
    BY <1>2, <2>2, <2>3, <2>4, Zenon DEF LinkResolve
<1>3. ASSUME LinkPublish(c) PROVE Became(c) /\ WorldTyped'
  <2>1. op[c].to \in Nodes \cup {NoNode}
    BY <1>0, CallFields DEF Calling
  <2>2. WorldTyped'
    BY <1>0, <1>3, <2>1 DEF LinkPublish, WorldTyped, Single
  <2> QED
    BY <1>3, <1>b, <2>2 DEF LinkPublish
<1>4. ASSUME Refuse(c), UNCHANGED <<state, outside, clock>> PROVE Became(c) /\ WorldTyped'
  <2>1. WorldTyped'
    BY <1>0, <1>4 DEF Refuse, WorldTyped, Single, state
  <2> QED
    BY <1>4, <1>b, <2>1 DEF Refuse
<1>5. ASSUME ReadReach(c) \/ ReadRecheck(c) PROVE Became(c) /\ WorldTyped'
  <2>1. op[c].step \in DOMAIN OnThread => OnThread[op[c].step] \in Steps
    BY DEF OnThread, Steps
  <2> QED
    BY <1>4, <1>5, <1>a, <1>c, <1>d, <2>1 DEF ReadReach, ReadRecheck
<1>f. ASSUME op[c].kind = "read" PROVE Found(op[c].aim) \in Nat
  BY <1>0, <1>f DEF Calling, Aimed, Found, WorldTyped
<1>6. ASSUME ReadSource(c) PROVE Became(c) /\ WorldTyped'
  <2>1. PICK f : f = Found(op[c].aim)
    OBVIOUS
  <2>2. f \in Nat
    BY <1>6, <1>f, <2>1 DEF ReadSource, At
  <2>3. CASE Refuse(c)
    BY <1>4, <1>6, <2>3 DEF ReadSource
  <2>4. ASSUME NEW step \in {"source", "recheck"}, UNCHANGED result,
               Become(c, [op[c] EXCEPT !.ver = f, !.step = step])
        PROVE  Became(c) /\ WorldTyped'
    <3>1. PICK u : u = [op[c] EXCEPT !.ver = f]
      OBVIOUS
    <3>2. PICK v : v = [u EXCEPT !.step = step]
      OBVIOUS
    <3>3. Calling(u)
      BY <1>0, <2>2, <3>1, VerTyped
    <3>4. Calling(v)
      BY <1>d, <3>2, <3>3, StepTyped
    <3>5. v = [op[c] EXCEPT !.ver = f, !.step = step]
      BY <3>1, <3>2, Zenon
    <3> QED
      BY <1>6, <1>a, <2>4, <3>4, <3>5 DEF Become, Became, ReadSource
  <2> QED
    BY <1>6, <2>1, <2>3, <2>4, Zenon DEF ReadSource
<1>7. ASSUME ReadReturn(c) PROVE Became(c) /\ WorldTyped'
  <2>1. CASE Refuse(c)
    BY <1>4, <1>7, <2>1 DEF ReadReturn
  <2>2. CASE Return(c) /\ result' = [result EXCEPT ![c] = op[c].ver]
    <3>1. op[c].ver \in Nat
      BY <1>0, CallFields DEF Calling
    <3>2. WorldTyped'
      BY <1>0, <1>7, <2>2, <3>1 DEF ReadReturn, WorldTyped, Single, state
    <3> QED
      BY <1>b, <2>2, <3>2
  <2> QED
    BY <1>7, <2>1, <2>2 DEF ReadReturn
<1>8. ASSUME NEW changed \in [Nodes -> Nat], Store(c, changed) PROVE Became(c) /\ WorldTyped'
  <2>1. WorldTyped'
    BY <1>0, <1>8 DEF Store, WorldTyped, Single
  <2> QED
    BY <1>8, <1>b, <2>1 DEF Store
<1>9. file \in [Nodes -> Nat] /\ clock + 1 \in Nat
  BY <1>0 DEF WorldTyped
<1>e. ASSUME Raise(c) PROVE Became(c) /\ WorldTyped'
  BY <1>e, <1>a, <1>b DEF Raise
<1>10. ASSUME WriteDo(c) \/ PublishDo(c) PROVE Became(c) /\ WorldTyped'
  <2>1. [file EXCEPT ![op[c].to] = clock + 1] \in [Nodes -> Nat]
    BY <1>9
  <2> QED
    BY <1>8, <1>10, <1>e, <2>1, Zenon DEF WriteDo, PublishDo
<1>11. ASSUME DeleteDo(c) PROVE Became(c) /\ WorldTyped'
  <2>1. [file EXCEPT ![op[c].node] = 0] \in [Nodes -> Nat]
    BY <1>9
  <2> QED
    BY <1>8, <1>11, <1>e, <2>1, Zenon DEF DeleteDo
<1>12. ASSUME MoveDo(c) PROVE Became(c) /\ WorldTyped'
  <2>1. [file EXCEPT ![op[c].node] = 0, ![op[c].to] = clock + 1] \in [Nodes -> Nat]
    BY <1>9
  <2> QED
    BY <1>8, <1>12, <1>e, <2>1, Zenon DEF MoveDo
<1> QED
  BY <1>1, <1>2, <1>3, <1>5, <1>6, <1>7, <1>10, <1>11, <1>12 DEF Call

\* What is done at once, and a dissolution, leave the calls alone.
LEMMA WorldMoves ==
  ASSUME Typed, \/ \E by \in Callers : AtOnce(by)
                \/ Dissolve \/ DissolveFails \/ DissolveCommitted
  PROVE  op' = op /\ WorldTyped'
<1>0. WorldTyped /\ limit.grantable \subseteq Grantable
  BY TypedParts
<1>1. ASSUME NEW by \in Callers, Leave(by) PROVE op' = op /\ WorldTyped'
  BY <1>0, <1>1 DEF Leave, WorldTyped, Single, state
<1>2. ASSUME NEW by \in Callers, NEW n \in Nodes, DeleteLink(by, n) PROVE op' = op /\ WorldTyped'
  BY <1>0, <1>2 DEF DeleteLink, WorldTyped, Single
<1>3. ASSUME NEW by \in Callers, NEW given \in limit.grantable, Grant(by, given)
      PROVE  op' = op /\ WorldTyped'
  <2>1. given \in Grantable
    BY <1>0
  <2>2. grants' \subseteq Grantable
    BY <1>0, <1>3, <2>1 DEF Grant, Without, WorldTyped
  <2>3. Single(grants')
    BY <1>0, <1>3 DEF Grant, Without, WorldTyped, Single
  <2> QED
    BY <1>0, <1>3, <2>2, <2>3 DEF Grant, WorldTyped, Single
<1>4. ASSUME NEW by \in Callers, NEW team, NEW s, Revoke(by, team, s) PROVE op' = op /\ WorldTyped'
  BY <1>0, <1>4 DEF Revoke, Without, WorldTyped, Single
<1>5. ASSUME Dissolve \/ DissolveFails PROVE op' = op /\ WorldTyped'
  BY <1>0, <1>5 DEF Dissolve, DissolveFails, WorldTyped, Single
<1>6. ASSUME DissolveCommitted PROVE op' = op /\ WorldTyped'
  BY <1>0, <1>6 DEF DissolveCommitted, WorldTyped, Single
<1> QED
  BY <1>1, <1>2, <1>3, <1>4, <1>5, <1>6 DEF AtOnce

LEMMA TypedNext == Typed /\ [Next]_vars => Typed'
<1> SUFFICES ASSUME Typed, [Next]_vars PROVE Typed'
  OBVIOUS
<1>1. CASE UNCHANGED vars
  BY <1>1 DEF vars, state, Typed, TypeOK, Aimed
<1>2. CASE Next
  BY <1>2, BeginTyped, CallTyped, WorldMoves, TypedMoves DEF Next
<1> QED
  BY <1>1, <1>2

\* Libraries, permissions and calls keep their types: in particular an AgentTeam has one
\* permission at most for a library or a path (grant_library_permission), and a chain of
\* links ends at a node, so that a read which passes _resolve_library_target has a file to
\* read, whatever is linked, moved or dissolved meanwhile.
THEOREM LibraryTypes == Spec => []TypeOK
<1>1. Typed => TypeOK
  BY DEF Typed
<1> QED
  BY <1>1, TypedInit, TypedNext, PTL DEF Spec

=============================================================================
