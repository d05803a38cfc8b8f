---------------------------- MODULE MemoryProofs ----------------------------
(***************************************************************************)
(* No segment is stuck in indexing, the variables keep their types, and    *)
(* what is live and what is saved could be loaded, for all Agents, turns,  *)
(* discussions and workers.                                                *)
(*                                                                         *)
(* Worked needs little besides itself: that segments keep their type       *)
(* wherever they may come back from (the disk, and the memory that the     *)
(* rollback of a deletion puts back).                                      *)
(***************************************************************************)
EXTENDS Memory, TLAPS, FiniteSetTheorems

Segment ==
    [status : {"none", "PENDING", "PROCESSING", "INDEXED", "FAILED"}, attempts : Nat, whole : BOOLEAN]

Segmented(s) == s \in [Turns -> Segment]
HasSegments(x) == "segs" \in DOMAIN x /\ Segmented(x.segs)
Kept == \A c \in changing : \A x \in c.old : HasSegments(x)
Workmen == busy \subseteq [seg : Turns, at : {"wait", "call", "sleep"}, own : BOOLEAN]

Typed == Segmented(segs) /\ HasSegments(disk) /\ Kept /\ Workmen
IInv == Typed /\ Worked

-----------------------------------------------------------------------------

\* What is saved has segments.
LEMMA CapturedSegments ==
    ASSUME HasSegments(disk), Segmented(segs'), NEW items PROVE HasSegments(Captured(items))
<1> DEFINE S == items.segs \cup CardsOf(items)
           new == [t \in Turns |-> IF t \in S \cap Present(segs') THEN segs'[t] ELSE disk.segs[t]]
<1>1. Segmented(new)
  BY DEF HasSegments, Segmented
<1>2. Captured(items).segs = new /\ "segs" \in DOMAIN Captured(items)
  BY DEF Captured
<1> QED
  BY <1>1, <1>2 DEF HasSegments

\* So it is in the batch of a discussion, and with what ensure_enabled adds.
LEMMA SavedSegments ==
    ASSUME HasSegments(disk), Segmented(segs'), NEW d, NEW items, Save(d, items)
    PROVE  HasSegments(disk')
BY CapturedSegments DEF Save, HasSegments

LEMMA EnsuredSegments ==
    ASSUME HasSegments(disk), Segmented(segs'), NEW d, NEW items, NEW S, Ensured(d, items, S)
    PROVE  HasSegments(disk')
BY SavedSegments DEF Ensured

\* When indexing is resumed nothing is being indexed.
LEMMA ResumedSegments ==
    ASSUME NEW s, Segmented(s)
    PROVE  Segmented(Resumed(s)) /\ \A t \in Turns : Resumed(s)[t].status # "PROCESSING"
<1>1. ASSUME NEW t \in Turns
      PROVE  Resumed(s)[t] \in Segment /\ Resumed(s)[t].status # "PROCESSING"
  <2>1. s[t] \in Segment
    BY DEF Segmented
  <2>2. CASE s[t].status = "PROCESSING"
    <3>1. Resumed(s)[t] = [s[t] EXCEPT !.status = "PENDING"]
      BY <2>2 DEF Resumed
    <3> QED
      BY <2>1, <3>1 DEF Segment
  <2>3. CASE s[t].status # "PROCESSING"
    BY <2>1, <2>3 DEF Resumed
  <2> QED
    BY <2>2, <2>3
<1> QED
  BY <1>1 DEF Segmented, Resumed

\* Nothing is stuck if nothing is being indexed, nor if neither the segments
\* nor the workers change.
LEMMA IdleIsWorked ==
    ASSUME \A t \in Turns : segs'[t].status # "PROCESSING" PROVE Worked'
BY DEF Worked, In

LEMMA Unmoved ==
    ASSUME IInv, UNCHANGED <<segs, busy, changing>>, HasSegments(disk') PROVE IInv'
BY DEF IInv, Typed, Segmented, Kept, HasSegments, Workmen, Worked, In

\* One segment changes, and is not being indexed afterwards; the workers that
\* have others stay.
LEMMA OneSettles ==
    ASSUME IInv, UNCHANGED changing, HasSegments(disk'), NEW t \in Turns, NEW x \in Segment,
           x.status # "PROCESSING", segs' = [segs EXCEPT ![t] = x],
           busy' \subseteq [seg : Turns, at : {"wait", "call", "sleep"}, own : BOOLEAN],
           \A w \in busy : w.seg # t => w \in busy'
    PROVE  IInv'
<1>1. Segmented(segs') /\ segs'[t] = x /\ \A u \in Turns \ {t} : segs'[u] = segs[u]
  BY DEF IInv, Typed, Segmented
<1>2. Worked'
  BY <1>1 DEF IInv, Worked, In
<1> QED
  BY <1>1, <1>2 DEF IInv, Typed, Kept, HasSegments, Workmen, Segmented

-----------------------------------------------------------------------------
(* The steps of turns, workers, the host and identities. *)

LEMMA TurnSteps ==
    ASSUME IInv, NEW t \in Turns, InTurn(t) PROVE IInv'
<1>1. CASE BeginTurn(t)
  <2>1. UNCHANGED <<segs, busy, changing>> /\ Save(Within[t], NoBatch)
    BY <1>1 DEF BeginTurn, indexVars
  <2>2. Segmented(segs') /\ HasSegments(disk)
    BY <2>1 DEF IInv, Typed, Segmented
  <2> QED
    BY <2>1, <2>2, SavedSegments, Unmoved
<1>2. CASE FinishTurn(t)
  <2>1. UNCHANGED <<busy, changing>>
    BY <1>2 DEF FinishTurn
  <2>2. PICK d, items, S : Ensured(d, items, S)
    BY <1>2 DEF FinishTurn
  <2>3. CASE enabled
    <3> DEFINE x == [status |-> "PENDING", attempts |-> 0, whole |-> <<"started", t>> \in journal]
    <3>1. segs' = [segs EXCEPT ![t] = x]
      BY <1>2, <2>3 DEF FinishTurn
    <3>2. x \in Segment /\ x.status # "PROCESSING"
      BY DEF Segment
    <3>3. Segmented(segs') /\ HasSegments(disk)
      BY <3>1, <3>2 DEF IInv, Typed, Segmented
    <3>4. HasSegments(disk')
      BY <2>2, <3>3, EnsuredSegments
    <3>5. busy' \subseteq [seg : Turns, at : {"wait", "call", "sleep"}, own : BOOLEAN]
      BY <2>1 DEF IInv, Typed, Workmen
    <3> QED
      BY <2>1, <3>1, <3>2, <3>4, <3>5, OneSettles
  <2>4. CASE ~enabled
    <3>1. UNCHANGED segs
      BY <1>2, <2>4 DEF FinishTurn
    <3>2. Segmented(segs') /\ HasSegments(disk)
      BY <3>1 DEF IInv, Typed, Segmented
    <3> QED
      BY <2>1, <2>2, <3>1, <3>2, EnsuredSegments, Unmoved
  <2> QED
    BY <2>3, <2>4
<1>3. CASE CancelTurn(t)
  <2>1. UNCHANGED <<segs, busy, changing, disk>>
    BY <1>3 DEF CancelTurn, indexVars
  <2> QED
    BY <2>1, Unmoved DEF IInv, Typed, HasSegments
<1>4. ASSUME NEW m \in Turns, Recall(t, m) \/ Keep(t, m) \/ Forget(t, m) PROVE IInv'
  <2>1. UNCHANGED <<segs, busy, changing>>
    BY <1>4 DEF Recall, Keep, Forget, Uses
  <2>2. PICK d, items, S : Ensured(d, items, S)
    BY <1>4 DEF Recall, Keep, Forget
  <2>3. Segmented(segs') /\ HasSegments(disk)
    BY <2>1 DEF IInv, Typed, Segmented
  <2> QED
    BY <2>1, <2>2, <2>3, EnsuredSegments, Unmoved
<1> QED
  BY <1>1, <1>2, <1>3, <1>4 DEF InTurn

\* A worker takes a segment: it has it from then on.
LEMMA TakeKeeps ==
    ASSUME IInv, NEW t \in Turns, Take(t) PROVE IInv'
<1>1. CASE segs[t].status = "PENDING" /\ enabled /\ Active(Owner[t])
  <2> DEFINE v == [seg |-> t, at |-> "wait", own |-> TRUE]
             x == [segs[t] EXCEPT !.status = "PROCESSING"]
  <2>1. /\ segs' = [segs EXCEPT ![t] = x] /\ busy' = busy \cup {v} /\ UNCHANGED changing
        /\ disk' = Captured(Segments({t}))
    BY <1>1 DEF Take
  <2>2. segs \in [Turns -> Segment]
    BY DEF IInv, Typed, Segmented
  <2>3. x \in Segment
    BY <2>2 DEF Segment
  <2>4. Segmented(segs') /\ \A u \in Turns \ {t} : segs'[u] = segs[u]
    BY <2>1, <2>2, <2>3 DEF Segmented
  <2>5. HasSegments(disk')
    BY <2>1, <2>4, CapturedSegments DEF IInv, Typed, HasSegments
  <2>6. v \in [seg : Turns, at : {"wait", "call", "sleep"}, own : BOOLEAN]
    OBVIOUS
  <2>7. Workmen'
    BY <2>1, <2>6 DEF IInv, Typed, Workmen
  <2>8. v \in busy' /\ v.seg = t /\ v.own /\ v.at # "sleep" /\ busy \subseteq busy'
    BY <2>1
  <2>9. Worked'
    BY <2>4, <2>8 DEF IInv, Worked, In
  <2> QED
    BY <2>1, <2>4, <2>5, <2>7, <2>9 DEF IInv, Typed, Kept, HasSegments, Segmented
<1>2. CASE ~(segs[t].status = "PENDING" /\ enabled /\ Active(Owner[t]))
  <2>1. UNCHANGED <<segs, busy, disk, changing>>
    BY <1>2 DEF Take
  <2> QED
    BY <2>1, Unmoved DEF IInv, Typed, HasSegments
<1> QED
  BY <1>1, <1>2

\* After a failure a segment is pending again, or has failed.
LEMMA FailedSegment ==
    ASSUME NEW x \in Segment PROVE Failed(x) \in Segment /\ Failed(x).status # "PROCESSING"
<1> DEFINE s == IF x.attempts >= MaxRetries THEN "FAILED" ELSE "PENDING"
           y == [x EXCEPT !.attempts = x.attempts + 1]
<1>1. s \in {"PENDING", "FAILED"}
  OBVIOUS
<1>2. x.attempts \in Nat /\ x.attempts + 1 \in Nat
  BY DEF Segment
<1>3. y \in Segment
  BY <1>2 DEF Segment
<1>4. Failed(x) = [y EXCEPT !.status = s]
  BY DEF Failed, Segment
<1> HIDE DEF y, s
<1> QED
  BY <1>1, <1>3, <1>4 DEF Segment

\* Whoever moves a segment on leaves none without a worker; those that have
\* lost their segment, or sleep, are not counted on.
LEMMA WorkerKeeps ==
    ASSUME IInv, NEW w \in busy, Admit(w) \/ Answer(w) \/ IndexFails(w) \/ Wake(w) PROVE IInv'
<1> DEFINE t == w.seg
           Worker == [seg : Turns, at : {"wait", "call", "sleep"}, own : BOOLEAN]
<1>1. /\ w \in Worker /\ t \in Turns /\ busy \subseteq Worker
      /\ segs \in [Turns -> Segment] /\ HasSegments(disk)
  BY DEF IInv, Typed, Workmen, Segmented
<1>2. CASE Admit(w)
  <2> DEFINE v == [w EXCEPT !.at = "call"]
  <2>1. UNCHANGED <<segs, changing, disk>> /\ busy' = (busy \ {w}) \cup {v}
    BY <1>2 DEF Admit, memVars
  <2>2. v \in Worker /\ v.seg = t /\ v.own = w.own /\ v.at # "sleep"
    BY <1>1
  <2>3. Workmen'
    BY <1>1, <2>1, <2>2 DEF Workmen
  <2>4. Worked'
    BY <2>1, <2>2 DEF IInv, Worked, In
  <2> QED
    BY <2>1, <2>3, <2>4 DEF IInv, Typed, Kept, HasSegments, Segmented
<1>3. ASSUME UNCHANGED <<segs, changing>>, HasSegments(disk'), busy' = busy \ {w},
             ~w.own \/ w.at = "sleep"
      PROVE  IInv'
  <2>1. Worked'
    BY <1>3 DEF IInv, Worked, In
  <2> QED
    BY <1>1, <1>3, <2>1 DEF IInv, Typed, Kept, HasSegments, Segmented, Workmen
<1>4. ASSUME NEW x \in Segment, x.status # "PROCESSING", segs' = [segs EXCEPT ![t] = x],
             UNCHANGED changing, NEW items, disk' = Captured(items),
             busy' = busy \ {w} \/ busy' = (busy \ {w}) \cup {[w EXCEPT !.at = "sleep"]}
      PROVE  IInv'
  <2>1. Segmented(segs')
    BY <1>1, <1>4 DEF Segmented
  <2>2. HasSegments(disk')
    BY <1>1, <1>4, <2>1, CapturedSegments DEF HasSegments
  <2>3. busy' \subseteq Worker /\ \A v \in busy : v.seg # t => v \in busy'
    BY <1>1, <1>4
  <2> QED
    BY <1>1, <1>4, <2>2, <2>3, OneSettles
<1>5. CASE Answer(w)
  <2>1. UNCHANGED changing /\ busy' = busy \ {w}
    BY <1>5 DEF Answer, Outside, Ends
  <2>2. CASE ~w.own
    <3>1. UNCHANGED <<segs, disk>>
      BY <1>5, <2>2 DEF Answer
    <3> QED
      BY <1>1, <1>3, <2>1, <2>2, <3>1 DEF HasSegments
  <2>3. CASE w.own
    <3>1. PICK s, items :
              /\ s \in {"PENDING", "INDEXED"} /\ segs' = [segs EXCEPT ![t] = [segs[t] EXCEPT !.status = s]]
              /\ disk' = Captured(items)
      BY <1>5, <2>3 DEF Answer
    <3>2. [segs[t] EXCEPT !.status = s] \in Segment /\ [segs[t] EXCEPT !.status = s].status # "PROCESSING"
      BY <1>1, <3>1 DEF Segment
    <3> QED
      BY <1>4, <2>1, <3>1, <3>2
  <2> QED
    BY <2>2, <2>3
<1>6. CASE IndexFails(w)
  <2>1. UNCHANGED changing
    BY <1>6 DEF IndexFails, Outside
  <2>2. CASE ~w.own
    <3>1. UNCHANGED <<segs, disk>> /\ busy' = busy \ {w}
      BY <1>6, <2>2 DEF IndexFails, Ends
    <3> QED
      BY <1>1, <1>3, <2>1, <2>2, <3>1 DEF HasSegments
  <2>3. CASE w.own
    <3>1. /\ segs' = [segs EXCEPT ![t] = Failed(segs[t])] /\ disk' = Captured(Segments({t}))
          /\ busy' = busy \ {w} \/ busy' = (busy \ {w}) \cup {[w EXCEPT !.at = "sleep"]}
      BY <1>6, <2>3 DEF IndexFails, Ends
    <3>2. Failed(segs[t]) \in Segment /\ Failed(segs[t]).status # "PROCESSING"
      BY <1>1, FailedSegment
    <3> QED
      BY <1>4, <2>1, <3>1, <3>2
  <2> QED
    BY <2>2, <2>3
<1>7. CASE Wake(w)
  <2>1. UNCHANGED <<segs, changing, disk>> /\ busy' = busy \ {w} /\ w.at = "sleep"
    BY <1>7 DEF Wake, Outside, Ends
  <2> QED
    BY <1>1, <1>3, <2>1 DEF HasSegments
<1> QED
  BY <1>2, <1>5, <1>6, <1>7

\* Nothing is being indexed after the step, whose segments may be others.
LEMMA IdleStep ==
    ASSUME Segmented(segs'), \A t \in Turns : segs'[t].status # "PROCESSING", HasSegments(disk'),
           Kept', Workmen'
    PROVE  IInv'
BY IdleIsWorked DEF IInv, Typed

\* What the host does, and the end of a discussion.
LEMMA HostSteps ==
    ASSUME IInv,
           \/ \E t \in Turns : RetryIndex(t) \/ RestoreForgotten(t)
           \/ \E d \in Talks : EndTalk(d)
           \/ Flush \/ Toggle
    PROVE  IInv'
<1>1. ASSUME NEW t \in Turns, RetryIndex(t) PROVE IInv'
  <2> DEFINE y == [segs[t] EXCEPT !.status = "PENDING"]
             x == [y EXCEPT !.attempts = 0]
  <2>1. segs[t] \in Segment /\ segs \in [Turns -> Segment]
    BY DEF IInv, Typed, Segmented
  <2>2. y \in Segment /\ y.status = "PENDING"
    BY <2>1 DEF Segment
  <2>3. x \in Segment /\ x.status = "PENDING"
    BY <2>2 DEF Segment
  <2>4. segs' = [segs EXCEPT ![t] = x]
    BY <1>1, <2>1 DEF RetryIndex, Segment
  <2>5. Segmented(segs')
    BY <2>1, <2>3, <2>4 DEF Segmented
  <2>6. UNCHANGED <<busy, changing>> /\ disk' = Captured(Segments({t}))
    BY <1>1 DEF RetryIndex
  <2>7. HasSegments(disk')
    BY <2>5, <2>6, CapturedSegments DEF IInv, Typed, HasSegments
  <2>8. busy' \subseteq [seg : Turns, at : {"wait", "call", "sleep"}, own : BOOLEAN]
    BY <2>6 DEF IInv, Typed, Workmen
  <2> QED
    BY <2>3, <2>4, <2>6, <2>7, <2>8, OneSettles
<1>2. ASSUME NEW m \in Turns, RestoreForgotten(m) PROVE IInv'
  <2>1. UNCHANGED <<segs, busy, changing>> /\ Ensured(NoTalk, Cards({m}), {})
    BY <1>2 DEF RestoreForgotten
  <2>2. Segmented(segs') /\ HasSegments(disk)
    BY <2>1 DEF IInv, Typed, Segmented
  <2> QED
    BY <2>1, <2>2, EnsuredSegments, Unmoved
<1>3. ASSUME NEW d \in Talks, EndTalk(d) PROVE IInv'
  <2>1. UNCHANGED <<segs, busy, changing>> /\ disk' = Captured(batch[d])
    BY <1>3 DEF EndTalk, memVars, indexVars
  <2>2. Segmented(segs') /\ HasSegments(disk)
    BY <2>1 DEF IInv, Typed, Segmented
  <2> QED
    BY <2>1, <2>2, CapturedSegments, Unmoved DEF HasSegments
<1>4. CASE Flush
  <2>1. /\ UNCHANGED <<busy, changing>> /\ segs' = Resumed(segs)
        /\ Ensured(NoTalk, Segments(In(segs, "PROCESSING")), In(segs', "PENDING"))
    BY <1>4 DEF Flush
  <2>2. Segmented(segs') /\ \A t \in Turns : segs'[t].status # "PROCESSING"
    BY <2>1, ResumedSegments DEF IInv, Typed
  <2>3. HasSegments(disk')
    BY <2>1, <2>2, EnsuredSegments DEF IInv, Typed
  <2> QED
    BY <2>1, <2>2, <2>3, IdleStep DEF IInv, Typed, Kept, HasSegments, Workmen, Segmented
<1>5. CASE Toggle
  <2>1. UNCHANGED <<segs, busy, changing, disk>>
    BY <1>5 DEF Toggle, memVars, indexVars
  <2> QED
    BY <2>1, Unmoved DEF IInv, Typed, HasSegments
<1> QED
  BY <1>1, <1>2, <1>3, <1>4, <1>5

\* A change of an identity begins and may take away the Agent's segments.
LEMMA BeginSteps ==
    ASSUME IInv, NEW a \in Agents, NEW fails \in BOOLEAN,
           Retain(a, fails) \/ Reactivate(a, fails) \/ Delete(a, fails)
    PROVE  IInv'
<1>1. CASE Retain(a, fails) \/ Reactivate(a, fails)
  <2>1. UNCHANGED <<segs, busy>> /\ \E kind : Begins(a, kind, fails, {})
    BY <1>1 DEF Retain, Reactivate, memVars, indexVars
  <2>2. HasSegments(disk')
    <3>1. disk' = disk \/ \E l : disk' = [disk EXCEPT !.lifecycle[a] = l]
      BY <1>1 DEF Retain, Reactivate
    <3> QED
      BY <3>1 DEF IInv, Typed, HasSegments
  <2>3. Kept'
    BY <2>1 DEF Begins, IInv, Typed, Kept, HasSegments, Segmented
  <2> QED
    BY <2>1, <2>2, <2>3 DEF IInv, Typed, Segmented, Workmen, Worked, In
<1>2. CASE Delete(a, fails)
  <2> DEFINE left(f) == [t \in Turns |-> IF Owner[t] = a THEN NoSegment ELSE f[t]]
  <2>1. /\ Begins(a, "delete", fails, {Contents}) /\ busy' = Disowned(OwnedBy(a))
        /\ segs' = left(segs)
        /\ disk' = IF fails THEN disk ELSE [Without(a, disk) EXCEPT !.lifecycle[a] = "deleted"]
    BY <1>2 DEF Delete, SetMemory, Without, Contents
  <2>2. ASSUME NEW f, Segmented(f) PROVE Segmented(left(f))
    <3>1. NoSegment \in Segment
      BY DEF NoSegment, Segment
    <3> QED
      BY <2>2, <3>1 DEF Segmented
  <2>3. Segmented(segs')
    BY <2>1, <2>2 DEF IInv, Typed
  <2>4. HasSegments(disk')
    <3>1. CASE fails
      BY <2>1, <3>1 DEF IInv, Typed, HasSegments
    <3>2. CASE ~fails
      <4>1. DOMAIN disk' = DOMAIN disk /\ ("segs" \in DOMAIN disk => disk'.segs = left(disk.segs))
        BY <2>1, <3>2 DEF Without
      <4> QED
        BY <2>2, <4>1 DEF IInv, Typed, HasSegments
    <3> QED
      BY <3>1, <3>2
  <2>5. Kept'
    <3>1. HasSegments(Contents)
      BY DEF Contents, HasSegments, IInv, Typed
    <3> QED
      BY <2>1, <3>1 DEF Begins, IInv, Typed, Kept, HasSegments, Segmented
  <2>6. Workmen'
    <3>1. ASSUME NEW w \in busy
          PROVE  [w EXCEPT !.own = w.own /\ w.seg \notin OwnedBy(a)]
                     \in [seg : Turns, at : {"wait", "call", "sleep"}, own : BOOLEAN]
      BY DEF IInv, Typed, Workmen
    <3> QED
      BY <2>1, <3>1 DEF Disowned, Workmen
  <2>7. ASSUME NEW t \in Turns, segs'[t].status = "PROCESSING"
        PROVE  \E w \in busy' : w.seg = t /\ w.own /\ w.at # "sleep"
    <3>1. Owner[t] # a /\ segs'[t] = segs[t]
      BY <2>1, <2>7 DEF NoSegment
    <3>2. PICK w \in busy : w.seg = t /\ w.own /\ w.at # "sleep"
      BY <2>7, <3>1 DEF IInv, Worked, In
    <3> DEFINE v == [w EXCEPT !.own = w.own /\ w.seg \notin OwnedBy(a)]
    <3>3. w \in [seg : Turns, at : {"wait", "call", "sleep"}, own : BOOLEAN]
      BY DEF IInv, Typed, Workmen
    <3>4. w.own /\ w.seg \notin OwnedBy(a)
      BY <3>1, <3>2 DEF OwnedBy
    <3>5. v.seg = t /\ v.own /\ v.at # "sleep"
      BY <3>2, <3>3, <3>4
    <3>6. v \in busy'
      BY <2>1 DEF Disowned
    <3> QED
      BY <3>5, <3>6
  <2>8. Worked'
    BY <2>7 DEF Worked, In
  <2> QED
    BY <2>3, <2>4, <2>5, <2>6, <2>8 DEF IInv, Typed
<1> QED
  BY <1>1, <1>2

\* It returns; a deletion that is rolled back has all segments pending, and
\* resuming as much.
LEMMA ReturnSteps ==
    ASSUME IInv, NEW a \in Agents, Return(a) PROVE IInv'
<1>1. PICK c \in changing : Confirmed(c) \/ RolledBack(c)
  BY DEF Return
<1>2. Kept'
  BY <1>1 DEF Confirmed, RolledBack, IInv, Typed, Kept, HasSegments, Segmented
<1>3. CASE UNCHANGED <<segs, busy, disk>>
  BY <1>2, <1>3 DEF IInv, Typed, Segmented, HasSegments, Workmen, Worked, In
<1>4. CASE Confirmed(c) /\ c.kind = "reactivate"
  <2>1. segs' = Resumed(segs) /\ UNCHANGED busy /\ disk' = Captured(Segments(In(segs, "PROCESSING")))
    BY <1>4 DEF Confirmed, ResumePending
  <2>2. Segmented(segs') /\ \A t \in Turns : segs'[t].status # "PROCESSING"
    BY <2>1, ResumedSegments DEF IInv, Typed
  <2>3. HasSegments(disk')
    BY <2>1, <2>2, CapturedSegments DEF IInv, Typed, HasSegments
  <2> QED
    BY <1>2, <2>1, <2>2, <2>3, IdleStep DEF IInv, Typed, Workmen
<1>5. CASE RolledBack(c) /\ c.kind = "delete"
  <2>1. PICK old \in c.old : SetMemory([old EXCEPT !.segs = Resumed(@)])
    BY <1>5 DEF RolledBack
  <2>2. HasSegments(old)
    BY DEF IInv, Typed, Kept
  <2>3. segs' = Resumed(old.segs) /\ busy' = Disowned(Turns) /\ UNCHANGED disk
    BY <1>5, <2>1, <2>2 DEF RolledBack, SetMemory, HasSegments
  <2>4. Segmented(segs') /\ \A t \in Turns : segs'[t].status # "PROCESSING"
    BY <2>2, <2>3, ResumedSegments DEF HasSegments
  <2>5. Workmen'
    <3>1. ASSUME NEW w \in busy
          PROVE  [w EXCEPT !.own = w.own /\ w.seg \notin Turns]
                     \in [seg : Turns, at : {"wait", "call", "sleep"}, own : BOOLEAN]
      BY DEF IInv, Typed, Workmen
    <3> QED
      BY <2>3, <3>1 DEF Disowned, Workmen
  <2>6. HasSegments(disk')
    BY <2>3 DEF IInv, Typed, HasSegments
  <2> QED
    BY <1>2, <2>4, <2>5, <2>6, IdleStep
<1>6. CASE ~(Confirmed(c) /\ c.kind = "reactivate") /\ ~(RolledBack(c) /\ c.kind = "delete")
  <2>1. UNCHANGED <<segs, busy, disk>>
    BY <1>1, <1>6 DEF Confirmed, RolledBack, memVars
  <2> QED
    BY <1>3, <2>1
<1> QED
  BY <1>4, <1>5, <1>6

\* A restore and a crash leave nothing that is being indexed.
LEMMA RestoreSteps ==
    ASSUME IInv, Suspend \/ EndLoad \/ Restart PROVE IInv'
<1>1. CASE Suspend
  <2>1. /\ segs' = Resumed(segs) /\ busy' = {} /\ UNCHANGED changing
        /\ disk' = Captured(Segments(In(segs, "PROCESSING")))
    BY <1>1 DEF Suspend
  <2>2. Segmented(segs') /\ \A t \in Turns : segs'[t].status # "PROCESSING"
    BY <2>1, ResumedSegments DEF IInv, Typed
  <2>3. HasSegments(disk')
    BY <2>1, <2>2, CapturedSegments DEF IInv, Typed, HasSegments
  <2> QED
    BY <2>1, <2>2, <2>3, IdleStep DEF IInv, Typed, Workmen, Kept, HasSegments, Segmented
<1>2. CASE EndLoad
  <2>1. PICK ok \in BOOLEAN : EndRestore(ok)
    BY <1>2 DEF EndLoad
  <2>2. UNCHANGED <<busy, changing, disk>>
    BY <2>1 DEF EndRestore
  <2>3. CASE ok
    <3>1. segs' = Resumed(disk.segs)
      BY <2>1, <2>3 DEF EndRestore, Loaded
    <3>2. Segmented(segs') /\ \A t \in Turns : segs'[t].status # "PROCESSING"
      BY <3>1, ResumedSegments DEF IInv, Typed, HasSegments
    <3> QED
      BY <2>2, <3>2, IdleStep DEF IInv, Typed, Workmen, Kept, HasSegments, Segmented
  <2>4. CASE ~ok
    <3>1. UNCHANGED segs
      BY <2>1, <2>4 DEF EndRestore
    <3> QED
      BY <2>2, <3>1, Unmoved DEF IInv, Typed, HasSegments
  <2> QED
    BY <2>3, <2>4
<1>3. CASE Restart
  <2>1. segs' = Resumed(disk.segs) /\ busy' = {} /\ changing' = {} /\ UNCHANGED disk
    BY <1>3 DEF Restart, Loaded
  <2>2. Segmented(segs') /\ \A t \in Turns : segs'[t].status # "PROCESSING"
    BY <2>1, ResumedSegments DEF IInv, Typed, HasSegments
  <2> QED
    BY <2>1, <2>2, IdleStep DEF IInv, Typed, Workmen, Kept, HasSegments, Segmented
<1> QED
  BY <1>1, <1>2, <1>3

-----------------------------------------------------------------------------

LEMMA InitSatisfies == Init => IInv
<1> SUFFICES ASSUME Init PROVE IInv
  OBVIOUS
<1>1. segs \in [Turns -> Segment] /\ \A t \in Turns : segs[t].status = "none"
  BY DEF Init, NoSegment, Segment
<1>2. disk.segs = segs /\ "segs" \in DOMAIN disk /\ busy = {} /\ changing = {}
  BY DEF Init
<1> QED
  BY <1>1, <1>2 DEF IInv, Typed, Segmented, HasSegments, Kept, Workmen, Worked, In

LEMMA NextKeeps == IInv /\ [Next]_vars => IInv'
<1> SUFFICES ASSUME IInv, [Next]_vars PROVE IInv'
  OBVIOUS
<1>1. ASSUME NEW t \in Turns, Work(t) PROVE IInv'
  BY <1>1, TakeKeeps, WorkerKeeps DEF Work
<1>2. ASSUME NEW a \in Agents, OfAgent(a) PROVE IInv'
  BY <1>2, BeginSteps, ReturnSteps DEF OfAgent
<1>3. CASE UNCHANGED vars
  BY <1>3, Unmoved DEF vars, memVars, indexVars, IInv, Typed, HasSegments
<1> QED
  BY <1>1, <1>2, <1>3, TurnSteps, HostSteps, RestoreSteps DEF Next

\* A segment that is PROCESSING always has a worker that will move it on
\* (memory/service/indexing.py, and what agents.py and restores do to
\* both), for any number of Agents, turns and workers.
THEOREM NothingStuck == Spec => []Worked
<1>1. Spec => []IInv
  BY InitSatisfies, NextKeeps, PTL DEF Spec
<1>2. IInv => Worked
  BY DEF IInv
<1> QED
  BY <1>1, <1>2, PTL

-----------------------------------------------------------------------------
(* Types.  The memory, what the database has of it, and what a deletion    *)
(* keeps to put back have the same types.  A segment that can still be     *)
(* indexed has attempts left.                                              *)

Sound == {x \in Segment : /\ x.attempts <= MaxRetries + 1
                          /\ x.status \in {"PENDING", "PROCESSING"} => x.attempts <= MaxRetries}

CardStates == {"none", "active", "forgotten"}
Standings == {"active", "retained", "deleting", "deleted"}
Entries == {"started", "finished", "cancelled", "indexed"} \X Turns
Memories ==
    [journal : SUBSET Entries, segs : [Turns -> Sound], cards : [Turns -> CardStates],
     refs : SUBSET (Nat \X Turns)]
Disks ==
    [segs : [Turns -> Sound], cards : [Turns -> CardStates], refs : SUBSET (Nat \X Turns),
     lifecycle : [Agents -> Standings]]

Holds == segs \in [Turns -> Sound] /\ cards \in [Turns -> CardStates] /\ refs \in SUBSET (Nat \X Turns)
Stored ==
    /\ Holds /\ journal \in SUBSET Entries /\ disk \in Disks
    /\ \A c \in changing : c.old \subseteq Memories
    /\ spent \in [Bounds -> Nat]

Modes ==
    /\ enabled \in BOOLEAN /\ synced \in BOOLEAN /\ suspended \in BOOLEAN
    /\ turns \in [Turns -> [begun : BOOLEAN, runs : BOOLEAN, recalled : SUBSET Turns]]
    /\ lifecycle \in [Agents -> Standings]
    /\ \A c \in changing : c \in [agent : Agents, kind : {"retain", "reactivate", "delete"},
                                  fails : BOOLEAN, old : {c.old}]

\* What is captured for the database has the types of the memory.
LEMMA CapturedTyped ==
    ASSUME disk \in Disks, Holds', NEW items PROVE Captured(items) \in Disks
<1> DEFINE C == CardsOf(items)
           S == items.segs \cup C
           news == [t \in Turns |-> IF t \in S \cap Present(segs') THEN segs'[t] ELSE disk.segs[t]]
           newc == [t \in Turns |-> IF t \in C /\ cards'[t] # "none" THEN cards'[t] ELSE disk.cards[t]]
           newr == {r \in disk.refs : r[1] \notin items.gone} \cup {r \in refs' : r[1] \in items.refs}
<1>1. /\ disk.segs \in [Turns -> Sound] /\ disk.cards \in [Turns -> CardStates]
      /\ disk.refs \in SUBSET (Nat \X Turns) /\ disk.lifecycle \in [Agents -> Standings]
  BY DEF Disks
<1>2. segs' \in [Turns -> Sound] /\ cards' \in [Turns -> CardStates] /\ refs' \in SUBSET (Nat \X Turns)
  BY DEF Holds
<1>3. Captured(items) = [segs |-> news, cards |-> newc, refs |-> newr, lifecycle |-> disk.lifecycle]
  BY DEF Captured
<1>4. news \in [Turns -> Sound]
  BY <1>1, <1>2
<1>5. newc \in [Turns -> CardStates]
  BY <1>1, <1>2
<1>6. newr \in SUBSET (Nat \X Turns)
  BY <1>1, <1>2
<1> HIDE DEF news, newc, newr
<1> QED
  BY <1>1, <1>3, <1>4, <1>5, <1>6 DEF Disks

LEMMA SavedTyped ==
    ASSUME disk \in Disks, Holds', NEW d, NEW items, Save(d, items) PROVE disk' \in Disks
BY CapturedTyped DEF Save

LEMMA EnsuredTyped ==
    ASSUME disk \in Disks, Holds', NEW d, NEW items, NEW S, Ensured(d, items, S) PROVE disk' \in Disks
BY SavedTyped DEF Ensured

LEMMA SoundChoice ==
    ASSUME NEW x \in Segment, x.attempts <= MaxRetries + 1,
           x.status \in {"PENDING", "PROCESSING"} => x.attempts <= MaxRetries
    PROVE  x \in Sound
BY DEF Sound

LEMMA NothingIsSound == NoSegment \in Sound
<1>1. NoSegment \in Segment
  BY DEF NoSegment, Segment
<1> QED
  BY <1>1, MemoryAssumption DEF NoSegment, Sound

\* Another status, and attempts that are left
LEMMA Restatus ==
    ASSUME NEW x \in Sound, NEW s \in {"PENDING", "PROCESSING", "INDEXED"},
           x.attempts <= MaxRetries
    PROVE  [x EXCEPT !.status = s] \in Sound
<1> DEFINE y == [x EXCEPT !.status = s]
<1>1. x \in Segment
  BY DEF Sound
<1>2. y \in Segment /\ y.attempts = x.attempts
  BY <1>1 DEF Segment
<1>3. x.attempts \in Nat /\ MaxRetries \in Nat
  BY <1>1, MemoryAssumption DEF Segment
<1> HIDE DEF y
<1> QED
  BY <1>2, <1>3 DEF Sound, y

LEMMA ResumedSound ==
    ASSUME NEW s \in [Turns -> Sound]
    PROVE  /\ Resumed(s) \in [Turns -> Sound]
           /\ \A t \in Turns : /\ Resumed(s)[t].status = IF s[t].status = "PROCESSING" THEN "PENDING"
                                                         ELSE s[t].status
                               /\ Resumed(s)[t].whole = s[t].whole
<1>1. ASSUME NEW t \in Turns
      PROVE  /\ Resumed(s)[t] \in Sound
             /\ Resumed(s)[t].status = IF s[t].status = "PROCESSING" THEN "PENDING" ELSE s[t].status
             /\ Resumed(s)[t].whole = s[t].whole
  <2>1. s[t] \in Sound /\ s[t] \in Segment
    BY DEF Sound
  <2>2. CASE s[t].status = "PROCESSING"
    <3>1. Resumed(s)[t] = [s[t] EXCEPT !.status = "PENDING"]
      BY <2>2 DEF Resumed
    <3>2. [s[t] EXCEPT !.status = "PENDING"] \in Sound
      BY <2>1, <2>2, Restatus DEF Sound
    <3>3. [s[t] EXCEPT !.status = "PENDING"].status = "PENDING"
          /\ [s[t] EXCEPT !.status = "PENDING"].whole = s[t].whole
      BY <2>1 DEF Segment
    <3> QED
      BY <2>2, <3>1, <3>2, <3>3
  <2>3. CASE s[t].status # "PROCESSING"
    BY <2>1, <2>3 DEF Resumed
  <2> QED
    BY <2>2, <2>3
<1>2. Resumed(s) = [t \in Turns |-> Resumed(s)[t]]
  BY DEF Resumed
<1> HIDE DEF Resumed
<1> QED
  BY <1>1, <1>2

LEMMA FailedSound ==
    ASSUME NEW x \in Sound, x.status \in {"PENDING", "PROCESSING"}
    PROVE  Failed(x) \in Sound /\ Failed(x).status \in {"PENDING", "FAILED"} /\ Failed(x).whole = x.whole
<1> DEFINE s == IF x.attempts >= MaxRetries THEN "FAILED" ELSE "PENDING"
           y == [x EXCEPT !.attempts = x.attempts + 1]
           z == [y EXCEPT !.status = s]
<1>1. x \in Segment /\ x.attempts <= MaxRetries
  BY DEF Sound
<1>2. x.attempts \in Nat /\ MaxRetries \in Nat
  BY <1>1, MemoryAssumption DEF Segment
<1>3. s \in {"PENDING", "FAILED"} /\ (s = "PENDING" => x.attempts + 1 <= MaxRetries)
      /\ x.attempts + 1 <= MaxRetries + 1 /\ x.attempts + 1 \in Nat
  BY <1>1, <1>2
<1>4. y \in Segment /\ y.attempts = x.attempts + 1 /\ y.whole = x.whole
  BY <1>1, <1>3 DEF Segment
<1>5. Failed(x) = z
  BY <1>1 DEF Failed, Segment
<1> HIDE DEF y, s
<1>6. z \in Segment /\ z.attempts = x.attempts + 1 /\ z.whole = x.whole /\ z.status = s
  BY <1>3, <1>4 DEF Segment
<1> HIDE DEF z
<1>7. z \in Sound
  BY <1>3, <1>6, SoundChoice
<1> QED
  BY <1>3, <1>5, <1>6, <1>7

Jobs == [seg : Turns, at : {"wait", "call", "sleep"}, own : BOOLEAN]

\* The queue and the workers
Queued ==
    /\ queue \in SUBSET Turns /\ Cardinality(queue) <= Slots
    /\ busy \in SUBSET Jobs /\ IsFiniteSet(busy) /\ Cardinality(busy) <= Workers
    /\ \A w \in busy : w.seg \notin queue /\ \A v \in busy : v.seg = w.seg => v = w
    /\ suspended => queue = {} /\ busy = {}

\* The segment of a worker that has not failed can be indexed.
Fit == \A w \in busy : w.own /\ w.at # "sleep" => segs[w.seg].status \in {"PENDING", "PROCESSING"}

Firm == Stored /\ Modes /\ Queued /\ Fit

LEMMA StoredFrom ==
    ASSUME Stored, Holds', journal' \in SUBSET Entries, disk' \in Disks, changing' \subseteq changing,
           spent' \in [Bounds -> Nat]
    PROVE  Stored'
BY DEF Stored, Memories, Entries

LEMMA Counted ==
    ASSUME Stored, NEW b \in Bounds, Count(b)
    PROVE  spent' \in [Bounds -> Nat] /\ (b # "faults" => spent'["faults"] = spent["faults"])
<1>1. spent \in [Bounds -> Nat] /\ "faults" \in Bounds
  BY DEF Stored, Bounds
<1>2. spent' = [spent EXCEPT ![b] = spent[b] + 1]
  BY DEF Count
<1> QED
  BY <1>1, <1>2

LEMMA HoldsOn == ASSUME Stored, UNCHANGED <<segs, cards, refs>> PROVE Holds'
BY DEF Stored, Holds

LEMMA StoredTurns ==
    ASSUME Firm, NEW t \in Turns, InTurn(t) PROVE Stored'
<1>0. /\ Stored /\ Holds /\ disk \in Disks /\ journal \in SUBSET Entries /\ spent \in [Bounds -> Nat]
      /\ \A b \in {"started", "finished", "cancelled", "indexed"} : <<b, t>> \in Entries
  BY DEF Firm, Stored, Entries
<1>1. CASE BeginTurn(t)
  <2>1. /\ UNCHANGED <<segs, cards, refs, changing, spent>> /\ Save(Within[t], NoBatch)
        /\ journal' = journal \cup {<<"started", t>>}
    BY <1>1 DEF BeginTurn
  <2>2. Holds'
    BY <1>0, <2>1, HoldsOn
  <2>3. disk' \in Disks
    BY <1>0, <2>1, <2>2, SavedTyped
  <2>4. journal' \in SUBSET Entries
    BY <1>0, <2>1
  <2> QED
    BY <1>0, <2>1, <2>2, <2>3, <2>4, StoredFrom
<1>2. CASE FinishTurn(t)
  <2>1. /\ UNCHANGED <<cards, refs, changing, spent>> /\ journal' = journal \cup {<<"finished", t>>}
    BY <1>2 DEF FinishTurn
  <2>2. PICK d, items, S : Ensured(d, items, S)
    BY <1>2 DEF FinishTurn
  <2>3. segs' \in [Turns -> Sound]
    <3> DEFINE x == [status |-> "PENDING", attempts |-> 0, whole |-> <<"started", t>> \in journal]
    <3>1. segs' = [segs EXCEPT ![t] = x] \/ UNCHANGED segs
      BY <1>2 DEF FinishTurn
    <3>2. x \in Segment /\ x.attempts <= MaxRetries + 1 /\ x.attempts <= MaxRetries
      BY MemoryAssumption DEF Segment
    <3>3. x \in Sound
      BY <3>2, SoundChoice
    <3> QED
      BY <1>0, <3>1, <3>3 DEF Holds
  <2>4. Holds'
    BY <1>0, <2>1, <2>3 DEF Holds
  <2>5. disk' \in Disks
    BY <1>0, <2>2, <2>4, EnsuredTyped
  <2>6. journal' \in SUBSET Entries
    BY <1>0, <2>1
  <2> QED
    BY <1>0, <2>1, <2>4, <2>5, <2>6, StoredFrom
<1>3. CASE CancelTurn(t)
  <2>1. /\ UNCHANGED <<segs, cards, refs, changing, disk>> /\ Count("cancels")
        /\ journal' = journal \cup {<<"cancelled", t>>}
    BY <1>3 DEF CancelTurn
  <2>2. spent' \in [Bounds -> Nat]
    BY <1>0, <2>1, Counted DEF Bounds
  <2>3. journal' \in SUBSET Entries
    BY <1>0, <2>1
  <2> QED
    BY <1>0, <2>1, <2>2, <2>3, HoldsOn, StoredFrom
<1>4. ASSUME NEW m \in Turns, Recall(t, m) \/ Keep(t, m) \/ Forget(t, m) PROVE Stored'
  <2>1. UNCHANGED <<segs, changing, journal>>
    BY <1>4 DEF Recall, Keep, Forget, Uses
  <2>2. PICK d, items, S : Ensured(d, items, S)
    BY <1>4 DEF Recall, Keep, Forget
  <2>3. spent' \in [Bounds -> Nat] /\ spent["keeps"] \in Nat
    BY <1>0, <1>4, Counted DEF Recall, Keep, Forget, Bounds
  <2>4. cards' \in [Turns -> CardStates]
    BY <1>0, <1>4 DEF Recall, Keep, Forget, Holds, CardStates
  <2>5. refs' \in SUBSET (Nat \X Turns)
    <3>1. CASE Recall(t, m)
      BY <1>0, <3>1 DEF Recall, Holds
    <3>2. CASE Keep(t, m)
      <4>1. PICK removed : refs' = (refs \cup {<<spent["keeps"], m>>}) \ removed
        BY <3>2 DEF Keep
      <4> QED
        BY <1>0, <2>3, <4>1 DEF Holds
    <3>3. CASE Forget(t, m)
      BY <1>0, <3>3 DEF Forget, Holds
    <3> QED
      BY <1>4, <3>1, <3>2, <3>3
  <2>6. Holds'
    BY <1>0, <2>1, <2>4, <2>5 DEF Holds
  <2>7. disk' \in Disks
    BY <1>0, <2>2, <2>6, EnsuredTyped
  <2> QED
    BY <1>0, <2>1, <2>3, <2>6, <2>7, StoredFrom
<1> QED
  BY <1>1, <1>2, <1>3, <1>4 DEF InTurn

LEMMA StoredWork ==
    ASSUME Firm, NEW t \in Turns, Work(t) PROVE Stored'
<1>0. /\ Stored /\ Holds /\ disk \in Disks /\ journal \in SUBSET Entries /\ spent \in [Bounds -> Nat]
      /\ <<"indexed", t>> \in Entries /\ segs[t] \in Sound
  BY DEF Firm, Stored, Entries, Holds
\* What has one segment changed, and is saved
<1>1. ASSUME NEW x \in Sound, segs' = [segs EXCEPT ![t] = x], UNCHANGED <<refs, changing>>,
             journal' \in SUBSET Entries, cards' \in [Turns -> CardStates],
             NEW items, disk' = Captured(items), spent' \in [Bounds -> Nat]
      PROVE  Stored'
  <2>1. Holds'
    BY <1>0, <1>1 DEF Holds
  <2>2. disk' \in Disks
    BY <1>0, <1>1, <2>1, CapturedTyped
  <2> QED
    BY <1>0, <1>1, <2>1, <2>2, StoredFrom
<1>2. ASSUME UNCHANGED <<segs, cards, refs, changing, journal, disk>>, spent' \in [Bounds -> Nat]
      PROVE  Stored'
  BY <1>0, <1>2, HoldsOn, StoredFrom
<1>3. CASE Take(t)
  <2>1. UNCHANGED <<journal, cards, refs, changing, spent>>
    BY <1>3 DEF Take
  <2>2. CASE segs[t].status = "PENDING" /\ enabled /\ Active(Owner[t])
    <3>1. segs' = [segs EXCEPT ![t] = [segs[t] EXCEPT !.status = "PROCESSING"]] /\ disk' = Captured(Segments({t}))
      BY <1>3, <2>2 DEF Take
    <3>2. [segs[t] EXCEPT !.status = "PROCESSING"] \in Sound
      BY <1>0, <2>2, Restatus DEF Sound
    <3>3. journal' \in SUBSET Entries /\ cards' \in [Turns -> CardStates] /\ spent' \in [Bounds -> Nat]
      BY <1>0, <2>1 DEF Holds
    <3> QED
      BY <1>1, <2>1, <3>1, <3>2, <3>3
  <2>3. CASE ~(segs[t].status = "PENDING" /\ enabled /\ Active(Owner[t]))
    <3>1. UNCHANGED <<segs, disk>>
      BY <1>3, <2>3 DEF Take
    <3> QED
      BY <1>0, <1>2, <2>1, <3>1
  <2> QED
    BY <2>2, <2>3
<1>4. ASSUME NEW w \in busy, w.seg = t, Admit(w) \/ Answer(w) \/ IndexFails(w) \/ Wake(w) PROVE Stored'
  <2>0. w.own /\ w.at # "sleep" => segs[t].status \in {"PENDING", "PROCESSING"}
    BY <1>4 DEF Firm, Fit
  <2>1. CASE Admit(w) \/ Wake(w)
    <3>1. UNCHANGED <<segs, cards, refs, changing, journal, disk, spent>>
      BY <2>1 DEF Admit, Wake, Outside, memVars
    <3> QED
      BY <1>0, <1>2, <3>1
  <2>2. CASE Answer(w)
    <3>1. UNCHANGED <<refs, changing, spent>> /\ w.at = "call"
      BY <2>2 DEF Answer, Outside
    <3>2. CASE ~w.own
      <4>1. UNCHANGED <<journal, segs, cards, disk>>
        BY <2>2, <3>2 DEF Answer
      <4> QED
        BY <1>0, <1>2, <3>1, <4>1
    <3>3. CASE w.own
      <4>1. PICK s, items :
                /\ s \in {"PENDING", "INDEXED"}
                /\ segs' = [segs EXCEPT ![t] = [segs[t] EXCEPT !.status = s]]
                /\ disk' = Captured(items)
        BY <1>4, <2>2, <3>3 DEF Answer
      <4>2. journal' \in SUBSET Entries
        BY <1>0, <1>4, <2>2, <3>3 DEF Answer
      <4>3. cards' \in [Turns -> CardStates]
        BY <1>0, <1>4, <2>2, <3>3 DEF Answer, Holds, CardStates
      <4>4. [segs[t] EXCEPT !.status = s] \in Sound
        BY <1>0, <2>0, <3>1, <3>3, <4>1, Restatus DEF Sound
      <4> QED
        BY <1>0, <1>1, <3>1, <4>1, <4>2, <4>3, <4>4
    <3> QED
      BY <3>2, <3>3
  <2>3. CASE IndexFails(w)
    <3>1. UNCHANGED <<refs, changing, journal, cards>> /\ w.at # "sleep"
      BY <2>3 DEF IndexFails, Outside, Refused
    <3>2. spent' \in [Bounds -> Nat]
      BY <1>0, <2>3, Counted DEF IndexFails, Bounds
    <3>3. CASE ~w.own
      <4>1. UNCHANGED <<segs, disk>>
        BY <2>3, <3>3 DEF IndexFails
      <4> QED
        BY <1>2, <3>1, <3>2, <4>1
    <3>4. CASE w.own
      <4>1. segs' = [segs EXCEPT ![t] = Failed(segs[t])] /\ disk' = Captured(Segments({t}))
        BY <1>4, <2>3, <3>4 DEF IndexFails
      <4>2. Failed(segs[t]) \in Sound
        BY <1>0, <2>0, <3>1, <3>4, FailedSound
      <4>3. journal' \in SUBSET Entries /\ cards' \in [Turns -> CardStates]
        BY <1>0, <3>1 DEF Holds
      <4> QED
        BY <1>1, <3>1, <3>2, <4>1, <4>2, <4>3
    <3> QED
      BY <3>3, <3>4
  <2> QED
    BY <1>4, <2>1, <2>2, <2>3
<1> QED
  BY <1>3, <1>4 DEF Work

LEMMA StoredHost ==
    ASSUME Firm,
           \/ \E t \in Turns : RetryIndex(t) \/ RestoreForgotten(t)
           \/ \E d \in Talks : EndTalk(d)
           \/ Flush \/ Toggle
    PROVE  Stored'
<1>0. /\ Stored /\ Holds /\ disk \in Disks /\ journal \in SUBSET Entries /\ spent \in [Bounds -> Nat]
  BY DEF Firm, Stored
<1>1. ASSUME NEW t \in Turns, RetryIndex(t) PROVE Stored'
  <2> DEFINE y == [segs[t] EXCEPT !.status = "PENDING"]
             x == [y EXCEPT !.attempts = 0]
  <2>1. segs[t] \in Segment /\ segs \in [Turns -> Sound]
    BY <1>0 DEF Holds, Sound
  <2>2. y \in Segment
    BY <2>1 DEF Segment
  <2>3. x \in Segment /\ x.attempts = 0
    BY <2>2 DEF Segment
  <2>4. segs' = [segs EXCEPT ![t] = x]
    BY <1>1, <2>1 DEF RetryIndex, Segment
  <2> HIDE DEF x, y
  <2>5. x \in Sound
    BY <2>3, SoundChoice, MemoryAssumption
  <2>6. UNCHANGED <<journal, cards, refs, changing>> /\ disk' = Captured(Segments({t})) /\ Count("retries")
    BY <1>1 DEF RetryIndex, Host
  <2>7. Holds'
    BY <1>0, <2>4, <2>5, <2>6 DEF Holds
  <2>8. disk' \in Disks
    BY <1>0, <2>6, <2>7, CapturedTyped
  <2>9. spent' \in [Bounds -> Nat]
    BY <1>0, <2>6, Counted DEF Bounds
  <2> QED
    BY <1>0, <2>6, <2>7, <2>8, <2>9, StoredFrom
<1>2. ASSUME NEW m \in Turns, RestoreForgotten(m) PROVE Stored'
  <2>1. /\ UNCHANGED <<segs, refs, changing, journal>> /\ Ensured(NoTalk, Cards({m}), {}) /\ Count("restored")
        /\ cards' = [cards EXCEPT ![m] = "active"]
    BY <1>2 DEF RestoreForgotten, Host
  <2>2. Holds'
    BY <1>0, <2>1 DEF Holds, CardStates
  <2>3. disk' \in Disks
    BY <1>0, <2>1, <2>2, EnsuredTyped
  <2>4. spent' \in [Bounds -> Nat]
    BY <1>0, <2>1, Counted DEF Bounds
  <2> QED
    BY <1>0, <2>1, <2>2, <2>3, <2>4, StoredFrom
<1>3. ASSUME NEW d \in Talks, EndTalk(d) PROVE Stored'
  <2>1. UNCHANGED <<segs, cards, refs, changing, journal, spent>> /\ disk' = Captured(batch[d])
    BY <1>3 DEF EndTalk, memVars
  <2>2. Holds'
    BY <1>0, <2>1, HoldsOn
  <2> QED
    BY <1>0, <2>1, <2>2, CapturedTyped, StoredFrom
<1>4. CASE Flush
  <2>1. /\ UNCHANGED <<cards, refs, changing, journal>> /\ segs' = Resumed(segs) /\ Count("flushes")
    BY <1>4 DEF Flush, Host
  <2>2. PICK items, S : Ensured(NoTalk, items, S)
    BY <1>4 DEF Flush
  <2>3. Holds'
    BY <1>0, <2>1, ResumedSound DEF Holds
  <2>4. disk' \in Disks
    BY <1>0, <2>2, <2>3, EnsuredTyped
  <2>5. spent' \in [Bounds -> Nat]
    BY <1>0, <2>1, Counted DEF Bounds
  <2> QED
    BY <1>0, <2>1, <2>3, <2>4, <2>5, StoredFrom
<1>5. CASE Toggle
  <2>1. UNCHANGED <<segs, cards, refs, changing, journal, disk>> /\ Count("toggles")
    BY <1>5 DEF Toggle, memVars, Host
  <2>2. spent' \in [Bounds -> Nat]
    BY <1>0, <2>1, Counted DEF Bounds
  <2> QED
    BY <1>0, <2>1, <2>2, HoldsOn, StoredFrom
<1> QED
  BY <1>1, <1>2, <1>3, <1>4, <1>5

\* What a deletion leaves has the types of what it was.
LEMMA WithoutTyped ==
    ASSUME NEW a, NEW f \in [Turns -> Sound], NEW g \in [Turns -> CardStates]
    PROVE  /\ [t \in Turns |-> IF Owner[t] = a THEN NoSegment ELSE f[t]] \in [Turns -> Sound]
           /\ [t \in Turns |-> IF Owner[t] = a THEN "none" ELSE g[t]] \in [Turns -> CardStates]
BY NothingIsSound DEF CardStates

LEMMA Standing ==
    ASSUME disk \in Disks, NEW a \in Agents, NEW l \in Standings
    PROVE  [disk EXCEPT !.lifecycle[a] = l] \in Disks
<1> DEFINE f == [disk.lifecycle EXCEPT ![a] = l]
<1>1. disk.lifecycle \in [Agents -> Standings]
  BY DEF Disks
<1>2. f \in [Agents -> Standings]
  BY <1>1
<1>3. [disk EXCEPT !.lifecycle[a] = l] = [disk EXCEPT !.lifecycle = f]
  OBVIOUS
<1> HIDE DEF f
<1> QED
  BY <1>2, <1>3 DEF Disks

\* What is left on the disk by a deletion, field by field
LEMMA DiskWithout ==
    ASSUME disk \in Disks, NEW a \in Agents
    PROVE  LET x == [Without(a, disk) EXCEPT !.lifecycle[a] = "deleted"] IN
           /\ x \in Disks
           /\ x.segs = [t \in Turns |-> IF Owner[t] = a THEN NoSegment ELSE disk.segs[t]]
           /\ x.cards = [t \in Turns |-> IF Owner[t] = a THEN "none" ELSE disk.cards[t]]
           /\ x.refs = {r \in disk.refs : Owner[r[2]] # a}
           /\ x.lifecycle = [disk.lifecycle EXCEPT ![a] = "deleted"]
<1> DEFINE s == [t \in Turns |-> IF Owner[t] = a THEN NoSegment ELSE disk.segs[t]]
           c == [t \in Turns |-> IF Owner[t] = a THEN "none" ELSE disk.cards[t]]
           r == {x \in disk.refs : Owner[x[2]] # a}
           l == [disk.lifecycle EXCEPT ![a] = "deleted"]
<1>1. /\ disk.segs \in [Turns -> Sound] /\ disk.cards \in [Turns -> CardStates]
      /\ disk.refs \in SUBSET (Nat \X Turns) /\ disk.lifecycle \in [Agents -> Standings]
      /\ disk = [segs |-> disk.segs, cards |-> disk.cards, refs |-> disk.refs, lifecycle |-> disk.lifecycle]
  BY DEF Disks
<1>2. s \in [Turns -> Sound] /\ c \in [Turns -> CardStates]
  BY ONLY <1>1, NothingIsSound DEF CardStates
<1>3. l \in [Agents -> Standings]
  BY <1>1 DEF Standings
<1>4. r \in SUBSET (Nat \X Turns)
  BY <1>1
<1>5. Without(a, disk) = [disk EXCEPT !.segs = s, !.cards = c, !.refs = r]
  BY DEF Without
<1>6. [Without(a, disk) EXCEPT !.lifecycle[a] = "deleted"] = [Without(a, disk) EXCEPT !.lifecycle = [@ EXCEPT ![a] = "deleted"]]
  OBVIOUS
<1> HIDE DEF s, c, r
<1>7. Without(a, disk) = [segs |-> s, cards |-> c, refs |-> r, lifecycle |-> disk.lifecycle]
  BY <1>1, <1>5
<1>8. [Without(a, disk) EXCEPT !.lifecycle[a] = "deleted"] = [segs |-> s, cards |-> c, refs |-> r, lifecycle |-> l]
  BY <1>6, <1>7
<1> HIDE DEF l
<1>9. [segs |-> s, cards |-> c, refs |-> r, lifecycle |-> l] \in Disks
  BY <1>2, <1>3, <1>4 DEF Disks
<1> QED
  BY <1>8, <1>9 DEF s, c, r, l

LEMMA ContentsWithout ==
    ASSUME NEW a, SetMemory(Without(a, Contents))
    PROVE  /\ journal' = journal
           /\ segs' = [t \in Turns |-> IF Owner[t] = a THEN NoSegment ELSE segs[t]]
           /\ cards' = [t \in Turns |-> IF Owner[t] = a THEN "none" ELSE cards[t]]
           /\ refs' = {r \in refs : Owner[r[2]] # a}
BY DEF SetMemory, Without, Contents

LEMMA Spending ==
    ASSUME Stored, NEW a, NEW kind, NEW fails \in BOOLEAN, NEW old, Begins(a, kind, fails, old)
    PROVE  /\ spent' \in [Bounds -> Nat] /\ spent'["faults"] >= spent["faults"]
           /\ fails => spent'["faults"] > 0
<1>1. spent \in [Bounds -> Nat] /\ "changes" \in Bounds /\ "faults" \in Bounds /\ "changes" # "faults"
  BY DEF Stored, Bounds
<1> DEFINE n == IF fails THEN 1 ELSE 0
           u == [spent EXCEPT !["changes"] = spent["changes"] + 1]
<1>2. n \in {0, 1} /\ (fails => n = 1)
  OBVIOUS
<1>3. spent' = [u EXCEPT !["faults"] = u["faults"] + n]
  BY DEF Begins
<1>4. u \in [Bounds -> Nat] /\ u["faults"] = spent["faults"]
  BY <1>1
<1> HIDE DEF u, n
<1> QED
  BY <1>1, <1>2, <1>3, <1>4

LEMMA StoredBegin ==
    ASSUME Firm, NEW a \in Agents, NEW fails \in BOOLEAN,
           Retain(a, fails) \/ Reactivate(a, fails) \/ Delete(a, fails)
    PROVE  Stored'
<1>0. /\ Stored /\ Holds /\ disk \in Disks /\ journal \in SUBSET Entries
      /\ \A c \in changing : c.old \subseteq Memories
  BY DEF Firm, Stored
<1>1. PICK kind, old : Begins(a, kind, fails, old) /\ old \in {{}, {Contents}}
  BY DEF Retain, Reactivate, Delete
<1>2. spent' \in [Bounds -> Nat]
  BY <1>0, <1>1, Spending
<1>3. Contents \in Memories
  BY <1>0 DEF Contents, Memories, Holds
<1>4. \A c \in changing' : c.old \subseteq Memories
  BY <1>0, <1>1, <1>3 DEF Begins
<1>5. Holds' /\ journal' \in SUBSET Entries
  <2>1. CASE Retain(a, fails) \/ Reactivate(a, fails)
    <3>1. UNCHANGED <<segs, cards, refs, journal>>
      BY <2>1 DEF Retain, Reactivate, memVars
    <3> QED
      BY <1>0, <3>1, HoldsOn
  <2>2. CASE Delete(a, fails)
    <3>1. SetMemory(Without(a, Contents))
      BY <2>2 DEF Delete
    <3>2. /\ journal' = journal
          /\ segs' = [t \in Turns |-> IF Owner[t] = a THEN NoSegment ELSE segs[t]]
          /\ cards' = [t \in Turns |-> IF Owner[t] = a THEN "none" ELSE cards[t]]
          /\ refs' = {r \in refs : Owner[r[2]] # a}
      BY <3>1, ContentsWithout
    <3>3. segs' \in [Turns -> Sound] /\ cards' \in [Turns -> CardStates]
      <4>1. segs \in [Turns -> Sound] /\ cards \in [Turns -> CardStates]
        BY <1>0 DEF Holds
      <4> QED
        BY ONLY <3>2, <4>1, WithoutTyped
    <3>4. refs' \in SUBSET (Nat \X Turns)
      BY <1>0, <3>2 DEF Holds
    <3> QED
      BY <1>0, <3>2, <3>3, <3>4 DEF Holds
  <2> QED
    BY <2>1, <2>2
<1>6. disk' \in Disks
  <2>1. CASE Retain(a, fails) \/ Reactivate(a, fails)
    <3>1. disk' = disk \/ \E l \in Standings : disk' = [disk EXCEPT !.lifecycle[a] = l]
      BY <2>1 DEF Retain, Reactivate, Standings
    <3> QED
      BY <1>0, <3>1, Standing
  <2>2. CASE Delete(a, fails)
    <3>1. disk' = disk \/ disk' = [Without(a, disk) EXCEPT !.lifecycle[a] = "deleted"]
      BY <2>2 DEF Delete
    <3> QED
      BY <1>0, <3>1, DiskWithout
  <2> QED
    BY <2>1, <2>2
<1> QED
  BY <1>2, <1>4, <1>5, <1>6 DEF Stored, Holds

LEMMA StoredReturn ==
    ASSUME Firm, NEW a \in Agents, Return(a) PROVE Stored'
<1>0. /\ Stored /\ Holds /\ disk \in Disks /\ journal \in SUBSET Entries /\ spent \in [Bounds -> Nat]
      /\ \A c \in changing : c.old \subseteq Memories
  BY DEF Firm, Stored
<1>1. PICK c \in changing : Confirmed(c) \/ RolledBack(c)
  BY DEF Return
<1>2. changing' \subseteq changing /\ UNCHANGED spent
  BY <1>1 DEF Confirmed, RolledBack
<1>3. CASE UNCHANGED <<segs, cards, refs, journal, disk>>
  BY <1>0, <1>2, <1>3, HoldsOn, StoredFrom
<1>4. CASE Confirmed(c) /\ c.kind = "reactivate"
  <2>1. segs' = Resumed(segs) /\ UNCHANGED <<cards, refs, journal>> /\ disk' = Captured(Segments(In(segs, "PROCESSING")))
    BY <1>4 DEF Confirmed, ResumePending
  <2>2. Holds'
    BY <1>0, <2>1, ResumedSound DEF Holds
  <2>3. disk' \in Disks
    BY <1>0, <2>1, <2>2, CapturedTyped
  <2> QED
    BY <1>0, <1>2, <2>1, <2>2, <2>3, StoredFrom
<1>5. CASE RolledBack(c) /\ c.kind = "delete"
  <2>1. PICK old \in c.old : SetMemory([old EXCEPT !.segs = Resumed(@)])
    BY <1>5 DEF RolledBack
  <2>2. old \in Memories
    BY <1>0
  <2>3. segs' = Resumed(old.segs) /\ cards' = old.cards /\ refs' = old.refs /\ journal' = old.journal
    BY <2>1, <2>2 DEF SetMemory, Memories
  <2>4. Holds' /\ journal' \in SUBSET Entries
    BY <2>2, <2>3, ResumedSound DEF Memories, Holds
  <2>5. UNCHANGED disk
    BY <1>5 DEF RolledBack
  <2> QED
    BY <1>0, <1>2, <2>4, <2>5, StoredFrom
<1>6. CASE ~(Confirmed(c) /\ c.kind = "reactivate") /\ ~(RolledBack(c) /\ c.kind = "delete")
  <2>1. UNCHANGED <<segs, cards, refs, journal, disk>>
    BY <1>1, <1>6 DEF Confirmed, RolledBack, memVars
  <2> QED
    BY <1>3, <2>1
<1> QED
  BY <1>4, <1>5, <1>6

LEMMA LoadedHolds ==
    ASSUME disk \in Disks, Loaded(disk) PROVE Holds'
BY ResumedSound DEF Loaded, Disks, Holds

LEMMA StoredRestore ==
    ASSUME Firm, Suspend \/ EndLoad \/ Restart PROVE Stored'
<1>0. /\ Stored /\ Holds /\ disk \in Disks /\ journal \in SUBSET Entries /\ spent \in [Bounds -> Nat]
  BY DEF Firm, Stored
<1>1. CASE Suspend
  <2>1. /\ segs' = Resumed(segs) /\ UNCHANGED <<cards, refs, journal, changing>> /\ Count("restores")
        /\ disk' = Captured(Segments(In(segs, "PROCESSING")))
    BY <1>1 DEF Suspend
  <2>2. Holds'
    BY <1>0, <2>1, ResumedSound DEF Holds
  <2>3. disk' \in Disks
    BY <1>0, <2>1, <2>2, CapturedTyped
  <2>4. spent' \in [Bounds -> Nat]
    BY <1>0, <2>1, Counted DEF Bounds
  <2> QED
    BY <1>0, <2>1, <2>2, <2>3, <2>4, StoredFrom
<1>2. CASE EndLoad
  <2>1. PICK ok \in BOOLEAN : EndRestore(ok)
    BY <1>2 DEF EndLoad
  <2>2. UNCHANGED <<changing, disk, journal, spent>>
    BY <2>1 DEF EndRestore
  <2>3. Holds'
    BY <1>0, <2>1, LoadedHolds, HoldsOn DEF EndRestore
  <2> QED
    BY <1>0, <2>2, <2>3, StoredFrom
<1>3. CASE Restart
  <2>1. UNCHANGED <<disk, journal>> /\ changing' = {} /\ Loaded(disk) /\ Count("restarts")
    BY <1>3 DEF Restart
  <2>2. Holds'
    BY <1>0, <2>1, LoadedHolds
  <2>3. spent' \in [Bounds -> Nat]
    BY <1>0, <2>1, Counted DEF Bounds
  <2> QED
    BY <1>0, <2>1, <2>2, <2>3, StoredFrom
<1> QED
  BY <1>1, <1>2, <1>3

LEMMA StoredNext == ASSUME Firm, [Next]_vars PROVE Stored'
<1>1. CASE UNCHANGED vars
  <2>1. UNCHANGED <<segs, cards, refs, journal, disk, changing, spent>>
    BY <1>1 DEF vars, memVars
  <2> QED
    BY <2>1, HoldsOn, StoredFrom DEF Firm, Stored
<1>2. ASSUME NEW a \in Agents, OfAgent(a) PROVE Stored'
  BY <1>2, StoredBegin, StoredReturn DEF OfAgent
<1> QED
  BY <1>1, <1>2, StoredTurns, StoredWork, StoredHost, StoredRestore DEF Next

Turning == [begun : BOOLEAN, runs : BOOLEAN, recalled : SUBSET Turns]
Change(c) == c \in [agent : Agents, kind : {"retain", "reactivate", "delete"}, fails : BOOLEAN, old : {c.old}]

LEMMA ModesFrom ==
    ASSUME Modes, enabled' \in BOOLEAN, synced' \in BOOLEAN, suspended' \in BOOLEAN,
           turns' \in [Turns -> Turning], lifecycle' \in [Agents -> Standings], changing' \subseteq changing
    PROVE  Modes'
BY DEF Modes, Turning

LEMMA TurnsTyped ==
    ASSUME Modes, NEW t \in Turns, InTurn(t) PROVE turns' \in [Turns -> Turning]
<1>0. turns \in [Turns -> Turning] /\ turns[t] \in Turning
  BY DEF Modes, Turning
<1>1. ASSUME NEW x \in Turning, turns' = [turns EXCEPT ![t] = x] PROVE turns' \in [Turns -> Turning]
  BY <1>0, <1>1
<1>2. CASE BeginTurn(t)
  <2> DEFINE y == [turns[t] EXCEPT !.begun = TRUE]
             x == [y EXCEPT !.runs = TRUE]
  <2>1. turns' = [turns EXCEPT ![t] = x]
    BY <1>0, <1>2 DEF BeginTurn, Turning
  <2>2. y \in Turning
    BY <1>0 DEF Turning
  <2>3. x \in Turning
    BY <2>2 DEF Turning
  <2> QED
    BY <1>1, <2>1, <2>3
<1>3. CASE FinishTurn(t) \/ CancelTurn(t)
  <2> DEFINE y == [turns[t] EXCEPT !.runs = FALSE]
             x == [y EXCEPT !.recalled = {}]
  <2>1. turns' = [turns EXCEPT ![t] = x]
    BY <1>0, <1>3 DEF FinishTurn, CancelTurn, Turning
  <2>2. y \in Turning
    BY <1>0 DEF Turning
  <2>3. x \in Turning
    BY <2>2 DEF Turning
  <2> QED
    BY <1>1, <2>1, <2>3
<1>4. ASSUME NEW m \in Turns, Recall(t, m) \/ Keep(t, m) \/ Forget(t, m) PROVE turns' \in [Turns -> Turning]
  <2>1. UNCHANGED turns \/ turns' = [turns EXCEPT ![t] = [turns[t] EXCEPT !.recalled = turns[t].recalled \cup {m}]]
    BY <1>0, <1>4 DEF Recall, Keep, Forget, Turning
  <2>2. [turns[t] EXCEPT !.recalled = turns[t].recalled \cup {m}] \in Turning
    BY <1>0 DEF Turning
  <2> QED
    BY <1>0, <1>1, <2>1, <2>2
<1> QED
  BY <1>2, <1>3, <1>4 DEF InTurn

LEMMA ModesTurns ==
    ASSUME Modes, NEW t \in Turns, InTurn(t) PROVE Modes'
<1>1. UNCHANGED <<enabled, suspended, lifecycle, changing>>
  BY DEF InTurn, BeginTurn, FinishTurn, CancelTurn, Recall, Keep, Forget, Uses, modeVars
<1>2. synced' \in BOOLEAN
  BY DEF InTurn, BeginTurn, FinishTurn, CancelTurn, Recall, Keep, Forget, Ensured, modeVars, Modes
<1> QED
  BY <1>1, <1>2, TurnsTyped, ModesFrom DEF Modes

LEMMA Emptied ==
    ASSUME Modes, turns' = [t \in Turns |-> [turns[t] EXCEPT !.recalled = {}]]
               \/ turns' = [t \in Turns |-> [turns[t] EXCEPT !.runs = FALSE, !.recalled = {}]]
    PROVE  turns' \in [Turns -> Turning]
<1>1. ASSUME NEW t \in Turns
      PROVE  /\ [turns[t] EXCEPT !.recalled = {}] \in Turning
             /\ [turns[t] EXCEPT !.runs = FALSE, !.recalled = {}] \in Turning
  <2>1. turns[t] \in Turning
    BY DEF Modes, Turning
  <2>2. [turns[t] EXCEPT !.runs = FALSE] \in Turning
    BY <2>1 DEF Turning
  <2> QED
    BY <2>1, <2>2 DEF Turning
<1> QED
  BY <1>1

LEMMA ModesNext == ASSUME Firm, [Next]_vars PROVE Modes'
<1>0. /\ Modes /\ disk \in Disks /\ lifecycle \in [Agents -> Standings] /\ turns \in [Turns -> Turning]
      /\ enabled \in BOOLEAN /\ synced \in BOOLEAN /\ suspended \in BOOLEAN
  BY DEF Firm, Stored, Modes, Turning
<1>1. ASSUME UNCHANGED <<turns, enabled, suspended, lifecycle>>, changing' \subseteq changing, synced' \in BOOLEAN
      PROVE  Modes'
  BY <1>0, <1>1, ModesFrom
<1>2. ASSUME NEW t \in Turns, Work(t) PROVE Modes'
  <2>1. UNCHANGED <<turns, enabled, synced, suspended, lifecycle, changing>>
    BY <1>2 DEF Work, Take, Admit, Answer, IndexFails, Wake, Outside, memVars, modeVars
  <2> QED
    BY <1>0, <1>1, <2>1
<1>3. ASSUME NEW t \in Turns, RetryIndex(t) \/ RestoreForgotten(t) PROVE Modes'
  <2>1. UNCHANGED <<turns, enabled, suspended, lifecycle, changing>>
    BY <1>3 DEF RetryIndex, RestoreForgotten, modeVars
  <2>2. synced' \in BOOLEAN
    BY <1>0, <1>3 DEF RetryIndex, RestoreForgotten, Ensured, modeVars
  <2> QED
    BY <1>1, <2>1, <2>2
<1>4. ASSUME NEW d \in Talks, EndTalk(d) PROVE Modes'
  <2>1. UNCHANGED <<turns, enabled, synced, suspended, lifecycle, changing>>
    BY <1>4 DEF EndTalk, memVars, modeVars
  <2> QED
    BY <1>0, <1>1, <2>1
<1>5. CASE Flush
  <2>1. UNCHANGED <<turns, enabled, suspended, lifecycle, changing>> /\ synced' \in BOOLEAN
    BY <1>5 DEF Flush, Ensured
  <2> QED
    BY <1>1, <2>1
<1>6. CASE Toggle
  <2>1. UNCHANGED <<turns, synced, suspended, lifecycle, changing>> /\ enabled' = ~enabled
    BY <1>6 DEF Toggle, memVars
  <2> QED
    BY <1>0, <2>1, ModesFrom
<1>7. ASSUME NEW a \in Agents, NEW fails \in BOOLEAN, Retain(a, fails) \/ Reactivate(a, fails) \/ Delete(a, fails)
      PROVE  Modes'
  <2>1. UNCHANGED <<turns, enabled, suspended>> /\ synced' \in BOOLEAN
    BY <1>0, <1>7 DEF Retain, Reactivate, Delete, memVars, modeVars
  <2>2. \E l \in Standings : lifecycle' = [lifecycle EXCEPT ![a] = l]
    BY <1>7 DEF Retain, Reactivate, Delete, Standings
  <2>3. lifecycle' \in [Agents -> Standings]
    BY <1>0, <2>2
  <2>4. PICK kind, old : Begins(a, kind, fails, old) /\ kind \in {"retain", "reactivate", "delete"}
    BY <1>7 DEF Retain, Reactivate, Delete
  <2> DEFINE v == [agent |-> a, kind |-> kind, fails |-> fails, old |-> old]
  <2>5. Change(v)
    BY <2>4 DEF Change
  <2>6. changing' = changing \cup {v}
    BY <2>4 DEF Begins
  <2> HIDE DEF v
  <2>7. \A c \in changing' : Change(c)
    BY <1>0, <2>5, <2>6 DEF Modes, Change
  <2> QED
    BY <1>0, <2>1, <2>3, <2>7 DEF Modes, Change, Turning
<1>8. ASSUME NEW a \in Agents, Return(a) PROVE Modes'
  <2>1. PICK c \in changing : Confirmed(c) \/ RolledBack(c)
    BY <1>8 DEF Return
  <2>2. changing' \subseteq changing /\ UNCHANGED <<enabled, suspended>> /\ c.agent \in Agents /\ synced' \in BOOLEAN
    BY <1>0, <2>1 DEF Confirmed, RolledBack, modeVars, Modes
  <2>3. UNCHANGED lifecycle \/ \E l \in Standings : lifecycle' = [lifecycle EXCEPT ![c.agent] = l]
    BY <2>1 DEF Confirmed, RolledBack, Standings
  <2>4. lifecycle' \in [Agents -> Standings]
    BY <1>0, <2>2, <2>3
  <2>5. UNCHANGED turns \/ turns' = [t \in Turns |-> [turns[t] EXCEPT !.recalled = {}]]
    BY <2>1 DEF Confirmed, RolledBack, memVars
  <2>6. turns' \in [Turns -> Turning]
    BY <1>0, <2>5, Emptied
  <2> QED
    BY <1>0, <2>2, <2>4, <2>6, ModesFrom
<1>9. CASE Suspend
  <2>1. UNCHANGED <<turns, enabled, synced, lifecycle, changing>> /\ suspended' = TRUE
    BY <1>9 DEF Suspend
  <2> QED
    BY <1>0, <2>1, ModesFrom
<1>10. CASE EndLoad
  <2>1. UNCHANGED <<turns, enabled, changing>> /\ suspended' = FALSE /\ synced' \in BOOLEAN
        /\ (lifecycle' = disk.lifecycle \/ UNCHANGED lifecycle)
    BY <1>0, <1>10 DEF EndLoad, EndRestore, Loaded
  <2>2. disk.lifecycle \in [Agents -> Standings]
    BY <1>0 DEF Disks
  <2> QED
    BY <1>0, <2>1, <2>2, ModesFrom
<1>11. CASE Restart
  <2>1. /\ UNCHANGED <<enabled>> /\ changing' = {} /\ suspended' = FALSE /\ synced' = FALSE
        /\ lifecycle' = disk.lifecycle
        /\ turns' = [t \in Turns |-> [turns[t] EXCEPT !.runs = FALSE, !.recalled = {}]]
    BY <1>11 DEF Restart, Loaded
  <2>2. disk.lifecycle \in [Agents -> Standings]
    BY <1>0 DEF Disks
  <2> QED
    BY <1>0, <2>1, <2>2, ModesFrom, Emptied
<1>12. CASE UNCHANGED vars
  <2>1. UNCHANGED <<turns, enabled, synced, suspended, lifecycle, changing>>
    BY <1>12 DEF vars, memVars, modeVars
  <2> QED
    BY <1>0, <1>1, <2>1
<1> QED
  BY <1>0, <1>2, <1>3, <1>4, <1>5, <1>6, <1>7, <1>8, <1>9, <1>10, <1>11, <1>12, ModesTurns DEF Next, OfAgent

\* Queue q is well for workers b.
Fits(q, b) ==
    /\ q \in SUBSET Turns /\ Cardinality(q) <= Slots
    /\ \A w \in b : w.seg \notin q

\* The workers are no more than there may be, each with a segment of its own.
Staffed(b) ==
    /\ b \in SUBSET Jobs /\ IsFiniteSet(b) /\ Cardinality(b) <= Workers
    /\ \A w \in b : \A v \in b : v.seg = w.seg => v = w

LEMMA QueuedIs == Queued <=> Fits(queue, busy) /\ Staffed(busy) /\ (suspended => queue = {} /\ busy = {})
BY DEF Queued, Fits, Staffed

\* Scheduling fills the queue at most, and queues nothing that a worker has.
LEMMA ScheduleFits ==
    ASSUME NEW q, NEW S \in SUBSET Turns, Schedule(q, S), Fits(q, busy')
    PROVE  Fits(queue', busy') /\ q \subseteq queue' /\ (suspended' => queue' = q)
<1>1. CASE ~(enabled' /\ ~suspended')
  BY <1>1 DEF Schedule
<1>2. CASE enabled' /\ ~suspended'
  <2> DEFINE new == S \ (q \cup {w.seg : w \in busy'})
             room == Slots - Cardinality(q)
  <2>1. PICK more \in SUBSET new :
            /\ queue' = q \cup more
            /\ Cardinality(more) = IF Cardinality(new) < room THEN Cardinality(new) ELSE room
    BY <1>2 DEF Schedule
  <2>2. more \subseteq S /\ more \cap q = {} /\ \A w \in busy' : w.seg \notin more
    BY <2>1
  <2>3. new \in SUBSET Turns /\ more \in SUBSET Turns /\ q \in SUBSET Turns
    BY <2>1 DEF Fits
  <2> HIDE DEF new
  <2>4. IsFiniteSet(more) /\ IsFiniteSet(q) /\ IsFiniteSet(new)
    BY <2>3, FS_Subset, MemoryAssumption
  <2>5. Cardinality(more) \in Nat /\ Cardinality(q) \in Nat /\ Cardinality(new) \in Nat
    BY <2>4, FS_CardinalityType
  <2>6. Cardinality(q \cup more) = Cardinality(q) + Cardinality(more) - Cardinality(q \cap more)
    BY <2>4, FS_Union
  <2>7. Cardinality(q \cap more) = 0
    BY <2>2, FS_EmptySet
  <2>8. Cardinality(q) <= Slots /\ Slots \in Nat
    BY MemoryAssumption DEF Fits
  <2>9. Cardinality(more) <= room
    BY <2>1, <2>5, <2>8
  <2>10. Cardinality(queue') <= Slots
    BY <2>1, <2>5, <2>6, <2>7, <2>8, <2>9
  <2> QED
    BY <1>2, <2>1, <2>2, <2>3, <2>10 DEF Fits
<1> QED
  BY <1>1, <1>2

LEMMA EmptyFits == ASSUME NEW b PROVE Fits({}, b)
BY FS_EmptySet, MemoryAssumption DEF Fits

\* A queue that is shorter by a segment
LEMMA ShorterFits ==
    ASSUME NEW q, NEW b, Fits(q, b), NEW t PROVE Fits(q \ {t}, b)
<1>1. q \in SUBSET Turns /\ IsFiniteSet(q)
  BY FS_Subset, MemoryAssumption DEF Fits
<1>2. Cardinality(q) \in Nat /\ Cardinality(q \ {t}) = IF t \in q THEN Cardinality(q) - 1 ELSE Cardinality(q)
  BY <1>1, FS_RemoveElement, FS_CardinalityType
<1> QED
  BY <1>1, <1>2, MemoryAssumption DEF Fits

LEMMA FewerStaffed ==
    ASSUME NEW b, Staffed(b), NEW w PROVE Staffed(b \ {w})
<1>0. IsFiniteSet(b)
  BY DEF Staffed
<1>1. Cardinality(b) \in Nat /\ IsFiniteSet(b \ {w}) /\ Cardinality(b \ {w}) \in Nat
      /\ Cardinality(b \ {w}) <= Cardinality(b)
  <2>1. /\ Cardinality(b) \in Nat /\ IsFiniteSet(b \ {w})
        /\ Cardinality(b \ {w}) = IF w \in b THEN Cardinality(b) - 1 ELSE Cardinality(b)
    BY <1>0, FS_RemoveElement, FS_CardinalityType
  <2>2. Cardinality(b \ {w}) \in Nat
    BY <2>1, FS_CardinalityType
  <2> QED
    BY <2>1, <2>2
<1> QED
  BY <1>1, MemoryAssumption DEF Staffed

LEMMA MoreStaffed ==
    ASSUME NEW b, Staffed(b), NEW v \in Jobs, Cardinality(b) < Workers, \A w \in b : w.seg # v.seg
    PROVE  Staffed(b \cup {v})
<1>0. IsFiniteSet(b)
  BY DEF Staffed
<1>1. Cardinality(b) \in Nat /\ IsFiniteSet(b \cup {v}) /\ Cardinality(b \cup {v}) \in Nat
      /\ Cardinality(b \cup {v}) <= Cardinality(b) + 1
  <2>1. /\ Cardinality(b) \in Nat /\ IsFiniteSet(b \cup {v})
        /\ Cardinality(b \cup {v}) = IF v \in b THEN Cardinality(b) ELSE Cardinality(b) + 1
    BY <1>0, FS_AddElement, FS_CardinalityType
  <2>2. Cardinality(b \cup {v}) \in Nat
    BY <2>1, FS_CardinalityType
  <2> QED
    BY <2>1, <2>2
<1>2. Cardinality(b \cup {v}) <= Workers
  BY <1>1, MemoryAssumption
<1> QED
  BY <1>1, <1>2 DEF Staffed

LEMMA ReplacedStaffed ==
    ASSUME NEW b, Staffed(b), NEW w \in b, NEW v \in Jobs, v.seg = w.seg
    PROVE  Staffed((b \ {w}) \cup {v})
<1>1. Staffed(b \ {w})
  BY FewerStaffed
<1>2. Cardinality(b \ {w}) = Cardinality(b) - 1 /\ Cardinality(b) \in Nat /\ Cardinality(b) <= Workers
  BY FS_RemoveElement, FS_CardinalityType DEF Staffed
<1>3. Cardinality(b \ {w}) < Workers
  BY <1>2, MemoryAssumption
<1>4. \A u \in b \ {w} : u.seg # v.seg
  BY DEF Staffed
<1> QED
  BY <1>1, <1>3, <1>4, MoreStaffed

\* Those that lose their segment are no more than before.
LEMMA DisownedStaffed ==
    ASSUME Staffed(busy), NEW S
    PROVE  /\ Staffed(Disowned(S))
           /\ \A v \in Disowned(S) : \E w \in busy : v.seg = w.seg /\ v.at = w.at /\ (v.own <=> w.own /\ w.seg \notin S)
<1> DEFINE lost(w) == [w EXCEPT !.own = w.own /\ w.seg \notin S]
           f == [w \in busy |-> lost(w)]
<1>1. ASSUME NEW w \in busy
      PROVE  lost(w) \in Jobs /\ lost(w).seg = w.seg /\ lost(w).at = w.at /\ (lost(w).own <=> w.own /\ w.seg \notin S)
  BY DEF Staffed, Jobs
<1>2. Disowned(S) = {lost(w) : w \in busy}
  BY DEF Disowned
<1> HIDE DEF lost
<1>3. f \in Surjection(busy, Disowned(S))
  BY <1>2 DEF Surjection
<1>4. IsFiniteSet(Disowned(S)) /\ Cardinality(Disowned(S)) <= Cardinality(busy)
  BY <1>3, FS_Surjection DEF Staffed
<1>5. Cardinality(Disowned(S)) \in Nat /\ Cardinality(busy) \in Nat
  BY <1>4, FS_CardinalityType DEF Staffed
<1>6. Cardinality(Disowned(S)) <= Workers
  BY <1>4, <1>5, MemoryAssumption DEF Staffed
<1>7. \A v \in Disowned(S) : \E w \in busy : v = lost(w)
  BY <1>2
<1> QED
  BY <1>1, <1>4, <1>6, <1>7 DEF Staffed

\* Nothing changes among the workers.
LEMMA QueuedSame ==
    ASSUME Queued, UNCHANGED <<busy, suspended>>,
           UNCHANGED queue \/ \E S \in SUBSET Turns : Schedule(queue, S)
    PROVE  Queued'
<1>1. Fits(queue, busy') /\ Staffed(busy') /\ (suspended' => queue = {} /\ busy' = {})
  BY QueuedIs
<1>2. Fits(queue', busy') /\ (suspended' => queue' = {})
  BY <1>1, ScheduleFits
<1> QED
  BY <1>1, <1>2 DEF Queued, Fits, Staffed

LEMMA EnsuredQueued ==
    ASSUME Queued, UNCHANGED <<busy, suspended>>, NEW d, NEW items, NEW S \in SUBSET Turns, Ensured(d, items, S)
    PROVE  Queued'
<1>1. Runnable(segs') \cup S \in SUBSET Turns
  BY DEF Runnable, In
<1>2. Schedule(queue, Runnable(segs') \cup S)
  BY DEF Ensured
<1> QED
  BY <1>1, <1>2, QueuedSame

Busy == Queued /\ Fit

\* Segments that can be indexed still can, unless nobody had them.
LEMMA BusySame ==
    ASSUME Busy, UNCHANGED <<busy, suspended>>,
           UNCHANGED queue \/ \E S \in SUBSET Turns : Schedule(queue, S),
           \A t \in Turns : segs[t].status \in {"PENDING", "PROCESSING"} =>
                                segs'[t].status \in {"PENDING", "PROCESSING"}
    PROVE  Busy'
<1>1. Queued'
  BY QueuedSame DEF Busy
<1>2. Fit'
  <2> SUFFICES ASSUME NEW w \in busy, w.own /\ w.at # "sleep"
               PROVE  segs'[w.seg].status \in {"PENDING", "PROCESSING"}
    BY DEF Fit
  <2>1. w.seg \in Turns
    BY DEF Busy, Queued, Jobs
  <2> QED
    BY <2>1 DEF Busy, Fit
<1> QED
  BY <1>1, <1>2 DEF Busy

LEMMA ResumedBusy ==
    ASSUME Firm, UNCHANGED <<busy, suspended>>, segs' = Resumed(segs),
           NEW S \in SUBSET Turns, Schedule(queue, S)
    PROVE  Busy'
<1>1. segs \in [Turns -> Sound]
  BY DEF Firm, Stored, Holds
<1>2. \A t \in Turns : segs'[t].status = IF segs[t].status = "PROCESSING" THEN "PENDING" ELSE segs[t].status
  BY <1>1, ResumedSound
<1>3. \A t \in Turns : segs[t].status \in {"PENDING", "PROCESSING"} =>
                                segs'[t].status \in {"PENDING", "PROCESSING"}
  BY <1>2
<1> QED
  BY <1>3, BusySame DEF Firm, Busy

LEMMA BusyTurns ==
    ASSUME Firm, NEW t \in Turns, InTurn(t) PROVE Busy'
<1>0. Busy /\ segs \in [Turns -> Sound]
  BY DEF Firm, Busy, Stored, Holds
<1>1. UNCHANGED <<busy, suspended>>
  BY DEF InTurn, BeginTurn, FinishTurn, CancelTurn, Recall, Keep, Forget, Uses, indexVars, modeVars
<1>2. UNCHANGED queue \/ \E d, items : Ensured(d, items, {})
  BY DEF InTurn, BeginTurn, FinishTurn, CancelTurn, Recall, Keep, Forget, indexVars
<1>3. UNCHANGED queue \/ \E S \in SUBSET Turns : Schedule(queue, S)
  <2>1. Runnable(segs') \cup {} \in SUBSET Turns
    BY DEF Runnable, In
  <2> QED
    BY <1>2, <2>1 DEF Ensured
<1>4. UNCHANGED segs \/ \E x : x.status = "PENDING" /\ segs' = [segs EXCEPT ![t] = x]
  <2>1. CASE FinishTurn(t)
    BY <2>1 DEF FinishTurn
  <2>2. CASE ~FinishTurn(t)
    BY <2>2 DEF InTurn, BeginTurn, CancelTurn, Recall, Keep, Forget, Uses
  <2> QED
    BY <2>1, <2>2
<1>5. \A u \in Turns : segs[u].status \in {"PENDING", "PROCESSING"} =>
                                segs'[u].status \in {"PENDING", "PROCESSING"}
  BY <1>0, <1>4
<1> QED
  BY <1>0, <1>1, <1>3, <1>5, BusySame

\* A worker that ends, and what it has done to its segment
LEMMA BusyEnds ==
    ASSUME Busy, NEW w \in busy, Ends(w), UNCHANGED suspended,
           \A u \in Turns \ {w.seg} : segs'[u] = segs[u]
    PROVE  Busy'
<1>1. busy' = busy \ {w} /\ Schedule(queue, Runnable(segs'))
  BY DEF Ends, LookOn
<1>2. Staffed(busy') /\ Fits(queue, busy') /\ (suspended' => queue = {} /\ busy' = {})
  BY <1>1, FewerStaffed, QueuedIs DEF Busy, Fits
<1>3. Runnable(segs') \in SUBSET Turns
  BY DEF Runnable, In
<1>4. Fits(queue', busy') /\ (suspended' => queue' = queue)
  BY <1>1, <1>2, <1>3, ScheduleFits
<1>5. Queued'
  BY <1>2, <1>4 DEF Queued, Fits, Staffed
<1>6. Fit'
  <2> SUFFICES ASSUME NEW v \in busy', v.own /\ v.at # "sleep"
               PROVE  segs'[v.seg].status \in {"PENDING", "PROCESSING"}
    BY DEF Fit
  <2>1. v \in busy /\ v # w /\ v.seg \in Turns
    BY <1>1 DEF Busy, Queued, Jobs
  <2>2. v.seg # w.seg
    BY <2>1 DEF Busy, Queued
  <2> QED
    BY <2>1, <2>2 DEF Busy, Fit
<1> QED
  BY <1>5, <1>6 DEF Busy

\* Another state of a worker
LEMMA BusyMoves ==
    ASSUME Busy, NEW w \in busy, NEW at \in {"call", "sleep"},
           busy' = (busy \ {w}) \cup {[w EXCEPT !.at = at]}, UNCHANGED <<queue, suspended>>,
           \A u \in Turns \ {w.seg} : segs'[u] = segs[u],
           at = "call" => UNCHANGED segs /\ w.at = "wait"
    PROVE  Busy'
<1> DEFINE v == [w EXCEPT !.at = at]
<1>1. v \in Jobs /\ v.seg = w.seg /\ v.own = w.own /\ v.at = at /\ w \in Jobs
  BY DEF Busy, Queued, Jobs
<1>2. busy' = (busy \ {w}) \cup {v}
  OBVIOUS
<1> HIDE DEF v
<1>3. Staffed(busy')
  BY <1>1, <1>2, QueuedIs, ReplacedStaffed DEF Busy
<1>4. Fits(queue, busy') /\ (suspended' => queue' = {} /\ busy' = {})
  BY <1>1, <1>2 DEF Busy, Queued, Fits
<1>5. Queued'
  BY <1>3, <1>4 DEF Queued, Fits, Staffed
<1>6. Fit'
  <2> SUFFICES ASSUME NEW x \in busy', x.own /\ x.at # "sleep"
               PROVE  segs'[x.seg].status \in {"PENDING", "PROCESSING"}
    BY DEF Fit
  <2>1. CASE x = v
    <3>1. at = "call" /\ w.own /\ w.at # "sleep"
      BY <1>1, <2>1
    <3> QED
      BY <1>1, <2>1, <3>1 DEF Busy, Fit
  <2>2. CASE x # v
    <3>1. x \in busy /\ x # w /\ x.seg \in Turns
      BY <1>2, <2>2 DEF Busy, Queued, Jobs
    <3>2. x.seg # w.seg
      BY <3>1 DEF Busy, Queued
    <3> QED
      BY <3>1, <3>2 DEF Busy, Fit
  <2> QED
    BY <2>1, <2>2
<1> QED
  BY <1>5, <1>6 DEF Busy

LEMMA BusyWork ==
    ASSUME Firm, NEW t \in Turns, Work(t) PROVE Busy'
<1>0. Busy /\ segs \in [Turns -> Sound]
  BY DEF Firm, Busy, Stored, Holds
<1>1. CASE Take(t)
  <2>1. t \in queue /\ Cardinality(busy) < Workers /\ UNCHANGED suspended
    BY <1>1 DEF Take, modeVars
  <2>2. Staffed(busy) /\ Fits(queue, busy) /\ Fits(queue \ {t}, busy) /\ ~suspended
    BY <1>0, <2>1, QueuedIs, ShorterFits DEF Busy
  <2>3. CASE segs[t].status = "PENDING" /\ enabled /\ Active(Owner[t])
    <3> DEFINE v == [seg |-> t, at |-> "wait", own |-> TRUE]
    <3>1. /\ segs' = [segs EXCEPT ![t] = [segs[t] EXCEPT !.status = "PROCESSING"]]
          /\ busy' = busy \cup {v} /\ queue' = queue \ {t}
      BY <1>1, <2>3 DEF Take
    <3>2. v \in Jobs /\ v.seg = t /\ v.own
      BY DEF Jobs
    <3>3. [segs[t] EXCEPT !.status = "PROCESSING"].status = "PROCESSING"
      BY <1>0 DEF Sound, Segment
    <3> HIDE DEF v
    <3>4. \A w \in busy : w.seg # t
      BY <2>1, <2>2 DEF Fits
    <3>5. Staffed(busy')
      BY <2>1, <2>2, <3>1, <3>2, <3>4, MoreStaffed
    <3>6. Fits(queue', busy')
      BY <2>2, <3>1, <3>2, <3>4 DEF Fits
    <3>7. Queued'
      BY <2>1, <2>2, <3>5, <3>6 DEF Queued, Fits, Staffed
    <3>8. Fit'
      <4> SUFFICES ASSUME NEW x \in busy', x.own /\ x.at # "sleep"
                   PROVE  segs'[x.seg].status \in {"PENDING", "PROCESSING"}
        BY DEF Fit
      <4>1. CASE x = v
        BY <1>0, <3>1, <3>2, <3>3, <4>1
      <4>2. CASE x # v
        <5>1. x \in busy
          BY <3>1, <4>2
        <5>2. x.seg \in Turns /\ x.seg # t
          BY <3>4, <5>1 DEF Firm, Queued, Jobs
        <5> QED
          BY <1>0, <3>1, <5>1, <5>2 DEF Busy, Fit
      <4> QED
        BY <4>1, <4>2
    <3> QED
      BY <3>7, <3>8 DEF Busy
  <2>4. CASE ~(segs[t].status = "PENDING" /\ enabled /\ Active(Owner[t]))
    <3>1. UNCHANGED <<segs, busy>> /\ Schedule(queue \ {t}, Runnable(segs'))
      BY <1>1, <2>4 DEF Take, LookOn
    <3>2. Runnable(segs') \in SUBSET Turns
      BY DEF Runnable, In
    <3>3. Fits(queue', busy')
      BY <2>2, <3>1, <3>2, ScheduleFits
    <3>4. Queued'
      BY <2>1, <2>2, <3>1, <3>3 DEF Queued, Fits, Staffed
    <3> QED
      BY <1>0, <3>1, <3>4 DEF Busy, Fit
  <2> QED
    BY <2>3, <2>4
<1>2. ASSUME NEW w \in busy, w.seg = t, Admit(w) \/ Answer(w) \/ IndexFails(w) \/ Wake(w) PROVE Busy'
  <2>1. UNCHANGED suspended /\ \A u \in Turns \ {w.seg} : segs'[u] = segs[u]
    BY <1>0, <1>2 DEF Admit, Answer, IndexFails, Wake, Outside, memVars, modeVars
  <2>2. CASE Ends(w)
    BY <1>0, <2>1, <2>2, BusyEnds
  <2>3. CASE Admit(w)
    <3>1. busy' = (busy \ {w}) \cup {[w EXCEPT !.at = "call"]} /\ UNCHANGED <<queue, segs>> /\ w.at = "wait"
      BY <2>3 DEF Admit, memVars
    <3> QED
      BY <1>0, <2>1, <3>1, BusyMoves
  <2>4. CASE ~Ends(w) /\ ~Admit(w)
    <3>1. busy' = (busy \ {w}) \cup {[w EXCEPT !.at = "sleep"]} /\ UNCHANGED queue
      BY <1>2, <2>4 DEF Answer, IndexFails, Wake
    <3> QED
      BY <1>0, <2>1, <3>1, BusyMoves
  <2> QED
    BY <2>2, <2>3, <2>4
<1> QED
  BY <1>1, <1>2 DEF Work

LEMMA BusyHost ==
    ASSUME Firm,
           \/ \E t \in Turns : RetryIndex(t) \/ RestoreForgotten(t)
           \/ \E d \in Talks : EndTalk(d)
           \/ Flush \/ Toggle
    PROVE  Busy'
<1>0. Busy /\ segs \in [Turns -> Sound]
  BY DEF Firm, Busy, Stored, Holds
<1>1. ASSUME NEW t \in Turns, RetryIndex(t) PROVE Busy'
  <2>1. UNCHANGED <<busy, suspended>> /\ Schedule(queue, {t})
    BY <1>1 DEF RetryIndex, modeVars
  <2>2. \A u \in Turns \ {t} : segs'[u] = segs[u]
    BY <1>0, <1>1 DEF RetryIndex
  <2>3. segs'[t].status = "PENDING"
    <3>1. segs[t] \in Segment
      BY <1>0 DEF Sound
    <3>2. segs' = [segs EXCEPT ![t] = [[segs[t] EXCEPT !.status = "PENDING"] EXCEPT !.attempts = 0]]
      BY <1>0, <1>1, <3>1 DEF RetryIndex, Segment
    <3> QED
      BY <1>0, <3>1, <3>2 DEF Segment
  <2>4. \A u \in Turns : segs[u].status \in {"PENDING", "PROCESSING"} =>
                                segs'[u].status \in {"PENDING", "PROCESSING"}
    BY <2>2, <2>3
  <2> QED
    BY <1>0, <2>1, <2>4, BusySame
<1>2. ASSUME NEW m \in Turns, RestoreForgotten(m) PROVE Busy'
  <2>1. UNCHANGED <<segs, busy, suspended>> /\ Ensured(NoTalk, Cards({m}), {})
    BY <1>2 DEF RestoreForgotten
  <2>2. Queued'
    BY <1>0, <2>1, EnsuredQueued DEF Busy
  <2> QED
    BY <1>0, <2>1, <2>2 DEF Busy, Fit
<1>3. ASSUME NEW d \in Talks, EndTalk(d) PROVE Busy'
  <2>1. UNCHANGED <<segs, busy, queue, suspended>>
    BY <1>3 DEF EndTalk, memVars, indexVars, modeVars
  <2> QED
    BY <1>0, <2>1, BusySame
<1>4. CASE Flush
  <2>1. UNCHANGED <<busy, suspended>> /\ segs' = Resumed(segs) /\ Schedule(queue, Runnable(segs') \cup In(segs', "PENDING"))
    BY <1>4 DEF Flush, Ensured
  <2>2. Runnable(segs') \cup In(segs', "PENDING") \in SUBSET Turns
    BY DEF Runnable, In
  <2> QED
    BY <2>1, <2>2, ResumedBusy
<1>5. CASE Toggle
  <2>1. UNCHANGED <<segs, busy, queue, suspended>>
    BY <1>5 DEF Toggle, memVars, indexVars
  <2> QED
    BY <1>0, <2>1, BusySame
<1> QED
  BY <1>1, <1>2, <1>3, <1>4, <1>5

LEMMA BusyDisowned ==
    ASSUME Firm, NEW S \in SUBSET Turns, busy' = Disowned(S), UNCHANGED <<queue, suspended>>,
           \A u \in Turns \ S : segs'[u] = segs[u]
    PROVE  Busy'
<1>0. Staffed(busy) /\ Fits(queue, busy) /\ (suspended => queue = {} /\ busy = {})
  BY QueuedIs DEF Firm
<1>1. /\ Staffed(busy')
      /\ \A v \in busy' : \E w \in busy : v.seg = w.seg /\ v.at = w.at /\ (v.own <=> w.own /\ w.seg \notin S)
  BY <1>0, DisownedStaffed
<1>2. Queued'
  BY <1>0, <1>1 DEF Queued, Fits, Staffed
<1>3. \A w \in busy : w.seg \in Turns
  BY DEF Firm, Queued, Jobs
<1>4. Fit'
  BY <1>1, <1>3 DEF Firm, Fit
<1> QED
  BY <1>2, <1>4 DEF Busy

LEMMA BusyAgents ==
    ASSUME Firm, NEW a \in Agents, OfAgent(a) PROVE Busy'
<1>0. Busy /\ segs \in [Turns -> Sound]
  BY DEF Firm, Busy, Stored, Holds
<1>1. ASSUME NEW fails \in BOOLEAN, Retain(a, fails) \/ Reactivate(a, fails) PROVE Busy'
  <2>1. UNCHANGED <<segs, busy, queue, suspended>>
    BY <1>1 DEF Retain, Reactivate, memVars, indexVars, modeVars
  <2> QED
    BY <1>0, <2>1, BusySame
<1>2. ASSUME NEW fails \in BOOLEAN, Delete(a, fails) PROVE Busy'
  <2>1. /\ busy' = Disowned(OwnedBy(a)) /\ UNCHANGED <<queue, suspended>> /\ SetMemory(Without(a, Contents))
    BY <1>2 DEF Delete
  <2>2. segs' = [t \in Turns |-> IF Owner[t] = a THEN NoSegment ELSE segs[t]]
    BY <2>1, ContentsWithout
  <2>3. OwnedBy(a) \in SUBSET Turns /\ \A u \in Turns \ OwnedBy(a) : segs'[u] = segs[u]
    BY <2>2 DEF OwnedBy
  <2> QED
    BY <2>1, <2>3, BusyDisowned
<1>3. ASSUME Return(a) PROVE Busy'
  <2>1. PICK c \in changing : Confirmed(c) \/ RolledBack(c)
    BY <1>3 DEF Return
  <2>2. CASE Confirmed(c) /\ c.kind = "reactivate"
    <3>1. segs' = Resumed(segs) /\ UNCHANGED <<busy, suspended>> /\ Schedule(queue, In(segs', "PENDING"))
      BY <2>2 DEF Confirmed, ResumePending, modeVars
    <3>2. In(segs', "PENDING") \in SUBSET Turns
      BY DEF In
    <3> QED
      BY <3>1, <3>2, ResumedBusy
  <2>3. CASE RolledBack(c) /\ c.kind = "delete"
    <3>1. busy' = Disowned(Turns) /\ UNCHANGED <<queue, suspended>>
      BY <2>3 DEF RolledBack
    <3> QED
      BY <3>1, BusyDisowned
  <2>4. CASE ~(Confirmed(c) /\ c.kind = "reactivate") /\ ~(RolledBack(c) /\ c.kind = "delete")
    <3>1. UNCHANGED <<segs, busy, queue, suspended>>
      BY <2>1, <2>4 DEF Confirmed, RolledBack, memVars, modeVars
    <3> QED
      BY <1>0, <3>1, BusySame
  <2> QED
    BY <2>1, <2>2, <2>3, <2>4
<1> QED
  BY <1>1, <1>2, <1>3 DEF OfAgent

\* There are no workers.
LEMMA BusyNone ==
    ASSUME busy' = {}, Fits(queue', {}), suspended' => queue' = {} PROVE Busy'
<1>1. Staffed({})
  BY FS_EmptySet, MemoryAssumption DEF Staffed
<1> QED
  BY <1>1 DEF Busy, Queued, Fits, Staffed, Fit

LEMMA BusyRestore ==
    ASSUME Firm, Suspend \/ EndLoad \/ Restart PROVE Busy'
<1>0. In(segs', "PENDING") \in SUBSET Turns
  BY DEF In
<1>1. CASE Suspend
  <2>1. busy' = {} /\ queue' = {}
    BY <1>1 DEF Suspend
  <2> QED
    BY <2>1, BusyNone, EmptyFits
<1>2. CASE EndLoad
  <2>1. busy' = {} /\ suspended' = FALSE /\ Schedule(queue, In(segs', "PENDING")) /\ queue = {}
    BY <1>2 DEF EndLoad, EndRestore, Firm, Queued
  <2>2. Fits(queue', busy')
    BY <1>0, <2>1, EmptyFits, ScheduleFits
  <2> QED
    BY <2>1, <2>2, BusyNone
<1>3. CASE Restart
  <2>1. busy' = {} /\ suspended' = FALSE /\ Schedule({}, In(segs', "PENDING"))
    BY <1>3 DEF Restart
  <2>2. Fits(queue', busy')
    BY <1>0, <2>1, EmptyFits, ScheduleFits
  <2> QED
    BY <2>1, <2>2, BusyNone
<1> QED
  BY <1>1, <1>2, <1>3

LEMMA FirmNext == ASSUME Firm, [Next]_vars PROVE Firm'
<1>1. CASE UNCHANGED vars
  <2>1. UNCHANGED <<segs, busy, queue, suspended>>
    BY <1>1 DEF vars, memVars, indexVars, modeVars
  <2>2. Busy'
    BY <2>1, BusySame DEF Firm, Busy
  <2> QED
    BY <2>2, StoredNext, ModesNext DEF Firm, Busy
<1>2. CASE Next
  <2>1. Busy'
    BY <1>2, BusyTurns, BusyWork, BusyHost, BusyAgents, BusyRestore DEF Next
  <2> QED
    BY <2>1, StoredNext, ModesNext DEF Firm, Busy
<1> QED
  BY <1>1, <1>2

LEMMA FirmInit == ASSUME Init PROVE Firm
<1>1. /\ NoSegment \in Sound /\ "none" \in CardStates /\ "active" \in Standings
  BY NothingIsSound DEF CardStates, Standings
<1>2. /\ segs \in [Turns -> Sound] /\ cards \in [Turns -> CardStates] /\ refs \in SUBSET (Nat \X Turns)
      /\ lifecycle \in [Agents -> Standings] /\ journal \in SUBSET Entries
      /\ disk = [segs |-> segs, cards |-> cards, refs |-> {}, lifecycle |-> lifecycle]
  BY <1>1 DEF Init
<1>3. disk \in Disks
  BY <1>2 DEF Disks
<1>4. Stored
  BY <1>2, <1>3 DEF Init, Stored, Holds
<1>5. Modes
  BY <1>2 DEF Init, Modes
<1>6. Queued /\ Fit
  BY FS_EmptySet, MemoryAssumption DEF Init, Queued, Fit
<1> QED
  BY <1>4, <1>5, <1>6 DEF Firm

\* Every variable keeps its type: the queue and the workers keep their limits
\* (memory/service/indexing.py), no two workers have the same segment and none that a
\* worker has is queued, and a segment is tried at most MaxRetries + 1 times
\* (_index_worker), whatever is flushed, retried, restored or rolled back meanwhile.
THEOREM MemoryTypes == Spec => []TypeOK
<1>1. Firm => TypeOK
  <2> SUFFICES ASSUME Firm PROVE TypeOK
    OBVIOUS
  <2>1. \A x \in Sound : x \in [status : {"none", "PENDING", "PROCESSING", "INDEXED", "FAILED"},
                                attempts : 0 .. MaxRetries + 1, whole : BOOLEAN]
    <3> SUFFICES ASSUME NEW x \in Sound
                 PROVE  x \in [status : {"none", "PENDING", "PROCESSING", "INDEXED", "FAILED"},
                               attempts : 0 .. MaxRetries + 1, whole : BOOLEAN]
      OBVIOUS
    <3>1. x \in Segment /\ x.attempts \in 0 .. MaxRetries + 1
      BY MemoryAssumption DEF Sound, Segment
    <3> QED
      BY <3>1 DEF Segment
  <2>2. segs \in [Turns -> [status : {"none", "PENDING", "PROCESSING", "INDEXED", "FAILED"},
                            attempts : 0 .. MaxRetries + 1, whole : BOOLEAN]]
    <3>1. segs \in [Turns -> Sound]
      BY DEF Firm, Stored, Holds
    <3> QED
      BY <2>1, <3>1
  <2>3. /\ cards \in [Turns -> {"none", "active", "forgotten"}] /\ refs \subseteq Nat \X Turns
        /\ journal \subseteq {"started", "finished", "cancelled", "indexed"} \X Turns
    BY DEF Firm, Stored, Holds, CardStates, Entries
  <2>4. /\ enabled \in BOOLEAN /\ synced \in BOOLEAN /\ suspended \in BOOLEAN
        /\ turns \in [Turns -> [begun : BOOLEAN, runs : BOOLEAN, recalled : SUBSET Turns]]
        /\ lifecycle \in [Agents -> {"active", "retained", "deleting", "deleted"}]
    BY DEF Firm, Modes, Standings
  <2>5. changing \subseteq [agent : Agents, kind : {"retain", "reactivate", "delete"},
                            fails : BOOLEAN, old : {c.old : c \in changing}]
    <3> SUFFICES ASSUME NEW c \in changing
                 PROVE  c \in [agent : Agents, kind : {"retain", "reactivate", "delete"},
                               fails : BOOLEAN, old : {x.old : x \in changing}]
      OBVIOUS
    <3>1. c \in [agent : Agents, kind : {"retain", "reactivate", "delete"}, fails : BOOLEAN, old : {c.old}]
      BY DEF Firm, Modes
    <3> QED
      BY <3>1
  <2>6. /\ queue \subseteq Turns /\ Cardinality(queue) <= Slots
        /\ busy \subseteq [seg : Turns, at : {"wait", "call", "sleep"}, own : BOOLEAN]
        /\ Cardinality(busy) <= Workers
        /\ \A w \in busy : w.seg \notin queue /\ \A v \in busy \ {w} : v.seg # w.seg
    BY DEF Firm, Queued, Jobs
  <2> QED
    BY <2>2, <2>3, <2>4, <2>5, <2>6 DEF TypeOK
<1>2. Firm /\ [Next]_vars => Firm'
  BY FirmNext
<1>3. Init => Firm
  BY FirmInit
<1> QED
  BY <1>1, <1>2, <1>3, PTL DEF Spec

-----------------------------------------------------------------------------
(* Restorable.  The database may lag behind the memory by what batches     *)
(* hold, but never leads it; so what is captured from a memory that        *)
(* validate_memory_state accepts, into a database that it accepts, leaves  *)
(* one that it accepts.                                                    *)

Pending == UNION {batch[d].gone : d \in Talks}
Batches == batch = [d \in Talks |-> batch[d]]

\* The live memory is valid.
Live ==
    /\ \A t \in Turns : segs[t].status # "none" =>
           lifecycle[Owner[t]] \notin {"deleting", "deleted"} /\ segs[t].whole
    /\ \A t \in Turns : cards[t] # "none" <=> segs[t].status = "INDEXED"
    /\ \A r \in refs : cards[r[2]] = "active"

\* The saved one is, up to the references whose removal is pending.
Dry ==
    /\ \A t \in Turns : disk.segs[t].status # "none" =>
           disk.lifecycle[Owner[t]] # "deleted" /\ disk.segs[t].whole
    /\ \A t \in Turns : disk.cards[t] # "none" <=> disk.segs[t].status = "INDEXED"
    /\ \A r \in disk.refs : r[1] \notin Pending => disk.cards[r[2]] = "active"

\* The database has nothing that the memory has not, pending removals apart.
Behind ==
    /\ \A t \in Turns : /\ disk.segs[t].status # "none" => segs[t].status # "none"
                        /\ disk.segs[t].status = "INDEXED" => segs[t].status = "INDEXED"
    /\ \A r \in disk.refs : r \in refs \/ r[1] \in Pending
    /\ \A a \in Agents : /\ disk.lifecycle[a] = "deleted" => lifecycle[a] \in {"deleting", "deleted"}
                         /\ disk.lifecycle[a] # "deleting"

\* Turns that run, or have not begun, have left no segment.
Fresh ==
    \A t \in Turns :
        /\ turns[t].runs => /\ turns[t].begun /\ Active(Owner[t]) /\ Changes(Owner[t]) = {}
                            /\ <<"started", t>> \in journal
        /\ turns[t].runs \/ ~turns[t].begun => segs[t].status = "none"

Unfailed == \A c \in changing : ~c.fails

Undone == Live /\ Dry /\ Behind /\ Fresh /\ Unfailed

\* What is captured into the database: the fields
LEMMA CapturedFields ==
    ASSUME Holds', disk \in Disks, NEW items, NEW t \in Turns
    PROVE  LET C == CardsOf(items) IN
           /\ Captured(items).segs[t] = IF t \in items.segs \cup C /\ segs'[t].status # "none" THEN segs'[t]
                                        ELSE disk.segs[t]
           /\ Captured(items).cards[t] = IF t \in C /\ cards'[t] # "none" THEN cards'[t] ELSE disk.cards[t]
           /\ Captured(items).lifecycle = disk.lifecycle
           /\ Captured(items).refs = {r \in disk.refs : r[1] \notin items.gone} \cup {r \in refs' : r[1] \in items.refs}
BY DEF Captured, Present

LEMMA CapturedCards ==
    ASSUME NEW items
    PROVE  /\ \A t \in items.segs : segs'[t].status = "INDEXED" => t \in CardsOf(items)
           /\ \A r \in refs' : r[1] \in items.refs => r[2] \in CardsOf(items)
BY DEF CardsOf

\* Capturing, when the memory is valid after the step and the database was
LEMMA CapturedKeeps ==
    ASSUME Holds', disk \in Disks, NEW items, disk' = Captured(items), Live', Dry,
           \A t \in Turns : /\ disk.segs[t].status # "none" => segs'[t].status # "none"
                            /\ disk.segs[t].status = "INDEXED" => segs'[t].status = "INDEXED",
           \A r \in disk.refs : r \in refs' \/ r[1] \in Pending \/ r[1] \in items.gone,
           \A a \in Agents : /\ disk.lifecycle[a] = "deleted" => lifecycle'[a] \in {"deleting", "deleted"}
                             /\ disk.lifecycle[a] # "deleting",
           NEW P, P = Pending', Pending \subseteq P \cup items.gone
    PROVE  Dry' /\ Behind'
<1> DEFINE C == CardsOf(items)
<1>0. \A t \in Turns : Owner[t] \in Agents
  BY MemoryAssumption
<1>1. \A t \in Turns :
          /\ disk'.segs[t] = IF t \in items.segs \cup C /\ segs'[t].status # "none" THEN segs'[t] ELSE disk.segs[t]
          /\ disk'.cards[t] = IF t \in C /\ cards'[t] # "none" THEN cards'[t] ELSE disk.cards[t]
  BY CapturedFields
<1>2. /\ disk'.lifecycle = disk.lifecycle
      /\ disk'.refs = {r \in disk.refs : r[1] \notin items.gone} \cup {r \in refs' : r[1] \in items.refs}
  BY DEF Captured
<1>3. /\ \A t \in items.segs : segs'[t].status = "INDEXED" => t \in C
      /\ \A r \in refs' : r[1] \in items.refs => r[2] \in C
  BY CapturedCards
<1>4. \A r \in refs' : r[2] \in Turns
  BY DEF Holds
<1>5. \A r \in disk.refs : r[2] \in Turns
  BY DEF Disks
<1> HIDE DEF C
<1>6. ASSUME NEW t \in Turns
      PROVE  /\ disk'.segs[t].status # "none" => disk'.lifecycle[Owner[t]] # "deleted" /\ disk'.segs[t].whole
             /\ disk'.cards[t] # "none" <=> disk'.segs[t].status = "INDEXED"
             /\ disk'.segs[t].status # "none" => segs'[t].status # "none"
             /\ disk'.segs[t].status = "INDEXED" => segs'[t].status = "INDEXED"
  <2>1. /\ disk'.segs[t] = IF t \in items.segs \cup C /\ segs'[t].status # "none" THEN segs'[t] ELSE disk.segs[t]
        /\ disk'.cards[t] = IF t \in C /\ cards'[t] # "none" THEN cards'[t] ELSE disk.cards[t]
        /\ t \in items.segs /\ segs'[t].status = "INDEXED" => t \in C
    BY <1>1, <1>3
  <2>2. /\ segs'[t].status # "none" => lifecycle'[Owner[t]] \notin {"deleting", "deleted"} /\ segs'[t].whole
        /\ cards'[t] # "none" <=> segs'[t].status = "INDEXED"
    BY DEF Live
  <2>3. /\ disk.segs[t].status # "none" => disk.lifecycle[Owner[t]] # "deleted" /\ disk.segs[t].whole
        /\ disk.cards[t] # "none" <=> disk.segs[t].status = "INDEXED"
    BY DEF Dry
  <2>4. /\ disk.segs[t].status # "none" => segs'[t].status # "none"
        /\ disk.segs[t].status = "INDEXED" => segs'[t].status = "INDEXED"
        /\ disk.lifecycle[Owner[t]] = "deleted" => lifecycle'[Owner[t]] \in {"deleting", "deleted"}
    BY <1>0
  <2> QED
    BY <1>2, <2>1, <2>2, <2>3, <2>4
<1>7. ASSUME NEW r \in disk'.refs
      PROVE  /\ r[1] \notin P => disk'.cards[r[2]] = "active"
             /\ r \in refs' \/ r[1] \in P
  <2>1. CASE r \in refs' /\ r[1] \in items.refs
    <3>1. r[2] \in C /\ r[2] \in Turns /\ cards'[r[2]] = "active"
      BY <1>3, <1>4, <2>1 DEF Live
    <3> QED
      BY <1>1, <2>1, <3>1
  <2>2. CASE r \in disk.refs /\ r[1] \notin items.gone
    <3>1. r[2] \in Turns /\ (r[1] \notin Pending => disk.cards[r[2]] = "active")
      BY <1>5, <2>2 DEF Dry
    <3>2. r \in refs' \/ r[1] \in P
      BY <2>2
    <3>3. r \in refs' => cards'[r[2]] = "active"
      BY DEF Live
    <3>4. r[1] \notin P => r[1] \notin Pending
      BY <2>2
    <3> QED
      BY <1>1, <3>1, <3>2, <3>3, <3>4
  <2> QED
    BY <1>2, <2>1, <2>2
<1>8. Dry'
  BY <1>6, <1>7 DEF Dry
<1>9. Behind'
  BY <1>2, <1>6, <1>7 DEF Behind
<1> QED
  BY <1>8, <1>9

\* Saving, at once or in the batch of a discussion
LEMMA SavedKeeps ==
    ASSUME Holds', disk \in Disks, Batches, NEW d \in Talks \cup {NoTalk}, NEW items, Save(d, items), Live', Dry,
           \A t \in Turns : /\ disk.segs[t].status # "none" => segs'[t].status # "none"
                            /\ disk.segs[t].status = "INDEXED" => segs'[t].status = "INDEXED",
           \A r \in disk.refs : r \in refs' \/ r[1] \in Pending \/ r[1] \in items.gone,
           \A a \in Agents : /\ disk.lifecycle[a] = "deleted" => lifecycle'[a] \in {"deleting", "deleted"}
                             /\ disk.lifecycle[a] # "deleting"
    PROVE  Dry' /\ Behind'
<1>1. CASE d = NoTalk
  <2>1. disk' = Captured(items) /\ UNCHANGED batch
    BY <1>1 DEF Save
  <2>2. Pending' = Pending
    BY <2>1 DEF Pending
  <2> QED
    BY <2>1, <2>2, CapturedKeeps
<1>2. CASE d # NoTalk
  <2>1. d \in Talks /\ UNCHANGED disk /\ batch' = [batch EXCEPT ![d] = Merged(batch[d], items)]
    BY <1>2 DEF Save
  <2>2. Merged(batch[d], items).gone = batch[d].gone \cup items.gone
    BY DEF Merged
  <2>3. batch'[d] = Merged(batch[d], items) /\ \A e \in Talks \ {d} : batch'[e] = batch[e]
    BY <2>1 DEF Batches
  <2>4. \A n : n \in Pending' <=> n \in Pending \/ n \in items.gone
    BY <2>1, <2>2, <2>3 DEF Pending
  <2>5. Dry'
    BY <2>1, <2>4 DEF Dry
  <2>6. Behind'
    BY <2>1, <2>4 DEF Behind
  <2> QED
    BY <2>5, <2>6
<1> QED
  BY <1>1, <1>2

LEMMA EnsuredSaves ==
    ASSUME NEW d, NEW items, NEW S, Ensured(d, items, S)
    PROVE  \E it : Save(d, it) /\ it.gone = items.gone
<1> DEFINE C == Cards({t \in Turns : cards[t] # "none"})
<1>1. C.gone = {}
  BY DEF Cards, NoBatch
<1>2. Merged(items, C).gone = items.gone
  BY <1>1 DEF Merged
<1> QED
  BY <1>2 DEF Ensured

LEMMA BatchesNext == ASSUME Batches, [Next]_vars PROVE Batches'
<1>1. ASSUME NEW d, NEW x, batch' = [batch EXCEPT ![d] = x] PROVE Batches'
  BY <1>1 DEF Batches
<1>2. ASSUME NEW d, NEW items, Save(d, items) PROVE Batches'
  BY <1>1, <1>2 DEF Save, Batches
<1>3. ASSUME NEW d, NEW items, NEW S, Ensured(d, items, S) PROVE Batches'
  BY <1>2, <1>3, EnsuredSaves
<1>4. ASSUME UNCHANGED batch PROVE Batches'
  BY <1>4 DEF Batches
<1>5. ASSUME NEW t \in Turns, InTurn(t) PROVE Batches'
  BY <1>2, <1>3, <1>4, <1>5 DEF InTurn, BeginTurn, FinishTurn, CancelTurn, Recall, Keep, Forget
<1>6. ASSUME NEW t \in Turns, Work(t) PROVE Batches'
  BY <1>4, <1>6 DEF Work, Take, Admit, Answer, IndexFails, Wake, Outside
<1>7. ASSUME NEW t \in Turns, RetryIndex(t) \/ RestoreForgotten(t) PROVE Batches'
  BY <1>3, <1>4, <1>7 DEF RetryIndex, RestoreForgotten
<1>8. ASSUME NEW a \in Agents, OfAgent(a) PROVE Batches'
  BY <1>4, <1>8 DEF OfAgent, Retain, Reactivate, Delete, Return, Confirmed, RolledBack
<1>9. CASE Restart
  BY <1>9 DEF Restart, Batches
<1>10. CASE Flush
  BY <1>3, <1>10 DEF Flush
<1>11. CASE Toggle \/ Suspend \/ EndLoad \/ UNCHANGED vars
  BY <1>4, <1>11 DEF Toggle, Suspend, EndLoad, EndRestore, vars
<1>12. ASSUME NEW d \in Talks, EndTalk(d) PROVE Batches'
  BY <1>1, <1>12 DEF EndTalk
<1> QED
  BY <1>5, <1>6, <1>7, <1>8, <1>9, <1>10, <1>11, <1>12 DEF Next

\* A failed flush is not forgotten.
LEMMA FaultsCounted ==
    ASSUME Firm, [Next]_vars, spent'["faults"] = 0 PROVE spent["faults"] = 0
<1>0. Stored /\ spent \in [Bounds -> Nat] /\ spent["faults"] \in Nat
  BY DEF Firm, Stored, Bounds
<1>1. ASSUME NEW b \in Bounds \ {"faults"}, Count(b) PROVE spent["faults"] = 0
  BY <1>0, <1>1, Counted
<1>2. ASSUME NEW a, NEW kind, NEW fails \in BOOLEAN, NEW old, Begins(a, kind, fails, old) PROVE spent["faults"] = 0
  BY <1>0, <1>2, Spending
<1>3. ASSUME UNCHANGED spent PROVE spent["faults"] = 0
  BY <1>3
<1>4. ASSUME NEW t \in Turns, InTurn(t) PROVE spent["faults"] = 0
  BY <1>1, <1>3, <1>4 DEF InTurn, BeginTurn, FinishTurn, CancelTurn, Recall, Keep, Forget, Bounds
<1>5. ASSUME NEW t \in Turns, Work(t) PROVE spent["faults"] = 0
  BY <1>1, <1>3, <1>5 DEF Work, Take, Admit, Answer, IndexFails, Wake, Bounds
<1>6. ASSUME NEW t \in Turns, RetryIndex(t) \/ RestoreForgotten(t) PROVE spent["faults"] = 0
  BY <1>1, <1>6 DEF RetryIndex, RestoreForgotten, Host, Bounds
<1>7. ASSUME NEW a \in Agents, OfAgent(a) PROVE spent["faults"] = 0
  <2>1. UNCHANGED spent \/ \E kind, old : \E fails \in BOOLEAN : Begins(a, kind, fails, old)
    BY <1>7 DEF OfAgent, Retain, Reactivate, Delete, Return, Confirmed, RolledBack
  <2> QED
    BY <1>2, <1>3, <2>1
<1>8. CASE Flush \/ Toggle
  BY <1>1, <1>8 DEF Flush, Toggle, Host, Bounds
<1>9. CASE Suspend \/ EndLoad \/ Restart \/ UNCHANGED vars
  BY <1>1, <1>3, <1>9 DEF Suspend, EndLoad, EndRestore, Restart, vars, Bounds
<1>10. ASSUME NEW d \in Talks, EndTalk(d) PROVE spent["faults"] = 0
  BY <1>3, <1>10 DEF EndTalk
<1> QED
  BY <1>4, <1>5, <1>6, <1>7, <1>8, <1>9, <1>10 DEF Next

\* An identity has one change at a time, and a restore waits for none.
Paired ==
    /\ \A c \in changing : c.kind = "delete" => lifecycle[c.agent] = "deleting"
    /\ \A c \in changing : \A e \in changing : c.agent = e.agent => c = e
    /\ suspended => changing = {} /\ \A t \in Turns : ~turns[t].runs

Clean == Undone /\ Paired

\* Nothing but the memory, its batches and the database changes.
LEMMA PairedSame ==
    ASSUME Paired, UNCHANGED <<lifecycle, changing, suspended>>,
           suspended => \A t \in Turns : turns'[t].runs => turns[t].runs
    PROVE  Paired'
BY DEF Paired

LEMMA FreshSame ==
    ASSUME Fresh, UNCHANGED <<lifecycle, changing>>, journal \subseteq journal',
           \A t \in Turns : /\ turns'[t].runs = turns[t].runs /\ turns'[t].begun = turns[t].begun
                            /\ segs[t].status = "none" => segs'[t].status = "none"
    PROVE  Fresh'
BY DEF Fresh, Active, Changes

LEMMA DiskSame ==
    ASSUME Dry, Behind, UNCHANGED <<disk, batch, lifecycle, refs>>,
           \A t \in Turns : /\ segs[t].status # "none" => segs'[t].status # "none"
                            /\ segs[t].status = "INDEXED" => segs'[t].status = "INDEXED"
    PROVE  Dry' /\ Behind'
<1>1. Pending' = Pending
  BY DEF Pending
<1> QED
  BY <1>1 DEF Dry, Behind

\* The segment of t moves on, and its card with it.
LEMMA OneMoves ==
    ASSUME Firm, Clean, NEW t \in Turns, NEW x \in Sound, segs' = [segs EXCEPT ![t] = x],
           segs[t].status \in {"PENDING", "PROCESSING", "FAILED"}, x.status # "none",
           x.whole = segs[t].whole,
           \/ x.status # "INDEXED" /\ UNCHANGED cards
           \/ x.status = "INDEXED" /\ cards' = [cards EXCEPT ![t] = "active"],
           UNCHANGED <<refs, lifecycle, turns, changing, batch, suspended>>, journal \subseteq journal',
           NEW items, disk' = Captured(items), items.gone = {}
    PROVE  Clean'
<1>0. /\ segs \in [Turns -> Sound] /\ cards \in [Turns -> CardStates] /\ disk \in Disks
      /\ refs \in SUBSET (Nat \X Turns)
  BY DEF Firm, Stored, Holds
<1>1. /\ Live /\ Dry /\ Behind /\ Fresh /\ Unfailed /\ Paired
  BY DEF Clean, Undone
<1>2. segs'[t] = x /\ \A u \in Turns \ {t} : segs'[u] = segs[u]
  BY <1>0
<1>3. cards'[t] = (IF x.status = "INDEXED" THEN "active" ELSE cards[t]) /\ \A u \in Turns \ {t} : cards'[u] = cards[u]
  BY <1>0
<1>4. cards[t] = "none"
  BY <1>1 DEF Live
<1>5. Holds'
  BY <1>0 DEF Holds, CardStates
<1>6. Live'
  <2>1. \A u \in Turns : segs'[u].status # "none" =>
           lifecycle'[Owner[u]] \notin {"deleting", "deleted"} /\ segs'[u].whole
    BY <1>1, <1>2 DEF Live
  <2>2. \A u \in Turns : cards'[u] # "none" <=> segs'[u].status = "INDEXED"
    BY <1>1, <1>2, <1>3, <1>4 DEF Live
  <2>3. \A r \in refs : r[2] \in Turns
    BY <1>0
  <2>4. \A r \in refs' : cards'[r[2]] = "active"
    BY <1>1, <1>3, <1>4, <2>3 DEF Live
  <2> QED
    BY <2>1, <2>2, <2>4 DEF Live
<1>7. Pending' = Pending
  BY DEF Pending
<1>8. /\ \A u \in Turns : /\ disk.segs[u].status # "none" => segs'[u].status # "none"
                          /\ disk.segs[u].status = "INDEXED" => segs'[u].status = "INDEXED"
      /\ \A r \in disk.refs : r \in refs' \/ r[1] \in Pending \/ r[1] \in items.gone
      /\ \A a \in Agents : /\ disk.lifecycle[a] = "deleted" => lifecycle'[a] \in {"deleting", "deleted"}
                           /\ disk.lifecycle[a] # "deleting"
  BY <1>1, <1>2 DEF Behind
<1>9. Dry' /\ Behind'
  BY <1>0, <1>1, <1>5, <1>6, <1>7, <1>8, CapturedKeeps
<1>10. Fresh'
  BY <1>1, <1>2, FreshSame
<1>11. Unfailed' /\ Paired'
  BY <1>1, PairedSame DEF Unfailed
<1> QED
  BY <1>6, <1>9, <1>10, <1>11 DEF Clean, Undone

\* Indexing is interrupted, and what was is saved.
LEMMA ResumedKeeps ==
    ASSUME Firm, Clean, segs' = Resumed(segs), UNCHANGED <<cards, refs, lifecycle, turns, journal>>
    PROVE  /\ Live' /\ Holds'
           /\ \A u \in Turns : /\ disk.segs[u].status # "none" => segs'[u].status # "none"
                               /\ disk.segs[u].status = "INDEXED" => segs'[u].status = "INDEXED"
           /\ \A u \in Turns : segs[u].status = "none" => segs'[u].status = "none"
<1>0. /\ segs \in [Turns -> Sound] /\ cards \in [Turns -> CardStates] /\ refs \in SUBSET (Nat \X Turns)
  BY DEF Firm, Stored, Holds
<1>1. /\ Live /\ Behind
  BY DEF Clean, Undone
<1>2. segs' \in [Turns -> Sound]
      /\ \A t \in Turns : /\ segs'[t].status = IF segs[t].status = "PROCESSING" THEN "PENDING" ELSE segs[t].status
                          /\ segs'[t].whole = segs[t].whole
  BY <1>0, ResumedSound
<1>3. Live'
  BY <1>1, <1>2 DEF Live
<1> QED
  BY <1>0, <1>1, <1>2, <1>3 DEF Holds, Behind

LEMMA ResumedCaptured ==
    ASSUME Firm, Clean, segs' = Resumed(segs), UNCHANGED <<cards, refs, lifecycle, turns, journal, batch>>,
           NEW items, disk' = Captured(items), items.gone = {}
    PROVE  Live' /\ Dry' /\ Behind'
<1>0. disk \in Disks /\ Dry /\ Behind
  BY DEF Firm, Stored, Clean, Undone
<1>1. /\ Live' /\ Holds'
      /\ \A u \in Turns : /\ disk.segs[u].status # "none" => segs'[u].status # "none"
                          /\ disk.segs[u].status = "INDEXED" => segs'[u].status = "INDEXED"
  BY ResumedKeeps
<1>2. Pending' = Pending
  BY DEF Pending
<1>3. /\ \A r \in disk.refs : r \in refs' \/ r[1] \in Pending \/ r[1] \in items.gone
      /\ \A a \in Agents : /\ disk.lifecycle[a] = "deleted" => lifecycle'[a] \in {"deleting", "deleted"}
                           /\ disk.lifecycle[a] # "deleting"
  BY <1>0 DEF Behind
<1>4. Dry' /\ Behind'
  BY <1>0, <1>1, <1>2, <1>3, CapturedKeeps
<1> QED
  BY <1>1, <1>4

\* Nothing of the memory, the database and the identities changes.
LEMMA CleanSame ==
    ASSUME Clean, UNCHANGED <<segs, cards, refs, disk, batch, lifecycle, changing, suspended>>,
           journal \subseteq journal',
           \A t \in Turns : /\ turns'[t].runs => turns[t].runs
                            /\ turns'[t].begun = turns[t].begun
    PROVE  Clean'
<1>1. /\ Live /\ Dry /\ Behind /\ Fresh /\ Unfailed /\ Paired
  BY DEF Clean, Undone
<1>2. Live' /\ Unfailed' /\ Paired'
  BY <1>1 DEF Live, Unfailed, Paired
<1>3. Dry' /\ Behind'
  BY <1>1, DiskSame
<1>4. Fresh'
  BY <1>1 DEF Fresh, Active, Changes
<1> QED
  BY <1>2, <1>3, <1>4 DEF Clean, Undone

-----------------------------------------------------------------------------

LEMMA CleanTurns ==
    ASSUME Firm, Batches, Clean, NEW t \in Turns, InTurn(t) PROVE Clean'
<1>0. /\ segs \in [Turns -> Sound] /\ cards \in [Turns -> CardStates] /\ disk \in Disks
      /\ refs \in SUBSET (Nat \X Turns) /\ turns \in [Turns -> Turning] /\ Holds' /\ segs' \in [Turns -> Sound]
      /\ cards' \in [Turns -> CardStates]
  BY StoredTurns DEF Firm, Stored, Holds, Modes, Turning
<1>1. /\ Live /\ Dry /\ Behind /\ Fresh /\ Unfailed /\ Paired
  BY DEF Clean, Undone
<1>2. Within[t] \in Talks \cup {NoTalk}
  BY MemoryAssumption
<1>3. ASSUME NEW items, NEW d \in Talks \cup {NoTalk}, Save(d, items), Live',
             \A u \in Turns : /\ segs[u].status # "none" => segs'[u].status # "none"
                              /\ segs[u].status = "INDEXED" => segs'[u].status = "INDEXED",
             \A r \in refs : r \in refs' \/ r[1] \in items.gone, UNCHANGED lifecycle
      PROVE  Dry' /\ Behind'
  <2>1. /\ \A u \in Turns : /\ disk.segs[u].status # "none" => segs'[u].status # "none"
                            /\ disk.segs[u].status = "INDEXED" => segs'[u].status = "INDEXED"
        /\ \A r \in disk.refs : r \in refs' \/ r[1] \in Pending \/ r[1] \in items.gone
        /\ \A a \in Agents : /\ disk.lifecycle[a] = "deleted" => lifecycle'[a] \in {"deleting", "deleted"}
                             /\ disk.lifecycle[a] # "deleting"
    BY <1>1, <1>3 DEF Behind
  <2> QED
    BY <1>0, <1>1, <1>3, <2>1, SavedKeeps
<1>4. CASE BeginTurn(t)
  <2>1. /\ UNCHANGED <<segs, cards, refs, lifecycle, changing, suspended>> /\ Save(Within[t], NoBatch)
        /\ journal' = journal \cup {<<"started", t>>}
        /\ turns[t] = [begun |-> FALSE, runs |-> FALSE, recalled |-> {}] /\ ~suspended
        /\ Active(Owner[t]) /\ Changes(Owner[t]) = {}
    BY <1>4 DEF BeginTurn, modeVars
  <2>2. turns' = [turns EXCEPT ![t] = [[turns[t] EXCEPT !.begun = TRUE] EXCEPT !.runs = TRUE]]
    BY <1>0, <1>4 DEF BeginTurn, Turning
  <2>3. turns'[t].begun /\ turns'[t].runs /\ \A u \in Turns \ {t} : turns'[u] = turns[u]
    BY <1>0, <2>2 DEF Turning
  <2>4. Live'
    BY <1>1, <2>1 DEF Live
  <2>5. Dry' /\ Behind'
    BY <1>2, <1>3, <2>1, <2>4
  <2>6. segs[t].status = "none"
    <3>1. ~turns[t].begun
      BY <2>1
    <3> QED
      BY <1>1, <3>1 DEF Fresh
  <2>7. Fresh'
    BY <1>1, <2>1, <2>3, <2>6, ZenonT(60) DEF Fresh, Active, Changes
  <2>8. Unfailed' /\ Paired'
    BY <1>1, <2>1, PairedSame DEF Unfailed
  <2> QED
    BY <2>4, <2>5, <2>7, <2>8 DEF Clean, Undone
<1>5. CASE FinishTurn(t)
  <2>1. /\ UNCHANGED <<cards, refs, lifecycle, changing, suspended>> /\ turns[t].runs
        /\ journal' = journal \cup {<<"finished", t>>}
    BY <1>5 DEF FinishTurn
  <2>2. turns' = [turns EXCEPT ![t] = [[turns[t] EXCEPT !.runs = FALSE] EXCEPT !.recalled = {}]]
    BY <1>0, <1>5 DEF FinishTurn, Turning
  <2>3. ~turns'[t].runs /\ turns'[t].begun = turns[t].begun /\ \A u \in Turns \ {t} : turns'[u] = turns[u]
    BY <1>0, <2>2 DEF Turning
  <2>4. /\ turns[t].begun /\ Active(Owner[t]) /\ <<"started", t>> \in journal /\ segs[t].status = "none"
    BY <1>1, <2>1 DEF Fresh
  <2>5. UNCHANGED segs \/ segs' = [segs EXCEPT ![t] = [status |-> "PENDING", attempts |-> 0, whole |-> TRUE]]
    BY <1>5, <2>4 DEF FinishTurn
  <2>6. /\ \A u \in Turns \ {t} : segs'[u] = segs[u]
        /\ segs'[t] = segs[t] \/ segs'[t] = [status |-> "PENDING", attempts |-> 0, whole |-> TRUE]
    BY <1>0, <2>5
  <2>7. lifecycle[Owner[t]] = "active"
    BY <2>4 DEF Active
  <2>8. Live'
    <3>1. \A u \in Turns : segs'[u].status # "none" =>
             lifecycle'[Owner[u]] \notin {"deleting", "deleted"} /\ segs'[u].whole
      BY <1>1, <2>1, <2>6, <2>7 DEF Live
    <3>2. \A u \in Turns : cards'[u] # "none" <=> segs'[u].status = "INDEXED"
      BY <1>1, <2>1, <2>4, <2>6 DEF Live
    <3> QED
      BY <1>1, <2>1, <3>1, <3>2 DEF Live
  <2>9. PICK items : Save(Within[t], items)
    <3>1. PICK old, S : Ensured(Within[t], old, S)
      BY <1>5 DEF FinishTurn
    <3> QED
      BY <3>1, EnsuredSaves
  <2>10. Dry' /\ Behind'
    BY <1>2, <1>3, <2>1, <2>4, <2>6, <2>8, <2>9
  <2>11. Fresh'
    BY <1>1, <2>1, <2>3, <2>4, <2>6 DEF Fresh, Active, Changes
  <2>12. Unfailed' /\ Paired'
    BY <1>1, <2>1, <2>3, PairedSame DEF Unfailed
  <2> QED
    BY <2>8, <2>10, <2>11, <2>12 DEF Clean, Undone
<1>6. CASE CancelTurn(t)
  <2>1. /\ UNCHANGED <<segs, cards, refs, disk, batch, lifecycle, changing, suspended>>
        /\ journal' = journal \cup {<<"cancelled", t>>}
    BY <1>6 DEF CancelTurn, modeVars
  <2>2. turns' = [turns EXCEPT ![t] = [[turns[t] EXCEPT !.runs = FALSE] EXCEPT !.recalled = {}]]
    BY <1>0, <1>6 DEF CancelTurn, Turning
  <2>3. ~turns'[t].runs /\ turns'[t].begun = turns[t].begun /\ \A u \in Turns \ {t} : turns'[u] = turns[u]
    BY <1>0, <2>2 DEF Turning
  <2>4. \A u \in Turns : (turns'[u].runs => turns[u].runs) /\ turns'[u].begun = turns[u].begun
    BY <2>3
  <2>5. journal \subseteq journal'
    BY <2>1
  <2> QED
    BY <2>1, <2>4, <2>5, CleanSame
<1>7. ASSUME NEW m \in Turns, Recall(t, m) \/ Keep(t, m) \/ Forget(t, m) PROVE Clean'
  <2>1. UNCHANGED <<segs, changing, journal, lifecycle, suspended>> /\ cards[m] = "active"
    BY <1>7 DEF Recall, Keep, Forget, Uses
  <2>2. \A u \in Turns : turns'[u].runs = turns[u].runs /\ turns'[u].begun = turns[u].begun
    <3>1. UNCHANGED turns \/ turns' = [turns EXCEPT ![t] = [turns[t] EXCEPT !.recalled = turns[t].recalled \cup {m}]]
      BY <1>0, <1>7 DEF Recall, Keep, Forget, Turning
    <3> QED
      BY <1>0, <3>1 DEF Turning
  <2>3. Fresh'
    BY <1>1, <2>1, <2>2, FreshSame
  <2>4. Unfailed' /\ Paired'
    BY <1>1, <2>1, <2>2, PairedSame DEF Unfailed
  <2>5. ASSUME Live', NEW items, Ensured(Within[t], items, {}), \A r \in refs : r \in refs' \/ r[1] \in items.gone
        PROVE  Clean'
    <3>1. PICK it : Save(Within[t], it) /\ it.gone = items.gone
      BY <2>5, EnsuredSaves
    <3>2. Dry' /\ Behind'
      BY <1>2, <1>3, <2>1, <2>5, <3>1
    <3> QED
      BY <2>3, <2>4, <2>5, <3>2 DEF Clean, Undone
  <2>6. CASE Recall(t, m)
    <3>1. UNCHANGED <<cards, refs>> /\ Ensured(Within[t], NoBatch, {})
      BY <2>6 DEF Recall
    <3>2. Live'
      BY <1>1, <2>1, <3>1 DEF Live
    <3> QED
      BY <2>5, <3>1, <3>2
  <2>7. CASE Keep(t, m)
    <3>1. PICK new, removed : /\ new[2] = m /\ refs' = (refs \cup {new}) \ removed /\ UNCHANGED cards
                              /\ Ensured(Within[t], [NoBatch EXCEPT !.refs = {new[1]}, !.gone = {r[1] : r \in removed}], {})
      BY <2>7 DEF Keep
    <3> DEFINE items == [NoBatch EXCEPT !.refs = {new[1]}, !.gone = {r[1] : r \in removed}]
    <3>2. items.gone = {r[1] : r \in removed}
      BY DEF NoBatch
    <3>3. Ensured(Within[t], items, {})
      BY <3>1
    <3> HIDE DEF items
    <3>4. Live'
      BY <1>1, <2>1, <3>1 DEF Live
    <3>5. \A r \in refs : r \in refs' \/ r[1] \in items.gone
      BY <3>1, <3>2
    <3> QED
      BY <2>5, <3>3, <3>4, <3>5
  <2>8. CASE Forget(t, m)
    <3>1. /\ cards' = [cards EXCEPT ![m] = "forgotten"] /\ refs' = refs \ Forgotten(m)
          /\ Ensured(Within[t], [Cards({m}) EXCEPT !.gone = {r[1] : r \in Forgotten(m)}], {})
      BY <2>8 DEF Forget
    <3> DEFINE items == [Cards({m}) EXCEPT !.gone = {r[1] : r \in Forgotten(m)}]
    <3>2. items.gone = {r[1] : r \in Forgotten(m)}
      BY DEF NoBatch, Cards
    <3>3. Ensured(Within[t], items, {})
      BY <3>1
    <3> HIDE DEF items
    <3>4. cards'[m] = "forgotten" /\ \A u \in Turns \ {m} : cards'[u] = cards[u]
      BY <1>0, <3>1
    <3>5. \A r \in refs' : r \in refs /\ r[2] # m /\ r[2] \in Turns
      BY <1>0, <3>1 DEF Forgotten
    <3>6. Live'
      BY <1>1, <2>1, <3>4, <3>5 DEF Live
    <3>7. \A r \in refs : r \in refs' \/ r[1] \in items.gone
      BY <3>1, <3>2
    <3> QED
      BY <2>5, <3>3, <3>6, <3>7
  <2> QED
    BY <1>7, <2>6, <2>7, <2>8
<1> QED
  BY <1>4, <1>5, <1>6, <1>7 DEF InTurn

LEMMA CleanWork ==
    ASSUME Firm, Clean, NEW t \in Turns, Work(t) PROVE Clean'
<1>0. /\ segs \in [Turns -> Sound] /\ cards \in [Turns -> CardStates]
      /\ segs[t] \in Sound /\ segs[t] \in Segment /\ Live
  BY DEF Firm, Stored, Holds, Sound, Clean, Undone
<1>1. UNCHANGED <<refs, lifecycle, turns, changing, batch, suspended>> /\ journal \subseteq journal'
  BY DEF Work, Take, Admit, Answer, IndexFails, Wake, Outside, memVars, modeVars
<1>2. ASSUME UNCHANGED <<segs, cards, disk>> PROVE Clean'
  BY <1>1, <1>2, CleanSame
<1>3. CASE Take(t)
  <2>1. UNCHANGED cards
    BY <1>3 DEF Take
  <2>2. CASE segs[t].status = "PENDING" /\ enabled /\ Active(Owner[t])
    <3> DEFINE x == [segs[t] EXCEPT !.status = "PROCESSING"]
    <3>1. segs' = [segs EXCEPT ![t] = x] /\ disk' = Captured(Segments({t}))
      BY <1>3, <2>2 DEF Take
    <3>2. x \in Sound
      BY <1>0, <2>2, Restatus DEF Sound
    <3>3. x.status = "PROCESSING" /\ x.whole = segs[t].whole
      BY <1>0 DEF Segment
    <3>4. Segments({t}).gone = {}
      BY DEF Segments, NoBatch
    <3> HIDE DEF x
    <3> QED
      BY <1>1, <2>1, <2>2, <3>1, <3>2, <3>3, <3>4, OneMoves
  <2>3. CASE ~(segs[t].status = "PENDING" /\ enabled /\ Active(Owner[t]))
    <3>1. UNCHANGED <<segs, disk>>
      BY <1>3, <2>3 DEF Take
    <3> QED
      BY <1>2, <2>1, <3>1
  <2> QED
    BY <2>2, <2>3
<1>4. ASSUME NEW w \in busy, w.seg = t, Admit(w) \/ Answer(w) \/ IndexFails(w) \/ Wake(w) PROVE Clean'
  <2>0. w.own /\ w.at # "sleep" => segs[t].status \in {"PENDING", "PROCESSING"}
    BY <1>4 DEF Firm, Fit
  <2>1. CASE Admit(w) \/ Wake(w)
    <3>1. UNCHANGED <<segs, cards, disk>>
      BY <2>1 DEF Admit, Wake, memVars
    <3> QED
      BY <1>2, <3>1
  <2>2. CASE Answer(w)
    <3>1. w.at = "call"
      BY <2>2 DEF Answer
    <3>2. CASE ~w.own
      <4>1. UNCHANGED <<segs, cards, disk>>
        BY <2>2, <3>2 DEF Answer
      <4> QED
        BY <1>2, <4>1
    <3>3. CASE w.own
      <4>0. segs[t].status \in {"PENDING", "PROCESSING"} /\ cards[t] = "none"
        BY <1>0, <2>0, <3>1, <3>3 DEF Live
      <4>1. PICK s, items :
                /\ \/ s = "PENDING" /\ UNCHANGED cards
                   \/ s = "INDEXED" /\ cards' = [cards EXCEPT ![t] = "active"]
                /\ segs' = [segs EXCEPT ![t] = [segs[t] EXCEPT !.status = s]]
                /\ disk' = Captured(items) /\ items.gone = {}
        <5>1. CASE ~enabled
          <6>1. /\ segs' = [segs EXCEPT ![t] = [segs[t] EXCEPT !.status = "PENDING"]] /\ UNCHANGED cards
                /\ disk' = Captured(Segments({t}))
            BY <1>4, <2>2, <3>3, <5>1 DEF Answer
          <6>2. Segments({t}).gone = {}
            BY DEF Segments, NoBatch
          <6> QED
            BY <6>1, <6>2
        <5>2. CASE enabled
          <6>1. /\ segs' = [segs EXCEPT ![t] = [segs[t] EXCEPT !.status = "INDEXED"]]
                /\ cards' = [cards EXCEPT ![t] = IF cards[t] = "none" THEN "active" ELSE cards[t]]
                /\ disk' = Captured([Segments({t}) EXCEPT !.cards = {t}])
            BY <1>4, <2>2, <3>3, <5>2 DEF Answer
          <6>2. [Segments({t}) EXCEPT !.cards = {t}].gone = {}
            BY DEF Segments, NoBatch
          <6>3. cards' = [cards EXCEPT ![t] = "active"]
            BY <4>0, <6>1
          <6> QED
            BY <6>1, <6>2, <6>3
        <5> QED
          BY <5>1, <5>2
      <4> DEFINE x == [segs[t] EXCEPT !.status = s]
      <4>2. x \in Sound
        BY <1>0, <4>0, <4>1, Restatus DEF Sound
      <4>3. x.status = s /\ x.whole = segs[t].whole
        BY <1>0, <4>1 DEF Segment
      <4>4. segs' = [segs EXCEPT ![t] = x]
        BY <4>1
      <4> HIDE DEF x
      <4> QED
        BY <1>1, <4>0, <4>1, <4>2, <4>3, <4>4, OneMoves
    <3> QED
      BY <3>2, <3>3
  <2>3. CASE IndexFails(w)
    <3>1. UNCHANGED cards /\ w.at # "sleep"
      BY <2>3 DEF IndexFails, Refused
    <3>2. CASE ~w.own
      <4>1. UNCHANGED <<segs, disk>>
        BY <2>3, <3>2 DEF IndexFails
      <4> QED
        BY <1>2, <3>1, <4>1
    <3>3. CASE w.own
      <4>1. segs' = [segs EXCEPT ![t] = Failed(segs[t])] /\ disk' = Captured(Segments({t}))
        BY <1>4, <2>3, <3>3 DEF IndexFails
      <4>2. segs[t].status \in {"PENDING", "PROCESSING"}
        BY <2>0, <3>1, <3>3
      <4>3. Failed(segs[t]) \in Sound /\ Failed(segs[t]).status \in {"PENDING", "FAILED"}
            /\ Failed(segs[t]).whole = segs[t].whole
        BY <1>0, <4>2, FailedSound
      <4>4. Segments({t}).gone = {}
        BY DEF Segments, NoBatch
      <4> QED
        BY <1>1, <3>1, <4>1, <4>2, <4>3, <4>4, OneMoves
    <3> QED
      BY <3>2, <3>3
  <2> QED
    BY <1>4, <2>1, <2>2, <2>3
<1> QED
  BY <1>3, <1>4 DEF Work

\* Saving, when neither segments nor references are lost nor identities change
LEMMA SavedClean ==
    ASSUME Firm, Batches, Clean, Holds', Live',
           NEW items, NEW d \in Talks \cup {NoTalk}, Save(d, items), UNCHANGED <<refs, lifecycle>>,
           \A u \in Turns : /\ disk.segs[u].status # "none" => segs'[u].status # "none"
                            /\ disk.segs[u].status = "INDEXED" => segs'[u].status = "INDEXED"
    PROVE  Dry' /\ Behind'
<1>0. disk \in Disks /\ Dry /\ Behind
  BY DEF Firm, Stored, Clean, Undone
<1>1. /\ \A r \in disk.refs : r \in refs' \/ r[1] \in Pending \/ r[1] \in items.gone
      /\ \A a \in Agents : /\ disk.lifecycle[a] = "deleted" => lifecycle'[a] \in {"deleting", "deleted"}
                           /\ disk.lifecycle[a] # "deleting"
  BY <1>0 DEF Behind
<1> QED
  BY <1>0, <1>1, SavedKeeps

LEMMA CleanHost ==
    ASSUME Firm, Batches, Clean,
           \/ \E t \in Turns : RetryIndex(t) \/ RestoreForgotten(t)
           \/ \E d \in Talks : EndTalk(d)
           \/ Flush \/ Toggle
    PROVE  Clean'
<1>0. /\ segs \in [Turns -> Sound] /\ cards \in [Turns -> CardStates] /\ disk \in Disks /\ Holds'
      /\ refs \in SUBSET (Nat \X Turns)
  BY StoredHost DEF Firm, Stored, Holds
<1>1. /\ Live /\ Dry /\ Behind /\ Fresh /\ Unfailed /\ Paired
  BY DEF Clean, Undone
<1>2. ASSUME NEW t \in Turns, RetryIndex(t) PROVE Clean'
  <2> DEFINE y == [segs[t] EXCEPT !.status = "PENDING"]
             x == [y EXCEPT !.attempts = 0]
  <2>1. segs[t] \in Segment
    BY <1>0 DEF Sound
  <2>2. y \in Segment /\ y.status = "PENDING" /\ y.whole = segs[t].whole
    BY <2>1 DEF Segment
  <2>3. segs' = [segs EXCEPT ![t] = x]
    BY <1>2, <2>1 DEF RetryIndex, Segment
  <2> HIDE DEF y
  <2>4. x \in Segment /\ x.status = "PENDING" /\ x.attempts = 0 /\ x.whole = segs[t].whole
    BY <2>2 DEF Segment
  <2> HIDE DEF x
  <2>5. x \in Sound
    BY <2>4, SoundChoice, MemoryAssumption
  <2>6. /\ UNCHANGED <<journal, cards, refs, changing, lifecycle, turns, batch, suspended>>
        /\ disk' = Captured(Segments({t})) /\ segs[t].status \in {"PENDING", "FAILED"}
    BY <1>2 DEF RetryIndex, modeVars
  <2>7. Segments({t}).gone = {}
    BY DEF Segments, NoBatch
  <2> QED
    BY <2>3, <2>4, <2>5, <2>6, <2>7, OneMoves
<1>3. ASSUME NEW m \in Turns, RestoreForgotten(m) PROVE Clean'
  <2>1. /\ UNCHANGED <<segs, refs, changing, journal, lifecycle, turns, suspended>>
        /\ Ensured(NoTalk, Cards({m}), {})
        /\ cards' = [cards EXCEPT ![m] = "active"] /\ cards[m] = "forgotten"
    BY <1>3 DEF RestoreForgotten
  <2>2. cards'[m] = "active" /\ \A u \in Turns \ {m} : cards'[u] = cards[u]
    BY <1>0, <2>1
  <2>3. Live'
    <3>1. \A r \in refs : r[2] \in Turns
      BY <1>0
    <3> QED
      BY <1>1, <2>1, <2>2, <3>1 DEF Live
  <2>4. PICK items : Save(NoTalk, items)
    BY <2>1, EnsuredSaves
  <2>5. Dry' /\ Behind'
    BY <1>0, <1>1, <2>1, <2>3, <2>4, SavedClean DEF Behind
  <2>6. Fresh' /\ Unfailed' /\ Paired'
    BY <1>1, <2>1, FreshSame, PairedSame DEF Unfailed
  <2> QED
    BY <2>3, <2>5, <2>6 DEF Clean, Undone
<1>4. ASSUME NEW d \in Talks, EndTalk(d) PROVE Clean'
  <2>1. /\ UNCHANGED <<segs, cards, refs, changing, journal, lifecycle, turns, suspended>>
        /\ disk' = Captured(batch[d]) /\ batch' = [batch EXCEPT ![d] = NoBatch]
    BY <1>4 DEF EndTalk, memVars, modeVars
  <2>2. Live'
    BY <1>1, <2>1 DEF Live
  <2>3. \A e \in Talks \ {d} : batch'[e] = batch[e]
    BY <2>1 DEF Batches
  <2>4. Pending \subseteq Pending' \cup batch[d].gone
    BY <2>3 DEF Pending
  <2>5. /\ \A u \in Turns : /\ disk.segs[u].status # "none" => segs'[u].status # "none"
                            /\ disk.segs[u].status = "INDEXED" => segs'[u].status = "INDEXED"
        /\ \A r \in disk.refs : r \in refs' \/ r[1] \in Pending \/ r[1] \in batch[d].gone
        /\ \A a \in Agents : /\ disk.lifecycle[a] = "deleted" => lifecycle'[a] \in {"deleting", "deleted"}
                             /\ disk.lifecycle[a] # "deleting"
    BY <1>1, <2>1 DEF Behind
  <2>6. Dry' /\ Behind'
    BY <1>0, <1>1, <2>1, <2>2, <2>4, <2>5, CapturedKeeps
  <2>7. Fresh' /\ Unfailed' /\ Paired'
    BY <1>1, <2>1, FreshSame, PairedSame DEF Unfailed
  <2> QED
    BY <2>2, <2>6, <2>7 DEF Clean, Undone
<1>5. CASE Flush
  <2>1. /\ UNCHANGED <<cards, refs, changing, journal, lifecycle, turns, suspended>>
        /\ segs' = Resumed(segs)
        /\ \E items, S : Ensured(NoTalk, items, S)
    BY <1>5 DEF Flush
  <2>2. /\ Live' /\ Holds'
        /\ \A u \in Turns : /\ disk.segs[u].status # "none" => segs'[u].status # "none"
                            /\ disk.segs[u].status = "INDEXED" => segs'[u].status = "INDEXED"
        /\ \A u \in Turns : segs[u].status = "none" => segs'[u].status = "none"
    BY <2>1, ResumedKeeps
  <2>3. PICK items : Save(NoTalk, items)
    BY <2>1, EnsuredSaves
  <2>4. Dry' /\ Behind'
    BY <2>1, <2>2, <2>3, SavedClean
  <2>5. Fresh' /\ Unfailed' /\ Paired'
    BY <1>1, <2>1, <2>2, FreshSame, PairedSame DEF Unfailed
  <2> QED
    BY <2>2, <2>4, <2>5 DEF Clean, Undone
<1>6. CASE Toggle
  <2>1. UNCHANGED <<segs, cards, refs, disk, batch, lifecycle, changing, suspended, journal, turns>>
    BY <1>6 DEF Toggle, memVars
  <2> QED
    BY <2>1, CleanSame
<1> QED
  BY <1>2, <1>3, <1>4, <1>5, <1>6

\* A change of an identity begins, and its flush will return.
LEMMA CleanBegins ==
    ASSUME Firm, Clean, NEW a \in Agents, NEW kind, NEW old, Begins(a, kind, FALSE, old),
           NEW l \in Standings, l # "active" \/ kind = "reactivate", kind = "delete" => l = "deleting",
           lifecycle' = [lifecycle EXCEPT ![a] = l], UNCHANGED <<turns, journal, suspended>>,
           \A u \in Turns : segs[u].status = "none" => segs'[u].status = "none"
    PROVE  Fresh' /\ Unfailed' /\ Paired'
<1>0. lifecycle \in [Agents -> Standings] /\ \A c \in changing : c.agent \in Agents
  BY DEF Firm, Modes
<1>1. Fresh /\ Unfailed /\ Paired
  BY DEF Clean, Undone
<1> DEFINE v == [agent |-> a, kind |-> kind, fails |-> FALSE, old |-> old]
<1>2. /\ changing' = changing \cup {v} /\ Changes(a) = {} /\ ~Locked(a) /\ ~suspended
  BY DEF Begins
<1>3. v.agent = a /\ ~v.fails /\ v.kind = kind
  OBVIOUS
<1> HIDE DEF v
<1>4. Unfailed'
  BY <1>1, <1>2, <1>3 DEF Unfailed
<1>5. lifecycle'[a] = l /\ \A b \in Agents \ {a} : lifecycle'[b] = lifecycle[b]
  BY <1>0
<1>6. \A c \in changing : c.agent # a
  BY <1>2 DEF Changes
<1>7. Paired'
  <2>1. \A c \in changing' : c.kind = "delete" => lifecycle'[c.agent] = "deleting"
    BY <1>0, <1>1, <1>2, <1>3, <1>5, <1>6 DEF Paired
  <2>2. \A c \in changing' : \A e \in changing' : c.agent = e.agent => c = e
    BY <1>1, <1>2, <1>3, <1>6 DEF Paired
  <2>3. ~suspended'
    BY <1>2
  <2> QED
    BY <2>1, <2>2, <2>3 DEF Paired
<1>8. Fresh'
  <2>1. ASSUME NEW t \in Turns, turns[t].runs
        PROVE  Owner[t] # a /\ Owner[t] \in Agents
    BY <1>2, <2>1, MemoryAssumption DEF Locked, OwnedBy
  <2>2. ASSUME NEW t \in Turns, turns[t].runs
        PROVE  Active(Owner[t])' /\ Changes(Owner[t])' = {}
    <3>1. Owner[t] # a /\ Owner[t] \in Agents /\ Active(Owner[t]) /\ Changes(Owner[t]) = {}
      BY <1>1, <2>1, <2>2 DEF Fresh
    <3> QED
      BY <1>2, <1>3, <1>5, <3>1 DEF Active, Changes
  <2> QED
    BY <1>1, <2>2 DEF Fresh
<1> QED
  BY <1>4, <1>7, <1>8

LEMMA CleanChanges ==
    ASSUME Firm, Clean, NEW a \in Agents, NEW fails \in BOOLEAN,
           Retain(a, fails) \/ Reactivate(a, fails) \/ Delete(a, fails), spent'["faults"] = 0
    PROVE  Clean'
<1>0. /\ segs \in [Turns -> Sound] /\ cards \in [Turns -> CardStates] /\ disk \in Disks
      /\ refs \in SUBSET (Nat \X Turns) /\ lifecycle \in [Agents -> Standings] /\ Stored
      /\ \A t \in Turns : Owner[t] \in Agents
      /\ disk.segs \in [Turns -> Sound] /\ disk.cards \in [Turns -> CardStates]
      /\ disk.lifecycle \in [Agents -> Standings] /\ disk.refs \in SUBSET (Nat \X Turns)
  BY MemoryAssumption DEF Firm, Stored, Holds, Modes, Disks
<1>1. /\ Live /\ Dry /\ Behind /\ Fresh /\ Unfailed /\ Paired
  BY DEF Clean, Undone
<1>2. PICK kind, old : Begins(a, kind, fails, old)
  BY DEF Retain, Reactivate, Delete
<1>3. ~fails
  <2>1. spent["faults"] \in Nat /\ spent'["faults"] \in Nat
    BY <1>0, <1>2, Spending DEF Stored, Bounds
  <2> QED
    BY <1>0, <1>2, <2>1, Spending
<1>4. UNCHANGED batch /\ Pending' = Pending
  BY DEF Retain, Reactivate, Delete, Pending
<1>5. CASE Retain(a, fails) \/ Reactivate(a, fails)
  <2>1. PICK l \in {"active", "retained"} :
            /\ lifecycle' = [lifecycle EXCEPT ![a] = l] /\ disk' = [disk EXCEPT !.lifecycle[a] = l]
            /\ l = "active" => Begins(a, "reactivate", FALSE, {})
            /\ l = "retained" => Begins(a, "retain", FALSE, {})
            /\ lifecycle[a] \in {"active", "retained"}
    BY <1>3, <1>5 DEF Retain, Reactivate, Active
  <2>2. UNCHANGED <<segs, cards, refs, journal, turns, suspended>>
    BY <1>5 DEF Retain, Reactivate, memVars, modeVars
  <2>3. /\ disk'.segs = disk.segs /\ disk'.cards = disk.cards /\ disk'.refs = disk.refs
        /\ disk'.lifecycle = [disk.lifecycle EXCEPT ![a] = l]
    BY <1>0, <2>1 DEF Disks
  <2>4. /\ lifecycle'[a] = l /\ \A b \in Agents \ {a} : lifecycle'[b] = lifecycle[b]
        /\ disk'.lifecycle[a] = l /\ \A b \in Agents \ {a} : disk'.lifecycle[b] = disk.lifecycle[b]
    BY <1>0, <2>1, <2>3
  <2>5. Live'
    BY <1>0, <1>1, <2>1, <2>2, <2>4 DEF Live
  <2>6. Dry'
    BY <1>0, <1>1, <1>4, <2>1, <2>3, <2>4 DEF Dry
  <2>7. Behind'
    BY <1>0, <1>1, <1>4, <2>1, <2>2, <2>3, <2>4 DEF Behind
  <2>8. Fresh' /\ Unfailed' /\ Paired'
    <3>0. /\ "active" \in Standings /\ "retained" \in Standings /\ UNCHANGED <<turns, journal, suspended>>
          /\ \A u \in Turns : segs[u].status = "none" => segs'[u].status = "none"
      BY <2>2 DEF Standings
    <3>1. CASE l = "active"
      <4>1. PICK o : Begins(a, "reactivate", FALSE, o)
        BY <2>1, <3>1
      <4>2. lifecycle' = [lifecycle EXCEPT ![a] = "active"]
        BY <2>1, <3>1
      <4>3. ("active" # "active" \/ "reactivate" = "reactivate") /\ ("reactivate" = "delete" => "active" = "deleting")
        OBVIOUS
      <4> QED
        BY <3>0, <4>1, <4>2, <4>3, CleanBegins
    <3>2. CASE l = "retained"
      <4>1. PICK o : Begins(a, "retain", FALSE, o)
        BY <2>1, <3>2
      <4>2. lifecycle' = [lifecycle EXCEPT ![a] = "retained"]
        BY <2>1, <3>2
      <4>3. ("retained" # "active" \/ "retain" = "reactivate") /\ ("retain" = "delete" => "retained" = "deleting")
        OBVIOUS
      <4> QED
        BY <3>0, <4>1, <4>2, <4>3, CleanBegins
    <3> QED
      BY <2>1, <3>1, <3>2
  <2> QED
    BY <2>5, <2>6, <2>7, <2>8 DEF Clean, Undone
<1>6. CASE Delete(a, fails)
  <2>1. /\ Begins(a, "delete", FALSE, {Contents}) /\ lifecycle' = [lifecycle EXCEPT ![a] = "deleting"]
        /\ SetMemory(Without(a, Contents)) /\ UNCHANGED <<turns, suspended>>
        /\ disk' = [Without(a, disk) EXCEPT !.lifecycle[a] = "deleted"]
    BY <1>3, <1>6 DEF Delete
  <2>2. /\ journal' = journal
        /\ segs' = [t \in Turns |-> IF Owner[t] = a THEN NoSegment ELSE segs[t]]
        /\ cards' = [t \in Turns |-> IF Owner[t] = a THEN "none" ELSE cards[t]]
        /\ refs' = {r \in refs : Owner[r[2]] # a}
    BY <2>1, ContentsWithout
  <2>3. /\ disk'.segs = [t \in Turns |-> IF Owner[t] = a THEN NoSegment ELSE disk.segs[t]]
        /\ disk'.cards = [t \in Turns |-> IF Owner[t] = a THEN "none" ELSE disk.cards[t]]
        /\ disk'.refs = {r \in disk.refs : Owner[r[2]] # a}
        /\ disk'.lifecycle = [disk.lifecycle EXCEPT ![a] = "deleted"]
    BY <1>0, <2>1, DiskWithout
  <2>4. /\ lifecycle'[a] = "deleting" /\ \A b \in Agents \ {a} : lifecycle'[b] = lifecycle[b]
        /\ disk'.lifecycle[a] = "deleted" /\ \A b \in Agents \ {a} : disk'.lifecycle[b] = disk.lifecycle[b]
    BY <1>0, <2>1, <2>3
  <2>5. NoSegment.status = "none"
    BY DEF NoSegment
  <2>6. \A t \in Turns : /\ Owner[t] = a => segs'[t].status = "none" /\ cards'[t] = "none"
                                            /\ disk'.segs[t].status = "none" /\ disk'.cards[t] = "none"
                         /\ Owner[t] # a => segs'[t] = segs[t] /\ cards'[t] = cards[t]
                                            /\ disk'.segs[t] = disk.segs[t] /\ disk'.cards[t] = disk.cards[t]
    BY <2>2, <2>3, <2>5
  <2>7. Live'
    <3>1. \A r \in refs' : r \in refs /\ r[2] \in Turns /\ Owner[r[2]] # a
      BY <1>0, <2>2
    <3> QED
      BY <1>0, <1>1, <2>4, <2>6, <3>1 DEF Live
  <2>8. \A r \in disk'.refs : r \in disk.refs /\ r[2] \in Turns /\ Owner[r[2]] # a
    BY <1>0, <2>3
  <2>9. Dry'
    BY <1>0, <1>1, <1>4, <2>4, <2>6, <2>8 DEF Dry
  <2>10. Behind'
    <3>1. \A r \in disk'.refs : r \in refs' \/ r[1] \in Pending'
      BY <1>1, <1>4, <2>2, <2>8 DEF Behind
    <3>2. \A b \in Agents : /\ disk'.lifecycle[b] = "deleted" => lifecycle'[b] \in {"deleting", "deleted"}
                            /\ disk'.lifecycle[b] # "deleting"
      BY <1>1, <2>4 DEF Behind
    <3> QED
      BY <1>1, <2>6, <3>1, <3>2 DEF Behind
  <2>11. Fresh' /\ Unfailed' /\ Paired'
    <3>1. "deleting" \in Standings /\ \A u \in Turns : segs[u].status = "none" => segs'[u].status = "none"
      BY <2>6 DEF Standings
    <3> QED
      BY <2>1, <2>2, <3>1, CleanBegins
  <2> QED
    BY <2>7, <2>9, <2>10, <2>11 DEF Clean, Undone
<1> QED
  BY <1>5, <1>6

LEMMA CleanReturn ==
    ASSUME Firm, Clean, NEW a \in Agents, Return(a) PROVE Clean'
<1>0. /\ lifecycle \in [Agents -> Standings] /\ \A t \in Turns : Owner[t] \in Agents
  BY MemoryAssumption DEF Firm, Modes
<1>1. /\ Live /\ Dry /\ Behind /\ Fresh /\ Unfailed /\ Paired
  BY DEF Clean, Undone
<1>2. PICK c \in changing : Confirmed(c)
  BY <1>1 DEF Return, RolledBack, Unfailed
<1>3. /\ changing' = changing \ {c} /\ UNCHANGED <<turns, journal, cards, refs, suspended, batch>>
      /\ lifecycle' = IF c.kind = "delete" THEN [lifecycle EXCEPT ![c.agent] = "deleted"] ELSE lifecycle
  BY <1>2 DEF Confirmed, modeVars
<1>4. c.agent \in Agents
  BY DEF Firm, Modes
<1>5. Unfailed'
  BY <1>1, <1>3 DEF Unfailed
<1>6. ASSUME \A u \in Turns : segs[u].status = "none" => segs'[u].status = "none" PROVE Fresh' /\ Paired'
  <2>1. \A b \in Agents \ {c.agent} : lifecycle'[b] = lifecycle[b]
    BY <1>0, <1>3
  <2>2. \A e \in changing' : e \in changing /\ e.agent # c.agent /\ e.agent \in Agents
    BY <1>1, <1>3 DEF Paired, Firm, Modes
  <2>3. Paired'
    BY <1>1, <1>3, <2>1, <2>2 DEF Paired
  <2>4. ASSUME NEW t \in Turns, turns[t].runs PROVE Active(Owner[t])' /\ Changes(Owner[t])' = {}
    <3>1. Active(Owner[t]) /\ Changes(Owner[t]) = {} /\ Owner[t] \in Agents
      BY <1>0, <1>1, <2>4 DEF Fresh
    <3>2. Owner[t] # c.agent
      BY <3>1 DEF Changes
    <3> QED
      BY <1>3, <2>1, <3>1, <3>2 DEF Active, Changes
  <2>5. Fresh'
    BY <1>1, <1>3, <1>6, <2>4 DEF Fresh
  <2> QED
    BY <2>3, <2>5
<1>7. CASE c.kind = "reactivate"
  <2>1. /\ segs' = Resumed(segs) /\ disk' = Captured(Segments(In(segs, "PROCESSING"))) /\ UNCHANGED lifecycle
    BY <1>2, <1>3, <1>7 DEF Confirmed, ResumePending
  <2>2. Segments(In(segs, "PROCESSING")).gone = {}
    BY DEF Segments, NoBatch
  <2>3. Live' /\ Dry' /\ Behind'
    BY <1>3, <2>1, <2>2, ResumedCaptured
  <2>4. Fresh' /\ Paired'
    BY <1>3, <1>6, <2>1, ResumedKeeps
  <2> QED
    BY <1>5, <2>3, <2>4 DEF Clean, Undone
<1>8. CASE c.kind # "reactivate"
  <2>1. UNCHANGED <<segs, disk>>
    BY <1>2, <1>8 DEF Confirmed
  <2>2. \A b \in Agents : /\ lifecycle'[b] \in {"deleting", "deleted"} <=> lifecycle[b] \in {"deleting", "deleted"}
    BY <1>0, <1>1, <1>3, <1>4 DEF Paired
  <2>3. Pending' = Pending
    BY <1>3 DEF Pending
  <2>4. Live'
    BY <1>0, <1>1, <1>3, <2>1, <2>2 DEF Live
  <2>5. Dry'
    BY <1>1, <2>1, <2>3 DEF Dry
  <2>6. Behind'
    BY <1>1, <1>3, <2>1, <2>2, <2>3 DEF Behind
  <2>7. Fresh' /\ Paired'
    BY <1>6, <2>1
  <2> QED
    BY <1>5, <2>4, <2>5, <2>6, <2>7 DEF Clean, Undone
<1> QED
  BY <1>7, <1>8

\* A database that is accepted is loaded.
LEMMA LoadedKeeps ==
    ASSUME Firm, Clean, Loaded(disk), UNCHANGED disk,
           \A t \in Turns : ~turns'[t].runs /\ turns'[t].begun = turns[t].begun
    PROVE  Live' /\ Dry' /\ Behind' /\ Fresh'
<1>0. /\ disk.segs \in [Turns -> Sound] /\ disk.cards \in [Turns -> CardStates]
      /\ disk.refs \in SUBSET (Nat \X Turns) /\ disk.lifecycle \in [Agents -> Standings]
  BY DEF Firm, Stored, Disks
<1>1. Behind /\ Fresh
  BY DEF Clean, Undone
<1>2. /\ segs' = Resumed(disk.segs) /\ cards' = disk.cards /\ refs' = disk.refs /\ lifecycle' = disk.lifecycle
      /\ Valid(disk, Living(disk.lifecycle))
  BY DEF Loaded
<1>3. \A t \in Turns : /\ segs'[t].status = IF disk.segs[t].status = "PROCESSING" THEN "PENDING"
                                            ELSE disk.segs[t].status
                       /\ segs'[t].whole = disk.segs[t].whole
  BY <1>0, <1>2, ResumedSound
<1>4. /\ \A t \in Turns : disk.segs[t].status # "none" => /\ Owner[t] \in Agents /\ disk.segs[t].whole
                                                         /\ disk.lifecycle[Owner[t]] # "deleted"
      /\ \A t \in Turns : disk.cards[t] # "none" <=> disk.segs[t].status = "INDEXED"
      /\ \A r \in disk.refs : disk.cards[r[2]] = "active"
  BY <1>2 DEF Valid, Present, Living
<1>5. Live'
  BY <1>1, <1>2, <1>3, <1>4 DEF Live, Behind
<1>6. Dry'
  BY <1>4 DEF Dry
<1>7. Behind'
  <2>1. \A a \in Agents : /\ disk'.lifecycle[a] = "deleted" => lifecycle'[a] \in {"deleting", "deleted"}
                          /\ disk'.lifecycle[a] # "deleting"
    BY <1>1, <1>2 DEF Behind
  <2> QED
    BY <1>2, <1>3, <2>1 DEF Behind
<1>8. Fresh'
  <2>1. \A t \in Turns : segs[t].status = "none" => segs'[t].status = "none"
    BY <1>1, <1>3 DEF Behind
  <2> QED
    BY <1>1, <2>1 DEF Fresh
<1> QED
  BY <1>5, <1>6, <1>7, <1>8

LEMMA CleanRestore ==
    ASSUME Firm, Clean, Suspend \/ EndLoad \/ Restart PROVE Clean'
<1>0. /\ lifecycle \in [Agents -> Standings] /\ \A t \in Turns : Owner[t] \in Agents
      /\ turns \in [Turns -> Turning]
  BY MemoryAssumption DEF Firm, Modes, Turning
<1>1. /\ Live /\ Dry /\ Behind /\ Fresh /\ Unfailed /\ Paired
  BY DEF Clean, Undone
<1>2. CASE Suspend
  <2>1. /\ segs' = Resumed(segs) /\ disk' = Captured(Segments(In(segs, "PROCESSING")))
        /\ UNCHANGED <<turns, journal, cards, refs, batch, lifecycle, changing>>
        /\ changing = {} /\ \A a \in Agents : ~Locked(a)
    BY <1>2 DEF Suspend
  <2>2. Segments(In(segs, "PROCESSING")).gone = {}
    BY DEF Segments, NoBatch
  <2>3. Live' /\ Dry' /\ Behind'
    BY <2>1, <2>2, ResumedCaptured
  <2>4. \A u \in Turns : segs[u].status = "none" => segs'[u].status = "none"
    BY <2>1, ResumedKeeps
  <2>5. Fresh' /\ Unfailed'
    BY <1>1, <2>1, <2>4, FreshSame DEF Unfailed
  <2>6. \A t \in Turns : ~turns[t].runs
    BY <1>0, <2>1 DEF Locked, OwnedBy
  <2>7. Paired'
    BY <1>1, <2>1, <2>6 DEF Paired
  <2> QED
    BY <2>3, <2>5, <2>7 DEF Clean, Undone
<1>3. CASE EndLoad
  <2>1. PICK ok \in BOOLEAN : EndRestore(ok)
    BY <1>3 DEF EndLoad
  <2>2. /\ suspended /\ ~suspended' /\ UNCHANGED <<turns, journal, batch, changing, disk>>
        /\ changing = {} /\ \A t \in Turns : ~turns[t].runs
    BY <1>1, <2>1 DEF EndRestore, Paired
  <2>3. Paired' /\ Unfailed'
    BY <2>2 DEF Paired, Unfailed
  <2>4. CASE ok
    <3>1. Loaded(disk)
      BY <2>1, <2>4 DEF EndRestore
    <3>2. Live' /\ Dry' /\ Behind' /\ Fresh'
      BY <2>2, <3>1, LoadedKeeps
    <3> QED
      BY <2>3, <3>2 DEF Clean, Undone
  <2>5. CASE ~ok
    <3>1. UNCHANGED <<segs, cards, refs, lifecycle>>
      BY <2>1, <2>5 DEF EndRestore
    <3>2. Live'
      BY <1>1, <3>1 DEF Live
    <3>3. Dry' /\ Behind'
      BY <1>1, <2>2, <3>1, DiskSame
    <3>4. Fresh'
      BY <1>1, <2>2, <3>1, FreshSame
    <3> QED
      BY <2>3, <3>2, <3>3, <3>4 DEF Clean, Undone
  <2> QED
    BY <2>4, <2>5
<1>4. CASE Restart
  <2>1. /\ Loaded(disk) /\ changing' = {} /\ UNCHANGED disk /\ suspended' = FALSE
        /\ turns' = [t \in Turns |-> [turns[t] EXCEPT !.runs = FALSE, !.recalled = {}]]
    BY <1>4 DEF Restart
  <2>2. ASSUME NEW t \in Turns PROVE ~turns'[t].runs /\ turns'[t].begun = turns[t].begun
    <3>1. turns[t] \in Turning
      BY <1>0
    <3>2. turns'[t] = [[turns[t] EXCEPT !.runs = FALSE] EXCEPT !.recalled = {}]
      BY <2>1, <3>1 DEF Turning
    <3> QED
      BY <3>1, <3>2 DEF Turning
  <2>3. Live' /\ Dry' /\ Behind' /\ Fresh'
    BY <2>1, <2>2, LoadedKeeps
  <2>4. Paired' /\ Unfailed'
    BY <2>1 DEF Paired, Unfailed
  <2> QED
    BY <2>3, <2>4 DEF Clean, Undone
<1> QED
  BY <1>2, <1>3, <1>4

-----------------------------------------------------------------------------

CleanUnlessFailed == spent["faults"] = 0 => Clean
RestorableInv == Firm /\ Batches /\ CleanUnlessFailed

LEMMA RestorableNext == RestorableInv /\ [Next]_vars => RestorableInv'
<1> SUFFICES ASSUME RestorableInv, [Next]_vars PROVE RestorableInv'
  OBVIOUS
<1>1. Firm' /\ Batches'
  BY FirmNext, BatchesNext DEF RestorableInv
<1>2. ASSUME spent'["faults"] = 0 PROVE Clean'
  <2>1. Firm /\ Batches /\ Clean
    BY <1>2, FaultsCounted DEF RestorableInv, CleanUnlessFailed
  <2>2. ASSUME NEW a \in Agents, OfAgent(a) PROVE Clean'
    BY <1>2, <2>1, <2>2, CleanChanges, CleanReturn DEF OfAgent
  <2>3. CASE UNCHANGED vars
    <3>1. UNCHANGED <<segs, cards, refs, disk, batch, lifecycle, changing, suspended, journal, turns>>
      BY <2>3 DEF vars, memVars, modeVars
    <3> QED
      BY <2>1, <3>1, CleanSame
  <2> QED
    BY <2>1, <2>2, <2>3, CleanTurns, CleanWork, CleanHost, CleanRestore DEF Next
<1> QED
  BY <1>1, <1>2 DEF RestorableInv, CleanUnlessFailed

LEMMA RestorableInit == Init => RestorableInv
<1> SUFFICES ASSUME Init PROVE RestorableInv
  OBVIOUS
<1>1. Firm
  BY FirmInit
<1>2. Batches
  BY DEF Init, Batches
<1>3. /\ \A t \in Turns : segs[t].status = "none" /\ cards[t] = "none" /\ ~turns[t].runs
      /\ refs = {} /\ disk.segs = segs /\ disk.cards = cards /\ disk.refs = {} /\ disk.lifecycle = lifecycle
      /\ changing = {} /\ suspended = FALSE /\ \A a \in Agents : lifecycle[a] = "active"
  BY DEF Init, NoSegment
<1>4. Live /\ Dry /\ Behind /\ Fresh /\ Unfailed /\ Paired
  BY <1>3 DEF Live, Dry, Behind, Fresh, Unfailed, Paired
<1> QED
  BY <1>1, <1>2, <1>4 DEF RestorableInv, CleanUnlessFailed, Clean, Undone

\* What validate_memory_state asks follows from the parts.
LEMMA CleanIsRestorable == RestorableInv => Restorable
<1> SUFFICES ASSUME RestorableInv, spent["faults"] = 0
             PROVE  /\ Valid(Contents, {a \in Agents : lifecycle[a] \notin {"deleting", "deleted"}})
                    /\ LET pending == UNION {batch[d].gone : d \in Talks}
                       IN  Valid([disk EXCEPT !.refs = {r \in @ : r[1] \notin pending}], Living(disk.lifecycle))
  BY DEF Restorable
<1>1. Live /\ Dry /\ \A t \in Turns : Owner[t] \in Agents
  BY MemoryAssumption DEF RestorableInv, CleanUnlessFailed, Clean, Undone
<1>2. Valid(Contents, {a \in Agents : lifecycle[a] \notin {"deleting", "deleted"}})
  BY <1>1 DEF Live, Valid, Contents, Present
<1> DEFINE x == [disk EXCEPT !.refs = {r \in disk.refs : r[1] \notin Pending}]
<1>3. x.segs = disk.segs /\ x.cards = disk.cards /\ x.refs = {r \in disk.refs : r[1] \notin Pending}
  BY DEF RestorableInv, Firm, Stored, Disks
<1> HIDE DEF x
<1>4. Valid(x, Living(disk.lifecycle))
  BY <1>1, <1>3 DEF Dry, Valid, Present, Living
<1> QED
  BY <1>2, <1>4 DEF x, Pending

\* While no flush of a change of an identity has failed, validate_memory_state
\* accepts the live memory and what is saved (memory/service: journal.py, catalog.py,
\* indexing.py, and the batches of discussions save in different orders), for
\* any number of Agents, turns, discussions and references.
THEOREM MemoryStaysRestorable == Spec => []Restorable
BY RestorableInit, RestorableNext, CleanIsRestorable, PTL DEF Spec

=============================================================================
